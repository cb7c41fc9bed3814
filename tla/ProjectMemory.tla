---------------------------- MODULE ProjectMemory ----------------------------
(***************************************************************************)
(* What the assistant remembers of a project and who touches it: chats     *)
(* read the session's turns before their agent runs, store a turn and      *)
(* learn facts from it afterwards (nodes.py, api/routes/chat.py);          *)
(* decisions on approval cards record an event and overwrite a turn        *)
(* (api/routes/hitl.py, episodic_memory.py); an administrator clears facts *)
(* or everything.  Every call of the memory may fail, and none may fail    *)
(* the request it is made for.                                             *)
(*                                                                         *)
(* One process serves all of them on one event loop: the handlers          *)
(* interleave at their awaits, and the loop that stores the facts of a     *)
(* turn has none.  A process that dies in that loop leaves what an error   *)
(* of the same iteration leaves.                                           *)
(***************************************************************************)
EXTENDS TurnStore, SemanticMemory, SequencesExt

CONSTANTS Chats,        \* chat requests
          Decisions,    \* approvals and rejections
          FactsPerTurn  \* _extract_facts returns at most this many

ASSUME MemoryAssumption ==
    Callers = Chats \cup Decisions /\ Chats \cap Decisions = {} /\ FactsPerTurn \in Nat

VARIABLES st,       \* how far each request is
          left,     \* facts of the turn whose loop runs
          events    \* episodic_memory: decisions that were recorded

vars == <<turnVars, factVars, st, left, events>>

States == {"idle", "loading", "answering", "saving", "extracting",
           "storing", "updating", "done", "killed"}

TypeOK ==
    /\ TurnTypeOK /\ FactTypeOK
    /\ st \in [Callers -> States]
    /\ left \in Seq(Facts)
    /\ events \subseteq Decisions

Init ==
    /\ TurnInit /\ FactInit
    /\ st = [c \in Callers |-> "idle"]
    /\ left = <<>>
    /\ events = {}

Goes(c, from, to) == st[c] = from /\ st' = [st EXCEPT ![c] = to]

\* No request is inside extract_and_save's loop.
LoopFree == \A r \in Chats : st[r] # "storing"

-----------------------------------------------------------------------------
\* retrieve_memory_context: the turns of the session; retrieve_facts only reads.
BeginChat(r) ==
    /\ Goes(r, "idle", "loading")
    /\ Submit(r)
    /\ UNCHANGED <<factVars, left, events>>

TurnsLoaded(r) ==
    /\ Goes(r, "loading", "answering")
    /\ Query(r, rows) \/ QueryFails(r)
    /\ UNCHANGED <<factVars, left, events>>

\* graph.ainvoke returns and the turn is saved.
SaveTurn(r) ==
    /\ Goes(r, "answering", "saving")
    /\ Submit(r)
    /\ UNCHANGED <<factVars, left, events>>

\* Wrong on purpose: a store that fails fails the request.
TurnSavedOrRaised(r) ==
    /\ \/ Goes(r, "saving", "extracting") /\ Query(r, rows \cup {r})
       \/ Goes(r, "saving", "raised") /\ QueryFails(r)
    /\ UNCHANGED <<factVars, left, events>>

\* Facts are learned from an answer that is no proposal, no refusal and rests
\* on evidence.
TurnSaved(r) ==
    /\ Goes(r, "saving", "extracting") \/ Goes(r, "saving", "done")
    /\ Query(r, rows \cup {r}) \/ QueryFails(r)
    /\ UNCHANGED <<factVars, left, events>>

\* _extract_facts: what the LLM names, which may be nothing.
Extract(r) ==
    /\ st[r] = "extracting"
    /\ \E facts \in SeqOf(Facts, FactsPerTurn) :
         /\ st' = [st EXCEPT ![r] = IF facts = <<>> THEN "done" ELSE "storing"]
         /\ left' = facts
    /\ UNCHANGED <<turnVars, factVars, events>>

\* One turn of extract_and_save's loop; an error ends the loop.
Learn(r) ==
    /\ st[r] = "storing"
    /\ \/ /\ SkipFact(Head(left)) \/ StoreFact(Head(left))
          /\ left' = Tail(left)
       \/ StoreRaises(Head(left)) /\ left' = <<>>
    /\ st' = [st EXCEPT ![r] = IF left' = <<>> THEN "done" ELSE "storing"]
    /\ UNCHANGED <<turnVars, events>>

-----------------------------------------------------------------------------
\* approve and reject: record_event, which may fail, then the turn's outcome.
Decide(d) ==
    /\ Goes(d, "idle", "updating")
    /\ events' \in {events, events \cup {d}}
    /\ Submit(d)
    /\ UNCHANGED <<factVars, left>>

Decided(d) ==
    /\ Goes(d, "updating", "done")
    /\ Query(d, rows) \/ QueryFails(d)
    /\ UNCHANGED <<factVars, left, events>>

\* Inside an operation of the session store.
Connect(c) ==
    /\ PoolCreated(c) \/ SchemaReady(c)
    /\ UNCHANGED <<factVars, st, left, events>>

\* DELETE /admin/memory.
AdminMemoryClear ==
    /\ ClearFacts
    /\ UNCHANGED <<turnVars, st, left, events>>

\* POST /admin/clear-all: each store by itself, an error is noted.  Here its
\* second and fourth part, facts and turns; the chunks are RagIndex's
\* ClearChunks, the flush of Redis with the pending approvals is HITLManager's
\* FlushAll.  The events stay.
AdminClearAll ==
    /\ ClearFacts \/ UNCHANGED factVars
    /\ ClearTurns
    /\ UNCHANGED <<backend, pool, schema, botched, call, st, left, events>>

Age(f) == GrowOld(f) /\ UNCHANGED <<turnVars, st, left, events>>

Restart ==
    /\ TurnRestart
    /\ st' = [c \in Callers |-> IF st[c] \in {"idle", "done"} THEN st[c] ELSE "killed"]
    /\ UNCHANGED <<factVars, left, events>>

ChatStep(r) ==
    \/ BeginChat(r) \/ TurnsLoaded(r) \/ SaveTurn(r)
    \/ TurnSaved(r) \/ Extract(r)

Serve(c) ==
    \/ c \in Chats /\ ChatStep(c)
    \/ c \in Decisions /\ (Decide(c) \/ Decided(c))
    \/ Connect(c)

Next ==
    \/ \E r \in Chats : Learn(r)
    \/ /\ LoopFree
       /\ \/ \E c \in Callers : Serve(c)
          \/ AdminMemoryClear \/ AdminClearAll \/ Restart
          \/ \E f \in Facts : Age(f)

\* Requests that began are scheduled; database, LLM and Qdrant answer or raise.
Fairness ==
    \A c \in Callers : WF_vars((LoopFree /\ st[c] # "idle" /\ Serve(c)) \/ (c \in Chats /\ Learn(c)))

Spec == Init /\ [][Next]_vars /\ Fairness
-----------------------------------------------------------------------------
(***************************************************************************)
(* Properties; FactsAgree and LatestIsKnown of SemanticMemory besides      *)
(***************************************************************************)
\* A pool is in use without its table only while a caller is still creating
\* the table or after one failed to: however first callers race through
\* _get_pool, none leaves that to another.
PoolHasSchema ==
    pool /\ ~schema => botched \/ \E c \in Callers : call[c] = "migrating"

\* A request ends, answered, whatever the stores do to it, unless the process
\* dies: a pool that never comes, a table that is missing or a fact that cannot
\* be stored never fails it (the facades' except branches).
RequestsEnd ==
    \A c \in Callers : st[c] \in {"loading", "updating"} ~> st[c] \in {"done", "killed"}
=============================================================================
