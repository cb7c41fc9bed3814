------------------------------ MODULE ChatGraph ------------------------------
(***************************************************************************)
(* One session of the chat graph: orchestrator/graph.py, nodes.py,         *)
(* classifier.py and evaluation.py under POST /chat.  The user sends one   *)
(* message after the other; each runs through the nodes of the graph, is   *)
(* answered and becomes a turn of the conversation the next one is read    *)
(* with.                                                                   *)
(***************************************************************************)
EXTENDS GeneralistAgent, PRReviewAgent, TicketAgent, SprintAgents

CONSTANTS Queries,   \* messages the user may send
          Enabled,   \* intents whose agent is enabled in agents.yaml
          Window,    \* recent_window
          Past,      \* conversations the session may have had before
          MaxTurns   \* bound: messages of the session

ASSUME GraphAssumption ==
    /\ Window \in Nat \ {0} /\ MaxTurns \in Nat
    /\ \A q \in Queries : q.ids \in Seq(Ids)
    /\ Past \subseteq Seq([query : Seq(Ids), reply : Seq(Ids)])

VARIABLES pc,        \* the node that runs next; "idle" between two messages
          turn,      \* SDLCState of the message in the graph
          history,   \* the turns the session store holds, as they are read back
          saved,     \* cards HITLManager saved, by id
          sent       \* messages sent so far

vars == <<pc, turn, history, saved, sent>>

Intents == {"cross_source", "ticket", "risk", "pr_review", "release_readiness", "notify"}
Faiths == {20, 50, 100}       \* what the faithfulness judge may say
NotJudged == -1
Unscored == 0                 \* result.get("faithfulness", 0.0)

\* form: who wrote the text the user gets; score: what the judge said of it.  A
\* turn keeps the verdict on the text before any revision (first) and the one
\* that goes with the reply (faith).
Text(form) == [form |-> form, score |-> NotJudged]

EmptyTurn(q) ==
    [ q |-> q, recent |-> <<>>, intent |-> "none", payload |-> Notice(0, {}),
      ran |-> {}, text |-> Text("agent"), first |-> Unscored, faith |-> Unscored,
      cardId |-> 0 ]

NoTurn == EmptyTurn([ids |-> <<>>, words |-> {}, named |-> NoName, reviewer |-> NoName])

\* ---- routing --------------------------------------------------------------
KeywordOrder == <<"notify", "release_readiness", "risk", "pr_review", "ticket", "cross_source">>

\* keyword_classify: the first enabled agent one of whose keywords occurs.
KeywordIntent(q) ==
    LET hits == {i \in DOMAIN KeywordOrder :
                   KeywordOrder[i] \in Enabled /\ KeywordOrder[i] \in q.words}
    IN  IF hits = {} THEN "cross_source" ELSE KeywordOrder[Min(hits)]

\* llm_classify: the first intent the LLM names that any agent has, enabled or
\* not; the keywords when it names none, fails, or no agent is described.
Classified(q) ==
    {KeywordIntent(q)} \cup (IF Enabled = {} THEN {} ELSE Intents)

\* ---- nodes ----------------------------------------------------------------
Receive(q) ==
    /\ pc = "idle" /\ sent < MaxTurns
    /\ turn' = EmptyTurn(q)
    /\ sent' = sent + 1
    /\ pc' = "retrieve_memory"
    /\ UNCHANGED <<history, saved>>

\* The recent window; empty when the store cannot be read.
RetrieveMemory ==
    /\ pc = "retrieve_memory"
    /\ \E recent \in { SubSeq(history, Max({1, Len(history) - Window + 1}), Len(history)),
                       <<>> } :
         turn' = [turn EXCEPT !.recent = recent]
    /\ pc' = "classify_intent"
    /\ UNCHANGED <<history, saved, sent>>

\* route_by_intent: every intent has its agent, a blocked message has none.
NodeOf(intent) == IF intent = "blocked" THEN "adapt_persona" ELSE "agent"

\* The input guard says UNSAFE: the canned text goes past agents and gate.
Block ==
    /\ pc = "classify_intent"
    /\ turn' = [turn EXCEPT !.intent = "blocked",
                            !.payload = [Notice(0, {}) EXCEPT !.kind = "blocked"]]
    /\ pc' = NodeOf("blocked")
    /\ UNCHANGED <<history, saved, sent>>

ClassifyIntent ==
    /\ pc = "classify_intent"
    /\ \E intent \in Classified(turn.q) :
         turn' = [turn EXCEPT !.intent = intent] /\ pc' = NodeOf(intent)
    /\ UNCHANGED <<history, saved, sent>>

\* What the agent of an intent may return, each with the tools it ran.
Without(replies) == {[payload |-> p, ran |-> {}] : p \in replies}

Runs(intent, q, recent) ==
    CASE intent = "cross_source" -> RunGeneralist(q)
      [] intent = "ticket" -> Without(RunTicket(q, recent))
      [] intent = "risk" -> Without(RunRisk)
      [] intent = "pr_review" -> Without(RunPrReview(q, recent))
      [] intent = "release_readiness" -> Without(RunReleaseReadiness)
      [] intent = "notify" -> RunNotify(q)

RunAgent ==
    /\ pc = "agent"
    /\ \E run \in Runs(turn.intent, turn.q, turn.recent) :
         /\ run.payload # Raised
         /\ turn' = [turn EXCEPT !.payload = run.payload, !.ran = run.ran]
    /\ pc' = "hitl_gate"
    /\ UNCHANGED <<history, saved, sent>>

\* graph.ainvoke raises: the request fails and leaves no turn.
AgentRaises ==
    /\ pc = "agent"
    /\ \E run \in Runs(turn.intent, turn.q, turn.recent) : run.payload = Raised
    /\ pc' = "idle"
    /\ turn' = NoTurn
    /\ UNCHANGED <<history, saved, sent>>

IdOf(cards) == Len(cards)

CheckHitl ==
    /\ pc = "hitl_gate"
    /\ IF IsCard(turn.payload.card)
       THEN /\ saved' = Append(saved, turn.payload.card)
            /\ turn' = [turn EXCEPT !.cardId = IdOf(saved')]
       ELSE UNCHANGED <<saved, turn>>
    /\ pc' = "adapt_persona"
    /\ UNCHANGED <<history, sent>>

\* adapt_persona returns early: a card, skip_persona, or nothing to adapt.
NoData(p) == p.confidence = 0 /\ ~p.chunks /\ p.sources = {}

\* Wrong on purpose: skip_persona is ignored.
TouchesSkipped(p) == IsCard(p.card) \/ NoData(p)

\* Wrong on purpose: a proposal is text like any other.
TouchesCards(p) == p.skip \/ NoData(p)

Untouched(p) == IsCard(p.card) \/ p.skip \/ NoData(p)

LeaveText ==
    /\ pc = "adapt_persona" /\ Untouched(turn.payload)
    /\ pc' = "reply"
    /\ UNCHANGED <<turn, history, saved, sent>>

\* PersonaAdapter: the rewritten text; the original for a text it must not
\* rewrite, or when the LLM fails or returns nothing.
Adapted(p) ==
    {Text("agent")} \cup (IF p.kind \in {"refusal", "hedged", "outage"} THEN {} ELSE {Text("adapted")})

\* faithfulness_score: 1.0 without chunks and when the judge fails.
Verdicts(p) == IF p.chunks THEN Faiths ELSE {100}

\* _used_mcp: live data counts only when the gather loop brought it.
UsedMcp(p) == "mcp" \in p.sources

Reflects(p, faith) == faith < ReflectMin /\ p.chunks /\ ~UsedMcp(p)

\* _reflect_and_revise: the revision stays only when it is judged better.
\* Wrong on purpose: the score of the first text stays.
RevisedUnscored(text, score) ==
    IF score > text.score THEN [text EXCEPT !.form = "revised"] ELSE text

Revised(text, score) ==
    IF score > text.score THEN [form |-> "revised", score |-> score] ELSE text

\* evaluate_response, with the outcomes of a revision that failed or was empty.
Evaluated(p, adapted, faith, score) ==
    LET text == [adapted EXCEPT !.score = faith]
    IN  IF Reflects(p, faith) THEN {text, Revised(text, score)} ELSE {text}

AdaptPersona ==
    /\ pc = "adapt_persona" /\ ~Untouched(turn.payload)
    /\ \E adapted \in Adapted(turn.payload),
          faith \in Verdicts(turn.payload), score \in Faiths :
         \E text \in Evaluated(turn.payload, adapted, faith, score) :
           turn' = [turn EXCEPT !.text = text, !.first = faith, !.faith = text.score]
    /\ pc' = "reply"
    /\ UNCHANGED <<history, saved, sent>>

\* chat(): the turn is stored, a proposal with the placeholder for its text.
\* A text an LLM wrote mentions what ids it likes; of a reply only the ids in its
\* first 300 characters are ever read again.  The store ignores errors.
Reply ==
    /\ pc = "reply"
    /\ \E ids \in Starts(turn.payload.ids) \cup
                  (IF turn.payload.skip THEN {} ELSE {<<i>> : i \in Ids}) :
       \E stored \in BOOLEAN :
         history' = IF stored
                    THEN Append(history,
                           [ query |-> turn.q.ids,
                             reply |-> IF IsCard(turn.payload.card) THEN <<>> ELSE ids ])
                    ELSE history
    /\ pc' = "idle"
    /\ turn' = NoTurn
    /\ UNCHANGED <<saved, sent>>

Init ==
    /\ pc = "idle" /\ history \in Past /\ saved = <<>> /\ sent = 0
    /\ turn = NoTurn

Next ==
    \/ \E q \in Queries : Receive(q)
    \/ RetrieveMemory \/ Block \/ ClassifyIntent \/ RunAgent \/ AgentRaises
    \/ CheckHitl \/ LeaveText \/ AdaptPersona \/ Reply

Spec == Init /\ [][Next]_vars
-----------------------------------------------------------------------------
(***************************************************************************)
(* Properties                                                              *)
(***************************************************************************)
Replying == pc = "reply"
Holding == Replying /\ IsCard(turn.payload.card)

\* An answer about the project rests on something: what the generalist or the
\* risk agent states comes from chunks that pass the evidence threshold, from
\* live data, or at the least from tools that came back, whatever retrieval,
\* tools, retries and fallbacks gave (BaseAgent._low_confidence_guard,
\* mcp_agent.py's empty-handed refusal).  The last case is as far as the code
\* goes: a result {"error": ...} or an empty board is no exception and lets an
\* answer through that has no fact to rest on; only notify_agent.py filters it.
AnswersAreGrounded ==
    Replying /\ turn.intent \in {"cross_source", "risk"}
             /\ turn.payload.kind \in {"answer", "hedged", "card"} =>
        \/ turn.payload.live \/ turn.payload.told
        \/ turn.payload.chunks /\ turn.payload.confidence >= NoEvidence

\* A refusal, the guard's text or a bare outage message reaches the user in the
\* words it was written in (PersonaAdapter's prefixes, skip_persona, is_no_data).
\* The generalist's outage message over chunks the judge finds it unfaithful to
\* does not: it gets the prefix of a hedged answer, loses skip_persona and may be
\* revised into an answer, though base_agent.py and mcp_agent.py say it must
\* reach the user verbatim.  Of that one text only this is left: no persona
\* rewrites it, and a text that replaces it was judged better.
RefusalsStand ==
    Replying =>
        /\ turn.payload.kind \in {"refusal", "blocked", "unavailable"} =>
               turn.text.form = "agent"
        /\ turn.payload.kind = "outage" =>
               \/ turn.text.form = "agent"
               \/ turn.text.form = "revised" /\ turn.faith > turn.first

\* A reply is exchanged for a revision only to improve it and only when nothing
\* can be lost by it: the answer came from chunks, no tool of the gather loop had
\* run for it, and the judge had found it below the threshold and the revision
\* better; a reply not revised goes with the verdict on itself.
\* (evaluation.py: _used_mcp, new_faith > faith.  Live data that the release
\* agent or a ticket's status brought is not counted there and may be lost.)
RevisedOnlyToImprove ==
    Replying /\ ~Untouched(turn.payload) =>
        IF turn.text.form = "revised"
        THEN /\ turn.payload.chunks /\ turn.ran = {}
             /\ turn.first < ReflectMin /\ turn.faith > turn.first
        ELSE turn.faith = turn.first

\* The card a human decides on is the one the agent wrote and HITLManager has:
\* the reply offers an id exactly when there is a proposal, under that id lies
\* that proposal, of an action the role matrix knows, and no later node
\* rewrote its text (check_hitl, adapt_persona).
CardsReachUser ==
    Replying =>
        /\ IsCard(turn.payload.card) <=> turn.cardId # 0
        /\ IsCard(turn.payload.card) =>
               /\ saved[turn.cardId] = turn.payload.card
               /\ turn.payload.card.action \in AllActions
               /\ turn.text.form = "agent"

TicketWrites == {"assign_ticket", "deassign_ticket", "comment_ticket", "edit_ticket"}

\* A proposal to change a ticket is about the first id the message names; when
\* it names none, about an id an earlier turn of the window names, in its message
\* or in the first 300 characters of its reply, after which no turn names another
\* one (_last_ticket_id_from_history), also when the store could not be read or
\* earlier turns were proposals.  What a reply says further down is out of sight:
\* "it" then means the ticket named before.
CardsNameTheirTicket ==
    Holding /\ turn.payload.card.action \in TicketWrites =>
        LET target == turn.payload.card.target
        IN  IF FirstOf(turn.q.ids, Ids) # NoId THEN target = FirstOf(turn.q.ids, Ids)
            ELSE \E i \in DOMAIN history :
                   /\ Len(history) - i < Window
                   /\ target \in Range(history[i].query) \cup Range(history[i].reply)
                   /\ \A j \in i + 1..Len(history) :
                        MentionOf(history[j], Ids) = NoId

\* While a message is answered no write tool runs and none an administrator
\* disabled; a blocked message runs no tool at all (gather_via_tools).
OnlyReadsRun ==
    /\ turn.ran \subseteq Reads \ Disabled
    /\ turn.intent = "blocked" => turn.ran = {} /\ turn.cardId = 0
=============================================================================
