------------------------ MODULE ProjectMemory_proofs ------------------------
(***************************************************************************)
(* Proofs about ProjectMemory, for any facts with any symmetric relations  *)
(* of similarity, any chats and decisions: type correctness, and that      *)
(* stored facts agree, the latest is known and the pool has its schema.    *)
(***************************************************************************)
EXTENDS ProjectMemory, SequenceTheorems, TLAPS

\* At most one request is inside the loop, and it has facts left.
LoopInv ==
    /\ \A r, q \in Chats : st[r] = "storing" /\ st[q] = "storing" => r = q
    /\ \A r \in Chats : st[r] = "storing" => left # <<>>

-----------------------------------------------------------------------------
(* The facts.                                                              *)

FactInv == FactTypeOK /\ FactsAgree /\ LatestIsKnown

\* Storing a fact keeps the facts in agreement: what contradicts it is gone, or
\* the fact is marked as unsure.
LEMMA StoreKeeps ==
    ASSUME FactInv, NEW f \in Facts, StoreFact(f)
    PROVE  FactInv'
<1> PICK gone \in Lookups(f) :
        /\ known' = [Forget(gone) EXCEPT ![f] = "fresh"]
        /\ unsure' = IF IsDuplicate(f) \/ gone # Supersedable(f)
                     THEN (unsure \ gone) \cup {f}
                     ELSE unsure \ (gone \cup {f})
        /\ latest' = f
    BY DEF StoreFact
<1>1. gone \subseteq Stored /\ Stored \subseteq Facts
    BY DEF Lookups, Supersedable, Stored
<1>2. known' \in [Facts -> {"no", "fresh", "old"}]
    BY DEF FactInv, FactTypeOK, Forget
<1>3. Stored' = (Stored \ gone) \cup {f}
    <2>1. \A g \in Facts : known'[g] = IF g = f THEN "fresh"
                                       ELSE IF g \in gone THEN "no" ELSE known[g]
        BY DEF Forget
    <2> QED
        BY <2>1 DEF Stored
<1>4. unsure' \subseteq Stored'
    <2>1. unsure \subseteq Stored
        BY DEF FactInv, FactTypeOK
    <2> QED
        BY <1>3, <2>1
<1>5. FactTypeOK'
    BY <1>2, <1>4 DEF FactTypeOK
<1>6. FactsAgree'
    <2> SUFFICES ASSUME NEW g \in Stored' \ unsure', NEW h \in Stored' \ unsure', g # h
                 PROVE  <<g, h>> \notin Same \cup Close
        BY DEF FactsAgree
    <2>1. \A k \in Stored' \ unsure' : k = f \/ k \in Stored \ (unsure \cup gone)
        BY <1>3
    <2>2. CASE g # f /\ h # f
        BY <2>1, <2>2 DEF FactInv, FactsAgree
    <2>3. CASE g = f \/ h = f
        <3>1. f \notin unsure'
            BY <2>3
        <3>2. ~IsDuplicate(f) /\ gone = Supersedable(f)
            BY <3>1
        <3>3. \A k \in Stored \ gone : <<f, k>> \notin Same /\ <<f, k>> \notin Close
            BY <1>1, <3>2 DEF IsDuplicate, Supersedable, SameAs, CloseTo
        <3>4. CASE g = f
            BY <2>1, <3>3, <3>4
        <3>5. CASE h = f
            <4>1. g \in Stored \ gone
                BY <2>1, <3>5
            <4>2. <<f, g>> \notin Same /\ <<f, g>> \notin Close
                BY <3>3, <4>1
            <4> QED
                BY <3>5, <4>2, FactAssumption
        <3> QED
            BY <2>3, <3>4, <3>5
    <2> QED
        BY <2>2, <2>3
<1>7. LatestIsKnown'
    BY <1>3, FactAssumption DEF LatestIsKnown, SameAs
<1> QED
    BY <1>5, <1>6, <1>7 DEF FactInv

\* Skipping a duplicate, a store that raises, age and a clear keep them too.
LEMMA OthersKeep ==
    ASSUME FactInv,
           \/ \E f \in Facts : SkipFact(f) \/ StoreRaises(f) \/ GrowOld(f)
           \/ ClearFacts
           \/ UNCHANGED factVars
    PROVE  FactInv'
<1> USE DEF FactInv, FactTypeOK, FactsAgree, LatestIsKnown
<1>1. ASSUME NEW f \in Facts, SkipFact(f) PROVE FactInv'
    BY <1>1 DEF SkipFact, IsDuplicate, Stored, SameAs
<1>2. ASSUME NEW f \in Facts, StoreRaises(f) PROVE FactInv'
    <2> PICK gone \in Lookups(f) : known' = Forget(gone) /\ unsure' = unsure \ gone
        BY <1>2 DEF StoreRaises
    <2>1. latest' = Nothing
        BY <1>2 DEF StoreRaises
    <2>2. known' \in [Facts -> {"no", "fresh", "old"}]
        BY DEF Forget
    <2>3. Stored' = Stored \ gone
        BY DEF Forget, Stored
    <2> QED
        BY <2>1, <2>2, <2>3
<1>3. ASSUME NEW f \in Facts, GrowOld(f) PROVE FactInv'
    <2>1. known' \in [Facts -> {"no", "fresh", "old"}] /\ Stored' = Stored
        BY <1>3 DEF GrowOld, Stored
    <2> QED
        BY <1>3, <2>1 DEF GrowOld, SameAs
<1>4. CASE ClearFacts
    <2>1. Stored' = {}
        BY <1>4 DEF ClearFacts, Stored
    <2> QED
        BY <1>4, <2>1 DEF ClearFacts
<1>5. CASE UNCHANGED factVars
    BY <1>5 DEF factVars, Stored, SameAs
<1> QED
    BY <1>1, <1>2, <1>3, <1>4, <1>5

-----------------------------------------------------------------------------
(* The pool.                                                               *)

TurnInv == TurnTypeOK /\ PoolHasSchema

\* The steps of one caller's operation.
LEMMA CallKeeps ==
    ASSUME TurnInv, NEW c \in Callers,
           \/ Submit(c) \/ PoolCreated(c) \/ SchemaReady(c) \/ QueryFails(c)
           \/ \E changed \in SUBSET Callers : Query(c, changed)
    PROVE  TurnInv'
<1> USE DEF TurnInv, TurnTypeOK, PoolHasSchema
<1>1. CASE Submit(c)
    BY <1>1 DEF Submit, Step, FirstAwait
<1>2. CASE PoolCreated(c)
    BY <1>2 DEF PoolCreated, Step
<1>3. CASE SchemaReady(c)
    BY <1>3 DEF SchemaReady, Step
<1>4. CASE QueryFails(c)
    <2>1. /\ call' \in [Callers -> {"none", "connecting", "migrating", "querying"}]
          /\ \A d \in Callers : d # c => call'[d] = call[d]
        BY <1>4 DEF QueryFails, Step
    <2>2. botched' \in BOOLEAN
        BY <1>4 DEF QueryFails
    <2>3. CASE call[c] = "migrating"
        BY <1>4, <2>1, <2>2, <2>3 DEF QueryFails
    <2>4. CASE call[c] # "migrating"
        BY <1>4, <2>1, <2>2, <2>4 DEF QueryFails
    <2> QED
        BY <2>3, <2>4
<1>5. ASSUME NEW changed \in SUBSET Callers, Query(c, changed) PROVE TurnInv'
    BY <1>5 DEF Query, Step
<1> QED
    BY <1>1, <1>2, <1>3, <1>4, <1>5

\* A restart, a clear and what others do.
LEMMA IdleKeeps ==
    ASSUME TurnInv, TurnRestart \/ UNCHANGED turnVars
                    \/ (ClearTurns /\ UNCHANGED <<backend, pool, schema, botched, call>>)
    PROVE  TurnInv'
<1> USE DEF TurnInv, TurnTypeOK, PoolHasSchema
<1>1. CASE TurnRestart
    BY <1>1 DEF TurnRestart
<1>2. CASE UNCHANGED turnVars
    BY <1>2 DEF turnVars
<1>3. CASE ClearTurns /\ UNCHANGED <<backend, pool, schema, botched, call>>
    BY <1>3 DEF ClearTurns
<1> QED
    BY <1>1, <1>2, <1>3

-----------------------------------------------------------------------------
(* Who is where.                                                           *)

FlowInv ==
    /\ st \in [Callers -> States] /\ left \in Seq(Facts) /\ events \subseteq Decisions
    /\ LoopInv

\* Moving a request to a state outside the loop keeps the loop's request.
LEMMA GoesKeeps ==
    ASSUME FlowInv, NEW c \in Callers, NEW to \in States \ {"storing"},
           st' = [st EXCEPT ![c] = to], left' = left,
           events' \in SUBSET Decisions
    PROVE  FlowInv'
BY DEF FlowInv, LoopInv

\* Entering the loop: nobody else is inside.
LEMMA ExtractKeeps ==
    ASSUME FlowInv, LoopFree, NEW r \in Chats, Extract(r)
    PROVE  FlowInv'
<1> PICK facts \in SeqOf(Facts, FactsPerTurn) :
        /\ st' = [st EXCEPT ![r] = IF facts = <<>> THEN "done" ELSE "storing"]
        /\ left' = facts
    BY DEF Extract
<1>1. facts \in Seq(Facts)
    <2>1. FactsPerTurn \in Nat
        BY MemoryAssumption
    <2>2. PICK n \in 0..FactsPerTurn : facts \in [1..n -> Facts]
        BY DEF SeqOf
    <2> QED
        BY <2>1, <2>2
<1>2. Chats \subseteq Callers
    BY MemoryAssumption
<1>3. events' = events
    BY DEF Extract
<1>4. st' \in [Callers -> States]
    BY <1>2 DEF FlowInv, States
<1>5. \A q \in Chats : st'[q] = "storing" => q = r /\ facts # <<>>
    BY <1>2 DEF FlowInv, LoopFree
<1>6. LoopInv'
    BY <1>5 DEF LoopInv
<1> QED
    BY <1>1, <1>3, <1>4, <1>6 DEF FlowInv

\* One turn of the loop.
LEMMA LearnKeeps ==
    ASSUME FlowInv, FactInv, NEW r \in Chats, Learn(r)
    PROVE  FlowInv' /\ FactInv' /\ UNCHANGED turnVars
<1>1. left \in Seq(Facts) /\ left # <<>>
    BY DEF Learn, FlowInv, LoopInv
<1>2. Head(left) \in Facts /\ Tail(left) \in Seq(Facts)
    BY <1>1
<1>3. FactInv'
    BY <1>2, StoreKeeps, OthersKeep DEF Learn
<1>4. left' \in Seq(Facts)
    <2>1. left' = Tail(left) \/ left' = <<>>
        BY DEF Learn
    <2>2. <<>> \in Seq(Facts)
        OBVIOUS
    <2> QED
        BY <1>2, <2>1, <2>2
<1>5. Chats \subseteq Callers
    BY MemoryAssumption
<1>6. st' \in [Callers -> States]
    BY <1>5 DEF Learn, FlowInv, States
<1>7. \A q \in Chats : st'[q] = "storing" => q = r /\ left' # <<>>
    BY <1>5 DEF Learn, FlowInv, LoopInv
<1> QED
    BY <1>3, <1>4, <1>6, <1>7 DEF Learn, FlowInv, LoopInv

-----------------------------------------------------------------------------
(* The invariant.                                                          *)

Inv == FactInv /\ TurnInv /\ FlowInv

LEMMA InvSuffices == Inv => TypeOK /\ FactsAgree /\ LatestIsKnown /\ PoolHasSchema
BY DEF Inv, FactInv, TurnInv, FlowInv, TypeOK

LEMMA InitInv == Init => Inv
<1> SUFFICES ASSUME Init PROVE Inv
    OBVIOUS
<1>1. FactInv
    BY DEF Init, FactInit, FactInv, FactTypeOK, FactsAgree, LatestIsKnown, Stored
<1>2. TurnInv
    BY BackendAssumption DEF Init, TurnInit, TurnInv, TurnTypeOK, PoolHasSchema
<1>3. FlowInv
    <2>1. <<>> \in Seq(Facts)
        OBVIOUS
    <2> QED
        BY <2>1, MemoryAssumption DEF Init, FlowInv, LoopInv, States
<1> QED
    BY <1>1, <1>2, <1>3 DEF Inv

\* The steps of requests.
LEMMA ServeKeeps ==
    ASSUME Inv, LoopFree, NEW c \in Callers, Serve(c)
    PROVE  Inv'
<1> USE DEF Inv
<1>q. \A changed : changed \in {rows, rows \cup {c}} => changed \in SUBSET Callers
    BY DEF TurnInv, TurnTypeOK
<1>1. ASSUME c \in Chats, BeginChat(c) \/ SaveTurn(c) PROVE Inv'
    <2>1. TurnInv'
        BY <1>1, CallKeeps DEF BeginChat, SaveTurn
    <2>2. FactInv'
        BY <1>1, OthersKeep DEF BeginChat, SaveTurn
    <2>3. FlowInv'
        <3>1. PICK to \in {"loading", "saving"} : st' = [st EXCEPT ![c] = to]
            BY <1>1 DEF BeginChat, SaveTurn, Goes
        <3> QED
            BY <1>1, <3>1, GoesKeeps DEF BeginChat, SaveTurn, States, FlowInv
    <2> QED
        BY <2>1, <2>2, <2>3
<1>2. ASSUME c \in Chats, TurnsLoaded(c) \/ TurnSaved(c) PROVE Inv'
    <2>1. TurnInv'
        BY <1>2, <1>q, CallKeeps DEF TurnsLoaded, TurnSaved
    <2>2. FactInv'
        BY <1>2, OthersKeep DEF TurnsLoaded, TurnSaved
    <2>3. FlowInv'
        <3>1. PICK to \in {"answering", "extracting", "done"} : st' = [st EXCEPT ![c] = to]
            BY <1>2 DEF TurnsLoaded, TurnSaved, Goes
        <3> QED
            BY <1>2, <3>1, GoesKeeps DEF TurnsLoaded, TurnSaved, States, FlowInv
    <2> QED
        BY <2>1, <2>2, <2>3
<1>3. ASSUME c \in Chats, Extract(c) PROVE Inv'
    <2>1. TurnInv' /\ FactInv'
        BY <1>3, IdleKeeps, OthersKeep DEF Extract
    <2> QED
        BY <1>3, <2>1, ExtractKeeps
<1>4. ASSUME c \in Decisions, Decide(c) \/ Decided(c) PROVE Inv'
    <2>1. TurnInv'
        BY <1>4, <1>q, CallKeeps DEF Decide, Decided
    <2>2. FactInv'
        BY <1>4, OthersKeep DEF Decide, Decided
    <2>3. FlowInv'
        <3>1. PICK to \in {"updating", "done"} : st' = [st EXCEPT ![c] = to]
            BY <1>4 DEF Decide, Decided, Goes
        <3> QED
            BY <1>4, <3>1, GoesKeeps DEF Decide, Decided, States, FlowInv
    <2> QED
        BY <2>1, <2>2, <2>3
<1>5. ASSUME Connect(c) PROVE Inv'
    <2>1. TurnInv' /\ FactInv'
        BY <1>5, CallKeeps, OthersKeep DEF Connect
    <2> QED
        BY <1>5, <2>1 DEF Connect, FlowInv, LoopInv
<1> QED
    BY <1>1, <1>2, <1>3, <1>4, <1>5 DEF Serve, ChatStep

LEMMA NextInv == Inv /\ [Next]_vars => Inv'
<1> SUFFICES ASSUME Inv, [Next]_vars PROVE Inv'
    OBVIOUS
<1> USE DEF Inv
<1>1. ASSUME NEW r \in Chats, Learn(r) PROVE Inv'
    BY <1>1, LearnKeeps, IdleKeeps
<1>2. ASSUME LoopFree, NEW c \in Callers, Serve(c) PROVE Inv'
    BY <1>2, ServeKeeps
<1>3. CASE AdminMemoryClear \/ AdminClearAll
    <2>1. TurnInv'
        BY <1>3, IdleKeeps DEF AdminMemoryClear, AdminClearAll
    <2>2. FactInv'
        BY <1>3, OthersKeep DEF AdminMemoryClear, AdminClearAll
    <2> QED
        BY <1>3, <2>1, <2>2 DEF AdminMemoryClear, AdminClearAll, FlowInv, LoopInv
<1>4. CASE LoopFree /\ Restart
    <2>1. TurnInv' /\ FactInv'
        BY <1>4, IdleKeeps, OthersKeep DEF Restart
    <2>2. st' \in [Callers -> States]
        BY <1>4 DEF Restart, FlowInv, States
    <2>3. \A r \in Chats : st'[r] # "storing"
        BY <1>4, MemoryAssumption DEF Restart, LoopFree
    <2> QED
        BY <1>4, <2>1, <2>2, <2>3 DEF Restart, FlowInv, LoopInv
<1>5. ASSUME NEW f \in Facts, Age(f) PROVE Inv'
    <2>1. TurnInv' /\ FactInv'
        BY <1>5, IdleKeeps, OthersKeep DEF Age
    <2> QED
        BY <1>5, <2>1 DEF Age, FlowInv, LoopInv
<1>6. CASE UNCHANGED vars
    <2>1. TurnInv' /\ FactInv'
        BY <1>6, IdleKeeps, OthersKeep DEF vars
    <2> QED
        BY <1>6, <2>1 DEF vars, FlowInv, LoopInv
<1> QED
    BY <1>1, <1>2, <1>3, <1>4, <1>5, <1>6 DEF Next

\* Every variable keeps its type.
THEOREM TypeCorrect == Spec => []TypeOK
BY InitInv, NextInv, InvSuffices, PTL DEF Spec

\* Stored facts never contradict or repeat each other, unless one was stored
\* while a lookup failed or came back full (_find_supersedable, limit=10).
THEOREM FactsAlwaysAgree == Spec => []FactsAgree
BY InitInv, NextInv, InvSuffices, PTL DEF Spec

\* Neither the duplicate check nor superseding loses the fact learned last.
THEOREM LatestStaysKnown == Spec => []LatestIsKnown
BY InitInv, NextInv, InvSuffices, PTL DEF Spec

\* Callers that race through _get_pool never leave a pool without its table.
THEOREM PoolGetsSchema == Spec => []PoolHasSchema
BY InitInv, NextInv, InvSuffices, PTL DEF Spec
=============================================================================
