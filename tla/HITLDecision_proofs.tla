------------------------ MODULE HITLDecision_proofs ------------------------
(***************************************************************************)
(* Proofs about HITLDecision for every number of ids, workers, clicks and  *)
(* sessions.                                                               *)
(***************************************************************************)
EXTENDS HITLDecision, FiniteSetTheorems, SequenceTheorems, TLAPS

-----------------------------------------------------------------------------
(* Type correctness.                                                       *)

\* A nonempty set of naturals has a least element.
LEMMA LeastNatural ==
    ASSUME NEW T, T \subseteq Nat, T # {}
    PROVE  \E n \in T : \A m \in T : n <= m
<1> DEFINE R == OpToRel(<, Nat)
<1>1. R = {ss \in Nat \X Nat : ss[1] < ss[2]}
  BY DEF OpToRel
<1>2. IsWellFoundedOn(R, Nat)
  BY NatLessThanWellFounded
<1> HIDE DEF R
<1>3. PICK x \in T : \A y \in T : <<y, x>> \notin R
  BY <1>2, WFMin
<1>4. \A y \in T : ~(y < x)
  BY <1>1, <1>3
<1>5. QED
  BY <1>4

\* A nonempty set of indexes has a greatest one, which Max returns.
LEMMA MaxIsElement ==
    ASSUME NEW k \in Nat, NEW T, T \subseteq 1..k, T # {}
    PROVE  Max(T) \in T
<1> DEFINE D == {n \in Nat : k - n \in T}
<1>1. \A m \in T : m \in Int /\ k - m \in D
  <2>1. \A m \in T : m \in Int /\ k - m \in Nat /\ k - (k - m) = m
    OBVIOUS
  <2>2. QED
    BY <2>1
<1>2. PICK d \in D : \A m \in D : d <= m
  BY <1>1, LeastNatural
<1>3. \A m \in T : k - d >= m
  <2>1. \A m \in T : d <= k - m
    BY <1>1, <1>2
  <2>2. QED
    BY <1>1, <1>2, <2>1
<1>4. QED
  BY <1>2, <1>3 DEF Max

\* Saving a turn and recording an outcome keep a session a sequence of turns.
LEMMA TurnsType ==
    ASSUME NEW ts \in Seq(Turn)
    PROVE  /\ \A id \in Ids : SaveTurn(ts, id) \in Seq(Turn)
           /\ \A r \in Clicks : \A i : UpdateTurn(ts, i, r) \in Seq(Turn)
<1>1. ASSUME NEW id \in Ids
      PROVE  SaveTurn(ts, id) \in Seq(Turn)
  BY DEF SaveTurn, Turn
<1>2. ASSUME NEW r \in Clicks, NEW i
      PROVE  UpdateTurn(ts, i, r) \in Seq(Turn)
  <2>1. ts \in [1..Len(ts) -> Turn] /\ Len(ts) \in Nat
    OBVIOUS
  <2>2. ASSUME NEW k
        PROVE  [ts EXCEPT ![k].outcome = r] \in [1..Len(ts) -> Turn]
    BY <2>1 DEF Turn
  <2>3. ASSUME NEW k
        PROVE  [ts EXCEPT ![k].outcome = r] \in Seq(Turn)
    BY <2>1, <2>2, SeqDef
  <2>4. QED
    BY <2>3 DEF UpdateTurn
<1>3. QED
  BY <1>1, <1>2

\* The row an UPDATE chooses is a placeholder, or none.
LEMMA NewestIsPending ==
    ASSUME NEW ts \in Seq(Turn)
    PROVE  /\ NewestPending(ts) \in Nat
           /\ PendingTurns(ts) = {} \/ NewestPending(ts) \in PendingTurns(ts)
<1>1. Len(ts) \in Nat /\ PendingTurns(ts) \subseteq 1..Len(ts)
  BY LenProperties DEF PendingTurns
<1>2. PendingTurns(ts) # {} => Max(PendingTurns(ts)) \in PendingTurns(ts)
  BY <1>1, MaxIsElement
<1>3. QED
  BY <1>1, <1>2 DEF NewestPending

\* The store operations keep the store well typed.
LEMMA StoreType ==
    ASSUME StoreTypeOK, NEW w \in Workers, NEW id \in Ids, NEW h \in BOOLEAN
    PROVE  /\ Save(w, id) => StoreTypeOK'
           /\ Pop(w, id) => StoreTypeOK'
           /\ Delete(w, id, h) => StoreTypeOK'
           /\ Expire(id) => StoreTypeOK'
           /\ FlushAll => StoreTypeOK'
           /\ ForgetFallback(w) => StoreTypeOK'
<1> USE DEF StoreTypeOK, Copy
<1>1. Save(w, id) => StoreTypeOK'
  BY DEF Save
<1>2. Pop(w, id) => StoreTypeOK'
  BY DEF Pop
<1>3. Delete(w, id, h) => StoreTypeOK'
  BY <1>2 DEF Delete
<1>4. Expire(id) => StoreTypeOK'
  BY DEF Expire
<1>5. ForgetFallback(w) => StoreTypeOK'
  BY BoundsAssumption DEF ForgetFallback
<1>6. FlushAll => StoreTypeOK'
  BY DEF FlushAll
<1>7. QED
  BY <1>1, <1>2, <1>3, <1>4, <1>5, <1>6

\* What a click that has left "idle" refers to: the id of a proposal already
\* offered to a human, whose card is known.
ClickInv ==
    /\ \A id \in Ids : flow[id] # "new" => card[id] \in Cards
    /\ \A r \in Clicks :
          pc[r] # "idle" => /\ click[r] \in ClickData
                           /\ flow[click[r].id] = "offered"
    /\ \A r \in settled : pc[r] # "idle"

TypeInv == TypeOK /\ ClickInv

LEMMA InitType == Init => TypeInv
BY BoundsAssumption DEF Init, StoreInit, TypeInv, TypeOK, StoreTypeOK, ClickInv, Copy

\* The actions of the requests that make the proposals.
LEMMA FlowStepsType ==
    ASSUME TypeInv, NEW id \in Ids,
           Propose(id) \/ ChatRespond(id) \/ SlackReadBack(id) \/ SlackAmend(id)
    PROVE  TypeInv'
<1> USE DEF TypeInv, TypeOK, ClickInv, flowVars, turnVars, clickVars, effectVars
<1>1. CASE Propose(id)
  <2>1. PICK c \in Cards : card' = [card EXCEPT ![id] = c] /\ Save(c.worker, id)
    BY <1>1 DEF Propose
  <2>2. c.worker \in Workers
    BY DEF Cards
  <2>3. StoreTypeOK'
    BY <2>1, <2>2, StoreType
  <2>4. TypeOK'
    BY <1>1, <2>1, <2>3 DEF Propose
  <2>5. ClickInv'
    BY <1>1, <2>1 DEF Propose, ClickData
  <2>6. QED
    BY <2>4, <2>5
<1>2. CASE ChatRespond(id)
  <2>1. card[id] \in Cards /\ card[id].session \in Sessions
    BY <1>2 DEF ChatRespond, Cards
  <2>2. StoreTypeOK'
    BY <1>2 DEF ChatRespond, storeVars, StoreTypeOK
  <2>3. SaveTurn(turns[card[id].session], id) \in Seq(Turn)
    BY <2>1, TurnsType
  <2>4. turns' \in [Sessions -> Seq(Turn)]
    BY <1>2, <2>1, <2>3 DEF ChatRespond
  <2>5. TypeOK'
    BY <1>2, <2>2, <2>4 DEF ChatRespond
  <2>6. ClickInv'
    BY <1>2 DEF ChatRespond, ClickData
  <2>7. QED
    BY <2>5, <2>6
<1>3. CASE SlackReadBack(id)
  <2>1. card[id].worker \in Workers
    BY <1>3 DEF SlackReadBack, Cards
  <2>2. StoreTypeOK'
    BY <1>3, <2>1 DEF SlackReadBack, StoreTypeOK, Copy
  <2>3. TypeOK'
    BY <1>3, <2>2 DEF SlackReadBack
  <2>4. ClickInv'
    BY <1>3 DEF SlackReadBack, ClickData
  <2>5. QED
    BY <2>3, <2>4
<1>4. CASE SlackAmend(id)
  <2>1. StoreTypeOK'
    BY <1>4 DEF SlackAmend, StoreTypeOK, Copy
  <2>2. TypeOK'
    BY <1>4, <2>1 DEF SlackAmend
  <2>3. ClickInv'
    BY <1>4 DEF SlackAmend, ClickData
  <2>4. QED
    BY <2>2, <2>3
<1>5. QED
  BY <1>1, <1>2, <1>3, <1>4

\* The actions of the handler of a click.
LEMMA HandlerStepsType ==
    ASSUME TypeInv, NEW r \in Clicks, Click(r) \/ Handle(r)
    PROVE  TypeInv'
<1> USE DEF TypeInv, TypeOK, ClickInv, flowVars, turnVars, clickVars, effectVars,
            Goto, Running, Answered
<1>1. CASE Click(r)
  <2>1. StoreTypeOK'
    BY <1>1 DEF Click, storeVars, StoreTypeOK
  <2>2. PICK d \in ClickData : flow[d.id] = "offered" /\ click' = [click EXCEPT ![r] = d]
    BY <1>1 DEF Click
  <2>3. TypeOK'
    BY <1>1, <2>1, <2>2 DEF Click
  <2>4. ClickInv'
    BY <1>1, <2>2 DEF Click
  <2>5. QED
    BY <2>3, <2>4
<1> DEFINE w == click[r].worker
           id == click[r].id
<1>2. ASSUME Handle(r)
      PROVE  w \in Workers /\ id \in Ids /\ card[id] \in Cards
  BY <1>2 DEF Handle, Lookup, Refuse, Execute, Attempt, Reject, ResolveGet, ResolveDelete,
              RecordOutcome, RecordTurn, ChooseTurn, UpdateRow, ClickData
<1>3. CASE Lookup(r)
  <2>1. StoreTypeOK'
    BY <1>3 DEF Lookup, storeVars, StoreTypeOK
  <2>2. Get(w, id) \in Copy
    BY <1>2, <1>3 DEF Get, StoreTypeOK, Handle
  <2>3. QED
    BY <1>3, <2>1, <2>2 DEF Lookup
<1>4. CASE Refuse(r)
  <2>1. StoreTypeOK'
    BY <1>4 DEF Refuse, storeVars, StoreTypeOK
  <2>2. QED
    BY <1>4, <2>1 DEF Refuse
<1>5. CASE Execute(r)
  <2>1. StoreTypeOK'
    BY <1>5 DEF Execute, Attempt, storeVars, StoreTypeOK
  <2>2. writes' \in [Ids -> SUBSET Clicks]
    <3>1. PICK effect \in BOOLEAN :
             writes' = IF effect THEN [writes EXCEPT ![id] = @ \cup {r}] ELSE writes
      BY <1>5 DEF Execute, Attempt
    <3>2. [writes EXCEPT ![id] = @ \cup {r}] \in [Ids -> SUBSET Clicks]
      OBVIOUS
    <3>3. QED
      BY <3>1, <3>2
  <2>3. pc' \in [Clicks -> {"idle"} \cup Running \cup Answered]
    BY <1>5 DEF Execute, Attempt
  <2>4. TypeOK'
    BY <1>5, <2>1, <2>2, <2>3 DEF Execute, Attempt
  <2>5. ClickInv'
    BY <1>5 DEF Execute, Attempt
  <2>6. QED
    BY <2>4, <2>5
<1>6. CASE Reject(r)
  <2>1. StoreTypeOK'
    BY <1>6 DEF Reject, storeVars, StoreTypeOK
  <2>2. QED
    BY <1>6, <2>1 DEF Reject
<1>7. CASE ResolveGet(r)
  <2>1. StoreTypeOK'
    BY <1>2, <1>7, StoreType DEF ResolveGet, storeVars, StoreTypeOK, Handle
  <2>2. TypeOK'
    <3>1. hit' \in [Clicks -> BOOLEAN] /\ settled' \in SUBSET Clicks
      BY <1>7 DEF ResolveGet
    <3>2. pc' \in [Clicks -> {"idle"} \cup Running \cup Answered]
      BY <1>7 DEF ResolveGet
    <3>3. QED
      BY <1>7, <2>1, <3>1, <3>2 DEF ResolveGet
  <2>3. ClickInv'
    BY <1>7 DEF ResolveGet
  <2>4. QED
    BY <2>2, <2>3
<1>8. CASE ResolveDelete(r)
  <2>1. StoreTypeOK'
    BY <1>2, <1>8, StoreType DEF ResolveDelete, Handle
  <2>2. QED
    BY <1>8, <2>1 DEF ResolveDelete
<1>9. CASE RecordOutcome(r)
  <2>1. StoreTypeOK'
    BY <1>9 DEF RecordOutcome, RecordTurn, storeVars, StoreTypeOK
  <2>2. CardOf(r).session \in Sessions
    BY <1>2, <1>9 DEF CardOf, Cards, Handle
  <2>3. UpdateLastHitl(turns[CardOf(r).session], r) \in Seq(Turn)
    BY <2>2, TurnsType DEF UpdateLastHitl
  <2>4. turns' \in [Sessions -> Seq(Turn)]
    BY <1>9, <2>2, <2>3 DEF RecordOutcome, RecordTurn
  <2>5. TypeOK'
    BY <1>9, <2>1, <2>4 DEF RecordOutcome, RecordTurn
  <2>6. ClickInv'
    BY <1>9 DEF RecordOutcome, RecordTurn
  <2>7. QED
    BY <2>5, <2>6
<1>10. CASE ChooseTurn(r)
  <2>1. StoreTypeOK'
    BY <1>10 DEF ChooseTurn, storeVars, StoreTypeOK
  <2>2. CardOf(r).session \in Sessions
    BY <1>2, <1>10 DEF CardOf, Cards, Handle
  <2>3. NewestPending(turns[CardOf(r).session]) \in Nat
    BY <2>2, NewestIsPending
  <2>4. row' \in [Clicks -> Nat] /\ raced' \in SUBSET Sessions
    BY <1>10, <2>2, <2>3 DEF ChooseTurn
  <2>5. TypeOK'
    BY <1>10, <2>1, <2>4 DEF ChooseTurn
  <2>6. ClickInv'
    BY <1>10 DEF ChooseTurn
  <2>7. QED
    BY <2>5, <2>6
<1>11. CASE UpdateRow(r)
  <2>1. StoreTypeOK'
    BY <1>11 DEF UpdateRow, storeVars, StoreTypeOK
  <2>2. CardOf(r).session \in Sessions
    BY <1>2, <1>11 DEF CardOf, Cards, Handle
  <2>3. UpdateTurn(turns[CardOf(r).session], row[r], r) \in Seq(Turn)
    BY <2>2, TurnsType
  <2>4. turns' \in [Sessions -> Seq(Turn)]
    BY <1>11, <2>2, <2>3 DEF UpdateRow
  <2>5. TypeOK'
    BY <1>11, <2>1, <2>4 DEF UpdateRow
  <2>6. ClickInv'
    BY <1>11 DEF UpdateRow
  <2>7. QED
    BY <2>5, <2>6
<1>12. QED
  BY <1>1, <1>3, <1>4, <1>5, <1>6, <1>7, <1>8, <1>9, <1>10, <1>11 DEF Handle

\* The environment and stuttering.
LEMMA EnvironmentStepsType ==
    ASSUME TypeInv,
           StoreEvent \/ ClearTurns \/ (\E w \in Workers : Restart(w)) \/ UNCHANGED vars
    PROVE  TypeInv'
<1> USE DEF TypeInv, TypeOK, ClickInv, flowVars, turnVars, clickVars, effectVars
<1>1. CASE StoreEvent
  <2>1. StoreTypeOK'
    <3>1. RedisDown => StoreTypeOK'
      <4>1. RedisDown => outages' \in 0..MaxOutages
        BY BoundsAssumption DEF RedisDown, StoreTypeOK
      <4>2. QED
        BY <4>1 DEF RedisDown, StoreTypeOK
    <3>2. RedisBack => StoreTypeOK'
      BY DEF RedisBack, StoreTypeOK
    <3>3. \A id \in Ids : Expire(id) => StoreTypeOK'
      BY DEF Expire, StoreTypeOK, Copy
    <3>4. FlushAll => StoreTypeOK'
      BY DEF FlushAll, StoreTypeOK, Copy
    <3>5. QED
      BY <1>1, <3>1, <3>2, <3>3, <3>4 DEF StoreEvent
  <2>2. QED
    BY <1>1, <2>1 DEF StoreEvent
<1>2. ASSUME NEW w \in Workers, Restart(w)
      PROVE  TypeInv'
  <2>1. StoreTypeOK'
    BY <1>2, BoundsAssumption DEF Restart, ForgetFallback, StoreTypeOK, Copy
  <2>2. TypeOK'
    BY <1>2, <2>1 DEF Restart, Running, Answered
  <2>3. ClickInv'
    BY <1>2 DEF Restart, Running, Answered, ClickData
  <2>4. QED
    BY <2>2, <2>3
<1>3. CASE UNCHANGED vars
  BY <1>3 DEF vars, storeVars, StoreTypeOK
<1>4. CASE ClearTurns
  <2>1. PICK cleared \in SUBSET Sessions :
           turns' = [s \in Sessions |-> IF s \in cleared THEN <<>> ELSE turns[s]]
    BY <1>4 DEF ClearTurns
  <2>2. <<>> \in Seq(Turn)
    BY EmptySeq
  <2>3. turns' \in [Sessions -> Seq(Turn)]
    BY <2>1, <2>2
  <2>4. StoreTypeOK'
    BY <1>4 DEF ClearTurns, storeVars, StoreTypeOK
  <2>5. TypeOK'
    BY <1>4, <2>3, <2>4 DEF ClearTurns
  <2>6. ClickInv'
    BY <1>4 DEF ClearTurns
  <2>7. QED
    BY <2>5, <2>6
<1>5. QED
  BY <1>1, <1>2, <1>3, <1>4

\* TypeInv is an invariant: it is inductive as it stands.
LEMMA TypeInvariance == Spec => []TypeInv
<1>1. TypeInv /\ [Next]_vars => TypeInv'
  BY FlowStepsType, HandlerStepsType, EnvironmentStepsType DEF Next
<1>2. QED
  BY InitType, <1>1, PTL DEF Spec

\* Every variable keeps its type: the store operations of orchestrator/hitl.py,
\* the session store and the handlers only write values of the expected kind.
THEOREM TypeCorrect == Spec => []TypeOK
<1>1. TypeInv => TypeOK
  BY DEF TypeInv
<1>2. QED
  BY TypeInvariance, <1>1, PTL

-----------------------------------------------------------------------------
(* A settled action is gone from every store.                              *)

\* The strengthening: as long as Redis was never away nothing is ever put in
\* the memory of a worker, so deleting the key of an action removes its only
\* copy.  ClickInv keeps the writers of the key (Propose and SlackAmend, whose
\* flow is not "offered" yet) apart from the clicks (whose flow is).
StoreSafe ==
    NeverOut =>
        /\ redisUp
        /\ lost = {}
        /\ \A w \in Workers : \A id \in Ids : fallback[w][id] = "none"
        /\ \A r \in settled : redis[click[r].id] = "none"

LEMMA StoreSafeInit == Init => StoreSafe
BY DEF Init, StoreInit, StoreSafe

LEMMA StoreSafeStep ==
    ASSUME TypeInv, TypeInv', StoreSafe, [Next]_vars
    PROVE  StoreSafe'
<1> USE DEF TypeInv, TypeOK, StoreTypeOK, ClickInv, StoreSafe, NeverOut,
            flowVars, turnVars, clickVars, effectVars, storeVars
<1>1. ASSUME NEW id \in Ids, Propose(id)
      PROVE  StoreSafe'
  <2>1. PICK c \in Cards : Save(c.worker, id)
    BY <1>1 DEF Propose
  <2>2. \A r \in settled : click[r].id \in Ids /\ click[r].id # id
    BY <1>1 DEF Propose, ClickData
  <2>3. QED
    BY <1>1, <2>1, <2>2 DEF Propose, Save
<1>2. ASSUME NEW id \in Ids, ChatRespond(id)
      PROVE  StoreSafe'
  BY <1>2 DEF ChatRespond
<1>3. ASSUME NEW id \in Ids, SlackReadBack(id)
      PROVE  StoreSafe'
  <2>1. card[id].worker \in Workers
    BY <1>3 DEF SlackReadBack, Cards
  <2>2. QED
    BY <1>3, <2>1 DEF SlackReadBack
<1>4. ASSUME NEW id \in Ids, SlackAmend(id)
      PROVE  StoreSafe'
  <2>1. \A r \in settled : click[r].id \in Ids /\ click[r].id # id
    BY <1>4 DEF SlackAmend, ClickData
  <2>2. QED
    BY <1>4, <2>1 DEF SlackAmend
<1>5. ASSUME NEW r \in Clicks, Click(r)
      PROVE  StoreSafe'
  <2>1. r \notin settled
    BY <1>5 DEF Click, Goto
  <2>2. \A q \in settled : click'[q] = click[q]
    BY <1>5, <2>1 DEF Click
  <2>3. QED
    BY <1>5, <2>2 DEF Click
<1>6. ASSUME NEW r \in Clicks, Lookup(r) \/ Refuse(r) \/ Execute(r) \/ Reject(r)
      PROVE  StoreSafe'
  BY <1>6 DEF Lookup, Refuse, Execute, Attempt, Reject
<1>7. ASSUME NEW r \in Clicks, ResolveGet(r)
      PROVE  StoreSafe'
  BY <1>7 DEF ResolveGet, Pop
<1>8. ASSUME NEW r \in Clicks, ResolveDelete(r)
      PROVE  StoreSafe'
  <2>1. \A q \in settled \cup {r} : click[q].id \in Ids
    BY <1>8 DEF ResolveDelete, Goto, ClickData
  <2>2. click[r].worker \in Workers
    BY <1>8 DEF ResolveDelete, Goto, ClickData
  <2>3. QED
    BY <1>8, <2>1, <2>2 DEF ResolveDelete, Delete, Pop
<1>9. ASSUME NEW r \in Clicks, RecordOutcome(r) \/ ChooseTurn(r) \/ UpdateRow(r)
      PROVE  StoreSafe'
  BY <1>9 DEF RecordOutcome, RecordTurn, ChooseTurn, UpdateRow
<1>10. CASE StoreEvent
  <2>1. CASE RedisDown
    BY <1>10, <2>1 DEF RedisDown
  <2>2. CASE RedisBack
    BY <1>10, <2>2 DEF StoreEvent, RedisBack
  <2>3. ASSUME NEW id \in Ids, Expire(id)
        PROVE  StoreSafe'
    <3>1. \A r \in settled : click[r].id \in Ids
      BY DEF ClickData
    <3>2. QED
      BY <1>10, <2>3, <3>1 DEF StoreEvent, Expire
  <2>4. CASE FlushAll
    <3>1. \A r \in settled : click[r].id \in Ids
      BY DEF ClickData
    <3>2. QED
      BY <1>10, <2>4, <3>1 DEF StoreEvent, FlushAll
  <2>5. QED
    BY <1>10, <2>1, <2>2, <2>3, <2>4 DEF StoreEvent
<1>11. ASSUME NEW w \in Workers, Restart(w)
       PROVE  StoreSafe'
  BY <1>11 DEF Restart, ForgetFallback
<1>12. CASE ClearTurns \/ UNCHANGED vars
  BY <1>12 DEF ClearTurns, vars
<1>13. QED
  BY <1>1, <1>2, <1>3, <1>4, <1>5, <1>6, <1>7, <1>8, <1>9, <1>10, <1>11, <1>12
     DEF Next, Handle

LEMMA StoreSafeInvariance == Spec => []StoreSafe
<1>1. TypeInv /\ TypeInv' /\ StoreSafe /\ [Next]_vars => StoreSafe'
  BY StoreSafeStep
<1>2. QED
  BY StoreSafeInit, TypeInvariance, <1>1, PTL DEF Spec

\* While Redis was never away, an action some click has settled cannot be found
\* by any worker again, so no later click executes it a second time: the Slack
\* flow's second write of the key cannot bring a settled action back.
THEOREM SettledIsGone == Spec => []SettledNeverFound
<1>1. TypeInv /\ StoreSafe => SettledNeverFound
  <2> SUFFICES ASSUME TypeInv, StoreSafe, NeverOut, NEW r \in settled
               PROVE  ~Findable(click[r].id)
    BY DEF SettledNeverFound, SettledIds
  <2>1. click[r].id \in Ids
    BY DEF TypeInv, TypeOK, ClickInv, ClickData
  <2>2. QED
    BY <2>1 DEF StoreSafe, Findable
<1>2. QED
  BY TypeInvariance, StoreSafeInvariance, <1>1, PTL

-----------------------------------------------------------------------------
(* A pending action is not dropped.                                        *)

LEMMA PendingInit == Init => PendingUntilSettled
BY DEF Init, PendingUntilSettled

LEMMA PendingStep ==
    ASSUME TypeInv, PendingUntilSettled, [Next]_vars
    PROVE  PendingUntilSettled'
<1>0. /\ redis \in [Ids -> Copy] /\ fallback \in [Workers -> [Ids -> Copy]]
      /\ flow \in [Ids -> {"new", "saved", "amending", "offered", "dead"}]
      /\ \A id \in Ids : flow[id] # "new" => card[id].worker \in Workers
      /\ pc \in [Clicks -> {"idle"} \cup Running \cup Answered]
      /\ DOMAIN click = Clicks /\ settled \subseteq Clicks
      /\ \A r \in Clicks : pc[r] # "idle" =>
            click[r].id \in Ids /\ click[r].worker \in Workers
      /\ \A r \in settled : pc[r] # "idle"
  BY DEF TypeInv, TypeOK, StoreTypeOK, ClickInv, ClickData, Cards
<1> USE <1>0 DEF PendingUntilSettled, Findable, SettledIds,
            flowVars, turnVars, clickVars, effectVars, storeVars
<1>1. ASSUME NEW id \in Ids, Propose(id)
      PROVE  PendingUntilSettled'
  <2>1. PICK c \in Cards : Save(c.worker, id)
    BY <1>1 DEF Propose
  <2>2. c.worker \in Workers
    BY DEF Cards
  <2>3. \A a \in Ids : Findable(a) => Findable(a)'
    BY <2>1 DEF Save
  <2>4. Findable(id)'
    BY <2>1, <2>2 DEF Save
  <2>5. QED
    BY <1>1, <2>1, <2>3, <2>4 DEF Propose, Save
<1>2. ASSUME NEW id \in Ids, ChatRespond(id)
      PROVE  PendingUntilSettled'
  BY <1>2 DEF ChatRespond
<1>3. ASSUME NEW id \in Ids, SlackReadBack(id)
      PROVE  PendingUntilSettled'
  <2>1. \A a \in Ids : Findable(a) => Findable(a)'
    BY <1>3 DEF SlackReadBack
  <2>2. QED
    BY <1>3, <2>1 DEF SlackReadBack
<1>4. ASSUME NEW id \in Ids, SlackAmend(id)
      PROVE  PendingUntilSettled'
  <2>1. \A a \in Ids : Findable(a) => Findable(a)'
    BY <1>4 DEF SlackAmend
  <2>2. QED
    BY <1>4, <2>1 DEF SlackAmend
<1>5. ASSUME NEW r \in Clicks, Click(r)
      PROVE  PendingUntilSettled'
  <2>1. \A q \in settled : click'[q] = click[q]
    BY <1>5 DEF Click, Goto
  <2>2. QED
    BY <1>5, <2>1 DEF Click
<1>6. ASSUME NEW r \in Clicks, Lookup(r) \/ Refuse(r) \/ Execute(r) \/ Reject(r)
      PROVE  PendingUntilSettled'
  BY <1>6 DEF Lookup, Refuse, Execute, Attempt, Reject
<1>7. ASSUME NEW r \in Clicks, ResolveGet(r)
      PROVE  PendingUntilSettled'
  <2>1. CASE redisUp
    BY <1>7, <2>1 DEF ResolveGet
  <2>2. CASE ~redisUp
    <3>1. \A a \in Ids \ {click[r].id} : Findable(a) => Findable(a)'
      BY <1>7, <2>2 DEF ResolveGet, Pop
    <3>2. QED
      BY <1>7, <2>2, <3>1 DEF ResolveGet, Pop
  <2>3. QED
    BY <2>1, <2>2
<1>8. ASSUME NEW r \in Clicks, ResolveDelete(r)
      PROVE  PendingUntilSettled'
  <2>1. /\ Delete(click[r].worker, click[r].id, hit[r])
        /\ settled' = settled \cup {r}
        /\ UNCHANGED <<flow, click>>
    BY <1>8 DEF ResolveDelete, flowVars
  <2>2. SettledIds' = SettledIds \cup {click[r].id}
    BY <2>1
  <2>3. UNCHANGED <<dropped, lost>>
    BY <2>1 DEF Delete, Pop
  <2>4. ASSUME NEW a \in Ids \ {click[r].id}, NEW w \in Workers
        PROVE  fallback'[w][a] = fallback[w][a]
    <3>1. \/ fallback' = fallback
          \/ fallback' = [fallback EXCEPT ![click[r].worker][click[r].id] = "none"]
      BY <2>1 DEF Delete, Pop
    <3>2. QED
      BY <3>1, <2>4
  <2>5. ASSUME NEW a \in Ids \ {click[r].id}
        PROVE  redis'[a] = redis[a]
    BY <2>1, <2>5 DEF Delete, Pop
  <2>6. \A a \in Ids \ {click[r].id} : Findable(a) => Findable(a)'
    BY <2>4, <2>5 DEF Findable
  <2>7. QED
    BY <2>1, <2>2, <2>3, <2>6
<1>9. ASSUME NEW r \in Clicks, RecordOutcome(r) \/ ChooseTurn(r) \/ UpdateRow(r)
      PROVE  PendingUntilSettled'
  BY <1>9 DEF RecordOutcome, RecordTurn, ChooseTurn, UpdateRow
<1>10. CASE StoreEvent
  <2>1. CASE RedisDown \/ RedisBack
    BY <1>10, <2>1 DEF StoreEvent, RedisDown, RedisBack
  <2>2. ASSUME NEW id \in Ids, Expire(id)
        PROVE  PendingUntilSettled'
    BY <1>10, <2>2 DEF StoreEvent, Expire
  <2>3. CASE FlushAll
    <3>1. \A a \in Ids : Findable(a) => Findable(a)' \/ a \in dropped'
      BY <2>3 DEF FlushAll
    <3>2. QED
      BY <1>10, <2>3, <3>1 DEF StoreEvent, FlushAll
  <2>4. QED
    BY <1>10, <2>1, <2>2, <2>3 DEF StoreEvent
<1>11. ASSUME NEW w \in Workers, Restart(w)
       PROVE  PendingUntilSettled'
  <2>1. \A a \in Ids : Findable(a) => Findable(a)' \/ a \in lost'
    BY <1>11 DEF Restart, ForgetFallback
  <2>2. \A a \in Ids : flow'[a] # "new" => flow[a] # "new"
    BY <1>11 DEF Restart
  <2>3. QED
    BY <1>11, <2>1, <2>2 DEF Restart, ForgetFallback
<1>12. CASE ClearTurns \/ UNCHANGED vars
  BY <1>12 DEF ClearTurns, vars
<1>13. QED
  BY <1>1, <1>2, <1>3, <1>4, <1>5, <1>6, <1>7, <1>8, <1>9, <1>10, <1>11, <1>12
     DEF Next, Handle

\* A proposal stays findable by some worker until a click settles it, Redis drops
\* its key (TTL, eviction, the flush of admin_clear_all, a restart of Redis) or
\* the worker whose memory held it restarts, whatever refusals, crashes and Redis
\* outages happen in between.
THEOREM PendingIsKept == Spec => []PendingUntilSettled
<1>1. TypeInv /\ PendingUntilSettled /\ [Next]_vars => PendingUntilSettled'
  BY PendingStep
<1>2. QED
  BY PendingInit, TypeInvariance, <1>1, PTL DEF Spec

-----------------------------------------------------------------------------
(* What a step keeps.                                                      *)

\* The history of a click and of a proposal is never rewritten.
HistoryKept ==
    /\ NeverOut' => NeverOut
    /\ settled \subseteq settled'
    /\ dropped \subseteq dropped'
    /\ \A id \in Ids : flow[id] # "new" => card'[id] = card[id]
    /\ \A r \in Clicks : pc[r] # "idle" => click'[r] = click[r] /\ pc'[r] # "idle"

LEMMA HistoryStep ==
    ASSUME TypeInv, [Next]_vars
    PROVE  HistoryKept
<1> USE DEF TypeInv, TypeOK, StoreTypeOK, NeverOut, HistoryKept, Goto,
            flowVars, turnVars, clickVars, effectVars, storeVars
<1>1. ASSUME NEW id \in Ids, Propose(id)
      PROVE  HistoryKept
  BY <1>1 DEF Propose, Save
<1>2. ASSUME NEW id \in Ids, ChatRespond(id) \/ SlackReadBack(id) \/ SlackAmend(id)
      PROVE  HistoryKept
  BY <1>2 DEF ChatRespond, SlackReadBack, SlackAmend
<1>3. ASSUME NEW r \in Clicks, Click(r)
      PROVE  HistoryKept
  BY <1>3 DEF Click
<1>4. ASSUME NEW r \in Clicks, Lookup(r) \/ Refuse(r) \/ Execute(r) \/ Reject(r)
      PROVE  HistoryKept
  BY <1>4 DEF Lookup, Refuse, Execute, Attempt, Reject
<1>5. ASSUME NEW r \in Clicks, ResolveGet(r) \/ ResolveDelete(r) \/ RecordOutcome(r)
                               \/ ChooseTurn(r) \/ UpdateRow(r)
      PROVE  HistoryKept
  BY <1>5 DEF ResolveGet, ResolveDelete, RecordOutcome, RecordTurn, ChooseTurn, UpdateRow,
              Pop, Delete
<1>6. CASE StoreEvent
  <2>1. CASE RedisDown \/ RedisBack
    BY <1>6, <2>1 DEF StoreEvent, RedisDown, RedisBack
  <2>2. ASSUME NEW id \in Ids, Expire(id)
        PROVE  HistoryKept
    BY <1>6, <2>2 DEF StoreEvent, Expire
  <2>3. CASE FlushAll
    BY <1>6, <2>3 DEF StoreEvent, FlushAll
  <2>4. QED
    BY <1>6, <2>1, <2>2, <2>3 DEF StoreEvent
<1>7. ASSUME NEW w \in Workers, Restart(w)
      PROVE  HistoryKept
  BY <1>7 DEF Restart, ForgetFallback
<1>8. CASE ClearTurns \/ UNCHANGED vars
  BY <1>8 DEF ClearTurns, vars
<1>9. QED
  BY <1>1, <1>2, <1>3, <1>4, <1>5, <1>6, <1>7, <1>8 DEF Next, Handle

\* Only its own Lookup makes a click end in "notfound".
LEMMA OnlyLookupMisses ==
    ASSUME TypeInv, [Next]_vars, NEW r \in Clicks,
           pc'[r] = "notfound", pc[r] # "notfound"
    PROVE  Lookup(r)
<1> USE DEF TypeInv, TypeOK, Goto, flowVars, turnVars, clickVars, effectVars
<1>1. ASSUME NEW id \in Ids, Propose(id) \/ ChatRespond(id)
                             \/ SlackReadBack(id) \/ SlackAmend(id)
      PROVE  FALSE
  BY <1>1 DEF Propose, ChatRespond, SlackReadBack, SlackAmend
<1>2. ASSUME NEW q \in Clicks, Click(q) \/ Refuse(q) \/ Execute(q) \/ Reject(q)
                               \/ ResolveGet(q) \/ ResolveDelete(q) \/ RecordOutcome(q)
                               \/ ChooseTurn(q) \/ UpdateRow(q)
      PROVE  FALSE
  BY <1>2 DEF Click, Refuse, Execute, Attempt, Reject, ResolveGet, ResolveDelete,
              RecordOutcome, RecordTurn, ChooseTurn, UpdateRow
<1>3. ASSUME NEW q \in Clicks, Lookup(q)
      PROVE  q = r
  BY <1>3 DEF Lookup
<1>4. StoreEvent \/ ClearTurns => FALSE
  BY DEF StoreEvent, ClearTurns
<1>5. ASSUME NEW w \in Workers, Restart(w)
      PROVE  FALSE
  BY <1>5 DEF Restart
<1>6. UNCHANGED vars => FALSE
  BY DEF vars
<1>7. QED
  BY <1>1, <1>2, <1>3, <1>4, <1>5, <1>6 DEF Next, Handle

-----------------------------------------------------------------------------
(* A "not found" answer tells the truth.                                   *)

LEMMA NotFoundStep ==
    ASSUME TypeInv, StoreSafe, PendingUntilSettled, NotFoundMeansSettled, [Next]_vars
    PROVE  NotFoundMeansSettled'
<1> SUFFICES ASSUME NeverOut', NEW r \in Clicks, pc'[r] = "notfound"
             PROVE  click'[r].id \in SettledIds' \cup dropped'
  BY DEF NotFoundMeansSettled
<1>1. HistoryKept
  BY HistoryStep
<1>2. SettledIds \subseteq SettledIds' /\ dropped \subseteq dropped'
  <2>1. \A q \in settled : q \in Clicks /\ pc[q] # "idle"
    BY DEF TypeInv, TypeOK, ClickInv
  <2>2. QED
    BY <1>1, <2>1 DEF HistoryKept, SettledIds
<1>3. CASE pc[r] = "notfound"
  BY <1>1, <1>2, <1>3 DEF HistoryKept, NotFoundMeansSettled
<1>4. CASE pc[r] # "notfound"
  <2>1. Lookup(r)
    BY <1>4, OnlyLookupMisses
  <2>2. Get(click[r].worker, click[r].id) = "none"
    BY <2>1 DEF Lookup, Goto, TypeInv, TypeOK
  <2>3. /\ click[r].id \in Ids /\ flow[click[r].id] = "offered"
        /\ click'[r] = click[r]
    BY <2>1 DEF Lookup, Goto, TypeInv, ClickInv, ClickData
  <2>4. ~Findable(click[r].id) /\ lost = {}
    BY <1>1, <2>2, <2>3 DEF HistoryKept, StoreSafe, Get, Findable
  <2>5. click[r].id \in SettledIds \cup dropped
    BY <2>3, <2>4 DEF PendingUntilSettled
  <2>6. QED
    BY <1>2, <2>3, <2>5
<1>5. QED
  BY <1>3, <1>4

\* While Redis was never away, "not found" is exact: the action was settled or
\* Redis has dropped its key (TTL, eviction, flush, restart), and no worker misses
\* an action that another one still holds.
THEOREM NotFoundIsExact == Spec => []NotFoundMeansSettled
<1>1. Init => NotFoundMeansSettled
  BY DEF Init, NotFoundMeansSettled
<1>2. TypeInv /\ StoreSafe /\ PendingUntilSettled /\ NotFoundMeansSettled
        /\ [Next]_vars => NotFoundMeansSettled'
  BY NotFoundStep
<1>3. QED
  BY <1>1, <1>2, TypeInvariance, StoreSafeInvariance, PendingIsKept, PTL DEF Spec

-----------------------------------------------------------------------------
(* External writes are authorised.                                         *)

\* A click that wrote has left "idle", so what it decided is fixed.
WriteInv ==
    /\ WriteIsAuthorised
    /\ \A id \in Ids : \A r \in writes[id] : pc[r] # "idle"

LEMMA WriteStep ==
    ASSUME TypeInv, WriteInv, [Next]_vars
    PROVE  WriteInv'
<1>1. HistoryKept
  BY HistoryStep
<1>2. ASSUME NEW r \in Clicks, Execute(r), NEW a \in Ids, NEW q \in writes'[a]
      PROVE  q \in writes[a] \/ (q = r /\ a = click[r].id)
  BY <1>2 DEF Execute, Attempt, TypeInv, TypeOK
<1>3. ASSUME NEW a \in Ids, NEW q \in writes[a]
      PROVE  /\ q \in Clicks /\ click'[q] = click[q] /\ card'[a] = card[a]
             /\ pc'[q] # "idle"
  <2>1. q \in Clicks /\ pc[q] # "idle" /\ click[q].id = a
    BY DEF WriteInv, WriteIsAuthorised, TypeInv, TypeOK
  <2>2. flow[a] # "new"
    BY <2>1 DEF TypeInv, ClickInv
  <2>3. QED
    BY <1>1, <2>1, <2>2 DEF HistoryKept
<1>4. CASE writes' = writes
  BY <1>3, <1>4 DEF WriteInv, WriteIsAuthorised, IsApprove, Can
<1>5. ASSUME NEW r \in Clicks, Execute(r)
      PROVE  WriteInv'
  <2>1. /\ click' = click /\ card' = card
        /\ IsApprove(r) /\ ~Refused(r) /\ pc'[r] # "idle"
    BY <1>5 DEF Execute, Attempt, Goto, TypeInv, TypeOK, flowVars
  <2>2. ASSUME card[click[r].id].origin = "web"
        PROVE  /\ Can(click[r].role, card[click[r].id].action)
               /\ ~card[click[r].id].blocked
    BY <2>1, <2>2 DEF Refused, IsSlack, CardOf
  <2>3. ASSUME NEW a \in Ids, NEW q \in writes'[a]
        PROVE  /\ click[q].id = a /\ IsApprove(q) /\ pc'[q] # "idle"
               /\ card[a].origin = "web" =>
                    Can(click[q].role, card[a].action) /\ ~card[a].blocked
    <3>1. CASE q \in writes[a]
      BY <1>3, <3>1 DEF WriteInv, WriteIsAuthorised
    <3>2. CASE q = r /\ a = click[r].id
      BY <2>1, <2>2, <3>2
    <3>3. QED
      BY <1>2, <1>5, <2>3, <3>1, <3>2
  <2>4. QED
    BY <2>1, <2>3 DEF WriteInv, WriteIsAuthorised, IsApprove, Can
<1>6. ASSUME NEW r \in Clicks, Click(r) \/ Lookup(r) \/ Refuse(r) \/ Reject(r)
                \/ ResolveGet(r) \/ ResolveDelete(r) \/ RecordOutcome(r)
                \/ ChooseTurn(r) \/ UpdateRow(r)
      PROVE  writes' = writes
  BY <1>6 DEF Click, Lookup, Refuse, Reject, ResolveGet, ResolveDelete,
              RecordOutcome, RecordTurn, ChooseTurn, UpdateRow, effectVars
<1>7. ASSUME NEW id \in Ids, Propose(id) \/ ChatRespond(id)
                             \/ SlackReadBack(id) \/ SlackAmend(id)
      PROVE  writes' = writes
  BY <1>7 DEF Propose, ChatRespond, SlackReadBack, SlackAmend, effectVars
<1>8. StoreEvent \/ ClearTurns \/ (\E w \in Workers : Restart(w)) \/ UNCHANGED vars
        => writes' = writes
  BY DEF StoreEvent, ClearTurns, Restart, vars, effectVars
<1>9. QED
  BY <1>4, <1>5, <1>6, <1>7, <1>8 DEF Next, Handle

\* Every external write is owed to an Approve click on that very proposal,
\* made on the web by a role the matrix allows and past the NO_GO and
\* missing-reviewer gates, however the clicks of several users interleave.
THEOREM WritesAreAuthorised == Spec => []WriteIsAuthorised
<1>1. Init => WriteInv
  BY DEF Init, WriteInv, WriteIsAuthorised
<1>2. TypeInv /\ WriteInv /\ [Next]_vars => WriteInv'
  BY WriteStep
<1>3. WriteInv => WriteIsAuthorised
  BY DEF WriteInv
<1>4. QED
  BY <1>1, <1>2, <1>3, TypeInvariance, PTL DEF Spec

-----------------------------------------------------------------------------
(* A Slack decision ends in its thread.                                    *)

\* Buttons are offered only once the key holds the thread's coordinates or is
\* gone, so a handler past its lookup read the amended copy; a Slack handler never
\* updates a turn.
SlackSafe ==
    NeverOut =>
        /\ \A id \in Ids :
              flow[id] = "offered" /\ card[id].origin = "slack" => redis[id] # "saved"
        /\ \A r \in Clicks :
              pc[r] \in {"found", "resolve", "delete", "record"} /\ IsSlack(r)
                  => copy[r] = "amended"
        /\ \A r \in Clicks : pc[r] = "update" => ~IsSlack(r)
        /\ SlackOutcomePosted

LEMMA SlackSafeInit == Init => SlackSafe
BY DEF Init, StoreInit, SlackSafe, SlackOutcomePosted

LEMMA SlackSafeStep ==
    ASSUME TypeInv, StoreSafe, SlackSafe, [Next]_vars
    PROVE  SlackSafe'
<1> SUFFICES ASSUME NeverOut'
             PROVE  SlackSafe'
  BY DEF SlackSafe
<1>1. HistoryKept /\ NeverOut
  BY HistoryStep DEF HistoryKept
<1>2. /\ redisUp
      /\ \A w \in Workers : \A id \in Ids : fallback[w][id] = "none"
  BY <1>1 DEF StoreSafe
<1>3. \A r \in Clicks : pc[r] # "idle" =>
          /\ click[r].id \in Ids /\ click[r].worker \in Workers
          /\ flow[click[r].id] = "offered"
          /\ click'[r] = click[r] /\ (IsSlack(r)' <=> IsSlack(r))
  BY <1>1 DEF HistoryKept, TypeInv, ClickInv, ClickData, IsSlack, CardOf
<1>a. /\ redis \in [Ids -> Copy] /\ fallback \in [Workers -> [Ids -> Copy]]
      /\ redisUp \in BOOLEAN /\ outages \in Nat
      /\ card \in [Ids -> Cards \cup {None}]
      /\ flow \in [Ids -> {"new", "saved", "amending", "offered", "dead"}]
      /\ pc \in [Clicks -> {"idle"} \cup Running \cup Answered]
      /\ DOMAIN click = Clicks /\ copy \in [Clicks -> Copy]
      /\ posted \subseteq Clicks /\ ClickInv
  BY BoundsAssumption DEF TypeInv, TypeOK, StoreTypeOK
<1> USE <1>1, <1>2, <1>3, <1>a
    DEF Copy, SlackSafe, SlackOutcomePosted, Goto,
        NeverOut, flowVars, turnVars, clickVars, effectVars, storeVars
<1>4. ASSUME NEW id \in Ids, Propose(id)
      PROVE  SlackSafe'
  BY <1>4 DEF Propose, Save
<1>5. ASSUME NEW id \in Ids, ChatRespond(id)
      PROVE  SlackSafe'
  BY <1>5 DEF ChatRespond
<1>6. ASSUME NEW id \in Ids, SlackReadBack(id)
      PROVE  SlackSafe'
  <2>1. card[id].worker \in Workers
    BY <1>6 DEF SlackReadBack, ClickInv, Cards
  <2>2. Get(card[id].worker, id) = "none" => redis[id] = "none"
    BY <2>1 DEF Get
  <2>3. QED
    BY <1>6, <2>2 DEF SlackReadBack
<1>7. ASSUME NEW id \in Ids, SlackAmend(id)
      PROVE  SlackSafe'
  BY <1>7 DEF SlackAmend
<1>8. ASSUME NEW r \in Clicks, Click(r)
      PROVE  SlackSafe'
  BY <1>8 DEF Click
<1>9. ASSUME NEW r \in Clicks, Lookup(r)
      PROVE  SlackSafe'
  <2>1. Get(click[r].worker, click[r].id) \in {"none", redis[click[r].id]}
    BY <1>9 DEF Lookup, Get
  <2>2. IsSlack(r) => Get(click[r].worker, click[r].id) \in {"none", "amended"}
    BY <1>9, <2>1 DEF Lookup, IsSlack, CardOf
  <2>3. QED
    BY <1>9, <2>2 DEF Lookup
<1>10. ASSUME NEW r \in Clicks, Refuse(r) \/ Execute(r) \/ Reject(r)
       PROVE  SlackSafe'
  <2>1. /\ UNCHANGED <<redis, flow, card, copy, posted>>
        /\ pc[r] = "found"
        /\ \E p \in {"refused", "error", "resolve"} : pc' = [pc EXCEPT ![r] = p]
    BY <1>10 DEF Refuse, Execute, Attempt, Reject
  <2>2. QED
    BY <2>1
<1>11. ASSUME NEW r \in Clicks, ResolveGet(r)
       PROVE  SlackSafe'
  <2>1. /\ UNCHANGED <<redis, flow, card, copy, posted>>
        /\ pc[r] = "resolve"
        /\ pc' = [pc EXCEPT ![r] = "delete"]
    BY <1>11 DEF ResolveGet
  <2>2. QED
    BY <2>1
<1>12. ASSUME NEW r \in Clicks, ResolveDelete(r)
       PROVE  SlackSafe'
  BY <1>12 DEF ResolveDelete, Delete, Pop
<1>13. ASSUME NEW r \in Clicks, RecordOutcome(r)
       PROVE  SlackSafe'
  BY <1>13 DEF RecordOutcome, RecordTurn
<1>14. ASSUME NEW r \in Clicks, ChooseTurn(r) \/ UpdateRow(r)
       PROVE  SlackSafe'
  <2>1. /\ UNCHANGED <<redis, flow, card, click, copy, posted>>
        /\ ~IsSlack(r) /\ pc[r] # "idle"
        /\ \E p \in {"update", "done"} : pc' = [pc EXCEPT ![r] = p]
    BY <1>14 DEF ChooseTurn, UpdateRow
  <2>2. QED
    BY <2>1
<1>15. CASE StoreEvent
  <2>1. UNCHANGED <<flow, card, copy, posted, pc>>
    BY <1>15 DEF StoreEvent
  <2>2. \A id \in Ids : redis'[id] \in {redis[id], "none"}
    <3>1. ASSUME NEW a \in Ids, Expire(a)
          PROVE  \A id \in Ids : redis'[id] \in {redis[id], "none"}
      BY <3>1 DEF Expire
    <3>2. RedisDown \/ RedisBack => redis' = redis
      BY DEF RedisDown, RedisBack
    <3>3. FlushAll => \A id \in Ids : redis'[id] \in {redis[id], "none"}
      BY DEF FlushAll
    <3>4. QED
      BY <1>15, <3>1, <3>2, <3>3 DEF StoreEvent
  <2>3. QED
    BY <2>1, <2>2
<1>16. ASSUME NEW w \in Workers, Restart(w)
       PROVE  SlackSafe'
  BY <1>16 DEF Restart, ForgetFallback, Running
<1>17. CASE ClearTurns \/ UNCHANGED vars
  BY <1>17 DEF ClearTurns, vars
<1>18. QED
  BY ONLY [Next]_vars, <1>4, <1>5, <1>6, <1>7, <1>8, <1>9, <1>10, <1>11, <1>12, <1>13, <1>14,
     <1>15, <1>16, <1>17 DEF Next, Handle

\* While Redis was never away, every Slack decision that ran to its end posted
\* its result: the second write of the key, with the thread's coordinates, comes
\* before any click can read it.
THEOREM SlackAlwaysAnswered == Spec => []SlackOutcomePosted
<1>1. TypeInv /\ StoreSafe /\ SlackSafe /\ [Next]_vars => SlackSafe'
  BY SlackSafeStep
<1>2. SlackSafe => SlackOutcomePosted
  BY DEF SlackSafe, SlackOutcomePosted
<1>3. QED
  BY SlackSafeInit, TypeInvariance, StoreSafeInvariance, <1>1, <1>2, PTL DEF Spec

-----------------------------------------------------------------------------
(* The placeholders of a session.                                          *)

\* Saving a turn adds one pending turn at the end.
LEMMA SaveAdds ==
    ASSUME NEW ts \in Seq(Turn), NEW id \in Ids
    PROVE  LET us == SaveTurn(ts, id)
               n == Len(ts) + 1
           IN  /\ n \notin DOMAIN ts
               /\ DOMAIN us = DOMAIN ts \cup {n}
               /\ us[n].id = id
               /\ \A i \in DOMAIN ts : us[i] = ts[i]
               /\ PendingTurns(us) = PendingTurns(ts) \cup {n}
<1> DEFINE new == [id |-> id, outcome |-> Placeholder]
           us == Append(ts, new)
           n == Len(ts) + 1
<1>1. /\ DOMAIN ts = 1..Len(ts) /\ Len(ts) \in Nat
      /\ DOMAIN us = 1..n
      /\ us[n] = new /\ \A i \in 1..Len(ts) : us[i] = ts[i]
  <2>1. new \in Turn
    BY DEF Turn
  <2>2. QED
    BY <2>1, AppendProperties, LenProperties
<1>2. us = SaveTurn(ts, id)
  BY DEF SaveTurn
<1> HIDE DEF us
<1>3. n \notin DOMAIN ts /\ DOMAIN us = DOMAIN ts \cup {n}
  BY <1>1
<1>4. PendingTurns(us) = PendingTurns(ts) \cup {n}
  BY <1>1, <1>3 DEF PendingTurns
<1>5. QED
  BY <1>1, <1>2, <1>3, <1>4

\* Writing an outcome into a turn takes that turn out of the pending ones and
\* leaves the id of every turn alone.
LEMMA UpdateClears ==
    ASSUME NEW ts \in Seq(Turn), NEW r \in Clicks, NEW k \in Nat
    PROVE  LET us == UpdateTurn(ts, k, r) IN
           /\ DOMAIN us = DOMAIN ts
           /\ \A i \in DOMAIN ts : us[i].id = ts[i].id
           /\ PendingTurns(us) = PendingTurns(ts) \ {k}
<1>1. /\ DOMAIN ts = 1..Len(ts) /\ Len(ts) \in Nat
      /\ \A i \in DOMAIN ts : ts[i] \in Turn
      /\ 0 \notin DOMAIN ts
  BY LenProperties, ElementOfSeq
<1>2. CASE k = 0
  BY <1>1, <1>2 DEF UpdateTurn, PendingTurns
<1>3. CASE k # 0
  <2> DEFINE us == [ts EXCEPT ![k].outcome = r]
  <2>1. us = UpdateTurn(ts, k, r)
    BY <1>3 DEF UpdateTurn
  <2>2. DOMAIN us = DOMAIN ts /\ \A i \in DOMAIN ts : us[i].id = ts[i].id
    BY <1>1 DEF Turn
  <2>3. k \in DOMAIN ts => us[k].outcome = r
    BY <1>1 DEF Turn
  <2>4. \A i \in DOMAIN ts : i # k => us[i] = ts[i]
    BY <1>1
  <2> HIDE DEF us
  <2>5. PendingTurns(us) = PendingTurns(ts) \ {k}
    BY <2>2, <2>3, <2>4, ConstantsAssumption DEF PendingTurns
  <2>6. QED
    BY <2>1, <2>2, <2>5
<1>4. QED
  BY <1>2, <1>3

\* The turns of a session no recorded outcome belongs to, and those among them
\* that stay so when the outcome of proposal id is recorded.
Unrecorded(s) ==
    {i \in DOMAIN turns[s] : \A r \in recorded : click[r].id # turns[s][i].id}
Spared(s, id) == {i \in Unrecorded(s) : turns[s][i].id # id}

\* A proposal has at most one turn, in the session of its card, and an outcome
\* is recorded only after the turn.
TurnsOwned ==
    /\ \A s \in Sessions : \A i \in DOMAIN turns[s] :
          /\ turns[s][i].id \in Ids
          /\ flow[turns[s][i].id] = "offered"
          /\ card[turns[s][i].id].session = s
          /\ \A j \in DOMAIN turns[s] : turns[s][j].id = turns[s][i].id => j = i
    /\ \A r \in recorded : pc[r] # "idle"

\* Every recorded outcome filled some placeholder, though not always its own: no
\* more turns are pending than turns lack an outcome ...
TurnsCounted ==
    \A s \in Sessions \ raced :
        Cardinality(PendingTurns(turns[s])) <= Cardinality(Unrecorded(s))

\* ... and a click between the subquery and the write of its UPDATE is alone in
\* its session and has chosen a turn whose clearing keeps it so.
Updating(r, s) == pc[r] = "update" /\ CardOf(r).session = s

TurnsReserved ==
    /\ \A r \in Clicks : pc[r] = "update" => backend = "postgres"
    /\ \A s \in Sessions \ raced : \A r \in Clicks : Updating(r, s) =>
          /\ \A q \in Clicks : Updating(q, s) => q = r
          /\ Cardinality(PendingTurns(turns[s]) \ {row[r]})
                <= Cardinality(Spared(s, click[r].id))

TurnsInv == TurnsOwned /\ TurnsCounted /\ TurnsReserved

LEMMA TurnsInit == Init => TurnsInv
<1> SUFFICES ASSUME Init
             PROVE  TurnsInv
  OBVIOUS
<1>1. \A s \in Sessions : DOMAIN turns[s] = {}
  BY DEF Init
<1>2. \A s \in Sessions : PendingTurns(turns[s]) = {} /\ Unrecorded(s) = {}
  BY <1>1 DEF PendingTurns, Unrecorded
<1>3. TurnsCounted
  BY <1>2, FS_EmptySet DEF TurnsCounted
<1>4. TurnsReserved
  BY DEF TurnsReserved, Updating, Init
<1>5. QED
  BY <1>1, <1>3, <1>4 DEF TurnsInv, TurnsOwned, Init

\* The sets compared by TurnsCounted are finite.
LEMMA TurnsFinite ==
    ASSUME NEW ts \in Seq(Turn), NEW S \in SUBSET DOMAIN ts
    PROVE  IsFiniteSet(S) /\ Cardinality(S) \in Nat
<1>1. DOMAIN ts = 1..Len(ts) /\ Len(ts) \in Nat
  BY LenProperties
<1>2. IsFiniteSet(DOMAIN ts)
  BY <1>1, FS_Interval
<1>3. QED
  BY <1>2, FS_Subset, FS_CardinalityType

\* Adding a new element to both sets keeps the comparison ...
LEMMA AddToBoth ==
    ASSUME NEW A, NEW B, NEW n, IsFiniteSet(A), IsFiniteSet(B), n \notin B,
           Cardinality(A) <= Cardinality(B)
    PROVE  Cardinality(A \cup {n}) <= Cardinality(B \cup {n})
<1>1. Cardinality(A) \in Nat /\ Cardinality(B) \in Nat
  BY FS_CardinalityType
<1>2. Cardinality(B \cup {n}) = Cardinality(B) + 1
  BY FS_AddElement
<1>3. Cardinality(A \cup {n}) \in {Cardinality(A), Cardinality(A) + 1}
  BY FS_AddElement
<1>4. QED
  BY <1>1, <1>2, <1>3

\* ... and so does taking at most one out of the larger and one, if there is one,
\* out of the smaller.
LEMMA TakeFromBoth ==
    ASSUME NEW A, NEW B, NEW P, NEW U, NEW o,
           IsFiniteSet(A), IsFiniteSet(B), IsFiniteSet(U),
           Cardinality(A) <= Cardinality(B), B \ {o} \subseteq U,
           P = {} \/ \E k \in A : P = A \ {k}
    PROVE  Cardinality(P) <= Cardinality(U)
<1>1. /\ Cardinality(A) \in Nat /\ Cardinality(B) \in Nat /\ Cardinality(U) \in Nat
      /\ Cardinality({}) = 0
  BY FS_CardinalityType, FS_EmptySet
<1>2. Cardinality(B \ {o}) \in {Cardinality(B), Cardinality(B) - 1}
  BY FS_RemoveElement
<1>3. Cardinality(B \ {o}) <= Cardinality(U)
  BY FS_Subset
<1>4. ASSUME NEW k \in A, P = A \ {k}
      PROVE  Cardinality(P) = Cardinality(A) - 1
  BY <1>4, FS_RemoveElement
<1>5. QED
  BY <1>1, <1>2, <1>3, <1>4

\* The row an UPDATE of an undisturbed session chooses may be cleared, whichever
\* proposal the outcome belongs to.
LEMMA NewestMayBeCleared ==
    ASSUME TurnsOwned, TurnsCounted, NEW s \in Sessions \ raced, NEW id,
           turns[s] \in Seq(Turn)
    PROVE  Cardinality(PendingTurns(turns[s]) \ {NewestPending(turns[s])})
              <= Cardinality(Spared(s, id))
<1> DEFINE ts == turns[s]
           A == PendingTurns(ts)
           B == Unrecorded(s)
           U == Spared(s, id)
           k == NewestPending(ts)
<1>1. PICK o : \A i \in DOMAIN ts : ts[i].id = id => i = o
  <2>1. CASE \E o \in DOMAIN ts : ts[o].id = id
    <3>1. PICK o \in DOMAIN ts : ts[o].id = id
      BY <2>1
    <3>2. \A i \in DOMAIN ts : ts[i].id = id => i = o
      BY <3>1 DEF TurnsOwned
    <3>3. QED
      BY <3>2
  <2>2. QED
    BY <2>1
<1>2. A \subseteq DOMAIN ts /\ B \subseteq DOMAIN ts /\ U \subseteq DOMAIN ts
  BY DEF PendingTurns, Unrecorded, Spared
<1>3. B \ {o} \subseteq U
  BY <1>1, <1>2 DEF Spared
<1>4. A \ {k} = {} \/ \E i \in A : A \ {k} = A \ {i}
  BY NewestIsPending
<1>5. Cardinality(A) <= Cardinality(B)
  BY DEF TurnsCounted
<1> HIDE DEF A, B, U, k
<1>6. IsFiniteSet(A) /\ IsFiniteSet(B) /\ IsFiniteSet(U)
  BY <1>2, TurnsFinite
<1>7. Cardinality(A \ {k}) <= Cardinality(U)
  BY <1>3, <1>4, <1>5, <1>6, TakeFromBoth
<1>8. QED
  BY <1>7 DEF A, U, k

\* What TypeInv says of the turns and of the recorded outcomes.
TurnsTyped ==
    /\ turns \in [Sessions -> Seq(Turn)]
    /\ recorded \in SUBSET Clicks
    /\ flow \in [Ids -> {"new", "saved", "amending", "offered", "dead"}]
    /\ \A id \in Ids : flow[id] # "new" => card[id].session \in Sessions
    /\ \A r \in Clicks : pc[r] # "idle" => click[r].id \in Ids /\ flow[click[r].id] = "offered"

LEMMA TypedTurns == TypeInv => TurnsTyped
BY DEF TypeInv, TypeOK, ClickInv, ClickData, Cards, TurnsTyped

\* A turn that is saved is pending and has no outcome yet.
LEMMA RespondCounts ==
    ASSUME TypeInv, TurnsInv, NEW id \in Ids, ChatRespond(id)
    PROVE  TurnsInv'
<1>1. /\ flow[id] = "saved" /\ flow' = [flow EXCEPT ![id] = "offered"]
      /\ UNCHANGED <<card, click, pc, backend, recorded, row, raced>>
  BY DEF ChatRespond, clickVars, effectVars
<1>2. TurnsTyped /\ TurnsOwned /\ TurnsCounted /\ TurnsReserved
  BY TypedTurns DEF TurnsInv
<1>3. \A r \in recorded : r \in Clicks /\ click[r].id # id
  BY <1>1, <1>2 DEF TurnsOwned, TurnsTyped
<1>4. \A s \in Sessions : \A i \in DOMAIN turns[s] : turns[s][i].id # id
  BY <1>1, <1>2 DEF TurnsOwned
<1>5. flow'[id] = "offered" /\ \A a \in Ids \ {id} : flow'[a] = flow[a]
  BY <1>1, <1>2 DEF TurnsTyped
<1>6. CASE UNCHANGED turns
  <2>1. TurnsOwned'
    BY <1>1, <1>2, <1>4, <1>5, <1>6 DEF TurnsOwned
  <2>2. TurnsCounted'
    BY <1>1, <1>2, <1>6 DEF TurnsCounted, Unrecorded
  <2>3. TurnsReserved'
    BY <1>1, <1>2, <1>6 DEF TurnsReserved, Updating, CardOf, Spared, Unrecorded
  <2>4. QED
    BY <2>1, <2>2, <2>3 DEF TurnsInv
<1>7. CASE turns' = [turns EXCEPT ![card[id].session] = SaveTurn(@, id)]
  <2>0. PICK t \in Sessions : t = card[id].session
    BY <1>1, <1>2 DEF TurnsTyped
  <2> DEFINE ts == turns[t]
             us == SaveTurn(ts, id)
             n == Len(ts) + 1
  <2>1. ts \in Seq(Turn)
    BY <1>2 DEF TurnsTyped
  <2>a. /\ n \notin DOMAIN ts
        /\ DOMAIN us = DOMAIN ts \cup {n}
        /\ us[n].id = id
        /\ \A i \in DOMAIN ts : us[i] = ts[i]
        /\ PendingTurns(us) = PendingTurns(ts) \cup {n}
    BY <2>1, SaveAdds
  <2>2. turns'[t] = us /\ \A s \in Sessions \ {t} : turns'[s] = turns[s]
    BY <1>2, <1>7, <2>0 DEF TurnsTyped
  <2> HIDE DEF n, us
  <2>3. /\ n \notin DOMAIN ts
        /\ DOMAIN turns'[t] = DOMAIN ts \cup {n}
        /\ turns'[t][n].id = id
        /\ \A i \in DOMAIN ts : turns'[t][i] = ts[i]
        /\ PendingTurns(turns'[t]) = PendingTurns(ts) \cup {n}
    BY <2>a, <2>2
  <2>4. TurnsOwned'
    <3>1. ASSUME NEW s \in Sessions, NEW i \in DOMAIN turns'[s]
          PROVE  /\ turns'[s][i].id \in Ids
                 /\ flow'[turns'[s][i].id] = "offered"
                 /\ card'[turns'[s][i].id].session = s
                 /\ \A j \in DOMAIN turns'[s] :
                       turns'[s][j].id = turns'[s][i].id => j = i
      <4>1. CASE s # t
        BY <1>1, <1>2, <1>4, <1>5, <2>2, <3>1, <4>1 DEF TurnsOwned
      <4>2. CASE s = t /\ i = n
        BY <1>1, <1>4, <1>5, <2>0, <2>3, <4>2
      <4>3. CASE s = t /\ i # n
        BY <1>1, <1>2, <1>4, <1>5, <2>1, <2>3, <3>1, <4>3 DEF TurnsOwned
      <4>4. QED
        BY <4>1, <4>2, <4>3
    <3>2. \A r \in recorded' : pc'[r] # "idle"
      BY <1>1, <1>2 DEF TurnsOwned
    <3>3. QED
      BY <3>1, <3>2 DEF TurnsOwned
  <2>5. /\ Unrecorded(t)' = Unrecorded(t) \cup {n} /\ n \notin Unrecorded(t)
        /\ Unrecorded(t) \subseteq DOMAIN ts
    BY <1>1, <1>3, <2>3 DEF Unrecorded
  <2>6. IsFiniteSet(Unrecorded(t)) /\ IsFiniteSet(PendingTurns(ts))
    <3>1. Unrecorded(t) \subseteq DOMAIN ts /\ PendingTurns(ts) \subseteq DOMAIN ts
      BY DEF Unrecorded, PendingTurns
    <3>2. QED
      BY <2>1, <3>1, TurnsFinite
  <2>7. ASSUME NEW s \in Sessions \ raced
        PROVE  Cardinality(PendingTurns(turns'[s])) <= Cardinality(Unrecorded(s)')
    <3>1. CASE s # t
      BY <1>1, <1>2, <2>2, <3>1 DEF TurnsCounted, Unrecorded
    <3>2. CASE s = t
      <4>1. Cardinality(PendingTurns(ts)) <= Cardinality(Unrecorded(t))
        BY <1>2, <3>2 DEF TurnsCounted
      <4>2. Cardinality(PendingTurns(ts) \cup {n}) <= Cardinality(Unrecorded(t) \cup {n})
        BY <2>5, <2>6, <4>1, AddToBoth
      <4>3. QED
        BY <2>3, <2>5, <3>2, <4>2
    <3>3. QED
      BY <3>1, <3>2
  <2>8. ASSUME NEW s \in Sessions \ raced, NEW r \in Clicks, Updating(r, s)
        PROVE  Cardinality(PendingTurns(turns'[s]) \ {row[r]})
                  <= Cardinality(Spared(s, click[r].id)')
    <3>1. Cardinality(PendingTurns(turns[s]) \ {row[r]}) <= Cardinality(Spared(s, click[r].id))
      BY <1>2, <2>8 DEF TurnsReserved
    <3>2. CASE s # t
      <4>1. Spared(s, click[r].id)' = Spared(s, click[r].id)
        BY <1>1, <2>2, <3>2 DEF Spared, Unrecorded
      <4>2. QED
        BY <2>2, <3>1, <3>2, <4>1
    <3>3. CASE s = t
      <4> DEFINE A == PendingTurns(ts) \ {row[r]}
                 B == Spared(t, click[r].id)
      <4>1. click[r].id # id
        BY <1>1, <1>2, <2>8 DEF TurnsTyped, Updating
      <4>2. Spared(t, click[r].id)' = B \cup {n} /\ n \notin B
        BY <1>1, <2>3, <2>5, <4>1 DEF Spared
      <4>3. IsFiniteSet(A) /\ IsFiniteSet(B)
        BY <2>6, FS_Subset DEF Spared
      <4>4. Cardinality(A) <= Cardinality(B)
        BY <3>1, <3>3
      <4>5. PendingTurns(turns'[t]) \ {row[r]} \subseteq A \cup {n}
        BY <2>3
      <4> HIDE DEF A, B
      <4>6. Cardinality(A \cup {n}) <= Cardinality(B \cup {n})
        BY <4>2, <4>3, <4>4, AddToBoth
      <4>7. /\ IsFiniteSet(A \cup {n}) /\ IsFiniteSet(B \cup {n})
            /\ Cardinality(A \cup {n}) \in Nat /\ Cardinality(B \cup {n}) \in Nat
        BY <4>3, FS_AddElement, FS_CardinalityType
      <4>8. /\ IsFiniteSet(PendingTurns(turns'[t]) \ {row[r]})
            /\ Cardinality(PendingTurns(turns'[t]) \ {row[r]}) <= Cardinality(A \cup {n})
        BY <4>5, <4>7, FS_Subset
      <4>9. Cardinality(PendingTurns(turns'[t]) \ {row[r]}) \in Nat
        BY <4>8, FS_CardinalityType
      <4>10. QED
        BY <3>3, <4>2, <4>6, <4>7, <4>8, <4>9
    <3>4. QED
      BY <3>2, <3>3
  <2>9. TurnsReserved'
    BY <1>1, <1>2, <2>8 DEF TurnsReserved, Updating, CardOf
  <2>10. QED
    BY <1>1, <2>4, <2>7, <2>9 DEF TurnsInv, TurnsCounted
<1>8. QED
  BY <1>6, <1>7 DEF ChatRespond

\* Recording an outcome in some turn of its session takes the turn of its own
\* proposal out of the unrecorded ones and that turn out of the pending ones.
LEMMA WriteSpares ==
    ASSUME TypeInv, TurnsOwned, NEW r \in Clicks, pc[r] # "idle",
           NEW s \in Sessions, s = CardOf(r).session, NEW k \in Nat,
           turns' = [turns EXCEPT ![s] = UpdateTurn(@, k, r)],
           recorded' = recorded \cup {r}, UNCHANGED <<card, flow, click>>,
           \A q \in Clicks : pc[q] # "idle" => pc'[q] # "idle"
    PROVE  /\ TurnsOwned'
           /\ PendingTurns(turns'[s]) = PendingTurns(turns[s]) \ {k}
           /\ Unrecorded(s)' = Spared(s, click[r].id)
           /\ \A z \in Sessions \ {s} :
                 turns'[z] = turns[z] /\ Unrecorded(z)' = Unrecorded(z)
<1>1. TurnsTyped
  BY TypedTurns
<1>2. turns[s] \in Seq(Turn)
  BY <1>1 DEF TurnsTyped
<1>3. /\ turns'[s] = UpdateTurn(turns[s], k, r)
      /\ \A z \in Sessions \ {s} : turns'[z] = turns[z]
  BY <1>1 DEF TurnsTyped
<1>4. /\ DOMAIN turns'[s] = DOMAIN turns[s]
      /\ \A i \in DOMAIN turns[s] : turns'[s][i].id = turns[s][i].id
      /\ PendingTurns(turns'[s]) = PendingTurns(turns[s]) \ {k}
  BY <1>2, <1>3, UpdateClears
<1>5. \A z \in Sessions : /\ DOMAIN turns'[z] = DOMAIN turns[z]
                          /\ \A i \in DOMAIN turns[z] : turns'[z][i].id = turns[z][i].id
  BY <1>3, <1>4
<1>6. TurnsOwned'
  <2>1. ASSUME NEW z \in Sessions, NEW i \in DOMAIN turns'[z]
        PROVE  /\ turns'[z][i].id \in Ids
               /\ flow'[turns'[z][i].id] = "offered"
               /\ card'[turns'[z][i].id].session = z
               /\ \A j \in DOMAIN turns'[z] :
                     turns'[z][j].id = turns'[z][i].id => j = i
    BY <1>5, <2>1 DEF TurnsOwned
  <2>2. \A q \in recorded' : pc'[q] # "idle"
    BY <1>1 DEF TurnsOwned, TurnsTyped
  <2>3. QED
    BY <2>1, <2>2 DEF TurnsOwned
<1>7. Unrecorded(s)' = Spared(s, click[r].id)
  BY <1>5 DEF Unrecorded, Spared
<1>8. ASSUME NEW z \in Sessions \ {s}
      PROVE  Unrecorded(z)' = Unrecorded(z)
  <2>1. \A i \in DOMAIN turns[z] : turns[z][i].id # click[r].id
    BY DEF TurnsOwned, CardOf
  <2>2. QED
    BY <1>3, <2>1 DEF Unrecorded
<1>9. QED
  BY <1>3, <1>4, <1>6, <1>7, <1>8

\* SQLite chooses the turn and writes it in one go.
LEMMA RecordCounts ==
    ASSUME TypeInv, TurnsInv, NEW r \in Clicks, RecordOutcome(r),
           ~UNCHANGED <<turns, recorded>>
    PROVE  TurnsInv'
<1>1. /\ pc[r] = "record" /\ pc' = [pc EXCEPT ![r] = "done"] /\ backend = "sqlite"
      /\ turns' = [turns EXCEPT ![CardOf(r).session] = UpdateLastHitl(@, r)]
      /\ recorded' = recorded \cup {r}
      /\ UNCHANGED <<card, flow, click, raced, backend>>
  BY DEF RecordOutcome, RecordTurn, Goto, flowVars
<1>2. TurnsTyped /\ TurnsOwned /\ TurnsCounted /\ TurnsReserved
  BY TypedTurns DEF TurnsInv
<1>3. PICK s \in Sessions : s = CardOf(r).session
  BY <1>1, <1>2 DEF TurnsTyped, CardOf
<1>4. turns[s] \in Seq(Turn)
  BY <1>2 DEF TurnsTyped
<1>5. PICK k \in Nat : k = NewestPending(turns[s])
  BY <1>4, NewestIsPending
<1>6. turns' = [turns EXCEPT ![s] = UpdateTurn(@, k, r)]
  BY <1>1, <1>3, <1>5 DEF UpdateLastHitl
<1>7. pc \in [Clicks -> {"idle"} \cup Running \cup Answered]
  BY DEF TypeInv, TypeOK
<1>8. \A q \in Clicks : pc[q] # "idle" => pc'[q] # "idle"
  BY <1>1, <1>7
<1>9. /\ TurnsOwned'
      /\ PendingTurns(turns'[s]) = PendingTurns(turns[s]) \ {k}
      /\ Unrecorded(s)' = Spared(s, click[r].id)
      /\ \A z \in Sessions \ {s} :
            turns'[z] = turns[z] /\ Unrecorded(z)' = Unrecorded(z)
  BY <1>1, <1>2, <1>3, <1>6, <1>8, WriteSpares
<1>10. ASSUME NEW z \in Sessions \ raced
       PROVE  Cardinality(PendingTurns(turns'[z])) <= Cardinality(Unrecorded(z)')
  <2>1. CASE z # s
    BY <1>2, <1>9, <2>1 DEF TurnsCounted
  <2>2. CASE z = s
    BY <1>2, <1>4, <1>5, <1>9, <2>2, NewestMayBeCleared
  <2>3. QED
    BY <2>1, <2>2
<1>11. \A q \in Clicks : pc'[q] # "update"
  BY <1>1, <1>2, <1>7 DEF TurnsReserved
<1>12. TurnsCounted' /\ TurnsReserved'
  BY <1>1, <1>10, <1>11 DEF TurnsCounted, TurnsReserved, Updating
<1>13. QED
  BY <1>9, <1>12 DEF TurnsInv

\* The subquery of PostgreSQL's UPDATE, unless another UPDATE of the session is
\* under way, chooses a turn that may be cleared.
LEMMA ChooseCounts ==
    ASSUME TypeInv, TurnsInv, NEW r \in Clicks, ChooseTurn(r)
    PROVE  TurnsInv'
<1>1. /\ pc[r] = "record" /\ pc' = [pc EXCEPT ![r] = "update"] /\ backend = "postgres"
      /\ row' = [row EXCEPT ![r] = NewestPending(turns[CardOf(r).session])]
      /\ raced' = IF \E q \in Clicks : Updating(q, CardOf(r).session)
                  THEN raced \cup {CardOf(r).session} ELSE raced
      /\ UNCHANGED <<card, flow, click, turns, recorded, backend>>
  BY DEF ChooseTurn, Goto, flowVars, Updating
<1>2. TurnsTyped /\ TurnsOwned /\ TurnsCounted /\ TurnsReserved
  BY TypedTurns DEF TurnsInv
<1>3. /\ pc \in [Clicks -> {"idle"} \cup Running \cup Answered]
      /\ row \in [Clicks -> Nat]
  BY DEF TypeInv, TypeOK
<1>4. TurnsOwned'
  BY <1>1, <1>2, <1>3 DEF TurnsOwned, TurnsTyped
<1>5. \A s : Unrecorded(s)' = Unrecorded(s)
  BY <1>1 DEF Unrecorded
<1>6. TurnsCounted'
  BY <1>1, <1>2, <1>5 DEF TurnsCounted
<1>7. ASSUME NEW s \in Sessions \ raced', NEW p \in Clicks, Updating(p, s)'
      PROVE  /\ \A q \in Clicks : Updating(q, s)' => q = p
             /\ Cardinality(PendingTurns(turns[s]) \ {row'[p]})
                   <= Cardinality(Spared(s, click[p].id))
  <2>1. s \notin raced
    BY <1>1
  <2>2. \A q \in Clicks : Updating(q, s)' <=>
            Updating(q, s) \/ (q = r /\ CardOf(r).session = s)
    BY <1>1, <1>3 DEF Updating, CardOf
  <2>3. CASE CardOf(r).session = s
    <3>1. \A q \in Clicks : ~Updating(q, s)
      BY <1>1, <2>3
    <3>2. p = r /\ \A q \in Clicks : Updating(q, s)' => q = p
      BY <1>7, <2>2, <3>1
    <3>3. row'[p] = NewestPending(turns[s])
      BY <1>1, <1>3, <2>3, <3>2
    <3>4. turns[s] \in Seq(Turn)
      BY <1>2 DEF TurnsTyped
    <3>5. QED
      BY <1>2, <2>1, <3>2, <3>3, <3>4, NewestMayBeCleared
  <2>4. CASE CardOf(r).session # s
    <3>1. Updating(p, s) /\ p # r
      BY <1>7, <2>2, <2>4 DEF Updating
    <3>2. row'[p] = row[p]
      BY <1>1, <1>3, <3>1
    <3>3. QED
      BY <1>2, <2>1, <2>2, <2>4, <3>1, <3>2 DEF TurnsReserved
  <2>5. QED
    BY <2>3, <2>4
<1>8. \A q \in Clicks : pc'[q] = "update" => backend' = "postgres"
  BY <1>1
<1>9. \A s, id : Spared(s, id)' = Spared(s, id)
  BY <1>1, <1>5 DEF Spared
<1>10. TurnsReserved'
  BY <1>1, <1>7, <1>8, <1>9 DEF TurnsReserved
<1>11. QED
  BY <1>4, <1>6, <1>10 DEF TurnsInv

\* The chosen turn is written.
LEMMA UpdateCounts ==
    ASSUME TypeInv, TurnsInv, NEW r \in Clicks, UpdateRow(r),
           ~UNCHANGED <<turns, recorded>>
    PROVE  TurnsInv'
<1>1. /\ pc[r] = "update" /\ pc' = [pc EXCEPT ![r] = "done"]
      /\ turns' = [turns EXCEPT ![CardOf(r).session] = UpdateTurn(@, row[r], r)]
      /\ recorded' = recorded \cup {r}
      /\ UNCHANGED <<card, flow, click, row, raced, backend>>
  BY DEF UpdateRow, Goto, flowVars
<1>2. TurnsTyped /\ TurnsOwned /\ TurnsCounted /\ TurnsReserved
  BY TypedTurns DEF TurnsInv
<1>3. PICK s \in Sessions : s = CardOf(r).session
  BY <1>1, <1>2 DEF TurnsTyped, CardOf
<1>4. PICK k \in Nat : k = row[r]
  BY DEF TypeInv, TypeOK
<1>5. pc \in [Clicks -> {"idle"} \cup Running \cup Answered]
  BY DEF TypeInv, TypeOK
<1>6. /\ turns' = [turns EXCEPT ![s] = UpdateTurn(@, k, r)]
      /\ \A q \in Clicks : pc[q] # "idle" => pc'[q] # "idle"
  BY <1>1, <1>3, <1>4, <1>5
<1>7. /\ TurnsOwned'
      /\ PendingTurns(turns'[s]) = PendingTurns(turns[s]) \ {k}
      /\ Unrecorded(s)' = Spared(s, click[r].id)
      /\ \A z \in Sessions \ {s} :
            turns'[z] = turns[z] /\ Unrecorded(z)' = Unrecorded(z)
  BY <1>1, <1>2, <1>3, <1>6, WriteSpares
<1>8. ASSUME NEW z \in Sessions \ raced
      PROVE  Cardinality(PendingTurns(turns'[z])) <= Cardinality(Unrecorded(z)')
  <2>1. CASE z # s
    BY <1>2, <1>7, <2>1 DEF TurnsCounted
  <2>2. CASE z = s
    <3>1. Updating(r, s)
      BY <1>1, <1>3 DEF Updating
    <3>2. QED
      BY <1>2, <1>4, <1>7, <2>2, <3>1 DEF TurnsReserved
  <2>3. QED
    BY <2>1, <2>2
<1>9. \A z : \A q \in Clicks : Updating(q, z)' <=> q # r /\ Updating(q, z)
  BY <1>1, <1>5 DEF Updating, CardOf
<1>10. ASSUME NEW z \in Sessions \ raced, NEW p \in Clicks, Updating(p, z)'
       PROVE  /\ \A q \in Clicks : Updating(q, z)' => q = p
              /\ Cardinality(PendingTurns(turns'[z]) \ {row[p]})
                    <= Cardinality(Spared(z, click[p].id)')
  <2>1. p # r /\ Updating(p, z)
    BY <1>9, <1>10
  <2>2. \A q \in Clicks : Updating(q, z) => q = p
    BY <1>2, <2>1 DEF TurnsReserved
  <2>3. z # s
    BY <1>1, <1>3, <2>1, <2>2 DEF Updating
  <2>4. Spared(z, click[p].id)' = Spared(z, click[p].id)
    BY <1>1, <1>7, <2>3 DEF Spared
  <2>5. QED
    BY <1>2, <1>7, <1>9, <2>1, <2>2, <2>3, <2>4 DEF TurnsReserved
<1>11. \A q \in Clicks : pc'[q] = "update" => backend' = "postgres"
  BY <1>1, <1>2 DEF TurnsReserved
<1>12. TurnsReserved'
  BY <1>1, <1>10, <1>11 DEF TurnsReserved
<1>13. TurnsCounted'
  BY <1>1, <1>8 DEF TurnsCounted
<1>14. QED
  BY <1>7, <1>12, <1>13 DEF TurnsInv

\* Deleting the turns of a project leaves no placeholder behind.
LEMMA ClearCounts ==
    ASSUME TypeInv, TurnsInv, ClearTurns
    PROVE  TurnsInv'
<1>1. PICK cleared \in SUBSET Sessions :
         turns' = [s \in Sessions |-> IF s \in cleared THEN <<>> ELSE turns[s]]
  BY DEF ClearTurns
<1>2. backend = "sqlite" /\ UNCHANGED <<backend, recorded, raced, card, flow, pc, click>>
  BY DEF ClearTurns, flowVars, clickVars
<1>3. TurnsOwned /\ TurnsCounted /\ TurnsReserved
  BY DEF TurnsInv
<1>4. \A s \in Sessions : turns'[s] = turns[s] \/ DOMAIN turns'[s] = {}
  BY <1>1
<1>5. TurnsOwned'
  BY <1>2, <1>3, <1>4 DEF TurnsOwned
<1>6. ASSUME NEW s \in Sessions \ raced
      PROVE  Cardinality(PendingTurns(turns'[s])) <= Cardinality(Unrecorded(s)')
  <2>1. CASE turns'[s] = turns[s]
    BY <1>2, <1>3, <2>1 DEF TurnsCounted, Unrecorded
  <2>2. CASE DOMAIN turns'[s] = {}
    <3>1. PendingTurns(turns'[s]) = {} /\ Unrecorded(s)' = {}
      BY <2>2 DEF PendingTurns, Unrecorded
    <3>2. QED
      BY <3>1, FS_EmptySet
  <2>3. QED
    BY <1>4, <2>1, <2>2
<1>7. \A r \in Clicks : pc'[r] # "update"
  BY <1>2, <1>3 DEF TurnsReserved
<1>8. TurnsReserved'
  BY <1>7 DEF TurnsReserved, Updating
<1>9. QED
  BY <1>2, <1>5, <1>6, <1>8 DEF TurnsInv, TurnsCounted

LEMMA TurnsStep ==
    ASSUME TypeInv, TurnsInv, [Next]_vars
    PROVE  TurnsInv'
<1>1. HistoryKept
  BY HistoryStep
<1>2. ASSUME UNCHANGED <<turns, recorded, row, raced, backend>>,
             \A id \in Ids : flow[id] = "offered" => flow'[id] = "offered",
             \A r \in Clicks : pc'[r] = "update" => pc[r] = "update"
      PROVE  TurnsInv'
  <2>1. TurnsTyped /\ TurnsOwned /\ TurnsCounted /\ TurnsReserved
    BY TypedTurns DEF TurnsInv
  <2>2. \A q \in recorded : q \in Clicks /\ pc'[q] # "idle" /\ click'[q] = click[q]
    BY <1>1, <2>1 DEF HistoryKept, TurnsOwned, TurnsTyped
  <2>3. \A s \in Sessions : \A i \in DOMAIN turns[s] :
           card'[turns[s][i].id] = card[turns[s][i].id]
    BY <1>1, <2>1 DEF HistoryKept, TurnsOwned
  <2>4. TurnsOwned'
    BY <1>2, <2>1, <2>2, <2>3 DEF TurnsOwned
  <2>5. \A s : Unrecorded(s)' = Unrecorded(s)
    BY <1>2, <2>2 DEF Unrecorded
  <2>6. TurnsCounted'
    BY <1>2, <2>1, <2>5 DEF TurnsCounted
  <2>7. ASSUME NEW r \in Clicks, NEW s, Updating(r, s)'
        PROVE  Updating(r, s) /\ click'[r] = click[r]
    <3>1. pc[r] = "update"
      BY <1>2, <2>7 DEF Updating
    <3>2. click'[r] = click[r] /\ card'[click[r].id] = card[click[r].id]
      BY <1>1, <2>1, <3>1 DEF HistoryKept, TurnsTyped
    <3>3. QED
      BY <2>7, <3>1, <3>2 DEF Updating, CardOf
  <2>8. \A s, id : Spared(s, id)' = Spared(s, id)
    BY <1>2, <2>5 DEF Spared
  <2>9. TurnsReserved'
    BY <1>2, <2>1, <2>7, <2>8 DEF TurnsReserved
  <2>10. QED
    BY <2>4, <2>6, <2>9 DEF TurnsInv
<1>3. /\ flow \in [Ids -> {"new", "saved", "amending", "offered", "dead"}]
      /\ pc \in [Clicks -> {"idle"} \cup Running \cup Answered]
  BY DEF TypeInv, TypeOK
<1> USE DEF flowVars, turnVars, clickVars, effectVars
<1>4. ASSUME NEW id \in Ids, Propose(id) \/ SlackReadBack(id) \/ SlackAmend(id)
      PROVE  TurnsInv'
  BY <1>2, <1>3, <1>4 DEF Propose, SlackReadBack, SlackAmend
<1>5. ASSUME NEW r \in Clicks, Click(r) \/ Lookup(r) \/ Refuse(r) \/ Execute(r)
                 \/ Reject(r) \/ ResolveGet(r) \/ ResolveDelete(r)
      PROVE  TurnsInv'
  BY <1>2, <1>3, <1>5
     DEF Click, Lookup, Refuse, Execute, Attempt, Reject, ResolveGet, ResolveDelete, Goto
<1>6. ASSUME NEW r \in Clicks, RecordOutcome(r) \/ UpdateRow(r), UNCHANGED <<turns, recorded>>
      PROVE  TurnsInv'
  BY <1>2, <1>3, <1>6 DEF RecordOutcome, UpdateRow, Goto
<1>7. CASE StoreEvent \/ UNCHANGED vars
  BY <1>2, <1>3, <1>7 DEF StoreEvent, vars
<1>8. ASSUME NEW w \in Workers, Restart(w)
      PROVE  TurnsInv'
  BY <1>2, <1>3, <1>8 DEF Restart
<1>9. QED
  BY <1>4, <1>5, <1>6, <1>7, <1>8, RespondCounts, RecordCounts, ChooseCounts, UpdateCounts,
     ClearCounts DEF Next, Handle

\* When every turn of a session has an outcome recorded for its own proposal, no
\* turn of it still shows the placeholder, although an outcome goes to the
\* newest placeholder whichever proposal it belongs to, and although PostgreSQL
\* chooses that turn before it writes it; sessions in which two such UPDATEs
\* overlapped are exempt.
THEOREM PlaceholdersAreCleared == Spec => []PlaceholdersCleared
<1>1. ASSUME TypeInv, TurnsCounted
      PROVE  PlaceholdersCleared
  <2> SUFFICES ASSUME NEW s \in Sessions \ raced,
                      \A i \in DOMAIN turns[s] : \E r \in recorded : click[r].id = turns[s][i].id
               PROVE  PendingTurns(turns[s]) = {}
    BY DEF PlaceholdersCleared
  <2>1. Unrecorded(s) = {}
    BY DEF Unrecorded
  <2>2. turns[s] \in Seq(Turn) /\ PendingTurns(turns[s]) \subseteq DOMAIN turns[s]
    BY <1>1 DEF TypeInv, TypeOK, PendingTurns
  <2>3. IsFiniteSet(PendingTurns(turns[s])) /\ Cardinality(PendingTurns(turns[s])) \in Nat
    BY <2>2, TurnsFinite
  <2>4. Cardinality(PendingTurns(turns[s])) <= 0
    BY <1>1, <2>1, FS_EmptySet DEF TurnsCounted
  <2>5. QED
    BY <2>3, <2>4, FS_EmptySet
<1>2. TypeInv /\ TurnsInv /\ [Next]_vars => TurnsInv'
  BY TurnsStep
<1>3. TypeInv /\ TurnsInv => PlaceholdersCleared
  BY <1>1 DEF TurnsInv
<1>4. QED
  BY TurnsInit, TypeInvariance, <1>2, <1>3, PTL DEF Spec

=============================================================================
