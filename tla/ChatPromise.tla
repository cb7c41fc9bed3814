---------------------------- MODULE ChatPromise ----------------------------
(***************************************************************************)
(* What the chat page promises its user, with no word about streams, polls *)
(* or frames: a message is sent only when the one before it has been       *)
(* answered, every message is answered by the backend's response or by a   *)
(* failure notice, and what was shown as the answer stays the answer.      *)
(***************************************************************************)
EXTENDS Naturals

CONSTANT MaxMessages  \* bound on the messages of the conversation

VARIABLE shown        \* what each message's bubble shows

shownVars == <<shown>>

Messages == 1..MaxMessages

Init == shown = [m \in Messages |-> "unsent"]

Send(m) ==
    /\ shown[m] = "unsent"
    /\ \A k \in 1..(m - 1) : shown[k] \in {"answer", "failure"}
    /\ shown' = [shown EXCEPT ![m] = "waiting"]

Settle(m) ==
    /\ shown[m] = "waiting"
    /\ \E s \in {"answer", "failure"} : shown' = [shown EXCEPT ![m] = s]

Next == \E m \in Messages : Send(m) \/ Settle(m)

Spec ==
    /\ Init /\ [][Next]_shownVars
    /\ \A m \in Messages : WF_shownVars(Settle(m))

=============================================================================
