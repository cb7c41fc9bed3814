--------------------------- MODULE MCHITLDecision ---------------------------
(* A small instance of HITLDecision for TLC. *)
EXTENDS HITLDecision, FiniteSets, TLC

Interchangeable ==
    Permutations(Ids) \cup Permutations(Workers) \cup Permutations(Clicks)

Proposed == {id \in Ids : flow[id] # "new"}
Begun == {r \in Clicks : pc[r] # "idle"}

\* One proposal and two clicks, with every action, role, worker and fault ...
OneProposal ==
    backend = "sqlite" /\ Cardinality(Proposed) <= 1 /\ Cardinality(Begun) <= 2

\* ... or two proposals of the web and three clicks of developers on one worker,
\* whose store of pending actions has no faults.
TwoProposals ==
    /\ outages = 0 /\ restarts = 0 /\ dropped = {}
    /\ \A id \in Proposed : card[id].origin = "web"
    /\ \E w \in Workers :
          /\ \A id \in Proposed : card[id].worker = w
          /\ \A r \in Begun : click[r].worker = w
    /\ \A id \in Proposed : card[id].action # "release_approval"
    /\ \A r \in Begun : click[r].role = "developer"

Scenario == OneProposal \/ TwoProposals

=============================================================================
