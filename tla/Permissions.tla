---------------------------- MODULE Permissions ----------------------------
(***************************************************************************)
(* The role -> write-action matrix of backend/auth/permissions.py.         *)
(***************************************************************************)

AllActions == { "create_ticket", "edit_ticket", "assign_ticket",
                "deassign_ticket", "comment_ticket", "assign_reviewer",
                "approve_pr", "reject_pr", "release_approval", "send_slack" }

Stakeholder == { "create_ticket", "send_slack" }

FullNoRelease == AllActions \ { "release_approval" }

AllRoles == { "developer", "manager", "technical_leader", "admin", "stakeholder" }

Matrix == [ role \in AllRoles |->
              CASE role = "developer"   -> FullNoRelease
                [] role = "stakeholder" -> Stakeholder
                [] OTHER                -> AllActions ]

\* An unknown role or action is refused: _MATRIX.get(role, frozenset()).
Can(role, action) == role \in AllRoles /\ action \in Matrix[role]

=============================================================================
