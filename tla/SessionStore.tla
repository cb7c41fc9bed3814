---------------------------- MODULE SessionStore ----------------------------
(***************************************************************************)
(* The conversation turns of one session, backend/memory/session_store.py, *)
(* as a sequence in created_at order.  Only the turns of action proposals  *)
(* are kept: a turn is [id, outcome], where outcome is the request whose   *)
(* result text the response column holds, or Placeholder while it holds    *)
(* "[Action proposal pending approval]".  SQLite runs a statement while    *)
(* nobody else writes; PostgreSQL runs the same SQL under READ COMMITTED,  *)
(* where the subquery of an UPDATE chooses its row in a snapshot, and the  *)
(* row is written when no other transaction has locked it any more.        *)
(***************************************************************************)
EXTENDS Sequences, FiniteSetsExt

CONSTANT Placeholder

\* INSERT INTO conversation_turns ... VALUES (..., placeholder, now)
SaveTurn(turns, id) == Append(turns, [id |-> id, outcome |-> Placeholder])

\* Rows matched by WHERE response = '[Action proposal pending approval]'.
PendingTurns(turns) == {i \in DOMAIN turns : turns[i].outcome = Placeholder}

\* Wrong on purpose: the UPDATE without its WHERE on the placeholder.
UpdateNewestTurn(turns, outcome) ==
    IF turns = <<>> THEN turns
    ELSE [turns EXCEPT ![Len(turns)].outcome = outcome]

\* SELECT id ... ORDER BY created_at DESC LIMIT 1; 0 is no row.
NewestPending(turns) ==
    IF PendingTurns(turns) = {} THEN 0 ELSE Max(PendingTurns(turns))

\* The write of the row that was chosen, whatever it holds by now.
UpdateTurn(turns, i, outcome) ==
    IF i = 0 THEN turns ELSE [turns EXCEPT ![i].outcome = outcome]

\* UPDATE ... WHERE id = (SELECT ...), undisturbed.
UpdateLastHitl(turns, outcome) == UpdateTurn(turns, NewestPending(turns), outcome)

=============================================================================
