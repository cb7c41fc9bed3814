---------------------------- MODULE MCAvatarPage ----------------------------
(* A small instance of AvatarPage for TLC. *)
EXTENDS AvatarPage, TLC

Interchangeable == Permutations(Starts) \cup Permutations(Plays)

=============================================================================
