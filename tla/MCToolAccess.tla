---------------------------- MODULE MCToolAccess ----------------------------
EXTENDS ToolAccess, TLC

CONSTANTS h1, h2, f1, f2, p1, p2, x1, x2, sdlc, other, board, assign, search, c1, c2

MCHosts == {h1, h2}
MCFlows == {f1, f2}
MCHostOf == (f1 :> h1) @@ (f2 :> h1)
MCServerOf == (board :> sdlc) @@ (assign :> sdlc) @@ (search :> other)
MCSymmetry == Permutations({p1, p2}) \cup Permutations({x1, x2}) \cup Permutations({f1, f2}) \cup
              Permutations({c1, c2})
=============================================================================
