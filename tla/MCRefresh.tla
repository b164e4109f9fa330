----------------------------- MODULE MCRefresh ------------------------------
(* Two processes, each of which may be a workspace's.                       *)
EXTENDS Refresh, TLC

CONSTANTS p1, p2

Both == {p1, p2}
Symmetry == Permutations(Both)
=============================================================================
