------------------------------- MODULE MCFlock ------------------------------
(* TLC instances of Flock.                                                  *)
EXTENDS Flock, TLC

CONSTANTS p1, p2, p3

TwoProcesses == {p1, p2}
ThreeProcesses == {p1, p2, p3}
Alike == Permutations(ThreeProcesses)
=============================================================================
