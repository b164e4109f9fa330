------------------------------ MODULE MCRunner ------------------------------
(* TLC instances of Runner: two callers with fairness; three, alike, for safety. *)
EXTENDS Runner, TLC

CONSTANTS c1, c2, c3

TwoCallers == {c1, c2}
ThreeCallers == {c1, c2, c3}
CallersAlike == Permutations(ThreeCallers)
=============================================================================
