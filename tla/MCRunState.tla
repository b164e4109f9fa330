----------------------------- MODULE MCRunState -----------------------------
(* The HTTP server's service graph and the app runtime's.                   *)
EXTENDS RunState, TLC

CONSTANTS server, app, c1, c2, c3

BothGraphs == {server, app}
TwoCallers == {c1, c2}
ThreeCallers == {c1, c2, c3}
Symmetry == Permutations(BothGraphs) \cup Permutations(TwoCallers)
=============================================================================
