----------------------------- MODULE MCInstances ----------------------------
(* The HTTP server's service graph and the app runtime's.                   *)
EXTENDS Instances, TLC

CONSTANTS server, app, w1, w2

BothGraphs == {server, app}
OneGraph == {server}
TwoWorkers == {w1, w2}
Symmetry == Permutations(BothGraphs) \cup Permutations(TwoWorkers)
=============================================================================
