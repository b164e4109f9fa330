------------------------------- MODULE MCWarp -------------------------------
(* TLC instance of Warp: two remotes and one local workspace.               *)
EXTENDS Warp, TLC

CONSTANTS w1, w2, d1

AllNodes == {Ctl} \cup Remotes
AllPlaces == Places
TwoRemotes == {w1, w2}
Anywhere == {Home, w1, d1}
OneDir == {d1}
Three == 1 .. 3
=============================================================================
