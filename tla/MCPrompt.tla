------------------------------- MODULE MCPrompt -------------------------------
(***************************************************************************)
(* Instances of Prompt for TLC.                                            *)
(***************************************************************************)
EXTENDS Prompt, TLC

CONSTANTS s1, s2

OneStop == {s1}
TwoStops == {s1, s2}
=============================================================================
