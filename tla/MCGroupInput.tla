------------------------------- MODULE MCGroupInput -------------------------------
(* Instances of GroupInput for TLC.                                        *)
EXTENDS GroupInput

FourUpdates == 1..4
TwoPrompts == 1..2
=============================================================================
