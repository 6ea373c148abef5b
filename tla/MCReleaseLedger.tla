-------------------------- MODULE MCReleaseLedger --------------------------
(***************************************************************************)
(* Instances of ReleaseLedger for TLC.                                     *)
(***************************************************************************)
EXTENDS ReleaseLedger

TwoRuns == {1, 2}
ThreeRuns == {1, 2, 3}
OneBase == {"1.0.0"}
=============================================================================
