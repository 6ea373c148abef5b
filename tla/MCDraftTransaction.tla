------------------------- MODULE MCDraftTransaction -------------------------
(* Instances of DraftTransaction for TLC. *)
EXTENDS DraftTransaction

CONSTANTS a1, a2

TwoAssets == {a1, a2}
FourIds == 1 .. 4
=============================================================================
