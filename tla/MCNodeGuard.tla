----------------------------- MODULE MCNodeGuard -----------------------------
(* Instances of NodeGuard for TLC. *)
EXTENDS NodeGuard, TLC

CONSTANTS p1, p2, s1, s2

TwoPods == {p1, p2}
OneSlot == {s1}
TwoSlots == {s1, s2}

\* Pods and slots are interchangeable; not used with the temporal property.
Interchange == Permutations(TwoPods) \cup Permutations(TwoSlots)
=============================================================================
