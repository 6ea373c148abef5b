------------------------- MODULE MCVaultPublication -------------------------
(* Instances of VaultPublication for TLC. *)
EXTENDS VaultPublication

CONSTANTS old, mid, new, a, b

ThreePublishers == {old, mid, new}
TwoTargets == <<a, b>>

\* Three generations: the second changes a, the third both.
Catalogs ==
  [p \in ThreePublishers |->
    [t \in {a, b} |-> IF p = old THEN 1 ELSE IF p = mid /\ t = b THEN 1
                      ELSE IF p = new /\ t = a THEN 3 ELSE 2]]

\* The third revision of a returns to the payload of the first.
Payloads == [t \in {a, b} |-> [r \in 1 .. 3 |-> IF r = 3 THEN 1 ELSE r]]
=============================================================================
