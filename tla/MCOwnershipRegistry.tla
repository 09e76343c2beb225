------------------------- MODULE MCOwnershipRegistry ------------------------
(* Small tables for OwnershipRegistry.                                      *)
EXTENDS OwnershipRegistry, TLC

CONSTANTS b1, b2, b3, b4

\* Three bases start at the last slot and wrap around into the slots of the
\* fourth: probes collide, and one of the three reaches the probe bound.
Collide == [b \in Bases |-> IF b = b4 THEN 0 ELSE Capacity - 1]

BaseSymmetry == Permutations(Bases \ {b4})

=============================================================================
