--------------------------- MODULE MCSlabMagazine ---------------------------
(* Small instances of SlabMagazine for TLC. *)
EXTENDS SlabMagazine, TLC

CONSTANTS t1, t2, s1, s2

OwnStripes == [t \in Threads |-> IF t = t1 THEN s1 ELSE s2]

BlockSymmetry == Permutations(Blocks)

=============================================================================
