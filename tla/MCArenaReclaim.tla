--------------------------- MODULE MCArenaReclaim ---------------------------
(* Small instances of ArenaReclaim for TLC. *)
EXTENDS ArenaInvariant, TLC

ThreadSymmetry == Permutations(Threads)

=============================================================================
