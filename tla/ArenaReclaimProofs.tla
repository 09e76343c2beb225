-------------------------- MODULE ArenaReclaimProofs --------------------------
(***************************************************************************)
(* Proofs about ArenaReclaim, for every number of threads, of chunks and   *)
(* of cells: IInv of ArenaInvariant is inductive, and NoDoubleService,     *)
(* RewindIsSafe and FreedWithinCarved follow from it; the arena implements *)
(* RegionArena; and when all calls are routed ones every block held is     *)
(* registered and a quiescent chunk can be recycled.                       *)
(*                                                                         *)
(* Each part of IInv has a lemma that says every step keeps it, with one   *)
(* case for each action that can disturb it and one for all the others.    *)
(* A lemma begins with the facts about types it needs.                     *)
(***************************************************************************)
EXTENDS ArenaInvariant, TLAPS, FiniteSetTheorems

-----------------------------------------------------------------------------
(* Finite sets of blocks and of threads.                                    *)

\* A chunk has finitely many cells and there are finitely many chunks.
LEMMA BlocksFinite == IsFiniteSet(Blocks)
  <1>1. IsFiniteSet(Chunks) /\ IsFiniteSet(Cells) /\ IsFiniteSet(1 .. Cap)
    BY FS_Interval, ArenaAssumption DEF ArenaAssumption, Chunks, Cells
  <1>2. IsFiniteSet((Chunks \X Cells) \X (1 .. Cap))
    BY <1>1, FS_Product
  <1> DEFINE P == (Chunks \X Cells) \X (1 .. Cap)
             f == [b \in Blocks |-> <<<<b[1], b[2]>>, b[3]>>]
  <1>3. f \in [Blocks -> P]
    BY DEF Blocks
  <1>4. \A b, d \in Blocks : f[b] = f[d] => b = d
    BY DEF Blocks
  <1>5. f \in Injection(Blocks, P)
    BY <1>3, <1>4 DEF Injection, IsInjective
  <1> QED BY <1>2, <1>5, FS_Injection

\* A set of blocks has a size.
LEMMA BlockCount ==
  ASSUME NEW S \in SUBSET Blocks
  PROVE  IsFiniteSet(S) /\ Cardinality(S) \in Nat
  BY BlocksFinite, FS_Subset, FS_CardinalityType

\* A smaller set of blocks has no more of them.
LEMMA BlockSubset ==
  ASSUME NEW S \in SUBSET Blocks, NEW T \in SUBSET S
  PROVE  Cardinality(T) <= Cardinality(S)
  BY BlockCount, FS_Subset

\* The size of a union of sets of blocks: exact when they are disjoint.
LEMMA BlockUnion ==
  ASSUME NEW S \in SUBSET Blocks, NEW T \in SUBSET Blocks
  PROVE  /\ Cardinality(S \union T) <= Cardinality(S) + Cardinality(T)
         /\ S \intersect T = {} => Cardinality(S \union T) = Cardinality(S) + Cardinality(T)
  <1>1. S \intersect T \in SUBSET Blocks OBVIOUS
  <1>2. Cardinality(S) \in Nat /\ Cardinality(T) \in Nat /\ Cardinality(S \intersect T) \in Nat
    BY <1>1, BlockCount
  <1>3. Cardinality(S \union T) = Cardinality(S) + Cardinality(T) - Cardinality(S \intersect T)
    BY BlockCount, FS_Union
  <1>4. S \intersect T = {} => Cardinality(S \intersect T) = 0
    BY FS_EmptySet
  <1> QED BY <1>2, <1>3, <1>4

\* A set of threads is finite, and adding or removing a thread changes its
\* size by one at most.
LEMMA ThreadSets ==
  \A S \in SUBSET Threads :
    /\ IsFiniteSet(S) /\ Cardinality(S) \in Nat
    /\ Cardinality(S) = 0 <=> S = {}
    /\ \A t : /\ Cardinality(S \union {t}) = Cardinality(S) + IF t \in S THEN 0 ELSE 1
              /\ Cardinality(S \ {t}) = Cardinality(S) - IF t \in S THEN 1 ELSE 0
  <1> SUFFICES ASSUME NEW S \in SUBSET Threads
               PROVE /\ IsFiniteSet(S) /\ Cardinality(S) \in Nat
                     /\ Cardinality(S) = 0 <=> S = {}
                     /\ \A t : /\ Cardinality(S \union {t}) = Cardinality(S) + IF t \in S THEN 0 ELSE 1
                               /\ Cardinality(S \ {t}) = Cardinality(S) - IF t \in S THEN 1 ELSE 0
    OBVIOUS
  <1>1. IsFiniteSet(S) /\ Cardinality(S) \in Nat
    BY ArenaAssumption, FS_Subset, FS_CardinalityType DEF ArenaAssumption
  <1>2. ASSUME NEW t
        PROVE Cardinality(S \union {t}) = Cardinality(S) + IF t \in S THEN 0 ELSE 1
    <2>1. CASE t \in S
      <3>1. S \union {t} = S BY <2>1
      <3> QED BY <1>1, <2>1, <3>1
    <2>2. CASE t \notin S
      BY <1>1, <2>2, FS_AddElement
    <2> QED BY <2>1, <2>2
  <1>3. ASSUME NEW t PROVE Cardinality(S \ {t}) = Cardinality(S) - IF t \in S THEN 1 ELSE 0
    <2>1. CASE t \notin S
      <3>1. S \ {t} = S BY <2>1
      <3>2. Cardinality(S \ {t}) = Cardinality(S) BY <3>1
      <3> QED BY <1>1, <2>1, <3>2
    <2>2. CASE t \in S
      BY <1>1, <2>2, FS_RemoveElement
    <2> QED BY <2>1, <2>2
  <1>4. Cardinality(S) = 0 <=> S = {}
    BY <1>1, FS_EmptySet
  <1> QED BY <1>1, <1>2, <1>3, <1>4

-----------------------------------------------------------------------------
(* Sizes, blocks and cells.                                                 *)

\* Every request takes at least one cell.
LEMMA SizeFacts ==
  /\ \A k \in RequestKinds \union {"public"} : Size[k] \in Nat \ {0}
  /\ Reqs \subseteq RequestKinds
  BY ArenaAssumption DEF ArenaAssumption, RequestKinds, Size

\* A carve is a span and holds the request it is made for.
LEMMA WantFacts ==
  ASSUME TypeOK, NEW t \in Threads
  PROVE  /\ Size[req[t]] \in Nat \ {0} /\ Want(t) \in Nat \ {0}
         /\ Size[req[t]] <= Want(t)
  <1>1. Size[req[t]] \in Nat \ {0}
    BY SizeFacts DEF TypeOK
  <1>2. SpanCells \in Nat \ {0}
    BY ArenaAssumption DEF ArenaAssumption
  <1> QED BY <1>1, <1>2 DEF Want

\* A block lies inside one chunk and has at least one cell.
LEMMA BlockFacts ==
  /\ \A b \in Blocks : /\ b[1] \in Chunks /\ b[2] \in Nat /\ b[3] \in Nat
                        /\ b[2] < b[3] /\ b[3] <= Cap
  /\ \A c, i, n : Block(c, i, n)[1] = c /\ Block(c, i, n)[2] = i /\ Block(c, i, n)[3] = i + n
  /\ \A c \in Chunks : \A i \in Nat : \A n \in Nat \ {0} :
       i + n <= Cap => Block(c, i, n) \in Blocks
  <1>1. Cap \in Nat \ {0}
    BY ArenaAssumption DEF ArenaAssumption
  <1>2. ASSUME NEW c \in Chunks, NEW i \in Nat, NEW n \in Nat \ {0}, i + n <= Cap
        PROVE  Block(c, i, n) \in Blocks
    <2>1. i \in Cells /\ i + n \in 1 .. Cap /\ i < i + n
      BY <1>1, <1>2 DEF Cells
    <2> QED BY <2>1 DEF Blocks, Block
  <1>3. \A b \in Blocks : /\ b[1] \in Chunks /\ b[2] \in Nat /\ b[3] \in Nat
                          /\ b[2] < b[3] /\ b[3] <= Cap
    BY <1>1 DEF Blocks, Cells
  <1>4. \A c, i, n : Block(c, i, n)[1] = c /\ Block(c, i, n)[2] = i /\ Block(c, i, n)[3] = i + n
    BY DEF Block
  <1> QED BY <1>2, <1>3, <1>4

\* The cells of a block.
LEMMA CellFacts ==
  /\ \A x \in ChunkCells : x[1] \in Chunks /\ x[2] \in Nat /\ x[2] < Cap
  /\ \A b \in Blocks : \A x \in CellsOf(b) : x \in ChunkCells /\ Covers(b, x)
  /\ \A b \in Blocks : \E x \in ChunkCells : Covers(b, x)
  <1>1. Cap \in Nat \ {0}
    BY ArenaAssumption DEF ArenaAssumption
  <1>2. \A x \in ChunkCells : x[1] \in Chunks /\ x[2] \in Nat /\ x[2] < Cap
    BY <1>1 DEF ChunkCells, Cells
  <1>3. ASSUME NEW b \in Blocks, NEW x \in CellsOf(b)
        PROVE  x \in ChunkCells /\ Covers(b, x)
    <2>1. PICK n \in b[2] .. b[3] - 1 : x = <<b[1], n>>
      BY <1>3 DEF CellsOf
    <2>2. n \in Cells /\ b[2] <= n /\ n < b[3]
      BY <1>1, BlockFacts DEF Cells
    <2> QED BY <2>1, <2>2, BlockFacts DEF ChunkCells, Covers
  <1>4. ASSUME NEW b \in Blocks PROVE \E x \in ChunkCells : Covers(b, x)
    <2>1. b[2] \in Cells
      BY <1>1, BlockFacts DEF Cells
    <2>2. <<b[1], b[2]>> \in ChunkCells /\ Covers(b, <<b[1], b[2]>>)
      BY <2>1, BlockFacts DEF ChunkCells, Covers
    <2> QED BY <2>2
  <1> QED BY <1>2, <1>3, <1>4

-----------------------------------------------------------------------------
(* One lemma for each part of the invariant.                                *)

\* The program starts in typed states.
LEMMA InitTypeOK == Init => TypeOK
  <1> SUFFICES ASSUME Init PROVE TypeOK OBVIOUS
  <1> USE ArenaAssumption DEF ArenaAssumption, Init
  <1>1. pc \in [Threads -> Labels] BY DEF Labels
  <1>2. current \in Chunks /\ 0 \in Chunks BY DEF Chunks
  <1>3. req \in [Threads -> RequestKinds \union {"public"}] BY DEF RequestKinds
  <1>4. cursor \in [Chunks -> 0 .. Cap] OBVIOUS
  <1>5. /\ tgt \in [Threads -> Chunks] /\ lo \in [Threads -> 0 .. Cap]
        /\ spanEnd \in [Threads -> 0 .. Cap] BY <1>2
  <1>6. 0 \in 0 .. MaxChunks OBVIOUS
  <1> QED BY <1>1, <1>2, <1>3, <1>4, <1>5, <1>6 DEF TypeOK

\* The types of IInv with their bounds widened to Nat, and the facts about the
\* constants that go with them.
LEMMA TypeFacts ==
  ASSUME IInv
  PROVE  /\ Cap \in Nat \ {0} /\ SpanCells \in Nat \ {0} /\ MaxChunks \in Nat
         /\ cursor \in [Chunks -> Nat]
         /\ lo \in [Threads -> Nat] /\ spanEnd \in [Threads -> Nat]
         /\ spanCur \in [Threads -> Nat]
         /\ current \in Nat /\ scan \in Nat
         /\ len \in Nat /\ len <= MaxChunks
         /\ NoChunk \notin Chunks /\ Nobody \notin Threads
         /\ \A n \in Nat : n < len => n \in Chunks
         /\ \A t \in Threads : Want(t) \in Nat \ {0} /\ Size[req[t]] \in Nat \ {0}
         /\ \A k \in Reqs : Size[k] \in Nat \ {0}
  <1>1. Cap \in Nat \ {0} /\ SpanCells \in Nat \ {0} /\ MaxChunks \in Nat /\ Nobody \notin Threads
    BY ArenaAssumption DEF ArenaAssumption
  <1>2. 0 .. Cap \subseteq Nat /\ 0 .. MaxChunks \subseteq Nat /\ Chunks \subseteq Nat
    BY <1>1 DEF Chunks
  <1>3. cursor \in [Chunks -> Nat]
    BY <1>2 DEF IInv, TypeOK
  <1>4. lo \in [Threads -> Nat] /\ spanEnd \in [Threads -> Nat]
    BY <1>2 DEF IInv, TypeOK
  <1>5. spanCur \in [Threads -> Nat]
    BY DEF IInv, TypeOK
  <1>6. current \in Nat /\ scan \in Nat /\ len \in Nat /\ len <= MaxChunks
    BY <1>1, <1>2 DEF IInv, TypeOK
  <1>7. NoChunk \notin Chunks
    BY <1>2 DEF NoChunk
  <1>8. \A n \in Nat : n < len => n \in Chunks
    BY <1>1, <1>6 DEF Chunks
  <1>9. \A t \in Threads : Want(t) \in Nat \ {0} /\ Size[req[t]] \in Nat \ {0}
    BY WantFacts DEF IInv
  <1>10. \A k \in Reqs : Size[k] \in Nat \ {0}
    BY SizeFacts
  <1> QED BY <1>10, <1>1, <1>3, <1>4, <1>5, <1>6, <1>7, <1>8, <1>9

\* A step keeps the types, provided no pin count goes below zero.
LEMMA TypeStep ==
  ASSUME IInv, [Next]_vars, \A c \in Chunks : spans'[c] \in Nat
  PROVE TypeOK'
  <1> USE ArenaAssumption DEF ArenaAssumption, vars, dataVars, sharedVars, chunkVars, flagVars, arenaVars,
          tlsVars, spanVars, batchVars, callVars, TypeOK, Goto, IInv
  <1>z. 0 \in Chunks /\ 0 \in 0 .. Cap /\ \A n \in 0 .. MaxChunks : n < MaxChunks => n \in Chunks
    BY DEF Chunks
  <1>0. ASSUME UNCHANGED vars PROVE TypeOK'
    BY <1>0
  <1>1. ASSUME NEW t \in Threads, NEW kind \in Reqs, AllocHit(t, kind) PROVE TypeOK'
    <2>0. Size[kind] \in Nat \ {0}
      BY SizeFacts
    <2>1. Block(spanChunk[t], spanCur[t], Size[kind]) \in Blocks
      <3>1. spanChunk[t] \in Chunks /\ spanCur[t] \in Nat /\ spanCur[t] + Size[kind] <= Cap
        BY SMTT(30), <1>1, <2>0 DEF AllocHit, SpanInv
      <3> QED BY <3>1, <2>0, BlockFacts
    <2>2. spanCur' \in [Threads -> Nat]
      BY <1>1, <2>0 DEF AllocHit
    <2> QED BY <1>1, <2>1, <2>2 DEF AllocHit
  <1>2. ASSUME NEW t \in Threads, NEW kind \in Reqs, AllocMiss(t, kind) PROVE TypeOK'
    BY <1>2 DEF AllocMiss, Labels, RequestKinds
  <1>3. ASSUME NEW t \in Threads, LoadPublished(t) PROVE TypeOK'
    BY <1>3 DEF LoadPublished, Labels
  <1>4. ASSUME NEW t \in Threads, PinSpan(t) PROVE TypeOK'
    BY <1>4 DEF PinSpan, Labels
  <1>5. ASSUME NEW t \in Threads, CheckIntent(t) PROVE TypeOK'
    BY <1>5 DEF CheckIntent, Labels, BackOff
  <1>6. ASSUME NEW t \in Threads, UnpinSpan(t) PROVE TypeOK'
    <2>1. spans' \in [Chunks -> Nat] BY <1>6 DEF UnpinSpan
    <2> QED BY <1>6, <2>1, <1>z DEF UnpinSpan, Labels
  <1>7. ASSUME NEW t \in Threads, CarveShared(t) PROVE TypeOK'
    <2>1. cursor' \in [Chunks -> 0 .. Cap]
      <3>1. Want(t) \in Nat \ {0}
        BY WantFacts
      <3> QED BY <1>7, <3>1 DEF CarveShared, Carvable
    <2>2. lo' \in [Threads -> 0 .. Cap]
      BY <1>7 DEF CarveShared
    <2>3. pc' \in [Threads -> Labels]
      BY <1>7 DEF CarveShared, BackOff, Labels
    <2> QED BY <1>7, <2>1, <2>2, <2>3 DEF CarveShared
  <1>8. ASSUME NEW t \in Threads, RetireSpan(t) PROVE TypeOK'
    BY <1>8, BlockCount DEF RetireSpan, FlushSpanBlocks, Labels
  <1>9. ASSUME NEW t \in Threads, InstallSpan(t) PROVE TypeOK'
    <2>0. /\ Size[req[t]] \in Nat \ {0} /\ Want(t) \in Nat \ {0}
          /\ Size[req[t]] <= Want(t)
      BY WantFacts
    <2>1. lo[t] \in 0 .. Cap /\ lo[t] + Want(t) \in 0 .. Cap
      BY <1>9, <2>0 DEF InstallSpan, SpanInv, CarveLabels
    <2>2. Block(tgt[t], lo[t], Size[req[t]]) \in Blocks
      <3>1. tgt[t] \in Chunks /\ lo[t] \in Nat /\ lo[t] + Size[req[t]] <= Cap
        BY <2>0, <2>1
      <3> QED BY <2>0, <3>1, BlockFacts
    <2>3. spans' \in [Chunks -> Nat] BY <1>9 DEF InstallSpan, UnpinOld
    <2>4. pc' \in [Threads -> Labels] BY <1>9 DEF InstallSpan, Labels
    <2>5. /\ spanCur' \in [Threads -> Nat] /\ spanEnd' \in [Threads -> 0 .. Cap]
          /\ lo' \in [Threads -> 0 .. Cap]
      BY <1>9, <2>0, <2>1, <1>z DEF InstallSpan, WindowStart
    <2>7. req' \in [Threads -> RequestKinds \union {"public"}]
      BY <1>9 DEF InstallSpan, RequestKinds
    <2>6. /\ spanBlocks' \in [Threads -> SUBSET Blocks] /\ live' \in SUBSET Blocks
          /\ spanChunk' \in [Threads -> Chunks \union {NoChunk}] /\ tgt' \in [Threads -> Chunks]
      BY <1>9, <2>2, <1>z DEF InstallSpan
    <2> QED BY <1>9, <2>3, <2>4, <2>5, <2>6, <2>7 DEF InstallSpan
  <1>10. ASSUME NEW t \in Threads, NEW b \in live, NoteFree(t, b) PROVE TypeOK'
    <2>1. pc' \in [Threads -> Labels]
      BY <1>10 DEF NoteFree, AfterFree, Labels
    <2>2. batch' \in [Threads -> SUBSET Blocks] /\ hand' \in [Threads -> SUBSET Blocks]
      BY <1>10 DEF NoteFree
    <2>3. ret' \in [Threads -> {"idle", "clrspan", "openbatch"}]
      BY <1>10 DEF NoteFree
    <2> QED BY <1>10, <2>1, <2>2, <2>3 DEF NoteFree
  <1>11. ASSUME NEW t \in Threads, OpenBatch(t) PROVE TypeOK'
    BY <1>11 DEF OpenBatch, AfterFree, Labels
  <1>12. ASSUME NEW t \in Threads, FlushFreeBatch(t) PROVE TypeOK'
    <2>1. batch[t] # {} => batchBase[t] \in Chunks
      BY BlockFacts DEF BatchInv
    <2> QED BY <1>12, <2>1, BlockCount DEF FlushFreeBatch, Return, Labels
  <1>13. ASSUME NEW t \in Threads,
                CheckLatch(t) \/ CheckPins(t) \/ CheckCarved(t) \/ Unlatch(t)
         PROVE TypeOK'
    <2>1. CASE CheckLatch(t) BY <2>1 DEF CheckLatch, EndCheck, Return,
          checkVars, Labels
    <2>2. CASE CheckPins(t) BY <2>2 DEF CheckPins, EndCheck, Return,
          checkVars, Labels
    <2>3. CASE CheckCarved(t) BY <2>3 DEF CheckCarved, EndCheck, Return,
          checkVars, Labels
    <2>4. CASE Unlatch(t) BY <2>4 DEF Unlatch, Return, Labels
    <2> QED BY <1>13, <2>1, <2>2, <2>3, <2>4
  <1>17. ASSUME NEW t \in Threads, ClearOwnBlockers(t) PROVE TypeOK'
    BY <1>17 DEF ClearOwnBlockers, Labels
  <1>18. ASSUME NEW t \in Threads, ClearSpan(t) PROVE TypeOK'
    BY <1>18, BlockCount DEF ClearSpan, FlushSpanBlocks, Labels
  <1>19. ASSUME NEW t \in Threads, ClearPin(t) PROVE TypeOK'
    BY <1>19 DEF ClearPin, UnpinOld, Labels
  <1>20. ASSUME NEW t \in Threads, PublicCall(t) PROVE TypeOK'
    BY <1>20 DEF PublicCall, Labels
  <1>21. ASSUME NEW t \in Threads, LockArena(t) PROVE TypeOK'
    <2>1. len' \in 0 .. MaxChunks BY <1>21 DEF LockArena
    <2>2. current' \in Chunks BY <1>21, <1>z DEF LockArena
    <2>3. recycleOn' \in BOOLEAN BY <1>21 DEF LockArena
    <2> QED BY <1>21, <2>1, <2>2, <2>3 DEF LockArena, Labels, RequestKinds
  <1>22. ASSUME NEW t \in Threads, Bump(t) PROVE TypeOK'
    <2>0. Size[req[t]] \in Nat \ {0}
      BY WantFacts
    <2>1. cursor' \in [Chunks -> 0 .. Cap]
      BY <1>22, <2>0 DEF Bump, CursorBumped
    <2>2. cursor[current] + Size[req[t]] <= Cap
            => Block(current, cursor[current], Size[req[t]]) \in Blocks
      BY <2>0, BlockFacts
    <2>3. hand' \in [Threads -> SUBSET Blocks]
      BY <1>22, <2>2 DEF Bump
    <2>4. pc' \in [Threads -> Labels]
      BY <1>22 DEF Bump, Labels
    <2> QED BY <1>22, <2>1, <2>3, <2>4 DEF Bump
  <1>23. ASSUME NEW t \in Threads, NoteDirectCarve(t) PROVE TypeOK'
    BY <1>23 DEF NoteDirectCarve, Labels
  <1>24. ASSUME NEW t \in Threads, RegisterChunks(t) PROVE TypeOK'
    <2>1. Registering \subseteq Chunks BY DEF Registering, Chunks
    <2> QED BY <1>24, <2>1 DEF RegisterChunks, Labels
  <1>25. ASSUME NEW t \in Threads, PublishAndReturn(t) PROVE TypeOK'
    BY <1>25 DEF PublishAndReturn, Labels, RequestKinds
  <1>26. ASSUME NEW t \in Threads, PublishAfterFailure(t) PROVE TypeOK'
    BY <1>26 DEF PublishAfterFailure, Labels
  <1>27. ASSUME NEW t \in Threads, LatchExhausted(t) PROVE TypeOK'
    BY <1>27 DEF LatchExhausted, LockAfterFailure, Labels, RequestKinds
  <1>28. ASSUME NEW t \in Threads, Advance(t) PROVE TypeOK'
    <2>0. current \in Nat /\ len \in 0 .. MaxChunks BY DEF Chunks
    <2>1. current' \in Chunks BY <1>28, <2>0, <1>z DEF Advance
    <2>2. scan' \in 0 .. MaxChunks BY <1>28, <1>z DEF Advance
    <2> QED BY <1>28, <2>1, <2>2 DEF Advance, Labels
  <1>29. ASSUME NEW t \in Threads, MarkIntent(t) PROVE TypeOK'
    <2>1. scan' \in 0 .. MaxChunks
      BY <1>29 DEF MarkIntent
    <2>2. intent' \in [Chunks -> BOOLEAN]
      BY <1>29 DEF MarkIntent
    <2> QED BY <1>29, <2>1, <2>2 DEF MarkIntent, Labels
  <1>30. ASSUME NEW t \in Threads, ReadPins(t) PROVE TypeOK'
    BY <1>30 DEF ReadPins, Labels
  <1>31. ASSUME NEW t \in Threads, ReadCarved(t) PROVE TypeOK'
    <2>1. carved[scan] \in Nat
      BY <1>31, <1>z DEF ReadCarved, ArenaInv, ScanLabels
    <2> QED BY <1>31, <2>1 DEF ReadCarved, Labels
  <1>32. ASSUME NEW t \in Threads, ReadFreed(t) PROVE TypeOK'
    BY <1>32 DEF ReadFreed, Labels
  <1>33. ASSUME NEW t \in Threads, UnmarkIntent(t) PROVE TypeOK'
    <2>1. scan' \in 0 .. MaxChunks
      BY <1>33 DEF UnmarkIntent, ArenaInv, ScanLabels
    <2> QED BY <1>33, <2>1 DEF UnmarkIntent, Labels
  <1>34. ASSUME NEW t \in Threads, Rewind(t) PROVE TypeOK'
    <2>1. cursor' \in [Chunks -> 0 .. Cap]
      BY <1>34, <1>z DEF Rewind
    <2> QED BY <1>34, <2>1 DEF Rewind, Labels
  <1>35. ASSUME NEW t \in Threads, FinishRecycle(t) PROVE TypeOK'
    <2>1. scan \in Chunks
      BY <1>35, <1>z DEF FinishRecycle, ArenaInv, ScanLabels
    <2> QED BY <1>35, <1>z, <2>1 DEF FinishRecycle, Labels
  <1>36. ASSUME NEW t \in Threads, Grow(t) PROVE TypeOK'
    <2>0. /\ current \in Nat /\ len \in 0 .. MaxChunks
          /\ current < len
      BY <1>36 DEF Grow, Chunks, ArenaInv, LockInv, LockedLabels
    <2>1. len' \in 0 .. MaxChunks BY <1>36, <2>0 DEF Grow
    <2>2. current' \in Chunks BY <1>36, <2>0, <1>z DEF Grow
    <2> QED BY SMTT(30), <1>36, <2>1, <2>2 DEF Grow, Labels
  <1>37. ASSUME NEW t \in Threads, Exit(t) PROVE TypeOK'
    BY <1>37 DEF Exit, Labels
  <1> QED
    BY <1>0, <1>1, <1>2, <1>3, <1>4, <1>5, <1>6, <1>7, <1>8, <1>9, <1>10,
       <1>11, <1>12, <1>13, <1>17, <1>18, <1>19, <1>20, <1>21, <1>22, <1>23,
       <1>24, <1>25, <1>26, <1>27, <1>28, <1>29, <1>30, <1>31, <1>32, <1>33,
       <1>34, <1>35, <1>36, <1>37
    DEF Next, Alloc, Step, FastStep, FreeStep, ClearStep, LockedStep, ScanStep

\* The Mutex: a step leaves at most one thread inside BumpArena.
LEMMA LockStep ==
  ASSUME IInv, [Next]_vars
  PROVE  LockInv'
  <1> USE DEF vars, dataVars, sharedVars, chunkVars, flagVars, arenaVars,
          tlsVars, spanVars, batchVars, callVars, checkVars, Goto, LockInv
  <1>t. /\ pc \in [Threads -> Labels] /\ Nobody \notin Threads
        /\ len \in Nat /\ LockInv
        /\ ret \in [Threads -> {"idle", "clrspan", "openbatch"}]
    BY ArenaAssumption DEF ArenaAssumption, IInv, TypeOK
  <1>0. CASE UNCHANGED vars
    BY <1>0, <1>t
  <1>1. ASSUME NEW t \in Threads, Alloc(t) \/ FastStep(t) \/ Exit(t) PROVE LockInv'
    BY <1>1, <1>t DEF Alloc, AllocHit, AllocMiss, PublicCall, FastStep,
       LoadPublished, PinSpan,
       CheckIntent, BackOff, UnpinSpan, CarveShared, RetireSpan, InstallSpan, Exit,
       LockedLabels
  <1>2. ASSUME NEW t \in Threads, FreeStep(t) \/ ClearStep(t) PROVE LockInv'
    BY <1>2, <1>t DEF FreeStep, ClearStep, OpenBatch, AfterFree,
       FlushFreeBatch, CheckLatch, CheckPins,
       CheckCarved, Unlatch, EndCheck, Return, ClearOwnBlockers, ClearSpan, ClearPin,
       LockedLabels
  <1>3. ASSUME NEW t \in Threads, NEW b \in live, NoteFree(t, b) PROVE LockInv'
    BY <1>3, <1>t DEF NoteFree, AfterFree, LockedLabels
  <1>4. ASSUME NEW t \in Threads, LockedStep(t) PROVE LockInv'
    BY <1>4, <1>t DEF LockedStep, LockArena, Bump, NoteDirectCarve,
       RegisterChunks,
       PublishAndReturn, PublishAfterFailure, LatchExhausted, LockAfterFailure,
       Advance, Grow, LockedLabels
  <1>5. ASSUME NEW t \in Threads, ScanStep(t) PROVE LockInv'
    BY <1>5, <1>t DEF ScanStep, MarkIntent, ReadPins, ReadCarved, ReadFreed,
       UnmarkIntent, Rewind, FinishRecycle, LockedLabels
  <1> QED BY <1>0, <1>1, <1>2, <1>3, <1>4, <1>5 DEF Next, Step

\* A step keeps current and scan on mapped chunks, and the intent of the chunk
\* under scan set.
LEMMA ArenaStep ==
  ASSUME IInv, [Next]_vars
  PROVE  ArenaInv'
  <1> USE DEF vars, dataVars, sharedVars, chunkVars, flagVars, arenaVars,
          tlsVars, spanVars, batchVars, callVars, checkVars, Goto, ArenaInv
  <1>t. /\ pc \in [Threads -> Labels]
        /\ len \in Nat /\ ArenaInv /\ current \in Nat /\ scan \in Nat
        /\ len <= MaxChunks /\ MaxChunks \in Nat
        /\ ret \in [Threads -> {"idle", "clrspan", "openbatch"}]
    BY TypeFacts DEF IInv, TypeOK
  <1>d. intent \in [Chunks -> BOOLEAN] /\ (\A n \in Nat : n < len => n \in Chunks)
    <2>1. intent \in [Chunks -> BOOLEAN] BY DEF IInv, TypeOK
    <2>2. \A n \in Nat : n < len => n \in Chunks BY <1>t DEF Chunks
    <2> QED BY <2>1, <2>2
  <1>m. \A t, u \in Threads :
          pc[t] \in LockedLabels /\ pc[u] \in LockedLabels => t = u
    BY DEF IInv, LockInv
  <1>n. \A t \in Threads : pc[t] \in LockedLabels => len # 0 /\ lock = t
    BY DEF IInv, LockInv
  <1>o. Nobody \notin Threads
    BY ArenaAssumption DEF ArenaAssumption
  <1>u. ASSUME UNCHANGED <<intent, len, current, recycleOn, scan>>,
               \A t \in Threads : pc'[t] \in ScanLabels \union {"scan"} => pc'[t] = pc[t]
        PROVE  ArenaInv'
    BY <1>u, <1>t DEF ScanLabels
  <1>0. CASE UNCHANGED vars
    BY <1>0, <1>u
  <1>1. ASSUME NEW t \in Threads, Alloc(t) \/ FastStep(t) \/ Exit(t) PROVE ArenaInv'
    BY <1>1, <1>u, <1>t DEF Alloc, AllocHit, AllocMiss, PublicCall, FastStep,
       LoadPublished, PinSpan,
       CheckIntent, BackOff, UnpinSpan, CarveShared, RetireSpan, InstallSpan, Exit,
       ScanLabels
  <1>2. ASSUME NEW t \in Threads, FreeStep(t) \/ ClearStep(t) PROVE ArenaInv'
    BY <1>2, <1>u, <1>t DEF FreeStep, ClearStep, OpenBatch, AfterFree,
       FlushFreeBatch, CheckLatch, CheckPins,
       CheckCarved, Unlatch, EndCheck, Return, ClearOwnBlockers, ClearSpan, ClearPin,
       ScanLabels
  <1>3. ASSUME NEW t \in Threads, NEW b \in live, NoteFree(t, b) PROVE ArenaInv'
    BY <1>3, <1>u, <1>t DEF NoteFree, AfterFree, ScanLabels
  <1>4. ASSUME NEW t \in Threads, LockedStep(t) PROVE ArenaInv'
    <2>1. CASE LockArena(t)
      BY <2>1, <1>t, <1>n, <1>o DEF LockArena, ScanLabels, LockedLabels
    <2>2. CASE Bump(t) \/ NoteDirectCarve(t) \/ RegisterChunks(t) \/ PublishAndReturn(t)
               \/ PublishAfterFailure(t) \/ LatchExhausted(t)
      BY <2>2, <1>t DEF Bump, NoteDirectCarve, RegisterChunks,
       PublishAndReturn, PublishAfterFailure, LatchExhausted, ScanLabels
    <2>3. CASE Advance(t)
      BY <2>3, <1>t, <1>m, <1>n DEF Advance, ScanLabels, LockedLabels
    <2>4. CASE Grow(t)
      BY <2>4, <1>t, <1>m, <1>n DEF Grow, ScanLabels, LockedLabels
    <2> QED BY <1>4, <2>1, <2>2, <2>3, <2>4 DEF LockedStep
  <1>5. ASSUME NEW t \in Threads, ScanStep(t) PROVE ArenaInv'
    <2>1. CASE MarkIntent(t)
      BY <2>1, <1>t, <1>d, <1>m DEF MarkIntent, ScanLabels, LockedLabels
    <2>2. CASE ReadPins(t) \/ ReadCarved(t) \/ ReadFreed(t) \/ Rewind(t)
      BY <2>2, <1>t DEF ReadPins, ReadCarved, ReadFreed, Rewind, ScanLabels
    <2>3. CASE UnmarkIntent(t) \/ FinishRecycle(t)
      BY <2>3, <1>t, <1>m DEF UnmarkIntent, FinishRecycle, ScanLabels,
         LockedLabels
    <2> QED BY <1>5, <2>1, <2>2, <2>3 DEF ScanStep
  <1> QED BY <1>0, <1>1, <1>2, <1>3, <1>4, <1>5 DEF Next, Step

\* A block between its bump and note_direct_carve is one block of the current
\* chunk.
LEMMA DirectStep ==
  ASSUME IInv, [Next]_vars
  PROVE  DirectInv'
  <1> USE DEF vars, dataVars, sharedVars, chunkVars, flagVars, arenaVars,
          tlsVars, spanVars, batchVars, callVars, checkVars, Goto
  <1>t. /\ pc \in [Threads -> Labels]
        /\ hand \in [Threads -> SUBSET Blocks]
        /\ ret \in [Threads -> {"idle", "clrspan", "openbatch"}]
        /\ DirectInv
    BY DEF IInv, TypeOK
  <1>m. \A t, u \in Threads :
          pc[t] \in LockedLabels /\ pc[u] \in LockedLabels => t = u
    BY DEF IInv, LockInv
  <1>l. \A t \in Threads : pc[t] \in LockedLabels => lock = t /\ lock # Nobody
    BY ArenaAssumption DEF ArenaAssumption, IInv, LockInv
  <1>u. ASSUME current' = current,
               \A u \in Threads : pc'[u] = "direct" => pc[u] = "direct" /\ hand'[u] = hand[u]
        PROVE  DirectInv'
    BY <1>u, <1>t DEF DirectInv
  <1>0. CASE UNCHANGED vars
    BY <1>0, <1>t DEF DirectInv
  <1>1. ASSUME NEW t \in Threads, Alloc(t) \/ FastStep(t) \/ Exit(t) PROVE DirectInv'
    BY <1>1, <1>u, <1>t DEF Alloc, AllocHit, AllocMiss, PublicCall, FastStep,
       LoadPublished, PinSpan,
       CheckIntent, BackOff, UnpinSpan, CarveShared, RetireSpan, InstallSpan, Exit
  <1>2. ASSUME NEW t \in Threads, FreeStep(t) \/ ClearStep(t) PROVE DirectInv'
    BY <1>2, <1>u, <1>t DEF FreeStep, ClearStep, OpenBatch, AfterFree,
       FlushFreeBatch, CheckLatch, CheckPins,
       CheckCarved, Unlatch, EndCheck, Return, ClearOwnBlockers, ClearSpan, ClearPin
  <1>3. ASSUME NEW t \in Threads, NEW b \in live, NoteFree(t, b) PROVE DirectInv'
    BY <1>3, <1>u, <1>t DEF NoteFree, AfterFree
  <1>4. ASSUME NEW t \in Threads, Bump(t) PROVE DirectInv'
    <2>1. \A u \in Threads : u # t => pc[u] # "direct"
      BY <1>4, <1>m DEF Bump, LockedLabels
    <2>2. CASE pc'[t] # "direct"
      BY <1>4, <2>1, <2>2, <1>t DEF Bump, DirectInv
    <2>3. CASE pc'[t] = "direct" /\ hand' = [hand EXCEPT ![t] = {Block(current, cursor[current], Size[req[t]])}]
      <3>1. Block(current, cursor[current], Size[req[t]])[1] = current
        BY BlockFacts
      <3> QED BY <1>4, <2>1, <2>3, <3>1, <1>t DEF Bump, DirectInv
    <2> QED BY <1>4, <2>2, <2>3, <1>t DEF Bump
  <1>5. ASSUME NEW t \in Threads, LockArena(t) PROVE DirectInv'
    BY <1>5, <1>l, <1>t DEF LockArena, LockedLabels, DirectInv
  <1>6. ASSUME NEW t \in Threads, LockedStep(t), ~Bump(t), ~LockArena(t) PROVE DirectInv'
    <2>1. \A u \in Threads : u # t => pc[u] # "direct"
      BY <1>6, <1>m DEF LockedStep, NoteDirectCarve, RegisterChunks,
         PublishAndReturn, PublishAfterFailure,
         LatchExhausted, Advance, Grow, LockedLabels
    <2> QED BY <1>6, <2>1, <1>t DEF LockedStep, NoteDirectCarve,
          RegisterChunks,
       PublishAndReturn, PublishAfterFailure, LatchExhausted, Advance, Grow, DirectInv
  <1>7. ASSUME NEW t \in Threads, ScanStep(t) PROVE DirectInv'
    <2>1. \A u \in Threads : u # t => pc[u] # "direct"
      BY <1>7, <1>m DEF ScanStep, MarkIntent, ReadPins, ReadCarved,
         ReadFreed, UnmarkIntent, Rewind, FinishRecycle, LockedLabels
    <2> QED BY <1>7, <2>1, <1>t DEF ScanStep, MarkIntent, ReadPins,
          ReadCarved, ReadFreed, UnmarkIntent, Rewind, FinishRecycle, DirectInv
  <1> QED BY <1>0, <1>1, <1>2, <1>3, <1>4, <1>5, <1>6, <1>7 DEF Next, Step

\* spans counts the pins exactly, so no release takes it below zero: every
\* release in the code is of a pin its own thread has taken.
LEMMA PinStep ==
  ASSUME IInv, [Next]_vars
  PROVE  PinInv' /\ \A c \in Chunks : spans'[c] \in Nat
  <1> USE DEF vars, dataVars, sharedVars, chunkVars, flagVars, arenaVars,
          tlsVars, spanVars, batchVars, callVars, checkVars, Goto
  <1>t. /\ pc \in [Threads -> Labels]
        /\ spans \in [Chunks -> Nat]
        /\ spanChunk \in [Threads -> Chunks \union {NoChunk}]
        /\ tgt \in [Threads -> Chunks]
        /\ ret \in [Threads -> {"idle", "clrspan", "openbatch"}]
        /\ PinInv /\ NoChunk \notin Chunks
    BY SMTT(30) DEF IInv, TypeOK, Chunks, NoChunk
  <1>s. \A c : Openers(c) \in SUBSET Threads /\ Carvers(c) \in SUBSET Threads
               /\ Openers(c)' \in SUBSET Threads /\ Carvers(c)' \in SUBSET Threads
    BY DEF Openers, Carvers
  <1>q. SUFFICES PinInv'
    BY <1>s, ThreadSets DEF PinInv
  <1>u. ASSUME spans' = spans, \A c \in Chunks : Openers(c)' = Openers(c) /\ Carvers(c)' = Carvers(c)
        PROVE  PinInv'
    BY <1>u, <1>t DEF PinInv
  <1>v. ASSUME UNCHANGED <<spans, spanChunk, tgt>>, \A t \in Threads : pc'[t] \in PinLabels <=> pc[t] \in PinLabels
        PROVE  PinInv'
    BY <1>u, <1>v DEF Openers, Carvers
  <1>0. CASE UNCHANGED vars
    BY <1>0, <1>v
  <1>1. ASSUME NEW t \in Threads, Alloc(t) \/ Exit(t) \/ LoadPublished(t) PROVE PinInv'
    <2>1. ~LoadPublished(t) => PinInv'
      BY <1>1, <1>t, <1>v DEF Alloc, AllocHit, AllocMiss, PublicCall, Exit,
         PinLabels
    <2>2. LoadPublished(t) => PinInv'
      BY <1>1, <1>t, <1>u DEF LoadPublished, Openers, Carvers, PinLabels
    <2> QED BY <2>1, <2>2
  <1>2. ASSUME NEW t \in Threads, PinSpan(t) PROVE PinInv'
    <2>1. \A c \in Chunks : Openers(c)' = Openers(c)
      BY <1>2 DEF PinSpan, Openers
    <2>2. \A c \in Chunks : c # tgt[t] => Carvers(c)' = Carvers(c)
      BY <1>2, <1>t DEF PinSpan, Carvers, PinLabels
    <2>3. t \notin Carvers(tgt[t]) /\ Carvers(tgt[t])' = Carvers(tgt[t]) \union {t}
      BY <1>2, <1>t DEF PinSpan, Carvers, PinLabels
    <2> QED BY SMTT(30), <1>2, <1>t, <1>s, <2>1, <2>2, <2>3, ThreadSets DEF PinSpan,
          PinInv
  <1>3. ASSUME NEW t \in Threads, CheckIntent(t) \/ CarveShared(t) \/ RetireSpan(t)
        PROVE PinInv'
    BY <1>3, <1>t, <1>v DEF CheckIntent, BackOff, CarveShared, RetireSpan,
       PinLabels
  <1>4. ASSUME NEW t \in Threads, UnpinSpan(t) PROVE PinInv'
    <2> SUFFICES ASSUME NEW c \in Chunks
                 PROVE  spans'[c] = Cardinality(Openers(c)') + Cardinality(Carvers(c)')
      BY DEF PinInv
    <2>1. Openers(c)' = Openers(c)
      BY <1>4 DEF UnpinSpan, Openers
    <2>2. /\ t \in Carvers(c) <=> c = tgt[t]
          /\ Carvers(c)' = Carvers(c) \ {t}
      BY <1>4, <1>t DEF UnpinSpan, Carvers, PinLabels
    <2>3. spans'[c] = spans[c] - IF c = tgt[t] THEN 1 ELSE 0
      BY <1>4, <1>t DEF UnpinSpan
    <2>4. spans[c] = Cardinality(Openers(c)) + Cardinality(Carvers(c))
      BY <1>t DEF PinInv
    <2>5. Cardinality(Openers(c)) \in Nat /\ Cardinality(Carvers(c)) \in Nat
      BY <1>s, ThreadSets
    <2>6. Cardinality(Carvers(c)') = Cardinality(Carvers(c)) - IF c = tgt[t] THEN 1 ELSE 0
      <3>1. Cardinality(Carvers(c) \ {t}) = Cardinality(Carvers(c)) - IF t \in Carvers(c) THEN 1 ELSE 0
        BY <1>s, ThreadSets
      <3> QED BY <3>1, <2>2
    <2> QED BY <2>1, <2>3, <2>4, <2>5, <2>6
  <1>5. ASSUME NEW t \in Threads, InstallSpan(t) PROVE PinInv'
    <2> SUFFICES ASSUME NEW c \in Chunks
                 PROVE  spans'[c] = Cardinality(Openers(c)') + Cardinality(Carvers(c)')
      BY DEF PinInv
    <2>1. /\ t \in Carvers(c) <=> c = tgt[t]
          /\ Carvers(c)' = Carvers(c) \ {t}
      BY <1>5, <1>t DEF InstallSpan, Carvers, PinLabels
    <2>2. Openers(c)' = IF c = tgt[t] THEN Openers(c) \union {t} ELSE Openers(c) \ {t}
      BY <1>5, <1>t DEF InstallSpan, Openers
    <2>3. t \in Openers(c) <=> c = spanChunk[t]
      BY DEF Openers
    <2>4. spans'[c] = spans[c] - IF c = spanChunk[t] THEN 1 ELSE 0
      BY <1>5 DEF InstallSpan, UnpinOld
    <2>5. spans[c] = Cardinality(Openers(c)) + Cardinality(Carvers(c))
      BY <1>t DEF PinInv
    <2>6. Cardinality(Openers(c)) \in Nat /\ Cardinality(Carvers(c)) \in Nat
      BY <1>s, ThreadSets
    <2>7. Cardinality(Carvers(c)') = Cardinality(Carvers(c)) - IF c = tgt[t] THEN 1 ELSE 0
      <3>1. Cardinality(Carvers(c) \ {t}) = Cardinality(Carvers(c)) - IF t \in Carvers(c) THEN 1 ELSE 0
        BY <1>s, ThreadSets
      <3> QED BY <3>1, <2>1
    <2>8. Cardinality(Openers(c)') =
            IF c = tgt[t] THEN Cardinality(Openers(c)) + IF c = spanChunk[t] THEN 0 ELSE 1
            ELSE Cardinality(Openers(c)) - IF c = spanChunk[t] THEN 1 ELSE 0
      BY <2>2, <2>3, <1>s, ThreadSets
    <2> QED BY <2>4, <2>5, <2>6, <2>7, <2>8
  <1>6. ASSUME NEW t \in Threads, FreeStep(t) \/ ClearOwnBlockers(t) \/ ClearSpan(t)
        PROVE PinInv'
    BY <1>6, <1>t, <1>v DEF FreeStep, OpenBatch, AfterFree, FlushFreeBatch,
       CheckLatch, CheckPins,
       CheckCarved, Unlatch, EndCheck, Return, ClearOwnBlockers, ClearSpan, PinLabels
  <1>7. ASSUME NEW t \in Threads, NEW b \in live, NoteFree(t, b) PROVE PinInv'
    BY <1>7, <1>t, <1>v DEF NoteFree, AfterFree, PinLabels
  <1>8. ASSUME NEW t \in Threads, ClearPin(t) PROVE PinInv'
    <2> SUFFICES ASSUME NEW c \in Chunks
                 PROVE  spans'[c] = Cardinality(Openers(c)') + Cardinality(Carvers(c)')
      BY DEF PinInv
    <2>1. Carvers(c)' = Carvers(c)
      BY <1>8, <1>t DEF ClearPin, Carvers, PinLabels
    <2>2. Openers(c)' = Openers(c) \ {t}
      BY <1>8, <1>t DEF ClearPin, Openers
    <2>3. t \in Openers(c) <=> c = spanChunk[t]
      BY DEF Openers
    <2>4. spans'[c] = spans[c] - IF c = spanChunk[t] THEN 1 ELSE 0
      BY <1>8 DEF ClearPin, UnpinOld
    <2>5. spans[c] = Cardinality(Openers(c)) + Cardinality(Carvers(c))
      BY <1>t DEF PinInv
    <2>6. Cardinality(Openers(c)) \in Nat /\ Cardinality(Carvers(c)) \in Nat
      BY <1>s, ThreadSets
    <2>7. Cardinality(Openers(c)') = Cardinality(Openers(c)) - IF c = spanChunk[t] THEN 1 ELSE 0
      <3>1. Cardinality(Openers(c) \ {t}) = Cardinality(Openers(c)) - IF t \in Openers(c) THEN 1 ELSE 0
        BY <1>s, ThreadSets
      <3> QED BY <3>1, <2>2, <2>3
    <2> QED BY <2>1, <2>4, <2>5, <2>6, <2>7
  <1>9. ASSUME NEW t \in Threads, LockedStep(t) PROVE PinInv'
    BY <1>9, <1>t, <1>v DEF LockedStep, LockArena, Bump, NoteDirectCarve,
       RegisterChunks,
       PublishAndReturn, PublishAfterFailure, LatchExhausted, Advance, Grow, PinLabels
  <1>10. ASSUME NEW t \in Threads, ScanStep(t) PROVE PinInv'
    BY <1>10, <1>t, <1>v DEF ScanStep, MarkIntent, ReadPins, ReadCarved,
       ReadFreed, UnmarkIntent, Rewind, FinishRecycle, PinLabels
  <1> QED BY <1>0, <1>1, <1>2, <1>3, <1>4, <1>5, <1>6, <1>7, <1>8, <1>9, <1>10
      DEF Next, Step, FastStep, ClearStep

\* Windows and carves stay below the cursor, and span.blocks counts blocks of
\* the span's own chunk.
LEMMA SpanStep ==
  ASSUME IInv, [Next]_vars
  PROVE  SpanInv'
  <1> USE DEF vars, dataVars, sharedVars, chunkVars, flagVars, arenaVars,
          tlsVars, spanVars, batchVars, callVars, checkVars, Goto
  <1>t. /\ pc \in [Threads -> Labels]
        /\ cursor \in [Chunks -> Nat]
        /\ spanChunk \in [Threads -> Chunks \union {NoChunk}]
        /\ spanCur \in [Threads -> Nat] /\ spanEnd \in [Threads -> Nat]
        /\ tgt \in [Threads -> Chunks] /\ lo \in [Threads -> Nat]
        /\ spanBlocks \in [Threads -> SUBSET Blocks]
        /\ ret \in [Threads -> {"idle", "clrspan", "openbatch"}]
        /\ \A u \in Threads : Want(u) \in Nat \ {0} /\ Size[req[u]] \in Nat \ {0}
        /\ \A k \in Reqs : Size[k] \in Nat \ {0}
        /\ req \in [Threads -> RequestKinds \union {"public"}]
        /\ NoChunk \notin Chunks
    BY TypeFacts DEF IInv, TypeOK
  <1>i. SpanInv
    BY DEF IInv
  <1>0. CASE UNCHANGED vars
    BY <1>0, <1>i DEF SpanInv, Want
  <1>1. ASSUME NEW t \in Threads, NEW kind \in Reqs, AllocHit(t, kind) PROVE SpanInv'
    <2>1. Block(spanChunk[t], spanCur[t], Size[kind])[1] = spanChunk[t]
      BY BlockFacts
    <2> QED BY <1>1, <2>1, <1>t, <1>i DEF AllocHit, SpanInv, Want, CarveLabels
  <1>2. ASSUME NEW t \in Threads, Exit(t) \/ PublicCall(t) \/ LoadPublished(t) \/ PinSpan(t) \/ CheckIntent(t)
          \/ UnpinSpan(t) \/ \E kind \in Reqs : AllocMiss(t, kind)
        PROVE SpanInv'
    BY <1>2, <1>t, <1>i DEF Exit, PublicCall, LoadPublished, PinSpan,
       CheckIntent, BackOff, UnpinSpan, AllocMiss, SpanInv, Want, CarveLabels
  <1>3. ASSUME NEW t \in Threads, CarveShared(t) PROVE SpanInv'
    BY <1>3, <1>t, <1>i DEF CarveShared, BackOff, SpanInv, Want, CarveLabels
  <1>4. ASSUME NEW t \in Threads, RetireSpan(t) PROVE SpanInv'
    BY <1>4, <1>t, <1>i DEF RetireSpan, FlushSpanBlocks, SpanInv, Want, CarveLabels
  <1>5. ASSUME NEW t \in Threads, InstallSpan(t) PROVE SpanInv'
    <2>1. Block(tgt[t], lo[t], Size[req[t]])[1] = tgt[t]
      BY BlockFacts
    <2>2. lo[t] + Want(t) <= cursor[tgt[t]]
      BY <1>5, <1>i DEF InstallSpan, SpanInv, CarveLabels
    <2> QED BY <1>5, <2>1, <2>2, <1>t, <1>i DEF InstallSpan, WindowStart,
          SpanInv, Want, CarveLabels
  <1>6. ASSUME NEW t \in Threads, FreeStep(t) \/ ClearOwnBlockers(t) PROVE SpanInv'
    BY <1>6, <1>t, <1>i DEF FreeStep, OpenBatch, AfterFree, FlushFreeBatch,
       CheckLatch, CheckPins,
       CheckCarved, Unlatch, EndCheck, Return, ClearOwnBlockers, SpanInv, Want, CarveLabels
  <1>7. ASSUME NEW t \in Threads, NEW b \in live, NoteFree(t, b) PROVE SpanInv'
    BY <1>7, <1>t, <1>i DEF NoteFree, AfterFree, SpanInv, Want, CarveLabels
  <1>8. ASSUME NEW t \in Threads, ClearSpan(t) PROVE SpanInv'
    BY <1>8, <1>t, <1>i DEF ClearSpan, FlushSpanBlocks, SpanInv, Want, CarveLabels
  <1>9. ASSUME NEW t \in Threads, ClearPin(t) PROVE SpanInv'
    BY <1>9, <1>t, <1>i DEF ClearPin, SpanInv, Want, CarveLabels
  <1>10. ASSUME NEW t \in Threads, Bump(t) PROVE SpanInv'
    BY <1>10, <1>t, <1>i DEF Bump, CursorBumped, SpanInv, Want, CarveLabels
  <1>11. ASSUME NEW t \in Threads, LockedStep(t), ~Bump(t) PROVE SpanInv'
    BY <1>11, <1>t, <1>i DEF LockedStep, LockArena, NoteDirectCarve,
       RegisterChunks,
       PublishAndReturn, PublishAfterFailure, LatchExhausted, Advance, Grow, SpanInv,
       Want, CarveLabels
  <1>12. ASSUME NEW t \in Threads, Rewind(t) PROVE SpanInv'
    <2>1. \A u \in Threads : /\ spanChunk[u] # scan
                             /\ pc[u] \in CarveLabels => tgt[u] # scan
      BY <1>12 DEF Rewind, IInv, ClaimInv, ClaimLabels, CarveLabels
    <2> QED BY <1>12, <2>1, <1>t, <1>i DEF Rewind, SpanInv, Want, CarveLabels
  <1>13. ASSUME NEW t \in Threads, ScanStep(t), ~Rewind(t) PROVE SpanInv'
    BY <1>13, <1>t, <1>i DEF ScanStep, MarkIntent, ReadPins, ReadCarved,
       ReadFreed, UnmarkIntent, FinishRecycle, SpanInv, Want, CarveLabels
  <1> QED BY <1>0, <1>1, <1>2, <1>3, <1>4, <1>5, <1>6, <1>7, <1>8, <1>9,
        <1>10, <1>11, <1>12, <1>13
      DEF Next, Alloc, Step, FastStep, ClearStep

\* A pending batch has the blocks of one chunk.
LEMMA BatchStep ==
  ASSUME IInv, [Next]_vars
  PROVE  BatchInv'
  <1> USE DEF vars, dataVars, sharedVars, chunkVars, flagVars, arenaVars,
          tlsVars, spanVars, batchVars, callVars, checkVars, Goto
  <1>t. /\ batch \in [Threads -> SUBSET Blocks]
        /\ batchBase \in [Threads -> Chunks \union {NoChunk}]
        /\ BatchInv
    BY DEF IInv, TypeOK
  <1>0. CASE UNCHANGED vars
    BY <1>0, <1>t DEF BatchInv
  <1>1. ASSUME NEW t \in Threads, Alloc(t) \/ FastStep(t) \/ ClearStep(t) \/ Exit(t)
        PROVE BatchInv'
    BY <1>1, <1>t DEF BatchInv, Alloc, AllocHit, AllocMiss, PublicCall,
       FastStep, LoadPublished, PinSpan,
       CheckIntent, UnpinSpan, CarveShared, RetireSpan, InstallSpan, ClearStep,
       ClearOwnBlockers, ClearSpan, ClearPin, Exit
  <1>2. ASSUME NEW t \in Threads, FreeStep(t) PROVE BatchInv'
    BY <1>2, <1>t DEF BatchInv, FreeStep, OpenBatch, FlushFreeBatch,
       CheckLatch, CheckPins,
       CheckCarved, Unlatch
  <1>3. ASSUME NEW t \in Threads, NEW b \in live, NoteFree(t, b) PROVE BatchInv'
    BY <1>3, <1>t DEF BatchInv, NoteFree
  <1>4. ASSUME NEW t \in Threads, LockedStep(t) \/ ScanStep(t) PROVE BatchInv'
    BY <1>4, <1>t DEF BatchInv, LockedStep, LockArena, Bump, NoteDirectCarve,
       RegisterChunks,
       PublishAndReturn, PublishAfterFailure, LatchExhausted, Advance, Grow,
       ScanStep, MarkIntent, ReadPins, ReadCarved, ReadFreed, UnmarkIntent, Rewind,
       FinishRecycle
  <1> QED BY <1>0, <1>1, <1>2, <1>3, <1>4 DEF Next, Step

\* A block no one uses, and whose cells no block in use has.
Unused(n) == /\ n \in Blocks /\ ~Used(n) /\ ~Counted(n)
             /\ \A x \in ChunkCells : Covers(n, x) =>
                  \A b \in Blocks : Covers(b, x) => ~Used(b)

\* A block cut from cells that are set aside is one no one uses.
LEMMA FreshBlock ==
  ASSUME IInv, NEW n \in Blocks, NEW t \in Threads,
         \A x \in ChunkCells : Covers(n, x) => InWindow(t, x) \/ InCarving(t, x)
  PROVE  Unused(n)
  <1>1. PICK x \in ChunkCells : Covers(n, x)
    BY CellFacts
  <1>2. ~Used(n) /\ ~Counted(n)
    BY <1>1 DEF IInv, Fresh
  <1> QED BY <1>2 DEF Unused, IInv, Fresh

\* The block a window hit serves.
LEMMA HitBlock ==
  ASSUME IInv, NEW t \in Threads, NEW kind \in Reqs, AllocHit(t, kind),
         NEW n, n = Block(spanChunk[t], spanCur[t], Size[kind])
  PROVE  /\ Unused(n) /\ n[1] = spanChunk[t] /\ n[3] <= cursor[n[1]]
         /\ \A x \in ChunkCells : Covers(n, x) => InWindow(t, x)
         /\ \A x \in ChunkCells : InWindow(t, x)' => InWindow(t, x) /\ ~Covers(n, x)
  <1>t. /\ Size[kind] \in Nat \ {0}
        /\ spanCur[t] \in Nat /\ spanEnd[t] \in 0 .. Cap /\ Cap \in Nat
        /\ spanChunk[t] \in Chunks \union {NoChunk} /\ spanCur \in [Threads -> Nat]
    BY SizeFacts, TypeFacts DEF IInv, TypeOK
  <1>1. spanCur[t] + Size[kind] <= spanEnd[t]
    BY DEF AllocHit
  <1>2. spanChunk[t] \in Chunks /\ spanEnd[t] <= cursor[spanChunk[t]]
    BY <1>1, <1>t DEF IInv, SpanInv
  <1>3. n \in Blocks /\ n[1] = spanChunk[t] /\ n[2] = spanCur[t] /\ n[3] = spanCur[t] + Size[kind]
    BY <1>1, <1>2, <1>t, BlockFacts
  <1>4. cursor[spanChunk[t]] \in Nat
    BY <1>2, TypeFacts
  <1>5. \A x \in ChunkCells : Covers(n, x) => InWindow(t, x)
    BY <1>1, <1>3, <1>t, CellFacts DEF Covers, InWindow
  <1>6. Unused(n)
    BY <1>3, <1>5, FreshBlock
  <1>7. \A x \in ChunkCells : InWindow(t, x)' => InWindow(t, x) /\ ~Covers(n, x)
    BY <1>3, <1>t, CellFacts DEF AllocHit, Covers, InWindow
  <1> QED BY <1>1, <1>2, <1>3, <1>4, <1>5, <1>6, <1>7, <1>t

\* The first block of a new span.
LEMMA CarveBlock ==
  ASSUME IInv, NEW t \in Threads, InstallSpan(t),
         NEW n, n = Block(tgt[t], lo[t], Size[req[t]])
  PROVE  /\ Unused(n) /\ n[1] = tgt[t] /\ n[3] <= cursor[n[1]]
         /\ \A x \in ChunkCells : Covers(n, x) => InCarving(t, x)
         /\ \A x \in ChunkCells : InWindow(t, x)' => InCarving(t, x) /\ ~Covers(n, x)
  <1>t. /\ Size[req[t]] \in Nat \ {0} /\ Want(t) \in Nat \ {0} /\ Size[req[t]] <= Want(t)
        /\ lo[t] \in Nat /\ tgt[t] \in Chunks /\ cursor[tgt[t]] \in 0 .. Cap /\ Cap \in Nat
        /\ spanCur \in [Threads -> Nat] /\ spanEnd \in [Threads -> Nat]
        /\ spanChunk \in [Threads -> Chunks \union {NoChunk}]
    BY WantFacts, TypeFacts DEF IInv, TypeOK
  <1>1. pc[t] \in CarveLabels /\ lo[t] + Want(t) <= cursor[tgt[t]]
    BY DEF InstallSpan, Goto, CarveLabels, IInv, SpanInv
  <1>2. n \in Blocks /\ n[1] = tgt[t] /\ n[2] = lo[t] /\ n[3] = lo[t] + Size[req[t]]
    BY <1>1, <1>t, BlockFacts
  <1>3. \A x \in ChunkCells : Covers(n, x) => InCarving(t, x)
    BY <1>1, <1>2, <1>t, CellFacts DEF Covers, InCarving
  <1>4. Unused(n)
    BY <1>2, <1>3, FreshBlock
  <1>5. /\ spanChunk'[t] = tgt[t] /\ spanCur'[t] = lo[t] + Size[req[t]]
        /\ spanEnd'[t] = lo[t] + Want(t)
    BY <1>t DEF InstallSpan, WindowStart
  <1>6. \A x \in ChunkCells : InWindow(t, x)' => InCarving(t, x) /\ ~Covers(n, x)
    BY <1>1, <1>2, <1>5, <1>t, CellFacts DEF Covers, InWindow, InCarving
  <1> QED BY <1>1, <1>2, <1>3, <1>4, <1>6, <1>t

\* The block bumped under the Mutex.
LEMMA BumpBlock ==
  ASSUME IInv, NEW t \in Threads, cursor[current] + Size[req[t]] <= Cap,
         NEW n, n = Block(current, cursor[current], Size[req[t]])
  PROVE  /\ Unused(n) /\ n[1] = current /\ n[3] = cursor[current] + Size[req[t]]
         /\ \A x \in ChunkCells : Covers(n, x) => cursor[x[1]] <= x[2]
  <1>t. Size[req[t]] \in Nat \ {0} /\ current \in Chunks /\ cursor[current] \in Nat
    BY WantFacts, TypeFacts DEF IInv, TypeOK
  <1>1. n \in Blocks /\ n[1] = current /\ n[2] = cursor[current] /\ n[3] = cursor[current] + Size[req[t]]
    BY <1>t, BlockFacts
  <1>2. \A x \in ChunkCells : Covers(n, x) => x[1] = current /\ cursor[current] <= x[2]
    BY <1>1 DEF Covers
  <1>3. ASSUME NEW b \in Blocks, Used(b) \/ Counted(b), NEW x \in ChunkCells, Covers(n, x)
        PROVE  ~Covers(b, x)
    <2>1. b[3] <= cursor[b[1]]
      BY <1>3 DEF IInv, BelowCursor
    <2> QED BY <2>1, <1>2, <1>3, <1>t, BlockFacts, CellFacts DEF Covers
  <1>4. ~Used(n) /\ ~Counted(n)
    BY <1>1, <1>3, CellFacts
  <1> QED BY <1>1, <1>2, <1>3, <1>4 DEF Unused

\* A block is with one owner: the program, one batch, or one hand.
LEMMA HeldStep ==
  ASSUME IInv, [Next]_vars
  PROVE  HeldOnce'
  <1> USE DEF vars, dataVars, sharedVars, chunkVars, flagVars, arenaVars,
          tlsVars, spanVars, batchVars, callVars, checkVars, Goto
  <1>t. /\ batch \in [Threads -> SUBSET Blocks] /\ hand \in [Threads -> SUBSET Blocks]
        /\ live \in SUBSET Blocks
    BY DEF IInv, TypeOK
  <1>h. HeldOnce
    BY DEF IInv
  <1>u. ASSUME NEW n, ~Used(n), NEW t \in Threads,
               \/ live' = live \union {n} /\ hand' = hand
               \/ live' = live /\ hand' = [hand EXCEPT ![t] = {n}],
               batch' = batch
        PROVE  HeldOnce'
    BY <1>u, <1>h, <1>t DEF HeldOnce, Used
  <1>0. CASE UNCHANGED vars
    BY <1>0, <1>h DEF HeldOnce
  <1>1. ASSUME NEW t \in Threads, NEW kind \in Reqs, AllocHit(t, kind) PROVE HeldOnce'
    <2> DEFINE n == Block(spanChunk[t], spanCur[t], Size[kind])
    <2>1. ~Used(n)
      BY <1>1, HitBlock DEF Unused
    <2> QED BY <1>1, <2>1, <1>u DEF AllocHit
  <1>2. ASSUME NEW t \in Threads, InstallSpan(t) PROVE HeldOnce'
    <2> DEFINE n == Block(tgt[t], lo[t], Size[req[t]])
    <2>1. ~Used(n)
      BY <1>2, CarveBlock DEF Unused
    <2> QED BY <1>2, <2>1, <1>u DEF InstallSpan
  <1>3. ASSUME NEW t \in Threads, Bump(t) PROVE HeldOnce'
    <2> DEFINE n == Block(current, cursor[current], Size[req[t]])
    <2>1. CASE cursor[current] + Size[req[t]] <= Cap
      <3>1. ~Used(n)
        BY <2>1, BumpBlock DEF Unused
      <3>2. CASE UNCHANGED <<hand, live, batch>>
        BY <3>2, <1>h DEF HeldOnce
      <3> QED BY <1>3, <3>1, <3>2, <1>u DEF Bump
    <2>2. CASE ~(cursor[current] + Size[req[t]] <= Cap)
      BY <1>3, <2>2, <1>h DEF Bump, HeldOnce
    <2> QED BY <2>1, <2>2
  <1>4. ASSUME NEW t \in Threads, NEW b \in live, NoteFree(t, b) PROVE HeldOnce'
    BY <1>4, <1>h, <1>t DEF NoteFree, HeldOnce
  <1>5. ASSUME NEW t \in Threads, OpenBatch(t) PROVE HeldOnce'
    BY <1>5, <1>h, <1>t DEF OpenBatch, HeldOnce
  <1>6. ASSUME NEW t \in Threads, FlushFreeBatch(t) PROVE HeldOnce'
    BY <1>6, <1>h, <1>t DEF FlushFreeBatch, HeldOnce
  <1>7. ASSUME NEW t \in Threads, PublishAndReturn(t) PROVE HeldOnce'
    BY <1>7, <1>h, <1>t DEF PublishAndReturn, HeldOnce
  <1>8. ASSUME UNCHANGED <<live, batch, hand>> PROVE HeldOnce'
    BY <1>8, <1>h DEF HeldOnce
  <1>9. ASSUME NEW t \in Threads, Alloc(t) \/ FastStep(t) \/ ClearStep(t) \/ Exit(t),
               (\A kind \in Reqs : ~AllocHit(t, kind)), ~InstallSpan(t) PROVE HeldOnce'
    BY <1>8, <1>9 DEF Alloc, AllocMiss, PublicCall, FastStep, LoadPublished,
       PinSpan,
       CheckIntent, UnpinSpan, CarveShared, RetireSpan, ClearStep, ClearOwnBlockers,
       ClearSpan, ClearPin, Exit
  <1>10. ASSUME NEW t \in Threads, FreeStep(t), ~OpenBatch(t), ~FlushFreeBatch(t)
         PROVE HeldOnce'
    BY <1>8, <1>10 DEF FreeStep, CheckLatch, CheckPins, CheckCarved, Unlatch
  <1>11. ASSUME NEW t \in Threads, LockedStep(t) \/ ScanStep(t), ~Bump(t),
                ~PublishAndReturn(t)
         PROVE HeldOnce'
    BY <1>8, <1>11 DEF LockedStep, LockArena, NoteDirectCarve, RegisterChunks,
       PublishAfterFailure, LatchExhausted, Advance, Grow,
       ScanStep, MarkIntent, ReadPins, ReadCarved, ReadFreed, UnmarkIntent, Rewind,
       FinishRecycle
  <1> QED BY <1>0, <1>1, <1>2, <1>3, <1>4, <1>5, <1>6, <1>7, <1>9, <1>10,
        <1>11 DEF Next, Step

\* Blocks in use never overlap: what is served next has only unused cells.
LEMMA DisjointStep ==
  ASSUME IInv, [Next]_vars
  PROVE  Disjoint'
  <1> USE DEF vars, dataVars, sharedVars, chunkVars, flagVars, arenaVars,
          tlsVars, spanVars, batchVars, callVars, checkVars, Goto
  <1>t. /\ batch \in [Threads -> SUBSET Blocks] /\ hand \in [Threads -> SUBSET Blocks]
        /\ live \in SUBSET Blocks
    BY DEF IInv, TypeOK
  <1>h. Disjoint
    BY DEF IInv
  <1>u. ASSUME NEW n, Unused(n), \A b \in Blocks : Used(b)' => Used(b) \/ b = n
        PROVE  Disjoint'
    BY <1>u, <1>h DEF Disjoint, Unused
  <1>v. ASSUME \A b \in Blocks : Used(b)' => Used(b)
        PROVE  Disjoint'
    BY <1>v, <1>h DEF Disjoint
  <1>0. ASSUME UNCHANGED <<live, batch, hand>> PROVE Disjoint'
    BY <1>0, <1>v DEF Used
  <1>1. ASSUME NEW t \in Threads, NEW kind \in Reqs, AllocHit(t, kind) PROVE Disjoint'
    <2> DEFINE n == Block(spanChunk[t], spanCur[t], Size[kind])
    <2>1. Unused(n)
      BY <1>1, HitBlock
    <2>2. \A b \in Blocks : Used(b)' => Used(b) \/ b = n
      BY <1>1 DEF AllocHit, Used
    <2> QED BY <2>1, <2>2, <1>u
  <1>2. ASSUME NEW t \in Threads, InstallSpan(t) PROVE Disjoint'
    <2> DEFINE n == Block(tgt[t], lo[t], Size[req[t]])
    <2>1. Unused(n)
      BY <1>2, CarveBlock
    <2>2. \A b \in Blocks : Used(b)' => Used(b) \/ b = n
      BY <1>2 DEF InstallSpan, Used
    <2> QED BY <2>1, <2>2, <1>u
  <1>3. ASSUME NEW t \in Threads, Bump(t) PROVE Disjoint'
    <2> DEFINE n == Block(current, cursor[current], Size[req[t]])
    <2>1. CASE UNCHANGED dataVars
      BY <2>1, <1>0
    <2>2. CASE ~UNCHANGED dataVars
      <3>1. Unused(n)
        BY <1>3, <2>2, BumpBlock DEF Bump
      <3>2. \A b \in Blocks : Used(b)' => Used(b) \/ b = n
        BY <1>3, <2>2, <1>t DEF Bump, Used
      <3> QED BY <3>1, <3>2, <1>u
    <2> QED BY <2>1, <2>2
  <1>4. ASSUME NEW t \in Threads, NEW b \in live, NoteFree(t, b) PROVE Disjoint'
    BY <1>4, <1>v, <1>t DEF NoteFree, Used
  <1>5. ASSUME NEW t \in Threads, OpenBatch(t) \/ FlushFreeBatch(t) \/ PublishAndReturn(t)
        PROVE Disjoint'
    BY <1>5, <1>v, <1>t DEF OpenBatch, FlushFreeBatch, PublishAndReturn, Used
  <1>6. ASSUME NEW t \in Threads, Alloc(t) \/ FastStep(t) \/ ClearStep(t) \/ Exit(t),
               \A kind \in Reqs : ~AllocHit(t, kind), ~InstallSpan(t) PROVE Disjoint'
    BY <1>0, <1>6 DEF Alloc, AllocMiss, PublicCall, FastStep, LoadPublished,
       PinSpan, CheckIntent, UnpinSpan, CarveShared, RetireSpan, ClearStep,
       ClearOwnBlockers, ClearSpan, ClearPin, Exit
  <1>7. ASSUME NEW t \in Threads, FreeStep(t), ~OpenBatch(t), ~FlushFreeBatch(t)
        PROVE Disjoint'
    BY <1>0, <1>7 DEF FreeStep, CheckLatch, CheckPins, CheckCarved, Unlatch
  <1>8. ASSUME NEW t \in Threads, LockedStep(t) \/ ScanStep(t), ~Bump(t),
               ~PublishAndReturn(t)
        PROVE Disjoint'
    BY <1>0, <1>8 DEF LockedStep, LockArena, NoteDirectCarve, RegisterChunks,
       PublishAfterFailure, LatchExhausted, Advance, Grow, ScanStep, MarkIntent,
       ReadPins, ReadCarved, ReadFreed, UnmarkIntent, Rewind, FinishRecycle
  <1>9. CASE UNCHANGED vars
    BY <1>9, <1>0
  <1> QED BY <1>1, <1>2, <1>3, <1>4, <1>5, <1>6, <1>7, <1>8, <1>9 DEF Next, Step

\* Two threads never have the same cell set aside.
LEMMA ReservedStep ==
  ASSUME IInv, [Next]_vars
  PROVE  ReservedOnce'
  <1> USE DEF vars, dataVars, sharedVars, chunkVars, flagVars, arenaVars,
          tlsVars, spanVars, batchVars, callVars, checkVars, Goto
  <1>t. /\ pc \in [Threads -> Labels]
        /\ cursor \in [Chunks -> Nat]
        /\ spanChunk \in [Threads -> Chunks \union {NoChunk}]
        /\ spanCur \in [Threads -> Nat] /\ spanEnd \in [Threads -> Nat]
        /\ tgt \in [Threads -> Chunks] /\ lo \in [Threads -> Nat]
        /\ ret \in [Threads -> {"idle", "clrspan", "openbatch"}]
        /\ \A u \in Threads : Want(u) \in Nat \ {0} /\ Size[req[u]] \in Nat \ {0}
        /\ \A k \in Reqs : Size[k] \in Nat \ {0}
        /\ req \in [Threads -> RequestKinds \union {"public"}]
        /\ NoChunk \notin Chunks
    BY TypeFacts DEF IInv, TypeOK
  <1>b. \A x \in ChunkCells : x[1] \in Chunks /\ x[2] \in Nat
    BY CellFacts
  <1>h. ReservedOnce
    BY DEF IInv
  <1>u. ASSUME \A t \in Threads : \A x \in ChunkCells :
                 /\ InWindow(t, x)' => InWindow(t, x)
                 /\ InCarving(t, x)' => InCarving(t, x)
        PROVE  ReservedOnce'
    BY <1>u, <1>h DEF ReservedOnce
  <1>0. CASE UNCHANGED vars
    BY <1>0, <1>u DEF InWindow, InCarving, Want
  <1>1. ASSUME NEW t \in Threads, NEW kind \in Reqs, AllocHit(t, kind) PROVE ReservedOnce'
    <2>1. \A x \in ChunkCells : InWindow(t, x)' => InWindow(t, x)
      BY <1>1, HitBlock
    <2>2. \A u \in Threads : \A x \in ChunkCells :
            /\ u # t => (InWindow(u, x)' => InWindow(u, x))
            /\ InCarving(u, x)' => InCarving(u, x)
      BY <1>1, <1>t DEF AllocHit, InWindow, InCarving, Want
    <2> QED BY <2>1, <2>2, <1>u
  <1>2. ASSUME NEW t \in Threads, CarveShared(t) PROVE ReservedOnce'
    <2>1. CASE Carvable(t)
      <3>0. Want(t)' = Want(t) /\ \A u \in Threads : Want(u)' = Want(u)
        BY <1>2, <2>1 DEF CarveShared, Want
      <3>1. \A u \in Threads, x \in ChunkCells :
              /\ InWindow(u, x)' <=> InWindow(u, x)
              /\ u # t => (InCarving(u, x)' <=> InCarving(u, x))
              /\ InCarving(t, x)' => x[1] = tgt[t] /\ cursor[tgt[t]] <= x[2]
        BY <1>2, <2>1, <3>0, <1>t, <1>b DEF CarveShared, InWindow, InCarving
      <3>2. \A u \in Threads, x \in ChunkCells :
              InWindow(u, x) \/ InCarving(u, x) => x[2] < cursor[x[1]]
        BY <1>t, <1>b DEF IInv, SpanInv, InWindow, InCarving
      <3> QED BY <3>1, <3>2, <1>t, <1>b, <1>h DEF ReservedOnce
    <2>2. CASE ~Carvable(t)
      BY <1>2, <2>2, <1>t, <1>u DEF CarveShared, BackOff, InWindow,
         InCarving, Want, CarveLabels
    <2> QED BY <2>1, <2>2
  <1>3. ASSUME NEW t \in Threads, InstallSpan(t) PROVE ReservedOnce'
    <2>1. \A u \in Threads, x \in ChunkCells :
              /\ u # t => (InWindow(u, x)' <=> InWindow(u, x)) /\ (InCarving(u, x)' <=> InCarving(u, x))
              /\ ~InCarving(t, x)'
      BY <1>3, <1>t DEF InstallSpan, InWindow, InCarving, Want, CarveLabels
    <2>2. \A x \in ChunkCells : InWindow(t, x)' => InCarving(t, x)
      BY <1>3, CarveBlock
    <2> QED BY <2>1, <2>2, <1>h DEF ReservedOnce
  <1>4. ASSUME NEW t \in Threads, ClearPin(t) PROVE ReservedOnce'
    <2>1. \A u \in Threads : \A x \in ChunkCells : InWindow(u, x)' => InWindow(u, x)
      BY <1>4, <1>t, <1>b DEF ClearPin, InWindow
    <2>2. \A u \in Threads : \A x \in ChunkCells : InCarving(u, x)' => InCarving(u, x)
      BY <1>4, <1>t DEF ClearPin, InCarving, Want, CarveLabels
    <2> QED BY <2>1, <2>2, <1>u
  <1>5. ASSUME UNCHANGED <<spanChunk, spanCur, spanEnd, tgt, lo>>,
               \A t \in Threads : pc'[t] \in CarveLabels => pc[t] \in CarveLabels /\ req'[t] = req[t]
        PROVE ReservedOnce'
    BY <1>5, <1>u DEF InWindow, InCarving, Want
  <1>6. ASSUME NEW t \in Threads, Alloc(t) \/ Exit(t), (\A kind \in Reqs : ~AllocHit(t,
               kind))
        PROVE ReservedOnce'
    BY <1>5, <1>6, <1>t DEF Alloc, AllocMiss, PublicCall, Exit, CarveLabels
  <1>7. ASSUME NEW t \in Threads, PinSpan(t) \/ CheckIntent(t) \/ RetireSpan(t)
        PROVE ReservedOnce'
    BY <1>5, <1>7, <1>t DEF PinSpan, CheckIntent, BackOff, RetireSpan,
       CarveLabels
  <1>8. ASSUME NEW t \in Threads, LoadPublished(t) \/ UnpinSpan(t) PROVE ReservedOnce'
    BY <1>8, <1>t, <1>u DEF LoadPublished, UnpinSpan, InWindow, InCarving,
       Want, CarveLabels
  <1>9. ASSUME NEW t \in Threads, FreeStep(t) \/ ClearOwnBlockers(t) \/ ClearSpan(t)
        PROVE ReservedOnce'
    BY <1>5, <1>9, <1>t DEF FreeStep, OpenBatch, AfterFree, FlushFreeBatch,
       CheckLatch, CheckPins, CheckCarved, Unlatch,
       EndCheck, Return, ClearOwnBlockers, ClearSpan, CarveLabels
  <1>10. ASSUME NEW t \in Threads, NEW b \in live, NoteFree(t, b) PROVE ReservedOnce'
    BY <1>5, <1>10, <1>t DEF NoteFree, AfterFree, CarveLabels
  <1>11. ASSUME NEW t \in Threads, LockedStep(t) \/ ScanStep(t) PROVE ReservedOnce'
    BY <1>5, <1>11, <1>t DEF LockedStep, LockArena, Bump, NoteDirectCarve,
       RegisterChunks, PublishAndReturn,
       PublishAfterFailure, LatchExhausted, Advance, Grow,
       ScanStep, MarkIntent, ReadPins, ReadCarved, ReadFreed, UnmarkIntent, Rewind,
       FinishRecycle, CarveLabels
  <1> QED BY <1>0, <1>1, <1>2, <1>3, <1>4, <1>6, <1>7, <1>8, <1>9, <1>10, <1>11
      DEF Next, Step, FastStep, ClearStep

\* A step puts nothing in use above the cursor; a rewind finds nothing there.
LEMMA BelowStep ==
  ASSUME IInv, TypeOK', [Next]_vars
  PROVE  BelowCursor'
  <1> USE DEF vars, dataVars, sharedVars, chunkVars, flagVars, arenaVars,
          tlsVars, spanVars, batchVars, callVars, checkVars, Goto
  <1>t. /\ cursor \in [Chunks -> Nat]
        /\ spanBlocks \in [Threads -> SUBSET Blocks]
        /\ batch \in [Threads -> SUBSET Blocks] /\ hand \in [Threads -> SUBSET Blocks]
        /\ live \in SUBSET Blocks
        /\ lo \in [Threads -> Nat] /\ spanCur \in [Threads -> Nat] /\ spanEnd \in [Threads -> Nat]
        /\ spanChunk \in [Threads -> Chunks \union {NoChunk}]
        /\ tgt \in [Threads -> Chunks]
        /\ current \in Chunks
    BY TypeFacts DEF IInv, TypeOK
  <1>p. cursor' \in [Chunks -> Nat]
    BY ArenaAssumption DEF ArenaAssumption, TypeOK
  <1>b. \A b \in Blocks : b[1] \in Chunks /\ b[3] \in Nat
    BY BlockFacts
  <1>h. BelowCursor
    BY DEF IInv
  <1> DEFINE Known(b) == Used(b) \/ Counted(b)
  <1>u. ASSUME \A c \in Chunks : cursor[c] <= cursor'[c],
               \A b \in Blocks : Known(b)' => Known(b) \/ b[3] <= cursor'[b[1]]
        PROVE  BelowCursor'
    BY <1>u, <1>h, <1>t, <1>p, <1>b DEF BelowCursor
  <1>v. ASSUME cursor' = cursor, \A b \in Blocks : Known(b)' => Known(b)
        PROVE  BelowCursor'
    BY <1>u, <1>v, <1>t
  <1>0. ASSUME UNCHANGED <<cursor, live, batch, hand, spanBlocks>> PROVE BelowCursor'
    BY <1>0, <1>v DEF Used, Counted
  <1>1. ASSUME NEW t \in Threads, NEW kind \in Reqs, AllocHit(t, kind) PROVE BelowCursor'
    <2> DEFINE n == Block(spanChunk[t], spanCur[t], Size[kind])
    <2>1. n \in Blocks /\ n[3] <= cursor[n[1]]
      BY <1>1, HitBlock DEF Unused
    <2>2. \A b \in Blocks : Known(b)' => Known(b) \/ b = n
      BY <1>1, <1>t DEF AllocHit, Used, Counted
    <2>3. cursor' = cursor
      BY <1>1 DEF AllocHit
    <2> QED BY <2>1, <2>2, <2>3, <1>u, <1>t
  <1>2. ASSUME NEW t \in Threads, InstallSpan(t) PROVE BelowCursor'
    <2> DEFINE n == Block(tgt[t], lo[t], Size[req[t]])
    <2>1. n \in Blocks /\ n[3] <= cursor[n[1]]
      BY <1>2, CarveBlock DEF Unused
    <2>2. \A b \in Blocks : Known(b)' => Known(b) \/ b = n
      BY <1>2, <1>t DEF InstallSpan, Used, Counted
    <2>3. cursor' = cursor
      BY <1>2 DEF InstallSpan
    <2> QED BY <2>1, <2>2, <2>3, <1>u, <1>t
  <1>3. ASSUME NEW t \in Threads, Bump(t) PROVE BelowCursor'
    <2>1. CASE UNCHANGED dataVars
      BY <2>1, <1>0
    <2>2. CASE ~UNCHANGED dataVars
      <3> DEFINE n == Block(current, cursor[current], Size[req[t]])
      <3>0. Size[req[t]] \in Nat \ {0} /\ cursor[current] + Size[req[t]] <= Cap
        BY <1>3, <2>2, WantFacts DEF Bump, IInv
      <3>1. \A b \in Blocks : Known(b)' => Known(b) \/ b = n
        BY <1>3, <2>2, <1>t DEF Bump, Used, Counted
      <3>2. cursor' = [cursor EXCEPT ![current] = cursor[current] + Size[req[t]]]
        BY <1>3, <2>2 DEF Bump, CursorBumped
      <3>3. n[1] = current /\ n[3] = cursor[current] + Size[req[t]]
        BY <3>0, BumpBlock
      <3> HIDE DEF n
      <3>4. cursor'[current] = n[3]
        BY <3>2, <3>3, <1>t
      <3>5. \A c \in Chunks : cursor[c] <= cursor'[c]
        BY <3>0, <3>2, <1>t
      <3> QED BY <3>1, <3>3, <3>4, <3>5, <1>p, <1>t, <1>u
    <2> QED BY <2>1, <2>2
  <1>4. ASSUME NEW t \in Threads, CarveShared(t) PROVE BelowCursor'
    <2>1. Want(t) \in Nat \ {0}
      BY TypeFacts
    <2> QED BY <1>4, <2>1, <1>u, <1>0, <1>t DEF CarveShared, Used, Counted
  <1>5. ASSUME NEW t \in Threads, RetireSpan(t) \/ ClearSpan(t) PROVE BelowCursor'
    BY <1>5, <1>v, <1>t DEF RetireSpan, ClearSpan, FlushSpanBlocks, Used, Counted
  <1>6. ASSUME NEW t \in Threads, NEW b \in live, NoteFree(t, b) PROVE BelowCursor'
    BY <1>6, <1>v, <1>t DEF NoteFree, Used, Counted
  <1>7. ASSUME NEW t \in Threads, OpenBatch(t) \/ FlushFreeBatch(t) \/ PublishAndReturn(t)
        PROVE BelowCursor'
    BY <1>7, <1>v, <1>t DEF OpenBatch, FlushFreeBatch, PublishAndReturn, Used, Counted
  <1>8. ASSUME NEW t \in Threads, Rewind(t) PROVE BelowCursor'
    <2>1. \A b \in Blocks : b[1] = scan => ~Used(b)
      BY <1>8 DEF Rewind, IInv, ClaimInv, Owed
    <2>2. \A u \in Threads : spanChunk[u] # scan
      BY <1>8 DEF Rewind, IInv, ClaimInv, ClaimLabels
    <2>3. \A b \in Blocks : Counted(b) => b[1] # scan
      BY <2>2 DEF IInv, SpanInv, Counted
    <2> QED BY <1>8, <2>1, <2>3, <1>h, <1>b, <1>t DEF Rewind, BelowCursor, Used, Counted
  <1>9. ASSUME NEW t \in Threads, Alloc(t) \/ FastStep(t) \/ ClearStep(t) \/ Exit(t),
               (\A kind \in Reqs : ~AllocHit(t, kind)), ~InstallSpan(t), ~CarveShared(t), ~RetireSpan(t), ~ClearSpan(t)
        PROVE BelowCursor'
    BY <1>0, <1>9 DEF Alloc, AllocMiss, PublicCall, FastStep, LoadPublished,
       PinSpan,
       CheckIntent, UnpinSpan, ClearStep, ClearOwnBlockers, ClearPin, Exit
  <1>10. ASSUME NEW t \in Threads, FreeStep(t), ~OpenBatch(t), ~FlushFreeBatch(t)
         PROVE BelowCursor'
    BY <1>0, <1>10 DEF FreeStep, CheckLatch, CheckPins, CheckCarved, Unlatch
  <1>11. ASSUME NEW t \in Threads, LockedStep(t) \/ ScanStep(t), ~Bump(t), ~PublishAndReturn(t), ~Rewind(t)
         PROVE BelowCursor'
    BY <1>0, <1>11 DEF LockedStep, LockArena, NoteDirectCarve, RegisterChunks,
       PublishAfterFailure, LatchExhausted, Advance, Grow,
       ScanStep, MarkIntent, ReadPins, ReadCarved, ReadFreed, UnmarkIntent, FinishRecycle
  <1> QED BY <1>0, <1>1, <1>2, <1>3, <1>4, <1>5, <1>6, <1>7, <1>8, <1>9,
        <1>10, <1>11
      DEF Next, Step, FastStep, ClearStep

\* A cell set aside is in no block that is in use or counted.
LEMMA FreshStep ==
  ASSUME IInv, [Next]_vars
  PROVE  Fresh'
  <1> USE DEF vars, dataVars, sharedVars, chunkVars, flagVars, arenaVars,
          tlsVars, spanVars, batchVars, callVars, checkVars, Goto
  <1>t. /\ pc \in [Threads -> Labels]
        /\ cursor \in [Chunks -> Nat]
        /\ spanChunk \in [Threads -> Chunks \union {NoChunk}]
        /\ spanCur \in [Threads -> Nat] /\ spanEnd \in [Threads -> Nat]
        /\ tgt \in [Threads -> Chunks] /\ lo \in [Threads -> Nat]
        /\ \A u \in Threads : Want(u) \in Nat \ {0}
        /\ req \in [Threads -> RequestKinds \union {"public"}]
    BY TypeFacts DEF IInv, TypeOK
  <1>r. /\ ret \in [Threads -> {"idle", "clrspan", "openbatch"}]
        /\ spanBlocks \in [Threads -> SUBSET Blocks]
        /\ batch \in [Threads -> SUBSET Blocks] /\ hand \in [Threads -> SUBSET Blocks]
        /\ live \in SUBSET Blocks
        /\ current \in Chunks
        /\ NoChunk \notin Chunks
    BY TypeFacts DEF IInv, TypeOK
  <1>b. \A x \in ChunkCells : x[1] \in Chunks /\ x[2] \in Nat
    BY CellFacts
  <1>h. Fresh
    BY DEF IInv
  <1> DEFINE Known(b)  == Used(b) \/ Counted(b)
             Filled(x) == \E b \in Blocks : Covers(b, x) /\ Known(b)
             Set(x)    == \E t \in Threads : InWindow(t, x) \/ InCarving(t, x)
  <1>g. /\ Fresh <=> \A x \in ChunkCells : Set(x) => ~Filled(x)
        /\ Fresh' <=> \A x \in ChunkCells : Set(x)' => ~Filled(x)'
    BY DEF Fresh
  <1>k. ASSUME \A b \in Blocks : Known(b)' => Known(b)
        PROVE  \A x : Filled(x)' => Filled(x)
    BY <1>k
  <1>n. ASSUME NEW n, \A b \in Blocks : Known(b)' => Known(b) \/ b = n
        PROVE  \A x : Filled(x)' => Filled(x) \/ Covers(n, x)
    BY <1>n
  <1>u. ASSUME \A x \in ChunkCells : Set(x)' => Set(x) /\ (Filled(x)' => Filled(x))
        PROVE  Fresh'
    BY <1>u, <1>h, <1>g
  <1>v. \A x \in ChunkCells : Set(x) => x[2] < cursor[x[1]]
    <2> SUFFICES ASSUME NEW x \in ChunkCells, NEW t \in Threads, InWindow(t, x) \/ InCarving(t, x)
                 PROVE  x[2] < cursor[x[1]]
      OBVIOUS
    <2>1. CASE InWindow(t, x)
      BY <2>1, <1>t, <1>r, <1>b DEF IInv, SpanInv, InWindow
    <2>2. CASE InCarving(t, x)
      BY <2>2, <1>t, <1>r, <1>b DEF IInv, SpanInv, InCarving
    <2> QED BY <2>1, <2>2
  <1>0. ASSUME \A b \in Blocks : Known(b)' => Known(b),
               UNCHANGED <<spanChunk, spanCur, spanEnd, tgt, lo>>,
               \A t \in Threads : pc'[t] \in CarveLabels => pc[t] \in CarveLabels /\ req'[t] = req[t]
        PROVE Fresh'
    <2>1. \A x \in ChunkCells : Set(x)' => Set(x)
      BY <1>0 DEF InWindow, InCarving, Want
    <2> HIDE DEF Set, Filled, Known
    <2> QED BY <1>0, <2>1, <1>u, <1>k
  <1>i. ASSUME UNCHANGED <<live, batch, hand, spanBlocks>>
        PROVE \A b \in Blocks : Known(b)' => Known(b)
    BY <1>i DEF Used, Counted
  <1>1. ASSUME NEW t \in Threads, NEW kind \in Reqs, AllocHit(t, kind) PROVE Fresh'
    <2> DEFINE n == Block(spanChunk[t], spanCur[t], Size[kind])
    <2>1. \A b \in Blocks : Known(b)' => Known(b) \/ b = n
      BY <1>1, <1>t, <1>r DEF AllocHit, Used, Counted
    <2>2. \A u \in Threads, x \in ChunkCells :
            /\ InCarving(u, x)' <=> InCarving(u, x)
            /\ u # t => (InWindow(u, x)' <=> InWindow(u, x))
      BY <1>1, <1>t, <1>r DEF AllocHit, InWindow, InCarving, Want
    <2>3. \A x \in ChunkCells : /\ Covers(n, x) => InWindow(t, x)
                                /\ InWindow(t, x)' => InWindow(t, x) /\ ~Covers(n, x)
      BY <1>1, HitBlock
    <2> HIDE DEF n
    <2>4. \A x \in ChunkCells : Set(x)' => Set(x) /\ ~Covers(n, x)
      BY <2>2, <2>3 DEF IInv, ReservedOnce
    <2>5. \A x : Filled(x)' => Filled(x) \/ Covers(n, x)
      BY <2>1, <1>n
    <2> HIDE DEF Set, Filled, Known
    <2> QED BY <2>4, <2>5, <1>u
  <1>2. ASSUME NEW t \in Threads, InstallSpan(t) PROVE Fresh'
    <2> DEFINE n == Block(tgt[t], lo[t], Size[req[t]])
    <2>1. \A b \in Blocks : Known(b)' => Known(b) \/ b = n
      BY <1>2, <1>t, <1>r DEF InstallSpan, Used, Counted
    <2>2. \A u \in Threads, x \in ChunkCells :
            /\ u # t => /\ InWindow(u, x)' <=> InWindow(u, x)
                        /\ InCarving(u, x)' <=> InCarving(u, x)
            /\ ~InCarving(t, x)'
      BY <1>2, <1>t, <1>r DEF InstallSpan, InWindow, InCarving, Want, CarveLabels
    <2>3. \A x \in ChunkCells : /\ Covers(n, x) => InCarving(t, x)
                                /\ InWindow(t, x)' => InCarving(t, x) /\ ~Covers(n, x)
      BY <1>2, CarveBlock
    <2> HIDE DEF n
    <2>4. \A x \in ChunkCells : Set(x)' => Set(x) /\ ~Covers(n, x)
      BY <2>2, <2>3 DEF IInv, ReservedOnce
    <2>5. \A x : Filled(x)' => Filled(x) \/ Covers(n, x)
      BY <2>1, <1>n
    <2> HIDE DEF Set, Filled, Known
    <2> QED BY <2>4, <2>5, <1>u
  <1>3. ASSUME NEW t \in Threads, Bump(t) PROVE Fresh'
    <2> DEFINE n == Block(current, cursor[current], Size[req[t]])
    <2>1. \A x \in ChunkCells : Set(x)' => Set(x)
      BY <1>3, <1>t, <1>r DEF Bump, InWindow, InCarving, Want, CarveLabels
    <2>2. CASE UNCHANGED dataVars
      <3>1. \A b \in Blocks : Known(b)' => Known(b)
        BY <2>2, <1>i
      <3> HIDE DEF Set, Filled, Known
      <3> QED BY <2>1, <3>1, <1>k, <1>u
    <2>3. CASE ~UNCHANGED dataVars
      <3>1. \A b \in Blocks : Known(b)' => Known(b) \/ b = n
        BY <1>3, <2>3, <1>t, <1>r DEF Bump, Used, Counted
      <3>2. \A x \in ChunkCells : Covers(n, x) => cursor[x[1]] <= x[2]
        BY <1>3, <2>3, BumpBlock DEF Bump
      <3> HIDE DEF n
      <3>3. \A x \in ChunkCells : Set(x) => ~Covers(n, x)
        BY <1>v, <3>2, <1>b, <1>t
      <3>4. \A x : Filled(x)' => Filled(x) \/ Covers(n, x)
        BY <3>1, <1>n
      <3> HIDE DEF Set, Filled, Known
      <3> QED BY <2>1, <3>3, <3>4, <1>u
    <2> QED BY <2>2, <2>3
  <1>4. ASSUME NEW t \in Threads, CarveShared(t) PROVE Fresh'
    <2>1. \A b \in Blocks : Known(b)' => Known(b)
      BY <1>4 DEF CarveShared, Used, Counted
    <2>2. \A x \in ChunkCells : Filled(x) => x[2] < cursor[x[1]]
      <3>1. \A b \in Blocks : Known(b) => b[3] <= cursor[b[1]]
        BY DEF IInv, BelowCursor
      <3> QED BY <3>1, <1>t, <1>b, BlockFacts DEF Covers
    <2>3. \A x \in ChunkCells : Set(x)' => Set(x) \/ cursor[x[1]] <= x[2]
      BY <1>4, <1>t, <1>r DEF CarveShared, BackOff, InWindow, InCarving, Want,
         CarveLabels
    <2>4. \A x : Filled(x)' => Filled(x)
      BY <2>1, <1>k
    <2> HIDE DEF Set, Filled, Known
    <2>5. \A x \in ChunkCells : Set(x)' => Set(x) \/ ~Filled(x)
      BY <2>2, <2>3, <1>t, <1>b
    <2> QED BY <2>4, <2>5, <1>g, <1>h
  <1>5. ASSUME NEW t \in Threads, RetireSpan(t) \/ ClearSpan(t) PROVE Fresh'
    <2>1. \A b \in Blocks : Known(b)' => Known(b)
      BY <1>5, <1>t, <1>r DEF RetireSpan, ClearSpan, FlushSpanBlocks, Used, Counted
    <2> QED BY <1>5, <2>1, <1>0, <1>t, <1>r DEF RetireSpan, ClearSpan,
          CarveLabels
  <1>6. ASSUME NEW t \in Threads, NEW b \in live, NoteFree(t, b) PROVE Fresh'
    <2>1. \A x \in Blocks : Known(x)' => Known(x)
      BY <1>6, <1>t, <1>r DEF NoteFree, Used, Counted
    <2> QED BY <1>6, <2>1, <1>0, <1>t, <1>r DEF NoteFree, AfterFree,
          CarveLabels
  <1>7. ASSUME NEW t \in Threads, FreeStep(t) PROVE Fresh'
    <2>1. \A b \in Blocks : Known(b)' => Known(b)
      BY <1>7, <1>t, <1>r DEF FreeStep, OpenBatch, FlushFreeBatch,
         CheckLatch, CheckPins, CheckCarved, Unlatch, Used, Counted
    <2> QED BY <1>7, <2>1, <1>0, <1>t, <1>r DEF FreeStep, OpenBatch,
          AfterFree, FlushFreeBatch, CheckLatch, CheckPins,
            CheckCarved, Unlatch, EndCheck, Return, CarveLabels
  <1>8. ASSUME NEW t \in Threads, PublishAndReturn(t) PROVE Fresh'
    <2>1. \A b \in Blocks : Known(b)' => Known(b)
      BY <1>8, <1>t, <1>r DEF PublishAndReturn, Used, Counted
    <2> QED BY <1>8, <2>1, <1>0, <1>t, <1>r DEF PublishAndReturn, CarveLabels
  <1>9. ASSUME NEW t \in Threads,
               Alloc(t) \/ Exit(t) \/ PinSpan(t) \/ CheckIntent(t) \/ ClearOwnBlockers(t), (\A kind \in Reqs : ~AllocHit(t, kind))
        PROVE Fresh'
    <2>1. UNCHANGED <<live, batch, hand, spanBlocks>>
      BY <1>9 DEF Alloc, AllocMiss, PublicCall, Exit, PinSpan, CheckIntent,
         ClearOwnBlockers
    <2> QED BY <1>9, <2>1, <1>0, <1>i, <1>t, <1>r DEF Alloc, AllocMiss,
          PublicCall, Exit, PinSpan, CheckIntent, BackOff, ClearOwnBlockers,
          CarveLabels
  <1>10. ASSUME NEW t \in Threads, LoadPublished(t) \/ UnpinSpan(t) \/ ClearPin(t)
         PROVE Fresh'
    <2>1. UNCHANGED <<live, batch, hand, spanBlocks>>
      BY <1>10 DEF LoadPublished, UnpinSpan, ClearPin
    <2>2. \A u \in Threads, x \in ChunkCells : InWindow(u, x)' => InWindow(u, x)
      BY <1>10, <1>t, <1>r, <1>b DEF LoadPublished, UnpinSpan, ClearPin,
         InWindow
    <2>3. \A u \in Threads, x \in ChunkCells : InCarving(u, x)' => InCarving(u, x)
      BY <1>10, <1>t, <1>r DEF LoadPublished, UnpinSpan, ClearPin, InCarving,
         Want, CarveLabels
    <2>4. \A x \in ChunkCells : Set(x)' => Set(x)
      BY <2>2, <2>3
    <2>5. \A x : Filled(x)' => Filled(x)
      BY <2>1, <1>i, <1>k
    <2> HIDE DEF Set, Filled, Known
    <2> QED BY <2>4, <2>5, <1>u
  <1>11. ASSUME NEW t \in Threads, LockedStep(t) \/ ScanStep(t), ~Bump(t),
                ~PublishAndReturn(t)
         PROVE Fresh'
    <2>1. UNCHANGED <<live, batch, hand, spanBlocks>>
      BY <1>11 DEF LockedStep, LockArena, NoteDirectCarve, RegisterChunks,
         PublishAfterFailure, LatchExhausted, Advance, Grow,
         ScanStep, MarkIntent, ReadPins, ReadCarved, ReadFreed, UnmarkIntent, Rewind,
         FinishRecycle
    <2> QED BY <1>11, <2>1, <1>0, <1>i, <1>t, <1>r DEF LockedStep, LockArena,
          NoteDirectCarve, RegisterChunks,
         PublishAfterFailure, LatchExhausted, Advance, Grow,
         ScanStep, MarkIntent, ReadPins, ReadCarved, ReadFreed, UnmarkIntent, Rewind,
         FinishRecycle, CarveLabels
  <1>12. CASE UNCHANGED vars
    BY <1>12, <1>0, <1>i
  <1> QED BY <1>1, <1>2, <1>3, <1>4, <1>5, <1>6, <1>7, <1>8, <1>9, <1>10,
        <1>11, <1>12
      DEF Next, Step, FastStep, ClearStep

\* No thread fills or counts into a chunk the scan has found without pins:
\* what is out of it is covered by its carved counter alone.
LEMMA ClaimedIsCounted ==
  ASSUME IInv, NEW t \in Threads, pc[t] \in ClaimLabels
  PROVE  /\ scan \in Chunks /\ recycleOn /\ Uncounted(scan) = {}
         /\ freed[scan] + Cardinality(Owed(scan)) <= carved[scan]
  <1>1. scan \in Chunks /\ recycleOn
    BY SMTT(30), ArenaAssumption DEF ArenaAssumption, IInv, ArenaInv, ClaimLabels,
       ScanLabels, TypeOK, Chunks
  <1>2. \A u \in Threads : pc[u] # "direct"
    BY DEF IInv, LockInv, LockedLabels, ClaimLabels
  <1>3. \A u \in Threads, b \in Blocks : b \in spanBlocks[u] => b[1] # scan
    BY DEF IInv, SpanInv, ClaimInv
  <1>4. Uncounted(scan) = {}
    BY <1>2, <1>3 DEF Uncounted
  <1>5. Cardinality(Uncounted(scan)) = 0
    BY <1>4, FS_EmptySet
  <1>6. freed[scan] + Cardinality(Owed(scan)) <= carved[scan] + Cardinality(Uncounted(scan))
    BY <1>1 DEF IInv, CountInv
  <1>7. carved[scan] \in Nat
    BY <1>1 DEF IInv, TypeOK
  <1> QED BY <1>1, <1>4, <1>5, <1>6, <1>7

\* The Dekker pair of arena_carve_shared and try_recycle: a chunk found without
\* pins stays without carvers while its intent is up, so the counters read after
\* that speak of all of its blocks.
LEMMA ClaimStep ==
  ASSUME IInv, TypeOK', [Next]_vars
  PROVE  ClaimInv'
  <1> USE DEF vars, dataVars, sharedVars, chunkVars, flagVars, arenaVars,
          tlsVars, spanVars, batchVars, callVars, checkVars, Goto
  <1>t. /\ pc \in [Threads -> Labels]
        /\ spanChunk \in [Threads -> Chunks \union {NoChunk}]
        /\ tgt \in [Threads -> Chunks]
        /\ ret \in [Threads -> {"idle", "clrspan", "openbatch"}]
        /\ intent \in [Chunks -> BOOLEAN]
        /\ carved \in [Chunks -> Nat] /\ freed \in [Chunks -> Nat]
        /\ Nobody \notin Threads
    BY ArenaAssumption DEF ArenaAssumption, IInv, TypeOK
  <1>m. \A t, u \in Threads :
          pc[t] \in LockedLabels /\ pc[u] \in LockedLabels => t = u
    BY DEF IInv, LockInv
  <1>l. \A t \in Threads : pc[t] \in LockedLabels => lock = t
    BY DEF IInv, LockInv
  <1>s. \A t \in Threads : pc[t] \in ClaimLabels => scan \in Chunks /\ intent[scan]
    <2>1. \A t \in Threads : pc[t] \in ClaimLabels => intent[scan]
      BY DEF IInv, ArenaInv, ClaimLabels, ScanLabels
    <2> QED BY <2>1, ClaimedIsCounted
  <1> DEFINE Away(c) == \A u \in Threads :
                          /\ spanChunk[u] # c
                          /\ pc[u] \in {"cas", "retire", "install"} => tgt[u] # c
  <1>h. \A t \in Threads : /\ pc[t] \in ClaimLabels => Away(scan)
                           /\ pc[t] = "readfreed" => seenCarved = carved[scan]
                           /\ pc[t] = "rewind" => Owed(scan) = {}
    BY DEF IInv, ClaimInv
  <1>g. SUFFICES ASSUME NEW w \in Threads, pc'[w] \in ClaimLabels
                 PROVE  /\ Away(scan)'
                        /\ pc'[w] = "readfreed" => seenCarved' = carved'[scan']
                        /\ pc'[w] = "rewind" => (Owed(scan) = {})'
    BY DEF ClaimInv, ClaimLabels
  <1> DEFINE Goal == /\ Away(scan)'
                     /\ pc'[w] = "readfreed" => seenCarved' = carved'[scan']
                     /\ pc'[w] = "rewind" => (Owed(scan) = {})'
  \* A step of a thread that does not hold the Mutex.
  <1>u. ASSUME pc'[w] = pc[w], UNCHANGED <<scan, seenCarved>>, Away(scan) => Away(scan)',
               Away(scan) /\ scan \in Chunks => carved'[scan] = carved[scan],
               Away(scan) => \A b \in Blocks : b[1] = scan /\ Used(b)' => Used(b)
        PROVE  Goal
    BY <1>u, <1>g, <1>h, <1>s DEF Owed
  <1>v. ASSUME pc'[w] = pc[w], UNCHANGED <<scan, seenCarved, spanChunk, tgt, carved, live, batch, hand>>,
               \A u \in Threads : pc'[u] \in {"cas", "retire", "install"} => pc[u] \in {"cas", "retire", "install"}
        PROVE  Goal
    BY <1>u, <1>v DEF Used
  <1>0. CASE UNCHANGED vars
    BY <1>0, <1>v
  <1>1. ASSUME NEW t \in Threads, NEW kind \in Reqs, AllocHit(t, kind) PROVE Goal
    <2>1. /\ pc'[w] = pc[w] /\ UNCHANGED <<scan, seenCarved, carved>> /\ (Away(scan) => Away(scan)')
      BY <1>1 DEF AllocHit
    <2>2. \A b \in Blocks : Used(b)' => Used(b) \/ b[1] = spanChunk[t]
      BY <1>1, BlockFacts DEF AllocHit, Used
    <2> QED BY <2>1, <2>2, <1>u
  <1>2. ASSUME NEW t \in Threads,
               Exit(t) \/ PublicCall(t) \/ \E kind \in Reqs : AllocMiss(t, kind)
        PROVE Goal
    BY <1>2, <1>v, <1>g, <1>t DEF Exit, PublicCall, AllocMiss, ClaimLabels
  <1>3. ASSUME NEW t \in Threads, LoadPublished(t) \/ PinSpan(t) \/ UnpinSpan(t) PROVE Goal
    <2>1. pc'[w] = pc[w]
      BY <1>3, <1>g, <1>t DEF LoadPublished, PinSpan, UnpinSpan, ClaimLabels
    <2>2. Away(scan) => Away(scan)'
      BY <1>3, <1>t DEF LoadPublished, PinSpan, UnpinSpan
    <2>3. UNCHANGED <<scan, seenCarved, carved, live, batch, hand>>
      BY <1>3 DEF LoadPublished, PinSpan, UnpinSpan
    <2> QED BY <2>1, <2>2, <2>3, <1>u DEF Used
  <1>4. ASSUME NEW t \in Threads, CheckIntent(t) PROVE Goal
    <2>1. pc'[w] = pc[w] /\ pc[w] \in ClaimLabels
      BY <1>4, <1>g, <1>t DEF CheckIntent, BackOff, ClaimLabels
    <2>2. Away(scan) => Away(scan)'
      BY <1>4, <2>1, <1>s, <1>t DEF CheckIntent, BackOff, RecyclerSeen
    <2> QED BY <1>4, <2>1, <2>2, <1>u DEF CheckIntent, Used
  <1>5. ASSUME NEW t \in Threads, CarveShared(t) PROVE Goal
    BY <1>5, <1>v, <1>g, <1>t DEF CarveShared, BackOff, ClaimLabels
  <1>6. ASSUME NEW t \in Threads, RetireSpan(t) \/ ClearSpan(t) PROVE Goal
    <2>1. pc'[w] = pc[w]
      BY <1>6, <1>g, <1>t DEF RetireSpan, ClearSpan, ClaimLabels
    <2>2. Away(scan) => Away(scan)'
      BY <1>6, <1>t DEF RetireSpan, ClearSpan
    <2>3. Away(scan) /\ scan \in Chunks => carved'[scan] = carved[scan]
      BY <1>6, <1>t DEF RetireSpan, ClearSpan, FlushSpanBlocks
    <2>4. UNCHANGED <<scan, seenCarved, live, batch, hand>>
      BY <1>6 DEF RetireSpan, ClearSpan
    <2> QED BY <2>1, <2>2, <2>3, <2>4, <1>u DEF Used
  <1>7. ASSUME NEW t \in Threads, InstallSpan(t) PROVE Goal
    <2>1. pc'[w] = pc[w]
      BY <1>7, <1>g, <1>t DEF InstallSpan, ClaimLabels
    <2>2. Away(scan) => Away(scan)'
      BY <1>7, <1>t DEF InstallSpan
    <2>3. \A b \in Blocks : Used(b)' => Used(b) \/ b[1] = tgt[t]
      BY <1>7, BlockFacts DEF InstallSpan, Used
    <2>4. Away(scan) => tgt[t] # scan
      BY <1>7 DEF InstallSpan
    <2>5. UNCHANGED <<scan, seenCarved, carved>>
      BY <1>7 DEF InstallSpan
    <2> QED BY <2>1, <2>2, <2>3, <2>4, <2>5, <1>u
  <1>8. ASSUME NEW t \in Threads, NEW b \in live, NoteFree(t, b) PROVE Goal
    <2>1. pc'[w] = pc[w]
      BY <1>8, <1>g, <1>t DEF NoteFree, AfterFree, ClaimLabels
    <2>2. Away(scan) => Away(scan)'
      BY <1>8, <1>t DEF NoteFree, AfterFree
    <2>3. \A x \in Blocks : Used(x)' => Used(x)
      BY <1>8 DEF NoteFree, Used, IInv, TypeOK
    <2> QED BY <1>8, <2>1, <2>2, <2>3, <1>u DEF NoteFree
  <1>9. ASSUME NEW t \in Threads, FreeStep(t) PROVE Goal
    <2>1. pc'[w] = pc[w]
      BY <1>9, <1>g, <1>t DEF FreeStep, OpenBatch, AfterFree, FlushFreeBatch,
         CheckLatch, CheckPins,
         CheckCarved, Unlatch, EndCheck, Return, ClaimLabels
    <2>2. Away(scan) => Away(scan)'
      BY <1>9, <1>t DEF FreeStep, OpenBatch, AfterFree, FlushFreeBatch,
         CheckLatch, CheckPins,
         CheckCarved, Unlatch, EndCheck, Return
    <2>3. \A x \in Blocks : Used(x)' => Used(x)
      BY <1>9 DEF FreeStep, OpenBatch, FlushFreeBatch, CheckLatch, CheckPins,
         CheckCarved, Unlatch, Used, IInv, TypeOK
    <2>4. UNCHANGED <<scan, seenCarved, carved>>
      BY <1>9 DEF FreeStep, OpenBatch, FlushFreeBatch, CheckLatch, CheckPins,
         CheckCarved, Unlatch
    <2> QED BY <2>1, <2>2, <2>3, <2>4, <1>u
  <1>10. ASSUME NEW t \in Threads, ClearOwnBlockers(t) PROVE Goal
    BY <1>10, <1>v, <1>g, <1>t DEF ClearOwnBlockers, ClaimLabels
  <1>11. ASSUME NEW t \in Threads, ClearPin(t) PROVE Goal
    <2>0. NoChunk \notin Chunks BY DEF NoChunk, Chunks
    <2>1. pc'[w] = pc[w] /\ pc[w] \in ClaimLabels
      BY <1>11, <1>g, <1>t DEF ClearPin, ClaimLabels
    <2>2. Away(scan) => Away(scan)'
      BY <1>11, <2>0, <2>1, <1>s, <1>t DEF ClearPin
    <2> QED BY <1>11, <2>1, <2>2, <1>u DEF ClearPin, Used
  \* A step of the thread that holds the Mutex, or takes it.
  <1>12. ASSUME NEW t \in Threads, LockArena(t) PROVE Goal
    <2>1. pc'[w] = pc[w] /\ pc[w] \in ClaimLabels
      BY <1>12, <1>g, <1>t DEF LockArena, ClaimLabels
    <2> QED BY <1>12, <2>1, <1>v, <1>t DEF LockArena
  <1>13. ASSUME NEW t \in Threads, LockedStep(t), ~LockArena(t) PROVE Goal
    <2>1. pc[t] \in LockedLabels /\ pc'[t] \notin ClaimLabels
      BY <1>13, <1>t DEF LockedStep, Bump, NoteDirectCarve, RegisterChunks,
         PublishAndReturn, PublishAfterFailure,
         LatchExhausted, Advance, Grow, LockedLabels, ClaimLabels
    <2>2. w # t /\ pc'[w] = pc[w]
      BY <1>13, <2>1, <1>g, <1>t DEF LockedStep, Bump, NoteDirectCarve,
         RegisterChunks, PublishAndReturn, PublishAfterFailure,
         LatchExhausted, Advance, Grow
    <2> QED BY <2>1, <2>2, <1>m, <1>g DEF ClaimLabels, LockedLabels
  <1>14. ASSUME NEW t \in Threads, ScanStep(t) PROVE Goal
    <2>1. pc[t] \in LockedLabels /\ (w # t => pc'[w] = pc[w])
      BY <1>14, <1>t DEF ScanStep, MarkIntent, ReadPins, ReadCarved,
         ReadFreed, UnmarkIntent, Rewind, FinishRecycle, LockedLabels
    <2>2. w = t
      BY <2>1, <1>m, <1>g DEF ClaimLabels, LockedLabels
    <2>3. CASE ReadPins(t)
      <3>1. pc[t] = "readpins" /\ ~Pinned(scan) /\ pc'[t] = "readcarved"
        BY <2>2, <2>3, <1>g, <1>t DEF ReadPins, ClaimLabels
      <3>2. scan \in Chunks
        BY <3>1, ArenaAssumption DEF ArenaAssumption, IInv, ArenaInv,
           ScanLabels, TypeOK, Chunks
      <3>3. Openers(scan) = {} /\ Carvers(scan) = {}
        <4>1. Cardinality(Openers(scan)) + Cardinality(Carvers(scan)) = 0
          BY <3>1, <3>2 DEF Pinned, IInv, PinInv
        <4>2. /\ IsFiniteSet(Openers(scan)) /\ Cardinality(Openers(scan)) \in Nat
              /\ IsFiniteSet(Carvers(scan)) /\ Cardinality(Carvers(scan)) \in Nat
          BY FS_Subset, FS_CardinalityType,
             ArenaAssumption DEF ArenaAssumption, Openers, Carvers
        <4> QED BY <4>1, <4>2, FS_EmptySet
      <3>4. Away(scan)
        BY <3>3 DEF Openers, Carvers, PinLabels
      <3> QED BY <3>1, <3>4, <2>2, <2>3, <1>t DEF ReadPins
    <2>4. CASE ReadCarved(t)
      <3>1. pc[t] = "readcarved" /\ pc'[t] = "readfreed"
        BY <2>4, <1>t DEF ReadCarved
      <3> QED BY <3>1, <2>2, <2>4, <1>h, <1>t DEF ReadCarved, ClaimLabels
    <2>5. CASE ReadFreed(t)
      <3>1. pc[t] = "readfreed" /\ pc'[t] = "rewind" /\ Quiescent(scan)
        BY <2>2, <2>5, <1>g, <1>t DEF ReadFreed, ClaimLabels
      <3>2. freed[scan] = carved[scan]
        BY <3>1, <1>h DEF Quiescent
      <3>3. scan \in Chunks /\ freed[scan] + Cardinality(Owed(scan)) <= carved[scan]
        BY <3>1, ClaimedIsCounted DEF ClaimLabels
      <3>4. Owed(scan) \in SUBSET Blocks
        BY DEF Owed
      <3>5. Owed(scan) = {}
        BY <3>2, <3>3, <3>4, BlockCount, FS_EmptySet, <1>t
      <3> QED BY <3>1, <3>5, <2>2, <2>5, <1>h, <1>t DEF ReadFreed,
            ClaimLabels, Owed, Used
    <2>6. CASE Rewind(t)
      <3>1. pc[t] = "rewind" /\ pc'[t] = "rewound"
        BY <2>6, <1>t DEF Rewind
      <3> QED BY <3>1, <2>2, <2>6, <1>h, <1>t DEF Rewind, ClaimLabels
    <2>7. CASE MarkIntent(t) \/ UnmarkIntent(t) \/ FinishRecycle(t)
      BY <2>2, <2>7, <1>g, <1>t DEF MarkIntent, UnmarkIntent, FinishRecycle,
         ClaimLabels
    <2> QED BY <1>14, <2>3, <2>4, <2>5, <2>6, <2>7 DEF ScanStep
  <1> QED BY <1>0, <1>1, <1>2, <1>3, <1>4, <1>5, <1>6, <1>7, <1>8, <1>9,
        <1>10, <1>11, <1>12, <1>13, <1>14
      DEF Next, Alloc, Step, FastStep, ClearStep

\* carved and the blocks still to be counted cover freed and the blocks in use:
\* a free is never counted before its allocation can be.
LEMMA CountStep ==
  ASSUME IInv, TypeOK', [Next]_vars
  PROVE  CountInv'
  <1> USE DEF vars, dataVars, sharedVars, chunkVars, flagVars, arenaVars,
          tlsVars, spanVars, batchVars, callVars, checkVars, Goto
  <1>t. /\ pc \in [Threads -> Labels]
        /\ carved \in [Chunks -> Nat] /\ freed \in [Chunks -> Nat]
        /\ spanBlocks \in [Threads -> SUBSET Blocks]
        /\ batch \in [Threads -> SUBSET Blocks] /\ hand \in [Threads -> SUBSET Blocks]
        /\ live \in SUBSET Blocks
        /\ ret \in [Threads -> {"idle", "clrspan", "openbatch"}]
        /\ len \in Nat
    BY DEF IInv, TypeOK
  <1>s. \A c : /\ Owed(c) \in SUBSET Blocks /\ Uncounted(c) \in SUBSET Blocks
               /\ Owed(c)' \in SUBSET Blocks /\ Uncounted(c)' \in SUBSET Blocks
    BY DEF Owed, Uncounted
  <1>n. \A c : /\ Cardinality(Owed(c)) \in Nat /\ Cardinality(Uncounted(c)) \in Nat
               /\ Cardinality(Owed(c)') \in Nat /\ Cardinality(Uncounted(c)') \in Nat
    BY <1>s, BlockCount
  <1> DEFINE On == recycleOn \/ len = 0
  <1>h. On => \A c \in Chunks :
          freed[c] + Cardinality(Owed(c)) <= carved[c] + Cardinality(Uncounted(c))
    BY DEF IInv, CountInv
  <1>on. On' => On
    <2>1. ASSUME NEW t \in Threads, LockArena(t) PROVE On' => On
      BY <2>1 DEF LockArena
    <2>2. ASSUME NEW t \in Threads, Grow(t) PROVE On' => On
      BY <2>2, <1>t DEF Grow
    <2>3. ASSUME UNCHANGED <<recycleOn, len>> PROVE On' => On
      BY <2>3
    <2>4. ASSUME NEW t \in Threads,
                 Alloc(t) \/ Exit(t) \/ FastStep(t) \/ FreeStep(t) \/ ClearStep(t)
          PROVE UNCHANGED <<recycleOn, len>>
      BY <2>4 DEF Alloc, AllocHit, AllocMiss, PublicCall, Exit, FastStep,
         LoadPublished, PinSpan,
       CheckIntent, UnpinSpan, CarveShared, RetireSpan, InstallSpan,
       FreeStep, OpenBatch, FlushFreeBatch, CheckLatch, CheckPins, CheckCarved, Unlatch,
       ClearStep, ClearOwnBlockers, ClearSpan, ClearPin
    <2>5. ASSUME NEW t \in Threads, LockedStep(t) \/ ScanStep(t), ~LockArena(t), ~Grow(t)
          PROVE UNCHANGED <<recycleOn, len>>
      BY <2>5 DEF LockedStep, Bump, NoteDirectCarve, RegisterChunks,
         PublishAndReturn, PublishAfterFailure, LatchExhausted, Advance,
       ScanStep, MarkIntent, ReadPins, ReadCarved, ReadFreed, UnmarkIntent, Rewind,
       FinishRecycle
    <2>6. ASSUME NEW t \in Threads, NEW b \in live, NoteFree(t, b)
          PROVE UNCHANGED <<recycleOn, len>>
      BY <2>6 DEF NoteFree
    <2> QED BY <2>1, <2>2, <2>3, <2>4, <2>5, <2>6 DEF Next, Step
  <1>g. SUFFICES ASSUME On, NEW c \in Chunks
                 PROVE  freed'[c] + Cardinality(Owed(c)') <= carved'[c] + Cardinality(Uncounted(c)')
    BY <1>on DEF CountInv
  <1> DEFINE Goal == freed'[c] + Cardinality(Owed(c)') <= carved'[c] + Cardinality(Uncounted(c)')
  <1>c. /\ freed[c] \in Nat /\ carved[c] \in Nat
        /\ freed[c] + Cardinality(Owed(c)) <= carved[c] + Cardinality(Uncounted(c))
    BY <1>t, <1>g, <1>h
  \* Nothing comes out of the chunk, and nothing is counted.
  <1>u. ASSUME UNCHANGED <<freed, carved>>, Owed(c)' \subseteq Owed(c), Uncounted(c) \subseteq Uncounted(c)'
        PROVE  Goal
    <2>1. Cardinality(Owed(c)') <= Cardinality(Owed(c)) /\ Cardinality(Uncounted(c)) <= Cardinality(Uncounted(c)')
      BY <1>u, <1>s, BlockSubset
    <2> QED BY <1>u, <1>c, <1>n, <2>1
  <1>v. ASSUME UNCHANGED <<freed, carved, live, batch, hand, spanBlocks>>,
               \A t \in Threads : pc[t] = "direct" => pc'[t] = "direct"
        PROVE  Goal
    <2>1. Owed(c)' = Owed(c) BY <1>v DEF Owed, Used
    <2>2. Uncounted(c) \subseteq Uncounted(c)' BY <1>v DEF Uncounted
    <2> QED BY <1>u, <1>v, <2>1, <2>2
  \* One block comes out of a chunk, and is still to be counted.
  <1>w. ASSUME UNCHANGED <<freed, carved>>, NEW n,
               n \in Blocks => n \notin Uncounted(c),
               Owed(c)' \subseteq Owed(c) \union {n}, n[1] # c => Owed(c)' \subseteq Owed(c),
               Uncounted(c) \subseteq Uncounted(c)',
               n \in Blocks /\ n[1] = c => n \in Uncounted(c)'
        PROVE  Goal
    <2>1. CASE n \in Blocks /\ n[1] = c
      <3>1. {n} \in SUBSET Blocks /\ Cardinality({n}) = 1
        BY <2>1, FS_Singleton
      <3>2. Owed(c) \union {n} \in SUBSET Blocks /\ Uncounted(c) \union {n} \in SUBSET Blocks
        BY <3>1, <1>s
      <3>3. Cardinality(Owed(c)') <= Cardinality(Owed(c) \union {n})
        BY <1>w, <3>2, BlockSubset
      <3>4. Cardinality(Owed(c) \union {n}) <= Cardinality(Owed(c)) + 1
        BY <3>1, <1>s, BlockUnion
      <3>5. Uncounted(c) \union {n} \subseteq Uncounted(c)' /\ Uncounted(c) \intersect {n} = {}
        BY <1>w, <2>1
      <3>6. Cardinality(Uncounted(c) \union {n}) = Cardinality(Uncounted(c)) + 1
        BY <3>1, <3>5, <1>s, BlockUnion
      <3>7. Cardinality(Uncounted(c) \union {n}) <= Cardinality(Uncounted(c)')
        BY <3>5, <1>s, BlockSubset
      <3>8. Cardinality(Owed(c) \union {n}) \in Nat /\ Cardinality(Uncounted(c) \union {n}) \in Nat
        BY <3>2, BlockCount
      <3> QED BY <1>w, <1>c, <1>n, <3>3, <3>4, <3>6, <3>7, <3>8
    <2>2. CASE ~(n \in Blocks /\ n[1] = c)
      <3>1. Owed(c)' \subseteq Owed(c)
        BY <1>w, <2>2, <1>s
      <3> QED BY <1>w, <1>u, <3>1
    <2> QED BY <2>1, <2>2
  <1>0. CASE UNCHANGED vars
    BY <1>0, <1>v
  <1>1. ASSUME NEW t \in Threads, NEW kind \in Reqs, AllocHit(t, kind) PROVE Goal
    <2> DEFINE n == Block(spanChunk[t], spanCur[t], Size[kind])
    <2>1. n \notin Uncounted(c)
      BY <1>1, HitBlock DEF Unused, Uncounted, Used, Counted
    <2>2. Owed(c)' \subseteq Owed(c) \union {n} /\ (n[1] # c => Owed(c)' \subseteq Owed(c))
      BY <1>1 DEF AllocHit, Owed, Used
    <2>3. Uncounted(c) \subseteq Uncounted(c)'
      BY <1>1, <1>t DEF AllocHit, Uncounted
    <2>4. n \in Blocks /\ n[1] = c => n \in Uncounted(c)'
      BY <1>1, <1>t DEF AllocHit, Uncounted
    <2>5. UNCHANGED <<freed, carved>>
      BY <1>1 DEF AllocHit
    <2> HIDE DEF n
    <2> QED BY <2>1, <2>2, <2>3, <2>4, <2>5, <1>w
  <1>2. ASSUME NEW t \in Threads, InstallSpan(t) PROVE Goal
    <2> DEFINE n == Block(tgt[t], lo[t], Size[req[t]])
    <2>0. spanBlocks[t] = {}
      BY <1>2 DEF InstallSpan, IInv, SpanInv
    <2>1. n \notin Uncounted(c)
      BY <1>2, CarveBlock DEF Unused, Uncounted, Used, Counted
    <2>2. Owed(c)' \subseteq Owed(c) \union {n} /\ (n[1] # c => Owed(c)' \subseteq Owed(c))
      BY <1>2 DEF InstallSpan, Owed, Used
    <2>3. Uncounted(c) \subseteq Uncounted(c)'
      BY <1>2, <2>0, <1>t DEF InstallSpan, Uncounted
    <2>4. n \in Blocks /\ n[1] = c => n \in Uncounted(c)'
      BY <1>2, <1>t DEF InstallSpan, Uncounted
    <2>5. UNCHANGED <<freed, carved>>
      BY <1>2 DEF InstallSpan
    <2> HIDE DEF n
    <2> QED BY <2>1, <2>2, <2>3, <2>4, <2>5, <1>w
  <1>3. ASSUME NEW t \in Threads, Bump(t) PROVE Goal
    <2> DEFINE n == Block(current, cursor[current], Size[req[t]])
    <2>2. CASE UNCHANGED dataVars
      BY <2>2, <1>3, <1>v, <1>t DEF Bump
    <2>3. CASE ~UNCHANGED dataVars
      <3>0. n \notin Uncounted(c)
        BY <1>3, <2>3, BumpBlock DEF Bump, Unused, Uncounted, Used, Counted
      <3>1. Owed(c)' \subseteq Owed(c) \union {n} /\ (n[1] # c => Owed(c)' \subseteq Owed(c))
        BY <1>3, <2>3, <1>t DEF Bump, Owed, Used
      <3>2. Uncounted(c) \subseteq Uncounted(c)'
        BY <1>3, <2>3, <1>t DEF Bump, Uncounted
      <3>3. n \in Blocks /\ n[1] = c => n \in Uncounted(c)'
        BY <1>3, <2>3, <1>t DEF Bump, Uncounted
      <3>4. UNCHANGED <<freed, carved>>
        BY <1>3 DEF Bump
      <3> HIDE DEF n
      <3> QED BY <3>0, <3>1, <3>2, <3>3, <3>4, <1>w
    <2> QED BY <2>2, <2>3
  \* Blocks are counted into carved.
  <1>4. ASSUME NEW t \in Threads, RetireSpan(t) \/ ClearSpan(t) PROVE Goal
    <2>1. Owed(c)' = Owed(c)
      BY <1>4 DEF RetireSpan, ClearSpan, Owed, Used
    <2>2. /\ freed' = freed
          /\ carved'[c] = carved[c] + IF c = spanChunk[t] THEN Cardinality(spanBlocks[t]) ELSE 0
      BY <1>4, <1>g DEF RetireSpan, ClearSpan, FlushSpanBlocks
    <2>3. spanBlocks[t] \in SUBSET Blocks /\ Cardinality(spanBlocks[t]) \in Nat
      BY <1>t, BlockCount
    <2>4. Uncounted(c) \subseteq Uncounted(c)' \union spanBlocks[t]
      BY <1>4, <1>t DEF RetireSpan, ClearSpan, FlushSpanBlocks, Uncounted
    <2>5. c # spanChunk[t] => Uncounted(c) \subseteq Uncounted(c)'
      BY <2>4 DEF IInv, SpanInv, Uncounted
    <2>6. CASE c # spanChunk[t]
      <3>1. Cardinality(Uncounted(c)) <= Cardinality(Uncounted(c)')
        BY <2>5, <2>6, <1>s, BlockSubset
      <3> QED BY <2>1, <2>2, <2>6, <3>1, <1>c, <1>n
    <2>7. CASE c = spanChunk[t]
      <3>1. Uncounted(c)' \union spanBlocks[t] \in SUBSET Blocks
        BY <2>3, <1>s
      <3>2. Cardinality(Uncounted(c)) <= Cardinality(Uncounted(c)' \union spanBlocks[t])
        BY <2>4, <3>1, BlockSubset
      <3>3. Cardinality(Uncounted(c)' \union spanBlocks[t]) <= Cardinality(Uncounted(c)') + Cardinality(spanBlocks[t])
        BY <2>3, <1>s, BlockUnion
      <3>4. Cardinality(Uncounted(c)' \union spanBlocks[t]) \in Nat
        BY <3>1, BlockCount
      <3> QED BY <2>1, <2>2, <2>3, <2>7, <3>2, <3>3, <3>4, <1>c, <1>n
    <2> QED BY <2>6, <2>7
  <1>5. ASSUME NEW t \in Threads, NoteDirectCarve(t) PROVE Goal
    <2>1. Owed(c)' = Owed(c)
      BY <1>5 DEF NoteDirectCarve, Owed, Used
    <2>2. recycleOn
      BY <1>5, <1>g DEF NoteDirectCarve, IInv, LockInv, LockedLabels
    <2>3. freed' = freed /\ carved'[c] = carved[c] + IF c = current THEN 1 ELSE 0
      BY <1>5, <2>2, <1>t, <1>g DEF NoteDirectCarve
    <2>4. Uncounted(c) \subseteq Uncounted(c)' \union hand[t]
      BY <1>5, <1>t DEF NoteDirectCarve, Uncounted
    <2>5. \A b, d \in hand[t] : b = d /\ b[1] = current
      BY <1>5 DEF NoteDirectCarve, IInv, DirectInv
    <2>6. hand[t] \in SUBSET Blocks
      BY <1>t
    <2>7. CASE c # current
      <3>1. Uncounted(c) \subseteq Uncounted(c)'
        BY <2>4, <2>5, <2>7 DEF Uncounted
      <3>2. Cardinality(Uncounted(c)) <= Cardinality(Uncounted(c)')
        BY <3>1, <1>s, BlockSubset
      <3> QED BY <2>1, <2>3, <2>7, <3>2, <1>c, <1>n
    <2>8. CASE c = current
      <3>1. Uncounted(c)' \union hand[t] \in SUBSET Blocks
        BY <2>6, <1>s
      <3>2. Cardinality(Uncounted(c)) <= Cardinality(Uncounted(c)' \union hand[t])
        BY <2>4, <3>1, BlockSubset
      <3>3. Cardinality(Uncounted(c)' \union hand[t]) <= Cardinality(Uncounted(c)') + Cardinality(hand[t])
        BY <2>6, <1>s, BlockUnion
      <3>4. Cardinality(hand[t]) \in Nat /\ Cardinality(hand[t]) <= 1
        <4>1. hand[t] = {} \/ \E b : hand[t] = {b}
          <5>1. SUFFICES ASSUME NEW b \in hand[t] PROVE hand[t] = {b}
            OBVIOUS
          <5>2. \A d \in hand[t] : d = b
            BY <2>5
          <5> QED BY <5>2
        <4>2. hand[t] = {} => Cardinality(hand[t]) = 0
          BY FS_EmptySet
        <4>3. (\E b : hand[t] = {b}) => Cardinality(hand[t]) = 1
          BY FS_Singleton
        <4> QED BY <4>1, <4>2, <4>3
      <3>5. Cardinality(Uncounted(c)' \union hand[t]) \in Nat
        BY <3>1, BlockCount
      <3> QED BY <2>1, <2>3, <2>8, <3>2, <3>3, <3>4, <3>5, <1>c, <1>n
    <2> QED BY <2>7, <2>8
  \* Blocks change hands, and are counted into freed.
  <1>6. ASSUME NEW t \in Threads, NEW b \in live, NoteFree(t, b) PROVE Goal
    <2>1. Owed(c)' \subseteq Owed(c)
      BY <1>6, <1>t DEF NoteFree, Owed, Used
    <2>2. Uncounted(c) \subseteq Uncounted(c)'
      BY <1>6, <1>t DEF NoteFree, AfterFree, Uncounted
    <2> QED BY <1>6, <2>1, <2>2, <1>u DEF NoteFree
  <1>7. ASSUME NEW t \in Threads, OpenBatch(t) \/ PublishAndReturn(t) PROVE Goal
    <2>1. Owed(c)' \subseteq Owed(c)
      BY <1>7, <1>t DEF OpenBatch, PublishAndReturn, Owed, Used
    <2>2. Uncounted(c) \subseteq Uncounted(c)'
      BY <1>7, <1>t DEF OpenBatch, AfterFree, PublishAndReturn, Uncounted
    <2> QED BY <1>7, <2>1, <2>2, <1>u DEF OpenBatch, PublishAndReturn
  <1>8. ASSUME NEW t \in Threads, FlushFreeBatch(t) PROVE Goal
    <2>1. CASE batch[t] = {}
      BY <1>8, <2>1, <1>v, <1>t DEF FlushFreeBatch, Return
    <2>2. CASE batch[t] # {}
      <3>1. Uncounted(c) \subseteq Uncounted(c)' /\ carved' = carved
        BY <1>8, <2>2, <1>t DEF FlushFreeBatch, Uncounted
      <3>2. Cardinality(Uncounted(c)) <= Cardinality(Uncounted(c)')
        BY <3>1, <1>s, BlockSubset
      <3>3. batch[t] \in SUBSET Blocks /\ Cardinality(batch[t]) \in Nat
        BY <1>t, BlockCount
      <3>4. batchBase[t] \in Chunks /\ \A b \in batch[t] : b[1] = batchBase[t]
        BY <2>2, <3>3, BlockFacts DEF IInv, BatchInv
      <3>5. freed'[c] = freed[c] + IF c = batchBase[t] THEN Cardinality(batch[t]) ELSE 0
        BY <1>8, <2>2, <1>t, <1>g DEF FlushFreeBatch
      <3>6. Owed(c)' \subseteq Owed(c)
        BY <1>8, <2>2, <1>t DEF FlushFreeBatch, Owed, Used
      <3>7. CASE c # batchBase[t]
        <4>1. Cardinality(Owed(c)') <= Cardinality(Owed(c))
          BY <3>6, <1>s, BlockSubset
        <4> QED BY <3>1, <3>2, <3>5, <3>7, <4>1, <1>c, <1>n
      <3>8. CASE c = batchBase[t]
        <4>1. \A b \in batch[t] : ~Used(b)'
          <5>1. \A b \in batch[t] : b \notin live /\ \A u \in Threads : b \notin hand[u] /\ (u # t => b \notin batch[u])
            BY <3>3 DEF IInv, HeldOnce
          <5> QED BY <5>1, <1>8, <2>2, <1>t DEF FlushFreeBatch, Used
        <4>2. batch[t] \subseteq Owed(c)
          BY <3>3, <3>4, <3>8 DEF Owed, Used
        <4>3. Owed(c)' \intersect batch[t] = {} /\ Owed(c)' \union batch[t] \subseteq Owed(c)
          BY <4>1, <4>2, <3>6 DEF Owed
        <4>4. Cardinality(Owed(c)' \union batch[t]) = Cardinality(Owed(c)') + Cardinality(batch[t])
          BY <4>3, <3>3, <1>s, BlockUnion
        <4>5. Cardinality(Owed(c)' \union batch[t]) <= Cardinality(Owed(c))
          BY <4>3, <1>s, BlockSubset
        <4>6. Cardinality(Owed(c)') + Cardinality(batch[t]) <= Cardinality(Owed(c))
          BY <4>4, <4>5
        <4>7. freed'[c] = freed[c] + Cardinality(batch[t]) /\ carved'[c] = carved[c]
          BY <3>1, <3>5, <3>8
        <4> QED BY <3>2, <3>3, <4>6, <4>7, <1>c, <1>n
      <3> QED BY <3>7, <3>8
    <2> QED BY <2>1, <2>2
  <1>9. ASSUME NEW t \in Threads, Alloc(t) \/ FastStep(t) \/ ClearStep(t) \/ Exit(t),
               (\A kind \in Reqs : ~AllocHit(t, kind)), ~InstallSpan(t), ~RetireSpan(t), ~ClearSpan(t)
        PROVE Goal
    BY <1>9, <1>v, <1>t DEF Alloc, AllocMiss, PublicCall, FastStep,
       LoadPublished, PinSpan,
       CheckIntent, UnpinSpan, CarveShared, ClearStep, ClearOwnBlockers, ClearPin, Exit
  <1>10. ASSUME NEW t \in Threads, FreeStep(t), ~OpenBatch(t), ~FlushFreeBatch(t) PROVE Goal
    BY <1>10, <1>v, <1>t DEF FreeStep, CheckLatch, CheckPins, CheckCarved,
       Unlatch, EndCheck, Return
  <1>11. ASSUME NEW t \in Threads, LockedStep(t) \/ ScanStep(t), ~Bump(t),
                ~NoteDirectCarve(t), ~PublishAndReturn(t)
         PROVE Goal
    BY <1>11, <1>v, <1>t DEF LockedStep, LockArena, RegisterChunks,
       PublishAfterFailure, LatchExhausted, Advance, Grow,
       ScanStep, MarkIntent, ReadPins, ReadCarved, ReadFreed, UnmarkIntent, Rewind,
       FinishRecycle
  <1> QED BY <1>0, <1>1, <1>2, <1>3, <1>4, <1>5, <1>6, <1>7, <1>8, <1>9,
        <1>10, <1>11
      DEF Next, Step, FastStep, ClearStep

-----------------------------------------------------------------------------
(* The invariant, and what follows from it.                                 *)

\* The initial state: no pin, no window, nothing carved or freed.
LEMMA InitIInv == Init => IInv
  <1> SUFFICES ASSUME Init PROVE IInv
    OBVIOUS
  <1> USE DEF Init
  <1>1. TypeOK
    BY InitTypeOK
  <1>2. LockInv /\ ArenaInv /\ DirectInv
    BY DEF LockInv, ArenaInv, DirectInv, LockedLabels, ScanLabels
  <1>3. PinInv
    <2> SUFFICES ASSUME NEW c \in Chunks
                 PROVE  spans[c] = Cardinality(Openers(c)) + Cardinality(Carvers(c))
      BY DEF PinInv
    <2>1. Openers(c) = {} /\ Carvers(c) = {}
      BY DEF Openers, Carvers, PinLabels, Chunks, NoChunk
    <2> QED BY <2>1, FS_EmptySet
  <1>4. SpanInv /\ BatchInv /\ HeldOnce
    BY DEF SpanInv, BatchInv, HeldOnce, CarveLabels
  <1>5. /\ \A b \in Blocks : ~Used(b) /\ ~Counted(b)
        /\ \A x \in ChunkCells : \A t \in Threads : ~InWindow(t, x) /\ ~InCarving(t, x)
    <2>1. \A x \in ChunkCells : x[1] # NoChunk
      BY CellFacts DEF Chunks, NoChunk
    <2> QED BY <2>1 DEF Used, Counted, InWindow, InCarving, CarveLabels
  <1>6. ReservedOnce /\ Fresh /\ BelowCursor /\ Disjoint
    BY <1>5 DEF ReservedOnce, Fresh, BelowCursor, Disjoint
  <1>7. CountInv
    <2> SUFFICES ASSUME NEW c \in Chunks
                 PROVE  freed[c] + Cardinality(Owed(c)) <= carved[c] + Cardinality(Uncounted(c))
      BY DEF CountInv
    <2>1. Owed(c) = {} /\ Uncounted(c) = {}
      BY DEF Owed, Uncounted, Used
    <2> QED BY <2>1, FS_EmptySet
  <1>8. ClaimInv
    BY DEF ClaimInv, ClaimLabels
  <1> QED BY <1>1, <1>2, <1>3, <1>4, <1>6, <1>7, <1>8 DEF IInv

\* Every step keeps the whole invariant.
LEMMA NextIInv == IInv /\ [Next]_vars => IInv'
  <1> SUFFICES ASSUME IInv, [Next]_vars PROVE IInv'
    OBVIOUS
  <1>1. PinInv' /\ \A c \in Chunks : spans'[c] \in Nat
    BY PinStep
  <1>2. TypeOK'
    BY <1>1, TypeStep
  <1> QED
    BY <1>1, <1>2, LockStep, ArenaStep, DirectStep, SpanStep, BatchStep,
       HeldStep, DisjointStep,
       ReservedStep, BelowStep, FreshStep, ClaimStep, CountStep
    DEF IInv

\* The intervals of Reserved are the roles the invariant speaks of.
LEMMA ReservedRoles ==
  ASSUME IInv, NEW t \in Threads
  PROVE  /\ \A x \in Window(t) : x \in ChunkCells /\ InWindow(t, x)
         /\ \A x \in Carving(t) : x \in ChunkCells /\ InCarving(t, x)
         /\ \A x \in Direct(t) : /\ x \in ChunkCells /\ pc[t] \in LockedLabels
                                 /\ \E b \in hand[t] : b \in Blocks /\ Covers(b, x)
  <1>t. /\ Cap \in Nat /\ Want(t) \in Nat \ {0}
        /\ cursor \in [Chunks -> 0 .. Cap]
        /\ spanChunk[t] \in Chunks \union {NoChunk}
        /\ spanCur[t] \in Nat /\ spanEnd[t] \in 0 .. Cap
        /\ tgt[t] \in Chunks /\ lo[t] \in 0 .. Cap
        /\ hand[t] \in SUBSET Blocks
    BY TypeFacts DEF IInv, TypeOK
  <1>1. ASSUME NEW x \in Window(t) PROVE x \in ChunkCells /\ InWindow(t, x)
    <2>1. PICK n \in spanCur[t] .. spanEnd[t] - 1 : x = <<spanChunk[t], n>>
      BY <1>1 DEF Window
    <2>2. n \in Cells /\ spanCur[t] <= n /\ n < spanEnd[t]
      BY <1>t DEF Cells
    <2>3. spanChunk[t] \in Chunks
      BY <2>2, <1>t DEF IInv, SpanInv
    <2> QED BY <2>1, <2>2, <2>3 DEF ChunkCells, InWindow
  <1>2. ASSUME NEW x \in Carving(t) PROVE x \in ChunkCells /\ InCarving(t, x)
    <2>0. pc[t] \in CarveLabels
      BY <1>2 DEF Carving, CarveLabels
    <2>1. PICK n \in lo[t] .. lo[t] + Want(t) - 1 : x = <<tgt[t], n>>
      BY <1>2, <2>0 DEF Carving, CarveLabels
    <2>2. lo[t] + Want(t) <= Cap
      BY <2>0, <1>t DEF IInv, SpanInv
    <2>3. n \in Cells /\ lo[t] <= n /\ n < lo[t] + Want(t)
      BY <2>2, <1>t DEF Cells
    <2> QED BY <2>0, <2>1, <2>3, <1>t DEF ChunkCells, InCarving
  <1>3. ASSUME NEW x \in Direct(t)
        PROVE  /\ x \in ChunkCells /\ pc[t] \in LockedLabels
               /\ \E b \in hand[t] : b \in Blocks /\ Covers(b, x)
    <2>1. pc[t] \in LockedLabels
      BY <1>3 DEF Direct, LockedLabels
    <2>2. PICK b \in hand[t] : x \in CellsOf(b)
      BY <1>3 DEF Direct
    <2> QED BY <2>1, <2>2, <1>t, CellFacts
  <1> QED BY <1>1, <1>2, <1>3

\* A cell of a block the program holds.
LEMMA LiveRoles ==
  ASSUME IInv, NEW x \in LiveCells
  PROVE  x \in ChunkCells /\ \E b \in live : b \in Blocks /\ Covers(b, x)
  <1>1. PICK b \in live : x \in CellsOf(b)
    BY DEF LiveCells
  <1>2. b \in Blocks
    BY DEF IInv, TypeOK
  <1> QED BY <1>1, <1>2, CellFacts

\* A cell set aside by a thread is served by no one else.
LEMMA ServedOnce == IInv => NoDoubleService
  <1> SUFFICES ASSUME IInv PROVE NoDoubleService
    OBVIOUS
  <1>m. \A t, u \in Threads :
          pc[t] \in LockedLabels /\ pc[u] \in LockedLabels => t = u
    BY DEF IInv, LockInv
  <1>f. \A x \in ChunkCells : \A t \in Threads :
          InWindow(t, x) \/ InCarving(t, x) =>
            \A b \in Blocks : Covers(b, x) => ~Used(b)
    BY DEF IInv, Fresh
  <1>0. ASSUME NEW b \in live, NEW d \in live, b # d
        PROVE  CellsOf(b) \intersect CellsOf(d) = {}
    <2>1. b \in Blocks /\ d \in Blocks /\ Used(b) /\ Used(d)
      BY DEF IInv, TypeOK, Used
    <2> QED BY <1>0, <2>1, CellFacts DEF IInv, Disjoint
  <1>1. ASSUME NEW t \in Threads PROVE Reserved(t) \intersect LiveCells = {}
    <2> SUFFICES ASSUME NEW x \in Reserved(t), x \in LiveCells PROVE FALSE
      OBVIOUS
    <2>1. PICK b \in live : b \in Blocks /\ Covers(b, x) /\ x \in ChunkCells
      BY LiveRoles
    <2>2. CASE x \in Window(t) \union Carving(t)
      BY <2>1, <2>2, <1>f, ReservedRoles DEF Used
    <2>3. CASE x \in Direct(t)
      <3>1. PICK d \in hand[t] : d \in Blocks /\ Covers(d, x)
        BY <2>3, ReservedRoles
      <3>2. d = b
        BY <2>1, <3>1 DEF IInv, Disjoint, Used
      <3> QED BY <2>1, <3>1, <3>2 DEF IInv, HeldOnce
    <2> QED BY <2>2, <2>3 DEF Reserved
  <1>2. ASSUME NEW t \in Threads PROVE Window(t) \intersect Carving(t) = {}
    BY ReservedRoles DEF IInv, ReservedOnce
  <1>3. ASSUME NEW t \in Threads, NEW u \in Threads, t # u
        PROVE  Reserved(t) \intersect Reserved(u) = {}
    <2> SUFFICES ASSUME NEW x, x \in Reserved(t), x \in Reserved(u) PROVE FALSE
      OBVIOUS
    <2>0. ASSUME NEW w \in Threads, x \in Direct(w)
          PROVE  \A v \in Threads : ~InWindow(v, x) /\ ~InCarving(v, x)
      <3>1. PICK b \in hand[w] : b \in Blocks /\ Covers(b, x) /\ x \in ChunkCells
        BY <2>0, ReservedRoles
      <3> QED BY <3>1, <1>f DEF Used
    <2>1. CASE x \in Direct(t) \/ x \in Direct(u)
      <3>1. x \in Direct(t) /\ x \in Direct(u)
        BY <2>0, <2>1, ReservedRoles DEF Reserved
      <3> QED BY <3>1, <1>3, <1>m, ReservedRoles
    <2>2. CASE x \in Window(t) \union Carving(t) /\ x \in Window(u) \union Carving(u)
      BY <2>2, <1>3, ReservedRoles DEF IInv, ReservedOnce
    <2> QED BY <2>1, <2>2 DEF Reserved
  <1>4. ASSUME NEW x \in LiveCells \union AllReserved PROVE x[2] < cursor[x[1]]
    <2>0. \A b \in Blocks : Used(b) /\ Covers(b, x) /\ x \in ChunkCells => x[2] < cursor[x[1]]
      <3>1. \A b \in Blocks : Used(b) => b[3] <= cursor[b[1]]
        BY DEF IInv, BelowCursor
      <3> QED BY <3>1, TypeFacts, BlockFacts, CellFacts DEF Covers
    <2>1. CASE x \in LiveCells
      BY <2>0, <2>1, LiveRoles DEF Used
    <2>2. ASSUME NEW t \in Threads, x \in Reserved(t) PROVE x[2] < cursor[x[1]]
      <3>1. CASE x \in Direct(t)
        BY <2>0, <3>1, ReservedRoles DEF Used
      <3>2. CASE x \in Window(t)
        <4>1. x \in ChunkCells /\ x[1] = spanChunk[t] /\ x[2] < spanEnd[t]
          BY <3>2, ReservedRoles DEF InWindow
        <4>2. x[1] \in Chunks /\ x[2] \in Nat
          BY <4>1, CellFacts
        <4>3. spanEnd[t] <= cursor[x[1]]
          BY <4>1, <4>2 DEF IInv, SpanInv, Chunks, NoChunk
        <4>4. spanEnd[t] \in Nat /\ cursor[x[1]] \in Nat
          BY <4>2, TypeFacts
        <4> QED BY <4>1, <4>2, <4>3, <4>4
      <3>3. CASE x \in Carving(t)
        <4>1. /\ x \in ChunkCells /\ pc[t] \in CarveLabels /\ x[1] = tgt[t]
              /\ x[2] < lo[t] + Want(t)
          BY <3>3, ReservedRoles DEF InCarving
        <4>2. x[1] \in Chunks /\ x[2] \in Nat
          BY <4>1, CellFacts
        <4>3. lo[t] + Want(t) <= cursor[x[1]]
          BY <4>1 DEF IInv, SpanInv
        <4>4. lo[t] + Want(t) \in Nat /\ cursor[x[1]] \in Nat
          BY <4>2, TypeFacts
        <4> QED BY <4>1, <4>2, <4>3, <4>4
      <3> QED BY <2>2, <3>1, <3>2, <3>3 DEF Reserved
    <2> QED BY <2>1, <2>2 DEF AllReserved
  <1> QED BY <1>0, <1>1, <1>2, <1>3, <1>4 DEF NoDoubleService

\* At the scan's last load, freed is covered by the carved it has read.
LEMMA FreedCovered == IInv => FreedWithinCarved
  <1> SUFFICES ASSUME IInv, NEW t \in Threads, pc[t] = "readfreed"
               PROVE  freed[scan] <= seenCarved
    BY DEF FreedWithinCarved
  <1>1. scan \in Chunks /\ freed[scan] + Cardinality(Owed(scan)) <= carved[scan]
    BY ClaimedIsCounted DEF ClaimLabels
  <1>2. seenCarved = carved[scan]
    BY DEF IInv, ClaimInv
  <1>3. Cardinality(Owed(scan)) \in Nat
    BY BlockCount DEF Owed
  <1>4. freed[scan] \in Nat /\ carved[scan] \in Nat
    BY <1>1 DEF IInv, TypeOK
  <1> QED BY <1>1, <1>2, <1>3, <1>4

\* Only Rewind takes a cursor back, and it finds its chunk unused.
LEMMA RewindStep ==
  ASSUME IInv, [Next]_vars, NEW c \in Chunks, cursor'[c] < cursor[c],
         NEW x \in LiveCells \union AllReserved
  PROVE  x[1] # c
  <1>t. /\ cursor \in [Chunks -> Nat] /\ tgt \in [Threads -> Chunks]
        /\ \A u \in Threads : Want(u) \in Nat /\ Size[req[u]] \in Nat
    BY TypeFacts DEF IInv, TypeOK
  <1> USE DEF vars, dataVars, sharedVars, chunkVars, Goto
  <1>1. PICK t \in Threads : Rewind(t)
    <2>1. cursor' # cursor
      BY <1>t
    <2>2. ASSUME NEW t \in Threads, Alloc(t) \/ FreeStep(t) \/ ClearStep(t) \/ Exit(t)
          PROVE FALSE
      BY <2>1, <2>2 DEF Alloc, AllocHit, AllocMiss, PublicCall, FreeStep,
         OpenBatch, FlushFreeBatch, CheckLatch,
         CheckPins, CheckCarved, checkVars, Unlatch, ClearStep, ClearOwnBlockers,
         ClearSpan, ClearPin, Exit
    <2>3. ASSUME NEW t \in Threads, FastStep(t) PROVE FALSE
      BY <2>1, <2>3, <1>t DEF FastStep, LoadPublished, PinSpan, CheckIntent,
         UnpinSpan, CarveShared, RetireSpan, InstallSpan
    <2>4. ASSUME NEW t \in Threads, LockedStep(t) PROVE FALSE
      BY <2>1, <2>4, <1>t DEF LockedStep, LockArena, Bump, CursorBumped,
         NoteDirectCarve, RegisterChunks, PublishAndReturn,
         PublishAfterFailure, LatchExhausted, Advance, Grow
    <2>5. ASSUME NEW t \in Threads, ScanStep(t), ~Rewind(t) PROVE FALSE
      BY <2>1, <2>5 DEF ScanStep, MarkIntent, ReadPins, ReadCarved,
         ReadFreed, UnmarkIntent, FinishRecycle
    <2>6. ASSUME NEW t \in Threads, NEW b \in live, NoteFree(t, b) PROVE FALSE
      BY <2>1, <2>6 DEF NoteFree
    <2> QED BY <2>1, <2>2, <2>3, <2>4, <2>5, <2>6 DEF Next, Step
  <1>2. c = scan /\ pc[t] = "rewind"
    BY <1>1, <1>t DEF Rewind
  <1>o. \A b \in Blocks : Used(b) => b[1] # c
    BY <1>2 DEF IInv, ClaimInv, Owed
  <1>3. CASE x \in LiveCells
    BY <1>3, <1>o, LiveRoles DEF Covers, Used
  <1>4. ASSUME NEW u \in Threads, x \in Reserved(u) PROVE x[1] # c
    <2>1. CASE x \in Window(u)
      BY <2>1, <1>2, ReservedRoles DEF InWindow, IInv, ClaimInv, ClaimLabels
    <2>2. CASE x \in Carving(u)
      BY <2>2, <1>2, ReservedRoles DEF InCarving, CarveLabels, IInv,
         ClaimInv, ClaimLabels
    <2>3. CASE x \in Direct(u)
      BY <2>3, <1>o, ReservedRoles DEF Covers, Used
    <2> QED BY <1>4, <2>1, <2>2, <2>3 DEF Reserved
  <1> QED BY <1>3, <1>4 DEF AllReserved

-----------------------------------------------------------------------------
(* The theorems.                                                            *)

\* The invariant holds in every reachable state of the arena, whatever the
\* number of threads, chunks and cells.
THEOREM Inductive == Spec => []IInv
  BY InitIInv, NextIInv, PTL DEF Spec

\* Every reachable state is typed: in particular spans never goes below zero and
\* cursor never passes the end of its chunk.
THEOREM TypeCorrect == Spec => []TypeOK
  <1>1. IInv => TypeOK
    BY DEF IInv
  <1> QED BY <1>1, Inductive, PTL

\* Span windows, shared carves and bumps under the Mutex never hand the same
\* cell to two callers, across any number of rewinds.
THEOREM NoBlockServedTwice == Spec => []NoDoubleService
  BY ServedOnce, Inductive, PTL

\* try_recycle rewinds a chunk only when the program holds none of its blocks
\* and no thread, running or dead, has a cell of it set aside.
THEOREM RewindsAreSafe == Spec => RewindIsSafe
  <1>1. IInv /\ [Next]_vars =>
          [\A c \in Chunks : cursor'[c] < cursor[c] =>
             \A x \in LiveCells \union AllReserved : x[1] # c]_vars
    BY RewindStep
  <1> QED BY <1>1, Inductive, PTL DEF Spec, RewindIsSafe

\* The comment of try_recycle on freed > carved: in a chunk found without pins
\* the freed it reads is never ahead of the carved it has read before, although
\* frees keep arriving.
THEOREM ScanNeverOverfreed == Spec => []FreedWithinCarved
  BY FreedCovered, Inductive, PTL

-----------------------------------------------------------------------------
(* The block in hand.                                                       *)

\* A call has one block in hand at most, from the moment it is cut or given back
\* until it is published or batched.
LEMMA HandStep ==
  ASSUME TypeOK, HandInv, [Next]_vars
  PROVE  HandInv'
  <1> USE DEF vars, dataVars, sharedVars, chunkVars, flagVars, arenaVars,
          tlsVars, spanVars, batchVars, callVars, checkVars, Goto, HandInv,
          FlushedLabels
  <1>t. /\ pc \in [Threads -> Labels]
        /\ ret \in [Threads -> {"idle", "clrspan", "openbatch"}]
        /\ batch \in [Threads -> SUBSET Blocks] /\ hand \in [Threads -> SUBSET Blocks]
    BY DEF TypeOK
  <1>0. CASE UNCHANGED vars
    BY <1>0
  <1>1. ASSUME NEW t \in Threads, Alloc(t) \/ FastStep(t) \/ Exit(t) PROVE HandInv'
    BY <1>1, <1>t DEF Alloc, AllocHit, AllocMiss, PublicCall, FastStep,
       LoadPublished, PinSpan, CheckIntent, BackOff, UnpinSpan, CarveShared,
       RetireSpan, InstallSpan, Exit
  <1>2. ASSUME NEW t \in Threads, ClearStep(t) PROVE HandInv'
    BY <1>2, <1>t DEF ClearStep, ClearOwnBlockers, ClearSpan, ClearPin
  <1>3. ASSUME NEW t \in Threads, FreeStep(t) PROVE HandInv'
    <2>1. CASE OpenBatch(t)
      BY <2>1, <1>t DEF OpenBatch, AfterFree
    <2>2. CASE FlushFreeBatch(t)
      BY <2>2, <1>t DEF FlushFreeBatch, Return
    <2>3. CASE CheckLatch(t) \/ CheckPins(t) \/ CheckCarved(t) \/ Unlatch(t)
      BY <2>3, <1>t DEF CheckLatch, CheckPins, CheckCarved, Unlatch, EndCheck, Return
    <2> QED BY <1>3, <2>1, <2>2, <2>3 DEF FreeStep
  <1>4. ASSUME NEW t \in Threads, NEW b \in live, NoteFree(t, b) PROVE HandInv'
    BY <1>4, <1>t DEF NoteFree, AfterFree
  <1>5. ASSUME NEW t \in Threads, LockedStep(t) PROVE HandInv'
    <2>1. CASE Bump(t)
      BY <2>1, <1>t DEF Bump
    <2>2. CASE ~Bump(t)
      BY <1>5, <2>2, <1>t DEF LockedStep, LockArena, NoteDirectCarve,
         RegisterChunks, PublishAndReturn, PublishAfterFailure, LatchExhausted,
         Advance, Grow
    <2> QED BY <2>1, <2>2
  <1>6. ASSUME NEW t \in Threads, ScanStep(t) PROVE HandInv'
    BY <1>6, <1>t DEF ScanStep, MarkIntent, ReadPins, ReadCarved, ReadFreed,
       UnmarkIntent, Rewind, FinishRecycle
  <1> QED BY <1>0, <1>1, <1>2, <1>3, <1>4, <1>5, <1>6 DEF Next, Step

-----------------------------------------------------------------------------
(* The promise of a region arena.                                           *)

\* What NoDoubleService says holds after the step too.
LEMMA ServedOnceAfter == IInv' => NoDoubleService'
  BY ServedOnce, PTL

\* A block cut from cells set aside is one the region arena may serve.
LEMMA ServeStep ==
  ASSUME IInv, IInv', NEW b \in Blocks, live' = live \union {b}, cursor' = cursor,
         AllReserved' \subseteq AllReserved, CellsOf(b) \subseteq AllReserved
  PROVE  Abstract!Serve(b)
  <1>1. CellsOf(b) \intersect Spent = {} /\ Spent \subseteq Spent'
    BY DEF Spent
  <1>2. ASSUME NEW x \in CellsOf(b) PROVE x \in Spent'
    <2>1. x \in LiveCells'
      BY <1>2 DEF LiveCells
    <2>2. x \notin AllReserved' /\ x[2] < cursor'[x[1]]
      BY <2>1, ServedOnceAfter DEF NoDoubleService, AllReserved
    <2>3. x \in Chunks \X Cells
      BY CellFacts DEF ChunkCells
    <2> QED BY <2>2, <2>3 DEF Spent
  <1> QED BY <1>1, <1>2 DEF Abstract!Serve

\* A step that leaves the blocks and the cursors alone, and sets nothing aside, is
\* a stutter of the region arena or gives cells up.
LEMMA AbandonStep ==
  ASSUME live' = live, cursor' = cursor, AllReserved' \subseteq AllReserved
  PROVE  Abstract!Abandon
  BY DEF Spent, Abstract!Abandon

\* A step that sets aside cells above a cursor and moves the cursor past them.
LEMMA TakeStep ==
  ASSUME IInv, IInv', live' = live,
         \A c \in Chunks : cursor[c] <= cursor'[c],
         \A x \in AllReserved' :
            x \in AllReserved \/ (x \in ChunkCells /\ cursor[x[1]] <= x[2])
  PROVE  Abstract!Abandon
  <1>1. ASSUME NEW x \in Spent PROVE x \in Spent'
    <2>1. x \in ChunkCells /\ x[2] < cursor[x[1]] /\ x \notin AllReserved
      BY DEF Spent, ChunkCells
    <2>2. x[1] \in Chunks /\ x[2] \in Nat /\ cursor[x[1]] \in Nat /\ cursor'[x[1]] \in 0 .. Cap
      BY <2>1, CellFacts, TypeFacts DEF IInv, TypeOK
    <2>3. x[2] < cursor'[x[1]] /\ x \notin AllReserved'
      BY <2>1, <2>2
    <2> QED BY <2>1, <2>3 DEF Spent, ChunkCells
  <1> QED BY <1>1 DEF Abstract!Abandon

\* The roles of the invariant are the intervals of Reserved.
LEMMA WindowCells ==
  ASSUME IInv, NEW t \in Threads, NEW x \in ChunkCells
  PROVE  /\ InWindow(t, x) => x \in Window(t)
         /\ InCarving(t, x) => x \in Carving(t)
  <1>1. x = <<x[1], x[2]>> /\ x[2] \in Nat
    BY CellFacts DEF ChunkCells
  <1>2. spanCur[t] \in Nat /\ spanEnd[t] \in Nat /\ lo[t] \in Nat /\ Want(t) \in Nat
    BY TypeFacts
  <1>3. InWindow(t, x) => x[2] \in spanCur[t] .. spanEnd[t] - 1
    BY <1>1, <1>2 DEF InWindow
  <1>4. InCarving(t, x) => x[2] \in lo[t] .. lo[t] + Want(t) - 1
    BY <1>1, <1>2 DEF InCarving
  <1> QED BY <1>1, <1>3, <1>4 DEF InWindow, InCarving, Window, Carving, CarveLabels

\* The intervals, as roles, in one state and after a step.
RolesAgree ==
  \A t \in Threads :
    /\ \A x \in Window(t) : x \in ChunkCells /\ InWindow(t, x)
    /\ \A x \in Carving(t) : x \in ChunkCells /\ InCarving(t, x)

\* The invariant makes them agree.
LEMMA RolesAgreeNow == IInv => RolesAgree
  BY ReservedRoles DEF RolesAgree

\* ... after a step as well.
LEMMA RolesAgreeAfter == IInv' => RolesAgree'
  BY RolesAgreeNow, PTL

\* What a thread sets aside depends on its own state only.
LEMMA OthersKeep ==
  ASSUME TypeOK, NEW t \in Threads,
         \A u \in Threads \ {t} :
           /\ UNCHANGED <<spanChunk[u], spanCur[u], spanEnd[u], tgt[u], lo[u], req[u], hand[u]>>
           /\ pc'[u] = pc[u],
         Reserved(t)' \subseteq Reserved(t)
  PROVE  AllReserved' \subseteq AllReserved
  <1>1. ASSUME NEW u \in Threads, u # t PROVE Reserved(u)' = Reserved(u)
    <2>1. Window(u)' = Window(u)
      BY <1>1 DEF Window
    <2>2. Carving(u)' = Carving(u)
      BY <1>1 DEF Carving, Want
    <2>3. Direct(u)' = Direct(u)
      BY <1>1 DEF Direct
    <2> QED BY <2>1, <2>2, <2>3 DEF Reserved
  <1> QED BY <1>1 DEF AllReserved

\* Every step of the recycling arena is a step of the region arena, or a stutter.
LEMMA AbstractStep ==
  ASSUME IInv, IInv', HandInv, HandInv', [Next]_vars
  PROVE  [Abstract!Next]_<<live, Spent>>
  <1> USE DEF vars, dataVars, sharedVars, chunkVars, flagVars, arenaVars,
          tlsVars, spanVars, batchVars, callVars, checkVars, Goto
  <1>t. /\ pc \in [Threads -> Labels]
        /\ spanChunk \in [Threads -> Chunks \union {NoChunk}]
        /\ spanCur \in [Threads -> Nat] /\ spanEnd \in [Threads -> 0 .. Cap]
        /\ tgt \in [Threads -> Chunks] /\ lo \in [Threads -> 0 .. Cap]
        /\ req \in [Threads -> RequestKinds \union {"public"}]
        /\ hand \in [Threads -> SUBSET Blocks] /\ live \in SUBSET Blocks
        /\ TypeOK
    BY DEF IInv, TypeOK
  <1>a. Abstract!Abandon => Abstract!Next
    BY DEF Abstract!Next
  <1> DEFINE Goal == [Abstract!Next]_<<live, Spent>>
  <1>0. ASSUME UNCHANGED vars PROVE Goal
    <2>1. AllReserved' = AllReserved
      BY <1>0 DEF AllReserved, Reserved, Window, Carving, Direct, Want
    <2> QED BY <2>1, <1>0, <1>a, AbandonStep
  \* Blocks are handed out.
  <1>1. ASSUME NEW t \in Threads, NEW kind \in Reqs, AllocHit(t, kind) PROVE Goal
    <2> DEFINE n == Block(spanChunk[t], spanCur[t], Size[kind])
    <2>1. /\ n \in Blocks /\ live' = live \union {n} /\ cursor' = cursor
          /\ \A x \in ChunkCells : Covers(n, x) => InWindow(t, x)
      BY <1>1, HitBlock DEF AllocHit, Unused
    <2> HIDE DEF n
    <2>2. Reserved(t)' \subseteq Reserved(t)
      <3>1. Window(t)' \subseteq Window(t)
        BY <1>1, <1>t, SizeFacts DEF AllocHit, Window
      <3>2. Carving(t)' = Carving(t) /\ Direct(t)' = Direct(t)
        BY <1>1, <1>t DEF AllocHit, Carving, Direct
      <3> QED BY <3>1, <3>2 DEF Reserved
    <2>3. AllReserved' \subseteq AllReserved
      BY <1>1, <1>t, <2>2, OthersKeep DEF AllocHit
    <2>4. CellsOf(n) \subseteq AllReserved
      <3>1. ASSUME NEW x \in CellsOf(n) PROVE x \in Window(t)
        BY <2>1, CellFacts, WindowCells
      <3> QED BY <3>1 DEF AllReserved, Reserved
    <2> QED BY <2>1, <2>3, <2>4, ServeStep DEF Abstract!Next
  <1>2. ASSUME NEW t \in Threads, InstallSpan(t) PROVE Goal
    <2> DEFINE n == Block(tgt[t], lo[t], Size[req[t]])
    <2>0. pc[t] \in CarveLabels
      BY <1>2 DEF InstallSpan, CarveLabels
    <2>1. /\ n \in Blocks /\ live' = live \union {n} /\ cursor' = cursor
          /\ \A x \in ChunkCells : Covers(n, x) => InCarving(t, x)
          /\ \A x \in ChunkCells : InWindow(t, x)' => InCarving(t, x)
      BY <1>2, CarveBlock DEF InstallSpan, Unused
    <2> HIDE DEF n
    <2>2. Reserved(t)' \subseteq Reserved(t)
      <3>1. ASSUME NEW x \in Window(t)' PROVE x \in Carving(t)
        <4>1. x \in ChunkCells /\ InWindow(t, x)'
          BY <3>1, RolesAgreeAfter DEF RolesAgree
        <4> QED BY <4>1, <2>1, WindowCells
      <3>2. Carving(t)' = {} /\ Direct(t)' = {}
        BY <1>2, <1>t DEF InstallSpan, Carving, Direct
      <3> QED BY <3>1, <3>2 DEF Reserved
    <2>3. AllReserved' \subseteq AllReserved
      BY <1>2, <1>t, <2>2, OthersKeep DEF InstallSpan
    <2>4. CellsOf(n) \subseteq AllReserved
      <3>1. ASSUME NEW x \in CellsOf(n) PROVE x \in Carving(t)
        BY <2>1, CellFacts, WindowCells
      <3> QED BY <3>1 DEF AllReserved, Reserved
    <2> QED BY <2>1, <2>3, <2>4, ServeStep DEF Abstract!Next
  <1>3. ASSUME NEW t \in Threads, PublishAndReturn(t) PROVE Goal
    <2>1. Reserved(t)' \subseteq Reserved(t)
      <3>1. Window(t)' = Window(t) /\ Carving(t)' = {} /\ Direct(t)' = {}
        BY <1>3, <1>t DEF PublishAndReturn, Window, Carving, Direct
      <3> QED BY <3>1 DEF Reserved
    <2>2. AllReserved' \subseteq AllReserved /\ cursor' = cursor
      BY <1>3, <1>t, <2>1, OthersKeep DEF PublishAndReturn
    <2>3. CASE hand[t] = {}
      BY <1>3, <2>2, <2>3, <1>a, AbandonStep DEF PublishAndReturn
    <2>4. CASE hand[t] # {}
      <3>1. PICK b \in hand[t] : hand[t] = {b}
        BY <2>4 DEF HandInv
      <3>2. CellsOf(b) \subseteq AllReserved
        BY <1>3, <3>1 DEF PublishAndReturn, AllReserved, Reserved, Direct
      <3>3. b \in Blocks /\ live' = live \union {b}
        BY <1>3, <3>1, <1>t DEF PublishAndReturn
      <3> QED BY <2>2, <3>2, <3>3, ServeStep DEF Abstract!Next
    <2> QED BY <2>3, <2>4
  \* A block is given back.
  <1>4. ASSUME NEW t \in Threads, NEW b \in live, NoteFree(t, b) PROVE Goal
    <2>1. Reserved(t)' = Reserved(t)
      <3>1. Window(t)' = Window(t) /\ Carving(t)' = Carving(t)
        BY <1>4, <1>t DEF NoteFree, AfterFree, Window, Carving
      <3>2. Direct(t)' = Direct(t)
        BY <1>4, <1>t DEF NoteFree, AfterFree, Direct
      <3> QED BY <3>1, <3>2 DEF Reserved
    <2>2. AllReserved' = AllReserved
      <3>1. ASSUME NEW u \in Threads, u # t PROVE Reserved(u)' = Reserved(u)
        <4>1. Window(u)' = Window(u) /\ Carving(u)' = Carving(u)
          BY <3>1, <1>4, <1>t DEF NoteFree, Window, Carving, Want
        <4>2. Direct(u)' = Direct(u)
          BY <3>1, <1>4, <1>t DEF NoteFree, Direct
        <4> QED BY <4>1, <4>2 DEF Reserved
      <3> QED BY <2>1, <3>1 DEF AllReserved
    <2>3. Spent' = Spent /\ live' = live \ {b}
      BY <1>4, <2>2 DEF NoteFree, Spent
    <2> QED BY <2>3 DEF Abstract!Next, Abstract!Release
  \* Cells are set aside.
  <1>5. ASSUME NEW t \in Threads, CarveShared(t) PROVE Goal
    <2>1. CASE UNCHANGED cursor
      <3>1. Reserved(t)' \subseteq Reserved(t)
        <4>1. ~Carvable(t)
          BY <1>5, <2>1, <1>t, TypeFacts DEF CarveShared
        <4>2. Window(t)' = Window(t) /\ Carving(t)' = {} /\ Direct(t)' = {}
          BY <1>5, <4>1, <1>t DEF CarveShared, BackOff, Window, Carving, Direct
        <4> QED BY <4>2 DEF Reserved
      <3>2. AllReserved' \subseteq AllReserved
        BY <1>5, <3>1, <1>t, OthersKeep DEF CarveShared
      <3> QED BY <1>5, <2>1, <3>2, <1>a, AbandonStep DEF CarveShared
    <2>2. CASE ~UNCHANGED cursor
      <3>1. /\ Carvable(t) /\ lo' = [lo EXCEPT ![t] = cursor[tgt[t]]]
            /\ cursor' = [cursor EXCEPT ![tgt[t]] = @ + Want(t)]
            /\ live' = live
        BY <1>5, <2>2 DEF CarveShared
      <3>2. \A c \in Chunks : cursor[c] <= cursor'[c]
        BY <3>1, TypeFacts
      <3>3. ASSUME NEW x \in AllReserved'
            PROVE  x \in AllReserved \/ (x \in ChunkCells /\ cursor[x[1]] <= x[2])
        <4>1. PICK u \in Threads : x \in Reserved(u)'
          BY <3>3 DEF AllReserved
        <4>2. CASE u # t
          <5>1. Window(u)' = Window(u) /\ Carving(u)' = Carving(u) /\ Direct(u)' = Direct(u)
            BY <4>2, <1>5, <1>t DEF CarveShared, Window, Carving, Direct, Want
          <5> QED BY <4>1, <5>1 DEF Reserved, AllReserved
        <4>3. CASE u = t /\ x \in Carving(t)'
          <5>1. x \in ChunkCells /\ InCarving(t, x)'
            BY <4>3, RolesAgreeAfter DEF RolesAgree
          <5>2. x[1] = tgt[t] /\ cursor[tgt[t]] <= x[2]
            BY <5>1, <3>1, <1>5, <1>t DEF InCarving, CarveShared
          <5> QED BY <5>1, <5>2
        <4>4. CASE u = t /\ x \notin Carving(t)'
          <5>1. Window(t)' = Window(t) /\ Direct(t)' = {}
            BY <1>5, <1>t DEF CarveShared, BackOff, Window, Direct
          <5> QED BY <4>1, <4>4, <5>1 DEF Reserved, AllReserved
        <4> QED BY <4>2, <4>3, <4>4
      <3> QED BY <3>1, <3>2, <3>3, <1>a, TakeStep
    <2> QED BY <2>1, <2>2
  <1>6. ASSUME NEW t \in Threads, Bump(t) PROVE Goal
    <2>1. CASE UNCHANGED cursor
      <3>1. UNCHANGED dataVars /\ pc'[t] \in {"fail", "advance"}
        <4>1. /\ cursor[current] \in Nat /\ Size[req[t]] \in Nat \ {0}
              /\ current \in Chunks /\ cursor \in [Chunks -> Nat]
          BY TypeFacts DEF IInv, TypeOK
        <4>2. ~(cursor[current] + Size[req[t]] <= Cap)
          <5> SUFFICES ASSUME cursor[current] + Size[req[t]] <= Cap PROVE FALSE
            OBVIOUS
          <5>1. ~(cursor[current] + Size[req[t]] > Cap)
            BY <4>1, ArenaAssumption DEF ArenaAssumption
          <5>2. cursor'[current] = cursor[current] + Size[req[t]]
            BY <1>6, <4>1, <5>1 DEF Bump, CursorBumped
          <5> QED BY <2>1, <4>1, <5>2
        <4> QED BY <1>6, <4>2, <1>t DEF Bump
      <3>2. Reserved(t)' \subseteq Reserved(t)
        <4>1. Window(t)' = Window(t) /\ Carving(t)' = {} /\ Direct(t)' = {}
          BY <3>1 DEF Window, Carving, Direct
        <4> QED BY <4>1 DEF Reserved
      <3>3. AllReserved' \subseteq AllReserved
        BY <1>6, <3>1, <3>2, <1>t, OthersKeep DEF Bump
      <3> QED BY <3>1, <3>3, <1>a, AbandonStep
    <2>2. CASE ~UNCHANGED cursor
      <3> DEFINE n == Block(current, cursor[current], Size[req[t]])
      <3>1. /\ cursor[current] + Size[req[t]] <= Cap
            /\ hand' = [hand EXCEPT ![t] = {n}]
            /\ cursor' = [cursor EXCEPT ![current] = @ + Size[req[t]]]
            /\ live' = live
        BY <1>6, <2>2 DEF Bump, CursorBumped
      <3>2. n \in Blocks /\ \A x \in ChunkCells : Covers(n, x) => cursor[x[1]] <= x[2]
        BY <3>1, BumpBlock DEF Unused
      <3>3. \A c \in Chunks : cursor[c] <= cursor'[c]
        BY <3>1, TypeFacts
      <3> HIDE DEF n
      <3>4. ASSUME NEW x \in AllReserved'
            PROVE  x \in AllReserved \/ (x \in ChunkCells /\ cursor[x[1]] <= x[2])
        <4>1. PICK u \in Threads : x \in Reserved(u)'
          BY <3>4 DEF AllReserved
        <4>2. CASE u # t
          <5>1. Window(u)' = Window(u) /\ Carving(u)' = Carving(u) /\ Direct(u)' = Direct(u)
            BY <4>2, <1>6, <1>t DEF Bump, Window, Carving, Direct, Want
          <5> QED BY <4>1, <5>1 DEF Reserved, AllReserved
        <4>3. CASE u = t /\ x \in Direct(t)'
          <5>1. x \in CellsOf(n)
            BY <4>3, <3>1, <1>t DEF Direct
          <5> QED BY <5>1, <3>2, CellFacts
        <4>4. CASE u = t /\ x \notin Direct(t)'
          <5>1. Window(t)' = Window(t) /\ Carving(t)' = {}
            BY <1>6, <1>t DEF Bump, Window, Carving
          <5> QED BY <4>1, <4>4, <5>1 DEF Reserved, AllReserved
        <4> QED BY <4>2, <4>3, <4>4
      <3> QED BY <3>1, <3>3, <3>4, <1>a, TakeStep
    <2> QED BY <2>1, <2>2
  \* A chunk is rewound.
  <1>7. ASSUME NEW t \in Threads, Rewind(t) PROVE Goal
    <2>1. scan \in Chunks
      BY <1>7, TypeFacts DEF Rewind, IInv, ArenaInv, ScanLabels
    <2>2. AllReserved' = AllReserved
      <3>1. ASSUME NEW u \in Threads PROVE Reserved(u)' = Reserved(u)
        <4>1. Window(u)' = Window(u) /\ Carving(u)' = Carving(u) /\ Direct(u)' = Direct(u)
          BY <1>7, <1>t DEF Rewind, Window, Carving, Direct, Want
        <4> QED BY <4>1 DEF Reserved
      <3> QED BY <3>1 DEF AllReserved
    <2>3. \A b \in live : b[1] # scan
      BY <1>7, <1>t DEF Rewind, IInv, ClaimInv, Owed, Used
    <2>4. Spent' = {x \in Spent : x[1] # scan}
      <3>1. cursor' = [cursor EXCEPT ![scan] = 0]
        BY <1>7 DEF Rewind
      <3>2. ASSUME NEW x \in ChunkCells PROVE x[2] < cursor'[x[1]] <=> x[2] < cursor[x[1]] /\ x[1] # scan
        BY <3>1, CellFacts, TypeFacts
      <3> QED BY <2>2, <3>2 DEF Spent, ChunkCells
    <2> QED BY <1>7, <2>1, <2>3, <2>4 DEF Rewind, Abstract!Next, Abstract!Rewind
  \* Nothing is handed out, given back or set aside.
  <1> DEFINE Quiet(t) ==
        /\ live' = live /\ cursor' = cursor
        /\ \A u \in Threads \ {t} :
             /\ UNCHANGED <<spanChunk[u], spanCur[u], spanEnd[u], tgt[u], lo[u], req[u], hand[u]>>
             /\ pc'[u] = pc[u]
        /\ Window(t)' \subseteq Window(t) /\ Carving(t)' \subseteq Carving(t)
        /\ Direct(t)' \subseteq Direct(t)
  <1>q. ASSUME NEW t \in Threads, Quiet(t) PROVE Goal
    BY <1>q, <1>a, <1>t, OthersKeep, AbandonStep DEF Reserved
  <1>8. ASSUME NEW t \in Threads, Alloc(t) \/ FastStep(t) \/ Exit(t),
               (\A kind \in Reqs : ~AllocHit(t, kind)), ~InstallSpan(t), ~CarveShared(t)
        PROVE  Quiet(t)
    <2>1. live' = live /\ cursor' = cursor /\ UNCHANGED <<spanChunk, spanCur, spanEnd, lo, hand>>
      BY <1>8 DEF Alloc, AllocMiss, PublicCall, FastStep, LoadPublished, PinSpan,
         CheckIntent, UnpinSpan, RetireSpan, Exit
    <2>2. /\ \A u \in Threads \ {t} : UNCHANGED <<tgt[u], req[u]>> /\ pc'[u] = pc[u]
          /\ pc'[t] \notin {"direct", "register", "publish", "retire"}
          /\ pc'[t] = "install" => pc[t] = "retire" /\ UNCHANGED <<tgt, req>>
      BY <1>8, <1>t DEF Alloc, AllocMiss, PublicCall, FastStep, LoadPublished,
         PinSpan, CheckIntent, BackOff, UnpinSpan, RetireSpan, Exit
    <2>3. Window(t)' = Window(t) /\ Direct(t)' = {}
      BY <2>1, <2>2 DEF Window, Direct
    <2>4. Carving(t)' \subseteq Carving(t)
      BY <2>1, <2>2 DEF Carving, Want
    <2> QED BY <2>1, <2>2, <2>3, <2>4
  <1>9. ASSUME NEW t \in Threads, FreeStep(t) PROVE Quiet(t)
    <2>1. /\ live' = live /\ cursor' = cursor
          /\ UNCHANGED <<spanChunk, spanCur, spanEnd, lo, tgt, req>>
      BY <1>9 DEF FreeStep, OpenBatch, FlushFreeBatch, CheckLatch, CheckPins,
         CheckCarved, Unlatch
    <2>2. /\ \A u \in Threads \ {t} : hand'[u] = hand[u] /\ pc'[u] = pc[u]
          /\ pc'[t] \notin {"direct", "register", "publish", "retire", "install"}
      <3>1. ret[t] \in {"idle", "clrspan", "openbatch"}
        BY DEF IInv, TypeOK
      <3>2. CASE OpenBatch(t)
        BY <3>2, <1>t DEF OpenBatch, AfterFree
      <3>3. CASE FlushFreeBatch(t)
        BY <3>1, <3>3, <1>t DEF FlushFreeBatch, Return
      <3>4. CASE CheckLatch(t) \/ CheckPins(t) \/ CheckCarved(t) \/ Unlatch(t)
        BY <3>1, <3>4, <1>t
        DEF CheckLatch, CheckPins, CheckCarved, Unlatch, EndCheck, Return
      <3> QED BY <1>9, <3>2, <3>3, <3>4 DEF FreeStep
    <2>3. Window(t)' = Window(t) /\ Direct(t)' = {} /\ Carving(t)' = {}
      BY <2>1, <2>2 DEF Window, Direct, Carving
    <2> QED BY <2>1, <2>2, <2>3
  <1>10. ASSUME NEW t \in Threads, ClearStep(t) PROVE Quiet(t)
    <2>1. /\ live' = live /\ cursor' = cursor /\ UNCHANGED <<lo, tgt, req, hand>>
          /\ \A u \in Threads \ {t} :
               UNCHANGED <<spanChunk[u], spanCur[u], spanEnd[u]>> /\ pc'[u] = pc[u]
          /\ pc'[t] \notin {"direct", "register", "publish", "retire", "install"}
      BY <1>10, <1>t DEF ClearStep, ClearOwnBlockers, ClearSpan, ClearPin
    <2>2. Window(t)' \subseteq Window(t)
      BY <1>10, <1>t DEF ClearStep, ClearOwnBlockers, ClearSpan, ClearPin, Window
    <2>3. Direct(t)' = {} /\ Carving(t)' = {}
      BY <2>1 DEF Direct, Carving
    <2> QED BY <2>1, <2>2, <2>3
  <1>11. ASSUME NEW t \in Threads, LockedStep(t) \/ ScanStep(t), ~Bump(t),
                ~PublishAndReturn(t), ~Rewind(t)
         PROVE  Quiet(t)
    <2>1. /\ live' = live /\ cursor' = cursor
          /\ UNCHANGED <<spanChunk, spanCur, spanEnd, lo, tgt, hand>>
          /\ \A u \in Threads \ {t} : req'[u] = req[u] /\ pc'[u] = pc[u]
          /\ pc'[t] \notin {"direct", "retire", "install"}
          /\ pc'[t] \in {"register", "publish"} => pc[t] \in {"direct", "register"}
      BY <1>11, <1>t DEF LockedStep, LockArena, NoteDirectCarve, RegisterChunks,
         PublishAfterFailure, LatchExhausted, Advance, Grow, ScanStep, MarkIntent,
         ReadPins, ReadCarved, ReadFreed, UnmarkIntent, FinishRecycle
    <2>2. Window(t)' = Window(t) /\ Carving(t)' = {} /\ Direct(t)' \subseteq Direct(t)
      BY <2>1 DEF Window, Carving, Direct
    <2> QED BY <2>1, <2>2
  <1> QED
    BY <1>0, <1>1, <1>2, <1>3, <1>4, <1>5, <1>6, <1>7, <1>8, <1>9, <1>10, <1>11, <1>q
    DEF Next, Step, FastStep

\* Both invariants hold in every reachable state.
LEMMA HandsAlways == Spec => []HandInv
  <1>1. Init => HandInv
    BY DEF Init, HandInv, FlushedLabels
  <1>2. IInv /\ HandInv /\ [Next]_vars => HandInv'
    BY HandStep DEF IInv
  <1> QED BY <1>1, <1>2, Inductive, PTL DEF Spec

\* The arena with its atomics, spans, pins and recycle scan keeps the promise of a
\* plain region arena, step by step: between two rewinds of a chunk a cell is part
\* of one block at most, and a chunk is rewound only when no block of it is held.
THEOREM Refinement == Spec => ImplementsRegionArena
  <1>1. Init => Abstract!Init
    <2> SUFFICES ASSUME Init PROVE live = {} /\ Spent = {}
      BY DEF Abstract!Init
    <2>1. \A x \in ChunkCells : ~(x[2] < cursor[x[1]])
      BY CellFacts DEF Init
    <2> QED BY <2>1 DEF Init, Spent, ChunkCells
  <1>2. IInv /\ IInv' /\ HandInv /\ HandInv' /\ [Next]_vars
          => [Abstract!Next]_<<live, Spent>>
    BY AbstractStep
  <1> QED BY <1>1, <1>2, Inductive, HandsAlways, PTL
          DEF Spec, ImplementsRegionArena, Abstract!Spec

-----------------------------------------------------------------------------
(* Registration, and the counters again.                                    *)

\* The registry is never behind: a chunk is registered before a block of it escapes.
LEMMA RegisterStep ==
  ASSUME RoutedOnly, IInv, TypeOK', HandInv, RegisterInv, [Next]_vars
  PROVE  RegisterInv'
  <1> USE DEF vars, dataVars, sharedVars, chunkVars, flagVars, arenaVars,
          tlsVars, spanVars, batchVars, callVars, checkVars, Goto
  <1>t. /\ pc \in [Threads -> Labels] /\ req \in [Threads -> RequestKinds \union {"public"}]
        /\ hand \in [Threads -> SUBSET Blocks]
        /\ spanChunk \in [Threads -> Chunks \union {NoChunk}]
        /\ tgt \in [Threads -> Chunks] /\ current \in Nat /\ scan \in Nat /\ len \in Nat
        /\ cursor \in [Chunks -> Nat] /\ Nobody \notin Threads
        /\ ret \in [Threads -> {"idle", "clrspan", "openbatch"}]
        /\ lock \in Threads \union {Nobody}
    BY TypeFacts DEF IInv, TypeOK
  <1> DEFINE Mine(t) ==
        /\ req[t] \in {"small", "large"}
        /\ pc[t] \in LockedLabels \ FreshLabels => Mapped \subseteq registered
        /\ pc[t] \in FreshLabels => Mapped \ {current} \subseteq registered
        /\ pc[t] = "bump" => current \in registered \/ cursor[current] = 0
        /\ pc[t] \in SpentLabels => len <= current + 1
        /\ pc[t] \in {"pin"} \union PinLabels => tgt[t] \in registered
        /\ spanChunk[t] = NoChunk \/ spanChunk[t] \in registered
        /\ \A b \in hand[t] : b[1] \in registered \/ (pc[t] \in FreshLabels /\ b[1] = current)
  <1>h. /\ registered \subseteq Mapped
        /\ lock = Nobody => Mapped \subseteq registered
        /\ published = NoChunk \/ published \in registered
        /\ \A c \in Chunks : len <= c => cursor[c] = 0
        /\ \A t \in Threads : Mine(t)
        /\ \A b \in live : b[1] \in registered
    BY DEF RegisterInv, LiveIsRegistered
  <1>g. SUFFICES /\ registered' \subseteq Mapped'
                 /\ lock' = Nobody => Mapped' \subseteq registered'
                 /\ published' = NoChunk \/ published' \in registered'
                 /\ \A c \in Chunks : len' <= c => cursor'[c] = 0
                 /\ \A t \in Threads : Mine(t)'
                 /\ \A b \in live' : b[1] \in registered'
    BY DEF RegisterInv, LiveIsRegistered
  <1> USE DEF LockedLabels, FreshLabels, SpentLabels, ScanLabels, PinLabels
  <1> DEFINE Goal == /\ registered' \subseteq Mapped'
                     /\ lock' = Nobody => Mapped' \subseteq registered'
                     /\ published' = NoChunk \/ published' \in registered'
                     /\ \A c \in Chunks : len' <= c => cursor'[c] = 0
                     /\ \A t \in Threads : Mine(t)'
                     /\ \A b \in live' : b[1] \in registered'
  <1> DEFINE Others(t) == \A u \in Threads \ {t} :
               UNCHANGED <<req[u], tgt[u], spanChunk[u], hand[u]>> /\ pc'[u] = pc[u]
  \* What the step of one thread leaves to the others.
  <1>o. ASSUME NEW t \in Threads, Others(t), registered \subseteq registered',
               \/ \A u \in Threads \ {t} : pc[u] \notin LockedLabels
               \/ /\ UNCHANGED <<registered, len, current>>
                  /\ \A c \in Chunks \ registered : cursor'[c] = cursor[c]
        PROVE  \A u \in Threads \ {t} : Mine(u)'
    <2> SUFFICES ASSUME NEW u \in Threads \ {t} PROVE Mine(u)'
      OBVIOUS
    <2>1. Mine(u)
      BY <1>h
    <2>2. CASE pc[u] \notin LockedLabels
      BY <1>o, <2>1, <2>2
    <2>3. CASE pc[u] \in LockedLabels
      <3>1. current \in Chunks
        BY DEF IInv, TypeOK
      <3> QED BY <1>o, <2>1, <2>3, <3>1 DEF Mapped
    <2> QED BY <2>2, <2>3
  <1>l. ASSUME NEW t \in Threads, pc[t] \in LockedLabels
        PROVE  /\ \A u \in Threads \ {t} : pc[u] \notin LockedLabels
               /\ lock = t /\ lock # Nobody /\ len # 0 /\ current < len
    BY <1>l, <1>t DEF IInv, LockInv, ArenaInv
  \* A step outside the Mutex.
  <1>c. ASSUME NEW t \in Threads, Others(t), UNCHANGED <<registered, len, current, lock, published>>,
               \A c \in Chunks \ registered : cursor'[c] = cursor[c],
               Mine(t)', \A b \in live' : b[1] \in registered
        PROVE  Goal
    <2>1. \A c \in Chunks : len <= c => c \notin registered
      BY <1>h, <1>t DEF Mapped, Chunks
    <2> QED BY <1>c, <1>h, <1>o, <2>1 DEF Mapped
  \* A step inside it.
  <1>d. ASSUME NEW t \in Threads, pc[t] \in LockedLabels, Others(t),
               registered \subseteq registered', registered' \subseteq Mapped',
               lock' = Nobody => Mapped' \subseteq registered',
               published' = NoChunk \/ published' \in registered',
               \A c \in Chunks : len' <= c => cursor'[c] = 0,
               Mine(t)', \A b \in live' : b[1] \in registered'
        PROVE  Goal
    BY <1>d, <1>l, <1>o
  <1>0. ASSUME UNCHANGED vars PROVE Goal
    BY <1>0, <1>h DEF Mapped
  \* Outside the Mutex.
  <1>1. ASSUME NEW t \in Threads, NEW kind \in Reqs, AllocHit(t, kind) PROVE Goal
    <2>1. spanChunk[t] \in registered
      <3>1. Size[kind] \in Nat \ {0} /\ spanCur[t] \in Nat /\ spanEnd[t] \in Nat
        BY TypeFacts
      <3>2. spanChunk[t] # NoChunk
        BY <1>1, <3>1 DEF AllocHit, IInv, SpanInv
      <3> QED BY <3>2, <1>h
    <2>2. Block(spanChunk[t], spanCur[t], Size[kind])[1] = spanChunk[t]
      BY DEF Block
    <2> QED BY <1>1, <2>1, <2>2, <1>h, <1>t DEF AllocHit, Mapped
  <1>2. ASSUME NEW t \in Threads,
               \/ \E kind \in Reqs : AllocMiss(t, kind)
               \/ LoadPublished(t) \/ PinSpan(t) \/ CheckIntent(t)
               \/ UnpinSpan(t) \/ RetireSpan(t) \/ ClearStep(t) \/ Exit(t)
        PROVE  Goal
    <2>0. Mine(t)
      BY <1>h
    <2>1. Mine(t)'
      <3>1. CASE \E kind \in Reqs : AllocMiss(t, kind)
        BY <3>1, <2>0, <1>t DEF AllocMiss, RoutedOnly
      <3>2. CASE LoadPublished(t)
        BY <3>2, <2>0, <1>h, <1>t DEF LoadPublished
      <3>3. CASE PinSpan(t) \/ CheckIntent(t) \/ UnpinSpan(t) \/ RetireSpan(t) \/ Exit(t)
        BY <3>3, <2>0, <1>t DEF PinSpan, CheckIntent, BackOff, UnpinSpan, RetireSpan, Exit
      <3>4. CASE ClearStep(t)
        BY <3>4, <2>0, <1>t DEF ClearStep, ClearOwnBlockers, ClearSpan, ClearPin
      <3> QED BY <1>2, <3>1, <3>2, <3>3, <3>4
    <2>2. /\ Others(t) /\ UNCHANGED <<registered, len, current, lock, published, cursor, live>>
      BY <1>2, <1>t DEF AllocMiss, LoadPublished, PinSpan, CheckIntent, UnpinSpan,
         RetireSpan, Exit, ClearStep, ClearOwnBlockers, ClearSpan, ClearPin
    <2> HIDE DEF Goal, Mine, Others
    <2> QED BY <2>1, <2>2, <1>h, <1>c
  <1>3. ASSUME NEW t \in Threads, CarveShared(t) PROVE Goal
    <2>0. Mine(t) /\ tgt[t] \in registered
      BY <1>3, <1>h DEF CarveShared
    <2>1. Mine(t)' /\ Others(t)
      BY <1>3, <2>0, <1>t DEF CarveShared, BackOff
    <2>2. /\ UNCHANGED <<registered, len, current, lock, published, live>>
          /\ \A c \in Chunks \ registered : cursor'[c] = cursor[c]
      BY <1>3, <2>0, <1>t DEF CarveShared
    <2> HIDE DEF Goal, Mine, Others
    <2> QED BY <2>1, <2>2, <1>h, <1>c
  <1>4. ASSUME NEW t \in Threads, InstallSpan(t) PROVE Goal
    <2>0. Mine(t) /\ tgt[t] \in registered
      BY <1>4, <1>h DEF InstallSpan
    <2>1. Mine(t)' /\ Others(t)
      BY <1>4, <2>0, <1>t DEF InstallSpan
    <2>2. /\ UNCHANGED <<registered, len, current, lock, published, cursor>>
          /\ \A b \in live' : b[1] \in registered
      BY <1>4, <2>0, <1>h DEF InstallSpan, Block
    <2> HIDE DEF Goal, Mine, Others
    <2> QED BY <2>1, <2>2, <1>c
  <1>5. ASSUME NEW t \in Threads, FreeStep(t) PROVE Goal
    <2>0. Mine(t) /\ pc[t] \notin LockedLabels /\ ret[t] \in {"idle", "clrspan", "openbatch"}
      BY <1>5, <1>h, <1>t DEF FreeStep, OpenBatch, FlushFreeBatch, CheckLatch, CheckPins,
         CheckCarved, Unlatch, Return
    <2>1. /\ UNCHANGED <<registered, len, current, lock, published, cursor, live>>
          /\ Others(t) /\ hand'[t] \subseteq hand[t]
          /\ UNCHANGED <<req[t], tgt[t], spanChunk[t]>>
      BY <1>5, <1>t DEF FreeStep, OpenBatch, FlushFreeBatch, CheckLatch, CheckPins,
         CheckCarved, Unlatch, EndCheck, Return
    <2>2. pc'[t] \in {"idle", "clrspan", "openbatch", "flush", "quiesce", "qpins", "qcarved", "unlatch"}
      <3>1. CASE OpenBatch(t)
        BY <3>1, <1>t DEF OpenBatch, AfterFree
      <3>2. CASE FlushFreeBatch(t)
        BY <3>2, <2>0, <1>t DEF FlushFreeBatch, Return
      <3>3. CASE CheckLatch(t) \/ CheckPins(t) \/ CheckCarved(t) \/ Unlatch(t)
        BY <3>3, <2>0, <1>t
        DEF CheckLatch, CheckPins, CheckCarved, Unlatch, EndCheck, Return
      <3> QED BY <1>5, <3>1, <3>2, <3>3 DEF FreeStep
    <2>3. Mine(t)'
      BY <2>0, <2>1, <2>2
    <2> HIDE DEF Goal, Mine, Others
    <2> QED BY <2>1, <2>3, <1>h, <1>c
  <1>6. ASSUME NEW t \in Threads, NEW b \in live, NoteFree(t, b) PROVE Goal
    <2>0. Mine(t) /\ b[1] \in registered
      BY <1>h
    <2>1. Mine(t)' /\ Others(t)
      BY <1>6, <2>0, <1>t DEF NoteFree, AfterFree
    <2>2. UNCHANGED <<registered, len, current, lock, published, cursor>> /\ live' \subseteq live
      BY <1>6 DEF NoteFree
    <2> HIDE DEF Goal, Mine, Others
    <2> QED BY <2>1, <2>2, <1>h, <1>c
  \* Under the Mutex.
  <1>7. ASSUME NEW t \in Threads, LockArena(t) PROVE Goal
    <2>0. Mine(t) /\ lock = Nobody /\ Mapped \subseteq registered /\ pc[t] = "lock"
      BY <1>7, <1>h DEF LockArena
    <2>1. \A u \in Threads \ {t} : pc[u] \notin LockedLabels
      BY <2>0, <1>t DEF IInv, LockInv
    <2>2. Others(t) /\ UNCHANGED <<registered, published, cursor, live>>
      BY <1>7, <1>t DEF LockArena
    <2>3. UNCHANGED len \/ (len = 0 /\ len' = 1 /\ current' = 0)
      BY <1>7 DEF LockArena
    <2>4. Mine(t)'
      <3>1. 0 \in Chunks
        BY ArenaAssumption DEF ArenaAssumption, Chunks
      <3>2. UNCHANGED <<tgt, spanChunk, hand>> /\ req'[t] \in {"small", "large"}
            /\ pc'[t] \in {"bump", "idle"}
        BY <1>7, <2>0, <1>t DEF LockArena
      <3>3. pc'[t] = "bump" => /\ Mapped' \ {current'} \subseteq registered
                               /\ current' \in registered \/ cursor[current'] = 0
        <4>1. CASE len = 0
          BY <4>1, <2>3, <1>7, <1>h, <1>t, <3>1 DEF Mapped, LockArena
        <4>2. CASE len # 0
          <5>1. len' = len /\ current' = current
            BY <4>2, <1>7 DEF LockArena
          <5>2. current \in Mapped
            BY <4>2, <1>t DEF IInv, ArenaInv, Mapped
          <5> QED BY <5>1, <5>2, <2>0, <2>2 DEF Mapped
        <4> QED BY <4>1, <4>2
      <3> QED BY <2>0, <2>2, <3>2, <3>3
    <2>5. lock' = Nobody => Mapped' \subseteq registered'
      BY <1>7, <2>0, <2>2, <1>t DEF LockArena, Mapped
    <2>6. registered' \subseteq Mapped' /\ \A c \in Chunks : len' <= c => cursor'[c] = 0
      BY <2>2, <2>3, <1>h, <1>t DEF Mapped, Chunks
    <2> QED BY <2>1, <2>2, <2>4, <2>5, <2>6, <1>h, <1>o
  <1>8. ASSUME NEW t \in Threads, Bump(t) PROVE Goal
    <2>0. /\ Mine(t) /\ pc[t] = "bump" /\ Mapped \ {current} \subseteq registered
          /\ current \in Mapped /\ current \in Chunks /\ cursor[current] \in Nat
          /\ lock # Nobody
      BY <1>8, <1>h, <1>l, <1>t DEF Bump, Mapped, IInv, TypeOK
    <2>1. Others(t) /\ UNCHANGED <<registered, len, current, lock, published, live>>
      BY <1>8, <1>t DEF Bump
    <2>2. \A c \in Chunks : len' <= c => cursor'[c] = 0
      BY <1>8, <2>0, <2>1, <1>h, <1>t DEF Bump, Mapped
    <2>3. Mine(t)'
      <3>1. CASE cursor[current] + Size[req[t]] <= Cap
        <4>1. ~(cursor[current] + Size[req[t]] > Cap)
          BY <3>1, <2>0, TypeFacts
        <4>2. /\ pc'[t] = "direct" /\ UNCHANGED <<req, tgt, spanChunk>>
              /\ \A b \in hand'[t] : b[1] = current
          BY <1>8, <4>1, <1>t DEF Bump, Block
        <4> QED BY <4>2, <2>0, <2>1 DEF Mapped
      <3>2. CASE cursor[current] + Size[req[t]] > Cap
        <4>1. Size[req[t]] \in Nat /\ Size[req[t]] <= Cap /\ Cap \in Nat
          BY <2>0, ArenaAssumption DEF ArenaAssumption, Size
        <4>2. current \in registered
          BY <3>2, <4>1, <2>0
        <4>3. ~(cursor[current] + Size[req[t]] <= Cap)
          BY <3>2, <2>0, <4>1
        <4>4. UNCHANGED dataVars /\ pc'[t] = "advance"
          BY <1>8, <4>1, <4>3, <1>t DEF Bump
        <4> QED BY <4>2, <4>4, <2>0 DEF Mapped
      <3> QED BY <1>8, <3>1, <3>2 DEF Bump
    <2> HIDE DEF Mine, Others
    <2> QED BY <2>0, <2>1, <2>2, <2>3, <1>h, <1>d DEF Mapped
  <1>9. ASSUME NEW t \in Threads, NoteDirectCarve(t) \/ RegisterChunks(t) PROVE Goal
    <2>0. /\ Mine(t) /\ pc[t] \in {"direct", "register"} /\ current \in Mapped /\ lock # Nobody
          /\ req[t] # "public"
      BY <1>9, <1>h, <1>l, <1>t DEF NoteDirectCarve, RegisterChunks, Mapped
    <2>1. /\ Others(t) /\ UNCHANGED <<len, current, lock, published, live, cursor>>
          /\ UNCHANGED <<req, tgt, spanChunk, hand>>
      BY <1>9, <1>t DEF NoteDirectCarve, RegisterChunks
    <2>2. \/ registered' = registered /\ pc'[t] = "register"
          \/ registered' = Mapped /\ pc'[t] = "publish"
      BY <1>9, <2>0, <1>t DEF NoteDirectCarve, RegisterChunks, Registering, Mapped
    <2>3. registered \subseteq registered' /\ registered' \subseteq Mapped' /\ Mapped' = Mapped
      BY <2>1, <2>2, <1>h DEF Mapped
    <2>4. Mine(t)'
      BY <2>0, <2>1, <2>2, <2>3
    <2>5. pc[t] \in LockedLabels
      BY <2>0
    <2>6. \A b \in live' : b[1] \in registered'
      BY <2>1, <2>3, <1>h
    <2>7. \A c \in Chunks : len' <= c => cursor'[c] = 0
      BY <2>1, <1>h
    <2>8. published' = NoChunk \/ published' \in registered'
      BY <2>1, <2>3, <1>h
    <2> HIDE DEF Mine, Others
    <2> QED BY <2>0, <2>1, <2>3, <2>4, <2>5, <2>6, <2>7, <2>8, <1>d
  <1>10. ASSUME NEW t \in Threads,
                PublishAndReturn(t) \/ PublishAfterFailure(t) \/ LatchExhausted(t)
         PROVE  Goal
    <2>0. /\ Mine(t) /\ pc[t] \in {"publish", "fail", "latch"}
          /\ Mapped \subseteq registered /\ current \in Mapped
      BY <1>10, <1>h, <1>l, <1>t DEF PublishAndReturn, PublishAfterFailure,
         LatchExhausted, Mapped
    <2>1. /\ Others(t) /\ UNCHANGED <<len, current, registered, cursor>>
          /\ UNCHANGED <<tgt, spanChunk>>
          /\ req'[t] \in {req[t], "small"} /\ pc'[t] \in {"idle", "latch"}
          /\ hand'[t] \subseteq hand[t] /\ live' \subseteq live \union hand[t]
          /\ published' \in {published, current}
      BY <1>10, <1>t DEF PublishAndReturn, PublishAfterFailure, LatchExhausted
    <2>2. Mapped' = Mapped
      BY <2>1 DEF Mapped
    <2>3. Mine(t)'
      BY <2>0, <2>1, <2>2
    <2>4. \A b \in live' : b[1] \in registered'
      BY <2>0, <2>1, <1>h
    <2>5. published' = NoChunk \/ published' \in registered'
      BY <2>0, <2>1, <1>h
    <2>6. pc[t] \in LockedLabels /\ \A c \in Chunks : len' <= c => cursor'[c] = 0
      BY <2>0, <2>1, <1>h
    <2> HIDE DEF Mine, Others
    <2> QED BY <2>0, <2>1, <2>2, <2>3, <2>4, <2>5, <2>6, <1>d, <1>h
  <1>11. ASSUME NEW t \in Threads, Advance(t) \/ ScanStep(t) PROVE Goal
    <2>0. /\ Mine(t) /\ pc[t] \in {"advance"} \union SpentLabels
          /\ Mapped \subseteq registered /\ current \in Mapped /\ lock # Nobody
      BY <1>11, <1>h, <1>l, <1>t DEF Advance, ScanStep, MarkIntent, ReadPins, ReadCarved,
         ReadFreed, UnmarkIntent, Rewind, FinishRecycle, Mapped
    <2>1. /\ Others(t) /\ UNCHANGED <<len, registered, lock, published, live>>
          /\ UNCHANGED <<req, tgt, spanChunk, hand>>
          /\ \A c \in Chunks : cursor'[c] \in {cursor[c], 0}
      BY <1>11, <1>t DEF Advance, ScanStep, MarkIntent, ReadPins, ReadCarved,
         ReadFreed, UnmarkIntent, Rewind, FinishRecycle
    <2>2. current' \in Mapped
      BY <1>11, <2>0, <1>t DEF Advance, ScanStep, MarkIntent, ReadPins, ReadCarved,
         ReadFreed, UnmarkIntent, Rewind, FinishRecycle, Mapped, IInv, ArenaInv
    <2>3. /\ pc'[t] \in {"bump"} \union SpentLabels
          /\ pc'[t] \in SpentLabels => len <= current' + 1
      BY <1>11, <2>0, <1>t DEF Advance, ScanStep, MarkIntent, ReadPins, ReadCarved,
         ReadFreed, UnmarkIntent, Rewind, FinishRecycle
    <2>4. Mine(t)'
      BY <2>0, <2>1, <2>2, <2>3 DEF Mapped
    <2>5. pc[t] \in LockedLabels
      BY <2>0
    <2>6. \A c \in Chunks : len' <= c => cursor'[c] = 0
      BY <2>1, <1>h
    <2>7. registered' \subseteq Mapped'
      BY <2>1, <1>h DEF Mapped
    <2> HIDE DEF Mine, Others
    <2> QED BY <2>0, <2>1, <2>4, <2>5, <2>6, <2>7, <1>d, <1>h
  <1>12. ASSUME NEW t \in Threads, Grow(t) PROVE Goal
    <2>0. /\ Mine(t) /\ pc[t] = "grow" /\ Mapped \subseteq registered
          /\ current < len /\ len <= current + 1 /\ lock # Nobody
      BY <1>12, <1>h, <1>l, <1>t DEF Grow
    <2>1. /\ Others(t) /\ UNCHANGED <<registered, lock, published, live, cursor>>
          /\ UNCHANGED <<req, tgt, spanChunk, hand>>
      BY <1>12, <1>t DEF Grow
    <2>2. \/ UNCHANGED <<len, current>> /\ pc'[t] = "fail"
          \/ len < MaxChunks /\ len' = len + 1 /\ current' = len /\ pc'[t] = "bump"
      BY <1>12, <2>0, <1>t DEF Grow
    <2>3. Mine(t)'
      <3>1. CASE UNCHANGED <<len, current>> /\ pc'[t] = "fail"
        BY <3>1, <2>0, <2>1 DEF Mapped
      <3>2. CASE len < MaxChunks /\ len' = len + 1 /\ current' = len /\ pc'[t] = "bump"
        <4>1. len \in Chunks /\ cursor[len] = 0
          BY <3>2, <1>h, <1>t, ArenaAssumption DEF ArenaAssumption, Chunks
        <4> QED BY <3>2, <2>0, <2>1, <4>1, <1>t DEF Mapped
      <3> QED BY <2>2, <3>1, <3>2
    <2>4. pc[t] \in LockedLabels
      BY <2>0
    <2>5. registered' \subseteq Mapped' /\ \A c \in Chunks : len' <= c => cursor'[c] = 0
      BY <2>1, <2>2, <1>h, <1>t DEF Mapped, Chunks
    <2> HIDE DEF Mine, Others
    <2> QED BY <2>0, <2>1, <2>3, <2>4, <2>5, <1>d, <1>h
  <1>13. ASSUME NEW t \in Threads, PublicCall(t) PROVE Goal
    BY <1>13 DEF PublicCall, RoutedOnly
  <1> HIDE DEF Goal, Mine
  <1> QED
    BY <1>0, <1>1, <1>2, <1>3, <1>4, <1>5, <1>6, <1>7, <1>8, <1>9, <1>10, <1>11,
       <1>12, <1>13, <1>g
    DEF Next, Alloc, Step, FastStep, LockedStep, Goal

\* A bump serves a block or leaves all data alone.
LEMMA BumpCases ==
  ASSUME IInv, NEW t \in Threads, Bump(t)
  PROVE  \/ UNCHANGED dataVars /\ pc' = [pc EXCEPT ![t] = pc'[t]] /\ pc'[t] \in {"fail", "advance"}
         \/ /\ cursor[current] + Size[req[t]] <= Cap
            /\ hand' = [hand EXCEPT ![t] = {Block(current, cursor[current], Size[req[t]])}]
            /\ pc[t] = "bump" /\ pc' = [pc EXCEPT ![t] = "direct"]
            /\ UNCHANGED <<freed, carved, batch, live, spanBlocks>>
  BY DEF Bump, Goto, dataVars, sharedVars, chunkVars, flagVars, arenaVars, tlsVars,
     spanVars, batchVars, callVars, IInv, TypeOK

\* A block handed out is new to every span that is still to be counted.
LEMMA CountedOnceStep ==
  ASSUME IInv, HandInv, CountedOnce, [Next]_vars
  PROVE  CountedOnce'
  <1> USE DEF vars, dataVars, sharedVars, chunkVars, flagVars, arenaVars,
          tlsVars, spanVars, batchVars, callVars, checkVars, Goto
  <1>t. /\ pc \in [Threads -> Labels]
        /\ spanBlocks \in [Threads -> SUBSET Blocks] /\ hand \in [Threads -> SUBSET Blocks]
    BY DEF IInv, TypeOK
  <1> SUFFICES ASSUME NEW b \in Blocks, NEW u \in Threads, NEW w \in Threads
               PROVE  /\ b \in spanBlocks'[u] /\ b \in spanBlocks'[w] => u = w
                      /\ pc'[u] = "direct" /\ b \in hand'[u] => b \notin spanBlocks'[w]
    BY DEF CountedOnce
  <1> DEFINE Goal == /\ b \in spanBlocks'[u] /\ b \in spanBlocks'[w] => u = w
                     /\ pc'[u] = "direct" /\ b \in hand'[u] => b \notin spanBlocks'[w]
  <1>h. /\ \A x, y \in Threads : b \in spanBlocks[x] /\ b \in spanBlocks[y] => x = y
        /\ \A x, y \in Threads : pc[x] = "direct" /\ b \in hand[x] => b \notin spanBlocks[y]
    BY DEF CountedOnce
  \* Spans lose blocks, and no block is bumped.
  <1>v. ASSUME \A t \in Threads : spanBlocks'[t] \subseteq spanBlocks[t],
               \A t \in Threads : pc'[t] = "direct" => pc[t] = "direct" /\ hand'[t] = hand[t]
        PROVE  Goal
    BY <1>v, <1>h
  <1>0. CASE UNCHANGED vars
    BY <1>0, <1>v
  <1>1. ASSUME NEW t \in Threads, NEW kind \in Reqs, AllocHit(t, kind) PROVE Goal
    <2> DEFINE n == Block(spanChunk[t], spanCur[t], Size[kind])
    <2>1. ~Counted(n) /\ ~Used(n)
      BY <1>1, HitBlock DEF Unused
    <2>2. spanBlocks' = [spanBlocks EXCEPT ![t] = @ \union {n}] /\ UNCHANGED <<pc, hand>>
      BY <1>1 DEF AllocHit
    <2> HIDE DEF n
    <2>3. CASE b = n
      BY <2>1, <2>2, <2>3, <1>t DEF Counted, Used
    <2>4. CASE b # n
      BY <2>2, <2>4, <1>h, <1>t
    <2> QED BY <2>3, <2>4
  <1>2. ASSUME NEW t \in Threads, InstallSpan(t) PROVE Goal
    <2> DEFINE n == Block(tgt[t], lo[t], Size[req[t]])
    <2>1. ~Counted(n) /\ ~Used(n)
      BY <1>2, CarveBlock DEF Unused
    <2>2. /\ spanBlocks' = [spanBlocks EXCEPT ![t] = {n}] /\ UNCHANGED hand
          /\ pc' = [pc EXCEPT ![t] = "idle"]
      BY <1>2 DEF InstallSpan
    <2> HIDE DEF n
    <2>3. CASE b = n
      BY <2>1, <2>2, <2>3, <1>t DEF Counted, Used
    <2>4. CASE b # n
      BY <2>2, <2>4, <1>h, <1>t
    <2> QED BY <2>3, <2>4
  <1>3. ASSUME NEW t \in Threads, Bump(t) PROVE Goal
    <2> DEFINE n == Block(current, cursor[current], Size[req[t]])
    <2>1. CASE UNCHANGED dataVars /\ pc'[t] # "direct" /\ pc' = [pc EXCEPT ![t] = pc'[t]]
      BY <2>1, <1>v, <1>t
    <2>2. CASE /\ cursor[current] + Size[req[t]] <= Cap
               /\ hand' = [hand EXCEPT ![t] = {n}]
               /\ pc[t] = "bump" /\ pc' = [pc EXCEPT ![t] = "direct"]
               /\ UNCHANGED <<freed, carved, batch, live, spanBlocks>>
      <3>1. ~Counted(n)
        BY <2>2, BumpBlock DEF Unused
      <3>2. /\ hand' = [hand EXCEPT ![t] = {n}] /\ UNCHANGED spanBlocks
            /\ pc' = [pc EXCEPT ![t] = "direct"]
        BY <2>2
      <3> HIDE DEF n
      <3>3. CASE b = n
        BY <3>1, <3>2, <3>3, <1>t DEF Counted
      <3>4. CASE b # n
        BY <3>2, <3>4, <1>h, <1>t
      <3> QED BY <3>3, <3>4
    <2> QED BY <2>1, <2>2, <1>3, BumpCases
  <1>4. ASSUME NEW t \in Threads, RetireSpan(t) \/ ClearSpan(t) PROVE Goal
    BY <1>4, <1>v, <1>t DEF RetireSpan, ClearSpan, FlushSpanBlocks
  <1>5. ASSUME NEW t \in Threads, NEW d \in live, NoteFree(t, d) PROVE Goal
    BY <1>5, <1>v, <1>t DEF NoteFree, AfterFree
  <1>6. ASSUME NEW t \in Threads, FreeStep(t) PROVE Goal
    <2>1. spanBlocks' = spanBlocks /\ \A x \in Threads \ {t} : hand'[x] = hand[x] /\ pc'[x] = pc[x]
      BY <1>6, <1>t DEF FreeStep, OpenBatch, FlushFreeBatch, CheckLatch, CheckPins,
         CheckCarved, Unlatch, EndCheck, Return
    <2>2. pc'[t] # "direct"
      <3>1. ret[t] # "direct"
        BY DEF IInv, TypeOK
      <3>2. CASE OpenBatch(t)
        BY <3>2, <1>t DEF OpenBatch, AfterFree
      <3>3. CASE FlushFreeBatch(t)
        BY <3>1, <3>3, <1>t DEF FlushFreeBatch, Return
      <3>4. CASE CheckLatch(t) \/ CheckPins(t) \/ CheckCarved(t) \/ Unlatch(t)
        BY <3>1, <3>4, <1>t
        DEF CheckLatch, CheckPins, CheckCarved, Unlatch, EndCheck, Return
      <3> QED BY <1>6, <3>2, <3>3, <3>4 DEF FreeStep
    <2> QED BY <2>1, <2>2, <1>v
  <1>7. ASSUME NEW t \in Threads, Alloc(t) \/ FastStep(t) \/ ClearStep(t) \/ Exit(t),
               (\A kind \in Reqs : ~AllocHit(t, kind)), ~InstallSpan(t), ~RetireSpan(t), ~ClearSpan(t)
        PROVE  Goal
    BY <1>7, <1>v, <1>t DEF Alloc, AllocMiss, PublicCall, FastStep, LoadPublished,
       PinSpan, CheckIntent, BackOff, UnpinSpan, CarveShared, ClearStep,
       ClearOwnBlockers, ClearPin, Exit
  <1>8. ASSUME NEW t \in Threads, LockedStep(t) \/ ScanStep(t), ~Bump(t) PROVE Goal
    <2>1. /\ spanBlocks' = spanBlocks /\ pc'[t] # "direct"
          /\ \A x \in Threads \ {t} : hand'[x] = hand[x] /\ pc'[x] = pc[x]
      BY <1>8, <1>t DEF LockedStep, LockArena, NoteDirectCarve, RegisterChunks,
         PublishAndReturn, PublishAfterFailure, LatchExhausted, Advance, Grow,
         ScanStep, MarkIntent, ReadPins, ReadCarved, ReadFreed, UnmarkIntent, Rewind,
         FinishRecycle
    <2> QED BY <2>1, <1>v
  <1> QED BY <1>0, <1>1, <1>2, <1>3, <1>4, <1>5, <1>6, <1>7, <1>8
      DEF Next, Step, FastStep, ClearStep

\* The other half of CountStep: with every chunk registered, no free is lost on its
\* way to freed, and no block is counted into carved twice.
LEMMA CountAllStep ==
  ASSUME IInv, TypeOK', HandInv, CountedOnce, RegisterInv, CountAll, [Next]_vars
  PROVE  CountAll'
  <1> USE DEF vars, dataVars, sharedVars, chunkVars, flagVars, arenaVars,
          tlsVars, spanVars, batchVars, callVars, checkVars, Goto
  <1>t. /\ pc \in [Threads -> Labels]
        /\ carved \in [Chunks -> Nat] /\ freed \in [Chunks -> Nat]
        /\ spanBlocks \in [Threads -> SUBSET Blocks]
        /\ batch \in [Threads -> SUBSET Blocks] /\ hand \in [Threads -> SUBSET Blocks]
        /\ live \in SUBSET Blocks
        /\ ret \in [Threads -> {"idle", "clrspan", "openbatch"}]
    BY DEF IInv, TypeOK
  <1>s. \A c : /\ Owed(c) \in SUBSET Blocks /\ Uncounted(c) \in SUBSET Blocks
               /\ Owed(c)' \in SUBSET Blocks /\ Uncounted(c)' \in SUBSET Blocks
    BY DEF Owed, Uncounted
  <1>n. \A c : /\ Cardinality(Owed(c)) \in Nat /\ Cardinality(Uncounted(c)) \in Nat
               /\ Cardinality(Owed(c)') \in Nat /\ Cardinality(Uncounted(c)') \in Nat
    BY <1>s, BlockCount
  <1> SUFFICES ASSUME NEW c \in Chunks
               PROVE  carved'[c] + Cardinality(Uncounted(c)') <= freed'[c] + Cardinality(Owed(c)')
    BY DEF CountAll
  <1> DEFINE Goal == carved'[c] + Cardinality(Uncounted(c)') <= freed'[c] + Cardinality(Owed(c)')
  <1>c. /\ freed[c] \in Nat /\ carved[c] \in Nat
        /\ carved[c] + Cardinality(Uncounted(c)) <= freed[c] + Cardinality(Owed(c))
    BY <1>t DEF CountAll
  \* Nothing is counted, and no block goes out of sight.
  <1>u. ASSUME UNCHANGED <<freed, carved>>, Owed(c) \subseteq Owed(c)', Uncounted(c)' \subseteq Uncounted(c)
        PROVE  Goal
    <2>1. Cardinality(Owed(c)) <= Cardinality(Owed(c)') /\ Cardinality(Uncounted(c)') <= Cardinality(Uncounted(c))
      BY <1>u, <1>s, BlockSubset
    <2> QED BY <1>u, <1>c, <1>n, <2>1
  <1>v. ASSUME UNCHANGED <<freed, carved, live, batch, hand, spanBlocks>>,
               \A t \in Threads : pc'[t] = "direct" => pc[t] = "direct"
        PROVE  Goal
    <2>1. Owed(c)' = Owed(c) BY <1>v DEF Owed, Used
    <2>2. Uncounted(c)' \subseteq Uncounted(c) BY <1>v DEF Uncounted
    <2> QED BY <1>u, <1>v, <2>1, <2>2
  \* One block comes out of a chunk, and is still to be counted.
  <1>w. ASSUME UNCHANGED <<freed, carved>>, NEW n \in Blocks, n \notin Owed(c),
               Owed(c) \subseteq Owed(c)', n[1] = c => n \in Owed(c)',
               Uncounted(c)' \subseteq Uncounted(c) \union {n},
               n[1] # c => Uncounted(c)' \subseteq Uncounted(c)
        PROVE  Goal
    <2>1. CASE n[1] = c
      <3>1. {n} \in SUBSET Blocks /\ Cardinality({n}) = 1
        BY FS_Singleton
      <3>2. Owed(c) \union {n} \in SUBSET Blocks /\ Uncounted(c) \union {n} \in SUBSET Blocks
        BY <3>1, <1>s
      <3>3. Cardinality(Uncounted(c)') <= Cardinality(Uncounted(c) \union {n})
        BY <1>w, <3>2, BlockSubset
      <3>4. Cardinality(Uncounted(c) \union {n}) <= Cardinality(Uncounted(c)) + 1
        BY <3>1, <1>s, BlockUnion
      <3>5. Owed(c) \union {n} \subseteq Owed(c)' /\ Owed(c) \intersect {n} = {}
        BY <1>w, <2>1
      <3>6. Cardinality(Owed(c) \union {n}) = Cardinality(Owed(c)) + 1
        BY <3>1, <3>5, <1>s, BlockUnion
      <3>7. Cardinality(Owed(c) \union {n}) <= Cardinality(Owed(c)')
        BY <3>5, <1>s, BlockSubset
      <3>8. Cardinality(Owed(c) \union {n}) \in Nat /\ Cardinality(Uncounted(c) \union {n}) \in Nat
        BY <3>2, BlockCount
      <3> QED BY <1>w, <1>c, <1>n, <3>3, <3>4, <3>6, <3>7, <3>8
    <2>2. CASE n[1] # c
      BY <1>w, <1>u, <2>2
    <2> QED BY <2>1, <2>2
  <1>0. CASE UNCHANGED vars
    BY <1>0, <1>v
  <1>1. ASSUME NEW t \in Threads, NEW kind \in Reqs, AllocHit(t, kind) PROVE Goal
    <2> DEFINE n == Block(spanChunk[t], spanCur[t], Size[kind])
    <2>1. n \in Blocks /\ n \notin Owed(c)
      BY <1>1, HitBlock DEF Unused, Owed
    <2>2. UNCHANGED <<freed, carved, batch, hand, pc>> /\ live' = live \union {n}
          /\ spanBlocks' = [spanBlocks EXCEPT ![t] = @ \union {n}]
      BY <1>1 DEF AllocHit
    <2> HIDE DEF n
    <2>3. Owed(c) \subseteq Owed(c)' /\ (n[1] = c => n \in Owed(c)')
      BY <2>1, <2>2 DEF Owed, Used
    <2>4. Uncounted(c)' \subseteq Uncounted(c) \union {n} /\ (n[1] # c => Uncounted(c)' \subseteq Uncounted(c))
      BY <2>2, <1>t DEF Uncounted
    <2> QED BY <2>1, <2>2, <2>3, <2>4, <1>w
  <1>2. ASSUME NEW t \in Threads, InstallSpan(t) PROVE Goal
    <2> DEFINE n == Block(tgt[t], lo[t], Size[req[t]])
    <2>1. n \in Blocks /\ n \notin Owed(c)
      BY <1>2, CarveBlock DEF Unused, Owed
    <2>2. /\ UNCHANGED <<freed, carved, batch, hand>> /\ live' = live \union {n}
          /\ spanBlocks' = [spanBlocks EXCEPT ![t] = {n}]
          /\ pc' = [pc EXCEPT ![t] = "idle"]
      BY <1>2 DEF InstallSpan
    <2> HIDE DEF n
    <2>3. Owed(c) \subseteq Owed(c)' /\ (n[1] = c => n \in Owed(c)')
      BY <2>1, <2>2 DEF Owed, Used
    <2>4. Uncounted(c)' \subseteq Uncounted(c) \union {n} /\ (n[1] # c => Uncounted(c)' \subseteq Uncounted(c))
      BY <2>2, <1>t DEF Uncounted
    <2> QED BY <2>1, <2>2, <2>3, <2>4, <1>w
  <1>3. ASSUME NEW t \in Threads, Bump(t) PROVE Goal
    <2> DEFINE n == Block(current, cursor[current], Size[req[t]])
    <2>1. CASE UNCHANGED dataVars /\ pc'[t] # "direct" /\ pc' = [pc EXCEPT ![t] = pc'[t]]
      BY <2>1, <1>v, <1>t
    <2>2. CASE /\ cursor[current] + Size[req[t]] <= Cap
               /\ hand' = [hand EXCEPT ![t] = {n}]
               /\ pc[t] = "bump" /\ pc' = [pc EXCEPT ![t] = "direct"]
               /\ UNCHANGED <<freed, carved, batch, live, spanBlocks>>
      <3>1. n \in Blocks /\ n \notin Owed(c)
        BY <2>2, BumpBlock DEF Unused, Owed
      <3>2. /\ hand' = [hand EXCEPT ![t] = {n}] /\ hand[t] = {}
            /\ UNCHANGED <<freed, carved, batch, live, spanBlocks>>
            /\ pc' = [pc EXCEPT ![t] = "direct"]
        BY <2>2 DEF HandInv, FlushedLabels
      <3> HIDE DEF n
      <3>3. Owed(c) \subseteq Owed(c)' /\ (n[1] = c => n \in Owed(c)')
        BY <3>1, <3>2, <1>t DEF Owed, Used
      <3>4. Uncounted(c)' \subseteq Uncounted(c) \union {n} /\ (n[1] # c => Uncounted(c)' \subseteq Uncounted(c))
        BY <3>2, <1>t DEF Uncounted
      <3> QED BY <3>1, <3>2, <3>3, <3>4, <1>w
    <2> QED BY <2>1, <2>2, <1>3, BumpCases
  \* Blocks are counted into carved.
  <1>4. ASSUME NEW t \in Threads, RetireSpan(t) \/ ClearSpan(t) PROVE Goal
    <2>1. Owed(c)' = Owed(c)
      BY <1>4 DEF RetireSpan, ClearSpan, Owed, Used
    <2>2. /\ freed' = freed
          /\ carved'[c] = carved[c] + IF c = spanChunk[t] THEN Cardinality(spanBlocks[t]) ELSE 0
      BY <1>4 DEF RetireSpan, ClearSpan, FlushSpanBlocks
    <2>3. spanBlocks[t] \in SUBSET Blocks /\ Cardinality(spanBlocks[t]) \in Nat
      BY <1>t, BlockCount
    <2>4. /\ spanBlocks' = [spanBlocks EXCEPT ![t] = {}] /\ hand' = hand
          /\ \A u \in Threads : pc'[u] = "direct" => pc[u] = "direct"
      BY <1>4, <1>t DEF RetireSpan, ClearSpan, FlushSpanBlocks
    <2>5. Uncounted(c)' \subseteq Uncounted(c)
      BY <2>4, <1>t DEF Uncounted
    <2>6. CASE c # spanChunk[t]
      <3>1. Cardinality(Uncounted(c)') <= Cardinality(Uncounted(c))
        BY <2>5, <1>s, BlockSubset
      <3> QED BY <2>1, <2>2, <2>6, <3>1, <1>c, <1>n
    <2>7. CASE c = spanChunk[t]
      <3>1. spanBlocks[t] \subseteq Uncounted(c)
        BY <2>7, <2>3 DEF Uncounted, IInv, SpanInv
      <3>2. Uncounted(c)' \intersect spanBlocks[t] = {}
        <4>1. ASSUME NEW b \in spanBlocks[t], b \in Uncounted(c)' PROVE FALSE
          <5>1. PICK u \in Threads : b \in spanBlocks'[u] \/ (pc[u] = "direct" /\ b \in hand[u])
            BY <4>1, <2>4 DEF Uncounted
          <5>2. u # t /\ b \in spanBlocks'[u] => b \in spanBlocks[u]
            BY <2>4, <1>t
          <5>3. b \notin spanBlocks'[t] /\ b \in Blocks
            BY <2>3, <2>4, <1>t
          <5> QED BY <5>1, <5>2, <5>3 DEF CountedOnce
        <4> QED BY <4>1
      <3>3. Uncounted(c)' \union spanBlocks[t] \in SUBSET Uncounted(c)
        BY <2>5, <3>1
      <3>4. Cardinality(Uncounted(c)' \union spanBlocks[t]) <= Cardinality(Uncounted(c))
        BY <3>3, <1>s, BlockSubset
      <3>5. Cardinality(Uncounted(c)' \union spanBlocks[t]) = Cardinality(Uncounted(c)') + Cardinality(spanBlocks[t])
        BY <2>3, <3>2, <1>s, BlockUnion
      <3> QED BY <2>1, <2>2, <2>3, <2>7, <3>4, <3>5, <1>c, <1>n
    <2> QED BY <2>6, <2>7
  <1>5. ASSUME NEW t \in Threads, NoteDirectCarve(t) PROVE Goal
    <2>1. Owed(c)' = Owed(c)
      BY <1>5 DEF NoteDirectCarve, Owed, Used
    <2>2. /\ freed' = freed
          /\ carved'[c] = carved[c] \/ (c = current /\ carved'[c] = carved[c] + 1)
      BY <1>5, <1>t DEF NoteDirectCarve
    <2>3. PICK n \in hand[t] : hand[t] = {n} /\ n[1] = current
      BY <1>5 DEF NoteDirectCarve, HandInv, IInv, DirectInv
    <2>4. n \in Blocks /\ {n} \in SUBSET Blocks /\ Cardinality({n}) = 1
      BY <2>3, <1>t, FS_Singleton
    <2>5. /\ UNCHANGED <<spanBlocks, hand>> /\ pc[t] = "direct" /\ pc'[t] # "direct"
          /\ \A u \in Threads \ {t} : pc'[u] = pc[u] /\ pc[u] # "direct"
      BY <1>5, <1>t DEF NoteDirectCarve, IInv, LockInv, LockedLabels
    <2>6. Uncounted(c)' \subseteq Uncounted(c) /\ n \notin Uncounted(c)'
      BY <2>3, <2>4, <2>5 DEF Uncounted, CountedOnce
    <2>7. CASE c # current \/ carved'[c] = carved[c]
      <3>1. Cardinality(Uncounted(c)') <= Cardinality(Uncounted(c))
        BY <2>6, <1>s, BlockSubset
      <3> QED BY <2>1, <2>2, <2>7, <3>1, <1>c, <1>n
    <2>8. CASE c = current /\ carved'[c] = carved[c] + 1
      <3>1. n \in Uncounted(c)
        BY <2>3, <2>4, <2>5, <2>8 DEF Uncounted
      <3>2. Uncounted(c)' \union {n} \in SUBSET Uncounted(c) /\ Uncounted(c)' \intersect {n} = {}
        BY <2>6, <3>1
      <3>3. Cardinality(Uncounted(c)' \union {n}) <= Cardinality(Uncounted(c))
        BY <3>2, <1>s, BlockSubset
      <3>4. Cardinality(Uncounted(c)' \union {n}) = Cardinality(Uncounted(c)') + 1
        BY <2>4, <3>2, <1>s, BlockUnion
      <3> QED BY <2>1, <2>2, <2>8, <3>3, <3>4, <1>c, <1>n
    <2> QED BY <2>2, <2>7, <2>8
  \* Blocks change hands, and are counted into freed.
  <1>6. ASSUME NEW t \in Threads, NEW b \in live, NoteFree(t, b) PROVE Goal
    <2>0. hand[t] = {}
      BY <1>6 DEF NoteFree, HandInv, FlushedLabels
    <2>1. Owed(c) \subseteq Owed(c)'
      <3>1. ASSUME NEW d \in Blocks, Used(d) PROVE Used(d)'
        <4>1. /\ live' = live \ {b}
              /\ \A u \in Threads : batch[u] \subseteq batch'[u] /\ hand[u] \subseteq hand'[u]
              /\ b \in batch'[t] \/ b \in hand'[t]
          BY <1>6, <2>0, <1>t DEF NoteFree
        <4> QED BY <3>1, <4>1 DEF Used
      <3> QED BY <3>1 DEF Owed
    <2>2. Uncounted(c)' \subseteq Uncounted(c)
      BY <1>6, <1>t DEF NoteFree, AfterFree, Uncounted
    <2> QED BY <1>6, <2>1, <2>2, <1>u DEF NoteFree
  <1>7. ASSUME NEW t \in Threads, OpenBatch(t) PROVE Goal
    <2>1. PICK b \in hand[t] : hand[t] = {b} /\ b[1] \in registered
      BY <1>7 DEF OpenBatch, HandInv, RegisterInv, FreshLabels
    <2>2. batch[t] = {} /\ live' = live /\ hand' = [hand EXCEPT ![t] = {}]
          /\ batch' = [batch EXCEPT ![t] = {b}]
      BY <1>7, <2>1 DEF OpenBatch, HandInv, FlushedLabels
    <2>3. Owed(c) \subseteq Owed(c)'
      <3>1. ASSUME NEW d \in Blocks, Used(d) PROVE Used(d)'
        BY <3>1, <2>1, <2>2, <1>t DEF Used
      <3> QED BY <3>1 DEF Owed
    <2>4. Uncounted(c)' \subseteq Uncounted(c)
      BY <1>7, <1>t DEF OpenBatch, AfterFree, Uncounted
    <2> QED BY <1>7, <2>3, <2>4, <1>u DEF OpenBatch
  <1>8. ASSUME NEW t \in Threads, PublishAndReturn(t) PROVE Goal
    <2>1. Owed(c) \subseteq Owed(c)'
      <3>1. ASSUME NEW d \in Blocks, Used(d) PROVE Used(d)'
        BY <1>8, <3>1, <1>t DEF PublishAndReturn, Used
      <3> QED BY <3>1 DEF Owed
    <2>2. Uncounted(c)' \subseteq Uncounted(c)
      BY <1>8, <1>t DEF PublishAndReturn, Uncounted
    <2> QED BY <1>8, <2>1, <2>2, <1>u DEF PublishAndReturn
  <1>9. ASSUME NEW t \in Threads, FlushFreeBatch(t) PROVE Goal
    <2>0. \A u \in Threads : pc'[u] = "direct" => pc[u] = "direct"
      BY <1>9, <1>t DEF FlushFreeBatch, Return
    <2>1. CASE batch[t] = {}
      BY <1>9, <2>0, <2>1, <1>v, <1>t DEF FlushFreeBatch, Return
    <2>2. CASE batch[t] # {}
      <3>1. Uncounted(c)' \subseteq Uncounted(c) /\ carved' = carved
        BY <1>9, <2>0, <2>2, <1>t DEF FlushFreeBatch, Uncounted
      <3>2. Cardinality(Uncounted(c)') <= Cardinality(Uncounted(c))
        BY <3>1, <1>s, BlockSubset
      <3>3. batch[t] \in SUBSET Blocks /\ Cardinality(batch[t]) \in Nat
        BY <1>t, BlockCount
      <3>4. batchBase[t] \in Chunks /\ \A b \in batch[t] : b[1] = batchBase[t]
        BY <2>2, <3>3, BlockFacts DEF IInv, BatchInv
      <3>5. freed'[c] = freed[c] + IF c = batchBase[t] THEN Cardinality(batch[t]) ELSE 0
        BY <1>9, <2>2, <1>t DEF FlushFreeBatch
      <3>6. Owed(c) \subseteq Owed(c)' \union batch[t]
        BY <1>9, <2>2, <1>t DEF FlushFreeBatch, Owed, Used
      <3>7. CASE c # batchBase[t]
        <4>1. Owed(c) \subseteq Owed(c)'
          BY <3>4, <3>6, <3>7 DEF Owed
        <4>2. Cardinality(Owed(c)) <= Cardinality(Owed(c)')
          BY <4>1, <1>s, BlockSubset
        <4> QED BY <3>1, <3>2, <3>5, <3>7, <4>2, <1>c, <1>n
      <3>8. CASE c = batchBase[t]
        <4>1. Owed(c)' \union batch[t] \in SUBSET Blocks
          BY <3>3, <1>s
        <4>2. Cardinality(Owed(c)) <= Cardinality(Owed(c)' \union batch[t])
          BY <3>6, <4>1, BlockSubset
        <4>3. Cardinality(Owed(c)' \union batch[t]) <= Cardinality(Owed(c)') + Cardinality(batch[t])
          BY <3>3, <1>s, BlockUnion
        <4>4. Cardinality(Owed(c)' \union batch[t]) \in Nat
          BY <4>1, BlockCount
        <4>5. freed'[c] = freed[c] + Cardinality(batch[t]) /\ carved'[c] = carved[c]
          BY <3>1, <3>5, <3>8
        <4> QED BY <3>2, <3>3, <4>2, <4>3, <4>4, <4>5, <1>c, <1>n
      <3> QED BY <3>7, <3>8
    <2> QED BY <2>1, <2>2
  <1>10. ASSUME NEW t \in Threads, Alloc(t) \/ FastStep(t) \/ ClearStep(t) \/ Exit(t),
               (\A kind \in Reqs : ~AllocHit(t, kind)), ~InstallSpan(t), ~RetireSpan(t), ~ClearSpan(t)
        PROVE Goal
    BY <1>10, <1>v, <1>t DEF Alloc, AllocMiss, PublicCall, FastStep,
       LoadPublished, PinSpan, CheckIntent, BackOff, UnpinSpan, CarveShared, ClearStep,
       ClearOwnBlockers, ClearPin, Exit
  <1>11. ASSUME NEW t \in Threads, FreeStep(t), ~OpenBatch(t), ~FlushFreeBatch(t) PROVE Goal
    <2>1. ret[t] # "direct"
      BY <1>t
    <2> QED BY <1>11, <2>1, <1>v, <1>t DEF FreeStep, CheckLatch, CheckPins, CheckCarved,
       Unlatch, EndCheck, Return
  <1>12. ASSUME NEW t \in Threads, LockedStep(t) \/ ScanStep(t), ~Bump(t),
                ~NoteDirectCarve(t), ~PublishAndReturn(t)
         PROVE Goal
    BY <1>12, <1>v, <1>t DEF LockedStep, LockArena, RegisterChunks,
       PublishAfterFailure, LatchExhausted, Advance, Grow,
       ScanStep, MarkIntent, ReadPins, ReadCarved, ReadFreed, UnmarkIntent, Rewind,
       FinishRecycle
  <1> QED BY <1>0, <1>1, <1>2, <1>3, <1>4, <1>5, <1>6, <1>7, <1>8, <1>9, <1>10,
        <1>11, <1>12
      DEF Next, Step, FastStep, FreeStep, ClearStep

\* The three hold in every reachable state, once requests fit a chunk and come
\* through the routed path.
LEMMA RegisteredAndCounted ==
  ASSUME RoutedOnly
  PROVE  Spec => [](RegisterInv /\ CountedOnce /\ CountAll)
  <1> DEFINE Extra == RegisterInv /\ CountedOnce /\ CountAll
  <1>1. Init => Extra
    <2> SUFFICES ASSUME Init PROVE Extra
      OBVIOUS
    <2>1. RegisterInv
      BY DEF Init, RegisterInv, Mapped, LiveIsRegistered, NoChunk, FreshLabels,
         SpentLabels, ScanLabels, PinLabels, LockedLabels
    <2>2. CountedOnce
      BY DEF Init, CountedOnce
    <2>3. ASSUME NEW c \in Chunks
          PROVE  carved[c] + Cardinality(Uncounted(c)) <= freed[c] + Cardinality(Owed(c))
      <3>1. Uncounted(c) = {} /\ Owed(c) = {}
        BY DEF Init, Uncounted, Owed, Used
      <3>2. carved[c] = 0 /\ freed[c] = 0
        BY DEF Init
      <3> QED BY <3>1, <3>2, FS_EmptySet
    <2> QED BY <2>1, <2>2, <2>3 DEF CountAll
  <1>2. IInv /\ IInv' /\ HandInv /\ Extra /\ [Next]_vars => Extra'
    BY RegisterStep, CountedOnceStep, CountAllStep DEF IInv
  <1> QED BY <1>1, <1>2, Inductive, HandsAlways, PTL DEF Spec

\* Registration cannot lag behind use when every request fits a chunk: no block is
\* ever in use whose chunk its free would not find.
THEOREM LiveRegistered ==
  ASSUME RoutedOnly
  PROVE  Spec => []LiveIsRegistered
  <1>1. RegisterInv => LiveIsRegistered
    BY DEF RegisterInv
  <1> QED BY <1>1, RegisteredAndCounted, PTL

\* A chunk that nobody uses or touches has no pin, and its two counters agree.
LEMMA Recyclable ==
  ASSUME IInv, CountAll PROVE QuiescentIsRecyclable
  <1> SUFFICES ASSUME NEW c \in Chunks, recycleOn, \A b \in live : b[1] # c,
                      \A t \in Threads : ~Touches(t, c)
               PROVE  spans[c] = 0 /\ freed[c] = carved[c]
    BY DEF QuiescentIsRecyclable
  <1>1. Openers(c) = {} /\ Carvers(c) = {}
    BY DEF Touches, Openers, Carvers, PinLabels
  <1>2. Owed(c) = {}
    BY DEF Owed, Used, Touches
  <1>3. Uncounted(c) = {}
    BY DEF Uncounted, Touches, IInv, SpanInv
  <1>4. spans[c] = 0
    BY <1>1, FS_EmptySet DEF IInv, PinInv
  <1>5. Cardinality(Owed(c)) = 0 /\ Cardinality(Uncounted(c)) = 0
    BY <1>2, <1>3, FS_EmptySet
  <1>6. /\ freed[c] + Cardinality(Owed(c)) <= carved[c] + Cardinality(Uncounted(c))
        /\ carved[c] + Cardinality(Uncounted(c)) <= freed[c] + Cardinality(Owed(c))
    BY DEF IInv, CountInv, CountAll
  <1>7. freed[c] \in Nat /\ carved[c] \in Nat
    BY DEF IInv, TypeOK
  <1> QED BY <1>4, <1>5, <1>6, <1>7

\* No chunk leaks while its threads live: once its blocks are all freed and flushed, and no
\* thread has a span or a carve there, the recycle scan would find it without pins
\* and with equal counters, whatever the interleaving of carves, spans and frees
\* that led there.
THEOREM NoChunkLeaks ==
  ASSUME RoutedOnly
  PROVE  Spec => []QuiescentIsRecyclable
  <1>1. IInv /\ CountAll => QuiescentIsRecyclable
    BY Recyclable DEF IInv
  <1> QED BY <1>1, Inductive, RegisteredAndCounted, PTL

===============================================================================
