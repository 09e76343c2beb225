---------------------------- MODULE ArenaInvariant ----------------------------
(***************************************************************************)
(* The inductive invariants of ArenaReclaim: what has to be said of every  *)
(* reachable state so that NoDoubleService and RewindIsSafe follow from    *)
(* one step (IInv), that a step of the arena is a step of RegionArena      *)
(* (HandInv), and that no chunk is lost to the scan (RegisterInv,          *)
(* CountedOnce and CountAll).  The named parts are proved, one lemma each, *)
(* in ArenaReclaimProofs.                                                  *)
(***************************************************************************)
EXTENDS ArenaReclaim

PinLabels    == {"intent", "unpin", "cas", "retire", "install"}
CarveLabels  == {"retire", "install"}
ScanLabels   == {"readpins", "readcarved", "readfreed", "rewind", "rewound",
                 "unmark"}
ClaimLabels  == {"readcarved", "readfreed", "rewind", "rewound"}

\* The Mutex: whoever is inside holds it, and the arena exists.
LockInv ==
  \A t \in Threads : pc[t] \in LockedLabels => lock = t /\ len # 0

\* BumpArena: current and scan point at mapped chunks.
ArenaInv ==
  /\ current < len \/ (len = 0 /\ current = 0)
  /\ \A t \in Threads :
       /\ pc[t] = "scan" => scan <= len
       /\ pc[t] \in ScanLabels => scan < len /\ intent[scan]
       /\ pc[t] \in ScanLabels \union {"scan"} => recycleOn

\* A block bumped and not yet counted is one block of the current chunk.
DirectInv ==
  \A t \in Threads :
    pc[t] = "direct" => \A b, d \in hand[t] : b = d /\ b[1] = current

\* spans counts the pins: one for an open span, one for a carve on its way.
Openers(c) == {t \in Threads : spanChunk[t] = c}
Carvers(c) == {t \in Threads : pc[t] \in PinLabels /\ tgt[t] = c}

PinInv ==
  \A c \in Chunks :
    spans[c] = Cardinality(Openers(c)) + Cardinality(Carvers(c))

\* The windows, and the blocks counted in them.
SpanInv ==
  \A t \in Threads :
    /\ spanChunk[t] = NoChunk => spanEnd[t] <= spanCur[t]
    /\ spanChunk[t] # NoChunk => spanEnd[t] <= cursor[spanChunk[t]]
    /\ pc[t] \in CarveLabels => lo[t] + Want(t) <= cursor[tgt[t]]
    /\ \A b \in spanBlocks[t] : b[1] = spanChunk[t]
    /\ pc[t] \in {"install", "clrpin"} => spanBlocks[t] = {}

BatchInv == \A t \in Threads : \A b \in batch[t] : b[1] = batchBase[t]

\* The roles of a cell, and of a block.
ChunkCells == Chunks \X Cells
InWindow(t, x)  == /\ x[1] = spanChunk[t]
                   /\ spanCur[t] <= x[2] /\ x[2] < spanEnd[t]
InCarving(t, x) == /\ pc[t] \in CarveLabels /\ x[1] = tgt[t]
                   /\ lo[t] <= x[2] /\ x[2] < lo[t] + Want(t)
Covers(b, x)    == b[1] = x[1] /\ b[2] <= x[2] /\ x[2] < b[3]
Used(b) == b \in live \/ \E t \in Threads : b \in batch[t] \union hand[t]

\* A block has one role at most: held, in one thread's pending frees, in one
\* thread's hand, in one window, in one carve.
HeldOnce ==
  \A b \in Blocks : \A t, u \in Threads :
    /\ b \in live => b \notin batch[t] /\ b \notin hand[t]
    /\ b \in batch[t] => b \notin hand[u]
    /\ t # u => /\ ~(b \in batch[t] /\ b \in batch[u])
                /\ ~(b \in hand[t] /\ b \in hand[u])

\* Blocks in use do not overlap.
Disjoint ==
  \A b \in Blocks : Used(b) =>
    \A d \in Blocks : Used(d) =>
      \A x \in ChunkCells : Covers(b, x) /\ Covers(d, x) => b = d

\* A cell is in one window at most, or in one carve.
ReservedOnce ==
  \A x \in ChunkCells : \A t, u \in Threads :
    /\ t # u => /\ ~(InWindow(t, x) /\ InWindow(u, x))
                /\ ~(InCarving(t, x) /\ InCarving(u, x))
    /\ ~(InWindow(t, x) /\ InCarving(u, x))

\* A cell of a window or a carve is in no block.
Counted(b) == \E t \in Threads : b \in spanBlocks[t]

Fresh ==
  \A x \in ChunkCells : \A t \in Threads :
    InWindow(t, x) \/ InCarving(t, x) =>
      \A b \in Blocks : Covers(b, x) => ~Used(b) /\ ~Counted(b)

\* Nothing in use lies above the cursor.
BelowCursor ==
  \A b \in Blocks :
    Used(b) \/ Counted(b) => b[3] <= cursor[b[1]]

\* The two cumulative counters: what is out of a chunk is covered by carved
\* and by the blocks still to be counted into it.
Uncounted(c) == {b \in Blocks : /\ b[1] = c
                                /\ \E t \in Threads :
                                     \/ b \in spanBlocks[t]
                                     \/ pc[t] = "direct" /\ b \in hand[t]}
Owed(c) == {b \in Blocks : b[1] = c /\ Used(b)}

CountInv ==
  recycleOn \/ len = 0 =>
    \A c \in Chunks :
      freed[c] + Cardinality(Owed(c)) <= carved[c] + Cardinality(Uncounted(c))

\* From the moment the scan has read no pin, the chunk is its own; once the
\* counters have agreed, nothing of it is in use.
ClaimInv ==
  \A t \in Threads :
    /\ pc[t] \in ClaimLabels =>
         \A u \in Threads :
           /\ spanChunk[u] # scan
           /\ pc[u] \in {"cas", "retire", "install"} => tgt[u] # scan
    /\ pc[t] = "readfreed" => seenCarved = carved[scan]
    /\ pc[t] = "rewind" => Owed(scan) = {}

IInv == /\ TypeOK /\ LockInv /\ ArenaInv /\ DirectInv /\ PinInv /\ SpanInv
        /\ BatchInv /\ HeldOnce /\ Disjoint /\ ReservedOnce /\ Fresh /\ BelowCursor
        /\ CountInv /\ ClaimInv

(* What the refinement and the two properties about leaks need beside IInv. *)

\* A thread has one block in hand at most, and only where it is about to count,
\* publish or batch it; a batch is opened when the last one has been flushed.
FlushedLabels == {"quiesce", "qpins", "qcarved", "unlatch", "openbatch"}

HandInv ==
  \A t \in Threads :
    /\ \A b, d \in hand[t] : b = d
    /\ hand[t] # {} => \/ pc[t] \in {"direct", "register", "publish", "openbatch"}
                       \/ pc[t] \in FlushedLabels \union {"flush"} /\ ret[t] = "openbatch"
    /\ pc[t] = "direct" => hand[t] # {}
    /\ pc[t] \in FlushedLabels => batch[t] = {}

\* A block still to be counted into carved will be counted once.
CountedOnce ==
  \A b \in Blocks : \A t, u \in Threads :
    /\ b \in spanBlocks[t] /\ b \in spanBlocks[u] => t = u
    /\ pc[t] = "direct" /\ b \in hand[t] => b \notin spanBlocks[u]

\* Requests that fit a chunk, all of them through the routed path.
RoutedOnly == PublicCallers = {} /\ Reqs \subseteq {"small", "large"}

\* With such requests: who has left the Mutex, or is past the registration, has
\* left every mapped chunk registered; one that has just mapped the current chunk
\* finds it empty, so its bump fits.
Mapped      == 0 .. len - 1
FreshLabels == {"bump", "direct", "register"}
SpentLabels == ScanLabels \union {"scan", "grow"}

RegisterInv ==
  /\ registered \subseteq Mapped
  /\ lock = Nobody => Mapped \subseteq registered
  /\ published = NoChunk \/ published \in registered
  /\ \A c \in Chunks : len <= c => cursor[c] = 0
  /\ \A t \in Threads :
       /\ req[t] \in {"small", "large"}
       /\ pc[t] \in LockedLabels \ FreshLabels => Mapped \subseteq registered
       /\ pc[t] \in FreshLabels => Mapped \ {current} \subseteq registered
       /\ pc[t] = "bump" => current \in registered \/ cursor[current] = 0
       /\ pc[t] \in SpentLabels => len <= current + 1
       /\ pc[t] \in {"pin"} \union PinLabels => tgt[t] \in registered
       /\ spanChunk[t] = NoChunk \/ spanChunk[t] \in registered
       /\ \A b \in hand[t] : b[1] \in registered \/ (pc[t] \in FreshLabels /\ b[1] = current)
  /\ LiveIsRegistered

\* The other half of CountInv: no free is lost.
CountAll ==
  \A c \in Chunks :
    carved[c] + Cardinality(Uncounted(c)) <= freed[c] + Cardinality(Owed(c))

=============================================================================
