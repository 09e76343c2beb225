---------------------------- MODULE ArenaReclaim ----------------------------
(***************************************************************************)
(* The bump arena with chunk recycling: BumpArena (arena.rs) and the       *)
(* lock-free span path of Lohalloc (lib.rs) that shares its chunks.        *)
(*                                                                         *)
(* A chunk is a row of Cap cells; a block <<chunk, from, to>> is the cells *)
(* from .. to - 1 of it.  A thread serves blocks from its own span, a      *)
(* window carved from the published chunk by one CAS.  A chunk the Mutex   *)
(* path has left behind can be rewound once every block handed out of it   *)
(* has been freed; nothing in the free path takes the lock, so the scan    *)
(* decides this from four atomics: intent, spans, carved and freed.        *)
(*                                                                         *)
(* One action per access to a shared atomic; steps that touch only         *)
(* thread-local or lock-protected state are joined to a neighbouring       *)
(* access.  Atomics are sequentially consistent here.  Counters that only  *)
(* one thread can see before it flushes them (span.blocks, the pending     *)
(* free batch) are the set of blocks they count.  A local that is no       *)
(* longer read goes back to its initial value.                             *)
(***************************************************************************)
EXTENDS Integers, FiniteSets

CONSTANTS
  Threads,        \* threads that allocate and free
  MaxChunks,      \* BumpArena.max_chunks
  Cap,            \* cells in a chunk
  SpanCells,      \* cells in a span (ARENA_SPAN_BYTES)
  LargeCells,     \* cells of a large request
  SelfFlush,      \* LOHALLOC_ARENA_SELF_FLUSH
  Mortal,         \* threads that may exit
  PublicCallers,  \* threads that call the public arena_alloc
  Reqs,           \* request kinds in use, a subset of RequestKinds
  CarveBound      \* bound: no call starts once a chunk has carved this many

Chunks  == 0 .. MaxChunks - 1
Cells   == 0 .. Cap - 1
Blocks  == {b \in Chunks \X Cells \X (1 .. Cap) : b[2] < b[3]}
NoChunk == -1
Nobody  == "nobody"    \* the arena Mutex is free
RequestKinds == {"small", "large", "oversize"}

\* The cells a request takes; an oversize one does not fit an empty chunk.
Size == [small |-> 1, large |-> LargeCells, oversize |-> Cap + 1, public |-> 1]

\* The block of n cells at offset i of chunk c.
Block(c, i, n) == <<c, i, i + n>>

CellsOf(b) == {b[1]} \X (b[2] .. b[3] - 1)

ASSUME ArenaAssumption ==
  /\ IsFiniteSet(Threads) /\ Nobody \notin Threads
  /\ MaxChunks \in Nat \ {0} /\ Cap \in Nat \ {0}
  /\ SpanCells \in Nat \ {0} /\ LargeCells \in 1 .. Cap
  /\ SelfFlush \in BOOLEAN
  /\ Mortal \subseteq Threads /\ PublicCallers \subseteq Threads
  /\ Reqs \subseteq RequestKinds
  /\ CarveBound \in Nat

VARIABLES
  \* chunks and the published descriptor: atomics read without the lock
  cursor, intent, spans, carved, freed, published, exhausted, registered,
  \* BumpArena, protected by the arena Mutex
  lock, len, current, recycleOn, scan, seenCarved,
  \* thread-local storage: the open span and the pending free batch
  spanChunk, spanCur, spanEnd, spanBlocks, batchBase, batch,
  \* the call each thread is in
  pc, ret, req, tgt, lo, seenFreed, hand,
  \* the blocks the program holds
  live

chunkVars == <<cursor, intent, spans, carved, freed>>
flagVars  == <<published, exhausted, registered>>
arenaVars == <<lock, len, current, recycleOn, scan, seenCarved>>
spanVars  == <<spanChunk, spanCur, spanEnd, spanBlocks>>
batchVars == <<batchBase, batch>>
callVars  == <<ret, req, tgt, lo, seenFreed, hand>>
sharedVars == <<chunkVars, flagVars>>
tlsVars    == <<spanVars, batchVars>>
dataVars   == <<sharedVars, arenaVars, tlsVars, callVars, live>>
vars       == <<dataVars, pc>>

Goto(t, from, to) == pc[t] = from /\ pc' = [pc EXCEPT ![t] = to]

Labels == {"idle", "dead",
  "load", "pin", "intent", "cas", "unpin", "retire", "install",    \* the fast path
  "slow", "clrspan", "clrpin", "lock",                     \* own blockers
  "flush", "quiesce", "qpins", "qcarved", "unlatch", "openbatch",              \* free batches
  "bump", "direct", "register", "publish", "fail", "latch",  \* the lock held
  "advance", "scan", "readpins", "readcarved", "readfreed",
  "rewind", "rewound", "unmark", "grow"}

Init ==
  /\ cursor = [c \in Chunks |-> 0] /\ intent = [c \in Chunks |-> FALSE]
  /\ spans  = [c \in Chunks |-> 0]
  /\ carved = [c \in Chunks |-> 0] /\ freed = [c \in Chunks |-> 0]
  /\ published = NoChunk /\ exhausted = FALSE /\ registered = {}
  /\ lock = Nobody /\ len = 0 /\ current = 0 /\ recycleOn = FALSE
  /\ scan = 0 /\ seenCarved = 0
  /\ spanChunk = [t \in Threads |-> NoChunk]
  /\ spanCur = [t \in Threads |-> 0] /\ spanEnd = [t \in Threads |-> 0]
  /\ spanBlocks = [t \in Threads |-> {}]
  /\ batchBase = [t \in Threads |-> NoChunk]
  /\ batch = [t \in Threads |-> {}]
  /\ pc = [t \in Threads |-> "idle"] /\ ret = [t \in Threads |-> "idle"]
  /\ req = [t \in Threads |-> "small"] /\ tgt = [t \in Threads |-> 0]
  /\ lo = [t \in Threads |-> 0] /\ seenFreed = [t \in Threads |-> 0]
  /\ hand = [t \in Threads |-> {}]
  /\ live = {}

-----------------------------------------------------------------------------
(* Allocation without the lock: arena_alloc_fast and arena_carve_shared.    *)

MayCall == \A c \in Chunks : carved[c] < CarveBound

\* The request fits the open window: a Cell bump and blocks + 1.
AllocHit(t, kind) ==
  /\ pc[t] = "idle" /\ ~exhausted /\ spanCur[t] + Size[kind] <= spanEnd[t]
  /\ LET b == Block(spanChunk[t], spanCur[t], Size[kind]) IN
       /\ live' = live \union {b}
       /\ spanBlocks' = [spanBlocks EXCEPT ![t] = @ \union {b}]
  /\ spanCur' = [spanCur EXCEPT ![t] = @ + Size[kind]]
  /\ UNCHANGED <<sharedVars, arenaVars, batchVars, callVars, pc, spanChunk,
                 spanEnd>>

\* The window misses, or is too small: carve a new one.
AllocMiss(t, kind) ==
  /\ Goto(t, "idle", "load")
  /\ ~exhausted /\ MayCall
  /\ spanCur[t] + Size[kind] > spanEnd[t]
  /\ req' = [req EXCEPT ![t] = kind]
  /\ UNCHANGED <<sharedVars, arenaVars, tlsVars, ret, tgt, lo, seenFreed, hand,
                 live>>

\* The published descriptor: null before the arena exists.
LoadPublished(t) ==
  /\ pc[t] = "load"
  /\ IF published = NoChunk
       THEN Goto(t, "load", "slow") /\ UNCHANGED tgt
       ELSE Goto(t, "load", "pin") /\ tgt' = [tgt EXCEPT ![t] = published]
  /\ UNCHANGED <<sharedVars, arenaVars, tlsVars, ret, req, lo, seenFreed, hand,
                 live>>

\* Half of the Dekker pair: pin first ...
PinSpan(t) ==
  /\ Goto(t, "pin", "intent")
  /\ spans' = [spans EXCEPT ![tgt[t]] = @ + 1]
  /\ UNCHANGED <<cursor, intent, carved, freed, flagVars, arenaVars, tlsVars,
                 callVars, live>>

\* Mutation: the carver does not look for a recycler.
RecyclerIgnored(t) == FALSE

RecyclerSeen(t) == intent[tgt[t]]

\* Mutation: a carve that backs off keeps its pin.
BackOffPinned == "slow"

\* A carve that backs off releases its pin before it takes the slow path.
BackOff == "unpin"

\* ... then look for a recycler.
CheckIntent(t) ==
  /\ Goto(t, "intent", IF RecyclerSeen(t) THEN BackOff ELSE "cas")
  /\ UNCHANGED dataVars

\* Back off: release the pin and leave the decision to the slow path.
UnpinSpan(t) ==
  /\ Goto(t, "unpin", "slow")
  /\ spans' = [spans EXCEPT ![tgt[t]] = @ - 1]
  /\ tgt' = [tgt EXCEPT ![t] = 0]
  /\ UNCHANGED <<cursor, intent, carved, freed, flagVars, arenaVars, tlsVars,
                 ret, req, lo, seenFreed, hand, live>>

\* A carve is a span, or the whole of a request that is larger than one.
Want(t) == IF Size[req[t]] > SpanCells THEN Size[req[t]] ELSE SpanCells

Carvable(t) == cursor[tgt[t]] + Want(t) <= Cap

\* The CAS loop: the successful exchange, or the load that finds no room.
CarveShared(t) ==
  \/ /\ Carvable(t) /\ Goto(t, "cas", "retire")
     /\ lo' = [lo EXCEPT ![t] = cursor[tgt[t]]]
     /\ cursor' = [cursor EXCEPT ![tgt[t]] = @ + Want(t)]
     /\ UNCHANGED <<intent, spans, carved, freed, flagVars, arenaVars,
                    tlsVars, ret, req, tgt, seenFreed, hand, live>>
  \/ /\ ~Carvable(t) /\ Goto(t, "cas", BackOff)
     /\ UNCHANGED dataVars

\* blocks of the outgoing span, counted into its chunk's carved.
FlushSpanBlocks(t) ==
  /\ carved' = [c \in Chunks |->
       carved[c] + IF c = spanChunk[t] THEN Cardinality(spanBlocks[t]) ELSE 0]
  /\ spanBlocks' = [spanBlocks EXCEPT ![t] = {}]

\* A pin released, if there is an open span to release.
UnpinOld(t) == spans' = [c \in Chunks |->
                 spans[c] - IF c = spanChunk[t] THEN 1 ELSE 0]

\* Retire the outgoing span: its blocks first, its pin after them.
RetireSpan(t) ==
  /\ Goto(t, "retire", "install")
  /\ FlushSpanBlocks(t)
  /\ UNCHANGED <<cursor, intent, spans, freed, flagVars, arenaVars, batchVars,
                 callVars, spanChunk, spanCur, spanEnd, live>>

\* Mutation: the block just served stays in the window.
WindowFromFirst(t) == lo[t]

WindowStart(t) == lo[t] + Size[req[t]]

\* The new span inherits the pin of its carve and serves its first block.
InstallSpan(t) ==
  /\ Goto(t, "install", "idle")
  /\ UnpinOld(t)
  /\ spanChunk' = [spanChunk EXCEPT ![t] = tgt[t]]
  /\ spanCur' = [spanCur EXCEPT ![t] = WindowStart(t)]
  /\ spanEnd' = [spanEnd EXCEPT ![t] = lo[t] + Want(t)]
  /\ LET b == Block(tgt[t], lo[t], Size[req[t]]) IN
       /\ spanBlocks' = [spanBlocks EXCEPT ![t] = {b}]
       /\ live' = live \union {b}
  /\ tgt' = [tgt EXCEPT ![t] = 0] /\ lo' = [lo EXCEPT ![t] = 0]
  /\ req' = [req EXCEPT ![t] = "small"]
  /\ UNCHANGED <<cursor, intent, carved, freed, flagVars, arenaVars,
                 batchVars, ret, seenFreed, hand>>

-----------------------------------------------------------------------------
(* Freeing: arena_note_free and arena_flush_free_batch.                     *)

\* After a free has joined a batch.
AfterFree == IF exhausted THEN "flush" ELSE "idle"

\* The program frees a block it holds, on any thread.  A block of the open
\* batch's chunk joins it, and is flushed at once while the arena is latched;
\* a block of another chunk flushes the open batch first.
NoteFree(t, b) ==
  /\ live' = live \ {b}
  /\ IF b[1] = batchBase[t]
       THEN /\ batch' = [batch EXCEPT ![t] = @ \union {b}]
            /\ Goto(t, "idle", AfterFree)
            /\ UNCHANGED <<hand, ret>>
       ELSE /\ hand' = [hand EXCEPT ![t] = {b}]
            /\ ret' = [ret EXCEPT ![t] = "openbatch"]
            /\ Goto(t, "idle", "flush")
            /\ UNCHANGED batch
  /\ UNCHANGED <<sharedVars, arenaVars, spanVars, batchBase, req, tgt, lo,
                 seenFreed>>

\* A new batch for the block's chunk; a registry miss drops the block from
\* the accounting and keeps the old, empty batch.
OpenBatch(t) ==
  /\ hand' = [hand EXCEPT ![t] = {}]
  /\ \E b \in hand[t] :
       IF b[1] \in registered
         THEN /\ batchBase' = [batchBase EXCEPT ![t] = b[1]]
              /\ batch' = [batch EXCEPT ![t] = {b}]
              /\ Goto(t, "openbatch", AfterFree)
         ELSE Goto(t, "openbatch", "idle") /\ UNCHANGED batchVars
  /\ UNCHANGED <<sharedVars, arenaVars, spanVars, ret, req, tgt, lo,
                 seenFreed, live>>

\* Back to the caller of the flush.
Return(t, from) == /\ Goto(t, from, ret[t])
                   /\ ret' = [ret EXCEPT ![t] = "idle"]

\* The flush found nothing to unlatch.
EndCheck(t, from) == /\ Return(t, from)
                     /\ seenFreed' = [seenFreed EXCEPT ![t] = 0]

checkVars == <<sharedVars, arenaVars, tlsVars, req, tgt, lo, hand, live>>

\* One fetch_add of the whole batch; an empty one returns at once.
FlushFreeBatch(t) ==
  \/ /\ batch[t] # {} /\ Goto(t, "flush", "quiesce")
     /\ freed' = [freed EXCEPT ![batchBase[t]] = @ + Cardinality(batch[t])]
     /\ seenFreed' = [seenFreed EXCEPT
          ![t] = freed[batchBase[t]] + Cardinality(batch[t])]
     /\ batch' = [batch EXCEPT ![t] = {}]
     /\ UNCHANGED <<cursor, intent, spans, carved, flagVars, arenaVars,
                    spanVars, batchBase, ret, req, tgt, lo, hand, live>>
  \/ /\ batch[t] = {} /\ Return(t, "flush")
     /\ UNCHANGED <<sharedVars, arenaVars, tlsVars, req, tgt, lo, seenFreed,
                    hand, live>>

\* Has this flush made the chunk quiescent?  Three plain loads, one by one.
CheckLatch(t) ==
  /\ pc[t] = "quiesce"
  /\ IF exhausted THEN Goto(t, "quiesce", "qpins") /\ UNCHANGED <<ret, seenFreed>>
                  ELSE EndCheck(t, "quiesce")
  /\ UNCHANGED checkVars

CheckPins(t) ==
  /\ pc[t] = "qpins"
  /\ IF spans[batchBase[t]] = 0
       THEN Goto(t, "qpins", "qcarved") /\ UNCHANGED <<ret, seenFreed>>
       ELSE EndCheck(t, "qpins")
  /\ UNCHANGED checkVars

CheckCarved(t) ==
  /\ pc[t] = "qcarved"
  /\ IF seenFreed[t] = carved[batchBase[t]]
       THEN /\ Goto(t, "qcarved", "unlatch") /\ UNCHANGED ret
            /\ seenFreed' = [seenFreed EXCEPT ![t] = 0]
       ELSE EndCheck(t, "qcarved")
  /\ UNCHANGED checkVars

Unlatch(t) ==
  /\ Return(t, "unlatch")
  /\ exhausted' = FALSE
  /\ UNCHANGED <<chunkVars, published, registered, arenaVars, tlsVars, req,
                 tgt, lo, seenFreed, hand, live>>

-----------------------------------------------------------------------------
(* The slow path: arena_clear_own_blockers, then BumpArena::alloc under the *)
(* Mutex.                                                                   *)

\* Flush the free batch first; without the self-flush only the lock is left.
ClearOwnBlockers(t) ==
  /\ Goto(t, "slow", IF SelfFlush THEN "flush" ELSE "lock")
  /\ ret' = [ret EXCEPT ![t] = IF SelfFlush THEN "clrspan" ELSE "idle"]
  /\ UNCHANGED <<sharedVars, arenaVars, tlsVars, req, tgt, lo, seenFreed,
                 hand, live>>

ClearSpan(t) ==
  /\ Goto(t, "clrspan", "clrpin")
  /\ FlushSpanBlocks(t)
  /\ UNCHANGED <<cursor, intent, spans, freed, flagVars, arenaVars, batchVars,
                 callVars, spanChunk, spanCur, spanEnd, live>>

ClearPin(t) ==
  /\ Goto(t, "clrpin", "lock")
  /\ UnpinOld(t)
  /\ spanChunk' = [spanChunk EXCEPT ![t] = NoChunk]
  /\ spanCur' = [spanCur EXCEPT ![t] = 1] /\ spanEnd' = [spanEnd EXCEPT ![t] = 0]
  /\ UNCHANGED <<cursor, intent, carved, freed, flagVars, arenaVars,
                 batchVars, callVars, spanBlocks, live>>

\* The public arena_alloc goes straight to the Mutex.
PublicCall(t) ==
  /\ t \in PublicCallers /\ MayCall
  /\ Goto(t, "idle", "lock")
  /\ req' = [req EXCEPT ![t] = "public"]
  /\ UNCHANGED <<sharedVars, arenaVars, tlsVars, ret, tgt, lo, seenFreed,
                 hand, live>>

\* Take the Mutex, mapping the first chunk on first use (or failing to).
\* Only the routed path arms recycling on the arena it creates.
LockArena(t) ==
  \/ /\ lock = Nobody /\ lock' = t
     /\ Goto(t, "lock", "bump")
     /\ IF len = 0
          THEN len' = 1 /\ current' = 0 /\ recycleOn' = (req[t] # "public")
          ELSE UNCHANGED <<len, current, recycleOn>>
     /\ UNCHANGED <<sharedVars, scan, seenCarved, tlsVars, callVars, live>>
  \/ /\ lock = Nobody /\ len = 0
     /\ Goto(t, "lock", "idle")
     /\ req' = [req EXCEPT ![t] = "small"]
     /\ UNCHANGED <<sharedVars, arenaVars, tlsVars, ret, tgt, lo, seenFreed,
                    hand, live>>

\* Mutation: the bump is lost.
CursorNotBumped(t) == cursor[current]

CursorBumped(t) == cursor[current] + Size[req[t]]

\* Chunk::alloc on the current chunk: it shares the cursor with the carves.
\* What no empty chunk could hold fails at once.
Bump(t) ==
  \/ /\ cursor[current] + Size[req[t]] <= Cap
     /\ Goto(t, "bump", "direct")
     /\ hand' = [hand EXCEPT
          ![t] = {Block(current, cursor[current], Size[req[t]])}]
     /\ cursor' = [cursor EXCEPT ![current] = CursorBumped(t)]
     /\ UNCHANGED <<intent, spans, carved, freed, flagVars, arenaVars,
                    tlsVars, ret, req, tgt, lo, seenFreed, live>>
  \/ /\ cursor[current] + Size[req[t]] > Cap
     /\ Goto(t, "bump", IF Size[req[t]] > Cap THEN "fail" ELSE "advance")
     /\ UNCHANGED dataVars

\* note_direct_carve.  Only the routed path goes on to register.
NoteDirectCarve(t) ==
  /\ Goto(t, "direct", IF req[t] = "public" THEN "publish" ELSE "register")
  /\ carved' = IF recycleOn THEN [carved EXCEPT ![current] = @ + 1] ELSE carved
  /\ UNCHANGED <<cursor, intent, spans, freed, flagVars, arenaVars, tlsVars,
                 callVars, live>>

\* Mutation: chunks are registered only when the arena is created.
RegisteredOnce == IF published = NoChunk THEN 0 .. len - 1 ELSE registered

\* Every mapped chunk, whether it is in the registry or not.
Registering == 0 .. len - 1

RegisterChunks(t) ==
  /\ Goto(t, "register", "publish")
  /\ registered' = Registering
  /\ UNCHANGED <<chunkVars, published, exhausted, arenaVars, tlsVars, callVars,
                 live>>

\* publish_arena_chunk; the block escapes and the Mutex is released.
PublishAndReturn(t) ==
  /\ Goto(t, "publish", "idle")
  /\ published' = current
  /\ live' = live \union hand[t]
  /\ hand' = [hand EXCEPT ![t] = {}]
  /\ lock' = Nobody
  /\ req' = [req EXCEPT ![t] = "small"]
  /\ UNCHANGED <<chunkVars, exhausted, registered, len, current, recycleOn,
                 scan, seenCarved, tlsVars, ret, tgt, lo, seenFreed>>

\* A failed allocation still publishes the current chunk ...
PublishAfterFailure(t) ==
  /\ Goto(t, "fail", "latch")
  /\ published' = current
  /\ UNCHANGED <<chunkVars, exhausted, registered, arenaVars, tlsVars,
                 callVars, live>>

\* Mutation: a failing call forgets to release the Mutex.
LockAfterFailureKept == lock

LockAfterFailure == Nobody

\* ... and latches exhaustion when a fitting request met the chunk cap.
LatchExhausted(t) ==
  /\ Goto(t, "latch", "idle")
  /\ exhausted' = (exhausted \/ (len = MaxChunks /\ req[t] \in {"small", "large"}))
  /\ lock' = LockAfterFailure
  /\ req' = [req EXCEPT ![t] = "small"]
  /\ UNCHANGED <<chunkVars, published, registered, len, current, recycleOn,
                 scan, seenCarved, tlsVars, ret, tgt, lo, seenFreed, hand,
                 live>>

\* Reuse the next mapped chunk; past the last one, look for one to recycle.
Advance(t) ==
  /\ IF current + 1 < len
       THEN /\ current' = current + 1 /\ UNCHANGED scan
            /\ Goto(t, "advance", "bump")
       ELSE /\ scan' = 0 /\ UNCHANGED current
            /\ Goto(t, "advance", IF recycleOn THEN "scan" ELSE "grow")
  /\ UNCHANGED <<sharedVars, lock, len, recycleOn, seenCarved, tlsVars,
                 callVars, live>>

\* try_recycle: skip the current chunk and untouched ones, mark the others.
MarkIntent(t) ==
  \/ /\ scan < len /\ scan # current /\ cursor[scan] # 0
     /\ Goto(t, "scan", "readpins")
     /\ intent' = [intent EXCEPT ![scan] = TRUE]
     /\ UNCHANGED <<cursor, spans, carved, freed, flagVars, arenaVars,
                    tlsVars, callVars, live>>
  \/ /\ scan < len /\ (scan = current \/ cursor[scan] = 0)
     /\ Goto(t, "scan", "scan")
     /\ scan' = scan + 1
     /\ UNCHANGED <<sharedVars, lock, len, current, recycleOn, seenCarved,
                    tlsVars, callVars, live>>
  \/ /\ scan >= len
     /\ Goto(t, "scan", "grow")
     /\ scan' = 0
     /\ UNCHANGED <<sharedVars, lock, len, current, recycleOn, seenCarved,
                    tlsVars, callVars, live>>

\* Mutation: the recycler ignores the pins.
PinsIgnored(c) == FALSE

Pinned(c) == spans[c] # 0

ReadPins(t) ==
  /\ Goto(t, "readpins", IF Pinned(scan) THEN "unmark" ELSE "readcarved")
  /\ UNCHANGED dataVars

ReadCarved(t) ==
  /\ Goto(t, "readcarved", "readfreed")
  /\ seenCarved' = carved[scan]
  /\ UNCHANGED <<sharedVars, lock, len, current, recycleOn, scan, tlsVars,
                 callVars, live>>

Quiescent(c) == seenCarved # 0 /\ freed[c] = seenCarved

ReadFreed(t) ==
  /\ Goto(t, "readfreed", IF Quiescent(scan) THEN "rewind" ELSE "unmark")
  /\ seenCarved' = 0
  /\ UNCHANGED <<sharedVars, lock, len, current, recycleOn, scan, tlsVars,
                 callVars, live>>

\* Not recyclable: withdraw the intent and try the next chunk.
UnmarkIntent(t) ==
  /\ Goto(t, "unmark", "scan")
  /\ intent' = [intent EXCEPT ![scan] = FALSE]
  /\ scan' = scan + 1
  /\ UNCHANGED <<cursor, spans, carved, freed, flagVars, lock, len, current,
                 recycleOn, seenCarved, tlsVars, callVars, live>>

Rewind(t) ==
  /\ Goto(t, "rewind", "rewound")
  /\ cursor' = [cursor EXCEPT ![scan] = 0]
  /\ UNCHANGED <<intent, spans, carved, freed, flagVars, arenaVars, tlsVars,
                 callVars, live>>

FinishRecycle(t) ==
  /\ Goto(t, "rewound", "bump")
  /\ intent' = [intent EXCEPT ![scan] = FALSE]
  /\ current' = scan /\ scan' = 0
  /\ UNCHANGED <<cursor, spans, carved, freed, flagVars, lock, len, recycleOn,
                 seenCarved, tlsVars, callVars, live>>

\* Map one more chunk below the cap; mapping may fail.
Grow(t) ==
  \/ /\ len < MaxChunks /\ Goto(t, "grow", "bump")
     /\ len' = len + 1 /\ current' = current + 1
     /\ UNCHANGED <<sharedVars, lock, recycleOn, scan, seenCarved, tlsVars,
                    callVars, live>>
  \/ /\ Goto(t, "grow", "fail")
     /\ UNCHANGED dataVars

\* A thread exits between calls: its storage has no destructor.
Exit(t) ==
  /\ t \in Mortal /\ Goto(t, "idle", "dead")
  /\ UNCHANGED dataVars

-----------------------------------------------------------------------------
Alloc(t) == \/ PublicCall(t)
            \/ \E kind \in Reqs : AllocHit(t, kind) \/ AllocMiss(t, kind)

FastStep(t) == \/ LoadPublished(t) \/ PinSpan(t) \/ CheckIntent(t)
               \/ UnpinSpan(t) \/ CarveShared(t) \/ RetireSpan(t)
               \/ InstallSpan(t)

FreeStep(t) == \/ OpenBatch(t) \/ FlushFreeBatch(t) \/ CheckLatch(t)
               \/ CheckPins(t) \/ CheckCarved(t) \/ Unlatch(t)

ClearStep(t) == \/ ClearOwnBlockers(t) \/ ClearSpan(t) \/ ClearPin(t)

LockedStep(t) == \/ LockArena(t) \/ Bump(t) \/ NoteDirectCarve(t)
                 \/ RegisterChunks(t) \/ PublishAndReturn(t) \/ PublishAfterFailure(t)
                 \/ LatchExhausted(t) \/ Advance(t) \/ Grow(t)

ScanStep(t) == \/ MarkIntent(t) \/ ReadPins(t) \/ ReadCarved(t)
               \/ ReadFreed(t) \/ UnmarkIntent(t) \/ Rewind(t)
               \/ FinishRecycle(t)

\* The steps of a call once it has begun.
Step(t) == \/ FastStep(t) \/ FreeStep(t) \/ ClearStep(t)
           \/ LockedStep(t) \/ ScanStep(t)

Next == \E t \in Threads :
          \/ Alloc(t) \/ Step(t) \/ Exit(t)
          \/ \E b \in live : NoteFree(t, b)

Spec == Init /\ [][Next]_vars

\* A thread inside a call takes its next step when it can, and the Mutex does
\* not pass over one waiter for ever.  Nothing obliges the program to allocate
\* or to free, or a thread to exit.
Fairness == \A t \in Threads : WF_vars(Step(t)) /\ SF_vars(LockArena(t))

FairSpec == Spec /\ Fairness

-----------------------------------------------------------------------------
(* Properties.                                                              *)

TypeOK ==
  /\ cursor \in [Chunks -> 0 .. Cap] /\ intent \in [Chunks -> BOOLEAN]
  /\ spans \in [Chunks -> Nat]
  /\ carved \in [Chunks -> Nat] /\ freed \in [Chunks -> Nat]
  /\ published \in Chunks \union {NoChunk} /\ exhausted \in BOOLEAN
  /\ registered \in SUBSET Chunks
  /\ lock \in Threads \union {Nobody}
  /\ len \in 0 .. MaxChunks /\ current \in Chunks /\ recycleOn \in BOOLEAN
  /\ scan \in 0 .. MaxChunks /\ seenCarved \in Nat
  /\ spanChunk \in [Threads -> Chunks \union {NoChunk}]
  /\ spanCur \in [Threads -> Nat] /\ spanEnd \in [Threads -> 0 .. Cap]
  /\ spanBlocks \in [Threads -> SUBSET Blocks]
  /\ batchBase \in [Threads -> Chunks \union {NoChunk}]
  /\ batch \in [Threads -> SUBSET Blocks]
  /\ pc \in [Threads -> Labels]
  /\ ret \in [Threads -> {"idle", "clrspan", "openbatch"}]
  /\ req \in [Threads -> RequestKinds \union {"public"}]
  /\ tgt \in [Threads -> Chunks] /\ lo \in [Threads -> 0 .. Cap]
  /\ seenFreed \in [Threads -> Nat]
  /\ hand \in [Threads -> SUBSET Blocks]
  /\ live \in SUBSET Blocks

\* Cells set aside for t: what is left of its open span, a span it has carved
\* and not yet installed, a block bumped under the Mutex and not yet returned.
Window(t)  == {spanChunk[t]} \X (spanCur[t] .. spanEnd[t] - 1)
Carving(t) == IF pc[t] \in {"retire", "install"}
                THEN {tgt[t]} \X (lo[t] .. lo[t] + Want(t) - 1) ELSE {}
Direct(t)  == IF pc[t] \in {"direct", "register", "publish"}
                THEN UNION {CellsOf(b) : b \in hand[t]} ELSE {}
Reserved(t) == Window(t) \union Carving(t) \union Direct(t)
AllReserved == UNION {Reserved(t) : t \in Threads}
LiveCells   == UNION {CellsOf(b) : b \in live}

\* No cell is handed out twice: two blocks the program holds never overlap;
\* what any thread is about to serve overlaps no block the program holds and
\* nothing another thread is about to serve, and lies below its chunk's cursor,
\* where no later carve can reach it.
NoDoubleService ==
  /\ \A b, d \in live : b # d => CellsOf(b) \intersect CellsOf(d) = {}
  /\ \A t \in Threads :
       /\ Reserved(t) \intersect LiveCells = {}
       /\ Window(t) \intersect Carving(t) = {}
  /\ \A t, u \in Threads : t # u => Reserved(t) \intersect Reserved(u) = {}
  /\ \A x \in LiveCells \union AllReserved : x[2] < cursor[x[1]]

\* A chunk is rewound only when the program holds none of its blocks and no
\* thread has a cell of it set aside (the Dekker argument of ChunkMeta).
RewindIsSafe ==
  [][\A c \in Chunks : cursor'[c] < cursor[c] =>
       \A x \in LiveCells \union AllReserved : x[1] # c]_vars

\* No chunk leaks: once its blocks are freed, and no thread has a window, a
\* pin, a pending free or a block in flight there, the recycle scan would take
\* it.  (A thread that died with a span open has a pin there for ever.)
Touches(t, c) ==
  \/ spanChunk[t] = c
  \/ \E b \in batch[t] \union hand[t] : b[1] = c
  \/ tgt[t] = c /\ pc[t] \in {"intent", "unpin", "cas", "retire", "install"}

QuiescentIsRecyclable ==
  \A c \in Chunks :
    /\ recycleOn
    /\ \A b \in live : b[1] # c
    /\ \A t \in Threads : ~Touches(t, c)
    => spans[c] = 0 /\ freed[c] = carved[c]

\* What try_recycle says of the pair it reads from a chunk without pins:
\* although frees keep arriving between the loads, freed is never ahead of
\* the carved read before it.
FreedWithinCarved ==
  \A t \in Threads : pc[t] = "readfreed" => freed[scan] <= seenCarved

\* Every block the program holds is in a registered chunk, so its free finds
\* the chunk without reading a header it may not have.
LiveIsRegistered == \A b \in live : b[1] \in registered

\* The exhaustion latch is not the end of the arena: once every block has been
\* freed it opens again.
LatchClears == (exhausted /\ live = {}) ~> ~exhausted

\* Every call returns: no endless scan, no Mutex left locked.
CallsReturn == \A t \in Threads : []<>(pc[t] \in {"idle", "dead"})

\* The Mutex is held by the one thread that is inside it.
LockedLabels == {"bump", "direct", "register", "publish", "fail", "latch",
  "advance", "scan", "readpins", "readcarved", "readfreed", "rewind", "rewound",
  "unmark", "grow"}

\* The refinement mapping: below the cursor, and set aside by no thread.
Spent == {x \in Chunks \X Cells : x[2] < cursor[x[1]]} \ AllReserved

Abstract == INSTANCE RegionArena WITH held <- live, spent <- Spent

\* The recycling arena keeps the promise of a plain region arena.
ImplementsRegionArena == Abstract!Spec

=============================================================================
