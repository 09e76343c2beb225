----------------------------- MODULE ArenaReset -----------------------------
(***************************************************************************)
(* A forced reset of the arena (reset_arena of lib.rs) while threads       *)
(* allocate from it, by their spans, by carving the published chunk and by *)
(* the slow path under the Mutex.                                          *)
(*                                                                         *)
(* A request takes one cell, a span SpanCells.  Chunks are not recycled:   *)
(* that is ArenaReclaim, and a reset ends it.                              *)
(***************************************************************************)
EXTENDS Integers, FiniteSets, Sequences

CONSTANTS
  ArenaThreads,    \* threads that allocate from the arena
  MaxChunks,       \* chunks the arena may map
  Cells,           \* cells of a chunk
  SpanCells,       \* cells of a span: ARENA_SPAN_BYTES
  MaxResets,       \* bound: resets
  Resetter,        \* the thread that resets
  NoOne            \* no thread, no chunk

\* Chunks and spans have room, and the parties are told apart.
ASSUME ArenaShape ==
  /\ MaxChunks \in Nat \ {0} /\ Cells \in Nat \ {0} /\ SpanCells \in Nat \ {0}
  /\ NoOne \notin ArenaThreads \cup (1 .. MaxChunks) /\ Resetter # NoOne
  /\ Resetter \notin ArenaThreads

VARIABLES
  epoch,           \* arena_epoch
  exhausted,       \* arena_exhausted
  published,       \* the chunk of the published descriptor
  mapped, current, \* the chunks there are, and the one BumpArena allocates from
  filled,          \* cells below the cursor of each chunk
  lock,            \* who holds the arena's Mutex
  span,            \* the span of each thread: [epoch, chunk, cursor, end]
  calling,         \* where each thread is in its call
  call,            \* what its call knows: the epoch it has read, the chunk of the
                   \* descriptor it has loaded or of its block, and the block's cell
  resets, resetAt, rewound, \* how many resets began, the step of this one, its progress
  began,           \* history: the resets that had ended when the call began, or -1
  served           \* history: how often each cell was served since the last reset

arVars == <<epoch, exhausted, published, mapped, current, filled, lock, span, calling, call,
            resets, resetAt, rewound, began, served>>

Chunks   == 1 .. MaxChunks
NotCalling == [seen |-> 0, chunk |-> NoOne, cell |-> 0]
NoSpan   == [epoch |-> 0, chunk |-> NoOne, cursor |-> 0, end |-> 0]
Unserved == [c \in Chunks |-> [n \in 1 .. Cells |-> 0]]

ArInit ==
  /\ epoch = 0 /\ exhausted = FALSE /\ published = NoOne
  /\ mapped = 0 /\ current = 1
  /\ filled = [c \in Chunks |-> 0]
  /\ lock = NoOne
  /\ span = [t \in ArenaThreads |-> NoSpan]
  /\ calling = [t \in ArenaThreads |-> "idle"]
  /\ call = [t \in ArenaThreads |-> NotCalling]
  /\ resets = 0 /\ resetAt = "idle" /\ rewound = 0
  /\ began = [t \in ArenaThreads |-> -1]
  /\ served = Unserved

Goes(t, to) == calling' = [calling EXCEPT ![t] = to]

\* A call ends, and with it what it knew.
Ends(t) ==
  /\ Goes(t, "idle")
  /\ call' = [call EXCEPT ![t] = NotCalling]
  /\ began' = [began EXCEPT ![t] = -1]

\* A call that ends hands out its cell.  What a reset overlaps does not count: the
\* reset invalidates it.
HandsOut(t, chunk, cell) ==
  /\ served' = IF began[t] = resets /\ resetAt = "idle"
               THEN [served EXCEPT ![chunk][cell] = @ + 1] ELSE served
  /\ Ends(t)

\* arena_alloc_fast: the latch, and then the epoch, are read first.
BeginCall(t) ==
  /\ calling[t] = "idle" /\ ~exhausted
  /\ call' = [call EXCEPT ![t].seen = epoch]
  /\ began' = [began EXCEPT ![t] = IF resetAt = "idle" THEN resets ELSE -1]
  /\ Goes(t, "span")
  /\ UNCHANGED <<epoch, exhausted, published, mapped, current, filled, lock, span,
                 resets, resetAt, rewound, served>>

SpanServes(t) == span[t].epoch = call[t].seen /\ span[t].cursor < span[t].end

SpanHit(t) ==
  /\ calling[t] = "span" /\ SpanServes(t)
  /\ span' = [span EXCEPT ![t].cursor = @ + 1]
  /\ HandsOut(t, span[t].chunk, span[t].cursor + 1)
  /\ UNCHANGED <<epoch, exhausted, published, mapped, current, filled, lock, resets,
                 resetAt, rewound>>

\* arena_carve_shared: the descriptor is loaded, and then the cursor is moved.
LoadDescriptor(t) ==
  /\ calling[t] = "span" /\ ~SpanServes(t)
  /\ call' = [call EXCEPT ![t].chunk = published]
  /\ Goes(t, IF published = NoOne THEN "slow" ELSE "carve")
  /\ UNCHANGED <<epoch, exhausted, published, mapped, current, filled, lock, span,
                 resets, resetAt, rewound, began, served>>

Carve(t) ==
  /\ calling[t] = "carve"
  /\ LET c == call[t].chunk
     IN  /\ filled[c] + SpanCells <= Cells
         /\ filled' = [filled EXCEPT ![c] = @ + SpanCells]
         /\ span' = [span EXCEPT ![t] = [epoch |-> call[t].seen, chunk |-> c,
                                         cursor |-> filled[c] + 1,
                                         end |-> filled[c] + SpanCells]]
         /\ HandsOut(t, c, filled[c] + 1)
  /\ UNCHANGED <<epoch, exhausted, published, mapped, current, lock, resets, resetAt,
                 rewound>>

CarveFails(t) ==
  /\ calling[t] = "carve" /\ filled[call[t].chunk] + SpanCells > Cells
  /\ Goes(t, "slow")
  /\ UNCHANGED <<epoch, exhausted, published, mapped, current, filled, lock, span, call,
                 resets, resetAt, rewound, began, served>>

\* BumpArena::alloc under the Mutex: the current chunk, the next ones, a new one.
Fitting == {c \in Chunks : c >= current /\ filled[c] < Cells}

SlowAlloc(t) ==
  /\ calling[t] = "slow" /\ lock = NoOne
  /\ \E c \in Fitting :
       /\ \A d \in Fitting : c <= d
       /\ current' = c
       /\ mapped' = IF c > mapped THEN c ELSE mapped
       /\ filled' = [filled EXCEPT ![c] = @ + 1]
       /\ call' = [call EXCEPT ![t].chunk = c, ![t].cell = filled[c] + 1]
  /\ lock' = t
  /\ Goes(t, "publish")
  /\ UNCHANGED <<epoch, exhausted, published, span, resets, resetAt, rewound, began,
                 served>>

PublishCurrent(t) ==
  /\ calling[t] = "publish"
  /\ published' = current /\ lock' = NoOne
  /\ HandsOut(t, call[t].chunk, call[t].cell)
  /\ UNCHANGED <<epoch, exhausted, mapped, current, filled, span, resets, resetAt,
                 rewound>>

\* Nothing fits: the call falls through, and later ones will at once.
Latch(t) ==
  /\ calling[t] = "slow" /\ lock = NoOne /\ Fitting = {}
  /\ current' = mapped /\ published' = mapped
  /\ exhausted' = TRUE
  /\ Ends(t)
  /\ UNCHANGED <<epoch, mapped, filled, lock, span, resets, resetAt, rewound, served>>

\* reset_arena: with the Mutex, the chunks are rewound one by one, then the epoch moves,
\* then the first chunk is published and the latch is cleared.
Lock ==
  /\ resetAt = "idle" /\ lock = NoOne /\ resets < MaxResets
  /\ lock' = Resetter
  /\ resets' = resets + 1 /\ resetAt' = "rewind" /\ rewound' = 0
  /\ served' = Unserved
  /\ UNCHANGED <<epoch, exhausted, published, mapped, current, filled, span, calling, call,
                 began>>

Rewind ==
  /\ resetAt = "rewind" /\ rewound < mapped
  /\ rewound' = rewound + 1
  /\ filled' = [filled EXCEPT ![rewound + 1] = 0]
  /\ UNCHANGED <<epoch, exhausted, published, mapped, current, lock, span, calling, call,
                 resets, resetAt, began, served>>

\* Mutation: the descriptor moves on, the epoch does not.
ForgetsEpoch ==
  /\ resetAt = "rewind" /\ rewound = mapped
  /\ current' = 1
  /\ resetAt' = "republish"
  /\ UNCHANGED <<epoch, exhausted, published, mapped, filled, lock, span, calling, call,
                 resets, rewound, began, served>>

BumpEpoch ==
  /\ resetAt = "rewind" /\ rewound = mapped
  /\ current' = 1
  /\ epoch' = epoch + 1
  /\ resetAt' = "republish"
  /\ UNCHANGED <<exhausted, published, mapped, filled, lock, span, calling, call, resets,
                 rewound, began, served>>

Republish ==
  /\ resetAt = "republish"
  /\ published' = IF mapped = 0 THEN published ELSE current
  /\ resetAt' = "unlatch"
  /\ UNCHANGED <<epoch, exhausted, mapped, current, filled, lock, span, calling, call,
                 resets, rewound, began, served>>

Unlatch ==
  /\ resetAt = "unlatch"
  /\ exhausted' = FALSE /\ lock' = NoOne /\ resetAt' = "idle"
  /\ UNCHANGED <<epoch, published, mapped, current, filled, span, calling, call, resets,
                 rewound, began, served>>

ArNext ==
  \/ \E t \in ArenaThreads : \/ BeginCall(t) \/ SpanHit(t) \/ LoadDescriptor(t) \/ Carve(t)
                        \/ CarveFails(t) \/ SlowAlloc(t) \/ PublishCurrent(t) \/ Latch(t)
  \/ Lock \/ Rewind \/ BumpEpoch \/ Republish \/ Unlatch

ArSpec == ArInit /\ [][ArNext]_arVars

\* What is served after a reset stays whole (lib.rs 2923-2934, 3846-3874): of the calls
\* that began after the last reset ended, whatever spans, descriptors and epochs
\* threads had kept from before, no two are given the same cell; and the arena is
\* latched exhausted only when its last chunk is full.
ResetStartsAfresh ==
  /\ \A c \in Chunks, n \in 1 .. Cells : served[c][n] <= 1
  /\ exhausted /\ resetAt = "idle" => current = MaxChunks /\ filled[MaxChunks] = Cells

=============================================================================
