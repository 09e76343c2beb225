----------------------------- MODULE RegionArena -----------------------------
(***************************************************************************)
(* What the arena promises its callers: between two rewinds of a chunk a   *)
(* cell of it is part of one block at most, and a chunk is rewound only    *)
(* when the program holds no block of it.  Cells may be given up without   *)
(* ever having been handed out.                                            *)
(***************************************************************************)
CONSTANTS
  Chunks,
  Blocks,   \* blocks <<chunk, from, to>>
  CellsOf(_)

VARIABLES
  held,     \* the blocks the program holds
  spent     \* the cells that may not be handed out until a rewind

Init == held = {} /\ spent = {}

\* Hand b out; the window it came from may be the end of an older one.
Serve(b) ==
  /\ CellsOf(b) \intersect spent = {}
  /\ held' = held \union {b}
  /\ spent \union CellsOf(b) \subseteq spent'

Release(b) == held' = held \ {b} /\ UNCHANGED spent

Abandon == spent \subseteq spent' /\ UNCHANGED held

Rewind(c) ==
  /\ \A b \in held : b[1] # c
  /\ spent' = {x \in spent : x[1] # c}
  /\ UNCHANGED held

Next ==
  \/ \E b \in Blocks : Serve(b)
  \/ \E b \in held : Release(b)
  \/ Abandon
  \/ \E c \in Chunks : Rewind(c)

Spec == Init /\ [][Next]_<<held, spent>>

=============================================================================
