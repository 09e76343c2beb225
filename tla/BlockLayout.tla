----------------------------- MODULE BlockLayout ----------------------------
(***************************************************************************)
(* What the C entry points (lohalloc-cabi) ask for and what a block then   *)
(* has room for (lib.rs): rounding, padding, headers, usable sizes and     *)
(* what a reallocation copies.                                             *)
(*                                                                         *)
(* One block at a time, in bytes.  Which backend serves, and which of its  *)
(* blocks, is left open (BlockRouting has the choice); a mapping may fail. *)
(***************************************************************************)
EXTENDS Integers, FiniteSetsExt

CONSTANTS
  HeaderSize, MinAlign, SlabMax, BuddyMax, ChunkBytes, Page,
  MinBlock, MinHeaderFree,  \* smallest buddy block, smallest without a header
  SizeLimit, WordLimit,     \* isize::MAX, usize::MAX
  Sizes, Counts, Alignments,\* arguments of the calls
  Cursors,                  \* where an arena chunk's cursor may stand
  Powers                    \* the powers of two that a word holds

\* Of two powers of two the smaller divides the greater.  The sizes of blocks and pages
\* and the alignments are powers, and no block is smaller than the least alignment.
ASSUME LayoutShape ==
  /\ Powers \subseteq Nat \ {0} /\ \A a, b \in Powers : a <= b => b % a = 0
  /\ Alignments \cup {8, MinAlign, MinBlock, Page, SlabMax, BuddyMax} \subseteq Powers
  /\ MinAlign <= MinBlock /\ HeaderSize \in Nat \ {0}
  /\ Sizes \cup Counts \cup Cursors \cup {ChunkBytes} \subseteq Nat

VARIABLES
  block,   \* the block the program holds
  demand,   \* the size and alignment it asked for
  intact   \* whether the last reallocation preserved what it had to

blVars == <<block, demand, intact>>

NoBlock == [tier |-> "none"]
NoDemand == [size |-> 0, align |-> 1]

BlInit == block = NoBlock /\ demand = NoDemand /\ intact = TRUE

Larger(a, b)  == IF a > b THEN a ELSE b
Smaller(a, b) == IF a < b THEN a ELSE b

(***************************************************************************)
(* Rounding.                                                               *)
(***************************************************************************)
AlignUp(n, align) == ((n + align - 1) \div align) * align
HeaderPad(align)  == AlignUp(HeaderSize, align)
RoundUpPow2(n)    == Min({p \in Powers : p >= n})
SlabClass(size)   == Larger(8, RoundUpPow2(size))
Stride(class)     == AlignUp(class, MinAlign)
BuddyBlock(size)  == Larger(MinBlock, RoundUpPow2(size))

(***************************************************************************)
(* The blocks a request can be given.                                      *)
(***************************************************************************)

\* write_header: the user's pointer is pad bytes into the block.
Placed(tier, header, start, end, size, align) ==
  [tier |-> tier, header |-> header, start |-> start, end |-> end,
   user |-> IF header THEN start + HeaderPad(align) ELSE start,
   total |-> size + HeaderPad(align), pad |-> HeaderPad(align), request |-> size]

\* Blocks lie at multiples of the stride of their class, and of their size.
FromSlab(size, align, header) ==
  LET class == SlabClass(IF header THEN size + HeaderPad(align) ELSE size)
  IN  {Placed("slab", header, k * Stride(class), (k + 1) * Stride(class), size, align)
         : k \in {i \in {0, 3} : size + HeaderPad(align) <= SlabMax}}

FromBuddy(size, align, header) ==
  LET bytes == BuddyBlock(IF header THEN size + HeaderPad(align) ELSE size)
  IN  {Placed("buddy", header, k * bytes, (k + 1) * bytes, size, align)
         : k \in {i \in {0, 3} : /\ size + HeaderPad(align) <= BuddyMax
                                 /\ header \/ bytes >= MinHeaderFree}}

\* BumpArena::alloc
FromArena(size, align, header) ==
  LET request == IF header THEN size + HeaderPad(align) ELSE size
      fits    == {c \in Cursors : AlignUp(c, align) + request <= ChunkBytes}
  IN  {Placed("arena", header, AlignUp(c, align), AlignUp(c, align) + request,
              size, align) : c \in fits}

\* alloc_pages: the mapping is aligned by hand to more than a page.
FromSystem(size, align) ==
  LET need   == AlignUp(size + HeaderPad(align), Page)
      bytes == IF align <= Page THEN need
               ELSE AlignUp(size + HeaderPad(align) + align, Page)
  IN  {Placed("system", TRUE, AlignUp(base, Larger(align, Page)), base + bytes,
              size, align) : base \in {0, Page}}

\* Without a header only at the natural alignment.
Blocks(size, align) ==
  FromSystem(size, align) \cup
  UNION {FromSlab(size, align, header) \cup FromBuddy(size, align, header)
           \cup FromArena(size, align, header)
           : header \in {h \in BOOLEAN : h \/ align <= MinAlign}}

\* Layout::from_size_align
LayoutFits(size, align) == size <= SizeLimit - (align - 1)

\* GlobalAlloc::alloc, of a layout.
Served(size, align) == Blocks(Larger(size, 1), Larger(align, MinAlign))

(***************************************************************************)
(* What is known of a block afterwards.                                    *)
(***************************************************************************)

\* usable_size: the class, the order, nothing, or what the header says.
Usable(b) ==
  IF b.header THEN Larger(b.total - b.pad, 0)
  ELSE CASE b.tier = "slab"  -> SlabClass(b.request)
         [] b.tier = "buddy" -> BuddyBlock(b.request)
         [] OTHER            -> 0

\* usable_size_for_realloc: in the arena, what is left of the chunk.
CopyBound(b) ==
  IF b.tier = "arena" /\ ~b.header THEN ChunkBytes - b.user ELSE Usable(b)

\* Mutation: a block that is said to be large enough is kept.
InPlaceAnywhere(b) == TRUE

\* ReallocToken::allows_in_place
AllowsInPlace(b) == ~(b.tier = "arena" /\ ~b.header)

(***************************************************************************)
(* The entry points.                                                       *)
(***************************************************************************)

\* A null pointer, or an error, if the layout is too large or no mapping is had.
Get(size, align) ==
  /\ LayoutFits(Larger(size, 1), align)
  /\ block' \in Served(size, align)
  /\ demand' = [size |-> size, align |-> align]

malloc(size) == block = NoBlock /\ Get(size, MinAlign) /\ UNCHANGED intact

calloc(n, size) == n * size <= WordLimit /\ malloc(n * size)

\* posix_memalign takes alignments from a pointer's size on.
posix_memalign(align, size) ==
  block = NoBlock /\ align >= 8 /\ Get(size, align) /\ UNCHANGED intact

\* aligned_alloc and memalign; valloc is that for a page.
aligned_alloc(align, size) ==
  block = NoBlock /\ Get(size, Larger(align, MinAlign)) /\ UNCHANGED intact

free == block # NoBlock /\ block' = NoBlock /\ demand' = NoDemand /\ intact' = TRUE

\* The program may have written all it asked for, and all malloc_usable_size said.
Written == Larger(demand.size, Usable(block))

\* The old block stays, or a new one gets what is known to be in the old one.
Stays(size) == AllowsInPlace(block) /\ size <= CopyBound(block)

Grow(size) ==
  IF Stays(size)
  THEN /\ demand' = [size |-> size, align |-> MinAlign]
       /\ intact' = TRUE /\ UNCHANGED block
  ELSE /\ Get(size, MinAlign)
       /\ intact' = (Smaller(CopyBound(block), size) >= Smaller(Written, size))

realloc(size) ==
  \/ block = NoBlock /\ malloc(size)
  \/ block # NoBlock /\ size = 0 /\ free
  \/ block # NoBlock /\ size # 0 /\ Grow(size)

reallocarray(n, size) == n * size <= WordLimit /\ realloc(n * size)

BlNext ==
  \/ free
  \/ \E size \in Sizes :
       \/ malloc(size) \/ realloc(size)
       \/ \E n \in Counts : calloc(n, size) \/ reallocarray(n, size)
       \/ \E align \in Alignments :
            posix_memalign(align, size) \/ aligned_alloc(align, size)

BlSpec == BlInit /\ [][BlNext]_blVars

\* Whichever entry points a block goes through and whichever backends serve it: it is
\* aligned as asked, neither its header nor the bytes asked for nor those that
\* malloc_usable_size grants reach outside the block, and a reallocation preserves
\* what the program may have written, up to the new size, although an arena block's
\* size is not known ("a SAFE COPY BOUND ... is").
BlockHolds ==
  block # NoBlock =>
    /\ block.user % demand.align = 0
    /\ block.header => block.user - HeaderSize >= block.start
    /\ block.user + Written <= block.end
    /\ intact
    /\ Usable(block) >= demand.size \/ (block.tier = "arena" /\ Usable(block) = 0)

=============================================================================
