---------------------------- MODULE BuddyCentral ----------------------------
(***************************************************************************)
(* One stripe of the central buddy allocator (buddy.rs), under its Mutex.  *)
(*                                                                         *)
(* Memory is counted in units of the smallest block.  A block is a pair of *)
(* an address and an order.  The free blocks are in a bitmap, and each is  *)
(* in one tier besides: orders below OobMin in a bounded row or, beyond    *)
(* it, on a list; the others on doubly linked lists of slots, one list per *)
(* region and order, with the links in the region's metadata.  The regions *)
(* whose list of an order is not empty are linked in turn.                 *)
(*                                                                         *)
(* A loop iteration of alloc_order, refill, merge_up or a drain is a step. *)
(***************************************************************************)
EXTENDS Integers, FiniteSets, Sequences, SequencesExt

CONSTANTS
  NumRegions,  \* regions the system may ever give
  Tops,        \* blocks of the top order in a region
  MaxOrder,    \* MAX_ORDER
  OobMin,      \* OOB_MIN_ORDER, and MIN_HEADERLESS_ORDER
  RowCap,      \* ORDER_CACHE
  DrainAt,     \* OOB_DRAIN_AT
  Records,     \* record_orders
  MaxLive      \* bound: blocks handed out at a time

ASSUME BuddyAssumption ==
  /\ NumRegions \in Nat /\ Tops \in Nat \ {0}
  /\ MaxOrder \in Nat /\ OobMin \in 0 .. MaxOrder
  /\ RowCap \in Nat \ {0, 1} /\ DrainAt \in Nat \ {0, 1}
  /\ Records \in BOOLEAN

None == -1

Orders  == 0 .. MaxOrder
Small   == {o \in Orders : o < OobMin}
Big     == Orders \ Small
Regions == 0 .. NumRegions - 1

\* block_size
Size(o) == 2 ^ o

\* Powers of two are positive, double, and divide larger ones.
ASSUME PowersOfTwo ==
  /\ \A o \in Orders : Size(o) \in Nat \ {0}
  /\ \A o \in Orders \ {MaxOrder} : Size(o + 1) = 2 * Size(o)
  /\ \A o \in Big : Size(o) % Size(OobMin) = 0

RegionSize == Tops * Size(MaxOrder)
Units      == 0 .. NumRegions * RegionSize - 1
Slots      == 0 .. NumRegions * (RegionSize \div Size(OobMin)) - 1

RegionOf(a) == a \div RegionSize
SlotOf(a)   == a \div Size(OobMin)
AddressOf(s) == s * Size(OobMin)

\* The buddy of a block: its address with the bit of its size flipped.
BuddyOf(a, o) == IF (a \div Size(o)) % 2 = 0 THEN a + Size(o) ELSE a - Size(o)

VARIABLES
  mapped,    \* regions
  bits,      \* the bitmaps: the free blocks
  row, list, \* per small order: the cache row; the intrusive list, head first
  oob,       \* the out-of-band lists
  pending,   \* oob_pending
  orderMap,  \* per slot: the order of the block handed out there, or None
  live,      \* blocks handed out
  pc, order, \* what runs, and for which order
  hand,      \* the block in hand, or what refill has still to stash
  owed,      \* the freed block a row drain makes room for, likewise
  left       \* iterations left of a drain

tierVars == <<bits, row, list, oob>>
callVars == <<pc, order, hand, owed, left>>
vars     == <<mapped, tierVars, pending, orderMap, live, callVars>>

-----------------------------------------------------------------------------
(* The out-of-band lists.                                                   *)

NoLinks == [prev  |-> [s \in Slots |-> None], next |-> [s \in Slots |-> None],
            head  |-> [r \in Regions |-> [o \in Big |-> None]],
            tail  |-> [r \in Regions |-> [o \in Big |-> None]],
            rprev |-> [r \in Regions |-> [o \in Big |-> None]],
            rnext |-> [r \in Regions |-> [o \in Big |-> None]],
            first |-> [o \in Big |-> None]]

\* region_list_link
LinkRegion(L, r, o) ==
  LET h == L.first[o]
      M == [L EXCEPT !.rprev[r][o] = None, !.rnext[r][o] = h, !.first[o] = r]
  IN IF h = None THEN M ELSE [M EXCEPT !.rprev[h][o] = r]

\* region_list_unlink
UnlinkRegion(L, r, o) ==
  LET p == L.rprev[r][o]
      n == L.rnext[r][o]
      M == IF p = None THEN [L EXCEPT !.first[o] = n]
                       ELSE [L EXCEPT !.rnext[p][o] = n]
      N == IF n = None THEN M ELSE [M EXCEPT !.rprev[n][o] = p]
  IN [N EXCEPT !.rprev[r][o] = None, !.rnext[r][o] = None]

SlotRegion(s) == RegionOf(AddressOf(s))

\* oob_push
PushHead(L, s, o) ==
  LET r == SlotRegion(s)
      h == L.head[r][o]
      M == [L EXCEPT !.prev[s] = None, !.next[s] = h, !.head[r][o] = s]
  IN IF h = None THEN LinkRegion([M EXCEPT !.tail[r][o] = s], r, o)
                 ELSE [M EXCEPT !.prev[h] = s]

\* oob_push_tail
PushTail(L, s, o) ==
  LET r == SlotRegion(s)
      t == L.tail[r][o]
      M == [L EXCEPT !.next[s] = None, !.prev[s] = t, !.tail[r][o] = s]
  IN IF t = None THEN LinkRegion([M EXCEPT !.head[r][o] = s], r, o)
                 ELSE [M EXCEPT !.next[t] = s]

\* Mutation: the tail is not moved.
KeepTail(L, s, o) ==
  LET r == SlotRegion(s)
      p == L.prev[s]
      n == L.next[s]
      M == IF p = None THEN [L EXCEPT !.head[r][o] = n] ELSE [L EXCEPT !.next[p] = n]
      N == IF n = None THEN M ELSE [M EXCEPT !.prev[n] = p]
  IN IF N.head[r][o] = None THEN UnlinkRegion(N, r, o) ELSE N

\* oob_remove.  The code leaves the links of the removed slot as they are; they
\* are written again before they are read, so the model clears them.
RemoveSlot(L, s, o) ==
  LET r == SlotRegion(s)
      p == L.prev[s]
      n == L.next[s]
      M == IF p = None THEN [L EXCEPT !.head[r][o] = n] ELSE [L EXCEPT !.next[p] = n]
      K == IF n = None THEN [M EXCEPT !.tail[r][o] = p] ELSE [M EXCEPT !.prev[n] = p]
      N == [K EXCEPT !.prev[s] = None, !.next[s] = None]
  IN IF N.head[r][o] = None THEN UnlinkRegion(N, r, o) ELSE N

\* The slot that oob_pop takes: the first of the first region.
FirstSlot(L, o) == L.head[L.first[o]][o]

-----------------------------------------------------------------------------
Init ==
  /\ mapped = {} /\ bits = {}
  /\ row = [o \in Small |-> <<>>] /\ list = [o \in Small |-> <<>>]
  /\ oob = NoLinks /\ pending = [o \in Big |-> 0]
  /\ orderMap = [s \in Slots |-> None] /\ live = {}
  /\ pc = "idle" /\ order = 0 /\ hand = {} /\ owed = {} /\ left = 0

RowHasRoom(o) == Len(row[o]) < RowCap

\* Block b becomes free and goes into its row, which is checked for room before.
Cache(b) ==
  /\ bits' = bits \union {b} /\ row' = [row EXCEPT ![b[2]] = Append(@, b[1])]
  /\ UNCHANGED <<list, oob>>

\* push_list
PushList(o, a) == [list EXCEPT ![o] = <<a>> \o @]

\* unlink
Unlink(o, a) ==
  LET i == CHOOSE j \in 1 .. Len(list[o]) : list[o][j] = a
  IN [list EXCEPT ![o] = RemoveAt(@, i)]

\* stash_free: block b becomes free and goes into its tier.
Stash(b) ==
  LET a == b[1]
      o == b[2]
  IN /\ bits' = bits \union {b}
     /\ \/ /\ o \in Big /\ oob' = PushHead(oob, SlotOf(a), o) /\ UNCHANGED <<row, list>>
        \/ /\ o \in Small /\ RowHasRoom(o)
           /\ row' = [row EXCEPT ![o] = Append(@, a)] /\ UNCHANGED <<list, oob>>
        \/ /\ o \in Small /\ ~RowHasRoom(o)
           /\ list' = PushList(o, a) /\ UNCHANGED <<row, oob>>

\* swap_remove of the cache row.
SwapRemove(q, a) ==
  LET i == CHOOSE j \in 1 .. Len(q) : q[j] = a
  IN SubSeq([q EXCEPT ![i] = q[Len(q)]], 1, Len(q) - 1)

\* remove_free: free block b leaves its tier, and its bit is cleared.
TakeOut(b) ==
  LET a == b[1]
      o == b[2]
  IN /\ bits' = bits \ {b}
     /\ \/ /\ o \in Big /\ oob' = RemoveSlot(oob, SlotOf(a), o) /\ UNCHANGED <<row, list>>
        \/ /\ o \in Small /\ Contains(row[o], a)
           /\ row' = [row EXCEPT ![o] = SwapRemove(@, a)] /\ UNCHANGED <<list, oob>>
        \/ /\ o \in Small /\ ~Contains(row[o], a)
           /\ list' = Unlink(o, a) /\ UNCHANGED <<row, oob>>

-----------------------------------------------------------------------------
(* alloc_order.                                                             *)

HasFree(o) == IF o \in Big THEN oob.first[o] # None
                           ELSE row[o] # <<>> \/ list[o] # <<>>

\* The address that a pop at order o takes.
PopAddress(o) == IF o \in Big THEN AddressOf(FirstSlot(oob, o))
                 ELSE IF row[o] # <<>> THEN Last(row[o]) ELSE Head(list[o])

Alloc(o) ==
  /\ pc = "idle" /\ Cardinality(live) < MaxLive /\ pc' = "find" /\ order' = o
  /\ UNCHANGED <<mapped, tierVars, pending, orderMap, live, hand, owed, left>>

\* The smallest order with a free block is popped.
Pop ==
  /\ pc = "find" /\ pc' = "split"
  /\ \E o \in order .. MaxOrder :
       /\ HasFree(o) /\ \A p \in order .. o - 1 : ~HasFree(p)
       /\ TakeOut(<<PopAddress(o), o>>)
       /\ hand' = {<<PopAddress(o), o>>}
  /\ UNCHANGED <<mapped, pending, orderMap, live, order, owed, left>>

TopBlocks(r) == {<<r * RegionSize + i * Size(MaxOrder), MaxOrder>> : i \in 0 .. Tops - 1}

\* refill maps a region, or fails.
Refill ==
  /\ pc = "find" /\ \A o \in order .. MaxOrder : ~HasFree(o)
  /\ \/ pc' = "idle" /\ order' = 0 /\ UNCHANGED <<mapped, hand>>
     \/ \E r \in Regions \ mapped :
          /\ mapped' = mapped \union {r} /\ hand' = TopBlocks(r)
          /\ pc' = "refill" /\ UNCHANGED order
  /\ UNCHANGED <<tierVars, pending, orderMap, live, owed, left>>

\* It stashes the top blocks of the region in turn.
StashTop ==
  /\ pc = "refill"
  /\ \E b \in hand :
       /\ \A c \in hand : b[1] <= c[1]
       /\ Stash(b) /\ hand' = hand \ {b}
       /\ pc' = IF hand = {b} THEN "find" ELSE "refill"
  /\ UNCHANGED <<mapped, pending, orderMap, live, order, owed, left>>

\* Half of the block in hand is stashed.
Split ==
  /\ pc = "split"
  /\ \E b \in hand :
       /\ b[2] > order
       /\ Stash(<<b[1] + Size(b[2] - 1), b[2] - 1>>)
       /\ hand' = {<<b[1], b[2] - 1>>}
  /\ UNCHANGED <<mapped, pending, orderMap, live, pc, order, owed, left>>

\* Mutation: the smallest order is left out.
RecordBigger(b) == IF Records /\ b[2] > OobMin
                     THEN [orderMap EXCEPT ![SlotOf(b[1])] = b[2]] ELSE orderMap

\* The block is handed out and its order recorded.
Record(b) == IF Records /\ b[2] >= OobMin
               THEN [orderMap EXCEPT ![SlotOf(b[1])] = b[2]] ELSE orderMap

HandOut ==
  /\ pc = "split" /\ pc' = "idle"
  /\ \E b \in hand : b[2] = order /\ live' = live \union {b} /\ orderMap' = Record(b)
  /\ hand' = {} /\ order' = 0
  /\ UNCHANGED <<mapped, tierVars, pending, owed, left>>

-----------------------------------------------------------------------------
(* free_order and the drains.                                               *)

FreeBig(b) ==
  LET o == b[2]
      n == pending[o] + 1
  IN /\ pc = "idle" /\ b \in live /\ o \in Big
     /\ live' = live \ {b} /\ Stash(b)
     /\ IF n >= DrainAt
          THEN /\ pending' = [pending EXCEPT ![o] = 0]
               /\ pc' = "drain" /\ order' = o /\ left' = DrainAt \div 2
          ELSE /\ pending' = [pending EXCEPT ![o] = n] /\ UNCHANGED <<pc, order, left>>
     /\ UNCHANGED <<mapped, orderMap, hand, owed>>

\* A small block goes into the row.  A full row is drained first.
FreeSmall(b) ==
  LET o == b[2]
  IN /\ pc = "idle" /\ b \in live /\ o \in Small
     /\ live' = live \ {b}
     /\ IF ~RowHasRoom(o)
          THEN /\ owed' = {b} /\ pc' = "drain" /\ order' = o /\ left' = RowCap \div 2
               /\ UNCHANGED tierVars
          ELSE Cache(b) /\ UNCHANGED <<owed, pc, order, left>>
     /\ UNCHANGED <<mapped, pending, orderMap, hand>>

MoreToDrain == /\ left > 0
               /\ IF order \in Big THEN oob.first[order] # None ELSE row[order] # <<>>

\* Mutation: the iterations of a drain are not counted.
SameLeft == left

OneLess == left - 1

\* A drain pops a block of its order to merge it.
DrainPop ==
  LET b == <<PopAddress(order), order>>
  IN /\ pc = "drain" /\ MoreToDrain /\ pc' = "merge"
     /\ TakeOut(b) /\ hand' = {b} /\ left' = OneLess
     /\ UNCHANGED <<mapped, pending, orderMap, live, order, owed>>

CanMerge(b) == b[2] < MaxOrder /\ <<BuddyOf(b[1], b[2]), b[2]>> \in bits

\* Mutation: the address is not that of the lower half.
Unaligned(b) == <<b[1], b[2] + 1>>

Merged(b) == LET c == BuddyOf(b[1], b[2])
             IN <<IF b[1] < c THEN b[1] ELSE c, b[2] + 1>>

\* merge_up: the block in hand absorbs its buddy.
Merge ==
  /\ pc = "merge"
  /\ \E b \in hand :
       LET buddy == <<BuddyOf(b[1], b[2]), b[2]>>
       IN /\ CanMerge(b) /\ TakeOut(buddy)
          /\ hand' = {Merged(b)}
  /\ UNCHANGED <<mapped, pending, orderMap, live, pc, order, owed, left>>

\* A block that did not merge is parked: at the tail, or on the list.
Park(b) ==
  /\ bits' = bits \union {b}
  /\ \/ /\ order \in Big /\ oob' = PushTail(oob, SlotOf(b[1]), order)
        /\ UNCHANGED <<row, list>>
     \/ /\ order \in Small /\ list' = PushList(order, b[1])
        /\ UNCHANGED <<row, oob>>

PutBack ==
  /\ pc = "merge" /\ pc' = "drain"
  /\ \E b \in hand :
       /\ ~CanMerge(b)
       /\ \/ b[2] = order /\ Park(b)
          \/ b[2] # order /\ Stash(b)
  /\ hand' = {}
  /\ UNCHANGED <<mapped, pending, orderMap, live, order, owed, left>>

DrainDone ==
  /\ pc = "drain" /\ ~MoreToDrain /\ pc' = "idle" /\ left' = 0 /\ order' = 0
  /\ \/ owed = {} /\ UNCHANGED tierVars
     \/ \E b \in owed : Cache(b)
  /\ owed' = {}
  /\ UNCHANGED <<mapped, pending, orderMap, live, hand>>

-----------------------------------------------------------------------------
\* What the thread that holds the Mutex goes on with.
Step == \/ Pop \/ Refill \/ StashTop \/ Split \/ HandOut
        \/ DrainPop \/ Merge \/ PutBack \/ DrainDone

Next ==
  \/ \E o \in Orders : Alloc(o)
  \/ \E b \in live : FreeBig(b) \/ FreeSmall(b)
  \/ Step

Spec == Init /\ [][Next]_vars /\ WF_vars(Step)

-----------------------------------------------------------------------------
(* Properties.                                                              *)

Cover(b) == b[1] .. b[1] + Size(b[2]) - 1

InUse == live \union hand \union owed

\* The free blocks, those handed out and those in hand tile the mapped memory:
\* none overlaps another, and splitting and merging lose nothing.
Tiled ==
  /\ bits \intersect InUse = {} /\ live \intersect (hand \union owed) = {}
  /\ hand \intersect owed = {}
  /\ \A b, c \in bits \union InUse : b # c => Cover(b) \intersect Cover(c) = {}
  /\ UNION {Cover(b) : b \in bits \union InUse} = {u \in Units : RegionOf(u) \in mapped}

\* What is reached from an element of a list, or from none, by its links.
Walk(link, from) ==
  LET reached[n \in Nat] ==
        IF n = 0 THEN <<from>>
        ELSE LET q == reached[n - 1]
             IN IF link[Last(q)] = None THEN q ELSE Append(q, link[Last(q)])
  IN IF from = None THEN <<>> ELSE reached[Cardinality(DOMAIN link)]

FreeAt(o) == {b[1] : b \in {c \in bits : c[2] = o}}

RegionsAt(o)  == Walk([r \in Regions |-> oob.rnext[r][o]], oob.first[o])
SlotsAt(r, o) == Walk(oob.next, oob.head[r][o])

\* What is in the tiers of each order.
SlotCounts(o) == [r \in Regions |-> Len(SlotsAt(r, o))]
EntryCounts ==
  [o \in Orders |->
     IF o \in Small THEN Len(row[o]) + Len(list[o])
     ELSE LET n == SlotCounts(o)
          IN  MapThenSumSet(LAMBDA r : n[r], ToSet(RegionsAt(o)))]

\* check_invariants: the links of the lists of regions and of slots in the other
\* direction, a bit for each entry, and as many entries as bits.
Before(q, i) == IF i = 1 THEN None ELSE q[i - 1]
CheckInvariants ==
  /\ \A o \in Small : ToSet(row[o] \o list[o]) \subseteq FreeAt(o)
  /\ \A o \in Big :
       LET regions == RegionsAt(o)
       IN \A i \in 1 .. Len(regions) :
            LET r     == regions[i]
                slots == SlotsAt(r, o)
            IN /\ oob.rprev[r][o] = Before(regions, i)
               /\ slots # <<>> /\ oob.tail[r][o] = Last(slots)
               /\ \A j \in 1 .. Len(slots) :
                    /\ oob.prev[slots[j]] = Before(slots, j)
                    /\ AddressOf(slots[j]) \in FreeAt(o)
  /\ LET n == EntryCounts
     IN  Cardinality(bits) = MapThenSumSet(LAMBDA o : n[o], Orders)

\* Every free block is in the one tier of its order, once, and nothing else is:
\* the links of slots and of regions are sound in both directions, although the
\* lists of all orders share them.  What check_invariants asserts after a test's
\* calls holds after every step, and the lists are those of the free blocks.
TiersAgree ==
  /\ CheckInvariants
  /\ \A o \in Small : IsInjective(row[o] \o list[o])
  /\ \A o \in Big :
       /\ IsInjective(RegionsAt(o))
       /\ ToSet(RegionsAt(o)) = {RegionOf(a) : a \in FreeAt(o)}
       /\ \A r \in Regions :
            /\ IsInjective(SlotsAt(r, o))
            /\ {AddressOf(s) : s \in ToSet(SlotsAt(r, o))} =
                 {a \in FreeAt(o) : RegionOf(a) = r}

\* A headerless free of a block in use finds the block's order.
OrderKnown ==
  Records => \A b \in live : b[2] \in Big => orderMap[SlotOf(b[1])] = b[2]

\* An allocation and a free end, drains included.
CallsEnd == []<>(pc = "idle")

=============================================================================
