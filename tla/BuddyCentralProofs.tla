------------------------- MODULE BuddyCentralProofs -------------------------
(***************************************************************************)
(* The safety of one stripe of the buddy allocator, for every number and   *)
(* size of regions and orders.  The links of the out-of-band lists are     *)
(* kept sound as a set of slots grows and shrinks; rows and intrusive      *)
(* lists hold the free blocks of their order, each once; blocks that are   *)
(* split, merged or mapped cover what was covered.  The invariant joins    *)
(* the three: which blocks are free is what the tiers hold, and the tiling *)
(* is why a block that becomes free is in no tier yet.  No links close a   *)
(* circle, so what a list holds is what a walk from its head finds.        *)
(***************************************************************************)
EXTENDS BuddyCentral, Arithmetic, SequenceTheorems, TLAPS

-----------------------------------------------------------------------------
(* The links of the out-of-band lists.                                      *)

MaybeSlot   == Slots \cup {None}
MaybeRegion == Regions \cup {None}

LinkType ==
  [prev  : [Slots -> MaybeSlot], next : [Slots -> MaybeSlot],
   head  : [Regions -> [Big -> MaybeSlot]], tail : [Regions -> [Big -> MaybeSlot]],
   rprev : [Regions -> [Big -> MaybeRegion]], rnext : [Regions -> [Big -> MaybeRegion]],
   first : [Big -> MaybeRegion]]

\* S is what the lists hold, as pairs of a slot and an order.  Links that point one way
\* (to) agree with those that point back, and stay in S, in one order and in one region;
\* the end of a list they lead to (end) is the slot that has none.
LinkOK(to, back, S, s) ==
  to[s] # None =>
    \E o \in Big : /\ <<s, o>> \in S /\ <<to[s], o>> \in S
                   /\ SlotRegion(to[s]) = SlotRegion(s) /\ back[to[s]] = s
LastOK(to, end, S, s, o) == <<s, o>> \in S /\ to[s] = None => end[SlotRegion(s)][o] = s
EndOK(to, end, S, r, o) ==
  end[r][o] # None =>
    <<end[r][o], o>> \in S /\ SlotRegion(end[r][o]) = r /\ to[end[r][o]] = None

OneWay(to, back, end, S) ==
  /\ \A s \in Slots : LinkOK(to, back, S, s)
  /\ \A s \in Slots, o \in Big : LastOK(to, end, S, s, o)
  /\ \A r \in Regions, o \in Big : EndOK(to, end, S, r, o)

\* A list that has a head has a tail.
EndsAgree(head, tail) ==
  \A r \in Regions, o \in Big : head[r][o] = None <=> tail[r][o] = None

\* So are regions linked, which have a list each.
RegionLinkOK(to, back, head, r, o) ==
  to[r][o] # None =>
    back[to[r][o]][o] = r /\ head[r][o] # None /\ head[to[r][o]][o] # None
FirstOK(rprev, first, head, o) ==
  first[o] # None => head[first[o]][o] # None /\ rprev[first[o]][o] = None

RegionsLinked(rprev, rnext, first, head) ==
  /\ \A o \in Big : FirstOK(rprev, first, head, o)
  /\ \A r \in Regions, o \in Big : /\ RegionLinkOK(rprev, rnext, head, r, o)
                                   /\ RegionLinkOK(rnext, rprev, head, r, o)

\* A slot is in the list of one order.
OneOrder(S) == \A s \in Slots, o, p \in Big : <<s, o>> \in S /\ <<s, p>> \in S => o = p

\* None is no slot and no region.
LEMMA NoneApart == None \notin Slots /\ None \notin Regions
  BY DEF None, Slots, Regions

\* What linking a region writes.
RegionLinked(K, L, r, o) ==
  /\ \A p \in Big : K.first[p] = IF p = o THEN r ELSE L.first[p]
  /\ \A x \in Regions, p \in Big :
       /\ K.rnext[x][p] = IF x = r /\ p = o THEN L.first[o] ELSE L.rnext[x][p]
       /\ K.rprev[x][p] = IF p = o /\ x = r THEN None
                          ELSE IF p = o /\ x = L.first[o] THEN r ELSE L.rprev[x][p]

\* What unlinking it writes.
RegionUnlinked(K, L, r, o) ==
  /\ \A p \in Big : K.first[p] = IF p = o /\ L.rprev[r][o] = None THEN L.rnext[r][o]
                                 ELSE L.first[p]
  /\ \A x \in Regions, p \in Big :
       /\ K.rnext[x][p] = IF p = o /\ x = r THEN None
                          ELSE IF p = o /\ x = L.rprev[r][o] THEN L.rnext[r][o]
                          ELSE L.rnext[x][p]
       /\ K.rprev[x][p] = IF p = o /\ x = r THEN None
                          ELSE IF p = o /\ x = L.rnext[r][o] THEN L.rprev[r][o]
                          ELSE L.rprev[x][p]

SameSlots(K, L) ==
  K.prev = L.prev /\ K.next = L.next /\ K.head = L.head /\ K.tail = L.tail
SameRegions(K, L) == K.rprev = L.rprev /\ K.rnext = L.rnext /\ K.first = L.first

\* region_list_link writes that.
LEMMA LinkRegionIs ==
  ASSUME NEW L \in LinkType, NEW r \in Regions, NEW o \in Big
  PROVE  /\ LinkRegion(L, r, o) \in LinkType
         /\ SameSlots(LinkRegion(L, r, o), L)
         /\ L.first[o] # r => RegionLinked(LinkRegion(L, r, o), L, r, o)
  <1> DEFINE h == L.first[o]
             M == [L EXCEPT !.rprev[r][o] = None, !.rnext[r][o] = h, !.first[o] = r]
             N == [M EXCEPT !.rprev[h][o] = r]
             K == LinkRegion(L, r, o)
  <1>0. h \in MaybeRegion /\ None \in MaybeRegion /\ r \in MaybeRegion
    BY DEF LinkType, MaybeRegion
  <1>1. K = IF h = None THEN M ELSE N
    BY DEF LinkRegion
  <1>2. /\ M \in LinkType /\ SameSlots(M, L)
        /\ \A p \in Big : M.first[p] = IF p = o THEN r ELSE L.first[p]
        /\ \A x \in Regions, p \in Big :
             /\ M.rnext[x][p] = IF x = r /\ p = o THEN h ELSE L.rnext[x][p]
             /\ M.rprev[x][p] = IF x = r /\ p = o THEN None ELSE L.rprev[x][p]
    BY <1>0 DEF LinkType, SameSlots
  <1>3. CASE h = None
    BY <1>1, <1>2, <1>3, NoneApart DEF RegionLinked
  <1>4. CASE h # None
    <2>1. h \in Regions
      BY <1>0, <1>4 DEF MaybeRegion
    <2> HIDE DEF M
    <2>2. /\ N \in LinkType /\ SameSlots(N, M) /\ N.first = M.first /\ N.rnext = M.rnext
          /\ \A x \in Regions, p \in Big :
               N.rprev[x][p] = IF x = h /\ p = o THEN r ELSE M.rprev[x][p]
      BY <1>0, <1>2, <2>1 DEF LinkType, SameSlots
    <2> QED BY <1>1, <1>2, <1>4, <2>2 DEF RegionLinked, SameSlots
  <1> QED BY <1>3, <1>4

\* region_list_unlink writes that.
LEMMA UnlinkRegionIs ==
  ASSUME NEW L \in LinkType, NEW r \in Regions, NEW o \in Big
  PROVE  /\ UnlinkRegion(L, r, o) \in LinkType
         /\ SameSlots(UnlinkRegion(L, r, o), L)
         /\ RegionUnlinked(UnlinkRegion(L, r, o), L, r, o)
  <1> DEFINE p == L.rprev[r][o]
             n == L.rnext[r][o]
             M == IF p = None THEN [L EXCEPT !.first[o] = n]
                              ELSE [L EXCEPT !.rnext[p][o] = n]
             N == IF n = None THEN M ELSE [M EXCEPT !.rprev[n][o] = p]
             K == [N EXCEPT !.rprev[r][o] = None, !.rnext[r][o] = None]
  <1>0. p \in MaybeRegion /\ n \in MaybeRegion /\ None \in MaybeRegion
    BY DEF LinkType, MaybeRegion
  <1>1. UnlinkRegion(L, r, o) = K
    BY DEF UnlinkRegion
  <1>2. /\ M \in LinkType /\ SameSlots(M, L) /\ M.rprev = L.rprev
        /\ \A q \in Big : M.first[q] = IF q = o /\ p = None THEN n ELSE L.first[q]
        /\ \A x \in Regions, q \in Big :
             M.rnext[x][q] = IF x = p /\ q = o THEN n ELSE L.rnext[x][q]
    <2>1. CASE p = None
      BY <1>0, <2>1, NoneApart DEF LinkType, SameSlots
    <2>2. CASE p # None
      <3>1. p \in Regions
        BY <1>0, <2>2 DEF MaybeRegion
      <3> QED BY <1>0, <2>2, <3>1 DEF LinkType, SameSlots
    <2> QED BY <2>1, <2>2
  <1> HIDE DEF M
  <1>3. /\ N \in LinkType /\ SameSlots(N, M) /\ N.first = M.first /\ N.rnext = M.rnext
        /\ \A x \in Regions, q \in Big :
             N.rprev[x][q] = IF x = n /\ q = o THEN p ELSE M.rprev[x][q]
    <2>1. CASE n = None
      BY <1>2, <2>1, NoneApart DEF SameSlots
    <2>2. CASE n # None
      <3>1. n \in Regions
        BY <1>0, <2>2 DEF MaybeRegion
      <3> QED BY <1>0, <1>2, <2>2, <3>1 DEF LinkType, SameSlots
    <2> QED BY <2>1, <2>2
  <1> HIDE DEF N
  <1>4. /\ K \in LinkType /\ SameSlots(K, N) /\ K.first = N.first
        /\ \A x \in Regions, q \in Big :
             /\ K.rnext[x][q] = IF x = r /\ q = o THEN None ELSE N.rnext[x][q]
             /\ K.rprev[x][q] = IF x = r /\ q = o THEN None ELSE N.rprev[x][q]
    BY <1>0, <1>3 DEF LinkType, SameSlots
  <1> HIDE DEF K
  <1>5. SameSlots(K, L)
    BY <1>2, <1>3, <1>4 DEF SameSlots
  <1>6. RegionUnlinked(K, L, r, o)
    BY <1>2, <1>3, <1>4 DEF RegionUnlinked
  <1> QED BY <1>1, <1>4, <1>5, <1>6

\* What the two pushes and the removal write.
PushedHead(K, L, s, o) ==
  LET r == SlotRegion(s)
      h == L.head[r][o]
  IN /\ \A x \in Slots :
          /\ K.prev[x] = IF x = h THEN s ELSE IF x = s THEN None ELSE L.prev[x]
          /\ K.next[x] = IF x = s THEN h ELSE L.next[x]
     /\ \A x \in Regions, p \in Big :
          /\ K.head[x][p] = IF x = r /\ p = o THEN s ELSE L.head[x][p]
          /\ K.tail[x][p] = IF x = r /\ p = o /\ h = None THEN s ELSE L.tail[x][p]
     /\ h # None => SameRegions(K, L)
     /\ h = None /\ L.first[o] # r => RegionLinked(K, L, r, o)

PushedTail(K, L, s, o) ==
  LET r == SlotRegion(s)
      t == L.tail[r][o]
  IN /\ \A x \in Slots :
          /\ K.next[x] = IF x = t THEN s ELSE IF x = s THEN None ELSE L.next[x]
          /\ K.prev[x] = IF x = s THEN t ELSE L.prev[x]
     /\ \A x \in Regions, p \in Big :
          /\ K.tail[x][p] = IF x = r /\ p = o THEN s ELSE L.tail[x][p]
          /\ K.head[x][p] = IF x = r /\ p = o /\ t = None THEN s ELSE L.head[x][p]
     /\ t # None => SameRegions(K, L)
     /\ t = None /\ L.first[o] # r => RegionLinked(K, L, r, o)

SlotRemoved(K, L, s, o) ==
  LET r == SlotRegion(s)
      p == L.prev[s]
      n == L.next[s]
  IN /\ \A x \in Slots :
          /\ K.prev[x] = IF x = s THEN None ELSE IF x = n THEN p ELSE L.prev[x]
          /\ K.next[x] = IF x = s THEN None ELSE IF x = p THEN n ELSE L.next[x]
     /\ \A x \in Regions, q \in Big :
          /\ K.head[x][q] = IF x = r /\ q = o /\ p = None THEN n ELSE L.head[x][q]
          /\ K.tail[x][q] = IF x = r /\ q = o /\ n = None THEN p ELSE L.tail[x][q]
     /\ K.head[r][o] # None => SameRegions(K, L)
     /\ K.head[r][o] = None => RegionUnlinked(K, L, r, o)

\* oob_push writes that.
LEMMA PushHeadIs ==
  ASSUME NEW L \in LinkType, NEW s \in Slots, NEW o \in Big, SlotRegion(s) \in Regions
  PROVE  PushHead(L, s, o) \in LinkType /\ PushedHead(PushHead(L, s, o), L, s, o)
  <1> DEFINE r == SlotRegion(s)
             h == L.head[r][o]
             M == [L EXCEPT !.prev[s] = None, !.next[s] = h, !.head[r][o] = s]
             T == [M EXCEPT !.tail[r][o] = s]
             N == [M EXCEPT !.prev[h] = s]
  <1>0. h \in MaybeSlot /\ None \in MaybeSlot /\ s \in MaybeSlot /\ r \in Regions
    BY DEF LinkType, MaybeSlot
  <1>1. PushHead(L, s, o) = IF h = None THEN LinkRegion(T, r, o) ELSE N
    BY DEF PushHead
  <1> HIDE DEF r
  <1>2. /\ M \in LinkType /\ SameRegions(M, L) /\ M.tail = L.tail
        /\ \A x \in Slots : /\ M.prev[x] = IF x = s THEN None ELSE L.prev[x]
                            /\ M.next[x] = IF x = s THEN h ELSE L.next[x]
        /\ \A x \in Regions, p \in Big :
             M.head[x][p] = IF x = r /\ p = o THEN s ELSE L.head[x][p]
    BY <1>0 DEF LinkType, SameRegions
  <1> HIDE DEF M
  <1>3. CASE h = None
    <2>1. /\ T \in LinkType /\ SameRegions(T, M) /\ T.prev = M.prev /\ T.next = M.next
          /\ T.head = M.head
          /\ \A x \in Regions, p \in Big :
               T.tail[x][p] = IF x = r /\ p = o THEN s ELSE M.tail[x][p]
      BY <1>0, <1>2 DEF LinkType, SameRegions
    <2> DEFINE K == LinkRegion(T, r, o)
    <2>2. K \in LinkType /\ SameSlots(K, T) /\ (T.first[o] # r => RegionLinked(K, T, r, o))
      BY <1>0, <2>1, LinkRegionIs
    <2> HIDE DEF T, K
    <2>3. RegionLinked(K, T, r, o) => RegionLinked(K, L, r, o)
      BY <1>2, <2>1 DEF RegionLinked, SameRegions
    <2>4. PushedHead(K, L, s, o)
      BY <1>0, <1>2, <1>3, <2>1, <2>2, <2>3, NoneApart
      DEF PushedHead, SameSlots, SameRegions, r
    <2> QED BY <1>1, <1>3, <2>2, <2>4 DEF K
  <1>4. CASE h # None
    <2>1. h \in Slots
      BY <1>0, <1>4 DEF MaybeSlot
    <2>2. /\ N \in LinkType /\ SameRegions(N, M) /\ N.next = M.next /\ N.head = M.head
          /\ N.tail = M.tail
          /\ \A x \in Slots : N.prev[x] = IF x = h THEN s ELSE M.prev[x]
      BY <1>0, <1>2, <2>1 DEF LinkType, SameRegions
    <2> HIDE DEF N
    <2>3. PushedHead(N, L, s, o)
      BY <1>0, <1>2, <1>4, <2>2 DEF PushedHead, SameRegions, r
    <2> QED BY <1>1, <1>4, <2>2, <2>3
  <1> QED BY <1>3, <1>4

\* oob_push_tail writes that.
LEMMA PushTailIs ==
  ASSUME NEW L \in LinkType, NEW s \in Slots, NEW o \in Big, SlotRegion(s) \in Regions
  PROVE  PushTail(L, s, o) \in LinkType /\ PushedTail(PushTail(L, s, o), L, s, o)
  <1> DEFINE r == SlotRegion(s)
             t == L.tail[r][o]
             M == [L EXCEPT !.next[s] = None, !.prev[s] = t, !.tail[r][o] = s]
             T == [M EXCEPT !.head[r][o] = s]
             N == [M EXCEPT !.next[t] = s]
  <1>0. t \in MaybeSlot /\ None \in MaybeSlot /\ s \in MaybeSlot /\ r \in Regions
    BY DEF LinkType, MaybeSlot
  <1>1. PushTail(L, s, o) = IF t = None THEN LinkRegion(T, r, o) ELSE N
    BY DEF PushTail
  <1> HIDE DEF r
  <1>2. /\ M \in LinkType /\ SameRegions(M, L) /\ M.head = L.head
        /\ \A x \in Slots : /\ M.next[x] = IF x = s THEN None ELSE L.next[x]
                            /\ M.prev[x] = IF x = s THEN t ELSE L.prev[x]
        /\ \A x \in Regions, p \in Big :
             M.tail[x][p] = IF x = r /\ p = o THEN s ELSE L.tail[x][p]
    BY <1>0 DEF LinkType, SameRegions
  <1> HIDE DEF M
  <1>3. CASE t = None
    <2>1. /\ T \in LinkType /\ SameRegions(T, M) /\ T.prev = M.prev /\ T.next = M.next
          /\ T.tail = M.tail
          /\ \A x \in Regions, p \in Big :
               T.head[x][p] = IF x = r /\ p = o THEN s ELSE M.head[x][p]
      BY <1>0, <1>2 DEF LinkType, SameRegions
    <2> DEFINE K == LinkRegion(T, r, o)
    <2>2. K \in LinkType /\ SameSlots(K, T) /\ (T.first[o] # r => RegionLinked(K, T, r, o))
      BY <1>0, <2>1, LinkRegionIs
    <2> HIDE DEF T, K
    <2>3. RegionLinked(K, T, r, o) => RegionLinked(K, L, r, o)
      BY <1>2, <2>1 DEF RegionLinked, SameRegions
    <2>4. PushedTail(K, L, s, o)
      BY <1>0, <1>2, <1>3, <2>1, <2>2, <2>3, NoneApart
      DEF PushedTail, SameSlots, SameRegions, r
    <2> QED BY <1>1, <1>3, <2>2, <2>4 DEF K
  <1>4. CASE t # None
    <2>1. t \in Slots
      BY <1>0, <1>4 DEF MaybeSlot
    <2>2. /\ N \in LinkType /\ SameRegions(N, M) /\ N.prev = M.prev /\ N.head = M.head
          /\ N.tail = M.tail
          /\ \A x \in Slots : N.next[x] = IF x = t THEN s ELSE M.next[x]
      BY <1>0, <1>2, <2>1 DEF LinkType, SameRegions
    <2> HIDE DEF N
    <2>3. PushedTail(N, L, s, o)
      BY <1>0, <1>2, <1>4, <2>2 DEF PushedTail, SameRegions, r
    <2> QED BY <1>1, <1>4, <2>2, <2>3
  <1> QED BY <1>3, <1>4

\* oob_remove writes that.
LEMMA RemoveSlotIs ==
  ASSUME NEW L \in LinkType, NEW s \in Slots, NEW o \in Big, SlotRegion(s) \in Regions
  PROVE  RemoveSlot(L, s, o) \in LinkType /\ SlotRemoved(RemoveSlot(L, s, o), L, s, o)
  <1> DEFINE r == SlotRegion(s)
             p == L.prev[s]
             n == L.next[s]
             M == IF p = None THEN [L EXCEPT !.head[r][o] = n] ELSE [L EXCEPT !.next[p] = n]
             K == IF n = None THEN [M EXCEPT !.tail[r][o] = p] ELSE [M EXCEPT !.prev[n] = p]
             N == [K EXCEPT !.prev[s] = None, !.next[s] = None]
  <1>0. /\ p \in MaybeSlot /\ n \in MaybeSlot /\ None \in MaybeSlot /\ r \in Regions
    BY DEF LinkType, MaybeSlot
  <1>1. RemoveSlot(L, s, o) = IF N.head[r][o] = None THEN UnlinkRegion(N, r, o) ELSE N
    BY DEF RemoveSlot
  <1> HIDE DEF r
  <1>2. /\ M \in LinkType /\ SameRegions(M, L) /\ M.prev = L.prev /\ M.tail = L.tail
        /\ \A x \in Slots : M.next[x] = IF x = p THEN n ELSE L.next[x]
        /\ \A x \in Regions, q \in Big :
             M.head[x][q] = IF x = r /\ q = o /\ p = None THEN n ELSE L.head[x][q]
    <2>1. CASE p = None
      BY <1>0, <2>1, NoneApart DEF LinkType, SameRegions
    <2>2. CASE p # None
      <3>1. p \in Slots
        BY <1>0, <2>2 DEF MaybeSlot
      <3> QED BY <1>0, <2>2, <3>1 DEF LinkType, SameRegions
    <2> QED BY <2>1, <2>2
  <1> HIDE DEF M
  <1>3. /\ K \in LinkType /\ SameRegions(K, M) /\ K.next = M.next /\ K.head = M.head
        /\ \A x \in Slots : K.prev[x] = IF x = n THEN p ELSE M.prev[x]
        /\ \A x \in Regions, q \in Big :
             K.tail[x][q] = IF x = r /\ q = o /\ n = None THEN p ELSE M.tail[x][q]
    <2>1. CASE n = None
      BY <1>0, <1>2, <2>1, NoneApart DEF LinkType, SameRegions
    <2>2. CASE n # None
      <3>1. n \in Slots
        BY <1>0, <2>2 DEF MaybeSlot
      <3> QED BY <1>0, <1>2, <2>2, <3>1 DEF LinkType, SameRegions
    <2> QED BY <2>1, <2>2
  <1> HIDE DEF K
  <1>4. /\ N \in LinkType /\ SameRegions(N, K) /\ N.head = K.head /\ N.tail = K.tail
        /\ \A x \in Slots : /\ N.prev[x] = IF x = s THEN None ELSE K.prev[x]
                            /\ N.next[x] = IF x = s THEN None ELSE K.next[x]
    BY <1>0, <1>3 DEF LinkType, SameRegions
  <1> HIDE DEF N
  <1>5. CASE N.head[r][o] = None
    <2> DEFINE J == UnlinkRegion(N, r, o)
    <2>1. J \in LinkType /\ SameSlots(J, N) /\ RegionUnlinked(J, N, r, o)
      BY <1>0, <1>4, UnlinkRegionIs
    <2> HIDE DEF J
    <2>2. RegionUnlinked(J, L, r, o)
      BY <1>2, <1>3, <1>4, <2>1 DEF RegionUnlinked, SameRegions
    <2>3. SlotRemoved(J, L, s, o)
      BY <1>0, <1>2, <1>3, <1>4, <1>5, <2>1, <2>2 DEF SlotRemoved, SameSlots, r
    <2> QED BY <1>1, <1>5, <2>1, <2>3 DEF J
  <1>6. CASE N.head[r][o] # None
    <2>1. SlotRemoved(N, L, s, o)
      BY <1>0, <1>2, <1>3, <1>4, <1>6 DEF SlotRemoved, SameRegions, r
    <2> QED BY <1>1, <1>4, <1>6, <2>1
  <1> QED BY <1>5, <1>6

\* Its slots are of regions there are.
InRegions(S) == \A s \in Slots, o \in Big : <<s, o>> \in S => SlotRegion(s) \in Regions

SlotFn == [Slots -> MaybeSlot]
EndFn  == [Regions -> [Big -> MaybeSlot]]
LinkFn == [Regions -> [Big -> MaybeRegion]]

\* A push at one end writes this: to leads to that end, back away from it.
PushWrites(kto, kback, kend, kfar, to, back, end, far, s, o) ==
  LET r == SlotRegion(s)
      h == end[r][o]
  IN /\ \A x \in Slots :
          /\ kto[x] = IF x = h THEN s ELSE IF x = s THEN None ELSE to[x]
          /\ kback[x] = IF x = s THEN h ELSE back[x]
     /\ \A x \in Regions, p \in Big :
          /\ kend[x][p] = IF x = r /\ p = o THEN s ELSE end[x][p]
          /\ kfar[x][p] = IF x = r /\ p = o /\ h = None THEN s ELSE far[x][p]

\* It keeps the links of slots.
LEMMA PushLinks ==
  ASSUME NEW to \in SlotFn, NEW back \in SlotFn, NEW end \in EndFn, NEW far \in EndFn,
         NEW kto, NEW kback, NEW kend, NEW kfar, NEW S \in SUBSET (Slots \X Big),
         OneWay(to, back, end, S), OneWay(back, to, far, S), EndsAgree(end, far),
         OneOrder(S), InRegions(S),
         NEW s \in Slots, NEW o \in Big, SlotRegion(s) \in Regions,
         \A p \in Big : <<s, p>> \notin S,
         PushWrites(kto, kback, kend, kfar, to, back, end, far, s, o)
  PROVE  /\ OneWay(kto, kback, kend, S \cup {<<s, o>>})
         /\ OneWay(kback, kto, kfar, S \cup {<<s, o>>})
         /\ EndsAgree(kend, kfar)
  <1> DEFINE r == SlotRegion(s)
             h == end[r][o]
             Z == S \cup {<<s, o>>}
  <1>0. /\ \A x \in Slots :
             /\ kto[x] = IF x = h THEN s ELSE IF x = s THEN None ELSE to[x]
             /\ kback[x] = IF x = s THEN h ELSE back[x]
        /\ \A x \in Regions, p \in Big :
             /\ kend[x][p] = IF x = r /\ p = o THEN s ELSE end[x][p]
             /\ kfar[x][p] = IF x = r /\ p = o /\ h = None THEN s ELSE far[x][p]
    BY DEF PushWrites
  <1>1. /\ \A x \in Slots, p \in Big : <<x, p>> \in Z <=> <<x, p>> \in S \/ (x = s /\ p = o)
        /\ s # None /\ r \in Regions
    BY NoneApart
  <1>2. /\ \A x \in Slots : to[x] # None => to[x] \in Slots
        /\ \A x \in Slots : back[x] # None => back[x] \in Slots
        /\ \A x \in Regions, p \in Big : end[x][p] # None => end[x][p] \in Slots
        /\ \A x \in Regions, p \in Big : far[x][p] # None => far[x][p] \in Slots
    BY DEF SlotFn, EndFn, MaybeSlot
  <1>3. h # None => h \in Slots /\ <<h, o>> \in S /\ SlotRegion(h) = r /\ to[h] = None /\ h # s
    BY <1>1, <1>2 DEF OneWay, EndOK
  <1>4. h = None <=> far[r][o] = None
    BY <1>1 DEF EndsAgree
  <1> HIDE DEF Z, r, h
  <1>5. ASSUME NEW x \in Slots PROVE LinkOK(kto, kback, Z, x)
    <2>1. CASE x = h
      BY <1>0, <1>1, <1>3, <2>1, NoneApart DEF LinkOK, r
    <2>2. CASE x # h /\ to[x] # None /\ x # s
      <3>1. PICK p \in Big : /\ <<x, p>> \in S /\ <<to[x], p>> \in S
                             /\ SlotRegion(to[x]) = SlotRegion(x) /\ back[to[x]] = x
        BY <2>2 DEF OneWay, LinkOK
      <3>2. to[x] \in Slots /\ to[x] # s
        BY <1>2, <2>2, <3>1
      <3> QED BY <1>0, <1>1, <2>2, <3>1, <3>2 DEF LinkOK
    <2> QED BY <1>0, <2>1, <2>2 DEF LinkOK
  <1>6. ASSUME NEW x \in Slots PROVE LinkOK(kback, kto, Z, x)
    <2>1. CASE x = s
      BY <1>0, <1>1, <1>3, <2>1 DEF LinkOK, r
    <2>2. CASE back[x] # None /\ x # s
      <3>1. PICK p \in Big : /\ <<x, p>> \in S /\ <<back[x], p>> \in S
                             /\ SlotRegion(back[x]) = SlotRegion(x) /\ to[back[x]] = x
        BY <2>2 DEF OneWay, LinkOK
      <3>2. back[x] \in Slots /\ back[x] # s /\ back[x] # h
        BY <1>2, <1>3, <2>2, <3>1, NoneApart
      <3> QED BY <1>0, <1>1, <2>2, <3>1, <3>2 DEF LinkOK
    <2> QED BY <1>0, <2>1, <2>2 DEF LinkOK
  <1>7. ASSUME NEW x \in Slots, NEW p \in Big PROVE LastOK(kto, kend, Z, x, p)
    <2>1. CASE x = s
      BY <1>0, <1>1, <2>1 DEF LastOK, r
    <2>2. CASE x # s /\ <<x, p>> \in S /\ kto[x] = None
      <3>1. x # h /\ to[x] = None
        BY <1>0, <1>1, <2>2
      <3>2. end[SlotRegion(x)][p] = x /\ SlotRegion(x) \in Regions
        BY <2>2, <3>1 DEF OneWay, LastOK, InRegions
      <3> QED BY <1>0, <2>2, <3>1, <3>2 DEF LastOK, h
    <2> QED BY <1>1, <2>1, <2>2 DEF LastOK
  <1>8. ASSUME NEW x \in Slots, NEW p \in Big PROVE LastOK(kback, kfar, Z, x, p)
    <2>1. CASE x = s
      BY <1>0, <1>1, <2>1 DEF LastOK, r
    <2>2. CASE x # s /\ <<x, p>> \in S /\ kback[x] = None
      <3>1. back[x] = None /\ far[SlotRegion(x)][p] = x /\ SlotRegion(x) \in Regions
        BY <1>0, <1>1, <2>2 DEF OneWay, LastOK, InRegions
      <3> QED BY <1>0, <1>4, <2>2, <3>1, NoneApart DEF LastOK
    <2> QED BY <1>1, <2>1, <2>2 DEF LastOK
  <1>9. ASSUME NEW x \in Regions, NEW p \in Big PROVE EndOK(kto, kend, Z, x, p)
    <2>1. CASE x = r /\ p = o
      BY <1>0, <1>1, <1>3, <2>1 DEF EndOK, r
    <2>2. CASE ~(x = r /\ p = o) /\ end[x][p] # None
      <3>1. /\ <<end[x][p], p>> \in S /\ SlotRegion(end[x][p]) = x /\ to[end[x][p]] = None
            /\ end[x][p] \in Slots
        BY <1>2, <2>2 DEF OneWay, EndOK
      <3>2. end[x][p] # s
        BY <3>1
      <3>3. end[x][p] # h
        BY <1>3, <2>2, <3>1 DEF OneOrder
      <3> QED BY <1>0, <1>1, <2>2, <3>1, <3>2, <3>3 DEF EndOK
    <2> QED BY <1>0, <2>1, <2>2 DEF EndOK
  <1>10. ASSUME NEW x \in Regions, NEW p \in Big PROVE EndOK(kback, kfar, Z, x, p)
    <2>1. CASE x = r /\ p = o /\ h = None
      BY <1>0, <1>1, <2>1 DEF EndOK, r
    <2>2. CASE ~(x = r /\ p = o /\ h = None) /\ far[x][p] # None
      <3>1. /\ <<far[x][p], p>> \in S /\ SlotRegion(far[x][p]) = x /\ back[far[x][p]] = None
            /\ far[x][p] \in Slots
        BY <1>2, <2>2 DEF OneWay, EndOK
      <3>2. far[x][p] # s
        BY <3>1
      <3> QED BY <1>0, <1>1, <2>2, <3>1, <3>2 DEF EndOK
    <2> QED BY <1>0, <2>1, <2>2 DEF EndOK
  <1>11. EndsAgree(kend, kfar)
    BY <1>0, <1>1, <1>4 DEF EndsAgree
  <1> QED BY <1>5, <1>6, <1>7, <1>8, <1>9, <1>10, <1>11 DEF OneWay, Z

\* A removal writes this, in each of the two directions.
RemovalWrites(kto, kend, to, back, end, s, o) ==
  LET r == SlotRegion(s)
      p == to[s]
      n == back[s]
  IN /\ \A x \in Slots : kto[x] = IF x = s THEN None ELSE IF x = n THEN p ELSE to[x]
     /\ \A x \in Regions, q \in Big :
          kend[x][q] = IF x = r /\ q = o /\ p = None THEN n ELSE end[x][q]

\* It keeps the links of slots, of which none leads to the slot any more.
LEMMA RemovalLinks ==
  ASSUME NEW to \in SlotFn, NEW back \in SlotFn, NEW end \in EndFn, NEW far \in EndFn,
         NEW kto, NEW kback, NEW kend, NEW kfar, NEW S \in SUBSET (Slots \X Big),
         OneWay(to, back, end, S), OneWay(back, to, far, S), EndsAgree(end, far),
         OneOrder(S), InRegions(S), NEW s \in Slots, NEW o \in Big, <<s, o>> \in S,
         RemovalWrites(kto, kend, to, back, end, s, o),
         RemovalWrites(kback, kfar, back, to, far, s, o)
  PROVE  OneWay(kto, kback, kend, S \ {<<s, o>>}) /\ EndsAgree(kend, kfar)
  <1> DEFINE r == SlotRegion(s)
             p == to[s]
             n == back[s]
             Z == S \ {<<s, o>>}
  <1>0. /\ \A x \in Slots :
             /\ kto[x] = IF x = s THEN None ELSE IF x = n THEN p ELSE to[x]
             /\ kback[x] = IF x = s THEN None ELSE IF x = p THEN n ELSE back[x]
        /\ \A x \in Regions, q \in Big :
             /\ kend[x][q] = IF x = r /\ q = o /\ p = None THEN n ELSE end[x][q]
             /\ kfar[x][q] = IF x = r /\ q = o /\ n = None THEN p ELSE far[x][q]
    BY DEF RemovalWrites
  <1>1. /\ \A x \in Slots, q \in Big : <<x, q>> \in Z <=> <<x, q>> \in S /\ x # s
        /\ \A q \in Big : <<s, q>> \in S => q = o
        /\ r \in Regions
    BY DEF OneOrder, InRegions
  <1>2. /\ \A x \in Slots : to[x] # None => to[x] \in Slots
        /\ \A x \in Slots : back[x] # None => back[x] \in Slots
        /\ \A x \in Regions, q \in Big : end[x][q] # None => end[x][q] \in Slots
    BY DEF SlotFn, EndFn, MaybeSlot
  <1>3. p # None => p \in Slots /\ <<p, o>> \in S /\ SlotRegion(p) = r /\ back[p] = s
    BY <1>1, <1>2 DEF OneWay, LinkOK
  <1>4. n # None => n \in Slots /\ <<n, o>> \in S /\ SlotRegion(n) = r /\ to[n] = s
    BY <1>1, <1>2 DEF OneWay, LinkOK
  <1>5. /\ p = None => end[r][o] = s
        /\ n = None => far[r][o] = s
    BY DEF OneWay, LastOK
  <1>6. s # None
    BY NoneApart
  <1> HIDE DEF Z, r, p, n
  <1>7. ASSUME NEW x \in Slots PROVE LinkOK(kto, kback, Z, x)
    <2>1. CASE x = n /\ x # s /\ p # None
      <3>1. p # s
        BY <1>3, <2>1 DEF p, n
      <3> QED BY <1>0, <1>1, <1>3, <1>4, <2>1, <3>1, NoneApart DEF LinkOK
    <2>2. CASE x # n /\ x # s /\ to[x] # None
      <3>1. PICK q \in Big : /\ <<x, q>> \in S /\ <<to[x], q>> \in S
                             /\ SlotRegion(to[x]) = SlotRegion(x) /\ back[to[x]] = x
        BY <2>2 DEF OneWay, LinkOK
      <3>2. to[x] \in Slots /\ to[x] # s /\ to[x] # p
        BY <1>2, <1>3, <2>2, <3>1 DEF n
      <3> QED BY <1>0, <1>1, <2>2, <3>1, <3>2 DEF LinkOK
    <2> QED BY <1>0, <2>1, <2>2 DEF LinkOK
  <1>8. ASSUME NEW x \in Slots, NEW q \in Big PROVE LastOK(kto, kend, Z, x, q)
    <2> SUFFICES ASSUME <<x, q>> \in S, x # s, kto[x] = None
                 PROVE  kend[SlotRegion(x)][q] = x
      BY <1>1 DEF LastOK
    <2>1. SlotRegion(x) \in Regions
      BY DEF InRegions
    <2>2. CASE x = n
      <3>1. p = None /\ SlotRegion(x) = r /\ <<x, o>> \in S
        BY <1>0, <1>4, <2>2, NoneApart
      <3>2. q = o
        BY <3>1 DEF OneOrder
      <3> QED BY <1>0, <1>1, <2>2, <3>1, <3>2
    <2>3. CASE x # n
      <3>1. to[x] = None
        BY <1>0, <2>3
      <3>2. end[SlotRegion(x)][q] = x
        BY <3>1 DEF OneWay, LastOK
      <3>3. ~(SlotRegion(x) = r /\ q = o /\ p = None)
        BY <1>5, <3>2
      <3> QED BY <1>0, <2>1, <3>2, <3>3
    <2> QED BY <2>2, <2>3
  <1>9. ASSUME NEW x \in Regions, NEW q \in Big PROVE EndOK(kto, kend, Z, x, q)
    <2>1. CASE x = r /\ q = o /\ p = None
      <3>1. n # None => n # s
        BY <1>4, <1>6, <2>1 DEF p
      <3> QED BY <1>0, <1>1, <1>4, <2>1, <3>1 DEF EndOK
    <2>2. CASE ~(x = r /\ q = o /\ p = None) /\ end[x][q] # None
      <3>1. /\ <<end[x][q], q>> \in S /\ SlotRegion(end[x][q]) = x /\ to[end[x][q]] = None
            /\ end[x][q] \in Slots
        BY <1>2, <2>2 DEF OneWay, EndOK
      <3>2. end[x][q] # s
        BY <1>1, <2>2, <3>1 DEF r, p
      <3>3. end[x][q] # n
        BY <1>4, <1>6, <3>1, NoneApart
      <3> QED BY <1>0, <1>1, <2>2, <3>1, <3>2, <3>3 DEF EndOK
    <2> QED BY <1>0, <2>1, <2>2 DEF EndOK
  <1>10. EndsAgree(kend, kfar)
    <2>1. ASSUME NEW x \in Regions, NEW q \in Big PROVE kend[x][q] = None <=> kfar[x][q] = None
      <3>1. end[x][q] = None <=> far[x][q] = None
        BY DEF EndsAgree
      <3> QED BY <1>0, <1>5, <1>6, <3>1
    <2> QED BY <2>1 DEF EndsAgree
  <1> QED BY <1>7, <1>8, <1>9, <1>10 DEF OneWay, Z

-----------------------------------------------------------------------------
(* The lists of regions.                                                    *)

\* Linking a region that gets its first slot keeps the links of regions.
LEMMA LinkKeeps ==
  ASSUME NEW L \in LinkType, NEW K \in LinkType, NEW r \in Regions, NEW o \in Big,
         RegionsLinked(L.rprev, L.rnext, L.first, L.head), RegionLinked(K, L, r, o),
         L.head[r][o] = None, K.head[r][o] # None,
         \A x \in Regions, p \in Big :
           ~(x = r /\ p = o) => (K.head[x][p] = None <=> L.head[x][p] = None)
  PROVE  RegionsLinked(K.rprev, K.rnext, K.first, K.head)
  <1> DEFINE h == L.first[o]
  <1>1. /\ \A x \in Regions, p \in Big : L.rprev[x][p] # None => L.rprev[x][p] \in Regions
        /\ \A x \in Regions, p \in Big : L.rnext[x][p] # None => L.rnext[x][p] \in Regions
        /\ \A p \in Big : L.first[p] # None => L.first[p] \in Regions
    BY DEF LinkType, MaybeRegion
  <1>2. h # None => h \in Regions /\ L.head[h][o] # None /\ L.rprev[h][o] = None /\ h # r
    BY <1>1 DEF RegionsLinked, FirstOK
  <1>3. /\ \A p \in Big : K.first[p] = IF p = o THEN r ELSE L.first[p]
        /\ \A x \in Regions, p \in Big :
             /\ K.rnext[x][p] = IF x = r /\ p = o THEN h ELSE L.rnext[x][p]
             /\ K.rprev[x][p] = IF p = o /\ x = r THEN None
                                ELSE IF p = o /\ x = h THEN r ELSE L.rprev[x][p]
    BY DEF RegionLinked
  <1>4. r # None
    BY NoneApart
  <1> HIDE DEF h
  <1>5. ASSUME NEW p \in Big PROVE FirstOK(K.rprev, K.first, K.head, p)
    <2>1. CASE p = o
      BY <1>3, <2>1 DEF FirstOK
    <2>2. CASE p # o /\ L.first[p] # None
      BY <1>1, <1>3, <2>2 DEF FirstOK, RegionsLinked
    <2> QED BY <1>3, <2>1, <2>2 DEF FirstOK
  <1>6. ASSUME NEW x \in Regions, NEW p \in Big
        PROVE  RegionLinkOK(K.rprev, K.rnext, K.head, x, p)
    <2>1. CASE p = o /\ x = r
      BY <1>3, <2>1 DEF RegionLinkOK
    <2>2. CASE p = o /\ x # r /\ x = h
      BY <1>2, <1>3, <2>2, NoneApart DEF RegionLinkOK
    <2>3. CASE ~(p = o /\ (x = r \/ x = h)) /\ L.rprev[x][p] # None
      <3>1. /\ L.rnext[L.rprev[x][p]][p] = x /\ L.rprev[x][p] \in Regions
            /\ L.head[x][p] # None /\ L.head[L.rprev[x][p]][p] # None
        BY <1>1, <2>3 DEF RegionsLinked, RegionLinkOK
      <3> QED BY <1>3, <2>3, <3>1 DEF RegionLinkOK
    <2> QED BY <1>3, <2>1, <2>2, <2>3 DEF RegionLinkOK
  <1>7. ASSUME NEW x \in Regions, NEW p \in Big
        PROVE  RegionLinkOK(K.rnext, K.rprev, K.head, x, p)
    <2>1. CASE p = o /\ x = r
      BY <1>2, <1>3, <2>1 DEF RegionLinkOK
    <2>2. CASE ~(p = o /\ x = r) /\ L.rnext[x][p] # None
      <3>1. /\ L.rprev[L.rnext[x][p]][p] = x /\ L.rnext[x][p] \in Regions
            /\ L.head[x][p] # None /\ L.head[L.rnext[x][p]][p] # None
        BY <1>1, <2>2 DEF RegionsLinked, RegionLinkOK
      <3>2. p = o => L.rnext[x][p] # r /\ L.rnext[x][p] # h
        BY <1>2, <3>1, NoneApart
      <3> QED BY <1>3, <2>2, <3>1, <3>2 DEF RegionLinkOK
    <2> QED BY <1>3, <2>1, <2>2 DEF RegionLinkOK
  <1> QED BY <1>5, <1>6, <1>7 DEF RegionsLinked

\* So does unlinking one that has lost its last.
LEMMA UnlinkKeeps ==
  ASSUME NEW L \in LinkType, NEW K \in LinkType, NEW r \in Regions, NEW o \in Big,
         RegionsLinked(L.rprev, L.rnext, L.first, L.head), RegionUnlinked(K, L, r, o),
         \A x \in Regions, p \in Big :
           ~(x = r /\ p = o) => (K.head[x][p] = None <=> L.head[x][p] = None)
  PROVE  RegionsLinked(K.rprev, K.rnext, K.first, K.head)
  <1> DEFINE u == L.rprev[r][o]
             n == L.rnext[r][o]
  <1>1. /\ \A x \in Regions, p \in Big : L.rprev[x][p] # None => L.rprev[x][p] \in Regions
        /\ \A x \in Regions, p \in Big : L.rnext[x][p] # None => L.rnext[x][p] \in Regions
        /\ \A p \in Big : L.first[p] # None => L.first[p] \in Regions
    BY DEF LinkType, MaybeRegion
  <1>2. /\ u # None => u \in Regions /\ L.rnext[u][o] = r /\ L.head[u][o] # None
        /\ n # None => n \in Regions /\ L.rprev[n][o] = r /\ L.head[n][o] # None
    BY <1>1 DEF RegionsLinked, RegionLinkOK
  <1>3. /\ \A p \in Big : K.first[p] = IF p = o /\ u = None THEN n ELSE L.first[p]
        /\ \A x \in Regions, p \in Big :
             /\ K.rnext[x][p] = IF p = o /\ x = r THEN None
                                ELSE IF p = o /\ x = u THEN n ELSE L.rnext[x][p]
             /\ K.rprev[x][p] = IF p = o /\ x = r THEN None
                                ELSE IF p = o /\ x = n THEN u ELSE L.rprev[x][p]
    BY DEF RegionUnlinked
  <1>4. r # None
    BY NoneApart
  <1>n. (u = r) <=> (n = r)
    BY <1>2, <1>4
  <1> HIDE DEF u, n
  <1>5. ASSUME NEW p \in Big PROVE FirstOK(K.rprev, K.first, K.head, p)
    <2>1. CASE p = o /\ u = None /\ n # None
      <3>1. n # r
        BY <1>n, <1>4, <2>1
      <3> QED BY <1>2, <1>3, <2>1, <3>1 DEF FirstOK
    <2>2. CASE ~(p = o /\ u = None) /\ L.first[p] # None
      <3>1. /\ L.first[p] \in Regions /\ L.head[L.first[p]][p] # None
            /\ L.rprev[L.first[p]][p] = None
        BY <1>1, <2>2 DEF RegionsLinked, FirstOK
      <3>2. p = o => L.first[p] # r /\ L.first[p] # n
        BY <1>2, <1>4, <2>2, <3>1, NoneApart DEF u
      <3> QED BY <1>3, <2>2, <3>1, <3>2 DEF FirstOK
    <2> QED BY <1>3, <2>1, <2>2 DEF FirstOK
  <1>6. ASSUME NEW x \in Regions, NEW p \in Big
        PROVE  RegionLinkOK(K.rprev, K.rnext, K.head, x, p)
    <2>1. CASE p = o /\ x # r /\ x = n
      <3>1. u # r
        BY <1>n, <2>1
      <3> QED BY <1>2, <1>3, <2>1, <3>1, NoneApart DEF RegionLinkOK
    <2>2. CASE ~(p = o /\ (x = r \/ x = n)) /\ L.rprev[x][p] # None
      <3>1. /\ L.rnext[L.rprev[x][p]][p] = x /\ L.rprev[x][p] \in Regions
            /\ L.head[x][p] # None /\ L.head[L.rprev[x][p]][p] # None
        BY <1>1, <2>2 DEF RegionsLinked, RegionLinkOK
      <3>2. p = o => L.rprev[x][p] # r /\ L.rprev[x][p] # u
        BY <1>2, <2>2, <3>1, NoneApart DEF n
      <3> QED BY <1>3, <2>2, <3>1, <3>2 DEF RegionLinkOK
    <2> QED BY <1>3, <2>1, <2>2 DEF RegionLinkOK
  <1>7. ASSUME NEW x \in Regions, NEW p \in Big
        PROVE  RegionLinkOK(K.rnext, K.rprev, K.head, x, p)
    <2>1. CASE p = o /\ x # r /\ x = u
      <3>1. n # r
        BY <1>n, <2>1
      <3> QED BY <1>2, <1>3, <2>1, <3>1, NoneApart DEF RegionLinkOK
    <2>2. CASE ~(p = o /\ (x = r \/ x = u)) /\ L.rnext[x][p] # None
      <3>1. /\ L.rprev[L.rnext[x][p]][p] = x /\ L.rnext[x][p] \in Regions
            /\ L.head[x][p] # None /\ L.head[L.rnext[x][p]][p] # None
        BY <1>1, <2>2 DEF RegionsLinked, RegionLinkOK
      <3>2. p = o => L.rnext[x][p] # r /\ L.rnext[x][p] # n
        BY <1>2, <2>2, <3>1, NoneApart DEF u
      <3> QED BY <1>3, <2>2, <3>1, <3>2 DEF RegionLinkOK
    <2> QED BY <1>3, <2>1, <2>2 DEF RegionLinkOK
  <1> QED BY <1>5, <1>6, <1>7 DEF RegionsLinked

\* Nothing changes for the regions while each keeps a list or has none.
LEMMA SameKeeps ==
  ASSUME NEW L \in LinkType, NEW K \in LinkType, SameRegions(K, L),
         RegionsLinked(L.rprev, L.rnext, L.first, L.head),
         \A x \in Regions, p \in Big : K.head[x][p] = None <=> L.head[x][p] = None
  PROVE  RegionsLinked(K.rprev, K.rnext, K.first, K.head)
  <1>1. /\ \A x \in Regions, p \in Big : L.rprev[x][p] # None => L.rprev[x][p] \in Regions
        /\ \A x \in Regions, p \in Big : L.rnext[x][p] # None => L.rnext[x][p] \in Regions
        /\ \A p \in Big : L.first[p] # None => L.first[p] \in Regions
    BY DEF LinkType, MaybeRegion
  <1> QED BY <1>1 DEF SameRegions, RegionsLinked, FirstOK, RegionLinkOK


-----------------------------------------------------------------------------
(* Every list is reached from its head.                                     *)

\* Links back that go round in no circle: every set of elements has one from which they
\* lead out of it.
Rooted(back, N) == \A T \in SUBSET N : T # {} => \E x \in T : back[x] \notin T

\* What an order's list of regions leads back to, and the one region that is first.
RegionBack(L, o) == [r \in Regions |-> L.rprev[r][o]]
OneFirst(L, r, o) == L.head[r][o] # None /\ L.rprev[r][o] = None => L.first[o] = r

Reaches(L) ==
  /\ Rooted(L.prev, Slots) /\ \A o \in Big : Rooted(RegionBack(L, o), Regions)
  /\ \A r \in Regions, o \in Big : OneFirst(L, r, o)

\* An element put before the first makes no circle.
LEMMA RootedHead ==
  ASSUME NEW N, NEW back, NEW kback, Rooted(back, N), NEW s \in N,
         kback[s] \notin N, \A x \in N : x # s => kback[x] = s \/ kback[x] = back[x]
  PROVE  Rooted(kback, N)
  <1> SUFFICES ASSUME NEW T \in SUBSET N, T # {} PROVE \E x \in T : kback[x] \notin T
    BY DEF Rooted
  <1>1. CASE s \in T
    BY <1>1
  <1>2. CASE s \notin T
    <2>1. PICK x \in T : back[x] \notin T
      BY DEF Rooted
    <2> QED BY <1>2, <2>1
  <1> QED BY <1>1, <1>2

\* Nor does one that nothing leads back to.
LEMMA RootedTail ==
  ASSUME NEW N, NEW back, NEW kback, Rooted(back, N), NEW s \in N,
         kback[s] # s, \A x \in N : back[x] # s /\ (x # s => kback[x] = back[x])
  PROVE  Rooted(kback, N)
  <1> SUFFICES ASSUME NEW T \in SUBSET N, T # {} PROVE \E x \in T : kback[x] \notin T
    BY DEF Rooted
  <1>1. CASE T = {s}
    BY <1>1
  <1>2. CASE T # {s}
    <2>1. PICK x \in T \ {s} : back[x] \notin T \ {s}
      <3>1. T \ {s} \in SUBSET N /\ T \ {s} # {}
        BY <1>2
      <3> QED BY <3>1 DEF Rooted
    <2> QED BY <2>1
  <1> QED BY <1>1, <1>2

\* An element is taken out: the next leads back to the one before.
LEMMA RootedLess ==
  ASSUME NEW N, NEW back, NEW kback, Rooted(back, N), NEW s \in N, kback[s] \notin N,
         \A x \in N : x # s => \/ kback[x] = back[x]
                               \/ back[x] = s /\ kback[x] = back[s]
  PROVE  Rooted(kback, N)
  <1> SUFFICES ASSUME NEW T \in SUBSET N, T # {} PROVE \E x \in T : kback[x] \notin T
    BY DEF Rooted
  <1>1. CASE s \in T
    BY <1>1
  <1>2. CASE s \notin T
    <2>1. PICK x \in T \cup {s} : back[x] \notin T \cup {s}
      <3>1. T \cup {s} \in SUBSET N /\ T \cup {s} # {}
        OBVIOUS
      <3> QED BY <3>1 DEF Rooted
    <2>2. CASE x = s
      <3>1. PICK y \in T : back[y] \notin T
        BY DEF Rooted
      <3> QED BY <1>2, <2>1, <2>2, <3>1
    <2>3. CASE x # s
      BY <1>2, <2>1, <2>3
    <2> QED BY <2>2, <2>3
  <1> QED BY <1>1, <1>2

\* The links that do not change make no circle either.
LEMMA RootedSame ==
  ASSUME NEW N, NEW back, NEW kback, Rooted(back, N), \A x \in N : kback[x] = back[x]
  PROVE  Rooted(kback, N)
  BY DEF Rooted

\* A region that is linked becomes the first of its order.
LEMMA LinkReaches ==
  ASSUME NEW L \in LinkType, NEW K \in LinkType, NEW r \in Regions, NEW o \in Big,
         RegionLinked(K, L, r, o), Reaches(L),
         \A x \in Regions, p \in Big :
           ~(x = r /\ p = o) => (K.head[x][p] = None <=> L.head[x][p] = None)
  PROVE  /\ \A p \in Big : Rooted(RegionBack(K, p), Regions)
         /\ \A x \in Regions, p \in Big : OneFirst(K, x, p)
  <1>1. ASSUME NEW p \in Big PROVE Rooted(RegionBack(K, p), Regions)
    <2>0. Rooted(RegionBack(L, p), Regions)
      BY DEF Reaches
    <2>1. CASE p = o
      <3>1. /\ RegionBack(K, p)[r] \notin Regions
            /\ \A x \in Regions : x # r => \/ RegionBack(K, p)[x] = r
                                           \/ RegionBack(K, p)[x] = RegionBack(L, p)[x]
        BY <2>1, NoneApart DEF RegionLinked, RegionBack
      <3> QED BY <2>0, <3>1, RootedHead
    <2>2. CASE p # o
      <3>1. \A x \in Regions : RegionBack(K, p)[x] = RegionBack(L, p)[x]
        BY <2>2 DEF RegionLinked, RegionBack
      <3> QED BY <2>0, <3>1, RootedSame
    <2> QED BY <2>1, <2>2
  <1>2. ASSUME NEW x \in Regions, NEW p \in Big PROVE OneFirst(K, x, p)
    <2>0. OneFirst(L, x, p) /\ r # None
      BY NoneApart DEF Reaches
    <2> QED BY <2>0 DEF OneFirst, RegionLinked
  <1> QED BY <1>1, <1>2

\* When a region is unlinked, the next takes its place.
LEMMA UnlinkReaches ==
  ASSUME NEW L \in LinkType, NEW K \in LinkType, NEW r \in Regions, NEW o \in Big,
         RegionsLinked(L.rprev, L.rnext, L.first, L.head),
         RegionUnlinked(K, L, r, o), Reaches(L), L.head[r][o] # None, K.head[r][o] = None,
         \A x \in Regions, p \in Big :
           ~(x = r /\ p = o) => (K.head[x][p] = None <=> L.head[x][p] = None)
  PROVE  /\ \A p \in Big : Rooted(RegionBack(K, p), Regions)
         /\ \A x \in Regions, p \in Big : OneFirst(K, x, p)
  <1>1. ASSUME NEW p \in Big PROVE Rooted(RegionBack(K, p), Regions)
    <2>0. Rooted(RegionBack(L, p), Regions)
      BY DEF Reaches
    <2>1. CASE p = o
      <3> DEFINE n == L.rnext[r][o]
      <3>1. n \in Regions => L.rprev[n][o] = r
        BY NoneApart DEF RegionsLinked, RegionLinkOK
      <3>2. /\ RegionBack(K, p)[r] \notin Regions
            /\ \A x \in Regions : x # r =>
                 \/ RegionBack(K, p)[x] = RegionBack(L, p)[x]
                 \/ RegionBack(L, p)[x] = r /\ RegionBack(K, p)[x] = RegionBack(L, p)[r]
        BY <2>1, <3>1, NoneApart DEF RegionUnlinked, RegionBack
      <3> HIDE DEF n
      <3> QED BY <2>0, <3>2, RootedLess
    <2>2. CASE p # o
      <3>1. \A x \in Regions : RegionBack(K, p)[x] = RegionBack(L, p)[x]
        BY <2>2 DEF RegionUnlinked, RegionBack
      <3> QED BY <2>0, <3>1, RootedSame
    <2> QED BY <2>1, <2>2
  <1>2. ASSUME NEW x \in Regions, NEW p \in Big PROVE OneFirst(K, x, p)
    <2>0. OneFirst(L, x, p) /\ OneFirst(L, r, o)
      BY DEF Reaches
    <2> QED BY <2>0 DEF OneFirst, RegionUnlinked
  <1> QED BY <1>1, <1>2

\* Nothing changes while each region keeps a list or has none.
LEMMA SameReaches ==
  ASSUME NEW L, NEW K, SameRegions(K, L), Reaches(L),
         \A x \in Regions, p \in Big : K.head[x][p] = None <=> L.head[x][p] = None
  PROVE  /\ \A p \in Big : Rooted(RegionBack(K, p), Regions)
         /\ \A x \in Regions, p \in Big : OneFirst(K, x, p)
  BY DEF SameRegions, Reaches, RegionBack, OneFirst


-----------------------------------------------------------------------------
(* The lists.                                                               *)

\* The lists hold S: a slot for one order, and of a region there is.
Lists(L, S) ==
  /\ L \in LinkType /\ S \subseteq Slots \X Big /\ OneOrder(S) /\ InRegions(S)
  /\ OneWay(L.prev, L.next, L.head, S) /\ OneWay(L.next, L.prev, L.tail, S)
  /\ EndsAgree(L.head, L.tail)
  /\ RegionsLinked(L.rprev, L.rnext, L.first, L.head)
  /\ Reaches(L)

\* The fields of the lists have their types.
LEMMA FieldTypes ==
  ASSUME NEW L \in LinkType
  PROVE  /\ L.prev \in SlotFn /\ L.next \in SlotFn /\ L.head \in EndFn /\ L.tail \in EndFn
         /\ L.first \in [Big -> MaybeRegion]
  BY DEF LinkType, SlotFn, EndFn

\* One more slot in S.
LEMMA OneMore ==
  ASSUME NEW S \in SUBSET (Slots \X Big), OneOrder(S), InRegions(S),
         NEW s \in Slots, NEW o \in Big, SlotRegion(s) \in Regions,
         \A p \in Big : <<s, p>> \notin S
  PROVE  /\ S \cup {<<s, o>>} \subseteq Slots \X Big /\ OneOrder(S \cup {<<s, o>>})
         /\ InRegions(S \cup {<<s, o>>})
  BY DEF OneOrder, InRegions

\* A slot that is in no list can be put at the head of one.
LEMMA PushHeadKeeps ==
  ASSUME NEW L, NEW S, Lists(L, S), NEW s \in Slots, NEW o \in Big,
         SlotRegion(s) \in Regions, \A p \in Big : <<s, p>> \notin S
  PROVE  Lists(PushHead(L, s, o), S \cup {<<s, o>>})
  <1> DEFINE K == PushHead(L, s, o)
             Z == S \cup {<<s, o>>}
             r == SlotRegion(s)
             h == L.head[r][o]
  <1>0. /\ L \in LinkType /\ S \in SUBSET (Slots \X Big) /\ OneOrder(S) /\ InRegions(S)
        /\ OneWay(L.prev, L.next, L.head, S) /\ OneWay(L.next, L.prev, L.tail, S)
        /\ EndsAgree(L.head, L.tail) /\ RegionsLinked(L.rprev, L.rnext, L.first, L.head)
        /\ Reaches(L)
    BY DEF Lists
  <1>r. r \in Regions
    OBVIOUS
  <1>1. K \in LinkType /\ PushedHead(K, L, s, o)
    BY <1>0, PushHeadIs
  <1>2. Z \subseteq Slots \X Big /\ OneOrder(Z) /\ InRegions(Z)
    BY <1>0, OneMore
  <1> HIDE DEF K
  <1>3. PushWrites(K.prev, K.next, K.head, K.tail, L.prev, L.next, L.head, L.tail, s, o)
    BY <1>1 DEF PushedHead, PushWrites
  <1>4. /\ OneWay(K.prev, K.next, K.head, Z) /\ OneWay(K.next, K.prev, K.tail, Z)
        /\ EndsAgree(K.head, K.tail)
    BY <1>0, <1>3, FieldTypes, PushLinks
  <1>5. /\ K.head[r][o] # None
        /\ \A x \in Regions, p \in Big : ~(x = r /\ p = o) => K.head[x][p] = L.head[x][p]
    BY <1>1, NoneApart DEF PushedHead
  <1>6. RegionsLinked(K.rprev, K.rnext, K.first, K.head)
    <2>1. CASE h = None
      <3>1. L.first[o] # r
        BY <1>0, <2>1, NoneApart DEF RegionsLinked, FirstOK
      <3>2. RegionLinked(K, L, r, o)
        BY <1>1, <2>1, <3>1 DEF PushedHead
      <3> QED BY <1>0, <1>1, <1>5, <2>1, <3>2, LinkKeeps
    <2>2. CASE h # None
      <3>1. SameRegions(K, L)
        BY <1>1, <2>2 DEF PushedHead
      <3> QED BY <1>0, <1>1, <1>5, <2>2, <3>1, SameKeeps
    <2> QED BY <2>1, <2>2
  <1>7. Rooted(K.prev, Slots)
    <2>1. s # h
      BY <1>0, <1>r, NoneApart DEF OneWay, EndOK
    <2>2. /\ K.prev[s] \notin Slots
          /\ \A x \in Slots : x # s => K.prev[x] = s \/ K.prev[x] = L.prev[x]
      BY <1>1, <2>1, NoneApart DEF PushedHead
    <2>3. Rooted(L.prev, Slots)
      BY <1>0 DEF Reaches
    <2> QED BY <2>2, <2>3, RootedHead
  <1>8. /\ \A p \in Big : Rooted(RegionBack(K, p), Regions)
        /\ \A x \in Regions, p \in Big : OneFirst(K, x, p)
    <2>1. CASE h = None
      <3>1. L.first[o] # r
        BY <1>0, <2>1, NoneApart DEF RegionsLinked, FirstOK
      <3>2. RegionLinked(K, L, r, o)
        BY <1>1, <2>1, <3>1 DEF PushedHead
      <3> QED BY <1>0, <1>1, <1>5, <3>2, LinkReaches
    <2>2. CASE h # None
      <3>1. SameRegions(K, L)
        BY <1>1, <2>2 DEF PushedHead
      <3> QED BY <1>0, <1>5, <2>2, <3>1, SameReaches
    <2> QED BY <2>1, <2>2
  <1> QED BY <1>1, <1>2, <1>4, <1>6, <1>7, <1>8 DEF Lists, Reaches, K

\* Or at the tail.
LEMMA PushTailKeeps ==
  ASSUME NEW L, NEW S, Lists(L, S), NEW s \in Slots, NEW o \in Big,
         SlotRegion(s) \in Regions, \A p \in Big : <<s, p>> \notin S
  PROVE  Lists(PushTail(L, s, o), S \cup {<<s, o>>})
  <1> DEFINE K == PushTail(L, s, o)
             Z == S \cup {<<s, o>>}
             r == SlotRegion(s)
             t == L.tail[r][o]
  <1>0. /\ L \in LinkType /\ S \in SUBSET (Slots \X Big) /\ OneOrder(S) /\ InRegions(S)
        /\ OneWay(L.prev, L.next, L.head, S) /\ OneWay(L.next, L.prev, L.tail, S)
        /\ EndsAgree(L.head, L.tail) /\ RegionsLinked(L.rprev, L.rnext, L.first, L.head)
        /\ Reaches(L)
    BY DEF Lists
  <1>1. K \in LinkType /\ PushedTail(K, L, s, o)
    BY <1>0, PushTailIs
  <1>2. Z \subseteq Slots \X Big /\ OneOrder(Z) /\ InRegions(Z)
    BY <1>0, OneMore
  <1> HIDE DEF K
  <1>3. PushWrites(K.next, K.prev, K.tail, K.head, L.next, L.prev, L.tail, L.head, s, o)
    BY <1>1 DEF PushedTail, PushWrites
  <1>a. EndsAgree(L.tail, L.head)
    BY <1>0 DEF EndsAgree
  <1>4. /\ OneWay(K.prev, K.next, K.head, Z) /\ OneWay(K.next, K.prev, K.tail, Z)
        /\ EndsAgree(K.tail, K.head)
    BY <1>0, <1>3, <1>a, FieldTypes, PushLinks
  <1>b. EndsAgree(K.head, K.tail)
    BY <1>4 DEF EndsAgree
  <1>5. /\ \A x \in Regions, p \in Big : ~(x = r /\ p = o) => K.head[x][p] = L.head[x][p]
        /\ L.head[r][o] = None <=> t = None
        /\ K.head[r][o] # None
    BY <1>0, <1>1, NoneApart DEF PushedTail, EndsAgree
  <1>6. RegionsLinked(K.rprev, K.rnext, K.first, K.head)
    <2>1. CASE t = None
      <3>1. L.first[o] # r
        BY <1>0, <1>5, <2>1, NoneApart DEF RegionsLinked, FirstOK
      <3>2. RegionLinked(K, L, r, o)
        BY <1>1, <2>1, <3>1 DEF PushedTail
      <3> QED BY <1>0, <1>1, <1>5, <2>1, <3>2, LinkKeeps
    <2>2. CASE t # None
      <3>1. SameRegions(K, L)
        BY <1>1, <2>2 DEF PushedTail
      <3> QED BY <1>0, <1>1, <1>5, <2>2, <3>1, SameKeeps
    <2> QED BY <2>1, <2>2
  <1>7. Rooted(K.prev, Slots)
    <2>1. s # t
      <3>1. r \in Regions
        OBVIOUS
      <3>2. t # None => <<t, o>> \in S
        BY <1>0, <3>1 DEF OneWay, EndOK
      <3> QED BY <3>2, NoneApart
    <2>2. ASSUME NEW x \in Slots PROVE L.prev[x] # s
      <3>1. LinkOK(L.prev, L.next, S, x)
        BY <1>0 DEF OneWay
      <3> QED BY <3>1, NoneApart DEF LinkOK
    <2>3. K.prev[s] = t /\ \A x \in Slots : x # s => K.prev[x] = L.prev[x]
      BY <1>1 DEF PushedTail
    <2>4. Rooted(L.prev, Slots)
      BY <1>0 DEF Reaches
    <2> HIDE DEF t
    <2> QED BY <2>1, <2>2, <2>3, <2>4, RootedTail
  <1>8. /\ \A p \in Big : Rooted(RegionBack(K, p), Regions)
        /\ \A x \in Regions, p \in Big : OneFirst(K, x, p)
    <2>1. CASE t = None
      <3>1. L.first[o] # r
        BY <1>0, <1>5, <2>1, NoneApart DEF RegionsLinked, FirstOK
      <3>2. RegionLinked(K, L, r, o)
        BY <1>1, <2>1, <3>1 DEF PushedTail
      <3> QED BY <1>0, <1>1, <1>5, <3>2, LinkReaches
    <2>2. CASE t # None
      <3>1. SameRegions(K, L)
        BY <1>1, <2>2 DEF PushedTail
      <3> QED BY <1>0, <1>5, <2>2, <3>1, SameReaches
    <2> QED BY <2>1, <2>2
  <1> QED BY <1>1, <1>2, <1>4, <1>b, <1>6, <1>7, <1>8 DEF Lists, Reaches, K

\* The slots that the list of a region and an order holds.
Held(S, r, o) == {s \in Slots : <<s, o>> \in S /\ SlotRegion(s) = r}

\* The links of slots lead to slots of the same list.
LEMMA HeldLinks ==
  ASSUME NEW L, NEW S, Lists(L, S), NEW r \in Regions, NEW o \in Big, NEW s \in Held(S, r, o)
  PROVE  /\ L.prev[s] # None => L.prev[s] \in Held(S, r, o) /\ L.next[L.prev[s]] = s
         /\ L.next[s] # None => L.next[s] \in Held(S, r, o) /\ L.prev[L.next[s]] = s
         /\ L.prev[s] = None => L.head[r][o] = s
         /\ L.next[s] = None => L.tail[r][o] = s
  <1>0. /\ S \subseteq Slots \X Big /\ OneOrder(S)
        /\ OneWay(L.prev, L.next, L.head, S) /\ OneWay(L.next, L.prev, L.tail, S)
        /\ s \in Slots /\ <<s, o>> \in S /\ SlotRegion(s) = r
    BY DEF Lists, Held
  <1>1. L.prev[s] # None => L.prev[s] \in Held(S, r, o) /\ L.next[L.prev[s]] = s
    <2> SUFFICES ASSUME L.prev[s] # None
                 PROVE  L.prev[s] \in Held(S, r, o) /\ L.next[L.prev[s]] = s
      OBVIOUS
    <2>1. PICK p \in Big : /\ <<s, p>> \in S /\ <<L.prev[s], p>> \in S
                           /\ SlotRegion(L.prev[s]) = SlotRegion(s) /\ L.next[L.prev[s]] = s
      BY <1>0 DEF OneWay, LinkOK
    <2> QED BY <1>0, <2>1 DEF OneOrder, Held
  <1>2. L.next[s] # None => L.next[s] \in Held(S, r, o) /\ L.prev[L.next[s]] = s
    <2> SUFFICES ASSUME L.next[s] # None
                 PROVE  L.next[s] \in Held(S, r, o) /\ L.prev[L.next[s]] = s
      OBVIOUS
    <2>1. PICK p \in Big : /\ <<s, p>> \in S /\ <<L.next[s], p>> \in S
                           /\ SlotRegion(L.next[s]) = SlotRegion(s) /\ L.prev[L.next[s]] = s
      BY <1>0 DEF OneWay, LinkOK
    <2> QED BY <1>0, <2>1 DEF OneOrder, Held
  <1> QED BY <1>0, <1>1, <1>2 DEF OneWay, LastOK

\* A list that holds a slot has a head.
LEMMA HeadThere ==
  ASSUME NEW L, NEW S, Lists(L, S), NEW s \in Slots, NEW o \in Big, <<s, o>> \in S
  PROVE  L.head[SlotRegion(s)][o] # None
  <1> DEFINE r == SlotRegion(s)
             H == Held(S, r, o)
  <1>1. r \in Regions /\ H \in SUBSET Slots /\ H # {} /\ Rooted(L.prev, Slots)
    BY DEF Lists, InRegions, Held, Reaches
  <1>2. PICK x \in H : L.prev[x] \notin H
    BY <1>1 DEF Rooted
  <1>3. L.head[r][o] = x
    BY <1>1, <1>2, HeldLinks
  <1> QED BY <1>1, <1>2, <1>3, NoneApart

\* A slot can be taken from anywhere in its list.
LEMMA RemoveSlotKeeps ==
  ASSUME NEW L, NEW S, Lists(L, S), NEW s \in Slots, NEW o \in Big, <<s, o>> \in S
  PROVE  Lists(RemoveSlot(L, s, o), S \ {<<s, o>>})
  <1> DEFINE K == RemoveSlot(L, s, o)
             Z == S \ {<<s, o>>}
             r == SlotRegion(s)
  <1>0. /\ L \in LinkType /\ S \in SUBSET (Slots \X Big) /\ OneOrder(S) /\ InRegions(S)
        /\ OneWay(L.prev, L.next, L.head, S) /\ OneWay(L.next, L.prev, L.tail, S)
        /\ EndsAgree(L.head, L.tail) /\ RegionsLinked(L.rprev, L.rnext, L.first, L.head)
        /\ Reaches(L)
    BY DEF Lists
  <1>r. r \in Regions
    BY <1>0 DEF InRegions
  <1>1. K \in LinkType /\ SlotRemoved(K, L, s, o)
    BY <1>0, <1>r, RemoveSlotIs
  <1>2. Z \subseteq Slots \X Big /\ OneOrder(Z) /\ InRegions(Z)
    BY <1>0 DEF OneOrder, InRegions
  <1> HIDE DEF K
  <1>3. /\ RemovalWrites(K.prev, K.head, L.prev, L.next, L.head, s, o)
        /\ RemovalWrites(K.next, K.tail, L.next, L.prev, L.tail, s, o)
    BY <1>1 DEF SlotRemoved, RemovalWrites
  <1>a. EndsAgree(L.tail, L.head)
    BY <1>0 DEF EndsAgree
  <1>4. OneWay(K.prev, K.next, K.head, Z) /\ EndsAgree(K.head, K.tail)
    BY <1>0, <1>3, FieldTypes, RemovalLinks
  <1>b. OneWay(K.next, K.prev, K.tail, Z)
    BY <1>0, <1>3, <1>a, FieldTypes, RemovalLinks
  <1>5. /\ \A x \in Regions, p \in Big : ~(x = r /\ p = o) => K.head[x][p] = L.head[x][p]
        /\ L.prev[s] = None => L.head[r][o] = s
        /\ L.prev[s] # None => K.head[r][o] = L.head[r][o]
    BY <1>0, <1>1, <1>r DEF SlotRemoved, OneWay, LastOK
  <1>6. RegionsLinked(K.rprev, K.rnext, K.first, K.head)
    <2>1. CASE K.head[r][o] = None
      <3>1. RegionUnlinked(K, L, r, o)
        BY <1>1, <2>1 DEF SlotRemoved
      <3> QED BY <1>0, <1>1, <1>5, <1>r, <3>1, UnlinkKeeps
    <2>2. CASE K.head[r][o] # None
      <3>1. SameRegions(K, L)
        BY <1>1, <2>2 DEF SlotRemoved
      <3>2. L.head[r][o] # None
        BY <1>5, <2>2, NoneApart
      <3> QED BY <1>0, <1>1, <1>5, <2>2, <3>1, <3>2, SameKeeps
    <2> QED BY <2>1, <2>2
  <1>7. Rooted(K.prev, Slots)
    <2> DEFINE n == L.next[s]
    <2>1. n \in Slots => L.prev[n] = s
      BY <1>0, NoneApart DEF OneWay, LinkOK
    <2>2. /\ K.prev[s] \notin Slots
          /\ \A x \in Slots : x # s => \/ K.prev[x] = L.prev[x]
                                       \/ L.prev[x] = s /\ K.prev[x] = L.prev[s]
      BY <1>1, <2>1, NoneApart DEF SlotRemoved
    <2>3. Rooted(L.prev, Slots)
      BY <1>0 DEF Reaches
    <2> HIDE DEF n
    <2> QED BY <2>2, <2>3, RootedLess
  <1>8. /\ \A p \in Big : Rooted(RegionBack(K, p), Regions)
        /\ \A x \in Regions, p \in Big : OneFirst(K, x, p)
    <2>1. L.head[r][o] # None
      BY HeadThere
    <2>2. CASE K.head[r][o] = None
      <3>1. RegionUnlinked(K, L, r, o)
        BY <1>1, <2>2 DEF SlotRemoved
      <3> QED BY <1>0, <1>1, <1>5, <1>r, <2>1, <2>2, <3>1, UnlinkReaches
    <2>3. CASE K.head[r][o] # None
      <3>1. SameRegions(K, L)
        BY <1>1, <2>3 DEF SlotRemoved
      <3> QED BY <1>0, <1>5, <1>r, <2>1, <2>3, <3>1, SameReaches
    <2> QED BY <2>2, <2>3
  <1> QED BY <1>1, <1>2, <1>4, <1>b, <1>6, <1>7, <1>8 DEF Lists, Reaches, K

\* The slot a pop takes is in the list of its order.
LEMMA FirstIsListed ==
  ASSUME NEW L, NEW S, Lists(L, S), NEW o \in Big, L.first[o] # None
  PROVE  FirstSlot(L, o) \in Slots /\ <<FirstSlot(L, o), o>> \in S
  <1>1. L.first[o] \in Regions
    BY DEF Lists, LinkType, MaybeRegion
  <1>2. L.head[L.first[o]][o] # None
    BY DEF Lists, RegionsLinked, FirstOK
  <1>3. <<L.head[L.first[o]][o], o>> \in S /\ S \subseteq Slots \X Big
    BY <1>1, <1>2 DEF Lists, OneWay, EndOK
  <1> QED BY <1>3 DEF FirstSlot


-----------------------------------------------------------------------------
(* Rows and intrusive lists.                                                *)

Elems(q)  == {q[i] : i \in 1 .. Len(q)}
Unique(q) == \A i, j \in 1 .. Len(q) : q[i] = q[j] => i = j

\* What Elems holds.
LEMMA InElems ==
  ASSUME NEW q PROVE \A x : x \in Elems(q) <=> \E i \in 1 .. Len(q) : q[i] = x
  BY DEF Elems

\* A row or list with one more element, behind,
LEMMA AppendElems ==
  ASSUME NEW q \in Seq(Nat), NEW a \in Nat, Unique(q), a \notin Elems(q)
  PROVE  /\ Append(q, a) \in Seq(Nat) /\ Unique(Append(q, a))
         /\ Elems(Append(q, a)) = Elems(q) \cup {a}
  <1> DEFINE k == Append(q, a)
  <1>1. /\ k \in Seq(Nat) /\ Len(k) = Len(q) + 1 /\ k[Len(q) + 1] = a
        /\ \A i \in 1 .. Len(q) : k[i] = q[i]
    OBVIOUS
  <1> HIDE DEF k
  <1>2. Unique(k)
    <2> SUFFICES ASSUME NEW i \in 1 .. Len(k), NEW j \in 1 .. Len(k), k[i] = k[j]
                 PROVE  i = j
      BY DEF Unique
    <2>1. Len(q) \in Nat /\ Len(k) = Len(q) + 1
      BY <1>1
    <2>2. \A l \in 1 .. Len(q) : k[l] = q[l] /\ k[l] # a
      BY <1>1 DEF Elems
    <2>3. i = Len(k) => j = Len(k)
      BY <1>1, <2>1, <2>2
    <2>4. j = Len(k) => i = Len(k)
      BY <1>1, <2>1, <2>2
    <2>5. i # Len(k) /\ j # Len(k) => i \in 1 .. Len(q) /\ j \in 1 .. Len(q) /\ q[i] = q[j]
      BY <2>1, <2>2
    <2> QED BY <2>3, <2>4, <2>5 DEF Unique
  <1>3. Elems(k) = Elems(q) \cup {a}
    BY <1>1 DEF Elems
  <1> QED BY <1>1, <1>2, <1>3 DEF k

\* in front,
LEMMA ConsElems ==
  ASSUME NEW q \in Seq(Nat), NEW a \in Nat, Unique(q), a \notin Elems(q)
  PROVE  /\ <<a>> \o q \in Seq(Nat) /\ Unique(<<a>> \o q)
         /\ Elems(<<a>> \o q) = Elems(q) \cup {a}
  <1> DEFINE k == <<a>> \o q
             n == Len(q)
  <1>1. /\ k \in Seq(Nat) /\ Len(k) = n + 1 /\ k[1] = a /\ n \in Nat
        /\ \A i \in 1 .. n : k[i + 1] = q[i]
    OBVIOUS
  <1> HIDE DEF k
  <1>2. ASSUME NEW i \in 1 .. n + 1 PROVE i = 1 \/ (i - 1 \in 1 .. n /\ k[i] = q[i - 1])
    <2>1. CASE i # 1
      <3>1. i - 1 \in 1 .. n /\ (i - 1) + 1 = i
        BY <1>1, <2>1
      <3> QED BY <1>1, <3>1
    <2> QED BY <2>1
  <1>3. \A i \in 1 .. n : q[i] # a
    BY InElems
  <1>6. \A i, j \in 1 .. n : q[i] = q[j] => i = j
    BY DEF Unique
  <1>7. ASSUME NEW x PROVE x \in Elems(q) <=> \E i \in 1 .. n : q[i] = x
    BY InElems
  <1>8. ASSUME NEW x PROVE x \in Elems(k) <=> \E i \in 1 .. n + 1 : k[i] = x
    BY <1>1, InElems
  <1> HIDE DEF n
  <1>4. ASSUME NEW i \in 1 .. n + 1, NEW j \in 1 .. n + 1, k[i] = k[j] PROVE i = j
    <2>1. CASE i = 1 \/ j = 1
      BY <1>1, <1>2, <1>3, <1>4, <2>1
    <2>2. CASE i # 1 /\ j # 1
      <3>1. i - 1 \in 1 .. n /\ j - 1 \in 1 .. n /\ q[i - 1] = q[j - 1]
        BY <1>2, <1>4, <2>2
      <3> QED BY <1>6, <3>1
    <2> QED BY <2>1, <2>2
  <1>5. ASSUME NEW x PROVE x \in Elems(k) <=> x \in Elems(q) \/ x = a
    <2>3. ASSUME NEW i \in 1 .. n, q[i] = x PROVE \E j \in 1 .. n + 1 : k[j] = x
      <3>1. i + 1 \in 1 .. n + 1 /\ k[i + 1] = x
        BY <1>1, <2>3
      <3> QED BY <3>1
    <2>4. 1 \in 1 .. n + 1
      BY <1>1
    <2> QED BY <1>1, <1>2, <1>7, <1>8, <2>3, <2>4
  <1> QED BY <1>1, <1>4, <1>5 DEF Unique, k

\* or with one less: the last takes its place,
LEMMA SwapRemoveElems ==
  ASSUME NEW q \in Seq(Nat), Unique(q), NEW a \in Elems(q)
  PROVE  /\ SwapRemove(q, a) \in Seq(Nat) /\ Unique(SwapRemove(q, a))
         /\ Elems(SwapRemove(q, a)) = Elems(q) \ {a}
  <1> DEFINE i == CHOOSE j \in 1 .. Len(q) : q[j] = a
             n == Len(q)
             m == [q EXCEPT ![i] = q[n]]
             k == SubSeq(m, 1, n - 1)
  <1>1. i \in 1 .. n /\ q[i] = a /\ n \in Nat /\ n >= 1
    BY DEF Elems
  <1>2. SwapRemove(q, a) = k
    BY DEF SwapRemove
  <1> HIDE DEF i
  <1>3. /\ m \in Seq(Nat) /\ Len(m) = n
        /\ \A j \in 1 .. n : m[j] = IF j = i THEN q[n] ELSE q[j]
    BY <1>1
  <1> HIDE DEF m
  <1>4. /\ k \in Seq(Nat) /\ Len(k) = n - 1
        /\ \A j \in 1 .. n - 1 : k[j] = IF j = i THEN q[n] ELSE q[j]
    <2>1. \A j \in 1 .. n - 1 : m[j] \in Nat
      BY <1>1, <1>3
    <2>2. k \in Seq(Nat) /\ Len(k) = n - 1 /\ \A j \in 1 .. n - 1 : k[j] = m[j]
      BY <1>1, <1>3, <2>1, SubSeqProperties
    <2> QED BY <1>1, <1>3, <2>2
  <1> HIDE DEF k
  <1>5. \A j, l \in 1 .. n : q[j] = q[l] => j = l
    BY DEF Unique
  <1>6. ASSUME NEW x PROVE x \in Elems(q) <=> \E j \in 1 .. n : q[j] = x
    BY InElems
  <1>7. ASSUME NEW x PROVE x \in Elems(k) <=> \E j \in 1 .. n - 1 : k[j] = x
    BY <1>4, InElems
  <1> HIDE DEF n
  <1>8. ASSUME NEW j \in 1 .. n - 1, NEW l \in 1 .. n - 1, k[j] = k[l] PROVE j = l
    <2>1. j \in 1 .. n /\ l \in 1 .. n /\ n \in 1 .. n /\ j # n /\ l # n
      BY <1>1
    <2> QED BY <1>4, <1>5, <1>8, <2>1
  <1>9. ASSUME NEW x, x \in Elems(q), x # a PROVE x \in Elems(k)
    <2>1. PICK j \in 1 .. n : q[j] = x
      BY <1>6, <1>9
    <2>2. CASE j = n
      <3>1. i \in 1 .. n - 1 /\ k[i] = x
        BY <1>1, <1>4, <1>9, <2>1, <2>2
      <3> QED BY <1>7, <3>1
    <2>3. CASE j # n
      <3>1. j \in 1 .. n - 1 /\ k[j] = x
        BY <1>1, <1>4, <1>9, <2>1, <2>3
      <3> QED BY <1>7, <3>1
    <2> QED BY <2>2, <2>3
  <1>10. ASSUME NEW x, x \in Elems(k) PROVE x \in Elems(q) /\ x # a
    <2>1. PICK j \in 1 .. n - 1 : k[j] = x
      BY <1>7, <1>10
    <2>2. j \in 1 .. n /\ n \in 1 .. n /\ j # n
      BY <1>1
    <2> QED BY <1>1, <1>4, <1>5, <1>6, <2>1, <2>2
  <1> QED BY <1>2, <1>4, <1>8, <1>9, <1>10 DEF Unique

\* or those behind it move up.
LEMMA RemoveAtElems ==
  ASSUME NEW q \in Seq(Nat), Unique(q), NEW i \in 1 .. Len(q)
  PROVE  /\ RemoveAt(q, i) \in Seq(Nat) /\ Unique(RemoveAt(q, i))
         /\ Elems(RemoveAt(q, i)) = Elems(q) \ {q[i]}
  <1> DEFINE n == Len(q)
             f == SubSeq(q, 1, i - 1)
             g == SubSeq(q, i + 1, n)
             k == f \o g
  <1>0. n \in Nat /\ i \in 1 .. n /\ n >= 1
    OBVIOUS
  <1>1. RemoveAt(q, i) = k
    BY DEF RemoveAt
  <1>2. f \in Seq(Nat) /\ Len(f) = i - 1 /\ \A j \in 1 .. i - 1 : f[j] = q[j]
    <2>1. \A j \in 1 .. i - 1 : q[j] \in Nat
      OBVIOUS
    <2> QED BY <2>1, SubSeqProperties
  <1>3. g \in Seq(Nat) /\ Len(g) = n - i /\ \A j \in 1 .. n - i : g[j] = q[i + j]
    <2>1. \A j \in i + 1 .. n : q[j] \in Nat
      OBVIOUS
    <2>2. \A j \in 1 .. n - i : (i + 1) + j - 1 = i + j
      OBVIOUS
    <2> QED BY <2>1, <2>2, SubSeqProperties
  <1> HIDE DEF f, g
  <1>4. /\ k \in Seq(Nat) /\ Len(k) = n - 1
        /\ \A j \in 1 .. n - 1 : k[j] = IF j < i THEN q[j] ELSE q[j + 1]
    <2>1. k \in Seq(Nat) /\ Len(k) = Len(f) + Len(g)
      BY <1>2, <1>3, ConcatProperties
    <2>2. ASSUME NEW j \in 1 .. n - 1, j < i PROVE k[j] = q[j]
      <3>1. j \in 1 .. Len(f)
        BY <1>2, <2>2
      <3>2. k[j] = f[j]
        BY <1>2, <1>3, <3>1, ConcatProperties
      <3> QED BY <1>2, <3>1, <3>2
    <2>3. ASSUME NEW j \in 1 .. n - 1, ~(j < i) PROVE k[j] = q[j + 1]
      <3>1. j - (i - 1) \in 1 .. n - i /\ i + (j - (i - 1)) = j + 1
        BY <1>0, <2>3
      <3>2. k[j] = g[j - (i - 1)]
        <4>1. /\ j \in 1 .. Len(f) + Len(g) /\ ~(j <= Len(f))
              /\ j - Len(f) = j - (i - 1)
          BY <1>0, <1>2, <1>3, <2>3
        <4>2. k[j] = g[j - Len(f)]
          BY <1>2, <1>3, <4>1, ConcatProperties
        <4> QED BY <4>1, <4>2
      <3> QED BY <1>3, <3>1, <3>2
    <2>4. Len(k) = n - 1
      BY <1>0, <1>2, <1>3, <2>1
    <2> QED BY <2>1, <2>2, <2>3, <2>4
  <1> HIDE DEF k
  <1>5. \A j, l \in 1 .. n : q[j] = q[l] => j = l
    BY DEF Unique
  <1>6. ASSUME NEW x PROVE x \in Elems(q) <=> \E j \in 1 .. n : q[j] = x
    BY InElems
  <1>7. ASSUME NEW x PROVE x \in Elems(k) <=> \E j \in 1 .. n - 1 : k[j] = x
    BY <1>4, InElems
  <1> HIDE DEF n
  <1>8. ASSUME NEW j \in 1 .. n - 1
        PROVE  \E l \in 1 .. n : k[j] = q[l] /\ l # i /\ l = IF j < i THEN j ELSE j + 1
    <2>1. CASE j < i
      <3>1. j \in 1 .. n /\ j # i /\ k[j] = q[j]
        BY <1>0, <1>4, <2>1
      <3> QED BY <2>1, <3>1
    <2>2. CASE ~(j < i)
      <3>1. j + 1 \in 1 .. n /\ j + 1 # i /\ k[j] = q[j + 1]
        BY <1>0, <1>4, <2>2
      <3> QED BY <2>2, <3>1
    <2> QED BY <2>1, <2>2
  <1>9. ASSUME NEW j \in 1 .. n - 1, NEW l \in 1 .. n - 1, k[j] = k[l] PROVE j = l
    <2>1. PICK u \in 1 .. n : k[j] = q[u] /\ u = IF j < i THEN j ELSE j + 1
      BY <1>8
    <2>2. PICK v \in 1 .. n : k[l] = q[v] /\ v = IF l < i THEN l ELSE l + 1
      BY <1>8
    <2>3. u = v
      BY <1>5, <1>9, <2>1, <2>2
    <2> QED BY <1>0, <2>1, <2>2, <2>3
  <1>10. ASSUME NEW x, x \in Elems(k) PROVE x \in Elems(q) /\ x # q[i]
    <2>1. PICK j \in 1 .. n - 1 : k[j] = x
      BY <1>7, <1>10
    <2>2. PICK l \in 1 .. n : k[j] = q[l] /\ l # i
      BY <1>8
    <2> QED BY <1>0, <1>5, <1>6, <2>1, <2>2
  <1>11. ASSUME NEW x, x \in Elems(q), x # q[i] PROVE x \in Elems(k)
    <2>1. PICK l \in 1 .. n : q[l] = x
      BY <1>6, <1>11
    <2>2. CASE l < i
      <3>1. l \in 1 .. n - 1 /\ k[l] = x
        BY <1>0, <1>4, <2>1, <2>2
      <3> QED BY <1>7, <3>1
    <2>3. CASE ~(l < i)
      <3>1. l - 1 \in 1 .. n - 1 /\ ~(l - 1 < i) /\ (l - 1) + 1 = l
        BY <1>0, <1>11, <2>1, <2>3
      <3>2. k[l - 1] = x
        BY <1>4, <2>1, <3>1
      <3> QED BY <1>7, <3>1, <3>2
    <2> QED BY <2>2, <2>3
  <1> QED BY <1>1, <1>4, <1>9, <1>10, <1>11 DEF Unique


-----------------------------------------------------------------------------
(* The tiers: every free block is in the one of its order.                  *)

\* A row and an intrusive list hold the addresses F, each once.
RowOK(q, l, F) ==
  /\ q \in Seq(Nat) /\ l \in Seq(Nat) /\ Unique(q) /\ Unique(l)
  /\ Elems(q) \cap Elems(l) = {} /\ Elems(q) \cup Elems(l) = F

FreeOf(B, o) == {a \in Nat : <<a, o>> \in B}

\* The slots of the free blocks B, with their orders.
Listed(B) == {x \in Slots \X Big : <<AddressOf(x[1]), x[2]>> \in B}

TiersOK ==
  /\ bits \subseteq Nat \X Orders
  /\ row \in [Small -> Seq(Nat)] /\ list \in [Small -> Seq(Nat)]
  /\ \A o \in Small : RowOK(row[o], list[o], FreeOf(bits, o))
  /\ Lists(oob, Listed(bits))

\* A block of an order that the out-of-band lists take has a slot.
Placed(b) ==
  b[2] \in Big => /\ SlotOf(b[1]) \in Slots /\ AddressOf(SlotOf(b[1])) = b[1]
                  /\ SlotRegion(SlotOf(b[1])) \in Regions

\* The orders of a small block and of a big one.
LEMMA OrdersSplit ==
  /\ Small \subseteq Orders /\ Big \subseteq Orders /\ Small \cap Big = {}
  /\ \A o \in Orders : o \in Small \/ o \in Big
  BY DEF Small, Big

\* The address of a slot tells it.
LEMMA SlotTold ==
  ASSUME NEW s \in Slots, NEW t \in Slots, AddressOf(s) = AddressOf(t) PROVE s = t
  <1> DEFINE k == Size(OobMin)
  <1>1. k \in Nat \ {0} /\ s \in Nat /\ t \in Nat
    BY PowersOfTwo, BuddyAssumption DEF Slots, Orders
  <1>2. s * k = t * k
    BY DEF AddressOf
  <1> HIDE DEF k
  <1>3. ASSUME NEW x \in Nat, NEW y \in Nat, x < y PROVE x * k < y * k
    BY <1>1, <1>3
  <1> QED BY <1>1, <1>2, <1>3

\* A big block that becomes free is listed, and one that is taken is listed no more.
LEMMA ListedMore ==
  ASSUME NEW B \in SUBSET (Nat \X Orders), NEW b \in Nat \X Orders, b[2] \in Big, Placed(b)
  PROVE  /\ Listed(B \cup {b}) = Listed(B) \cup {<<SlotOf(b[1]), b[2]>>}
         /\ Listed(B \ {b}) = Listed(B) \ {<<SlotOf(b[1]), b[2]>>}
         /\ b \in B => <<SlotOf(b[1]), b[2]>> \in Listed(B)
  <1>1. ASSUME NEW x \in Slots \X Big
        PROVE  <<AddressOf(x[1]), x[2]>> = b <=> x = <<SlotOf(b[1]), b[2]>>
    BY SlotTold DEF Placed
  <1>2. <<SlotOf(b[1]), b[2]>> \in Slots \X Big
    BY DEF Placed
  <1> QED BY <1>1, <1>2 DEF Listed, Placed

\* A small one makes no difference there.
LEMMA ListedSame ==
  ASSUME NEW B \in SUBSET (Nat \X Orders), NEW b \in Nat \X Orders, b[2] \in Small
  PROVE  Listed(B \cup {b}) = Listed(B) /\ Listed(B \ {b}) = Listed(B)
  <1>1. \A x \in Slots \X Big : <<AddressOf(x[1]), x[2]>> # b
    BY OrdersSplit
  <1> QED BY <1>1 DEF Listed

\* The rows and lists of all small orders hold the free blocks B.
Rows(B, k, l) ==
  /\ k \in [Small -> Seq(Nat)] /\ l \in [Small -> Seq(Nat)]
  /\ \A o \in Small : RowOK(k[o], l[o], FreeOf(B, o))

\* A change to the free blocks, the row or the list of order o alone
OnlyAt(B, C, k, l, m, n, o) ==
  /\ m \in [Small -> Seq(Nat)] /\ n \in [Small -> Seq(Nat)]
  /\ \A p \in Small : p # o => m[p] = k[p] /\ n[p] = l[p] /\ FreeOf(C, p) = FreeOf(B, p)

\* keeps those of the other orders.
LEMMA RowsAt ==
  ASSUME NEW B, NEW C, NEW k, NEW l, NEW m, NEW n, NEW o \in Small, Rows(B, k, l),
         OnlyAt(B, C, k, l, m, n, o), RowOK(m[o], n[o], FreeOf(C, o))
  PROVE  Rows(C, m, n)
  <1>1. ASSUME NEW p \in Small PROVE RowOK(m[p], n[p], FreeOf(C, p))
    <2>1. CASE p = o
      BY <2>1
    <2>2. CASE p # o
      <3>1. m[p] = k[p] /\ n[p] = l[p] /\ FreeOf(C, p) = FreeOf(B, p)
        BY <2>2 DEF OnlyAt
      <3>2. RowOK(k[p], l[p], FreeOf(B, p))
        BY DEF Rows
      <3> QED BY <3>1, <3>2
    <2> QED BY <2>1, <2>2
  <1> QED BY <1>1 DEF Rows, OnlyAt

\* One more address in a row,
LEMMA AppendOK ==
  ASSUME NEW q, NEW l, NEW F, RowOK(q, l, F), NEW a \in Nat, a \notin F
  PROVE  RowOK(Append(q, a), l, F \cup {a})
  <1> DEFINE k == Append(q, a)
  <1>0. /\ q \in Seq(Nat) /\ l \in Seq(Nat) /\ Unique(q) /\ Unique(l)
        /\ Elems(q) \cap Elems(l) = {} /\ Elems(q) \cup Elems(l) = F
    BY DEF RowOK
  <1>1. k \in Seq(Nat) /\ Unique(k) /\ Elems(k) = Elems(q) \cup {a}
    BY <1>0, AppendElems
  <1> HIDE DEF k
  <1>2. RowOK(k, l, F \cup {a})
    BY <1>0, <1>1 DEF RowOK
  <1> QED BY <1>2 DEF k

\* one more in a list,
LEMMA ConsOK ==
  ASSUME NEW q, NEW l, NEW F, RowOK(q, l, F), NEW a \in Nat, a \notin F
  PROVE  RowOK(q, <<a>> \o l, F \cup {a})
  <1> DEFINE k == <<a>> \o l
  <1>0. /\ q \in Seq(Nat) /\ l \in Seq(Nat) /\ Unique(q) /\ Unique(l)
        /\ Elems(q) \cap Elems(l) = {} /\ Elems(q) \cup Elems(l) = F
    BY DEF RowOK
  <1>1. k \in Seq(Nat) /\ Unique(k) /\ Elems(k) = Elems(l) \cup {a}
    BY <1>0, ConsElems
  <1> HIDE DEF k
  <1>2. RowOK(q, k, F \cup {a})
    BY <1>0, <1>1 DEF RowOK
  <1> QED BY <1>2 DEF k

\* one less in a row,
LEMMA SwapRemoveOK ==
  ASSUME NEW q, NEW l, NEW F, RowOK(q, l, F), NEW a \in Elems(q)
  PROVE  RowOK(SwapRemove(q, a), l, F \ {a})
  <1> DEFINE k == SwapRemove(q, a)
  <1>0. /\ q \in Seq(Nat) /\ l \in Seq(Nat) /\ Unique(q) /\ Unique(l)
        /\ Elems(q) \cap Elems(l) = {} /\ Elems(q) \cup Elems(l) = F
    BY DEF RowOK
  <1>1. k \in Seq(Nat) /\ Unique(k) /\ Elems(k) = Elems(q) \ {a}
    BY <1>0, SwapRemoveElems
  <1> HIDE DEF k
  <1>2. RowOK(k, l, F \ {a})
    BY <1>0, <1>1 DEF RowOK
  <1> QED BY <1>2 DEF k

\* and one less in a list.
LEMMA RemoveAtOK ==
  ASSUME NEW q, NEW l, NEW F, RowOK(q, l, F), NEW i \in 1 .. Len(l)
  PROVE  RowOK(q, RemoveAt(l, i), F \ {l[i]})
  <1> DEFINE k == RemoveAt(l, i)
             x == l[i]
  <1>0. /\ q \in Seq(Nat) /\ l \in Seq(Nat) /\ Unique(q) /\ Unique(l)
        /\ Elems(q) \cap Elems(l) = {} /\ Elems(q) \cup Elems(l) = F
    BY DEF RowOK
  <1>1. k \in Seq(Nat) /\ Unique(k) /\ Elems(k) = Elems(l) \ {x}
    BY <1>0, RemoveAtElems
  <1>2. x \in Elems(l)
    BY InElems
  <1> HIDE DEF k, x
  <1>3. RowOK(q, k, F \ {x})
    BY <1>0, <1>1, <1>2 DEF RowOK
  <1> QED BY <1>3 DEF k, x

\* A block joins the row of its order,
LEMMA RowMore ==
  ASSUME NEW b \in Nat \X Orders, b[2] \in Small, Rows(bits, row, list), b \notin bits
  PROVE  Rows(bits \cup {b}, [row EXCEPT ![b[2]] = Append(@, b[1])], list)
  <1> DEFINE o == b[2]
             a == b[1]
             q == Append(row[o], a)
             k == [row EXCEPT ![o] = Append(@, a)]
             C == bits \cup {b}
  <1>1. /\ \A p \in Small : p # o => FreeOf(C, p) = FreeOf(bits, p)
        /\ FreeOf(C, o) = FreeOf(bits, o) \cup {a}
        /\ a \notin FreeOf(bits, o) /\ a \in Nat
    <2>1. o \in Small /\ \A p \in Small : p \in Orders
      BY OrdersSplit
    <2>2. b[1] \in Nat /\ b = <<b[1], b[2]>>
      OBVIOUS
    <2> QED BY <2>1, <2>2 DEF FreeOf
  <1>2. /\ row \in [Small -> Seq(Nat)] /\ list \in [Small -> Seq(Nat)]
        /\ RowOK(row[o], list[o], FreeOf(bits, o))
    BY DEF Rows
  <1>c. RowOK(q, list[o], FreeOf(bits, o) \cup {a})
    BY <1>1, <1>2, AppendOK
  <1>3. RowOK(q, list[o], FreeOf(C, o))
    BY <1>1, <1>c
  <1>4. q \in Seq(Nat)
    BY <1>3 DEF RowOK
  <1>5. k = [row EXCEPT ![o] = q]
    OBVIOUS
  <1> HIDE DEF k, q, C, o, a
  <1>6. o \in Small
    BY DEF o
  <1>7. k \in [Small -> Seq(Nat)] /\ k[o] = q /\ \A p \in Small : p # o => k[p] = row[p]
    BY <1>2, <1>4, <1>5, <1>6
  <1>d. OnlyAt(bits, C, row, list, k, list, o)
    BY <1>1, <1>2, <1>7 DEF OnlyAt
  <1>8. Rows(C, k, list)
    BY <1>2, <1>3, <1>6, <1>7, <1>d, RowsAt
  <1> QED BY <1>8 DEF k, C, o, a

\* or its list,
LEMMA ListMore ==
  ASSUME NEW b \in Nat \X Orders, b[2] \in Small, Rows(bits, row, list), b \notin bits
  PROVE  Rows(bits \cup {b}, row, PushList(b[2], b[1]))
  <1> DEFINE o == b[2]
             a == b[1]
             q == <<a>> \o list[o]
             l == PushList(o, a)
             C == bits \cup {b}
  <1>1. /\ \A p \in Small : p # o => FreeOf(C, p) = FreeOf(bits, p)
        /\ FreeOf(C, o) = FreeOf(bits, o) \cup {a}
        /\ a \notin FreeOf(bits, o) /\ a \in Nat
    <2>1. o \in Small /\ \A p \in Small : p \in Orders
      BY OrdersSplit
    <2>2. b[1] \in Nat /\ b = <<b[1], b[2]>>
      OBVIOUS
    <2> QED BY <2>1, <2>2 DEF FreeOf
  <1>2. /\ row \in [Small -> Seq(Nat)] /\ list \in [Small -> Seq(Nat)]
        /\ RowOK(row[o], list[o], FreeOf(bits, o))
    BY DEF Rows
  <1>c. RowOK(row[o], q, FreeOf(bits, o) \cup {a})
    BY <1>1, <1>2, ConsOK
  <1>3. RowOK(row[o], q, FreeOf(C, o))
    BY <1>1, <1>c
  <1>4. q \in Seq(Nat)
    BY <1>3 DEF RowOK
  <1>5. l = [list EXCEPT ![o] = q]
    BY DEF PushList
  <1> HIDE DEF l, q, C, o, a
  <1>6. o \in Small
    BY DEF o
  <1>7. l \in [Small -> Seq(Nat)] /\ l[o] = q /\ \A p \in Small : p # o => l[p] = list[p]
    BY <1>2, <1>4, <1>5, <1>6
  <1>d. OnlyAt(bits, C, row, list, row, l, o)
    BY <1>1, <1>2, <1>7 DEF OnlyAt
  <1>8. Rows(C, row, l)
    BY <1>2, <1>3, <1>6, <1>7, <1>d, RowsAt
  <1> QED BY <1>8 DEF l, C, o, a

\* and leaves the row,
LEMMA RowLess ==
  ASSUME NEW b \in Nat \X Orders, b[2] \in Small, Rows(bits, row, list),
         Contains(row[b[2]], b[1])
  PROVE  Rows(bits \ {b}, [row EXCEPT ![b[2]] = SwapRemove(@, b[1])], list)
  <1> DEFINE o == b[2]
             a == b[1]
             q == SwapRemove(row[o], a)
             k == [row EXCEPT ![o] = SwapRemove(@, a)]
             C == bits \ {b}
  <1>1. /\ \A p \in Small : p # o => FreeOf(C, p) = FreeOf(bits, p)
        /\ FreeOf(C, o) = FreeOf(bits, o) \ {a}
        /\ a \in Nat
    <2>1. o \in Small /\ \A p \in Small : p \in Orders
      BY OrdersSplit
    <2>2. b[1] \in Nat /\ b = <<b[1], b[2]>>
      OBVIOUS
    <2> QED BY <2>1, <2>2 DEF FreeOf
  <1>2. /\ row \in [Small -> Seq(Nat)] /\ list \in [Small -> Seq(Nat)]
        /\ RowOK(row[o], list[o], FreeOf(bits, o))
    BY DEF Rows
  <1>a. a \in Elems(row[o])
    BY InElems DEF Contains
  <1>c. RowOK(q, list[o], FreeOf(bits, o) \ {a})
    BY <1>1, <1>2, <1>a, SwapRemoveOK
  <1>3. RowOK(q, list[o], FreeOf(C, o))
    BY <1>1, <1>c
  <1>4. q \in Seq(Nat)
    BY <1>3 DEF RowOK
  <1>5. k = [row EXCEPT ![o] = q]
    OBVIOUS
  <1> HIDE DEF k, q, C, o, a
  <1>6. o \in Small
    BY DEF o
  <1>7. k \in [Small -> Seq(Nat)] /\ k[o] = q /\ \A p \in Small : p # o => k[p] = row[p]
    BY <1>2, <1>4, <1>5, <1>6
  <1>d. OnlyAt(bits, C, row, list, k, list, o)
    BY <1>1, <1>2, <1>7 DEF OnlyAt
  <1>8. Rows(C, k, list)
    BY <1>2, <1>3, <1>6, <1>7, <1>d, RowsAt
  <1> QED BY <1>8 DEF k, C, o, a

\* or the list.
LEMMA ListLess ==
  ASSUME NEW b \in Nat \X Orders, b[2] \in Small, Rows(bits, row, list), b \in bits,
         ~Contains(row[b[2]], b[1])
  PROVE  Rows(bits \ {b}, row, Unlink(b[2], b[1]))
  <1> DEFINE o == b[2]
             a == b[1]
             i == CHOOSE j \in 1 .. Len(list[o]) : list[o][j] = a
             q == RemoveAt(list[o], i)
             l == Unlink(o, a)
             C == bits \ {b}
  <1>1. /\ \A p \in Small : p # o => FreeOf(C, p) = FreeOf(bits, p)
        /\ FreeOf(C, o) = FreeOf(bits, o) \ {a}
        /\ a \in FreeOf(bits, o) /\ a \in Nat
    <2>1. o \in Small /\ \A p \in Small : p \in Orders
      BY OrdersSplit
    <2>2. b[1] \in Nat /\ b = <<b[1], b[2]>>
      OBVIOUS
    <2> QED BY <2>1, <2>2 DEF FreeOf
  <1>2. /\ row \in [Small -> Seq(Nat)] /\ list \in [Small -> Seq(Nat)]
        /\ RowOK(row[o], list[o], FreeOf(bits, o))
    BY DEF Rows
  <1>a. a \in Elems(list[o])
    BY <1>1, <1>2, InElems DEF Contains, RowOK
  <1>b. i \in 1 .. Len(list[o]) /\ list[o][i] = a
    BY <1>a, InElems
  <1>5. l = [list EXCEPT ![o] = q]
    BY DEF Unlink
  <1> HIDE DEF i
  <1>c. RowOK(row[o], q, FreeOf(bits, o) \ {list[o][i]})
    BY <1>1, <1>2, <1>a, <1>b, RemoveAtOK
  <1>3. RowOK(row[o], q, FreeOf(C, o))
    BY <1>1, <1>c, <1>b
  <1>4. q \in Seq(Nat)
    BY <1>3 DEF RowOK
  <1> HIDE DEF l, q, C, o, a
  <1>6. o \in Small
    BY DEF o
  <1>7. l \in [Small -> Seq(Nat)] /\ l[o] = q /\ \A p \in Small : p # o => l[p] = list[p]
    BY <1>2, <1>4, <1>5, <1>6
  <1>d. OnlyAt(bits, C, row, list, row, l, o)
    BY <1>1, <1>2, <1>7 DEF OnlyAt
  <1>8. Rows(C, row, l)
    BY <1>2, <1>3, <1>6, <1>7, <1>d, RowsAt
  <1> QED BY <1>8 DEF l, C, o, a

\* Big blocks leave the rows alone.
LEMMA RowsSame ==
  ASSUME Rows(bits, row, list), NEW b \in Nat \X Orders, b[2] \in Big
  PROVE  Rows(bits \cup {b}, row, list) /\ Rows(bits \ {b}, row, list)
  <1>1. ASSUME NEW p \in Small
        PROVE  /\ FreeOf(bits \cup {b}, p) = FreeOf(bits, p)
               /\ FreeOf(bits \ {b}, p) = FreeOf(bits, p)
    <2>1. p # b[2]
      BY OrdersSplit
    <2> QED BY <2>1 DEF FreeOf
  <1> QED BY <1>1 DEF Rows

\* TiersOK, in the two parts.
LEMMA TwoParts ==
  TiersOK <=> bits \subseteq Nat \X Orders /\ Rows(bits, row, list) /\ Lists(oob, Listed(bits))
  BY DEF TiersOK, Rows

\* No free block is where b is.
Apart(b) == b \notin bits /\ (b[2] \in Big => \A p \in Big : <<b[1], p>> \notin bits)

\* Its slot is in no list.
LEMMA SlotUnlisted ==
  ASSUME NEW b \in Nat \X Orders, b[2] \in Big, Placed(b), Apart(b)
  PROVE  \A p \in Big : <<SlotOf(b[1]), p>> \notin Listed(bits)
  BY DEF Placed, Apart, Listed

\* A block that is cached,
LEMMA CacheKeeps ==
  ASSUME TiersOK, NEW b \in Nat \X Orders, b[2] \in Small, b \notin bits, Cache(b)
  PROVE  TiersOK' /\ bits' = bits \cup {b}
  <1>1. Rows(bits, row, list) /\ Lists(oob, Listed(bits)) /\ bits \subseteq Nat \X Orders
    BY TwoParts
  <1>2. /\ bits' = bits \cup {b} /\ row' = [row EXCEPT ![b[2]] = Append(@, b[1])]
        /\ list' = list /\ oob' = oob
    BY DEF Cache
  <1>3. Rows(bits', row', list')
    BY <1>1, <1>2, RowMore
  <1>4. Lists(oob', Listed(bits'))
    BY <1>1, <1>2, ListedSame
  <1> QED BY <1>1, <1>2, <1>3, <1>4 DEF TiersOK, Rows

\* stashed
LEMMA StashKeeps ==
  ASSUME TiersOK, NEW b \in Nat \X Orders, Placed(b), Apart(b), Stash(b)
  PROVE  TiersOK' /\ bits' = bits \cup {b}
  <1>1. Rows(bits, row, list) /\ Lists(oob, Listed(bits)) /\ bits \subseteq Nat \X Orders
    BY TwoParts
  <1>2. bits' = bits \cup {b} /\ b \notin bits
    BY DEF Stash, Apart
  <1>3. CASE b[2] \in Big /\ oob' = PushHead(oob, SlotOf(b[1]), b[2]) /\ UNCHANGED <<row, list>>
    <2>a. /\ SlotOf(b[1]) \in Slots /\ SlotRegion(SlotOf(b[1])) \in Regions
          /\ \A p \in Big : <<SlotOf(b[1]), p>> \notin Listed(bits)
      BY <1>3, SlotUnlisted DEF Placed
    <2>b. Listed(bits \cup {b}) = Listed(bits) \cup {<<SlotOf(b[1]), b[2]>>}
      BY <1>1, <1>3, ListedMore
    <2>c. Lists(PushHead(oob, SlotOf(b[1]), b[2]), Listed(bits) \cup {<<SlotOf(b[1]), b[2]>>})
      BY <1>1, <1>3, <2>a, PushHeadKeeps
    <2>1. Lists(oob', Listed(bits'))
      BY <1>2, <1>3, <2>b, <2>c
    <2>2. Rows(bits', row', list')
      BY <1>1, <1>2, <1>3, RowsSame
    <2> QED BY <1>1, <1>2, <2>1, <2>2 DEF TiersOK, Rows
  <1>4. CASE /\ b[2] \in Small /\ UNCHANGED <<list, oob>>
             /\ row' = [row EXCEPT ![b[2]] = Append(@, b[1])]
    BY <1>2, <1>4, CacheKeeps DEF Cache
  <1>5. CASE b[2] \in Small /\ UNCHANGED <<row, oob>> /\ list' = PushList(b[2], b[1])
    <2>1. Lists(oob', Listed(bits'))
      BY <1>1, <1>2, <1>5, ListedSame
    <2>2. Rows(bits', row', list')
      BY <1>1, <1>2, <1>5, ListMore
    <2> QED BY <1>1, <1>2, <2>1, <2>2 DEF TiersOK, Rows
  <1> QED BY <1>3, <1>4, <1>5 DEF Stash

\* or parked is in its tier,
LEMMA ParkKeeps ==
  ASSUME TiersOK, NEW b \in Nat \X Orders, Placed(b), Apart(b), b[2] = order, Park(b)
  PROVE  TiersOK' /\ bits' = bits \cup {b}
  <1>1. Rows(bits, row, list) /\ Lists(oob, Listed(bits)) /\ bits \subseteq Nat \X Orders
    BY TwoParts
  <1>2. bits' = bits \cup {b} /\ b \notin bits
    BY DEF Park, Apart
  <1>3. CASE b[2] \in Big /\ oob' = PushTail(oob, SlotOf(b[1]), b[2]) /\ UNCHANGED <<row, list>>
    <2>a. /\ SlotOf(b[1]) \in Slots /\ SlotRegion(SlotOf(b[1])) \in Regions
          /\ \A p \in Big : <<SlotOf(b[1]), p>> \notin Listed(bits)
      BY <1>3, SlotUnlisted DEF Placed
    <2>b. Listed(bits \cup {b}) = Listed(bits) \cup {<<SlotOf(b[1]), b[2]>>}
      BY <1>1, <1>3, ListedMore
    <2>c. Lists(PushTail(oob, SlotOf(b[1]), b[2]), Listed(bits) \cup {<<SlotOf(b[1]), b[2]>>})
      BY <1>1, <1>3, <2>a, PushTailKeeps
    <2>1. Lists(oob', Listed(bits'))
      BY <1>2, <1>3, <2>b, <2>c
    <2>2. Rows(bits', row', list')
      BY <1>1, <1>2, <1>3, RowsSame
    <2> QED BY <1>1, <1>2, <2>1, <2>2 DEF TiersOK, Rows
  <1>4. CASE b[2] \in Small /\ UNCHANGED <<row, oob>> /\ list' = PushList(b[2], b[1])
    <2>1. Lists(oob', Listed(bits'))
      BY <1>1, <1>2, <1>4, ListedSame
    <2>2. Rows(bits', row', list')
      BY <1>1, <1>2, <1>4, ListMore
    <2> QED BY <1>1, <1>2, <2>1, <2>2 DEF TiersOK, Rows
  <1> QED BY <1>3, <1>4 DEF Park

\* and one that is taken out is in none.
LEMMA TakeOutKeeps ==
  ASSUME TiersOK, NEW b \in bits, Placed(b), TakeOut(b)
  PROVE  TiersOK' /\ bits' = bits \ {b}
  <1>1. /\ Rows(bits, row, list) /\ Lists(oob, Listed(bits)) /\ bits \subseteq Nat \X Orders
        /\ b \in Nat \X Orders
    BY TwoParts
  <1>2. bits' = bits \ {b}
    BY DEF TakeOut
  <1>3. CASE b[2] \in Big /\ oob' = RemoveSlot(oob, SlotOf(b[1]), b[2]) /\ UNCHANGED <<row, list>>
    <2>a. /\ Listed(bits \ {b}) = Listed(bits) \ {<<SlotOf(b[1]), b[2]>>}
          /\ <<SlotOf(b[1]), b[2]>> \in Listed(bits) /\ SlotOf(b[1]) \in Slots
      BY <1>1, <1>3, ListedMore DEF Placed
    <2>b. Lists(RemoveSlot(oob, SlotOf(b[1]), b[2]), Listed(bits) \ {<<SlotOf(b[1]), b[2]>>})
      BY <1>1, <1>3, <2>a, RemoveSlotKeeps
    <2>1. Lists(oob', Listed(bits'))
      BY <1>2, <1>3, <2>a, <2>b
    <2>2. Rows(bits', row', list')
      BY <1>1, <1>2, <1>3, RowsSame
    <2> QED BY <1>1, <1>2, <2>1, <2>2 DEF TiersOK, Rows
  <1>4. CASE /\ b[2] \in Small /\ Contains(row[b[2]], b[1]) /\ UNCHANGED <<list, oob>>
             /\ row' = [row EXCEPT ![b[2]] = SwapRemove(@, b[1])]
    <2>1. Lists(oob', Listed(bits'))
      BY <1>1, <1>2, <1>4, ListedSame
    <2>2. Rows(bits', row', list')
      BY <1>1, <1>2, <1>4, RowLess
    <2> QED BY <1>1, <1>2, <2>1, <2>2 DEF TiersOK, Rows
  <1>5. CASE /\ b[2] \in Small /\ ~Contains(row[b[2]], b[1]) /\ UNCHANGED <<row, oob>>
             /\ list' = Unlink(b[2], b[1])
    <2>1. Lists(oob', Listed(bits'))
      BY <1>1, <1>2, <1>5, ListedSame
    <2>2. Rows(bits', row', list')
      BY <1>1, <1>2, <1>5, ListLess
    <2> QED BY <1>1, <1>2, <2>1, <2>2 DEF TiersOK, Rows
  <1> QED BY <1>3, <1>4, <1>5 DEF TakeOut

\* What a pop takes is free.
LEMMA PopIsFree ==
  ASSUME TiersOK, NEW o \in Orders, HasFree(o)
  PROVE  <<PopAddress(o), o>> \in bits
  <1>1. CASE o \in Big
    <2>1. oob.first[o] # None
      BY <1>1 DEF HasFree
    <2>2. <<FirstSlot(oob, o), o>> \in Listed(bits)
      BY <1>1, <2>1, FirstIsListed DEF TiersOK
    <2> QED BY <1>1, <2>2 DEF PopAddress, Listed
  <1>2. CASE o \in Small
    <2>0. o \notin Big
      BY <1>2, OrdersSplit
    <2>1. /\ row[o] \in Seq(Nat) /\ list[o] \in Seq(Nat)
          /\ Elems(row[o]) \cup Elems(list[o]) = FreeOf(bits, o)
      BY <1>2 DEF TiersOK, RowOK
    <2>2. CASE row[o] # <<>>
      <3>1. Len(row[o]) \in 1 .. Len(row[o]) /\ PopAddress(o) = row[o][Len(row[o])]
        BY <2>0, <2>1, <2>2 DEF PopAddress, Last
      <3>2. PopAddress(o) \in Elems(row[o])
        BY <3>1, InElems
      <3> QED BY <2>1, <3>2 DEF FreeOf
    <2>3. CASE row[o] = <<>>
      <3>1. list[o] # <<>>
        BY <2>0, <2>3 DEF HasFree
      <3>2. 1 \in 1 .. Len(list[o]) /\ PopAddress(o) = list[o][1]
        BY <2>0, <2>1, <2>3, <3>1 DEF PopAddress
      <3>3. PopAddress(o) \in Elems(list[o])
        BY <3>2, InElems
      <3> QED BY <2>1, <3>3 DEF FreeOf
    <2> QED BY <2>2, <2>3
  <1> QED BY <1>1, <1>2, OrdersSplit


-----------------------------------------------------------------------------
(* Sizes and addresses.                                                     *)

\* Sizes are positive, those of two halves make up that of a block, and a slot divides
\* those of the blocks that have one.
LEMMA SizesAre ==
  /\ \A o \in Orders : Size(o) \in Nat \ {0}
  /\ \A o \in Orders : o < MaxOrder => o + 1 \in Orders /\ Size(o + 1) = 2 * Size(o)
  /\ \A o \in Big : Size(o) % Size(OobMin) = 0
  /\ OobMin \in Orders /\ MaxOrder \in Orders /\ MaxOrder \in Big
  BY PowersOfTwo, BuddyAssumption DEF Orders, Big, Small

\* A product grows with its factor by at least the other.
LEMMA ProductGrows ==
  ASSUME NEW k \in Nat, NEW x \in Int, NEW y \in Int, x < y
  PROVE  x * k + k <= y * k
  <1>1. (y - x) * k = y * k - x * k
    OBVIOUS
  <1>2. (y - x - 1) * k >= 0 /\ (y - x - 1) * k = (y - x) * k - k
    OBVIOUS
  <1>3. x * k \in Int /\ y * k \in Int
    OBVIOUS
  <1> QED BY <1>1, <1>2, <1>3

\* The quotient of a number that lies between two multiples,
LEMMA QuotientIs ==
  ASSUME NEW k \in Nat \ {0}, NEW q \in Nat, NEW a \in Nat
  PROVE  a \div k = q <=> q * k <= a /\ a < q * k + k
  <1> DEFINE d == a \div k
             m == a % k
  <1>1. d \in Int /\ m \in 0 .. k - 1 /\ a = k * d + m /\ k * d = d * k
    OBVIOUS
  <1>a. d * k \in Int /\ q * k \in Int
    BY <1>1
  <1>2. d < q => d * k + k <= q * k
    BY <1>1, ProductGrows
  <1>3. q < d => q * k + k <= d * k
    BY <1>1, ProductGrows
  <1> HIDE DEF d, m
  <1>4. d = q <=> q * k <= a /\ a < q * k + k
    BY <1>1, <1>2, <1>3, <1>a
  <1> QED BY <1>4 DEF d

\* and of a multiple.
LEMMA QuotientOfMultiple ==
  ASSUME NEW k \in Nat \ {0}, NEW q \in Nat PROVE (q * k) \div k = q
  <1>1. q * k \in Nat
    OBVIOUS
  <1> QED BY <1>1, QuotientIs

-----------------------------------------------------------------------------
(* Blocks that tile memory.                                                 *)

\* A block lies at a multiple of its size.
Block(b) == b \in Nat \X Orders /\ \E q \in Nat : b[1] = q * Size(b[2])

Disjoint(A) == \A b, c \in A : b # c => Cover(b) \cap Cover(c) = {}
Ground(M)   == {u \in Units : RegionOf(u) \in M}

\* The blocks A tile the regions M.
Tiling(A, M) ==
  (\A b \in A : Block(b)) /\ Disjoint(A) /\ UNION {Cover(b) : b \in A} = Ground(M)

\* A block covers its address, and no more than it should.
LEMMA CoverIs ==
  ASSUME NEW b, Block(b)
  PROVE  /\ b[1] \in Cover(b) /\ b[1] \in Nat /\ b[2] \in Orders /\ Size(b[2]) \in Nat \ {0}
         /\ \A u : u \in Cover(b) <=> u \in Nat /\ b[1] <= u /\ u < b[1] + Size(b[2])
  <1>1. b[1] \in Nat /\ b[2] \in Orders /\ Size(b[2]) \in Nat \ {0}
    BY SizesAre DEF Block
  <1> QED BY <1>1 DEF Cover

\* Some blocks of a tiling may be replaced by others that cover the same, which then
\* are new to it.
LEMMA Retile ==
  ASSUME NEW A, NEW M, Tiling(A, M), NEW D \in SUBSET A, NEW E,
         \A b \in E : Block(b), Disjoint(E),
         UNION {Cover(b) : b \in E} = UNION {Cover(b) : b \in D}
  PROVE  Tiling((A \ D) \cup E, M) /\ E \cap (A \ D) = {}
  <1> DEFINE C == (A \ D) \cup E
  <1>1. ASSUME NEW b \in A \ D, NEW c \in E PROVE Cover(b) \cap Cover(c) = {}
    <2> SUFFICES ASSUME NEW u \in Cover(b), u \in Cover(c) PROVE FALSE
      OBVIOUS
    <2>1. PICK d \in D : u \in Cover(d)
      OBVIOUS
    <2> QED BY <2>1 DEF Tiling, Disjoint
  <1>2. E \cap (A \ D) = {}
    <2> SUFFICES ASSUME NEW b \in A \ D, b \in E PROVE FALSE
      OBVIOUS
    <2>1. b[1] \in Cover(b)
      BY CoverIs
    <2> QED BY <1>1, <2>1
  <1>3. \A b \in C : Block(b)
    BY DEF Tiling
  <1>4. Disjoint(C)
    <2> SUFFICES ASSUME NEW b \in C, NEW c \in C, b # c PROVE Cover(b) \cap Cover(c) = {}
      BY DEF Disjoint
    <2>1. CASE b \in E /\ c \in E
      BY <2>1 DEF Disjoint
    <2>2. CASE b \notin E /\ c \notin E
      BY <2>2 DEF Disjoint, Tiling
    <2>3. CASE b \in E /\ c \notin E
      BY <1>1, <2>3
    <2>4. CASE b \notin E /\ c \in E
      BY <1>1, <2>4
    <2> QED BY <2>1, <2>2, <2>3, <2>4
  <1>5. UNION {Cover(b) : b \in C} = UNION {Cover(b) : b \in A}
    <2> DEFINE inD(u) == \E b \in D : u \in Cover(b)
               inE(u) == \E b \in E : u \in Cover(b)
    <2>1. \A u : inE(u) <=> u \in UNION {Cover(b) : b \in E}
      OBVIOUS
    <2>2. \A u : inD(u) <=> u \in UNION {Cover(b) : b \in D}
      OBVIOUS
    <2>3. \A u : inE(u) <=> inD(u)
      BY <2>1, <2>2
    <2>4. \A u : u \in UNION {Cover(b) : b \in C} <=> inE(u) \/ \E b \in A \ D : u \in Cover(b)
      OBVIOUS
    <2>5. \A u : u \in UNION {Cover(b) : b \in A} <=> inD(u) \/ \E b \in A \ D : u \in Cover(b)
      OBVIOUS
    <2> HIDE DEF inD, inE, C
    <2> QED BY <2>3, <2>4, <2>5
  <1> QED BY <1>2, <1>3, <1>4, <1>5 DEF Tiling


\* The two halves of a block.
Lower(b) == <<b[1], b[2] - 1>>
Upper(b) == <<b[1] + Size(b[2] - 1), b[2] - 1>>

\* They are blocks, apart from each other, and cover what it covers.
LEMMA HalvesAre ==
  ASSUME NEW b, Block(b), b[2] > 0
  PROVE  /\ Block(Lower(b)) /\ Block(Upper(b)) /\ Lower(b) # Upper(b)
         /\ Disjoint({Lower(b), Upper(b)})
         /\ UNION {Cover(c) : c \in {Lower(b), Upper(b)}} = UNION {Cover(c) : c \in {b}}
  <1> DEFINE o == b[2] - 1
             k == Size(o)
             x == Lower(b)
             y == Upper(b)
  <1>1. /\ o \in Orders /\ b[2] \in Orders /\ k \in Nat \ {0} /\ Size(b[2]) = 2 * k
        /\ b[1] \in Nat
    <2>1. b[2] \in Orders /\ b[1] \in Nat
      BY DEF Block
    <2>2. o \in Orders /\ o < MaxOrder /\ o + 1 = b[2]
      BY <2>1, BuddyAssumption DEF Orders
    <2> QED BY <2>1, <2>2, SizesAre
  <1>2. PICK q \in Nat : b[1] = q * Size(b[2])
    BY DEF Block
  <1>3. b[1] = (2 * q) * k /\ b[1] + k = (2 * q + 1) * k
    BY <1>1, <1>2
  <1>4. x = <<b[1], o>> /\ y = <<b[1] + k, o>>
    BY DEF Lower, Upper
  <1> HIDE DEF x, y, o, k
  <1>k. k = Size(o)
    BY DEF k, o
  <1>5. Block(x) /\ Block(y) /\ x # y
    <2>1. b[1] + k \in Nat /\ 2 * q \in Nat /\ 2 * q + 1 \in Nat
      BY <1>1
    <2> QED BY <1>1, <1>3, <1>4, <1>k, <2>1 DEF Block
  <1>6. \A u : u \in Cover(x) <=> u \in Nat /\ b[1] <= u /\ u < b[1] + k
    BY <1>1, <1>4, <1>5, <1>k, CoverIs
  <1>7. \A u : u \in Cover(y) <=> u \in Nat /\ b[1] + k <= u /\ u < b[1] + k + k
    BY <1>1, <1>4, <1>5, <1>k, CoverIs
  <1>8. \A u : u \in Cover(b) <=> u \in Nat /\ b[1] <= u /\ u < b[1] + 2 * k
    BY <1>1, CoverIs
  <1>9. Cover(x) \cap Cover(y) = {}
    BY <1>1, <1>6, <1>7
  <1>10. \A u : u \in Cover(b) <=> u \in Cover(x) \/ u \in Cover(y)
    BY <1>1, <1>6, <1>7, <1>8
  <1>11. UNION {Cover(c) : c \in {x, y}} = UNION {Cover(c) : c \in {b}}
    BY <1>10
  <1> QED BY <1>5, <1>9, <1>11 DEF Disjoint, x, y

\* A block and its buddy are the halves of the block they merge to.
LEMMA MergedIs ==
  ASSUME NEW b, Block(b), b[2] < MaxOrder
  PROVE  LET c == <<BuddyOf(b[1], b[2]), b[2]>>
         IN /\ Block(Merged(b)) /\ Merged(b)[2] = b[2] + 1
            /\ {b, c} = {Lower(Merged(b)), Upper(Merged(b))}
            /\ b # c /\ b[1] \in Nat
  <1> DEFINE a == b[1]
             o == b[2]
             k == Size(o)
             e == BuddyOf(a, o)
  <1>1. /\ a \in Nat /\ o \in Orders /\ o + 1 \in Orders /\ k \in Nat \ {0}
        /\ Size(o + 1) = 2 * k /\ b = <<a, o>>
    BY SizesAre DEF Block
  <1>2. PICK q \in Nat : a = q * k
    BY DEF Block
  <1>3. a \div k = q
    BY <1>1, <1>2, QuotientOfMultiple
  <1>4. e = IF q % 2 = 0 THEN a + k ELSE a - k
    BY <1>3 DEF BuddyOf
  <1>5. Merged(b) = <<IF a < e THEN a ELSE e, o + 1>>
    BY DEF Merged
  <1>6. o + 1 - 1 = o /\ o + 1 \in Nat /\ o \in Nat
    BY <1>1 DEF Orders
  <1> HIDE DEF e
  <1>7. CASE q % 2 = 0
    <2>1. PICK j \in Nat : q = 2 * j
      BY <1>7
    <2>2. a = j * (2 * k) /\ a < e /\ e = a + k
      BY <1>1, <1>2, <1>4, <1>7, <2>1
    <2> HIDE DEF a, o, k
    <2>3. Merged(b) = <<a, o + 1>>
      BY <1>5, <2>2
    <2>4. Block(Merged(b))
      <3>1. Block(<<a, o + 1>>)
        <4>1. a = j * Size(o + 1) /\ <<a, o + 1>> \in Nat \X Orders
          BY <1>1, <2>2
        <4> QED BY <4>1 DEF Block
      <3> QED BY <2>3, <3>1
    <2>5. Lower(Merged(b)) = <<a, o>> /\ Upper(Merged(b)) = <<a + k, o>>
      BY <1>6, <2>3 DEF Lower, Upper, k
    <2> QED BY <1>1, <2>2, <2>3, <2>4, <2>5 DEF a, o, e
  <1>8. CASE q % 2 # 0
    <2>1. PICK j \in Nat : q = 2 * j + 1
      BY <1>8
    <2>2. a = (2 * j + 1) * k /\ (2 * j + 1) * k = j * (2 * k) + k /\ j * (2 * k) \in Nat
      BY <1>1, <1>2, <2>1
    <2>3. e = j * (2 * k) /\ ~(a < e) /\ e + k = a /\ e # a /\ e \in Nat
      BY <1>1, <1>4, <1>8, <2>2
    <2> HIDE DEF a, o, k
    <2>4. Merged(b) = <<e, o + 1>>
      BY <1>5, <2>3
    <2>5. Block(Merged(b))
      <3>1. Block(<<e, o + 1>>)
        <4>1. e = j * Size(o + 1) /\ <<e, o + 1>> \in Nat \X Orders
          BY <1>1, <2>3
        <4> QED BY <4>1 DEF Block
      <3> QED BY <2>4, <3>1
    <2>6. Lower(Merged(b)) = <<e, o>> /\ Upper(Merged(b)) = <<e + k, o>>
      BY <1>6, <2>4 DEF Lower, Upper, k
    <2> QED BY <1>1, <2>3, <2>4, <2>5, <2>6 DEF a, o, e
  <1> QED BY <1>7, <1>8

\* A block of a tiling can be split,
LEMMA SplitTiles ==
  ASSUME NEW A, NEW M, Tiling(A, M), NEW b \in A, b[2] > 0
  PROVE  /\ Tiling((A \ {b}) \cup {Lower(b), Upper(b)}, M)
         /\ Lower(b) \notin A \ {b} /\ Upper(b) \notin A \ {b} /\ Lower(b) # Upper(b)
  <1>1. Block(b)
    BY DEF Tiling
  <1> DEFINE E == {Lower(b), Upper(b)}
  <1>2. /\ \A c \in E : Block(c)
        /\ Disjoint(E) /\ Lower(b) # Upper(b)
        /\ UNION {Cover(c) : c \in E} = UNION {Cover(c) : c \in {b}}
    BY <1>1, HalvesAre
  <1>3. {b} \in SUBSET A
    OBVIOUS
  <1> HIDE DEF E
  <1>4. Tiling((A \ {b}) \cup E, M) /\ E \cap (A \ {b}) = {}
    BY <1>2, <1>3, Retile
  <1> QED BY <1>2, <1>4 DEF E

\* and two buddies merged.
LEMMA MergeTiles ==
  ASSUME NEW A, NEW M, Tiling(A, M), NEW b \in A, b[2] < MaxOrder,
         <<BuddyOf(b[1], b[2]), b[2]>> \in A
  PROVE  LET c == <<BuddyOf(b[1], b[2]), b[2]>>
         IN /\ Tiling((A \ {b, c}) \cup {Merged(b)}, M)
            /\ Merged(b) \notin A \ {b, c} /\ b # c /\ Merged(b)[2] = b[2] + 1
  <1> DEFINE c == <<BuddyOf(b[1], b[2]), b[2]>>
             d == Merged(b)
             E == {d}
             D == {b, c}
  <1>1. Block(b)
    BY DEF Tiling
  <1>2. /\ Block(d) /\ d[2] = b[2] + 1
        /\ D = {Lower(d), Upper(d)} /\ b # c
    BY <1>1, MergedIs
  <1>3. d[2] > 0
    BY <1>1, <1>2 DEF Block, Orders
  <1> HIDE DEF d, c
  <1>4. UNION {Cover(x) : x \in E} = UNION {Cover(x) : x \in D}
    BY <1>2, <1>3, HalvesAre
  <1>5. (\A x \in E : Block(x)) /\ Disjoint(E) /\ D \in SUBSET A
    BY <1>2 DEF Disjoint, c
  <1> HIDE DEF E, D
  <1>6. Tiling((A \ D) \cup E, M) /\ E \cap (A \ D) = {}
    BY <1>4, <1>5, Retile
  <1> QED BY <1>2, <1>6 DEF E, D, d, c


\* The size of a region, in top blocks, and where a region lies.
LEMMA RegionIs ==
  /\ Size(MaxOrder) \in Nat \ {0} /\ Tops \in Nat \ {0} /\ RegionSize \in Nat \ {0}
  /\ RegionSize = Tops * Size(MaxOrder)
  /\ \A r, u \in Nat :
       RegionOf(u) = r <=> r * RegionSize <= u /\ u < r * RegionSize + RegionSize
  <1>1. /\ Size(MaxOrder) \in Nat \ {0} /\ Tops \in Nat \ {0}
        /\ RegionSize = Tops * Size(MaxOrder)
    BY SizesAre, BuddyAssumption DEF RegionSize
  <1> DEFINE k == Size(MaxOrder)
  <1> HIDE DEF k
  <1>2. k \in Nat \ {0} /\ RegionSize = Tops * k
    BY <1>1 DEF k
  <1>3. RegionSize \in Nat \ {0}
    BY <1>1, <1>2
  <1>4. \A r, u \in Nat :
          RegionOf(u) = r <=> r * RegionSize <= u /\ u < r * RegionSize + RegionSize
    BY <1>3, QuotientIs DEF RegionOf
  <1> QED BY <1>1, <1>3, <1>4

\* The regions there are hold the units there are.
LEMMA GroundIs ==
  ASSUME NEW r \in Regions
  PROVE  \A u : u \in Ground({r}) <=>
                u \in Nat /\ r * RegionSize <= u /\ u < r * RegionSize + RegionSize
  <1> DEFINE k == RegionSize
             n == NumRegions
  <1>1. k \in Nat \ {0} /\ n \in Nat /\ r \in Nat /\ r + 1 <= n
    BY RegionIs, BuddyAssumption DEF Regions
  <1>2. r * k + k <= n * k /\ n * k \in Nat /\ r * k \in Nat
    BY <1>1, ProductGrows
  <1>3. \A u : u \in Units <=> u \in Nat /\ u < n * k
    BY <1>2 DEF Units
  <1>4. \A u \in Nat : RegionOf(u) = r <=> r * k <= u /\ u < r * k + k
    BY <1>1, RegionIs
  <1> HIDE DEF k, n
  <1>5. \A u : u \in Ground({r}) <=> u \in Nat /\ r * k <= u /\ u < r * k + k
    BY <1>1, <1>2, <1>3, <1>4 DEF Ground
  <1> QED BY <1>5 DEF k

\* The top blocks of a region tile it.
LEMMA TopsTile ==
  ASSUME NEW r \in Regions PROVE Tiling(TopBlocks(r), {r})
  <1> DEFINE k == Size(MaxOrder)
             T == TopBlocks(r)
             at(i) == r * RegionSize + i * k
  <1>1. /\ k \in Nat \ {0} /\ Tops \in Nat \ {0} /\ RegionSize = Tops * k /\ r \in Nat
        /\ RegionSize \in Nat /\ r * RegionSize \in Nat /\ MaxOrder \in Orders
    BY RegionIs, SizesAre DEF Regions
  <1>2. \A b : b \in T <=> \E i \in 0 .. Tops - 1 : b = <<at(i), MaxOrder>>
    BY DEF TopBlocks
  <1>3. ASSUME NEW i \in 0 .. Tops - 1
        PROVE  /\ at(i) \in Nat /\ at(i) = (r * Tops + i) * k /\ Block(<<at(i), MaxOrder>>)
               /\ r * RegionSize <= at(i) /\ at(i) + k <= r * RegionSize + RegionSize
               /\ \A u : u \in Cover(<<at(i), MaxOrder>>) <=>
                           u \in Nat /\ at(i) <= u /\ u < at(i) + k
    <2>1. /\ at(i) \in Nat /\ r * RegionSize <= at(i) /\ r * Tops + i \in Nat
          /\ r * RegionSize = (r * Tops) * k /\ i * k \in Nat
      BY <1>1
    <2>2. i * k + k <= Tops * k
      BY <1>1, ProductGrows
    <2>3. at(i) + k <= r * RegionSize + RegionSize
      BY <1>1, <2>1, <2>2
    <2>4. at(i) = (r * Tops + i) * k
      BY <1>1, <2>1
    <2> HIDE DEF at
    <2>5. Block(<<at(i), MaxOrder>>)
      BY <1>1, <2>1, <2>4 DEF Block
    <2>6. \A u : u \in Cover(<<at(i), MaxOrder>>) <=> u \in Nat /\ at(i) <= u /\ u < at(i) + k
      BY <2>5, CoverIs
    <2> QED BY <2>1, <2>3, <2>4, <2>5, <2>6
  <1>4. \A b \in T : Block(b)
    BY <1>2, <1>3
  <1>5. ASSUME NEW i \in 0 .. Tops - 1, NEW j \in 0 .. Tops - 1, i < j
        PROVE  Cover(<<at(i), MaxOrder>>) \cap Cover(<<at(j), MaxOrder>>) = {}
    <2>1. i * k + k <= j * k
      BY <1>1, <1>5, ProductGrows
    <2>2. at(i) + k <= at(j) /\ at(i) \in Nat /\ at(j) \in Nat
      BY <1>1, <1>3, <2>1
    <2> HIDE DEF at
    <2> QED BY <1>1, <1>3, <2>2
  <1> HIDE DEF at
  <1>6. Disjoint(T)
    <2> SUFFICES ASSUME NEW b \in T, NEW c \in T, b # c PROVE Cover(b) \cap Cover(c) = {}
      BY DEF Disjoint
    <2>1. PICK i \in 0 .. Tops - 1 : b = <<at(i), MaxOrder>>
      BY <1>2
    <2>2. PICK j \in 0 .. Tops - 1 : c = <<at(j), MaxOrder>>
      BY <1>2
    <2>a. i = j => b = c
      BY <2>1, <2>2
    <2>b. i \in Nat /\ j \in Nat
      BY <1>1
    <2>3. i < j \/ j < i
      BY <2>a, <2>b
    <2>4. CASE i < j
      BY <1>5, <2>1, <2>2, <2>4
    <2>5. CASE j < i
      BY <1>5, <2>1, <2>2, <2>5
    <2> QED BY <2>3, <2>4, <2>5
  <1>7. ASSUME NEW u PROVE u \in Ground({r}) <=> \E b \in T : u \in Cover(b)
    <2>1. ASSUME NEW b \in T, u \in Cover(b) PROVE u \in Ground({r})
      <3>1. PICK i \in 0 .. Tops - 1 : b = <<at(i), MaxOrder>>
        BY <1>2
      <3>2. u \in Nat /\ r * RegionSize <= u /\ u < r * RegionSize + RegionSize
        BY <1>1, <1>3, <2>1, <3>1
      <3> QED BY <3>2, GroundIs
    <2>2. ASSUME u \in Ground({r}) PROVE \E b \in T : u \in Cover(b)
      <3>1. u \in Nat /\ r * RegionSize <= u /\ u < r * RegionSize + RegionSize
        BY <2>2, GroundIs
      <3> DEFINE v == u - r * RegionSize
                 i == v \div k
      <3>2. v \in Nat /\ v < Tops * k
        BY <1>1, <3>1
      <3> HIDE DEF v
      <3>3. i \in Nat
        BY <1>1, <3>2
      <3>4. i * k <= v /\ v < i * k + k
        BY <1>1, <3>2, <3>3, QuotientIs
      <3>5. i < Tops
        <4>1. ASSUME ~(i < Tops) PROVE FALSE
          <5>1. Tops * k <= i * k /\ i * k \in Nat /\ Tops * k \in Nat
            <6> HIDE DEF i
            <6>1. Tops = i \/ Tops < i
              BY <1>1, <3>3, <4>1
            <6>2. Tops < i => Tops * k + k <= i * k
              BY <1>1, <3>3, ProductGrows
            <6> QED BY <1>1, <3>3, <6>1, <6>2
          <5> QED BY <3>2, <3>4, <5>1
        <4> QED BY <4>1
      <3> HIDE DEF i
      <3>6. i \in 0 .. Tops - 1
        BY <1>1, <3>3, <3>5
      <3>7. at(i) <= u /\ u < at(i) + k
        <4>1. u = r * RegionSize + v
          BY <1>1, <3>1 DEF v
        <4>2. i * k \in Nat
          BY <1>1, <3>3
        <4> QED BY <1>1, <3>2, <3>4, <4>1, <4>2 DEF at
      <3>8. u \in Cover(<<at(i), MaxOrder>>)
        BY <1>3, <3>1, <3>6, <3>7
      <3> QED BY <1>2, <3>6, <3>8
    <2> QED BY <2>1, <2>2
  <1>8. UNION {Cover(b) : b \in T} = Ground({r})
    BY <1>7
  <1> QED BY <1>4, <1>6, <1>8 DEF Tiling

\* A region that is mapped adds its top blocks.
LEMMA RefillTiles ==
  ASSUME NEW A, NEW M, Tiling(A, M), NEW r \in Regions \ M
  PROVE  Tiling(A \cup TopBlocks(r), M \cup {r}) /\ A \cap TopBlocks(r) = {}
  <1> DEFINE T == TopBlocks(r)
  <1>1. Tiling(T, {r})
    BY TopsTile
  <1> HIDE DEF T
  <1>2. ASSUME NEW b \in A, NEW c \in T PROVE Cover(b) \cap Cover(c) = {}
    <2>1. \A u \in Cover(b) : RegionOf(u) \in M
      BY DEF Tiling, Ground
    <2>2. \A u \in Cover(c) : RegionOf(u) = r
      BY <1>1 DEF Tiling, Ground
    <2> QED BY <2>1, <2>2
  <1>3. A \cap T = {}
    <2> SUFFICES ASSUME NEW b \in A, b \in T PROVE FALSE
      OBVIOUS
    <2>1. b[1] \in Cover(b)
      BY CoverIs DEF Tiling
    <2> QED BY <1>2, <2>1
  <1>4. Disjoint(A \cup T)
    <2> SUFFICES ASSUME NEW b \in A \cup T, NEW c \in A \cup T, b # c
                 PROVE Cover(b) \cap Cover(c) = {}
      BY DEF Disjoint
    <2>1. CASE b \in A /\ c \in A
      BY <2>1 DEF Disjoint, Tiling
    <2>2. CASE b \in T /\ c \in T
      BY <1>1, <2>2 DEF Disjoint, Tiling
    <2>3. CASE b \in A /\ c \in T
      BY <1>2, <2>3
    <2>4. CASE b \in T /\ c \in A
      BY <1>2, <2>4
    <2> QED BY <2>1, <2>2, <2>3, <2>4
  <1>5. \A u : u \in Ground(M \cup {r}) <=> u \in Ground(M) \/ u \in Ground({r})
    BY DEF Ground
  <1>6. UNION {Cover(b) : b \in A \cup T} = Ground(M \cup {r})
    BY <1>1, <1>5 DEF Tiling
  <1> QED BY <1>1, <1>3, <1>4, <1>6 DEF Tiling, T

\* A block of a tiling has a slot, if it is large enough,
LEMMA TilePlaced ==
  ASSUME NEW A, NEW M \in SUBSET Regions, Tiling(A, M), NEW b \in A PROVE Placed(b)
  <1> SUFFICES ASSUME b[2] \in Big
               PROVE  /\ SlotOf(b[1]) \in Slots /\ AddressOf(SlotOf(b[1])) = b[1]
                      /\ SlotRegion(SlotOf(b[1])) \in Regions
    BY DEF Placed
  <1> DEFINE m == Size(OobMin)
             n == Size(b[2])
             t == Size(MaxOrder)
             a == b[1]
             R == RegionSize
             N == NumRegions
  <1>1. /\ m \in Nat \ {0} /\ n \in Nat \ {0} /\ n % m = 0 /\ t \in Nat \ {0} /\ t % m = 0
        /\ a \in Nat /\ N \in Nat /\ Tops \in Nat \ {0} /\ R = Tops * t /\ R \in Nat
    BY SizesAre, OrdersSplit, RegionIs, BuddyAssumption DEF Block, Tiling
  <1>2. PICK q \in Nat : a = q * n
    BY DEF Block, Tiling
  <1>3. a \in Cover(b)
    BY CoverIs DEF Tiling
  <1>4. a \in Units /\ RegionOf(a) \in Regions
    BY <1>3 DEF Tiling, Ground
  <1>5. a < N * R
    <2>1. N * R \in Nat
      BY <1>1
    <2> QED BY <1>4, <2>1 DEF Units
  <1> HIDE DEF m, n, t, a, R, N
  <1>6. PICK i \in Nat : n = i * m
    <2>1. n = m * (n \div m) /\ n \div m \in Nat /\ m * (n \div m) = (n \div m) * m
      BY <1>1
    <2> QED BY <2>1
  <1>7. PICK j \in Nat : t = j * m
    <2>1. t = m * (t \div m) /\ t \div m \in Nat /\ m * (t \div m) = (t \div m) * m
      BY <1>1
    <2> QED BY <2>1
  <1>8. a = (q * i) * m /\ q * i \in Nat
    BY <1>1, <1>2, <1>6
  <1>9. R = (Tops * j) * m /\ Tops * j \in Nat
    BY <1>1, <1>7
  <1>10. a \div m = q * i
    BY <1>1, <1>8, QuotientOfMultiple
  <1>11. R \div m = Tops * j
    BY <1>1, <1>9, QuotientOfMultiple
  <1>12. q * i < N * (Tops * j)
    <2> DEFINE x == q * i
               y == N * (Tops * j)
    <2>1. x \in Nat /\ y \in Nat /\ y * m = N * R /\ a = x * m
      <3>1. y \in Nat
        BY <1>1, <1>9
      <3>2. y * m = N * ((Tops * j) * m)
        BY <1>1, <1>9
      <3> QED BY <1>8, <1>9, <3>1, <3>2
    <2> HIDE DEF x, y
    <2>2. ASSUME ~(x < y) PROVE FALSE
      <3>1. y = x \/ y < x
        BY <2>1, <2>2
      <3>2. y < x => y * m + m <= x * m
        BY <1>1, <2>1, ProductGrows
      <3>3. x * m < y * m /\ x * m \in Nat /\ y * m \in Nat
        BY <1>1, <1>5, <2>1
      <3> QED BY <1>1, <3>1, <3>2, <3>3
    <2> QED BY <2>2 DEF x, y
  <1>13. SlotOf(a) = q * i
    BY <1>10 DEF SlotOf, m
  <1>14. SlotOf(a) \in Slots
    <2>1. N * (Tops * j) \in Nat
      BY <1>1, <1>9
    <2> QED BY <1>8, <1>11, <1>12, <1>13, <2>1 DEF Slots, m, N, R
  <1>15. AddressOf(SlotOf(a)) = a
    BY <1>8, <1>13 DEF AddressOf, m
  <1>16. SlotRegion(SlotOf(a)) \in Regions
    BY <1>4, <1>15 DEF SlotRegion
  <1> QED BY <1>14, <1>15, <1>16 DEF a

\* and no other is at its address.
LEMMA TileAlone ==
  ASSUME NEW A, NEW M, Tiling(A, M), NEW b \in A, NEW c \in A, b[1] = c[1] PROVE b = c
  <1>1. b[1] \in Cover(b) /\ c[1] \in Cover(c)
    BY CoverIs DEF Tiling
  <1> QED BY <1>1 DEF Tiling, Disjoint


-----------------------------------------------------------------------------
(* The invariant.                                                           *)

All == bits \cup InUse

\* A block is in one place,
Parts ==
  bits \cap InUse = {} /\ live \cap (hand \cup owed) = {} /\ hand \cap owed = {}

\* in hand only while a call is at work, alone but for a refill, and owed only while
\* the row of its order is drained.
Phase ==
  /\ pc \in {"idle", "find", "refill", "split", "drain", "merge"} /\ order \in Orders
  /\ pc \in {"idle", "find", "drain"} => hand = {}
  /\ pc \in {"split", "merge"} => \E b \in hand : hand = {b} /\ b[2] >= order
  /\ owed # {} => /\ pc \in {"drain", "merge"}
                  /\ \E b \in owed : owed = {b} /\ b[2] \in Small

OrdersKept == orderMap \in [Slots -> Orders \cup {None}] /\ OrderKnown

BuddyInv ==
  /\ mapped \subseteq Regions /\ Tiling(All, mapped) /\ Parts
  /\ TiersOK /\ Phase /\ OrdersKept

\* A block of the tiling that is not free has a slot of its own, if it needs one.
LEMMA TileApart ==
  ASSUME NEW A, NEW M \in SUBSET Regions, Tiling(A, M), bits \subseteq A,
         NEW b \in A \ bits
  PROVE  b \in Nat \X Orders /\ Placed(b) /\ Apart(b)
  <1>1. b \in Nat \X Orders /\ Placed(b)
    BY TilePlaced DEF Tiling, Block
  <1>2. ASSUME NEW p \in Big, <<b[1], p>> \in bits PROVE FALSE
    <2>1. <<b[1], p>> = b
      BY <1>2, TileAlone
    <2> QED BY <1>2, <2>1
  <1> QED BY <1>1, <1>2 DEF Apart

\* What the tiers hold does not change.
LEMMA TiersSame ==
  ASSUME TiersOK, UNCHANGED tierVars PROVE TiersOK' /\ bits' = bits
  BY DEF TiersOK, tierVars

\* Every step keeps the tiling and the tiers: a block that splits, merges or is mapped
\* covers what it did, and one that moves leaves one place for another.
LEMMA BlocksStep ==
  ASSUME BuddyInv, [Next]_vars
  PROVE  mapped' \subseteq Regions /\ Tiling(All', mapped') /\ Parts' /\ TiersOK'
  <1> USE DEF All, InUse
  <1>0. /\ mapped \in SUBSET Regions /\ Tiling(All, mapped) /\ bits \subseteq All
        /\ TiersOK /\ Phase /\ Parts
    BY DEF BuddyInv
  <1>1. ASSUME NEW o \in Orders, Alloc(o)
        PROVE  mapped' \subseteq Regions /\ Tiling(All', mapped') /\ Parts' /\ TiersOK'
    BY <1>0, <1>1, TiersSame DEF Alloc, Parts
  <1>2. CASE Pop
    <2>1. PICK o \in order .. MaxOrder : /\ HasFree(o) /\ TakeOut(<<PopAddress(o), o>>)
                                         /\ hand' = {<<PopAddress(o), o>>}
      BY <1>2 DEF Pop
    <2> DEFINE b == <<PopAddress(o), o>>
    <2>2. o \in Orders
      BY <1>0 DEF Phase, Orders
    <2>3. b \in bits
      BY <1>0, <2>1, <2>2, PopIsFree
    <2> HIDE DEF b
    <2>4. Placed(b)
      BY <1>0, <2>3, TilePlaced
    <2>5. TiersOK' /\ bits' = bits \ {b}
      BY <1>0, <2>1, <2>3, <2>4, TakeOutKeeps DEF b
    <2>6. hand = {} /\ hand' = {b} /\ UNCHANGED <<mapped, live, owed>>
      BY <1>0, <1>2, <2>1 DEF Phase, Pop, b
    <2>7. All' = All
      BY <2>3, <2>5, <2>6
    <2>8. Parts'
      BY <1>0, <2>3, <2>5, <2>6 DEF Parts
    <2> QED BY <1>0, <2>5, <2>6, <2>7, <2>8
  <1>3. CASE Refill
    <2>1. hand = {} /\ TiersOK' /\ bits' = bits /\ UNCHANGED <<live, owed>>
      BY <1>0, <1>3, TiersSame DEF Refill, Phase
    <2>2. CASE UNCHANGED <<mapped, hand>>
      BY <1>0, <2>1, <2>2 DEF Parts
    <2>3. CASE \E r \in Regions \ mapped : mapped' = mapped \union {r} /\ hand' = TopBlocks(r)
      <3>1. PICK r \in Regions \ mapped : mapped' = mapped \union {r} /\ hand' = TopBlocks(r)
        BY <2>3
      <3>2. Tiling(All \cup TopBlocks(r), mapped \cup {r}) /\ All \cap TopBlocks(r) = {}
        BY <1>0, RefillTiles
      <3>3. All' = All \cup TopBlocks(r)
        BY <2>1, <3>1
      <3>4. Parts'
        BY <1>0, <2>1, <3>1, <3>2 DEF Parts
      <3> QED BY <1>0, <2>1, <3>1, <3>2, <3>3, <3>4
    <2> QED BY <1>3, <2>2, <2>3 DEF Refill
  <1>4. CASE StashTop
    <2>1. PICK b \in hand : Stash(b) /\ hand' = hand \ {b}
      BY <1>4 DEF StashTop
    <2>2. b \in All \ bits
      BY <1>0 DEF Parts
    <2>3. b \in Nat \X Orders /\ Placed(b) /\ Apart(b)
      BY <1>0, <2>2, TileApart
    <2>4. TiersOK' /\ bits' = bits \cup {b}
      BY <1>0, <2>1, <2>3, StashKeeps
    <2>5. UNCHANGED <<mapped, live, owed>>
      BY <1>4 DEF StashTop
    <2>6. All' = All
      BY <2>1, <2>4, <2>5
    <2>7. Parts'
      BY <1>0, <2>1, <2>4, <2>5 DEF Parts
    <2> QED BY <1>0, <2>4, <2>5, <2>6, <2>7
  <1>5. CASE Split
    <2>1. PICK b \in hand : b[2] > order /\ Stash(Upper(b)) /\ hand' = {Lower(b)}
      BY <1>5 DEF Split, Upper, Lower
    <2>2. hand = {b} /\ b \in All \ bits
      BY <1>0, <1>5 DEF Phase, Split, Parts
    <2>3. b[2] > 0
      BY <1>0, <2>1, <2>2, CoverIs DEF Tiling, Phase, Orders
    <2> DEFINE x == Lower(b)
               y == Upper(b)
               Z == (All \ {b}) \cup {x, y}
    <2>4. Tiling(Z, mapped) /\ x \notin All \ {b} /\ y \notin All \ {b} /\ x # y
      BY <1>0, <2>2, <2>3, SplitTiles
    <2> HIDE DEF x, y
    <2>5. bits \subseteq Z /\ y \in Z \ bits
      BY <2>2, <2>4
    <2> HIDE DEF Z
    <2>6. y \in Nat \X Orders /\ Placed(y) /\ Apart(y)
      BY <1>0, <2>4, <2>5, TileApart
    <2>7. TiersOK' /\ bits' = bits \cup {y}
      BY <1>0, <2>1, <2>6, StashKeeps DEF y
    <2>8. hand' = {x} /\ UNCHANGED <<mapped, live, owed>>
      BY <1>5, <2>1 DEF Split, x
    <2>9. All' = Z
      BY <1>0, <2>2, <2>7, <2>8 DEF Z, Parts
    <2>10. Parts'
      BY <1>0, <2>2, <2>4, <2>7, <2>8 DEF Parts
    <2> QED BY <1>0, <2>4, <2>7, <2>8, <2>9, <2>10
  <1>6. CASE HandOut
    <2>1. PICK b \in hand : live' = live \cup {b}
      BY <1>6 DEF HandOut
    <2>2. hand = {b} /\ hand' = {} /\ UNCHANGED <<mapped, owed>>
      BY <1>0, <1>6 DEF Phase, HandOut
    <2>3. TiersOK' /\ bits' = bits
      BY <1>0, <1>6, TiersSame DEF HandOut
    <2>4. All' = All
      BY <2>1, <2>2, <2>3
    <2>5. Parts'
      BY <1>0, <2>1, <2>2, <2>3 DEF Parts
    <2> QED BY <1>0, <2>2, <2>3, <2>4, <2>5
  <1>7. ASSUME NEW b \in live, FreeBig(b)
        PROVE  mapped' \subseteq Regions /\ Tiling(All', mapped') /\ Parts' /\ TiersOK'
    <2>1. Stash(b) /\ live' = live \ {b} /\ UNCHANGED <<mapped, hand, owed>>
      BY <1>7 DEF FreeBig
    <2>2. b \in All \ bits
      BY <1>0 DEF Parts
    <2>3. b \in Nat \X Orders /\ Placed(b) /\ Apart(b)
      BY <1>0, <2>2, TileApart
    <2>4. TiersOK' /\ bits' = bits \cup {b}
      BY <1>0, <2>1, <2>3, StashKeeps
    <2>5. All' = All
      BY <2>1, <2>4
    <2>6. Parts'
      BY <1>0, <2>1, <2>4 DEF Parts
    <2> QED BY <1>0, <2>1, <2>4, <2>5, <2>6
  <1>8. ASSUME NEW b \in live, FreeSmall(b)
        PROVE  mapped' \subseteq Regions /\ Tiling(All', mapped') /\ Parts' /\ TiersOK'
    <2>1. /\ live' = live \ {b} /\ UNCHANGED <<mapped, hand>> /\ b[2] \in Small
          /\ owed = {} /\ hand = {}
      BY <1>0, <1>8 DEF FreeSmall, Phase
    <2>2. b \in All \ bits
      BY <1>0 DEF Parts
    <2>3. CASE owed' = {b} /\ UNCHANGED tierVars
      <3>1. TiersOK' /\ bits' = bits
        BY <1>0, <2>3, TiersSame
      <3>2. All' = All
        BY <2>1, <2>3, <3>1
      <3>3. Parts'
        BY <1>0, <2>1, <2>3, <3>1 DEF Parts
      <3> QED BY <1>0, <2>1, <3>1, <3>2, <3>3
    <2>4. CASE Cache(b) /\ owed' = owed
      <3>1. b \in Nat \X Orders /\ b \notin bits
        BY <1>0, <2>2 DEF Tiling, Block
      <3>2. TiersOK' /\ bits' = bits \cup {b}
        BY <1>0, <2>1, <2>4, <3>1, CacheKeeps
      <3>3. All' = All
        BY <2>1, <2>4, <3>2
      <3>4. Parts'
        BY <1>0, <2>1, <2>4, <3>2 DEF Parts
      <3> QED BY <1>0, <2>1, <3>2, <3>3, <3>4
    <2> QED BY <1>8, <2>3, <2>4 DEF FreeSmall
  <1>9. CASE DrainPop
    <2> DEFINE b == <<PopAddress(order), order>>
    <2>1. order \in Orders /\ HasFree(order) /\ hand = {} /\ TakeOut(b) /\ hand' = {b}
      BY <1>0, <1>9 DEF Phase, DrainPop, MoreToDrain, HasFree
    <2>2. b \in bits
      BY <1>0, <2>1, PopIsFree
    <2> HIDE DEF b
    <2>3. Placed(b)
      BY <1>0, <2>2, TilePlaced
    <2>4. TiersOK' /\ bits' = bits \ {b}
      BY <1>0, <2>1, <2>2, <2>3, TakeOutKeeps
    <2>5. UNCHANGED <<mapped, live, owed>>
      BY <1>9 DEF DrainPop
    <2>6. All' = All
      BY <2>1, <2>2, <2>4, <2>5
    <2>7. Parts'
      BY <1>0, <2>1, <2>2, <2>4, <2>5 DEF Parts
    <2> QED BY <1>0, <2>4, <2>5, <2>6, <2>7
  <1>10. CASE Merge
    <2>1. PICK b \in hand : /\ CanMerge(b) /\ TakeOut(<<BuddyOf(b[1], b[2]), b[2]>>)
                            /\ hand' = {Merged(b)}
      BY <1>10 DEF Merge
    <2> DEFINE c == <<BuddyOf(b[1], b[2]), b[2]>>
               d == Merged(b)
               Z == (All \ {b, c}) \cup {d}
    <2>2. hand = {b} /\ b \in All \ bits
      BY <1>0, <1>10 DEF Phase, Merge, Parts
    <2>3. c \in bits /\ b[2] < MaxOrder
      BY <2>1 DEF CanMerge
    <2>4. Tiling(Z, mapped) /\ d \notin All \ {b, c} /\ b # c
      BY <1>0, <2>2, <2>3, MergeTiles
    <2> HIDE DEF c, d
    <2>5. Placed(c)
      BY <1>0, <2>3, TilePlaced
    <2>6. TiersOK' /\ bits' = bits \ {c}
      BY <1>0, <2>1, <2>3, <2>5, TakeOutKeeps DEF c
    <2>7. hand' = {d} /\ UNCHANGED <<mapped, live, owed>>
      BY <1>10, <2>1 DEF Merge, d
    <2>8. All' = Z
      BY <1>0, <2>2, <2>3, <2>6, <2>7 DEF Parts
    <2>9. Parts'
      BY <1>0, <2>2, <2>3, <2>4, <2>6, <2>7 DEF Parts
    <2> QED BY <1>0, <2>4, <2>6, <2>7, <2>8, <2>9
  <1>11. CASE PutBack
    <2>1. PICK b \in hand : \/ b[2] = order /\ Park(b)
                            \/ Stash(b)
      BY <1>11 DEF PutBack
    <2>2. hand = {b} /\ b \in All \ bits
      BY <1>0, <1>11 DEF Phase, PutBack, Parts
    <2>3. b \in Nat \X Orders /\ Placed(b) /\ Apart(b)
      BY <1>0, <2>2, TileApart
    <2>4. TiersOK' /\ bits' = bits \cup {b}
      BY <1>0, <2>1, <2>3, StashKeeps, ParkKeeps
    <2>5. hand' = {} /\ UNCHANGED <<mapped, live, owed>>
      BY <1>11 DEF PutBack
    <2>6. All' = All
      BY <2>2, <2>4, <2>5
    <2>7. Parts'
      BY <1>0, <2>2, <2>4, <2>5 DEF Parts
    <2> QED BY <1>0, <2>4, <2>5, <2>6, <2>7
  <1>12. CASE DrainDone
    <2>1. hand = {} /\ owed' = {} /\ UNCHANGED <<mapped, live, hand>>
      BY <1>0, <1>12 DEF Phase, DrainDone
    <2>2. CASE owed = {} /\ UNCHANGED tierVars
      BY <1>0, <2>1, <2>2, TiersSame DEF Parts
    <2>3. CASE \E b \in owed : Cache(b)
      <3>1. PICK b \in owed : Cache(b)
        BY <2>3
      <3>2. owed = {b} /\ b[2] \in Small /\ b \in All \ bits
        BY <1>0 DEF Phase, Parts
      <3>3. b \in Nat \X Orders /\ b \notin bits
        BY <1>0, <3>2 DEF Tiling, Block
      <3>4. TiersOK' /\ bits' = bits \cup {b}
        BY <1>0, <3>1, <3>2, <3>3, CacheKeeps
      <3>5. All' = All
        BY <2>1, <3>2, <3>4
      <3>6. Parts'
        BY <1>0, <2>1, <3>2, <3>4 DEF Parts
      <3> QED BY <1>0, <2>1, <3>4, <3>5, <3>6
    <2> QED BY <1>12, <2>2, <2>3 DEF DrainDone
  <1>13. CASE UNCHANGED vars
    BY <1>0, <1>13, TiersSame DEF vars, callVars, Parts
  <1> QED BY <1>1, <1>2, <1>3, <1>4, <1>5, <1>6, <1>7, <1>8, <1>9, <1>10, <1>11, <1>12,
             <1>13 DEF Next, Step


\* Every step keeps what is in hand to what the call at work may hold.
LEMMA PhaseStep ==
  ASSUME BuddyInv, [Next]_vars PROVE Phase'
  <1>0. Phase /\ \A b \in hand : b[2] \in Orders
    BY DEF BuddyInv, Tiling, Block, All, InUse
  <1>1. ASSUME NEW o \in Orders, Alloc(o) PROVE Phase'
    BY <1>0, <1>1 DEF Alloc, Phase
  <1>2. CASE Pop
    <2>1. PICK o \in order .. MaxOrder : hand' = {<<PopAddress(o), o>>}
      BY <1>2 DEF Pop
    <2>2. pc' = "split" /\ order' = order /\ owed' = {}
      BY <1>0, <1>2 DEF Pop, Phase
    <2>3. o >= order
      BY <1>0 DEF Phase, Orders
    <2> QED BY <1>0, <2>1, <2>2, <2>3 DEF Phase
  <1>3. CASE Refill
    BY <1>0, <1>3, SizesAre, BuddyAssumption DEF Refill, Phase, Orders
  <1>4. CASE StashTop
    BY <1>0, <1>4 DEF StashTop, Phase
  <1>5. CASE Split
    <2>1. PICK b \in hand : b[2] > order /\ hand' = {<<b[1], b[2] - 1>>}
      BY <1>5 DEF Split
    <2>2. b[2] - 1 >= order
      BY <1>0, <2>1 DEF Phase, Orders
    <2>3. UNCHANGED <<pc, order, owed>> /\ pc = "split"
      BY <1>5 DEF Split
    <2> QED BY <1>0, <2>1, <2>2, <2>3 DEF Phase
  <1>6. CASE HandOut
    BY <1>0, <1>6, BuddyAssumption DEF HandOut, Phase, Orders
  <1>7. ASSUME NEW b \in live, FreeBig(b) PROVE Phase'
    <2>1. b[2] \in Orders
      BY <1>7, OrdersSplit DEF FreeBig
    <2> QED BY <1>0, <1>7, <2>1 DEF FreeBig, Phase
  <1>8. ASSUME NEW b \in live, FreeSmall(b) PROVE Phase'
    <2>1. b[2] \in Orders
      BY <1>8, OrdersSplit DEF FreeSmall
    <2> QED BY <1>0, <1>8, <2>1 DEF FreeSmall, Phase
  <1>9. CASE DrainPop
    <2>1. /\ pc' = "merge" /\ pc = "drain" /\ UNCHANGED <<order, owed>>
          /\ hand' = {<<PopAddress(order), order>>}
      BY <1>9 DEF DrainPop
    <2>2. order >= order
      BY <1>0 DEF Phase, Orders
    <2> QED BY <1>0, <2>1, <2>2 DEF Phase
  <1>10. CASE Merge
    <2>1. PICK b \in hand : hand' = {Merged(b)}
      BY <1>10 DEF Merge
    <2>2. hand = {b} /\ b[2] >= order /\ UNCHANGED <<pc, order, owed>>
      BY <1>0, <1>10 DEF Merge, Phase
    <2>3. Merged(b)[2] >= order
      BY <1>0, <2>2 DEF Merged, Phase, Orders
    <2> QED BY <1>0, <1>10, <2>1, <2>2, <2>3 DEF Phase, Merge
  <1>11. CASE PutBack
    BY <1>0, <1>11 DEF PutBack, Phase
  <1>12. CASE DrainDone
    BY <1>0, <1>12, BuddyAssumption DEF DrainDone, Phase, Orders
  <1>13. CASE UNCHANGED vars
    BY <1>0, <1>13 DEF vars, callVars, Phase
  <1> QED BY <1>1, <1>2, <1>3, <1>4, <1>5, <1>6, <1>7, <1>8, <1>9, <1>10, <1>11, <1>12,
             <1>13 DEF Next, Step

\* A block that is handed out gets its order recorded in its own slot.
LEMMA HandOutStep ==
  ASSUME BuddyInv, HandOut PROVE OrdersKept'
  <1>1. PICK b \in hand : live' = live \cup {b} /\ orderMap' = Record(b)
    BY DEF HandOut
  <1>2. /\ Tiling(All, mapped) /\ mapped \in SUBSET Regions /\ OrdersKept
        /\ b \in All /\ live \subseteq All /\ b \notin live
    BY DEF BuddyInv, All, InUse, Parts
  <1>3. /\ b[2] \in Orders
        /\ \A c \in live : /\ c[2] \in Big /\ b[2] \in Big => SlotOf(c[1]) # SlotOf(b[1])
                           /\ c[2] \in Big => SlotOf(c[1]) \in Slots
        /\ b[2] \in Big => SlotOf(b[1]) \in Slots
    <2>1. b[2] \in Orders
      BY <1>2 DEF Tiling, Block
    <2>2. Placed(b)
      BY <1>2, TilePlaced
    <2>3. ASSUME NEW c \in live, c[2] \in Big
          PROVE  /\ SlotOf(c[1]) \in Slots
                 /\ b[2] \in Big => SlotOf(c[1]) # SlotOf(b[1])
      <3>1. Placed(c) /\ c \in All
        BY <1>2, TilePlaced
      <3>2. c[1] # b[1]
        BY <1>2, <3>1, TileAlone
      <3> QED BY <2>2, <2>3, <3>1, <3>2 DEF Placed
    <2> QED BY <2>1, <2>2, <2>3 DEF Placed
  <1>4. b[2] >= OobMin <=> b[2] \in Big
    BY <1>3, BuddyAssumption DEF Big, Small, Orders
  <1>5. CASE Records /\ b[2] \in Big
    <2>1. orderMap' = [orderMap EXCEPT ![SlotOf(b[1])] = b[2]]
      BY <1>1, <1>4, <1>5 DEF Record
    <2> DEFINE s == SlotOf(b[1])
    <2>2. s \in Slots
      BY <1>3, <1>5
    <2> HIDE DEF s
    <2>3. /\ orderMap' \in [Slots -> Orders \cup {None}] /\ orderMap'[s] = b[2]
          /\ \A t \in Slots : t # s => orderMap'[t] = orderMap[t]
      BY <1>2, <1>3, <2>1, <2>2 DEF OrdersKept, s
    <2>4. ASSUME NEW c \in live', c[2] \in Big PROVE orderMap'[SlotOf(c[1])] = c[2]
      <3>1. CASE c = b
        BY <2>3, <3>1 DEF s
      <3>2. CASE c # b
        <4>1. c \in live /\ SlotOf(c[1]) \in Slots /\ SlotOf(c[1]) # s
          BY <1>1, <1>3, <1>5, <2>4, <3>2 DEF s
        <4>2. orderMap[SlotOf(c[1])] = c[2]
          BY <1>2, <1>5, <2>4, <4>1 DEF OrdersKept, OrderKnown
        <4> QED BY <2>3, <4>1, <4>2
      <3> QED BY <3>1, <3>2
    <2> QED BY <2>3, <2>4 DEF OrdersKept, OrderKnown
  <1>6. CASE ~(Records /\ b[2] \in Big)
    <2>1. orderMap' = orderMap
      BY <1>1, <1>4, <1>6 DEF Record
    <2> QED BY <1>1, <1>2, <1>6, <2>1 DEF OrdersKept, OrderKnown
  <1> QED BY <1>5, <1>6

\* Every step keeps the orders of the blocks in use.
LEMMA OrdersStep ==
  ASSUME BuddyInv, [Next]_vars PROVE OrdersKept'
  <1>0. OrdersKept
    BY DEF BuddyInv
  <1>1. CASE HandOut
    BY <1>1, HandOutStep
  <1>2. CASE orderMap' = orderMap /\ live' \subseteq live
    BY <1>0, <1>2 DEF OrdersKept, OrderKnown
  <1>3. [Next]_vars /\ ~HandOut => orderMap' = orderMap /\ live' \subseteq live
    BY DEF Next, Step, vars, Alloc, Pop, Refill, StashTop, Split, FreeBig, FreeSmall,
           DrainPop, Merge, PutBack, DrainDone
  <1> QED BY <1>1, <1>2, <1>3

\* At first nothing is mapped, and every list is empty.
LEMMA InitBuddy ==
  ASSUME Init PROVE BuddyInv
  <1>1. mapped \subseteq Regions /\ Parts /\ Phase
    BY BuddyAssumption DEF Init, Parts, Phase, Orders
  <1>2. All = {}
    BY DEF Init, All, InUse
  <1>3. Tiling(All, mapped)
    BY <1>2 DEF Init, Tiling, Disjoint, Ground
  <1>4. OrdersKept
    BY DEF Init, OrdersKept, OrderKnown
  <1>5. /\ bits = {} /\ row = [o \in Small |-> <<>>] /\ list = [o \in Small |-> <<>>]
        /\ oob = NoLinks
    BY DEF Init
  <1>6. Rows(bits, row, list)
    <2>1. RowOK(<<>>, <<>>, {})
      BY DEF RowOK, Unique, Elems
    <2>2. \A o \in Small : FreeOf(bits, o) = {} /\ row[o] = <<>> /\ list[o] = <<>>
      BY <1>5 DEF FreeOf
    <2>3. row \in [Small -> Seq(Nat)] /\ list \in [Small -> Seq(Nat)]
      BY <1>5
    <2> QED BY <2>1, <2>2, <2>3 DEF Rows
  <1>7. Lists(oob, Listed(bits))
    <2>1. Listed(bits) = {}
      BY <1>5 DEF Listed
    <2>2. /\ oob \in LinkType
          /\ \A s \in Slots : oob.prev[s] = None /\ oob.next[s] = None
          /\ \A r \in Regions, o \in Big : /\ oob.head[r][o] = None /\ oob.tail[r][o] = None
                                           /\ oob.rprev[r][o] = None /\ oob.rnext[r][o] = None
          /\ \A o \in Big : oob.first[o] = None
      BY <1>5 DEF NoLinks, LinkType, MaybeSlot, MaybeRegion
    <2>3. Reaches(oob)
      BY <2>2, NoneApart DEF Reaches, Rooted, RegionBack, OneFirst
    <2> QED BY <2>1, <2>2, <2>3 DEF Lists, OneOrder, InRegions, OneWay, LinkOK, LastOK,
                                    EndOK, EndsAgree, RegionsLinked, RegionLinkOK, FirstOK
  <1>8. TiersOK
    BY <1>5, <1>6, <1>7, TwoParts
  <1> QED BY <1>1, <1>3, <1>4, <1>8 DEF BuddyInv

\* The invariant of a stripe holds after every step of every call.
THEOREM Inductive == Spec => []BuddyInv
  <1>1. Init => BuddyInv
    BY InitBuddy
  <1>2. BuddyInv /\ [Next]_vars => BuddyInv'
    <2> SUFFICES ASSUME BuddyInv, [Next]_vars PROVE BuddyInv'
      OBVIOUS
    <2> QED BY BlocksStep, PhaseStep, OrdersStep DEF BuddyInv
  <1> QED BY <1>1, <1>2, PTL DEF Spec

\* Free blocks, blocks in use and blocks in hand tile the mapped memory at every step of
\* an allocation or a free: splits and merges lose nothing and give nothing twice.
THEOREM TiledAlways == Spec => []Tiled
  <1>1. BuddyInv => Tiled
    BY DEF BuddyInv, Tiled, Parts, Tiling, Disjoint, Ground, All
  <1> QED BY <1>1, Inductive, PTL

\* A free that is given no order finds the right one, for every block in use.
THEOREM OrderKnownAlways == Spec => []OrderKnown
  <1>1. BuddyInv => OrderKnown
    BY DEF BuddyInv, OrdersKept
  <1> QED BY <1>1, Inductive, PTL

\* A free small block is in the row or on the list of its order, in one of them and
\* once, and no other block is.  The slots of the big ones are linked in both directions,
\* within an order and a region, up to the ends that the region keeps, and the regions
\* that an order links have such a list.
THEOREM TiersSound == Spec => []TiersOK
  <1>1. BuddyInv => TiersOK
    BY DEF BuddyInv
  <1> QED BY <1>1, Inductive, PTL

-----------------------------------------------------------------------------

-----------------------------------------------------------------------------
(* What the links reach.                                                    *)

\* M is the elements of one list of N: links there and back stay in M and agree, only the
\* one at from has none before it, and no circle is closed.
OneList(to, back, from, M, N) ==
  /\ M \subseteq N /\ None \notin N /\ Rooted(back, N)
  /\ from # None => from \in M /\ back[from] = None
  /\ \A x \in M : /\ to[x] # None => to[x] \in M /\ back[to[x]] = x
                  /\ back[x] # None => back[x] \in M /\ to[back[x]] = x
                  /\ back[x] = None => x = from

\* What starts at from and follows the links.
Chained(to, from, M, q) ==
  /\ q \in Seq(M) /\ q # <<>> /\ q[1] = from
  /\ \A i \in 1 .. Len(q) - 1 : to[q[i]] = q[i + 1]

\* A list that has no head is empty.
LEMMA NoHead ==
  ASSUME NEW to, NEW back, NEW from, NEW M, NEW N, OneList(to, back, from, M, N)
  PROVE  from = None <=> M = {}
  <1>1. ASSUME M # {} PROVE from \in M
    <2>1. PICK x \in M : back[x] \notin M
      BY <1>1 DEF OneList, Rooted
    <2> QED BY <2>1 DEF OneList
  <1> QED BY <1>1 DEF OneList

\* A chain goes back the way it came, and meets no element twice.
LEMMA ChainedOnce ==
  ASSUME NEW to, NEW back, NEW from, NEW M, NEW N, OneList(to, back, from, M, N),
         NEW q, Chained(to, from, M, q)
  PROVE  Unique(q) /\ \A i \in 1 .. Len(q) : back[q[i]] = Before(q, i)
  <1>0. /\ q \in Seq(M) /\ Len(q) \in Nat \ {0} /\ q[1] = from
        /\ \A i \in 1 .. Len(q) : q[i] \in M
    BY DEF Chained
  <1>1. ASSUME NEW i \in 1 .. Len(q) PROVE back[q[i]] = Before(q, i)
    <2>1. CASE i = 1
      <3>1. q[1] \in M /\ from # None
        BY <1>0 DEF OneList
      <3> QED BY <1>0, <2>1, <3>1 DEF Before, OneList
    <2>2. CASE i # 1
      <3>1. i - 1 \in 1 .. Len(q) - 1 /\ (i - 1) + 1 = i /\ i - 1 \in 1 .. Len(q)
        BY <1>0, <2>2
      <3>2. to[q[i - 1]] = q[i]
        BY <3>1 DEF Chained
      <3>3. q[i] # None /\ q[i - 1] \in M
        BY <1>0, <3>1 DEF OneList
      <3> QED BY <2>2, <3>2, <3>3 DEF Before, OneList
    <2> QED BY <2>1, <2>2
  <1>2. Unique(q)
    <2> DEFINE T == {i \in 1 .. Len(q) : \E j \in 1 .. Len(q) : i < j /\ q[i] = q[j]}
    <2>1. T = {}
      <3> SUFFICES ASSUME T # {} PROVE FALSE
        OBVIOUS
      <3>1. PICK i \in T : \A k \in T : i <= k
        <4>1. T \in SUBSET Nat
          BY <1>0
        <4> QED BY <4>1, LeastOf
      <3>2. PICK j \in 1 .. Len(q) : i < j /\ q[i] = q[j]
        OBVIOUS
      <3>3. back[q[j]] = q[j - 1] /\ j - 1 \in 1 .. Len(q) /\ q[j - 1] # None
        <4>1. j # 1 /\ j - 1 \in 1 .. Len(q)
          BY <1>0, <3>2
        <4>2. back[q[j]] = Before(q, j)
          BY <1>1
        <4> QED BY <1>0, <4>1, <4>2 DEF Before, OneList
      <3>4. i # 1
        <4>1. i = 1 => back[q[i]] = None
          BY <1>1 DEF Before
        <4> QED BY <3>2, <3>3, <4>1
      <3>5. back[q[i]] = q[i - 1] /\ i - 1 \in 1 .. Len(q)
        <4>1. i - 1 \in 1 .. Len(q)
          BY <1>0, <3>4
        <4>2. back[q[i]] = Before(q, i)
          BY <1>1
        <4> QED BY <3>4, <4>1, <4>2 DEF Before
      <3>6. i - 1 < j - 1 /\ q[i - 1] = q[j - 1]
        BY <1>0, <3>2, <3>3, <3>5
      <3>7. i - 1 \in T
        BY <3>3, <3>5, <3>6
      <3> QED BY <1>0, <3>1, <3>7
    <2>2. ASSUME NEW i \in 1 .. Len(q), NEW j \in 1 .. Len(q), q[i] = q[j] PROVE i = j
      <3>1. i \notin T /\ j \notin T
        BY <2>1
      <3>2. ~(i < j) /\ ~(j < i)
        BY <2>2, <3>1
      <3> QED BY <1>0, <3>2
    <2> QED BY <2>2 DEF Unique
  <1> QED BY <1>1, <1>2

\* A sequence in which nothing is twice is as long as what it holds.
LEMMA UniqueCount ==
  ASSUME NEW M, NEW q \in Seq(M), Unique(q)
  PROVE  IsFiniteSet(Elems(q)) /\ Cardinality(Elems(q)) = Len(q)
  <1> DEFINE E == Elems(q)
             f == [i \in 1 .. Len(q) |-> q[i]]
  <1>1. Len(q) \in Nat
    OBVIOUS
  <1>2. f \in [1 .. Len(q) -> E] /\ \A i, j \in 1 .. Len(q) : f[i] = f[j] => i = j
    BY DEF Elems, Unique
  <1>3. \A x \in E : \E i \in 1 .. Len(q) : f[i] = x
    BY DEF Elems
  <1> HIDE DEF f, E
  <1>4. f \in Bijection(1 .. Len(q), E)
    BY <1>2, <1>3 DEF Bijection, Injection, Surjection, IsInjective
  <1>5. ExistsBijection(1 .. Len(q), E)
    BY <1>4 DEF ExistsBijection
  <1> QED BY <1>1, <1>5, FS_NatBijection, FS_CountingElements DEF E

\* The longest chain takes in the whole list.
LEMMA ChainOf ==
  ASSUME NEW to, NEW back, NEW from, NEW M, NEW N, OneList(to, back, from, M, N),
         IsFiniteSet(N), from # None
  PROVE  \E q : /\ Chained(to, from, M, q) /\ Elems(q) = M /\ to[q[Len(q)]] = None
                /\ Len(q) <= Cardinality(N)
  <1> DEFINE n == Cardinality(N)
             T == {k \in 0 .. n : \E q : Chained(to, from, M, q) /\ Len(q) = k}
  <1>1. n \in Nat
    BY FS_CardinalityType
  <1>2. ASSUME NEW q, Chained(to, from, M, q) PROVE Len(q) \in T
    <2>1. q \in Seq(M) /\ Unique(q) /\ Elems(q) \in SUBSET N
      <3>1. q \in Seq(M) /\ Unique(q)
        BY <1>2, ChainedOnce DEF Chained
      <3>2. Elems(q) \in SUBSET N
        BY <3>1 DEF Elems, OneList
      <3> QED BY <3>1, <3>2
    <2>2. Cardinality(Elems(q)) = Len(q) /\ Cardinality(Elems(q)) <= n
      BY <2>1, UniqueCount, FS_Subset
    <2> QED BY <1>1, <1>2, <2>1, <2>2
  <1>3. <<from>> \in Seq(M) /\ Chained(to, from, M, <<from>>)
    BY DEF OneList, Chained
  <1>4. T # {} /\ T \in SUBSET (0 .. n)
    BY <1>2, <1>3
  <1>5. Max(T) \in T /\ \A k \in T : k <= Max(T)
    BY <1>1, <1>4, MaxOf
  <1>6. PICK q : Chained(to, from, M, q) /\ Len(q) = Max(T)
    BY <1>5
  <1> HIDE DEF T
  <1>7. q \in Seq(M) /\ Len(q) \in Nat \ {0} /\ \A i \in 1 .. Len(q) : q[i] \in M
    BY <1>6 DEF Chained
  <1>8. to[q[Len(q)]] = None
    <2> SUFFICES ASSUME to[q[Len(q)]] # None PROVE FALSE
      OBVIOUS
    <2> DEFINE x == to[q[Len(q)]]
               p == Append(q, x)
    <2>1. x \in M
      BY <1>7 DEF OneList
    <2>2. p \in Seq(M) /\ Len(p) = Len(q) + 1 /\ p[Len(q) + 1] = x
          /\ \A i \in 1 .. Len(q) : p[i] = q[i]
      BY <1>7, <2>1
    <2> HIDE DEF p
    <2>3. p # <<>> /\ p[1] = from
      BY <1>6, <1>7, <2>2 DEF Chained
    <2>4. ASSUME NEW i \in 1 .. Len(p) - 1 PROVE to[p[i]] = p[i + 1]
      <3>1. CASE i = Len(q)
        BY <1>7, <2>2, <3>1
      <3>2. CASE i # Len(q)
        <4>1. i \in 1 .. Len(q) - 1 /\ i \in 1 .. Len(q) /\ i + 1 \in 1 .. Len(q)
          BY <1>7, <2>2, <3>2
        <4> QED BY <1>6, <2>2, <4>1 DEF Chained
      <3> QED BY <3>1, <3>2
    <2>5. Chained(to, from, M, p)
      BY <2>2, <2>3, <2>4 DEF Chained
    <2> QED BY <1>2, <1>5, <1>6, <1>7, <2>2, <2>5
  <1>9. Elems(q) = M
    <2> SUFFICES ASSUME M \ Elems(q) # {} PROVE FALSE
      BY <1>7 DEF Elems
    <2>1. PICK x \in M \ Elems(q) : back[x] \notin M \ Elems(q)
      <3>1. M \ Elems(q) \in SUBSET N
        BY DEF OneList
      <3> QED BY <3>1 DEF OneList, Rooted
    <2>2. x # from
      BY <1>6, <1>7, <2>1 DEF Chained, Elems
    <2>3. back[x] \in M /\ to[back[x]] = x
      BY <2>1, <2>2 DEF OneList
    <2>4. PICK i \in 1 .. Len(q) : q[i] = back[x]
      BY <2>1, <2>3 DEF Elems
    <2>5. i # Len(q)
      BY <1>8, <2>1, <2>3, <2>4 DEF OneList
    <2>6. i \in 1 .. Len(q) - 1 /\ i + 1 \in 1 .. Len(q)
      BY <1>7, <2>5
    <2>7. q[i + 1] = x
      BY <1>6, <2>3, <2>4, <2>6 DEF Chained
    <2> QED BY <2>1, <2>6, <2>7 DEF Elems
  <1>10. Len(q) <= n
    BY <1>1, <1>5, <1>6 DEF T
  <1> QED BY <1>6, <1>8, <1>9, <1>10

\* The start of q of one element more than n, while there is one.
Start(q, n) == SubSeq(q, 1, IF n < Len(q) THEN n + 1 ELSE Len(q))

\* What Walk goes by.
Onward(to, from, g, n) ==
  g[n] = IF n = 0 THEN <<from>>
         ELSE LET q == g[n - 1]
              IN IF to[Last(q)] = None THEN q ELSE Append(q, to[Last(q)])

\* The starts of a chain follow each other as Walk goes.
LEMMA StartsFollow ==
  ASSUME NEW to, NEW from, NEW M, NEW q, Chained(to, from, M, q), to[q[Len(q)]] = None,
         None \notin M, NEW n \in Nat, NEW g, g[n] = Start(q, n), n # 0 => g[n - 1] = Start(q, n - 1)
  PROVE  Onward(to, from, g, n)
  <1>1. /\ q \in Seq(M) /\ Len(q) \in Nat \ {0} /\ q[1] = from
        /\ \A i \in 1 .. Len(q) : q[i] \in M
    BY DEF Chained
  <1>2. SubSeq(q, 1, Len(q)) = q
    BY <1>1, SubSeqFull
  <1>3. CASE n = 0
    <2>1. Start(q, 0) = SubSeq(q, 1, 1)
      BY <1>1 DEF Start
    <2>2. SubSeq(q, 1, 1) = <<q[1]>>
      <3>1. /\ SubSeq(q, 1, 1) \in Seq(M) /\ Len(SubSeq(q, 1, 1)) = 1
            /\ SubSeq(q, 1, 1)[1] = q[1]
        BY <1>1
      <3>2. <<q[1]>> \in Seq(M) /\ Len(<<q[1]>>) = 1 /\ <<q[1]>>[1] = q[1]
        BY <1>1
      <3>3. \A i \in 1 .. 1 : SubSeq(q, 1, 1)[i] = <<q[1]>>[i]
        BY <3>1, <3>2
      <3> QED BY <3>1, <3>2, <3>3, SeqEqual
    <2> QED BY <1>1, <1>3, <2>1, <2>2 DEF Onward
  <1>4. CASE n # 0 /\ n < Len(q)
    <2>1. g[n - 1] = SubSeq(q, 1, n) /\ g[n] = SubSeq(q, 1, n + 1)
      BY <1>1, <1>4 DEF Start
    <2>2. n \in 1 .. Len(q) - 1 /\ n \in 1 .. Len(q) /\ n + 1 \in 1 .. Len(q)
      BY <1>1, <1>4
    <2>3. /\ SubSeq(q, 1, n) \in Seq(M) /\ Len(SubSeq(q, 1, n)) = n
          /\ \A i \in 1 .. n : SubSeq(q, 1, n)[i] = q[i]
      BY <1>1, <2>2
    <2>4. /\ SubSeq(q, 1, n + 1) \in Seq(M) /\ Len(SubSeq(q, 1, n + 1)) = n + 1
          /\ \A i \in 1 .. n + 1 : SubSeq(q, 1, n + 1)[i] = q[i]
      BY <1>1, <2>2
    <2>5. Last(g[n - 1]) = q[n] /\ to[q[n]] = q[n + 1] /\ q[n + 1] \in M
      BY <1>1, <2>1, <2>2, <2>3 DEF Chained, Last
    <2> DEFINE p == SubSeq(q, 1, n)
               k == SubSeq(q, 1, n + 1)
               a == Append(p, q[n + 1])
    <2>6. /\ a \in Seq(M) /\ Len(a) = n + 1 /\ a[n + 1] = q[n + 1]
          /\ \A i \in 1 .. n : a[i] = p[i]
      BY <2>3, <2>5
    <2> HIDE DEF p, k, a
    <2>7. k = a
      <3>1. k \in Seq(M) /\ Len(k) = Len(a)
        BY <2>4, <2>6 DEF k
      <3>2. ASSUME NEW i \in 1 .. Len(k) PROVE k[i] = a[i]
        BY <2>2, <2>3, <2>4, <2>6 DEF k, p
      <3> QED BY <2>6, <3>1, <3>2, SeqEqual
    <2>8. to[Last(g[n - 1])] = q[n + 1] /\ q[n + 1] # None
      BY <2>5
    <2> QED BY <1>4, <2>1, <2>7, <2>8 DEF Onward, k, a, p
  <1>5. CASE n >= Len(q)
    <2>0. n # 0 /\ (IF n < Len(q) THEN n + 1 ELSE Len(q)) = Len(q)
          /\ (IF n - 1 < Len(q) THEN (n - 1) + 1 ELSE Len(q)) = Len(q)
      BY <1>1, <1>5
    <2>1. g[n - 1] = q /\ g[n] = q /\ n # 0
      BY <1>2, <2>0 DEF Start
    <2> QED BY <2>1 DEF Onward, Last
  <1> QED BY <1>1, <1>3, <1>4, <1>5

\* Walk returns the chain that goes to the end.
LEMMA WalkIs ==
  ASSUME NEW to, NEW from, NEW M, NEW q, Chained(to, from, M, q), to[q[Len(q)]] = None,
         None \notin M, from # None, IsFiniteSet(DOMAIN to), Len(q) <= Cardinality(DOMAIN to)
  PROVE  Walk(to, from) = q
  <1> DEFINE g == [n \in Nat |-> Start(q, n)]
             f == CHOOSE f : f = [n \in Nat |-> IF n = 0 THEN <<from>>
                               ELSE LET p == f[n - 1]
                                    IN IF to[Last(p)] = None THEN p ELSE Append(p, to[Last(p)])]
             c == Cardinality(DOMAIN to)
  <1>0. q \in Seq(M) /\ Len(q) \in Nat \ {0}
    BY DEF Chained
  <1>1. \A n \in Nat : g[n] = Start(q, n)
    OBVIOUS
  <1>2. \A n \in Nat : Onward(to, from, g, n)
    <2> HIDE DEF g
    <2> TAKE n \in Nat
    <2>1. n # 0 => g[n - 1] = Start(q, n - 1)
      BY <1>1
    <2> QED BY <1>1, <2>1, StartsFollow
  <1>3. g = [n \in Nat |-> g[n]]
    OBVIOUS
  <1> HIDE DEF g
  <1>4. g = [n \in Nat |-> IF n = 0 THEN <<from>>
               ELSE LET p == g[n - 1]
                    IN IF to[Last(p)] = None THEN p ELSE Append(p, to[Last(p)])]
    BY <1>2, <1>3 DEF Onward
  <1>5. f = [n \in Nat |-> IF n = 0 THEN <<from>>
               ELSE LET p == f[n - 1]
                    IN IF to[Last(p)] = None THEN p ELSE Append(p, to[Last(p)])]
    BY <1>4
  <1>6. Walk(to, from) = f[c]
    BY DEF Walk
  <1> HIDE DEF f
  <1>7. \A n \in Nat : Onward(to, from, f, n)
    <2> DEFINE F(n) == IF n = 0 THEN <<from>>
                       ELSE LET p == f[n - 1]
                            IN IF to[Last(p)] = None THEN p ELSE Append(p, to[Last(p)])
    <2>1. f = [n \in Nat |-> F(n)]
      BY <1>5
    <2> HIDE DEF F
    <2>2. \A n \in Nat : f[n] = F(n)
      BY <2>1
    <2> QED BY <2>2 DEF Onward, F
  <1>8. \A n \in Nat : f[n] = g[n]
    <2> DEFINE P == {n \in Nat : f[n] = g[n]}
    <2>1. 0 \in P
      BY <1>2, <1>7 DEF Onward
    <2>2. ASSUME NEW n \in Nat, n \in P PROVE n + 1 \in P
      <3>1. n + 1 \in Nat /\ n + 1 # 0 /\ (n + 1) - 1 = n /\ f[n] = g[n]
        BY <2>2
      <3>2. Onward(to, from, f, n + 1) /\ Onward(to, from, g, n + 1)
        BY <1>2, <1>7, <3>1
      <3> QED BY <3>1, <3>2 DEF Onward
    <2> HIDE DEF P
    <2>3. Nat \subseteq P
      BY <2>1, <2>2, Induct
    <2> QED BY <2>3 DEF P
  <1>9. c \in Nat
    BY FS_CardinalityType
  <1>10. Start(q, c) = q
    BY <1>0, <1>9, SubSeqFull DEF Start
  <1> QED BY <1>1, <1>6, <1>8, <1>9, <1>10

\* What Walk returns of one list: all of it, each element once, linked both ways.
LEMMA WalkAll ==
  ASSUME NEW to, NEW back, NEW from, NEW M, NEW N, OneList(to, back, from, M, N),
         IsFiniteSet(N), DOMAIN to = N, NEW q, q = Walk(to, from)
  PROVE  /\ q \in Seq(M) /\ Unique(q) /\ Elems(q) = M
         /\ IsFiniteSet(M) /\ Len(q) = Cardinality(M)
         /\ \A i \in 1 .. Len(q) : back[q[i]] = Before(q, i)
         /\ q # <<>> <=> from # None
         /\ q # <<>> => to[q[Len(q)]] = None
  <1>1. CASE from = None
    <2>1. q = <<>> /\ M = {}
      BY <1>1, NoHead DEF Walk
    <2>2. Len(q) = 0 /\ q \in Seq(M) /\ 1 .. 0 = {}
      BY <2>1
    <2> QED BY <1>1, <2>1, <2>2, FS_EmptySet DEF Unique, Elems
  <1>2. CASE from # None
    <2>1. PICK p : /\ Chained(to, from, M, p) /\ Elems(p) = M /\ to[p[Len(p)]] = None
                   /\ Len(p) <= Cardinality(N)
      BY <1>2, ChainOf
    <2>2. q = p
      BY <1>2, <2>1, WalkIs DEF OneList
    <2>3. p \in Seq(M) /\ p # <<>>
      BY <2>1 DEF Chained
    <2> QED BY <1>2, <2>1, <2>2, <2>3, ChainedOnce, UniqueCount
  <1> QED BY <1>1, <1>2

-----------------------------------------------------------------------------
(* The lists of the stripe.                                                 *)

\* The regions that have a slot of an order.
Listing(L, o) == {r \in Regions : L.head[r][o] # None}

\* The slots of a region and an order are one list.
LEMMA SlotList ==
  ASSUME NEW L, NEW S, Lists(L, S), NEW r \in Regions, NEW o \in Big
  PROVE  OneList(L.next, L.prev, L.head[r][o], Held(S, r, o), Slots)
  <1>1. Held(S, r, o) \subseteq Slots /\ Rooted(L.prev, Slots)
    BY DEF Held, Lists, Reaches
  <1>2. L.head[r][o] # None => L.head[r][o] \in Held(S, r, o) /\ L.prev[L.head[r][o]] = None
    <2>1. EndOK(L.prev, L.head, S, r, o) /\ S \subseteq Slots \X Big
      BY DEF Lists, OneWay
    <2> QED BY <2>1 DEF EndOK, Held
  <1>3. ASSUME NEW x \in Held(S, r, o)
        PROVE  /\ L.next[x] # None => L.next[x] \in Held(S, r, o) /\ L.prev[L.next[x]] = x
               /\ L.prev[x] # None => L.prev[x] \in Held(S, r, o) /\ L.next[L.prev[x]] = x
               /\ L.prev[x] = None => x = L.head[r][o]
    BY HeldLinks
  <1> QED BY <1>1, <1>2, <1>3, NoneApart DEF OneList

\* The regions of an order are one list.
LEMMA RegionList ==
  ASSUME NEW L, NEW S, Lists(L, S), NEW o \in Big
  PROVE  OneList([r \in Regions |-> L.rnext[r][o]], RegionBack(L, o), L.first[o],
                 Listing(L, o), Regions)
  <1> DEFINE to == [r \in Regions |-> L.rnext[r][o]]
             back == RegionBack(L, o)
             M == Listing(L, o)
  <1>0. /\ L \in LinkType /\ RegionsLinked(L.rprev, L.rnext, L.first, L.head)
        /\ Rooted(back, Regions) /\ \A r \in Regions : OneFirst(L, r, o)
    BY DEF Lists, Reaches
  <1>1. /\ \A x \in Regions : to[x] = L.rnext[x][o] /\ back[x] = L.rprev[x][o]
        /\ \A x \in Regions : /\ L.rprev[x][o] \in Regions \cup {None}
                              /\ L.rnext[x][o] \in Regions \cup {None}
        /\ L.first[o] \in Regions \cup {None}
    BY <1>0 DEF LinkType, MaybeRegion, RegionBack
  <1>2. L.first[o] # None => L.first[o] \in M /\ back[L.first[o]] = None
    BY <1>0, <1>1 DEF RegionsLinked, FirstOK, Listing
  <1> HIDE DEF to, back
  <1>3. ASSUME NEW x \in M
        PROVE  /\ to[x] # None => to[x] \in M /\ back[to[x]] = x
               /\ back[x] # None => back[x] \in M /\ to[back[x]] = x
               /\ back[x] = None => x = L.first[o]
    <2>1. x \in Regions /\ L.head[x][o] # None
      BY DEF Listing
    <2>2. /\ RegionLinkOK(L.rprev, L.rnext, L.head, x, o)
          /\ RegionLinkOK(L.rnext, L.rprev, L.head, x, o)
      BY <1>0, <2>1 DEF RegionsLinked
    <2>3. OneFirst(L, x, o)
      BY <1>0, <2>1
    <2> QED BY <1>1, <2>1, <2>2, <2>3 DEF RegionLinkOK, OneFirst, Listing
  <1>4. M \subseteq Regions
    BY DEF Listing
  <1> QED BY <1>0, <1>2, <1>3, <1>4, NoneApart DEF OneList, to, back

\* The free blocks of an order, by their addresses, and the slots of the big ones.
LEMMA FreeIs ==
  ASSUME bits \subseteq Nat \X Orders
  PROVE  /\ \A o : FreeAt(o) = FreeOf(bits, o)
         /\ \A o \in Big : \A r, s : s \in Held(Listed(bits), r, o) <=>
              s \in Slots /\ <<AddressOf(s), o>> \in bits /\ RegionOf(AddressOf(s)) = r
  <1>1. ASSUME NEW o PROVE FreeAt(o) = FreeOf(bits, o)
    <2>1. ASSUME NEW b \in bits, b[2] = o PROVE b[1] \in FreeOf(bits, o)
      <3>1. b = <<b[1], b[2]>> /\ b[1] \in Nat
        OBVIOUS
      <3> QED BY <2>1, <3>1 DEF FreeOf
    <2>2. ASSUME NEW a \in FreeOf(bits, o) PROVE a \in FreeAt(o)
      <3>1. <<a, o>> \in bits /\ <<a, o>>[1] = a /\ <<a, o>>[2] = o
        BY DEF FreeOf
      <3> QED BY <3>1 DEF FreeAt
    <2> QED BY <2>1, <2>2 DEF FreeAt
  <1>2. ASSUME NEW o \in Big, NEW r, NEW s
        PROVE  s \in Held(Listed(bits), r, o) <=>
                 s \in Slots /\ <<AddressOf(s), o>> \in bits /\ RegionOf(AddressOf(s)) = r
    BY DEF Held, Listed, SlotRegion
  <1> QED BY <1>1, <1>2

\* What the walk along a list of slots finds.
LEMMA SlotsWalked ==
  ASSUME TiersOK, NEW r \in Regions, NEW o \in Big, NEW q, q = SlotsAt(r, o)
  PROVE  LET H == Held(Listed(bits), r, o)
         IN /\ q \in Seq(H) /\ Unique(q) /\ Elems(q) = H
            /\ IsFiniteSet(H) /\ Len(q) = Cardinality(H)
            /\ \A j \in 1 .. Len(q) : oob.prev[q[j]] = Before(q, j)
            /\ q # <<>> <=> oob.head[r][o] # None
            /\ q # <<>> => oob.tail[r][o] = q[Len(q)]
  <1> DEFINE H == Held(Listed(bits), r, o)
             S == Listed(bits)
  <1>1. Lists(oob, S)
    BY DEF TiersOK
  <1>2. OneList(oob.next, oob.prev, oob.head[r][o], H, Slots)
    BY <1>1, SlotList
  <1>3. IsFiniteSet(Slots) /\ DOMAIN oob.next = Slots
    <2>1. DOMAIN oob.next = Slots
      BY <1>1 DEF Lists, LinkType
    <2>2. NumRegions * (RegionSize \div Size(OobMin)) - 1 \in Int
      <3>1. RegionSize \in Int /\ Size(OobMin) \in Nat \ {0} /\ NumRegions \in Int
        BY BuddyAssumption, SizesAre DEF RegionSize
      <3>2. \A a \in Int, b \in Nat \ {0} : a \div b \in Int
        OBVIOUS
      <3>3. \A a, b \in Int : a * b - 1 \in Int
        OBVIOUS
      <3> QED BY <3>1, <3>2, <3>3
    <2> QED BY <2>1, <2>2, FS_Interval DEF Slots
  <1>4. q = Walk(oob.next, oob.head[r][o])
    BY DEF SlotsAt
  <1> HIDE DEF H
  <1>5. /\ q \in Seq(H) /\ Unique(q) /\ Elems(q) = H
        /\ IsFiniteSet(H) /\ Len(q) = Cardinality(H)
        /\ \A j \in 1 .. Len(q) : oob.prev[q[j]] = Before(q, j)
        /\ q # <<>> <=> oob.head[r][o] # None
        /\ q # <<>> => oob.next[q[Len(q)]] = None
    BY <1>2, <1>3, <1>4, WalkAll
  <1>6. q # <<>> => oob.tail[r][o] = q[Len(q)]
    <2> SUFFICES ASSUME q # <<>> PROVE oob.tail[r][o] = q[Len(q)]
      OBVIOUS
    <2>1. q[Len(q)] \in H
      BY <1>5
    <2> QED BY <1>1, <1>5, <2>1, HeldLinks DEF H
  <1> QED BY <1>5, <1>6 DEF H

\* And along the list of regions.
LEMMA RegionsWalked ==
  ASSUME TiersOK, NEW o \in Big, NEW q, q = RegionsAt(o)
  PROVE  LET M == Listing(oob, o)
         IN /\ q \in Seq(M) /\ Unique(q) /\ Elems(q) = M /\ IsFiniteSet(M)
            /\ \A i \in 1 .. Len(q) : oob.rprev[q[i]][o] = Before(q, i)
  <1> DEFINE M == Listing(oob, o)
             to == [r \in Regions |-> oob.rnext[r][o]]
  <1>1. OneList(to, RegionBack(oob, o), oob.first[o], M, Regions)
    BY RegionList DEF TiersOK
  <1>2. IsFiniteSet(Regions) /\ DOMAIN to = Regions
    BY BuddyAssumption, FS_Interval DEF Regions
  <1>3. q = Walk(to, oob.first[o])
    BY DEF RegionsAt
  <1> HIDE DEF to, M
  <1>4. /\ q \in Seq(M) /\ Unique(q) /\ Elems(q) = M /\ IsFiniteSet(M)
        /\ \A i \in 1 .. Len(q) : RegionBack(oob, o)[q[i]] = Before(q, i)
    BY <1>1, <1>2, <1>3, WalkAll
  <1>5. \A i \in 1 .. Len(q) : q[i] \in Regions
    BY <1>4 DEF M, Listing
  <1> QED BY <1>4, <1>5 DEF RegionBack, M

\* The slots of the list of an order and a region are those of its free blocks there.
LEMMA HeldAre ==
  ASSUME TiersOK, \A b \in bits : Placed(b), NEW o \in Big, NEW r \in Regions
  PROVE  LET H == Held(Listed(bits), r, o)
         IN /\ {AddressOf(s) : s \in H} = {a \in FreeAt(o) : RegionOf(a) = r}
            /\ H # {} <=> r \in {RegionOf(a) : a \in FreeAt(o)}
            /\ H # {} => oob.head[r][o] # None
            /\ IsFiniteSet(H) =>
                 Cardinality({b \in bits : b[2] = o /\ RegionOf(b[1]) = r}) = Cardinality(H)
  <1> DEFINE H == Held(Listed(bits), r, o)
             T == {b \in bits : b[2] = o /\ RegionOf(b[1]) = r}
  <1>0. bits \subseteq Nat \X Orders /\ FreeAt(o) = FreeOf(bits, o)
    BY FreeIs DEF TiersOK
  <1>1. \A s \in H : /\ s \in Slots /\ <<AddressOf(s), o>> \in bits
                     /\ RegionOf(AddressOf(s)) = r /\ AddressOf(s) \in FreeAt(o)
    BY <1>0, FreeIs DEF FreeOf
  <1>2. ASSUME NEW a \in FreeAt(o)
        PROVE  /\ SlotOf(a) \in Slots /\ AddressOf(SlotOf(a)) = a /\ RegionOf(a) \in Regions
               /\ RegionOf(a) = r => SlotOf(a) \in H
    <2>1. <<a, o>> \in bits
      BY <1>0 DEF FreeOf
    <2>2. SlotOf(a) \in Slots /\ AddressOf(SlotOf(a)) = a /\ SlotRegion(SlotOf(a)) \in Regions
      <3>1. Placed(<<a, o>>)
        BY <2>1
      <3> QED BY <3>1 DEF Placed
    <2> QED BY <1>0, <2>1, <2>2, FreeIs DEF SlotRegion
  <1> HIDE DEF H
  <1>3. {AddressOf(s) : s \in H} = {a \in FreeAt(o) : RegionOf(a) = r}
    BY <1>1, <1>2
  <1>4. H # {} <=> r \in {RegionOf(a) : a \in FreeAt(o)}
    BY <1>1, <1>2
  <1>5. H # {} => oob.head[r][o] # None
    <2>1. OneList(oob.next, oob.prev, oob.head[r][o], H, Slots)
      BY SlotList DEF TiersOK, H
    <2> QED BY <2>1, NoHead
  <1>6. ASSUME IsFiniteSet(H) PROVE Cardinality(T) = Cardinality(H)
    <2> DEFINE f == [s \in H |-> <<AddressOf(s), o>>]
    <2>1. f \in [H -> T]
      BY <1>1
    <2>2. \A x, y \in H : f[x] = f[y] => x = y
      BY <1>1, SlotTold
    <2>3. ASSUME NEW b \in T PROVE \E s \in H : f[s] = b
      <3>1. b = <<b[1], o>> /\ b[1] \in FreeAt(o) /\ RegionOf(b[1]) = r
        BY <1>0 DEF FreeAt
      <3>2. SlotOf(b[1]) \in H /\ f[SlotOf(b[1])] = b
        BY <1>2, <3>1
      <3> QED BY <3>2
    <2> HIDE DEF f, T
    <2> QED BY <1>6, <2>1, <2>2, <2>3, SameCount
  <1> QED BY <1>3, <1>4, <1>5, <1>6 DEF H, T

\* A region that lists an order has a free block of it, and the other way round.
LEMMA ListingIs ==
  ASSUME TiersOK, \A b \in bits : Placed(b), NEW o \in Big
  PROVE  Listing(oob, o) = {RegionOf(a) : a \in FreeAt(o)}
  <1>1. ASSUME NEW r \in Regions
        PROVE  r \in Listing(oob, o) <=> r \in {RegionOf(a) : a \in FreeAt(o)}
    <2> DEFINE H == Held(Listed(bits), r, o)
    <2>1. oob.head[r][o] # None <=> H # {}
      <3>1. OneList(oob.next, oob.prev, oob.head[r][o], H, Slots)
        BY SlotList DEF TiersOK
      <3> QED BY <3>1, NoHead
    <2>2. H # {} <=> r \in {RegionOf(a) : a \in FreeAt(o)}
      BY HeldAre
    <2> QED BY <2>1, <2>2 DEF Listing
  <1>2. ASSUME NEW a \in FreeAt(o) PROVE RegionOf(a) \in Regions
    <2>1. <<a, o>> \in bits
      BY FreeIs DEF TiersOK, FreeOf
    <2>2. Placed(<<a, o>>)
      BY <2>1
    <2> QED BY <2>2 DEF Placed, SlotRegion
  <1>3. Listing(oob, o) \subseteq Regions
    BY DEF Listing
  <1> QED BY <1>1, <1>2, <1>3

\* The row and the list of a small order.
LEMMA RowIs ==
  ASSUME NEW q, NEW l, NEW F, RowOK(q, l, F)
  PROVE  /\ ToSet(q \o l) = F /\ IsInjective(q \o l)
         /\ IsFiniteSet(F) /\ Cardinality(F) = Len(q) + Len(l)
  <1> DEFINE c == q \o l
  <1>0. /\ q \in Seq(Nat) /\ l \in Seq(Nat) /\ Unique(q) /\ Unique(l)
        /\ Elems(q) \cap Elems(l) = {} /\ Elems(q) \cup Elems(l) = F
        /\ Len(q) \in Nat /\ Len(l) \in Nat
    BY DEF RowOK
  <1>1. /\ c \in Seq(Nat) /\ Len(c) = Len(q) + Len(l) /\ DOMAIN c = 1 .. Len(q) + Len(l)
        /\ \A i \in 1 .. Len(q) + Len(l) :
             c[i] = IF i <= Len(q) THEN q[i] ELSE l[i - Len(q)]
    BY <1>0, ConcatProperties
  <1> HIDE DEF c
  <1>2. ASSUME NEW i \in 1 .. Len(c)
        PROVE  \/ i <= Len(q) /\ i \in 1 .. Len(q) /\ c[i] = q[i] /\ c[i] \in Elems(q)
               \/ /\ ~(i <= Len(q)) /\ i - Len(q) \in 1 .. Len(l) /\ c[i] = l[i - Len(q)]
                  /\ c[i] \in Elems(l)
    <2>1. CASE i <= Len(q)
      <3>1. i \in 1 .. Len(q) /\ c[i] = q[i]
        BY <1>0, <1>1, <2>1
      <3> QED BY <2>1, <3>1 DEF Elems
    <2>2. CASE ~(i <= Len(q))
      <3>1. i - Len(q) \in 1 .. Len(l) /\ c[i] = l[i - Len(q)]
        BY <1>0, <1>1, <2>2
      <3> QED BY <2>2, <3>1 DEF Elems
    <2> QED BY <2>1, <2>2
  <1>3. ToSet(c) = F
    <2>1. \A x \in ToSet(c) : x \in F
      BY <1>0, <1>1, <1>2 DEF ToSet
    <2>2. ASSUME NEW x \in Elems(q) PROVE x \in ToSet(c)
      <3>1. PICK i \in 1 .. Len(q) : q[i] = x
        BY DEF Elems
      <3>2. i \in DOMAIN c /\ c[i] = x
        BY <1>0, <1>1, <3>1
      <3> QED BY <3>2 DEF ToSet
    <2>3. ASSUME NEW x \in Elems(l) PROVE x \in ToSet(c)
      <3>1. PICK i \in 1 .. Len(l) : l[i] = x
        BY DEF Elems
      <3>2. Len(q) + i \in DOMAIN c /\ c[Len(q) + i] = x
        <4>1. /\ Len(q) + i \in 1 .. Len(q) + Len(l) /\ ~(Len(q) + i <= Len(q))
              /\ (Len(q) + i) - Len(q) = i
          BY <1>0
        <4> QED BY <1>1, <3>1, <4>1
      <3> QED BY <3>2 DEF ToSet
    <2> QED BY <1>0, <2>1, <2>2, <2>3
  <1>4. IsInjective(c)
    <2> SUFFICES ASSUME NEW i \in 1 .. Len(c), NEW j \in 1 .. Len(c), c[i] = c[j] PROVE i = j
      BY <1>1 DEF IsInjective
    <2>1. CASE i <= Len(q) /\ j <= Len(q)
      <3>1. i \in 1 .. Len(q) /\ j \in 1 .. Len(q) /\ q[i] = q[j]
        BY <1>2, <2>1
      <3> QED BY <1>0, <3>1 DEF Unique
    <2>2. CASE ~(i <= Len(q)) /\ ~(j <= Len(q))
      <3>1. /\ i - Len(q) \in 1 .. Len(l) /\ j - Len(q) \in 1 .. Len(l)
            /\ l[i - Len(q)] = l[j - Len(q)]
        BY <1>2, <2>2
      <3>2. i - Len(q) = j - Len(q)
        BY <1>0, <3>1 DEF Unique
      <3> QED BY <1>0, <3>2
    <2> QED BY <1>0, <1>2, <2>1, <2>2
  <1>5. IsFiniteSet(F) /\ Cardinality(F) = Len(q) + Len(l)
    <2> DEFINE A == Elems(q)
               B == Elems(l)
    <2>1. /\ IsFiniteSet(A) /\ Cardinality(A) = Len(q) /\ IsFiniteSet(B)
          /\ Cardinality(B) = Len(l) /\ A \cap B = {} /\ A \cup B = F
      BY <1>0, UniqueCount
    <2> HIDE DEF A, B
    <2>2. /\ IsFiniteSet(A \cup B)
          /\ Cardinality(A \cup B) = Cardinality(A) + Cardinality(B) - Cardinality(A \cap B)
      BY <2>1, FS_Union
    <2>3. Cardinality(A \cap B) = 0
      BY <2>1, FS_EmptySet
    <2>4. Len(q) + Len(l) - 0 = Len(q) + Len(l)
      BY <1>0
    <2>5. A \cup B = F
      BY <2>1
    <2>6. Cardinality(F) = Len(q) + Len(l) - 0
      BY <2>1, <2>2, <2>3, <2>5, Zenon
    <2> QED BY <2>2, <2>4, <2>5, <2>6, Zenon
  <1> QED BY <1>3, <1>4, <1>5 DEF c

\* There are finitely many free blocks, and the big ones have slots.
LEMMA BitsPlaced ==
  ASSUME BuddyInv PROVE TiersOK /\ IsFiniteSet(bits) /\ \A b \in bits : Placed(b)
  <1>0. /\ mapped \in SUBSET Regions /\ Tiling(All, mapped) /\ TiersOK /\ bits \subseteq All
        /\ bits \subseteq Nat \X Orders
    BY DEF BuddyInv, All, TiersOK
  <1>1. \A b \in bits : Placed(b)
    BY <1>0, TilePlaced
  <1>2. bits \subseteq Units \X Orders
    <2> SUFFICES ASSUME NEW b \in bits PROVE b \in Units \X Orders
      OBVIOUS
    <2>1. b \in All /\ Block(b) /\ b = <<b[1], b[2]>>
      BY <1>0 DEF Tiling
    <2>2. b[1] \in Cover(b) /\ b[2] \in Orders
      BY <2>1, CoverIs
    <2>3. b[1] \in UNION {Cover(c) : c \in All}
      BY <2>1, <2>2
    <2>4. b[1] \in Units
      BY <1>0, <2>3 DEF Tiling, Ground
    <2> QED BY <2>1, <2>2, <2>4
  <1>3. IsFiniteSet(Units) /\ IsFiniteSet(Orders)
    <2>1. NumRegions * RegionSize - 1 \in Int
      <3>1. RegionSize \in Int /\ NumRegions \in Int
        BY BuddyAssumption, SizesAre DEF RegionSize
      <3>2. \A x, y \in Int : x * y - 1 \in Int
        OBVIOUS
      <3> QED BY <3>1, <3>2
    <2> QED BY <2>1, BuddyAssumption, FS_Interval DEF Units, Orders
  <1>4. IsFiniteSet(Units \X Orders)
    BY <1>3, FS_Product
  <1> QED BY <1>0, <1>1, <1>2, <1>4, FS_Subset

\* The tier of an order has as many entries as there are free blocks of it.
LEMMA EntriesOf ==
  ASSUME BuddyInv, NEW o \in Orders
  PROVE  EntryCounts[o] = Cardinality({b \in bits : b[2] = o})
  <1> DEFINE B == {b \in bits : b[2] = o}
  <1>0. TiersOK /\ IsFiniteSet(bits) /\ (\A b \in bits : Placed(b)) /\ bits \subseteq Nat \X Orders
    BY BitsPlaced DEF TiersOK
  <1>1. CASE o \in Small
    <2> DEFINE F == FreeOf(bits, o)
               f == [a \in F |-> <<a, o>>]
    <2>1. RowOK(row[o], list[o], F)
      BY <1>0, <1>1 DEF TiersOK
    <2>2. IsFiniteSet(F) /\ Cardinality(F) = Len(row[o]) + Len(list[o])
      BY <2>1, RowIs
    <2>3. f \in [F -> B] /\ \A x, y \in F : f[x] = f[y] => x = y
      BY DEF FreeOf
    <2>4. ASSUME NEW b \in B PROVE \E x \in F : f[x] = b
      <3>1. b = <<b[1], o>> /\ b[1] \in F
        BY <1>0 DEF FreeOf
      <3> QED BY <3>1
    <2> HIDE DEF F, f, B
    <2>5. Cardinality(B) = Cardinality(F)
      BY <2>2, <2>3, <2>4, SameCount
    <2>6. EntryCounts[o] = Len(row[o]) + Len(list[o])
      BY <1>1 DEF EntryCounts
    <2> QED BY <2>2, <2>5, <2>6 DEF B
  <1>2. CASE o \in Big
    <2> DEFINE q == RegionsAt(o)
               M == Listing(oob, o)
               f == [b \in B |-> RegionOf(b[1])]
               c == SlotCounts(o)
    <2>1. q \in Seq(M) /\ Elems(q) = M /\ IsFiniteSet(M)
      BY <1>0, <1>2, RegionsWalked
    <2>2. ToSet(q) = M
      BY <2>1 DEF ToSet, Elems
    <2>3. ASSUME NEW b \in B PROVE f[b] \in M
      <3>1. b[1] \in FreeAt(o)
        BY DEF FreeAt
      <3> QED BY <1>0, <1>2, <3>1, ListingIs
    <2>4. ASSUME NEW r \in M PROVE c[r] = Cardinality({b \in B : f[b] = r})
      <3> DEFINE H == Held(Listed(bits), r, o)
      <3>1. r \in Regions
        BY DEF Listing
      <3>2. c[r] = Len(SlotsAt(r, o))
        BY <3>1 DEF SlotCounts
      <3>3. IsFiniteSet(H) /\ Len(SlotsAt(r, o)) = Cardinality(H)
        BY <1>0, <1>2, <3>1, SlotsWalked
      <3>4. Cardinality({b \in bits : b[2] = o /\ RegionOf(b[1]) = r}) = Cardinality(H)
        BY <1>0, <1>2, <3>1, <3>3, HeldAre
      <3>5. {b \in B : f[b] = r} = {b \in bits : b[2] = o /\ RegionOf(b[1]) = r}
        OBVIOUS
      <3> QED BY <3>2, <3>3, <3>4, <3>5
    <2>5. IsFiniteSet(B)
      BY <1>0, FS_Subset
    <2>6. EntryCounts[o] = Sum(c, M)
      <3>1. o \notin Small
        BY <1>2 DEF Big
      <3>2. EntryCounts[o] = MapThenSumSet(LAMBDA r : c[r], ToSet(q))
        BY <3>1 DEF EntryCounts
      <3> QED BY <2>2, <3>2 DEF Sum
    <2> HIDE DEF B, M, f, c
    <2>a. Parted(B, M, f, c)
      BY <2>3, <2>4 DEF Parted
    <2>7. Cardinality(B) = Sum(c, M)
      BY <2>1, <2>5, <2>a, CountParts
    <2> QED BY <2>6, <2>7 DEF B
  <1> QED BY <1>1, <1>2, OrdersSplit

\* There are as many entries as bits.
LEMMA EntriesAre ==
  ASSUME BuddyInv
  PROVE  LET n == EntryCounts IN Cardinality(bits) = MapThenSumSet(LAMBDA o : n[o], Orders)
  <1> DEFINE n == EntryCounts
             f == [b \in bits |-> b[2]]
  <1>0. IsFiniteSet(bits) /\ bits \subseteq Nat \X Orders
    BY BitsPlaced DEF TiersOK
  <1>1. IsFiniteSet(Orders)
    BY BuddyAssumption, FS_Interval DEF Orders
  <1>2. \A b \in bits : f[b] \in Orders
    BY <1>0
  <1>3. ASSUME NEW o \in Orders PROVE n[o] = Cardinality({b \in bits : f[b] = o})
    <2>1. {b \in bits : f[b] = o} = {b \in bits : b[2] = o}
      OBVIOUS
    <2> QED BY <2>1, EntriesOf
  <1> HIDE DEF n, f
  <1>a. Parted(bits, Orders, f, n)
    BY <1>2, <1>3 DEF Parted
  <1>4. Cardinality(bits) = Sum(n, Orders)
    BY <1>0, <1>1, <1>a, CountParts
  <1> QED BY <1>4 DEF Sum, n

\* What a big order's lists are.
LEMMA BigAgrees ==
  ASSUME BuddyInv, NEW o \in Big
  PROVE  /\ \A i \in 1 .. Len(RegionsAt(o)) :
              LET r     == RegionsAt(o)[i]
                  slots == SlotsAt(r, o)
              IN /\ oob.rprev[r][o] = Before(RegionsAt(o), i)
                 /\ slots # <<>> /\ oob.tail[r][o] = Last(slots)
                 /\ \A j \in 1 .. Len(slots) :
                      /\ oob.prev[slots[j]] = Before(slots, j)
                      /\ AddressOf(slots[j]) \in FreeAt(o)
         /\ IsInjective(RegionsAt(o))
         /\ ToSet(RegionsAt(o)) = {RegionOf(a) : a \in FreeAt(o)}
         /\ \A r \in Regions :
              /\ IsInjective(SlotsAt(r, o))
              /\ {AddressOf(s) : s \in ToSet(SlotsAt(r, o))} =
                   {a \in FreeAt(o) : RegionOf(a) = r}
  <1> DEFINE q == RegionsAt(o)
             M == Listing(oob, o)
  <1>0. TiersOK /\ \A b \in bits : Placed(b)
    BY BitsPlaced
  <1>1. /\ q \in Seq(M) /\ Unique(q) /\ Elems(q) = M
        /\ \A i \in 1 .. Len(q) : oob.rprev[q[i]][o] = Before(q, i)
    BY <1>0, RegionsWalked
  <1>2. IsInjective(q) /\ ToSet(q) = {RegionOf(a) : a \in FreeAt(o)}
    <2>1. DOMAIN q = 1 .. Len(q)
      BY <1>1
    <2>2. M = {RegionOf(a) : a \in FreeAt(o)}
      BY <1>0, ListingIs
    <2> QED BY <1>1, <2>1, <2>2 DEF IsInjective, Unique, ToSet, Elems
  <1>3. ASSUME NEW r \in Regions
        PROVE  /\ SlotsAt(r, o) # <<>> <=> oob.head[r][o] # None
               /\ SlotsAt(r, o) # <<>> => oob.tail[r][o] = Last(SlotsAt(r, o))
               /\ \A j \in 1 .. Len(SlotsAt(r, o)) :
                    /\ oob.prev[SlotsAt(r, o)[j]] = Before(SlotsAt(r, o), j)
                    /\ AddressOf(SlotsAt(r, o)[j]) \in FreeAt(o)
               /\ IsInjective(SlotsAt(r, o))
               /\ {AddressOf(s) : s \in ToSet(SlotsAt(r, o))} =
                    {a \in FreeAt(o) : RegionOf(a) = r}
    <2> DEFINE p == SlotsAt(r, o)
               H == Held(Listed(bits), r, o)
    <2>1. /\ p \in Seq(H) /\ Unique(p) /\ Elems(p) = H
          /\ \A j \in 1 .. Len(p) : oob.prev[p[j]] = Before(p, j)
          /\ p # <<>> <=> oob.head[r][o] # None
          /\ p # <<>> => oob.tail[r][o] = p[Len(p)]
      BY <1>0, SlotsWalked
    <2>2. {AddressOf(s) : s \in H} = {a \in FreeAt(o) : RegionOf(a) = r}
      BY <1>0, HeldAre
    <2> HIDE DEF p, H
    <2>3. DOMAIN p = 1 .. Len(p) /\ \A j \in 1 .. Len(p) : p[j] \in H
      BY <2>1
    <2>4. IsInjective(p) /\ ToSet(p) = H
      BY <2>1, <2>3 DEF IsInjective, Unique, ToSet, Elems
    <2>5. \A j \in 1 .. Len(p) : AddressOf(p[j]) \in FreeAt(o)
      BY <2>2, <2>3
    <2> QED BY <2>1, <2>2, <2>4, <2>5 DEF p, Last
  <1>4. ASSUME NEW i \in 1 .. Len(q) PROVE q[i] \in Regions /\ oob.head[q[i]][o] # None
    BY <1>1 DEF Listing
  <1> HIDE DEF q
  <1>5. ASSUME NEW i \in 1 .. Len(q)
        PROVE  LET r     == q[i]
                   slots == SlotsAt(r, o)
               IN /\ oob.rprev[r][o] = Before(q, i)
                  /\ slots # <<>> /\ oob.tail[r][o] = Last(slots)
                  /\ \A j \in 1 .. Len(slots) :
                       /\ oob.prev[slots[j]] = Before(slots, j)
                       /\ AddressOf(slots[j]) \in FreeAt(o)
    BY <1>1, <1>3, <1>4
  <1> QED BY <1>2, <1>3, <1>5 DEF q

\* A small order's row and list are its free blocks, each once.
LEMMA SmallAgrees ==
  ASSUME BuddyInv, NEW o \in Small
  PROVE  ToSet(row[o] \o list[o]) \subseteq FreeAt(o) /\ IsInjective(row[o] \o list[o])
  <1>1. RowOK(row[o], list[o], FreeOf(bits, o)) /\ FreeAt(o) = FreeOf(bits, o)
    BY FreeIs DEF BuddyInv, TiersOK
  <1> QED BY <1>1, RowIs

\* What check_invariants asserts after a test's calls holds at every step of every call,
\* and the lists hold the free blocks and nothing else: each is found from the head of
\* its list, once, and the links lead back to where they came from.
THEOREM TiersAgreeAlways == Spec => []TiersAgree
  <1>1. ASSUME BuddyInv PROVE TiersAgree
    <2>1. CheckInvariants
      BY <1>1, SmallAgrees, BigAgrees, EntriesAre DEF CheckInvariants
    <2>2. \A o \in Small : IsInjective(row[o] \o list[o])
      BY <1>1, SmallAgrees
    <2>3. \A o \in Big :
            /\ IsInjective(RegionsAt(o))
            /\ ToSet(RegionsAt(o)) = {RegionOf(a) : a \in FreeAt(o)}
            /\ \A r \in Regions :
                 /\ IsInjective(SlotsAt(r, o))
                 /\ {AddressOf(s) : s \in ToSet(SlotsAt(r, o))} =
                      {a \in FreeAt(o) : RegionOf(a) = r}
      BY <1>1, BigAgrees
    <2> QED BY <2>1, <2>2, <2>3 DEF TiersAgree
  <1>2. BuddyInv => TiersAgree
    BY <1>1
  <1> QED BY <1>2, Inductive, PTL

=============================================================================
