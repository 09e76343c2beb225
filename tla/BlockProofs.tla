---------------------------- MODULE BlockProofs -----------------------------
(***************************************************************************)
(* Proofs about what serves blocks in front of the system: the per-thread  *)
(* buddy magazine, the bump arena with its reset, and the cache of         *)
(* mappings.                                                               *)
(***************************************************************************)
EXTENDS BuddyMagazine, ArenaReset, SystemCache, Arithmetic, TLAPS

-----------------------------------------------------------------------------
(***************************************************************************)
(* BuddyMagazine.  Proofs about BuddyMagazine, for any number of threads,  *)
(* instances, stripes and blocks and any capacity of a magazine:           *)
(* BlocksGoHome holds in every reachable state.                            *)
(*                                                                         *)
(* It is not inductive alone.  What keeps a magazine from mixing two       *)
(* instances is that the id of an instance never becomes another's         *)
(* (IdsOwn), that a magazine is emptied before its thread waits for a      *)
(* stripe, and that what comes from the stripe is of the instance the call *)
(* began with although its id may have moved on (WaitsEmpty); what brings  *)
(* a flush home is that all it carries is of one instance (OneFlush).      *)
(***************************************************************************)

\* BuddyConstants, as the hypothesis of the lemmas.
BmConstants ==
  /\ IsFiniteSet(Pieces) /\ Direct \subseteq Pieces /\ RowCap \in Nat
  /\ InstanceOf \in [Pieces -> Instances] /\ HomeOf \in [Pieces -> StripeIds]
  /\ OwnStripe \in [Holders -> StripeIds]

BmTypeOK ==
  /\ ids \in [Instances -> Instances \X {0, 1}]
  /\ magOwner \in [Holders -> {Nobody} \cup (Instances \X {0, 1})]
  /\ magRow \in [Holders -> SUBSET Pieces]
  /\ stripe \in [Instances -> [StripeIds -> SUBSET Pieces]]
  /\ used \subseteq Pieces
  /\ does \in [Holders -> {Rest} \cup ({"refill", "flush"} \X Instances)]
  /\ hand \in [Holders -> SUBSET Pieces]

\* The id of an instance is its own.
IdsOwn == \A i \in Instances : ids[i][1] = i

\* A thread that is about to refill has an empty magazine, under an id of the instance
\* it asks.
WaitsEmpty ==
  \A t \in Holders, i \in Instances :
    does[t] = <<"refill", i>> => magRow[t] = {} /\ magOwner[t][1] = i

\* A thread carries blocks only while it flushes, and all of one instance.
OneFlush ==
  \A t \in Holders : \A p \in hand[t] : does[t] = <<"flush", InstanceOf[p]>>

\* BlocksGoHome in parts: what is in a stripe, what is handed out, what a thread has
\* set aside, and how much.
StripesOwn ==
  \A i \in Instances, s \in StripeIds : \A p \in stripe[i][s] :
    InstanceOf[p] = i /\ HomeOf[p] = s
UsedApart ==
  \A p \in used : /\ p \notin stripe[InstanceOf[p]][HomeOf[p]]
                  /\ \A t \in Holders : p \notin magRow[t] /\ p \notin hand[t]
RowsOwn == \A t \in Holders : \A p \in magRow[t] : magOwner[t][1] = InstanceOf[p]
AsideApart ==
  \A t \in Holders :
    /\ \A p \in magRow[t] \cup hand[t] : p \notin stripe[InstanceOf[p]][HomeOf[p]]
    /\ hand[t] \cap magRow[t] = {}
ThreadsApart ==
  \A t, u \in Holders : t # u =>
    (magRow[t] \cup hand[t]) \cap (magRow[u] \cup hand[u]) = {}
RowsBounded == \A t \in Holders : Cardinality(magRow[t]) <= RowCap

\* The inductive invariant.
BmInv ==
  /\ BmTypeOK /\ IdsOwn /\ WaitsEmpty /\ OneFlush
  /\ StripesOwn /\ UsedApart /\ RowsOwn /\ AsideApart /\ ThreadsApart /\ RowsBounded

-----------------------------------------------------------------------------
(* What a refill takes from the stripe of its thread.                       *)

RefillsNone(t, i) ==
  /\ does[t] = <<"refill", i>> /\ does' = [does EXCEPT ![t] = Rest]
  /\ UNCHANGED <<ids, magOwner, magRow, stripe, used, hand>>

RefillsWith(t, i, batch, p) ==
  /\ does[t] = <<"refill", i>> /\ does' = [does EXCEPT ![t] = Rest]
  /\ batch \subseteq stripe[i][OwnStripe[t]] \ Direct
  /\ stripe' = [stripe EXCEPT ![i][OwnStripe[t]] = @ \ batch]
  /\ used' = used \cup {p}
  /\ magRow' = [magRow EXCEPT ![t] = @ \cup (batch \ {p})]
  /\ UNCHANGED <<ids, magOwner, hand>>

\* A refill finds the stripe empty, or serves one block and keeps the others.
LEMMA RefillCases ==
  ASSUME BmConstants, BmTypeOK, NEW t \in Holders, NEW i \in Instances, Refill(t, i)
  PROVE  \/ RefillsNone(t, i)
         \/ \E batch \in SUBSET Pieces : \E p \in batch : RefillsWith(t, i, batch, p)
  <1>1. CASE stripe[i][OwnStripe[t]] \ Direct = {}
    BY <1>1 DEF Refill, RefillsNone
  <1>2. CASE stripe[i][OwnStripe[t]] \ Direct # {}
    <2>1. stripe[i][OwnStripe[t]] \ Direct \subseteq Pieces
      BY DEF BmTypeOK, BmConstants
    <2>2. PICK batch \in Batches(stripe[i][OwnStripe[t]] \ Direct, RefillCount),
               p \in stripe[i][OwnStripe[t]] \ Direct :
            /\ p \in batch
            /\ stripe' = [stripe EXCEPT ![i][OwnStripe[t]] = @ \ batch]
            /\ used' = used \cup {p}
            /\ magRow' = [magRow EXCEPT ![t] = @ \cup (batch \ {p})]
            /\ UNCHANGED magOwner
      BY <1>2 DEF Refill
    <2>3. batch \subseteq stripe[i][OwnStripe[t]] \ Direct
      BY DEF Batches
    <2>4. RefillsWith(t, i, batch, p)
      BY <2>2, <2>3 DEF Refill, RefillsWith
    <2> QED BY <2>1, <2>2, <2>3, <2>4
  <1> QED BY <1>1, <1>2

-----------------------------------------------------------------------------
(* Every step keeps every part.                                             *)

\* Every step keeps the types.
LEMMA BmTypeOKStep ==
  ASSUME BmConstants, BmInv, BmNext PROVE BmTypeOK'
  <1>h. BmTypeOK
    BY DEF BmInv
  <1>1. ASSUME NEW t \in Holders, NEW i \in Instances, AllocHit(t, i) PROVE BmTypeOK'
    BY <1>1, <1>h DEF AllocHit, Adopt, RowFor, Batches, BmTypeOK
  <1>2. ASSUME NEW t \in Holders, NEW i \in Instances, AllocMiss(t, i) PROVE BmTypeOK'
    BY <1>2, <1>h DEF AllocMiss, Adopt, RowFor, Batches, BmTypeOK
  <1>3. ASSUME NEW t \in Holders, NEW i \in Instances, Refill(t, i) PROVE BmTypeOK'
    <2>1. CASE RefillsNone(t, i)
      BY <2>1, <1>h DEF RefillsNone, BmTypeOK
    <2>2. ASSUME NEW batch \in SUBSET Pieces, NEW p \in batch, RefillsWith(t, i, batch, p)
          PROVE  BmTypeOK'
      BY <2>2, <1>h DEF RefillsWith, BmTypeOK, BmConstants
    <2> QED BY <1>3, <1>h, <2>1, <2>2, RefillCases
  <1>4. ASSUME NEW t \in Holders, NEW i \in Instances, AllocDirect(t, i) PROVE BmTypeOK'
    BY <1>4, <1>h DEF AllocDirect, Adopt, RowFor, Batches, BmTypeOK, BmConstants
  <1>5. ASSUME NEW t \in Holders, NEW p \in Pieces, FreeHit(t, p) PROVE BmTypeOK'
    BY <1>5, <1>h DEF FreeHit, Adopt, RowFor, BmTypeOK, BmConstants
  <1>6. ASSUME NEW t \in Holders, NEW p \in Pieces, FreeFull(t, p) PROVE BmTypeOK'
    BY <1>6, <1>h DEF FreeFull, Adopt, RowFor, BmTypeOK, BmConstants
  <1>7. ASSUME NEW t \in Holders, NEW p \in Pieces, FreeDirect(t, p) PROVE BmTypeOK'
    BY <1>7, <1>h DEF FreeDirect, Adopt, RowFor, BmTypeOK, BmConstants
  <1>8. ASSUME NEW t \in Holders, NEW i \in Instances, NEW s \in StripeIds,
               FlushStripe(t, i, s)
        PROVE  BmTypeOK'
    BY <1>8, <1>h DEF FlushStripe, Group, Returned, BmTypeOK
  <1>9. ASSUME NEW i \in Instances, Invalidate(i) PROVE BmTypeOK'
    BY <1>9, <1>h DEF Invalidate, BmTypeOK
  <1> QED BY <1>1, <1>2, <1>3, <1>4, <1>5, <1>6, <1>7, <1>8, <1>9 DEF BmNext

\* An id only moves on to its instance's second one.
LEMMA IdsOwnStep ==
  ASSUME BmConstants, BmInv, BmNext PROVE IdsOwn'
  <1>h. BmTypeOK /\ IdsOwn
    BY DEF BmInv
  <1>1. ASSUME NEW t \in Holders, NEW i \in Instances, AllocHit(t, i) PROVE IdsOwn'
    BY <1>1, <1>h DEF AllocHit, IdsOwn
  <1>2. ASSUME NEW t \in Holders, NEW i \in Instances, AllocMiss(t, i) PROVE IdsOwn'
    BY <1>2, <1>h DEF AllocMiss, IdsOwn
  <1>3. ASSUME NEW t \in Holders, NEW i \in Instances, Refill(t, i) PROVE IdsOwn'
    <2>1. CASE RefillsNone(t, i)
      BY <2>1, <1>h DEF RefillsNone, IdsOwn
    <2>2. ASSUME NEW batch \in SUBSET Pieces, NEW p \in batch, RefillsWith(t, i, batch, p)
          PROVE  IdsOwn'
      BY <2>2, <1>h DEF RefillsWith, IdsOwn
    <2> QED BY <1>3, <1>h, <2>1, <2>2, RefillCases
  <1>4. ASSUME NEW t \in Holders, NEW i \in Instances, AllocDirect(t, i) PROVE IdsOwn'
    BY <1>4, <1>h DEF AllocDirect, IdsOwn
  <1>5. ASSUME NEW t \in Holders, NEW p \in Pieces, FreeHit(t, p) PROVE IdsOwn'
    BY <1>5, <1>h DEF FreeHit, Adopt, IdsOwn
  <1>6. ASSUME NEW t \in Holders, NEW p \in Pieces, FreeFull(t, p) PROVE IdsOwn'
    BY <1>6, <1>h DEF FreeFull, Adopt, IdsOwn
  <1>7. ASSUME NEW t \in Holders, NEW p \in Pieces, FreeDirect(t, p) PROVE IdsOwn'
    BY <1>7, <1>h DEF FreeDirect, Adopt, RowFor, BmTypeOK, IdsOwn
  <1>8. ASSUME NEW t \in Holders, NEW i \in Instances, NEW s \in StripeIds,
               FlushStripe(t, i, s)
        PROVE  IdsOwn'
    BY <1>8, <1>h DEF FlushStripe, Group, IdsOwn
  <1>9. ASSUME NEW i \in Instances, Invalidate(i) PROVE IdsOwn'
    BY <1>9, <1>h DEF Invalidate, IdsOwn
  <1> QED BY <1>1, <1>2, <1>3, <1>4, <1>5, <1>6, <1>7, <1>8, <1>9 DEF BmNext

\* A miss empties the magazine before its thread waits for the stripe, and no other
\* step of the thread comes before the refill.
LEMMA WaitsEmptyStep ==
  ASSUME BmConstants, BmInv, BmNext PROVE WaitsEmpty'
  <1>h. BmTypeOK /\ IdsOwn /\ WaitsEmpty
    BY DEF BmInv
  <1>1. ASSUME NEW t \in Holders, NEW i \in Instances, AllocHit(t, i) PROVE WaitsEmpty'
    BY <1>1, <1>h DEF AllocHit, Adopt, WaitsEmpty, Rest
  <1>2. ASSUME NEW t \in Holders, NEW i \in Instances, AllocMiss(t, i) PROVE WaitsEmpty'
    <2>1. /\ does'[t] = <<"refill", i>> /\ magRow'[t] = {} /\ magOwner'[t] = ids[i]
          /\ \A u \in Holders \ {t} :
               does'[u] = does[u] /\ magRow'[u] = magRow[u] /\ magOwner'[u] = magOwner[u]
      BY <1>2, <1>h DEF AllocMiss, Adopt, BmTypeOK
    <2>2. \A j \in Instances : <<"refill", i>> = <<"refill", j>> => i = j
      OBVIOUS
    <2> QED BY <1>h, <2>1, <2>2 DEF WaitsEmpty, IdsOwn
  <1>3. ASSUME NEW t \in Holders, NEW i \in Instances, Refill(t, i) PROVE WaitsEmpty'
    <2>1. CASE RefillsNone(t, i)
      BY <2>1, <1>h DEF RefillsNone, BmTypeOK, WaitsEmpty, Rest
    <2>2. ASSUME NEW batch \in SUBSET Pieces, NEW p \in batch, RefillsWith(t, i, batch, p)
          PROVE  WaitsEmpty'
      <3>1. does'[t] = Rest /\ \A u \in Holders \ {t} :
              does'[u] = does[u] /\ magRow'[u] = magRow[u] /\ magOwner'[u] = magOwner[u]
        BY <2>2, <1>h DEF RefillsWith, BmTypeOK
      <3> QED BY <3>1, <1>h DEF WaitsEmpty, Rest
    <2> QED BY <1>3, <1>h, <2>1, <2>2, RefillCases
  <1>4. ASSUME NEW t \in Holders, NEW i \in Instances, AllocDirect(t, i) PROVE WaitsEmpty'
    BY <1>4, <1>h DEF AllocDirect, WaitsEmpty
  <1>5. ASSUME NEW t \in Holders, NEW p \in Pieces, FreeHit(t, p) PROVE WaitsEmpty'
    BY <1>5, <1>h DEF FreeHit, Adopt, WaitsEmpty, Rest
  <1>6. ASSUME NEW t \in Holders, NEW p \in Pieces, FreeFull(t, p) PROVE WaitsEmpty'
    <2>1. does'[t] = <<"flush", InstanceOf[p]>> /\ \A u \in Holders \ {t} :
            does'[u] = does[u] /\ magRow'[u] = magRow[u] /\ magOwner'[u] = magOwner[u]
      BY <1>6, <1>h DEF FreeFull, Adopt, BmTypeOK
    <2> QED BY <2>1, <1>h DEF WaitsEmpty
  <1>7. ASSUME NEW t \in Holders, NEW p \in Pieces, FreeDirect(t, p) PROVE WaitsEmpty'
    BY <1>7, <1>h DEF FreeDirect, WaitsEmpty
  <1>8. ASSUME NEW t \in Holders, NEW i \in Instances, NEW s \in StripeIds,
               FlushStripe(t, i, s)
        PROVE  WaitsEmpty'
    <2>1. does'[t] \in {Rest, <<"flush", i>>} /\ \A u \in Holders \ {t} : does'[u] = does[u]
      BY <1>8, <1>h DEF FlushStripe
    <2>2. magRow' = magRow /\ magOwner' = magOwner
      BY <1>8 DEF FlushStripe
    <2> QED BY <2>1, <2>2, <1>h DEF WaitsEmpty, Rest
  <1>9. ASSUME NEW i \in Instances, Invalidate(i) PROVE WaitsEmpty'
    BY <1>9, <1>h DEF Invalidate, WaitsEmpty
  <1> QED BY <1>1, <1>2, <1>3, <1>4, <1>5, <1>6, <1>7, <1>8, <1>9 DEF BmNext

\* Only a full magazine's flush fills a hand, from a row of one instance.
LEMMA OneFlushStep ==
  ASSUME BmConstants, BmInv, BmNext PROVE OneFlush'
  <1>h. BmTypeOK /\ OneFlush /\ RowsOwn /\ IdsOwn
    BY DEF BmInv
  <1>1. ASSUME NEW t \in Holders, NEW i \in Instances, AllocHit(t, i) PROVE OneFlush'
    BY <1>1, <1>h DEF AllocHit, OneFlush
  <1>2. ASSUME NEW t \in Holders, NEW i \in Instances, AllocMiss(t, i) PROVE OneFlush'
    BY <1>2, <1>h DEF AllocMiss, OneFlush, Rest
  <1>3. ASSUME NEW t \in Holders, NEW i \in Instances, Refill(t, i) PROVE OneFlush'
    <2>1. CASE RefillsNone(t, i)
      BY <2>1, <1>h DEF RefillsNone, OneFlush
    <2>2. ASSUME NEW batch \in SUBSET Pieces, NEW p \in batch, RefillsWith(t, i, batch, p)
          PROVE  OneFlush'
      BY <2>2, <1>h DEF RefillsWith, OneFlush
    <2> QED BY <1>3, <1>h, <2>1, <2>2, RefillCases
  <1>4. ASSUME NEW t \in Holders, NEW i \in Instances, AllocDirect(t, i) PROVE OneFlush'
    BY <1>4, <1>h DEF AllocDirect, OneFlush
  <1>5. ASSUME NEW t \in Holders, NEW p \in Pieces, FreeHit(t, p) PROVE OneFlush'
    BY <1>5, <1>h DEF FreeHit, Adopt, OneFlush
  <1>6. ASSUME NEW t \in Holders, NEW p \in Pieces, FreeFull(t, p) PROVE OneFlush'
    <2>1. PICK taken \in SUBSET RowFor(t, InstanceOf[p]) :
            hand' = [hand EXCEPT ![t] = taken \cup {p}]
      BY <1>6 DEF FreeFull
    <2>2. \A q \in hand'[t] : InstanceOf[q] = InstanceOf[p]
      BY <2>1, <1>h DEF RowFor, RowsOwn, IdsOwn, BmTypeOK, BmConstants
    <2>3. does'[t] = <<"flush", InstanceOf[p]>> /\ \A u \in Holders \ {t} :
            does'[u] = does[u] /\ hand'[u] = hand[u]
      BY <1>6, <2>1, <1>h DEF FreeFull, BmTypeOK
    <2> QED BY <2>2, <2>3, <1>h DEF OneFlush
  <1>7. ASSUME NEW t \in Holders, NEW p \in Pieces, FreeDirect(t, p) PROVE OneFlush'
    BY <1>7, <1>h DEF FreeDirect, Adopt, RowFor, BmTypeOK, OneFlush
  <1>8. ASSUME NEW t \in Holders, NEW i \in Instances, NEW s \in StripeIds,
               FlushStripe(t, i, s)
        PROVE  OneFlush'
    BY <1>8, <1>h DEF FlushStripe, Group, OneFlush
  <1>9. ASSUME NEW i \in Instances, Invalidate(i) PROVE OneFlush'
    BY <1>9, <1>h DEF Invalidate, OneFlush
  <1> QED BY <1>1, <1>2, <1>3, <1>4, <1>5, <1>6, <1>7, <1>8, <1>9 DEF BmNext

\* A stripe gains what a flush or a direct free brings home, and nothing else.
LEMMA StripesOwnStep ==
  ASSUME BmConstants, BmInv, BmNext PROVE StripesOwn'
  <1>h. BmTypeOK /\ StripesOwn /\ OneFlush
    BY DEF BmInv
  <1>1. ASSUME NEW t \in Holders, NEW i \in Instances, AllocHit(t, i) PROVE StripesOwn'
    BY <1>1, <1>h DEF AllocHit, StripesOwn
  <1>2. ASSUME NEW t \in Holders, NEW i \in Instances, AllocMiss(t, i) PROVE StripesOwn'
    BY <1>2, <1>h DEF AllocMiss, StripesOwn
  <1>3. ASSUME NEW t \in Holders, NEW i \in Instances, Refill(t, i) PROVE StripesOwn'
    <2>1. CASE RefillsNone(t, i)
      BY <2>1, <1>h DEF RefillsNone, StripesOwn
    <2>2. ASSUME NEW batch \in SUBSET Pieces, NEW p \in batch, RefillsWith(t, i, batch, p)
          PROVE  StripesOwn'
      BY <2>2, <1>h DEF RefillsWith, StripesOwn
    <2> QED BY <1>3, <1>h, <2>1, <2>2, RefillCases
  <1>4. ASSUME NEW t \in Holders, NEW i \in Instances, AllocDirect(t, i) PROVE StripesOwn'
    BY <1>4, <1>h DEF AllocDirect, StripesOwn
  <1>5. ASSUME NEW t \in Holders, NEW p \in Pieces, FreeHit(t, p) PROVE StripesOwn'
    BY <1>5, <1>h DEF FreeHit, Adopt, StripesOwn
  <1>6. ASSUME NEW t \in Holders, NEW p \in Pieces, FreeFull(t, p) PROVE StripesOwn'
    BY <1>6, <1>h DEF FreeFull, Adopt, StripesOwn
  <1>7. ASSUME NEW t \in Holders, NEW p \in Pieces, FreeDirect(t, p) PROVE StripesOwn'
    BY <1>7, <1>h DEF FreeDirect, Adopt, RowFor, BmTypeOK, StripesOwn
  <1>8. ASSUME NEW t \in Holders, NEW i \in Instances, NEW s \in StripeIds,
               FlushStripe(t, i, s)
        PROVE  StripesOwn'
    BY <1>8, <1>h DEF FlushStripe, Group, Returned, BmTypeOK, StripesOwn, OneFlush
  <1>9. ASSUME NEW i \in Instances, Invalidate(i) PROVE StripesOwn'
    BY <1>9, <1>h DEF Invalidate, StripesOwn
  <1> QED BY <1>1, <1>2, <1>3, <1>4, <1>5, <1>6, <1>7, <1>8, <1>9 DEF BmNext

\* What is handed out was in one place, which it leaves.
LEMMA UsedApartStep ==
  ASSUME BmConstants, BmInv, BmNext PROVE UsedApart'
  <1>h. BmTypeOK /\ UsedApart /\ StripesOwn /\ AsideApart /\ ThreadsApart /\ OneFlush
    BY DEF BmInv
  <1>1. ASSUME NEW t \in Holders, NEW i \in Instances, AllocHit(t, i) PROVE UsedApart'
    BY <1>1, <1>h
    DEF AllocHit, Adopt, RowFor, Batches, BmTypeOK, UsedApart, AsideApart, ThreadsApart
  <1>2. ASSUME NEW t \in Holders, NEW i \in Instances, AllocMiss(t, i) PROVE UsedApart'
    BY <1>2, <1>h DEF AllocMiss, Adopt, UsedApart
  <1>3. ASSUME NEW t \in Holders, NEW i \in Instances, Refill(t, i) PROVE UsedApart'
    <2>1. CASE RefillsNone(t, i)
      BY <2>1, <1>h DEF RefillsNone, UsedApart
    <2>2. ASSUME NEW batch \in SUBSET Pieces, NEW p \in batch, RefillsWith(t, i, batch, p)
          PROVE  UsedApart'
      BY <2>2, <1>h
      DEF RefillsWith, BmTypeOK, UsedApart, StripesOwn, AsideApart, BmConstants
    <2> QED BY <1>3, <1>h, <2>1, <2>2, RefillCases
  <1>4. ASSUME NEW t \in Holders, NEW i \in Instances, AllocDirect(t, i) PROVE UsedApart'
    BY <1>4, <1>h
    DEF AllocDirect, Adopt, RowFor, Batches, BmTypeOK, UsedApart, StripesOwn,
        AsideApart, BmConstants
  <1>5. ASSUME NEW t \in Holders, NEW p \in Pieces, FreeHit(t, p) PROVE UsedApart'
    BY <1>5, <1>h DEF FreeHit, Adopt, RowFor, BmTypeOK, UsedApart
  <1>6. ASSUME NEW t \in Holders, NEW p \in Pieces, FreeFull(t, p) PROVE UsedApart'
    BY <1>6, <1>h DEF FreeFull, Adopt, RowFor, BmTypeOK, UsedApart
  <1>7. ASSUME NEW t \in Holders, NEW p \in Pieces, FreeDirect(t, p) PROVE UsedApart'
    BY <1>7, <1>h DEF FreeDirect, Adopt, RowFor, BmTypeOK, UsedApart
  <1>8. ASSUME NEW t \in Holders, NEW i \in Instances, NEW s \in StripeIds,
               FlushStripe(t, i, s)
        PROVE  UsedApart'
    BY <1>8, <1>h DEF FlushStripe, Group, Returned, BmTypeOK, UsedApart
  <1>9. ASSUME NEW i \in Instances, Invalidate(i) PROVE UsedApart'
    BY <1>9, <1>h DEF Invalidate, UsedApart
  <1> QED BY <1>1, <1>2, <1>3, <1>4, <1>5, <1>6, <1>7, <1>8, <1>9 DEF BmNext

\* A row is read for an instance only under an id of that instance.
LEMMA RowsOwnStep ==
  ASSUME BmConstants, BmInv, BmNext PROVE RowsOwn'
  <1>h. BmTypeOK /\ IdsOwn /\ RowsOwn /\ WaitsEmpty /\ StripesOwn
    BY DEF BmInv
  <1>1. ASSUME NEW t \in Holders, NEW i \in Instances, AllocHit(t, i) PROVE RowsOwn'
    BY <1>1, <1>h DEF AllocHit, Adopt, RowFor, RowsOwn
  <1>2. ASSUME NEW t \in Holders, NEW i \in Instances, AllocMiss(t, i) PROVE RowsOwn'
    BY <1>2, <1>h DEF AllocMiss, Adopt, RowFor, Batches, BmTypeOK, RowsOwn
  <1>3. ASSUME NEW t \in Holders, NEW i \in Instances, Refill(t, i) PROVE RowsOwn'
    <2>1. CASE RefillsNone(t, i)
      BY <2>1, <1>h DEF RefillsNone, RowsOwn
    <2>2. ASSUME NEW batch \in SUBSET Pieces, NEW p \in batch, RefillsWith(t, i, batch, p)
          PROVE  RowsOwn'
      <3>1. batch \subseteq stripe[i][OwnStripe[t]] /\ magOwner[t][1] = i
        BY <2>2, <1>h DEF RefillsWith, WaitsEmpty
      <3>2. \A q \in batch : InstanceOf[q] = i
        BY <3>1, <1>h DEF StripesOwn, BmConstants
      <3>3. magRow' = [magRow EXCEPT ![t] = @ \cup (batch \ {p})] /\ magOwner' = magOwner
        BY <2>2 DEF RefillsWith
      <3> QED BY <3>1, <3>2, <3>3, <1>h DEF RowsOwn
    <2> QED BY <1>3, <1>h, <2>1, <2>2, RefillCases
  <1>4. ASSUME NEW t \in Holders, NEW i \in Instances, AllocDirect(t, i) PROVE RowsOwn'
    BY <1>4, <1>h DEF AllocDirect, RowsOwn
  <1>5. ASSUME NEW t \in Holders, NEW p \in Pieces, FreeHit(t, p) PROVE RowsOwn'
    BY <1>5, <1>h DEF FreeHit, Adopt, RowFor, BmTypeOK, IdsOwn, RowsOwn, BmConstants
  <1>6. ASSUME NEW t \in Holders, NEW p \in Pieces, FreeFull(t, p) PROVE RowsOwn'
    BY <1>6, <1>h DEF FreeFull, Adopt, RowFor, BmTypeOK, RowsOwn
  <1>7. ASSUME NEW t \in Holders, NEW p \in Pieces, FreeDirect(t, p) PROVE RowsOwn'
    BY <1>7, <1>h DEF FreeDirect, RowsOwn
  <1>8. ASSUME NEW t \in Holders, NEW i \in Instances, NEW s \in StripeIds,
               FlushStripe(t, i, s)
        PROVE  RowsOwn'
    BY <1>8, <1>h DEF FlushStripe, RowsOwn
  <1>9. ASSUME NEW i \in Instances, Invalidate(i) PROVE RowsOwn'
    BY <1>9, <1>h DEF Invalidate, RowsOwn
  <1> QED BY <1>1, <1>2, <1>3, <1>4, <1>5, <1>6, <1>7, <1>8, <1>9 DEF BmNext

\* What a row or a hand gains was in a stripe it leaves, or in use.
LEMMA AsideApartStep ==
  ASSUME BmConstants, BmInv, BmNext PROVE AsideApart'
  <1>h. BmTypeOK /\ AsideApart /\ UsedApart /\ StripesOwn /\ OneFlush /\ ThreadsApart
    BY DEF BmInv
  <1>1. ASSUME NEW t \in Holders, NEW i \in Instances, AllocHit(t, i) PROVE AsideApart'
    BY <1>1, <1>h DEF AllocHit, Adopt, RowFor, AsideApart
  <1>2. ASSUME NEW t \in Holders, NEW i \in Instances, AllocMiss(t, i) PROVE AsideApart'
    BY <1>2, <1>h DEF AllocMiss, Adopt, AsideApart
  <1>3. ASSUME NEW t \in Holders, NEW i \in Instances, Refill(t, i) PROVE AsideApart'
    <2>1. CASE RefillsNone(t, i)
      BY <2>1, <1>h DEF RefillsNone, AsideApart
    <2>2. ASSUME NEW batch \in SUBSET Pieces, NEW p \in batch, RefillsWith(t, i, batch, p)
          PROVE  AsideApart'
      BY <2>2, <1>h
      DEF RefillsWith, BmTypeOK, AsideApart, UsedApart, StripesOwn, BmConstants
    <2> QED BY <1>3, <1>h, <2>1, <2>2, RefillCases
  <1>4. ASSUME NEW t \in Holders, NEW i \in Instances, AllocDirect(t, i) PROVE AsideApart'
    BY <1>4, <1>h DEF AllocDirect, AsideApart
  <1>5. ASSUME NEW t \in Holders, NEW p \in Pieces, FreeHit(t, p) PROVE AsideApart'
    BY <1>5, <1>h DEF FreeHit, Adopt, RowFor, BmTypeOK, AsideApart, UsedApart
  <1>6. ASSUME NEW t \in Holders, NEW p \in Pieces, FreeFull(t, p) PROVE AsideApart'
    BY <1>6, <1>h DEF FreeFull, Adopt, RowFor, BmTypeOK, AsideApart, UsedApart
  <1>7. ASSUME NEW t \in Holders, NEW p \in Pieces, FreeDirect(t, p) PROVE AsideApart'
    BY <1>7, <1>h DEF FreeDirect, Adopt, RowFor, BmTypeOK, AsideApart, UsedApart
  <1>8. ASSUME NEW t \in Holders, NEW i \in Instances, NEW s \in StripeIds,
               FlushStripe(t, i, s)
        PROVE  AsideApart'
    <2>1. /\ hand' = [hand EXCEPT ![t] = @ \ Group(t, s)] /\ magRow' = magRow
          /\ stripe' = [stripe EXCEPT ![i][s] = @ \cup Group(t, s)]
      BY <1>8 DEF FlushStripe, Returned
    <2>2. \A q \in Group(t, s) : \A u \in Holders : q \notin magRow'[u] /\ q \notin hand'[u]
      BY <2>1, <1>h DEF Group, AsideApart, ThreadsApart, BmTypeOK
    <2>3. \A u \in Holders : hand'[u] \subseteq hand[u]
      BY <2>1, <1>h
    <2>4. \A j \in Instances, r \in StripeIds : \A q \in stripe'[j][r] :
            q \in stripe[j][r] \/ q \in Group(t, s)
      BY <2>1, <1>h
    <2> QED BY <2>1, <2>2, <2>3, <2>4, <1>h DEF AsideApart
  <1>9. ASSUME NEW i \in Instances, Invalidate(i) PROVE AsideApart'
    BY <1>9, <1>h DEF Invalidate, AsideApart
  <1> QED BY <1>1, <1>2, <1>3, <1>4, <1>5, <1>6, <1>7, <1>8, <1>9 DEF BmNext

\* No step moves a block from one thread to another.
LEMMA ThreadsApartStep ==
  ASSUME BmConstants, BmInv, BmNext PROVE ThreadsApart'
  <1>h. BmTypeOK /\ ThreadsApart /\ UsedApart /\ StripesOwn /\ AsideApart /\ OneFlush
    BY DEF BmInv
  <1>1. ASSUME NEW t \in Holders, NEW i \in Instances, AllocHit(t, i) PROVE ThreadsApart'
    BY <1>1, <1>h DEF AllocHit, Adopt, RowFor, ThreadsApart
  <1>2. ASSUME NEW t \in Holders, NEW i \in Instances, AllocMiss(t, i) PROVE ThreadsApart'
    BY <1>2, <1>h DEF AllocMiss, Adopt, ThreadsApart
  <1>3. ASSUME NEW t \in Holders, NEW i \in Instances, Refill(t, i) PROVE ThreadsApart'
    <2>1. CASE RefillsNone(t, i)
      BY <2>1, <1>h DEF RefillsNone, ThreadsApart
    <2>2. ASSUME NEW batch \in SUBSET Pieces, NEW p \in batch, RefillsWith(t, i, batch, p)
          PROVE  ThreadsApart'
      BY <2>2, <1>h
      DEF RefillsWith, BmTypeOK, ThreadsApart, StripesOwn, AsideApart, BmConstants
    <2> QED BY <1>3, <1>h, <2>1, <2>2, RefillCases
  <1>4. ASSUME NEW t \in Holders, NEW i \in Instances, AllocDirect(t, i) PROVE ThreadsApart'
    BY <1>4, <1>h DEF AllocDirect, ThreadsApart
  <1>5. ASSUME NEW t \in Holders, NEW p \in Pieces, FreeHit(t, p) PROVE ThreadsApart'
    BY <1>5, <1>h DEF FreeHit, Adopt, RowFor, BmTypeOK, ThreadsApart, UsedApart
  <1>6. ASSUME NEW t \in Holders, NEW p \in Pieces, FreeFull(t, p) PROVE ThreadsApart'
    BY <1>6, <1>h DEF FreeFull, Adopt, RowFor, BmTypeOK, ThreadsApart, UsedApart
  <1>7. ASSUME NEW t \in Holders, NEW p \in Pieces, FreeDirect(t, p) PROVE ThreadsApart'
    BY <1>7, <1>h DEF FreeDirect, Adopt, RowFor, BmTypeOK, ThreadsApart
  <1>8. ASSUME NEW t \in Holders, NEW i \in Instances, NEW s \in StripeIds,
               FlushStripe(t, i, s)
        PROVE  ThreadsApart'
    BY <1>8, <1>h DEF FlushStripe, Group, ThreadsApart
  <1>9. ASSUME NEW i \in Instances, Invalidate(i) PROVE ThreadsApart'
    BY <1>9, <1>h DEF Invalidate, ThreadsApart
  <1> QED BY <1>1, <1>2, <1>3, <1>4, <1>5, <1>6, <1>7, <1>8, <1>9 DEF BmNext

\* A part of a magazine is no larger than the magazine.
LEMMA RowsFinite ==
  ASSUME BmConstants, BmTypeOK
  PROVE  \A t \in Holders : \A r \in SUBSET magRow[t] :
           /\ IsFiniteSet(r) /\ Cardinality(r) \in Nat
           /\ IsFiniteSet(magRow[t]) /\ Cardinality(r) <= Cardinality(magRow[t])
  <1> SUFFICES ASSUME NEW t \in Holders, NEW r \in SUBSET magRow[t]
               PROVE  /\ IsFiniteSet(r) /\ Cardinality(r) \in Nat
                      /\ IsFiniteSet(magRow[t]) /\ Cardinality(r) <= Cardinality(magRow[t])
    OBVIOUS
  <1>1. IsFiniteSet(magRow[t])
    BY FS_Subset DEF BmConstants, BmTypeOK
  <1> QED BY <1>1, FS_Subset, FS_CardinalityType

\* A magazine grows by one block while it has room, and by half its capacity when it
\* is empty.
LEMMA RowsBoundedStep ==
  ASSUME BmConstants, BmInv, BmNext PROVE RowsBounded'
  <1>h. BmTypeOK /\ RowsBounded /\ WaitsEmpty
    BY DEF BmInv
  <1>s. ASSUME NEW t \in Holders, magRow'[t] \subseteq magRow[t],
               \A u \in Holders \ {t} : magRow'[u] = magRow[u]
        PROVE  RowsBounded'
    <2>1. ASSUME NEW u \in Holders PROVE Cardinality(magRow'[u]) <= RowCap
      <3>1. magRow'[u] \in SUBSET magRow[u]
        BY <1>s
      <3>2. Cardinality(magRow'[u]) \in Nat /\ Cardinality(magRow[u]) \in Nat
            /\ Cardinality(magRow'[u]) <= Cardinality(magRow[u])
        BY <3>1, <1>h, RowsFinite
      <3> QED BY <3>2, <1>h DEF RowsBounded, BmConstants
    <2> QED BY <2>1 DEF RowsBounded
  <1>r. \A t \in Holders, i \in Instances : RowFor(t, i) \subseteq magRow[t]
    BY DEF RowFor
  <1>1. ASSUME NEW t \in Holders, NEW i \in Instances, AllocHit(t, i) PROVE RowsBounded'
    BY <1>1, <1>h, <1>r, <1>s DEF AllocHit, Adopt
  <1>2. ASSUME NEW t \in Holders, NEW i \in Instances, AllocMiss(t, i) PROVE RowsBounded'
    BY <1>2, <1>h, <1>s DEF AllocMiss, Adopt
  <1>3. ASSUME NEW t \in Holders, NEW i \in Instances, Refill(t, i) PROVE RowsBounded'
    <2> DEFINE free == stripe[i][OwnStripe[t]] \ Direct
    <2>1. CASE magRow' = magRow
      BY <2>1, <1>h DEF RowsBounded
    <2>2. ASSUME NEW batch \in Batches(free, RefillCount), NEW p \in batch,
                 magRow' = [magRow EXCEPT ![t] = @ \cup (batch \ {p})]
          PROVE  RowsBounded'
      <3>1. magRow[t] = {}
        BY <1>3, <1>h DEF Refill, WaitsEmpty
      <3>2. batch \subseteq free /\ IsFiniteSet(free) /\ IsFiniteSet(batch)
        <4>1. batch \subseteq free /\ free \subseteq Pieces
          BY <1>h DEF Batches, BmTypeOK, BmConstants
        <4> QED BY <4>1, FS_Subset DEF BmConstants
      <3>3. RefillCount \in Nat /\ RefillCount <= RowCap + 1
        BY DEF RefillCount, BmConstants
      <3>4. Cardinality(batch) \in Nat /\ Cardinality(free) \in Nat
        BY <3>2, FS_CardinalityType
      <3>5. Cardinality(batch) <= RefillCount
        BY <3>3, <3>4 DEF Batches
      <3>6. Cardinality(batch \ {p}) = Cardinality(batch) - 1
        BY <3>2, FS_RemoveElement
      <3>7. magRow'[t] = batch \ {p} /\ \A u \in Holders \ {t} : magRow'[u] = magRow[u]
        BY <2>2, <3>1, <1>h DEF BmTypeOK
      <3>8. Cardinality(magRow'[t]) <= RowCap
        BY <3>3, <3>4, <3>5, <3>6, <3>7 DEF BmConstants
      <3> QED BY <3>7, <3>8, <1>h DEF RowsBounded
    <2> QED BY <1>3, <2>1, <2>2 DEF Refill
  <1>4. ASSUME NEW t \in Holders, NEW p \in Pieces, FreeHit(t, p) PROVE RowsBounded'
    <2> DEFINE row == RowFor(t, InstanceOf[p])
    <2>1. row \in SUBSET magRow[t]
      BY DEF RowFor
    <2>2. IsFiniteSet(row) /\ Cardinality(row) \in Nat
      BY <2>1, <1>h, RowsFinite
    <2>3. Cardinality(row) < RowCap /\ magRow' = [magRow EXCEPT ![t] = row \cup {p}]
      BY <1>4 DEF FreeHit, Adopt
    <2>4. Cardinality(row \cup {p}) \in {Cardinality(row), Cardinality(row) + 1}
      BY <2>2, FS_AddElement
    <2>5. magRow'[t] = row \cup {p} /\ \A u \in Holders \ {t} : magRow'[u] = magRow[u]
      BY <2>3, <1>h DEF BmTypeOK
    <2>6. Cardinality(magRow'[t]) <= RowCap
      <3> DEFINE n == Cardinality(row)
      <3>1. Cardinality(magRow'[t]) \in {n, n + 1}
        BY <2>4, <2>5
      <3>2. n \in Nat /\ n < RowCap /\ RowCap \in Nat
        BY <2>2, <2>3 DEF BmConstants
      <3> HIDE DEF n
      <3> QED BY <3>1, <3>2
    <2> QED BY <2>5, <2>6, <1>h DEF RowsBounded
  <1>5. ASSUME NEW t \in Holders, NEW p \in Pieces, FreeFull(t, p) PROVE RowsBounded'
    <2>1. PICK taken \in SUBSET RowFor(t, InstanceOf[p]) :
            magRow' = [magRow EXCEPT ![t] = RowFor(t, InstanceOf[p]) \ taken]
      BY <1>5 DEF FreeFull, Adopt
    <2>2. magRow'[t] \subseteq magRow[t]
      BY <2>1, <1>h DEF RowFor
    <2> QED BY <2>1, <2>2, <1>h, <1>s
  <1>6. ASSUME magRow' = magRow PROVE RowsBounded'
    BY <1>6, <1>h DEF RowsBounded
  <1>7. ASSUME NEW t \in Holders, NEW i \in Instances, AllocDirect(t, i) PROVE RowsBounded'
    BY <1>7, <1>6 DEF AllocDirect
  <1>8. ASSUME NEW t \in Holders, NEW p \in Pieces, FreeDirect(t, p) PROVE RowsBounded'
    BY <1>8, <1>6 DEF FreeDirect
  <1>9. ASSUME NEW t \in Holders, NEW i \in Instances, NEW s \in StripeIds,
               FlushStripe(t, i, s)
        PROVE  RowsBounded'
    BY <1>9, <1>6 DEF FlushStripe
  <1>10. ASSUME NEW i \in Instances, Invalidate(i) PROVE RowsBounded'
    BY <1>10, <1>6 DEF Invalidate
  <1> QED BY <1>1, <1>2, <1>3, <1>4, <1>5, <1>7, <1>8, <1>9, <1>10 DEF BmNext

-----------------------------------------------------------------------------
(* The theorems.                                                            *)

\* BmInv holds in every reachable state.
THEOREM Inductive ==
  BmSpec => []BmInv
  <1>0. BmConstants
    BY BuddyConstants DEF BmConstants
  <1>1. BmInit => BmInv
    <2> SUFFICES ASSUME BmInit PROVE BmInv
      OBVIOUS
    <2>1. BmTypeOK
      BY DEF BmInit, BmTypeOK
    <2>2. RowsBounded
      BY <1>0, FS_EmptySet DEF BmInit, RowsBounded, BmConstants
    <2>3. IdsOwn /\ WaitsEmpty /\ OneFlush
      BY DEF BmInit, IdsOwn, WaitsEmpty, OneFlush, Rest
    <2>4. StripesOwn /\ UsedApart /\ RowsOwn /\ AsideApart /\ ThreadsApart
      BY DEF BmInit, StripesOwn, UsedApart, RowsOwn, AsideApart, ThreadsApart
    <2> QED BY <2>1, <2>2, <2>3, <2>4 DEF BmInv
  <1>2. BmInv /\ [BmNext]_bmVars => BmInv'
    <2> SUFFICES ASSUME BmInv, [BmNext]_bmVars PROVE BmInv'
      OBVIOUS
    <2>1. CASE BmNext
      BY <1>0, <2>1, BmTypeOKStep, IdsOwnStep, WaitsEmptyStep, OneFlushStep, StripesOwnStep,
         UsedApartStep, RowsOwnStep, AsideApartStep, ThreadsApartStep, RowsBoundedStep
      DEF BmInv
    <2>2. CASE UNCHANGED bmVars
      BY <2>2
      DEF bmVars, BmInv, BmTypeOK, IdsOwn, WaitsEmpty, OneFlush, StripesOwn, UsedApart,
          RowsOwn, AsideApart, ThreadsApart, RowsBounded
    <2> QED BY <2>1, <2>2
  <1> QED BY <1>1, <1>2, PTL DEF BmSpec

\* Whatever the threads allocate and free, from whichever instances, however often
\* these are latched and their magazines forgotten: a block is in one place only,
\* a magazine holds blocks of one instance and no more than it may, and what is given
\* back arrives at the stripe it was carved from.
THEOREM BlocksGoHomeAlways ==
  BmSpec => []BlocksGoHome
  <1>1. BmInv => BlocksGoHome
    <2> SUFFICES ASSUME BmInv PROVE BlocksGoHome
      OBVIOUS
    <2>h. /\ BmTypeOK /\ StripesOwn /\ UsedApart /\ RowsOwn /\ AsideApart /\ ThreadsApart
          /\ RowsBounded
      BY DEF BmInv
    <2>1. ASSUME NEW i \in Instances, NEW s \in StripeIds, NEW p \in stripe[i][s]
          PROVE  InstanceOf[p] = i /\ HomeOf[p] = s /\ p \notin used
      BY <2>h DEF StripesOwn, UsedApart
    <2>2. ASSUME NEW t \in Holders
          PROVE  /\ \A p \in magRow[t] : p \notin used /\ magOwner[t][1] = InstanceOf[p]
                 /\ hand[t] \cap used = {} /\ Cardinality(magRow[t]) <= RowCap
      BY <2>h DEF UsedApart, RowsOwn, RowsBounded
    <2>3. ASSUME NEW t \in Holders
          PROVE  /\ \A p \in magRow[t] \cup hand[t] : p \notin stripe[InstanceOf[p]][HomeOf[p]]
                 /\ hand[t] \cap magRow[t] = {}
                 /\ \A u \in Holders \ {t} :
                      (magRow[t] \cup hand[t]) \cap (magRow[u] \cup hand[u]) = {}
      BY <2>h DEF AsideApart, ThreadsApart
    <2> QED BY <2>1, <2>2, <2>3 DEF BlocksGoHome
  <1> QED BY <1>1, Inductive, PTL

-----------------------------------------------------------------------------
(***************************************************************************)
(* ArenaReset.  Whatever a thread kept from before a reset is of an        *)
(* earlier epoch, or it is of this one and its cells are apart from every  *)
(* other thread's and below what its chunk has used up; so a cell is       *)
(* served once an epoch.                                                   *)
(***************************************************************************)

Spans == [epoch: Nat, chunk: Chunks \cup {NoOne}, cursor: 0 .. Cells, end: 0 .. Cells]
Calls == [seen: Nat, chunk: Chunks \cup {NoOne}, cell: 0 .. Cells]
ArTypeOK ==
  /\ epoch \in Nat /\ exhausted \in BOOLEAN /\ published \in Chunks \cup {NoOne}
  /\ mapped \in 0 .. MaxChunks /\ current \in Chunks
  /\ filled \in [Chunks -> 0 .. Cells]
  /\ lock \in ArenaThreads \cup {NoOne, Resetter}
  /\ span \in [ArenaThreads -> Spans]
  /\ calling \in [ArenaThreads -> {"idle", "span", "carve", "slow", "publish"}]
  /\ call \in [ArenaThreads -> Calls]
  /\ resets \in Nat /\ resetAt \in {"idle", "rewind", "republish", "unlatch"}
  /\ rewound \in 0 .. MaxChunks
  /\ began \in [ArenaThreads -> Int]
  /\ served \in [Chunks -> [1 .. Cells -> Nat]]

\* The Mutex is with the thread that is about to publish, or with the reset.
MutexHeld ==
  /\ \A t \in ArenaThreads : calling[t] = "publish" <=> lock = t
  /\ resetAt # "idle" <=> lock = Resetter

\* Nothing is in use of a chunk that is not mapped, and only mapped ones are known.
ChunksMapped ==
  /\ mapped = 0 \/ current <= mapped
  /\ published # NoOne => published <= mapped
  /\ \A t \in ArenaThreads :
       /\ calling[t] = "carve" => call[t].chunk \in Chunks /\ call[t].chunk <= mapped
       /\ calling[t] = "publish" => mapped >= 1
  /\ \A c \in Chunks : c > mapped => filled[c] = 0

\* Epochs only rise, and a call that counts has read the one in force.
EpochsPast ==
  \A t \in ArenaThreads :
    /\ span[t].epoch <= epoch /\ call[t].seen <= epoch
    /\ began[t] <= resets
    /\ began[t] = resets => resetAt = "idle" /\ call[t].seen = epoch

\* What is left of a span of the epoch: cells in use, served to nobody yet and in no
\* other such span.
Live(t) == span[t].epoch = epoch /\ span[t].cursor < span[t].end
SpansApart ==
  resetAt # "rewind" =>
    \A t \in ArenaThreads : Live(t) =>
      /\ span[t].chunk \in Chunks /\ span[t].end <= filled[span[t].chunk]
      /\ \A n \in 1 .. Cells :
           span[t].cursor < n /\ n <= span[t].end => served[span[t].chunk][n] = 0
      /\ \A u \in ArenaThreads \ {t} :
           Live(u) /\ span[u].chunk = span[t].chunk =>
             span[t].end <= span[u].cursor \/ span[u].end <= span[t].cursor

\* What was served is in use, and was served once.
ServedOnce ==
  \A c \in Chunks, n \in 1 .. Cells :
    /\ served[c][n] <= 1
    /\ served[c][n] # 0 => resetAt = "idle" /\ n <= filled[c]

\* The cell of the slow path is nobody else's.
SlowCell ==
  \A t \in ArenaThreads : calling[t] = "publish" =>
    /\ call[t].chunk \in Chunks /\ call[t].cell \in 1 .. Cells
    /\ call[t].cell <= filled[call[t].chunk]
    /\ served[call[t].chunk][call[t].cell] = 0
    /\ \A u \in ArenaThreads : Live(u) /\ span[u].chunk = call[t].chunk =>
         call[t].cell <= span[u].cursor \/ span[u].end < call[t].cell

LatchedFull ==
  exhausted /\ resetAt = "idle" => current = MaxChunks /\ filled[MaxChunks] = Cells

ArInv ==
  /\ ArTypeOK /\ MutexHeld /\ ChunksMapped /\ EpochsPast /\ SpansApart /\ ServedOnce
  /\ SlowCell /\ LatchedFull

\* The fields of spans and calls.
LEMMA FieldsTyped ==
  /\ \A r \in Calls : r.seen \in Nat /\ r.chunk \in Chunks \cup {NoOne} /\ r.cell \in 0 .. Cells
  /\ \A r \in Spans : /\ r.epoch \in Nat /\ r.chunk \in Chunks \cup {NoOne}
                      /\ r.cursor \in 0 .. Cells /\ r.end \in 0 .. Cells
  BY DEF Calls, Spans

Typed ==
  /\ \A t \in ArenaThreads :
       /\ span[t].epoch \in Nat /\ span[t].cursor \in Nat /\ span[t].end \in Nat
       /\ span[t].cursor <= Cells /\ span[t].end <= Cells
       /\ call[t].seen \in Nat /\ call[t].cell \in Nat /\ began[t] \in Int
       /\ span[t].chunk \in Chunks \cup {NoOne} /\ call[t].chunk \in Chunks \cup {NoOne}
  /\ \A c \in Chunks : c \in Nat /\ 1 <= c /\ c <= MaxChunks /\ filled[c] \in Nat /\ filled[c] <= Cells
  /\ \A c \in Chunks, n \in 1 .. Cells : served[c][n] \in Nat
  /\ mapped \in Nat /\ mapped <= MaxChunks /\ current \in Chunks /\ epoch \in Nat /\ resets \in Nat
  /\ MaxChunks \in Nat /\ MaxChunks >= 1 /\ Cells \in Nat /\ Cells >= 1
  /\ SpanCells \in Nat /\ SpanCells >= 1 /\ MaxChunks \in Chunks
  /\ NoOne \notin Chunks /\ NoOne \notin ArenaThreads /\ published \in Chunks \cup {NoOne}
  /\ calling \in [ArenaThreads -> {"idle", "span", "carve", "slow", "publish"}]

\* The types, field by field.
LEMMA TypedFields ==
  ASSUME ArTypeOK PROVE Typed
  <1>1. ASSUME NEW t \in ArenaThreads
        PROVE  span[t] \in Spans /\ call[t] \in Calls /\ began[t] \in Int
    BY DEF ArTypeOK
  <1>2. ASSUME NEW c \in Chunks PROVE filled[c] \in 0 .. Cells /\ c \in 1 .. MaxChunks
    BY DEF ArTypeOK, Chunks
  <1>3. \A c \in Chunks, n \in 1 .. Cells : served[c][n] \in Nat
    BY DEF ArTypeOK
  <1>4. /\ mapped \in 0 .. MaxChunks /\ current \in Chunks /\ epoch \in Nat /\ resets \in Nat
        /\ NoOne \notin Chunks /\ NoOne \notin ArenaThreads /\ MaxChunks \in Chunks
    BY ArenaShape DEF ArTypeOK, Chunks
  <1>5. ASSUME NEW t \in ArenaThreads
        PROVE  /\ span[t].epoch \in Nat /\ span[t].cursor \in 0 .. Cells
               /\ span[t].end \in 0 .. Cells /\ call[t].seen \in Nat
               /\ call[t].cell \in 0 .. Cells /\ began[t] \in Int
               /\ span[t].chunk \in Chunks \cup {NoOne}
               /\ call[t].chunk \in Chunks \cup {NoOne}
    BY <1>1, FieldsTyped
  <1>6. calling \in [ArenaThreads -> {"idle", "span", "carve", "slow", "publish"}]
    BY DEF ArTypeOK
  <1>7. published \in Chunks \cup {NoOne}
    BY DEF ArTypeOK
  <1> QED BY <1>2, <1>3, <1>4, <1>5, <1>6, <1>7, ArenaShape DEF Typed

\* When nothing fits, every chunk there may be is mapped and the last one is full.
LEMMA LatchFull ==
  ASSUME Typed, ChunksMapped, Fitting = {}
  PROVE  mapped = MaxChunks /\ filled[MaxChunks] = Cells
  <1>1. current <= MaxChunks /\ ~(MaxChunks >= current /\ filled[MaxChunks] < Cells)
    BY DEF Typed, Fitting
  <1>2. filled[MaxChunks] \in Nat /\ filled[MaxChunks] <= Cells /\ current \in Nat
    BY DEF Typed
  <1>3. filled[MaxChunks] = Cells
    BY <1>1, <1>2 DEF Typed
  <1> QED BY <1>3 DEF Typed, ChunksMapped

\* What a call that ends leaves, and what it hands out.
EndsEffect(t) ==
  /\ call' \in [ArenaThreads -> Calls] /\ began' \in [ArenaThreads -> Int]
  /\ calling' \in [ArenaThreads -> {"idle", "span", "carve", "slow", "publish"}]
  /\ calling'[t] = "idle" /\ began'[t] = -1 /\ call'[t].seen = 0
  /\ \A u \in ArenaThreads \ {t} :
       calling'[u] = calling[u] /\ began'[u] = began[u] /\ call'[u] = call[u]
Counts(t) == began[t] = resets /\ resetAt = "idle"
ServedEffect(t, c, n) ==
  /\ served' \in [Chunks -> [1 .. Cells -> Nat]]
  /\ Counts(t) => c \in Chunks /\ n \in 1 .. Cells
  /\ \A d \in Chunks, k \in 1 .. Cells :
       served'[d][k] = IF Counts(t) /\ d = c /\ k = n THEN served[d][k] + 1 ELSE served[d][k]

\* What the end of a call changes.
LEMMA EndsDoes ==
  ASSUME ArTypeOK, NEW t \in ArenaThreads, Ends(t) PROVE EndsEffect(t)
  <1>1. NotCalling \in Calls /\ NotCalling.seen = 0
    BY ArenaShape DEF NotCalling, Calls
  <1> QED BY <1>1 DEF Ends, Goes, ArTypeOK, EndsEffect

\* What handing out cells changes.
LEMMA HandsOutDoes ==
  ASSUME ArTypeOK, NEW t \in ArenaThreads, NEW c, NEW n, HandsOut(t, c, n),
         Counts(t) => c \in Chunks /\ n \in 1 .. Cells
  PROVE  EndsEffect(t) /\ ServedEffect(t, c, n)
  <1>0. EndsEffect(t)
    BY EndsDoes DEF HandsOut
  <1>1. CASE Counts(t)
    <2>1. served' = [served EXCEPT ![c][n] = @ + 1]
      BY <1>1 DEF HandsOut, Counts
    <2>2. served \in [Chunks -> [1 .. Cells -> Nat]] /\ c \in Chunks /\ n \in 1 .. Cells
      BY <1>1 DEF ArTypeOK
    <2> DEFINE f == [served[c] EXCEPT ![n] = served[c][n] + 1]
    <2>3. served' = [served EXCEPT ![c] = f]
      BY <2>1, <2>2
    <2>a. served[c] \in [1 .. Cells -> Nat]
      BY <2>2
    <2>b. served[c][n] \in Nat
      BY <2>2, <2>a
    <2>4. served[c] \in [1 .. Cells -> Nat] /\ served[c][n] + 1 \in Nat
      BY <2>a, <2>b
    <2>5. /\ f \in [1 .. Cells -> Nat]
          /\ \A k \in 1 .. Cells : f[k] = IF k = n THEN served[c][k] + 1 ELSE served[c][k]
      BY <2>2, <2>4
    <2> HIDE DEF f
    <2>6. served' \in [Chunks -> [1 .. Cells -> Nat]]
      BY <2>2, <2>3, <2>5
    <2>7. /\ served'[c] = f
          /\ \A d \in Chunks : d # c => served'[d] = served[d]
      BY <2>2, <2>3
    <2>8. ASSUME NEW d \in Chunks, NEW k \in 1 .. Cells
          PROVE  served'[d][k] = IF d = c /\ k = n THEN served[d][k] + 1 ELSE served[d][k]
      BY <2>5, <2>7
    <2> QED BY <1>1, <1>0, <2>2, <2>6, <2>8 DEF ServedEffect
  <1>2. CASE ~Counts(t)
    BY <1>0, <1>2 DEF HandsOut, ArTypeOK, ServedEffect, Counts
  <1> QED BY <1>1, <1>2

\* Cells above all those served in an epoch are served once.
LEMMA ServedStaysOnce ==
  ASSUME Typed, ServedOnce, NEW t \in ArenaThreads, NEW c, NEW k, ServedEffect(t, c, k),
         resetAt' = resetAt, \A d \in Chunks : filled[d] <= filled'[d] /\ filled'[d] \in Nat,
         Counts(t) => c \in Chunks /\ k \in 1 .. Cells /\ served[c][k] = 0 /\ k <= filled'[c]
  PROVE  ServedOnce'
  <1> SUFFICES ASSUME NEW d \in Chunks, NEW j \in 1 .. Cells
               PROVE  /\ served'[d][j] <= 1
                      /\ served'[d][j] # 0 => resetAt' = "idle" /\ j <= filled'[d]
    BY DEF ServedOnce
  <1>1. /\ served[d][j] \in Nat /\ served[d][j] <= 1 /\ filled[d] \in Nat
        /\ served[d][j] # 0 => resetAt = "idle" /\ j <= filled[d]
    BY DEF ServedOnce, Typed
  <1>2. CASE Counts(t) /\ d = c /\ j = k
    BY <1>1, <1>2 DEF ServedEffect, Counts
  <1>3. CASE ~(Counts(t) /\ d = c /\ j = k)
    <2>1. served'[d][j] = served[d][j]
      BY <1>3 DEF ServedEffect
    <2>2. filled[d] <= filled'[d] /\ filled'[d] \in Nat
      OBVIOUS
    <2> QED BY <1>1, <2>1, <2>2
  <1> QED BY <1>2, <1>3

BeginEffect(t) ==
  /\ call' \in [ArenaThreads -> Calls] /\ began' \in [ArenaThreads -> Int]
  /\ call'[t].seen = epoch
  /\ began'[t] = IF resetAt = "idle" THEN resets ELSE -1
  /\ \A u \in ArenaThreads \ {t} : began'[u] = began[u] /\ call'[u] = call[u]

\* What the begin of a call changes.
LEMMA BeginDoes ==
  ASSUME ArTypeOK, NEW t \in ArenaThreads, BeginCall(t) PROVE BeginEffect(t)
  <1>1. call' = [call EXCEPT ![t] = [call[t] EXCEPT !.seen = epoch]]
    BY DEF BeginCall
  <1>2. call[t] \in Calls /\ epoch \in Nat
    BY DEF ArTypeOK
  <1>3. [call[t] EXCEPT !.seen = epoch] \in Calls /\ [call[t] EXCEPT !.seen = epoch].seen = epoch
    BY <1>2 DEF Calls
  <1> QED BY <1>1, <1>3 DEF BeginCall, ArTypeOK, BeginEffect

SpanHitEffect(t) ==
  /\ span' \in [ArenaThreads -> Spans]
  /\ span[t].cursor < span[t].end /\ span[t].cursor + 1 \in 1 .. Cells
  /\ span'[t].epoch = span[t].epoch /\ span'[t].chunk = span[t].chunk
  /\ span'[t].cursor = span[t].cursor + 1 /\ span'[t].end = span[t].end
  /\ \A u \in ArenaThreads \ {t} : span'[u] = span[u]
  /\ began[t] = resets => Live(t) /\ span[t].chunk \in Chunks
  /\ EndsEffect(t) /\ ServedEffect(t, span[t].chunk, span[t].cursor + 1)

\* What a span hit changes.
LEMMA SpanHitDoes ==
  ASSUME ArTypeOK, EpochsPast, SpansApart, NEW t \in ArenaThreads, SpanHit(t)
  PROVE  SpanHitEffect(t)
  <1> DEFINE n == span[t].cursor + 1
             r == [span[t] EXCEPT !.cursor = n]
  <1>1. span[t] \in Spans
    BY DEF ArTypeOK
  <1>2. span[t].cursor < span[t].end /\ n \in 1 .. Cells
    BY <1>1, FieldsTyped, ArenaShape DEF SpanHit, SpanServes
  <1>3. span' = [span EXCEPT ![t] = r]
    BY DEF SpanHit
  <1>4. /\ r \in Spans /\ r.cursor = n /\ r.epoch = span[t].epoch
        /\ r.chunk = span[t].chunk /\ r.end = span[t].end
    BY <1>1, <1>2 DEF Spans
  <1>5. began[t] = resets => Live(t) /\ span[t].chunk \in Chunks
    BY <1>2 DEF SpanHit, SpanServes, EpochsPast, SpansApart, Live
  <1> HIDE DEF n, r
  <1>6. /\ span' \in [ArenaThreads -> Spans] /\ span'[t] = r
        /\ \A u \in ArenaThreads \ {t} : span'[u] = span[u]
    BY <1>3, <1>4 DEF ArTypeOK
  <1>7. HandsOut(t, span[t].chunk, n)
    BY DEF SpanHit, n
  <1>8. EndsEffect(t) /\ ServedEffect(t, span[t].chunk, n)
    BY <1>2, <1>5, <1>7, HandsOutDoes DEF Counts
  <1> QED BY <1>2, <1>4, <1>5, <1>6, <1>8 DEF SpanHitEffect, n

CarveEffect(t, c) ==
  /\ span' \in [ArenaThreads -> Spans] /\ filled' \in [Chunks -> 0 .. Cells]
  /\ c \in Chunks /\ c <= mapped /\ filled[c] + SpanCells <= Cells
  /\ filled'[c] = filled[c] + SpanCells
  /\ \A d \in Chunks : d # c => filled'[d] = filled[d]
  /\ span'[t].epoch = call[t].seen /\ span'[t].chunk = c
  /\ span'[t].cursor = filled[c] + 1 /\ span'[t].end = filled[c] + SpanCells
  /\ \A u \in ArenaThreads \ {t} : span'[u] = span[u]
  /\ EndsEffect(t) /\ ServedEffect(t, c, filled[c] + 1)

\* What carving a span changes.
LEMMA CarveDoes ==
  ASSUME ArTypeOK, ChunksMapped, NEW t \in ArenaThreads, Carve(t)
  PROVE  CarveEffect(t, call[t].chunk)
  <1> DEFINE c == call[t].chunk
             n == filled[c] + 1
             r == [epoch |-> call[t].seen, chunk |-> c,
                   cursor |-> n, end |-> filled[c] + SpanCells]
  <1>1. call[t] \in Calls /\ c \in Chunks /\ c <= mapped
    BY DEF ArTypeOK, ChunksMapped, Carve
  <1>2. filled[c] \in 0 .. Cells
    BY <1>1 DEF ArTypeOK
  <1>a. filled[c] + SpanCells <= Cells /\ SpanCells \in Nat \ {0} /\ Cells \in Nat
    BY ArenaShape DEF Carve
  <1>b. filled[c] + SpanCells \in 0 .. Cells /\ n \in 1 .. Cells /\ n \in 0 .. Cells
    BY <1>2, <1>a
  <1>3. call[t].seen \in Nat
    BY <1>1, FieldsTyped
  <1>4. /\ r \in Spans /\ r.epoch = call[t].seen /\ r.chunk = c /\ r.cursor = n
        /\ r.end = filled[c] + SpanCells
    BY <1>1, <1>b, <1>3 DEF Spans
  <1>5. span' = [span EXCEPT ![t] = r]
    BY DEF Carve
  <1> HIDE DEF r
  <1>6. /\ span' \in [ArenaThreads -> Spans] /\ span'[t] = r
        /\ \A u \in ArenaThreads \ {t} : span'[u] = span[u]
    BY <1>4, <1>5 DEF ArTypeOK
  <1>7. /\ filled' \in [Chunks -> 0 .. Cells] /\ filled'[c] = filled[c] + SpanCells
        /\ \A d \in Chunks : d # c => filled'[d] = filled[d]
    BY <1>1, <1>b DEF ArTypeOK, Carve
  <1>8. HandsOut(t, c, n)
    BY DEF Carve
  <1>9. EndsEffect(t) /\ ServedEffect(t, c, n)
    BY <1>1, <1>b, <1>8, HandsOutDoes
  <1> QED BY <1>1, <1>a, <1>4, <1>6, <1>7, <1>9 DEF CarveEffect

SlowEffect(t, c) ==
  /\ c >= current /\ filled[c] < Cells
  /\ \A d \in Chunks : d >= current /\ filled[d] < Cells => c <= d
  /\ current' = c /\ mapped' = IF c > mapped THEN c ELSE mapped
  /\ filled' \in [Chunks -> 0 .. Cells] /\ filled'[c] = filled[c] + 1
  /\ \A d \in Chunks : d # c => filled'[d] = filled[d]
  /\ call' \in [ArenaThreads -> Calls]
  /\ call'[t].seen = call[t].seen
  /\ call'[t].chunk = c /\ call'[t].cell = filled[c] + 1
  /\ \A u \in ArenaThreads \ {t} : call'[u] = call[u]

\* What the slow path changes.
LEMMA SlowDoes ==
  ASSUME ArTypeOK, NEW t \in ArenaThreads, SlowAlloc(t)
  PROVE  \E c \in Chunks : SlowEffect(t, c)
  <1>1. PICK c \in Fitting :
          /\ \A d \in Fitting : c <= d
          /\ current' = c
          /\ mapped' = IF c > mapped THEN c ELSE mapped
          /\ filled' = [filled EXCEPT ![c] = @ + 1]
          /\ call' = [call EXCEPT ![t].chunk = c, ![t].cell = filled[c] + 1]
    BY DEF SlowAlloc
  <1> DEFINE n == filled[c] + 1
             r == [[call[t] EXCEPT !.chunk = c] EXCEPT !.cell = n]
  <1>2. c \in Chunks /\ c >= current /\ filled[c] < Cells
    BY <1>1 DEF Fitting
  <1>a. filled[c] \in 0 .. Cells /\ Cells \in Nat
    BY <1>2, ArenaShape DEF ArTypeOK
  <1>b. n \in 0 .. Cells
    BY <1>2, <1>a
  <1>3. call[t] \in Calls
    BY DEF ArTypeOK
  <1> HIDE DEF n
  <1>4. r \in Calls /\ r.seen = call[t].seen /\ r.chunk = c /\ r.cell = n
    BY <1>2, <1>b, <1>3 DEF Calls
  <1>5. call' = [call EXCEPT ![t] = r]
    BY <1>1, <1>3 DEF n
  <1> HIDE DEF r
  <1>6. /\ call' \in [ArenaThreads -> Calls] /\ call'[t] = r
        /\ \A u \in ArenaThreads \ {t} : call'[u] = call[u]
    BY <1>4, <1>5 DEF ArTypeOK
  <1>7. /\ filled' \in [Chunks -> 0 .. Cells] /\ filled'[c] = n
        /\ \A d \in Chunks : d # c => filled'[d] = filled[d]
    BY <1>1, <1>2, <1>b DEF ArTypeOK, n
  <1>8. SlowEffect(t, c)
    BY <1>1, <1>2, <1>4, <1>6, <1>7 DEF SlowEffect, Fitting
  <1> QED BY <1>2, <1>8

LoadEffect(t) ==
  /\ call' \in [ArenaThreads -> Calls]
  /\ call'[t].seen = call[t].seen /\ call'[t].chunk = published
  /\ \A u \in ArenaThreads \ {t} : call'[u] = call[u]

\* What loading the descriptor changes.
LEMMA LoadDoes ==
  ASSUME ArTypeOK, NEW t \in ArenaThreads, LoadDescriptor(t) PROVE LoadEffect(t)
  <1>1. call' = [call EXCEPT ![t] = [call[t] EXCEPT !.chunk = published]]
    BY DEF LoadDescriptor
  <1>2. call[t] \in Calls /\ published \in Chunks \cup {NoOne}
    BY DEF ArTypeOK
  <1>3. /\ [call[t] EXCEPT !.chunk = published] \in Calls
        /\ [call[t] EXCEPT !.chunk = published].seen = call[t].seen
        /\ [call[t] EXCEPT !.chunk = published].chunk = published
    BY <1>2 DEF Calls
  <1> QED BY <1>1, <1>3 DEF ArTypeOK, LoadEffect

PublishEffect(t) ==
  /\ EndsEffect(t) /\ ServedEffect(t, call[t].chunk, call[t].cell)
  /\ published' = current /\ lock' = NoOne

\* What publishing the chunk changes.
LEMMA PublishDoes ==
  ASSUME ArTypeOK, SlowCell, NEW t \in ArenaThreads, PublishCurrent(t)
  PROVE  PublishEffect(t)
  <1>1. call[t].chunk \in Chunks /\ call[t].cell \in 1 .. Cells
    BY DEF SlowCell, PublishCurrent
  <1> QED BY <1>1, HandsOutDoes DEF PublishEffect, PublishCurrent

\* A step keeps the types.
LEMMA ArTypeOKStep ==
  ASSUME ArInv, ArNext PROVE ArTypeOK'
  <1>h. ArTypeOK /\ ChunksMapped /\ SpansApart /\ SlowCell /\ MutexHeld /\ EpochsPast
    BY DEF ArInv
  <1>t. Typed
    BY <1>h, TypedFields
  <1>1. ASSUME NEW t \in ArenaThreads, BeginCall(t) PROVE ArTypeOK'
    <2>1. BeginEffect(t)
      BY <1>1, <1>h, BeginDoes
    <2> QED BY <1>1, <1>h, <1>t, <2>1, ArenaShape
            DEF BeginEffect, BeginCall, Goes, ArTypeOK
  <1>2. ASSUME NEW t \in ArenaThreads, SpanHit(t) PROVE ArTypeOK'
    <2>1. SpanHitEffect(t)
      BY <1>2, <1>h, SpanHitDoes
    <2> QED BY <1>2, <1>h, <1>t, <2>1, ArenaShape
            DEF SpanHitEffect, EndsEffect, ServedEffect, SpanHit, ArTypeOK
  <1>3. ASSUME NEW t \in ArenaThreads, LoadDescriptor(t) PROVE ArTypeOK'
    <2>1. LoadEffect(t)
      BY <1>3, <1>h, LoadDoes
    <2> QED BY <1>3, <1>h, <1>t, <2>1, ArenaShape
            DEF LoadEffect, LoadDescriptor, Goes, ArTypeOK
  <1>4. ASSUME NEW t \in ArenaThreads, Carve(t) PROVE ArTypeOK'
    <2>1. CarveEffect(t, call[t].chunk)
      BY <1>4, <1>h, CarveDoes
    <2> QED BY <1>4, <1>h, <1>t, <2>1, ArenaShape
            DEF CarveEffect, EndsEffect, ServedEffect, Carve, ArTypeOK
  <1>5. ASSUME NEW t \in ArenaThreads, CarveFails(t) PROVE ArTypeOK'
    BY <1>5, <1>h, ArenaShape, FieldsTyped DEF CarveFails, Goes, ArTypeOK
  <1>6. ASSUME NEW t \in ArenaThreads, SlowAlloc(t) PROVE ArTypeOK'
    <2>1. PICK c \in Chunks : SlowEffect(t, c)
      BY <1>6, <1>h, SlowDoes
    <2> QED BY <1>6, <1>h, <1>t, <2>1, ArenaShape
            DEF SlowEffect, SlowAlloc, Goes, ArTypeOK, ChunksMapped, SpansApart, Live,
                SlowCell, MutexHeld, EpochsPast, Typed
  <1>7. ASSUME NEW t \in ArenaThreads, PublishCurrent(t) PROVE ArTypeOK'
    <2>1. PublishEffect(t)
      BY <1>7, <1>h, PublishDoes
    <2> QED BY <1>7, <1>h, <1>t, <2>1, ArenaShape
            DEF PublishEffect, EndsEffect, ServedEffect, PublishCurrent, ArTypeOK
  <1>8. ASSUME NEW t \in ArenaThreads, Latch(t) PROVE ArTypeOK'
    <2>1. EndsEffect(t)
      BY <1>8, <1>h, EndsDoes DEF Latch
    <2>2. mapped = MaxChunks /\ filled[MaxChunks] = Cells
      BY <1>8, <1>h, <1>t, LatchFull DEF Latch
    <2> QED BY <1>8, <1>h, <1>t, <2>1, <2>2
            DEF EndsEffect, Latch, ArTypeOK, ChunksMapped, SpansApart, EpochsPast, Typed
  <1>9. CASE Lock
    BY <1>9, <1>h, ArenaShape, FieldsTyped DEF Lock, Unserved, ArTypeOK
  <1>10. CASE Rewind
    BY <1>10, <1>h, ArenaShape, FieldsTyped
    DEF Rewind, Chunks, ArTypeOK, ChunksMapped, SpansApart, Live, SlowCell, MutexHeld,
        EpochsPast
  <1>11. CASE BumpEpoch
    <2>1. 1 \in Chunks /\ epoch + 1 \in Nat
      BY <1>h, ArenaShape DEF Chunks, ArTypeOK
    <2> QED BY <1>11, <1>h, <2>1 DEF BumpEpoch, ArTypeOK
  <1>12. CASE Republish
    BY <1>12, <1>h, ArenaShape, FieldsTyped DEF Republish, ArTypeOK
  <1>13. CASE Unlatch
    BY <1>13, <1>h, ArenaShape, FieldsTyped DEF Unlatch, ArTypeOK
  <1> QED
    BY <1>1, <1>2, <1>3, <1>4, <1>5, <1>6, <1>7, <1>8, <1>9, <1>10, <1>11, <1>12, <1>13
    DEF ArNext

\* The Mutex is taken and left with the places of a thread and of the reset.
LEMMA MutexHeldStep ==
  ASSUME ArInv, ArNext PROVE MutexHeld'
  <1>h. MutexHeld /\ ArTypeOK /\ EpochsPast /\ SpansApart /\ ChunksMapped /\ SlowCell
    BY DEF ArInv
  <1>t. Typed
    BY <1>h, TypedFields
  <1>1. ASSUME NEW t \in ArenaThreads, BeginCall(t) PROVE MutexHeld'
    <2>1. BeginEffect(t)
      BY <1>1, <1>h, BeginDoes
    <2> QED BY <1>1, <1>h, <1>t, <2>1, ArenaShape DEF BeginCall, Goes, MutexHeld
  <1>2. ASSUME NEW t \in ArenaThreads, SpanHit(t) PROVE MutexHeld'
    <2>1. SpanHitEffect(t)
      BY <1>2, <1>h, SpanHitDoes
    <2> QED BY <1>2, <1>h, <1>t, <2>1, ArenaShape
            DEF SpanHitEffect, EndsEffect, SpanHit, MutexHeld
  <1>3. ASSUME NEW t \in ArenaThreads, LoadDescriptor(t) PROVE MutexHeld'
    <2>1. LoadEffect(t)
      BY <1>3, <1>h, LoadDoes
    <2> QED BY <1>3, <1>h, <1>t, <2>1, ArenaShape DEF LoadDescriptor, Goes, MutexHeld
  <1>4. ASSUME NEW t \in ArenaThreads, Carve(t) PROVE MutexHeld'
    <2>1. CarveEffect(t, call[t].chunk)
      BY <1>4, <1>h, CarveDoes
    <2> QED BY <1>4, <1>h, <1>t, <2>1, ArenaShape
            DEF CarveEffect, EndsEffect, Carve, MutexHeld
  <1>5. ASSUME NEW t \in ArenaThreads, CarveFails(t) PROVE MutexHeld'
    BY <1>5, <1>h, ArenaShape, FieldsTyped DEF CarveFails, Goes, MutexHeld
  <1>6. ASSUME NEW t \in ArenaThreads, SlowAlloc(t) PROVE MutexHeld'
    <2>1. PICK c \in Chunks : SlowEffect(t, c)
      BY <1>6, <1>h, SlowDoes
    <2> QED BY <1>6, <1>h, <1>t, <2>1, ArenaShape
            DEF SlowAlloc, Goes, MutexHeld, SlowCell, Typed
  <1>7. ASSUME NEW t \in ArenaThreads, PublishCurrent(t) PROVE MutexHeld'
    <2>1. PublishEffect(t)
      BY <1>7, <1>h, PublishDoes
    <2> QED BY <1>7, <1>h, <1>t, <2>1, ArenaShape
            DEF PublishEffect, EndsEffect, PublishCurrent, MutexHeld
  <1>8. ASSUME NEW t \in ArenaThreads, Latch(t) PROVE MutexHeld'
    <2>1. EndsEffect(t)
      BY <1>8, <1>h, EndsDoes DEF Latch
    <2> QED BY <1>8, <1>h, <1>t, <2>1, ArenaShape DEF EndsEffect, Latch, MutexHeld
  <1>9. CASE Lock
    BY <1>9, <1>h, ArenaShape, FieldsTyped DEF Lock, MutexHeld
  <1>10. CASE Rewind
    BY <1>10, <1>h, ArenaShape, FieldsTyped DEF Rewind, MutexHeld
  <1>11. CASE BumpEpoch
    BY <1>11, <1>h, ArenaShape, FieldsTyped DEF BumpEpoch, MutexHeld
  <1>12. CASE Republish
    BY <1>12, <1>h, ArenaShape, FieldsTyped DEF Republish, MutexHeld
  <1>13. CASE Unlatch
    BY <1>13, <1>h, ArenaShape, FieldsTyped DEF Unlatch, MutexHeld
  <1> QED
    BY <1>1, <1>2, <1>3, <1>4, <1>5, <1>6, <1>7, <1>8, <1>9, <1>10, <1>11, <1>12, <1>13
    DEF ArNext

\* Chunks are mapped before they are known.
LEMMA ChunksMappedStep ==
  ASSUME ArInv, ArNext PROVE ChunksMapped'
  <1>h. ChunksMapped /\ ArTypeOK /\ MutexHeld /\ EpochsPast /\ SpansApart /\ SlowCell
    BY DEF ArInv
  <1>t. Typed
    BY <1>h, TypedFields
  <1>1. ASSUME NEW t \in ArenaThreads, BeginCall(t) PROVE ChunksMapped'
    <2>1. BeginEffect(t)
      BY <1>1, <1>h, BeginDoes
    <2> QED BY <1>1, <1>h, <1>t, <2>1, ArenaShape DEF BeginCall, Goes, ChunksMapped
  <1>2. ASSUME NEW t \in ArenaThreads, SpanHit(t) PROVE ChunksMapped'
    <2>1. SpanHitEffect(t)
      BY <1>2, <1>h, SpanHitDoes
    <2> QED BY <1>2, <1>h, <1>t, <2>1, ArenaShape
            DEF SpanHitEffect, EndsEffect, SpanHit, ChunksMapped
  <1>3. ASSUME NEW t \in ArenaThreads, LoadDescriptor(t) PROVE ChunksMapped'
    <2>1. LoadEffect(t)
      BY <1>3, <1>h, LoadDoes
    <2> QED BY <1>3, <1>h, <1>t, <2>1, ArenaShape
            DEF LoadEffect, LoadDescriptor, Goes, ChunksMapped, SlowCell, Typed
  <1>4. ASSUME NEW t \in ArenaThreads, Carve(t) PROVE ChunksMapped'
    <2>1. CarveEffect(t, call[t].chunk)
      BY <1>4, <1>h, CarveDoes
    <2> QED BY <1>4, <1>h, <1>t, <2>1, ArenaShape
            DEF CarveEffect, EndsEffect, Carve, ChunksMapped, MutexHeld, EpochsPast,
                SlowCell, Typed
  <1>5. ASSUME NEW t \in ArenaThreads, CarveFails(t) PROVE ChunksMapped'
    BY <1>5, <1>h, ArenaShape, FieldsTyped DEF CarveFails, Goes, ChunksMapped
  <1>6. ASSUME NEW t \in ArenaThreads, SlowAlloc(t) PROVE ChunksMapped'
    <2>1. PICK c \in Chunks : SlowEffect(t, c)
      BY <1>6, <1>h, SlowDoes
    <2>2. /\ c \in Nat /\ 1 <= c /\ mapped' \in Nat /\ c <= mapped' /\ mapped <= mapped'
          /\ mapped' = mapped \/ mapped' = c
      <3>1. c \in Nat /\ 1 <= c /\ mapped \in Nat
        BY <1>t DEF Typed
      <3>2. mapped' = IF c > mapped THEN c ELSE mapped
        BY <2>1 DEF SlowEffect
      <3> QED BY <3>1, <3>2
    <2>3. \A d \in Chunks : d > mapped' => filled'[d] = 0
      BY <1>h, <1>t, <2>1, <2>2 DEF SlowEffect, ChunksMapped, Typed
    <2>4. \A u \in ArenaThreads : calling'[u] = "carve" =>
            u # t /\ call'[u].chunk \in Chunks /\ call'[u].chunk <= mapped'
      BY <1>6, <1>h, <1>t, <2>1, <2>2
      DEF SlowAlloc, Goes, SlowEffect, ChunksMapped, Typed
    <2>5. published' # NoOne => published' <= mapped'
      BY <1>6, <1>h, <1>t, <2>2 DEF SlowAlloc, ChunksMapped, Typed
    <2>6. current' <= mapped' /\ mapped' >= 1
      BY <2>1, <2>2 DEF SlowEffect
    <2> QED BY <2>3, <2>4, <2>5, <2>6 DEF ChunksMapped
  <1>7. ASSUME NEW t \in ArenaThreads, PublishCurrent(t) PROVE ChunksMapped'
    <2>1. PublishEffect(t)
      BY <1>7, <1>h, PublishDoes
    <2> QED BY <1>7, <1>h, <1>t, <2>1, ArenaShape
            DEF PublishEffect, EndsEffect, PublishCurrent, ChunksMapped
  <1>8. ASSUME NEW t \in ArenaThreads, Latch(t) PROVE ChunksMapped'
    <2>1. EndsEffect(t)
      BY <1>8, <1>h, EndsDoes DEF Latch
    <2>2. mapped = MaxChunks /\ filled[MaxChunks] = Cells
      BY <1>8, <1>h, <1>t, LatchFull DEF Latch
    <2> QED BY <1>8, <1>h, <1>t, <2>1, <2>2
            DEF EndsEffect, Latch, ChunksMapped, SlowCell, Typed
  <1>9. CASE Lock
    BY <1>9, <1>h, ArenaShape, FieldsTyped DEF Lock, ChunksMapped
  <1>10. CASE Rewind
    BY <1>10, <1>h, ArenaShape, FieldsTyped DEF Rewind, ChunksMapped
  <1>11. CASE BumpEpoch
    BY <1>11, <1>h, ArenaShape, FieldsTyped DEF BumpEpoch, ChunksMapped, ArTypeOK
  <1>12. CASE Republish
    BY <1>12, <1>h, ArenaShape, FieldsTyped DEF Republish, ChunksMapped
  <1>13. CASE Unlatch
    BY <1>13, <1>h, ArenaShape, FieldsTyped DEF Unlatch, ChunksMapped
  <1> QED
    BY <1>1, <1>2, <1>3, <1>4, <1>5, <1>6, <1>7, <1>8, <1>9, <1>10, <1>11, <1>12, <1>13
    DEF ArNext

\* What a thread has seen of the epoch is past or current.
LEMMA EpochsPastStep ==
  ASSUME ArInv, ArNext PROVE EpochsPast'
  <1>h. EpochsPast /\ ArTypeOK /\ MutexHeld /\ SpansApart /\ ChunksMapped /\ SlowCell
    BY DEF ArInv
  <1>t. Typed
    BY <1>h, TypedFields
  <1>1. ASSUME NEW t \in ArenaThreads, BeginCall(t) PROVE EpochsPast'
    <2>1. BeginEffect(t)
      BY <1>1, <1>h, BeginDoes
    <2> QED BY <1>1, <1>h, <1>t, <2>1, ArenaShape
            DEF BeginEffect, BeginCall, EpochsPast, SlowCell, Typed
  <1>2. ASSUME NEW t \in ArenaThreads, SpanHit(t) PROVE EpochsPast'
    <2>1. SpanHitEffect(t)
      BY <1>2, <1>h, SpanHitDoes
    <2> QED BY <1>2, <1>h, <1>t, <2>1, ArenaShape
            DEF SpanHitEffect, EndsEffect, SpanHit, EpochsPast, SlowCell, Typed
  <1>3. ASSUME NEW t \in ArenaThreads, LoadDescriptor(t) PROVE EpochsPast'
    <2>1. LoadEffect(t)
      BY <1>3, <1>h, LoadDoes
    <2> QED BY <1>3, <1>h, <1>t, <2>1, ArenaShape DEF LoadDescriptor, EpochsPast
  <1>4. ASSUME NEW t \in ArenaThreads, Carve(t) PROVE EpochsPast'
    <2>1. CarveEffect(t, call[t].chunk)
      BY <1>4, <1>h, CarveDoes
    <2> QED BY <1>4, <1>h, <1>t, <2>1, ArenaShape
            DEF CarveEffect, EndsEffect, Carve, EpochsPast, SlowCell, Typed
  <1>5. ASSUME NEW t \in ArenaThreads, CarveFails(t) PROVE EpochsPast'
    BY <1>5, <1>h, ArenaShape, FieldsTyped DEF CarveFails, EpochsPast
  <1>6. ASSUME NEW t \in ArenaThreads, SlowAlloc(t) PROVE EpochsPast'
    <2>1. PICK c \in Chunks : SlowEffect(t, c)
      BY <1>6, <1>h, SlowDoes
    <2> QED BY <1>6, <1>h, <1>t, <2>1, ArenaShape DEF SlowEffect, SlowAlloc, EpochsPast
  <1>7. ASSUME NEW t \in ArenaThreads, PublishCurrent(t) PROVE EpochsPast'
    <2>1. PublishEffect(t)
      BY <1>7, <1>h, PublishDoes
    <2> QED BY <1>7, <1>h, <1>t, <2>1, ArenaShape
            DEF PublishEffect, EndsEffect, PublishCurrent, EpochsPast, SlowCell, Typed
  <1>8. ASSUME NEW t \in ArenaThreads, Latch(t) PROVE EpochsPast'
    <2>1. EndsEffect(t)
      BY <1>8, <1>h, EndsDoes DEF Latch
    <2> QED BY <1>8, <1>h, <1>t, <2>1, ArenaShape
            DEF EndsEffect, Latch, EpochsPast, SlowCell, Typed
  <1>9. CASE Lock
    BY <1>9, <1>h, ArenaShape, FieldsTyped DEF Lock, EpochsPast, ArTypeOK
  <1>10. CASE Rewind
    BY <1>10, <1>h, ArenaShape, FieldsTyped DEF Rewind, EpochsPast
  <1>11. CASE BumpEpoch
    BY <1>11, <1>h, ArenaShape, FieldsTyped
    DEF BumpEpoch, EpochsPast, ArTypeOK, MutexHeld, SpansApart, Live, ChunksMapped,
        SlowCell
  <1>12. CASE Republish
    BY <1>12, <1>h, ArenaShape, FieldsTyped DEF Republish, EpochsPast
  <1>13. CASE Unlatch
    BY <1>13, <1>h, ArenaShape, FieldsTyped DEF Unlatch, EpochsPast
  <1> QED
    BY <1>1, <1>2, <1>3, <1>4, <1>5, <1>6, <1>7, <1>8, <1>9, <1>10, <1>11, <1>12, <1>13
    DEF ArNext

\* Spans of one epoch do not overlap.
LEMMA SpansApartStep ==
  ASSUME ArInv, ArNext PROVE SpansApart'
  <1>h. SpansApart /\ ArTypeOK /\ MutexHeld /\ EpochsPast /\ ServedOnce /\ SlowCell /\ ChunksMapped
    BY DEF ArInv
  <1>t. Typed
    BY <1>h, TypedFields
  <1>1. ASSUME NEW t \in ArenaThreads, BeginCall(t) PROVE SpansApart'
    <2>1. BeginEffect(t)
      BY <1>1, <1>h, BeginDoes
    <2> QED BY <1>1, <1>h, <1>t, <2>1, ArenaShape DEF BeginCall, SpansApart, Live
  <1>2. ASSUME NEW t \in ArenaThreads, SpanHit(t) PROVE SpansApart'
    <2>1. SpanHitEffect(t)
      BY <1>2, <1>h, SpanHitDoes
    <2> SUFFICES ASSUME resetAt # "rewind", NEW v \in ArenaThreads, Live(v)'
                 PROVE  /\ span'[v].chunk \in Chunks /\ span'[v].end <= filled'[span'[v].chunk]
                        /\ \A n \in 1 .. Cells :
                             span'[v].cursor < n /\ n <= span'[v].end => served'[span'[v].chunk][n] = 0
                        /\ \A u \in ArenaThreads \ {v} :
                             Live(u)' /\ span'[u].chunk = span'[v].chunk =>
                               span'[v].end <= span'[u].cursor \/ span'[u].end <= span'[v].cursor
      BY <1>2 DEF SpansApart, SpanHit
    <2>2. /\ epoch' = epoch /\ filled' = filled
          /\ \A u \in ArenaThreads :
               /\ span'[u].chunk = span[u].chunk /\ span'[u].end = span[u].end
               /\ span'[u].epoch = span[u].epoch /\ span[u].cursor <= span'[u].cursor
               /\ span'[u].cursor \in Nat
      BY <1>2, <1>t, <2>1 DEF SpanHit, Typed
    <2>3. \A u \in ArenaThreads : Live(u)' => Live(u)
      BY <1>t, <2>2 DEF Live, Typed
    <2>4. \A u \in ArenaThreads \ {v} :
            Live(u)' /\ span'[u].chunk = span'[v].chunk =>
              span'[v].end <= span'[u].cursor \/ span'[u].end <= span'[v].cursor
      BY <1>h, <1>t, <2>2, <2>3 DEF SpansApart, Typed
    <2>5. ASSUME NEW n \in 1 .. Cells, span'[v].cursor < n, n <= span'[v].end
          PROVE  served'[span[v].chunk][n] = 0
      <3>1. span[v].chunk \in Chunks /\ served[span[v].chunk][n] = 0
        BY <1>h, <1>t, <2>2, <2>3, <2>5 DEF SpansApart, Typed
      <3>2. ~(Counts(t) /\ span[v].chunk = span[t].chunk /\ n = span[t].cursor + 1)
        <4>1. CASE v = t
          BY <2>1, <2>5, <4>1 DEF SpanHitEffect
        <4>2. CASE v # t
          BY <1>h, <1>t, <2>1, <2>2, <2>3, <2>5, <4>2
          DEF SpansApart, SpanHitEffect, Typed, Counts
        <4> QED BY <4>1, <4>2
      <3> QED BY <2>1, <3>1, <3>2 DEF SpanHitEffect, ServedEffect
    <2> QED BY <1>h, <2>2, <2>3, <2>4, <2>5 DEF SpansApart
  <1>3. ASSUME NEW t \in ArenaThreads, LoadDescriptor(t) PROVE SpansApart'
    <2>1. LoadEffect(t)
      BY <1>3, <1>h, LoadDoes
    <2> QED BY <1>3, <1>h, <1>t, <2>1, ArenaShape DEF LoadDescriptor, SpansApart, Live
  <1>4. ASSUME NEW t \in ArenaThreads, Carve(t) PROVE SpansApart'
    <2>1. CarveEffect(t, call[t].chunk)
      BY <1>4, <1>h, CarveDoes
    <2> DEFINE c == call[t].chunk
    <2> SUFFICES ASSUME resetAt # "rewind", NEW v \in ArenaThreads, Live(v)'
                 PROVE  /\ span'[v].chunk \in Chunks /\ span'[v].end <= filled'[span'[v].chunk]
                        /\ \A n \in 1 .. Cells :
                             span'[v].cursor < n /\ n <= span'[v].end => served'[span'[v].chunk][n] = 0
                        /\ \A u \in ArenaThreads \ {v} :
                             Live(u)' /\ span'[u].chunk = span'[v].chunk =>
                               span'[v].end <= span'[u].cursor \/ span'[u].end <= span'[v].cursor
      BY <1>4 DEF SpansApart, Carve
    <2>2. epoch' = epoch /\ c \in Chunks /\ filled[c] \in Nat
      BY <1>4, <1>t, <2>1 DEF Carve, CarveEffect, Typed
    <2>3. \A u \in ArenaThreads \ {t} : span'[u] = span[u] /\ (Live(u)' <=> Live(u))
      BY <2>1, <2>2 DEF CarveEffect, Live
    <2>4. /\ span'[t].chunk = c /\ span'[t].cursor = filled[c] + 1
          /\ span'[t].end = filled[c] + SpanCells /\ filled'[c] = filled[c] + SpanCells
          /\ filled[c] + SpanCells <= Cells
      BY <2>1 DEF CarveEffect
    <2>5. \A d \in Chunks : filled[d] <= filled'[d]
      BY <1>t, <2>1, <2>2 DEF CarveEffect, Typed
    <2>a. \A n \in 1 .. Cells : n > filled[c] => served[c][n] = 0
      BY <1>h, <2>2 DEF ServedOnce
    <2>6. /\ ServedEffect(t, c, filled[c] + 1)
          /\ \A n \in 1 .. Cells : n > filled[c] => served[c][n] = 0
      BY <2>1, <2>a DEF CarveEffect
    <2>7. \A u \in ArenaThreads \ {t} : Live(u) =>
            /\ span[u].chunk \in Chunks /\ span[u].end <= filled[span[u].chunk]
            /\ \A n \in 1 .. Cells :
                 span[u].cursor < n /\ n <= span[u].end => served[span[u].chunk][n] = 0
      BY <1>h DEF SpansApart
    <2>8. CASE v = t
      <3>1. \A n \in 1 .. Cells :
              filled[c] + 1 < n /\ n <= filled[c] + SpanCells => served'[c][n] = 0
        BY <2>2, <2>6 DEF ServedEffect
      <3>2. \A u \in ArenaThreads \ {t} : Live(u) /\ span[u].chunk = c => span[u].end <= filled[c] + 1
        BY <1>t, <2>2, <2>7 DEF Typed
      <3> QED BY <1>t, <2>2, <2>3, <2>4, <2>8, <3>1, <3>2 DEF Typed
    <2>9. CASE v # t
      <3>1. Live(v) /\ span'[v] = span[v] /\ span[v].chunk \in Chunks
            /\ span[v].end <= filled[span[v].chunk]
        BY <2>3, <2>7, <2>9
      <3>2. \A n \in 1 .. Cells :
              span[v].cursor < n /\ n <= span[v].end => served'[span[v].chunk][n] = 0
        <4> SUFFICES ASSUME NEW n \in 1 .. Cells, span[v].cursor < n, n <= span[v].end
                     PROVE  served'[span[v].chunk][n] = 0
          OBVIOUS
        <4>1. served[span[v].chunk][n] = 0
          BY <2>7, <2>9, <3>1
        <4>2. ~(span[v].chunk = c /\ n = filled[c] + 1)
          BY <1>t, <2>2, <3>1 DEF Typed
        <4> QED BY <2>6, <3>1, <4>1, <4>2 DEF ServedEffect
      <3>3. span[v].end <= filled'[span[v].chunk]
        <4>1. span[v].end \in Nat /\ filled[span[v].chunk] \in Nat
              /\ filled[span[v].chunk] <= filled'[span[v].chunk]
          BY <1>t, <2>5, <3>1 DEF Typed
        <4>2. filled'[span[v].chunk] \in 0 .. Cells /\ Cells \in Nat
          BY <1>t, <2>1, <3>1 DEF CarveEffect, Typed
        <4> QED BY <3>1, <4>1, <4>2
      <3>4. ASSUME NEW u \in ArenaThreads \ {v}, Live(u)', span'[u].chunk = span[v].chunk
            PROVE  span[v].end <= span'[u].cursor \/ span'[u].end <= span[v].cursor
        <4>1. CASE u = t
          BY <1>t, <2>2, <2>4, <3>1, <3>4, <4>1 DEF Typed
        <4>2. CASE u # t
          BY <1>h, <2>3, <3>1, <3>4, <4>2 DEF SpansApart
        <4> QED BY <4>1, <4>2
      <3> QED BY <3>1, <3>2, <3>3, <3>4
    <2> QED BY <2>8, <2>9
  <1>5. ASSUME NEW t \in ArenaThreads, CarveFails(t) PROVE SpansApart'
    BY <1>5, <1>h, ArenaShape, FieldsTyped DEF CarveFails, SpansApart, Live
  <1>6. ASSUME NEW t \in ArenaThreads, SlowAlloc(t) PROVE SpansApart'
    <2>1. PICK c \in Chunks : SlowEffect(t, c)
      BY <1>6, <1>h, SlowDoes
    <2> QED BY <1>6, <1>h, <1>t, <2>1, ArenaShape
            DEF SlowAlloc, SpansApart, Live, MutexHeld, ChunksMapped, Typed
  <1>7. ASSUME NEW t \in ArenaThreads, PublishCurrent(t) PROVE SpansApart'
    <2>1. PublishEffect(t)
      BY <1>7, <1>h, PublishDoes
    <2>2. /\ UNCHANGED <<epoch, span, filled, resetAt>>
          /\ \A u \in ArenaThreads : Live(u)' <=> Live(u)
      BY <1>7 DEF PublishCurrent, Live
    <2>3. call[t].chunk \in Chunks /\ call[t].cell \in 1 .. Cells /\ calling[t] = "publish"
      BY <1>7, <1>h DEF SlowCell, PublishCurrent
    <2>4. ASSUME resetAt # "rewind", NEW v \in ArenaThreads, Live(v), NEW n \in 1 .. Cells,
                 span[v].cursor < n, n <= span[v].end
          PROVE  served'[span[v].chunk][n] = 0
      <3>1. span[v].chunk \in Chunks /\ served[span[v].chunk][n] = 0
        BY <1>h, <2>4 DEF SpansApart
      <3>2. span[v].chunk = call[t].chunk => n # call[t].cell
        BY <1>h, <1>t, <2>3, <2>4 DEF SlowCell, Typed
      <3> QED BY <2>1, <2>3, <3>1, <3>2 DEF PublishEffect, ServedEffect
    <2> QED BY <1>h, <2>2, <2>4 DEF SpansApart
  <1>8. ASSUME NEW t \in ArenaThreads, Latch(t) PROVE SpansApart'
    <2>1. EndsEffect(t)
      BY <1>8, <1>h, EndsDoes DEF Latch
    <2> QED BY <1>8, <1>h, <1>t, <2>1, ArenaShape DEF Latch, SpansApart, Live
  <1>9. CASE Lock
    BY <1>9, <1>h, ArenaShape, FieldsTyped DEF Lock, SpansApart
  <1>10. CASE Rewind
    BY <1>10, <1>h, ArenaShape, FieldsTyped DEF Rewind, SpansApart
  <1>11. CASE BumpEpoch
    BY <1>11, <1>h, ArenaShape, FieldsTyped
    DEF BumpEpoch, SpansApart, Live, ArTypeOK, MutexHeld, EpochsPast, ServedOnce
  <1>12. CASE Republish
    BY <1>12, <1>h, ArenaShape, FieldsTyped DEF Republish, SpansApart, Live
  <1>13. CASE Unlatch
    BY <1>13, <1>h, ArenaShape, FieldsTyped DEF Unlatch, SpansApart, Live
  <1> QED
    BY <1>1, <1>2, <1>3, <1>4, <1>5, <1>6, <1>7, <1>8, <1>9, <1>10, <1>11, <1>12, <1>13
    DEF ArNext

\* A cell is served once in an epoch.
LEMMA ServedOnceStep ==
  ASSUME ArInv, ArNext PROVE ServedOnce'
  <1>h. ServedOnce /\ ArTypeOK /\ EpochsPast /\ SpansApart /\ SlowCell /\ MutexHeld /\ ChunksMapped
    BY DEF ArInv
  <1>t. Typed
    BY <1>h, TypedFields
  <1>1. ASSUME NEW t \in ArenaThreads, BeginCall(t) PROVE ServedOnce'
    <2>1. BeginEffect(t)
      BY <1>1, <1>h, BeginDoes
    <2> QED BY <1>1, <1>h, <1>t, <2>1, ArenaShape DEF BeginCall, ServedOnce
  <1>2. ASSUME NEW t \in ArenaThreads, SpanHit(t) PROVE ServedOnce'
    <2>1. SpanHitEffect(t)
      BY <1>2, <1>h, SpanHitDoes
    <2>2. UNCHANGED <<resetAt, filled>>
      BY <1>2 DEF SpanHit
    <2> DEFINE k == span[t].cursor + 1
    <2>3. Counts(t) => /\ span[t].chunk \in Chunks /\ k \in 1 .. Cells
                       /\ served[span[t].chunk][k] = 0 /\ k <= filled'[span[t].chunk]
      <3> SUFFICES ASSUME Counts(t)
                   PROVE  /\ span[t].chunk \in Chunks /\ k \in 1 .. Cells
                          /\ served[span[t].chunk][k] = 0 /\ k <= filled[span[t].chunk]
        BY <2>2
      <3>1. Live(t) /\ k \in 1 .. Cells /\ resetAt # "rewind" /\ span[t].chunk \in Chunks
        BY <2>1 DEF Counts, SpanHitEffect
      <3>2. span[t].cursor < k /\ k <= span[t].end
        BY <1>t, <2>1 DEF SpanHitEffect, Typed
      <3>3. span[t].end <= filled[span[t].chunk] /\ served[span[t].chunk][k] = 0
        BY <1>h, <3>1, <3>2 DEF SpansApart
      <3>a. span[t].end \in Nat /\ filled[span[t].chunk] \in Nat
        BY <1>t, <3>1 DEF Typed
      <3>4. k <= filled[span[t].chunk]
        BY <3>a, <3>1, <3>2, <3>3
      <3> QED BY <3>1, <3>3, <3>4
    <2>4. ServedEffect(t, span[t].chunk, k)
      BY <2>1 DEF SpanHitEffect
    <2>a. \A d \in Chunks : filled[d] \in Nat
      BY <1>t DEF Typed
    <2>5. \A d \in Chunks : filled[d] <= filled'[d] /\ filled'[d] \in Nat
      BY <2>a, <2>2
    <2> HIDE DEF k
    <2> QED BY <1>h, <1>t, <2>2, <2>3, <2>4, <2>5, ServedStaysOnce
  <1>3. ASSUME NEW t \in ArenaThreads, LoadDescriptor(t) PROVE ServedOnce'
    <2>1. LoadEffect(t)
      BY <1>3, <1>h, LoadDoes
    <2> QED BY <1>3, <1>h, <1>t, <2>1, ArenaShape DEF LoadDescriptor, ServedOnce
  <1>4. ASSUME NEW t \in ArenaThreads, Carve(t) PROVE ServedOnce'
    <2>1. CarveEffect(t, call[t].chunk)
      BY <1>4, <1>h, CarveDoes
    <2> DEFINE c == call[t].chunk
               k == filled[c] + 1
    <2>2. resetAt' = resetAt /\ \A d \in Chunks : filled[d] <= filled'[d]
      BY <1>4, <1>t, <2>1 DEF Carve, Typed
    <2>a. c \in Chunks /\ filled[c] \in Nat /\ filled'[c] = filled[c] + SpanCells
          /\ filled[c] + SpanCells <= Cells /\ SpanCells \in Nat /\ SpanCells >= 1 /\ Cells \in Nat
      BY <1>t, <2>1 DEF CarveEffect, Typed
    <2>b. k \in 1 .. Cells /\ ~(k <= filled[c]) /\ k <= filled'[c]
      BY <2>a
    <2>3. c \in Chunks /\ k \in 1 .. Cells /\ served[c][k] = 0 /\ k <= filled'[c]
      BY <1>h, <2>a, <2>b DEF ServedOnce
    <2>4. ServedEffect(t, c, k)
      BY <2>1 DEF CarveEffect
    <2>5. \A d \in Chunks : filled[d] <= filled'[d] /\ filled'[d] \in Nat
      BY <1>t, <2>1, <2>2 DEF CarveEffect
    <2> HIDE DEF c, k
    <2> QED BY <1>h, <1>t, <2>2, <2>3, <2>4, <2>5, ServedStaysOnce
  <1>5. ASSUME NEW t \in ArenaThreads, CarveFails(t) PROVE ServedOnce'
    BY <1>5, <1>h, ArenaShape, FieldsTyped DEF CarveFails, ServedOnce
  <1>6. ASSUME NEW t \in ArenaThreads, SlowAlloc(t) PROVE ServedOnce'
    <2>1. PICK c \in Chunks : SlowEffect(t, c)
      BY <1>6, <1>h, SlowDoes
    <2> QED BY <1>6, <1>h, <1>t, <2>1, ArenaShape
            DEF SlowAlloc, ServedOnce, EpochsPast, SpansApart, ChunksMapped, Typed
  <1>7. ASSUME NEW t \in ArenaThreads, PublishCurrent(t) PROVE ServedOnce'
    <2>1. PublishEffect(t)
      BY <1>7, <1>h, PublishDoes
    <2>2. UNCHANGED <<resetAt, filled>>
      BY <1>7 DEF PublishCurrent
    <2> DEFINE c == call[t].chunk
               k == call[t].cell
    <2>3. c \in Chunks /\ k \in 1 .. Cells /\ served[c][k] = 0 /\ k <= filled[c]
      BY <1>7, <1>h DEF SlowCell, PublishCurrent
    <2>4. ServedEffect(t, c, k)
      BY <2>1 DEF PublishEffect
    <2>a. \A d \in Chunks : filled[d] \in Nat
      BY <1>t DEF Typed
    <2>5. \A d \in Chunks : filled[d] <= filled'[d] /\ filled'[d] \in Nat
      BY <2>a, <2>2
    <2> HIDE DEF c, k
    <2> QED BY <1>h, <1>t, <2>2, <2>3, <2>4, <2>5, ServedStaysOnce
  <1>8. ASSUME NEW t \in ArenaThreads, Latch(t) PROVE ServedOnce'
    <2>1. EndsEffect(t)
      BY <1>8, <1>h, EndsDoes DEF Latch
    <2> QED BY <1>8, <1>h, <1>t, <2>1, ArenaShape DEF Latch, ServedOnce
  <1>9. CASE Lock
    BY <1>9, <1>h, ArenaShape, FieldsTyped DEF Lock, Unserved, ServedOnce
  <1>10. CASE Rewind
    BY <1>10, <1>h, ArenaShape, FieldsTyped DEF Rewind, ServedOnce
  <1>11. CASE BumpEpoch
    BY <1>11, <1>h, ArenaShape, FieldsTyped DEF BumpEpoch, ServedOnce
  <1>12. CASE Republish
    BY <1>12, <1>h, ArenaShape, FieldsTyped DEF Republish, ServedOnce
  <1>13. CASE Unlatch
    BY <1>13, <1>h, ArenaShape, FieldsTyped DEF Unlatch, ServedOnce
  <1> QED
    BY <1>1, <1>2, <1>3, <1>4, <1>5, <1>6, <1>7, <1>8, <1>9, <1>10, <1>11, <1>12, <1>13
    DEF ArNext

\* What the slow path holds is its own.
LEMMA SlowCellStep ==
  ASSUME ArInv, ArNext PROVE SlowCell'
  <1>h. SlowCell /\ ArTypeOK /\ MutexHeld /\ SpansApart /\ ServedOnce /\ EpochsPast /\ ChunksMapped
    BY DEF ArInv
  <1>t. Typed
    BY <1>h, TypedFields
  <1>1. ASSUME NEW t \in ArenaThreads, BeginCall(t) PROVE SlowCell'
    <2>1. BeginEffect(t)
      BY <1>1, <1>h, BeginDoes
    <2> QED BY <1>1, <1>h, <1>t, <2>1, ArenaShape DEF BeginCall, Goes, SlowCell, Live
  <1>2. ASSUME NEW t \in ArenaThreads, SpanHit(t) PROVE SlowCell'
    <2>1. SpanHitEffect(t)
      BY <1>2, <1>h, SpanHitDoes
    <2> SUFFICES ASSUME NEW v \in ArenaThreads, calling'[v] = "publish"
                 PROVE  /\ call'[v].chunk \in Chunks /\ call'[v].cell \in 1 .. Cells
                        /\ call'[v].cell <= filled'[call'[v].chunk]
                        /\ served'[call'[v].chunk][call'[v].cell] = 0
                        /\ \A u \in ArenaThreads : Live(u)' /\ span'[u].chunk = call'[v].chunk =>
                             call'[v].cell <= span'[u].cursor \/ span'[u].end < call'[v].cell
      BY DEF SlowCell
    <2>2. v # t /\ calling[v] = "publish" /\ call'[v] = call[v] /\ epoch' = epoch
      BY <1>2, <2>1 DEF SpanHitEffect, EndsEffect, SpanHit
    <2> DEFINE c == call[v].chunk
               n == call[v].cell
    <2>3. /\ c \in Chunks /\ n \in 1 .. Cells /\ n <= filled[c] /\ served[c][n] = 0
          /\ \A u \in ArenaThreads : Live(u) /\ span[u].chunk = c =>
               n <= span[u].cursor \/ span[u].end < n
      BY <1>h, <2>2 DEF SlowCell
    <2>4. \A d \in Chunks : filled[d] <= filled'[d] /\ filled'[d] \in Nat
      BY <1>2, <1>t, <2>1 DEF SpanHit, Typed
    <2>5. ~(Counts(t) /\ c = span[t].chunk /\ n = span[t].cursor + 1)
      BY <1>t, <2>1, <2>3 DEF Counts, SpanHitEffect, Typed
    <2>6. served'[c][n] = 0
      BY <2>1, <2>3, <2>5 DEF SpanHitEffect, ServedEffect
    <2>7. ASSUME NEW u \in ArenaThreads, Live(u)', span'[u].chunk = c
          PROVE  n <= span'[u].cursor \/ span'[u].end < n
      BY <1>t, <2>1, <2>2, <2>3, <2>7 DEF SpanHitEffect, Live, Typed
    <2>8. n <= filled'[c]
      <3>1. filled[c] \in Nat
        BY <1>t, <2>3 DEF Typed
      <3> QED BY <2>3, <2>4, <3>1
    <2> QED BY <2>2, <2>3, <2>6, <2>7, <2>8
  <1>3. ASSUME NEW t \in ArenaThreads, LoadDescriptor(t) PROVE SlowCell'
    <2>1. LoadEffect(t)
      BY <1>3, <1>h, LoadDoes
    <2> QED BY <1>3, <1>h, <1>t, <2>1, ArenaShape
            DEF LoadDescriptor, Goes, SlowCell, Live
  <1>4. ASSUME NEW t \in ArenaThreads, Carve(t) PROVE SlowCell'
    <2>1. CarveEffect(t, call[t].chunk)
      BY <1>4, <1>h, CarveDoes
    <2> SUFFICES ASSUME NEW v \in ArenaThreads, calling'[v] = "publish"
                 PROVE  /\ call'[v].chunk \in Chunks /\ call'[v].cell \in 1 .. Cells
                        /\ call'[v].cell <= filled'[call'[v].chunk]
                        /\ served'[call'[v].chunk][call'[v].cell] = 0
                        /\ \A u \in ArenaThreads : Live(u)' /\ span'[u].chunk = call'[v].chunk =>
                             call'[v].cell <= span'[u].cursor \/ span'[u].end < call'[v].cell
      BY DEF SlowCell
    <2>2. v # t /\ calling[v] = "publish" /\ call'[v] = call[v] /\ epoch' = epoch
      BY <1>4, <2>1 DEF CarveEffect, EndsEffect, Carve
    <2> DEFINE c == call[v].chunk
               n == call[v].cell
    <2>3. /\ c \in Chunks /\ n \in 1 .. Cells /\ n <= filled[c] /\ served[c][n] = 0
          /\ \A u \in ArenaThreads : Live(u) /\ span[u].chunk = c =>
               n <= span[u].cursor \/ span[u].end < n
      BY <1>h, <2>2 DEF SlowCell
    <2>4. \A d \in Chunks : filled[d] <= filled'[d] /\ filled'[d] \in Nat
      BY <1>4, <1>t, <2>1 DEF CarveEffect, Typed
    <2>5. ~(Counts(t) /\ c = call[t].chunk /\ n = filled[call[t].chunk] + 1)
      <3>1. filled[c] \in Nat
        BY <1>t, <2>3 DEF Typed
      <3> QED BY <2>3, <3>1
    <2>6. served'[c][n] = 0
      BY <2>1, <2>3, <2>5 DEF CarveEffect, ServedEffect
    <2>7. ASSUME NEW u \in ArenaThreads, Live(u)', span'[u].chunk = c
          PROVE  n <= span'[u].cursor \/ span'[u].end < n
      <3>1. CASE u = t
        <4>1. c = call[t].chunk /\ span'[t].cursor = filled[c] + 1 /\ filled[c] \in Nat
          BY <1>t, <2>1, <2>3, <2>7, <3>1 DEF CarveEffect, Typed
        <4> QED BY <2>3, <3>1, <4>1
      <3>2. CASE u # t
        <4>1. span'[u] = span[u] /\ Live(u)
          BY <2>1, <2>2, <2>7, <3>2 DEF CarveEffect, Live
        <4> QED BY <2>3, <2>7, <4>1
      <3> QED BY <3>1, <3>2
    <2>8. n <= filled'[c]
      <3>1. filled[c] \in Nat
        BY <1>t, <2>3 DEF Typed
      <3> QED BY <2>3, <2>4, <3>1
    <2> QED BY <2>2, <2>3, <2>6, <2>7, <2>8
  <1>5. ASSUME NEW t \in ArenaThreads, CarveFails(t) PROVE SlowCell'
    BY <1>5, <1>h, ArenaShape, FieldsTyped DEF CarveFails, Goes, SlowCell, Live
  <1>6. ASSUME NEW t \in ArenaThreads, SlowAlloc(t) PROVE SlowCell'
    <2>1. PICK c \in Chunks : SlowEffect(t, c)
      BY <1>6, <1>h, SlowDoes
    <2> QED BY <1>6, <1>h, <1>t, <2>1, ArenaShape
            DEF SlowEffect, SlowAlloc, Goes, SlowCell, Live, MutexHeld, SpansApart,
                ServedOnce, EpochsPast, ChunksMapped, Typed
  <1>7. ASSUME NEW t \in ArenaThreads, PublishCurrent(t) PROVE SlowCell'
    <2>1. PublishEffect(t)
      BY <1>7, <1>h, PublishDoes
    <2> QED BY <1>7, <1>h, <1>t, <2>1, ArenaShape
            DEF PublishEffect, EndsEffect, Counts, PublishCurrent, SlowCell, Live,
                MutexHeld, SpansApart, ServedOnce, EpochsPast, ChunksMapped
  <1>8. ASSUME NEW t \in ArenaThreads, Latch(t) PROVE SlowCell'
    <2>1. EndsEffect(t)
      BY <1>8, <1>h, EndsDoes DEF Latch
    <2> QED BY <1>8, <1>h, <1>t, <2>1, ArenaShape
            DEF EndsEffect, Latch, SlowCell, MutexHeld
  <1>9. CASE Lock
    BY <1>9, <1>h, ArenaShape, FieldsTyped DEF Lock, Unserved, SlowCell, Live
  <1>10. CASE Rewind
    BY <1>10, <1>h, ArenaShape, FieldsTyped
    DEF Rewind, SlowCell, Live, ArTypeOK, MutexHeld
  <1>11. CASE BumpEpoch
    BY <1>11, <1>h, ArenaShape, FieldsTyped
    DEF BumpEpoch, SlowCell, Live, ArTypeOK, MutexHeld
  <1>12. CASE Republish
    BY <1>12, <1>h, ArenaShape, FieldsTyped DEF Republish, SlowCell, Live
  <1>13. CASE Unlatch
    BY <1>13, <1>h, ArenaShape, FieldsTyped DEF Unlatch, SlowCell, Live
  <1> QED
    BY <1>1, <1>2, <1>3, <1>4, <1>5, <1>6, <1>7, <1>8, <1>9, <1>10, <1>11, <1>12, <1>13
    DEF ArNext

\* The latch is set when the chunks are full.
LEMMA LatchedFullStep ==
  ASSUME ArInv, ArNext PROVE LatchedFull'
  <1>h. LatchedFull /\ ArTypeOK /\ MutexHeld /\ ChunksMapped /\ EpochsPast /\ SpansApart /\ SlowCell
    BY DEF ArInv
  <1>t. Typed
    BY <1>h, TypedFields
  <1>1. ASSUME NEW t \in ArenaThreads, BeginCall(t) PROVE LatchedFull'
    <2>1. BeginEffect(t)
      BY <1>1, <1>h, BeginDoes
    <2> QED BY <1>1, <1>h, <1>t, <2>1, ArenaShape DEF BeginCall, LatchedFull
  <1>2. ASSUME NEW t \in ArenaThreads, SpanHit(t) PROVE LatchedFull'
    <2>1. SpanHitEffect(t)
      BY <1>2, <1>h, SpanHitDoes
    <2> QED BY <1>2, <1>h, <1>t, <2>1, ArenaShape DEF SpanHit, LatchedFull
  <1>3. ASSUME NEW t \in ArenaThreads, LoadDescriptor(t) PROVE LatchedFull'
    <2>1. LoadEffect(t)
      BY <1>3, <1>h, LoadDoes
    <2> QED BY <1>3, <1>h, <1>t, <2>1, ArenaShape DEF LoadDescriptor, LatchedFull
  <1>4. ASSUME NEW t \in ArenaThreads, Carve(t) PROVE LatchedFull'
    <2>1. CarveEffect(t, call[t].chunk)
      BY <1>4, <1>h, CarveDoes
    <2> QED BY <1>4, <1>h, <1>t, <2>1, ArenaShape DEF Carve, LatchedFull
  <1>5. ASSUME NEW t \in ArenaThreads, CarveFails(t) PROVE LatchedFull'
    BY <1>5, <1>h, ArenaShape, FieldsTyped DEF CarveFails, LatchedFull
  <1>6. ASSUME NEW t \in ArenaThreads, SlowAlloc(t) PROVE LatchedFull'
    <2>1. PICK c \in Chunks : SlowEffect(t, c)
      BY <1>6, <1>h, SlowDoes
    <2>2. ~(exhausted /\ resetAt = "idle")
      <3>1. c \in 1 .. MaxChunks /\ c >= current /\ filled[c] < Cells /\ MaxChunks \in Nat
        BY <2>1, ArenaShape DEF SlowEffect, Chunks
      <3>2. Cells \in Nat /\ filled[c] \in Nat
        BY <1>t, ArenaShape DEF Typed
      <3>3. current = MaxChunks => c = MaxChunks
        BY <3>1
      <3> QED BY <1>h, <3>1, <3>2, <3>3 DEF LatchedFull
    <2> QED BY <1>6, <2>2 DEF SlowAlloc, LatchedFull
  <1>7. ASSUME NEW t \in ArenaThreads, PublishCurrent(t) PROVE LatchedFull'
    <2>1. PublishEffect(t)
      BY <1>7, <1>h, PublishDoes
    <2> QED BY <1>7, <1>h, <1>t, <2>1, ArenaShape DEF PublishCurrent, LatchedFull
  <1>8. ASSUME NEW t \in ArenaThreads, Latch(t) PROVE LatchedFull'
    <2>1. EndsEffect(t)
      BY <1>8, <1>h, EndsDoes DEF Latch
    <2>2. mapped = MaxChunks /\ filled[MaxChunks] = Cells
      BY <1>8, <1>h, <1>t, LatchFull DEF Latch
    <2> QED BY <1>8, <1>h, <1>t, <2>1, <2>2 DEF Latch, LatchedFull
  <1>9. CASE Lock
    BY <1>9, <1>h, ArenaShape, FieldsTyped DEF Lock, LatchedFull
  <1>10. CASE Rewind
    BY <1>10, <1>h, ArenaShape, FieldsTyped DEF Rewind, LatchedFull
  <1>11. CASE BumpEpoch
    BY <1>11, <1>h, ArenaShape, FieldsTyped DEF BumpEpoch, LatchedFull
  <1>12. CASE Republish
    BY <1>12, <1>h, ArenaShape, FieldsTyped DEF Republish, LatchedFull
  <1>13. CASE Unlatch
    BY <1>13, <1>h, ArenaShape, FieldsTyped DEF Unlatch, LatchedFull
  <1> QED
    BY <1>1, <1>2, <1>3, <1>4, <1>5, <1>6, <1>7, <1>8, <1>9, <1>10, <1>11, <1>12, <1>13
    DEF ArNext

\* The invariant holds at the start.
LEMMA ArStart == ArInit => ArInv
  <1> SUFFICES ASSUME ArInit PROVE ArInv
    OBVIOUS
  <1>1. ArTypeOK
    <2>1. NoSpan \in Spans /\ NotCalling \in Calls
      BY ArenaShape DEF NoSpan, NotCalling, Spans, Calls
    <2>2. 0 \in 0 .. Cells /\ 0 \in 0 .. MaxChunks /\ 1 \in Chunks /\ -1 \in Int
      BY ArenaShape DEF Chunks
    <2>3. served \in [Chunks -> [1 .. Cells -> Nat]]
      BY DEF ArInit, Unserved
    <2>4. /\ filled \in [Chunks -> 0 .. Cells] /\ span \in [ArenaThreads -> Spans]
          /\ call \in [ArenaThreads -> Calls] /\ began \in [ArenaThreads -> Int]
          /\ calling \in [ArenaThreads -> {"idle", "span", "carve", "slow", "publish"}]
      BY <2>1, <2>2 DEF ArInit
    <2> QED BY <2>2, <2>3, <2>4 DEF ArInit, ArTypeOK
  <1>2. MutexHeld /\ ChunksMapped /\ LatchedFull /\ ServedOnce /\ SlowCell
    BY ArenaShape
    DEF ArInit, MutexHeld, ChunksMapped, LatchedFull, ServedOnce, SlowCell, Chunks,
        Unserved
  <1>3. EpochsPast /\ SpansApart
    BY DEF ArInit, EpochsPast, SpansApart, Live, NoSpan, NotCalling
  <1> QED BY <1>1, <1>2, <1>3 DEF ArInv

\* It is kept by every step.
LEMMA ArStep == ArInv /\ [ArNext]_arVars => ArInv'
  <1> SUFFICES ASSUME ArInv, [ArNext]_arVars PROVE ArInv'
    OBVIOUS
  <1>1. CASE ArNext
    BY <1>1, ArTypeOKStep, MutexHeldStep, ChunksMappedStep, EpochsPastStep,
       SpansApartStep, ServedOnceStep, SlowCellStep, LatchedFullStep DEF ArInv
  <1>2. CASE UNCHANGED arVars
    BY <1>2
    DEF arVars, ArInv, ArTypeOK, MutexHeld, ChunksMapped, EpochsPast, SpansApart, Live,
        ServedOnce, SlowCell, LatchedFull
  <1> QED BY <1>1, <1>2

\* The invariant of a bump arena that is reset: spans of the current epoch are apart and
\* below what is used of their chunk (arena.rs).
THEOREM ResetInductive == ArSpec => []ArInv
  <1>1. ArInit => ArInv
    BY ArStart
  <1>2. ArInv /\ [ArNext]_arVars => ArInv'
    BY ArStep
  <1> QED BY <1>1, <1>2, PTL DEF ArSpec

\* Of the calls that began after a reset no two are given the same cell, whatever threads
\* kept from before, and the latch is set on a full arena only (arena.rs), for any
\* threads, chunks and resets.
THEOREM AfreshAlways == ArSpec => []ResetStartsAfresh
  <1>1. ArInv => ResetStartsAfresh
    BY DEF ArInv, ServedOnce, LatchedFull, ResetStartsAfresh
  <1> QED BY <1>1, ResetInductive, PTL

-----------------------------------------------------------------------------
(***************************************************************************)
(* SystemCache.  A mapping has one place; those cached are in one slot     *)
(* each, of the bucket of their length, and retained is the sum of their   *)
(* lengths, to which every take and put adds or subtracts one length.      *)
(***************************************************************************)

Places == CacheThreads \cup {"kernel", "live", "cached"}
Wishes == [total: Nat, align: {1, BigAlign}]
Gifts  == [give: Mappings]
Asking == {"get", "inGet", "map"}
Giving == {"put", "inPut", "unmap"}

CacheTypeOK ==
  /\ place \in [Mappings -> Places]
  /\ length \in [Mappings -> Nat] /\ skew \in [Mappings -> Nat]
  /\ held \in [Mappings -> Wishes]
  /\ slot \in [Buckets -> [Slots -> Mappings \cup {NoMapping}]]
  /\ nextSlot \in [Buckets -> Slots] /\ retained \in Int
  /\ step \in [CacheThreads -> Asking \cup Giving \cup {"idle"}]
  /\ want \in [CacheThreads -> Wishes \cup Gifts \cup {Resting}]

\* A thread that asks knows for what; one that gives back has the mapping to itself.
Wants(t) ==
  /\ step[t] \in Asking => want[t] \in Wishes
  /\ step[t] \in Giving => want[t] \in Gifts /\ place[want[t].give] = t

CacheInv ==
  /\ CacheTypeOK
  /\ \A t \in CacheThreads : Wants(t)
  /\ CacheAccounts
  /\ ServedFits

\* The parts of CacheAccounts.
Placed  == Cached = {m \in Mappings : place[m] = "cached"}
Counted == retained = Sum(length, Cached)
Single  == \A b, c \in Buckets, i, j \in Slots :
             slot[b][i] = slot[c][j] /\ slot[b][i] # NoMapping => b = c /\ i = j

\* The parts of CacheAccounts.
LEMMA AccountParts ==
  /\ CacheAccounts <=> Placed /\ Counted /\ Single
  /\ CacheAccounts' <=> Placed' /\ Counted' /\ Single'
  BY DEF CacheAccounts, Placed, Counted, Single, Sum

\* Sets of mappings are finite.
LEMMA CachedFinite == \A S \in SUBSET Mappings : IsFiniteSet(S)
  BY CacheShape, FS_Subset

\* What is asked for and given back.
LEMMA Requested ==
  /\ \A n \in Totals, a \in Aligns : [total |-> n, align |-> a] \in Wishes
  /\ \A m \in Mappings : [give |-> m] \in Gifts /\ [give |-> m].give = m
  /\ \A g \in Gifts : g.give \in Mappings
  /\ \A w \in Wishes : /\ w.total \in Nat /\ w.align \in Nat
                       /\ w.align # 1 => w.align >= BigAlign
  /\ Nothing \in Wishes /\ Nothing.total = 0 /\ Nothing.align = 1
  BY CacheShape DEF Wishes, Gifts, Aligns, Nothing

\* A length has a bucket.
LEMMA BucketOfLength == ASSUME NEW n \in Nat PROVE BucketFor(n) \in Buckets
  <1> DEFINE a == IF n < MinLen THEN MinLen ELSE n
             S == {b \in Buckets : MinLen * 2 ^ b <= a}
  <1>1. S \in SUBSET (0 .. BucketCount - 1) /\ BucketCount - 1 \in Nat
    BY CacheShape DEF Buckets
  <1>2. 0 \in S
    <2>1. 2 ^ 0 = 1
      OBVIOUS
    <2>2. MinLen * 1 = MinLen /\ MinLen <= a
      BY CacheShape
    <2> QED BY <2>1, <2>2, CacheShape DEF Buckets
  <1>3. Max(S) \in S
    <2> HIDE DEF S
    <2> QED BY <1>1, <1>2, MaxOf
  <1> QED BY <1>3 DEF BucketFor

\* The first of the entries found is one of them.
LEMMA FirstFound ==
  ASSUME NEW ps, ps \subseteq Buckets \X Slots, ps # {} PROVE FirstOf(ps) \in ps
  <1>1. Buckets \subseteq Nat /\ Slots \subseteq Nat
    BY CacheShape DEF Buckets, Slots
  <1> DEFINE B == {p[1] : p \in ps}
  <1>2. B \subseteq Nat /\ B # {}
    BY <1>1
  <1>3. PICK b \in B : \A c \in B : b <= c
    BY <1>2, LeastOf
  <1> DEFINE I == {p[2] : p \in {q \in ps : q[1] = b}}
  <1>4. I \subseteq Nat /\ I # {}
    BY <1>1, <1>3
  <1>5. PICK i \in I : \A j \in I : i <= j
    BY <1>4, LeastOf
  <1>6. PICK p \in ps : p[1] = b /\ p[2] = i
    BY <1>5
  <1>7. \A q \in ps : p[1] < q[1] \/ (p[1] = q[1] /\ p[2] <= q[2])
    <2> TAKE q \in ps
    <2>1. q[1] \in B /\ (q[1] = b => q[2] \in I)
      OBVIOUS
    <2>2. q[1] \in Nat /\ b \in Nat
      BY <1>2, <2>1
    <2> HIDE DEF B, I
    <2> QED BY <1>3, <1>5, <1>6, <2>1, <2>2
  <1> QED BY <1>6, <1>7 DEF FirstOf

\* Nothing happens to the slots, or to what is cached.
LEMMA AccountsKept ==
  ASSUME CacheInv, UNCHANGED <<slot, retained>>,
         \A m \in Mappings : place'[m] = "cached" <=> place[m] = "cached",
         \A m \in Mappings : place[m] = "cached" => length'[m] = length[m]
  PROVE  CacheAccounts'
  <1>1. Placed /\ Counted /\ Single
    BY AccountParts DEF CacheInv
  <1>2. Cached' = Cached
    BY DEF Cached
  <1>3. Placed'
    BY <1>1, <1>2 DEF Placed
  <1>4. Counted'
    <2>1. IsFiniteSet(Cached) /\ \A m \in Cached : length'[m] = length[m]
      BY <1>1, CachedFinite DEF Placed
    <2>2. Sum(length', Cached) = Sum(length, Cached)
      BY <2>1, SumSame
    <2> QED BY <1>1, <1>2, <2>2 DEF Counted
  <1>5. Single'
    BY <1>1 DEF Single
  <1> QED BY <1>3, <1>4, <1>5, AccountParts

\* A mapping leaves its slot.
LEMMA SlotLeft ==
  ASSUME CacheInv, NEW b \in Buckets, NEW i \in Slots, slot[b][i] # NoMapping,
         slot' = [slot EXCEPT ![b][i] = NoMapping]
  PROVE  /\ slot[b][i] \in Mappings /\ slot[b][i] \in Cached
         /\ Cached' = Cached \ {slot[b][i]} /\ Single'
  <1>1. Single /\ slot \in [Buckets -> [Slots -> Mappings \cup {NoMapping}]]
    BY AccountParts DEF CacheInv, CacheTypeOK
  <1>2. /\ slot'[b][i] = NoMapping
        /\ \A c \in Buckets, j \in Slots : c # b \/ j # i => slot'[c][j] = slot[c][j]
    BY <1>1
  <1>3. slot[b][i] \in Mappings /\ slot[b][i] \in Cached
    BY <1>1 DEF Cached
  <1>4. \A c \in Buckets, j \in Slots : c # b \/ j # i => slot[c][j] # slot[b][i]
    BY <1>1 DEF Single
  <1>5. Cached' = Cached \ {slot[b][i]}
    <2>1. \A m \in Mappings : m \in Cached' <=> m \in Cached /\ m # slot[b][i]
      BY <1>2, <1>4, CacheShape DEF Cached
    <2> QED BY <2>1 DEF Cached
  <1>6. Single'
    BY <1>1, <1>2 DEF Single
  <1> QED BY <1>3, <1>5, <1>6

\* A mapping takes a slot, in place of what was in it.
LEMMA SlotTaken ==
  ASSUME CacheInv, NEW b \in Buckets, NEW i \in Slots, NEW m \in Mappings, m \notin Cached,
         slot' = [slot EXCEPT ![b][i] = m]
  PROVE  Cached' = (Cached \ {slot[b][i]}) \cup {m} /\ Single'
  <1>1. Single /\ slot \in [Buckets -> [Slots -> Mappings \cup {NoMapping}]]
    BY AccountParts DEF CacheInv, CacheTypeOK
  <1>2. /\ slot'[b][i] = m
        /\ \A c \in Buckets, j \in Slots : c # b \/ j # i => slot'[c][j] = slot[c][j]
    BY <1>1
  <1>3. \A c \in Buckets, j \in Slots : slot[c][j] # m
    BY DEF Cached
  <1>4. \A c \in Buckets, j \in Slots :
          (c # b \/ j # i) /\ slot[c][j] # NoMapping => slot[c][j] # slot[b][i]
    BY <1>1 DEF Single
  <1>5. Cached' = (Cached \ {slot[b][i]}) \cup {m}
    <2>1. \A n \in Mappings : n \in Cached' <=> (n \in Cached /\ n # slot[b][i]) \/ n = m
      BY <1>2, <1>4, CacheShape DEF Cached
    <2> QED BY <2>1 DEF Cached
  <1>6. Single'
    BY <1>1, <1>2, <1>3 DEF Single
  <1> QED BY <1>5, <1>6

-----------------------------------------------------------------------------

\* A thread asks for memory.
LEMMA AskStep ==
  ASSUME CacheInv, NEW t \in CacheThreads, NEW n \in Totals, NEW a \in Aligns,
         AskCache(t, n, a)
  PROVE  CacheInv'
  <1>1. CacheTypeOK'
    BY Requested DEF AskCache, MovesTo, CacheInv, CacheTypeOK, Asking
  <1>2. \A u \in CacheThreads : Wants(u)'
    BY Requested DEF AskCache, MovesTo, CacheInv, CacheTypeOK, Wants, Asking, Giving
  <1>3. CacheAccounts'
    BY AccountsKept DEF AskCache
  <1>4. ServedFits'
    BY DEF AskCache, CacheInv, ServedFits, Pad
  <1> QED BY <1>1, <1>2, <1>3, <1>4 DEF CacheInv

\* It takes the lock of the cache.
LEMMA EnterStep ==
  ASSUME CacheInv, NEW t \in CacheThreads, EnterGet(t) \/ EnterPut(t) PROVE CacheInv'
  <1>1. UNCHANGED <<place, length, skew, held, slot, nextSlot, retained, want>>
    BY DEF EnterGet, EnterPut, EnterCache
  <1>2. PICK s \in Asking \cup Giving :
          /\ step' = [step EXCEPT ![t] = s]
          /\ step[t] \in Asking <=> s \in Asking
          /\ step[t] \in Asking \cup Giving
    BY DEF EnterGet, EnterPut, EnterCache, MovesTo, Asking, Giving
  <1>3. CacheTypeOK'
    BY <1>1, <1>2 DEF CacheInv, CacheTypeOK
  <1>4. \A u \in CacheThreads : Wants(u)'
    BY <1>1, <1>2 DEF CacheInv, Wants, Asking, Giving
  <1>5. CacheAccounts'
    BY <1>1, AccountsKept
  <1>6. ServedFits'
    BY <1>1 DEF CacheInv, ServedFits, Pad
  <1> QED BY <1>3, <1>4, <1>5, <1>6 DEF CacheInv

\* A mapping that was with nobody is handed to a thread that asked.
LEMMA HandedOver ==
  ASSUME CacheInv, NEW t \in CacheThreads, NEW m \in Mappings, HandsTo(t, m),
         step[t] \in Asking, place[m] \in {"kernel", "cached"},
         length' \in [Mappings -> Nat], skew' \in [Mappings -> Nat],
         \A n \in Mappings \ {m} : length'[n] = length[n] /\ skew'[n] = skew[n],
         (IF want[t].align = 1 THEN 0 ELSE skew'[m]) + want[t].total <= length'[m]
  PROVE  /\ place' \in [Mappings -> Places] /\ held' \in [Mappings -> Wishes]
         /\ step' \in [CacheThreads -> Asking \cup Giving \cup {"idle"}]
         /\ want' \in [CacheThreads -> Wishes \cup Gifts \cup {Resting}]
         /\ \A u \in CacheThreads : Wants(u)'
         /\ ServedFits'
         /\ place'[m] = "live" /\ \A n \in Mappings \ {m} : place'[n] = place[n]
  <1>1. want[t] \in Wishes
    BY DEF CacheInv, Wants
  <1>2. /\ place' \in [Mappings -> Places] /\ held' \in [Mappings -> Wishes]
        /\ step' \in [CacheThreads -> Asking \cup Giving \cup {"idle"}]
        /\ want' \in [CacheThreads -> Wishes \cup Gifts \cup {Resting}]
    BY <1>1 DEF HandsTo, Back, MovesTo, CacheInv, CacheTypeOK, Places
  <1>3. /\ place'[m] = "live" /\ held'[m] = want[t]
        /\ \A n \in Mappings \ {m} : place'[n] = place[n] /\ held'[n] = held[n]
        /\ step'[t] = "idle"
        /\ \A u \in CacheThreads \ {t} : step'[u] = step[u] /\ want'[u] = want[u]
    BY DEF HandsTo, Back, MovesTo, CacheInv, CacheTypeOK
  <1>4. \A u \in CacheThreads : u \notin {"kernel", "live", "cached"}
    BY CacheShape
  <1>5. ASSUME NEW u \in CacheThreads PROVE Wants(u)'
    <2>1. CASE u = t
      BY <1>3, <2>1 DEF Wants, Asking, Giving
    <2>2. CASE u # t
      <3>1. step'[u] \in Giving => want[u] \in Gifts /\ want[u].give # m /\ place[want[u].give] = u
        BY <1>3, <1>4, <2>2 DEF CacheInv, Wants
      <3>2. step'[u] \in Giving => place'[want[u].give] = u
        BY <1>3, <3>1, Requested
      <3> QED BY <1>3, <2>2, <3>1, <3>2 DEF CacheInv, Wants
    <2> QED BY <2>1, <2>2
  <1>6. ServedFits'
    BY <1>3 DEF CacheInv, ServedFits, Pad
  <1> QED BY <1>2, <1>3, <1>5, <1>6

\* A cached mapping is taken from its slot: the sum loses its length.
LEMMA TakeStep ==
  ASSUME CacheInv, NEW t \in CacheThreads, TakeFromCache(t) PROVE CacheInv'
  <1> DEFINE hit == Found(want[t].total, want[t].align)
             p   == FirstOf(hit)
             m   == slot[p[1]][p[2]]
  <1>1. step[t] = "inGet" /\ UNCHANGED <<length, skew, nextSlot>>
    BY DEF TakeFromCache
  <1>2. CASE hit = {}
    <2>1. UNCHANGED <<place, held, slot, retained, want>> /\ step' = [step EXCEPT ![t] = "map"]
      BY <1>2 DEF TakeFromCache, MovesTo
    <2>2. CacheTypeOK'
      BY <1>1, <2>1 DEF CacheInv, CacheTypeOK, Asking
    <2>3. \A u \in CacheThreads : Wants(u)'
      BY <1>1, <2>1 DEF CacheInv, Wants, Asking, Giving
    <2>4. CacheAccounts'
      BY <1>1, <2>1, AccountsKept
    <2>5. ServedFits'
      BY <1>1, <2>1 DEF CacheInv, ServedFits, Pad
    <2> QED BY <2>2, <2>3, <2>4, <2>5 DEF CacheInv
  <1>3. CASE hit # {}
    <2>1. hit \subseteq Buckets \X Slots
      BY DEF Found
    <2>2. p \in hit
      BY <1>3, <2>1, FirstFound
    <2>3. /\ p[1] \in Buckets /\ p[2] \in Slots /\ m # NoMapping
          /\ FitsIn(m, want[t].total, want[t].align)
      BY <2>2 DEF Found
    <2>4. /\ slot' = [slot EXCEPT ![p[1]][p[2]] = NoMapping]
          /\ retained' = retained - length[m] /\ HandsTo(t, m)
      BY <1>3 DEF TakeFromCache
    <2> HIDE DEF hit, p
    <2>5. m \in Mappings /\ m \in Cached /\ Cached' = Cached \ {m} /\ Single'
      BY <2>3, <2>4, SlotLeft
    <2> HIDE DEF m
    <2>6. Placed /\ Counted /\ place[m] = "cached"
      BY <2>5, AccountParts DEF CacheInv, Placed
    <2>7. length \in [Mappings -> Nat] /\ skew \in [Mappings -> Nat]
      BY DEF CacheInv, CacheTypeOK
    <2>8. /\ place' \in [Mappings -> Places] /\ held' \in [Mappings -> Wishes]
          /\ step' \in [CacheThreads -> Asking \cup Giving \cup {"idle"}]
          /\ want' \in [CacheThreads -> Wishes \cup Gifts \cup {Resting}]
          /\ \A u \in CacheThreads : Wants(u)'
          /\ ServedFits'
          /\ place'[m] = "live" /\ \A n \in Mappings \ {m} : place'[n] = place[n]
      <3>1. step[t] \in Asking /\ place[m] \in {"kernel", "cached"}
        BY <1>1, <2>6 DEF Asking
      <3>2. (IF want[t].align = 1 THEN 0 ELSE skew'[m]) + want[t].total <= length'[m]
        BY <1>1, <2>3 DEF FitsIn, Pad
      <3>3. /\ length' \in [Mappings -> Nat] /\ skew' \in [Mappings -> Nat]
            /\ \A n \in Mappings \ {m} : length'[n] = length[n] /\ skew'[n] = skew[n]
        BY <1>1, <2>7
      <3> QED BY <2>4, <2>5, <3>1, <3>2, <3>3, HandedOver
    <2>9. Placed'
      BY <2>5, <2>6, <2>8 DEF Placed
    <2>10. Counted'
      <3>1. IsFiniteSet(Cached) /\ \A n \in Cached : length[n] \in Int
        BY <2>6, <2>7, CachedFinite DEF Placed
      <3>2. /\ Sum(length, Cached) = length[m] + Sum(length, Cached \ {m})
            /\ Sum(length, Cached) \in Int
        BY <2>5, <3>1, SumRemove
      <3>3. IsFiniteSet(Cached \ {m}) /\ \A n \in Cached \ {m} : length[n] \in Int
        BY <2>6, <3>1, CachedFinite DEF Placed
      <3>4. Sum(length, Cached \ {m}) \in Int
        BY <3>3, SumRemove
      <3>5. retained' = Sum(length, Cached \ {m})
        BY <2>4, <2>5, <2>6, <2>7, <3>2, <3>4 DEF Counted
      <3> QED BY <1>1, <2>5, <3>5 DEF Counted
    <2>11. CacheTypeOK'
      <3>1. slot' \in [Buckets -> [Slots -> Mappings \cup {NoMapping}]]
        BY <2>3, <2>4 DEF CacheInv, CacheTypeOK
      <3>2. retained' \in Int
        BY <2>4, <2>5, <2>7 DEF CacheInv, CacheTypeOK
      <3> QED BY <1>1, <2>8, <3>1, <3>2 DEF CacheInv, CacheTypeOK
    <2> QED BY <2>5, <2>8, <2>9, <2>10, <2>11, AccountParts DEF CacheInv
  <1> QED BY <1>2, <1>3

\* Pages are mapped.
LEMMA MapStep ==
  ASSUME CacheInv, NEW t \in CacheThreads, NEW m \in Mappings, MapPages(t, m)
  PROVE  CacheInv'
  <1>1. /\ step[t] = "map" /\ place[m] = "kernel" /\ HandsTo(t, m)
        /\ UNCHANGED <<slot, nextSlot, retained, inside>>
        /\ length' = [length EXCEPT ![m] = IF want[t].align = 1 THEN want[t].total
                                                   ELSE want[t].total + want[t].align]
    BY DEF MapPages
  <1>2. PICK s \in 0 .. BigAlign - 1 : skew' = [skew EXCEPT ![m] = s]
    BY DEF MapPages
  <1>3. want[t] \in Wishes /\ want[t].total \in Nat /\ want[t].align \in Nat
        /\ (want[t].align # 1 => want[t].align >= BigAlign)
    BY <1>1, Requested DEF CacheInv, Wants, Asking
  <1>4. /\ length' \in [Mappings -> Nat] /\ skew' \in [Mappings -> Nat]
        /\ \A n \in Mappings \ {m} : length'[n] = length[n] /\ skew'[n] = skew[n]
        /\ length'[m] = (IF want[t].align = 1 THEN want[t].total
                         ELSE want[t].total + want[t].align)
        /\ skew'[m] \in Nat /\ skew'[m] < BigAlign
    BY <1>1, <1>2, <1>3, CacheShape DEF CacheInv, CacheTypeOK
  <1>5. (IF want[t].align = 1 THEN 0 ELSE skew'[m]) + want[t].total <= length'[m]
    BY <1>3, <1>4, CacheShape
  <1>6. /\ place' \in [Mappings -> Places] /\ held' \in [Mappings -> Wishes]
        /\ step' \in [CacheThreads -> Asking \cup Giving \cup {"idle"}]
        /\ want' \in [CacheThreads -> Wishes \cup Gifts \cup {Resting}]
        /\ \A u \in CacheThreads : Wants(u)'
        /\ ServedFits'
        /\ place'[m] = "live" /\ \A n \in Mappings \ {m} : place'[n] = place[n]
    BY <1>1, <1>4, <1>5, HandedOver DEF Asking
  <1>7. CacheTypeOK'
    BY <1>1, <1>4, <1>6 DEF CacheInv, CacheTypeOK
  <1>8. CacheAccounts'
    BY <1>1, <1>4, <1>6, AccountsKept
  <1> QED BY <1>6, <1>7, <1>8 DEF CacheInv

\* A mapping is given back.
LEMMA GiveStep ==
  ASSUME CacheInv, NEW t \in CacheThreads, NEW m \in Mappings, GiveBack(t, m)
  PROVE  CacheInv'
  <1>1. /\ step[t] = "idle" /\ place[m] = "live"
        /\ place' = [place EXCEPT ![m] = t] /\ held' = [held EXCEPT ![m] = Nothing]
        /\ want' = [want EXCEPT ![t] = [give |-> m]] /\ step' = [step EXCEPT ![t] = "put"]
        /\ UNCHANGED <<length, skew, slot, nextSlot, retained>>
    BY DEF GiveBack, MovesTo
  <1>2. \A u \in CacheThreads : u \notin {"kernel", "live", "cached"}
    BY CacheShape
  <1>3. CacheTypeOK'
    BY <1>1, Requested DEF CacheInv, CacheTypeOK, Places, Giving
  <1>4. ASSUME NEW u \in CacheThreads PROVE Wants(u)'
    <2>1. CASE u = t
      <3>1. step'[u] = "put" /\ want'[u] = [give |-> m] /\ place'[m] = t
        BY <1>1, <2>1 DEF CacheInv, CacheTypeOK
      <3> QED BY <2>1, <3>1, Requested DEF Wants, Asking
    <2>2. CASE u # t
      <3>1. step'[u] = step[u] /\ want'[u] = want[u]
        BY <1>1, <2>2
      <3>2. step[u] \in Giving => want[u] \in Gifts /\ want[u].give # m /\ place[want[u].give] = u
        BY <1>1, <1>2 DEF CacheInv, Wants
      <3>3. step[u] \in Giving => place'[want[u].give] = u
        BY <1>1, <3>2, Requested
      <3> QED BY <3>1, <3>2, <3>3 DEF CacheInv, Wants
    <2> QED BY <2>1, <2>2
  <1>5. CacheAccounts'
    BY <1>1, <1>2, AccountsKept
  <1>6. ServedFits'
    BY <1>1, <1>2 DEF CacheInv, CacheTypeOK, ServedFits, Pad
  <1> QED BY <1>3, <1>4, <1>5, <1>6 DEF CacheInv

\* The kernel refuses.
LEMMA MapFailsStep ==
  ASSUME CacheInv, NEW t \in CacheThreads, MapFails(t) PROVE CacheInv'
  <1>1. /\ step' = [step EXCEPT ![t] = "idle"] /\ want' = [want EXCEPT ![t] = Resting]
        /\ UNCHANGED <<place, length, skew, held, slot, nextSlot, retained>>
    BY DEF MapFails, Back, MovesTo
  <1>2. CacheTypeOK'
    BY <1>1 DEF CacheInv, CacheTypeOK
  <1>3. \A u \in CacheThreads : Wants(u)'
    BY <1>1 DEF CacheInv, CacheTypeOK, Wants, Asking, Giving
  <1>4. CacheAccounts'
    BY <1>1, AccountsKept
  <1>5. ServedFits'
    BY <1>1 DEF CacheInv, ServedFits, Pad
  <1> QED BY <1>2, <1>3, <1>4, <1>5 DEF CacheInv

\* A mapping is put into a slot, in the place of another if need be: the sum gains its
\* length and loses the other's.
LEMMA PutStep ==
  ASSUME CacheInv, NEW t \in CacheThreads, PutInCache(t) PROVE CacheInv'
  <1> DEFINE m   == want[t].give
             b   == BucketFor(length[m])
             i   == nextSlot[b]
             old == slot[b][i]
  <1>1. step[t] = "inPut" /\ UNCHANGED held
    BY DEF PutInCache
  <1>2. m \in Mappings /\ place[m] = t /\ want[t] \in Gifts
    BY <1>1, Requested DEF CacheInv, Wants, Giving
  <1>3. \A u \in CacheThreads : u \notin {"kernel", "live", "cached"}
    BY CacheShape
  <1>4. CASE Declined(m)
    <2>1. UNCHANGED <<place, length, skew, slot, nextSlot, retained, want>>
          /\ step' = [step EXCEPT ![t] = "unmap"]
      BY <1>4 DEF PutInCache, MovesTo
    <2>2. CacheTypeOK'
      BY <1>1, <2>1 DEF CacheInv, CacheTypeOK, Giving
    <2>3. \A u \in CacheThreads : Wants(u)'
      BY <1>1, <2>1 DEF CacheInv, Wants, Asking, Giving
    <2>4. CacheAccounts'
      BY <1>1, <2>1, AccountsKept
    <2>5. ServedFits'
      BY <1>1, <2>1 DEF CacheInv, ServedFits, Pad
    <2> QED BY <2>2, <2>3, <2>4, <2>5 DEF CacheInv
  <1>5. CASE ~Declined(m)
    <2>1. /\ slot' = [slot EXCEPT ![b][i] = m]
          /\ nextSlot' = [nextSlot EXCEPT ![b] = (i + 1) % PerBucket]
          /\ retained' = retained + length[m] - IF old = NoMapping THEN 0 ELSE length[old]
          /\ place' = [n \in Mappings |-> IF n = m THEN "cached"
                                          ELSE IF n = old THEN "kernel" ELSE place[n]]
          /\ Forget({old}) /\ Back(t)
      BY <1>5 DEF PutInCache
    <2>2. length \in [Mappings -> Nat] /\ skew \in [Mappings -> Nat] /\ length[m] \in Nat
      BY <1>2 DEF CacheInv, CacheTypeOK
    <2> HIDE DEF m
    <2>3. b \in Buckets
      BY <2>2, BucketOfLength
    <2> HIDE DEF b
    <2>4. i \in Slots
      BY <2>3 DEF CacheInv, CacheTypeOK
    <2> HIDE DEF i
    <2>5. Placed /\ Counted /\ m \notin Cached
      BY <1>2, <1>3, AccountParts DEF CacheInv, Placed
    <2>6. Cached' = (Cached \ {old}) \cup {m} /\ Single'
      BY <1>2, <2>1, <2>3, <2>4, <2>5, SlotTaken
    <2>7. old \in Mappings \cup {NoMapping} /\ (old # NoMapping => old \in Cached)
      BY <2>3, <2>4 DEF CacheInv, CacheTypeOK, Cached
    <2> HIDE DEF old
    <2>8. old # m /\ (old \in Mappings => place[old] = "cached")
      BY <1>2, <2>5, <2>7, CacheShape DEF Placed
    <2>9. /\ place'[m] = "cached"
          /\ \A n \in Mappings \ {m, old} : /\ place'[n] = place[n]
                                            /\ length'[n] = length[n] /\ skew'[n] = skew[n]
          /\ old \in Mappings => place'[old] = "kernel"
          /\ length'[m] = length[m] /\ length' \in [Mappings -> Nat] /\ skew' \in [Mappings -> Nat]
      BY <1>2, <2>1, <2>2, <2>8 DEF Forget
    <2>10. Placed'
      BY <1>2, <2>5, <2>6, <2>8, <2>9 DEF Placed
    <2>11. Counted'
      <3> DEFINE C == Cached \ {old}
      <3>1. IsFiniteSet(Cached) /\ IsFiniteSet(C) /\ Cached \subseteq Mappings /\ m \notin C
        BY <2>5, CachedFinite DEF Placed
      <3>2. \A n \in Cached : length[n] \in Int
        BY <2>2, <3>1
      <3>3. \A n \in C : length'[n] = length[n] /\ length[n] \in Int
        BY <2>5, <2>9, <3>1, <3>2
      <3>4. Sum(length', C) = Sum(length, C) /\ Sum(length, C) \in Int
        BY <3>1, <3>3, SumSame, SumRemove
      <3>5. Sum(length', C \cup {m}) = length'[m] + Sum(length', C)
        <4>1. \A n \in C \cup {m} : length'[n] \in Int
          BY <1>2, <2>9, <3>1
        <4> HIDE DEF C
        <4> QED BY <3>1, <4>1, SumAdd
      <3>6. Sum(length, Cached) = Sum(length, C) + IF old = NoMapping THEN 0 ELSE length[old]
        <4>1. CASE old = NoMapping
          <5>1. C = Cached
            BY <3>1, <4>1, CacheShape
          <5>2. Sum(length, C) = Sum(length, Cached)
            BY <5>1, Zenon
          <5>3. \A x \in Int : x + 0 = x
            OBVIOUS
          <5> HIDE DEF C
          <5> QED BY <3>4, <4>1, <5>2, <5>3
        <4>2. CASE old # NoMapping
          <5>1. Sum(length, Cached) = length[old] + Sum(length, C) /\ length[old] \in Int
            BY <2>7, <3>1, <3>2, <4>2, SumRemove
          <5> QED BY <3>4, <4>2, <5>1
        <4> QED BY <4>1, <4>2
      <3>7. (IF old = NoMapping THEN 0 ELSE length[old]) \in Int
        BY <2>7, <3>2
      <3> HIDE DEF C
      <3>8. retained' = length[m] + Sum(length, C)
        BY <2>1, <2>2, <2>5, <3>4, <3>6, <3>7 DEF Counted
      <3> QED BY <2>6, <2>9, <3>4, <3>5, <3>8 DEF Counted, C
    <2>12. CacheTypeOK'
      <3>1. slot' \in [Buckets -> [Slots -> Mappings \cup {NoMapping}]]
        BY <1>2, <2>1, <2>3, <2>4 DEF CacheInv, CacheTypeOK
      <3>2. (i + 1) % PerBucket \in Slots
        BY <2>4, CacheShape DEF Slots
      <3>3. nextSlot' \in [Buckets -> Slots]
        BY <2>1, <2>3, <3>2 DEF CacheInv, CacheTypeOK
      <3>4. retained' \in Int
        <4>1. retained \in Int /\ (IF old = NoMapping THEN 0 ELSE length[old]) \in Int
          BY <2>2, <2>7 DEF CacheInv, CacheTypeOK
        <4> QED BY <2>1, <2>2, <4>1
      <3>5. place' \in [Mappings -> Places]
        BY <2>1 DEF CacheInv, CacheTypeOK, Places
      <3>6. /\ step' \in [CacheThreads -> Asking \cup Giving \cup {"idle"}]
            /\ want' \in [CacheThreads -> Wishes \cup Gifts \cup {Resting}]
        BY <2>1 DEF Back, MovesTo, CacheInv, CacheTypeOK
      <3> QED BY <1>1, <2>9, <3>1, <3>3, <3>4, <3>5, <3>6 DEF CacheInv, CacheTypeOK
    <2>13. ASSUME NEW u \in CacheThreads PROVE Wants(u)'
      <3>1. step'[t] = "idle" /\ (u # t => step'[u] = step[u] /\ want'[u] = want[u])
        BY <2>1 DEF Back, MovesTo, CacheInv, CacheTypeOK
      <3>2. CASE u = t
        BY <3>1, <3>2 DEF Wants, Asking, Giving
      <3>3. CASE u # t
        <4>1. step[u] \in Giving => /\ want[u] \in Gifts /\ place[want[u].give] = u
                                    /\ want[u].give \in Mappings \ {m, old}
          BY <1>2, <1>3, <2>8, <3>3, Requested DEF CacheInv, Wants
        <4>2. step[u] \in Giving => place'[want[u].give] = u
          BY <2>9, <4>1
        <4> QED BY <3>1, <3>3, <4>1, <4>2 DEF CacheInv, Wants
      <3> QED BY <3>2, <3>3
    <2>14. ServedFits'
      <3>1. \A n \in Mappings : place'[n] = "live" => n \in Mappings \ {m, old}
        BY <2>9
      <3> QED BY <1>1, <2>9, <3>1 DEF CacheInv, ServedFits, Pad
    <2> QED BY <2>6, <2>10, <2>11, <2>12, <2>13, <2>14, AccountParts DEF CacheInv
  <1> QED BY <1>4, <1>5

\* A mapping is unmapped.
LEMMA UnmapStep ==
  ASSUME CacheInv, NEW t \in CacheThreads, Unmap(t) PROVE CacheInv'
  <1> DEFINE m == want[t].give
  <1>1. /\ step[t] = "unmap" /\ place' = [place EXCEPT ![m] = "kernel"] /\ Forget({m}) /\ Back(t)
        /\ UNCHANGED <<held, slot, nextSlot, retained>>
    BY DEF Unmap
  <1>2. m \in Mappings /\ place[m] = t
    BY <1>1, Requested DEF CacheInv, Wants, Giving
  <1>3. \A u \in CacheThreads : u \notin {"kernel", "live", "cached"}
    BY CacheShape
  <1> HIDE DEF m
  <1>4. /\ place'[m] = "kernel" /\ place' \in [Mappings -> Places]
        /\ \A n \in Mappings \ {m} : /\ place'[n] = place[n]
                                     /\ length'[n] = length[n] /\ skew'[n] = skew[n]
        /\ length' \in [Mappings -> Nat] /\ skew' \in [Mappings -> Nat]
    BY <1>1, <1>2 DEF Forget, CacheInv, CacheTypeOK, Places
  <1>5. CacheTypeOK'
    BY <1>1, <1>4 DEF Back, MovesTo, CacheInv, CacheTypeOK
  <1>6. ASSUME NEW u \in CacheThreads PROVE Wants(u)'
    <2>1. step'[t] = "idle" /\ (u # t => step'[u] = step[u] /\ want'[u] = want[u])
      BY <1>1 DEF Back, MovesTo, CacheInv, CacheTypeOK
    <2>2. CASE u = t
      BY <2>1, <2>2 DEF Wants, Asking, Giving
    <2>3. CASE u # t
      <3>1. step[u] \in Giving => /\ want[u] \in Gifts /\ place[want[u].give] = u
                                  /\ want[u].give \in Mappings \ {m}
        BY <1>2, <2>3, Requested DEF CacheInv, Wants
      <3>2. step[u] \in Giving => place'[want[u].give] = u
        BY <1>4, <3>1
      <3> QED BY <2>1, <2>3, <3>1, <3>2 DEF CacheInv, Wants
    <2> QED BY <2>2, <2>3
  <1>7. CacheAccounts'
    BY <1>1, <1>2, <1>3, <1>4, AccountsKept
  <1>8. ServedFits'
    <2>1. \A n \in Mappings : place'[n] = "live" => n \in Mappings \ {m}
      BY <1>4
    <2> QED BY <1>1, <1>4, <2>1 DEF CacheInv, ServedFits, Pad
  <1> QED BY <1>5, <1>6, <1>7, <1>8 DEF CacheInv

\* The invariant holds at the start.
LEMMA CacheStart == CacheInit => CacheInv
  <1> SUFFICES ASSUME CacheInit PROVE CacheInv
    OBVIOUS
  <1>1. CacheTypeOK
    <2>1. 0 \in Slots
      BY CacheShape DEF Slots
    <2> QED BY <2>1, Requested DEF CacheInit, CacheTypeOK, Places
  <1>2. \A t \in CacheThreads : Wants(t)
    BY DEF CacheInit, Wants, Asking, Giving
  <1>3. Cached = {}
    BY CacheShape DEF CacheInit, Cached
  <1>4. CacheAccounts
    BY <1>3, SumEmpty, AccountParts DEF CacheInit, Placed, Counted, Single
  <1>5. ServedFits
    BY DEF CacheInit, ServedFits
  <1> QED BY <1>1, <1>2, <1>4, <1>5 DEF CacheInv

\* It is kept by every step.
LEMMA CacheStep == CacheInv /\ [CacheNext]_cacheVars => CacheInv'
  <1> SUFFICES ASSUME CacheInv, [CacheNext]_cacheVars PROVE CacheInv'
    OBVIOUS
  <1>1. CASE CacheNext
    BY <1>1, AskStep, EnterStep, TakeStep, MapStep, GiveStep, MapFailsStep, PutStep,
       UnmapStep DEF CacheNext
  <1>2. CASE UNCHANGED cacheVars
    <2>1. CacheAccounts'
      BY <1>2, AccountsKept DEF cacheVars
    <2> QED BY <1>2, <2>1 DEF cacheVars, CacheInv, CacheTypeOK, Wants, ServedFits, Pad
  <1> QED BY <1>1, <1>2

\* The invariant of the mapping cache: each cached mapping is in one slot of the bucket
\* of its length, and retained is the sum of their lengths (system.rs).
THEOREM CacheInductive == CacheSpec => []CacheInv
  <1>1. CacheInit => CacheInv
    BY CacheStart
  <1>2. CacheInv /\ [CacheNext]_cacheVars => CacheInv'
    BY CacheStep
  <1> QED BY <1>1, <1>2, PTL DEF CacheSpec

\* The cache keeps its accounts and serves only mappings that are long enough and
\* aligned, for any mappings, sizes, buckets and limits (system.rs).
THEOREM CacheSoundAlways == CacheSpec => []CacheSound
  <1>1. CacheInv => CacheSound
    BY DEF CacheInv, CacheSound
  <1> QED BY <1>1, CacheInductive, PTL

=============================================================================
