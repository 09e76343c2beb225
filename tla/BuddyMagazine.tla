---------------------------- MODULE BuddyMagazine ---------------------------
(***************************************************************************)
(* The per-thread magazines of buddy blocks (buddy_mag.rs) between the     *)
(* callers and the stripes of the central buddy.                           *)
(*                                                                         *)
(* One magazined order.  A thread has one magazine for all instances of    *)
(* the allocator; it names the id of the instance whose blocks it holds.   *)
(* The blocks of other orders are direct: they go past the magazine.  A    *)
(* stripe hands out what it has.  One action per magazine operation and    *)
(* per Mutex taken.                                                        *)
(***************************************************************************)
EXTENDS Integers, FiniteSets

CONSTANTS
  Holders,     \* threads
  Instances,   \* allocators of the process
  StripeIds,   \* numbers: the stripes of an instance, in the order of a flush
  Pieces,      \* blocks
  InstanceOf, HomeOf,
               \* what piece is of which instance, and of which of its stripes
  OwnStripe,   \* the stripe a thread allocates from
  Direct,      \* pieces of an order that is not magazined
  RowCap       \* ORDER_CAPS

\* The constants are what their comments say.
ASSUME BuddyConstants ==
  /\ IsFiniteSet(Pieces) /\ Direct \subseteq Pieces /\ RowCap \in Nat
  /\ InstanceOf \in [Pieces -> Instances] /\ HomeOf \in [Pieces -> StripeIds]
  /\ OwnStripe \in [Holders -> StripeIds]

VARIABLES
  ids,         \* magazine_id of each instance
  magOwner, magRow,
               \* of each thread: the id, and the pieces of its magazine
  stripe,      \* the free pieces of each stripe
  used,        \* pieces handed out
  does,        \* what each thread does, for which instance
  hand         \* the pieces a flush still has to give back

bmVars == <<ids, magOwner, magRow, stripe, used, does, hand>>

Rest == <<"idle", 0>>
Nobody == <<"nobody", 0>>

BmInit ==
  /\ ids = [i \in Instances |-> <<i, 0>>]
  /\ magOwner = [t \in Holders |-> Nobody] /\ magRow = [t \in Holders |-> {}]
  /\ stripe = [i \in Instances |->
       [s \in StripeIds |-> {p \in Pieces : InstanceOf[p] = i /\ HomeOf[p] = s}]]
  /\ used = {} /\ does = [t \in Holders |-> Rest] /\ hand = [t \in Holders |-> {}]

RefillCount == IF RowCap \div 2 >= 1 THEN RowCap \div 2 ELSE 1

\* ensure_owner: the pieces of another instance, or of another time, are forgotten.
RowFor(t, i) == IF magOwner[t] = ids[i] THEN magRow[t] ELSE {}

Adopt(t, i, row) ==
  /\ magOwner' = [magOwner EXCEPT ![t] = ids[i]]
  /\ magRow' = [magRow EXCEPT ![t] = row]

\* buddy_block_via_magazine: a hit is a pop, a miss goes to the stripe.
AllocHit(t, i) ==
  /\ does[t] = Rest
  /\ \E p \in RowFor(t, i) :
       Adopt(t, i, RowFor(t, i) \ {p}) /\ used' = used \cup {p}
  /\ UNCHANGED <<ids, stripe, does, hand>>

AllocMiss(t, i) ==
  /\ does[t] = Rest /\ RowFor(t, i) = {}
  /\ Adopt(t, i, {}) /\ does' = [does EXCEPT ![t] = <<"refill", i>>]
  /\ UNCHANGED <<ids, stripe, used, hand>>

\* alloc_order_batch: as many as are asked for, or as there are.
Batches(free, n) ==
  {b \in SUBSET free :
     Cardinality(b) = IF Cardinality(free) < n THEN Cardinality(free) ELSE n}

\* dealloc_order_batch
Returned(free, batch) == free \cup batch

\* As many as the stripe can give, of which one is served and the others are pushed,
\* under the id the call began with.
Refill(t, i) ==
  LET free == stripe[i][OwnStripe[t]] \ Direct
  IN  /\ does[t] = <<"refill", i>>
      /\ does' = [does EXCEPT ![t] = Rest]
      /\ IF free = {} THEN UNCHANGED <<magOwner, magRow, stripe, used>>
         ELSE \E batch \in Batches(free, RefillCount), p \in free :
                /\ p \in batch
                /\ stripe' = [stripe EXCEPT ![i][OwnStripe[t]] = @ \ batch]
                /\ used' = used \cup {p}
                /\ magRow' = [magRow EXCEPT ![t] = @ \cup (batch \ {p})]
                /\ UNCHANGED magOwner
      /\ UNCHANGED <<ids, hand>>

\* buddy_dealloc_via_magazine, while there is room.
FreeHit(t, p) ==
  LET row == RowFor(t, InstanceOf[p])
  IN  /\ does[t] = Rest /\ p \in used \ Direct /\ Cardinality(row) < RowCap
      /\ used' = used \ {p}
      /\ Adopt(t, InstanceOf[p], row \cup {p})
      /\ UNCHANGED <<ids, stripe, does, hand>>

\* A full magazine gives up half of it and the block.
FreeFull(t, p) ==
  LET row == RowFor(t, InstanceOf[p])
  IN  /\ does[t] = Rest /\ p \in used \ Direct /\ Cardinality(row) >= RowCap
      /\ used' = used \ {p}
      /\ \E taken \in SUBSET row :
           /\ Cardinality(taken) = RefillCount
           /\ Adopt(t, InstanceOf[p], row \ taken)
           /\ hand' = [hand EXCEPT ![t] = taken \cup {p}]
      /\ does' = [does EXCEPT ![t] = <<"flush", InstanceOf[p]>>]
      /\ UNCHANGED <<ids, stripe>>

\* Mutation: the pieces go to the thread's own stripe.
GroupAll(t, s) == IF s = OwnStripe[t] THEN hand[t] ELSE {}

\* The pieces of a stripe, by the registry.
Group(t, s) == {p \in hand[t] : HomeOf[p] = s}

\* One stripe after the other is locked, those without pieces are skipped.
FlushStripe(t, i, s) ==
  /\ does[t] = <<"flush", i>> /\ Group(t, s) # {}
  /\ \A r \in StripeIds : r < s => Group(t, r) = {}
  /\ stripe' = [stripe EXCEPT ![i][s] = Returned(@, Group(t, s))]
  /\ hand' = [hand EXCEPT ![t] = @ \ Group(t, s)]
  /\ does' = [does EXCEPT ![t] = IF hand'[t] = {} THEN Rest ELSE @]
  /\ UNCHANGED <<ids, magOwner, magRow, used>>

\* Direct orders: under the Mutex of the thread's stripe, and of the owning one.
AllocDirect(t, i) ==
  /\ does[t] = Rest
  /\ \E p \in stripe[i][OwnStripe[t]] \cap Direct :
       /\ stripe' = [stripe EXCEPT ![i][OwnStripe[t]] = @ \ {p}]
       /\ used' = used \cup {p}
  /\ UNCHANGED <<ids, magOwner, magRow, does, hand>>

FreeDirect(t, p) ==
  /\ does[t] = Rest /\ p \in used \cap Direct
  /\ stripe' = [stripe EXCEPT ![InstanceOf[p]][HomeOf[p]] = @ \cup {p}]
  /\ used' = used \ {p}
  /\ UNCHANGED <<ids, magOwner, magRow, does, hand>>

\* invalidate_magazines, when the instance is latched.
Invalidate(i) ==
  /\ ids[i] = <<i, 0>> /\ ids' = [ids EXCEPT ![i] = <<i, 1>>]
  /\ UNCHANGED <<magOwner, magRow, stripe, used, does, hand>>

BmNext ==
  \/ \E t \in Holders, i \in Instances :
       AllocHit(t, i) \/ AllocMiss(t, i) \/ Refill(t, i) \/ AllocDirect(t, i)
  \/ \E t \in Holders, p \in Pieces :
       FreeHit(t, p) \/ FreeFull(t, p) \/ FreeDirect(t, p)
  \/ \E t \in Holders, i \in Instances, s \in StripeIds : FlushStripe(t, i, s)
  \/ \E i \in Instances : Invalidate(i)

BmSpec == BmInit /\ [][BmNext]_bmVars

\* Whatever the threads allocate and free from whichever instance, a block is in one
\* place only: it is served once, and it gets back to the instance and to the stripe
\* whose region it is part of, where it can merge ("a thread's magazine mixes blocks
\* from every stripe"; it may mix those of no two instances).
BlocksGoHome ==
  /\ \A i \in Instances, s \in StripeIds :
       \A p \in stripe[i][s] :
         InstanceOf[p] = i /\ HomeOf[p] = s /\ p \notin used
  /\ \A t \in Holders :
       /\ \A p \in magRow[t] : p \notin used /\ magOwner[t][1] = InstanceOf[p]
       /\ hand[t] \cap used = {} /\ Cardinality(magRow[t]) <= RowCap
       /\ \A p \in magRow[t] \cup hand[t] : p \notin stripe[InstanceOf[p]][HomeOf[p]]
       /\ hand[t] \cap magRow[t] = {}
       /\ \A u \in Holders \ {t} :
            (magRow[t] \cup hand[t]) \cap (magRow[u] \cup hand[u]) = {}

=============================================================================
