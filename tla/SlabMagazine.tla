---------------------------- MODULE SlabMagazine ----------------------------
(***************************************************************************)
(* One size class of the slab backend: a central slab in stripes, each     *)
(* under its Mutex (slab.rs), and a magazine of ready blocks per thread    *)
(* (magazine.rs), with the miss and overflow paths between them (lib.rs).  *)
(*                                                                         *)
(* A block has one of two flavours, by the memory it was carved from: "hl" *)
(* blocks lie in segments that are in the segment registry, and are served *)
(* without a header; "header" blocks are not registered, and their free    *)
(* reads a header.  Both flavours share the magazine of a thread.          *)
(*                                                                         *)
(* A free list, a magazine and a batch on the way are sets of blocks: the  *)
(* order in which they are popped is left open.                            *)
(***************************************************************************)
EXTENDS Integers, FiniteSets

CONSTANTS
  Blocks,      \* every block the class may ever have
  Threads,
  Stripes,
  StripeOf,    \* thread_stripe: the stripe a thread was given
  Cap,         \* CLASS_CAPS of the class
  Batch,       \* refill_count of the class
  SegBlocks,   \* blocks of a fresh mapping
  Requests,    \* the kinds of requests made, of RequestKinds
  OwnerFree,   \* LOHALLOC_SLAB_OWNER_FREE
  Nobody       \* no thread, and no stripe

Flavours == {"header", "hl"}

\* An "aligned" request asks for more than MIN_ALIGN.
RequestKinds == {"plain", "aligned"}

ASSUME SlabAssumption ==
  /\ StripeOf \in [Threads -> Stripes]
  /\ IsFiniteSet(Blocks) /\ Cap \in Nat /\ Batch \in 1 .. Cap
  /\ SegBlocks \in Nat /\ Batch <= SegBlocks
  /\ Requests \subseteq RequestKinds /\ OwnerFree \in BOOLEAN
  /\ Nobody \notin Threads \union Stripes

VARIABLES
  unmapped,            \* blocks whose memory is not mapped yet
  carve, recycled,     \* per flavour and stripe: not carved yet; freed
  segStripe,           \* the segment registry: who carved a block, or Nobody
  lock,                \* the Mutex of each stripe
  headerless, magId,   \* slab_headerless and magazine_id
  mag, magOwner,       \* per thread: the magazine and the id it was filled for
  gated, fresh,        \* threads whose slab_scan_miss_epoch, and whose last
                       \* loaded epoch, equal slab_gain_epoch
  skipped,             \* threads whose last scan found a stripe contended
  pc, flav, todo,      \* where a thread is; the flavour it works on; the
  at, hand,            \* stripes to visit, the one locked, the blocks it moves
  raw, headed,         \* blocks the program holds, without and with a header
  stranded             \* blocks discarded by a change of owner

centralVars == <<unmapped, carve, recycled, segStripe>>
modeVars    == <<headerless, magId>>
magVars     == <<mag, magOwner>>
gateVars    == <<gated, fresh, skipped>>
callVars    == <<pc, flav, todo, at, hand>>
heldVars    == <<raw, headed>>
vars        == <<centralVars, lock, modeVars, magVars, gateVars, callVars,
                 heldVars, stranded>>

Init ==
  /\ unmapped = Blocks
  /\ carve = [f \in Flavours |-> [s \in Stripes |-> {}]]
  /\ recycled = [f \in Flavours |-> [s \in Stripes |-> {}]]
  /\ segStripe = [b \in Blocks |-> Nobody]
  /\ lock = [s \in Stripes |-> Nobody]
  /\ headerless = FALSE /\ magId = 1
  /\ mag = [t \in Threads |-> {}] /\ magOwner = [t \in Threads |-> 0]
  /\ gated = {} /\ fresh = {} /\ skipped = {}
  /\ pc = [t \in Threads |-> "idle"] /\ flav = [t \in Threads |-> "header"]
  /\ todo = [t \in Threads |-> {}] /\ at = [t \in Threads |-> Nobody]
  /\ hand = [t \in Threads |-> {}]
  /\ raw = {} /\ headed = {} /\ stranded = {}

Goto(t, from, to) == pc[t] = from /\ pc' = [pc EXCEPT ![t] = to]

\* Up to n blocks of S, as many as there are.
Some(S, n) ==
  {g \in SUBSET S : Cardinality(g) = IF Cardinality(S) < n THEN Cardinality(S)
                                                           ELSE n}

-----------------------------------------------------------------------------
(* The switch to headerless blocks.                                         *)

\* Mutation: the switch leaves the magazines as they are.
SameMagId == magId

NextMagId == magId + 1

\* latch_headerless.  Header blocks may be in use and in magazines by then,
\* but no thread is inside the allocator: the code relies on it.
LatchHeadless ==
  /\ ~headerless /\ \A t \in Threads : pc[t] = "idle"
  /\ headerless' = TRUE /\ magId' = NextMagId
  /\ UNCHANGED <<centralVars, lock, magVars, gateVars, callVars, heldVars,
                 stranded>>

-----------------------------------------------------------------------------
(* The magazine.                                                            *)

\* ensure_owner: what thread t finds in its magazine.
Contents(t) == IF magOwner[t] = magId THEN mag[t] ELSE {}

\* Thread t leaves S in its magazine; contents of an earlier owner are gone.
LeaveInMagazine(t, S) ==
  /\ mag' = [mag EXCEPT ![t] = S] /\ magOwner' = [magOwner EXCEPT ![t] = magId]
  /\ stranded' = stranded \union (mag[t] \ Contents(t))

Serve(t, b) ==
  IF flav[t] = "hl" THEN raw' = raw \union {b} /\ UNCHANGED headed
                    ELSE headed' = headed \union {b} /\ UNCHANGED raw

-----------------------------------------------------------------------------
(* Allocation: try_backend and route_by_size, Slab arm.                     *)

FlavourOf(req) == IF headerless /\ req = "plain" THEN "hl" ELSE "header"

BeginAlloc(t, req) ==
  /\ Goto(t, "idle", "pop")
  /\ flav' = [flav EXCEPT ![t] = FlavourOf(req)]
  /\ UNCHANGED <<centralVars, lock, modeVars, magVars, gateVars, todo, at, hand,
                 heldVars, stranded>>

PopHit(t) ==
  /\ Goto(t, "pop", "idle")
  /\ \E b \in Contents(t) : LeaveInMagazine(t, Contents(t) \ {b}) /\ Serve(t, b)
  /\ UNCHANGED <<centralVars, lock, modeVars, gateVars, flav, todo, at, hand>>

PopMiss(t) ==
  /\ Goto(t, "pop", "gate") /\ Contents(t) = {} /\ LeaveInMagazine(t, {})
  /\ UNCHANGED <<centralVars, lock, modeVars, gateVars, flav, todo, at, hand,
                 heldVars>>

\* slab_batch_recycled_first loads the gain epoch.  A thread that found
\* nothing since goes straight to its own stripe's fresh memory.
CheckGate(t) ==
  /\ \/ /\ t \in gated /\ Goto(t, "gate", "carvelock")
        /\ UNCHANGED <<fresh, skipped>>
     \/ /\ t \notin gated /\ Goto(t, "gate", "ownlock")
        /\ fresh' = fresh \union {t} /\ skipped' = skipped \ {t}
  /\ UNCHANGED <<centralVars, lock, modeVars, magVars, gated, flav, todo, at,
                 hand, heldVars, stranded>>

Lock(t, s) == /\ lock[s] = Nobody /\ lock' = [lock EXCEPT ![s] = t]
              /\ at' = [at EXCEPT ![t] = s]

Unlock(t) == /\ lock' = [lock EXCEPT ![at[t]] = Nobody]
             /\ at' = [at EXCEPT ![t] = Nobody]

LockOwn(t) ==
  /\ \/ Goto(t, "ownlock", "ownpop") \/ Goto(t, "carvelock", "carve")
  /\ Lock(t, StripeOf[t])
  /\ UNCHANGED <<centralVars, modeVars, magVars, gateVars, flav, todo, hand,
                 heldVars, stranded>>

\* alloc_batch_recycled on the stripe that is locked.
PopRecycled(t) ==
  LET f == flav[t]
      r == recycled[f][at[t]]
      own == pc[t] = "ownpop"
  IN /\ pc[t] \in {"ownpop", "sibpop"}
     /\ \E g \in Some(r, Batch) :
          /\ recycled' = [recycled EXCEPT ![f][at[t]] = @ \ g]
          /\ hand' = [hand EXCEPT ![t] = g]
     /\ pc' = [pc EXCEPT ![t] = IF r = {} THEN "siblings" ELSE "fill"]
     /\ todo' = [todo EXCEPT ![t] = IF r # {} THEN {}
                                    ELSE IF own THEN Stripes \ {at[t]} ELSE @]
     /\ Unlock(t)
     /\ UNCHANGED <<unmapped, carve, segStripe, modeVars, magVars, gateVars,
                    flav, heldVars, stranded>>

\* try_lock on the next sibling, which is passed over when it is contended.
TrySibling(t) ==
  /\ \E s \in todo[t] :
       /\ todo' = [todo EXCEPT ![t] = @ \ {s}]
       /\ \/ Goto(t, "siblings", "sibpop") /\ Lock(t, s) /\ UNCHANGED skipped
          \/ /\ lock[s] # Nobody /\ Goto(t, "siblings", "siblings")
             /\ skipped' = skipped \union {t} /\ UNCHANGED <<lock, at>>
  /\ UNCHANGED <<centralVars, modeVars, magVars, gated, fresh, flav, hand,
                 heldVars, stranded>>

\* The scan found nothing: the epoch loaded before it is latched.
LatchMiss(t) ==
  /\ Goto(t, "siblings", "carvelock") /\ todo[t] = {}
  /\ gated' = IF t \in fresh THEN gated \union {t} ELSE gated
  /\ UNCHANGED <<centralVars, lock, modeVars, magVars, fresh, skipped, flav,
                 todo, at, hand, heldVars, stranded>>

Register(m, s) == [b \in Blocks |-> IF b \in m THEN s ELSE segStripe[b]]

\* alloc_batch and alloc_batch_headerless: recycled blocks, then the rest of
\* the mapping being carved, then a fresh one, which may fail.
Carve(t) ==
  LET f == flav[t]
      s == at[t]
      r == recycled[f][s]
      c == carve[f][s]
      Mappings == IF Cardinality(r \union c) < Batch
                    THEN {{}} \union {m \in SUBSET unmapped :
                                        Cardinality(m) = SegBlocks}
                    ELSE {{}}
  IN /\ Goto(t, "carve", "fill")
     /\ \E m \in Mappings :
          /\ \E g \in Some(r \union c \union m, Batch) :
               /\ r \subseteq g \/ g \subseteq r
               /\ c \subseteq g \/ g \subseteq r \union c
               /\ recycled' = [recycled EXCEPT ![f][s] = @ \ g]
               /\ carve' = [carve EXCEPT ![f][s] = (@ \union m) \ g]
               /\ hand' = [hand EXCEPT ![t] = g]
          /\ unmapped' = unmapped \ m
          /\ segStripe' = IF f = "hl" THEN Register(m, s) ELSE segStripe
     /\ Unlock(t)
     /\ UNCHANGED <<modeVars, magVars, gateVars, flav, todo, heldVars,
                    stranded>>

\* One block is served and the others go to the magazine, which was empty.
Fill(t) ==
  /\ Goto(t, "fill", "idle")
  /\ \/ \E b \in hand[t] :
          Serve(t, b) /\ LeaveInMagazine(t, Contents(t) \union (hand[t] \ {b}))
     \/ hand[t] = {} /\ UNCHANGED <<heldVars, magVars, stranded>>
  /\ hand' = [hand EXCEPT ![t] = {}]
  /\ UNCHANGED <<centralVars, lock, modeVars, gateVars, flav, todo, at>>

-----------------------------------------------------------------------------
(* Free.                                                                    *)

Registered(b) == segStripe[b] # Nobody

\* dealloc asks the registry before it reads a header, once the instance is
\* headerless.  A header block of a headerless instance never goes into a
\* magazine.
BeginFree(t, b) ==
  LET hl == headerless /\ Registered(b)
  IN /\ b \in raw \union headed
     /\ raw' = raw \ {b} /\ headed' = headed \ {b}
     /\ hand' = [hand EXCEPT ![t] = {b}]
     /\ flav' = [flav EXCEPT ![t] = IF hl THEN "hl" ELSE "header"]
     /\ Goto(t, "idle", IF headerless /\ ~hl THEN "flush" ELSE "push")
     /\ UNCHANGED <<centralVars, lock, modeVars, magVars, gateVars, todo, at,
                    stranded>>

HasRoom(t) == Cardinality(Contents(t)) < Cap

Push(t) ==
  /\ Goto(t, "push", "idle") /\ HasRoom(t)
  /\ LeaveInMagazine(t, Contents(t) \union hand[t])
  /\ hand' = [hand EXCEPT ![t] = {}]
  /\ UNCHANGED <<centralVars, lock, modeVars, gateVars, flav, todo, at,
                 heldVars>>

\* Mutation: the blocks taken out stay in the magazine.
KeepTaken(t, g) == Contents(t)

AfterTake(t, g) == Contents(t) \ g

\* A full magazine gives a batch of its blocks back together with the block.
Overflow(t) ==
  /\ Goto(t, "push", "flush") /\ ~HasRoom(t)
  /\ \E g \in Some(Contents(t), Batch) :
       /\ LeaveInMagazine(t, AfterTake(t, g))
       /\ hand' = [hand EXCEPT ![t] = @ \union g]
  /\ UNCHANGED <<centralVars, lock, modeVars, gateVars, flav, todo, at,
                 heldVars>>

\* Where a block goes back to: the stripe that carved it, when it is known.
HomeOf(t, b) == IF OwnerFree /\ flav[t] = "hl" /\ Registered(b)
                  THEN segStripe[b] ELSE StripeOf[t]

LockHome(t) ==
  /\ Goto(t, "flush", "give")
  /\ \E b \in hand[t] : Lock(t, HomeOf(t, b))
  /\ UNCHANGED <<centralVars, modeVars, magVars, gateVars, flav, todo, hand,
                 heldVars, stranded>>

\* Mutation: the whole batch goes to the stripe that is locked.
WholeBatch(t) == hand[t]

Group(t) == {b \in hand[t] : HomeOf(t, b) = at[t]}

GiveBack(t) ==
  /\ Goto(t, "give", "flush")
  /\ recycled' = [recycled EXCEPT ![flav[t]][at[t]] = @ \union Group(t)]
  /\ hand' = [hand EXCEPT ![t] = @ \ Group(t)]
  /\ Unlock(t)
  /\ UNCHANGED <<unmapped, carve, segStripe, modeVars, magVars, gateVars, flav,
                 todo, heldVars, stranded>>

\* Mutation: a flush does not count.
NotCounted == UNCHANGED <<gated, fresh>>

\* The gain epoch moves on: whatever epoch a thread has is an old one now.
NextEpoch == gated' = {} /\ fresh' = {}

\* note_slab_central_gain, after the last group is back.
NoteGain(t) ==
  /\ Goto(t, "flush", "idle") /\ hand[t] = {} /\ NextEpoch
  /\ UNCHANGED <<centralVars, lock, modeVars, magVars, skipped, flav, todo, at,
                 hand, heldVars, stranded>>

-----------------------------------------------------------------------------
AllocStep(t) ==
  \/ \E req \in Requests : BeginAlloc(t, req)
  \/ PopHit(t) \/ PopMiss(t) \/ CheckGate(t) \/ LockOwn(t) \/ PopRecycled(t)
  \/ TrySibling(t) \/ LatchMiss(t) \/ Carve(t) \/ Fill(t)

FreeStep(t) ==
  \/ \E b \in Blocks : BeginFree(t, b)
  \/ Push(t) \/ Overflow(t) \/ LockHome(t) \/ GiveBack(t) \/ NoteGain(t)

Next == LatchHeadless \/ \E t \in Threads : AllocStep(t) \/ FreeStep(t)

Spec == Init /\ [][Next]_vars

-----------------------------------------------------------------------------
(* Properties.                                                              *)

Labels == {"idle", "pop", "gate", "ownlock", "ownpop", "siblings", "sibpop",
           "carvelock", "carve", "fill", "push", "flush", "give"}

Tiers == [Flavours -> [Stripes -> SUBSET Blocks]]

\* The shape of the state; a magazine never outgrows its slots.
TypeOK ==
  /\ unmapped \subseteq Blocks /\ carve \in Tiers /\ recycled \in Tiers
  /\ segStripe \in [Blocks -> Stripes \union {Nobody}]
  /\ lock \in [Stripes -> Threads \union {Nobody}]
  /\ headerless \in BOOLEAN /\ magId \in Nat
  /\ mag \in [Threads -> SUBSET Blocks] /\ magOwner \in [Threads -> Nat]
  /\ \A t \in Threads : Cardinality(mag[t]) <= Cap
  /\ gated \subseteq Threads /\ fresh \subseteq Threads
  /\ skipped \subseteq Threads
  /\ pc \in [Threads -> Labels] /\ flav \in [Threads -> Flavours]
  /\ todo \in [Threads -> SUBSET Stripes]
  /\ at \in [Threads -> Stripes \union {Nobody}]
  /\ hand \in [Threads -> SUBSET Blocks]
  /\ raw \subseteq Blocks /\ headed \subseteq Blocks
  /\ stranded \subseteq Blocks

Held == raw \union headed
Tier(f, s) == carve[f][s] \union recycled[f][s]
Kept(t) == mag[t] \union hand[t]

\* No block is in two of these places: not mapped, in one tier of one stripe,
\* in the magazine or the hands of one thread, held by the program, stranded.
Apart ==
  /\ \A f, e \in Flavours, s, u \in Stripes :
       /\ carve[f][s] \intersect recycled[e][u] = {}
       /\ f # e \/ s # u => /\ carve[f][s] \intersect carve[e][u] = {}
                            /\ recycled[f][s] \intersect recycled[e][u] = {}
  /\ \A t, u \in Threads :
       /\ mag[t] \intersect hand[u] = {}
       /\ t # u => /\ mag[t] \intersect mag[u] = {}
                   /\ hand[t] \intersect hand[u] = {}
  /\ \A t \in Threads, f \in Flavours, s \in Stripes :
       Kept(t) \intersect Tier(f, s) = {}
  /\ \A t \in Threads :
       Kept(t) \intersect (unmapped \union Held \union stranded) = {}
  /\ \A f \in Flavours, s \in Stripes :
       Tier(f, s) \intersect (unmapped \union Held \union stranded) = {}
  /\ unmapped \intersect (Held \union stranded) = {}
  /\ raw \intersect headed = {} /\ Held \intersect stranded = {}

\* No block is in none of them.
Accounted ==
  \A b \in Blocks :
    \/ b \in unmapped \union Held \union stranded
    \/ \E f \in Flavours, s \in Stripes : b \in Tier(f, s)
    \/ \E t \in Threads : b \in Kept(t)

\* A block is in one place, so none is served twice and none is lost between
\* the tiers, a batch and a magazine.
OnePlace == Apart /\ Accounted

\* The free of a block takes the path the block was served for: one without a
\* header is found in the registry, one with a header is not.
FlavourKept == /\ \A b \in raw : headerless /\ Registered(b)
               /\ \A b \in headed : ~Registered(b)

\* The flavour allocations of plain requests look for.
Wanted == FlavourOf("plain")

\* The gate hides nothing: while no flush is under way, a thread that skips the
\* scan of the recycled tiers would find them empty, unless it passed over a
\* contended stripe.
GateSound ==
  (\A t \in Threads : pc[t] \notin {"flush", "give"}) =>
    (gated \subseteq skipped \/ \A s \in Stripes : recycled[Wanted][s] = {})

\* A freed block goes home: what a stripe has to recycle it has carved.
HomeKept == OwnerFree =>
  \A s \in Stripes : \A b \in recycled["hl"][s] : segStripe[b] = s

-----------------------------------------------------------------------------
(* The inductive invariant of the proofs, for plain requests.               *)

LockedLabels == {"ownpop", "sibpop", "carve", "give"}
AllocLabels  == {"pop", "gate", "ownlock", "ownpop", "siblings", "sibpop",
                 "carvelock", "carve", "fill"}
FlushLabels  == {"flush", "give"}

\* What a thread has in its hands, and the stripe it has locked.
HandInv ==
  \A t \in Threads :
    /\ pc[t] \in LockedLabels <=> at[t] \in Stripes
    /\ pc[t] \notin {"fill", "push"} \union FlushLabels => hand[t] = {}
    /\ pc[t] = "fill" => Cardinality(hand[t]) <= Batch
    /\ pc[t] = "push" => \E b \in Blocks : hand[t] = {b}
    /\ pc[t] \in AllocLabels \ {"pop"} => mag[t] = {} /\ magOwner[t] = magId

\* A tier holds blocks of its flavour, a magazine those of the mode, a thread
\* those of the flavour it works on.
FlavourInv ==
  /\ \A b \in unmapped : ~Registered(b)
  /\ \A s \in Stripes : \A b \in Tier("hl", s) : Registered(b)
  /\ \A s \in Stripes : \A b \in Tier("header", s) : ~Registered(b)
  /\ \A b \in Blocks : Registered(b) => headerless
  /\ \A t \in Threads :
       /\ magOwner[t] <= magId
       /\ \A b \in Contents(t) : Registered(b) <=> headerless
       /\ \A b \in hand[t] : Registered(b) <=> flav[t] = "hl"
       /\ pc[t] \in AllocLabels \union {"push"} =>
            (flav[t] = "hl" <=> headerless)

\* What a scan that nothing has disturbed has passed is empty.
ScanInv ==
  (\A t \in Threads : pc[t] \notin FlushLabels) =>
    \A t \in fresh \ skipped : pc[t] \in {"siblings", "sibpop"} =>
      \A s \in Stripes \ (todo[t] \union {at[t]}) : recycled[flav[t]][s] = {}

SlabInv == /\ TypeOK /\ HandInv /\ OnePlace /\ FlavourInv /\ FlavourKept
           /\ ScanInv /\ GateSound /\ HomeKept

=============================================================================
