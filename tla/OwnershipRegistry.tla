-------------------------- MODULE OwnershipRegistry -------------------------
(***************************************************************************)
(* The ownership registries of registry.rs: insert-only open-addressing    *)
(* tables of atomics, written when a backend maps memory and read without  *)
(* a lock by every free.  SegmentRegistry, RegionRegistry and              *)
(* ArenaChunkRegistry are the same table with different payloads; a        *)
(* payload here is two words, stored and loaded one after the other.       *)
(*                                                                         *)
(* One action per access to a table word.  A writer is the holder of one   *)
(* stripe's Mutex (slab and buddy); with OneLock there is one Mutex for    *)
(* all of them, as for the arena or with LOHALLOC_STRIPES=1.               *)
(***************************************************************************)
EXTENDS Integers

CONSTANTS
  Bases,      \* addresses a mapping may start at
  Classes,    \* first payload word: slab class, or chunk meta address
  Writers,    \* stripes; the second payload word
  Readers,    \* threads that free
  Capacity,   \* slots of the table
  ProbeMax,   \* PROBE_MAX
  Home,       \* slot_for: the home slot of a base
  OneLock,    \* one Mutex covers every insert
  None        \* a lookup that misses, and no payload

Empty == "empty"   \* key 0
Slots == 0 .. Capacity - 1

ASSUME RegistryAssumption ==
  /\ Capacity \in Nat \ {0} /\ ProbeMax \in 1 .. Capacity
  /\ Home \in [Bases -> Slots]
  /\ Empty \notin Bases /\ None \notin Bases \union (Classes \X Writers)
  /\ OneLock \in BOOLEAN

Payloads == Classes \X Writers
Slot(b, i) == (Home[b] + i) % Capacity

VARIABLES
  keys, vals, stripes,     \* the table
  wpc, wbase, wpay, wi,    \* insert: where it is, its arguments, its probe
  rpc, rbase, ri, rval,    \* lookup: the same, and the first word it loaded
  told,                    \* the answer of the lookup just finished
  mapped, done, owner      \* mappings that exist, those whose insert
                           \* returned true, and what each is for

tableVars  == <<keys, vals, stripes>>
writerVars == <<wpc, wbase, wpay, wi>>
readerVars == <<rpc, rbase, ri, rval, told>>
mapVars    == <<mapped, done, owner>>
vars       == <<tableVars, writerVars, readerVars, mapVars>>

Init ==
  /\ keys = [s \in Slots |-> Empty]
  /\ vals = [s \in Slots |-> None] /\ stripes = [s \in Slots |-> None]
  /\ wpc = [w \in Writers |-> "idle"] /\ wbase = [w \in Writers |-> None]
  /\ wpay = [w \in Writers |-> None] /\ wi = [w \in Writers |-> 0]
  /\ rpc = [r \in Readers |-> "idle"] /\ rbase = [r \in Readers |-> None]
  /\ ri = [r \in Readers |-> 0] /\ rval = [r \in Readers |-> None]
  /\ told = [r \in Readers |-> None]
  /\ mapped = {} /\ done = {} /\ owner = [b \in Bases |-> None]

-----------------------------------------------------------------------------
(* Insert.                                                                  *)

Busy(w) == wpc[w] # "idle"

\* The Mutex the caller of insert holds.
Locked(w) == ~Busy(w) /\ (OneLock => \A v \in Writers : ~Busy(v))

Begin(w, b, p) ==
  /\ Locked(w)
  /\ wpc' = [wpc EXCEPT ![w] = "load"] /\ wi' = [wi EXCEPT ![w] = 0]
  /\ wbase' = [wbase EXCEPT ![w] = b] /\ wpay' = [wpay EXCEPT ![w] = p]
  /\ UNCHANGED <<tableVars, readerVars>>

\* A refill maps a fresh region and registers it before carving it.  Nobody
\* frees a pointer into a mapping that does not exist yet.
Refill(w, b, c) ==
  /\ b \notin mapped /\ \A r \in Readers : rbase[r] # b
  /\ Begin(w, b, <<c, w>>)
  /\ mapped' = mapped \union {b}
  /\ owner' = [owner EXCEPT ![b] = <<c, w>>]
  /\ UNCHANGED done

\* The arena registers all its chunks again whenever it has a new one.
Reregister(w, b) ==
  /\ OneLock /\ b \in done /\ Begin(w, b, owner[b])
  /\ UNCHANGED mapVars

At(w) == Slot(wbase[w], wi[w])

Finished(w) ==
  /\ wpc' = [wpc EXCEPT ![w] = "idle"] /\ wi' = [wi EXCEPT ![w] = 0]
  /\ wbase' = [wbase EXCEPT ![w] = None] /\ wpay' = [wpay EXCEPT ![w] = None]

\* true: blocks of the mapping may now be served.
Registered(w) == /\ Finished(w) /\ done' = done \union {wbase[w]}
                 /\ UNCHANGED <<mapped, owner>>

MoreSlots(w) == wi[w] + 1 < ProbeMax

\* The next slot; past the last one insert returns false and the caller
\* unmaps the region, so that nothing of it is ever served.
Advance(w) ==
  \/ /\ MoreSlots(w)
     /\ wi' = [wi EXCEPT ![w] = @ + 1] /\ wpc' = [wpc EXCEPT ![w] = "load"]
     /\ UNCHANGED <<wbase, wpay, mapVars>>
  \/ /\ ~MoreSlots(w) /\ Finished(w)
     /\ mapped' = mapped \ {wbase[w]}
     /\ owner' = [owner EXCEPT ![wbase[w]] = None]
     /\ UNCHANGED done

LoadKey(w) ==
  /\ wpc[w] = "load" /\ UNCHANGED <<tableVars, readerVars>>
  /\ \/ keys[At(w)] = wbase[w] /\ Registered(w)
     \/ /\ keys[At(w)] = Empty /\ wpc' = [wpc EXCEPT ![w] = "val"]
        /\ UNCHANGED <<wbase, wpay, wi, mapVars>>
     \/ keys[At(w)] \notin {Empty, wbase[w]} /\ Advance(w)

\* The payload words go in before the key ...
StoreVal(w) ==
  /\ wpc[w] = "val" /\ wpc' = [wpc EXCEPT ![w] = "stripe"]
  /\ vals' = [vals EXCEPT ![At(w)] = wpay[w][1]]
  /\ UNCHANGED <<keys, stripes, wbase, wpay, wi, readerVars, mapVars>>

StripeWord(w) == wpay[w][2]

StoreStripe(w) ==
  /\ wpc[w] = "stripe" /\ wpc' = [wpc EXCEPT ![w] = "cas"]
  /\ stripes' = [stripes EXCEPT ![At(w)] = StripeWord(w)]
  /\ UNCHANGED <<keys, vals, wbase, wpay, wi, readerVars, mapVars>>

\* ... and the exchange publishes them.
Publish(w) ==
  /\ wpc[w] = "cas" /\ UNCHANGED <<vals, stripes, readerVars>>
  /\ \/ /\ keys[At(w)] = Empty
        /\ keys' = [keys EXCEPT ![At(w)] = wbase[w]]
        /\ Registered(w)
     \/ /\ keys[At(w)] = wbase[w] /\ Registered(w) /\ UNCHANGED keys
     \/ /\ keys[At(w)] \notin {Empty, wbase[w]} /\ Advance(w)
        /\ UNCHANGED keys

-----------------------------------------------------------------------------
(* Lookup.                                                                  *)

\* A free asks for the base of its pointer: of a registered mapping, or of
\* memory that belongs to nobody here.
Ask(r, b) ==
  /\ rpc[r] = "idle" /\ (b \in done \/ b \notin mapped)
  /\ rpc' = [rpc EXCEPT ![r] = "key"] /\ rbase' = [rbase EXCEPT ![r] = b]
  /\ ri' = [ri EXCEPT ![r] = 0] /\ told' = [told EXCEPT ![r] = None]
  /\ UNCHANGED <<tableVars, writerVars, rval, mapVars>>

Here(r) == Slot(rbase[r], ri[r])

Answer(r, a) ==
  /\ rpc' = [rpc EXCEPT ![r] = "idle"] /\ rbase' = [rbase EXCEPT ![r] = None]
  /\ ri' = [ri EXCEPT ![r] = 0] /\ rval' = [rval EXCEPT ![r] = None]
  /\ told' = [told EXCEPT ![r] = a]

\* Mutation: lookup leaves out the last slot of the window.
StopsShort(r) == ri[r] + 2 < ProbeMax

MoreToRead(r) == ri[r] + 1 < ProbeMax

ReadKey(r) ==
  /\ rpc[r] = "key" /\ UNCHANGED <<tableVars, writerVars, mapVars>>
  /\ \/ keys[Here(r)] = Empty /\ Answer(r, None)
     \/ /\ keys[Here(r)] = rbase[r] /\ rpc' = [rpc EXCEPT ![r] = "val"]
        /\ UNCHANGED <<rbase, ri, rval, told>>
     \/ /\ keys[Here(r)] \notin {Empty, rbase[r]} /\ MoreToRead(r)
        /\ ri' = [ri EXCEPT ![r] = @ + 1]
        /\ UNCHANGED <<rpc, rbase, rval, told>>
     \/ /\ keys[Here(r)] \notin {Empty, rbase[r]} /\ ~MoreToRead(r)
        /\ Answer(r, None)

ReadVal(r) ==
  /\ rpc[r] = "val" /\ rpc' = [rpc EXCEPT ![r] = "stripe"]
  /\ rval' = [rval EXCEPT ![r] = vals[Here(r)]]
  /\ UNCHANGED <<tableVars, writerVars, rbase, ri, told, mapVars>>

ReadStripe(r) ==
  /\ rpc[r] = "stripe" /\ Answer(r, <<rval[r], stripes[Here(r)]>>)
  /\ UNCHANGED <<tableVars, writerVars, mapVars>>

-----------------------------------------------------------------------------
Insert(w) == LoadKey(w) \/ StoreVal(w) \/ StoreStripe(w) \/ Publish(w)

Lookup(r) == ReadKey(r) \/ ReadVal(r) \/ ReadStripe(r)

Next ==
  \/ \E w \in Writers : \/ Insert(w)
                        \/ \E b \in Bases : \/ Reregister(w, b)
                                            \/ \E c \in Classes : Refill(w, b, c)
  \/ \E r \in Readers : Lookup(r) \/ \E b \in Bases : Ask(r, b)

Spec == Init /\ [][Next]_vars

-----------------------------------------------------------------------------
(* Properties.                                                              *)

\* The shape of the state.
TypeOK ==
  /\ keys \in [Slots -> Bases \union {Empty}]
  /\ vals \in [Slots -> Classes \union {None}]
  /\ stripes \in [Slots -> Writers \union {None}]
  /\ wpc \in [Writers -> {"idle", "load", "val", "stripe", "cas"}]
  /\ wbase \in [Writers -> Bases \union {None}]
  /\ wpay \in [Writers -> Payloads \union {None}]
  /\ wi \in [Writers -> 0 .. ProbeMax - 1]
  /\ rpc \in [Readers -> {"idle", "key", "val", "stripe"}]
  /\ rbase \in [Readers -> Bases \union {None}]
  /\ ri \in [Readers -> 0 .. ProbeMax - 1]
  /\ rval \in [Readers -> Classes \union {None}]
  /\ mapped \in SUBSET Bases /\ done \in SUBSET Bases
  /\ owner \in [Bases -> Payloads \union {None}]

\* registry.rs 142-147: a slot whose key is published holds the payload that
\* key was registered with, both words of it.
OwnPayload ==
  \A s \in Slots : keys[s] # Empty => owner[keys[s]] = <<vals[s], stripes[s]>>

\* registry.rs 54-56: a key is always within the probe bound of its home, so
\* a lookup never misses a registered mapping.  As a property of the table:
\* from the home slot on, no empty slot comes before the key.
Reachable(b) ==
  \E i \in 0 .. ProbeMax - 1 :
    /\ keys[Slot(b, i)] = b
    /\ \A j \in 0 .. i - 1 : keys[Slot(b, j)] # Empty

DoneIsFound == \A b \in done : Reachable(b)

\* The table is an insert-only map to its readers.
Published == {b \in Bases : \E s \in Slots : keys[s] = b}
SlotOf(b) == CHOOSE s \in Slots : keys[s] = b
Entries == [b \in Bases |-> IF b \in Published
                              THEN <<vals[SlotOf(b)], stripes[SlotOf(b)]>>
                              ELSE None]

Map == INSTANCE OwnerMap WITH entries <- Entries, asked <- rbase

ImplementsOwnerMap == Map!Spec

-----------------------------------------------------------------------------
(* The inductive invariant of the proofs, for one Mutex.                    *)

Serial == \A v, w \in Writers : Busy(v) /\ Busy(w) => v = w

\* Where an insert is, and what it has written into the slot it found empty.
WriterInv ==
  \A w \in Writers : Busy(w) =>
    /\ wbase[w] \in mapped /\ wpay[w] \in Payloads
    /\ owner[wbase[w]] = wpay[w]
    /\ \A j \in 0 .. wi[w] - 1 :
         keys[Slot(wbase[w], j)] \notin {Empty, wbase[w]}
    /\ wpc[w] # "load" => keys[At(w)] = Empty
    /\ wpc[w] \in {"stripe", "cas"} => vals[At(w)] = wpay[w][1]
    /\ wpc[w] = "cas" => stripes[At(w)] = wpay[w][2]

\* Where a lookup is, and what it has read.
ReaderInv ==
  \A r \in Readers :
    /\ rpc[r] = "idle" <=> rbase[r] = None
    /\ rpc[r] # "idle" =>
         /\ rbase[r] \in done \/ rbase[r] \notin mapped
         /\ rbase[r] \in done =>
              \A j \in 0 .. ri[r] - 1 :
                keys[Slot(rbase[r], j)] \notin {Empty, rbase[r]}
    /\ rpc[r] \in {"val", "stripe"} => keys[Here(r)] = rbase[r]
    /\ rpc[r] = "stripe" => rval[r] = vals[Here(r)]

\* A key in the table is of a mapping in use.
KeysDone == /\ \A s \in Slots : keys[s] # Empty => keys[s] \in done
            /\ done \subseteq mapped
            /\ \A b \in mapped : owner[b] # None

RegistryInv == /\ TypeOK /\ Serial /\ WriterInv /\ ReaderInv /\ KeysDone
               /\ OwnPayload /\ DoneIsFound

=============================================================================
