--------------------------- MODULE ProtocolProofs ---------------------------
(***************************************************************************)
(* Proofs about three protocols between threads and processes: the owner   *)
(* tables that are probed without a lock, the ring of the observer shim,   *)
(* and the simulations of the server with their watchers.                  *)
(***************************************************************************)
EXTENDS OwnershipRegistry, ShimRing, Simulations, SequenceTheorems, TLAPS

-----------------------------------------------------------------------------
(***************************************************************************)
(* OwnershipRegistry.  Proofs about OwnershipRegistry for tables, probe    *)
(* bounds, hash functions and numbers of threads of any size, when one     *)
(* Mutex covers the inserts.                                               *)
(***************************************************************************)

\* slot_for and the probe loop stay inside the table.
LEMMA SlotFacts ==
  ASSUME NEW b \in Bases, NEW i \in Nat
  PROVE  Slot(b, i) \in Slots
  <1>1. Capacity \in Nat \ {0} /\ Home[b] \in 0 .. Capacity - 1
    BY RegistryAssumption DEF RegistryAssumption, Slots
  <1>2. \A n \in Nat : n % Capacity \in 0 .. Capacity - 1
    BY <1>1
  <1>3. Home[b] + i \in Nat
    BY <1>1
  <1> QED BY <1>2, <1>3 DEF Slot, Slots

\* The assumptions on the constants that the table's proofs use (registry.rs: 0 is no base).
LEMMA Names ==
  /\ Empty \notin Bases /\ None \notin Bases /\ None \notin Payloads
  /\ ProbeMax \in Nat \ {0} /\ OneLock \in BOOLEAN
  BY RegistryAssumption DEF RegistryAssumption, Payloads

\* What a busy thread points at.
LEMMA WriterFacts ==
  ASSUME TypeOK, KeysDone, WriterInv, NEW w \in Writers, Busy(w)
  PROVE  /\ wbase[w] \in Bases /\ wi[w] \in Nat /\ At(w) \in Slots
         /\ wpay[w] \in Classes \X Writers
         /\ wpc[w] \in {"load", "val", "stripe", "cas"}
  <1>1. wbase[w] \in Bases /\ wi[w] \in Nat
    BY Names DEF TypeOK, WriterInv
  <1> QED BY <1>1, SlotFacts DEF At, WriterInv, Payloads, TypeOK, Busy

\* What a busy lookup points at.
LEMMA ReaderFacts ==
  ASSUME TypeOK, ReaderInv, NEW r \in Readers, rpc[r] # "idle"
  PROVE  rbase[r] \in Bases /\ ri[r] \in Nat /\ Here(r) \in Slots
  <1>1. rbase[r] \in Bases /\ ri[r] \in Nat
    BY Names DEF TypeOK, ReaderInv
  <1> QED BY <1>1, SlotFacts DEF Here

-----------------------------------------------------------------------------
\* The shape of the state is kept.
LEMMA TypeStep ==
  ASSUME RegistryInv, [Next]_vars
  PROVE  TypeOK'
  <1> USE DEF vars, tableVars, writerVars, readerVars, mapVars
  <1>t. TypeOK
    BY DEF RegistryInv
  <1>n. ProbeMax \in Nat \ {0} /\ 0 \in 0 .. ProbeMax - 1
    BY Names
  <1>1. ASSUME NEW w \in Writers, NEW b \in Bases, NEW c \in Classes, Refill(w, b, c)
        PROVE  TypeOK'
    <2>1. <<c, w>> \in Payloads
      BY DEF Payloads
    <2> QED BY <1>1, <1>t, <1>n, <2>1 DEF Refill, Begin, TypeOK
  <1>2. ASSUME NEW w \in Writers, NEW b \in Bases, Reregister(w, b) PROVE TypeOK'
    BY <1>2, <1>t, <1>n DEF Reregister, Begin, TypeOK
  <1>a. ASSUME NEW w \in Writers, Busy(w), Registered(w) \/ Advance(w)
        PROVE  /\ wpc' \in [Writers -> {"idle", "load", "val", "stripe", "cas"}]
               /\ wbase' \in [Writers -> Bases \union {None}]
               /\ wpay' \in [Writers -> Payloads \union {None}]
               /\ wi' \in [Writers -> 0 .. ProbeMax - 1]
               /\ mapped' \in SUBSET Bases /\ done' \in SUBSET Bases
               /\ owner' \in [Bases -> Payloads \union {None}]
    <2>1. wbase[w] \in Bases
      BY <1>a, WriterFacts DEF RegistryInv
    <2>2. CASE Registered(w)
      BY <2>1, <2>2, <1>t, <1>n DEF Registered, Finished, TypeOK
    <2>3. CASE Advance(w) /\ MoreSlots(w)
      <3>1. wi[w] + 1 \in 0 .. ProbeMax - 1
        BY <2>3, <1>t, <1>n DEF MoreSlots, TypeOK
      <3> QED BY <2>3, <3>1, <1>t DEF Advance, TypeOK
    <2>4. CASE Advance(w) /\ ~MoreSlots(w)
      BY <2>4, <2>1, <1>t, <1>n DEF Advance, Finished, TypeOK
    <2> QED BY <1>a, <2>2, <2>3, <2>4
  <1>3. ASSUME NEW w \in Writers, LoadKey(w) PROVE TypeOK'
    <2>1. Busy(w)
      BY <1>3 DEF LoadKey, Busy
    <2>2. CASE Registered(w) \/ Advance(w)
      BY <2>2, <2>1, <1>a, <1>3, <1>t DEF LoadKey, TypeOK
    <2>3. CASE ~(Registered(w) \/ Advance(w))
      BY <2>3, <1>3, <1>t DEF LoadKey, TypeOK
    <2> QED BY <2>2, <2>3
  <1>4. ASSUME NEW w \in Writers, StoreVal(w) PROVE TypeOK'
    <2>1. Busy(w)
      BY <1>4 DEF StoreVal, Busy
    <2>2. At(w) \in Slots /\ wpay[w][1] \in Classes
      BY <2>1, WriterFacts DEF RegistryInv
    <2> QED BY <1>4, <2>2, <1>t DEF StoreVal, TypeOK
  <1>5. ASSUME NEW w \in Writers, StoreStripe(w) PROVE TypeOK'
    <2>1. Busy(w)
      BY <1>5 DEF StoreStripe, Busy
    <2>2. At(w) \in Slots /\ wpay[w][2] \in Writers
      BY <2>1, WriterFacts DEF RegistryInv
    <2> QED BY <1>5, <2>2, <1>t DEF StoreStripe, StripeWord, TypeOK
  <1>6. ASSUME NEW w \in Writers, Publish(w) PROVE TypeOK'
    <2>1. Busy(w)
      BY <1>6 DEF Publish, Busy
    <2>2. At(w) \in Slots /\ wbase[w] \in Bases
      BY <2>1, WriterFacts DEF RegistryInv
    <2>3. keys' \in [Slots -> Bases \union {Empty}]
      BY <1>6, <2>2, <1>t DEF Publish, TypeOK
    <2>4. Registered(w) \/ Advance(w)
      BY <1>6 DEF Publish
    <2> QED BY <1>6, <2>1, <2>3, <2>4, <1>a, <1>t DEF Publish, TypeOK
  <1>7. ASSUME NEW r \in Readers, NEW b \in Bases, Ask(r, b) PROVE TypeOK'
    BY <1>7, <1>t, <1>n DEF Ask, TypeOK
  <1>8. ASSUME NEW r \in Readers, ReadKey(r) PROVE TypeOK'
    BY <1>8, <1>t, <1>n DEF ReadKey, Answer, MoreToRead, TypeOK
  <1>9. ASSUME NEW r \in Readers, ReadVal(r) PROVE TypeOK'
    <2>1. Here(r) \in Slots
      BY <1>9, ReaderFacts DEF RegistryInv, ReadVal
    <2> QED BY <1>9, <2>1, <1>t DEF ReadVal, TypeOK
  <1>10. ASSUME NEW r \in Readers, ReadStripe(r) PROVE TypeOK'
    BY <1>10, <1>t, <1>n DEF ReadStripe, Answer, TypeOK
  <1>11. CASE UNCHANGED vars
    BY <1>11, <1>t DEF TypeOK
  <1> QED BY <1>1, <1>2, <1>3, <1>4, <1>5, <1>6, <1>7, <1>8, <1>9, <1>10, <1>11
        DEF Next, Insert, Lookup

-----------------------------------------------------------------------------
\* With one Mutex, one insert at a time.
LEMMA SerialStep ==
  ASSUME OneLock, RegistryInv, [Next]_vars
  PROVE  Serial'
  <1> USE DEF vars, tableVars, writerVars, readerVars, mapVars
  <1>t. Serial /\ wpc \in [Writers -> {"idle", "load", "val", "stripe", "cas"}]
    BY DEF RegistryInv, TypeOK
  <1>1. ASSUME NEW w \in Writers, NEW b, NEW p, Begin(w, b, p) PROVE Serial'
    BY <1>1, <1>t DEF Begin, Locked, Serial, Busy
  <1>2. ASSUME NEW w \in Writers, Insert(w) PROVE Serial'
    <2>1. \A v \in Writers : Busy(v)' => Busy(v)
      BY <1>2, <1>t DEF Insert, LoadKey, StoreVal, StoreStripe, Publish, Registered,
         Finished, Advance, Busy
    <2> QED BY <2>1, <1>t DEF Serial
  <1>3. CASE UNCHANGED wpc
    BY <1>3, <1>t DEF Serial, Busy
  <1> QED BY <1>1, <1>2, <1>3 DEF Next, Refill, Reregister, Lookup, ReadKey, ReadVal,
          ReadStripe, Ask, Answer

\* A step changes the table and the registered mappings in one of these ways.
LEMMA TableSteps ==
  ASSUME RegistryInv, [Next]_vars
  PROVE  \/ UNCHANGED <<tableVars, mapVars>>
         \/ \E w \in Writers, b \in Bases, c \in Classes : Refill(w, b, c)
         \/ \E w \in Writers : \/ StoreVal(w)
                               \/ StoreStripe(w)
                               \/ LoadKey(w)
                               \/ Publish(w)
  BY DEF Next, Insert, Lookup, vars, tableVars, writerVars, readerVars, mapVars,
     Reregister, Begin, ReadKey, ReadVal, ReadStripe, Ask, Answer

\* No key is ever overwritten or removed, and only an exchange adds one.
LEMMA KeysStay ==
  ASSUME RegistryInv, [Next]_vars
  PROVE  \A s \in Slots : keys[s] # Empty => keys'[s] = keys[s]
  <1> USE DEF tableVars
  <1>1. keys \in [Slots -> Bases \union {Empty}]
    BY DEF RegistryInv, TypeOK
  <1>2. ASSUME NEW w \in Writers, Publish(w)
        PROVE  \A s \in Slots : keys[s] # Empty => keys'[s] = keys[s]
    BY <1>1, <1>2 DEF Publish
  <1> QED BY <1>1, <1>2, TableSteps DEF Refill, Begin, StoreVal, StoreStripe, LoadKey

\* A key in the table is of a finished insert, and what is registered was mapped.
LEMMA KeysDoneStep ==
  ASSUME RegistryInv, [Next]_vars
  PROVE  KeysDone'
  <1> USE DEF tableVars, mapVars
  <1>t. /\ KeysDone /\ keys \in [Slots -> Bases \union {Empty}]
        /\ owner \in [Bases -> Payloads \union {None}] /\ mapped \subseteq Bases
    BY DEF RegistryInv, TypeOK
  <1>1. ASSUME NEW w \in Writers, NEW b \in Bases, NEW c \in Classes, Refill(w, b, c)
        PROVE  KeysDone'
    <2>1. <<c, w>> # None
      BY Names DEF Payloads
    <2> QED BY <1>1, <2>1, <1>t DEF Refill, Begin, KeysDone
  <1>2. ASSUME NEW w \in Writers, Busy(w), Registered(w), UNCHANGED keys
        PROVE  KeysDone'
    BY <1>2, <1>t DEF Registered, KeysDone, RegistryInv, WriterInv
  <1>3. ASSUME NEW w \in Writers, Busy(w), Advance(w), UNCHANGED keys,
               keys[At(w)] # wbase[w]
        PROVE  KeysDone'
    <2>1. CASE MoreSlots(w)
      BY <1>3, <2>1, <1>t DEF Advance, KeysDone
    <2>2. CASE ~MoreSlots(w)
      \* A registered base would have been found within the window.
      <3>1. wbase[w] \notin done
        <4> SUFFICES ASSUME wbase[w] \in done PROVE FALSE
          OBVIOUS
        <4>1. PICK i \in 0 .. ProbeMax - 1 : keys[Slot(wbase[w], i)] = wbase[w]
          BY DEF RegistryInv, DoneIsFound, Reachable
        <4>2. wi[w] \in 0 .. ProbeMax - 1 /\ wi[w] + 1 >= ProbeMax
          BY <2>2, Names DEF MoreSlots, RegistryInv, TypeOK
        <4>3. i \in 0 .. wi[w] - 1 \/ i = wi[w]
          BY <4>2, Names
        <4> QED BY <4>1, <4>3, <1>3 DEF RegistryInv, WriterInv, At
      <3>2. UNCHANGED <<keys, done>> /\ mapped' = mapped \ {wbase[w]}
        BY <1>3, <2>2 DEF Advance
      <3>3. \A b \in mapped' : owner'[b] = owner[b]
        BY <1>3, <2>2, <1>t DEF Advance
      <3> QED BY <3>1, <3>2, <3>3, <1>t DEF KeysDone
    <2> QED BY <2>1, <2>2
  <1>4. ASSUME NEW w \in Writers, LoadKey(w) PROVE KeysDone'
    BY <1>4, <1>2, <1>3, <1>t DEF LoadKey, Busy, KeysDone
  <1>5. ASSUME NEW w \in Writers, Publish(w) PROVE KeysDone'
    <2>1. CASE keys' = [keys EXCEPT ![At(w)] = wbase[w]] /\ Registered(w)
      BY <1>5, <2>1, <1>t DEF Registered, KeysDone, RegistryInv, WriterInv, Publish, Busy
    <2>2. CASE UNCHANGED keys
      BY <1>5, <2>2, <1>2, <1>3 DEF Publish, Busy
    <2> QED BY <1>5, <2>1, <2>2 DEF Publish
  <1>6. ASSUME NEW w \in Writers, StoreVal(w) \/ StoreStripe(w) PROVE KeysDone'
    BY <1>6, <1>t DEF StoreVal, StoreStripe, KeysDone
  <1>7. CASE UNCHANGED <<tableVars, mapVars>>
    BY <1>7, <1>t DEF KeysDone
  <1> QED BY <1>1, <1>4, <1>5, <1>6, <1>7, TableSteps

-----------------------------------------------------------------------------
\* No other insert is under way, so nobody touches the slot an insert found
\* empty; without OneLock this is where the argument fails.
LEMMA Alone ==
  ASSUME Serial, NEW v \in Writers, NEW w \in Writers, Busy(v), Busy(w)
  PROVE  v = w
  BY DEF Serial

\* owner of a base changes only when the base is mapped or unmapped.
LEMMA OwnerKept ==
  ASSUME RegistryInv, [Next]_vars
  PROVE  \A b \in done : b \in done' /\ owner'[b] = owner[b]
  <1> USE DEF tableVars, mapVars
  <1>t. KeysDone /\ KeysDone' /\ owner \in [Bases -> Payloads \union {None}]
    BY KeysDoneStep DEF RegistryInv, TypeOK
  <1>1. ASSUME NEW w \in Writers, NEW b \in Bases, NEW c \in Classes, Refill(w, b, c)
        PROVE  \A d \in done : d \in done' /\ owner'[d] = owner[d]
    BY <1>1, <1>t DEF Refill, KeysDone
  <1>2. ASSUME NEW w \in Writers, LoadKey(w) \/ Publish(w)
        PROVE  \A d \in done : d \in done' /\ owner'[d] = owner[d]
    <2>1. CASE UNCHANGED owner
      BY <1>2, <2>1 DEF LoadKey, Publish, Registered, Advance
    <2>2. CASE done' = done /\ mapped' = mapped \ {wbase[w]}
                 /\ owner' = [owner EXCEPT ![wbase[w]] = None]
      BY <2>2, <1>t DEF KeysDone
    <2> QED BY <1>2, <2>1, <2>2 DEF LoadKey, Publish, Registered, Advance
  <1>3. ASSUME NEW w \in Writers, StoreVal(w) \/ StoreStripe(w)
        PROVE  \A d \in done : d \in done' /\ owner'[d] = owner[d]
    BY <1>3 DEF StoreVal, StoreStripe
  <1> QED BY <1>1, <1>2, <1>3, TableSteps

\* Payload words change only for the key of the insert under way.
LEMMA OwnPayloadStep ==
  ASSUME OneLock, RegistryInv, [Next]_vars
  PROVE  OwnPayload'
  <1> USE DEF tableVars
  <1>t. /\ OwnPayload /\ KeysDone /\ WriterInv
        /\ keys \in [Slots -> Bases \union {Empty}]
        /\ vals \in [Slots -> Classes \union {None}]
        /\ stripes \in [Slots -> Writers \union {None}]
    BY DEF RegistryInv, TypeOK
  <1>o. \A b \in done : owner'[b] = owner[b]
    BY OwnerKept
  \* The keys that were there keep their payload.
  <1>1. ASSUME UNCHANGED tableVars PROVE OwnPayload'
    BY <1>1, <1>t, <1>o DEF OwnPayload, KeysDone
  <1>2. ASSUME NEW w \in Writers, StoreVal(w) \/ StoreStripe(w) PROVE OwnPayload'
    <2>1. keys[At(w)] = Empty
      BY <1>2, <1>t DEF WriterInv, Busy, StoreVal, StoreStripe
    <2> QED BY <1>2, <2>1, <1>t, <1>o DEF OwnPayload, KeysDone, StoreVal, StoreStripe
  <1>3. ASSUME NEW w \in Writers, Publish(w) PROVE OwnPayload'
    <2>1. CASE UNCHANGED keys
      BY <1>1, <1>3, <2>1 DEF Publish
    <2>2. CASE keys' = [keys EXCEPT ![At(w)] = wbase[w]] /\ Registered(w)
      <3>1. Busy(w)
        BY <1>3 DEF Publish, Busy
      <3>2. At(w) \in Slots /\ wpay[w] \in Classes \X Writers
        BY <3>1, WriterFacts DEF RegistryInv
      <3>3. /\ vals[At(w)] = wpay[w][1] /\ stripes[At(w)] = wpay[w][2]
            /\ owner[wbase[w]] = wpay[w]
        BY <1>3, <3>1, <1>t DEF WriterInv, Publish
      <3>4. owner' = owner /\ vals' = vals /\ stripes' = stripes
        BY <1>3, <2>2 DEF Publish, Registered
      <3>5. wpay[w] = <<wpay[w][1], wpay[w][2]>>
        BY <3>2
      <3> QED BY <2>2, <3>2, <3>3, <3>4, <3>5, <1>t DEF OwnPayload
    <2> QED BY <1>3, <2>1, <2>2 DEF Publish
  <1>4. ASSUME NEW w \in Writers, LoadKey(w) PROVE OwnPayload'
    BY <1>1, <1>4 DEF LoadKey
  <1>5. ASSUME NEW w \in Writers, NEW b \in Bases, NEW c \in Classes, Refill(w, b, c)
        PROVE  OwnPayload'
    BY <1>1, <1>5 DEF Refill, Begin
  <1> QED BY <1>1, <1>2, <1>3, <1>4, <1>5, TableSteps

\* What is reachable stays reachable.
LEMMA ReachableKept ==
  ASSUME RegistryInv, [Next]_vars, NEW b \in Bases, Reachable(b)
  PROVE  Reachable(b)'
  <1>1. PICK i \in 0 .. ProbeMax - 1 :
          /\ keys[Slot(b, i)] = b
          /\ \A j \in 0 .. i - 1 : keys[Slot(b, j)] # Empty
    BY DEF Reachable
  <1>2. \A j \in 0 .. i : Slot(b, j) \in Slots
    BY SlotFacts
  <1>3. b # Empty /\ i \in 0 .. i
    BY Names
  <1>4. \A j \in 0 .. i - 1 : j \in 0 .. i
    BY Names
  <1>5. \A j \in 0 .. i - 1 : keys'[Slot(b, j)] # Empty
    BY <1>1, <1>2, <1>4, KeysStay
  <1>6. keys'[Slot(b, i)] = b
    BY <1>1, <1>2, <1>3, KeysStay
  <1> QED BY <1>5, <1>6 DEF Reachable

\* A finished insert stays within reach of a lookup: keys never leave the table.
LEMMA DoneIsFoundStep ==
  ASSUME RegistryInv, [Next]_vars
  PROVE  DoneIsFound'
  <1> USE DEF tableVars, mapVars
  <1>t. DoneIsFound /\ TypeOK /\ KeysDone /\ WriterInv /\ done \subseteq Bases
    BY DEF RegistryInv, TypeOK
  <1>1. \A b \in done : Reachable(b)'
    BY ReachableKept, <1>t DEF DoneIsFound
  <1>2. ASSUME done' \subseteq done PROVE DoneIsFound'
    BY <1>1, <1>2 DEF DoneIsFound
  <1>3. ASSUME NEW w \in Writers, Busy(w), Registered(w), keys'[At(w)] = wbase[w]
        PROVE  DoneIsFound'
    <2>1. /\ wbase[w] \in Bases /\ wi[w] \in 0 .. ProbeMax - 1
          /\ \A j \in 0 .. wi[w] - 1 : keys[Slot(wbase[w], j)] # Empty
      BY <1>3, WriterFacts, <1>t DEF WriterInv, TypeOK
    <2>2. \A j \in 0 .. wi[w] - 1 : j \in Nat
      BY <2>1, Names
    <2>3. \A j \in 0 .. wi[w] - 1 : keys'[Slot(wbase[w], j)] # Empty
      BY <2>1, <2>2, SlotFacts, KeysStay
    <2>4. ASSUME NEW b \in Bases, b = wbase[w] PROVE Reachable(b)'
      <3>1. wi[w] \in 0 .. ProbeMax - 1 /\ keys'[Slot(b, wi[w])] = b
        BY <1>3, <2>1, <2>4 DEF At
      <3>2. \A j \in 0 .. wi[w] - 1 : keys'[Slot(b, j)] # Empty
        BY <2>3, <2>4
      <3> QED BY <3>1, <3>2 DEF Reachable
    <2> QED BY <1>1, <2>1, <2>4, <1>3 DEF DoneIsFound, Registered
  <1>4. ASSUME NEW w \in Writers, LoadKey(w) PROVE DoneIsFound'
    BY <1>4, <1>2, <1>3 DEF LoadKey, Busy, Advance
  <1>5. ASSUME NEW w \in Writers, Publish(w) PROVE DoneIsFound'
    <2>1. Busy(w)
      BY <1>5 DEF Publish, Busy
    <2>2. At(w) \in Slots /\ keys \in [Slots -> Bases \union {Empty}]
      BY <2>1, WriterFacts, <1>t DEF TypeOK
    <2> QED BY <1>5, <2>1, <2>2, <1>2, <1>3 DEF Publish, Advance
  <1> QED BY <1>2, <1>4, <1>5, TableSteps DEF Refill, StoreVal, StoreStripe

-----------------------------------------------------------------------------
\* While an insert is under way nobody else writes.

\* An insert under way has passed only slots of other bases and writes where no key is.
LEMMA WriterStep ==
  ASSUME OneLock, RegistryInv, [Next]_vars
  PROVE  WriterInv'
  <1> USE DEF vars, tableVars, writerVars, readerVars, mapVars
  <1>t. TypeOK /\ Serial /\ WriterInv /\ KeysDone
    BY DEF RegistryInv
  <1> DEFINE Good(w) ==
        /\ wbase[w] \in mapped /\ wpay[w] \in Payloads
        /\ owner[wbase[w]] = wpay[w]
        /\ \A j \in 0 .. wi[w] - 1 :
             keys[Slot(wbase[w], j)] \notin {Empty, wbase[w]}
        /\ wpc[w] # "load" => keys[At(w)] = Empty
        /\ wpc[w] \in {"stripe", "cas"} => vals[At(w)] = wpay[w][1]
        /\ wpc[w] = "cas" => stripes[At(w)] = wpay[w][2]
  <1>0. SUFFICES ASSUME NEW w \in Writers, Busy(w)' PROVE Good(w)'
    BY DEF WriterInv
  <1>b. Busy(w) => Good(w)
    BY <1>t DEF WriterInv
  <1> HIDE DEF Good
  <1>f. Busy(w) => /\ wbase[w] \in Bases /\ wi[w] \in 0 .. ProbeMax - 1
                   /\ At(w) \in Slots /\ wpay[w] \in Payloads
    BY WriterFacts, <1>t DEF TypeOK, WriterInv
  \* A step that leaves the table and this insert alone.
  <1>s. ASSUME Busy(w), UNCHANGED <<tableVars, writerVars, mapVars>> PROVE Good(w)'
    BY <1>s, <1>b DEF Good, At
  \* Another writer cannot be the one that moves.
  <1>o. ASSUME NEW v \in Writers, v # w, Insert(v) PROVE FALSE
    <2>1. Busy(v)
      BY <1>o DEF Insert, LoadKey, StoreVal, StoreStripe, Publish, Busy
    <2>2. ~Busy(w)
      BY <2>1, <1>o, <1>t DEF Serial
    <2> QED BY <1>o, <2>2, <1>0, <1>t DEF Insert, LoadKey, StoreVal, StoreStripe,
            Publish, Registered, Finished, Advance, Busy, TypeOK
  <1>p. ASSUME NEW v \in Writers, v # w, NEW b, NEW p, Begin(v, b, p) PROVE FALSE
    BY <1>p, <1>0, <1>t DEF Begin, Locked, Busy, TypeOK
  <1>1. ASSUME NEW b \in Bases, NEW c \in Classes, Refill(w, b, c) PROVE Good(w)'
    <2>1. /\ wbase'[w] = b /\ wi'[w] = 0 /\ wpay'[w] = <<c, w>>
          /\ wpc'[w] = "load" /\ owner'[b] = <<c, w>> /\ b \in mapped'
      BY <1>1, <1>t DEF Refill, Begin, TypeOK
    <2> QED BY <2>1 DEF Good, Payloads
  <1>2. ASSUME NEW b \in Bases, Reregister(w, b) PROVE Good(w)'
    <2>1. /\ wbase'[w] = b /\ wi'[w] = 0 /\ wpay'[w] = owner[b]
          /\ wpc'[w] = "load" /\ UNCHANGED mapVars /\ b \in mapped
      BY <1>2, <1>t DEF Reregister, Begin, TypeOK, KeysDone
    <2>2. owner[b] \in Payloads
      BY <2>1, <1>t DEF TypeOK, KeysDone
    <2> QED BY <2>1, <2>2 DEF Good
  \* The next slot: the one just seen holds another key.
  <1>a. ASSUME Busy(w), Advance(w), UNCHANGED tableVars,
               keys[At(w)] \notin {Empty, wbase[w]}
        PROVE  Good(w)'
    <2>1. MoreSlots(w)
      BY <1>a, <1>0, <1>t DEF Advance, Finished, Busy, TypeOK
    <2>2. /\ wi'[w] = wi[w] + 1 /\ wpc'[w] = "load" /\ UNCHANGED <<wbase, wpay, mapVars>>
      BY <1>a, <2>1, <1>t DEF Advance, TypeOK
    <2>3. \A j \in 0 .. wi'[w] - 1 : j \in 0 .. wi[w] - 1 \/ j = wi[w]
      BY <2>2, <1>a, <1>f, Names
    <2>4. \A j \in 0 .. wi'[w] - 1 : keys[Slot(wbase[w], j)] \notin {Empty, wbase[w]}
      BY <2>3, <1>a, <1>b DEF Good, At
    <2> QED BY <2>2, <2>4, <1>a, <1>b DEF Good
  <1>3. ASSUME LoadKey(w) PROVE Good(w)'
    <2>1. Busy(w)
      BY <1>3 DEF LoadKey, Busy
    <2>2. ~Registered(w)
      BY <1>0, <1>t DEF Registered, Finished, Busy, TypeOK
    <2>3. CASE Advance(w) /\ keys[At(w)] \notin {Empty, wbase[w]}
      BY <1>3, <2>1, <2>3, <1>a DEF LoadKey
    <2>4. CASE keys[At(w)] = Empty /\ wpc' = [wpc EXCEPT ![w] = "val"]
               /\ UNCHANGED <<wbase, wpay, wi, mapVars>>
      BY <1>3, <2>1, <2>4, <1>b, <1>t DEF LoadKey, Good, At, TypeOK
    <2> QED BY <1>3, <2>2, <2>3, <2>4 DEF LoadKey
  <1>4. ASSUME StoreVal(w) PROVE Good(w)'
    <2>1. Busy(w) /\ wpc'[w] = "stripe" /\ wpc[w] = "val"
      BY <1>4, <1>t DEF StoreVal, Busy, TypeOK
    <2>2. vals'[At(w)] = wpay[w][1]
      BY <1>4, <2>1, <1>f, <1>t DEF StoreVal, TypeOK
    <2> QED BY <1>4, <2>1, <2>2, <1>b DEF StoreVal, Good, At
  <1>5. ASSUME StoreStripe(w) PROVE Good(w)'
    <2>1. Busy(w) /\ wpc'[w] = "cas" /\ wpc[w] = "stripe"
      BY <1>5, <1>t DEF StoreStripe, Busy, TypeOK
    <2>2. stripes'[At(w)] = wpay[w][2]
      BY <1>5, <2>1, <1>f, <1>t DEF StoreStripe, StripeWord, TypeOK
    <2> QED BY <1>5, <2>1, <2>2, <1>b DEF StoreStripe, Good, At
  <1>6. ASSUME Publish(w) PROVE Good(w)'
    <2>1. Busy(w) /\ keys[At(w)] = Empty
      BY <1>6, <1>b DEF Publish, Busy, Good
    <2>2. ~Registered(w)
      BY <1>0, <1>t DEF Registered, Finished, Busy, TypeOK
    <2> QED BY <1>6, <2>1, <2>2, <1>f, Names DEF Publish
  <1>7. ASSUME UNCHANGED <<tableVars, writerVars, mapVars>> PROVE Good(w)'
    BY <1>7, <1>s, <1>0 DEF Busy
  <1> QED BY <1>o, <1>p, <1>1, <1>2, <1>3, <1>4, <1>5, <1>6, <1>7
          DEF Next, Insert, Refill, Reregister, Lookup, ReadKey, ReadVal, ReadStripe, Ask

-----------------------------------------------------------------------------
\* The words of a published slot do not change.
LEMMA WordsStay ==
  ASSUME RegistryInv, [Next]_vars
  PROVE  \A s \in Slots : keys[s] # Empty => /\ vals'[s] = vals[s]
                                             /\ stripes'[s] = stripes[s]
  <1> USE DEF tableVars
  <1>t. TypeOK /\ WriterInv
    BY DEF RegistryInv
  <1>1. ASSUME NEW w \in Writers, StoreVal(w) \/ StoreStripe(w)
        PROVE  \A s \in Slots : keys[s] # Empty => /\ vals'[s] = vals[s]
                                                   /\ stripes'[s] = stripes[s]
    <2>1. keys[At(w)] = Empty
      BY <1>1, <1>t DEF WriterInv, Busy, StoreVal, StoreStripe
    <2> QED BY <1>1, <2>1, <1>t DEF StoreVal, StoreStripe, TypeOK
  <1> QED BY <1>1, TableSteps DEF Refill, Begin, LoadKey, Publish

\* A base that is looked up neither appears nor disappears meanwhile.
LEMMA AskedStays ==
  ASSUME RegistryInv, [Next]_vars, NEW r \in Readers, rpc[r] # "idle"
  PROVE  /\ rbase[r] \in done \/ rbase[r] \notin mapped'
         /\ rbase[r] \in done' <=> rbase[r] \in done
  <1> USE DEF tableVars, mapVars
  <1>t. ReaderInv /\ WriterInv /\ KeysDone
    BY DEF RegistryInv
  <1>1. rbase[r] \in done \/ rbase[r] \notin mapped
    BY <1>t DEF ReaderInv
  <1>2. rbase[r] \in done => rbase[r] \in done'
    BY OwnerKept
  <1>3. ASSUME NEW w \in Writers, NEW b \in Bases, NEW c \in Classes, Refill(w, b, c)
        PROVE  rbase[r] # b /\ done' = done /\ mapped' = mapped \union {b}
    BY <1>3 DEF Refill
  <1>4. ASSUME NEW w \in Writers, LoadKey(w) \/ Publish(w)
        PROVE  /\ mapped' \subseteq mapped
               /\ done' = done \/ (done' = done \union {wbase[w]} /\ wbase[w] \in mapped)
    BY <1>4, <1>t DEF LoadKey, Publish, Registered, Advance, WriterInv, Busy
  <1>5. ASSUME NEW w \in Writers, StoreVal(w) \/ StoreStripe(w)
        PROVE  done' = done /\ mapped' = mapped
    BY <1>5 DEF StoreVal, StoreStripe
  <1> QED BY <1>1, <1>2, <1>3, <1>4, <1>5, <1>t, TableSteps DEF KeysDone

\* A lookup of a registered base has passed only slots of other bases.
LEMMA ReaderStep ==
  ASSUME RegistryInv, [Next]_vars
  PROVE  ReaderInv'
  <1> USE DEF vars, tableVars, writerVars, readerVars, mapVars
  <1>t. TypeOK /\ ReaderInv /\ KeysDone
    BY DEF RegistryInv
  <1> DEFINE Good(r) ==
        /\ rpc[r] = "idle" <=> rbase[r] = None
        /\ rpc[r] # "idle" =>
             /\ rbase[r] \in done \/ rbase[r] \notin mapped
             /\ rbase[r] \in done =>
                  \A j \in 0 .. ri[r] - 1 :
                    keys[Slot(rbase[r], j)] \notin {Empty, rbase[r]}
        /\ rpc[r] \in {"val", "stripe"} => keys[Here(r)] = rbase[r]
        /\ rpc[r] = "stripe" => rval[r] = vals[Here(r)]
  <1>0. SUFFICES ASSUME NEW r \in Readers PROVE Good(r)'
    BY DEF ReaderInv
  <1>b. Good(r)
    BY <1>t DEF ReaderInv
  <1> HIDE DEF Good
  <1>f. rpc[r] # "idle" => /\ rbase[r] \in Bases /\ ri[r] \in 0 .. ProbeMax - 1
                           /\ Here(r) \in Slots
    BY ReaderFacts, <1>t DEF TypeOK
  \* A step of anyone else.
  <1>s. ASSUME rpc'[r] = rpc[r], rbase'[r] = rbase[r], ri'[r] = ri[r], rval'[r] = rval[r]
        PROVE  Good(r)'
    <2>1. CASE rpc[r] = "idle"
      BY <1>s, <2>1, <1>b DEF Good
    <2>2. CASE rpc[r] # "idle"
      <3>1. /\ rbase[r] \in done' \/ rbase[r] \notin mapped'
            /\ rbase[r] \in done' => rbase[r] \in done
        BY <2>2, AskedStays
      <3>2. \A j \in 0 .. ri[r] - 1 : Slot(rbase[r], j) \in Slots
        BY <2>2, <1>f, SlotFacts
      <3>3. rbase[r] \in done =>
              \A j \in 0 .. ri[r] - 1 : keys'[Slot(rbase[r], j)] \notin {Empty, rbase[r]}
        BY <3>2, <2>2, <1>b, KeysStay DEF Good
      <3>4. rpc[r] \in {"val", "stripe"} =>
              keys'[Here(r)] = rbase[r] /\ vals'[Here(r)] = vals[Here(r)]
        BY <2>2, <1>b, <1>f, Names, KeysStay, WordsStay DEF Good
      <3> QED BY <1>s, <2>2, <3>1, <3>3, <3>4, <1>b DEF Good, Here
    <2> QED BY <2>1, <2>2
  <1>1. ASSUME NEW b \in Bases, Ask(r, b) PROVE Good(r)'
    <2>1. /\ rpc'[r] = "key" /\ rbase'[r] = b /\ ri'[r] = 0
          /\ UNCHANGED mapVars
          /\ b \in done \/ b \notin mapped
      BY <1>1, <1>t DEF Ask, TypeOK
    <2> QED BY <2>1, Names DEF Good
  <1>2. ASSUME ReadKey(r) PROVE Good(r)'
    <2>1. rpc[r] = "key"
      BY <1>2 DEF ReadKey
    <2>2. CASE rpc'[r] = "idle" /\ rbase'[r] = None
      BY <2>2 DEF Good
    <2>3. CASE rpc' = [rpc EXCEPT ![r] = "val"] /\ keys[Here(r)] = rbase[r]
               /\ UNCHANGED <<rbase, ri, rval>>
      BY <1>2, <2>1, <2>3, <1>b, <1>t DEF ReadKey, Good, Here, TypeOK
    <2>4. CASE ri' = [ri EXCEPT ![r] = @ + 1] /\ UNCHANGED <<rpc, rbase, rval>>
               /\ keys[Here(r)] \notin {Empty, rbase[r]}
      <3>1. ri'[r] = ri[r] + 1
        BY <2>4, <1>t DEF TypeOK
      <3>2. \A j \in 0 .. ri'[r] - 1 : j \in 0 .. ri[r] - 1 \/ j = ri[r]
        BY <3>1, <2>1, <1>f, Names
      <3>3. rbase[r] \in done =>
              \A j \in 0 .. ri'[r] - 1 : keys[Slot(rbase[r], j)] \notin {Empty, rbase[r]}
        BY <3>2, <2>4, <2>1, <1>b DEF Good, Here
      <3> QED BY <1>2, <2>1, <2>4, <3>3, <1>b DEF ReadKey, Good
    <2> QED BY <1>2, <2>2, <2>3, <2>4, <1>t DEF ReadKey, Answer, TypeOK
  <1>3. ASSUME ReadVal(r) PROVE Good(r)'
    BY <1>3, <1>b, <1>t DEF ReadVal, Good, Here, TypeOK
  <1>4. ASSUME ReadStripe(r) PROVE Good(r)'
    BY <1>4, <1>t DEF ReadStripe, Answer, Good, TypeOK
  <1>5. ASSUME NEW q \in Readers, q # r, Lookup(q) \/ \E b \in Bases : Ask(q, b)
        PROVE  Good(r)'
    BY <1>5, <1>s, <1>t DEF Lookup, Ask, ReadKey, ReadVal, ReadStripe, Answer, TypeOK
  <1>6. ASSUME UNCHANGED readerVars PROVE Good(r)'
    BY <1>6, <1>s
  <1>7. ASSUME NEW w \in Writers, Insert(w) PROVE UNCHANGED readerVars
    BY <1>7 DEF Insert, LoadKey, StoreVal, StoreStripe, Publish
  <1>8. ASSUME NEW w \in Writers, NEW b, NEW p, Begin(w, b, p) PROVE UNCHANGED readerVars
    BY <1>8 DEF Begin
  <1> QED BY <1>1, <1>2, <1>3, <1>4, <1>5, <1>6, <1>7, <1>8
          DEF Next, Lookup, Refill, Reregister

-----------------------------------------------------------------------------
\* The empty table satisfies the invariant.
LEMMA InvInit == Init => RegistryInv
  <1> SUFFICES ASSUME Init PROVE RegistryInv
    OBVIOUS
  <1>n. 0 \in 0 .. ProbeMax - 1
    BY Names
  <1>1. TypeOK
    BY <1>n DEF Init, TypeOK
  <1>2. Serial /\ WriterInv /\ ReaderInv /\ KeysDone /\ OwnPayload /\ DoneIsFound
    BY DEF Init, Serial, WriterInv, ReaderInv, KeysDone, OwnPayload, DoneIsFound, Busy
  <1> QED BY <1>1, <1>2 DEF RegistryInv

\* Every step of an insert or a lookup preserves the invariant.
LEMMA InvStep ==
  ASSUME OneLock, RegistryInv, [Next]_vars
  PROVE  RegistryInv'
  BY TypeStep, SerialStep, WriterStep, ReaderStep, KeysDoneStep, OwnPayloadStep,
     DoneIsFoundStep DEF RegistryInv

\* RegistryInv is inductive: for one Mutex it holds in every reachable state
\* of every table, whatever the hash function does.
THEOREM TableInductive ==
  ASSUME OneLock PROVE Spec => []RegistryInv
  <1>1. RegistryInv /\ [Next]_vars => RegistryInv'
    BY InvStep
  <1> QED BY InvInit, <1>1, PTL DEF Spec

\* registry.rs 142-147: payload before publish, with one writer, means that a
\* published slot always holds the payload of its own key.
THEOREM PayloadIsOwn ==
  ASSUME OneLock PROVE Spec => []OwnPayload
  <1>1. RegistryInv => OwnPayload
    BY DEF RegistryInv
  <1> QED BY TableInductive, <1>1, PTL

\* registry.rs 54-56: the probe bound never hides a registered base.
THEOREM NeverMissed ==
  ASSUME OneLock PROVE Spec => []DoneIsFound
  <1>1. RegistryInv => DoneIsFound
    BY DEF RegistryInv
  <1> QED BY TableInductive, <1>1, PTL

-----------------------------------------------------------------------------
\* OwnershipRegistry implements OwnerMap.

DoneEntries == [b \in Bases |-> IF b \in done THEN owner[b] ELSE None]

\* What the table says is what the registered mappings are for.
LEMMA EntriesAre == RegistryInv => Entries = DoneEntries
  <1> SUFFICES ASSUME RegistryInv PROVE Entries = DoneEntries
    OBVIOUS
  <1>1. Published = done
    <2>1. ASSUME NEW b \in done PROVE b \in Published
      <3>1. b \in Bases /\ b # Empty
        BY Names DEF RegistryInv, TypeOK
      <3>2. PICK i \in 0 .. ProbeMax - 1 : keys[Slot(b, i)] = b
        BY DEF RegistryInv, DoneIsFound, Reachable
      <3> QED BY <3>1, <3>2, SlotFacts DEF Published
    <2> QED BY <2>1, Names DEF Published, RegistryInv, KeysDone
  <1>2. ASSUME NEW b \in Published
        PROVE  <<vals[SlotOf(b)], stripes[SlotOf(b)]>> = owner[b]
    <2>1. SlotOf(b) \in Slots /\ keys[SlotOf(b)] = b /\ b # Empty
      BY Names DEF Published, SlotOf
    <2> QED BY <2>1 DEF RegistryInv, OwnPayload
  <1> QED BY <1>1, <1>2 DEF Entries, DoneEntries

\* The empty table is the empty map.
LEMMA MapInit == Init => Map!Init
  <1>1. Init => Entries = [b \in Bases |-> None]
    BY EntriesAre, InvInit DEF DoneEntries, Init
  <1> QED BY <1>1 DEF Init, Map!Init

\* A step of the table is a step of the map or leaves it as it is.
LEMMA MapStep ==
  ASSUME OneLock, RegistryInv, [Next]_vars, Entries = DoneEntries, Entries' = DoneEntries'
  PROVE  [Map!Next]_(Map!vars)
  <1> USE DEF vars, tableVars, writerVars, readerVars, mapVars
  <1>t. TypeOK /\ WriterInv /\ ReaderInv /\ KeysDone
    BY DEF RegistryInv
  <1>k. \A b \in done : b \in done' /\ owner'[b] = owner[b]
    BY OwnerKept
  <1>s. ASSUME done' = done, UNCHANGED <<rbase, told>> PROVE UNCHANGED Map!vars
    BY <1>s, <1>k DEF Map!vars, DoneEntries
  <1>1. ASSUME NEW w \in Writers, LoadKey(w) \/ Publish(w) PROVE [Map!Next]_(Map!vars)
    <2>1. Busy(w) /\ UNCHANGED <<rbase, told>>
      BY <1>1 DEF LoadKey, Publish, Busy
    <2>2. wbase[w] \in Bases /\ owner[wbase[w]] = wpay[w] /\ wpay[w] \in Payloads
      BY <2>1, WriterFacts, <1>t DEF WriterInv
    <2>3. done' = done \/ (done' = done \union {wbase[w]} /\ owner' = owner)
      BY <1>1 DEF LoadKey, Publish, Registered, Advance
    <2>4. CASE done' = done
      BY <2>1, <2>4, <1>s
    <2>5. CASE done' = done \union {wbase[w]} /\ owner' = owner /\ wbase[w] \notin done
      <3>1. Entries[wbase[w]] = None
        BY <2>2, <2>5 DEF DoneEntries
      <3>2. Entries' = [Entries EXCEPT ![wbase[w]] = wpay[w]]
        BY <2>2, <2>5 DEF DoneEntries
      <3>3. Map!Insert(wbase[w], wpay[w])
        BY <3>1, <3>2, <2>1 DEF Map!Insert
      <3> QED BY <3>3, <2>2 DEF Map!Next
    <2> QED BY <2>3, <2>4, <2>5
  <1>2. ASSUME NEW w \in Writers, StoreVal(w) \/ StoreStripe(w)
        PROVE  UNCHANGED Map!vars
    BY <1>2, <1>s DEF StoreVal, StoreStripe
  <1>3. ASSUME NEW w \in Writers, NEW b \in Bases,
               Reregister(w, b) \/ \E c \in Classes : Refill(w, b, c)
        PROVE  UNCHANGED Map!vars
    BY <1>3, <1>s DEF Reregister, Refill, Begin
  <1>4. ASSUME NEW r \in Readers, NEW b \in Bases, Ask(r, b) PROVE Map!Next
    <2>1. Entries' = Entries
      BY <1>4 DEF Ask, DoneEntries
    <2>2. rbase[r] = None
      BY <1>4, <1>t DEF Ask, ReaderInv
    <2>3. Map!Ask(r, b)
      BY <2>1, <2>2, <1>4 DEF Ask, Map!Ask
    <2> QED BY <2>3 DEF Map!Next
  \* A lookup ends with what the map says of the base it was asked for.
  <1>5. ASSUME NEW r \in Readers, NEW a, rpc[r] # "idle", Answer(r, a),
               UNCHANGED mapVars, a = Entries[rbase[r]]
        PROVE  Map!Next
    <2>1. Entries' = Entries
      BY <1>5 DEF DoneEntries
    <2>2. rbase[r] # None
      BY <1>5, <1>t DEF ReaderInv
    <2>3. Map!Answer(r)
      BY <2>1, <2>2, <1>5 DEF Answer, Map!Answer
    <2> QED BY <2>3 DEF Map!Next
  <1>6. ASSUME NEW r \in Readers, ReadKey(r) PROVE [Map!Next]_(Map!vars)
    <2>1. CASE UNCHANGED <<rbase, told>>
      BY <1>6, <2>1, <1>s DEF ReadKey
    <2>2. CASE Answer(r, None)
      <3>1. rbase[r] \in Bases /\ ri[r] \in 0 .. ProbeMax - 1
        BY <1>6, ReaderFacts, <1>t DEF ReadKey, TypeOK
      <3>2. rbase[r] \notin done
        <4> SUFFICES ASSUME rbase[r] \in done PROVE FALSE
          OBVIOUS
        <4>1. PICK i \in 0 .. ProbeMax - 1 :
                /\ keys[Slot(rbase[r], i)] = rbase[r]
                /\ \A j \in 0 .. i - 1 : keys[Slot(rbase[r], j)] # Empty
          BY DEF RegistryInv, DoneIsFound, Reachable
        <4>2. ~(i \in 0 .. ri[r] - 1)
          BY <4>1, <1>6, <1>t DEF ReaderInv, ReadKey
        <4>3. i = ri[r] \/ ri[r] \in 0 .. i - 1
          BY <4>2, <3>1, Names
        <4>4. keys[Here(r)] # Empty
          BY <4>1, <4>3, <3>1, Names DEF Here
        <4>5. keys[Here(r)] # rbase[r] /\ ~MoreToRead(r)
          BY <1>6, <2>2, <4>4, <3>1, <1>t, Names
             DEF ReadKey, Answer, ReaderInv, TypeOK
        <4>6. ri[r] \in 0 .. i - 1
          BY <4>1, <4>3, <4>5 DEF Here
        <4> QED BY <4>5, <4>6, <3>1, Names DEF MoreToRead
      <3>3. Entries[rbase[r]] = None
        BY <3>1, <3>2 DEF DoneEntries
      <3> QED BY <1>5, <1>6, <2>2, <3>3 DEF ReadKey
    <2> QED BY <1>6, <2>1, <2>2 DEF ReadKey
  <1>7. ASSUME NEW r \in Readers, ReadVal(r) PROVE UNCHANGED Map!vars
    BY <1>7, <1>s DEF ReadVal
  <1>8. ASSUME NEW r \in Readers, ReadStripe(r) PROVE Map!Next
    <2>1. rbase[r] \in Bases /\ Here(r) \in Slots /\ rpc[r] = "stripe"
      BY <1>8, ReaderFacts, <1>t DEF ReadStripe
    <2>2. keys[Here(r)] = rbase[r] /\ rval[r] = vals[Here(r)] /\ rbase[r] # Empty
      BY <2>1, <1>t, Names DEF ReaderInv
    <2>3. <<rval[r], stripes[Here(r)]>> = owner[rbase[r]] /\ rbase[r] \in done
      BY <2>1, <2>2, <1>t DEF RegistryInv, OwnPayload, KeysDone
    <2>4. Entries[rbase[r]] = <<rval[r], stripes[Here(r)]>>
      BY <2>1, <2>3 DEF DoneEntries
    <2> QED BY <1>5, <1>8, <2>1, <2>4 DEF ReadStripe
  <1>9. CASE UNCHANGED vars
    BY <1>9, <1>s
  <1> QED BY <1>1, <1>2, <1>3, <1>4, <1>6, <1>7, <1>8, <1>9 DEF Next, Insert, Lookup

\* The lock-free lookups see an insert-only map: with one Mutex, inserting and
\* probing word by word implements the atomic map of OwnerMap.
THEOREM Refinement ==
  ASSUME OneLock PROVE Spec => ImplementsOwnerMap
  <1>1. Spec => []RegistryInv
    BY TableInductive
  <1>2. RegistryInv /\ Entries = DoneEntries /\ (Entries = DoneEntries)' /\ [Next]_vars
          => [Map!Next]_(Map!vars)
    BY MapStep
  <1> QED BY <1>1, <1>2, EntriesAre, MapInit, PTL DEF Spec, ImplementsOwnerMap, Map!Spec

-----------------------------------------------------------------------------
(***************************************************************************)
(* ShimRing.  Proofs about ShimRing, for any number of emitting threads,   *)
(* any capacity of the ring and any batch size: the server is sent the     *)
(* records of the ring in order and each once (RingDelivers), and the      *)
(* consumer is never left asleep over work (NoLostWakeup).                 *)
(*                                                                         *)
(* The argument: from tail to head the ring holds what was pushed, since a *)
(* push at head overwrites no place of a record that is still there        *)
(* (Wraps); what the consumer holds is the front of that, and stays it     *)
(* while it posts, since only the consumer moves tail; and there is one    *)
(* consumer at most, since one thread gets past the claim.                 *)
(***************************************************************************)

\* ShimSizes, as the hypothesis of the lemmas.
ShimConstants == RingCapacity \in Nat \ {0} /\ BatchSize \in Nat \ {0}

HistoryOK == pushed \in Seq(Nat) /\ posted \in Seq(Nat) /\ batch \in Seq(Nat)

\* One emitter starts the consumer, before there is one.
Boots(e) == emitter[e] \in {"start", "ready"}
OneStarter ==
  /\ \A e, f \in Emitters : Boots(e) /\ Boots(f) => e = f
  /\ \A e \in Emitters : Boots(e) => initialized = 1
  /\ initialized = 0 => consumer = "none"
  /\ \A e \in Emitters : emitter[e] = "start" => consumer = "none"

\* The ring holds what was pushed and not yet taken from it.
RingHolds ==
  /\ head = Len(pushed) /\ tail <= head /\ head - tail <= RingCapacity
  /\ \A i \in Nat : tail <= i /\ i < head => ring[i % RingCapacity] = pushed[i + 1]

\* A batch that is under way is the front of the ring.
BatchIsFront ==
  consumer \in {"post", "advance"} =>
    /\ tail + Len(batch) <= head
    /\ \A i \in 1 .. Len(batch) : batch[i] = pushed[tail + i]

\* What was posted is what was pushed, up to tail and, before tail has moved, the batch.
PostedIsFront ==
  /\ Len(posted) = tail + (IF consumer = "advance" THEN Len(batch) ELSE 0)
  /\ \A i \in 1 .. Len(posted) : posted[i] = pushed[i]

\* The inductive invariant.
RingInv ==
  /\ ShimTypeOK /\ HistoryOK /\ OneStarter /\ RingHolds /\ BatchIsFront
  /\ PostedIsFront /\ emitted = Len(pushed) + dropped /\ NoLostWakeup

-----------------------------------------------------------------------------
(* Places of the ring.                                                      *)

\* Fewer than RingCapacity records apart, two records have two places.
LEMMA Wraps ==
  ASSUME ShimConstants, NEW i \in Nat, NEW j \in Nat, i < j, j - i < RingCapacity
  PROVE  i % RingCapacity # j % RingCapacity
  <1> DEFINE C == RingCapacity
             a == i \div C
             b == j \div C
  <1>1. C \in Nat /\ C > 0
    BY DEF ShimConstants
  <1>2. /\ a \in Int /\ i = C * a + (i % C)
        /\ b \in Int /\ j = C * b + (j % C)
    BY <1>1
  <1> SUFFICES ASSUME i % C = j % C PROVE FALSE
    OBVIOUS
  <1>3. j - i = C * (b - a)
    BY <1>1, <1>2
  <1>4. ASSUME NEW k \in Int PROVE ~(0 < C * k /\ C * k < C)
    <2>1. CASE k <= 0
      BY <1>1, <2>1
    <2>2. CASE k >= 1
      BY <1>1, <2>2
    <2> QED BY <2>1, <2>2
  <1>5. b - a \in Int /\ 0 < j - i /\ j - i < C
    BY <1>2
  <1> HIDE DEF C, a, b
  <1> QED BY <1>3, <1>4, <1>5

\* A record's place is in the ring.
LEMMA PlaceIn ==
  ASSUME ShimConstants, NEW i \in Nat PROVE i % RingCapacity \in 0 .. RingCapacity - 1
  BY DEF ShimConstants

\* A push finds the ring full, or puts the next record at its head.
PushDrops(e) ==
  /\ dropped' = dropped + 1 /\ emitter' = [emitter EXCEPT ![e] = "idle"]
  /\ UNCHANGED <<head, ring, pushed>>

PushStores(e) ==
  /\ head - tail < RingCapacity
  /\ ring' = [ring EXCEPT ![head % RingCapacity] = emitted'] /\ head' = head + 1
  /\ pushed' \in Seq(Nat) /\ Len(pushed') = Len(pushed) + 1
  /\ \A i \in 1 .. Len(pushed) : pushed'[i] = pushed[i]
  /\ pushed'[Len(pushed) + 1] = emitted'
  /\ emitter' = [emitter EXCEPT ![e] = IF head = tail THEN "wake" ELSE "idle"]
  /\ dropped' = dropped

\* The two cases of Push.
LEMMA PushCases ==
  ASSUME ShimConstants, ShimTypeOK, HistoryOK, NEW e \in Emitters, Push(e)
  PROVE  /\ emitted' = emitted + 1
         /\ UNCHANGED <<boot, ends, tail, consumer, batch, posted>>
         /\ PushDrops(e) \/ PushStores(e)
  <1>1. CASE head - tail >= RingCapacity
    BY <1>1 DEF Push, PushDrops, Step
  <1>2. CASE ~(head - tail >= RingCapacity)
    <2>1. emitted' = emitted + 1 /\ emitted' \in Nat
      BY DEF Push, ShimTypeOK
    <2>2. pushed' = Append(pushed, emitted') /\ pushed \in Seq(Nat)
      BY <1>2 DEF Push, HistoryOK
    <2>3. /\ pushed' \in Seq(Nat) /\ Len(pushed') = Len(pushed) + 1
          /\ \A i \in 1 .. Len(pushed) : pushed'[i] = pushed[i]
          /\ pushed'[Len(pushed) + 1] = emitted'
      BY <2>1, <2>2
    <2>4. head - tail < RingCapacity
      BY <1>2 DEF ShimTypeOK, ShimConstants
    <2> QED BY <1>2, <2>3, <2>4 DEF Push, PushStores, Step
  <1> QED BY <1>1, <1>2

\* What the consumer copies from the ring.
LEMMA CheckTakes ==
  ASSUME ShimConstants, ShimTypeOK, HistoryOK, RingHolds, Check
  PROVE  /\ batch' \in Seq(Nat) /\ tail + Len(batch') <= head
         /\ \A i \in 1 .. Len(batch') : batch'[i] = pushed[tail + i]
         /\ consumer = "check" /\ consumer' \in {"post", "test", "wait"}
         /\ consumer' = "wait" => head = tail /\ ~stopping
         /\ UNCHANGED <<boot, ends, store, emitter, posted>>
  <1> DEFINE waiting == IF head - tail > BatchSize THEN BatchSize ELSE head - tail
  <1>1. waiting \in Nat /\ waiting <= head - tail /\ (waiting > 0 \/ head = tail)
    BY DEF ShimTypeOK, RingHolds, ShimConstants
  <1>2. /\ consumer = "check"
        /\ batch' = [i \in 1 .. waiting |-> ring[(tail + i - 1) % RingCapacity]]
        /\ consumer' = IF waiting > 0 THEN "post" ELSE IF stopping THEN "test" ELSE "wait"
        /\ UNCHANGED <<boot, ends, store, emitter, posted>>
    BY DEF Check
  <1>3. ASSUME NEW i \in 1 .. waiting
        PROVE  /\ ring[(tail + i - 1) % RingCapacity] = pushed[tail + i]
               /\ ring[(tail + i - 1) % RingCapacity] \in Nat
    <2>1. tail + i - 1 \in Nat /\ tail <= tail + i - 1 /\ tail + i - 1 < head
      BY <1>1 DEF ShimTypeOK
    <2>2. ring[(tail + i - 1) % RingCapacity] = pushed[(tail + i - 1) + 1]
      BY <2>1 DEF RingHolds
    <2>3. (tail + i - 1) + 1 = tail + i
      BY DEF ShimTypeOK
    <2>4. (tail + i - 1) % RingCapacity \in 0 .. RingCapacity - 1
      BY <2>1, PlaceIn
    <2>5. ring[(tail + i - 1) % RingCapacity] \in Nat
      BY <2>4 DEF ShimTypeOK
    <2> QED BY <2>2, <2>3, <2>5
  <1> HIDE DEF waiting
  <1>4. batch' \in Seq(Nat) /\ Len(batch') = waiting
    <2>1. batch' \in [1 .. waiting -> Nat]
      BY <1>2, <1>3
    <2> QED BY <1>1, <2>1
  <1>5. \A i \in 1 .. Len(batch') : batch'[i] = pushed[tail + i]
    BY <1>2, <1>3, <1>4
  <1>6. tail + Len(batch') <= head
    BY <1>1, <1>4 DEF ShimTypeOK
  <1>7. consumer' \in {"post", "test", "wait"} /\ (consumer' = "wait" => head = tail /\ ~stopping)
    BY <1>1, <1>2
  <1> QED BY <1>2, <1>4, <1>5, <1>6, <1>7

-----------------------------------------------------------------------------
(* Every step keeps every part.                                             *)

\* Every step keeps the types.
LEMMA ShimTypeOKStep ==
  ASSUME ShimConstants, RingInv, ShimNext PROVE ShimTypeOK'
  <1> USE DEF store, boot, ends, Step, On, ConsumerAt
  <1>h. ShimTypeOK /\ HistoryOK /\ RingHolds
    BY DEF RingInv
  <1>1. ASSUME NEW e \in Emitters, Emit(e) PROVE ShimTypeOK'
    BY <1>1, <1>h DEF Emit, ShimTypeOK
  <1>2. ASSUME NEW e \in Emitters, Claim(e) PROVE ShimTypeOK'
    <2>1. /\ initialized' \in 0 .. 2
          /\ emitter' \in {[emitter EXCEPT ![e] = "start"], [emitter EXCEPT ![e] = "spin"]}
      BY <1>2, <1>h DEF Claim, ShimTypeOK
    <2>2. UNCHANGED <<stopping, started, head, tail, ring, dropped, emitted, consumer, exiting>>
      BY <1>2 DEF Claim
    <2> QED BY <2>1, <2>2, <1>h DEF ShimTypeOK
  <1>3. ASSUME NEW e \in Emitters, Start(e) PROVE ShimTypeOK'
    BY <1>3, <1>h DEF Start, ShimTypeOK
  <1>4. ASSUME NEW e \in Emitters, Ready(e) PROVE ShimTypeOK'
    BY <1>4, <1>h DEF Ready, ShimTypeOK
  <1>5. ASSUME NEW e \in Emitters, Spin(e) PROVE ShimTypeOK'
    BY <1>5, <1>h DEF Spin, ShimTypeOK
  <1>6. ASSUME NEW e \in Emitters, Push(e) PROVE ShimTypeOK'
    <2>1. CASE PushDrops(e)
      <3>1. emitted' = emitted + 1 /\ dropped' = dropped + 1
        BY <1>6, <2>1, <1>h, PushCases DEF PushDrops
      <3>2. UNCHANGED <<initialized, stopping, started, head, tail, ring, consumer, exiting>>
        BY <1>6, <2>1, <1>h, PushCases DEF PushDrops
      <3> QED BY <2>1, <3>1, <3>2, <1>h DEF PushDrops, ShimTypeOK
    <2>2. CASE PushStores(e)
      <3>1. emitted' \in Nat /\ head' \in Nat
        BY <1>6, <2>2, <1>h, PushCases DEF PushStores, ShimTypeOK
      <3>2. ring' \in [0 .. RingCapacity - 1 -> Nat]
        BY <2>2, <3>1, <1>h DEF PushStores, ShimTypeOK
      <3> QED BY <1>6, <2>2, <3>1, <3>2, <1>h, PushCases DEF PushStores, ShimTypeOK
    <2> QED BY <1>6, <1>h, <2>1, <2>2, PushCases
  <1>7. ASSUME NEW e \in Emitters, Wake(e) PROVE ShimTypeOK'
    BY <1>7, <1>h DEF Wake, ShimTypeOK, Signalled
  <1>8. CASE ConsumerStarts
    BY <1>8, <1>h DEF ConsumerStarts, ShimTypeOK
  <1>9. CASE Check
    BY <1>9, <1>h, PlaceIn, CheckTakes DEF ShimTypeOK
  <1>10. CASE AdvanceTail
    BY <1>10, <1>h DEF AdvanceTail, ShimTypeOK
  <1>11. CASE Test
    BY <1>11, <1>h DEF Test, ShimTypeOK
  <1>12. CASE SpuriousWakeup
    BY <1>12, <1>h DEF SpuriousWakeup, ShimTypeOK
  <1>13. CASE PostFails
    BY <1>13, <1>h DEF PostFails, ShimTypeOK
  <1>14. CASE PostSucceeds
    BY <1>14, <1>h DEF PostSucceeds, ShimTypeOK
  <1>15. CASE Exit
    BY <1>15, <1>h DEF Exit, ShimTypeOK
  <1>16. CASE Broadcast
    BY <1>16, <1>h DEF Broadcast, ShimTypeOK, Signalled
  <1>17. CASE Join
    BY <1>17, <1>h DEF Join, ShimTypeOK
  <1> QED BY <1>1, <1>2, <1>3, <1>4, <1>5, <1>6, <1>7, <1>8, <1>9, <1>10, <1>11, <1>12,
             <1>13, <1>14, <1>15, <1>16, <1>17 DEF ShimNext, EmitterNext, ConsumerNext

\* Only a push, a post and a snapshot touch the sequences.
LEMMA HistoryOKStep ==
  ASSUME ShimConstants, RingInv, ShimNext PROVE HistoryOK'
  <1> USE DEF store, boot, ends, Step, On, ConsumerAt
  <1>h. ShimTypeOK /\ HistoryOK /\ RingHolds
    BY DEF RingInv
  <1>1. ASSUME NEW e \in Emitters, Emit(e) PROVE HistoryOK'
    BY <1>1, <1>h DEF Emit, HistoryOK
  <1>2. ASSUME NEW e \in Emitters, Claim(e) PROVE HistoryOK'
    BY <1>2, <1>h DEF Claim, HistoryOK
  <1>3. ASSUME NEW e \in Emitters, Start(e) PROVE HistoryOK'
    BY <1>3, <1>h DEF Start, HistoryOK
  <1>4. ASSUME NEW e \in Emitters, Ready(e) PROVE HistoryOK'
    BY <1>4, <1>h DEF Ready, HistoryOK
  <1>5. ASSUME NEW e \in Emitters, Spin(e) PROVE HistoryOK'
    BY <1>5, <1>h DEF Spin, HistoryOK
  <1>6. ASSUME NEW e \in Emitters, Push(e) PROVE HistoryOK'
    BY <1>6, <1>h, PlaceIn, PushCases DEF PushDrops, PushStores, HistoryOK
  <1>7. ASSUME NEW e \in Emitters, Wake(e) PROVE HistoryOK'
    BY <1>7, <1>h DEF Wake, HistoryOK
  <1>8. CASE ConsumerStarts
    BY <1>8, <1>h DEF ConsumerStarts, HistoryOK
  <1>9. CASE Check
    BY <1>9, <1>h, PlaceIn, CheckTakes DEF HistoryOK
  <1>10. CASE AdvanceTail
    BY <1>10, <1>h DEF AdvanceTail, HistoryOK
  <1>11. CASE Test
    BY <1>11, <1>h DEF Test, HistoryOK
  <1>12. CASE SpuriousWakeup
    BY <1>12, <1>h DEF SpuriousWakeup, HistoryOK
  <1>13. CASE PostFails
    BY <1>13, <1>h DEF PostFails, HistoryOK
  <1>14. CASE PostSucceeds
    BY <1>14, <1>h DEF PostSucceeds, HistoryOK
  <1>15. CASE Exit
    BY <1>15, <1>h DEF Exit, HistoryOK
  <1>16. CASE Broadcast
    BY <1>16, <1>h DEF Broadcast, HistoryOK
  <1>17. CASE Join
    BY <1>17, <1>h DEF Join, HistoryOK
  <1> QED BY <1>1, <1>2, <1>3, <1>4, <1>5, <1>6, <1>7, <1>8, <1>9, <1>10, <1>11, <1>12,
             <1>13, <1>14, <1>15, <1>16, <1>17 DEF ShimNext, EmitterNext, ConsumerNext

\* One emitter passes the claim, so the consumer is started once.
LEMMA OneStarterStep ==
  ASSUME ShimConstants, RingInv, ShimNext PROVE OneStarter'
  <1> USE DEF store, boot, ends, Step, On, ConsumerAt
  <1>h. ShimTypeOK /\ HistoryOK /\ OneStarter /\ RingHolds
    BY DEF RingInv
  <1>1. ASSUME NEW e \in Emitters, Emit(e) PROVE OneStarter'
    BY <1>1, <1>h DEF Emit, OneStarter, Boots
  <1>2. ASSUME NEW e \in Emitters, Claim(e) PROVE OneStarter'
    BY <1>2, <1>h DEF Claim, ShimTypeOK, OneStarter, Signalled, Boots
  <1>3. ASSUME NEW e \in Emitters, Start(e) PROVE OneStarter'
    BY <1>3, <1>h DEF Start, ShimTypeOK, OneStarter, Signalled, Boots
  <1>4. ASSUME NEW e \in Emitters, Ready(e) PROVE OneStarter'
    BY <1>4, <1>h DEF Ready, ShimTypeOK, OneStarter, Signalled, Boots
  <1>5. ASSUME NEW e \in Emitters, Spin(e) PROVE OneStarter'
    BY <1>5, <1>h DEF Spin, OneStarter, Boots
  <1>6. ASSUME NEW e \in Emitters, Push(e) PROVE OneStarter'
    BY <1>6, <1>h, PlaceIn, PushCases
    DEF PushDrops, PushStores, ShimTypeOK, OneStarter, Signalled, Boots, ShimConstants
  <1>7. ASSUME NEW e \in Emitters, Wake(e) PROVE OneStarter'
    BY <1>7, <1>h DEF Wake, OneStarter, Signalled, Boots
  <1>8. CASE ConsumerStarts
    BY <1>8, <1>h DEF ConsumerStarts, OneStarter, Boots
  <1>9. CASE Check
    BY <1>9, <1>h, PlaceIn, CheckTakes DEF OneStarter, Boots
  <1>10. CASE AdvanceTail
    BY <1>10, <1>h DEF AdvanceTail, OneStarter, Boots
  <1>11. CASE Test
    BY <1>11, <1>h DEF Test, OneStarter, Boots
  <1>12. CASE SpuriousWakeup
    BY <1>12, <1>h DEF SpuriousWakeup, OneStarter, Boots
  <1>13. CASE PostFails
    BY <1>13, <1>h DEF PostFails, OneStarter, Boots
  <1>14. CASE PostSucceeds
    BY <1>14, <1>h DEF PostSucceeds, OneStarter, Boots
  <1>15. CASE Exit
    BY <1>15, <1>h DEF Exit, OneStarter, Boots
  <1>16. CASE Broadcast
    BY <1>16, <1>h DEF Broadcast, OneStarter, Signalled, Boots
  <1>17. CASE Join
    BY <1>17, <1>h DEF Join, OneStarter, Boots
  <1> QED BY <1>1, <1>2, <1>3, <1>4, <1>5, <1>6, <1>7, <1>8, <1>9, <1>10, <1>11, <1>12,
             <1>13, <1>14, <1>15, <1>16, <1>17 DEF ShimNext, EmitterNext, ConsumerNext

\* A push writes a place no record is in; a record leaves when the consumer moves tail.
LEMMA RingHoldsStep ==
  ASSUME ShimConstants, RingInv, ShimNext PROVE RingHolds'
  <1> USE DEF store, boot, ends, Step, On, ConsumerAt
  <1>h. ShimTypeOK /\ HistoryOK /\ RingHolds /\ BatchIsFront /\ OneStarter
    BY DEF RingInv
  <1>1. ASSUME NEW e \in Emitters, Emit(e) PROVE RingHolds'
    BY <1>1, <1>h DEF Emit, RingHolds
  <1>2. ASSUME NEW e \in Emitters, Claim(e) PROVE RingHolds'
    BY <1>2, <1>h DEF Claim, RingHolds
  <1>3. ASSUME NEW e \in Emitters, Start(e) PROVE RingHolds'
    BY <1>3, <1>h DEF Start, RingHolds
  <1>4. ASSUME NEW e \in Emitters, Ready(e) PROVE RingHolds'
    BY <1>4, <1>h DEF Ready, RingHolds
  <1>5. ASSUME NEW e \in Emitters, Spin(e) PROVE RingHolds'
    BY <1>5, <1>h DEF Spin, RingHolds
  <1>6. ASSUME NEW e \in Emitters, Push(e) PROVE RingHolds'
    <2>1. CASE PushDrops(e)
      BY <1>6, <2>1, <1>h, PushCases DEF PushDrops, RingHolds
    <2>2. CASE PushStores(e)
      <3>1. head \in Nat /\ tail \in Nat /\ tail' = tail
        BY <1>6, <1>h, PushCases DEF ShimTypeOK
      <3>2. /\ head' = head + 1 /\ head' = Len(pushed')
            /\ tail <= head' /\ head' - tail <= RingCapacity
        BY <2>2, <3>1, <1>h DEF PushStores, RingHolds, ShimConstants
      <3>3. ring'[head % RingCapacity] = pushed'[head + 1]
        BY <2>2, <3>1, <1>h, PlaceIn DEF PushStores, RingHolds, ShimTypeOK
      <3>4. ASSUME NEW i \in Nat, tail <= i, i < head
            PROVE  ring'[i % RingCapacity] = pushed'[i + 1]
        <4>1. i % RingCapacity # head % RingCapacity
          <5>1. head - i < RingCapacity
            BY <2>2, <3>1, <3>4 DEF PushStores, ShimConstants
          <5> QED BY <5>1, <3>1, <3>4, Wraps
        <4>2. ring'[i % RingCapacity] = ring[i % RingCapacity]
          BY <2>2, <4>1, <1>h, PlaceIn DEF PushStores
        <4>3. pushed'[i + 1] = pushed[i + 1]
          <5>1. i + 1 \in 1 .. Len(pushed)
            BY <3>1, <3>4, <1>h DEF RingHolds
          <5> QED BY <2>2, <5>1 DEF PushStores
        <4> QED BY <3>4, <4>2, <4>3, <1>h DEF RingHolds
      <3>5. ASSUME NEW i \in Nat, tail' <= i, i < head'
            PROVE  ring'[i % RingCapacity] = pushed'[i + 1]
        BY <3>1, <3>2, <3>3, <3>4, <3>5
      <3> QED BY <3>1, <3>2, <3>5 DEF RingHolds
    <2> QED BY <1>6, <1>h, <2>1, <2>2, PushCases
  <1>7. ASSUME NEW e \in Emitters, Wake(e) PROVE RingHolds'
    BY <1>7, <1>h DEF Wake, RingHolds
  <1>8. CASE ConsumerStarts
    BY <1>8, <1>h DEF ConsumerStarts, RingHolds
  <1>9. CASE Check
    BY <1>9, <1>h, PlaceIn, CheckTakes DEF RingHolds
  <1>10. CASE AdvanceTail
    <2>1. /\ tail' = tail + Len(batch) /\ consumer = "advance"
          /\ UNCHANGED <<head, ring, pushed>>
      BY <1>10 DEF AdvanceTail
    <2>2. Len(batch) \in Nat /\ tail + Len(batch) <= head
      BY <2>1, <1>h DEF BatchIsFront
    <2>3. /\ head \in Nat /\ tail \in Nat /\ tail <= tail' /\ tail' <= head
          /\ head - tail' <= RingCapacity
      BY <2>1, <2>2, <1>h DEF RingHolds, ShimTypeOK, ShimConstants
    <2>4. ASSUME NEW i \in Nat, tail' <= i, i < head PROVE ring[i % RingCapacity] = pushed[i + 1]
      BY <2>1, <2>2, <2>3, <2>4, <1>h DEF RingHolds
    <2> QED BY <2>1, <2>3, <2>4, <1>h DEF RingHolds
  <1>11. CASE Test
    BY <1>11, <1>h DEF Test, RingHolds
  <1>12. CASE SpuriousWakeup
    BY <1>12, <1>h DEF SpuriousWakeup, RingHolds
  <1>13. CASE PostFails
    BY <1>13, <1>h DEF PostFails, RingHolds
  <1>14. CASE PostSucceeds
    BY <1>14, <1>h DEF PostSucceeds, RingHolds
  <1>15. CASE Exit
    BY <1>15, <1>h DEF Exit, RingHolds
  <1>16. CASE Broadcast
    BY <1>16, <1>h DEF Broadcast, RingHolds
  <1>17. CASE Join
    BY <1>17, <1>h DEF Join, RingHolds
  <1> QED BY <1>1, <1>2, <1>3, <1>4, <1>5, <1>6, <1>7, <1>8, <1>9, <1>10, <1>11, <1>12,
             <1>13, <1>14, <1>15, <1>16, <1>17 DEF ShimNext, EmitterNext, ConsumerNext

\* A batch under way stays the front of the ring whatever is pushed behind it.
LEMMA BatchIsFrontStep ==
  ASSUME ShimConstants, RingInv, ShimNext PROVE BatchIsFront'
  <1> USE DEF store, boot, ends, Step, On, ConsumerAt
  <1>h. ShimTypeOK /\ HistoryOK /\ RingHolds /\ BatchIsFront /\ OneStarter
    BY DEF RingInv
  <1>1. ASSUME NEW e \in Emitters, Emit(e) PROVE BatchIsFront'
    BY <1>1, <1>h DEF Emit, BatchIsFront
  <1>2. ASSUME NEW e \in Emitters, Claim(e) PROVE BatchIsFront'
    BY <1>2, <1>h DEF Claim, BatchIsFront
  <1>3. ASSUME NEW e \in Emitters, Start(e) PROVE BatchIsFront'
    BY <1>3, <1>h DEF Start, BatchIsFront
  <1>4. ASSUME NEW e \in Emitters, Ready(e) PROVE BatchIsFront'
    BY <1>4, <1>h DEF Ready, BatchIsFront
  <1>5. ASSUME NEW e \in Emitters, Spin(e) PROVE BatchIsFront'
    BY <1>5, <1>h DEF Spin, BatchIsFront
  <1>6. ASSUME NEW e \in Emitters, Push(e) PROVE BatchIsFront'
    <2>1. CASE PushDrops(e)
      BY <1>6, <2>1, <1>h, PushCases DEF PushDrops, BatchIsFront
    <2>2. CASE PushStores(e)
      <3>1. UNCHANGED <<tail, consumer, batch>> /\ head' = head + 1
        BY <1>6, <2>2, <1>h, PushCases DEF PushStores
      <3>2. ASSUME consumer \in {"post", "advance"}, NEW i \in 1 .. Len(batch)
            PROVE  pushed'[tail + i] = pushed[tail + i]
        <4>1. tail + i \in 1 .. Len(pushed)
          BY <3>2, <1>h DEF BatchIsFront, RingHolds, ShimTypeOK
        <4> QED BY <2>2, <4>1 DEF PushStores
      <3> QED BY <3>1, <3>2, <1>h DEF BatchIsFront, ShimTypeOK
    <2> QED BY <1>6, <1>h, <2>1, <2>2, PushCases
  <1>7. ASSUME NEW e \in Emitters, Wake(e) PROVE BatchIsFront'
    BY <1>7, <1>h DEF Wake, BatchIsFront, Signalled
  <1>8. CASE ConsumerStarts
    BY <1>8, <1>h DEF ConsumerStarts, BatchIsFront
  <1>9. CASE Check
    BY <1>9, <1>h, PlaceIn, CheckTakes DEF BatchIsFront
  <1>10. CASE AdvanceTail
    BY <1>10, <1>h DEF AdvanceTail, BatchIsFront
  <1>11. CASE Test
    BY <1>11, <1>h DEF Test, BatchIsFront
  <1>12. CASE SpuriousWakeup
    BY <1>12, <1>h DEF SpuriousWakeup, BatchIsFront
  <1>13. CASE PostFails
    BY <1>13, <1>h DEF PostFails, BatchIsFront
  <1>14. CASE PostSucceeds
    BY <1>14, <1>h DEF PostSucceeds, BatchIsFront
  <1>15. CASE Exit
    BY <1>15, <1>h DEF Exit, BatchIsFront
  <1>16. CASE Broadcast
    BY <1>16, <1>h DEF Broadcast, BatchIsFront, Signalled
  <1>17. CASE Join
    BY <1>17, <1>h DEF Join, BatchIsFront
  <1> QED BY <1>1, <1>2, <1>3, <1>4, <1>5, <1>6, <1>7, <1>8, <1>9, <1>10, <1>11, <1>12,
             <1>13, <1>14, <1>15, <1>16, <1>17 DEF ShimNext, EmitterNext, ConsumerNext

\* A post appends the front of the ring; the tail follows before the next one.
LEMMA PostedIsFrontStep ==
  ASSUME ShimConstants, RingInv, ShimNext PROVE PostedIsFront'
  <1> USE DEF store, boot, ends, Step, On, ConsumerAt
  <1>h. ShimTypeOK /\ HistoryOK /\ RingHolds /\ BatchIsFront /\ PostedIsFront /\ OneStarter
    BY DEF RingInv
  <1>1. ASSUME NEW e \in Emitters, Emit(e) PROVE PostedIsFront'
    BY <1>1, <1>h DEF Emit, PostedIsFront
  <1>2. ASSUME NEW e \in Emitters, Claim(e) PROVE PostedIsFront'
    BY <1>2, <1>h DEF Claim, PostedIsFront
  <1>3. ASSUME NEW e \in Emitters, Start(e) PROVE PostedIsFront'
    BY <1>3, <1>h DEF Start, PostedIsFront, OneStarter
  <1>4. ASSUME NEW e \in Emitters, Ready(e) PROVE PostedIsFront'
    BY <1>4, <1>h DEF Ready, PostedIsFront
  <1>5. ASSUME NEW e \in Emitters, Spin(e) PROVE PostedIsFront'
    BY <1>5, <1>h DEF Spin, PostedIsFront
  <1>6. ASSUME NEW e \in Emitters, Push(e) PROVE PostedIsFront'
    <2>1. CASE PushDrops(e)
      BY <1>6, <2>1, <1>h, PushCases DEF PushDrops, PostedIsFront
    <2>2. CASE PushStores(e)
      <3>1. UNCHANGED <<tail, consumer, batch, posted>>
        BY <1>6, <1>h, PushCases
      <3>2. Len(posted) <= Len(pushed)
        BY <1>h DEF PostedIsFront, BatchIsFront, RingHolds, ShimTypeOK
      <3>3. ASSUME NEW i \in 1 .. Len(posted) PROVE pushed'[i] = pushed[i]
        <4>1. i \in 1 .. Len(pushed)
          BY <3>2, <1>h
        <4> QED BY <2>2, <4>1 DEF PushStores
      <3> QED BY <3>1, <3>3, <1>h DEF PostedIsFront
    <2> QED BY <1>6, <1>h, <2>1, <2>2, PushCases
  <1>7. ASSUME NEW e \in Emitters, Wake(e) PROVE PostedIsFront'
    BY <1>7, <1>h DEF Wake, PostedIsFront, Signalled
  <1>8. CASE ConsumerStarts
    BY <1>8, <1>h DEF ConsumerStarts, PostedIsFront
  <1>9. CASE Check
    BY <1>9, <1>h, PlaceIn, CheckTakes DEF PostedIsFront
  <1>10. CASE AdvanceTail
    BY <1>10, <1>h DEF AdvanceTail, PostedIsFront
  <1>11. CASE Test
    BY <1>11, <1>h DEF Test, PostedIsFront
  <1>12. CASE SpuriousWakeup
    BY <1>12, <1>h DEF SpuriousWakeup, PostedIsFront
  <1>13. CASE PostFails
    BY <1>13, <1>h DEF PostFails, PostedIsFront
  <1>14. CASE PostSucceeds
    <2>1. /\ posted' = posted \o batch /\ consumer = "post" /\ consumer' = "advance"
          /\ UNCHANGED <<tail, batch, pushed>>
      BY <1>14 DEF PostSucceeds
    <2>2. Len(posted) = tail /\ Len(posted') = tail + Len(batch)
      <3>1. Len(posted) = tail
        BY <2>1, <1>h DEF PostedIsFront, ShimTypeOK
      <3>2. Len(posted') = Len(posted) + Len(batch)
        BY <2>1, <1>h
      <3> QED BY <3>1, <3>2
    <2>3. ASSUME NEW i \in 1 .. Len(posted') PROVE posted'[i] = pushed[i]
      <3>1. CASE i <= Len(posted)
        BY <2>1, <3>1, <1>h DEF PostedIsFront
      <3>2. CASE ~(i <= Len(posted))
        <4>1. posted'[i] = batch[i - tail] /\ i - tail \in 1 .. Len(batch)
          BY <2>1, <2>2, <3>2, <1>h
        <4>2. batch[i - tail] = pushed[tail + (i - tail)]
          BY <2>1, <4>1, <1>h DEF BatchIsFront
        <4>3. tail + (i - tail) = i
          BY <1>h DEF ShimTypeOK
        <4> QED BY <4>1, <4>2, <4>3
      <3> QED BY <3>1, <3>2
    <2> QED BY <2>1, <2>2, <2>3 DEF PostedIsFront
  <1>15. CASE Exit
    BY <1>15, <1>h DEF Exit, PostedIsFront
  <1>16. CASE Broadcast
    BY <1>16, <1>h DEF Broadcast, PostedIsFront, Signalled
  <1>17. CASE Join
    BY <1>17, <1>h DEF Join, PostedIsFront
  <1> QED BY <1>1, <1>2, <1>3, <1>4, <1>5, <1>6, <1>7, <1>8, <1>9, <1>10, <1>11, <1>12,
             <1>13, <1>14, <1>15, <1>16, <1>17 DEF ShimNext, EmitterNext, ConsumerNext

\* The push that finds the ring empty wakes the consumer, and so does the exit.
LEMMA NoLostWakeupStep ==
  ASSUME ShimConstants, RingInv, ShimNext PROVE NoLostWakeup'
  <1> USE DEF store, boot, ends, Step, On, ConsumerAt
  <1>h. ShimTypeOK /\ HistoryOK /\ NoLostWakeup /\ OneStarter /\ RingHolds
    BY DEF RingInv
  <1>1. ASSUME NEW e \in Emitters, Emit(e) PROVE NoLostWakeup'
    BY <1>1, <1>h DEF Emit, NoLostWakeup
  <1>2. ASSUME NEW e \in Emitters, Claim(e) PROVE NoLostWakeup'
    BY <1>2, <1>h DEF Claim, ShimTypeOK, NoLostWakeup
  <1>3. ASSUME NEW e \in Emitters, Start(e) PROVE NoLostWakeup'
    BY <1>3, <1>h DEF Start, NoLostWakeup
  <1>4. ASSUME NEW e \in Emitters, Ready(e) PROVE NoLostWakeup'
    BY <1>4, <1>h DEF Ready, NoLostWakeup
  <1>5. ASSUME NEW e \in Emitters, Spin(e) PROVE NoLostWakeup'
    BY <1>5, <1>h DEF Spin, NoLostWakeup
  <1>6. ASSUME NEW e \in Emitters, Push(e) PROVE NoLostWakeup'
    <2>1. CASE PushDrops(e)
      <3>1. UNCHANGED <<ends, head, tail, consumer>> /\ emitter[e] = "push"
        BY <1>6, <2>1, <1>h, PushCases DEF PushDrops, Push
      <3>2. \A f \in Emitters : emitter[f] = "wake" => emitter'[f] = "wake"
        BY <2>1, <3>1, <1>h DEF PushDrops
      <3> QED BY <3>1, <3>2, <1>h DEF NoLostWakeup
    <2>2. CASE PushStores(e)
      <3>1. UNCHANGED <<ends, tail, consumer>> /\ emitter[e] = "push"
        BY <1>6, <1>h, PushCases DEF Push
      <3>2. CASE head = tail
        <4>1. emitter'[e] = "wake"
          BY <2>2, <3>2, <1>h DEF PushStores, ShimTypeOK
        <4> QED BY <3>1, <4>1, <1>h DEF NoLostWakeup
      <3>3. CASE head # tail
        <4>1. \A f \in Emitters : emitter[f] = "wake" => emitter'[f] = "wake"
          BY <2>2, <3>1, <1>h DEF PushStores
        <4> QED BY <3>1, <3>3, <4>1, <1>h DEF NoLostWakeup
      <3> QED BY <3>2, <3>3
    <2> QED BY <1>6, <1>h, <2>1, <2>2, PushCases
  <1>7. ASSUME NEW e \in Emitters, Wake(e) PROVE NoLostWakeup'
    BY <1>7, <1>h DEF Wake, NoLostWakeup, Signalled
  <1>8. CASE ConsumerStarts
    BY <1>8, <1>h DEF ConsumerStarts, NoLostWakeup
  <1>9. CASE Check
    BY <1>9, <1>h, PlaceIn, CheckTakes DEF NoLostWakeup
  <1>10. CASE AdvanceTail
    BY <1>10, <1>h DEF AdvanceTail, NoLostWakeup
  <1>11. CASE Test
    BY <1>11, <1>h DEF Test, NoLostWakeup
  <1>12. CASE SpuriousWakeup
    BY <1>12, <1>h DEF SpuriousWakeup, NoLostWakeup
  <1>13. CASE PostFails
    BY <1>13, <1>h DEF PostFails, NoLostWakeup
  <1>14. CASE PostSucceeds
    BY <1>14, <1>h DEF PostSucceeds, NoLostWakeup
  <1>15. CASE Exit
    BY <1>15, <1>h DEF Exit, NoLostWakeup
  <1>16. CASE Broadcast
    BY <1>16, <1>h DEF Broadcast, NoLostWakeup, Signalled
  <1>17. CASE Join
    BY <1>17, <1>h DEF Join, NoLostWakeup
  <1> QED BY <1>1, <1>2, <1>3, <1>4, <1>5, <1>6, <1>7, <1>8, <1>9, <1>10, <1>11, <1>12,
             <1>13, <1>14, <1>15, <1>16, <1>17 DEF ShimNext, EmitterNext, ConsumerNext

\* An emission that reaches the lock enters the ring or is counted as dropped.
LEMMA CountedStep ==
  ASSUME ShimConstants, RingInv, ShimNext, emitted = Len(pushed) + dropped
  PROVE  emitted' = Len(pushed') + dropped'
  <1>h. ShimTypeOK /\ HistoryOK /\ emitted = Len(pushed) + dropped
    BY DEF RingInv
  <1>1. ASSUME NEW e \in Emitters, Push(e) PROVE emitted' = Len(pushed') + dropped'
    <2>1. /\ emitted' = emitted + 1
          /\ \/ dropped' = dropped + 1 /\ pushed' = pushed
             \/ dropped' = dropped /\ Len(pushed') = Len(pushed) + 1
      BY <1>1, <1>h, PushCases DEF PushDrops, PushStores
    <2>2. Len(pushed) \in Nat /\ dropped \in Nat
      BY <1>h DEF ShimTypeOK
    <2> QED BY <2>1, <2>2, <1>h
  <1>2. ASSUME UNCHANGED <<emitted, pushed, dropped>> PROVE emitted' = Len(pushed') + dropped'
    BY <1>2, <1>h
  <1>3. ASSUME NEW e \in Emitters,
               Emit(e) \/ Claim(e) \/ Start(e) \/ Ready(e) \/ Spin(e) \/ Wake(e)
        PROVE  emitted' = Len(pushed') + dropped'
    BY <1>2, <1>3 DEF Emit, Claim, Start, Ready, Spin, Wake, store
  <1>4. CASE \/ ConsumerStarts \/ Check \/ AdvanceTail \/ Test \/ SpuriousWakeup
             \/ PostFails \/ PostSucceeds \/ Exit \/ Broadcast \/ Join
    BY <1>2, <1>4
    DEF ConsumerStarts, Check, AdvanceTail, Test, SpuriousWakeup, PostFails, PostSucceeds,
        Exit, Broadcast, Join, store
  <1> QED BY <1>1, <1>3, <1>4 DEF ShimNext, EmitterNext, ConsumerNext

-----------------------------------------------------------------------------
(* The theorems.                                                            *)

\* RingInv holds in every reachable state.
THEOREM RingInductive ==
  ShimSpec => []RingInv
  <1>0. ShimConstants
    BY ShimSizes DEF ShimConstants
  <1>1. ShimInit => RingInv
    <2> SUFFICES ASSUME ShimInit PROVE RingInv
      OBVIOUS
    <2>1. HistoryOK
      BY DEF ShimInit, HistoryOK
    <2>4. ShimTypeOK
      <3>1. ring \in [0 .. RingCapacity - 1 -> Nat]
        BY DEF ShimInit
      <3>2. /\ head \in Nat /\ tail \in Nat /\ dropped \in Nat /\ emitted \in Nat
            /\ initialized \in 0 .. 2
        BY DEF ShimInit
      <3> QED BY <3>1, <3>2 DEF ShimInit, ShimTypeOK
    <2>2. OneStarter /\ NoLostWakeup
      BY DEF ShimInit, OneStarter, Boots, NoLostWakeup
    <2>3. RingHolds /\ BatchIsFront /\ PostedIsFront /\ emitted = Len(pushed) + dropped
      BY <1>0 DEF ShimInit, RingHolds, BatchIsFront, PostedIsFront, ShimConstants
    <2> QED BY <2>4, <2>1, <2>2, <2>3 DEF RingInv
  <1>2. RingInv /\ [ShimNext]_shimVars => RingInv'
    <2> SUFFICES ASSUME RingInv, [ShimNext]_shimVars PROVE RingInv'
      OBVIOUS
    <2>1. CASE ShimNext
      BY <1>0, <2>1, ShimTypeOKStep, HistoryOKStep, OneStarterStep, RingHoldsStep,
         BatchIsFrontStep, PostedIsFrontStep, CountedStep, NoLostWakeupStep DEF RingInv
    <2>2. CASE UNCHANGED shimVars
      BY <2>2
      DEF shimVars, RingInv, ShimTypeOK, HistoryOK, OneStarter, Boots, RingHolds,
          BatchIsFront, PostedIsFront, NoLostWakeup
    <2> QED BY <2>1, <2>2
  <1> QED BY <1>1, <1>2, PTL DEF ShimSpec

\* The server is sent exactly the records of the ring, in order and each once, however
\* often the ring has wrapped, was full or a post was retried; and the consumer does
\* not sleep while there are records or the exit has begun, unless a thread is about to
\* wake it.
THEOREM RecordsArrive ==
  ShimSpec => []RingDelivers
  <1>1. RingInv => RingDelivers
    <2> SUFFICES ASSUME RingInv PROVE RingDelivers
      OBVIOUS
    <2>1. /\ ShimTypeOK /\ HistoryOK /\ RingHolds /\ BatchIsFront /\ PostedIsFront
          /\ emitted = Len(pushed) + dropped /\ NoLostWakeup
      BY DEF RingInv
    <2>2. Len(posted) <= Len(pushed)
      BY <2>1 DEF PostedIsFront, BatchIsFront, RingHolds, ShimTypeOK
    <2>3. IsPrefix(posted, pushed)
      <3>1. posted = SubSeq(pushed, 1, Len(posted))
        <4> DEFINE n == Len(posted)
                   front == SubSeq(pushed, 1, n)
        <4>1. n \in Nat /\ pushed \in Seq(Nat) /\ posted \in Seq(Nat) /\ n <= Len(pushed)
          BY <2>1, <2>2 DEF HistoryOK
        <4>2. \A i \in 1 .. n : pushed[i] \in Nat
          BY <4>1
        <4>3. /\ front \in Seq(Nat) /\ Len(front) = n
              /\ \A i \in 1 .. n : front[i] = pushed[i]
          BY <4>1, <4>2, SubSeqProperties
        <4>4. \A i \in 1 .. n : posted[i] = front[i]
          BY <2>1, <4>3 DEF PostedIsFront
        <4> HIDE DEF front
        <4> QED BY <4>1, <4>3, <4>4, SeqEqual
      <3> QED BY <2>2, <3>1 DEF IsPrefix
    <2>4. tail = Len(posted) - (IF consumer = "advance" THEN Len(batch) ELSE 0)
      BY <2>1 DEF PostedIsFront, ShimTypeOK
    <2> QED BY <2>1, <2>3, <2>4 DEF RingDelivers
  <1> QED BY <1>1, RingInductive, PTL

-----------------------------------------------------------------------------
(***************************************************************************)
(* Simulations.  A simulation is in someone's charge from its start to its *)
(* report: its watcher, or the request that set its flag.  Who takes an    *)
(* entry off the registry has a dead process before it; and from the       *)
(* second kill-all of the shutdown on nothing starts a process any more,   *)
(* so that it comes to every one that still runs.                          *)
(***************************************************************************)

Started(s) == run[s] \in {"watch", "answered"}

\* What is known of a simulation from where its run request is.
RunsSound ==
  \A s \in Sims :
    /\ phase[s] = "new" <=> run[s] \in {"idle", "failed"}
    /\ run[s] \in {"idle", "failed", "register"} => s \notin registered
    /\ watcher[s] # "none" => run[s] = "answered"
    /\ killed[s] => Started(s)

\* What a request that kills knows of its target.
OperatorsSound ==
  \A o \in Killers :
    /\ operator[o].at \in {"flag", "lock", "kind", "remove"} =>
         operator[o].sim \in Sims /\ Started(operator[o].sim)
    /\ operator[o].at \in {"kind", "remove"} => phase[operator[o].sim] # "running"
    /\ operator[o].at = "remove" =>
         operator[o].sim \in operator[o].done \/ operator[o].sim \notin registered
    /\ operator[o].at = "next" /\ ~operator[o].all => operator[o].done = {}
    /\ operator[o].at = "idle" => operator[o].done = {}
MainSound ==
  /\ server \in {"serving", "draining"} => operator[Main].at = "idle"
  /\ operator[Main].at # "idle" => operator[Main].all

\* Past its kill or its reaping a watcher has a dead process, and it reports before it
\* takes the entry away.
WatchersSound ==
  \A s \in Sims :
    /\ watcher[s] \in {"killed", "flag", "tail", "report", "unregister"} =>
         phase[s] # "running"
    /\ watcher[s] = "unregister" => reports[s] # {}

\* What is off the registry is dead.
GoneDead == \A s \in Sims : Started(s) /\ s \notin registered => phase[s] # "running"

\* Whoever sets the flag, and stops the watcher with it, takes the entry away.
WorksOn(o, s) == operator[o].sim = s /\ operator[o].at \in {"lock", "kind", "remove"}
FlagSound ==
  \A s \in Sims :
    killed[s] => \/ s \notin registered
                 \/ watcher[s] \in {"kill", "killed", "unregister"}
                 \/ \E o \in Killers : WorksOn(o, s)
DoneSound ==
  \A s \in Sims :
    watcher[s] = "done" => s \notin registered \/ \E o \in Killers : WorksOn(o, s)

\* What is off the registry has been reported, or will be by the request that took it.
Reported ==
  server = "serving" =>
    \A s \in Sims :
      Started(s) /\ s \notin registered =>
        reports[s] # {} \/ \E o \in Operators : s \in operator[o].done

\* From the second kill-all on no request starts anything, and it has yet to come to
\* every process that runs.
ReapSound ==
  /\ server \in {"reaping", "exited"} => \A s \in Sims : run[s] \notin {"register", "watch"}
  /\ server = "reaping" =>
       \A s \in Sims : phase[s] = "running" =>
         \/ s \in operator[Main].left
         \/ operator[Main].sim = s /\ operator[Main].at \in {"flag", "lock"}
  /\ server = "exited" => \A s \in Sims : phase[s] # "running"

SimInv ==
  /\ SimTypeOK /\ RunsSound /\ OperatorsSound /\ MainSound /\ WatchersSound
  /\ GoneDead /\ FlagSound /\ DoneSound /\ Reported /\ ReapSound

\* A step keeps the types.
LEMMA SimTypeOKStep ==
  ASSUME MainApart, SimInv, SimNext PROVE SimTypeOK'
  <1>h. SimTypeOK /\ OperatorsSound
    BY DEF SimInv
  <1>1. ASSUME NEW s \in Sims, Refuse(s) PROVE SimTypeOK'
    BY <1>1, <1>h, MainApart DEF Refuse, Put, Killers, SimTypeOK, OperatorsSound, Started
  <1>2. ASSUME NEW s \in Sims, Accepts /\ Spawn(s) PROVE SimTypeOK'
    BY <1>2, <1>h, MainApart
    DEF Spawn, Accepts, Put, Killers, SimTypeOK, OperatorsSound, Started
  <1>3. ASSUME NEW s \in Sims, Register(s) PROVE SimTypeOK'
    BY <1>3, <1>h, MainApart DEF Register, Put, Killers, SimTypeOK, OperatorsSound, Started
  <1>4. ASSUME NEW s \in Sims, Watch(s) PROVE SimTypeOK'
    BY <1>4, <1>h, MainApart DEF Watch, Put, Killers, SimTypeOK, OperatorsSound, Started
  <1>5. ASSUME NEW s \in Sims, Look(s) PROVE SimTypeOK'
    <2>1. watcher' \in [Sims -> {"none", "look", "kill", "killed", "poll", "flag", "tail",
                                "report", "unregister", "sleep", "done"}]
      <3>1. CASE Watches(s, "look", "done")
        BY <3>1, <1>h DEF Look, Watches, Put, Killers, SimTypeOK, OperatorsSound, Started
      <3>2. CASE Watches(s, "look", "poll")
        BY <3>2, <1>h DEF Look, Watches, Put, Killers, SimTypeOK, OperatorsSound, Started
      <3>3. CASE Watches(s, "look", "kill")
        BY <3>3, <1>h DEF Look, Watches, Put, Killers, SimTypeOK, OperatorsSound, Started
      <3> QED BY <1>5, <3>1, <3>2, <3>3 DEF Look
    <2>2. killed' \in [Sims -> BOOLEAN]
      BY <1>5, <1>h DEF Look, Watches, Put, Killers, SimTypeOK, OperatorsSound, Started
    <2> QED BY <1>5, <2>1, <2>2, <1>h DEF Look, SimTypeOK
  <1>6. ASSUME NEW s \in Sims, KillAtDeadline(s) PROVE SimTypeOK'
    BY <1>6, <1>h, MainApart
    DEF KillAtDeadline, Watches, Signal, Put, Killers, SimTypeOK, OperatorsSound, Started
  <1>7. ASSUME NEW s \in Sims, Poll(s) PROVE SimTypeOK'
    BY <1>7, <1>h, MainApart
    DEF Poll, Watches, Put, Killers, SimTypeOK, OperatorsSound, Started
  <1>8. ASSUME NEW s \in Sims, TestFlag(s) PROVE SimTypeOK'
    BY <1>8, <1>h, MainApart
    DEF TestFlag, Watches, Put, Killers, SimTypeOK, OperatorsSound, Started
  <1>9. ASSUME NEW s \in Sims, ReadTail(s) PROVE SimTypeOK'
    BY <1>9, <1>h, MainApart
    DEF ReadTail, Watches, Put, Killers, SimTypeOK, OperatorsSound, Started
  <1>10. ASSUME NEW s \in Sims, Report(s) PROVE SimTypeOK'
    BY <1>10, <1>h, MainApart
    DEF Report, Watches, Put, Killers, SimTypeOK, OperatorsSound, Started
  <1>11. ASSUME NEW s \in Sims, Unregister(s) PROVE SimTypeOK'
    BY <1>11, <1>h, MainApart
    DEF Unregister, Watches, Put, Killers, SimTypeOK, OperatorsSound, Started
  <1>12. ASSUME NEW s \in Sims, Sleep(s) PROVE SimTypeOK'
    BY <1>12, <1>h, MainApart
    DEF Sleep, Watches, Put, Killers, SimTypeOK, OperatorsSound, Started
  <1>13. ASSUME NEW s \in Sims, Ends(s) PROVE SimTypeOK'
    BY <1>13, <1>h, MainApart DEF Ends, Put, Killers, SimTypeOK, OperatorsSound, Started
  <1>14. ASSUME NEW o \in Operators, AskKill(o) PROVE SimTypeOK'
    <2> DEFINE State == [at: {"idle", "next", "flag", "lock", "kind", "remove", "report"},
                         sim: Sims \cup {NoSim}, all: BOOLEAN,
                         left: SUBSET Sims, done: SUBSET Sims]
    <2>1. \A all \in BOOLEAN, left \in SUBSET Sims : Works(all, left) \in State
      BY DEF Works
    <2>2. \E all \in BOOLEAN, left \in SUBSET Sims : operator' = Put(operator, o, Works(all, left))
      BY <1>14, <1>h DEF AskKill, SimTypeOK
    <2>3. operator \in [Killers -> State]
      BY <1>h DEF SimTypeOK
    <2> HIDE DEF State
    <2>4. operator' \in [Killers -> State]
      BY <2>1, <2>2, <2>3 DEF Put
    <2> USE DEF State
    <2> QED BY <1>14, <2>4, <1>h DEF AskKill, SimTypeOK
  <1>15. ASSUME NEW o \in Operators, ReportKills(o) PROVE SimTypeOK'
    BY <1>15, <1>h, MainApart
    DEF ReportKills, AtRest, Put, Killers, SimTypeOK, OperatorsSound, Started
  <1>16. ASSUME NEW o \in Killers, Take(o) PROVE SimTypeOK'
    BY <1>16, <1>h, MainApart
    DEF Take, AtRest, Put, Killers, SimTypeOK, OperatorsSound, Started
  <1>17. ASSUME NEW o \in Killers, SetFlag(o) PROVE SimTypeOK'
    BY <1>17, <1>h, MainApart
    DEF SetFlag, To, Put, Killers, SimTypeOK, OperatorsSound, Started
  <1>18. ASSUME NEW o \in Killers, Kill(o) PROVE SimTypeOK'
    BY <1>18, <1>h, MainApart
    DEF Kill, To, Signal, Put, Killers, SimTypeOK, OperatorsSound, Started
  <1>19. ASSUME NEW o \in Killers, Kind(o) PROVE SimTypeOK'
    BY <1>19, <1>h, MainApart DEF Kind, Put, Killers, SimTypeOK, OperatorsSound, Started
  <1>20. ASSUME NEW o \in Killers, RemoveEntry(o) PROVE SimTypeOK'
    BY <1>20, <1>h, MainApart
    DEF RemoveEntry, To, Put, Killers, SimTypeOK, OperatorsSound, Started
  <1>21. CASE PanicTrap
    BY <1>21, <1>h, MainApart
    DEF PanicTrap, Put, Killers, SimTypeOK, OperatorsSound, Started
  <1>22. CASE Trap
    BY <1>22, <1>h, MainApart
    DEF Trap, Goes, MainKills, Works, AtRest, Put, Killers, SimTypeOK, OperatorsSound,
        Started
  <1>23. CASE Drain
    BY <1>23, <1>h, MainApart
    DEF Drain, Goes, MainKilled, AtRest, Put, Killers, SimTypeOK, OperatorsSound, Started
  <1>24. CASE ReapRest
    BY <1>24, <1>h, MainApart
    DEF ReapRest, Goes, MainKills, Works, InFlight, AtRest, Put, Killers, SimTypeOK,
        OperatorsSound, Started
  <1>25. CASE ExitClean
    BY <1>25, <1>h, MainApart
    DEF ExitClean, Goes, MainKilled, AtRest, Put, Killers, SimTypeOK, OperatorsSound,
        Started
  <1>26. CASE ForceExit
    BY <1>26, <1>h, MainApart
    DEF ForceExit, Put, Killers, SimTypeOK, OperatorsSound, Started
  <1> QED
    BY <1>1, <1>2, <1>3, <1>4, <1>5, <1>6, <1>7, <1>8, <1>9, <1>10, <1>11, <1>12, <1>13,
       <1>14, <1>15, <1>16, <1>17, <1>18, <1>19, <1>20, <1>21, <1>22, <1>23, <1>24, <1>25,
       <1>26
    DEF SimNext, RequestNext, WatcherNext, KillerNext

\* A run request starts its process, registers it and only then answers.
LEMMA RunsSoundStep ==
  ASSUME MainApart, SimInv, SimNext PROVE RunsSound'
  <1>h. RunsSound /\ SimTypeOK /\ OperatorsSound
    BY DEF SimInv
  <1>1. ASSUME NEW s \in Sims, Refuse(s) PROVE RunsSound'
    BY <1>1, <1>h, MainApart
    DEF Refuse, Put, Killers, RunsSound, Started, SimTypeOK, OperatorsSound
  <1>2. ASSUME NEW s \in Sims, Accepts /\ Spawn(s) PROVE RunsSound'
    BY <1>2, <1>h, MainApart
    DEF Spawn, Accepts, Put, Killers, RunsSound, Started, SimTypeOK, OperatorsSound
  <1>3. ASSUME NEW s \in Sims, Register(s) PROVE RunsSound'
    BY <1>3, <1>h, MainApart
    DEF Register, Put, Killers, RunsSound, Started, SimTypeOK, OperatorsSound
  <1>4. ASSUME NEW s \in Sims, Watch(s) PROVE RunsSound'
    BY <1>4, <1>h, MainApart
    DEF Watch, Put, Killers, RunsSound, Started, SimTypeOK, OperatorsSound
  <1>5. ASSUME NEW s \in Sims, Look(s) PROVE RunsSound'
    BY <1>5, <1>h, MainApart
    DEF Look, Watches, Put, Killers, RunsSound, Started, SimTypeOK, OperatorsSound
  <1>6. ASSUME NEW s \in Sims, KillAtDeadline(s) PROVE RunsSound'
    BY <1>6, <1>h, MainApart
    DEF KillAtDeadline, Watches, Signal, Put, Killers, RunsSound, Started, SimTypeOK,
        OperatorsSound
  <1>7. ASSUME NEW s \in Sims, Poll(s) PROVE RunsSound'
    BY <1>7, <1>h, MainApart
    DEF Poll, Watches, Put, Killers, RunsSound, Started, SimTypeOK, OperatorsSound
  <1>8. ASSUME NEW s \in Sims, TestFlag(s) PROVE RunsSound'
    BY <1>8, <1>h, MainApart
    DEF TestFlag, Watches, Put, Killers, RunsSound, Started, SimTypeOK, OperatorsSound
  <1>9. ASSUME NEW s \in Sims, ReadTail(s) PROVE RunsSound'
    BY <1>9, <1>h, MainApart
    DEF ReadTail, Watches, Put, Killers, RunsSound, Started, SimTypeOK, OperatorsSound
  <1>10. ASSUME NEW s \in Sims, Report(s) PROVE RunsSound'
    BY <1>10, <1>h, MainApart
    DEF Report, Watches, Put, Killers, RunsSound, Started, SimTypeOK, OperatorsSound
  <1>11. ASSUME NEW s \in Sims, Unregister(s) PROVE RunsSound'
    BY <1>11, <1>h, MainApart
    DEF Unregister, Watches, Put, Killers, RunsSound, Started, SimTypeOK, OperatorsSound
  <1>12. ASSUME NEW s \in Sims, Sleep(s) PROVE RunsSound'
    BY <1>12, <1>h, MainApart
    DEF Sleep, Watches, Put, Killers, RunsSound, Started, SimTypeOK, OperatorsSound
  <1>13. ASSUME NEW s \in Sims, Ends(s) PROVE RunsSound'
    BY <1>13, <1>h, MainApart
    DEF Ends, Put, Killers, RunsSound, Started, SimTypeOK, OperatorsSound
  <1>14. ASSUME NEW o \in Operators, AskKill(o) PROVE RunsSound'
    BY <1>14, <1>h, MainApart
    DEF AskKill, Works, AtRest, Put, Killers, RunsSound, Started, SimTypeOK, OperatorsSound
  <1>15. ASSUME NEW o \in Operators, ReportKills(o) PROVE RunsSound'
    BY <1>15, <1>h, MainApart
    DEF ReportKills, AtRest, Put, Killers, RunsSound, Started, SimTypeOK, OperatorsSound
  <1>16. ASSUME NEW o \in Killers, Take(o) PROVE RunsSound'
    BY <1>16, <1>h, MainApart
    DEF Take, AtRest, Put, Killers, RunsSound, Started, SimTypeOK, OperatorsSound
  <1>17. ASSUME NEW o \in Killers, SetFlag(o) PROVE RunsSound'
    BY <1>17, <1>h, MainApart
    DEF SetFlag, To, Put, Killers, RunsSound, Started, SimTypeOK, OperatorsSound
  <1>18. ASSUME NEW o \in Killers, Kill(o) PROVE RunsSound'
    BY <1>18, <1>h, MainApart
    DEF Kill, To, Signal, Put, Killers, RunsSound, Started, SimTypeOK, OperatorsSound
  <1>19. ASSUME NEW o \in Killers, Kind(o) PROVE RunsSound'
    BY <1>19, <1>h, MainApart
    DEF Kind, Put, Killers, RunsSound, Started, SimTypeOK, OperatorsSound
  <1>20. ASSUME NEW o \in Killers, RemoveEntry(o) PROVE RunsSound'
    BY <1>20, <1>h, MainApart
    DEF RemoveEntry, To, Put, Killers, RunsSound, Started, SimTypeOK, OperatorsSound
  <1>21. CASE PanicTrap
    BY <1>21, <1>h, MainApart
    DEF PanicTrap, Put, Killers, RunsSound, Started, SimTypeOK, OperatorsSound
  <1>22. CASE Trap
    BY <1>22, <1>h, MainApart
    DEF Trap, Goes, MainKills, Works, AtRest, Put, Killers, RunsSound, Started, SimTypeOK,
        OperatorsSound
  <1>23. CASE Drain
    BY <1>23, <1>h, MainApart
    DEF Drain, Goes, MainKilled, AtRest, Put, Killers, RunsSound, Started, SimTypeOK,
        OperatorsSound
  <1>24. CASE ReapRest
    BY <1>24, <1>h, MainApart
    DEF ReapRest, Goes, MainKills, Works, InFlight, AtRest, Put, Killers, RunsSound,
        Started, SimTypeOK, OperatorsSound
  <1>25. CASE ExitClean
    BY <1>25, <1>h, MainApart
    DEF ExitClean, Goes, MainKilled, AtRest, Put, Killers, RunsSound, Started, SimTypeOK,
        OperatorsSound
  <1>26. CASE ForceExit
    BY <1>26, <1>h, MainApart
    DEF ForceExit, Put, Killers, RunsSound, Started, SimTypeOK, OperatorsSound
  <1> QED
    BY <1>1, <1>2, <1>3, <1>4, <1>5, <1>6, <1>7, <1>8, <1>9, <1>10, <1>11, <1>12, <1>13,
       <1>14, <1>15, <1>16, <1>17, <1>18, <1>19, <1>20, <1>21, <1>22, <1>23, <1>24, <1>25,
       <1>26
    DEF SimNext, RequestNext, WatcherNext, KillerNext

\* A request that kills goes on with what it knows of its target.
LEMMA OperatorsSoundStep ==
  ASSUME MainApart, SimInv, SimNext PROVE OperatorsSound'
  <1>h. OperatorsSound /\ SimTypeOK /\ RunsSound /\ GoneDead
    BY DEF SimInv
  <1>1. ASSUME NEW s \in Sims, Refuse(s) PROVE OperatorsSound'
    BY <1>1, <1>h, MainApart
    DEF Refuse, Put, Killers, OperatorsSound, Started, SimTypeOK, RunsSound, GoneDead
  <1>2. ASSUME NEW s \in Sims, Accepts /\ Spawn(s) PROVE OperatorsSound'
    BY <1>2, <1>h, MainApart
    DEF Spawn, Accepts, Put, Killers, OperatorsSound, Started, SimTypeOK, RunsSound,
        GoneDead
  <1>3. ASSUME NEW s \in Sims, Register(s) PROVE OperatorsSound'
    BY <1>3, <1>h, MainApart
    DEF Register, Put, Killers, OperatorsSound, Started, SimTypeOK, RunsSound, GoneDead
  <1>4. ASSUME NEW s \in Sims, Watch(s) PROVE OperatorsSound'
    BY <1>4, <1>h, MainApart
    DEF Watch, Put, Killers, OperatorsSound, Started, SimTypeOK, RunsSound, GoneDead
  <1>5. ASSUME NEW s \in Sims, Look(s) PROVE OperatorsSound'
    BY <1>5, <1>h, MainApart
    DEF Look, Watches, Put, Killers, OperatorsSound, Started, SimTypeOK, RunsSound, GoneDead
  <1>6. ASSUME NEW s \in Sims, KillAtDeadline(s) PROVE OperatorsSound'
    BY <1>6, <1>h, MainApart
    DEF KillAtDeadline, Watches, Signal, Put, Killers, OperatorsSound, Started, SimTypeOK,
        RunsSound, GoneDead
  <1>7. ASSUME NEW s \in Sims, Poll(s) PROVE OperatorsSound'
    BY <1>7, <1>h, MainApart
    DEF Poll, Watches, Put, Killers, OperatorsSound, Started, SimTypeOK, RunsSound, GoneDead
  <1>8. ASSUME NEW s \in Sims, TestFlag(s) PROVE OperatorsSound'
    BY <1>8, <1>h, MainApart
    DEF TestFlag, Watches, Put, Killers, OperatorsSound, Started, SimTypeOK, RunsSound,
        GoneDead
  <1>9. ASSUME NEW s \in Sims, ReadTail(s) PROVE OperatorsSound'
    BY <1>9, <1>h, MainApart
    DEF ReadTail, Watches, Put, Killers, OperatorsSound, Started, SimTypeOK, RunsSound,
        GoneDead
  <1>10. ASSUME NEW s \in Sims, Report(s) PROVE OperatorsSound'
    BY <1>10, <1>h, MainApart
    DEF Report, Watches, Put, Killers, OperatorsSound, Started, SimTypeOK, RunsSound,
        GoneDead
  <1>11. ASSUME NEW s \in Sims, Unregister(s) PROVE OperatorsSound'
    BY <1>11, <1>h, MainApart
    DEF Unregister, Watches, Put, Killers, OperatorsSound, Started, SimTypeOK, RunsSound,
        GoneDead
  <1>12. ASSUME NEW s \in Sims, Sleep(s) PROVE OperatorsSound'
    BY <1>12, <1>h, MainApart
    DEF Sleep, Watches, Put, Killers, OperatorsSound, Started, SimTypeOK, RunsSound,
        GoneDead
  <1>13. ASSUME NEW s \in Sims, Ends(s) PROVE OperatorsSound'
    BY <1>13, <1>h, MainApart
    DEF Ends, Put, Killers, OperatorsSound, Started, SimTypeOK, RunsSound, GoneDead
  <1>14. ASSUME NEW o \in Operators, AskKill(o) PROVE OperatorsSound'
    BY <1>14, <1>h, MainApart
    DEF AskKill, Works, AtRest, Put, Killers, OperatorsSound, Started, SimTypeOK, RunsSound,
        GoneDead
  <1>15. ASSUME NEW o \in Operators, ReportKills(o) PROVE OperatorsSound'
    BY <1>15, <1>h, MainApart
    DEF ReportKills, AtRest, Put, Killers, OperatorsSound, Started, SimTypeOK, RunsSound,
        GoneDead
  <1>16. ASSUME NEW o \in Killers, Take(o) PROVE OperatorsSound'
    BY <1>16, <1>h, MainApart
    DEF Take, AtRest, Put, Killers, OperatorsSound, Started, SimTypeOK, RunsSound, GoneDead
  <1>17. ASSUME NEW o \in Killers, SetFlag(o) PROVE OperatorsSound'
    BY <1>17, <1>h, MainApart
    DEF SetFlag, To, Put, Killers, OperatorsSound, Started, SimTypeOK, RunsSound, GoneDead
  <1>18. ASSUME NEW o \in Killers, Kill(o) PROVE OperatorsSound'
    BY <1>18, <1>h, MainApart
    DEF Kill, To, Signal, Put, Killers, OperatorsSound, Started, SimTypeOK, RunsSound,
        GoneDead
  <1>19. ASSUME NEW o \in Killers, Kind(o) PROVE OperatorsSound'
    BY <1>19, <1>h, MainApart
    DEF Kind, Put, Killers, OperatorsSound, Started, SimTypeOK, RunsSound, GoneDead
  <1>20. ASSUME NEW o \in Killers, RemoveEntry(o) PROVE OperatorsSound'
    BY <1>20, <1>h, MainApart
    DEF RemoveEntry, To, Put, Killers, OperatorsSound, Started, SimTypeOK, RunsSound,
        GoneDead
  <1>21. CASE PanicTrap
    BY <1>21, <1>h, MainApart
    DEF PanicTrap, Put, Killers, OperatorsSound, Started, SimTypeOK, RunsSound, GoneDead
  <1>22. CASE Trap
    BY <1>22, <1>h, MainApart
    DEF Trap, Goes, MainKills, Works, AtRest, Put, Killers, OperatorsSound, Started,
        SimTypeOK, RunsSound, GoneDead
  <1>23. CASE Drain
    BY <1>23, <1>h, MainApart
    DEF Drain, Goes, MainKilled, AtRest, Put, Killers, OperatorsSound, Started, SimTypeOK,
        RunsSound, GoneDead
  <1>24. CASE ReapRest
    BY <1>24, <1>h, MainApart
    DEF ReapRest, Goes, MainKills, Works, InFlight, AtRest, Put, Killers, OperatorsSound,
        Started, SimTypeOK, RunsSound, GoneDead
  <1>25. CASE ExitClean
    BY <1>25, <1>h, MainApart
    DEF ExitClean, Goes, MainKilled, AtRest, Put, Killers, OperatorsSound, Started,
        SimTypeOK, RunsSound, GoneDead
  <1>26. CASE ForceExit
    BY <1>26, <1>h, MainApart
    DEF ForceExit, Put, Killers, OperatorsSound, Started, SimTypeOK, RunsSound, GoneDead
  <1> QED
    BY <1>1, <1>2, <1>3, <1>4, <1>5, <1>6, <1>7, <1>8, <1>9, <1>10, <1>11, <1>12, <1>13,
       <1>14, <1>15, <1>16, <1>17, <1>18, <1>19, <1>20, <1>21, <1>22, <1>23, <1>24, <1>25,
       <1>26
    DEF SimNext, RequestNext, WatcherNext, KillerNext

\* The shutdown is the only work of the main thread, and it kills all.
LEMMA MainSoundStep ==
  ASSUME MainApart, SimInv, SimNext PROVE MainSound'
  <1>h. MainSound /\ SimTypeOK /\ OperatorsSound
    BY DEF SimInv
  <1>1. ASSUME NEW s \in Sims, Refuse(s) PROVE MainSound'
    BY <1>1, <1>h, MainApart
    DEF Refuse, Put, Killers, MainSound, SimTypeOK, OperatorsSound, Started
  <1>2. ASSUME NEW s \in Sims, Accepts /\ Spawn(s) PROVE MainSound'
    BY <1>2, <1>h, MainApart
    DEF Spawn, Accepts, Put, Killers, MainSound, SimTypeOK, OperatorsSound, Started
  <1>3. ASSUME NEW s \in Sims, Register(s) PROVE MainSound'
    BY <1>3, <1>h, MainApart
    DEF Register, Put, Killers, MainSound, SimTypeOK, OperatorsSound, Started
  <1>4. ASSUME NEW s \in Sims, Watch(s) PROVE MainSound'
    BY <1>4, <1>h, MainApart
    DEF Watch, Put, Killers, MainSound, SimTypeOK, OperatorsSound, Started
  <1>5. ASSUME NEW s \in Sims, Look(s) PROVE MainSound'
    BY <1>5, <1>h, MainApart
    DEF Look, Watches, Put, Killers, MainSound, SimTypeOK, OperatorsSound, Started
  <1>6. ASSUME NEW s \in Sims, KillAtDeadline(s) PROVE MainSound'
    BY <1>6, <1>h, MainApart
    DEF KillAtDeadline, Watches, Signal, Put, Killers, MainSound, SimTypeOK, OperatorsSound,
        Started
  <1>7. ASSUME NEW s \in Sims, Poll(s) PROVE MainSound'
    BY <1>7, <1>h, MainApart
    DEF Poll, Watches, Put, Killers, MainSound, SimTypeOK, OperatorsSound, Started
  <1>8. ASSUME NEW s \in Sims, TestFlag(s) PROVE MainSound'
    BY <1>8, <1>h, MainApart
    DEF TestFlag, Watches, Put, Killers, MainSound, SimTypeOK, OperatorsSound, Started
  <1>9. ASSUME NEW s \in Sims, ReadTail(s) PROVE MainSound'
    BY <1>9, <1>h, MainApart
    DEF ReadTail, Watches, Put, Killers, MainSound, SimTypeOK, OperatorsSound, Started
  <1>10. ASSUME NEW s \in Sims, Report(s) PROVE MainSound'
    BY <1>10, <1>h, MainApart
    DEF Report, Watches, Put, Killers, MainSound, SimTypeOK, OperatorsSound, Started
  <1>11. ASSUME NEW s \in Sims, Unregister(s) PROVE MainSound'
    BY <1>11, <1>h, MainApart
    DEF Unregister, Watches, Put, Killers, MainSound, SimTypeOK, OperatorsSound, Started
  <1>12. ASSUME NEW s \in Sims, Sleep(s) PROVE MainSound'
    BY <1>12, <1>h, MainApart
    DEF Sleep, Watches, Put, Killers, MainSound, SimTypeOK, OperatorsSound, Started
  <1>13. ASSUME NEW s \in Sims, Ends(s) PROVE MainSound'
    BY <1>13, <1>h, MainApart
    DEF Ends, Put, Killers, MainSound, SimTypeOK, OperatorsSound, Started
  <1>14. ASSUME NEW o \in Operators, AskKill(o) PROVE MainSound'
    BY <1>14, <1>h, MainApart
    DEF AskKill, Works, AtRest, Put, Killers, MainSound, SimTypeOK, OperatorsSound, Started
  <1>15. ASSUME NEW o \in Operators, ReportKills(o) PROVE MainSound'
    BY <1>15, <1>h, MainApart
    DEF ReportKills, AtRest, Put, Killers, MainSound, SimTypeOK, OperatorsSound, Started
  <1>16. ASSUME NEW o \in Killers, Take(o) PROVE MainSound'
    BY <1>16, <1>h, MainApart
    DEF Take, AtRest, Put, Killers, MainSound, SimTypeOK, OperatorsSound, Started
  <1>17. ASSUME NEW o \in Killers, SetFlag(o) PROVE MainSound'
    BY <1>17, <1>h, MainApart
    DEF SetFlag, To, Put, Killers, MainSound, SimTypeOK, OperatorsSound, Started
  <1>18. ASSUME NEW o \in Killers, Kill(o) PROVE MainSound'
    BY <1>18, <1>h, MainApart
    DEF Kill, To, Signal, Put, Killers, MainSound, SimTypeOK, OperatorsSound, Started
  <1>19. ASSUME NEW o \in Killers, Kind(o) PROVE MainSound'
    BY <1>19, <1>h, MainApart
    DEF Kind, Put, Killers, MainSound, SimTypeOK, OperatorsSound, Started
  <1>20. ASSUME NEW o \in Killers, RemoveEntry(o) PROVE MainSound'
    BY <1>20, <1>h, MainApart
    DEF RemoveEntry, To, Put, Killers, MainSound, SimTypeOK, OperatorsSound, Started
  <1>21. CASE PanicTrap
    BY <1>21, <1>h, MainApart
    DEF PanicTrap, Put, Killers, MainSound, SimTypeOK, OperatorsSound, Started
  <1>22. CASE Trap
    BY <1>22, <1>h, MainApart
    DEF Trap, Goes, MainKills, Works, AtRest, Put, Killers, MainSound, SimTypeOK,
        OperatorsSound, Started
  <1>23. CASE Drain
    BY <1>23, <1>h, MainApart
    DEF Drain, Goes, MainKilled, AtRest, Put, Killers, MainSound, SimTypeOK, OperatorsSound,
        Started
  <1>24. CASE ReapRest
    BY <1>24, <1>h, MainApart
    DEF ReapRest, Goes, MainKills, Works, InFlight, AtRest, Put, Killers, MainSound,
        SimTypeOK, OperatorsSound, Started
  <1>25. CASE ExitClean
    BY <1>25, <1>h, MainApart
    DEF ExitClean, Goes, MainKilled, AtRest, Put, Killers, MainSound, SimTypeOK,
        OperatorsSound, Started
  <1>26. CASE ForceExit
    BY <1>26, <1>h, MainApart
    DEF ForceExit, Put, Killers, MainSound, SimTypeOK, OperatorsSound, Started
  <1> QED
    BY <1>1, <1>2, <1>3, <1>4, <1>5, <1>6, <1>7, <1>8, <1>9, <1>10, <1>11, <1>12, <1>13,
       <1>14, <1>15, <1>16, <1>17, <1>18, <1>19, <1>20, <1>21, <1>22, <1>23, <1>24, <1>25,
       <1>26
    DEF SimNext, RequestNext, WatcherNext, KillerNext

\* A watcher goes on only once its process is dead.
LEMMA WatchersSoundStep ==
  ASSUME MainApart, SimInv, SimNext PROVE WatchersSound'
  <1>h. WatchersSound /\ SimTypeOK /\ RunsSound
    BY DEF SimInv
  <1>1. ASSUME NEW s \in Sims, Refuse(s) PROVE WatchersSound'
    BY <1>1, <1>h, MainApart
    DEF Refuse, Put, Killers, WatchersSound, SimTypeOK, RunsSound, Started
  <1>2. ASSUME NEW s \in Sims, Accepts /\ Spawn(s) PROVE WatchersSound'
    BY <1>2, <1>h, MainApart
    DEF Spawn, Accepts, Put, Killers, WatchersSound, SimTypeOK, RunsSound, Started
  <1>3. ASSUME NEW s \in Sims, Register(s) PROVE WatchersSound'
    BY <1>3, <1>h, MainApart
    DEF Register, Put, Killers, WatchersSound, SimTypeOK, RunsSound, Started
  <1>4. ASSUME NEW s \in Sims, Watch(s) PROVE WatchersSound'
    BY <1>4, <1>h, MainApart
    DEF Watch, Put, Killers, WatchersSound, SimTypeOK, RunsSound, Started
  <1>5. ASSUME NEW s \in Sims, Look(s) PROVE WatchersSound'
    BY <1>5, <1>h, MainApart
    DEF Look, Watches, Put, Killers, WatchersSound, SimTypeOK, RunsSound, Started
  <1>6. ASSUME NEW s \in Sims, KillAtDeadline(s) PROVE WatchersSound'
    BY <1>6, <1>h, MainApart
    DEF KillAtDeadline, Watches, Signal, Put, Killers, WatchersSound, SimTypeOK, RunsSound,
        Started
  <1>7. ASSUME NEW s \in Sims, Poll(s) PROVE WatchersSound'
    BY <1>7, <1>h, MainApart
    DEF Poll, Watches, Put, Killers, WatchersSound, SimTypeOK, RunsSound, Started
  <1>8. ASSUME NEW s \in Sims, TestFlag(s) PROVE WatchersSound'
    BY <1>8, <1>h, MainApart
    DEF TestFlag, Watches, Put, Killers, WatchersSound, SimTypeOK, RunsSound, Started
  <1>9. ASSUME NEW s \in Sims, ReadTail(s) PROVE WatchersSound'
    BY <1>9, <1>h, MainApart
    DEF ReadTail, Watches, Put, Killers, WatchersSound, SimTypeOK, RunsSound, Started
  <1>10. ASSUME NEW s \in Sims, Report(s) PROVE WatchersSound'
    <2>1. reports'[s] # {} /\ phase' = phase /\ phase[s] # "running"
      BY <1>10, <1>h
      DEF Report, Watches, Put, Killers, WatchersSound, SimTypeOK, RunsSound, Started
    <2>2. \A u \in Sims \ {s} : reports'[u] = reports[u] /\ watcher'[u] = watcher[u]
      BY <1>10, <1>h
      DEF Report, Watches, Put, Killers, WatchersSound, SimTypeOK, RunsSound, Started
    <2> QED BY <2>1, <2>2, <1>h DEF WatchersSound
  <1>11. ASSUME NEW s \in Sims, Unregister(s) PROVE WatchersSound'
    BY <1>11, <1>h, MainApart
    DEF Unregister, Watches, Put, Killers, WatchersSound, SimTypeOK, RunsSound, Started
  <1>12. ASSUME NEW s \in Sims, Sleep(s) PROVE WatchersSound'
    BY <1>12, <1>h, MainApart
    DEF Sleep, Watches, Put, Killers, WatchersSound, SimTypeOK, RunsSound, Started
  <1>13. ASSUME NEW s \in Sims, Ends(s) PROVE WatchersSound'
    BY <1>13, <1>h, MainApart
    DEF Ends, Put, Killers, WatchersSound, SimTypeOK, RunsSound, Started
  <1>14. ASSUME NEW o \in Operators, AskKill(o) PROVE WatchersSound'
    BY <1>14, <1>h, MainApart
    DEF AskKill, Works, AtRest, Put, Killers, WatchersSound, SimTypeOK, RunsSound, Started
  <1>15. ASSUME NEW o \in Operators, ReportKills(o) PROVE WatchersSound'
    BY <1>15, <1>h, MainApart
    DEF ReportKills, AtRest, Put, Killers, WatchersSound, SimTypeOK, RunsSound, Started
  <1>16. ASSUME NEW o \in Killers, Take(o) PROVE WatchersSound'
    BY <1>16, <1>h, MainApart
    DEF Take, AtRest, Put, Killers, WatchersSound, SimTypeOK, RunsSound, Started
  <1>17. ASSUME NEW o \in Killers, SetFlag(o) PROVE WatchersSound'
    BY <1>17, <1>h, MainApart
    DEF SetFlag, To, Put, Killers, WatchersSound, SimTypeOK, RunsSound, Started
  <1>18. ASSUME NEW o \in Killers, Kill(o) PROVE WatchersSound'
    BY <1>18, <1>h, MainApart
    DEF Kill, To, Signal, Put, Killers, WatchersSound, SimTypeOK, RunsSound, Started
  <1>19. ASSUME NEW o \in Killers, Kind(o) PROVE WatchersSound'
    BY <1>19, <1>h, MainApart
    DEF Kind, Put, Killers, WatchersSound, SimTypeOK, RunsSound, Started
  <1>20. ASSUME NEW o \in Killers, RemoveEntry(o) PROVE WatchersSound'
    BY <1>20, <1>h, MainApart
    DEF RemoveEntry, To, Put, Killers, WatchersSound, SimTypeOK, RunsSound, Started
  <1>21. CASE PanicTrap
    BY <1>21, <1>h, MainApart
    DEF PanicTrap, Put, Killers, WatchersSound, SimTypeOK, RunsSound, Started
  <1>22. CASE Trap
    BY <1>22, <1>h, MainApart
    DEF Trap, Goes, MainKills, Works, AtRest, Put, Killers, WatchersSound, SimTypeOK,
        RunsSound, Started
  <1>23. CASE Drain
    BY <1>23, <1>h, MainApart
    DEF Drain, Goes, MainKilled, AtRest, Put, Killers, WatchersSound, SimTypeOK, RunsSound,
        Started
  <1>24. CASE ReapRest
    BY <1>24, <1>h, MainApart
    DEF ReapRest, Goes, MainKills, Works, InFlight, AtRest, Put, Killers, WatchersSound,
        SimTypeOK, RunsSound, Started
  <1>25. CASE ExitClean
    BY <1>25, <1>h, MainApart
    DEF ExitClean, Goes, MainKilled, AtRest, Put, Killers, WatchersSound, SimTypeOK,
        RunsSound, Started
  <1>26. CASE ForceExit
    BY <1>26, <1>h, MainApart
    DEF ForceExit, Put, Killers, WatchersSound, SimTypeOK, RunsSound, Started
  <1> QED
    BY <1>1, <1>2, <1>3, <1>4, <1>5, <1>6, <1>7, <1>8, <1>9, <1>10, <1>11, <1>12, <1>13,
       <1>14, <1>15, <1>16, <1>17, <1>18, <1>19, <1>20, <1>21, <1>22, <1>23, <1>24, <1>25,
       <1>26
    DEF SimNext, RequestNext, WatcherNext, KillerNext

\* An entry is taken away once its process is dead.
LEMMA GoneDeadStep ==
  ASSUME MainApart, SimInv, SimNext PROVE GoneDead'
  <1>h. GoneDead /\ SimTypeOK /\ RunsSound /\ OperatorsSound /\ WatchersSound
    BY DEF SimInv
  <1>1. ASSUME NEW s \in Sims, Refuse(s) PROVE GoneDead'
    BY <1>1, <1>h, MainApart
    DEF Refuse, Put, Killers, GoneDead, Started, SimTypeOK, RunsSound, OperatorsSound,
        WatchersSound
  <1>2. ASSUME NEW s \in Sims, Accepts /\ Spawn(s) PROVE GoneDead'
    BY <1>2, <1>h, MainApart
    DEF Spawn, Accepts, Put, Killers, GoneDead, Started, SimTypeOK, RunsSound,
        OperatorsSound, WatchersSound
  <1>3. ASSUME NEW s \in Sims, Register(s) PROVE GoneDead'
    BY <1>3, <1>h, MainApart
    DEF Register, Put, Killers, GoneDead, Started, SimTypeOK, RunsSound, OperatorsSound,
        WatchersSound
  <1>4. ASSUME NEW s \in Sims, Watch(s) PROVE GoneDead'
    BY <1>4, <1>h, MainApart
    DEF Watch, Put, Killers, GoneDead, Started, SimTypeOK, RunsSound, OperatorsSound,
        WatchersSound
  <1>5. ASSUME NEW s \in Sims, Look(s) PROVE GoneDead'
    BY <1>5, <1>h, MainApart
    DEF Look, Watches, Put, Killers, GoneDead, Started, SimTypeOK, RunsSound,
        OperatorsSound, WatchersSound
  <1>6. ASSUME NEW s \in Sims, KillAtDeadline(s) PROVE GoneDead'
    BY <1>6, <1>h, MainApart
    DEF KillAtDeadline, Watches, Signal, Put, Killers, GoneDead, Started, SimTypeOK,
        RunsSound, OperatorsSound, WatchersSound
  <1>7. ASSUME NEW s \in Sims, Poll(s) PROVE GoneDead'
    BY <1>7, <1>h, MainApart
    DEF Poll, Watches, Put, Killers, GoneDead, Started, SimTypeOK, RunsSound,
        OperatorsSound, WatchersSound
  <1>8. ASSUME NEW s \in Sims, TestFlag(s) PROVE GoneDead'
    BY <1>8, <1>h, MainApart
    DEF TestFlag, Watches, Put, Killers, GoneDead, Started, SimTypeOK, RunsSound,
        OperatorsSound, WatchersSound
  <1>9. ASSUME NEW s \in Sims, ReadTail(s) PROVE GoneDead'
    BY <1>9, <1>h, MainApart
    DEF ReadTail, Watches, Put, Killers, GoneDead, Started, SimTypeOK, RunsSound,
        OperatorsSound, WatchersSound
  <1>10. ASSUME NEW s \in Sims, Report(s) PROVE GoneDead'
    BY <1>10, <1>h, MainApart
    DEF Report, Watches, Put, Killers, GoneDead, Started, SimTypeOK, RunsSound,
        OperatorsSound, WatchersSound
  <1>11. ASSUME NEW s \in Sims, Unregister(s) PROVE GoneDead'
    BY <1>11, <1>h, MainApart
    DEF Unregister, Watches, Put, Killers, GoneDead, Started, SimTypeOK, RunsSound,
        OperatorsSound, WatchersSound
  <1>12. ASSUME NEW s \in Sims, Sleep(s) PROVE GoneDead'
    BY <1>12, <1>h, MainApart
    DEF Sleep, Watches, Put, Killers, GoneDead, Started, SimTypeOK, RunsSound,
        OperatorsSound, WatchersSound
  <1>13. ASSUME NEW s \in Sims, Ends(s) PROVE GoneDead'
    BY <1>13, <1>h, MainApart
    DEF Ends, Put, Killers, GoneDead, Started, SimTypeOK, RunsSound, OperatorsSound,
        WatchersSound
  <1>14. ASSUME NEW o \in Operators, AskKill(o) PROVE GoneDead'
    BY <1>14, <1>h, MainApart
    DEF AskKill, Works, AtRest, Put, Killers, GoneDead, Started, SimTypeOK, RunsSound,
        OperatorsSound, WatchersSound
  <1>15. ASSUME NEW o \in Operators, ReportKills(o) PROVE GoneDead'
    BY <1>15, <1>h, MainApart
    DEF ReportKills, AtRest, Put, Killers, GoneDead, Started, SimTypeOK, RunsSound,
        OperatorsSound, WatchersSound
  <1>16. ASSUME NEW o \in Killers, Take(o) PROVE GoneDead'
    BY <1>16, <1>h, MainApart
    DEF Take, AtRest, Put, Killers, GoneDead, Started, SimTypeOK, RunsSound, OperatorsSound,
        WatchersSound
  <1>17. ASSUME NEW o \in Killers, SetFlag(o) PROVE GoneDead'
    BY <1>17, <1>h, MainApart
    DEF SetFlag, To, Put, Killers, GoneDead, Started, SimTypeOK, RunsSound, OperatorsSound,
        WatchersSound
  <1>18. ASSUME NEW o \in Killers, Kill(o) PROVE GoneDead'
    BY <1>18, <1>h, MainApart
    DEF Kill, To, Signal, Put, Killers, GoneDead, Started, SimTypeOK, RunsSound,
        OperatorsSound, WatchersSound
  <1>19. ASSUME NEW o \in Killers, Kind(o) PROVE GoneDead'
    BY <1>19, <1>h, MainApart
    DEF Kind, Put, Killers, GoneDead, Started, SimTypeOK, RunsSound, OperatorsSound,
        WatchersSound
  <1>20. ASSUME NEW o \in Killers, RemoveEntry(o) PROVE GoneDead'
    BY <1>20, <1>h, MainApart
    DEF RemoveEntry, To, Put, Killers, GoneDead, Started, SimTypeOK, RunsSound,
        OperatorsSound, WatchersSound
  <1>21. CASE PanicTrap
    BY <1>21, <1>h, MainApart
    DEF PanicTrap, Put, Killers, GoneDead, Started, SimTypeOK, RunsSound, OperatorsSound,
        WatchersSound
  <1>22. CASE Trap
    BY <1>22, <1>h, MainApart
    DEF Trap, Goes, MainKills, Works, AtRest, Put, Killers, GoneDead, Started, SimTypeOK,
        RunsSound, OperatorsSound, WatchersSound
  <1>23. CASE Drain
    BY <1>23, <1>h, MainApart
    DEF Drain, Goes, MainKilled, AtRest, Put, Killers, GoneDead, Started, SimTypeOK,
        RunsSound, OperatorsSound, WatchersSound
  <1>24. CASE ReapRest
    BY <1>24, <1>h, MainApart
    DEF ReapRest, Goes, MainKills, Works, InFlight, AtRest, Put, Killers, GoneDead, Started,
        SimTypeOK, RunsSound, OperatorsSound, WatchersSound
  <1>25. CASE ExitClean
    BY <1>25, <1>h, MainApart
    DEF ExitClean, Goes, MainKilled, AtRest, Put, Killers, GoneDead, Started, SimTypeOK,
        RunsSound, OperatorsSound, WatchersSound
  <1>26. CASE ForceExit
    BY <1>26, <1>h, MainApart
    DEF ForceExit, Put, Killers, GoneDead, Started, SimTypeOK, RunsSound, OperatorsSound,
        WatchersSound
  <1> QED
    BY <1>1, <1>2, <1>3, <1>4, <1>5, <1>6, <1>7, <1>8, <1>9, <1>10, <1>11, <1>12, <1>13,
       <1>14, <1>15, <1>16, <1>17, <1>18, <1>19, <1>20, <1>21, <1>22, <1>23, <1>24, <1>25,
       <1>26
    DEF SimNext, RequestNext, WatcherNext, KillerNext

\* The entry stays in someone's charge from the flag on.
LEMMA FlagSoundStep ==
  ASSUME MainApart, SimInv, SimNext PROVE FlagSound'
  <1>h. FlagSound /\ SimTypeOK /\ RunsSound /\ OperatorsSound /\ MainSound /\ GoneDead
    BY DEF SimInv
  <1>1. ASSUME NEW s \in Sims, Refuse(s) PROVE FlagSound'
    BY <1>1, <1>h, MainApart
    DEF Refuse, Put, Killers, FlagSound, WorksOn, SimTypeOK, RunsSound, Started,
        OperatorsSound, MainSound, GoneDead
  <1>2. ASSUME NEW s \in Sims, Accepts /\ Spawn(s) PROVE FlagSound'
    BY <1>2, <1>h, MainApart
    DEF Spawn, Accepts, Put, Killers, FlagSound, WorksOn, SimTypeOK, RunsSound, Started,
        OperatorsSound, MainSound, GoneDead
  <1>3. ASSUME NEW s \in Sims, Register(s) PROVE FlagSound'
    BY <1>3, <1>h, MainApart
    DEF Register, Put, Killers, FlagSound, WorksOn, SimTypeOK, RunsSound, Started,
        OperatorsSound, MainSound, GoneDead
  <1>4. ASSUME NEW s \in Sims, Watch(s) PROVE FlagSound'
    BY <1>4, <1>h, MainApart
    DEF Watch, Put, Killers, FlagSound, WorksOn, SimTypeOK, RunsSound, Started,
        OperatorsSound, MainSound, GoneDead
  <1>5. ASSUME NEW s \in Sims, Look(s) PROVE FlagSound'
    BY <1>5, <1>h, MainApart
    DEF Look, Watches, Put, Killers, FlagSound, WorksOn, SimTypeOK, RunsSound, Started,
        OperatorsSound, MainSound, GoneDead
  <1>6. ASSUME NEW s \in Sims, KillAtDeadline(s) PROVE FlagSound'
    BY <1>6, <1>h, MainApart
    DEF KillAtDeadline, Watches, Signal, Put, Killers, FlagSound, WorksOn, SimTypeOK,
        RunsSound, Started, OperatorsSound, MainSound, GoneDead
  <1>7. ASSUME NEW s \in Sims, Poll(s) PROVE FlagSound'
    BY <1>7, <1>h, MainApart
    DEF Poll, Watches, Put, Killers, FlagSound, WorksOn, SimTypeOK, RunsSound, Started,
        OperatorsSound, MainSound, GoneDead
  <1>8. ASSUME NEW s \in Sims, TestFlag(s) PROVE FlagSound'
    BY <1>8, <1>h, MainApart
    DEF TestFlag, Watches, Put, Killers, FlagSound, WorksOn, SimTypeOK, RunsSound, Started,
        OperatorsSound, MainSound, GoneDead
  <1>9. ASSUME NEW s \in Sims, ReadTail(s) PROVE FlagSound'
    BY <1>9, <1>h, MainApart
    DEF ReadTail, Watches, Put, Killers, FlagSound, WorksOn, SimTypeOK, RunsSound, Started,
        OperatorsSound, MainSound, GoneDead
  <1>10. ASSUME NEW s \in Sims, Report(s) PROVE FlagSound'
    BY <1>10, <1>h, MainApart
    DEF Report, Watches, Put, Killers, FlagSound, WorksOn, SimTypeOK, RunsSound, Started,
        OperatorsSound, MainSound, GoneDead
  <1>11. ASSUME NEW s \in Sims, Unregister(s) PROVE FlagSound'
    BY <1>11, <1>h, MainApart
    DEF Unregister, Watches, Put, Killers, FlagSound, WorksOn, SimTypeOK, RunsSound,
        Started, OperatorsSound, MainSound, GoneDead
  <1>12. ASSUME NEW s \in Sims, Sleep(s) PROVE FlagSound'
    BY <1>12, <1>h, MainApart
    DEF Sleep, Watches, Put, Killers, FlagSound, WorksOn, SimTypeOK, RunsSound, Started,
        OperatorsSound, MainSound, GoneDead
  <1>13. ASSUME NEW s \in Sims, Ends(s) PROVE FlagSound'
    BY <1>13, <1>h, MainApart
    DEF Ends, Put, Killers, FlagSound, WorksOn, SimTypeOK, RunsSound, Started,
        OperatorsSound, MainSound, GoneDead
  <1>14. ASSUME NEW o \in Operators, AskKill(o) PROVE FlagSound'
    BY <1>14, <1>h, MainApart
    DEF AskKill, Works, AtRest, Put, Killers, FlagSound, WorksOn, SimTypeOK, RunsSound,
        Started, OperatorsSound, MainSound, GoneDead
  <1>15. ASSUME NEW o \in Operators, ReportKills(o) PROVE FlagSound'
    BY <1>15, <1>h, MainApart
    DEF ReportKills, AtRest, Put, Killers, FlagSound, WorksOn, SimTypeOK, RunsSound,
        Started, OperatorsSound, MainSound, GoneDead
  <1>16. ASSUME NEW o \in Killers, Take(o) PROVE FlagSound'
    BY <1>16, <1>h, MainApart
    DEF Take, AtRest, Put, Killers, FlagSound, WorksOn, SimTypeOK, RunsSound, Started,
        OperatorsSound, MainSound, GoneDead
  <1>17. ASSUME NEW o \in Killers, SetFlag(o) PROVE FlagSound'
    BY <1>17, <1>h, MainApart
    DEF SetFlag, To, Put, Killers, FlagSound, WorksOn, SimTypeOK, RunsSound, Started,
        OperatorsSound, MainSound, GoneDead
  <1>18. ASSUME NEW o \in Killers, Kill(o) PROVE FlagSound'
    BY <1>18, <1>h, MainApart
    DEF Kill, To, Signal, Put, Killers, FlagSound, WorksOn, SimTypeOK, RunsSound, Started,
        OperatorsSound, MainSound, GoneDead
  <1>19. ASSUME NEW o \in Killers, Kind(o) PROVE FlagSound'
    BY <1>19, <1>h, MainApart
    DEF Kind, Put, Killers, FlagSound, WorksOn, SimTypeOK, RunsSound, Started,
        OperatorsSound, MainSound, GoneDead
  <1>20. ASSUME NEW o \in Killers, RemoveEntry(o) PROVE FlagSound'
    BY <1>20, <1>h, MainApart
    DEF RemoveEntry, To, Put, Killers, FlagSound, WorksOn, SimTypeOK, RunsSound, Started,
        OperatorsSound, MainSound, GoneDead
  <1>21. CASE PanicTrap
    BY <1>21, <1>h, MainApart
    DEF PanicTrap, Put, Killers, FlagSound, WorksOn, SimTypeOK, RunsSound, Started,
        OperatorsSound, MainSound, GoneDead
  <1>22. CASE Trap
    BY <1>22, <1>h, MainApart
    DEF Trap, Goes, MainKills, Works, AtRest, Put, Killers, FlagSound, WorksOn, SimTypeOK,
        RunsSound, Started, OperatorsSound, MainSound, GoneDead
  <1>23. CASE Drain
    BY <1>23, <1>h, MainApart
    DEF Drain, Goes, MainKilled, AtRest, Put, Killers, FlagSound, WorksOn, SimTypeOK,
        RunsSound, Started, OperatorsSound, MainSound, GoneDead
  <1>24. CASE ReapRest
    BY <1>24, <1>h, MainApart
    DEF ReapRest, Goes, MainKills, Works, InFlight, AtRest, Put, Killers, FlagSound,
        WorksOn, SimTypeOK, RunsSound, Started, OperatorsSound, MainSound, GoneDead
  <1>25. CASE ExitClean
    BY <1>25, <1>h, MainApart
    DEF ExitClean, Goes, MainKilled, AtRest, Put, Killers, FlagSound, WorksOn, SimTypeOK,
        RunsSound, Started, OperatorsSound, MainSound, GoneDead
  <1>26. CASE ForceExit
    BY <1>26, <1>h, MainApart
    DEF ForceExit, Put, Killers, FlagSound, WorksOn, SimTypeOK, RunsSound, Started,
        OperatorsSound, MainSound, GoneDead
  <1> QED
    BY <1>1, <1>2, <1>3, <1>4, <1>5, <1>6, <1>7, <1>8, <1>9, <1>10, <1>11, <1>12, <1>13,
       <1>14, <1>15, <1>16, <1>17, <1>18, <1>19, <1>20, <1>21, <1>22, <1>23, <1>24, <1>25,
       <1>26
    DEF SimNext, RequestNext, WatcherNext, KillerNext

\* So it does when its watcher ends.
LEMMA DoneSoundStep ==
  ASSUME MainApart, SimInv, SimNext PROVE DoneSound'
  <1>h. DoneSound /\ SimTypeOK /\ RunsSound /\ FlagSound /\ MainSound /\ OperatorsSound
    BY DEF SimInv
  <1>1. ASSUME NEW s \in Sims, Refuse(s) PROVE DoneSound'
    BY <1>1, <1>h, MainApart
    DEF Refuse, Put, Killers, DoneSound, WorksOn, SimTypeOK, RunsSound, Started, FlagSound,
        MainSound, OperatorsSound
  <1>2. ASSUME NEW s \in Sims, Accepts /\ Spawn(s) PROVE DoneSound'
    BY <1>2, <1>h, MainApart
    DEF Spawn, Accepts, Put, Killers, DoneSound, WorksOn, SimTypeOK, RunsSound, Started,
        FlagSound, MainSound, OperatorsSound
  <1>3. ASSUME NEW s \in Sims, Register(s) PROVE DoneSound'
    BY <1>3, <1>h, MainApart
    DEF Register, Put, Killers, DoneSound, WorksOn, SimTypeOK, RunsSound, Started,
        FlagSound, MainSound, OperatorsSound
  <1>4. ASSUME NEW s \in Sims, Watch(s) PROVE DoneSound'
    BY <1>4, <1>h, MainApart
    DEF Watch, Put, Killers, DoneSound, WorksOn, SimTypeOK, RunsSound, Started, FlagSound,
        MainSound, OperatorsSound
  <1>5. ASSUME NEW s \in Sims, Look(s) PROVE DoneSound'
    BY <1>5, <1>h, MainApart
    DEF Look, Watches, Put, Killers, DoneSound, WorksOn, SimTypeOK, RunsSound, Started,
        FlagSound, MainSound, OperatorsSound
  <1>6. ASSUME NEW s \in Sims, KillAtDeadline(s) PROVE DoneSound'
    BY <1>6, <1>h, MainApart
    DEF KillAtDeadline, Watches, Signal, Put, Killers, DoneSound, WorksOn, SimTypeOK,
        RunsSound, Started, FlagSound, MainSound, OperatorsSound
  <1>7. ASSUME NEW s \in Sims, Poll(s) PROVE DoneSound'
    BY <1>7, <1>h, MainApart
    DEF Poll, Watches, Put, Killers, DoneSound, WorksOn, SimTypeOK, RunsSound, Started,
        FlagSound, MainSound, OperatorsSound
  <1>8. ASSUME NEW s \in Sims, TestFlag(s) PROVE DoneSound'
    BY <1>8, <1>h, MainApart
    DEF TestFlag, Watches, Put, Killers, DoneSound, WorksOn, SimTypeOK, RunsSound, Started,
        FlagSound, MainSound, OperatorsSound
  <1>9. ASSUME NEW s \in Sims, ReadTail(s) PROVE DoneSound'
    BY <1>9, <1>h, MainApart
    DEF ReadTail, Watches, Put, Killers, DoneSound, WorksOn, SimTypeOK, RunsSound, Started,
        FlagSound, MainSound, OperatorsSound
  <1>10. ASSUME NEW s \in Sims, Report(s) PROVE DoneSound'
    BY <1>10, <1>h, MainApart
    DEF Report, Watches, Put, Killers, DoneSound, WorksOn, SimTypeOK, RunsSound, Started,
        FlagSound, MainSound, OperatorsSound
  <1>11. ASSUME NEW s \in Sims, Unregister(s) PROVE DoneSound'
    BY <1>11, <1>h, MainApart
    DEF Unregister, Watches, Put, Killers, DoneSound, WorksOn, SimTypeOK, RunsSound,
        Started, FlagSound, MainSound, OperatorsSound
  <1>12. ASSUME NEW s \in Sims, Sleep(s) PROVE DoneSound'
    BY <1>12, <1>h, MainApart
    DEF Sleep, Watches, Put, Killers, DoneSound, WorksOn, SimTypeOK, RunsSound, Started,
        FlagSound, MainSound, OperatorsSound
  <1>13. ASSUME NEW s \in Sims, Ends(s) PROVE DoneSound'
    BY <1>13, <1>h, MainApart
    DEF Ends, Put, Killers, DoneSound, WorksOn, SimTypeOK, RunsSound, Started, FlagSound,
        MainSound, OperatorsSound
  <1>14. ASSUME NEW o \in Operators, AskKill(o) PROVE DoneSound'
    BY <1>14, <1>h, MainApart
    DEF AskKill, Works, AtRest, Put, Killers, DoneSound, WorksOn, SimTypeOK, RunsSound,
        Started, FlagSound, MainSound, OperatorsSound
  <1>15. ASSUME NEW o \in Operators, ReportKills(o) PROVE DoneSound'
    BY <1>15, <1>h, MainApart
    DEF ReportKills, AtRest, Put, Killers, DoneSound, WorksOn, SimTypeOK, RunsSound,
        Started, FlagSound, MainSound, OperatorsSound
  <1>16. ASSUME NEW o \in Killers, Take(o) PROVE DoneSound'
    BY <1>16, <1>h, MainApart
    DEF Take, AtRest, Put, Killers, DoneSound, WorksOn, SimTypeOK, RunsSound, Started,
        FlagSound, MainSound, OperatorsSound
  <1>17. ASSUME NEW o \in Killers, SetFlag(o) PROVE DoneSound'
    BY <1>17, <1>h, MainApart
    DEF SetFlag, To, Put, Killers, DoneSound, WorksOn, SimTypeOK, RunsSound, Started,
        FlagSound, MainSound, OperatorsSound
  <1>18. ASSUME NEW o \in Killers, Kill(o) PROVE DoneSound'
    BY <1>18, <1>h, MainApart
    DEF Kill, To, Signal, Put, Killers, DoneSound, WorksOn, SimTypeOK, RunsSound, Started,
        FlagSound, MainSound, OperatorsSound
  <1>19. ASSUME NEW o \in Killers, Kind(o) PROVE DoneSound'
    BY <1>19, <1>h, MainApart
    DEF Kind, Put, Killers, DoneSound, WorksOn, SimTypeOK, RunsSound, Started, FlagSound,
        MainSound, OperatorsSound
  <1>20. ASSUME NEW o \in Killers, RemoveEntry(o) PROVE DoneSound'
    BY <1>20, <1>h, MainApart
    DEF RemoveEntry, To, Put, Killers, DoneSound, WorksOn, SimTypeOK, RunsSound, Started,
        FlagSound, MainSound, OperatorsSound
  <1>21. CASE PanicTrap
    BY <1>21, <1>h, MainApart
    DEF PanicTrap, Put, Killers, DoneSound, WorksOn, SimTypeOK, RunsSound, Started,
        FlagSound, MainSound, OperatorsSound
  <1>22. CASE Trap
    BY <1>22, <1>h, MainApart
    DEF Trap, Goes, MainKills, Works, AtRest, Put, Killers, DoneSound, WorksOn, SimTypeOK,
        RunsSound, Started, FlagSound, MainSound, OperatorsSound
  <1>23. CASE Drain
    BY <1>23, <1>h, MainApart
    DEF Drain, Goes, MainKilled, AtRest, Put, Killers, DoneSound, WorksOn, SimTypeOK,
        RunsSound, Started, FlagSound, MainSound, OperatorsSound
  <1>24. CASE ReapRest
    BY <1>24, <1>h, MainApart
    DEF ReapRest, Goes, MainKills, Works, InFlight, AtRest, Put, Killers, DoneSound,
        WorksOn, SimTypeOK, RunsSound, Started, FlagSound, MainSound, OperatorsSound
  <1>25. CASE ExitClean
    BY <1>25, <1>h, MainApart
    DEF ExitClean, Goes, MainKilled, AtRest, Put, Killers, DoneSound, WorksOn, SimTypeOK,
        RunsSound, Started, FlagSound, MainSound, OperatorsSound
  <1>26. CASE ForceExit
    BY <1>26, <1>h, MainApart
    DEF ForceExit, Put, Killers, DoneSound, WorksOn, SimTypeOK, RunsSound, Started,
        FlagSound, MainSound, OperatorsSound
  <1> QED
    BY <1>1, <1>2, <1>3, <1>4, <1>5, <1>6, <1>7, <1>8, <1>9, <1>10, <1>11, <1>12, <1>13,
       <1>14, <1>15, <1>16, <1>17, <1>18, <1>19, <1>20, <1>21, <1>22, <1>23, <1>24, <1>25,
       <1>26
    DEF SimNext, RequestNext, WatcherNext, KillerNext

\* An entry is taken away by who has reported it, or is going to.
LEMMA ReportedStep ==
  ASSUME MainApart, SimInv, SimNext PROVE Reported'
  <1>h. Reported /\ SimTypeOK /\ RunsSound /\ OperatorsSound /\ MainSound /\ WatchersSound
    BY DEF SimInv
  <1>1. ASSUME NEW s \in Sims, Refuse(s) PROVE Reported'
    BY <1>1, <1>h, MainApart
    DEF Refuse, Put, Killers, Reported, Started, SimTypeOK, RunsSound, OperatorsSound,
        MainSound, WatchersSound
  <1>2. ASSUME NEW s \in Sims, Accepts /\ Spawn(s) PROVE Reported'
    BY <1>2, <1>h, MainApart
    DEF Spawn, Accepts, Put, Killers, Reported, Started, SimTypeOK, RunsSound,
        OperatorsSound, MainSound, WatchersSound
  <1>3. ASSUME NEW s \in Sims, Register(s) PROVE Reported'
    BY <1>3, <1>h, MainApart
    DEF Register, Put, Killers, Reported, Started, SimTypeOK, RunsSound, OperatorsSound,
        MainSound, WatchersSound
  <1>4. ASSUME NEW s \in Sims, Watch(s) PROVE Reported'
    BY <1>4, <1>h, MainApart
    DEF Watch, Put, Killers, Reported, Started, SimTypeOK, RunsSound, OperatorsSound,
        MainSound, WatchersSound
  <1>5. ASSUME NEW s \in Sims, Look(s) PROVE Reported'
    BY <1>5, <1>h, MainApart
    DEF Look, Watches, Put, Killers, Reported, Started, SimTypeOK, RunsSound,
        OperatorsSound, MainSound, WatchersSound
  <1>6. ASSUME NEW s \in Sims, KillAtDeadline(s) PROVE Reported'
    BY <1>6, <1>h, MainApart
    DEF KillAtDeadline, Watches, Signal, Put, Killers, Reported, Started, SimTypeOK,
        RunsSound, OperatorsSound, MainSound, WatchersSound
  <1>7. ASSUME NEW s \in Sims, Poll(s) PROVE Reported'
    BY <1>7, <1>h, MainApart
    DEF Poll, Watches, Put, Killers, Reported, Started, SimTypeOK, RunsSound,
        OperatorsSound, MainSound, WatchersSound
  <1>8. ASSUME NEW s \in Sims, TestFlag(s) PROVE Reported'
    BY <1>8, <1>h, MainApart
    DEF TestFlag, Watches, Put, Killers, Reported, Started, SimTypeOK, RunsSound,
        OperatorsSound, MainSound, WatchersSound
  <1>9. ASSUME NEW s \in Sims, ReadTail(s) PROVE Reported'
    BY <1>9, <1>h, MainApart
    DEF ReadTail, Watches, Put, Killers, Reported, Started, SimTypeOK, RunsSound,
        OperatorsSound, MainSound, WatchersSound
  <1>10. ASSUME NEW s \in Sims, Report(s) PROVE Reported'
    BY <1>10, <1>h, MainApart
    DEF Report, Watches, Put, Killers, Reported, Started, SimTypeOK, RunsSound,
        OperatorsSound, MainSound, WatchersSound
  <1>11. ASSUME NEW s \in Sims, Unregister(s) PROVE Reported'
    BY <1>11, <1>h, MainApart
    DEF Unregister, Watches, Put, Killers, Reported, Started, SimTypeOK, RunsSound,
        OperatorsSound, MainSound, WatchersSound
  <1>12. ASSUME NEW s \in Sims, Sleep(s) PROVE Reported'
    BY <1>12, <1>h, MainApart
    DEF Sleep, Watches, Put, Killers, Reported, Started, SimTypeOK, RunsSound,
        OperatorsSound, MainSound, WatchersSound
  <1>13. ASSUME NEW s \in Sims, Ends(s) PROVE Reported'
    BY <1>13, <1>h, MainApart
    DEF Ends, Put, Killers, Reported, Started, SimTypeOK, RunsSound, OperatorsSound,
        MainSound, WatchersSound
  <1>14. ASSUME NEW o \in Operators, AskKill(o) PROVE Reported'
    <2>1. operator[o] = AtRest /\ DOMAIN operator = Killers /\ Operators \subseteq Killers
      BY <1>14, <1>h DEF AskKill, SimTypeOK, Killers
    <2>2. \E all, left : operator' = Put(operator, o, Works(all, left))
      BY <1>14 DEF AskKill
    <2>3. \A p \in Operators : operator'[p].done = operator[p].done
      BY <2>1, <2>2 DEF Put, Works, AtRest
    <2> QED BY <1>14, <1>h, <2>3 DEF AskKill, Reported, Started
  <1>15. ASSUME NEW o \in Operators, ReportKills(o) PROVE Reported'
    BY <1>15, <1>h, MainApart
    DEF ReportKills, AtRest, Put, Killers, Reported, Started, SimTypeOK, RunsSound,
        OperatorsSound, MainSound, WatchersSound
  <1>16. ASSUME NEW o \in Killers, Take(o) PROVE Reported'
    BY <1>16, <1>h, MainApart
    DEF Take, AtRest, Put, Killers, Reported, Started, SimTypeOK, RunsSound, OperatorsSound,
        MainSound, WatchersSound
  <1>17. ASSUME NEW o \in Killers, SetFlag(o) PROVE Reported'
    BY <1>17, <1>h, MainApart
    DEF SetFlag, To, Put, Killers, Reported, Started, SimTypeOK, RunsSound, OperatorsSound,
        MainSound, WatchersSound
  <1>18. ASSUME NEW o \in Killers, Kill(o) PROVE Reported'
    BY <1>18, <1>h, MainApart
    DEF Kill, To, Signal, Put, Killers, Reported, Started, SimTypeOK, RunsSound,
        OperatorsSound, MainSound, WatchersSound
  <1>19. ASSUME NEW o \in Killers, Kind(o) PROVE Reported'
    BY <1>19, <1>h, MainApart
    DEF Kind, Put, Killers, Reported, Started, SimTypeOK, RunsSound, OperatorsSound,
        MainSound, WatchersSound
  <1>20. ASSUME NEW o \in Killers, RemoveEntry(o) PROVE Reported'
    BY <1>20, <1>h, MainApart
    DEF RemoveEntry, To, Put, Killers, Reported, Started, SimTypeOK, RunsSound,
        OperatorsSound, MainSound, WatchersSound
  <1>21. CASE PanicTrap
    BY <1>21, <1>h, MainApart
    DEF PanicTrap, Put, Killers, Reported, Started, SimTypeOK, RunsSound, OperatorsSound,
        MainSound, WatchersSound
  <1>22. CASE Trap
    BY <1>22, <1>h, MainApart
    DEF Trap, Goes, MainKills, Works, AtRest, Put, Killers, Reported, Started, SimTypeOK,
        RunsSound, OperatorsSound, MainSound, WatchersSound
  <1>23. CASE Drain
    BY <1>23, <1>h, MainApart
    DEF Drain, Goes, MainKilled, AtRest, Put, Killers, Reported, Started, SimTypeOK,
        RunsSound, OperatorsSound, MainSound, WatchersSound
  <1>24. CASE ReapRest
    BY <1>24, <1>h, MainApart
    DEF ReapRest, Goes, MainKills, Works, InFlight, AtRest, Put, Killers, Reported, Started,
        SimTypeOK, RunsSound, OperatorsSound, MainSound, WatchersSound
  <1>25. CASE ExitClean
    BY <1>25, <1>h, MainApart
    DEF ExitClean, Goes, MainKilled, AtRest, Put, Killers, Reported, Started, SimTypeOK,
        RunsSound, OperatorsSound, MainSound, WatchersSound
  <1>26. CASE ForceExit
    BY <1>26, <1>h, MainApart
    DEF ForceExit, Put, Killers, Reported, Started, SimTypeOK, RunsSound, OperatorsSound,
        MainSound, WatchersSound
  <1> QED
    BY <1>1, <1>2, <1>3, <1>4, <1>5, <1>6, <1>7, <1>8, <1>9, <1>10, <1>11, <1>12, <1>13,
       <1>14, <1>15, <1>16, <1>17, <1>18, <1>19, <1>20, <1>21, <1>22, <1>23, <1>24, <1>25,
       <1>26
    DEF SimNext, RequestNext, WatcherNext, KillerNext

\* The second kill-all comes to every process that still runs.
LEMMA ReapSoundStep ==
  ASSUME MainApart, SimInv, SimNext PROVE ReapSound'
  <1>h. ReapSound /\ SimTypeOK /\ RunsSound /\ OperatorsSound /\ MainSound /\ GoneDead
    BY DEF SimInv
  <1>1. ASSUME NEW s \in Sims, Refuse(s) PROVE ReapSound'
    BY <1>1, <1>h, MainApart
    DEF Refuse, Put, Killers, ReapSound, SimTypeOK, RunsSound, Started, OperatorsSound,
        MainSound, GoneDead
  <1>2. ASSUME NEW s \in Sims, Accepts /\ Spawn(s) PROVE ReapSound'
    BY <1>2, <1>h, MainApart
    DEF Spawn, Accepts, Put, Killers, ReapSound, SimTypeOK, RunsSound, Started,
        OperatorsSound, MainSound, GoneDead
  <1>3. ASSUME NEW s \in Sims, Register(s) PROVE ReapSound'
    BY <1>3, <1>h, MainApart
    DEF Register, Put, Killers, ReapSound, SimTypeOK, RunsSound, Started, OperatorsSound,
        MainSound, GoneDead
  <1>4. ASSUME NEW s \in Sims, Watch(s) PROVE ReapSound'
    BY <1>4, <1>h, MainApart
    DEF Watch, Put, Killers, ReapSound, SimTypeOK, RunsSound, Started, OperatorsSound,
        MainSound, GoneDead
  <1>5. ASSUME NEW s \in Sims, Look(s) PROVE ReapSound'
    BY <1>5, <1>h, MainApart
    DEF Look, Watches, Put, Killers, ReapSound, SimTypeOK, RunsSound, Started,
        OperatorsSound, MainSound, GoneDead
  <1>6. ASSUME NEW s \in Sims, KillAtDeadline(s) PROVE ReapSound'
    BY <1>6, <1>h, MainApart
    DEF KillAtDeadline, Watches, Signal, Put, Killers, ReapSound, SimTypeOK, RunsSound,
        Started, OperatorsSound, MainSound, GoneDead
  <1>7. ASSUME NEW s \in Sims, Poll(s) PROVE ReapSound'
    BY <1>7, <1>h, MainApart
    DEF Poll, Watches, Put, Killers, ReapSound, SimTypeOK, RunsSound, Started,
        OperatorsSound, MainSound, GoneDead
  <1>8. ASSUME NEW s \in Sims, TestFlag(s) PROVE ReapSound'
    BY <1>8, <1>h, MainApart
    DEF TestFlag, Watches, Put, Killers, ReapSound, SimTypeOK, RunsSound, Started,
        OperatorsSound, MainSound, GoneDead
  <1>9. ASSUME NEW s \in Sims, ReadTail(s) PROVE ReapSound'
    BY <1>9, <1>h, MainApart
    DEF ReadTail, Watches, Put, Killers, ReapSound, SimTypeOK, RunsSound, Started,
        OperatorsSound, MainSound, GoneDead
  <1>10. ASSUME NEW s \in Sims, Report(s) PROVE ReapSound'
    BY <1>10, <1>h, MainApart
    DEF Report, Watches, Put, Killers, ReapSound, SimTypeOK, RunsSound, Started,
        OperatorsSound, MainSound, GoneDead
  <1>11. ASSUME NEW s \in Sims, Unregister(s) PROVE ReapSound'
    BY <1>11, <1>h, MainApart
    DEF Unregister, Watches, Put, Killers, ReapSound, SimTypeOK, RunsSound, Started,
        OperatorsSound, MainSound, GoneDead
  <1>12. ASSUME NEW s \in Sims, Sleep(s) PROVE ReapSound'
    BY <1>12, <1>h, MainApart
    DEF Sleep, Watches, Put, Killers, ReapSound, SimTypeOK, RunsSound, Started,
        OperatorsSound, MainSound, GoneDead
  <1>13. ASSUME NEW s \in Sims, Ends(s) PROVE ReapSound'
    BY <1>13, <1>h, MainApart
    DEF Ends, Put, Killers, ReapSound, SimTypeOK, RunsSound, Started, OperatorsSound,
        MainSound, GoneDead
  <1>14. ASSUME NEW o \in Operators, AskKill(o) PROVE ReapSound'
    BY <1>14, <1>h, MainApart
    DEF AskKill, Works, AtRest, Put, Killers, ReapSound, SimTypeOK, RunsSound, Started,
        OperatorsSound, MainSound, GoneDead
  <1>15. ASSUME NEW o \in Operators, ReportKills(o) PROVE ReapSound'
    BY <1>15, <1>h, MainApart
    DEF ReportKills, AtRest, Put, Killers, ReapSound, SimTypeOK, RunsSound, Started,
        OperatorsSound, MainSound, GoneDead
  <1>16. ASSUME NEW o \in Killers, Take(o) PROVE ReapSound'
    BY <1>16, <1>h, MainApart
    DEF Take, AtRest, Put, Killers, ReapSound, SimTypeOK, RunsSound, Started,
        OperatorsSound, MainSound, GoneDead
  <1>17. ASSUME NEW o \in Killers, SetFlag(o) PROVE ReapSound'
    BY <1>17, <1>h, MainApart
    DEF SetFlag, To, Put, Killers, ReapSound, SimTypeOK, RunsSound, Started, OperatorsSound,
        MainSound, GoneDead
  <1>18. ASSUME NEW o \in Killers, Kill(o) PROVE ReapSound'
    BY <1>18, <1>h, MainApart
    DEF Kill, To, Signal, Put, Killers, ReapSound, SimTypeOK, RunsSound, Started,
        OperatorsSound, MainSound, GoneDead
  <1>19. ASSUME NEW o \in Killers, Kind(o) PROVE ReapSound'
    BY <1>19, <1>h, MainApart
    DEF Kind, Put, Killers, ReapSound, SimTypeOK, RunsSound, Started, OperatorsSound,
        MainSound, GoneDead
  <1>20. ASSUME NEW o \in Killers, RemoveEntry(o) PROVE ReapSound'
    BY <1>20, <1>h, MainApart
    DEF RemoveEntry, To, Put, Killers, ReapSound, SimTypeOK, RunsSound, Started,
        OperatorsSound, MainSound, GoneDead
  <1>21. CASE PanicTrap
    BY <1>21, <1>h, MainApart
    DEF PanicTrap, Put, Killers, ReapSound, SimTypeOK, RunsSound, Started, OperatorsSound,
        MainSound, GoneDead
  <1>22. CASE Trap
    BY <1>22, <1>h, MainApart
    DEF Trap, Goes, MainKills, Works, AtRest, Put, Killers, ReapSound, SimTypeOK, RunsSound,
        Started, OperatorsSound, MainSound, GoneDead
  <1>23. CASE Drain
    BY <1>23, <1>h, MainApart
    DEF Drain, Goes, MainKilled, AtRest, Put, Killers, ReapSound, SimTypeOK, RunsSound,
        Started, OperatorsSound, MainSound, GoneDead
  <1>24. CASE ReapRest
    BY <1>24, <1>h, MainApart
    DEF ReapRest, Goes, MainKills, Works, InFlight, AtRest, Put, Killers, ReapSound,
        SimTypeOK, RunsSound, Started, OperatorsSound, MainSound, GoneDead
  <1>25. CASE ExitClean
    BY <1>25, <1>h, MainApart
    DEF ExitClean, Goes, MainKilled, AtRest, Put, Killers, ReapSound, SimTypeOK, RunsSound,
        Started, OperatorsSound, MainSound, GoneDead
  <1>26. CASE ForceExit
    BY <1>26, <1>h, MainApart
    DEF ForceExit, Put, Killers, ReapSound, SimTypeOK, RunsSound, Started, OperatorsSound,
        MainSound, GoneDead
  <1> QED
    BY <1>1, <1>2, <1>3, <1>4, <1>5, <1>6, <1>7, <1>8, <1>9, <1>10, <1>11, <1>12, <1>13,
       <1>14, <1>15, <1>16, <1>17, <1>18, <1>19, <1>20, <1>21, <1>22, <1>23, <1>24, <1>25,
       <1>26
    DEF SimNext, RequestNext, WatcherNext, KillerNext

-----------------------------------------------------------------------------

\* The invariant holds when the server starts.
LEMMA SimStart == ASSUME MainApart, SimInit PROVE SimInv
  <1>1. SimTypeOK
    BY DEF SimInit, SimTypeOK, AtRest
  <1>2. OperatorsSound /\ MainSound /\ ReapSound
    BY DEF SimInit, OperatorsSound, MainSound, ReapSound, AtRest, Killers
  <1>3. RunsSound /\ WatchersSound /\ GoneDead /\ FlagSound /\ DoneSound /\ Reported
    BY DEF SimInit, RunsSound, Started, WatchersSound, GoneDead, FlagSound, DoneSound,
           Reported
  <1> QED BY <1>1, <1>2, <1>3 DEF SimInv

\* Every step keeps it.
LEMMA SimStep == ASSUME MainApart, SimInv, [SimNext]_simVars PROVE SimInv'
  <1>1. CASE SimNext
    BY <1>1, SimTypeOKStep, RunsSoundStep, OperatorsSoundStep, MainSoundStep,
       WatchersSoundStep, GoneDeadStep, FlagSoundStep, DoneSoundStep, ReportedStep,
       ReapSoundStep DEF SimInv
  <1>2. CASE UNCHANGED simVars
    BY <1>2 DEF simVars, SimInv, SimTypeOK, RunsSound, Started, OperatorsSound, MainSound,
       WatchersSound, GoneDead, FlagSound, DoneSound, WorksOn, Reported, ReapSound
  <1> QED BY <1>1, <1>2

\* SimInv is an invariant of the server's simulations.
THEOREM SimulationsInductive == SimSpec => []SimInv
  <1>1. SimInit => SimInv
    BY SimStart, MainApart
  <1>2. SimInv /\ [SimNext]_simVars => SimInv'
    BY SimStep, MainApart
  <1> QED BY <1>1, <1>2, PTL DEF SimSpec

\* Whatever watchers, stops, kill-alls and the server's own kill-alls come between, a
\* simulation whose watcher has left is dead, off the registry and reported, and a
\* clean exit leaves none, for any number of simulations and requests.
THEOREM EndsAreReported == SimSpec => []EndIsReported
  <1>1. SimInv => EndIsReported
    <2> SUFFICES ASSUME SimInv PROVE EndIsReported
      OBVIOUS
    <2>1. ExitLeavesNone
      BY DEF SimInv, ReapSound, ExitLeavesNone
    <2>2. ASSUME NEW s \in Sims, watcher[s] = "done",
                 \A o \in Killers : operator[o] = AtRest
          PROVE  /\ s \notin registered /\ phase[s] \in {"gone", "reaped"}
                 /\ server = "serving" => reports[s] # {}
      <3>1. s \notin registered
        BY <2>2 DEF SimInv, DoneSound, WorksOn, AtRest
      <3>2. Started(s) /\ phase[s] # "new"
        BY <2>2 DEF SimInv, RunsSound, Started
      <3>3. phase[s] \in {"gone", "reaped"}
        BY <3>1, <3>2 DEF SimInv, GoneDead, SimTypeOK
      <3>4. \A o \in Operators : operator[o].done = {}
        BY <2>2 DEF AtRest, Killers
      <3> QED BY <3>1, <3>2, <3>3, <3>4 DEF SimInv, Reported
    <2> QED BY <2>1, <2>2 DEF EndIsReported
  <1> QED BY <1>1, SimulationsInductive, PTL

=============================================================================
