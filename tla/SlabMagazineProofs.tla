------------------------- MODULE SlabMagazineProofs -------------------------
(***************************************************************************)
(* Proofs about SlabMagazine for any number of blocks, threads and stripes *)
(* and any capacity and batch.                                             *)
(***************************************************************************)
EXTENDS SlabMagazine, FiniteSetTheorems, TLAPS

\* The part of the invariant that holds whatever requests are made.
CoreInv == TypeOK /\ HandInv /\ OnePlace

\* What the assumption says of the constants.
LEMMA Names ==
  /\ \A t \in Threads : StripeOf[t] \in Stripes
  /\ Cap \in Nat /\ Batch \in 1 .. Cap /\ IsFiniteSet(Blocks)
  /\ Requests \subseteq RequestKinds /\ Nobody \notin Threads \union Stripes
  BY SlabAssumption DEF SlabAssumption

\* A set of blocks is finite.
LEMMA FiniteBlocks ==
  ASSUME NEW S \in SUBSET Blocks
  PROVE  IsFiniteSet(S) /\ Cardinality(S) \in Nat
  BY Names, FS_Subset, FS_CardinalityType

\* What a choice of up to n blocks contains.
LEMMA SomeFacts ==
  ASSUME NEW S \in SUBSET Blocks, NEW n \in Nat, NEW g \in Some(S, n)
  PROVE  /\ g \in SUBSET S /\ g \in SUBSET Blocks /\ Cardinality(g) <= n
         /\ n > 0 /\ S # {} => g # {}
  <1>1. g \in SUBSET S /\ g \in SUBSET Blocks
    BY DEF Some
  <1>2. IsFiniteSet(S) /\ Cardinality(S) \in Nat /\ IsFiniteSet(g)
    BY <1>1, FiniteBlocks
  <1>3. Cardinality(g) = IF Cardinality(S) < n THEN Cardinality(S) ELSE n
    BY DEF Some
  <1>4. n > 0 /\ S # {} => Cardinality(g) # 0
    BY <1>2, <1>3, FS_EmptySet
  <1> QED BY <1>1, <1>2, <1>3, <1>4, FS_EmptySet

\* A batch has blocks if there are any, and at most Batch of them.
LEMMA BatchFacts ==
  ASSUME NEW S \in SUBSET Blocks, NEW g \in Some(S, Batch)
  PROVE  /\ g \in SUBSET S /\ g \in SUBSET Blocks /\ Cardinality(g) <= Batch
         /\ S # {} => g # {}
  <1>1. Batch \in Nat /\ Batch > 0
    BY Names
  <1> QED BY <1>1, SomeFacts

-----------------------------------------------------------------------------
\* A home is a stripe.
LEMMA HomeFacts ==
  ASSUME TypeOK, NEW t \in Threads, NEW b \in Blocks
  PROVE  HomeOf(t, b) \in Stripes
  BY Names DEF TypeOK, HomeOf, Registered

\* What LeaveInMagazine leaves is a magazine of at most Cap blocks.
LEMMA LeaveType ==
  ASSUME TypeOK, NEW t \in Threads, NEW S \in SUBSET Blocks, Cardinality(S) <= Cap,
         LeaveInMagazine(t, S)
  PROVE  /\ mag' \in [Threads -> SUBSET Blocks] /\ magOwner' \in [Threads -> Nat]
         /\ \A u \in Threads : Cardinality(mag'[u]) <= Cap
         /\ stranded' \subseteq Blocks
  BY DEF LeaveInMagazine, TypeOK

\* What a thread finds in its magazine fits.
LEMMA ContentsType ==
  ASSUME TypeOK, NEW t \in Threads
  PROVE  /\ Contents(t) \in SUBSET Blocks /\ Cardinality(Contents(t)) <= Cap
         /\ Cardinality({}) <= Cap
         /\ \A S \in SUBSET Contents(t) : Cardinality(S) <= Cap
  <1>1. Contents(t) \in SUBSET Blocks
    BY DEF Contents, TypeOK
  <1>2. Cardinality({}) = 0 /\ Cap \in Nat
    BY FS_EmptySet, Names
  <1>3. Cardinality(Contents(t)) <= Cap
    BY <1>2 DEF Contents, TypeOK
  <1>4. ASSUME NEW S \in SUBSET Contents(t) PROVE Cardinality(S) <= Cap
    <2>1. Cardinality(S) <= Cardinality(Contents(t))
      BY <1>1, FiniteBlocks, FS_Subset
    <2> QED BY <2>1, <1>1, <1>2, <1>3, FiniteBlocks
  <1> QED BY <1>1, <1>2, <1>3, <1>4

\* The shape of the state is kept, and no magazine outgrows its slots.
LEMMA TypeStep ==
  ASSUME TypeOK, HandInv, [Next]_vars
  PROVE  TypeOK'
  <1> USE DEF vars, centralVars, modeVars, magVars, gateVars, callVars, heldVars,
              Goto, Tiers, Labels
  <1>n. /\ \A t \in Threads : StripeOf[t] \in Stripes
        /\ Cap \in Nat /\ Batch \in 1 .. Cap
    BY Names
  <1>1. CASE LatchHeadless
    BY <1>1 DEF LatchHeadless, NextMagId, TypeOK
  <1>2. ASSUME NEW t \in Threads, NEW r \in Requests, BeginAlloc(t, r) PROVE TypeOK'
    BY <1>2 DEF BeginAlloc, FlavourOf, Flavours, TypeOK
  <1>3. ASSUME NEW t \in Threads, PopHit(t) PROVE TypeOK'
    <2>1. PICK b \in Contents(t) : LeaveInMagazine(t, Contents(t) \ {b}) /\ Serve(t, b)
      BY <1>3 DEF PopHit
    <2>2. Contents(t) \ {b} \in SUBSET Contents(t) /\ b \in Blocks
      BY ContentsType
    <2>3. Contents(t) \ {b} \in SUBSET Blocks /\ Cardinality(Contents(t) \ {b}) <= Cap
      BY <2>2, ContentsType
    <2>4. raw' \subseteq Blocks /\ headed' \subseteq Blocks
      BY <2>1, <2>2 DEF Serve, TypeOK
    <2> QED BY <1>3, <2>1, <2>3, <2>4, LeaveType DEF PopHit, TypeOK
  <1>4. ASSUME NEW t \in Threads, PopMiss(t) PROVE TypeOK'
    <2>1. {} \in SUBSET Blocks /\ Cardinality({}) <= Cap
      BY ContentsType
    <2> QED BY <1>4, <2>1, LeaveType DEF PopMiss, TypeOK
  <1>5. ASSUME NEW t \in Threads, CheckGate(t) PROVE TypeOK'
    BY <1>5 DEF CheckGate, TypeOK
  <1>6. ASSUME NEW t \in Threads, LockOwn(t) PROVE TypeOK'
    BY <1>6, <1>n DEF LockOwn, Lock, TypeOK
  <1>7. ASSUME NEW t \in Threads, PopRecycled(t) PROVE TypeOK'
    <2>1. at[t] \in Stripes /\ flav[t] \in Flavours
      BY <1>7 DEF PopRecycled, HandInv, LockedLabels, TypeOK
    <2>2. recycled[flav[t]][at[t]] \in SUBSET Blocks
      BY <2>1 DEF TypeOK
    <2>3. PICK g \in Some(recycled[flav[t]][at[t]], Batch) :
             /\ recycled' = [recycled EXCEPT ![flav[t]][at[t]] = @ \ g]
             /\ hand' = [hand EXCEPT ![t] = g]
      BY <1>7 DEF PopRecycled
    <2>4. g \in SUBSET Blocks
      BY <2>2, BatchFacts
    <2>5. recycled' \in [Flavours -> [Stripes -> SUBSET Blocks]]
      BY <2>1, <2>2, <2>3 DEF TypeOK
    <2> QED BY <1>7, <2>1, <2>3, <2>4, <2>5 DEF PopRecycled, Unlock, TypeOK
  <1>8. ASSUME NEW t \in Threads, TrySibling(t) PROVE TypeOK'
    <2>1. PICK s \in todo[t] :
            /\ todo' = [todo EXCEPT ![t] = @ \ {s}]
            /\ \/ Goto(t, "siblings", "sibpop") /\ Lock(t, s) /\ UNCHANGED skipped
               \/ /\ lock[s] # Nobody /\ Goto(t, "siblings", "siblings")
                  /\ skipped' = skipped \union {t} /\ UNCHANGED <<lock, at>>
      BY <1>8 DEF TrySibling
    <2>2. s \in Stripes
      BY DEF TypeOK
    <2>3. /\ todo' \in [Threads -> SUBSET Stripes] /\ lock' \in [Stripes -> Threads \union {Nobody}]
          /\ at' \in [Threads -> Stripes \union {Nobody}] /\ skipped' \subseteq Threads
      <3>1. CASE Lock(t, s) /\ UNCHANGED skipped
        BY <2>1, <2>2, <3>1 DEF Lock, TypeOK
      <3>2. CASE skipped' = skipped \union {t} /\ UNCHANGED <<lock, at>>
        BY <2>1, <2>2, <3>2 DEF TypeOK
      <3> QED BY <2>1, <3>1, <3>2
    <2>4. pc' \in [Threads -> Labels]
      BY <2>1 DEF TypeOK
    <2> QED BY <1>8, <2>3, <2>4 DEF TrySibling, TypeOK
  <1>9. ASSUME NEW t \in Threads, LatchMiss(t) PROVE TypeOK'
    BY <1>9 DEF LatchMiss, TypeOK
  <1>10. ASSUME NEW t \in Threads, Carve(t) PROVE TypeOK'
    <2> DEFINE f == flav[t]  s == at[t]  r == recycled[f][s]  c == carve[f][s]
    <2>1. s \in Stripes /\ f \in Flavours
      BY <1>10 DEF Carve, HandInv, LockedLabels, TypeOK
    <2>2. PICK m \in SUBSET unmapped : \E g \in Some(r \union c \union m, Batch) :
             /\ recycled' = [recycled EXCEPT ![f][s] = @ \ g]
             /\ carve' = [carve EXCEPT ![f][s] = (@ \union m) \ g]
             /\ hand' = [hand EXCEPT ![t] = g]
             /\ unmapped' = unmapped \ m
             /\ segStripe' = IF f = "hl" THEN Register(m, s) ELSE segStripe
      BY <1>10 DEF Carve
    <2>3. m \in SUBSET Blocks /\ r \in SUBSET Blocks /\ c \in SUBSET Blocks
      BY <2>1, <2>2 DEF TypeOK
    <2>4. PICK g \in Some(r \union c \union m, Batch) :
             /\ recycled' = [recycled EXCEPT ![f][s] = @ \ g]
             /\ carve' = [carve EXCEPT ![f][s] = (@ \union m) \ g]
             /\ hand' = [hand EXCEPT ![t] = g]
      BY <2>2
    <2>a. g \in SUBSET Blocks
      BY <2>3, BatchFacts
    <2>5. recycled' \in [Flavours -> [Stripes -> SUBSET Blocks]]
      BY <2>1, <2>4 DEF TypeOK
    <2>6. carve' \in [Flavours -> [Stripes -> SUBSET Blocks]]
      BY <2>1, <2>3, <2>4 DEF TypeOK
    <2>7. segStripe' \in [Blocks -> Stripes \union {Nobody}]
      BY <2>1, <2>2 DEF TypeOK, Register
    <2> QED BY <1>10, <2>1, <2>2, <2>4, <2>a, <2>5, <2>6, <2>7 DEF Carve, Unlock, TypeOK
  <1>11. ASSUME NEW t \in Threads, Fill(t) PROVE TypeOK'
    <2>1. CASE hand[t] = {} /\ UNCHANGED <<heldVars, magVars, stranded>>
      BY <1>11, <2>1 DEF Fill, TypeOK
    <2>2. ASSUME NEW b \in hand[t], Serve(t, b),
                 LeaveInMagazine(t, Contents(t) \union (hand[t] \ {b}))
          PROVE  TypeOK'
      <3>1. Contents(t) = {} /\ Cardinality(hand[t]) <= Batch /\ hand[t] \in SUBSET Blocks
        BY <1>11 DEF Fill, HandInv, AllocLabels, Contents, TypeOK
      <3>2. Cardinality(hand[t] \ {b}) <= Cardinality(hand[t])
        BY <3>1, FiniteBlocks, FS_Subset
      <3>3. Cardinality(hand[t] \ {b}) <= Cap
        BY <3>1, <3>2, <1>n, FiniteBlocks
      <3>4. /\ Contents(t) \union (hand[t] \ {b}) \in SUBSET Blocks
            /\ Cardinality(Contents(t) \union (hand[t] \ {b})) <= Cap
        BY <3>1, <3>3
      <3>5. raw' \subseteq Blocks /\ headed' \subseteq Blocks
        BY <2>2, <3>1 DEF Serve, TypeOK
      <3> QED BY <1>11, <2>2, <3>4, <3>5, LeaveType DEF Fill, TypeOK
    <2> QED BY <1>11, <2>1, <2>2 DEF Fill
  <1>12. ASSUME NEW t \in Threads, NEW b \in Blocks, BeginFree(t, b) PROVE TypeOK'
    BY <1>12 DEF BeginFree, Flavours, TypeOK
  <1>13. ASSUME NEW t \in Threads, Push(t) PROVE TypeOK'
    <2>1. PICK b \in Blocks : hand[t] = {b}
      BY <1>13 DEF Push, HandInv
    <2>2. /\ Contents(t) \in SUBSET Blocks /\ IsFiniteSet(Contents(t))
          /\ Cardinality(Contents(t)) \in Nat /\ Cardinality(Contents(t)) < Cap
      BY <1>13, ContentsType, FiniteBlocks DEF Push, HasRoom
    <2>3. Cardinality(Contents(t) \union {b}) <= Cap
      <3>1. Cardinality(Contents(t) \union {b}) <= Cardinality(Contents(t)) + 1
        BY <2>2, FS_AddElement
      <3>2. Cardinality(Contents(t) \union {b}) \in Nat
        <4>1. IsFiniteSet(Contents(t) \union {b})
          BY <2>2, FS_AddElement
        <4> QED BY <4>1, FS_CardinalityType
      <3> QED BY <2>2, <3>1, <3>2, <1>n
    <2>4. Contents(t) \union hand[t] \in SUBSET Blocks
      BY <2>1, <2>2
    <2>5. Cardinality(Contents(t) \union hand[t]) <= Cap
      BY <2>1, <2>3
    <2> QED BY <1>13, <2>4, <2>5, LeaveType DEF Push, TypeOK
  <1>14. ASSUME NEW t \in Threads, Overflow(t) PROVE TypeOK'
    <2>1. PICK g \in Some(Contents(t), Batch) :
            /\ LeaveInMagazine(t, AfterTake(t, g))
            /\ hand' = [hand EXCEPT ![t] = @ \union g]
      BY <1>14 DEF Overflow
    <2>2. AfterTake(t, g) \in SUBSET Contents(t) /\ g \in SUBSET Blocks
      BY ContentsType, BatchFacts DEF AfterTake
    <2>3. AfterTake(t, g) \in SUBSET Blocks /\ Cardinality(AfterTake(t, g)) <= Cap
      BY <2>2, ContentsType
    <2> QED BY <1>14, <2>1, <2>2, <2>3, LeaveType DEF Overflow, TypeOK
  <1>15. ASSUME NEW t \in Threads, LockHome(t) PROVE TypeOK'
    <2>1. \A b \in hand[t] : HomeOf(t, b) \in Stripes
      BY HomeFacts DEF TypeOK
    <2> QED BY <1>15, <2>1 DEF LockHome, Lock, TypeOK
  <1>16. ASSUME NEW t \in Threads, GiveBack(t) PROVE TypeOK'
    <2>1. at[t] \in Stripes /\ flav[t] \in Flavours /\ Group(t) \in SUBSET Blocks
      BY <1>16 DEF GiveBack, HandInv, LockedLabels, Group, TypeOK
    <2>2. recycled' \in [Flavours -> [Stripes -> SUBSET Blocks]]
      BY <1>16, <2>1 DEF GiveBack, TypeOK
    <2> QED BY <1>16, <2>1, <2>2 DEF GiveBack, Unlock, TypeOK
  <1>17. ASSUME NEW t \in Threads, NoteGain(t) PROVE TypeOK'
    BY <1>17 DEF NoteGain, NextEpoch, TypeOK
  <1>18. CASE UNCHANGED vars
    BY <1>18 DEF TypeOK
  <1> QED BY <1>1, <1>2, <1>3, <1>4, <1>5, <1>6, <1>7, <1>8, <1>9, <1>10, <1>11, <1>12,
             <1>13, <1>14, <1>15, <1>16, <1>17, <1>18 DEF Next, AllocStep, FreeStep

-----------------------------------------------------------------------------
\* The hands of a thread, and the stripe it has locked, match where it is.
LEMMA HandStep ==
  ASSUME TypeOK, HandInv, [Next]_vars
  PROVE  HandInv'
  <1> USE DEF vars, centralVars, modeVars, magVars, gateVars, callVars, heldVars,
              Goto, LockedLabels, AllocLabels, FlushLabels
  <1>n. Nobody \notin Stripes /\ \A t \in Threads : StripeOf[t] \in Stripes
    BY Names
  <1>1. CASE LatchHeadless
    BY <1>1 DEF LatchHeadless, HandInv, TypeOK
  <1>2. ASSUME NEW t \in Threads, NEW r \in Requests, BeginAlloc(t, r) PROVE HandInv'
    BY <1>2 DEF BeginAlloc, HandInv, TypeOK
  <1>3. ASSUME NEW t \in Threads, PopHit(t) PROVE HandInv'
    BY <1>3 DEF PopHit, LeaveInMagazine, HandInv, TypeOK
  <1>4. ASSUME NEW t \in Threads, PopMiss(t) PROVE HandInv'
    BY <1>4 DEF PopMiss, LeaveInMagazine, HandInv, TypeOK
  <1>5. ASSUME NEW t \in Threads, CheckGate(t) PROVE HandInv'
    BY <1>5 DEF CheckGate, HandInv, TypeOK
  <1>6. ASSUME NEW t \in Threads, LockOwn(t) PROVE HandInv'
    BY <1>6, <1>n DEF LockOwn, Lock, HandInv, TypeOK
  <1>7. ASSUME NEW t \in Threads, PopRecycled(t) PROVE HandInv'
    <2>1. recycled[flav[t]][at[t]] \in SUBSET Blocks
      BY <1>7 DEF PopRecycled, HandInv, TypeOK, Tiers
    <2>2. PICK g \in Some(recycled[flav[t]][at[t]], Batch) : hand' = [hand EXCEPT ![t] = g]
      BY <1>7 DEF PopRecycled
    <2>3. Cardinality(g) <= Batch /\ g \subseteq recycled[flav[t]][at[t]]
      BY <2>1, <2>2, BatchFacts
    <2> QED BY <1>7, <1>n, <2>2, <2>3 DEF PopRecycled, Unlock, HandInv, TypeOK
  <1>8. ASSUME NEW t \in Threads, TrySibling(t) PROVE HandInv'
    BY <1>8 DEF TrySibling, Lock, HandInv, TypeOK
  <1>9. ASSUME NEW t \in Threads, LatchMiss(t) PROVE HandInv'
    BY <1>9 DEF LatchMiss, HandInv, TypeOK
  <1>10. ASSUME NEW t \in Threads, Carve(t) PROVE HandInv'
    <2> DEFINE S(m) == recycled[flav[t]][at[t]] \union carve[flav[t]][at[t]] \union m
    <2>1. \A m \in SUBSET unmapped : S(m) \in SUBSET Blocks
      BY <1>10 DEF Carve, HandInv, TypeOK, Tiers
    <2>2. PICK m \in SUBSET unmapped : \E g \in Some(S(m), Batch) :
                                          hand' = [hand EXCEPT ![t] = g]
      BY <1>10 DEF Carve
    <2>3. PICK g \in Some(S(m), Batch) : hand' = [hand EXCEPT ![t] = g]
      BY <2>2
    <2>4. Cardinality(g) <= Batch
      BY <2>1, BatchFacts
    <2> QED BY <1>10, <1>n, <2>3, <2>4 DEF Carve, Unlock, HandInv, TypeOK
  <1>11. ASSUME NEW t \in Threads, Fill(t) PROVE HandInv'
    BY <1>11 DEF Fill, LeaveInMagazine, HandInv, TypeOK
  <1>12. ASSUME NEW t \in Threads, NEW b \in Blocks, BeginFree(t, b) PROVE HandInv'
    BY <1>12 DEF BeginFree, HandInv, TypeOK
  <1>13. ASSUME NEW t \in Threads, Push(t) PROVE HandInv'
    BY <1>13 DEF Push, LeaveInMagazine, HandInv, TypeOK
  <1>14. ASSUME NEW t \in Threads, Overflow(t) PROVE HandInv'
    BY <1>14 DEF Overflow, LeaveInMagazine, HandInv, TypeOK
  <1>15. ASSUME NEW t \in Threads, LockHome(t) PROVE HandInv'
    <2>1. \A b \in hand[t] : HomeOf(t, b) \in Stripes
      BY HomeFacts DEF TypeOK
    <2> QED BY <1>15, <2>1 DEF LockHome, Lock, HandInv, TypeOK
  <1>16. ASSUME NEW t \in Threads, GiveBack(t) PROVE HandInv'
    BY <1>16, <1>n DEF GiveBack, Unlock, HandInv, TypeOK
  <1>17. ASSUME NEW t \in Threads, NoteGain(t) PROVE HandInv'
    BY <1>17 DEF NoteGain, NextEpoch, HandInv, TypeOK
  <1>18. CASE UNCHANGED vars
    BY <1>18 DEF HandInv
  <1> QED BY <1>1, <1>2, <1>3, <1>4, <1>5, <1>6, <1>7, <1>8, <1>9, <1>10, <1>11, <1>12,
             <1>13, <1>14, <1>15, <1>16, <1>17, <1>18 DEF Next, AllocStep, FreeStep

-----------------------------------------------------------------------------
\* Thread t is left with the magazine S and the hands H, and the blocks of out
\* have gone to the program or are stranded.
MagazineMove(t, S, H, out) ==
  /\ UNCHANGED <<unmapped, carve, recycled>>
  /\ mag' = [mag EXCEPT ![t] = S] /\ hand' = [hand EXCEPT ![t] = H]
  /\ S \intersect H = {} /\ out \intersect (S \union H) = {}
  /\ raw' \intersect headed' = {} /\ Held' \intersect stranded' = {}
  /\ \A b \in Blocks : /\ b \in S \union H \union out <=> b \in Kept(t)
                       /\ b \in Held' \union stranded' <=>
                            b \in Held \union stranded \union out

\* Such a move leaves every block in one place.
LEMMA MagazineStep ==
  ASSUME TypeOK, TypeOK', OnePlace, NEW t \in Threads, NEW S, NEW H, NEW out,
         MagazineMove(t, S, H, out)
  PROVE  OnePlace'
  <1> USE DEF Held, Tier, Kept
  <1>o. Apart /\ Accounted
    BY DEF OnePlace
  <1>1. Apart'
    BY <1>o DEF Apart, TypeOK, MagazineMove
  <1>2. Accounted'
    BY <1>o DEF Accounted, TypeOK, MagazineMove
  <1> QED BY <1>1, <1>2 DEF OnePlace

\* Stripe s is left with C to carve and R to recycle of flavour f, and thread t
\* with H in its hands, after the blocks of m were mapped.
TierMove(t, f, s, C, R, H, m) ==
  /\ UNCHANGED <<mag, heldVars, stranded>>
  /\ m \subseteq unmapped /\ unmapped' = unmapped \ m
  /\ hand' = [hand EXCEPT ![t] = H]
  /\ C \intersect R = {} /\ H \intersect (C \union R) = {}
  /\ \A e \in Flavours, u \in Stripes :
       /\ carve'[e][u] = IF e = f /\ u = s THEN C ELSE carve[e][u]
       /\ recycled'[e][u] = IF e = f /\ u = s THEN R ELSE recycled[e][u]
  /\ \A b \in Blocks : b \in C \union R \union H <=>
                         b \in Tier(f, s) \union hand[t] \union m

\* Such a move leaves every block in one place.
LEMMA TierStep ==
  ASSUME TypeOK, TypeOK', OnePlace, NEW t \in Threads, NEW f \in Flavours,
         NEW s \in Stripes, NEW C, NEW R, NEW H, NEW m, TierMove(t, f, s, C, R, H, m)
  PROVE  OnePlace'
  <1> USE DEF Held, Tier, Kept, heldVars
  <1>o. Apart /\ Accounted
    BY DEF OnePlace
  <1>t. /\ mag' = mag /\ raw' = raw /\ headed' = headed /\ stranded' = stranded
        /\ unmapped' = unmapped \ m /\ m \subseteq unmapped
        /\ \A u \in Threads : hand'[u] = IF u = t THEN H ELSE hand[u]
        /\ C \intersect R = {} /\ H \intersect (C \union R) = {}
        /\ \A e \in Flavours, u \in Stripes :
             /\ carve'[e][u] = IF e = f /\ u = s THEN C ELSE carve[e][u]
             /\ recycled'[e][u] = IF e = f /\ u = s THEN R ELSE recycled[e][u]
    BY DEF TypeOK, TierMove
  <1>m. \A b : b \in C \union R \union H <=> b \in Tier(f, s) \union hand[t] \union m
    <2>1. C \subseteq Blocks /\ R \subseteq Blocks
      <3>1. carve'[f][s] \subseteq Blocks /\ recycled'[f][s] \subseteq Blocks
        BY DEF TypeOK, Tiers
      <3> QED BY <3>1, <1>t
    <2>2. H \subseteq Blocks
      BY <1>t DEF TypeOK
    <2>3. Tier(f, s) \union hand[t] \union m \subseteq Blocks
      BY <1>t DEF TypeOK, Tiers
    <2> QED BY <2>1, <2>2, <2>3 DEF TierMove
  <1>1. Apart'
    <2>1. \A e \in Flavours, u \in Stripes :
            /\ Tier(e, u)' \intersect (unmapped \union Held \union stranded)' = {}
            /\ \A v \in Threads : Kept(v)' \intersect Tier(e, u)' = {}
      BY <1>o, <1>t, <1>m DEF Apart
    <2>2. \A e, d \in Flavours, u, v \in Stripes :
            carve'[e][u] \intersect recycled'[d][v] = {}
      BY <1>o, <1>t, <1>m DEF Apart
    <2>3. \A e, d \in Flavours, u, v \in Stripes : e # d \/ u # v =>
            /\ carve'[e][u] \intersect carve'[d][v] = {}
            /\ recycled'[e][u] \intersect recycled'[d][v] = {}
      BY <1>o, <1>t, <1>m DEF Apart
    <2>4. \A u, v \in Threads :
            /\ mag'[u] \intersect hand'[v] = {}
            /\ u # v => /\ mag'[u] \intersect mag'[v] = {}
                        /\ hand'[u] \intersect hand'[v] = {}
      BY <1>o, <1>t, <1>m DEF Apart
    <2>5. \A u \in Threads :
            Kept(u)' \intersect (unmapped \union Held \union stranded)' = {}
      BY <1>o, <1>t, <1>m DEF Apart
    <2> QED BY <2>1, <2>2, <2>3, <2>4, <2>5, <1>o, <1>t DEF Apart
  <1>2. Accounted'
    BY <1>o, <1>t, <1>m DEF Accounted
  <1> QED BY <1>1, <1>2 DEF OnePlace

\* No step puts a block in a second place, or in none.
LEMMA PlaceStep ==
  ASSUME TypeOK, TypeOK', HandInv, OnePlace, [Next]_vars
  PROVE  OnePlace'
  <1> USE DEF vars, centralVars, modeVars, magVars, gateVars, callVars, heldVars, Goto
  <1>o. Apart /\ Accounted
    BY DEF OnePlace
  <1>a. ASSUME UNCHANGED <<unmapped, carve, recycled, mag, hand, heldVars, stranded>>
        PROVE  OnePlace'
    BY <1>a, <1>o DEF OnePlace, Apart, Accounted, Held, Tier, Kept
  <1>3. ASSUME NEW t \in Threads, PopHit(t) PROVE OnePlace'
    <2>1. PICK b \in Contents(t) : LeaveInMagazine(t, Contents(t) \ {b}) /\ Serve(t, b)
      BY <1>3 DEF PopHit
    <2>2. hand[t] = {} /\ hand' = [hand EXCEPT ![t] = {}]
      BY <1>3 DEF PopHit, HandInv, LockedLabels, FlushLabels, TypeOK
    <2>3. Contents(t) = mag[t] /\ b \in mag[t] /\ b \notin Held \union stranded
      BY <1>o DEF Contents, Apart, Kept
    <2>a. mag' = [mag EXCEPT ![t] = mag[t] \ {b}] /\ stranded' = stranded
      BY <2>1, <2>3 DEF LeaveInMagazine
    <2>b. Held' = Held \union {b} /\ raw' \intersect headed' = {}
      BY <2>1, <2>3, <1>o DEF Serve, Apart, Held
    <2>4. MagazineMove(t, mag[t] \ {b}, {}, {b})
      BY <1>3, <2>2, <2>3, <2>a, <2>b, <1>o DEF PopHit, MagazineMove, Apart, Kept
    <2> QED BY <2>4, MagazineStep
  <1>4. ASSUME NEW t \in Threads, PopMiss(t) PROVE OnePlace'
    <2>1. hand[t] = {} /\ hand' = [hand EXCEPT ![t] = {}]
      BY <1>4 DEF PopMiss, HandInv, LockedLabels, FlushLabels, TypeOK
    <2>2. mag' = [mag EXCEPT ![t] = {}] /\ stranded' = stranded \union mag[t]
      BY <1>4 DEF PopMiss, LeaveInMagazine
    <2>3. MagazineMove(t, {}, {}, mag[t])
      BY <1>4, <2>1, <2>2, <1>o DEF PopMiss, MagazineMove, Apart, Held, Kept
    <2> QED BY <2>3, MagazineStep
  <1>7. ASSUME NEW t \in Threads, PopRecycled(t) PROVE OnePlace'
    <2> DEFINE f == flav[t]  s == at[t]
    <2>1. s \in Stripes /\ f \in Flavours /\ hand[t] = {}
      BY <1>7 DEF PopRecycled, HandInv, LockedLabels, FlushLabels, TypeOK
    <2>2. PICK g \in Some(recycled[f][s], Batch) :
             /\ recycled' = [recycled EXCEPT ![f][s] = @ \ g]
             /\ hand' = [hand EXCEPT ![t] = g]
      BY <1>7 DEF PopRecycled
    <2>3. g \subseteq recycled[f][s]
      <3>1. recycled[f][s] \in SUBSET Blocks
        BY <2>1 DEF TypeOK, Tiers
      <3> QED BY <3>1, BatchFacts
    <2>4. TierMove(t, f, s, carve[f][s], recycled[f][s] \ g, g, {})
      BY <1>7, <2>1, <2>2, <2>3, <1>o
         DEF PopRecycled, TierMove, Apart, Tier, TypeOK, Tiers
    <2> QED BY <2>1, <2>4, TierStep
  <1>10. ASSUME NEW t \in Threads, Carve(t) PROVE OnePlace'
    <2> DEFINE f == flav[t]  s == at[t]  r == recycled[f][s]  c == carve[f][s]
    <2>1. s \in Stripes /\ f \in Flavours /\ hand[t] = {}
      BY <1>10 DEF Carve, HandInv, LockedLabels, FlushLabels, TypeOK
    <2>2. PICK m \in SUBSET unmapped : \E g \in Some(r \union c \union m, Batch) :
             /\ recycled' = [recycled EXCEPT ![f][s] = @ \ g]
             /\ carve' = [carve EXCEPT ![f][s] = (@ \union m) \ g]
             /\ hand' = [hand EXCEPT ![t] = g]
             /\ unmapped' = unmapped \ m
      BY <1>10 DEF Carve
    <2>3. r \union c \union m \in SUBSET Blocks
      BY <2>1, <2>2 DEF TypeOK, Tiers
    <2>4. PICK g \in Some(r \union c \union m, Batch) :
             /\ recycled' = [recycled EXCEPT ![f][s] = @ \ g]
             /\ carve' = [carve EXCEPT ![f][s] = (@ \union m) \ g]
             /\ hand' = [hand EXCEPT ![t] = g]
      BY <2>2
    <2>5. g \subseteq r \union c \union m
      BY <2>3, BatchFacts
    <2>a. \A e \in Flavours, u \in Stripes :
            /\ carve'[e][u] = IF e = f /\ u = s THEN (c \union m) \ g ELSE carve[e][u]
            /\ recycled'[e][u] = IF e = f /\ u = s THEN r \ g ELSE recycled[e][u]
      BY <2>1, <2>4 DEF TypeOK, Tiers
    <2>b. c \intersect r = {} /\ m \intersect r = {}
      BY <2>1, <2>2, <1>o DEF Apart, Tier
    <2>6. TierMove(t, f, s, (c \union m) \ g, r \ g, g, m)
      <3>1. UNCHANGED <<mag, heldVars, stranded>>
        BY <1>10 DEF Carve
      <3>2. \A b \in Blocks : b \in ((c \union m) \ g) \union (r \ g) \union g <=>
                               b \in Tier(f, s) \union hand[t] \union m
        BY <2>1, <2>5 DEF Tier
      <3> QED BY <2>2, <2>4, <2>a, <2>b, <3>1, <3>2 DEF TierMove
    <2> QED BY <2>1, <2>6, TierStep
  <1>11. ASSUME NEW t \in Threads, Fill(t) PROVE OnePlace'
    <2>1. CASE hand[t] = {} /\ UNCHANGED <<heldVars, magVars, stranded>>
      BY <1>11, <2>1, <1>a DEF Fill, TypeOK
    <2>2. ASSUME NEW b \in hand[t], Serve(t, b),
                 LeaveInMagazine(t, Contents(t) \union (hand[t] \ {b}))
          PROVE  OnePlace'
      <3>1. mag[t] = {} /\ Contents(t) = {}
        BY <1>11 DEF Fill, HandInv, AllocLabels, Contents
      <3>2. b \notin Held \union stranded
        BY <1>o DEF Apart, Kept
      <3>3. MagazineMove(t, hand[t] \ {b}, {}, {b})
        BY <1>11, <2>2, <3>1, <3>2, <1>o
           DEF Fill, MagazineMove, Serve, LeaveInMagazine, Apart, Held, Kept
      <3> QED BY <3>3, MagazineStep
    <2> QED BY <1>11, <2>1, <2>2 DEF Fill
  <1>12. ASSUME NEW t \in Threads, NEW b \in Blocks, BeginFree(t, b) PROVE OnePlace'
    <2>1. hand[t] = {}
      BY <1>12 DEF BeginFree, HandInv, FlushLabels
    <2>2. Apart'
      BY <1>12, <2>1, <1>o DEF BeginFree, Apart, Held, Tier, Kept, TypeOK
    <2>3. Accounted'
      BY <1>12, <2>1, <1>o DEF BeginFree, Accounted, Held, Tier, Kept, TypeOK
    <2> QED BY <2>2, <2>3 DEF OnePlace
  <1>13. ASSUME NEW t \in Threads, Push(t) PROVE OnePlace'
    <2>1. /\ mag' = [mag EXCEPT ![t] = Contents(t) \union hand[t]]
          /\ stranded' = stranded \union (mag[t] \ Contents(t))
          /\ Contents(t) \subseteq mag[t]
      BY <1>13 DEF Push, LeaveInMagazine, Contents
    <2>2. MagazineMove(t, Contents(t) \union hand[t], {}, mag[t] \ Contents(t))
      BY <1>13, <2>1, <1>o DEF Push, MagazineMove, Apart, Held, Kept
    <2> QED BY <2>2, MagazineStep
  <1>14. ASSUME NEW t \in Threads, Overflow(t) PROVE OnePlace'
    <2>1. PICK g \in Some(Contents(t), Batch) :
            /\ LeaveInMagazine(t, AfterTake(t, g))
            /\ hand' = [hand EXCEPT ![t] = @ \union g]
      BY <1>14 DEF Overflow
    <2>2. g \subseteq Contents(t)
      BY ContentsType, BatchFacts
    <2>3. /\ mag' = [mag EXCEPT ![t] = Contents(t) \ g]
          /\ stranded' = stranded \union (mag[t] \ Contents(t))
          /\ Contents(t) \subseteq mag[t]
      BY <2>1 DEF LeaveInMagazine, AfterTake, Contents
    <2>4. MagazineMove(t, Contents(t) \ g, hand[t] \union g, mag[t] \ Contents(t))
      BY <1>14, <2>1, <2>2, <2>3, <1>o DEF Overflow, MagazineMove, Apart, Held, Kept
    <2> QED BY <2>4, MagazineStep
  <1>16. ASSUME NEW t \in Threads, GiveBack(t) PROVE OnePlace'
    <2> DEFINE f == flav[t]  s == at[t]
    <2>1. s \in Stripes /\ f \in Flavours /\ Group(t) \subseteq hand[t]
      BY <1>16 DEF GiveBack, HandInv, LockedLabels, Group, TypeOK
    <2>2. TierMove(t, f, s, carve[f][s], recycled[f][s] \union Group(t),
                   hand[t] \ Group(t), {})
      BY <1>16, <2>1, <1>o DEF GiveBack, TierMove, Apart, Tier, Kept, TypeOK, Tiers
    <2> QED BY <2>1, <2>2, TierStep
  <1>17. CASE UNCHANGED vars
    BY <1>17, <1>a
  <1>18. ASSUME NEW t \in Threads, \/ \E r \in Requests : BeginAlloc(t, r)
                                   \/ CheckGate(t) \/ LockOwn(t) \/ TrySibling(t)
                                   \/ LatchMiss(t) \/ LockHome(t) \/ NoteGain(t)
         PROVE  OnePlace'
    BY <1>18, <1>a DEF BeginAlloc, CheckGate, LockOwn, TrySibling, LatchMiss, LockHome,
       NoteGain
  <1>19. CASE LatchHeadless
    BY <1>19, <1>a DEF LatchHeadless
  <1> QED BY <1>3, <1>4, <1>7, <1>10, <1>11, <1>12, <1>13, <1>14, <1>16, <1>17, <1>18,
             <1>19 DEF Next, AllocStep, FreeStep

-----------------------------------------------------------------------------
\* The initial states satisfy the invariant's core.
LEMMA CoreInit ==
  ASSUME Init
  PROVE  CoreInv
  <1>1. TypeOK
    <2>1. \A t \in Threads : Cardinality(mag[t]) <= Cap
      BY Names, FS_EmptySet DEF Init
    <2> QED BY <2>1 DEF Init, TypeOK, Tiers, Flavours, Labels
  <1>2. HandInv
    BY Names DEF Init, HandInv, LockedLabels, AllocLabels
  <1>3. OnePlace
    BY DEF Init, OnePlace, Apart, Accounted, Held, Tier, Kept
  <1> QED BY <1>1, <1>2, <1>3 DEF CoreInv

\* Whatever requests are made, in whatever order of steps, the state keeps its
\* shape, a magazine its bound, and a block its one place.
THEOREM CoreInductive == Spec => []CoreInv
  <1>1. CoreInv /\ [Next]_vars => CoreInv'
    BY TypeStep, HandStep, PlaceStep DEF CoreInv
  <1> QED BY <1>1, CoreInit, PTL DEF Spec

\* The shape of the state, and the bound of every magazine: pop, push and take
\* of magazine.rs stay within the slots.
THEOREM TypeCorrect == Spec => []TypeOK
  <1>1. CoreInv => TypeOK
    BY DEF CoreInv
  <1> QED BY <1>1, CoreInductive, PTL

\* No block of the class is ever in two places, or lost: the batches that move
\* between the stripes and the magazines neither copy nor drop one.
THEOREM OnePlaceAlways == Spec => []OnePlace
  <1>1. CoreInv => OnePlace
    BY DEF CoreInv
  <1> QED BY <1>1, CoreInductive, PTL

-----------------------------------------------------------------------------
\* Only plain requests are made.
PlainOnly == Requests \subseteq {"plain"}

\* Where blocks of either flavour are, and the paths they are freed by.
FlavourAll == FlavourInv /\ FlavourKept

\* Tiers, magazines and hands keep to blocks of one flavour.
LEMMA FlavourStep ==
  ASSUME PlainOnly, CoreInv, FlavourAll, [Next]_vars
  PROVE  FlavourAll'
  <1> USE DEF vars, centralVars, modeVars, magVars, gateVars, callVars, heldVars, Goto,
              CoreInv, FlavourAll, Registered
  <1>o. TypeOK /\ HandInv /\ Apart /\ FlavourInv /\ FlavourKept
    BY DEF OnePlace
  <1>1. CASE LatchHeadless
    <2>1. \A t \in Threads : hand[t] = {} /\ pc[t] = "idle"
      BY <1>1, <1>o DEF LatchHeadless, HandInv, FlushLabels
    <2>2. magId' = magId + 1 /\ magId \in Nat /\ \A t \in Threads : magOwner[t] \in Nat
      BY <1>1, <1>o DEF LatchHeadless, NextMagId, TypeOK
    <2>3. \A t \in Threads : magOwner'[t] < magId'
      BY <1>1, <2>2, <1>o DEF LatchHeadless, FlavourInv
    <2>4. \A t \in Threads : Contents(t)' = {}
      BY <2>2, <2>3, <1>1 DEF Contents, LatchHeadless
    <2>5. FlavourInv'
      BY <1>1, <2>1, <2>2, <2>3, <2>4, <1>o
         DEF LatchHeadless, FlavourInv, Tier, AllocLabels
    <2> QED BY <1>1, <2>5, <1>o DEF LatchHeadless, FlavourKept
  <1>2. ASSUME NEW t \in Threads, NEW r \in Requests, BeginAlloc(t, r) PROVE FlavourAll'
    <2>1. r = "plain"
      BY DEF PlainOnly
    <2>2. hand[t] = {}
      BY <1>2, <1>o DEF BeginAlloc, HandInv, FlushLabels
    <2> QED BY <1>2, <2>1, <2>2, <1>o
            DEF BeginAlloc, FlavourOf, FlavourInv, FlavourKept, Contents, Tier, TypeOK
  <1>3. ASSUME NEW t \in Threads, PopHit(t) PROVE FlavourAll'
    <2>1. PICK b \in Contents(t) : LeaveInMagazine(t, Contents(t) \ {b}) /\ Serve(t, b)
      BY <1>3 DEF PopHit
    <2>2. (Registered(b) <=> headerless) /\ (flav[t] = "hl" <=> headerless)
      BY <1>3, <2>1, <1>o DEF PopHit, FlavourInv, AllocLabels
    <2>3. FlavourKept'
      BY <1>3, <2>1, <2>2, <1>o DEF PopHit, Serve, FlavourKept
    <2>4. \A u \in Threads : magOwner'[u] <= magId /\ Contents(u)' \subseteq Contents(u)
      BY <1>3, <2>1, <1>o DEF PopHit, LeaveInMagazine, Contents, TypeOK, FlavourInv
    <2>5. FlavourInv'
      BY <1>3, <2>4, <1>o DEF PopHit, FlavourInv, Tier, TypeOK, AllocLabels
    <2> QED BY <2>3, <2>5
  <1>4. ASSUME NEW t \in Threads, PopMiss(t) PROVE FlavourAll'
    <2>1. \A u \in Threads : magOwner'[u] <= magId /\ Contents(u)' \subseteq Contents(u)
      BY <1>4, <1>o DEF PopMiss, LeaveInMagazine, Contents, TypeOK, FlavourInv
    <2>2. FlavourInv'
      BY <1>4, <2>1, <1>o DEF PopMiss, FlavourInv, Tier, TypeOK, AllocLabels
    <2> QED BY <1>4, <2>2, <1>o DEF PopMiss, FlavourKept
  <1>5. ASSUME NEW t \in Threads, CheckGate(t) \/ LockOwn(t) \/ TrySibling(t) \/ LatchMiss(t)
        PROVE  FlavourAll'
    <2>1. /\ UNCHANGED <<centralVars, modeVars, magVars, flav, hand, heldVars>>
          /\ \A u \in Threads : pc'[u] \in AllocLabels \union {"push"} =>
                                pc[u] \in AllocLabels \union {"push"}
      BY <1>5, <1>o DEF CheckGate, LockOwn, TrySibling, LatchMiss, AllocLabels, TypeOK
    <2> QED BY <2>1, <1>o DEF FlavourInv, FlavourKept, Contents, Tier
  <1>7. ASSUME NEW t \in Threads, PopRecycled(t) PROVE FlavourAll'
    <2> DEFINE f == flav[t]  s == at[t]
    <2>1. s \in Stripes /\ f \in Flavours /\ recycled[f][s] \in SUBSET Blocks
      BY <1>7, <1>o DEF PopRecycled, HandInv, LockedLabels, TypeOK, Tiers
    <2>2. PICK g \in Some(recycled[f][s], Batch) :
             /\ recycled' = [recycled EXCEPT ![f][s] = @ \ g]
             /\ hand' = [hand EXCEPT ![t] = g]
      BY <1>7 DEF PopRecycled
    <2>3. g \subseteq recycled[f][s]
      BY <2>1, BatchFacts
    <2>4. \A b \in g : Registered(b) <=> f = "hl"
      BY <2>1, <2>3, <1>o DEF FlavourInv, Tier, Flavours
    <2>5. \A e \in Flavours, u \in Stripes : recycled'[e][u] \subseteq recycled[e][u]
      BY <2>1, <2>2, <1>o DEF TypeOK, Tiers
    <2>6. \A u \in Threads : \A b \in hand'[u] : Registered(b) <=> flav[u] = "hl"
      BY <2>2, <2>4, <1>o DEF FlavourInv, TypeOK
    <2>7. UNCHANGED <<unmapped, carve, segStripe, modeVars, magVars, flav, heldVars>>
          /\ \A u \in Threads : pc'[u] \in AllocLabels \union {"push"} =>
                                pc[u] \in AllocLabels \union {"push"}
      BY <1>7, <1>o DEF PopRecycled, AllocLabels, TypeOK
    <2> QED BY <2>5, <2>6, <2>7, <1>o DEF FlavourInv, FlavourKept, Contents, Tier, Flavours
  <1>11. ASSUME NEW t \in Threads, Fill(t) PROVE FlavourAll'
    <2>1. CASE hand[t] = {} /\ UNCHANGED <<heldVars, magVars, stranded>>
      BY <1>11, <2>1, <1>o
         DEF Fill, FlavourInv, FlavourKept, Contents, Tier, TypeOK, AllocLabels
    <2>2. ASSUME NEW b \in hand[t], Serve(t, b),
                 LeaveInMagazine(t, Contents(t) \union (hand[t] \ {b}))
          PROVE  FlavourAll'
      <3>1. Contents(t) = {} /\ (flav[t] = "hl" <=> headerless)
            /\ \A a \in hand[t] : Registered(a) <=> headerless
        BY <1>11, <1>o DEF Fill, HandInv, AllocLabels, Contents, FlavourInv
      <3>2. FlavourKept'
        BY <1>11, <2>2, <3>1, <1>o DEF Fill, Serve, FlavourKept
      <3>3. \A u \in Threads : /\ magOwner'[u] <= magId
                               /\ \A a \in Contents(u)' : Registered(a) <=> headerless
        BY <1>11, <2>2, <3>1, <1>o
           DEF Fill, LeaveInMagazine, Contents, TypeOK, FlavourInv
      <3>4. FlavourInv'
        BY <1>11, <3>3, <1>o DEF Fill, FlavourInv, Tier, TypeOK, AllocLabels
      <3> QED BY <3>2, <3>4
    <2> QED BY <1>11, <2>1, <2>2 DEF Fill
  <1>12. ASSUME NEW t \in Threads, NEW b \in Blocks, BeginFree(t, b) PROVE FlavourAll'
    <2>1. Registered(b) => headerless
      BY <1>o DEF FlavourInv
    <2>2. FlavourKept'
      BY <1>12, <1>o DEF BeginFree, FlavourKept
    <2>3. FlavourInv'
      BY <1>12, <2>1, <1>o DEF BeginFree, FlavourInv, Tier, Contents, TypeOK, AllocLabels
    <2> QED BY <2>2, <2>3
  <1>13. ASSUME NEW t \in Threads, Push(t) PROVE FlavourAll'
    <2>1. \A a \in hand[t] : Registered(a) <=> headerless
      BY <1>13, <1>o DEF Push, FlavourInv
    <2>2. \A u \in Threads : /\ magOwner'[u] <= magId
                             /\ \A a \in Contents(u)' : Registered(a) <=> headerless
      BY <1>13, <2>1, <1>o DEF Push, LeaveInMagazine, Contents, TypeOK, FlavourInv
    <2>3. FlavourInv'
      BY <1>13, <2>2, <1>o DEF Push, FlavourInv, Tier, TypeOK, AllocLabels
    <2> QED BY <1>13, <2>3, <1>o DEF Push, FlavourKept
  <1>14. ASSUME NEW t \in Threads, Overflow(t) PROVE FlavourAll'
    <2>1. PICK g \in Some(Contents(t), Batch) :
            /\ LeaveInMagazine(t, AfterTake(t, g))
            /\ hand' = [hand EXCEPT ![t] = @ \union g]
      BY <1>14 DEF Overflow
    <2>2. g \subseteq Contents(t)
      BY <1>o, ContentsType, BatchFacts
    <2>3. \A u \in Threads : magOwner'[u] <= magId /\ Contents(u)' \subseteq Contents(u)
      BY <1>14, <2>1, <1>o
         DEF Overflow, AfterTake, LeaveInMagazine, Contents, TypeOK, FlavourInv
    <2>4. \A u \in Threads : \A a \in hand'[u] : Registered(a) <=> flav[u] = "hl"
      BY <1>14, <2>1, <2>2, <1>o DEF Overflow, FlavourInv, TypeOK
    <2>5. FlavourInv'
      BY <1>14, <2>3, <2>4, <1>o DEF Overflow, FlavourInv, Tier, TypeOK, AllocLabels
    <2> QED BY <1>14, <2>5, <1>o DEF Overflow, FlavourKept
  <1>15. ASSUME NEW t \in Threads, LockHome(t) \/ NoteGain(t) PROVE FlavourAll'
    <2>1. /\ UNCHANGED <<centralVars, modeVars, magVars, flav, hand, heldVars>>
          /\ \A u \in Threads : pc'[u] \in AllocLabels \union {"push"} =>
                                pc[u] \in AllocLabels \union {"push"}
      BY <1>15, <1>o DEF LockHome, NoteGain, AllocLabels, TypeOK
    <2> QED BY <2>1, <1>o DEF FlavourInv, FlavourKept, Contents, Tier
  <1>16. ASSUME NEW t \in Threads, GiveBack(t) PROVE FlavourAll'
    <2>1. at[t] \in Stripes /\ flav[t] \in Flavours
          /\ Group(t) \subseteq hand[t]
      BY <1>16, <1>o DEF GiveBack, HandInv, LockedLabels, Group, TypeOK
    <2>2. \A e \in Flavours, u \in Stripes : \A a \in recycled'[e][u] :
            a \in recycled[e][u] \/ (a \in hand[t] /\ e = flav[t])
      BY <1>16, <2>1, <1>o DEF GiveBack, TypeOK, Tiers
    <2>3. \A u \in Threads : hand'[u] \subseteq hand[u]
      BY <1>16, <1>o DEF GiveBack, TypeOK
    <2>4. UNCHANGED <<unmapped, carve, segStripe, modeVars, magVars, flav, heldVars>>
          /\ \A u \in Threads : pc'[u] \in AllocLabels \union {"push"} =>
                                pc[u] \in AllocLabels \union {"push"}
      BY <1>16, <1>o DEF GiveBack, AllocLabels, TypeOK
    <2> QED BY <2>2, <2>3, <2>4, <1>o DEF FlavourInv, FlavourKept, Contents, Tier, Flavours
  <1>18. CASE UNCHANGED vars
    BY <1>18, <1>o DEF FlavourInv, FlavourKept, Contents, Tier
  <1>10. ASSUME NEW t \in Threads, Carve(t) PROVE FlavourAll'
    <2> DEFINE f == flav[t]  s == at[t]  r == recycled[f][s]  c == carve[f][s]
    <2>1. s \in Stripes /\ f \in Flavours /\ (f = "hl" <=> headerless)
      BY <1>10, <1>o DEF Carve, HandInv, LockedLabels, AllocLabels, TypeOK, FlavourInv
    <2>2. PICK m \in SUBSET unmapped : \E g \in Some(r \union c \union m, Batch) :
             /\ recycled' = [recycled EXCEPT ![f][s] = @ \ g]
             /\ carve' = [carve EXCEPT ![f][s] = (@ \union m) \ g]
             /\ hand' = [hand EXCEPT ![t] = g]
             /\ unmapped' = unmapped \ m
             /\ segStripe' = IF f = "hl" THEN Register(m, s) ELSE segStripe
      BY <1>10 DEF Carve
    <2>3. r \union c \union m \in SUBSET Blocks
      BY <2>1, <2>2, <1>o DEF TypeOK, Tiers
    <2>4. PICK g \in Some(r \union c \union m, Batch) :
             /\ recycled' = [recycled EXCEPT ![f][s] = @ \ g]
             /\ carve' = [carve EXCEPT ![f][s] = (@ \union m) \ g]
             /\ hand' = [hand EXCEPT ![t] = g]
      BY <2>2
    <2>5. g \subseteq r \union c \union m
      BY <2>3, BatchFacts
    <2>6. \A b \in Blocks : Registered(b)' <=> Registered(b) \/ (f = "hl" /\ b \in m)
      BY <2>1, <2>2, Names DEF Register
    <2>7. /\ \A b \in r \union c \union m : Registered(b)' <=> f = "hl"
          /\ \A b \in Blocks \ m : Registered(b)' <=> Registered(b)
      BY <2>1, <2>2, <2>3, <2>6, <1>o DEF FlavourInv, Tier, Flavours
    <2>8. \A e \in Flavours, u \in Stripes :
            /\ carve'[e][u] = IF e = f /\ u = s THEN (c \union m) \ g ELSE carve[e][u]
            /\ recycled'[e][u] = IF e = f /\ u = s THEN r \ g ELSE recycled[e][u]
            /\ Tier(e, u) \intersect m = {} /\ Tier(e, u) \subseteq Blocks
      BY <2>1, <2>2, <2>4, <1>o DEF TypeOK, Tiers, Apart, Tier
    <2>9. \A u \in Threads : Kept(u) \intersect m = {} /\ Kept(u) \subseteq Blocks
      BY <2>2, <1>o DEF Apart, Kept, TypeOK
    <2>10. Held \intersect m = {} /\ Held \subseteq Blocks
      BY <2>2, <1>o DEF Apart, Held, TypeOK
    <2>11. UNCHANGED <<modeVars, magVars, flav, heldVars>>
          /\ \A u \in Threads : pc'[u] \in AllocLabels \union {"push"} =>
                                pc[u] \in AllocLabels \union {"push"}
      BY <1>10, <1>o DEF Carve, AllocLabels, TypeOK
    <2>12. FlavourKept'
      BY <2>7, <2>10, <2>11, <1>o DEF FlavourKept, Held
    <2>13. \A b \in unmapped' : ~Registered(b)'
      BY <2>2, <2>7, <1>o DEF FlavourInv, TypeOK
    <2>14. \A e \in Flavours, u \in Stripes : \A b \in Tier(e, u)' :
             b \in Tier(e, u) \/ (b \in r \union c \union m /\ e = f)
      BY <2>8 DEF Tier
    <2>15. \A u \in Stripes : /\ \A b \in Tier("hl", u)' : Registered(b)'
                              /\ \A b \in Tier("header", u)' : ~Registered(b)'
      BY <2>7, <2>8, <2>14, <1>o DEF FlavourInv, Flavours
    <2>16. \A b \in Blocks : Registered(b)' => headerless
      BY <2>1, <2>6, <1>o DEF FlavourInv
    <2>17. \A u \in Threads : /\ \A b \in Contents(u)' : Registered(b)' <=> headerless
                              /\ \A b \in hand'[u] : Registered(b)' <=> flav[u] = "hl"
      BY <2>4, <2>5, <2>7, <2>9, <2>11, <1>o DEF FlavourInv, Contents, Kept, TypeOK
    <2> QED BY <2>11, <2>12, <2>13, <2>15, <2>16, <2>17, <1>o DEF FlavourInv
  <1> QED BY <1>1, <1>2, <1>3, <1>4, <1>5, <1>7, <1>10, <1>11, <1>12, <1>13, <1>14,
             <1>15, <1>16, <1>18 DEF Next, AllocStep, FreeStep

-----------------------------------------------------------------------------
\* Unless a flush is under way after it, no step adds to a recycled tier.
LEMMA TiersShrink ==
  ASSUME CoreInv, [Next]_vars, \A t \in Threads : pc'[t] \notin FlushLabels
  PROVE  \A f \in Flavours, s \in Stripes : recycled'[f][s] \subseteq recycled[f][s]
  <1> USE DEF vars, centralVars, modeVars, magVars, gateVars, callVars, heldVars, Goto
  <1>o. TypeOK /\ HandInv
    BY DEF CoreInv
  <1>1. ASSUME NEW t \in Threads, PopRecycled(t)
        PROVE  \A f \in Flavours, s \in Stripes : recycled'[f][s] \subseteq recycled[f][s]
    <2>1. at[t] \in Stripes /\ flav[t] \in Flavours
      BY <1>1, <1>o DEF PopRecycled, HandInv, LockedLabels, TypeOK
    <2> QED BY <1>1, <2>1, <1>o DEF PopRecycled, TypeOK, Tiers
  <1>2. ASSUME NEW t \in Threads, Carve(t)
        PROVE  \A f \in Flavours, s \in Stripes : recycled'[f][s] \subseteq recycled[f][s]
    <2>1. at[t] \in Stripes /\ flav[t] \in Flavours
      BY <1>2, <1>o DEF Carve, HandInv, LockedLabels, TypeOK
    <2>2. PICK g : recycled' = [recycled EXCEPT ![flav[t]][at[t]] = @ \ g]
      BY <1>2 DEF Carve
    <2> QED BY <2>1, <2>2, <1>o DEF TypeOK, Tiers
  <1>3. ASSUME NEW t \in Threads, GiveBack(t) PROVE FALSE
    BY <1>3, <1>o DEF GiveBack, FlushLabels, TypeOK
  <1>4. CASE UNCHANGED recycled
    BY <1>4
  <1> QED BY <1>1, <1>2, <1>3, <1>4 DEF Next, AllocStep, FreeStep, LatchHeadless,
          BeginAlloc, PopHit, PopMiss, CheckGate, LockOwn, TrySibling, LatchMiss, Fill,
          BeginFree, Push, Overflow, LockHome, NoteGain

\* A flush that is under way ends in NoteGain.
LEMMA FlushEnds ==
  ASSUME CoreInv, [Next]_vars, NEW t \in Threads, pc[t] \in FlushLabels,
         pc'[t] \notin FlushLabels
  PROVE  gated' = {} /\ fresh' = {}
  <1> USE DEF vars, centralVars, modeVars, magVars, gateVars, callVars, heldVars, Goto
  <1>o. pc \in [Threads -> Labels]
    BY DEF CoreInv, TypeOK
  <1>1. ASSUME NEW u \in Threads, NoteGain(u) PROVE gated' = {} /\ fresh' = {}
    BY <1>1 DEF NoteGain, NextEpoch
  <1>2. ASSUME NEW u \in Threads, AllocStep(u) PROVE FALSE
    BY <1>2, <1>o DEF AllocStep, BeginAlloc, PopHit, PopMiss, CheckGate, LockOwn,
       PopRecycled, TrySibling, LatchMiss, Carve, Fill, FlushLabels
  <1>3. ASSUME NEW u \in Threads, FreeStep(u), ~NoteGain(u) PROVE FALSE
    BY <1>3, <1>o DEF FreeStep, BeginFree, Push, Overflow, LockHome, GiveBack, FlushLabels
  <1>4. CASE LatchHeadless \/ UNCHANGED vars
    BY <1>4 DEF LatchHeadless
  <1> QED BY <1>1, <1>2, <1>3, <1>4 DEF Next

\* A scan has found what it has passed empty, and while no flush is under way
\* nothing is added behind it.
LEMMA ScanStep ==
  ASSUME CoreInv, ScanInv, [Next]_vars
  PROVE  ScanInv'
  <1> USE DEF vars, centralVars, modeVars, magVars, gateVars, callVars, heldVars, Goto
  <1>o. TypeOK /\ HandInv /\ Nobody \notin Stripes
    BY Names DEF CoreInv
  <1>f. fresh' \subseteq Threads
    BY TypeStep, <1>o DEF TypeOK
  <1> SUFFICES ASSUME \A t \in Threads : pc'[t] \notin FlushLabels,
                      NEW t \in Threads, t \in fresh' \ skipped',
                      pc'[t] \in {"siblings", "sibpop"},
                      NEW s \in Stripes \ (todo'[t] \union {at'[t]})
               PROVE  recycled'[flav'[t]][s] = {}
    BY <1>f DEF ScanInv
  <1>1. \A u \in Threads : pc[u] \notin FlushLabels
    BY FlushEnds
  <1>2. \A f \in Flavours, u \in Stripes : recycled'[f][u] \subseteq recycled[f][u]
    BY TiersShrink
  <1>3. ASSUME flav'[t] = flav[t], recycled[flav[t]][s] = {}
        PROVE  recycled'[flav'[t]][s] = {}
    BY <1>2, <1>3, <1>o DEF TypeOK
  <1>4. ASSUME t \in fresh \ skipped, pc[t] \in {"siblings", "sibpop"},
               s \notin todo[t] \union {at[t]}
        PROVE  recycled[flav[t]][s] = {}
    BY <1>1, <1>4 DEF ScanInv
  <1>5. ASSUME UNCHANGED <<flav[t], todo[t], at[t], pc[t]>>, t \in fresh \ skipped
        PROVE  recycled'[flav'[t]][s] = {}
    BY <1>3, <1>4, <1>5
  <1>6. ASSUME PopRecycled(t) PROVE recycled'[flav'[t]][s] = {}
    <2>1. at[t] \in Stripes /\ at'[t] = Nobody /\ flav' = flav
      BY <1>6, <1>o DEF PopRecycled, HandInv, LockedLabels, Unlock, TypeOK
    <2>2. recycled[flav[t]][at[t]] = {} /\ t \in fresh \ skipped
      BY <1>6, <1>o DEF PopRecycled, TypeOK
    <2>3. CASE pc[t] = "ownpop"
      BY <1>6, <2>1, <2>2, <2>3, <1>3, <1>o DEF PopRecycled, TypeOK
    <2>4. CASE pc[t] = "sibpop"
      <3>1. s \notin todo[t]
        BY <1>6, <2>2, <2>4, <1>o DEF PopRecycled, TypeOK
      <3>2. s = at[t] \/ s \notin todo[t] \union {at[t]}
        BY <3>1
      <3> QED BY <2>1, <2>2, <2>4, <3>2, <1>3, <1>4
    <2> QED BY <1>6, <2>3, <2>4 DEF PopRecycled
  <1>7. ASSUME TrySibling(t) PROVE recycled'[flav'[t]][s] = {}
    <2>1. PICK u \in todo[t] :
            /\ todo' = [todo EXCEPT ![t] = @ \ {u}]
            /\ pc[t] = "siblings"
            /\ \/ Lock(t, u) /\ UNCHANGED skipped
               \/ skipped' = skipped \union {t}
      BY <1>7 DEF TrySibling
    <2>2. at'[t] = u /\ t \in fresh \ skipped /\ flav' = flav
      BY <1>7, <2>1, <1>o DEF TrySibling, Lock, TypeOK
    <2>3. s \notin todo[t]
      BY <2>1, <2>2, <1>o DEF TypeOK
    <2>4. s # at[t]
      BY <2>1, <1>o DEF HandInv, LockedLabels
    <2> QED BY <2>1, <2>2, <2>3, <2>4, <1>3, <1>4
  <1>8. ASSUME NEW u \in Threads, u # t, AllocStep(u) \/ FreeStep(u)
        PROVE  recycled'[flav'[t]][s] = {}
    <2>1. UNCHANGED <<flav[t], todo[t], at[t], pc[t]>>
      BY <1>8, <1>o DEF AllocStep, BeginAlloc, PopHit, PopMiss, CheckGate, LockOwn,
         PopRecycled, TrySibling, LatchMiss, Carve, Fill, FreeStep, BeginFree, Push,
         Overflow, LockHome, GiveBack, NoteGain, Lock, Unlock, TypeOK
    <2>2. t \in fresh \ skipped
      BY <1>8, <1>o DEF AllocStep, BeginAlloc, PopHit, PopMiss, CheckGate, LockOwn,
         PopRecycled, TrySibling, LatchMiss, Carve, Fill, FreeStep, BeginFree, Push,
         Overflow, LockHome, GiveBack, NoteGain, NextEpoch, TypeOK
    <2> QED BY <2>1, <2>2, <1>5
  <1>9. ASSUME AllocStep(t), ~PopRecycled(t), ~TrySibling(t) PROVE FALSE
    BY <1>9, <1>o DEF AllocStep, BeginAlloc, PopHit, PopMiss, CheckGate, LockOwn,
       LatchMiss, Carve, Fill, TypeOK
  <1>10. ASSUME FreeStep(t) PROVE FALSE
    BY <1>10, <1>o DEF FreeStep, BeginFree, Push, Overflow, LockHome, GiveBack, NoteGain,
       TypeOK
  <1>11. CASE LatchHeadless \/ UNCHANGED vars
    BY <1>11, <1>5 DEF LatchHeadless
  <1> QED BY <1>6, <1>7, <1>8, <1>9, <1>10, <1>11 DEF Next

-----------------------------------------------------------------------------
\* The gate hides nothing from a thread whose scan was not cut short.
LEMMA GateStep ==
  ASSUME CoreInv, FlavourAll, ScanInv, GateSound, [Next]_vars
  PROVE  GateSound'
  <1> USE DEF vars, centralVars, modeVars, magVars, gateVars, callVars, heldVars, Goto
  <1>o. TypeOK /\ HandInv /\ FlavourInv /\ Wanted \in Flavours
    BY DEF CoreInv, FlavourAll, Wanted, FlavourOf, Flavours
  <1> SUFFICES ASSUME \A t \in Threads : pc'[t] \notin FlushLabels,
                      NEW w \in gated' \ skipped', NEW s \in Stripes
               PROVE  recycled'[Wanted'][s] = {}
    BY DEF GateSound, FlushLabels
  <1>1. \A u \in Threads : pc[u] \notin FlushLabels
    BY FlushEnds
  <1>2. \A f \in Flavours, u \in Stripes : recycled'[f][u] \subseteq recycled[f][u]
    BY TiersShrink
  <1>3. ASSUME headerless' = headerless, gated \ skipped # {}
        PROVE  recycled'[Wanted'][s] = {}
    <2>1. recycled[Wanted][s] = {}
      BY <1>1, <1>3 DEF GateSound, FlushLabels
    <2>2. Wanted' = Wanted
      BY <1>3 DEF Wanted, FlavourOf
    <2> QED BY <1>2, <1>o, <2>1, <2>2
  <1>4. CASE LatchHeadless
    <2>1. recycled["hl"][s] = {}
      <3>1. \A b \in recycled["hl"][s] : Registered(b) /\ b \in Blocks
        BY <1>o DEF FlavourInv, Tier, TypeOK, Tiers, Flavours
      <3> QED BY <3>1, <1>4, <1>o DEF FlavourInv, LatchHeadless
    <2>2. Wanted' = "hl" /\ recycled' = recycled
      BY <1>4 DEF LatchHeadless, Wanted, FlavourOf
    <2> QED BY <2>1, <2>2
  <1>5. ASSUME NEW t \in Threads, CheckGate(t) PROVE recycled'[Wanted'][s] = {}
    <2>1. w \in gated \ skipped /\ headerless' = headerless
      BY <1>5 DEF CheckGate
    <2> QED BY <2>1, <1>3
  <1>6. ASSUME NEW t \in Threads, LatchMiss(t) PROVE recycled'[Wanted'][s] = {}
    <2>1. CASE w \in gated
      BY <1>6, <2>1, <1>3 DEF LatchMiss
    <2>2. CASE w \notin gated
      <3>1. t \in fresh \ skipped /\ todo[t] = {} /\ pc[t] = "siblings"
        BY <1>6, <2>2 DEF LatchMiss
      <3>2. at[t] \notin Stripes
        BY <3>1, <1>o DEF HandInv, LockedLabels
      <3>3. recycled[flav[t]][s] = {}
        BY <3>1, <3>2, <1>1 DEF ScanInv
      <3>4. flav[t] = Wanted /\ Wanted' = Wanted /\ recycled' = recycled
        <4>1. (flav[t] = "hl" <=> headerless) /\ flav[t] \in Flavours
          BY <3>1, <1>o DEF FlavourInv, AllocLabels, TypeOK
        <4> QED BY <4>1, <1>6 DEF Wanted, FlavourOf, Flavours, LatchMiss
      <3> QED BY <3>3, <3>4
    <2> QED BY <2>1, <2>2
  <1>7. ASSUME NEW t \in Threads, NoteGain(t) PROVE FALSE
    BY <1>7 DEF NoteGain, NextEpoch
  <1>8. ASSUME UNCHANGED <<headerless, gated>>, skipped \subseteq skipped'
        PROVE  recycled'[Wanted'][s] = {}
    <2>1. w \in gated \ skipped
      BY <1>8
    <2> QED BY <2>1, <1>3, <1>8
  <1> QED BY <1>4, <1>5, <1>6, <1>7, <1>8 DEF Next, AllocStep, FreeStep, BeginAlloc,
          PopHit, PopMiss, LockOwn, PopRecycled, TrySibling, Carve, Fill, BeginFree, Push,
          Overflow, LockHome, GiveBack

\* With owner-free, what is flushed to a stripe was carved by it.
LEMMA HomeStep ==
  ASSUME CoreInv, FlavourAll, HomeKept, [Next]_vars
  PROVE  HomeKept'
  <1> USE DEF vars, centralVars, modeVars, magVars, gateVars, callVars, heldVars, Goto
  <1>o. TypeOK /\ HandInv /\ FlavourInv /\ Apart
    BY DEF CoreInv, FlavourAll, OnePlace
  <1> SUFFICES ASSUME OwnerFree, NEW s \in Stripes, NEW b \in recycled'["hl"][s]
               PROVE  segStripe'[b] = s
    BY DEF HomeKept
  <1>k. b \in recycled["hl"][s] => segStripe[b] = s
    BY DEF HomeKept
  <1>1. ASSUME NEW t \in Threads, PopRecycled(t) PROVE segStripe'[b] = s
    <2>1. at[t] \in Stripes /\ flav[t] \in Flavours
      BY <1>1, <1>o DEF PopRecycled, HandInv, LockedLabels, TypeOK
    <2> QED BY <1>1, <2>1, <1>k, <1>o DEF PopRecycled, TypeOK, Tiers, Flavours
  <1>2. ASSUME NEW t \in Threads, Carve(t) PROVE segStripe'[b] = s
    <2>1. at[t] \in Stripes /\ flav[t] \in Flavours
      BY <1>2, <1>o DEF Carve, HandInv, LockedLabels, TypeOK
    <2>2. PICK m \in SUBSET unmapped :
            /\ \E g : recycled' = [recycled EXCEPT ![flav[t]][at[t]] = @ \ g]
            /\ segStripe' = IF flav[t] = "hl" THEN Register(m, at[t]) ELSE segStripe
      BY <1>2 DEF Carve
    <2>3. b \in recycled["hl"][s]
      BY <2>1, <2>2, <1>o DEF TypeOK, Tiers, Flavours
    <2>4. b \notin unmapped /\ b \in Blocks
      BY <2>3, <1>o DEF Apart, Tier, TypeOK, Tiers, Flavours
    <2>5. segStripe'[b] = segStripe[b]
      BY <2>2, <2>4 DEF Register
    <2> QED BY <2>3, <2>5, <1>k
  <1>3. ASSUME NEW t \in Threads, GiveBack(t) PROVE segStripe'[b] = s
    <2>1. at[t] \in Stripes /\ flav[t] \in Flavours
      BY <1>3, <1>o DEF GiveBack, HandInv, LockedLabels, TypeOK
    <2>2. \/ b \in recycled["hl"][s]
          \/ b \in Group(t) /\ flav[t] = "hl" /\ s = at[t]
      BY <1>3, <2>1, <1>o DEF GiveBack, TypeOK, Tiers, Flavours
    <2>3. ASSUME b \in Group(t), flav[t] = "hl" PROVE segStripe[b] = at[t]
      <3>1. b \in hand[t] /\ HomeOf(t, b) = at[t]
        BY <2>3 DEF Group
      <3>2. Registered(b)
        BY <2>3, <3>1, <1>o DEF FlavourInv
      <3> QED BY <2>3, <3>1, <3>2 DEF HomeOf
    <2> QED BY <1>3, <2>2, <2>3, <1>k DEF GiveBack
  <1>4. CASE UNCHANGED <<recycled, segStripe>>
    BY <1>4, <1>k
  <1> QED BY <1>1, <1>2, <1>3, <1>4 DEF Next, AllocStep, FreeStep, LatchHeadless,
          BeginAlloc, PopHit, PopMiss, CheckGate, LockOwn, TrySibling, LatchMiss, Fill,
          BeginFree, Push, Overflow, LockHome, NoteGain

-----------------------------------------------------------------------------
\* With plain requests only, the whole invariant of the runs is inductive.
THEOREM Inductive ==
  ASSUME PlainOnly PROVE Spec => []SlabInv
  <1>1. Init => SlabInv
    <2> SUFFICES ASSUME Init PROVE SlabInv
      OBVIOUS
    <2>1. CoreInv /\ \A b \in Blocks : ~Registered(b)
      BY CoreInit, Names DEF Init, Registered
    <2>2. FlavourInv
      BY <2>1 DEF Init, FlavourInv, Tier, Contents, Flavours, AllocLabels
    <2>3. FlavourKept /\ ScanInv /\ GateSound
      BY DEF Init, FlavourKept, ScanInv, GateSound
    <2>4. HomeKept
      BY DEF Init, HomeKept, Flavours
    <2> QED BY <2>1, <2>2, <2>3, <2>4 DEF CoreInv, SlabInv
  <1>2. SlabInv /\ [Next]_vars => SlabInv'
    <2> SUFFICES ASSUME SlabInv, [Next]_vars PROVE SlabInv'
      OBVIOUS
    <2>1. CoreInv /\ FlavourAll /\ ScanInv /\ GateSound /\ HomeKept
      BY DEF SlabInv, CoreInv, FlavourAll
    <2>2. TypeOK' /\ HandInv' /\ OnePlace'
      BY <2>1, TypeStep, HandStep, PlaceStep DEF CoreInv
    <2>3. FlavourAll' /\ ScanInv' /\ GateSound' /\ HomeKept'
      BY <2>1, FlavourStep, ScanStep, GateStep, HomeStep
    <2> QED BY <2>2, <2>3 DEF SlabInv, FlavourAll
  <1> QED BY <1>1, <1>2, PTL DEF Spec

\* A block is freed by the path it was served for, as long as no over-aligned
\* request is made: dealloc's registry probe and the header byte agree.
THEOREM FlavourKeptAlways ==
  ASSUME PlainOnly PROVE Spec => []FlavourKept
  <1>1. SlabInv => FlavourKept
    BY DEF SlabInv
  <1> QED BY <1>1, Inductive, PTL

\* A latched scan miss hides no recycled block, unless the scan passed over a
\* contended stripe: slab_batch_recycled_first reads the epoch before it scans,
\* and a flush moves the epoch after its last push.
THEOREM GateSoundAlways ==
  ASSUME PlainOnly PROVE Spec => []GateSound
  <1>1. SlabInv => GateSound
    BY DEF SlabInv
  <1> QED BY <1>1, Inductive, PTL

\* With owner-free, slab_dealloc_headerless flushes a block to the stripe that
\* carved it, and to no other.
THEOREM HomeKeptAlways ==
  ASSUME PlainOnly PROVE Spec => []HomeKept
  <1>1. SlabInv => HomeKept
    BY DEF SlabInv
  <1> QED BY <1>1, Inductive, PTL

=============================================================================
