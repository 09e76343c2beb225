---------------------------- MODULE SystemCache ----------------------------
(***************************************************************************)
(* The System backend: mappings of the kernel (system.rs) and the cache    *)
(* that retains large ones between a free and a later allocation           *)
(* (SystemCache, and with_system_cache in lib.rs).                         *)
(*                                                                         *)
(* The cache is entered by one compare-and-swap and never waited for: a    *)
(* thread that finds another inside takes a fresh mapping on allocation    *)
(* and unmaps on free.  A mapping is a name; length[m] is its size in      *)
(* units and skew[m] the distance from its base to the next address of the *)
(* large alignment, which the kernel chooses.                              *)
(***************************************************************************)
EXTENDS Integers, FiniteSetsExt

CONSTANTS
  CacheThreads,  \* threads that allocate and free
  Mappings,      \* names of the mappings the kernel may hand out
  Totals,        \* sizes asked for, in units
  BigAlign,      \* the alignment above a page, in units; 1 is a page's
  MinLen,        \* SYSCACHE_MIN_LEN
  BucketCount,   \* SYSCACHE_BUCKETS
  PerBucket,     \* SYSCACHE_PER_BUCKET
  MaxRetained    \* SYSCACHE_MAX_BYTES

NoMapping == "no mapping"

\* Mappings are finitely many and told apart from threads and from none; there is a
\* bucket and a slot.
ASSUME CacheShape ==
  /\ IsFiniteSet(Mappings) /\ NoMapping \notin Mappings
  /\ CacheThreads \cap {"kernel", "live", "cached"} = {}
  /\ Totals \subseteq Nat /\ BigAlign \in Nat \ {0} /\ MinLen \in Nat
  /\ BucketCount \in Nat \ {0} /\ PerBucket \in Nat \ {0}

Outside   == "outside"   \* the cache lock is free
Aligns    == {1, BigAlign}
Buckets   == 0 .. BucketCount - 1
Slots     == 0 .. PerBucket - 1

VARIABLES
  place,      \* where a mapping is: kernel, live, cached, or with a thread
  length,     \* its length; chosen by alloc_pages
  skew,       \* units from its base to the next BigAlign boundary
  held,       \* [total, align] a live mapping was handed out for
  slot,       \* SystemCache.buckets
  nextSlot,   \* SystemCache.next_slot
  retained,   \* SystemCache.retained
  inside,     \* system_cache_lock
  step,       \* where each thread is
  want        \* what it asks for, or the mapping it gives back

cacheVars == <<place, length, skew, held, slot, nextSlot, retained, inside,
               step, want>>

Resting    == [kind |-> "idle"]
Nothing == [total |-> 0, align |-> 1]

CacheInit ==
  /\ place = [m \in Mappings |-> "kernel"]
  /\ length = [m \in Mappings |-> 0] /\ skew = [m \in Mappings |-> 0]
  /\ held = [m \in Mappings |-> Nothing]
  /\ slot = [b \in Buckets |-> [i \in Slots |-> NoMapping]]
  /\ nextSlot = [b \in Buckets |-> 0] /\ retained = 0 /\ inside = Outside
  /\ step = [t \in CacheThreads |-> "idle"]
  /\ want = [t \in CacheThreads |-> Resting]

\* bucket_for: the power of two below the length, clamped into range.
BucketFor(len) ==
  LET atLeast == IF len < MinLen THEN MinLen ELSE len
  IN  Max({b \in Buckets : MinLen * 2 ^ b <= atLeast})

\* The distance from the base to the aligned pointer (align_up_addr).
Pad(m, align) == IF align = 1 THEN 0 ELSE skew[m]

\* An entry serves a request if the aligned block ends inside it.
FitsIn(m, total, align) == Pad(m, align) + total <= length[m]

Cached == {m \in Mappings : \E b \in Buckets, i \in Slots : slot[b][i] = m}

(***************************************************************************)
(* Allocation: system_alloc_with_header.                                   *)
(***************************************************************************)

MovesTo(t, s) == step' = [step EXCEPT ![t] = s]
Back(t)  == MovesTo(t, "idle") /\ want' = [want EXCEPT ![t] = Resting]

HandsTo(t, m) ==
  /\ place' = [place EXCEPT ![m] = "live"]
  /\ held' = [held EXCEPT ![m] = want[t]]
  /\ Back(t)

\* The cache's part is searched first to last: the own bucket, then the next.
Found(total, align) ==
  {p \in Buckets \X Slots :
     /\ p[1] \in BucketFor(total) .. BucketFor(total) + 1
     /\ slot[p[1]][p[2]] # NoMapping
     /\ FitsIn(slot[p[1]][p[2]], total, align)}

FirstOf(ps) ==
  CHOOSE p \in ps : \A q \in ps :
    p[1] < q[1] \/ (p[1] = q[1] /\ p[2] <= q[2])

AskCache(t, total, align) ==
  /\ step[t] = "idle"
  /\ MovesTo(t, "get")
  /\ want' = [want EXCEPT ![t] = [total |-> total, align |-> align]]
  /\ UNCHANGED <<place, length, skew, held, slot, nextSlot, retained, inside>>

\* with_system_cache: the swap succeeds, or the caller goes on without.
EnterCache(t, from, in, without) ==
  /\ step[t] = from
  /\ IF inside = Outside THEN inside' = t /\ MovesTo(t, in)
                         ELSE MovesTo(t, without) /\ UNCHANGED inside
  /\ UNCHANGED <<place, length, skew, held, slot, nextSlot, retained, want>>

EnterGet(t) == EnterCache(t, "get", "inGet", "map")
EnterPut(t) == EnterCache(t, "put", "inPut", "unmap")

TakeFromCache(t) ==
  /\ step[t] = "inGet"
  /\ LET hit == Found(want[t].total, want[t].align)
         p   == FirstOf(hit)
         m   == slot[p[1]][p[2]]
     IN  IF hit = {}
         THEN /\ MovesTo(t, "map")
              /\ UNCHANGED <<place, held, slot, retained, want>>
         ELSE /\ slot' = [slot EXCEPT ![p[1]][p[2]] = NoMapping]
              /\ retained' = retained - length[m]
              /\ HandsTo(t, m)
  /\ inside' = Outside
  /\ UNCHANGED <<length, skew, nextSlot>>

\* alloc_pages over-allocates by the alignment when it is above a page.
MapPages(t, m) ==
  /\ step[t] = "map" /\ place[m] = "kernel"
  /\ \E s \in 0 .. BigAlign - 1 : skew' = [skew EXCEPT ![m] = s]
  /\ length' = [length EXCEPT ![m] =
                  IF want[t].align = 1 THEN want[t].total
                                       ELSE want[t].total + want[t].align]
  /\ HandsTo(t, m)
  /\ UNCHANGED <<slot, nextSlot, retained, inside>>

\* mmap fails: the caller gets a null pointer.
MapFails(t) ==
  /\ step[t] = "map" /\ Back(t)
  /\ UNCHANGED <<place, length, skew, held, slot, nextSlot, retained, inside>>

(***************************************************************************)
(* The System arm of dealloc_with_header.                                  *)
(***************************************************************************)

GiveBack(t, m) ==
  /\ step[t] = "idle" /\ place[m] = "live"
  /\ place' = [place EXCEPT ![m] = t]
  /\ held' = [held EXCEPT ![m] = Nothing]
  /\ want' = [want EXCEPT ![t] = [give |-> m]] /\ MovesTo(t, "put")
  /\ UNCHANGED <<length, skew, slot, nextSlot, retained, inside>>

\* Small mappings, and any above the cap, are declined before an eviction.
Declined(m) == length[m] < MinLen \/ retained + length[m] > MaxRetained

\* munmap
Forget(ms) ==
  /\ length' = [m \in Mappings |-> IF m \in ms THEN 0 ELSE length[m]]
  /\ skew' = [m \in Mappings |-> IF m \in ms THEN 0 ELSE skew[m]]

\* Mutation: the length of an evicted mapping is not given back.
PutKeepsCount(t) ==
  /\ step[t] = "inPut"
  /\ LET m   == want[t].give
         b   == BucketFor(length[m])
         i   == nextSlot[b]
         old == slot[b][i]
     IN  IF Declined(m)
         THEN /\ MovesTo(t, "unmap")
              /\ UNCHANGED <<place, length, skew, slot, nextSlot, retained, want>>
         ELSE /\ slot' = [slot EXCEPT ![b][i] = m]
              /\ nextSlot' = [nextSlot EXCEPT ![b] = (i + 1) % PerBucket]
              /\ retained' = retained + length[m]
              /\ place' = [n \in Mappings |->
                             IF n = m THEN "cached"
                             ELSE IF n = old THEN "kernel" ELSE place[n]]
              /\ Forget({old})
              /\ Back(t)
  /\ inside' = Outside
  /\ UNCHANGED held

PutInCache(t) ==
  /\ step[t] = "inPut"
  /\ LET m   == want[t].give
         b   == BucketFor(length[m])
         i   == nextSlot[b]
         old == slot[b][i]
     IN  IF Declined(m)
         THEN /\ MovesTo(t, "unmap")
              /\ UNCHANGED <<place, length, skew, slot, nextSlot, retained, want>>
         ELSE /\ slot' = [slot EXCEPT ![b][i] = m]
              /\ nextSlot' = [nextSlot EXCEPT ![b] = (i + 1) % PerBucket]
              /\ retained' = retained + length[m]
                             - IF old = NoMapping THEN 0 ELSE length[old]
              /\ place' = [n \in Mappings |->
                             IF n = m THEN "cached"
                             ELSE IF n = old THEN "kernel" ELSE place[n]]
              /\ Forget({old})
              /\ Back(t)
  /\ inside' = Outside
  /\ UNCHANGED held

Unmap(t) ==
  /\ step[t] = "unmap"
  /\ place' = [place EXCEPT ![want[t].give] = "kernel"]
  /\ Forget({want[t].give}) /\ Back(t)
  /\ UNCHANGED <<held, slot, nextSlot, retained, inside>>

CacheNext ==
  \E t \in CacheThreads :
    \/ \E n \in Totals, a \in Aligns : AskCache(t, n, a)
    \/ EnterGet(t) \/ TakeFromCache(t)
    \/ \E m \in Mappings : MapPages(t, m) \/ GiveBack(t, m)
    \/ MapFails(t)
    \/ EnterPut(t) \/ PutInCache(t) \/ Unmap(t)

\* The retained bytes are those of the mappings in the slots, each of which is in
\* exactly one slot and with nobody else: neither an eviction, a hit nor a decline
\* loses a mapping, hands it out twice or lets the count drift from the cap
\* (SystemCache.get and put, and the munmap of what put declines).
CacheAccounts ==
  /\ Cached = {m \in Mappings : place[m] = "cached"}
  /\ retained = MapThenSumSet(LAMBDA m : length[m], Cached)
  /\ \A b, c \in Buckets, i, j \in Slots :
       slot[b][i] = slot[c][j] /\ slot[b][i] # NoMapping => b = c /\ i = j

\* A block lies inside its mapping at the alignment it was asked for, whether the
\* mapping is fresh or was cached for a request of another size and alignment
\* ("the request's alignment is re-derived by re-bumping the user pointer").
ServedFits ==
  \A m \in Mappings : place[m] = "live" =>
    Pad(m, held[m].align) + held[m].total <= length[m]

\* Both hold through every interleaving of gets, puts and evictions.
CacheSound == CacheAccounts /\ ServedFits

CacheSpec == CacheInit /\ [][CacheNext]_cacheVars

=============================================================================
