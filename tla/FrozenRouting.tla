--------------------------- MODULE FrozenRouting ---------------------------
(***************************************************************************)
(* The frozen routing table (perfect_hash.rs): the minimal perfect hash    *)
(* each of its two parts is built as, the verdicts derived from them, and  *)
(* the model file they are written to and rebuilt from.                    *)
(*                                                                         *)
(* A key is a number: a site's own key, or the key of the site in a        *)
(* shallow or a deep context (combine_key_ctx).  The mixing function is    *)
(* one of a family, a behaviour works with one; the hash word has Word     *)
(* values.  A model goes through an export and a load, and the file may    *)
(* be damaged in one place in between.                                     *)
(***************************************************************************)
EXTENDS Integers, SequencesExt

CONSTANTS
  Miss,             \* no entry, no file, no model: a model value
  Sites,            \* number of call sites
  Ctxs,             \* number of contexts of either depth
  ClassOf,          \* the size class of each site
  DefaultOf,        \* default_backend_for_size_class
  Verdicts,         \* backends an entry may name
  MaxEntries,       \* bound: entries given to the builder of the main table
  Mixers, MixOf,    \* mixing functions: their names, and what they compute
  Word,             \* 2^64
  Lambda,           \* BUCKET_LAMBDA
  MaxDisplacement,  \* MAX_DISPLACEMENT
  GlobalRetries     \* GLOBAL_RETRIES

SiteKeys         == 0 .. Sites - 1
ShallowKey(k, c) == k + Sites * (1 + c)          \* combine_key_ctx
DeepKey(k, c)    == k + Sites * (1 + Ctxs + c)   \* combine_key_ctx_deep
FineKeys         == Sites .. Sites * (1 + 2 * Ctxs) - 1
AllKeys          == SiteKeys \cup FineKeys
Contexts         == 0 .. Ctxs - 1
ClassOfKey(k)    == ClassOf[k % Sites]

\* Any numbering of attempts and displacements that tells them apart, with
\* displacement 0 the attempt's own seed (g ^ 0 = g).
SeedOf(attempt, d) == attempt * (MaxDisplacement + 1) + d
Seeds == 0 .. SeedOf(GlobalRetries, MaxDisplacement)

\* A mixing function may be any function into the words.
ASSUME RoutingShape ==
  /\ Sites \in Nat \ {0} /\ Ctxs \in Nat /\ MaxEntries \in Nat
  /\ Word \in Nat \ {0} /\ Lambda \in Nat \ {0}
  /\ MaxDisplacement \in Nat /\ GlobalRetries \in Nat
  /\ \A x \in Mixers : MixOf[x] \in [AllKeys \X Seeds -> 0 .. Word - 1]

Entries ==
  [key: SiteKeys, backend: Verdicts, flag: {"none", "shallow", "deep"}]
    \cup [key: FineKeys, backend: Verdicts, flag: {"none"}]

VARIABLES
  mixer,     \* the name of the mixing function
  rows,      \* what from_entries_flagged is given for main and distilled
  model,     \* the FrozenRouting made from them
  image,     \* the model file
  damage,    \* what happened to it
  loaded     \* what deserialize returned

frVars == <<mixer, rows, model, image, damage, loaded>>

(***************************************************************************)
(* The minimal perfect hash.                                               *)
(***************************************************************************)

Mix(key, seed)  == MixOf[mixer][<<key, seed>>]
Fastrange(x, n) == (x * n) \div Word

Bucket(key, attempt, m)  == Fastrange(Mix(key, SeedOf(attempt, 0)), m)
Slot(key, attempt, d, n) == Fastrange(Mix(key, SeedOf(attempt, d)), n)

\* Sorted by key; of several entries with one key the last is kept.
Deduplicated(entries) ==
  LET last(k) == CHOOSE i \in DOMAIN entries :
                   /\ entries[i].key = k
                   /\ \A j \in DOMAIN entries : entries[j].key = k => j <= i
  IN  [k \in {entries[i].key : i \in DOMAIN entries} |-> entries[last(k)]]

InBucket(keys, attempt, m, b) == {k \in keys : Bucket(k, attempt, m) = b}

\* Gives bucket b the smallest displacement that puts its keys on distinct free
\* slots; an attempt at which one finds none has failed.
Displace(acc, members, b, attempt, n) ==
  LET slotOf(k, d) == Slot(k, attempt, d, n)
      able == {d \in 1 .. MaxDisplacement :
                 /\ \A k \in members : slotOf(k, d) \notin DOMAIN acc.slots
                 /\ \A k, l \in members : slotOf(k, d) = slotOf(l, d) => k = l}
      d    == Min(able)
      left == acc.left \ {b}
  IN  IF members = {} THEN [acc EXCEPT !.left = left]
      ELSE IF able = {} THEN [acc EXCEPT !.left = left, !.fits = FALSE]
      ELSE [left |-> left, fits |-> acc.fits,
            seeds |-> [acc.seeds EXCEPT ![b] = d],
            slots |-> [s \in DOMAIN acc.slots \cup {slotOf(k, d) : k \in members} |->
                         IF s \in DOMAIN acc.slots THEN acc.slots[s]
                         ELSE CHOOSE k \in members : slotOf(k, d) = s]]

\* The largest bucket that is left, the first of several.
Largest(keys, attempt, m, left) ==
  LET size(b) == Cardinality(InBucket(keys, attempt, m, b))
  IN  CHOOSE b \in left :
        \A c \in left : size(b) > size(c) \/ (size(b) = size(c) /\ b <= c)

NothingPlaced(m) ==
  [left |-> 0 .. m - 1, fits |-> TRUE, seeds |-> [b \in 0 .. m - 1 |-> 0],
   slots |-> [s \in {} |-> 0]]

PlaceLargest(keys, attempt, m, acc) ==
  LET b == Largest(keys, attempt, m, acc.left)
  IN  Displace(acc, InBucket(keys, attempt, m, b), b, attempt, Cardinality(keys))

\* try_build: buckets by size, the largest first.
TryBuild(keys, attempt, m) ==
  LET placed[i \in 0 .. m] ==
        IF i = 0 THEN NothingPlaced(m)
        ELSE PlaceLargest(keys, attempt, m, placed[i - 1])
  IN  placed[m]

\* build: every attempt with few buckets, then every attempt with one a key.
Build(byKey) ==
  LET keys   == DOMAIN byKey
      n      == Cardinality(keys)
      few    == (n + Lambda - 1) \div Lambda
      trials == [i \in 1 .. 2 * GlobalRetries |->
                   [attempt |-> ((i - 1) % GlobalRetries) + 1,
                    buckets |-> IF i <= GlobalRetries THEN few ELSE n]]
      result(i) == TryBuild(keys, trials[i].attempt, trials[i].buckets)
      good   == {i \in DOMAIN trials : result(i).fits}
      first  == Min(good)
  IN  IF n = 0 THEN [n |-> 0]
      ELSE IF good = {} THEN [n |-> -1]   \* the panic after all retries
      ELSE [n |-> n, attempt |-> trials[first].attempt,
            buckets |-> trials[first].buckets, seeds |-> result(first).seeds,
            slots |-> [s \in 0 .. n - 1 |-> byKey[result(first).slots[s]]]]

FromEntries(entries) == Build(Deduplicated(entries))

\* Mutation: the entry of the slot is returned whatever its key.
LookupUnchecked(table, key) ==
  IF table.n = 0 THEN Miss
  ELSE LET d == table.seeds[Bucket(key, table.attempt, table.buckets)]
       IN  table.slots[Slot(key, table.attempt, d, table.n)]

Lookup(table, key) ==
  IF table.n = 0 THEN Miss
  ELSE LET d     == table.seeds[Bucket(key, table.attempt, table.buckets)]
           entry == table.slots[Slot(key, table.attempt, d, table.n)]
       IN  IF entry.key = key THEN entry ELSE Miss

TableEntries(table) == IF table.n = 0 THEN {} ELSE Range(table.slots)

Built(table) == table.n >= 0

(***************************************************************************)
(* FrozenRouting.                                                          *)
(***************************************************************************)

AhrNeeded(main) == \E e \in TableEntries(main) : e.flag # "none"

\* compute_sc_verdict: unanimous, free of context, and the size default.
ScVerdict(main, distilled, class) ==
  LET seen == {e \in TableEntries(main) \cup TableEntries(distilled) :
                 ClassOfKey(e.key) = class}
      said == {e.backend : e \in seen}
  IN  IF /\ seen # {} /\ \A e \in seen : e.flag = "none"
         /\ said = {DefaultOf[class]}
      THEN DefaultOf[class] ELSE Miss

\* ctx is the pair of the shallow and the deep context, or Miss.
RouteMain(main, key, ctx) ==
  LET site  == Lookup(main, key)
      probe == IF site.flag = "shallow" THEN ShallowKey(key, ctx[1])
                                        ELSE DeepKey(key, ctx[2])
  IN  IF site = Miss THEN Miss
      ELSE IF ctx = Miss \/ site.flag = "none" \/ Lookup(main, probe) = Miss
      THEN site.backend
      ELSE Lookup(main, probe).backend

NewRouting(mainRows, distilledRows) ==
  LET main      == FromEntries(mainRows)
      distilled == FromEntries(distilledRows)
  IN  [main |-> main, distilled |-> distilled]

\* The rows of a section in the order of their keys: a row is named by the key it was
\* written for.
Section(table) ==
  [k \in {e.key : e \in TableEntries(table)} |->
     CHOOSE e \in TableEntries(table) : e.key = k]

\* The checksum is the exclusive-or of the keys; here their sum.
KeysOf(section) == [i \in DOMAIN section |-> section[i].key]
Checksum(main, distilled) ==
  MapThenSumSet(LAMBDA i : KeysOf(main)[i], DOMAIN main)
    + MapThenSumSet(LAMBDA i : KeysOf(distilled)[i], DOMAIN distilled)

Serialized(r) ==
  [magic |-> TRUE, version |-> 4, complete |-> TRUE,
   main |-> Section(r.main), distilled |-> Section(r.distilled),
   checksum |-> Checksum(Section(r.main), Section(r.distilled))]

\* A backend or flags byte that is out of range reads as Miss.
BackendsKnown(section) == \A i \in DOMAIN section : section[i].backend # Miss
FlagsKnown(section)    == \A i \in DOMAIN section : section[i].flag # Miss

Deserialize(f) ==
  IF /\ f.magic /\ f.version = 4 /\ f.complete
     /\ BackendsKnown(f.main) /\ BackendsKnown(f.distilled)
     /\ FlagsKnown(f.main) /\ FlagsKnown(f.distilled)
     /\ f.checksum = Checksum(f.main, f.distilled)
  THEN NewRouting(f.main, f.distilled)
  ELSE Miss

\* decode_routing_entries of the live server: the same file read again, for the rows
\* that a client shows.  The version before is accepted, flags are not read.
DecodeRoutingEntries(f) ==
  IF /\ f.magic /\ f.version \in {3, 4} /\ f.complete
     /\ BackendsKnown(f.main) /\ BackendsKnown(f.distilled)
     /\ f.checksum = Checksum(f.main, f.distilled)
  THEN {<<f.main[i].key, f.main[i].backend>> : i \in DOMAIN f.main}
  ELSE {}

(***************************************************************************)
(* A model is frozen, exported, perhaps damaged on disk, and loaded.       *)
(***************************************************************************)

FrInit ==
  /\ mixer \in Mixers
  /\ rows \in [main: BoundedSeq(Entries, MaxEntries),
               distilled: BoundedSeq([key: SiteKeys, backend: Verdicts,
                                      flag: {"none"}], 1)]
  /\ model = Miss /\ image = Miss /\ damage = "none" /\ loaded = Miss

FreezeModel ==
  /\ model = Miss
  /\ model' = NewRouting(rows.main, rows.distilled)
  /\ UNCHANGED <<mixer, rows, image, damage, loaded>>

ExportModel ==
  /\ model # Miss /\ Built(model.main) /\ Built(model.distilled)
  /\ image = Miss /\ image' = Serialized(model)
  /\ UNCHANGED <<mixer, rows, model, damage, loaded>>

\* One place of the file goes bad: its head, its length, or the key, the backend or
\* the flags of a row.
DamageFile ==
  /\ image # Miss /\ damage = "none" /\ loaded = Miss
  /\ damage' \in {"magic", "version", "complete", "key", "backend", "flag"}
  /\ IF damage' \in {"key", "backend", "flag"}
     THEN \E i \in DOMAIN image.main :
            \E v \in IF damage' = "key" THEN AllKeys \ {image.main[i].key}
                      ELSE {Miss} :
              image' = [image EXCEPT !.main[i][damage'] = v]
     ELSE \E v \in IF damage' = "version" THEN {2, 3} ELSE {FALSE} :
            image' = [image EXCEPT ![damage'] = v]
  /\ UNCHANGED <<mixer, rows, model, loaded>>

LoadFile ==
  /\ image # Miss /\ loaded = Miss
  /\ loaded' = Deserialize(image)
  /\ UNCHANGED <<mixer, rows, model, image, damage>>

FrNext == FreezeModel \/ ExportModel \/ DamageFile \/ LoadFile

FrSpec == FrInit /\ [][FrNext]_frVars

(***************************************************************************)
(* Properties.                                                             *)
(***************************************************************************)

Intended(given, key) ==
  LET byKey == Deduplicated(given)
  IN  IF key \in DOMAIN byKey THEN byKey[key] ELSE Miss

\* A built table answers each key it was given with that key's last entry and no
\* other key at all, whichever attempt, bucket count and displacements the
\* construction ended with ("a lookup for an unknown hash fails the final
\* comparison and returns None").
LookupExact ==
  model # Miss =>
    \A k \in AllKeys :
      /\ Built(model.main) => Lookup(model.main, k) = Intended(rows.main, k)
      /\ Built(model.distilled) =>
           Lookup(model.distilled, k) = Intended(rows.distilled, k)

\* The shortcut of a size class answers as the whole lookup would, for known sites
\* in every context and for unknown ones, which take the size default ("the
\* served backend is what the full path would pick").
ShortcutAgrees ==
  model # Miss /\ Built(model.main) /\ Built(model.distilled) =>
    \A k \in SiteKeys, ctx \in {Miss} \cup Contexts \X Contexts :
      LET class == ClassOf[k]
          full  == RouteMain(model.main, k, ctx)
          pin   == Lookup(model.distilled, k)
      IN  ScVerdict(model.main, model.distilled, class) # Miss =>
            /\ ScVerdict(model.main, model.distilled, class) =
                 IF full = Miss THEN DefaultOf[class] ELSE full
            /\ pin # Miss => pin.backend = DefaultOf[class]

\* A file either loads as the model that was exported, entry by entry and flag by
\* flag, although its hash structure is rebuilt, or is rejected ("a silently
\* half-loaded model is worse than a loud reject").
LoadsWholeOrNot ==
  loaded # Miss /\ Built(loaded.main) /\ Built(loaded.distilled) =>
    \A k \in AllKeys :
      /\ Lookup(loaded.main, k) = Lookup(model.main, k)
      /\ Lookup(loaded.distilled, k) = Lookup(model.distilled, k)

\* The live server's own reading of the file, made so that it need not keep an
\* allocator ("this duplicate exists"), shows the main rows of the model that was
\* exported or none, and never none of a file that the allocator loads.
DecodersAgree ==
  LET exported == {<<e.key, e.backend>> : e \in TableEntries(model.main)}
  IN  image # Miss =>
        /\ DecodeRoutingEntries(image) \in {{}, exported}
        /\ loaded # Miss => DecodeRoutingEntries(image) = exported

\* A table routes as it was built to, by its whole lookup and by its shortcut, and so
\* does the one that is rebuilt from its file.
RoutesAsBuilt == LookupExact /\ ShortcutAgrees /\ LoadsWholeOrNot /\ DecodersAgree

=============================================================================
