---------------------------- MODULE BenchReport ----------------------------
(***************************************************************************)
(* The benchmark report (lohalloc-bench, bin/aggregate.rs): result files,  *)
(* in the order the directory yields them, become rows; the rows become    *)
(* comparisons with other allocators, and a gate on regressions.           *)
(*                                                                         *)
(* A site is a language and a workload.  A file is a record                *)
(* [kind, cal, site, allocator, mode, mean, sd, times, misses, ops]; what  *)
(* its kind does not have is 0 or empty.  Times are integers.              *)
(***************************************************************************)
EXTENDS Integers, Sequences, FiniteSets, SequencesExt, FiniteSetsExt

CONSTANTS
  Directories,     \* the sets of files a directory may hold
  MinSamples,      \* samples a test needs on either side: 8
  ZSquared,        \* the square of the quantile at ALPHA / 2, as <<num, den>>
  Missing          \* a value a row does not have

VARIABLES
  files,           \* the files not read yet
  rows,            \* the rows, in the order they are pushed
  pending,         \* cachegrind and perf results, which wait for their calibration
  cals,            \* the calibrations
  enforce,         \* --gate
  exit             \* the exit status

brVars == <<files, rows, pending, cals, enforce, exit>>

KNOWN_ALLOCATORS == {"lohalloc", "jemalloc", "mimalloc", "system"}
KNOWN_MODES      == {"training", "inference", "baseline"}

BrInit ==
  /\ files \in Directories
  /\ rows = <<>> /\ pending = <<>> /\ cals = {}
  /\ enforce \in BOOLEAN
  /\ exit = Missing

\* load_rows, one file.  A hyperfine result has its key in its name, and a name with
\* a token that is not known is skipped; the other kinds have it inside.
NameParses(f) == f.allocator \in KNOWN_ALLOCATORS /\ f.mode \in KNOWN_MODES

LoadTiming(f) ==
  /\ f.kind = "native-timing"
  /\ rows' = IF NameParses(f) /\ ~f.cal THEN Append(rows, f) ELSE rows
  /\ cals' = IF NameParses(f) /\ f.cal THEN cals \cup {f} ELSE cals
  /\ UNCHANGED pending

LoadMisses(f) ==
  /\ f.kind \in {"cachegrind", "perf"}
  /\ pending' = IF f.cal THEN pending ELSE Append(pending, f)
  /\ cals' = IF f.cal THEN cals \cup {f} ELSE cals
  /\ UNCHANGED rows

LoadPlain(f) ==
  /\ f.kind \in {"rss", "rust-latency"}
  /\ rows' = Append(rows, f)
  /\ UNCHANGED <<pending, cals>>

LoadFile(f) ==
  /\ files' = files \ {f}
  /\ LoadTiming(f) \/ LoadMisses(f) \/ LoadPlain(f)
  /\ UNCHANGED <<enforce, exit>>

\* The end of the directory: what waited is pushed, cachegrind first.
PushPending ==
  /\ files = {} /\ pending # <<>>
  /\ rows' = rows \o SelectSeq(pending, LAMBDA f : f.kind = "cachegrind")
                  \o SelectSeq(pending, LAMBDA f : f.kind = "perf")
  /\ pending' = <<>>
  /\ UNCHANGED <<files, cals, enforce, exit>>

Less(a, b) == IF a > b THEN a - b ELSE 0

\* The calibrations of a row: its map has at most one.
CalsOf(row) ==
  {c \in cals : <<c.kind, c.site, c.allocator, c.mode>>
                  = <<row.kind, row.site, row.allocator, row.mode>>}
Startup(row) == CHOOSE c \in CalsOf(row) : TRUE

\* A row net of its startup.  Misses count when the operations were counted: here, as
\* totals.
MeanNet(row) ==
  IF CalsOf(row) # {} THEN Less(row.mean, Startup(row).mean) ELSE Missing
cachegrind_row(row) ==
  IF row.ops > 0 /\ CalsOf(row) # {} THEN Less(row.misses, Startup(row).misses) ELSE Missing

\* mann_whitney_p.  Twice the rank sum of a: tied values share their mean rank.
Below(seq, v)  == Cardinality({i \in DOMAIN seq : seq[i] < v})
Equals(seq, v) == Cardinality({i \in DOMAIN seq : seq[i] = v})
RankSum2(a, b) ==
  FoldLeft(LAMBDA sum, v : sum + 2 * Below(a \o b, v) + Equals(a \o b, v) + 1, 0, a)
U2(a, b) == RankSum2(a, b) - Len(a) * (Len(a) + 1)

TieTerm(pooled) ==
  FoldSet(LAMBDA v, sum : sum + Equals(pooled, v) ^ 3 - Equals(pooled, v), 0, ToSet(pooled))

\* Whether there is a p-value, and whether it is below ALPHA: U against its mean, less
\* the continuity correction, by the variance corrected for ties.
HasP(a, b) == Len(a) >= MinSamples /\ Len(b) >= MinSamples

Significant(a, b) ==
  LET n1 == Len(a)  n2 == Len(b)  n == n1 + n2
      off == Less(U2(a, b), n1 * n2) + Less(n1 * n2, U2(a, b))
      variance == (n + 1) * n * (n - 1) - TieTerm(a \o b)
  IN  /\ HasP(a, b) /\ variance > 0
      /\ Less(off, 1) ^ 2 * 3 * n * (n - 1) * ZSquared[2]
           > ZSquared[1] * n1 * n2 * variance

\* The timing of a site under an allocator, the one inserted last: a mode is asked for
\* of lohalloc, and any will do of another.
TimingOf(site, allocator, modes) ==
  {i \in DOMAIN rows : /\ rows[i].kind = "native-timing" /\ rows[i].site = site
                       /\ rows[i].allocator = allocator /\ rows[i].mode \in modes}
Timed(site, allocator, modes) == TimingOf(site, allocator, modes) # {}
Timing(site, allocator, modes) == rows[Max(TimingOf(site, allocator, modes))]
Frozen(site)   == Timing(site, "lohalloc", {"inference"})
Training(site) == Timing(site, "lohalloc", {"training"})
Of(site, baseline) == Timing(site, baseline, KNOWN_MODES)
RowSites == {rows[i].site : i \in DOMAIN rows}

\* evaluate_gate, on a frozen row and a baseline: a loss of over 5 % fails, unless a
\* test does not find it significant.
Over(lo, je) == 100 * lo.mean > 105 * je.mean

\* Mutation: what was not tested passes.
FailsIfTested(lo, je) == Over(lo, je) /\ Significant(lo.times, je.times)

Fails(lo, je) ==
  Over(lo, je) /\ (HasP(lo.times, je.times) => Significant(lo.times, je.times))

\* The pairs the comparisons are made of.  The system workload maps pages for all.
Pairs(baseline) ==
  {s \in RowSites \ {"system"} : /\ Timed(s, "lohalloc", {"inference"})
                              /\ Timed(s, baseline, KNOWN_MODES)}
Failing == {s \in Pairs("jemalloc") : Fails(Frozen(s), Of(s, "jemalloc"))}

\* HbComparison::verdict and its tally.
verdict(lo, base) ==
  IF ~HasP(lo.times, base.times) THEN "ratio-only"
  ELSE IF ~Significant(lo.times, base.times) THEN "no significant difference"
  ELSE IF lo.mean < base.mean THEN "wins" ELSE "loses"
HbTally(baseline, v) == {s \in Pairs(baseline) : verdict(Frozen(s), Of(s, baseline)) = v}

\* TrainVsInference: the verdict on the hypothesis, and the word in the table.
TrainPairs ==
  {s \in RowSites : Timed(s, "lohalloc", {"inference"}) /\ Timed(s, "lohalloc", {"training"})}
ha_verdict(train, inf) ==
  IF ~Significant(train.times, inf.times) THEN "inconclusive"
  ELSE IF inf.mean < train.mean THEN "holds" ELSE "fails"
within_noise(train, inf) ==
  /\ Missing \notin {train.sd, inf.sd}
  /\ Less(train.mean, inf.mean) + Less(inf.mean, train.mean) <= train.sd + inf.sd
TableWord(train, inf) ==
  IF IF HasP(train.times, inf.times) THEN ~Significant(train.times, inf.times)
     ELSE within_noise(train, inf)
  THEN "~"
  ELSE IF inf.mean > train.mean THEN "SLOWER" ELSE "faster"

\* The memory table's cell: of lohalloc, a frozen row.
RssRows(site, allocator) ==
  {i \in DOMAIN rows : /\ rows[i].kind = "rss" /\ rows[i].site = site
                       /\ rows[i].allocator = allocator
                       /\ (allocator = "lohalloc" => rows[i].mode = "inference")}
RssCell(site, allocator) ==
  IF RssRows(site, allocator) = {} THEN Missing ELSE rows[Max(RssRows(site, allocator))].mean

\* main, once every file is in.
Report ==
  /\ files = {} /\ pending = <<>> /\ exit = Missing
  /\ exit' = IF enforce /\ Failing # {} THEN 1 ELSE 0
  /\ UNCHANGED <<files, rows, pending, cals, enforce>>

BrNext == (\E f \in files : LoadFile(f)) \/ PushPending \/ Report

BrSpec == BrInit /\ [][BrNext]_brVars

\* Twice U by its definition: a pair with the bigger value in a counts, a tie half.
PairCount2(a, b) ==
  FoldSet(LAMBDA p, sum : sum + (IF a[p[1]] > b[p[2]] THEN 2
                                 ELSE IF a[p[1]] = b[p[2]] THEN 1 ELSE 0),
          0, (DOMAIN a) \X (DOMAIN b))

\* A row is net of its own startup wherever its calibration came, and not below none.
NetOfStartup ==
  \A i \in DOMAIN rows :
    LET net == IF rows[i].kind = "native-timing" THEN MeanNet(rows[i])
               ELSE cachegrind_row(rows[i])
    IN  /\ net = Missing => CalsOf(rows[i]) = {} \/ rows[i].kind # "native-timing"
        /\ net # Missing => net \in 0 .. (rows[i].mean + rows[i].misses)

\* The statistic is Mann and Whitney's, and significance does not depend on the side.
TestIsTwoSided ==
  \A i, j \in DOMAIN rows :
    LET a == rows[i].times  b == rows[j].times
    IN  U2(a, b) = PairCount2(a, b) /\ (Significant(a, b) <=> Significant(b, a))

\* Whatever order the directory yields its files in, the parts of a report do not
\* contradict each other (aggregate.rs 357-540, 701-942, 1086-1139, 1377-1386): a site
\* that fails the gate loses its comparison, or could not be tested and is over the
\* limit; one that could not be tested passes only under the limit; a win never fails;
\* with --gate the exit status says whether a site fails; a verdict on training is the
\* table's word; the tallies count a pair once; and the memory cell of lohalloc is
\* frozen.
ReportTells ==
  exit # Missing =>
    /\ NetOfStartup /\ TestIsTwoSided
    /\ \A s \in Pairs("jemalloc") :
         LET lo == Frozen(s)  je == Of(s, "jemalloc")
         IN  CASE verdict(lo, je) = "ratio-only" -> s \in Failing <=> Over(lo, je)
               [] verdict(lo, je) = "loses"      -> Over(lo, je) => s \in Failing
               [] OTHER                          -> s \notin Failing
    /\ exit = 1 <=> enforce /\ Failing # {}
    /\ \A s \in TrainPairs :
         LET word == TableWord(Training(s), Frozen(s))
         IN  CASE ha_verdict(Training(s), Frozen(s)) = "holds" -> word = "faster"
               [] ha_verdict(Training(s), Frozen(s)) = "fails" ->
                    word = "SLOWER" \/ Frozen(s).mean = Training(s).mean
               [] OTHER -> HasP(Training(s).times, Frozen(s).times) => word = "~"
    /\ \A b \in KNOWN_ALLOCATORS \ {"lohalloc"} :
         Cardinality(HbTally(b, "wins")) + Cardinality(HbTally(b, "loses"))
           <= Cardinality(Pairs(b))
    /\ \A s \in RowSites :
         RssCell(s, "lohalloc") \in {Missing} \cup
           {rows[i].mean : i \in {j \in DOMAIN rows : /\ rows[j].site = s
                                                    /\ rows[j].mode = "inference"}}

=============================================================================
