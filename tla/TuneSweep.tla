----------------------------- MODULE TuneSweep -----------------------------
(***************************************************************************)
(* The ablation sweep (lohalloc-bench, bin/tune_sweep.rs): every point of  *)
(* a grid of tune settings is a configuration file, every point and        *)
(* workload two child processes (bin/latency_profile.rs), and what they    *)
(* leave in the output directory is ranked in a report.  The directory may *)
(* hold the files of an earlier sweep.                                     *)
(*                                                                         *)
(* A point is a function from keys to values.  A file tells who measured   *)
(* what: [point, frozen, p99, mops], or nothing a parser takes.            *)
(***************************************************************************)
EXTENDS Integers, Sequences, FiniteSets, SequencesExt, TLC

CONSTANTS
  Sweeps,          \* [grid, workloads, native]; a grid is pairs <<key, list or NoList>>
  Reports,         \* what a child may measure: [p99, mops]
  NoList,          \* a value of the grid that is not an array
  Earlier,         \* the measurement of an earlier sweep's file
  NoMetrics        \* None

VARIABLES
  points,          \* the configuration points
  workloads,       \* --workloads
  native,          \* --native
  i,               \* the point under way
  stage,           \* where the sweep is with it
  todo,            \* workloads of the point not run yet
  training,        \* the training metrics of the workload under way
  disk,            \* the output directory: names to contents
  results, nativeResults

tsVars == <<points, workloads, native, i, stage, todo, training, disk, results,
            nativeResults>>

\* expand_grid: the product, one key after the other; what is not an array is skipped.
Extended(partial, key, list) ==
  FlattenSeq([p \in DOMAIN partial |->
    [v \in DOMAIN list |-> (key :> list[v]) @@ partial[p]]])

expand_grid(grid) ==
  FoldLeft(LAMBDA partial, entry : IF entry[2] = NoList THEN partial
                                   ELSE Extended(partial, entry[1], entry[2]),
           <<<<>>>>, grid)

\* with_defaults_baseline: the point without settings, first unless it is there.
Defaults == <<>>
with_defaults_baseline(expanded) ==
  IF Defaults \in ToSet(expanded) THEN expanded ELSE <<Defaults>> \o expanded

\* The names of files.
TuneFile(p)        == <<"config", p>>
RawFile(p, w, m)   == <<"raw", p, w, m>>
NativeFile(p, w, m) == <<"native-raw", p, w, m>>
Modes == {"training", "inference"}

FilesOf(n, ws) ==
  {RawFile(p, w, m) : p \in 1 .. n, w \in ToSet(ws), m \in Modes}
  \cup {NativeFile(p, w, m) : p \in 1 .. n, w \in ToSet(ws), m \in Modes}

TsInit ==
  \E s \in Sweeps :
    /\ points = with_defaults_baseline(expand_grid(s.grid))
    /\ workloads = s.workloads /\ native = s.native
    /\ i = 1 /\ stage = "point" /\ todo = <<>> /\ training = NoMetrics
    /\ disk \in {<<>>, [f \in FilesOf(Len(points), workloads) |-> Earlier]}
    /\ results = <<>> /\ nativeResults = <<>>

FocusOf(point) == IF "focus" \in DOMAIN point THEN point["focus"] ELSE "latency"

\* main, one point: its tune file is written, or the point is given up.
WriteConfig ==
  /\ stage = "point" /\ i <= Len(points)
  /\ \/ /\ disk' = (TuneFile(i) :> points[i]) @@ disk
        /\ stage' = "training" /\ todo' = workloads
        /\ UNCHANGED i
     \/ i' = i + 1 /\ UNCHANGED <<disk, stage, todo>>
  /\ UNCHANGED <<points, workloads, native, training, results, nativeResults>>

\* latency_profile: it loads its configuration from the file it is named; in inference
\* mode it trains for a while and freezes before it measures.
Profiled(mode, report) ==
  [point |-> disk[TuneFile(i)], frozen |-> mode = "inference",
   p99 |-> report.p99, mops |-> report.mops]

\* run_child: the metrics when it succeeds.  One that cannot be spawned or that fails
\* leaves what was there.
ChildSucceeds(mode) ==
  \E report \in Reports :
    disk' = (RawFile(i, Head(todo), mode) :> Profiled(mode, report)) @@ disk

Parsed(contents, name) == IF name \in DOMAIN contents THEN contents[name] ELSE NoMetrics

\* Mutation: the file is read whatever the exit status was.
run_child_unchecked(mode, metrics) ==
  /\ ChildSucceeds(mode) \/ UNCHANGED disk
  /\ metrics = Parsed(disk', RawFile(i, Head(todo), mode))

run_child(mode, metrics) ==
  \/ ChildSucceeds(mode) /\ metrics = Parsed(disk', RawFile(i, Head(todo), mode))
  \/ UNCHANGED disk /\ metrics = NoMetrics

Outcomes(mode) ==
  {NoMetrics, Earlier} \cup {Profiled(mode, r) : r \in Reports}

Train ==
  /\ stage = "training" /\ todo # <<>>
  /\ \E metrics \in Outcomes("training") :
       run_child("training", metrics) /\ training' = metrics
  /\ stage' = "inference"
  /\ UNCHANGED <<points, workloads, native, i, todo, results, nativeResults>>

Infer ==
  /\ stage = "inference"
  /\ \E metrics \in Outcomes("inference") :
       /\ run_child("inference", metrics)
       /\ results' = Append(results, [point |-> points[i], workload |-> Head(todo),
                                      training |-> training, inference |-> metrics])
  /\ stage' = "training" /\ todo' = Tail(todo) /\ training' = NoMetrics
  /\ UNCHANGED <<points, workloads, native, i, nativeResults>>

\* run_native_point: the script runs all workloads, mode by mode, and stops at the
\* first that fails.
ScriptOrder(ws) ==
  FlattenSeq([k \in DOMAIN ws |-> <<NativeFile(i, ws[k], "training"),
                                    NativeFile(i, ws[k], "inference")>>])

NativeRow(w, ran) ==
  [point |-> points[i], workload |-> w,
   training  |-> IF ran THEN Parsed(disk', NativeFile(i, w, "training")) ELSE NoMetrics,
   inference |-> IF ran THEN Parsed(disk', NativeFile(i, w, "inference")) ELSE NoMetrics]

RunNative ==
  /\ stage = "training" /\ todo = <<>> /\ native
  /\ \E done \in 0 .. 2 * Len(workloads), report \in Reports :
       /\ disk' = [f \in {ScriptOrder(workloads)[k] : k \in 1 .. done} |->
                     Profiled(f[4], report)] @@ disk
       /\ nativeResults' =
            nativeResults \o [k \in DOMAIN workloads |->
                                NativeRow(workloads[k], done = 2 * Len(workloads))]
  /\ stage' = "point" /\ i' = i + 1
  /\ UNCHANGED <<points, workloads, native, todo, training, results>>

SkipNative ==
  /\ stage = "training" /\ todo = <<>> /\ ~native
  /\ stage' = "point" /\ i' = i + 1
  /\ UNCHANGED <<points, workloads, native, todo, training, disk, results, nativeResults>>

\* The report, once every point is done.
Finish ==
  /\ stage = "point" /\ i > Len(points)
  /\ stage' = "report"
  /\ UNCHANGED <<points, workloads, native, i, todo, training, disk, results,
                 nativeResults>>

\* A group is ranked by what its focus asks for, and the failed rows come last.
Before(focus, a, b) ==
  \/ a.inference # NoMetrics /\ b.inference = NoMetrics
  \/ /\ NoMetrics \notin {a.inference, b.inference}
     /\ IF focus = "throughput" THEN a.inference.mops > b.inference.mops
        ELSE a.inference.p99 < b.inference.p99

Group(focus, workload) ==
  SortSeq(SelectSeq(results, LAMBDA r : FocusOf(r.point) = focus /\ r.workload = workload),
          LAMBDA a, b : Before(focus, a, b))

NativeGroup(workload) ==
  SortSeq(SelectSeq(nativeResults, LAMBDA r : r.workload = workload),
          LAMBDA a, b : Before("mean", a, b))

\* The baseline of a workload, the last there is, and the rows that are compared to it.
Baselines(rows, workload) ==
  SelectSeq(rows, LAMBDA r : /\ r.point = Defaults /\ r.workload = workload
                             /\ r.inference # NoMetrics)
Compared(rows, r) ==
  /\ r.point # Defaults /\ r.inference # NoMetrics
  /\ Baselines(rows, r.workload) # <<>>
  /\ Last(Baselines(rows, r.workload)).inference.p99 > 0

TsNext == WriteConfig \/ Train \/ Infer \/ RunNative \/ SkipNative \/ Finish

TsSpec == TsInit /\ [][TsNext]_tsVars

\* A row's metrics are none, or were measured in this sweep, under the row's own point,
\* by a child in the row's mode.
Own(row) ==
  /\ row.training # NoMetrics =>
       row.training # Earlier /\ row.training.point = row.point /\ ~row.training.frozen
  /\ row.inference # NoMetrics =>
       row.inference # Earlier /\ row.inference.point = row.point /\ row.inference.frozen

\* A report is about the sweep that wrote it (tune_sweep.rs 223-260, 325-377, 426-544):
\* whatever children fail and whatever an earlier sweep left in the directory, every
\* metric was measured under its row's point; the points are distinct and have one row
\* a workload, unless given up; a group's ranks are those of its metric, with the
\* failed last; and a row is only compared to a baseline of the same workload, the
\* sweep's own, without settings.
SweepIsItsOwn ==
  stage = "report" =>
    /\ \A k \in DOMAIN results : Own(results[k])
    /\ \A k \in DOMAIN nativeResults : Own(nativeResults[k])
    /\ \A a, b \in DOMAIN results :
         a # b => <<results[a].point, results[a].workload>>
                    # <<results[b].point, results[b].workload>>
    /\ \A k \in DOMAIN results :
         LET table == Group(FocusOf(results[k].point), results[k].workload)
         IN  /\ results[k] \in ToSet(table)
             /\ \A a, b \in DOMAIN table :
                  a < b => ~Before(FocusOf(results[k].point), table[b], table[a])
    /\ \A w \in ToSet(workloads) : \A a, b \in DOMAIN NativeGroup(w) :
         a < b => ~Before("mean", NativeGroup(w)[b], NativeGroup(w)[a])
    /\ \A k \in DOMAIN results : Compared(results, results[k]) =>
         \E b \in DOMAIN results : /\ results[b].workload = results[k].workload
                                   /\ results[b].inference # NoMetrics
                                   /\ results[b].inference.point = Defaults

=============================================================================
