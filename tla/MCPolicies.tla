----------------------------- MODULE MCPolicies ------------------------------
(***************************************************************************)
(* TLC instance of the parts of the system that decide, load and report.   *)
(* They share no state: a behaviour explores one of them, its focus,       *)
(* chosen at the start, and the others rest in one state.                  *)
(***************************************************************************)
EXTENDS Lifecycle, LiveServer, ObserverSink, FreezePlan, HistoryContexts,
        TraceReplay, RewardBatches, FrozenRouting, TuneConfig, TLC

CONSTANT
  Earlier

VARIABLES
  focus,
  files, results, waiting, cals, enforce, exit,
  points, workloads, native, current, sweeping, todo, schooled, reportFiles,
  measured, timed,
  job, main, heap, where, parts, turn, got, lists, tree, slots, mail,
  sending, remaining, polled, froze, regime, taken

\* Training: one block, and a latency below the first edge, one between two edges and
\* one beyond the last.
OneSlot == [p \in Blocks |-> 0]
TwoPowers == [b \in 0 .. Buckets |-> 2 ^ b]
WithSlack == [n \in Totals |-> 100]

\* Two sites of one caller, of which one is called with two sizes, each size at
\* one end of the range the slab serves.
Arm4(s, b, y, r) == [Slab |-> s, Buddy |-> b, System |-> y, Arena |-> r]
Contested == [ctx |-> 0, mean |-> Arm4(1, 0, 0, 3), pulls |-> Arm4(2, 2, 0, 2)]

PlanSignatures ==
  {[site |-> "a", class |-> 11], [site |-> "a", class |-> 12],
   [site |-> "b", class |-> 11]}
PlanSubjects == {[site |-> "a", class |-> 11], [site |-> "a", class |-> 12]}
SameLeaf   == [a |-> 1, b |-> 1]
Shallows   == {Contested}
Deeps      == {Contested, [ctx |-> 0, mean |-> Arm4(1, 2, 0, 0),
                           pulls |-> Arm4(1, 2, 0, 1)]}

\* Two sites of one class with a context each, and mixing functions of which some
\* need several displacements or attempts.
OneClass  == [s \in 0 .. 1 |-> 0]
ToSlab    == [c \in 0 .. 0 |-> "Slab"]
Coefficients == <<<<3, 5, 1>>, <<1, 3, 2>>, <<5, 7, 3>>>>
SomeMixes ==
  [x \in 1 .. 3 |-> [p \in AllKeys \X Seeds |->
     (Coefficients[x][1] * p[1] + Coefficients[x][2] * p[2]
        + Coefficients[x][3] * p[1] * p[2]) % Word]]

\* An explicit value before the focus, two focuses of which the first is unknown, a
\* good value before a bad one, and values out of their ranges.
Num(is, n) == [is |-> is, n |-> n, word |-> ""]
Text(w) == [is |-> "word", n |-> 0, word |-> w]
SomeTexts ==
  {<<>>,
   <<<<"frag_weight", Num("part", 50)>>, <<"focus", Text("throughput")>>,
     <<"reward_batch", Num("whole", 0)>>>>,
   <<<<"focus", Text("fast")>>, <<"focus", Text("balanced")>>,
     <<"freeze_after", Num("whole", 500)>>, <<"freeze_after", Text("soon")>>,
     <<"demote_fraction", Num("part", -10)>>, <<"ucb", Num("whole", 100)>>>>,
   <<<<"freeze_mode", Text("converged")>>, <<"clamp_percentile", Num("whole", 10100)>>,
     <<"ucb_c", Num("part", -140)>>, <<"t_ref_ns", Num("whole", 700)>>>>}
SomeEnvirons ==
  {<<>>, [focus |-> Text("balanced"), reward_batch |-> Num("whole", 100)],
   [focus |-> Text("latency"), frag_weight |-> Num("part", 90),
    escalate_variance |-> Text("inf")]}

StripePowers == {2 ^ i : i \in 0 .. 20}

\* A trace with a header, a blank line and placeholders for timestamps, one with a
\* header where none may be, and one with timestamps.
Line(form, ts, op, size) == [form |-> form, ts |-> ts, op |-> op, size |-> size]
SomeTraces ==
  [u1 |-> {<<Line("header", 0, "", 0), Line("op", 0, "alloc", 8),
             Line("op", 1, "alloc", 16), Line("blank", 0, "", 0),
             Line("op", 2, "free", 8)>>,
           <<Line("op", 0, "alloc", 8), Line("header", 0, "", 0)>>},
   u2 |-> {<<Line("op", 50, "alloc", 8), Line("op", 90, "free", 8)>>}]

\* Times of runs whose mean is theirs, with and without ties and outliers, or none.
Run(mean, times) == [mean |-> mean, times |-> times]
Runs == {Run(110, <<>>), Run(100, <<99, 100, 101>>), Run(101, <<99, 101, 103>>),
         Run(110, <<108, 110, 112>>), Run(110, <<60, 101, 169>>)}
File(kind, cal, site, by, under, run, sd) ==
  [kind |-> kind, cal |-> cal, site |-> site, allocator |-> by, mode |-> under,
   mean |-> run.mean, sd |-> sd, times |-> run.times, misses |-> 0, ops |-> 0]
Native(by, under, run) ==
  File("native-timing", FALSE, "go/mt", by, under, run, 4)
Cachegrind(cal, lost, counted) ==
  [File("cachegrind", cal, "go/mt", "lohalloc", "inference", Run(0, <<>>), 0)
     EXCEPT !.misses = lost, !.ops = counted]
SomeDirectories ==
  {{Native("lohalloc", "inference", a), Native("jemalloc", "baseline", b),
    Native("lohalloc", "training", b)} : a, b \in Runs}
  \cup {{[Native("lohalloc", "inference", r) EXCEPT !.cal = TRUE, !.mean = 105],
         Native("lohalloc", "inference", r), Cachegrind(TRUE, 7, 1), Cachegrind(FALSE, n, k),
         File("rss", FALSE, "go/mt", "lohalloc", "training", Run(9, <<>>), 0)}
           : r \in Runs, n \in {5, 9}, k \in {0, 4}}
  \cup {{File("native-timing", FALSE, "system", "lohalloc", "inference", Run(9, <<>>), 0),
         File("native-timing", FALSE, "system", "jemalloc", "baseline", Run(1, <<>>), 0),
         Native("lohalloc", "inference", Run(105, <<>>)),
         Native("jemalloc", "baseline", Run(100, <<>>)),
         Native("jemalloc", "inference", Run(106, <<>>)),
         Native("dlmalloc", "baseline", Run(1, <<>>))}}

Benchmarks == INSTANCE BenchReport WITH
  Directories <- SomeDirectories, MinSamples <- 3, ZSquared <- <<2, 1>>,
  Missing <- Miss, rows <- results, pending <- waiting

\* A grid whose points rank in two groups and with a value that is no array, one with
\* several points in a group, one that is empty, and one whose list is.
SomeSweeps ==
  {[grid |-> <<<<"focus", <<"throughput">>>>, <<"ucb_c", Miss>>>>,
    workloads |-> <<"slab">>, native |-> TRUE],
   [grid |-> <<<<"ucb_c", <<"1.0", "2.0">>>>>>, workloads |-> <<"slab">>, native |-> FALSE],
   [grid |-> <<>>, workloads |-> <<"slab", "buddy">>, native |-> TRUE],
   [grid |-> <<<<"focus", <<>>>>, <<"ucb_c", <<"1.0">>>>>>, workloads |-> <<"slab">>,
    native |-> FALSE]}

Sweep == INSTANCE TuneSweep WITH
  Sweeps <- SomeSweeps, NoList <- Miss, NoMetrics <- Miss,
  Reports <- {[p99 |-> 1, mops |-> 1], [p99 |-> 2, mops |-> 1]},
  i <- current, training <- schooled, stage <- sweeping, results <- measured, nativeResults <- timed,
  disk <- reportFiles

\* Every workload through the driver that uses it, and two threads under a driver
\* that freezes, by count, at convergence, by both or not at all.
Job(w, driver, n, mt) ==
  [workload |-> w, driver |-> driver, ops |-> n, threads |-> mt,
   model |-> "none", env |-> 99, tune |-> 99, converged |-> FALSE, export |-> FALSE]
SomeJobs ==
  {Job(w, "harness", 4, 0) : w \in {"arena", "fill", "exhaust"}}
  \cup {Job(w, "global", 5, 0) : w \in {"slab", "buddy", "adv-mixed", "request-loop",
                                       "phase", "data", "json-tree", "kv-store", "system"}}
  \cup {Job("combo-ba", "global", 2, 0), Job("combo-sa", "harness", 2, 0),
        Job("json-tree", "harness", 5, 0),
        Job("xfree", "global", 3, 2)}
  \cup {[Job(w, "freezing", 6, 2) EXCEPT !.model = m, !.env = e, !.tune = 3,
                                        !.converged = c, !.export = TRUE]
          : w \in {"slab", "interfere"}, m \in {"none", "bad", "good"},
            e \in {0, 2, 99}, c \in BOOLEAN}

Workload == INSTANCE NativeWorkload WITH
  Jobs <- SomeJobs, Workers <- {1, 2}, Blocks <- 1 .. 15, Small <- 1, Big <- 2,
  Window <- 2, Many <- 2, BurstLen <- 2, Bursts <- 2, ChurnLen <- 3, Slow <- 2, Keys <- 1 .. 3,
  Slots <- 3, Probes <- 1, Fanout <- 1, AllocEvery <- 2, DropEvery <- 3, MailLen <- 1,
  PollEvery <- 2, Disabled <- 99,
  stage <- main, pc <- where, live <- lists, open <- sending, polls <- polled, counted <- taken

reportVars ==
  <<files, results, waiting, cals, enforce, exit>>
sweepVars ==
  <<points, workloads, native, current, sweeping, todo, schooled, reportFiles,
  measured, timed>>
workloadVars ==
  <<job, main, heap, where, parts, turn, got, lists, tree, slots, mail,
  sending, remaining, polled, froze, regime, taken>>

vars ==
  <<focus, rtVars, fpVars, frVars, lcVars, liveVars,
  tuneVars, trVars, reportVars, sweepVars, hcVars, rbVars,
  obVars, workloadVars>>

\* The variables of a component that is not the focus are not used, or stay as they
\* may be at its start.
Unused == "unused"

TrainingRests ==
  /\ credited = Zero /\ pending = Zero /\ samples = Zero
  /\ headerless = Unused /\ pulls = Unused /\ learning = Unused /\ track = Unused
  /\ owner = Unused /\ doing = Unused
FreezingRests ==
  /\ trained = <<>> /\ fine = [shallow |-> {}, deep |-> {}] /\ plan = NotFrozen
  /\ setting = [demote |-> FALSE, lifts |-> FALSE, legacy |-> FALSE]
RoutingRests ==
  /\ mixer = 1 /\ rows = [main |-> <<>>, distilled |-> <<>>]
  /\ model = Miss /\ image = Miss /\ damage = "none" /\ loaded = Miss
LifeRests == modelFile = "none" /\ controls = {} /\ LifecycleInit
LiveRests == LiveInit
TuningRests ==
  /\ text = <<>> /\ environ = <<>> /\ override = 0 /\ cpus = 1
  /\ flag = [s \in Watched |-> "unset"]
  /\ TuneInit
ReplayRests == TrInit
BenchmarksRests ==
  /\ files = Unused /\ results = Unused /\ waiting = Unused /\ cals = Unused
  /\ enforce = Unused /\ exit = Unused
SweepRests ==
  /\ points = Unused /\ workloads = Unused /\ native = Unused /\ current = Unused
  /\ sweeping = Unused /\ todo = Unused /\ schooled = Unused /\ reportFiles = Unused
  /\ measured = Unused /\ timed = Unused
HistoryRests == entry = "c" /\ HcInit
BatchesRests == clamp = 0 /\ escalate = FALSE /\ RbInit
ObserverRests == ObInit
WorkloadRests ==
  /\ job = Unused /\ main = Unused /\ heap = Unused /\ where = Unused
  /\ parts = Unused /\ turn = Unused /\ got = Unused /\ lists = Unused
  /\ tree = Unused /\ slots = Unused /\ mail = Unused /\ sending = Unused
  /\ remaining = Unused /\ polled = Unused /\ froze = Unused /\ regime = Unused
  /\ taken = Unused

OthersRest(f) ==
  /\ IF f = "training" THEN TRUE ELSE TrainingRests
  /\ IF f = "freezing" THEN TRUE ELSE FreezingRests
  /\ IF f = "routing" THEN TRUE ELSE RoutingRests
  /\ IF f = "life" THEN TRUE ELSE LifeRests
  /\ IF f = "live" THEN TRUE ELSE LiveRests
  /\ IF f = "tuning" THEN TRUE ELSE TuningRests
  /\ IF f = "replay" THEN TRUE ELSE ReplayRests
  /\ IF f = "report" THEN TRUE ELSE BenchmarksRests
  /\ IF f = "sweep" THEN TRUE ELSE SweepRests
  /\ IF f = "history" THEN TRUE ELSE HistoryRests
  /\ IF f = "batches" THEN TRUE ELSE BatchesRests
  /\ IF f = "observer" THEN TRUE ELSE ObserverRests
  /\ IF f = "workload" THEN TRUE ELSE WorkloadRests

Init ==
  \/ focus = "training" /\ TrainingInit /\ OthersRest(focus)
  \/ focus = "freezing" /\ FpInit /\ OthersRest(focus)
  \/ focus = "routing" /\ FrInit /\ OthersRest(focus)
  \/ focus = "life" /\ LifecycleInit /\ OthersRest(focus)
  \/ focus = "live" /\ LiveInit /\ OthersRest(focus)
  \/ focus = "tuning" /\ TuneInit /\ OthersRest(focus)
  \/ focus = "replay" /\ TrInit /\ OthersRest(focus)
  \/ focus = "report" /\ Benchmarks!BrInit /\ OthersRest(focus)
  \/ focus = "sweep" /\ Sweep!TsInit /\ OthersRest(focus)
  \/ focus = "history" /\ HcInit /\ OthersRest(focus)
  \/ focus = "batches" /\ RbInit /\ OthersRest(focus)
  \/ focus = "observer" /\ ObInit /\ OthersRest(focus)
  \/ focus = "workload" /\ Workload!NwInit /\ OthersRest(focus)

TrainingStep ==
  /\ focus = "training" /\ TrainingNext
  /\ UNCHANGED <<focus, fpVars, frVars, lcVars, liveVars,
                  tuneVars, trVars, reportVars, sweepVars, hcVars,
                  rbVars, obVars, workloadVars>>

FreezingStep ==
  /\ focus = "freezing" /\ FreezePolicy
  /\ UNCHANGED <<focus, rtVars, frVars, lcVars, liveVars,
                  tuneVars, trVars, reportVars, sweepVars, hcVars,
                  rbVars, obVars, workloadVars>>

RoutingStep ==
  /\ focus = "routing" /\ FrNext
  /\ UNCHANGED <<focus, rtVars, fpVars, lcVars, liveVars,
                  tuneVars, trVars, reportVars, sweepVars, hcVars,
                  rbVars, obVars, workloadVars>>

LifeStep ==
  /\ focus = "life" /\ LifecycleNext
  /\ UNCHANGED <<focus, rtVars, fpVars, frVars, liveVars,
                  tuneVars, trVars, reportVars, sweepVars, hcVars,
                  rbVars, obVars, workloadVars>>

LiveStep ==
  /\ focus = "live" /\ LiveNext
  /\ UNCHANGED <<focus, rtVars, fpVars, frVars, lcVars,
                  tuneVars, trVars, reportVars, sweepVars, hcVars,
                  rbVars, obVars, workloadVars>>

TuningStep ==
  /\ focus = "tuning" /\ TuneNext
  /\ UNCHANGED <<focus, rtVars, fpVars, frVars, lcVars,
                  liveVars, trVars, reportVars, sweepVars, hcVars,
                  rbVars, obVars, workloadVars>>

ReplayStep ==
  /\ focus = "replay" /\ TrNext
  /\ UNCHANGED <<focus, rtVars, fpVars, frVars, lcVars,
                  liveVars, tuneVars, reportVars, sweepVars, hcVars,
                  rbVars, obVars, workloadVars>>

BenchmarksStep ==
  /\ focus = "report" /\ Benchmarks!BrNext
  /\ UNCHANGED <<focus, rtVars, fpVars, frVars, lcVars,
                  liveVars, tuneVars, trVars, sweepVars, hcVars,
                  rbVars, obVars, workloadVars>>

SweepStep ==
  /\ focus = "sweep" /\ Sweep!TsNext
  /\ UNCHANGED <<focus, rtVars, fpVars, frVars, lcVars,
                  liveVars, tuneVars, trVars, reportVars, hcVars,
                  rbVars, obVars, workloadVars>>

HistoryStep ==
  /\ focus = "history" /\ HcNext
  /\ UNCHANGED <<focus, rtVars, fpVars, frVars, lcVars,
                  liveVars, tuneVars, trVars, reportVars, sweepVars,
                  rbVars, obVars, workloadVars>>

BatchesStep ==
  /\ focus = "batches" /\ RbNext
  /\ UNCHANGED <<focus, rtVars, fpVars, frVars, lcVars,
                  liveVars, tuneVars, trVars, reportVars, sweepVars,
                  hcVars, obVars, workloadVars>>

ObserverStep ==
  /\ focus = "observer" /\ ObNext
  /\ UNCHANGED <<focus, rtVars, fpVars, frVars, lcVars,
                  liveVars, tuneVars, trVars, reportVars, sweepVars,
                  hcVars, rbVars, workloadVars>>

WorkloadStep ==
  /\ focus = "workload" /\ Workload!NwNext
  /\ UNCHANGED <<focus, rtVars, fpVars, frVars, lcVars,
                  liveVars, tuneVars, trVars, reportVars, sweepVars,
                  hcVars, rbVars, obVars>>

Next ==
  \/ TrainingStep
  \/ FreezingStep
  \/ RoutingStep
  \/ LifeStep
  \/ LiveStep
  \/ TuningStep
  \/ ReplayStep
  \/ BenchmarksStep
  \/ SweepStep
  \/ HistoryStep
  \/ BatchesStep
  \/ ObserverStep
  \/ WorkloadStep

Spec == Init /\ [][Next]_vars

ReportTells == focus = "report" => Benchmarks!ReportTells
SweepIsItsOwn == focus = "sweep" => Sweep!SweepIsItsOwn
WorkloadSound == focus = "workload" => Workload!WorkloadSound

=============================================================================
