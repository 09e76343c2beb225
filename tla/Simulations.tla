----------------------------- MODULE Simulations -----------------------------
(***************************************************************************)
(* The simulations the live server runs (server.rs and simulation.rs): the *)
(* run, stop and kill-all requests, the registry of running processes, and *)
(* the watcher task of each simulation, which polls its process and reaps  *)
(* it or kills it at its deadline.                                         *)
(*                                                                         *)
(* Before the server ends it kills what is registered (main.rs), twice on   *)
(* a clean exit, once on one that is forced while it drains.               *)
(*                                                                         *)
(* Requests and watchers run on several threads and meet in the registry   *)
(* (one mutex) and in the handle of a child (an async mutex held over      *)
(* awaits).  A simulation stands for its pid: pids are not reused.         *)
(***************************************************************************)
EXTENDS Integers, FiniteSets

CONSTANTS
  Sims,        \* simulations that may be asked for
  Operators,   \* stop and kill-all requests under way at once
  MaxStops     \* bound: stop and kill-all requests

VARIABLES
  phase,      \* of the process: new, running, gone, reaped
  run,        \* where the run request of a simulation is
  registered, \* AppState.simulations
  killed,     \* SimulationHandle.killed_by_operator
  holder,     \* who holds the handle's child mutex
  watcher,    \* where the watcher of a simulation is
  operator,   \* where a request is, its target, what is left of its list
  reports,    \* who has pushed a final event of a simulation
  stops,      \* requests so far
  server      \* serving, killing, draining, reaping; exited or forced

simVars == <<phase, run, registered, killed, holder, watcher, operator, reports,
             stops, server>>

Main   == "main"             \* the task of main, which kills all like a request
Killers == Operators \cup {Main}

ASSUME MainApart == Main \notin Operators

Nobody == "nobody"
NoSim  == "no simulation"
AtRest == [at |-> "idle", sim |-> NoSim, all |-> FALSE, left |-> {}, done |-> {}]

SimTypeOK ==
  /\ phase \in [Sims -> {"new", "running", "gone", "reaped"}]
  /\ run \in [Sims -> {"idle", "register", "watch", "answered", "failed"}]
  /\ registered \subseteq Sims /\ killed \in [Sims -> BOOLEAN]
  /\ holder \in [Sims -> {Nobody, "watcher"} \cup Killers]
  /\ watcher \in [Sims -> {"none", "look", "kill", "killed", "poll", "flag", "tail",
                           "report", "unregister", "sleep", "done"}]
  /\ operator \in [Killers -> [at: {"idle", "next", "flag", "lock", "kind", "remove",
                                  "report"},
                              sim: Sims \cup {NoSim}, all: BOOLEAN,
                              left: SUBSET Sims, done: SUBSET Sims]]
  /\ reports \in [Sims -> SUBSET {"watcher", "operator"}]
  /\ server \in {"serving", "killing", "draining", "reaping", "exited", "forced"}

SimInit ==
  /\ phase = [s \in Sims |-> "new"] /\ run = [s \in Sims |-> "idle"]
  /\ registered = {} /\ killed = [s \in Sims |-> FALSE]
  /\ holder = [s \in Sims |-> Nobody] /\ watcher = [s \in Sims |-> "none"]
  /\ operator = [o \in Killers |-> AtRest]
  /\ reports = [s \in Sims |-> {}] /\ stops = 0 /\ server = "serving"

Put(f, x, v) == [f EXCEPT ![x] = v]

(***************************************************************************)
(* run_simulation_handler.                                                 *)
(***************************************************************************)

\* No shim, no binary, no known port, or a failed spawn: the request is refused.
Refuse(s) ==
  /\ run[s] = "idle" /\ run' = Put(run, s, "failed")
  /\ UNCHANGED <<phase, registered, killed, holder, watcher, operator, reports,
                 stops, server>>

Spawn(s) ==
  /\ run[s] = "idle" /\ run' = Put(run, s, "register")
  /\ phase' = Put(phase, s, "running")
  /\ UNCHANGED <<registered, killed, holder, watcher, operator, reports, stops, server>>

Register(s) ==
  /\ run[s] = "register" /\ run' = Put(run, s, "watch")
  /\ registered' = registered \cup {s}
  /\ UNCHANGED <<phase, killed, holder, watcher, operator, reports, stops, server>>

\* The watcher starts after the "started" event.
Watch(s) ==
  /\ run[s] = "watch" /\ run' = Put(run, s, "answered")
  /\ watcher' = Put(watcher, s, "look")
  /\ UNCHANGED <<phase, registered, killed, holder, operator, reports, stops, server>>

(***************************************************************************)
(* spawn_simulation_watcher.                                               *)
(***************************************************************************)

Watches(s, from, to) == watcher[s] = from /\ watcher' = Put(watcher, s, to)

\* The handle is looked up, then the deadline is tested; a passed deadline sets
\* the flag before the process is killed.
Look(s) ==
  /\ \/ s \notin registered /\ Watches(s, "look", "done") /\ UNCHANGED killed
     \/ s \in registered /\ Watches(s, "look", "poll") /\ UNCHANGED killed
     \/ s \in registered /\ Watches(s, "look", "kill")
        /\ killed' = Put(killed, s, TRUE)
  /\ UNCHANGED <<phase, run, registered, holder, operator, reports, stops, server>>

\* SIGKILL to the process group.
Signal(s) == phase' = Put(phase, s, IF phase[s] = "running" THEN "gone" ELSE phase[s])

KillAtDeadline(s) ==
  /\ holder[s] = Nobody /\ Watches(s, "kill", "killed") /\ Signal(s)
  /\ UNCHANGED <<run, registered, killed, holder, operator, reports, stops, server>>

\* try_wait reaps a process that has ended.
Poll(s) ==
  /\ holder[s] = Nobody
  /\ IF phase[s] = "running"
     THEN Watches(s, "poll", "sleep") /\ UNCHANGED phase
     ELSE Watches(s, "poll", "flag") /\ phase' = Put(phase, s, "reaped")
  /\ UNCHANGED <<run, registered, killed, holder, operator, reports, stops, server>>

TestFlag(s) ==
  /\ Watches(s, "flag", IF killed[s] THEN "done" ELSE "tail")
  /\ UNCHANGED <<phase, run, registered, killed, holder, operator, reports, stops, server>>

\* read_child_stdout_tail holds the child over a blocking read.
ReadTail(s) ==
  /\ watcher[s] = "tail"
  /\ \/ holder[s] = Nobody /\ holder' = Put(holder, s, "watcher")
        /\ UNCHANGED watcher
     \/ holder[s] = "watcher" /\ holder' = Put(holder, s, Nobody)
        /\ Watches(s, "tail", "report")
  /\ UNCHANGED <<phase, run, registered, killed, operator, reports, stops, server>>

Report(s) ==
  /\ Watches(s, "killed", "unregister") \/ Watches(s, "report", "unregister")
  /\ reports' = Put(reports, s, reports[s] \cup {"watcher"})
  /\ UNCHANGED <<phase, run, registered, killed, holder, operator, stops, server>>

\* Mutation: the watcher leaves the entry of a finished simulation.
UnregisterNever(s) ==
  /\ Watches(s, "unregister", "done")
  /\ UNCHANGED <<phase, run, registered, killed, holder, operator, reports, stops, server>>

Unregister(s) ==
  /\ Watches(s, "unregister", "done")
  /\ registered' = registered \ {s}
  /\ UNCHANGED <<phase, run, killed, holder, operator, reports, stops, server>>

\* A heartbeat, unless the simulation is gone from the registry.
Sleep(s) ==
  /\ Watches(s, "sleep", IF s \in registered THEN "look" ELSE "done")
  /\ UNCHANGED <<phase, run, registered, killed, holder, operator, reports, stops, server>>

(***************************************************************************)
(* stop_simulation_handler and kill_all_simulations_handler.               *)
(***************************************************************************)

To(o, s) == [operator EXCEPT ![o].at = s]
Works(all, left) == [at |-> "next", sim |-> NoSim, all |-> all, left |-> left, done |-> {}]

AskKill(o) ==
  /\ operator[o] = AtRest /\ stops < MaxStops /\ stops' = stops + 1
  /\ \/ \E s \in Sims : operator' = Put(operator, o, Works(FALSE, {s}))
     \/ operator' = Put(operator, o, Works(TRUE, registered))
  /\ UNCHANGED <<phase, run, registered, killed, holder, watcher, reports, server>>

\* kill_simulation of the next pid, which may be gone by now.
Take(o) ==
  /\ operator[o].at = "next"
  /\ \E s \in operator[o].left :
       operator' =
         IF s \in registered
         THEN [operator EXCEPT ![o].at = "flag", ![o].sim = s, ![o].left = @ \ {s}]
         ELSE IF operator[o].all THEN [operator EXCEPT ![o].left = @ \ {s}]
         ELSE Put(operator, o, AtRest)
  /\ UNCHANGED <<phase, run, registered, killed, holder, watcher, reports, stops, server>>

SetFlag(o) ==
  /\ operator[o].at = "flag" /\ operator' = To(o, "lock")
  /\ killed' = Put(killed, operator[o].sim, TRUE)
  /\ UNCHANGED <<phase, run, registered, holder, watcher, reports, stops, server>>

\* The child stays locked until kill_simulation returns.
Kill(o) ==
  /\ operator[o].at = "lock" /\ holder[operator[o].sim] = Nobody
  /\ holder' = Put(holder, operator[o].sim, o)
  /\ Signal(operator[o].sim) /\ operator' = To(o, "kind")
  /\ UNCHANGED <<run, registered, killed, watcher, reports, stops, server>>

\* Mutation: only a kill-all remembers what it killed.
KindForAllOnly(o) ==
  /\ operator[o].at = "kind"
  /\ operator' = [operator EXCEPT ![o].at = "remove",
       ![o].done = IF operator[o].all THEN @ \cup {operator[o].sim} ELSE @]
  /\ UNCHANGED <<phase, run, registered, killed, holder, watcher, reports, stops, server>>

\* The kind is read, then the entry removed; only who read one reports.
Kind(o) ==
  /\ operator[o].at = "kind"
  /\ operator' = [operator EXCEPT ![o].at = "remove",
                                 ![o].done = @ \cup ({operator[o].sim} \cap registered)]
  /\ UNCHANGED <<phase, run, registered, killed, holder, watcher, reports, stops, server>>

RemoveEntry(o) ==
  /\ operator[o].at = "remove"
  /\ registered' = registered \ {operator[o].sim}
  /\ holder' = Put(holder, operator[o].sim, Nobody)
  /\ operator' = To(o, IF operator[o].all THEN "next" ELSE "report")
  /\ UNCHANGED <<phase, run, killed, watcher, reports, stops, server>>

\* One event of the simulation stopped, or one for all that were killed.
ReportKills(o) ==
  /\ \/ operator[o].at = "report"
     \/ operator[o].at = "next" /\ operator[o].left = {}
  /\ reports' = [s \in Sims |-> reports[s] \cup
                   IF s \in operator[o].done THEN {"operator"} ELSE {}]
  /\ operator' = Put(operator, o, AtRest)
  /\ UNCHANGED <<phase, run, registered, killed, holder, watcher, stops, server>>

\* The process ends by itself.
Ends(s) ==
  /\ phase[s] = "running" /\ phase' = Put(phase, s, "gone")
  /\ UNCHANGED <<run, registered, killed, holder, watcher, operator, reports,
                 stops, server>>

\* The panic hook signals every registered process and leaves the rest to the
\* watchers; if the registry is locked at that moment it does nothing.
PanicTrap ==
  /\ stops < MaxStops /\ stops' = stops + 1
  /\ phase' = [s \in Sims |-> IF s \in registered /\ phase[s] = "running"
                             THEN "gone" ELSE phase[s]]
  /\ UNCHANGED <<run, registered, killed, holder, watcher, operator, reports, server>>

(***************************************************************************)
(* main and shutdown_signal.                                               *)
(***************************************************************************)

Goes(from, to) == server = from /\ server' = to

MainKills == operator' = Put(operator, Main, Works(TRUE, registered))

MainKilled ==
  /\ operator[Main].at = "next" /\ operator[Main].left = {}
  /\ operator' = Put(operator, Main, AtRest)

\* SIGINT or SIGTERM; connections are accepted until the kill-all is done.
Trap ==
  /\ Goes("serving", "killing") /\ MainKills
  /\ UNCHANGED <<phase, run, registered, killed, holder, watcher, reports, stops>>

\* Requests in flight go on, and a timer runs.
Drain ==
  /\ Goes("killing", "draining") /\ MainKilled
  /\ UNCHANGED <<phase, run, registered, killed, holder, watcher, reports, stops>>

InFlight ==
  \/ \E s \in Sims : run[s] \in {"register", "watch"}
  \/ \E o \in Operators : operator[o] # AtRest

\* serve returns, and main kills what came since.
ReapRest ==
  /\ Goes("draining", "reaping") /\ ~InFlight /\ MainKills
  /\ UNCHANGED <<phase, run, registered, killed, holder, watcher, reports, stops>>

ExitClean ==
  /\ Goes("reaping", "exited") /\ MainKilled
  /\ UNCHANGED <<phase, run, registered, killed, holder, watcher, reports, stops>>

ForceExit ==
  /\ server \in {"draining", "reaping"} /\ server' = "forced"
  /\ UNCHANGED <<phase, run, registered, killed, holder, watcher, operator, reports,
                 stops>>

Up      == server \notin {"exited", "forced"}
Accepts == server \in {"serving", "killing", "draining"}

RequestNext(s) == Up /\ (Register(s) \/ Watch(s))

WatcherNext(s) ==
  /\ Up
  /\ \/ KillAtDeadline(s) \/ Poll(s) \/ TestFlag(s) \/ ReadTail(s) \/ Report(s)
     \/ Unregister(s) \/ Sleep(s) \/ Look(s)

KillerNext(o) == Up /\ (Take(o) \/ SetFlag(o) \/ Kill(o) \/ Kind(o) \/ RemoveEntry(o))

SimNext ==
  \/ \E s \in Sims : \/ Accepts /\ (Refuse(s) \/ Spawn(s))
                     \/ RequestNext(s) \/ WatcherNext(s) \/ Ends(s)
  \/ \E o \in Operators : (Accepts /\ AskKill(o)) \/ (Up /\ ReportKills(o))
  \/ \E o \in Killers : KillerNext(o)
  \/ Up /\ PanicTrap
  \/ Trap \/ Drain \/ ReapRest \/ ExitClean \/ ForceExit

\* Requests and tasks go on, and a watcher that looks again and again finds the
\* deadline passed some time.
SimFair ==
  /\ \A s \in Sims : /\ WF_simVars(RequestNext(s)) /\ WF_simVars(WatcherNext(s))
                     /\ SF_simVars(Up /\ Look(s) /\ watcher'[s] = "kill")
                     /\ SF_simVars(Up /\ KillAtDeadline(s)) /\ SF_simVars(Up /\ Poll(s))
  /\ \A o \in Operators : WF_simVars(Up /\ ReportKills(o))
  /\ \A o \in Killers : WF_simVars(KillerNext(o)) /\ SF_simVars(Up /\ Kill(o))
  /\ WF_simVars(Drain \/ ExitClean)

SimSpec == SimInit /\ [][SimNext]_simVars /\ SimFair

\* A clean exit leaves no process behind, although requests start simulations while
\* the first kill-all runs and while the connections drain ("so no simulation is left
\* running").
ExitLeavesNone == server = "exited" => \A s \in Sims : phase[s] # "running"

\* Once its watcher has left and no request works on it, a simulation is dead, off
\* the registry and, unless the server is shutting down, has had a final event:
\* whichever of the watcher, a stop and a kill-all comes first, none relies on
\* another to do what nobody does.  And no process outlives a clean exit.
EndIsReported ==
  /\ \A s \in Sims :
       watcher[s] = "done" /\ (\A o \in Killers : operator[o] = AtRest) =>
         /\ s \notin registered /\ phase[s] \in {"gone", "reaped"}
         /\ server = "serving" => reports[s] # {}
  /\ ExitLeavesNone

\* A simulation that runs ends and leaves the registry, by itself, at the deadline or
\* with the server, unless the server is forced to exit ("prevents zombie processes
\* from hanging indefinitely").
SimulationsEnd ==
  \A s \in Sims : phase[s] = "running" ~>
    (phase[s] # "running" /\ s \notin registered) \/ server = "forced"

\* "Don't emit a duplicate."
OneReport == \A s \in Sims : Cardinality(reports[s]) <= 1

\* "Reap every child before we exit", forced or not.
NoneLeftRunning == ~Up => \A s \in Sims : phase[s] # "running"

=============================================================================
