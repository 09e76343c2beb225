---------------------------- MODULE PolicyProofs ----------------------------
(***************************************************************************)
(* Proofs about the policy's side: the process from model load to freeze,  *)
(* the allocation history, the plan of a freeze, the live server, the      *)
(* observer sink, the replay of traces, the evidence training gathers, the *)
(* frozen routing table and what a process takes from its environment.     *)
(* Each part has an inductive invariant of its own; none uses another's.   *)
(***************************************************************************)
EXTENDS Lifecycle, LiveServer, ObserverSink, FreezePlan, HistoryContexts,
        TraceReplay, RewardBatches, FrozenRouting, TuneConfig, Arithmetic,
        SequenceTheorems, TLAPS

-----------------------------------------------------------------------------
(***************************************************************************)
(* Lifecycle.  Proofs about Lifecycle, for any number of threads, any      *)
(* threshold and polling interval, and every set of control calls:         *)
(* LoadedFirst and FreezesAndExports hold in every reachable state.        *)
(*                                                                         *)
(* Neither is inductive.  Who runs the body of the once-cell and who holds *)
(* the policy state can be read off where a thread is (OnceHeld,           *)
(* LockHeld), and so can both depth counters (DepthExact): that is why     *)
(* nested calls bypass, and why every malloc of the program passes the     *)
(* once-cell. After it, a readable model is in force (LoadedOnce).  A      *)
(* state that is frozen stays so, which leaves one exporter                *)
(* (ExportsAlone), and, without control calls, one freezer, who meets a    *)
(* state in training (FreezesAlone).                                       *)
(***************************************************************************)

\* What a thread waits for the policy state for, or holds it for.
Within(t, reason) == at[t] \in {"wait", "locked"} /\ why[t] = reason

\* The thread that runs the body of the once-cell.
Loading(t) == at[t] \in {"boot", "booted"} \/ (Within(t, "load") /\ call[t] = "malloc")

\* A thread that is going to freeze the policy state, and one that has.
Freezing(t)  == at[t] = "freeze" \/ Within(t, "freeze")
Exporting(t) == at[t] \in {"published", "export", "write", "rename"}
                \/ Within(t, "export")

\* The calls a thread may be in, by where it is.
Places(t) ==
  /\ at[t] = "idle" <=> call[t] = "none"
  /\ at[t] \in {"once", "boot", "booted", "alloc", "auto", "swap"} => call[t] = "malloc"
  /\ Freezing(t) \/ Exporting(t) => call[t] \in {"malloc", "freeze"}
  /\ at[t] \in {"wait", "locked"} => why[t] # "none"
  /\ Within(t, "route") \/ Within(t, "poll") => call[t] = "malloc"
  /\ Within(t, "record") => call[t] \in {"malloc", "free"}
  /\ Within(t, "load") => call[t] \in {"malloc", "load_model"}
  /\ bumped[t] => call[t] = "free"
  /\ call[t] \in {"freeze", "load_model"} => call[t] \in controls
PlacesOK == \A t \in Callers : Places(t)

\* Both depth counters are what the place of the thread says.
Depth(t) ==
  IF Loading(t) THEN (IF at[t] \in {"boot", "booted"} THEN 1 ELSE 2)
  ELSE IF at[t] \in {"wait", "locked"}
  THEN (IF why[t] = "record" /\ call[t] = "malloc" THEN 2 ELSE 1)
  ELSE 0
DepthExact ==
  \A t \in Callers :
    /\ inAlloc[t] = Depth(t)
    /\ exportDepth[t] = IF call[t] \in {"malloc", "freeze"} \/ bumped[t] THEN 1 ELSE 0

\* The once-cell and the lock are with the thread that is in them.
OnceHeld == \A t \in Callers : once = t <=> Loading(t)
LockHeld == \A t \in Callers : stateLock = t => at[t] = "locked"

\* A malloc that is past the once-cell finds it done, and then a readable model is
\* in force.
LoadedOnce ==
  /\ \A t \in Callers :
       call[t] = "malloc" => at[t] = "once" \/ Loading(t) \/ once = "done"
  /\ modelFile = "good" /\ once = "done" => mode = "inference" /\ table /\ fired
  /\ \A t \in Callers : at[t] = "booted" => mode = "inference" /\ table
  /\ \A t \in Callers :
       modelFile = "good" => ~Within(t, "route")
  /\ \A t \in Callers : Within(t, "load") /\ call[t] = "malloc" => modelFile = "good"

\* A frozen flag stands for a frozen state and its table.
FrozenSound ==
  /\ frozen => table /\ mode = "inference"
  /\ table => mode = "inference"

\* One thread exports, and what it renames is whole.
ExportsAlone ==
  /\ \A t \in Callers : Exporting(t) => mode = "inference" /\ table
  /\ \A t, u \in Callers : Exporting(t) /\ Exporting(u) => t = u
  /\ \A t \in Callers : at[t] = "rename" => tmp = "whole"
  /\ file # "part"

\* Without control calls one thread freezes, and finds a state in training.
FreezesAlone ==
  controls = {} =>
    /\ process # "aborted"
    /\ \A t \in Callers : Freezing(t) => fired /\ mode = "training"
    /\ \A t, u \in Callers : Freezing(t) /\ Freezing(u) => t = u
    /\ mode = "inference" => fired \/ \E t \in Callers : at[t] = "booted"

LifecycleInv ==
  /\ LifecycleTypeOK /\ PlacesOK /\ DepthExact /\ OnceHeld /\ LockHeld
  /\ LoadedOnce /\ FrozenSound /\ ExportsAlone /\ FreezesAlone

-----------------------------------------------------------------------------
(* Every step keeps every part.                                             *)

\* A step keeps the types.
LEMMA LifecycleTypeOKStep ==
  ASSUME CallersApart, LifecycleInv, LifecycleNext PROVE LifecycleTypeOK'
  <1>h. LifecycleTypeOK /\ PlacesOK /\ DepthExact
    BY DEF LifecycleInv
  <1>0. CASE Crash
    BY <1>0, <1>h
    DEF Crash, tls, policyState, counters, disk, frame, program, Depth, DepthExact,
        Exporting, Freezing, LifecycleTypeOK, Loading, Places, PlacesOK, Within
  <1>1. ASSUME NEW t \in Callers, Malloc(t) PROVE LifecycleTypeOK'
    BY <1>1, <1>h, CallersApart
    DEF Malloc, Begin, Here, Set, Go, tls, policyState, counters, disk, frame, program,
        Depth, DepthExact, Exporting, Freezing, LifecycleTypeOK, Loading, Places, PlacesOK,
        Within
  <1>2. ASSUME NEW t \in Callers, NEW counted \in BOOLEAN, Free(t, counted) PROVE LifecycleTypeOK'
    BY <1>2, <1>h, CallersApart
    DEF Free, Begin, Here, Set, Go, GuardThenLock, Deeper, tls, policyState, counters, disk,
        frame, program, Depth, DepthExact, Exporting, Freezing, LifecycleTypeOK, Loading,
        Places, PlacesOK, Within
  <1>3. ASSUME NEW t \in Callers, ExplicitFreeze(t) PROVE LifecycleTypeOK'
    BY <1>3, <1>h, CallersApart
    DEF ExplicitFreeze, Begin, Here, Set, Go, tls, policyState, counters, disk, frame,
        program, Depth, DepthExact, Exporting, Freezing, LifecycleTypeOK, Loading, Places,
        PlacesOK, Within
  <1>4. ASSUME NEW t \in Callers, LoadModel(t) PROVE LifecycleTypeOK'
    BY <1>4, <1>h, CallersApart
    DEF LoadModel, Begin, Here, Set, Go, GuardThenLock, Deeper, tls, policyState, counters,
        disk, frame, program, Depth, DepthExact, Exporting, Freezing, LifecycleTypeOK,
        Loading, Places, PlacesOK, Within
  <1>5. ASSUME NEW t \in Callers, EnsureModelLoaded(t) PROVE LifecycleTypeOK'
    BY <1>5, <1>h, CallersApart
    DEF EnsureModelLoaded, Here, Go, Deeper, tls, policyState, counters, disk, frame,
        program, Depth, DepthExact, Exporting, Freezing, LifecycleTypeOK, Loading, Places,
        PlacesOK, Within
  <1>6. ASSUME NEW t \in Callers, Boot(t) PROVE LifecycleTypeOK'
    BY <1>6, <1>h, CallersApart
    DEF Boot, Here, Go, GuardThenLock, Deeper, Shallower, Set, tls, policyState, counters,
        disk, frame, program, Depth, DepthExact, Exporting, Freezing, LifecycleTypeOK,
        Loading, Places, PlacesOK, Within
  <1>7. ASSUME NEW t \in Callers, Booted(t) PROVE LifecycleTypeOK'
    BY <1>7, <1>h, CallersApart
    DEF Booted, Here, Go, Shallower, tls, policyState, counters, disk, frame, program,
        Depth, DepthExact, Exporting, Freezing, LifecycleTypeOK, Loading, Places, PlacesOK,
        Within
  <1>8. ASSUME NEW t \in Callers, Alloc(t) PROVE LifecycleTypeOK'
    BY <1>8, <1>h, CallersApart
    DEF Alloc, Here, Go, GuardThenLock, Deeper, Set, tls, policyState, counters, disk,
        frame, program, Depth, DepthExact, Exporting, Freezing, LifecycleTypeOK, Loading,
        Places, PlacesOK, Within
  <1>9. ASSUME NEW t \in Callers, Lock(t) PROVE LifecycleTypeOK'
    BY <1>9, <1>h, CallersApart
    DEF Lock, Here, Go, tls, policyState, counters, disk, frame, program, Depth, DepthExact,
        Exporting, Freezing, LifecycleTypeOK, Loading, Places, PlacesOK, Within
  <1>10. ASSUME NEW t \in Callers, Route(t) PROVE LifecycleTypeOK'
    BY <1>10, <1>h, CallersApart
    DEF Route, Unlock, Here, Go, GuardThenLock, Deeper, Shallower, Set, tls, policyState,
        counters, disk, frame, program, Depth, DepthExact, Exporting, Freezing,
        LifecycleTypeOK, Loading, Places, PlacesOK, Within
  <1>11. ASSUME NEW t \in Callers, Record(t) PROVE LifecycleTypeOK'
    BY <1>11, <1>h, CallersApart
    DEF Record, Unlock, Here, Go, Set, tls, policyState, counters, disk, frame, program,
        Depth, DepthExact, Exporting, Freezing, LifecycleTypeOK, Loading, Places, PlacesOK,
        Within
  <1>12. ASSUME NEW t \in Callers, Load(t) PROVE LifecycleTypeOK'
    BY <1>12, <1>h, CallersApart
    DEF Load, Unlock, Here, Go, Shallower, tls, policyState, counters, disk, frame, program,
        Depth, DepthExact, Exporting, Freezing, LifecycleTypeOK, Loading, Places, PlacesOK,
        Within
  <1>13. ASSUME NEW t \in Callers, FreezeState(t) PROVE LifecycleTypeOK'
    <2>1. CASE mode = "inference"
      BY <1>13, <2>1, <1>h
      DEF FreezeState, Unlock, Here, Go, Shallower, tls, policyState, counters, disk, frame,
          program, Depth, DepthExact, Exporting, Freezing, LifecycleTypeOK, Loading, Places,
          PlacesOK, Within
    <2>2. CASE mode # "inference"
      <3>1. inAlloc[t] = 1
        BY <1>13, <1>h
        DEF FreezeState, Unlock, Here, Go, Shallower, tls, policyState, counters, disk,
            frame, program, Depth, DepthExact, Exporting, Freezing, LifecycleTypeOK,
            Loading, Places, PlacesOK, Within
      <3> QED BY <1>13, <2>2, <3>1, <1>h
              DEF FreezeState, Unlock, Here, Go, Shallower, tls, policyState, counters,
                  disk, frame, program, Depth, DepthExact, Exporting, Freezing,
                  LifecycleTypeOK, Loading, Places, PlacesOK, Within
    <2> QED BY <2>1, <2>2
  <1>14. ASSUME NEW t \in Callers, Published(t) PROVE LifecycleTypeOK'
    BY <1>14, <1>h, CallersApart
    DEF Published, Here, Go, tls, policyState, counters, disk, frame, program, Depth,
        DepthExact, Exporting, Freezing, LifecycleTypeOK, Loading, Places, PlacesOK, Within
  <1>15. ASSUME NEW t \in Callers, Poll(t) PROVE LifecycleTypeOK'
    BY <1>15, <1>h, CallersApart
    DEF Poll, Unlock, Here, Go, Shallower, tls, policyState, counters, disk, frame, program,
        Depth, DepthExact, Exporting, Freezing, LifecycleTypeOK, Loading, Places, PlacesOK,
        Within
  <1>16. ASSUME NEW t \in Callers, AutoFreeze(t) PROVE LifecycleTypeOK'
    BY <1>16, <1>h, CallersApart
    DEF AutoFreeze, Here, Go, GuardThenLock, Deeper, Set, OpsHit, tls, policyState,
        counters, disk, frame, program, Depth, DepthExact, Exporting, Freezing,
        LifecycleTypeOK, Loading, Places, PlacesOK, Within
  <1>17. ASSUME NEW t \in Callers, Swap(t) PROVE LifecycleTypeOK'
    BY <1>17, <1>h, CallersApart
    DEF Swap, Here, Go, tls, policyState, counters, disk, frame, program, Depth, DepthExact,
        Exporting, Freezing, LifecycleTypeOK, Loading, Places, PlacesOK, Within
  <1>18. ASSUME NEW t \in Callers, Freeze(t) PROVE LifecycleTypeOK'
    BY <1>18, <1>h, CallersApart
    DEF Freeze, Here, Go, GuardThenLock, Deeper, Set, tls, policyState, counters, disk,
        frame, program, Depth, DepthExact, Exporting, Freezing, LifecycleTypeOK, Loading,
        Places, PlacesOK, Within
  <1>19. ASSUME NEW t \in Callers, Export(t) PROVE LifecycleTypeOK'
    BY <1>19, <1>h, CallersApart
    DEF Export, Here, Go, GuardThenLock, Deeper, Set, tls, policyState, counters, disk,
        frame, program, Depth, DepthExact, Exporting, Freezing, LifecycleTypeOK, Loading,
        Places, PlacesOK, Within
  <1>20. ASSUME NEW t \in Callers, Serialize(t) PROVE LifecycleTypeOK'
    BY <1>20, <1>h, CallersApart
    DEF Serialize, Unlock, Here, Go, Shallower, tls, policyState, counters, disk, frame,
        program, Depth, DepthExact, Exporting, Freezing, LifecycleTypeOK, Loading, Places,
        PlacesOK, Within
  <1>21. ASSUME NEW t \in Callers, WriteTmp(t) PROVE LifecycleTypeOK'
    BY <1>21, <1>h, CallersApart
    DEF WriteTmp, Here, Go, tls, policyState, counters, disk, frame, program, Depth,
        DepthExact, Exporting, Freezing, LifecycleTypeOK, Loading, Places, PlacesOK, Within
  <1>22. ASSUME NEW t \in Callers, Rename(t) PROVE LifecycleTypeOK'
    BY <1>22, <1>h, CallersApart
    DEF Rename, Here, Go, tls, policyState, counters, disk, frame, program, Depth,
        DepthExact, Exporting, Freezing, LifecycleTypeOK, Loading, Places, PlacesOK, Within
  <1>23. ASSUME NEW t \in Callers, Leave(t) PROVE LifecycleTypeOK'
    BY <1>23, <1>h, CallersApart
    DEF Leave, Here, Go, Set, tls, policyState, counters, disk, frame, program, Depth,
        DepthExact, Exporting, Freezing, LifecycleTypeOK, Loading, Places, PlacesOK, Within
  <1> QED
    BY <1>0, <1>1, <1>2, <1>3, <1>4, <1>5, <1>6, <1>7, <1>8, <1>9, <1>10, <1>11, <1>12,
       <1>13, <1>14, <1>15, <1>16, <1>17, <1>18, <1>19, <1>20, <1>21, <1>22, <1>23
    DEF LifecycleNext

\* A step takes a thread to a place its call may be in.
LEMMA PlacesOKStep ==
  ASSUME CallersApart, LifecycleInv, LifecycleNext PROVE PlacesOK'
  <1>h. LifecycleTypeOK /\ PlacesOK
    BY DEF LifecycleInv
  <1>0. CASE Crash
    BY <1>0, <1>h
    DEF Crash, tls, policyState, counters, disk, frame, program, Exporting, Freezing,
        LifecycleTypeOK, Places, PlacesOK, Within
  <1>1. ASSUME NEW t \in Callers, Malloc(t) PROVE PlacesOK'
    BY <1>1, <1>h, CallersApart
    DEF Malloc, Begin, Here, Set, Go, tls, policyState, counters, disk, frame, program,
        Exporting, Freezing, LifecycleTypeOK, Places, PlacesOK, Within
  <1>2. ASSUME NEW t \in Callers, NEW counted \in BOOLEAN, Free(t, counted) PROVE PlacesOK'
    BY <1>2, <1>h, CallersApart
    DEF Free, Begin, Here, Set, Go, GuardThenLock, Deeper, tls, policyState, counters, disk,
        frame, program, Exporting, Freezing, LifecycleTypeOK, Places, PlacesOK, Within
  <1>3. ASSUME NEW t \in Callers, ExplicitFreeze(t) PROVE PlacesOK'
    BY <1>3, <1>h, CallersApart
    DEF ExplicitFreeze, Begin, Here, Set, Go, tls, policyState, counters, disk, frame,
        program, Exporting, Freezing, LifecycleTypeOK, Places, PlacesOK, Within
  <1>4. ASSUME NEW t \in Callers, LoadModel(t) PROVE PlacesOK'
    BY <1>4, <1>h, CallersApart
    DEF LoadModel, Begin, Here, Set, Go, GuardThenLock, Deeper, tls, policyState, counters,
        disk, frame, program, Exporting, Freezing, LifecycleTypeOK, Places, PlacesOK, Within
  <1>5. ASSUME NEW t \in Callers, EnsureModelLoaded(t) PROVE PlacesOK'
    BY <1>5, <1>h, CallersApart
    DEF EnsureModelLoaded, Here, Go, Deeper, tls, policyState, counters, disk, frame,
        program, Exporting, Freezing, LifecycleTypeOK, Places, PlacesOK, Within
  <1>6. ASSUME NEW t \in Callers, Boot(t) PROVE PlacesOK'
    BY <1>6, <1>h, CallersApart
    DEF Boot, Here, Go, GuardThenLock, Deeper, Shallower, Set, tls, policyState, counters,
        disk, frame, program, Exporting, Freezing, LifecycleTypeOK, Places, PlacesOK, Within
  <1>7. ASSUME NEW t \in Callers, Booted(t) PROVE PlacesOK'
    BY <1>7, <1>h, CallersApart
    DEF Booted, Here, Go, Shallower, tls, policyState, counters, disk, frame, program,
        Exporting, Freezing, LifecycleTypeOK, Places, PlacesOK, Within
  <1>8. ASSUME NEW t \in Callers, Alloc(t) PROVE PlacesOK'
    BY <1>8, <1>h, CallersApart
    DEF Alloc, Here, Go, GuardThenLock, Deeper, Set, tls, policyState, counters, disk,
        frame, program, Exporting, Freezing, LifecycleTypeOK, Places, PlacesOK, Within
  <1>9. ASSUME NEW t \in Callers, Lock(t) PROVE PlacesOK'
    BY <1>9, <1>h, CallersApart
    DEF Lock, Here, Go, tls, policyState, counters, disk, frame, program, Exporting,
        Freezing, LifecycleTypeOK, Places, PlacesOK, Within
  <1>10. ASSUME NEW t \in Callers, Route(t) PROVE PlacesOK'
    BY <1>10, <1>h, CallersApart
    DEF Route, Unlock, Here, Go, GuardThenLock, Deeper, Shallower, Set, tls, policyState,
        counters, disk, frame, program, Exporting, Freezing, LifecycleTypeOK, Places,
        PlacesOK, Within
  <1>11. ASSUME NEW t \in Callers, Record(t) PROVE PlacesOK'
    BY <1>11, <1>h, CallersApart
    DEF Record, Unlock, Here, Go, Set, tls, policyState, counters, disk, frame, program,
        Exporting, Freezing, LifecycleTypeOK, Places, PlacesOK, Within
  <1>12. ASSUME NEW t \in Callers, Load(t) PROVE PlacesOK'
    BY <1>12, <1>h, CallersApart
    DEF Load, Unlock, Here, Go, Shallower, tls, policyState, counters, disk, frame, program,
        Exporting, Freezing, LifecycleTypeOK, Places, PlacesOK, Within
  <1>13. ASSUME NEW t \in Callers, FreezeState(t) PROVE PlacesOK'
    BY <1>13, <1>h, CallersApart
    DEF FreezeState, Unlock, Here, Go, Shallower, tls, policyState, counters, disk, frame,
        program, Exporting, Freezing, LifecycleTypeOK, Places, PlacesOK, Within
  <1>14. ASSUME NEW t \in Callers, Published(t) PROVE PlacesOK'
    BY <1>14, <1>h, CallersApart
    DEF Published, Here, Go, tls, policyState, counters, disk, frame, program, Exporting,
        Freezing, LifecycleTypeOK, Places, PlacesOK, Within
  <1>15. ASSUME NEW t \in Callers, Poll(t) PROVE PlacesOK'
    BY <1>15, <1>h, CallersApart
    DEF Poll, Unlock, Here, Go, Shallower, tls, policyState, counters, disk, frame, program,
        Exporting, Freezing, LifecycleTypeOK, Places, PlacesOK, Within
  <1>16. ASSUME NEW t \in Callers, AutoFreeze(t) PROVE PlacesOK'
    BY <1>16, <1>h, CallersApart
    DEF AutoFreeze, Here, Go, GuardThenLock, Deeper, Set, OpsHit, tls, policyState,
        counters, disk, frame, program, Exporting, Freezing, LifecycleTypeOK, Places,
        PlacesOK, Within
  <1>17. ASSUME NEW t \in Callers, Swap(t) PROVE PlacesOK'
    BY <1>17, <1>h, CallersApart
    DEF Swap, Here, Go, tls, policyState, counters, disk, frame, program, Exporting,
        Freezing, LifecycleTypeOK, Places, PlacesOK, Within
  <1>18. ASSUME NEW t \in Callers, Freeze(t) PROVE PlacesOK'
    BY <1>18, <1>h, CallersApart
    DEF Freeze, Here, Go, GuardThenLock, Deeper, Set, tls, policyState, counters, disk,
        frame, program, Exporting, Freezing, LifecycleTypeOK, Places, PlacesOK, Within
  <1>19. ASSUME NEW t \in Callers, Export(t) PROVE PlacesOK'
    BY <1>19, <1>h, CallersApart
    DEF Export, Here, Go, GuardThenLock, Deeper, Set, tls, policyState, counters, disk,
        frame, program, Exporting, Freezing, LifecycleTypeOK, Places, PlacesOK, Within
  <1>20. ASSUME NEW t \in Callers, Serialize(t) PROVE PlacesOK'
    BY <1>20, <1>h, CallersApart
    DEF Serialize, Unlock, Here, Go, Shallower, tls, policyState, counters, disk, frame,
        program, Exporting, Freezing, LifecycleTypeOK, Places, PlacesOK, Within
  <1>21. ASSUME NEW t \in Callers, WriteTmp(t) PROVE PlacesOK'
    BY <1>21, <1>h, CallersApart
    DEF WriteTmp, Here, Go, tls, policyState, counters, disk, frame, program, Exporting,
        Freezing, LifecycleTypeOK, Places, PlacesOK, Within
  <1>22. ASSUME NEW t \in Callers, Rename(t) PROVE PlacesOK'
    BY <1>22, <1>h, CallersApart
    DEF Rename, Here, Go, tls, policyState, counters, disk, frame, program, Exporting,
        Freezing, LifecycleTypeOK, Places, PlacesOK, Within
  <1>23. ASSUME NEW t \in Callers, Leave(t) PROVE PlacesOK'
    BY <1>23, <1>h, CallersApart
    DEF Leave, Here, Go, Set, tls, policyState, counters, disk, frame, program, Exporting,
        Freezing, LifecycleTypeOK, Places, PlacesOK, Within
  <1> QED
    BY <1>0, <1>1, <1>2, <1>3, <1>4, <1>5, <1>6, <1>7, <1>8, <1>9, <1>10, <1>11, <1>12,
       <1>13, <1>14, <1>15, <1>16, <1>17, <1>18, <1>19, <1>20, <1>21, <1>22, <1>23
    DEF LifecycleNext

\* Each step that enters or leaves a nested call moves the counter with it.
LEMMA DepthExactStep ==
  ASSUME CallersApart, LifecycleInv, LifecycleNext PROVE DepthExact'
  <1>h. LifecycleTypeOK /\ PlacesOK /\ DepthExact
    BY DEF LifecycleInv
  <1>0. CASE Crash
    BY <1>0, <1>h
    DEF Crash, tls, policyState, counters, disk, frame, program, Depth, DepthExact,
        Exporting, Freezing, LifecycleTypeOK, Loading, Places, PlacesOK, Within
  <1>1. ASSUME NEW t \in Callers, Malloc(t) PROVE DepthExact'
    BY <1>1, <1>h, CallersApart
    DEF Malloc, Begin, Here, Set, Go, tls, policyState, counters, disk, frame, program,
        Depth, DepthExact, Exporting, Freezing, LifecycleTypeOK, Loading, Places, PlacesOK,
        Within
  <1>2. ASSUME NEW t \in Callers, NEW counted \in BOOLEAN, Free(t, counted) PROVE DepthExact'
    <2>1. inAlloc[t] = 0 /\ exportDepth[t] = 0
      BY <1>2, <1>h
      DEF Free, Begin, Here, Set, Go, GuardThenLock, Deeper, tls, policyState, counters,
          disk, frame, program, Depth, DepthExact, Exporting, Freezing, LifecycleTypeOK,
          Loading, Places, PlacesOK, Within
    <2>2. exportDepth' = [exportDepth EXCEPT ![t] = IF fired THEN 0 ELSE 1]
      BY <1>2, <2>1, <1>h
      DEF Free, Begin, Here, Set, Go, GuardThenLock, Deeper, tls, policyState, counters,
          disk, frame, program, Depth, DepthExact, Exporting, Freezing, LifecycleTypeOK,
          Loading, Places, PlacesOK, Within
    <2>3. /\ call' = [call EXCEPT ![t] = "free"] /\ bumped' = [bumped EXCEPT ![t] = ~fired]
          /\ ~Loading(t)
      BY <1>2, <1>h
      DEF Free, Begin, Here, Set, Go, GuardThenLock, Deeper, tls, policyState, counters,
          disk, frame, program, Depth, DepthExact, Exporting, Freezing, LifecycleTypeOK,
          Loading, Places, PlacesOK, Within
    <2>4. CASE counted /\ ~frozen
      <3>1. /\ inAlloc' = [inAlloc EXCEPT ![t] = 1] /\ at' = [at EXCEPT ![t] = "wait"]
            /\ why' = [why EXCEPT ![t] = "record"]
        BY <1>2, <2>1, <2>4, <1>h
        DEF Free, Begin, Here, Set, Go, GuardThenLock, Deeper, tls, policyState, counters,
            disk, frame, program, Depth, DepthExact, Exporting, Freezing, LifecycleTypeOK,
            Loading, Places, PlacesOK, Within
      <3>2. inAlloc'[t] = Depth(t)'
        BY <2>3, <3>1, <1>h DEF Depth, Loading, Within, LifecycleTypeOK
      <3>3. \A u \in Callers \ {t} : inAlloc'[u] = inAlloc[u] /\ Depth(u)' = Depth(u)
        BY <2>3, <3>1, <1>h DEF Depth, Loading, Within, LifecycleTypeOK
      <3> QED BY <2>2, <2>3, <3>2, <3>3, <1>h DEF DepthExact, LifecycleTypeOK
    <2>5. CASE ~(counted /\ ~frozen)
      <3>1. UNCHANGED <<inAlloc, why>> /\ at' = [at EXCEPT ![t] = "leave"]
        BY <1>2, <2>5, <1>h
        DEF Free, Begin, Here, Set, Go, GuardThenLock, Deeper, tls, policyState, counters,
            disk, frame, program, Depth, DepthExact, Exporting, Freezing, LifecycleTypeOK,
            Loading, Places, PlacesOK, Within
      <3>2. \A u \in Callers : Depth(u)' = Depth(u)
        BY <1>2, <2>3, <3>1, <1>h DEF Depth, Loading, Within, LifecycleTypeOK, Free,
           Begin, Here
      <3> QED BY <2>2, <2>3, <3>1, <3>2, <1>h DEF DepthExact, LifecycleTypeOK
    <2> QED BY <2>4, <2>5
  <1>3. ASSUME NEW t \in Callers, ExplicitFreeze(t) PROVE DepthExact'
    BY <1>3, <1>h, CallersApart
    DEF ExplicitFreeze, Begin, Here, Set, Go, tls, policyState, counters, disk, frame,
        program, Depth, DepthExact, Exporting, Freezing, LifecycleTypeOK, Loading, Places,
        PlacesOK, Within
  <1>4. ASSUME NEW t \in Callers, LoadModel(t) PROVE DepthExact'
    BY <1>4, <1>h, CallersApart
    DEF LoadModel, Begin, Here, Set, Go, GuardThenLock, Deeper, tls, policyState, counters,
        disk, frame, program, Depth, DepthExact, Exporting, Freezing, LifecycleTypeOK,
        Loading, Places, PlacesOK, Within
  <1>5. ASSUME NEW t \in Callers, EnsureModelLoaded(t) PROVE DepthExact'
    BY <1>5, <1>h, CallersApart
    DEF EnsureModelLoaded, Here, Go, Deeper, tls, policyState, counters, disk, frame,
        program, Depth, DepthExact, Exporting, Freezing, LifecycleTypeOK, Loading, Places,
        PlacesOK, Within
  <1>6. ASSUME NEW t \in Callers, Boot(t) PROVE DepthExact'
    BY <1>6, <1>h, CallersApart
    DEF Boot, Here, Go, GuardThenLock, Deeper, Shallower, Set, tls, policyState, counters,
        disk, frame, program, Depth, DepthExact, Exporting, Freezing, LifecycleTypeOK,
        Loading, Places, PlacesOK, Within
  <1>7. ASSUME NEW t \in Callers, Booted(t) PROVE DepthExact'
    BY <1>7, <1>h, CallersApart
    DEF Booted, Here, Go, Shallower, tls, policyState, counters, disk, frame, program,
        Depth, DepthExact, Exporting, Freezing, LifecycleTypeOK, Loading, Places, PlacesOK,
        Within
  <1>8. ASSUME NEW t \in Callers, Alloc(t) PROVE DepthExact'
    BY <1>8, <1>h, CallersApart
    DEF Alloc, Here, Go, GuardThenLock, Deeper, Set, tls, policyState, counters, disk,
        frame, program, Depth, DepthExact, Exporting, Freezing, LifecycleTypeOK, Loading,
        Places, PlacesOK, Within
  <1>9. ASSUME NEW t \in Callers, Lock(t) PROVE DepthExact'
    BY <1>9, <1>h, CallersApart
    DEF Lock, Here, Go, tls, policyState, counters, disk, frame, program, Depth, DepthExact,
        Exporting, Freezing, LifecycleTypeOK, Loading, Places, PlacesOK, Within
  <1>10. ASSUME NEW t \in Callers, Route(t) PROVE DepthExact'
    BY <1>10, <1>h, CallersApart
    DEF Route, Unlock, Here, Go, GuardThenLock, Deeper, Shallower, Set, tls, policyState,
        counters, disk, frame, program, Depth, DepthExact, Exporting, Freezing,
        LifecycleTypeOK, Loading, Places, PlacesOK, Within
  <1>11. ASSUME NEW t \in Callers, Record(t) PROVE DepthExact'
    BY <1>11, <1>h, CallersApart
    DEF Record, Unlock, Here, Go, Set, tls, policyState, counters, disk, frame, program,
        Depth, DepthExact, Exporting, Freezing, LifecycleTypeOK, Loading, Places, PlacesOK,
        Within
  <1>12. ASSUME NEW t \in Callers, Load(t) PROVE DepthExact'
    BY <1>12, <1>h, CallersApart
    DEF Load, Unlock, Here, Go, Shallower, tls, policyState, counters, disk, frame, program,
        Depth, DepthExact, Exporting, Freezing, LifecycleTypeOK, Loading, Places, PlacesOK,
        Within
  <1>13. ASSUME NEW t \in Callers, FreezeState(t) PROVE DepthExact'
    BY <1>13, <1>h, CallersApart
    DEF FreezeState, Unlock, Here, Go, Shallower, tls, policyState, counters, disk, frame,
        program, Depth, DepthExact, Exporting, Freezing, LifecycleTypeOK, Loading, Places,
        PlacesOK, Within
  <1>14. ASSUME NEW t \in Callers, Published(t) PROVE DepthExact'
    BY <1>14, <1>h, CallersApart
    DEF Published, Here, Go, tls, policyState, counters, disk, frame, program, Depth,
        DepthExact, Exporting, Freezing, LifecycleTypeOK, Loading, Places, PlacesOK, Within
  <1>15. ASSUME NEW t \in Callers, Poll(t) PROVE DepthExact'
    BY <1>15, <1>h, CallersApart
    DEF Poll, Unlock, Here, Go, Shallower, tls, policyState, counters, disk, frame, program,
        Depth, DepthExact, Exporting, Freezing, LifecycleTypeOK, Loading, Places, PlacesOK,
        Within
  <1>16. ASSUME NEW t \in Callers, AutoFreeze(t) PROVE DepthExact'
    BY <1>16, <1>h, CallersApart
    DEF AutoFreeze, Here, Go, GuardThenLock, Deeper, Set, OpsHit, tls, policyState,
        counters, disk, frame, program, Depth, DepthExact, Exporting, Freezing,
        LifecycleTypeOK, Loading, Places, PlacesOK, Within
  <1>17. ASSUME NEW t \in Callers, Swap(t) PROVE DepthExact'
    BY <1>17, <1>h, CallersApart
    DEF Swap, Here, Go, tls, policyState, counters, disk, frame, program, Depth, DepthExact,
        Exporting, Freezing, LifecycleTypeOK, Loading, Places, PlacesOK, Within
  <1>18. ASSUME NEW t \in Callers, Freeze(t) PROVE DepthExact'
    BY <1>18, <1>h, CallersApart
    DEF Freeze, Here, Go, GuardThenLock, Deeper, Set, tls, policyState, counters, disk,
        frame, program, Depth, DepthExact, Exporting, Freezing, LifecycleTypeOK, Loading,
        Places, PlacesOK, Within
  <1>19. ASSUME NEW t \in Callers, Export(t) PROVE DepthExact'
    BY <1>19, <1>h, CallersApart
    DEF Export, Here, Go, GuardThenLock, Deeper, Set, tls, policyState, counters, disk,
        frame, program, Depth, DepthExact, Exporting, Freezing, LifecycleTypeOK, Loading,
        Places, PlacesOK, Within
  <1>20. ASSUME NEW t \in Callers, Serialize(t) PROVE DepthExact'
    BY <1>20, <1>h, CallersApart
    DEF Serialize, Unlock, Here, Go, Shallower, tls, policyState, counters, disk, frame,
        program, Depth, DepthExact, Exporting, Freezing, LifecycleTypeOK, Loading, Places,
        PlacesOK, Within
  <1>21. ASSUME NEW t \in Callers, WriteTmp(t) PROVE DepthExact'
    BY <1>21, <1>h, CallersApart
    DEF WriteTmp, Here, Go, tls, policyState, counters, disk, frame, program, Depth,
        DepthExact, Exporting, Freezing, LifecycleTypeOK, Loading, Places, PlacesOK, Within
  <1>22. ASSUME NEW t \in Callers, Rename(t) PROVE DepthExact'
    BY <1>22, <1>h, CallersApart
    DEF Rename, Here, Go, tls, policyState, counters, disk, frame, program, Depth,
        DepthExact, Exporting, Freezing, LifecycleTypeOK, Loading, Places, PlacesOK, Within
  <1>23. ASSUME NEW t \in Callers, Leave(t) PROVE DepthExact'
    BY <1>23, <1>h, CallersApart
    DEF Leave, Here, Go, Set, tls, policyState, counters, disk, frame, program, Depth,
        DepthExact, Exporting, Freezing, LifecycleTypeOK, Loading, Places, PlacesOK, Within
  <1> QED
    BY <1>0, <1>1, <1>2, <1>3, <1>4, <1>5, <1>6, <1>7, <1>8, <1>9, <1>10, <1>11, <1>12,
       <1>13, <1>14, <1>15, <1>16, <1>17, <1>18, <1>19, <1>20, <1>21, <1>22, <1>23
    DEF LifecycleNext

\* The once-cell is taken and left with its body.
LEMMA OnceHeldStep ==
  ASSUME CallersApart, LifecycleInv, LifecycleNext PROVE OnceHeld'
  <1>h. LifecycleTypeOK /\ PlacesOK /\ OnceHeld
    BY DEF LifecycleInv
  <1>0. CASE Crash
    BY <1>0, <1>h
    DEF Crash, tls, policyState, counters, disk, frame, program, Exporting, Freezing,
        LifecycleTypeOK, Loading, OnceHeld, Places, PlacesOK, Within
  <1>1. ASSUME NEW t \in Callers, Malloc(t) PROVE OnceHeld'
    BY <1>1, <1>h, CallersApart
    DEF Malloc, Begin, Here, Set, Go, tls, policyState, counters, disk, frame, program,
        Exporting, Freezing, LifecycleTypeOK, Loading, OnceHeld, Places, PlacesOK, Within
  <1>2. ASSUME NEW t \in Callers, NEW counted \in BOOLEAN, Free(t, counted) PROVE OnceHeld'
    BY <1>2, <1>h, CallersApart
    DEF Free, Begin, Here, Set, Go, GuardThenLock, Deeper, tls, policyState, counters, disk,
        frame, program, Exporting, Freezing, LifecycleTypeOK, Loading, OnceHeld, Places,
        PlacesOK, Within
  <1>3. ASSUME NEW t \in Callers, ExplicitFreeze(t) PROVE OnceHeld'
    BY <1>3, <1>h, CallersApart
    DEF ExplicitFreeze, Begin, Here, Set, Go, tls, policyState, counters, disk, frame,
        program, Exporting, Freezing, LifecycleTypeOK, Loading, OnceHeld, Places, PlacesOK,
        Within
  <1>4. ASSUME NEW t \in Callers, LoadModel(t) PROVE OnceHeld'
    BY <1>4, <1>h, CallersApart
    DEF LoadModel, Begin, Here, Set, Go, GuardThenLock, Deeper, tls, policyState, counters,
        disk, frame, program, Exporting, Freezing, LifecycleTypeOK, Loading, OnceHeld,
        Places, PlacesOK, Within
  <1>5. ASSUME NEW t \in Callers, EnsureModelLoaded(t) PROVE OnceHeld'
    BY <1>5, <1>h, CallersApart
    DEF EnsureModelLoaded, Here, Go, Deeper, tls, policyState, counters, disk, frame,
        program, Exporting, Freezing, LifecycleTypeOK, Loading, OnceHeld, Places, PlacesOK,
        Within
  <1>6. ASSUME NEW t \in Callers, Boot(t) PROVE OnceHeld'
    BY <1>6, <1>h, CallersApart
    DEF Boot, Here, Go, GuardThenLock, Deeper, Shallower, Set, tls, policyState, counters,
        disk, frame, program, Exporting, Freezing, LifecycleTypeOK, Loading, OnceHeld,
        Places, PlacesOK, Within
  <1>7. ASSUME NEW t \in Callers, Booted(t) PROVE OnceHeld'
    BY <1>7, <1>h, CallersApart
    DEF Booted, Here, Go, Shallower, tls, policyState, counters, disk, frame, program,
        Exporting, Freezing, LifecycleTypeOK, Loading, OnceHeld, Places, PlacesOK, Within
  <1>8. ASSUME NEW t \in Callers, Alloc(t) PROVE OnceHeld'
    BY <1>8, <1>h, CallersApart
    DEF Alloc, Here, Go, GuardThenLock, Deeper, Set, tls, policyState, counters, disk,
        frame, program, Exporting, Freezing, LifecycleTypeOK, Loading, OnceHeld, Places,
        PlacesOK, Within
  <1>9. ASSUME NEW t \in Callers, Lock(t) PROVE OnceHeld'
    BY <1>9, <1>h, CallersApart
    DEF Lock, Here, Go, tls, policyState, counters, disk, frame, program, Exporting,
        Freezing, LifecycleTypeOK, Loading, OnceHeld, Places, PlacesOK, Within
  <1>10. ASSUME NEW t \in Callers, Route(t) PROVE OnceHeld'
    BY <1>10, <1>h, CallersApart
    DEF Route, Unlock, Here, Go, GuardThenLock, Deeper, Shallower, Set, tls, policyState,
        counters, disk, frame, program, Exporting, Freezing, LifecycleTypeOK, Loading,
        OnceHeld, Places, PlacesOK, Within
  <1>11. ASSUME NEW t \in Callers, Record(t) PROVE OnceHeld'
    BY <1>11, <1>h, CallersApart
    DEF Record, Unlock, Here, Go, Set, tls, policyState, counters, disk, frame, program,
        Exporting, Freezing, LifecycleTypeOK, Loading, OnceHeld, Places, PlacesOK, Within
  <1>12. ASSUME NEW t \in Callers, Load(t) PROVE OnceHeld'
    BY <1>12, <1>h, CallersApart
    DEF Load, Unlock, Here, Go, Shallower, tls, policyState, counters, disk, frame, program,
        Exporting, Freezing, LifecycleTypeOK, Loading, OnceHeld, Places, PlacesOK, Within
  <1>13. ASSUME NEW t \in Callers, FreezeState(t) PROVE OnceHeld'
    BY <1>13, <1>h, CallersApart
    DEF FreezeState, Unlock, Here, Go, Shallower, tls, policyState, counters, disk, frame,
        program, Exporting, Freezing, LifecycleTypeOK, Loading, OnceHeld, Places, PlacesOK,
        Within
  <1>14. ASSUME NEW t \in Callers, Published(t) PROVE OnceHeld'
    BY <1>14, <1>h, CallersApart
    DEF Published, Here, Go, tls, policyState, counters, disk, frame, program, Exporting,
        Freezing, LifecycleTypeOK, Loading, OnceHeld, Places, PlacesOK, Within
  <1>15. ASSUME NEW t \in Callers, Poll(t) PROVE OnceHeld'
    BY <1>15, <1>h, CallersApart
    DEF Poll, Unlock, Here, Go, Shallower, tls, policyState, counters, disk, frame, program,
        Exporting, Freezing, LifecycleTypeOK, Loading, OnceHeld, Places, PlacesOK, Within
  <1>16. ASSUME NEW t \in Callers, AutoFreeze(t) PROVE OnceHeld'
    BY <1>16, <1>h, CallersApart
    DEF AutoFreeze, Here, Go, GuardThenLock, Deeper, Set, OpsHit, tls, policyState,
        counters, disk, frame, program, Exporting, Freezing, LifecycleTypeOK, Loading,
        OnceHeld, Places, PlacesOK, Within
  <1>17. ASSUME NEW t \in Callers, Swap(t) PROVE OnceHeld'
    BY <1>17, <1>h, CallersApart
    DEF Swap, Here, Go, tls, policyState, counters, disk, frame, program, Exporting,
        Freezing, LifecycleTypeOK, Loading, OnceHeld, Places, PlacesOK, Within
  <1>18. ASSUME NEW t \in Callers, Freeze(t) PROVE OnceHeld'
    BY <1>18, <1>h, CallersApart
    DEF Freeze, Here, Go, GuardThenLock, Deeper, Set, tls, policyState, counters, disk,
        frame, program, Exporting, Freezing, LifecycleTypeOK, Loading, OnceHeld, Places,
        PlacesOK, Within
  <1>19. ASSUME NEW t \in Callers, Export(t) PROVE OnceHeld'
    BY <1>19, <1>h, CallersApart
    DEF Export, Here, Go, GuardThenLock, Deeper, Set, tls, policyState, counters, disk,
        frame, program, Exporting, Freezing, LifecycleTypeOK, Loading, OnceHeld, Places,
        PlacesOK, Within
  <1>20. ASSUME NEW t \in Callers, Serialize(t) PROVE OnceHeld'
    BY <1>20, <1>h, CallersApart
    DEF Serialize, Unlock, Here, Go, Shallower, tls, policyState, counters, disk, frame,
        program, Exporting, Freezing, LifecycleTypeOK, Loading, OnceHeld, Places, PlacesOK,
        Within
  <1>21. ASSUME NEW t \in Callers, WriteTmp(t) PROVE OnceHeld'
    BY <1>21, <1>h, CallersApart
    DEF WriteTmp, Here, Go, tls, policyState, counters, disk, frame, program, Exporting,
        Freezing, LifecycleTypeOK, Loading, OnceHeld, Places, PlacesOK, Within
  <1>22. ASSUME NEW t \in Callers, Rename(t) PROVE OnceHeld'
    BY <1>22, <1>h, CallersApart
    DEF Rename, Here, Go, tls, policyState, counters, disk, frame, program, Exporting,
        Freezing, LifecycleTypeOK, Loading, OnceHeld, Places, PlacesOK, Within
  <1>23. ASSUME NEW t \in Callers, Leave(t) PROVE OnceHeld'
    BY <1>23, <1>h, CallersApart
    DEF Leave, Here, Go, Set, tls, policyState, counters, disk, frame, program, Exporting,
        Freezing, LifecycleTypeOK, Loading, OnceHeld, Places, PlacesOK, Within
  <1> QED
    BY <1>0, <1>1, <1>2, <1>3, <1>4, <1>5, <1>6, <1>7, <1>8, <1>9, <1>10, <1>11, <1>12,
       <1>13, <1>14, <1>15, <1>16, <1>17, <1>18, <1>19, <1>20, <1>21, <1>22, <1>23
    DEF LifecycleNext

\* The lock is taken and left with the place of the thread.
LEMMA LockHeldStep ==
  ASSUME CallersApart, LifecycleInv, LifecycleNext PROVE LockHeld'
  <1>h. LifecycleTypeOK /\ LockHeld
    BY DEF LifecycleInv
  <1>0. CASE Crash
    BY <1>0, <1>h
    DEF Crash, tls, policyState, counters, disk, frame, program, LifecycleTypeOK, LockHeld
  <1>1. ASSUME NEW t \in Callers, Malloc(t) PROVE LockHeld'
    BY <1>1, <1>h, CallersApart
    DEF Malloc, Begin, Here, Set, Go, tls, policyState, counters, disk, frame, program,
        LifecycleTypeOK, LockHeld
  <1>2. ASSUME NEW t \in Callers, NEW counted \in BOOLEAN, Free(t, counted) PROVE LockHeld'
    BY <1>2, <1>h, CallersApart
    DEF Free, Begin, Here, Set, Go, GuardThenLock, Deeper, tls, policyState, counters, disk,
        frame, program, LifecycleTypeOK, LockHeld
  <1>3. ASSUME NEW t \in Callers, ExplicitFreeze(t) PROVE LockHeld'
    BY <1>3, <1>h, CallersApart
    DEF ExplicitFreeze, Begin, Here, Set, Go, tls, policyState, counters, disk, frame,
        program, LifecycleTypeOK, LockHeld
  <1>4. ASSUME NEW t \in Callers, LoadModel(t) PROVE LockHeld'
    BY <1>4, <1>h, CallersApart
    DEF LoadModel, Begin, Here, Set, Go, GuardThenLock, Deeper, tls, policyState, counters,
        disk, frame, program, LifecycleTypeOK, LockHeld
  <1>5. ASSUME NEW t \in Callers, EnsureModelLoaded(t) PROVE LockHeld'
    BY <1>5, <1>h, CallersApart
    DEF EnsureModelLoaded, Here, Go, Deeper, tls, policyState, counters, disk, frame,
        program, LifecycleTypeOK, LockHeld
  <1>6. ASSUME NEW t \in Callers, Boot(t) PROVE LockHeld'
    BY <1>6, <1>h, CallersApart
    DEF Boot, Here, Go, GuardThenLock, Deeper, Shallower, Set, tls, policyState, counters,
        disk, frame, program, LifecycleTypeOK, LockHeld
  <1>7. ASSUME NEW t \in Callers, Booted(t) PROVE LockHeld'
    BY <1>7, <1>h, CallersApart
    DEF Booted, Here, Go, Shallower, tls, policyState, counters, disk, frame, program,
        LifecycleTypeOK, LockHeld
  <1>8. ASSUME NEW t \in Callers, Alloc(t) PROVE LockHeld'
    BY <1>8, <1>h, CallersApart
    DEF Alloc, Here, Go, GuardThenLock, Deeper, Set, tls, policyState, counters, disk,
        frame, program, LifecycleTypeOK, LockHeld
  <1>9. ASSUME NEW t \in Callers, Lock(t) PROVE LockHeld'
    BY <1>9, <1>h, CallersApart
    DEF Lock, Here, Go, tls, policyState, counters, disk, frame, program, LifecycleTypeOK,
        LockHeld
  <1>10. ASSUME NEW t \in Callers, Route(t) PROVE LockHeld'
    BY <1>10, <1>h, CallersApart
    DEF Route, Unlock, Here, Go, GuardThenLock, Deeper, Shallower, Set, tls, policyState,
        counters, disk, frame, program, LifecycleTypeOK, LockHeld
  <1>11. ASSUME NEW t \in Callers, Record(t) PROVE LockHeld'
    BY <1>11, <1>h, CallersApart
    DEF Record, Unlock, Here, Go, Set, tls, policyState, counters, disk, frame, program,
        LifecycleTypeOK, LockHeld
  <1>12. ASSUME NEW t \in Callers, Load(t) PROVE LockHeld'
    BY <1>12, <1>h, CallersApart
    DEF Load, Unlock, Here, Go, Shallower, tls, policyState, counters, disk, frame, program,
        LifecycleTypeOK, LockHeld
  <1>13. ASSUME NEW t \in Callers, FreezeState(t) PROVE LockHeld'
    BY <1>13, <1>h, CallersApart
    DEF FreezeState, Unlock, Here, Go, Shallower, tls, policyState, counters, disk, frame,
        program, LifecycleTypeOK, LockHeld
  <1>14. ASSUME NEW t \in Callers, Published(t) PROVE LockHeld'
    BY <1>14, <1>h, CallersApart
    DEF Published, Here, Go, tls, policyState, counters, disk, frame, program,
        LifecycleTypeOK, LockHeld
  <1>15. ASSUME NEW t \in Callers, Poll(t) PROVE LockHeld'
    BY <1>15, <1>h, CallersApart
    DEF Poll, Unlock, Here, Go, Shallower, tls, policyState, counters, disk, frame, program,
        LifecycleTypeOK, LockHeld
  <1>16. ASSUME NEW t \in Callers, AutoFreeze(t) PROVE LockHeld'
    BY <1>16, <1>h, CallersApart
    DEF AutoFreeze, Here, Go, GuardThenLock, Deeper, Set, OpsHit, tls, policyState,
        counters, disk, frame, program, LifecycleTypeOK, LockHeld
  <1>17. ASSUME NEW t \in Callers, Swap(t) PROVE LockHeld'
    BY <1>17, <1>h, CallersApart
    DEF Swap, Here, Go, tls, policyState, counters, disk, frame, program, LifecycleTypeOK,
        LockHeld
  <1>18. ASSUME NEW t \in Callers, Freeze(t) PROVE LockHeld'
    BY <1>18, <1>h, CallersApart
    DEF Freeze, Here, Go, GuardThenLock, Deeper, Set, tls, policyState, counters, disk,
        frame, program, LifecycleTypeOK, LockHeld
  <1>19. ASSUME NEW t \in Callers, Export(t) PROVE LockHeld'
    BY <1>19, <1>h, CallersApart
    DEF Export, Here, Go, GuardThenLock, Deeper, Set, tls, policyState, counters, disk,
        frame, program, LifecycleTypeOK, LockHeld
  <1>20. ASSUME NEW t \in Callers, Serialize(t) PROVE LockHeld'
    BY <1>20, <1>h, CallersApart
    DEF Serialize, Unlock, Here, Go, Shallower, tls, policyState, counters, disk, frame,
        program, LifecycleTypeOK, LockHeld
  <1>21. ASSUME NEW t \in Callers, WriteTmp(t) PROVE LockHeld'
    BY <1>21, <1>h, CallersApart
    DEF WriteTmp, Here, Go, tls, policyState, counters, disk, frame, program,
        LifecycleTypeOK, LockHeld
  <1>22. ASSUME NEW t \in Callers, Rename(t) PROVE LockHeld'
    BY <1>22, <1>h, CallersApart
    DEF Rename, Here, Go, tls, policyState, counters, disk, frame, program, LifecycleTypeOK,
        LockHeld
  <1>23. ASSUME NEW t \in Callers, Leave(t) PROVE LockHeld'
    BY <1>23, <1>h, CallersApart
    DEF Leave, Here, Go, Set, tls, policyState, counters, disk, frame, program,
        LifecycleTypeOK, LockHeld
  <1> QED
    BY <1>0, <1>1, <1>2, <1>3, <1>4, <1>5, <1>6, <1>7, <1>8, <1>9, <1>10, <1>11, <1>12,
       <1>13, <1>14, <1>15, <1>16, <1>17, <1>18, <1>19, <1>20, <1>21, <1>22, <1>23
    DEF LifecycleNext

\* Once the body of the once-cell is over, a readable model is in force.
LEMMA LoadedOnceStep ==
  ASSUME CallersApart, LifecycleInv, LifecycleNext PROVE LoadedOnce'
  <1>h. LifecycleTypeOK /\ PlacesOK /\ DepthExact /\ OnceHeld /\ LoadedOnce
    BY DEF LifecycleInv
  <1>0. CASE Crash
    BY <1>0, <1>h
    DEF Crash, tls, policyState, counters, disk, frame, program, Depth, DepthExact,
        Exporting, Freezing, LifecycleTypeOK, LoadedOnce, Loading, OnceHeld, Places,
        PlacesOK, Within
  <1>1. ASSUME NEW t \in Callers, Malloc(t) PROVE LoadedOnce'
    <2>1. exportDepth[t] = 0 /\ inAlloc[t] = 0
      BY <1>1, <1>h
      DEF Malloc, Begin, Here, Set, Go, tls, policyState, counters, disk, frame, program,
          Depth, DepthExact, Exporting, Freezing, LifecycleTypeOK, LoadedOnce, Loading,
          OnceHeld, Places, PlacesOK, Within
    <2>2. at' = [at EXCEPT ![t] = "once"]
      BY <1>1, <2>1, <1>h
      DEF Malloc, Begin, Here, Set, Go, tls, policyState, counters, disk, frame, program,
          Depth, DepthExact, Exporting, Freezing, LifecycleTypeOK, LoadedOnce, Loading,
          OnceHeld, Places, PlacesOK, Within
    <2> QED BY <1>1, <2>2, <1>h
            DEF Malloc, Begin, Here, Set, Go, tls, policyState, counters, disk, frame,
                program, Depth, DepthExact, Exporting, Freezing, LifecycleTypeOK,
                LoadedOnce, Loading, OnceHeld, Places, PlacesOK, Within
  <1>2. ASSUME NEW t \in Callers, NEW counted \in BOOLEAN, Free(t, counted) PROVE LoadedOnce'
    BY <1>2, <1>h, CallersApart
    DEF Free, Begin, Here, Set, Go, GuardThenLock, Deeper, tls, policyState, counters, disk,
        frame, program, Depth, DepthExact, Exporting, Freezing, LifecycleTypeOK, LoadedOnce,
        Loading, OnceHeld, Places, PlacesOK, Within
  <1>3. ASSUME NEW t \in Callers, ExplicitFreeze(t) PROVE LoadedOnce'
    BY <1>3, <1>h, CallersApart
    DEF ExplicitFreeze, Begin, Here, Set, Go, tls, policyState, counters, disk, frame,
        program, Depth, DepthExact, Exporting, Freezing, LifecycleTypeOK, LoadedOnce,
        Loading, OnceHeld, Places, PlacesOK, Within
  <1>4. ASSUME NEW t \in Callers, LoadModel(t) PROVE LoadedOnce'
    BY <1>4, <1>h, CallersApart
    DEF LoadModel, Begin, Here, Set, Go, GuardThenLock, Deeper, tls, policyState, counters,
        disk, frame, program, Depth, DepthExact, Exporting, Freezing, LifecycleTypeOK,
        LoadedOnce, Loading, OnceHeld, Places, PlacesOK, Within
  <1>5. ASSUME NEW t \in Callers, EnsureModelLoaded(t) PROVE LoadedOnce'
    BY <1>5, <1>h, CallersApart
    DEF EnsureModelLoaded, Here, Go, Deeper, tls, policyState, counters, disk, frame,
        program, Depth, DepthExact, Exporting, Freezing, LifecycleTypeOK, LoadedOnce,
        Loading, OnceHeld, Places, PlacesOK, Within
  <1>6. ASSUME NEW t \in Callers, Boot(t) PROVE LoadedOnce'
    BY <1>6, <1>h, CallersApart
    DEF Boot, Here, Go, GuardThenLock, Deeper, Shallower, Set, tls, policyState, counters,
        disk, frame, program, Depth, DepthExact, Exporting, Freezing, LifecycleTypeOK,
        LoadedOnce, Loading, OnceHeld, Places, PlacesOK, Within
  <1>7. ASSUME NEW t \in Callers, Booted(t) PROVE LoadedOnce'
    BY <1>7, <1>h, CallersApart
    DEF Booted, Here, Go, Shallower, tls, policyState, counters, disk, frame, program,
        Depth, DepthExact, Exporting, Freezing, LifecycleTypeOK, LoadedOnce, Loading,
        OnceHeld, Places, PlacesOK, Within
  <1>8. ASSUME NEW t \in Callers, Alloc(t) PROVE LoadedOnce'
    BY <1>8, <1>h, CallersApart
    DEF Alloc, Here, Go, GuardThenLock, Deeper, Set, tls, policyState, counters, disk,
        frame, program, Depth, DepthExact, Exporting, Freezing, LifecycleTypeOK, LoadedOnce,
        Loading, OnceHeld, Places, PlacesOK, Within
  <1>9. ASSUME NEW t \in Callers, Lock(t) PROVE LoadedOnce'
    BY <1>9, <1>h, CallersApart
    DEF Lock, Here, Go, tls, policyState, counters, disk, frame, program, Depth, DepthExact,
        Exporting, Freezing, LifecycleTypeOK, LoadedOnce, Loading, OnceHeld, Places,
        PlacesOK, Within
  <1>10. ASSUME NEW t \in Callers, Route(t) PROVE LoadedOnce'
    BY <1>10, <1>h, CallersApart
    DEF Route, Unlock, Here, Go, GuardThenLock, Deeper, Shallower, Set, tls, policyState,
        counters, disk, frame, program, Depth, DepthExact, Exporting, Freezing,
        LifecycleTypeOK, LoadedOnce, Loading, OnceHeld, Places, PlacesOK, Within
  <1>11. ASSUME NEW t \in Callers, Record(t) PROVE LoadedOnce'
    BY <1>11, <1>h, CallersApart
    DEF Record, Unlock, Here, Go, Set, tls, policyState, counters, disk, frame, program,
        Depth, DepthExact, Exporting, Freezing, LifecycleTypeOK, LoadedOnce, Loading,
        OnceHeld, Places, PlacesOK, Within
  <1>12. ASSUME NEW t \in Callers, Load(t) PROVE LoadedOnce'
    BY <1>12, <1>h, CallersApart
    DEF Load, Unlock, Here, Go, Shallower, tls, policyState, counters, disk, frame, program,
        Depth, DepthExact, Exporting, Freezing, LifecycleTypeOK, LoadedOnce, Loading,
        OnceHeld, Places, PlacesOK, Within
  <1>13. ASSUME NEW t \in Callers, FreezeState(t) PROVE LoadedOnce'
    BY <1>13, <1>h, CallersApart
    DEF FreezeState, Unlock, Here, Go, Shallower, tls, policyState, counters, disk, frame,
        program, Depth, DepthExact, Exporting, Freezing, LifecycleTypeOK, LoadedOnce,
        Loading, OnceHeld, Places, PlacesOK, Within
  <1>14. ASSUME NEW t \in Callers, Published(t) PROVE LoadedOnce'
    BY <1>14, <1>h, CallersApart
    DEF Published, Here, Go, tls, policyState, counters, disk, frame, program, Depth,
        DepthExact, Exporting, Freezing, LifecycleTypeOK, LoadedOnce, Loading, OnceHeld,
        Places, PlacesOK, Within
  <1>15. ASSUME NEW t \in Callers, Poll(t) PROVE LoadedOnce'
    BY <1>15, <1>h, CallersApart
    DEF Poll, Unlock, Here, Go, Shallower, tls, policyState, counters, disk, frame, program,
        Depth, DepthExact, Exporting, Freezing, LifecycleTypeOK, LoadedOnce, Loading,
        OnceHeld, Places, PlacesOK, Within
  <1>16. ASSUME NEW t \in Callers, AutoFreeze(t) PROVE LoadedOnce'
    BY <1>16, <1>h, CallersApart
    DEF AutoFreeze, Here, Go, GuardThenLock, Deeper, Set, OpsHit, tls, policyState,
        counters, disk, frame, program, Depth, DepthExact, Exporting, Freezing,
        LifecycleTypeOK, LoadedOnce, Loading, OnceHeld, Places, PlacesOK, Within
  <1>17. ASSUME NEW t \in Callers, Swap(t) PROVE LoadedOnce'
    BY <1>17, <1>h, CallersApart
    DEF Swap, Here, Go, tls, policyState, counters, disk, frame, program, Depth, DepthExact,
        Exporting, Freezing, LifecycleTypeOK, LoadedOnce, Loading, OnceHeld, Places,
        PlacesOK, Within
  <1>18. ASSUME NEW t \in Callers, Freeze(t) PROVE LoadedOnce'
    BY <1>18, <1>h, CallersApart
    DEF Freeze, Here, Go, GuardThenLock, Deeper, Set, tls, policyState, counters, disk,
        frame, program, Depth, DepthExact, Exporting, Freezing, LifecycleTypeOK, LoadedOnce,
        Loading, OnceHeld, Places, PlacesOK, Within
  <1>19. ASSUME NEW t \in Callers, Export(t) PROVE LoadedOnce'
    BY <1>19, <1>h, CallersApart
    DEF Export, Here, Go, GuardThenLock, Deeper, Set, tls, policyState, counters, disk,
        frame, program, Depth, DepthExact, Exporting, Freezing, LifecycleTypeOK, LoadedOnce,
        Loading, OnceHeld, Places, PlacesOK, Within
  <1>20. ASSUME NEW t \in Callers, Serialize(t) PROVE LoadedOnce'
    BY <1>20, <1>h, CallersApart
    DEF Serialize, Unlock, Here, Go, Shallower, tls, policyState, counters, disk, frame,
        program, Depth, DepthExact, Exporting, Freezing, LifecycleTypeOK, LoadedOnce,
        Loading, OnceHeld, Places, PlacesOK, Within
  <1>21. ASSUME NEW t \in Callers, WriteTmp(t) PROVE LoadedOnce'
    BY <1>21, <1>h, CallersApart
    DEF WriteTmp, Here, Go, tls, policyState, counters, disk, frame, program, Depth,
        DepthExact, Exporting, Freezing, LifecycleTypeOK, LoadedOnce, Loading, OnceHeld,
        Places, PlacesOK, Within
  <1>22. ASSUME NEW t \in Callers, Rename(t) PROVE LoadedOnce'
    BY <1>22, <1>h, CallersApart
    DEF Rename, Here, Go, tls, policyState, counters, disk, frame, program, Depth,
        DepthExact, Exporting, Freezing, LifecycleTypeOK, LoadedOnce, Loading, OnceHeld,
        Places, PlacesOK, Within
  <1>23. ASSUME NEW t \in Callers, Leave(t) PROVE LoadedOnce'
    BY <1>23, <1>h, CallersApart
    DEF Leave, Here, Go, Set, tls, policyState, counters, disk, frame, program, Depth,
        DepthExact, Exporting, Freezing, LifecycleTypeOK, LoadedOnce, Loading, OnceHeld,
        Places, PlacesOK, Within
  <1> QED
    BY <1>0, <1>1, <1>2, <1>3, <1>4, <1>5, <1>6, <1>7, <1>8, <1>9, <1>10, <1>11, <1>12,
       <1>13, <1>14, <1>15, <1>16, <1>17, <1>18, <1>19, <1>20, <1>21, <1>22, <1>23
    DEF LifecycleNext

\* The flag is set last and reset first.
LEMMA FrozenSoundStep ==
  ASSUME CallersApart, LifecycleInv, LifecycleNext PROVE FrozenSound'
  <1>h. LifecycleTypeOK /\ FrozenSound /\ LoadedOnce /\ ExportsAlone
    BY DEF LifecycleInv
  <1>0. CASE Crash
    BY <1>0, <1>h
    DEF Crash, tls, policyState, counters, disk, frame, program, Exporting, ExportsAlone,
        FrozenSound, LifecycleTypeOK, LoadedOnce, Loading, Within
  <1>1. ASSUME NEW t \in Callers, Malloc(t) PROVE FrozenSound'
    BY <1>1, <1>h, CallersApart
    DEF Malloc, Begin, Here, Set, Go, tls, policyState, counters, disk, frame, program,
        Exporting, ExportsAlone, FrozenSound, LifecycleTypeOK, LoadedOnce, Loading, Within
  <1>2. ASSUME NEW t \in Callers, NEW counted \in BOOLEAN, Free(t, counted) PROVE FrozenSound'
    BY <1>2, <1>h, CallersApart
    DEF Free, Begin, Here, Set, Go, GuardThenLock, Deeper, tls, policyState, counters, disk,
        frame, program, Exporting, ExportsAlone, FrozenSound, LifecycleTypeOK, LoadedOnce,
        Loading, Within
  <1>3. ASSUME NEW t \in Callers, ExplicitFreeze(t) PROVE FrozenSound'
    BY <1>3, <1>h, CallersApart
    DEF ExplicitFreeze, Begin, Here, Set, Go, tls, policyState, counters, disk, frame,
        program, Exporting, ExportsAlone, FrozenSound, LifecycleTypeOK, LoadedOnce, Loading,
        Within
  <1>4. ASSUME NEW t \in Callers, LoadModel(t) PROVE FrozenSound'
    BY <1>4, <1>h, CallersApart
    DEF LoadModel, Begin, Here, Set, Go, GuardThenLock, Deeper, tls, policyState, counters,
        disk, frame, program, Exporting, ExportsAlone, FrozenSound, LifecycleTypeOK,
        LoadedOnce, Loading, Within
  <1>5. ASSUME NEW t \in Callers, EnsureModelLoaded(t) PROVE FrozenSound'
    BY <1>5, <1>h, CallersApart
    DEF EnsureModelLoaded, Here, Go, Deeper, tls, policyState, counters, disk, frame,
        program, Exporting, ExportsAlone, FrozenSound, LifecycleTypeOK, LoadedOnce, Loading,
        Within
  <1>6. ASSUME NEW t \in Callers, Boot(t) PROVE FrozenSound'
    BY <1>6, <1>h, CallersApart
    DEF Boot, Here, Go, GuardThenLock, Deeper, Shallower, Set, tls, policyState, counters,
        disk, frame, program, Exporting, ExportsAlone, FrozenSound, LifecycleTypeOK,
        LoadedOnce, Loading, Within
  <1>7. ASSUME NEW t \in Callers, Booted(t) PROVE FrozenSound'
    BY <1>7, <1>h, CallersApart
    DEF Booted, Here, Go, Shallower, tls, policyState, counters, disk, frame, program,
        Exporting, ExportsAlone, FrozenSound, LifecycleTypeOK, LoadedOnce, Loading, Within
  <1>8. ASSUME NEW t \in Callers, Alloc(t) PROVE FrozenSound'
    BY <1>8, <1>h, CallersApart
    DEF Alloc, Here, Go, GuardThenLock, Deeper, Set, tls, policyState, counters, disk,
        frame, program, Exporting, ExportsAlone, FrozenSound, LifecycleTypeOK, LoadedOnce,
        Loading, Within
  <1>9. ASSUME NEW t \in Callers, Lock(t) PROVE FrozenSound'
    BY <1>9, <1>h, CallersApart
    DEF Lock, Here, Go, tls, policyState, counters, disk, frame, program, Exporting,
        ExportsAlone, FrozenSound, LifecycleTypeOK, LoadedOnce, Loading, Within
  <1>10. ASSUME NEW t \in Callers, Route(t) PROVE FrozenSound'
    BY <1>10, <1>h, CallersApart
    DEF Route, Unlock, Here, Go, GuardThenLock, Deeper, Shallower, Set, tls, policyState,
        counters, disk, frame, program, Exporting, ExportsAlone, FrozenSound,
        LifecycleTypeOK, LoadedOnce, Loading, Within
  <1>11. ASSUME NEW t \in Callers, Record(t) PROVE FrozenSound'
    BY <1>11, <1>h, CallersApart
    DEF Record, Unlock, Here, Go, Set, tls, policyState, counters, disk, frame, program,
        Exporting, ExportsAlone, FrozenSound, LifecycleTypeOK, LoadedOnce, Loading, Within
  <1>12. ASSUME NEW t \in Callers, Load(t) PROVE FrozenSound'
    BY <1>12, <1>h, CallersApart
    DEF Load, Unlock, Here, Go, Shallower, tls, policyState, counters, disk, frame, program,
        Exporting, ExportsAlone, FrozenSound, LifecycleTypeOK, LoadedOnce, Loading, Within
  <1>13. ASSUME NEW t \in Callers, FreezeState(t) PROVE FrozenSound'
    BY <1>13, <1>h, CallersApart
    DEF FreezeState, Unlock, Here, Go, Shallower, tls, policyState, counters, disk, frame,
        program, Exporting, ExportsAlone, FrozenSound, LifecycleTypeOK, LoadedOnce, Loading,
        Within
  <1>14. ASSUME NEW t \in Callers, Published(t) PROVE FrozenSound'
    BY <1>14, <1>h, CallersApart
    DEF Published, Here, Go, tls, policyState, counters, disk, frame, program, Exporting,
        ExportsAlone, FrozenSound, LifecycleTypeOK, LoadedOnce, Loading, Within
  <1>15. ASSUME NEW t \in Callers, Poll(t) PROVE FrozenSound'
    BY <1>15, <1>h, CallersApart
    DEF Poll, Unlock, Here, Go, Shallower, tls, policyState, counters, disk, frame, program,
        Exporting, ExportsAlone, FrozenSound, LifecycleTypeOK, LoadedOnce, Loading, Within
  <1>16. ASSUME NEW t \in Callers, AutoFreeze(t) PROVE FrozenSound'
    BY <1>16, <1>h, CallersApart
    DEF AutoFreeze, Here, Go, GuardThenLock, Deeper, Set, OpsHit, tls, policyState,
        counters, disk, frame, program, Exporting, ExportsAlone, FrozenSound,
        LifecycleTypeOK, LoadedOnce, Loading, Within
  <1>17. ASSUME NEW t \in Callers, Swap(t) PROVE FrozenSound'
    BY <1>17, <1>h, CallersApart
    DEF Swap, Here, Go, tls, policyState, counters, disk, frame, program, Exporting,
        ExportsAlone, FrozenSound, LifecycleTypeOK, LoadedOnce, Loading, Within
  <1>18. ASSUME NEW t \in Callers, Freeze(t) PROVE FrozenSound'
    BY <1>18, <1>h, CallersApart
    DEF Freeze, Here, Go, GuardThenLock, Deeper, Set, tls, policyState, counters, disk,
        frame, program, Exporting, ExportsAlone, FrozenSound, LifecycleTypeOK, LoadedOnce,
        Loading, Within
  <1>19. ASSUME NEW t \in Callers, Export(t) PROVE FrozenSound'
    BY <1>19, <1>h, CallersApart
    DEF Export, Here, Go, GuardThenLock, Deeper, Set, tls, policyState, counters, disk,
        frame, program, Exporting, ExportsAlone, FrozenSound, LifecycleTypeOK, LoadedOnce,
        Loading, Within
  <1>20. ASSUME NEW t \in Callers, Serialize(t) PROVE FrozenSound'
    BY <1>20, <1>h, CallersApart
    DEF Serialize, Unlock, Here, Go, Shallower, tls, policyState, counters, disk, frame,
        program, Exporting, ExportsAlone, FrozenSound, LifecycleTypeOK, LoadedOnce, Loading,
        Within
  <1>21. ASSUME NEW t \in Callers, WriteTmp(t) PROVE FrozenSound'
    BY <1>21, <1>h, CallersApart
    DEF WriteTmp, Here, Go, tls, policyState, counters, disk, frame, program, Exporting,
        ExportsAlone, FrozenSound, LifecycleTypeOK, LoadedOnce, Loading, Within
  <1>22. ASSUME NEW t \in Callers, Rename(t) PROVE FrozenSound'
    BY <1>22, <1>h, CallersApart
    DEF Rename, Here, Go, tls, policyState, counters, disk, frame, program, Exporting,
        ExportsAlone, FrozenSound, LifecycleTypeOK, LoadedOnce, Loading, Within
  <1>23. ASSUME NEW t \in Callers, Leave(t) PROVE FrozenSound'
    BY <1>23, <1>h, CallersApart
    DEF Leave, Here, Go, Set, tls, policyState, counters, disk, frame, program, Exporting,
        ExportsAlone, FrozenSound, LifecycleTypeOK, LoadedOnce, Loading, Within
  <1> QED
    BY <1>0, <1>1, <1>2, <1>3, <1>4, <1>5, <1>6, <1>7, <1>8, <1>9, <1>10, <1>11, <1>12,
       <1>13, <1>14, <1>15, <1>16, <1>17, <1>18, <1>19, <1>20, <1>21, <1>22, <1>23
    DEF LifecycleNext

\* Who exports froze the state itself, and no one else will.
LEMMA ExportsAloneStep ==
  ASSUME CallersApart, LifecycleInv, LifecycleNext PROVE ExportsAlone'
  <1>h. LifecycleTypeOK /\ PlacesOK /\ FrozenSound /\ ExportsAlone
    BY DEF LifecycleInv
  <1>0. CASE Crash
    BY <1>0, <1>h
    DEF Crash, tls, policyState, counters, disk, frame, program, Exporting, ExportsAlone,
        Freezing, FrozenSound, LifecycleTypeOK, Places, PlacesOK, Within
  <1>1. ASSUME NEW t \in Callers, Malloc(t) PROVE ExportsAlone'
    BY <1>1, <1>h, CallersApart
    DEF Malloc, Begin, Here, Set, Go, tls, policyState, counters, disk, frame, program,
        Exporting, ExportsAlone, Freezing, FrozenSound, LifecycleTypeOK, Places, PlacesOK,
        Within
  <1>2. ASSUME NEW t \in Callers, NEW counted \in BOOLEAN, Free(t, counted) PROVE ExportsAlone'
    BY <1>2, <1>h, CallersApart
    DEF Free, Begin, Here, Set, Go, GuardThenLock, Deeper, tls, policyState, counters, disk,
        frame, program, Exporting, ExportsAlone, Freezing, FrozenSound, LifecycleTypeOK,
        Places, PlacesOK, Within
  <1>3. ASSUME NEW t \in Callers, ExplicitFreeze(t) PROVE ExportsAlone'
    BY <1>3, <1>h, CallersApart
    DEF ExplicitFreeze, Begin, Here, Set, Go, tls, policyState, counters, disk, frame,
        program, Exporting, ExportsAlone, Freezing, FrozenSound, LifecycleTypeOK, Places,
        PlacesOK, Within
  <1>4. ASSUME NEW t \in Callers, LoadModel(t) PROVE ExportsAlone'
    BY <1>4, <1>h, CallersApart
    DEF LoadModel, Begin, Here, Set, Go, GuardThenLock, Deeper, tls, policyState, counters,
        disk, frame, program, Exporting, ExportsAlone, Freezing, FrozenSound,
        LifecycleTypeOK, Places, PlacesOK, Within
  <1>5. ASSUME NEW t \in Callers, EnsureModelLoaded(t) PROVE ExportsAlone'
    BY <1>5, <1>h, CallersApart
    DEF EnsureModelLoaded, Here, Go, Deeper, tls, policyState, counters, disk, frame,
        program, Exporting, ExportsAlone, Freezing, FrozenSound, LifecycleTypeOK, Places,
        PlacesOK, Within
  <1>6. ASSUME NEW t \in Callers, Boot(t) PROVE ExportsAlone'
    BY <1>6, <1>h, CallersApart
    DEF Boot, Here, Go, GuardThenLock, Deeper, Shallower, Set, tls, policyState, counters,
        disk, frame, program, Exporting, ExportsAlone, Freezing, FrozenSound,
        LifecycleTypeOK, Places, PlacesOK, Within
  <1>7. ASSUME NEW t \in Callers, Booted(t) PROVE ExportsAlone'
    BY <1>7, <1>h, CallersApart
    DEF Booted, Here, Go, Shallower, tls, policyState, counters, disk, frame, program,
        Exporting, ExportsAlone, Freezing, FrozenSound, LifecycleTypeOK, Places, PlacesOK,
        Within
  <1>8. ASSUME NEW t \in Callers, Alloc(t) PROVE ExportsAlone'
    BY <1>8, <1>h, CallersApart
    DEF Alloc, Here, Go, GuardThenLock, Deeper, Set, tls, policyState, counters, disk,
        frame, program, Exporting, ExportsAlone, Freezing, FrozenSound, LifecycleTypeOK,
        Places, PlacesOK, Within
  <1>9. ASSUME NEW t \in Callers, Lock(t) PROVE ExportsAlone'
    BY <1>9, <1>h, CallersApart
    DEF Lock, Here, Go, tls, policyState, counters, disk, frame, program, Exporting,
        ExportsAlone, Freezing, FrozenSound, LifecycleTypeOK, Places, PlacesOK, Within
  <1>10. ASSUME NEW t \in Callers, Route(t) PROVE ExportsAlone'
    BY <1>10, <1>h, CallersApart
    DEF Route, Unlock, Here, Go, GuardThenLock, Deeper, Shallower, Set, tls, policyState,
        counters, disk, frame, program, Exporting, ExportsAlone, Freezing, FrozenSound,
        LifecycleTypeOK, Places, PlacesOK, Within
  <1>11. ASSUME NEW t \in Callers, Record(t) PROVE ExportsAlone'
    BY <1>11, <1>h, CallersApart
    DEF Record, Unlock, Here, Go, Set, tls, policyState, counters, disk, frame, program,
        Exporting, ExportsAlone, Freezing, FrozenSound, LifecycleTypeOK, Places, PlacesOK,
        Within
  <1>12. ASSUME NEW t \in Callers, Load(t) PROVE ExportsAlone'
    BY <1>12, <1>h, CallersApart
    DEF Load, Unlock, Here, Go, Shallower, tls, policyState, counters, disk, frame, program,
        Exporting, ExportsAlone, Freezing, FrozenSound, LifecycleTypeOK, Places, PlacesOK,
        Within
  <1>13. ASSUME NEW t \in Callers, FreezeState(t) PROVE ExportsAlone'
    BY <1>13, <1>h, CallersApart
    DEF FreezeState, Unlock, Here, Go, Shallower, tls, policyState, counters, disk, frame,
        program, Exporting, ExportsAlone, Freezing, FrozenSound, LifecycleTypeOK, Places,
        PlacesOK, Within
  <1>14. ASSUME NEW t \in Callers, Published(t) PROVE ExportsAlone'
    BY <1>14, <1>h, CallersApart
    DEF Published, Here, Go, tls, policyState, counters, disk, frame, program, Exporting,
        ExportsAlone, Freezing, FrozenSound, LifecycleTypeOK, Places, PlacesOK, Within
  <1>15. ASSUME NEW t \in Callers, Poll(t) PROVE ExportsAlone'
    BY <1>15, <1>h, CallersApart
    DEF Poll, Unlock, Here, Go, Shallower, tls, policyState, counters, disk, frame, program,
        Exporting, ExportsAlone, Freezing, FrozenSound, LifecycleTypeOK, Places, PlacesOK,
        Within
  <1>16. ASSUME NEW t \in Callers, AutoFreeze(t) PROVE ExportsAlone'
    BY <1>16, <1>h, CallersApart
    DEF AutoFreeze, Here, Go, GuardThenLock, Deeper, Set, OpsHit, tls, policyState,
        counters, disk, frame, program, Exporting, ExportsAlone, Freezing, FrozenSound,
        LifecycleTypeOK, Places, PlacesOK, Within
  <1>17. ASSUME NEW t \in Callers, Swap(t) PROVE ExportsAlone'
    BY <1>17, <1>h, CallersApart
    DEF Swap, Here, Go, tls, policyState, counters, disk, frame, program, Exporting,
        ExportsAlone, Freezing, FrozenSound, LifecycleTypeOK, Places, PlacesOK, Within
  <1>18. ASSUME NEW t \in Callers, Freeze(t) PROVE ExportsAlone'
    BY <1>18, <1>h, CallersApart
    DEF Freeze, Here, Go, GuardThenLock, Deeper, Set, tls, policyState, counters, disk,
        frame, program, Exporting, ExportsAlone, Freezing, FrozenSound, LifecycleTypeOK,
        Places, PlacesOK, Within
  <1>19. ASSUME NEW t \in Callers, Export(t) PROVE ExportsAlone'
    BY <1>19, <1>h, CallersApart
    DEF Export, Here, Go, GuardThenLock, Deeper, Set, tls, policyState, counters, disk,
        frame, program, Exporting, ExportsAlone, Freezing, FrozenSound, LifecycleTypeOK,
        Places, PlacesOK, Within
  <1>20. ASSUME NEW t \in Callers, Serialize(t) PROVE ExportsAlone'
    BY <1>20, <1>h, CallersApart
    DEF Serialize, Unlock, Here, Go, Shallower, tls, policyState, counters, disk, frame,
        program, Exporting, ExportsAlone, Freezing, FrozenSound, LifecycleTypeOK, Places,
        PlacesOK, Within
  <1>21. ASSUME NEW t \in Callers, WriteTmp(t) PROVE ExportsAlone'
    BY <1>21, <1>h, CallersApart
    DEF WriteTmp, Here, Go, tls, policyState, counters, disk, frame, program, Exporting,
        ExportsAlone, Freezing, FrozenSound, LifecycleTypeOK, Places, PlacesOK, Within
  <1>22. ASSUME NEW t \in Callers, Rename(t) PROVE ExportsAlone'
    BY <1>22, <1>h, CallersApart
    DEF Rename, Here, Go, tls, policyState, counters, disk, frame, program, Exporting,
        ExportsAlone, Freezing, FrozenSound, LifecycleTypeOK, Places, PlacesOK, Within
  <1>23. ASSUME NEW t \in Callers, Leave(t) PROVE ExportsAlone'
    BY <1>23, <1>h, CallersApart
    DEF Leave, Here, Go, Set, tls, policyState, counters, disk, frame, program, Exporting,
        ExportsAlone, Freezing, FrozenSound, LifecycleTypeOK, Places, PlacesOK, Within
  <1> QED
    BY <1>0, <1>1, <1>2, <1>3, <1>4, <1>5, <1>6, <1>7, <1>8, <1>9, <1>10, <1>11, <1>12,
       <1>13, <1>14, <1>15, <1>16, <1>17, <1>18, <1>19, <1>20, <1>21, <1>22, <1>23
    DEF LifecycleNext

\* Without control calls, the first thread to reach the threshold freezes.
LEMMA FreezesAloneStep ==
  ASSUME CallersApart, LifecycleInv, LifecycleNext PROVE FreezesAlone'
  <1>h. LifecycleTypeOK /\ PlacesOK /\ OnceHeld /\ LoadedOnce /\ FreezesAlone
    BY DEF LifecycleInv
  <1>0. CASE Crash
    BY <1>0, <1>h
    DEF Crash, tls, policyState, counters, disk, frame, program, Exporting, FreezesAlone,
        Freezing, LifecycleTypeOK, LoadedOnce, Loading, OnceHeld, Places, PlacesOK, Within
  <1>1. ASSUME NEW t \in Callers, Malloc(t) PROVE FreezesAlone'
    BY <1>1, <1>h, CallersApart
    DEF Malloc, Begin, Here, Set, Go, tls, policyState, counters, disk, frame, program,
        Exporting, FreezesAlone, Freezing, LifecycleTypeOK, LoadedOnce, Loading, OnceHeld,
        Places, PlacesOK, Within
  <1>2. ASSUME NEW t \in Callers, NEW counted \in BOOLEAN, Free(t, counted) PROVE FreezesAlone'
    BY <1>2, <1>h, CallersApart
    DEF Free, Begin, Here, Set, Go, GuardThenLock, Deeper, tls, policyState, counters, disk,
        frame, program, Exporting, FreezesAlone, Freezing, LifecycleTypeOK, LoadedOnce,
        Loading, OnceHeld, Places, PlacesOK, Within
  <1>3. ASSUME NEW t \in Callers, ExplicitFreeze(t) PROVE FreezesAlone'
    BY <1>3, <1>h, CallersApart
    DEF ExplicitFreeze, Begin, Here, Set, Go, tls, policyState, counters, disk, frame,
        program, Exporting, FreezesAlone, Freezing, LifecycleTypeOK, LoadedOnce, Loading,
        OnceHeld, Places, PlacesOK, Within
  <1>4. ASSUME NEW t \in Callers, LoadModel(t) PROVE FreezesAlone'
    BY <1>4, <1>h, CallersApart
    DEF LoadModel, Begin, Here, Set, Go, GuardThenLock, Deeper, tls, policyState, counters,
        disk, frame, program, Exporting, FreezesAlone, Freezing, LifecycleTypeOK,
        LoadedOnce, Loading, OnceHeld, Places, PlacesOK, Within
  <1>5. ASSUME NEW t \in Callers, EnsureModelLoaded(t) PROVE FreezesAlone'
    BY <1>5, <1>h, CallersApart
    DEF EnsureModelLoaded, Here, Go, Deeper, tls, policyState, counters, disk, frame,
        program, Exporting, FreezesAlone, Freezing, LifecycleTypeOK, LoadedOnce, Loading,
        OnceHeld, Places, PlacesOK, Within
  <1>6. ASSUME NEW t \in Callers, Boot(t) PROVE FreezesAlone'
    BY <1>6, <1>h, CallersApart
    DEF Boot, Here, Go, GuardThenLock, Deeper, Shallower, Set, tls, policyState, counters,
        disk, frame, program, Exporting, FreezesAlone, Freezing, LifecycleTypeOK,
        LoadedOnce, Loading, OnceHeld, Places, PlacesOK, Within
  <1>7. ASSUME NEW t \in Callers, Booted(t) PROVE FreezesAlone'
    BY <1>7, <1>h, CallersApart
    DEF Booted, Here, Go, Shallower, tls, policyState, counters, disk, frame, program,
        Exporting, FreezesAlone, Freezing, LifecycleTypeOK, LoadedOnce, Loading, OnceHeld,
        Places, PlacesOK, Within
  <1>8. ASSUME NEW t \in Callers, Alloc(t) PROVE FreezesAlone'
    BY <1>8, <1>h, CallersApart
    DEF Alloc, Here, Go, GuardThenLock, Deeper, Set, tls, policyState, counters, disk,
        frame, program, Exporting, FreezesAlone, Freezing, LifecycleTypeOK, LoadedOnce,
        Loading, OnceHeld, Places, PlacesOK, Within
  <1>9. ASSUME NEW t \in Callers, Lock(t) PROVE FreezesAlone'
    BY <1>9, <1>h, CallersApart
    DEF Lock, Here, Go, tls, policyState, counters, disk, frame, program, Exporting,
        FreezesAlone, Freezing, LifecycleTypeOK, LoadedOnce, Loading, OnceHeld, Places,
        PlacesOK, Within
  <1>10. ASSUME NEW t \in Callers, Route(t) PROVE FreezesAlone'
    BY <1>10, <1>h, CallersApart
    DEF Route, Unlock, Here, Go, GuardThenLock, Deeper, Shallower, Set, tls, policyState,
        counters, disk, frame, program, Exporting, FreezesAlone, Freezing, LifecycleTypeOK,
        LoadedOnce, Loading, OnceHeld, Places, PlacesOK, Within
  <1>11. ASSUME NEW t \in Callers, Record(t) PROVE FreezesAlone'
    BY <1>11, <1>h, CallersApart
    DEF Record, Unlock, Here, Go, Set, tls, policyState, counters, disk, frame, program,
        Exporting, FreezesAlone, Freezing, LifecycleTypeOK, LoadedOnce, Loading, OnceHeld,
        Places, PlacesOK, Within
  <1>12. ASSUME NEW t \in Callers, Load(t) PROVE FreezesAlone'
    BY <1>12, <1>h, CallersApart
    DEF Load, Unlock, Here, Go, Shallower, tls, policyState, counters, disk, frame, program,
        Exporting, FreezesAlone, Freezing, LifecycleTypeOK, LoadedOnce, Loading, OnceHeld,
        Places, PlacesOK, Within
  <1>13. ASSUME NEW t \in Callers, FreezeState(t) PROVE FreezesAlone'
    BY <1>13, <1>h, CallersApart
    DEF FreezeState, Unlock, Here, Go, Shallower, tls, policyState, counters, disk, frame,
        program, Exporting, FreezesAlone, Freezing, LifecycleTypeOK, LoadedOnce, Loading,
        OnceHeld, Places, PlacesOK, Within
  <1>14. ASSUME NEW t \in Callers, Published(t) PROVE FreezesAlone'
    BY <1>14, <1>h, CallersApart
    DEF Published, Here, Go, tls, policyState, counters, disk, frame, program, Exporting,
        FreezesAlone, Freezing, LifecycleTypeOK, LoadedOnce, Loading, OnceHeld, Places,
        PlacesOK, Within
  <1>15. ASSUME NEW t \in Callers, Poll(t) PROVE FreezesAlone'
    BY <1>15, <1>h, CallersApart
    DEF Poll, Unlock, Here, Go, Shallower, tls, policyState, counters, disk, frame, program,
        Exporting, FreezesAlone, Freezing, LifecycleTypeOK, LoadedOnce, Loading, OnceHeld,
        Places, PlacesOK, Within
  <1>16. ASSUME NEW t \in Callers, AutoFreeze(t) PROVE FreezesAlone'
    BY <1>16, <1>h, CallersApart
    DEF AutoFreeze, Here, Go, GuardThenLock, Deeper, Set, OpsHit, tls, policyState,
        counters, disk, frame, program, Exporting, FreezesAlone, Freezing, LifecycleTypeOK,
        LoadedOnce, Loading, OnceHeld, Places, PlacesOK, Within
  <1>17. ASSUME NEW t \in Callers, Swap(t) PROVE FreezesAlone'
    BY <1>17, <1>h, CallersApart
    DEF Swap, Here, Go, tls, policyState, counters, disk, frame, program, Exporting,
        FreezesAlone, Freezing, LifecycleTypeOK, LoadedOnce, Loading, OnceHeld, Places,
        PlacesOK, Within
  <1>18. ASSUME NEW t \in Callers, Freeze(t) PROVE FreezesAlone'
    BY <1>18, <1>h, CallersApart
    DEF Freeze, Here, Go, GuardThenLock, Deeper, Set, tls, policyState, counters, disk,
        frame, program, Exporting, FreezesAlone, Freezing, LifecycleTypeOK, LoadedOnce,
        Loading, OnceHeld, Places, PlacesOK, Within
  <1>19. ASSUME NEW t \in Callers, Export(t) PROVE FreezesAlone'
    BY <1>19, <1>h, CallersApart
    DEF Export, Here, Go, GuardThenLock, Deeper, Set, tls, policyState, counters, disk,
        frame, program, Exporting, FreezesAlone, Freezing, LifecycleTypeOK, LoadedOnce,
        Loading, OnceHeld, Places, PlacesOK, Within
  <1>20. ASSUME NEW t \in Callers, Serialize(t) PROVE FreezesAlone'
    BY <1>20, <1>h, CallersApart
    DEF Serialize, Unlock, Here, Go, Shallower, tls, policyState, counters, disk, frame,
        program, Exporting, FreezesAlone, Freezing, LifecycleTypeOK, LoadedOnce, Loading,
        OnceHeld, Places, PlacesOK, Within
  <1>21. ASSUME NEW t \in Callers, WriteTmp(t) PROVE FreezesAlone'
    BY <1>21, <1>h, CallersApart
    DEF WriteTmp, Here, Go, tls, policyState, counters, disk, frame, program, Exporting,
        FreezesAlone, Freezing, LifecycleTypeOK, LoadedOnce, Loading, OnceHeld, Places,
        PlacesOK, Within
  <1>22. ASSUME NEW t \in Callers, Rename(t) PROVE FreezesAlone'
    BY <1>22, <1>h, CallersApart
    DEF Rename, Here, Go, tls, policyState, counters, disk, frame, program, Exporting,
        FreezesAlone, Freezing, LifecycleTypeOK, LoadedOnce, Loading, OnceHeld, Places,
        PlacesOK, Within
  <1>23. ASSUME NEW t \in Callers, Leave(t) PROVE FreezesAlone'
    BY <1>23, <1>h, CallersApart
    DEF Leave, Here, Go, Set, tls, policyState, counters, disk, frame, program, Exporting,
        FreezesAlone, Freezing, LifecycleTypeOK, LoadedOnce, Loading, OnceHeld, Places,
        PlacesOK, Within
  <1> QED
    BY <1>0, <1>1, <1>2, <1>3, <1>4, <1>5, <1>6, <1>7, <1>8, <1>9, <1>10, <1>11, <1>12,
       <1>13, <1>14, <1>15, <1>16, <1>17, <1>18, <1>19, <1>20, <1>21, <1>22, <1>23
    DEF LifecycleNext

-----------------------------------------------------------------------------

\* The invariant holds at the start, whatever model file and control calls there are.
LEMMA LifecycleStart ==
  ASSUME CallersApart, LifecycleInit PROVE LifecycleInv
  <1>1. LifecycleTypeOK
    <2>1. /\ exportDepth \in [Callers -> 0 .. 1] /\ inAlloc \in [Callers -> 0 .. 2]
          /\ top \in [Callers -> BOOLEAN] /\ bumped \in [Callers -> BOOLEAN]
      BY DEF LifecycleInit
    <2>2. \A S : "idle" \in S => at \in [Callers -> S]
      BY DEF LifecycleInit
    <2>3. \A S : "none" \in S => call \in [Callers -> S] /\ why \in [Callers -> S]
      BY DEF LifecycleInit
    <2>4. count \in Nat /\ controls \subseteq Controls
      BY DEF LifecycleInit
    <2> QED BY <2>1, <2>2, <2>3, <2>4 DEF LifecycleInit, LifecycleTypeOK, Unlocked
  <1>2. PlacesOK /\ DepthExact
    BY DEF LifecycleInit, PlacesOK, Places, Within, Freezing, Exporting, DepthExact,
           Depth, Loading
  <1>3. OnceHeld /\ LockHeld
    BY CallersApart DEF LifecycleInit, OnceHeld, LockHeld, Loading, Within, Unlocked
  <1>4. LoadedOnce /\ FrozenSound /\ ExportsAlone /\ FreezesAlone
    BY DEF LifecycleInit, LoadedOnce, FrozenSound, ExportsAlone, FreezesAlone, Loading,
           Within, Freezing, Exporting
  <1> QED BY <1>1, <1>2, <1>3, <1>4 DEF LifecycleInv

\* Every step keeps it.
LEMMA LifecycleStep ==
  ASSUME CallersApart, LifecycleInv, [LifecycleNext]_lcVars PROVE LifecycleInv'
  <1>1. CASE LifecycleNext
    BY <1>1, CallersApart, LifecycleTypeOKStep, PlacesOKStep, DepthExactStep,
       OnceHeldStep, LockHeldStep, LoadedOnceStep, FrozenSoundStep, ExportsAloneStep,
       FreezesAloneStep DEF LifecycleInv
  <1>2. CASE UNCHANGED lcVars
    BY <1>2 DEF lcVars, LifecycleInv, LifecycleTypeOK, PlacesOK, Places, Within,
       Freezing, Exporting, DepthExact, Depth, Loading, OnceHeld, LockHeld, LoadedOnce,
       FrozenSound, ExportsAlone, FreezesAlone
  <1> QED BY <1>1, <1>2

\* LifecycleInv is an invariant of every instance.
THEOREM LifecycleInductive == LifecycleSpec => []LifecycleInv
  <1>1. LifecycleInit => LifecycleInv
    BY LifecycleStart, CallersApart
  <1>2. LifecycleInv /\ [LifecycleNext]_lcVars => LifecycleInv'
    BY LifecycleStep, CallersApart
  <1> QED BY <1>1, <1>2, PTL DEF LifecycleSpec

\* With a readable model no allocation is routed by a policy in training, frozen
\* stands for a frozen state with its table, and calls made under the lock or by the
\* loader bypass both, for any number of threads.
THEOREM LoadedFirstAlways == LifecycleSpec => []LoadedFirst
  <1>1. LifecycleInv => LoadedFirst
    BY DEF LifecycleInv, LoadedFirst, NestedBypasses, LoadedOnce, FrozenSound, OnceHeld,
           LockHeld, DepthExact, Depth, Within, Loading, LifecycleTypeOK
  <1> QED BY <1>1, LifecycleInductive, PTL

\* Threads that cross the threshold together freeze once, and the model file is absent
\* or whole, for any threshold, polling interval and number of threads.
THEOREM FreezesOnceAlways == LifecycleSpec => []FreezesAndExports
  <1>1. LifecycleInv => FreezesAndExports
    BY DEF LifecycleInv, FreezesAndExports, FreezesAlone, ExportsAlone
  <1> QED BY <1>1, LifecycleInductive, PTL

-----------------------------------------------------------------------------
(***************************************************************************)
(* HistoryContexts.  The register and the history kept of it are pushed    *)
(* together, so that the events told are its newest; a context is the      *)
(* register as it was before the event of its own allocation, and no       *)
(* context reads as untracked: a shallow one is too short, a deep one is   *)
(* moved.                                                                  *)
(***************************************************************************)

Codes == 0 .. 3

\* The register has room for Deep events, those told are its newest, and the
\* shallow context of the allocation under way is the register before its event.
HistoryInv ==
  /\ ahr \in Seq(Codes) /\ Len(ahr) = Deep
  /\ told \in Seq(Codes) /\ Len(told) <= Deep
  /\ \A i \in 1 .. Len(told) : ahr[i] = told[i]
  /\ code \in Codes
  /\ routing = "read" /\ ctx # NoContext =>
       /\ told # <<>>
       /\ \A i \in 1 .. Shallow : ctx.shallow[i] = ahr[i + 1]
       /\ ctx.shallow # Untracked /\ ctx.deep # Untracked

\* A register holds more than twice the events of a shallow context.
LEMMA DeepShape == Deep \in Nat /\ Deep > 2 /\ Deep \div 2 \in Nat /\ Deep \div 2 > 1 /\ Shallow < Deep
                   /\ Shallow \in Nat
  BY HistoryShape

\* What a push leaves: its code first, and the newest of the others behind it.
LEMMA PushedIs ==
  ASSUME NEW s \in Seq(Codes), Len(s) <= Deep, NEW c \in Codes
  PROVE  /\ Pushed(s, c) \in Seq(Codes) /\ Pushed(s, c) # <<>>
         /\ Len(Pushed(s, c)) = IF Len(s) < Deep THEN Len(s) + 1 ELSE Deep
         /\ \A i \in 1 .. Len(Pushed(s, c)) : Pushed(s, c)[i] = IF i = 1 THEN c ELSE s[i - 1]
  <1> DEFINE t == <<c>> \o s
             n == IF Len(t) < Deep THEN Len(t) ELSE Deep
  <1>1. Len(s) \in Nat /\ Deep \in Nat /\ Deep > 2
    BY DeepShape
  <1>2. t \in Seq(Codes) /\ Len(t) = Len(s) + 1
    OBVIOUS
  <1>3. \A i \in 1 .. Len(t) : t[i] = IF i = 1 THEN c ELSE s[i - 1]
    OBVIOUS
  <1>4. n \in Nat /\ n >= 1 /\ n <= Len(t) /\ n = IF Len(s) < Deep THEN Len(s) + 1 ELSE Deep
    BY <1>1, <1>2
  <1>5. \A i \in 1 .. n : t[i] \in Codes
    BY <1>2, <1>4
  <1> HIDE DEF t, n
  <1>6. /\ SubSeq(t, 1, n) \in Seq(Codes)
        /\ Len(SubSeq(t, 1, n)) = IF 1 <= n THEN n - 1 + 1 ELSE 0
        /\ \A i \in 1 .. n - 1 + 1 : SubSeq(t, 1, n)[i] = t[1 + i - 1]
    <2>1. 1 \in Int /\ n \in Int
      BY <1>4
    <2> QED BY <1>5, <2>1, SubSeqProperties
  <1>7. Len(SubSeq(t, 1, n)) = n /\ \A i \in 1 .. n : SubSeq(t, 1, n)[i] = t[i]
    <2>1. n - 1 + 1 = n
      BY <1>4
    <2>2. \A i \in 1 .. n : 1 + i - 1 = i
      BY <1>4
    <2> QED BY <1>4, <1>6, <2>1, <2>2
  <1>8. Pushed(s, c) = SubSeq(t, 1, n)
    BY DEF Pushed, Newest, t, n
  <1>9. Pushed(s, c) # <<>>
    BY <1>4, <1>7, <1>8
  <1>10. \A i \in 1 .. n : Pushed(s, c)[i] = IF i = 1 THEN c ELSE s[i - 1]
    BY <1>3, <1>4, <1>7, <1>8
  <1> QED BY <1>4, <1>6, <1>7, <1>8, <1>9, <1>10

\* A deep context never reads as untracked.
LEMMA DeepTracked == ASSUME NEW s PROVE DeepOf(s) # Untracked
  <1> DEFINE half == Deep \div 2
             folded == [i \in 1 .. half |-> XorCodes(s[i], s[i + half])]
  <1>1. 1 \in 1 .. half
    BY DeepShape
  <1>2. DeepOf(s) = IF folded = Untracked THEN [folded EXCEPT ![1] = 2] ELSE folded
    BY DEF DeepOf
  <1>3. Untracked[1] = 3
    BY <1>1 DEF Untracked
  <1>4. CASE folded = Untracked
    <2>1. DOMAIN folded = 1 .. half
      OBVIOUS
    <2> HIDE DEF folded, half
    <2>2. DeepOf(s)[1] = 2
      BY <1>1, <1>2, <1>4, <2>1
    <2> QED BY <1>3, <2>2
  <1>5. CASE folded # Untracked
    BY <1>2, <1>5
  <1> QED BY <1>4, <1>5

\* Nor does a shallow one, which is shorter; it is the newest events.
LEMMA ShallowTracked ==
  ASSUME NEW s \in Seq(Codes), Len(s) = Deep
  PROVE  /\ ShallowOf(s) # Untracked
         /\ \A i \in 1 .. Shallow : ShallowOf(s)[i] = s[i]
  <1>1. ShallowOf(s) = SubSeq(s, 1, Shallow)
    BY DeepShape DEF ShallowOf, Newest
  <1>2. /\ SubSeq(s, 1, Shallow) \in Seq(Codes)
        /\ Len(SubSeq(s, 1, Shallow)) = IF 1 <= Shallow THEN Shallow - 1 + 1 ELSE 0
        /\ \A i \in 1 .. Shallow - 1 + 1 : SubSeq(s, 1, Shallow)[i] = s[1 + i - 1]
    <2>1. \A i \in 1 .. Shallow : s[i] \in Codes
      BY DeepShape
    <2>2. 1 \in Int /\ Shallow \in Int
      BY DeepShape
    <2> QED BY <2>1, <2>2, SubSeqProperties
  <1>3. Len(ShallowOf(s)) = Shallow /\ ShallowOf(s) \in Seq(Codes)
    BY <1>1, <1>2, HistoryShape
  <1>4. \A i \in 1 .. Shallow : ShallowOf(s)[i] = s[i]
    BY <1>1, <1>2, HistoryShape
  <1>5. ASSUME ShallowOf(s) = Untracked PROVE FALSE
    <2>1. DOMAIN ShallowOf(s) = 1 .. Shallow
      BY <1>3
    <2>2. DOMAIN ShallowOf(s) = 1 .. Deep \div 2
      BY <1>5 DEF Untracked
    <2>3. Deep \div 2 \in 1 .. Shallow
      BY <2>1, <2>2, DeepShape
    <2> QED BY <2>3, HistoryShape
  <1> QED BY <1>4, <1>5

\* The invariant holds at the start.
LEMMA HistoryStarts == HcInit => HistoryInv
  <1> SUFFICES ASSUME HcInit PROVE HistoryInv
    OBVIOUS
  <1>1. Deep \in Nat /\ ahr = [i \in 1 .. Deep |-> 0] /\ told = ahr
    BY DeepShape DEF HcInit, FreeCode
  <1>2. ahr \in Seq(Codes) /\ Len(ahr) = Deep
    BY <1>1 DEF Codes
  <1> QED BY <1>1, <1>2 DEF HistoryInv, HcInit, Codes, FreeCode

\* An event of the program goes into both.
LEMMA PushKeeps ==
  ASSUME HistoryInv, NEW c \in Codes, Push(c)
  PROVE  /\ ahr' \in Seq(Codes) /\ Len(ahr') = Deep
         /\ told' \in Seq(Codes) /\ Len(told') <= Deep /\ told' # <<>>
         /\ \A i \in 1 .. Len(told') : ahr'[i] = told'[i]
         /\ \A i \in 1 .. Shallow : ahr'[i + 1] = ahr[i]
  <1>1. /\ ahr \in Seq(Codes) /\ Len(ahr) = Deep /\ told \in Seq(Codes) /\ Len(told) <= Deep
        /\ \A i \in 1 .. Len(told) : ahr[i] = told[i]
    BY DEF HistoryInv
  <1>2. ahr' = Pushed(ahr, c) /\ told' = Pushed(told, c)
    BY DEF Push
  <1>3. /\ ahr' \in Seq(Codes) /\ Len(ahr') = Deep
        /\ \A i \in 1 .. Deep : ahr'[i] = IF i = 1 THEN c ELSE ahr[i - 1]
    <2>1. Len(ahr) <= Deep /\ ~(Len(ahr) < Deep)
      BY <1>1, DeepShape
    <2>2. /\ Pushed(ahr, c) \in Seq(Codes)
          /\ Len(Pushed(ahr, c)) = IF Len(ahr) < Deep THEN Len(ahr) + 1 ELSE Deep
          /\ \A i \in 1 .. Len(Pushed(ahr, c)) :
               Pushed(ahr, c)[i] = IF i = 1 THEN c ELSE ahr[i - 1]
      BY <1>1, <2>1, PushedIs
    <2> QED BY <1>2, <2>1, <2>2
  <1>4. /\ told' \in Seq(Codes) /\ Len(told') <= Deep /\ Len(told') <= Len(told) + 1 /\ told' # <<>>
        /\ \A i \in 1 .. Len(told') : told'[i] = IF i = 1 THEN c ELSE told[i - 1]
    <2>1. /\ Pushed(told, c) \in Seq(Codes) /\ Pushed(told, c) # <<>>
          /\ Len(Pushed(told, c)) = IF Len(told) < Deep THEN Len(told) + 1 ELSE Deep
          /\ \A i \in 1 .. Len(Pushed(told, c)) :
               Pushed(told, c)[i] = IF i = 1 THEN c ELSE told[i - 1]
      BY <1>1, PushedIs
    <2>2. Len(told') = (IF Len(told) < Deep THEN Len(told) + 1 ELSE Deep)
      BY <1>2, <2>1
    <2>3. Len(told) \in Nat /\ Deep \in Nat /\ Len(told) <= Deep
      BY <1>1, DeepShape
    <2>4. Len(told') <= Deep /\ Len(told') <= Len(told) + 1
      BY <2>2, <2>3
    <2> QED BY <1>2, <2>1, <2>4
  <1>5. ASSUME NEW i \in 1 .. Len(told') PROVE ahr'[i] = told'[i]
    <2>1. i \in 1 .. Deep /\ (i # 1 => i - 1 \in 1 .. Len(told))
      BY <1>1, <1>4, DeepShape
    <2> QED BY <1>1, <1>3, <1>4, <2>1
  <1>6. ASSUME NEW i \in 1 .. Shallow PROVE ahr'[i + 1] = ahr[i]
    <2>1. i + 1 \in 1 .. Deep /\ i + 1 # 1 /\ (i + 1) - 1 = i
      BY DeepShape
    <2> QED BY <1>3, <2>1
  <1> QED BY <1>3, <1>4, <1>5, <1>6

\* An event is left out.
LEMMA LeaveOutKeeps ==
  ASSUME HistoryInv, told' = <<>>, ahr' = ahr
  PROVE  /\ ahr' \in Seq(Codes) /\ Len(ahr') = Deep
         /\ told' \in Seq(Codes) /\ Len(told') <= Deep
         /\ \A i \in 1 .. Len(told') : ahr'[i] = told'[i]
  BY DeepShape DEF HistoryInv

\* The contexts are read before the event is pushed.
LEMMA ReadStep ==
  ASSUME HistoryInv, NEW c \in AllocCodes, ReadAndPush(c) PROVE HistoryInv'
  <1>1. c \in Codes
    BY HistoryShape DEF Codes
  <1>2. CASE ahr_on
    <2>1. ctx' = ContextOf(ahr) /\ Push(c) /\ code' = c
      BY <1>2 DEF ReadAndPush
    <2>2. /\ ahr' \in Seq(Codes) /\ Len(ahr') = Deep
          /\ told' \in Seq(Codes) /\ Len(told') <= Deep /\ told' # <<>>
          /\ \A i \in 1 .. Len(told') : ahr'[i] = told'[i]
          /\ \A i \in 1 .. Shallow : ahr'[i + 1] = ahr[i]
      BY <1>1, <2>1, PushKeeps
    <2>3. ctx'.shallow = ShallowOf(ahr) /\ ctx'.deep = DeepOf(ahr)
      BY <2>1 DEF ContextOf
    <2>4. /\ ctx'.shallow # Untracked /\ ctx'.deep # Untracked
          /\ \A i \in 1 .. Shallow : ctx'.shallow[i] = ahr[i]
      BY <2>3, ShallowTracked, DeepTracked DEF HistoryInv
    <2> QED BY <1>1, <2>1, <2>2, <2>4 DEF HistoryInv, Untracked
  <1>3. CASE ~ahr_on
    <2>1. ctx' = NoContext /\ told' = <<>> /\ ahr' = ahr /\ code' = c
      BY <1>3 DEF ReadAndPush, LeaveOut
    <2> QED BY <1>1, <2>1, LeaveOutKeeps DEF HistoryInv
  <1> QED BY <1>2, <1>3

\* A path without contexts pushes once, or leaves the event out.
LEMMA PushOnlyStep == ASSUME HistoryInv, PushOnly PROVE HistoryInv'
  <1>1. code \in Codes /\ code' \in Codes /\ routing' # "read"
    BY DEF PushOnly, HistoryInv, FreeCode, Codes
  <1>2. Push(code) \/ (told' = <<>> /\ ahr' = ahr)
    BY DEF PushOnly, LeaveOut
  <1>3. CASE Push(code)
    BY <1>1, <1>3, PushKeeps DEF HistoryInv
  <1>4. CASE told' = <<>> /\ ahr' = ahr
    BY <1>1, <1>4, LeaveOutKeeps DEF HistoryInv
  <1> QED BY <1>2, <1>3, <1>4

\* So does a free.
LEMMA FreeStep == ASSUME HistoryInv, FreeBlock PROVE HistoryInv'
  <1>1. FreeCode \in Codes /\ code' = code /\ routing' = routing /\ routing = "idle"
    BY DEF FreeBlock, allocating, FreeCode, Codes
  <1>2. Push(FreeCode) \/ (told' = <<>> /\ ahr' = ahr)
    BY DEF FreeBlock, LeaveOut
  <1>3. CASE Push(FreeCode)
    BY <1>1, <1>3, PushKeeps DEF HistoryInv
  <1>4. CASE told' = <<>> /\ ahr' = ahr
    BY <1>1, <1>4, LeaveOutKeeps DEF HistoryInv
  <1> QED BY <1>2, <1>3, <1>4

\* The collections of the tree free a node: nothing told is true of it any more.
LEMMA RewardStep == ASSUME HistoryInv, RewardBatch PROVE HistoryInv'
  <1>1. code' \in Codes /\ routing' # "read"
    BY DEF RewardBatch, FreeCode, Codes
  <1>2. CASE ahr' = ahr /\ told' = told
    BY <1>1, <1>2 DEF HistoryInv
  <1>3. CASE ahr' = Pushed(ahr, FreeCode) /\ told' = <<>>
    <2>1. FreeCode \in Codes /\ ahr \in Seq(Codes) /\ Len(ahr) = Deep
      BY DEF FreeCode, Codes, HistoryInv
    <2>2. ahr' \in Seq(Codes) /\ Len(ahr') = Deep
      BY <1>3, <2>1, PushedIs, DeepShape
    <2> QED BY <1>1, <1>3, <2>2, DeepShape DEF HistoryInv
  <1> QED BY <1>2, <1>3 DEF RewardBatch

\* The others leave the register as it is.
\* The others leave the register as it is.
LEMMA HistoryKept ==
  ASSUME HistoryInv,
         \/ LookUpTable \/ ServeRouted \/ Decide \/ Publish \/ Unpublish \/ ResetFlag
         \/ \E c \in AllocCodes, way \in {"lane", "pinned", "shortcut"} : AnswerEarly(way, c)
         \/ UNCHANGED hcVars
  PROVE  HistoryInv'
  <1>1. ahr' = ahr /\ told' = told
    BY DEF LookUpTable, ServeRouted, Decide, Publish, Unpublish, ResetFlag, AnswerEarly,
       hcVars
  <1>2. code' \in Codes
    BY HistoryShape DEF LookUpTable, ServeRouted, Decide, Publish, Unpublish, ResetFlag,
       AnswerEarly, hcVars, allocating, HistoryInv, Codes, FreeCode
  <1>3. routing' = "read" => routing = "read" /\ ctx' = ctx
    BY DEF LookUpTable, ServeRouted, Decide, Publish, Unpublish, ResetFlag, AnswerEarly,
       hcVars, allocating
  <1> QED BY <1>1, <1>2, <1>3 DEF HistoryInv, Untracked

\* The invariant of the register: the events told are its newest (ahr of lib.rs).
THEOREM HistoryInductive == HcSpec => []HistoryInv
  <1>1. HistoryInv /\ [HcNext]_hcVars => HistoryInv'
    <2> SUFFICES ASSUME HistoryInv, [HcNext]_hcVars PROVE HistoryInv'
      OBVIOUS
    <2>1. \/ \E c \in AllocCodes : ReadAndPush(c)
          \/ PushOnly \/ FreeBlock \/ RewardBatch
          \/ LookUpTable \/ ServeRouted \/ Decide \/ Publish \/ Unpublish \/ ResetFlag
          \/ \E c \in AllocCodes, way \in {"lane", "pinned", "shortcut"} : AnswerEarly(way, c)
          \/ UNCHANGED hcVars
      BY DEF HcNext
    <2> QED BY <2>1, ReadStep, PushOnlyStep, FreeStep, RewardStep, HistoryKept
  <1> QED BY <1>1, HistoryStarts, PTL DEF HcSpec

\* A context is a function of what the program did, for any depths of the contexts
\* (ahr_ctx_and_push_alloc, ahr_shallow and ahr_deep of lib.rs).
THEOREM ContextsAlwaysAgree == HcSpec => []ContextsAgree
  <1>1. HistoryInv => ContextsAgree
    <2> SUFFICES ASSUME HistoryInv PROVE ContextsAgree
      OBVIOUS
    <2>1. \A i \in 1 .. Len(told) : ahr[i] = told[i]
      BY DEF HistoryInv
    <2>2. ASSUME routing = "read", ctx # NoContext, NEW i \in 1 .. Shallow, i <= Len(Before)
          PROVE  ctx.shallow[i] = Before[i]
      <3>1. told \in Seq(Codes) /\ told # <<>> /\ ctx.shallow[i] = ahr[i + 1]
        BY <2>2 DEF HistoryInv
      <3>2. Before = Tail(told) /\ Len(Tail(told)) = Len(told) - 1
        BY <2>2, <3>1 DEF Before
      <3>3. i \in 1 .. Len(Tail(told)) /\ i + 1 \in 1 .. Len(told)
        BY <2>2, <3>1, <3>2, HistoryShape
      <3>4. Before[i] = told[i + 1]
        BY <3>1, <3>2, <3>3, HeadTailProperties
      <3> QED BY <2>1, <3>1, <3>3, <3>4
    <2> QED BY <2>1, <2>2 DEF ContextsAgree, HistoryInv
  <1> QED BY <1>1, HistoryInductive, PTL

-----------------------------------------------------------------------------
(***************************************************************************)
(* FreezePlan.  A plan is made in one step, so what is to be shown is a    *)
(* fact about what it is made of.  The flags of the main table are those   *)
(* of the contexts that survive.  The distilled table is as strict as the  *)
(* main one because what is heavy for a site is heavy for its group: the   *)
(* group has at least the volume of each member, and the groups together   *)
(* have at most the volume of all.                                         *)
(***************************************************************************)

\* What was trained, and the plan made of it.
TrainedKnown ==
  \E sigs \in SUBSET Signatures :
    trained \in [sigs -> [best: Backends, pulls: Volumes, noisy: BOOLEAN]]
PlanInv == TrainedKnown /\ (plan = NotFrozen \/ plan = Planned)

\* The trained signatures are finitely many, each with pulls of its own.
LEMMA TrainedFacts ==
  ASSUME TrainedKnown
  PROVE  /\ IsFiniteSet(Trained)
         /\ \A s \in Trained : /\ Pulls[s] = trained[s].pulls /\ Pulls[s] \in Nat
                               /\ Pulls[s] > 0 /\ trained[s].best \in Backends
  <1>1. PICK sigs \in SUBSET Signatures :
          trained \in [sigs -> [best: Backends, pulls: Volumes, noisy: BOOLEAN]]
    BY DEF TrainedKnown
  <1>2. Trained = sigs /\ IsFiniteSet(sigs)
    BY <1>1, PlanShape, FS_Subset DEF Trained
  <1>3. \A s \in Trained : Pulls[s] = trained[s].pulls /\ trained[s].pulls \in Volumes
                           /\ trained[s].best \in Backends
    BY <1>1, <1>2 DEF Pulls
  <1>4. \A v \in Volumes : v \in Nat /\ v > 0
    BY PlanShape
  <1>5. ASSUME NEW s \in Trained
        PROVE  /\ Pulls[s] = trained[s].pulls /\ Pulls[s] \in Nat
               /\ Pulls[s] > 0 /\ trained[s].best \in Backends
    <2>1. Pulls[s] = trained[s].pulls /\ Pulls[s] \in Volumes /\ trained[s].best \in Backends
      BY <1>3
    <2>2. Pulls[s] \in Nat /\ Pulls[s] > 0
      BY <1>4, <2>1
    <2> QED BY <2>1, <2>2
  <1> QED BY <1>2, <1>5

\* A part of the trained signatures has no more volume.
LEMMA VolumePart ==
  ASSUME TrainedKnown, NEW S \in SUBSET Trained, NEW T \in SUBSET S
  PROVE  Volume(T) \in Nat /\ Volume(S) \in Nat /\ Volume(T) <= Volume(S)
  <1>1. IsFiniteSet(S) /\ \A s \in S : Pulls[s] \in Nat
    BY TrainedFacts, FS_Subset
  <1>2. Sum(Pulls, T) \in Nat /\ Sum(Pulls, T) <= Sum(Pulls, S) /\ Sum(Pulls, S) \in Nat
    BY <1>1, SumPart
  <1> QED BY <1>2 DEF Volume, Sum

\* The volume of one signature is its pulls.
LEMMA VolumeOne ==
  ASSUME TrainedKnown, NEW s \in Trained PROVE Volume({s}) = trained[s].pulls
  <1>1. IsFiniteSet({s}) /\ \A x \in {s} : Pulls[x] \in Int
    <2>1. Pulls[s] \in Int
      BY TrainedFacts
    <2> QED BY <2>1, FS_Singleton
  <1>2. Sum(Pulls, {s}) = Pulls[s] + Sum(Pulls, {s} \ {s})
    BY <1>1, SumRemove
  <1>3. {s} \ {s} = {} /\ Sum(Pulls, {}) = 0
    BY SumEmpty
  <1>4. Volume({s}) = Pulls[s] + 0
    BY <1>2, <1>3 DEF Volume, Sum
  <1> QED BY <1>4, TrainedFacts

\* Products grow with a factor.
LEMMA Grows ==
  ASSUME NEW a \in Nat, NEW b \in Nat, NEW c \in Nat, a <= b
  PROVE  a * c <= b * c /\ a * c \in Nat /\ b * c \in Nat
  OBVIOUS

\* What is heavy in the main table is heavy in the distilled one: the group has at
\* least the volume of each of its members, the table at most the volume of all.
LEMMA HeavyCarriesOver ==
  ASSUME TrainedKnown, NEW s \in Trained, NEW g \in Unanimous, s \in Members(g), MainHeavy(s)
  PROVE  GroupHeavy(g)
  <1> DEFINE All == UNION {Members(h) : h \in Unanimous}
  <1>1. Members(g) \subseteq Trained /\ All \subseteq Trained /\ Members(g) \subseteq All
    BY DEF Members
  <1>2. /\ Volume({s}) \in Nat /\ Volume({s}) <= Volume(Members(g)) /\ Volume(Members(g)) \in Nat
        /\ Volume(Members(g)) <= Volume(All) /\ Volume(All) \in Nat
        /\ Volume(All) <= Volume(Trained) /\ Volume(Trained) \in Nat
    BY <1>1, VolumePart
  <1>3. /\ Volume({s}) > 0
        /\ Volume({s}) * DemoteDen >= Volume(Trained) * DemoteNum
    BY VolumeOne, TrainedFacts DEF MainHeavy, Heavy
  <1> DEFINE p == Volume({s})
             m == Volume(Members(g))
             a == Volume(All)
             v == Volume(Trained)
  <1>4. /\ p * DemoteDen <= m * DemoteDen /\ p * DemoteDen \in Nat /\ m * DemoteDen \in Nat
        /\ a * DemoteNum <= v * DemoteNum /\ a * DemoteNum \in Nat /\ v * DemoteNum \in Nat
    BY <1>2, PlanShape, Grows
  <1>5. m * DemoteDen >= a * DemoteNum /\ a > 0
    <2> HIDE DEF p, m, a, v
    <2>1. p * DemoteDen >= v * DemoteNum /\ p > 0 /\ p <= m /\ m <= a /\ p \in Nat /\ m \in Nat /\ a \in Nat
      BY <1>2, <1>3 DEF p, m, a, v
    <2> QED BY <1>4, <2>1
  <1> QED BY <1>5 DEF GroupHeavy, Heavy

\* The flags of a plan are those its contexts are asked by, and no distilled group has
\* a flagged site.
LEMMA Reachable == TrainedKnown /\ plan = Planned => ContextReachable
  <1> SUFFICES ASSUME plan = Planned PROVE ContextReachable
    OBVIOUS
  <1>1. /\ plan.main = [s \in Trained |-> [backend |-> MainVerdict(s), flag |-> FlagOf(s)]]
        /\ plan.shallow = Surviving(ShallowCandidates)
        /\ plan.deep = Surviving(DeepCandidates)
        /\ plan.distilled = [g \in Unanimous \ Excluded |-> GroupVerdict(g)]
    BY DEF Planned
  <1>2. ASSUME NEW r \in plan.shallow PROVE plan.main[r.sig].flag = "shallow"
    <2>1. r \in Surviving(ShallowCandidates) /\ r.sig \in Trained
      BY <1>1 DEF Surviving, ShallowCandidates
    <2> QED BY <1>1, <2>1 DEF FlagOf
  <1>3. ASSUME NEW r \in plan.deep PROVE plan.main[r.sig].flag = "deep"
    <2>1. r \in Surviving(DeepCandidates) /\ r.sig \in Trained /\ r.sig \notin Flagged
      BY <1>1 DEF Surviving, DeepCandidates
    <2>2. r.sig \notin {q.sig : q \in Surviving(ShallowCandidates)}
      BY <2>1 DEF Flagged, Surviving
    <2> QED BY <1>1, <2>1, <2>2 DEF FlagOf
  <1>4. ASSUME NEW s \in DOMAIN plan.main, plan.main[s].flag # "none"
        PROVE  /\ GroupOf(s) \notin DOMAIN plan.distilled
               /\ \E r \in plan.shallow \cup plan.deep : r.sig = s
    <2>1. s \in Trained /\ FlagOf(s) # "none"
      BY <1>1, <1>4
    <2>2. \E r \in plan.shallow \cup plan.deep : r.sig = s
      BY <1>1, <2>1 DEF FlagOf
    <2>3. s \in Flagged \cup {r.sig : r \in DeepCandidates}
      BY <1>1, <2>2 DEF Surviving, Flagged
    <2>4. CASE LeafOf[s.site] # 0
      <3>1. GroupOf(s) \in Excluded
        <4>1. s \in {t \in Flagged \cup {r.sig : r \in DeepCandidates} :
                      /\ LeafOf[t.site] # 0
                      /\ setting.legacy \/ FlagOf(t) # "none"}
          BY <2>1, <2>3, <2>4
        <4> QED BY <4>1 DEF Excluded
      <3>2. DOMAIN plan.distilled = Unanimous \ Excluded
        BY <1>1
      <3> QED BY <2>2, <3>1, <3>2
    <2>5. CASE LeafOf[s.site] = 0
      <3>1. GroupOf(s).leaf = 0 /\ \A g \in Groups : g.leaf # 0
        BY <2>5 DEF GroupOf, Groups
      <3>2. GroupOf(s) \notin Unanimous
        BY <3>1 DEF Unanimous
      <3> QED BY <1>1, <2>2, <3>2
    <2> QED BY <2>2, <2>4, <2>5
  <1> QED BY <1>2, <1>3, <1>4 DEF ContextReachable

\* The verdict of a group is that of each member, or stricter.
LEMMA Strict == TrainedKnown /\ plan = Planned => PinAtLeastAsStrict
  <1> SUFFICES ASSUME TrainedKnown, plan = Planned,
                      NEW g \in DOMAIN plan.distilled, NEW s \in Members(g)
               PROVE  plan.distilled[g] \in {plan.main[s].backend} \cup
                        (IF plan.main[s].backend = "Arena" THEN {SizeDefault(g.class)} ELSE {})
    BY DEF PinAtLeastAsStrict
  <1>1. /\ plan.main = [x \in Trained |-> [backend |-> MainVerdict(x), flag |-> FlagOf(x)]]
        /\ plan.distilled = [h \in Unanimous \ Excluded |-> GroupVerdict(h)]
    BY DEF Planned
  <1>2. g \in Unanimous /\ s \in Trained /\ GroupOf(s) = g
    BY <1>1 DEF Members
  <1>3. plan.main[s].backend = MainVerdict(s) /\ plan.distilled[g] = GroupVerdict(g)
    BY <1>1, <1>2
  <1>4. s.class = g.class
    BY <1>2 DEF GroupOf
  <1> DEFINE x == CHOOSE y \in Members(g) : TRUE
  <1>5. trained[x].best = trained[s].best
    BY <1>2 DEF Unanimous
  <1>6. /\ MainVerdict(s) = Clamped(g.class, trained[s].best, DemoteFor(MainHeavy(s), g.class))
        /\ GroupVerdict(g) = Clamped(g.class, trained[s].best, DemoteFor(GroupHeavy(g), g.class))
    BY <1>4, <1>5, Zenon DEF MainVerdict, GroupVerdict
  <1>7. DemoteFor(MainHeavy(s), g.class) => DemoteFor(GroupHeavy(g), g.class)
    BY <1>2, HeavyCarriesOver DEF DemoteFor
  <1>8. SizeDefault(g.class) # "Arena"
    BY DEF SizeDefault
  <1> QED BY <1>3, <1>6, <1>7, <1>8 DEF Clamped

\* Nothing but what was trained and the settings enters the plan.
LEMMA PlanKept ==
  ASSUME UNCHANGED <<trained, fine, setting>>
  PROVE  Planned' = Planned
  <1>1. trained' = trained /\ fine' = fine /\ setting' = setting
    OBVIOUS
  <1>2. Trained' = Trained /\ Pulls' = Pulls
    BY <1>1 DEF Trained, Pulls
  <1>3. \A S : Volume(S)' = Volume(S)
    <2>1. \A S : Volume(S) = Sum(Pulls, S)
      BY DEF Volume, Sum
    <2>2. \A S : Volume(S)' = Sum(Pulls', S)
      BY DEF Volume, Sum, MapThenSumSet, MapThenFoldSet
    <2> QED BY <1>2, <2>1, <2>2
  <1>4. \A s : MainHeavy(s)' = MainHeavy(s)
    BY <1>1, <1>2, <1>3 DEF MainHeavy
  <1>5. \A h, c : DemoteFor(h, c)' = DemoteFor(h, c)
    BY <1>1 DEF DemoteFor
  <1>6. \A s : MainVerdict(s)' = MainVerdict(s)
    BY <1>1, <1>4 DEF MainVerdict, DemoteFor
  <1>7. ShallowCandidates' = ShallowCandidates
    BY <1>1, <1>2, <1>6 DEF ShallowCandidates
  <1>8. Flagged' = Flagged
    BY <1>7 DEF Flagged
  <1>9. \A s : ShallowMargin(s)' = ShallowMargin(s)
    BY <1>1, <1>6 DEF ShallowMargin
  <1>10. \A e : SizesOf(e)' = SizesOf(e)
    BY <1>2 DEF SizesOf
  <1>11. DeepCandidates' = DeepCandidates
    BY <1>1, <1>2, <1>6, <1>8, <1>9, <1>10 DEF DeepCandidates
  <1>12. \A r : FineVerdict(r)' = FineVerdict(r)
    BY <1>1, <1>4 DEF FineVerdict, DemoteFor
  <1>13. \A C : Surviving(C)' = Surviving(C)
    BY <1>6, <1>12 DEF Surviving
  <1>14. \A s : FlagOf(s)' = FlagOf(s)
    BY <1>7, <1>11, <1>13 DEF FlagOf
  <1>15. Groups' = Groups /\ \A g : Members(g)' = Members(g)
    BY <1>2 DEF Groups, Members
  <1>16. Unanimous' = Unanimous
    BY <1>1, <1>15 DEF Unanimous
  <1>17. \A g : GroupHeavy(g)' = GroupHeavy(g)
    BY <1>3, <1>15, <1>16 DEF GroupHeavy
  <1>18. \A g : GroupVerdict(g)' = GroupVerdict(g)
    BY <1>1, <1>15, <1>17 DEF GroupVerdict, DemoteFor
  <1>19. Excluded' = Excluded
    BY <1>1, <1>8, <1>11, <1>14 DEF Excluded
  <1> QED BY <1>2, <1>6, <1>7, <1>11, <1>13, <1>14, <1>16, <1>18, <1>19 DEF Planned

\* A freeze publishes contexts that can be reached, and a distilled table that is at
\* least as strict as the main one, for any signatures, statistics and demotion fraction
\* (freeze, freeze_fine and distill of bandit.rs).
THEOREM PlanAlways == FpSpec => []PlanSound
  <1>1. FpInit => PlanInv
    BY DEF FpInit, PlanInv, TrainedKnown, StatsOf
  <1>2. PlanInv /\ [FreezePolicy]_fpVars => PlanInv'
    <2> SUFFICES ASSUME PlanInv, [FreezePolicy]_fpVars PROVE PlanInv'
      OBVIOUS
    <2>1. UNCHANGED <<trained, fine, setting>> /\ plan' \in {plan, Planned}
      BY DEF FreezePolicy, fpVars
    <2>2. TrainedKnown'
      BY <2>1 DEF PlanInv, TrainedKnown
    <2>3. Planned' = Planned
      BY <2>1, PlanKept
    <2> QED BY <2>1, <2>2, <2>3 DEF PlanInv
  <1>3. PlanInv => PlanSound
    <2>1. CASE plan = NotFrozen
      BY <2>1 DEF PlanSound, ContextReachable, PinAtLeastAsStrict
    <2> QED BY <2>1, Reachable, Strict DEF PlanInv, PlanSound
  <1> QED BY <1>1, <1>2, <1>3, PTL DEF FpSpec

-----------------------------------------------------------------------------
(***************************************************************************)
(* LiveServer.  A block that was served is tracked or in the hand of one   *)
(* request, and the stamps are below the last one.                         *)
(***************************************************************************)

Steps == {"idle", "store", "routes", "inference", "freeze", "export", "forget", "clear model",
          "clear routes", "training", "leave inference", "clear table", "alloc", "free",
          "serve", "track", "match", "give"}
Asked == [at: Steps, model: Int, size: Nat, block: Nat, seen: Nat, elapsed: Nat]
Entry == [block: Nat, size: Nat]

LiveTypeOK ==
  /\ request \in [Requests -> Asked]
  /\ tracked \in Seq(Entry) /\ served \in Seq(Int)
  /\ lastStamp \in Nat /\ clock \in Nat /\ stamps \in Seq(Nat)
  /\ made \in Nat /\ asked \in Nat
  /\ livePolicy \in Int /\ poisoned \in BOOLEAN /\ inference \in BOOLEAN

InHand(r) == request[r].at \in {"track", "give"}

\* What is tracked or in a request's hands was served.
BlocksKnown ==
  /\ \A i \in DOMAIN tracked : tracked[i].block \in DOMAIN served
  /\ \A r \in Requests : InHand(r) => request[r].block \in DOMAIN served

\* The last stamp is the greatest.
StampsBelow ==
  /\ \A i \in 1 .. Len(stamps) : stamps[i] <= lastStamp
  /\ StampsIncrease

LiveInv == LiveTypeOK /\ BlocksKnown /\ BlocksPaired /\ StampsBelow

\* The fields of a request under way.
LEMMA AskedFields ==
  \A q \in Asked : /\ q.at \in Steps /\ q.model \in Int /\ q.size \in Nat /\ q.block \in Nat
                   /\ q.seen \in Nat /\ q.elapsed \in Nat
  BY DEF Asked

\* What Doing makes is one.
LEMMA DoingTyped ==
  /\ \A p \in Steps, m \in Int, n \in Nat, s \in Nat, e \in Nat : Doing(p, m, n, s, e) \in Asked
  /\ \A p, m, n, s, e : Doing(p, m, n, s, e).at = p
  /\ AtRest \in Asked /\ AtRest.at = "idle"
  BY DEF Doing, AtRest, Asked, Steps

\* So is one with its place changed.
LEMMA SetAsked ==
  /\ \A q \in Asked, p \in Steps :
       [q EXCEPT !.at = p] \in Asked /\ [q EXCEPT !.at = p].at = p
       /\ [q EXCEPT !.at = p].block = q.block /\ [q EXCEPT !.at = p].size = q.size
  /\ \A q \in Asked, m \in Int :
       [q EXCEPT !.model = m] \in Asked /\ [q EXCEPT !.model = m].at = q.at
  /\ \A q \in Asked, s \in Nat :
       [q EXCEPT !.seen = s] \in Asked /\ [q EXCEPT !.seen = s].at = q.at
  /\ \A q \in Asked, b \in Nat :
       [q EXCEPT !.block = b] \in Asked /\ [q EXCEPT !.block = b].at = q.at
       /\ [q EXCEPT !.block = b].block = b /\ [q EXCEPT !.block = b].size = q.size
  BY DEF Asked

\* The request of r becomes q, and every other stays.
Becomes(r, q) ==
  /\ q \in Asked /\ request' \in [Requests -> Asked] /\ request'[r] = q
  /\ \A p \in Requests \ {r} : request'[p] = request[p]

\* One request changes in the table of all.
LEMMA SetRequest ==
  ASSUME request \in [Requests -> Asked], NEW r \in Requests, NEW q \in Asked,
         request' = [request EXCEPT ![r] = q]
  PROVE  Becomes(r, q)
  BY DEF Becomes

\* A request moves on.
LEMMA MovesOn ==
  ASSUME request \in [Requests -> Asked], NEW r \in Requests, NEW p \in Steps,
         Proceeds(r, p)
  PROVE  Becomes(r, [request[r] EXCEPT !.at = p])
  <1>1. request' = [request EXCEPT ![r] = [request[r] EXCEPT !.at = p]]
    BY DEF Proceeds
  <1>2. [request[r] EXCEPT !.at = p] \in Asked
    BY SetAsked
  <1> QED BY <1>1, <1>2, SetRequest

\* A step that has no block in hand, before or after.
Aside(r) ==
  /\ request' \in [Requests -> Asked] /\ ~InHand(r) /\ ~InHand(r)'
  /\ \A p \in Requests \ {r} : request'[p] = request[p]

\* A request without a block in hand moves on and takes none.
LEMMA AsideByMove ==
  ASSUME LiveTypeOK, NEW r \in Requests, NEW p \in Steps, ~InHand(r),
         p \notin {"track", "give"}, Proceeds(r, p)
  PROVE  Aside(r)
  <1>1. Becomes(r, [request[r] EXCEPT !.at = p])
    BY MovesOn DEF LiveTypeOK
  <1>2. [request[r] EXCEPT !.at = p].at = p
    BY SetAsked DEF LiveTypeOK
  <1> QED BY <1>1, <1>2 DEF Aside, Becomes, InHand

\* It is answered.
LEMMA AsideByAnswer ==
  ASSUME LiveTypeOK, NEW r \in Requests, ~InHand(r), Answer(r)
  PROVE  Aside(r)
  <1>1. Becomes(r, AtRest)
    BY DoingTyped, SetRequest DEF LiveTypeOK, Answer
  <1> QED BY <1>1, DoingTyped DEF Aside, Becomes, InHand

\* It is replaced by a new one.
LEMMA AsideByRequest ==
  ASSUME LiveTypeOK, NEW r \in Requests, NEW q \in Asked, Request(r, q),
         q.at \notin {"track", "give"}
  PROVE  Aside(r) /\ asked' = asked + 1
  <1>1. Becomes(r, q)
    BY SetRequest DEF LiveTypeOK, Request
  <1>2. ~InHand(r)
    BY DoingTyped DEF InHand, Request
  <1> QED BY <1>1, <1>2 DEF Aside, Becomes, InHand, Request

\* What most steps do: no block changes hands, no stamp is given.
Quiet ==
  /\ request' = request \/ \E r \in Requests : Aside(r)
  /\ UNCHANGED <<served, lastStamp, stamps>> /\ tracked' \in {tracked, <<>>}
  /\ clock' \in Nat /\ made' \in Nat /\ asked' \in Nat /\ livePolicy' \in Int
  /\ poisoned' \in BOOLEAN /\ inference' \in BOOLEAN

\* Such a step keeps what is known of the blocks.
LEMMA AsideKeeps ==
  ASSUME BlocksKnown, BlocksPaired, served' = served, tracked' \in {tracked, <<>>},
         request' = request \/ \E r \in Requests : Aside(r)
  PROVE  BlocksKnown' /\ BlocksPaired'
  <1>2. \A r \in Requests :
          InHand(r)' => InHand(r) /\ request'[r].block = request[r].block
                        /\ request'[r].size = request[r].size
    BY DEF Aside, InHand
  <1>3. BlocksKnown'
    <2>1. \A r \in Requests : InHand(r)' => request'[r].block \in DOMAIN served'
      BY <1>2 DEF BlocksKnown
    <2>2. \A i \in DOMAIN tracked' : tracked'[i].block \in DOMAIN served'
      BY DEF BlocksKnown
    <2> QED BY <2>1, <2>2 DEF BlocksKnown
  <1>4. BlocksPaired'
    BY <1>2 DEF BlocksPaired, InHand
  <1> QED BY <1>3, <1>4

\* A step that touches neither blocks nor stamps keeps the invariant.
LEMMA QuietKeeps == ASSUME LiveInv, Quiet PROVE LiveInv'
  <1>1. LiveTypeOK'
    <2>1. request' \in [Requests -> Asked]
      BY DEF LiveInv, LiveTypeOK, Quiet, Aside
    <2>2. tracked' \in Seq(Entry) /\ served' \in Seq(Int) /\ stamps' \in Seq(Nat)
      <3>1. <<>> \in Seq(Entry)
        OBVIOUS
      <3>2. CASE tracked' = tracked
        BY <3>2 DEF LiveInv, LiveTypeOK, Quiet
      <3>3. CASE tracked' = <<>>
        BY <3>1, <3>3 DEF LiveInv, LiveTypeOK, Quiet
      <3> QED BY <3>2, <3>3 DEF Quiet
    <2> QED BY <2>1, <2>2 DEF LiveInv, LiveTypeOK, Quiet
  <1>3. BlocksKnown' /\ BlocksPaired'
    BY AsideKeeps DEF LiveInv, Quiet
  <1>5. StampsBelow'
    BY DEF LiveInv, Quiet, StampsBelow, StampsIncrease
  <1> QED BY <1>1, <1>3, <1>5 DEF LiveInv

\* All the requests about policy, model and routes are such steps.
LEMMA QuietSteps ==
  ASSUME LiveInv
  PROVE  /\ Tick => Quiet
         /\ \A r \in Requests :
              /\ Upload(r) => Quiet
              /\ FreezeLive(r) => Quiet
              /\ FreezeAllocator(r) => Quiet
              /\ ExportLive(r) => Quiet
              /\ StoreModel(r) => Quiet
              /\ StoreRoutes(r) => Quiet
              /\ SetInference(r) => Quiet
              /\ Reset(r) => Quiet
              /\ ForgetBlocks(r) => Quiet
              /\ ClearModel(r) => Quiet
              /\ ClearRoutes(r) => Quiet
              /\ \A s \in Strategies : SetStrategy(r, s) => Quiet
              /\ LeaveInference(r) => Quiet
              /\ ClearTable(r) => Quiet
              /\ \A n \in RecordSizes, op \in {"alloc", "free"} : Telemetry(r, op, n) => Quiet
  <1> DEFINE Rest == /\ UNCHANGED <<served, lastStamp, stamps>> /\ tracked' \in {tracked, <<>>}
                     /\ clock' \in Nat /\ made' \in Nat /\ asked' \in Nat /\ livePolicy' \in Int
                     /\ poisoned' \in BOOLEAN /\ inference' \in BOOLEAN
  <1>t. /\ LiveTypeOK /\ clock \in Nat /\ made \in Nat /\ asked \in Nat /\ livePolicy \in Int
        /\ poisoned \in BOOLEAN /\ inference \in BOOLEAN /\ lastStamp \in Nat
    BY DEF LiveInv, LiveTypeOK
  <1>q. ASSUME NEW r \in Requests, Aside(r), Rest PROVE Quiet
    BY <1>q DEF Quiet
  <1>m. \A r \in Requests, p \in Steps : ~InHand(r) /\ p \notin {"track", "give"}
                                            /\ Proceeds(r, p) => Aside(r)
    BY <1>t, AsideByMove
  <1>a. \A r \in Requests : ~InHand(r) /\ Answer(r) => Aside(r)
    BY <1>t, AsideByAnswer
  <1>r. \A r \in Requests, p \in Steps, m \in Int, n \in Nat, s \in Nat, e \in Nat :
          p \notin {"track", "give"} /\ Request(r, Doing(p, m, n, s, e))
            => Aside(r) /\ asked' = asked + 1
    <2> TAKE r \in Requests, p \in Steps, m \in Int, n \in Nat, s \in Nat, e \in Nat
    <2>1. Doing(p, m, n, s, e) \in Asked /\ Doing(p, m, n, s, e).at = p
      BY DoingTyped
    <2> QED BY <1>t, <2>1, AsideByRequest
  <1>x. Tick => Quiet
    BY <1>t DEF Tick, Quiet, serverMode, engine, blocks, time
  <1> SUFFICES ASSUME NEW r \in Requests
               PROVE  /\ Upload(r) => Quiet
                      /\ FreezeLive(r) => Quiet
                      /\ FreezeAllocator(r) => Quiet
                      /\ ExportLive(r) => Quiet
                      /\ StoreModel(r) => Quiet
                      /\ StoreRoutes(r) => Quiet
                      /\ SetInference(r) => Quiet
                      /\ Reset(r) => Quiet
                      /\ ForgetBlocks(r) => Quiet
                      /\ ClearModel(r) => Quiet
                      /\ ClearRoutes(r) => Quiet
                      /\ \A s \in Strategies : SetStrategy(r, s) => Quiet
                      /\ LeaveInference(r) => Quiet
                      /\ ClearTable(r) => Quiet
                      /\ \A n \in RecordSizes, op \in {"alloc", "free"} :
                           Telemetry(r, op, n) => Quiet
    BY <1>x
  <1> HIDE DEF Rest
  <1>1. Upload(r) => Quiet
    <2> SUFFICES ASSUME Upload(r) PROVE Quiet
      OBVIOUS
    <2>1. made' \in Nat /\ Request(r, Doing("store", made', 0, 0, 0)) /\ "store" \in Steps
      BY <1>t DEF Upload, Steps
    <2>2. Aside(r) /\ asked' = asked + 1
      BY <1>r, <2>1
    <2>3. Rest
      BY <1>t, <2>1, <2>2 DEF Upload, Rest, serverMode, engine, blocks, time
    <2> QED BY <1>q, <2>2, <2>3
  <1>2. FreezeLive(r) => Quiet
    <2> SUFFICES ASSUME FreezeLive(r) PROVE Quiet
      OBVIOUS
    <2>1. \E p \in Steps : p \notin {"track", "give"} /\ Request(r, Doing(p, 0, 0, 0, 0))
      BY DEF FreezeLive, Steps, AtRest
    <2>2. Aside(r) /\ asked' = asked + 1
      BY <1>r, <2>1
    <2>3. Rest
      BY <1>t, <2>2 DEF FreezeLive, Rest, serverMode, engine, blocks, time
    <2> QED BY <1>q, <2>2, <2>3
  <1>3. FreezeAllocator(r) => Quiet
    <2> SUFFICES ASSUME FreezeAllocator(r) PROVE Quiet
      OBVIOUS
    <2>1. ~InHand(r) /\ (Answer(r) \/ Proceeds(r, "export")) /\ "export" \in Steps
      BY DEF FreezeAllocator, On, InHand, Steps
    <2>2. Aside(r)
      BY <1>m, <1>a, <2>1
    <2>3. /\ UNCHANGED <<clock, asked, tracked, served, lastStamp, stamps, inference>>
          /\ \/ UNCHANGED <<livePolicy, made>>
             \/ made' = made + 1 /\ livePolicy' = made'
          /\ poisoned' = poisoned \/ poisoned' = TRUE
      BY DEF FreezeAllocator, On, serverMode, engine, blocks, time
    <2>a. poisoned' \in BOOLEAN
      BY <1>t, <2>3, Zenon
    <2>b. made' \in Nat /\ livePolicy' \in Int
      BY <1>t, <2>3
    <2>4. Rest
      BY <1>t, <2>3, <2>a, <2>b DEF Rest
    <2> QED BY <1>q, <2>2, <2>4
  <1>4. ExportLive(r) => Quiet
    <2> SUFFICES ASSUME ExportLive(r) PROVE Quiet
      OBVIOUS
    <2> DEFINE m == IF poisoned \/ livePolicy = LiveTraining THEN 0 ELSE livePolicy
               p == [[request[r] EXCEPT !.at = "store"] EXCEPT !.model = m]
    <2>1. request[r] \in Asked /\ m \in Int /\ "store" \in Steps
      BY <1>t DEF LiveTypeOK, Steps
    <2>a. [request[r] EXCEPT !.at = "store"] \in Asked
          /\ [request[r] EXCEPT !.at = "store"].at = "store"
      BY <2>1, SetAsked
    <2> HIDE DEF m
    <2>2. p \in Asked /\ p.at = "store"
      BY <2>1, <2>a, SetAsked
    <2>3. request' = [request EXCEPT ![r] = p]
      BY <2>1 DEF ExportLive, Asked, m
    <2> HIDE DEF p
    <2>4. Becomes(r, p)
      BY <1>t, <2>2, <2>3, SetRequest DEF LiveTypeOK
    <2>5. Aside(r)
      BY <2>2, <2>4 DEF Aside, Becomes, InHand, ExportLive, On
    <2>6. Rest
      BY <1>t DEF ExportLive, On, Rest, serverMode, engine, blocks, time
    <2> QED BY <1>q, <2>5, <2>6
  <1>5. StoreModel(r) => Quiet
    <2> SUFFICES ASSUME StoreModel(r) PROVE Quiet
      OBVIOUS
    <2>1. ~InHand(r) /\ (Proceeds(r, "routes"))
      BY DEF StoreModel, On, InHand
    <2>2. Aside(r)
      BY <1>m, <1>a, <2>1 DEF Steps
    <2>3. Rest
      BY <1>t DEF StoreModel, On, Rest, serverMode, engine, blocks, time
    <2> QED BY <1>q, <2>2, <2>3
  <1>6. StoreRoutes(r) => Quiet
    <2> SUFFICES ASSUME StoreRoutes(r) PROVE Quiet
      OBVIOUS
    <2>1. ~InHand(r) /\ (Proceeds(r, "inference"))
      BY DEF StoreRoutes, On, InHand
    <2>2. Aside(r)
      BY <1>m, <1>a, <2>1 DEF Steps
    <2>3. Rest
      BY <1>t DEF StoreRoutes, On, Rest, serverMode, engine, blocks, time
    <2> QED BY <1>q, <2>2, <2>3
  <1>7. SetInference(r) => Quiet
    <2> SUFFICES ASSUME SetInference(r) PROVE Quiet
      OBVIOUS
    <2>1. ~InHand(r) /\ (Answer(r))
      BY DEF SetInference, On, InHand
    <2>2. Aside(r)
      BY <1>m, <1>a, <2>1 DEF Steps
    <2>3. Rest
      BY <1>t DEF SetInference, On, Rest, serverMode, engine, blocks, time
    <2> QED BY <1>q, <2>2, <2>3
  <1>9. ForgetBlocks(r) => Quiet
    <2> SUFFICES ASSUME ForgetBlocks(r) PROVE Quiet
      OBVIOUS
    <2>1. ~InHand(r) /\ (Proceeds(r, "clear model"))
      BY DEF ForgetBlocks, On, InHand
    <2>2. Aside(r)
      BY <1>m, <1>a, <2>1 DEF Steps
    <2>3. Rest
      BY <1>t DEF ForgetBlocks, On, Rest, serverMode, engine, blocks, time
    <2> QED BY <1>q, <2>2, <2>3
  <1>10. ClearModel(r) => Quiet
    <2> SUFFICES ASSUME ClearModel(r) PROVE Quiet
      OBVIOUS
    <2>1. ~InHand(r) /\ (Proceeds(r, "clear routes"))
      BY DEF ClearModel, On, InHand
    <2>2. Aside(r)
      BY <1>m, <1>a, <2>1 DEF Steps
    <2>3. Rest
      BY <1>t DEF ClearModel, On, Rest, serverMode, engine, blocks, time
    <2> QED BY <1>q, <2>2, <2>3
  <1>11. ClearRoutes(r) => Quiet
    <2> SUFFICES ASSUME ClearRoutes(r) PROVE Quiet
      OBVIOUS
    <2>1. ~InHand(r) /\ (Proceeds(r, "training"))
      BY DEF ClearRoutes, On, InHand
    <2>2. Aside(r)
      BY <1>m, <1>a, <2>1 DEF Steps
    <2>3. Rest
      BY <1>t DEF ClearRoutes, On, Rest, serverMode, engine, blocks, time
    <2> QED BY <1>q, <2>2, <2>3
  <1>13. LeaveInference(r) => Quiet
    <2> SUFFICES ASSUME LeaveInference(r) PROVE Quiet
      OBVIOUS
    <2>1. ~InHand(r) /\ (Answer(r) \/ Proceeds(r, "clear table"))
      BY DEF LeaveInference, On, InHand
    <2>2. Aside(r)
      BY <1>m, <1>a, <2>1 DEF Steps
    <2>3. Rest
      BY <1>t DEF LeaveInference, On, Rest, serverMode, engine, blocks, time
    <2> QED BY <1>q, <2>2, <2>3
  <1>14. ClearTable(r) => Quiet
    <2> SUFFICES ASSUME ClearTable(r) PROVE Quiet
      OBVIOUS
    <2>1. ~InHand(r) /\ (Answer(r))
      BY DEF ClearTable, On, InHand
    <2>2. Aside(r)
      BY <1>m, <1>a, <2>1 DEF Steps
    <2>3. Rest
      BY <1>t DEF ClearTable, On, Rest, serverMode, engine, blocks, time
    <2> QED BY <1>q, <2>2, <2>3
  <1>8. Reset(r) => Quiet
    <2> SUFFICES ASSUME Reset(r) PROVE Quiet
      OBVIOUS
    <2>1. "forget" \in Steps /\ Request(r, Doing("forget", 0, 0, 0, 0))
      BY DEF Reset, Steps
    <2>2. Aside(r) /\ asked' = asked + 1
      BY <1>r, <2>1
    <2>3. Rest
      BY <1>t, <2>2 DEF Reset, Rest, serverMode, engine, blocks, time, LiveTraining
    <2> QED BY <1>q, <2>2, <2>3
  <1>12. ASSUME NEW to \in Strategies, SetStrategy(r, to) PROVE Quiet
    <2>1. \E p \in Steps : p \notin {"track", "give"} /\ Request(r, Doing(p, 0, 0, 0, 0))
      BY <1>12 DEF SetStrategy, Steps
    <2>2. Aside(r) /\ asked' = asked + 1
      BY <1>r, <2>1
    <2>b. UNCHANGED <<tracked, served, lastStamp, stamps, clock, made, livePolicy,
                      poisoned, inference>>
      BY <1>12 DEF SetStrategy, engine, blocks, time
    <2>3. Rest
      BY <1>t, <2>b, <2>2 DEF Rest
    <2> QED BY <1>q, <2>2, <2>3
  <1>15. ASSUME NEW n \in RecordSizes, NEW op \in {"alloc", "free"}, Telemetry(r, op, n)
         PROVE  Quiet
    <2>1. op \in Steps /\ op \notin {"track", "give"} /\ n \in Nat /\ Request(r, Doing(op, 0, n, lastStamp, clock))
      BY <1>15, LiveShape DEF Telemetry, Steps
    <2>a. /\ Doing(op, 0, n, lastStamp, clock) \in Asked
          /\ Doing(op, 0, n, lastStamp, clock).at = op
      BY <1>t, <2>1, DoingTyped
    <2>2. Aside(r) /\ asked' = asked + 1
      BY <1>t, <2>1, <2>a, AsideByRequest
    <2>3. Rest
      BY <1>15, <1>t, <2>2 DEF Telemetry, Rest, serverMode, engine, blocks, time
    <2> QED BY <1>q, <2>2, <2>3
  <1> QED BY <1>1, <1>2, <1>3, <1>4, <1>5, <1>6, <1>7, <1>8, <1>9, <1>10, <1>11, <1>12,
             <1>13, 
             <1>14, <1>15

\* A stamp is above all before it.
LEMMA StampStepOf ==
  ASSUME LiveInv, NEW r \in Requests, Stamp(r) PROVE LiveInv'
  <1>1. /\ UNCHANGED <<tracked, served, clock, made, asked, livePolicy, poisoned, inference>>
        /\ request[r].at \in {"alloc", "free"} /\ request[r] \in Asked
    BY DEF Stamp, On, serverMode, engine, blocks, LiveInv, LiveTypeOK
  <1>2. ~InHand(r)
    BY <1>1 DEF InHand
  <1>3. CASE lastStamp = request[r].seen
    <2>1. lastStamp' = StampOf(r) /\ stamps' = Append(stamps, StampOf(r))
      BY <1>3 DEF Stamp
    <2>2. StampOf(r) \in Nat /\ lastStamp + StampStep <= StampOf(r)
      BY <1>1, <1>3, AskedFields, LiveShape DEF StampOf
    <2>3. \E p \in Steps : p \notin {"track", "give"} /\ Proceeds(r, p)
      BY <1>1, <1>3 DEF Stamp, Steps
    <2>4. Aside(r)
      BY <1>2, <2>3, AsideByMove DEF LiveInv
    <2>5. BlocksKnown' /\ BlocksPaired'
      BY <1>1, <2>4, AsideKeeps DEF LiveInv
    <2>6. stamps \in Seq(Nat) /\ lastStamp \in Nat
      BY DEF LiveInv, LiveTypeOK
    <2>7. StampsBelow'
      <3>1. \A i \in 1 .. Len(stamps) : stamps[i] <= lastStamp /\ stamps[i] \in Nat
        BY <2>6 DEF LiveInv, StampsBelow
      <3>2. /\ Len(stamps') = Len(stamps) + 1 /\ stamps'[Len(stamps) + 1] = StampOf(r)
            /\ \A i \in 1 .. Len(stamps) : stamps'[i] = stamps[i]
        BY <2>1, <2>2, <2>6
      <3>a. Len(stamps) \in Nat /\ StampStep \in Nat
        BY <2>6, LiveShape
      <3>3. \A i \in 1 .. Len(stamps') : stamps'[i] <= lastStamp'
        BY <2>1, <2>2, <2>6, <3>1, <3>2, <3>a
      <3>4. ASSUME NEW i \in 1 .. Len(stamps') - 1
            PROVE  stamps'[i] + StampStep <= stamps'[i + 1]
        <4>1. CASE i = Len(stamps)
          BY <2>2, <2>6, <3>1, <3>2, <3>a, <4>1
        <4>2. CASE i # Len(stamps)
          <5>1. i \in 1 .. Len(stamps) - 1 /\ i + 1 \in 1 .. Len(stamps)
            BY <3>2, <3>a, <4>2
          <5>2. stamps[i] + StampStep <= stamps[i + 1]
            BY <5>1 DEF LiveInv, StampsBelow, StampsIncrease
          <5> QED BY <3>2, <3>a, <5>1, <5>2
        <4> QED BY <4>1, <4>2
      <3> QED BY <3>3, <3>4 DEF StampsBelow, StampsIncrease
    <2>8. LiveTypeOK'
      BY <1>1, <2>1, <2>2, <2>4, <2>6 DEF LiveInv, LiveTypeOK, Aside
    <2> QED BY <2>5, <2>7, <2>8 DEF LiveInv
  <1>4. CASE lastStamp # request[r].seen
    <2> DEFINE q == [request[r] EXCEPT !.seen = lastStamp]
    <2>1. UNCHANGED <<lastStamp, stamps>> /\ request' = [request EXCEPT ![r] = q]
      BY <1>4 DEF Stamp, time
    <2>2. q \in Asked /\ q.at = request[r].at
      BY <1>1, SetAsked DEF LiveInv, LiveTypeOK
    <2> HIDE DEF q
    <2>3. Becomes(r, q)
      BY <2>1, <2>2, SetRequest DEF LiveInv, LiveTypeOK
    <2>4. Aside(r)
      BY <1>2, <2>2, <2>3 DEF Aside, Becomes, InHand
    <2>5. Quiet
      BY <1>1, <2>1, <2>4 DEF Quiet, LiveInv, LiveTypeOK
    <2> QED BY <2>5, QuietKeeps
  <1> QED BY <1>3, <1>4

\* A block is served, and is in the hand of its request.
LEMMA ServeStepOf ==
  ASSUME LiveInv, NEW r \in Requests, ServeLive(r) PROVE LiveInv'
  <1>1. /\ UNCHANGED <<tracked, lastStamp, stamps, clock, made, asked, livePolicy, poisoned,
                       inference>>
        /\ request[r] \in Asked /\ ~InHand(r)
    BY DEF ServeLive, On, serverMode, engine, time, LiveInv, LiveTypeOK, InHand
  <1>2. CASE Answer(r) /\ UNCHANGED served
    <2>1. Aside(r)
      BY <1>1, <1>2, AsideByAnswer DEF LiveInv
    <2>2. Quiet
      BY <1>1, <1>2, <2>1 DEF Quiet, LiveInv, LiveTypeOK
    <2> QED BY <2>2, QuietKeeps
  <1>3. CASE /\ served' = Append(served, request[r].size)
             /\ request' = [request EXCEPT ![r].at = "track", ![r].block = Len(served')]
    <2> DEFINE b == Len(served')
               q == [[request[r] EXCEPT !.at = "track"] EXCEPT !.block = b]
    <2>1. /\ served \in Seq(Int) /\ request[r].size \in Nat /\ tracked \in Seq(Entry)
          /\ request \in [Requests -> Asked]
      BY <1>1, AskedFields DEF LiveInv, LiveTypeOK
    <2>2. /\ b = Len(served) + 1 /\ b \in Nat /\ served' \in Seq(Int)
          /\ DOMAIN served' = DOMAIN served \cup {b} /\ b \notin DOMAIN served
          /\ served'[b] = request[r].size
          /\ \A c \in DOMAIN served : served'[c] = served[c]
      BY <1>3, <2>1
    <2>3. "track" \in Steps
      BY DEF Steps
    <2>a. /\ [request[r] EXCEPT !.at = "track"] \in Asked
          /\ [request[r] EXCEPT !.at = "track"].at = "track"
          /\ [request[r] EXCEPT !.at = "track"].size = request[r].size
      BY <1>1, <2>3, SetAsked
    <2>4. request' = [request EXCEPT ![r] = q]
      BY <1>1, <1>3, <2>1 DEF Asked
    <2> HIDE DEF b
    <2>5. q \in Asked /\ q.at = "track" /\ q.block = b /\ q.size = request[r].size
      <3> DEFINE x == [request[r] EXCEPT !.at = "track"]
      <3> HIDE DEF x
      <3>1. x \in Asked /\ x.at = "track" /\ x.size = request[r].size /\ q = [x EXCEPT !.block = b]
        BY <2>a DEF x
      <3>2. b \in Nat
        BY <2>2
      <3> HIDE DEF b, q
      <3> QED BY <3>1, <3>2, SetAsked
    <2> HIDE DEF q
    <2>6. Becomes(r, q)
      BY <2>1, <2>4, <2>5, SetRequest
    <2>7. /\ request'[r].block = b /\ request'[r].size = request[r].size
          /\ \A p \in Requests \ {r} : request'[p] = request[p]
      BY <2>5, <2>6 DEF Becomes
    <2>8. BlocksKnown'
      BY <1>1, <2>2, <2>7 DEF LiveInv, BlocksKnown, InHand
    <2>9. BlocksPaired'
      <3>1. /\ \A i \in DOMAIN tracked : tracked[i].block \in DOMAIN served
            /\ \A p \in Requests \ {r} : InHand(p) => request[p].block \in DOMAIN served
            /\ BlocksPaired
        BY DEF LiveInv, BlocksKnown
      <3> QED BY <1>1, <2>2, <2>7, <3>1 DEF BlocksPaired, InHand
    <2>10. LiveTypeOK'
      BY <1>1, <2>2, <2>6 DEF LiveInv, LiveTypeOK, Becomes
    <2>11. StampsBelow'
      BY <1>1 DEF LiveInv, StampsBelow, StampsIncrease
    <2> QED BY <2>8, <2>9, <2>10, <2>11 DEF LiveInv
  <1> QED BY <1>2, <1>3 DEF ServeLive

\* What was served is tracked.
LEMMA TrackStepOf ==
  ASSUME LiveInv, NEW r \in Requests, Track(r) PROVE LiveInv'
  <1> DEFINE e == [block |-> request[r].block, size |-> request[r].size]
             n == Len(tracked)
  <1>1. /\ UNCHANGED <<served, lastStamp, stamps, clock, made, asked, livePolicy, poisoned,
                       inference>>
        /\ request[r] \in Asked /\ InHand(r) /\ tracked' = Append(tracked, e)
        /\ tracked \in Seq(Entry) /\ request \in [Requests -> Asked]
    BY DEF Track, On, serverMode, engine, time, LiveInv, LiveTypeOK, InHand
  <1>2. Becomes(r, AtRest)
    BY <1>1, DoingTyped, SetRequest DEF Track, Answer
  <1>3. e \in Entry /\ e.block = request[r].block /\ e.size = request[r].size
    BY <1>1, AskedFields DEF Entry
  <1> HIDE DEF e
  <1>4. /\ tracked' \in Seq(Entry) /\ n \in Nat /\ DOMAIN tracked = 1 .. n
        /\ DOMAIN tracked' = 1 .. n + 1 /\ tracked'[n + 1] = e
        /\ \A i \in 1 .. n : tracked'[i] = tracked[i]
    BY <1>1, <1>3
  <1>5. /\ ~InHand(r)'
        /\ \A p \in Requests \ {r} : request'[p] = request[p]
    BY <1>2, DoingTyped DEF Becomes, InHand
  <1>6. /\ \A i \in 1 .. n : tracked[i].block # e.block
        /\ served[e.block] = e.size /\ e.block \in DOMAIN served
        /\ \A p \in Requests \ {r} : InHand(p) => request[p].block # e.block
    BY <1>1, <1>3, <1>4 DEF LiveInv, BlocksPaired, BlocksKnown, InHand
  <1>7. BlocksKnown'
    BY <1>1, <1>4, <1>5, <1>6 DEF LiveInv, BlocksKnown, InHand
  <1>8. BlocksPaired'
    <2>1. \A i, j \in DOMAIN tracked' : tracked'[i].block = tracked'[j].block => i = j
      BY <1>4, <1>6 DEF LiveInv, BlocksPaired
    <2>2. \A i \in DOMAIN tracked' : served'[tracked'[i].block] = tracked'[i].size
      BY <1>1, <1>4, <1>6 DEF LiveInv, BlocksPaired
    <2>3. \A p \in Requests : InHand(p)' =>
            /\ served'[request'[p].block] = request'[p].size
            /\ \A i \in DOMAIN tracked' : tracked'[i].block # request'[p].block
            /\ \A q \in Requests \ {p} : InHand(q)' => request'[q].block # request'[p].block
      BY <1>1, <1>4, <1>5, <1>6 DEF LiveInv, BlocksPaired, InHand
    <2> QED BY <2>1, <2>2, <2>3 DEF BlocksPaired, InHand
  <1>9. LiveTypeOK'
    BY <1>1, <1>2, <1>4 DEF LiveInv, LiveTypeOK, Becomes
  <1>10. StampsBelow'
    BY <1>1 DEF LiveInv, StampsBelow, StampsIncrease
  <1> QED BY <1>7, <1>8, <1>9, <1>10 DEF LiveInv

\* A free takes the newest tracked block of its size.
LEMMA MatchStepOf ==
  ASSUME LiveInv, NEW r \in Requests, Match(r) PROVE LiveInv'
  <1> DEFINE same == {i \in DOMAIN tracked : tracked[i].size = request[r].size}
             n == Len(tracked)
  <1>1. /\ UNCHANGED <<served, lastStamp, stamps, clock, made, asked, livePolicy, poisoned,
                       inference>>
        /\ request[r] \in Asked /\ ~InHand(r)
        /\ tracked \in Seq(Entry) /\ request \in [Requests -> Asked]
    BY DEF Match, On, serverMode, engine, time, LiveInv, LiveTypeOK, InHand
  <1>2. CASE same = {}
    <2>1. Aside(r) /\ tracked' = tracked
      BY <1>1, <1>2, AsideByAnswer DEF LiveInv, Match
    <2>2. Quiet
      BY <1>1, <2>1 DEF Quiet, LiveInv, LiveTypeOK
    <2> QED BY <2>2, QuietKeeps
  <1>3. CASE same # {}
    <2> DEFINE i == Max(same)
               q == [[request[r] EXCEPT !.at = "give"] EXCEPT !.block = tracked[i].block]
    <2>1. n \in Nat /\ DOMAIN tracked = 1 .. n /\ same \in SUBSET (1 .. n)
      BY <1>1
    <2>2. i \in same
      <3>1. same \in SUBSET (0 .. n)
        BY <2>1
      <3> QED BY <1>3, <2>1, <3>1, MaxOf
    <2>3. /\ request' = [request EXCEPT ![r].at = "give", ![r].block = tracked[i].block]
          /\ tracked' = Front([tracked EXCEPT ![i] = Last(tracked)])
      BY <1>3 DEF Match
    <2>4. i \in 1 .. n /\ tracked[i].size = request[r].size /\ n >= 1
      BY <2>1, <2>2
    <2> HIDE DEF i, same
    <2>5. tracked[i] \in Entry /\ tracked[n] \in Entry
      BY <1>1, <2>1, <2>4
    <2>6. tracked[i].block \in Nat
      BY <2>5 DEF Entry
    <2>a. /\ [request[r] EXCEPT !.at = "give"] \in Asked
          /\ [request[r] EXCEPT !.at = "give"].at = "give"
          /\ [request[r] EXCEPT !.at = "give"].size = request[r].size
      BY <1>1, SetAsked DEF Steps
    <2>7. request' = [request EXCEPT ![r] = q]
      BY <1>1, <2>3 DEF Asked
    <2>8. q \in Asked /\ q.at = "give" /\ q.block = tracked[i].block /\ q.size = request[r].size
      BY <2>6, <2>a, SetAsked
    <2> HIDE DEF q
    <2>9. Becomes(r, q)
      BY <1>1, <2>7, <2>8, SetRequest
    <2>10. /\ request'[r].block = tracked[i].block /\ request'[r].size = tracked[i].size
           /\ InHand(r)'
           /\ \A p \in Requests \ {r} : request'[p] = request[p]
      BY <2>4, <2>8, <2>9 DEF Becomes, InHand
    <2> DEFINE s == [tracked EXCEPT ![i] = tracked[n]]
    <2>11. s \in Seq(Entry) /\ Len(s) = n
           /\ \A j \in 1 .. n : s[j] = IF j = i THEN tracked[n] ELSE tracked[j]
      BY <1>1, <2>1, <2>4, <2>5
    <2>12. tracked' = SubSeq(s, 1, n - 1)
      BY <2>3, <2>11 DEF Front, Last
    <2> HIDE DEF s
    <2>13. /\ tracked' \in Seq(Entry) /\ DOMAIN tracked' = 1 .. n - 1
           /\ \A j \in 1 .. n - 1 : tracked'[j] = s[j]
      BY <2>1, <2>4, <2>11, <2>12
    <2>14. \A j \in 1 .. n - 1 : tracked'[j] = IF j = i THEN tracked[n] ELSE tracked[j]
      BY <2>1, <2>11, <2>13
    <2> HIDE DEF n
    <2>15. \A j \in 1 .. n - 1 : \E k \in 1 .. n : k # i /\ tracked'[j] = tracked[k]
      BY <2>1, <2>4, <2>14
    <2>16. BlocksKnown'
      <3>1. \A j \in DOMAIN tracked : tracked[j].block \in DOMAIN served
        BY DEF LiveInv, BlocksKnown
      <3>2. \A j \in DOMAIN tracked' : tracked'[j].block \in DOMAIN served'
        BY <1>1, <2>1, <2>13, <2>15, <3>1
      <3>3. \A p \in Requests : InHand(p)' => request'[p].block \in DOMAIN served'
        BY <1>1, <2>1, <2>4, <2>10, <3>1 DEF LiveInv, BlocksKnown, InHand
      <3> QED BY <3>2, <3>3 DEF BlocksKnown
    <2>17. BlocksPaired'
      <3>1. \A j, k \in 1 .. n : tracked[j].block = tracked[k].block => j = k
        BY <2>1 DEF LiveInv, BlocksPaired
      <3>2. \A j \in 1 .. n : served[tracked[j].block] = tracked[j].size
        BY <2>1 DEF LiveInv, BlocksPaired
      <3>3. \A p \in Requests : InHand(p) =>
              /\ served[request[p].block] = request[p].size
              /\ \A j \in 1 .. n : tracked[j].block # request[p].block
              /\ \A x \in Requests \ {p} : InHand(x) => request[x].block # request[p].block
        BY <2>1 DEF LiveInv, BlocksPaired, InHand
      <3>4. \A j, k \in DOMAIN tracked' : tracked'[j].block = tracked'[k].block => j = k
        BY <2>1, <2>4, <2>13, <2>14, <3>1
      <3>5. \A j \in DOMAIN tracked' : served'[tracked'[j].block] = tracked'[j].size
        BY <1>1, <2>13, <2>15, <3>2
      <3>6. ASSUME NEW p \in Requests, InHand(p)'
            PROVE  /\ served'[request'[p].block] = request'[p].size
                   /\ \A j \in DOMAIN tracked' : tracked'[j].block # request'[p].block
                   /\ \A x \in Requests \ {p} : InHand(x)' => request'[x].block # request'[p].block
        <4>1. CASE p = r
          <5>1. \A j \in DOMAIN tracked' : tracked'[j].block # request'[p].block
            BY <2>4, <2>10, <2>13, <2>15, <3>1, <4>1
          <5>2. \A x \in Requests \ {p} : InHand(x)' => request'[x].block # request'[p].block
            BY <2>4, <2>10, <3>3, <4>1 DEF InHand
          <5> QED BY <1>1, <2>4, <2>10, <3>2, <4>1, <5>1, <5>2
        <4>2. CASE p # r
          <5>1. request'[p] = request[p] /\ InHand(p)
            BY <2>10, <3>6, <4>2 DEF InHand
          <5>2. \A j \in DOMAIN tracked' : tracked'[j].block # request'[p].block
            BY <2>13, <2>15, <3>3, <5>1
          <5>3. \A x \in Requests \ {p} : InHand(x)' => request'[x].block # request'[p].block
            BY <2>4, <2>10, <3>3, <5>1 DEF InHand
          <5> QED BY <1>1, <3>3, <5>1, <5>2, <5>3
        <4> QED BY <4>1, <4>2
      <3> QED BY <3>4, <3>5, <3>6 DEF BlocksPaired, InHand
    <2>18. LiveTypeOK'
      BY <1>1, <2>9, <2>13 DEF LiveInv, LiveTypeOK, Becomes
    <2>19. StampsBelow'
      BY <1>1 DEF LiveInv, StampsBelow, StampsIncrease
    <2> QED BY <2>16, <2>17, <2>18, <2>19 DEF LiveInv
  <1> QED BY <1>2, <1>3

\* The block taken is given back.
LEMMA GiveStepOf ==
  ASSUME LiveInv, NEW r \in Requests, GiveLive(r) PROVE LiveInv'
  <1> DEFINE b == request[r].block
  <1>1. /\ UNCHANGED <<tracked, lastStamp, stamps, clock, made, asked, livePolicy, poisoned,
                       inference>>
        /\ request[r] \in Asked /\ InHand(r) /\ served' = [served EXCEPT ![b] = @ - request[r].size]
        /\ tracked \in Seq(Entry) /\ request \in [Requests -> Asked] /\ served \in Seq(Int)
    BY DEF GiveLive, On, serverMode, engine, time, LiveInv, LiveTypeOK, InHand
  <1>2. Becomes(r, AtRest)
    BY <1>1, DoingTyped, SetRequest DEF GiveLive, Answer
  <1>3. b \in DOMAIN served /\ request[r].size \in Int
    BY <1>1, AskedFields DEF LiveInv, BlocksKnown
  <1>4. /\ served' \in Seq(Int) /\ DOMAIN served' = DOMAIN served
        /\ \A c \in DOMAIN served : c # b => served'[c] = served[c]
    BY <1>1, <1>3
  <1>5. /\ ~InHand(r)'
        /\ \A p \in Requests \ {r} : request'[p] = request[p]
    BY <1>2, DoingTyped DEF Becomes, InHand
  <1>6. /\ \A i \in DOMAIN tracked : tracked[i].block # b /\ tracked[i].block \in DOMAIN served
        /\ \A p \in Requests \ {r} : InHand(p) =>
             request[p].block # b /\ request[p].block \in DOMAIN served
    BY <1>1 DEF LiveInv, BlocksPaired, BlocksKnown, InHand
  <1> HIDE DEF b
  <1>7. BlocksKnown'
    BY <1>1, <1>4, <1>5 DEF LiveInv, BlocksKnown, InHand
  <1>8. BlocksPaired'
    <2>1. \A i, j \in DOMAIN tracked' : tracked'[i].block = tracked'[j].block => i = j
      BY <1>1 DEF LiveInv, BlocksPaired
    <2>2. \A i \in DOMAIN tracked' : served'[tracked'[i].block] = tracked'[i].size
      <3>1. \A i \in DOMAIN tracked : served[tracked[i].block] = tracked[i].size
        BY DEF LiveInv, BlocksPaired
      <3> QED BY <1>1, <1>4, <1>6, <3>1
    <2>3. ASSUME NEW p \in Requests, InHand(p)'
          PROVE  /\ served'[request'[p].block] = request'[p].size
                 /\ \A i \in DOMAIN tracked' : tracked'[i].block # request'[p].block
                 /\ \A x \in Requests \ {p} : InHand(x)' => request'[x].block # request'[p].block
      <3>1. p # r /\ request'[p] = request[p] /\ InHand(p)
        BY <1>5, <2>3 DEF InHand
      <3>2. /\ served[request[p].block] = request[p].size
            /\ \A i \in DOMAIN tracked : tracked[i].block # request[p].block
            /\ \A x \in Requests \ {p} : InHand(x) => request[x].block # request[p].block
        BY <3>1 DEF LiveInv, BlocksPaired, InHand
      <3>3. served'[request'[p].block] = request'[p].size
        BY <1>4, <1>6, <3>1, <3>2
      <3>4. \A x \in Requests \ {p} : InHand(x)' => request'[x].block # request'[p].block
        BY <1>5, <3>1, <3>2 DEF InHand
      <3> QED BY <1>1, <3>1, <3>2, <3>3, <3>4
    <2> QED BY <2>1, <2>2, <2>3 DEF BlocksPaired, InHand
  <1>9. LiveTypeOK'
    BY <1>1, <1>2, <1>4 DEF LiveInv, LiveTypeOK, Becomes
  <1>10. StampsBelow'
    BY <1>1 DEF LiveInv, StampsBelow, StampsIncrease
  <1> QED BY <1>7, <1>8, <1>9, <1>10 DEF LiveInv

\* The invariant holds of a server that starts.
LEMMA LiveStart == LiveInit => LiveInv
  <1> SUFFICES ASSUME LiveInit PROVE LiveInv
    OBVIOUS
  <1>1. request \in [Requests -> Asked] /\ \A r \in Requests : ~InHand(r)
    BY DoingTyped DEF LiveInit, InHand
  <1>2. LiveTypeOK
    <2>1. tracked \in Seq(Entry) /\ served \in Seq(Int) /\ stamps \in Seq(Nat)
      BY DEF LiveInit
    <2>2. poisoned \in BOOLEAN /\ inference \in BOOLEAN
      BY Zenon DEF LiveInit
    <2> QED BY <1>1, <2>1, <2>2 DEF LiveInit, LiveTypeOK, LiveTraining
  <1> QED BY <1>1, <1>2
          DEF LiveInit, LiveInv, BlocksKnown, BlocksPaired, InHand, StampsBelow, 
             StampsIncrease

\* It is kept by every step.
LEMMA LiveStep == LiveInv /\ [LiveNext]_liveVars => LiveInv'
  <1> SUFFICES ASSUME LiveInv, [LiveNext]_liveVars PROVE LiveInv'
    OBVIOUS
  <1>1. CASE LiveNext
    <2>1. \A r \in Requests :
            /\ Stamp(r) => LiveInv'
            /\ ServeLive(r) => LiveInv'
            /\ Track(r) => LiveInv'
            /\ Match(r) => LiveInv'
            /\ GiveLive(r) => LiveInv'
      BY StampStepOf, ServeStepOf, TrackStepOf, MatchStepOf, GiveStepOf
    <2>2. Quiet => LiveInv'
      BY QuietKeeps
    <2> QED BY <1>1, <2>1, <2>2, QuietSteps DEF LiveNext
  <1>2. CASE UNCHANGED liveVars
    BY <1>2
    DEF liveVars, LiveInv, LiveTypeOK, BlocksKnown, BlocksPaired, InHand, StampsBelow, 
       StampsIncrease
  <1> QED BY <1>1, <1>2

\* The live server's invariant: what is tracked or in the hands of a request was served,
\* each block is so once, and the last stamp is the greatest (server.rs).
THEOREM LiveInductive == LiveSpec => []LiveInv
  <1>1. LiveInit => LiveInv
    BY LiveStart
  <1>2. LiveInv /\ [LiveNext]_liveVars => LiveInv'
    BY LiveStep
  <1> QED BY <1>1, <1>2, PTL DEF LiveSpec

\* However the requests of several connections interleave, a block is tracked once or in
\* the hands of one request, and stamps grow (live_event of server.rs).
THEOREM LiveLogAlways == LiveSpec => []LiveLogSound
  <1>1. LiveInv => LiveLogSound
    BY DEF LiveInv, StampsBelow, LiveLogSound
  <1> QED BY <1>1, LiveInductive, PTL

-----------------------------------------------------------------------------
(***************************************************************************)
(* ObserverSink.  A thread is busy with a block from the time it is served *)
(* until its record is emitted, and from the hook of its free until it is  *)
(* given back; one thread at a time is, and what the sink was last told    *)
(* agrees with the block whenever none is.                                 *)
(***************************************************************************)

HookSteps == {"idle", "route", "written", "emit", "report", "release"}
HookCalls == [step: HookSteps, block: HookBlocks, began: Nat, noted: BOOLEAN]
Uses      == {"free", "header", "raw"}
Records   == [op: {"alloc", "free"}, latency: Nat]

ObTypeOK ==
  /\ sink \in BOOLEAN /\ now \in Nat /\ startNs \in [HookThreads -> Nat]
  /\ hooks \in [HookThreads -> HookCalls]
  /\ used \in [HookBlocks -> Uses] /\ heard \in [HookBlocks -> Records]
  /\ unheard \in [HookBlocks -> BOOLEAN] /\ took \in [HookBlocks -> Nat]

\* A thread is busy with a block from the time it is served until its record is
\* emitted, and from the hook of its free until it is given back.
BusyWith(t, b) ==
  hooks[t].step \in {"written", "emit", "report", "release"} /\ hooks[t].block = b

HooksKnown ==
  /\ \A t \in HookThreads : hooks[t].step = "idle" => hooks[t] = Idle
  /\ \A t \in HookThreads : hooks[t].step \in {"route", "written", "emit"} =>
       /\ hooks[t].began <= now
       /\ hooks[t].noted => hooks[t].began <= startNs[t]

\* One thread is busy with a block, which has a header.
BusyAlone ==
  \A b \in HookBlocks, t \in HookThreads : BusyWith(t, b) =>
    /\ used[b] = "header"
    /\ \A u \in HookThreads \ {t} : ~BusyWith(u, b)

\* What was heard of a block, by who is busy with it.
Told(b) ==
  ~unheard[b] =>
    /\ heard[b].op = "alloc" => used[b] = "header"
    /\ used[b] = "header" /\ (\A t \in HookThreads : ~BusyWith(t, b)) => heard[b].op = "alloc"
    /\ \A t \in HookThreads : BusyWith(t, b) /\ hooks[t].step = "release" => heard[b].op = "free"

TakesLonger == \A b \in HookBlocks : heard[b].latency <= took[b]

ObInv ==
  /\ ObTypeOK /\ HooksKnown /\ BusyAlone
  /\ \A b \in HookBlocks : Told(b)
  /\ TakesLonger

\* What calls and records are made of.
LEMMA CallsTyped ==
  /\ AnyBlock \in HookBlocks /\ Idle \in HookCalls /\ Idle.step = "idle"
  /\ \A step \in HookSteps, b \in HookBlocks, began \in Nat, noted \in BOOLEAN :
       /\ HookCall(step, b, began, noted) \in HookCalls
       /\ HookCall(step, b, began, noted).step = step
       /\ HookCall(step, b, began, noted).block = b
       /\ HookCall(step, b, began, noted).began = began
       /\ HookCall(step, b, began, noted).noted = noted
  /\ \A c \in HookCalls : /\ c.step \in HookSteps /\ c.block \in HookBlocks
                          /\ c.began \in Nat /\ c.noted \in BOOLEAN
  /\ \A r \in Records : r.op \in {"alloc", "free"} /\ r.latency \in Nat
  /\ FreeRecord \in Records /\ FreeRecord.op = "free" /\ FreeRecord.latency = 0
  /\ \A n \in Nat : /\ AllocRecord(n) \in Records /\ AllocRecord(n).op = "alloc"
                    /\ AllocRecord(n).latency = n
  BY SomeBlock
  DEF AnyBlock, Idle, HookCall, HookCalls, HookSteps, Records, FreeRecord, AllocRecord

\* A block that a call of some step holds.
LEMMA HeldIs ==
  ASSUME ObInv, NEW b \in HookBlocks
  PROVE  Held(b) <=> used[b] # "free" /\ \A t \in HookThreads : ~BusyWith(t, b)
  <1>1. \A t \in HookThreads : (hooks[t] = Idle \/ hooks[t].block # b \/ hooks[t].step = "route")
                               <=> ~BusyWith(t, b)
    <2> TAKE t \in HookThreads
    <2>1. hooks[t].step \in HookSteps /\ (hooks[t].step = "idle" => hooks[t] = Idle)
      BY CallsTyped DEF ObInv, ObTypeOK, HooksKnown
    <2>2. Idle.step = "idle"
      BY CallsTyped
    <2> QED BY <2>1, <2>2 DEF BusyWith, HookSteps
  <1> QED BY <1>1 DEF Held

\* A step of the clock or of the sink keeps the invariant.
LEMMA QuietStep ==
  ASSUME ObInv, UNCHANGED <<hooks, used, heard, unheard, took>>,
         sink' \in BOOLEAN, now' \in Nat, startNs' \in [HookThreads -> Nat], now <= now',
         \A t \in HookThreads : startNs'[t] = startNs[t] \/ startNs'[t] = now
  PROVE  ObInv'
  <1>1. ObTypeOK'
    BY DEF ObInv, ObTypeOK
  <1>2. HooksKnown'
    BY DEF ObInv, ObTypeOK, HooksKnown, HookCalls
  <1>3. BusyAlone' /\ TakesLonger' /\ \A b \in HookBlocks : Told(b)'
    BY DEF ObInv, BusyAlone, BusyWith, TakesLonger, Told
  <1> QED BY <1>1, <1>2, <1>3 DEF ObInv

\* The call of one thread moves: what has to be shown of it.
LEMMA CallMoves ==
  ASSUME ObInv, NEW t \in HookThreads, NEW c \in HookCalls, hooks' = [hooks EXCEPT ![t] = c],
         UNCHANGED now, c.step = "idle" => c = Idle,
         startNs' \in [HookThreads -> Nat],
         \A u \in HookThreads \ {t} : startNs'[u] = startNs[u],
         c.step \in {"route", "written", "emit"} =>
           c.began <= now /\ (c.noted => c.began <= startNs'[t])
  PROVE  /\ hooks' \in [HookThreads -> HookCalls] /\ HooksKnown'
         /\ hooks'[t] = c /\ \A u \in HookThreads \ {t} : hooks'[u] = hooks[u]
  BY DEF ObInv, ObTypeOK, HooksKnown

\* A call begins.
LEMMA BeginStep ==
  ASSUME ObInv, NEW t \in HookThreads, BeginHook(t) PROVE ObInv'
  <1> DEFINE c == HookCall("route", AnyBlock, now, sink)
  <1>1. /\ hooks[t].step = "idle" /\ hooks' = [hooks EXCEPT ![t] = c]
        /\ startNs' = [startNs EXCEPT ![t] = IF sink THEN now ELSE @]
        /\ UNCHANGED <<sink, now, used, heard, unheard, took>>
    BY DEF BeginHook, NoteStart
  <1>2. sink \in BOOLEAN /\ now \in Nat /\ startNs \in [HookThreads -> Nat]
    BY DEF ObInv, ObTypeOK
  <1>3. c \in HookCalls /\ c.step = "route" /\ c.began = now /\ c.noted = sink
    <2>1. AnyBlock \in HookBlocks /\ "route" \in HookSteps
      BY CallsTyped DEF HookSteps
    <2>2. HookCall("route", AnyBlock, now, TRUE) \in HookCalls
          /\ HookCall("route", AnyBlock, now, FALSE) \in HookCalls
      BY <1>2, <2>1, CallsTyped
    <2>3. c.step = "route" /\ c.began = now /\ c.noted = sink
      BY DEF HookCall
    <2>4. c \in HookCalls
      <3>1. sink = TRUE \/ sink = FALSE
        BY <1>2
      <3> QED BY <2>2, <3>1, Zenon
    <2> QED BY <2>3, <2>4
  <1> HIDE DEF c
  <1>4. /\ startNs' \in [HookThreads -> Nat] /\ (sink => startNs'[t] = now)
        /\ \A u \in HookThreads \ {t} : startNs'[u] = startNs[u]
    BY <1>1, <1>2
  <1>5. /\ hooks' \in [HookThreads -> HookCalls] /\ HooksKnown'
        /\ hooks'[t] = c /\ \A u \in HookThreads \ {t} : hooks'[u] = hooks[u]
    <2>1. c.noted => startNs'[t] = now
      BY <1>3, <1>4, Zenon
    <2>2. c.noted => c.began <= startNs'[t]
      BY <1>2, <1>3, <2>1
    <2>3. c.began <= now /\ c.step # "idle"
      BY <1>2, <1>3
    <2> QED BY <1>1, <1>3, <1>4, <2>2, <2>3, CallMoves
  <1>6. \A u \in HookThreads, b \in HookBlocks : BusyWith(u, b)' <=> BusyWith(u, b)
    BY <1>1, <1>3, <1>5 DEF BusyWith
  <1>7. ObTypeOK'
    BY <1>1, <1>4, <1>5 DEF ObInv, ObTypeOK
  <1>8. BusyAlone' /\ TakesLonger'
    BY <1>1, <1>6 DEF ObInv, BusyAlone, TakesLonger
  <1>9. \A b \in HookBlocks : Told(b)'
    BY <1>1, <1>3, <1>5, <1>6 DEF ObInv, Told
  <1> QED BY <1>5, <1>7, <1>8, <1>9 DEF ObInv

\* A block is served to the hook of an allocation.
LEMMA ServeStep ==
  ASSUME ObInv, NEW t \in HookThreads, NEW b \in HookBlocks, Serve(t, b) PROVE ObInv'
  <1>1. /\ hooks[t].step = "route" /\ used[b] = "free"
        /\ UNCHANGED <<sink, now, startNs, heard, unheard, took>>
    BY DEF Serve
  <1>2. hooks[t] \in HookCalls /\ startNs \in [HookThreads -> Nat]
    BY DEF ObInv, ObTypeOK
  <1>3. PICK what \in {"raw", "header"}, c \in HookCalls :
          /\ hooks' = [hooks EXCEPT ![t] = c] /\ used' = [used EXCEPT ![b] = what]
          /\ IF what = "raw" THEN c = Idle
             ELSE /\ c.step = "written" /\ c.block = b
                  /\ c.began = hooks[t].began /\ c.noted = hooks[t].noted
    <2>1. CASE sink_headerless
      BY <2>1, CallsTyped DEF Serve, HookEnds, BlockBecomes
    <2>2. CASE ~sink_headerless
      <3> DEFINE c == [hooks[t] EXCEPT !.step = "written", !.block = b]
      <3>1. c \in HookCalls /\ c.step = "written" /\ c.block = b
            /\ c.began = hooks[t].began /\ c.noted = hooks[t].noted
        BY <1>2 DEF HookCalls, HookSteps
      <3>2. hooks' = [hooks EXCEPT ![t] = c] /\ used' = [used EXCEPT ![b] = "header"]
        BY <2>2 DEF Serve, BlockBecomes
      <3> QED BY <3>1, <3>2
    <2> QED BY <2>1, <2>2
  <1>4. /\ hooks[t].began <= now /\ (hooks[t].noted => hooks[t].began <= startNs[t])
    BY <1>1 DEF ObInv, HooksKnown
  <1>5. c.step \in {"idle", "written"} /\ (c.step = "idle" => c = Idle)
    BY <1>3, CallsTyped
  <1>6. /\ hooks' \in [HookThreads -> HookCalls] /\ HooksKnown'
        /\ hooks'[t] = c /\ \A u \in HookThreads \ {t} : hooks'[u] = hooks[u]
    <2>1. c.step \in {"route", "written", "emit"} =>
            c.began <= now /\ (c.noted => c.began <= startNs'[t])
      BY <1>1, <1>3, <1>4, CallsTyped
    <2> QED BY <1>1, <1>2, <1>3, <1>5, <2>1, CallMoves
  <1>7. /\ \A u \in HookThreads : ~BusyWith(u, b)
        /\ \A u \in HookThreads, d \in HookBlocks :
             BusyWith(u, d)' <=> BusyWith(u, d) \/ (u = t /\ d = b /\ what = "header")
    <2>1. \A u \in HookThreads : ~BusyWith(u, b)
      BY <1>1 DEF ObInv, BusyAlone
    <2>2. \A u \in HookThreads \ {t}, d \in HookBlocks : BusyWith(u, d)' <=> BusyWith(u, d)
      BY <1>6 DEF BusyWith
    <2>3. \A d \in HookBlocks : ~BusyWith(t, d) /\ (BusyWith(t, d)' <=> d = b /\ what = "header")
      BY <1>1, <1>3, <1>6, CallsTyped DEF BusyWith
    <2> QED BY <2>1, <2>2, <2>3
  <1>8. /\ used' \in [HookBlocks -> Uses] /\ used'[b] = what
        /\ \A d \in HookBlocks \ {b} : used'[d] = used[d]
    BY <1>3 DEF ObInv, ObTypeOK, Uses
  <1>9. ObTypeOK'
    BY <1>1, <1>6, <1>8 DEF ObInv, ObTypeOK
  <1>10. BusyAlone' /\ TakesLonger'
    BY <1>1, <1>7, <1>8 DEF ObInv, BusyAlone, TakesLonger
  <1>11. ASSUME NEW d \in HookBlocks PROVE Told(d)'
    <2>1. heard[d].op \in {"alloc", "free"}
      BY CallsTyped DEF ObInv, ObTypeOK
    <2>2. Told(d)
      BY DEF ObInv
    <2>3. CASE d = b
      BY <1>1, <1>3, <1>5, <1>6, <1>7, <1>8, <2>1, <2>2, <2>3 DEF Told, BusyWith
    <2>4. CASE d # b
      BY <1>1, <1>3, <1>5, <1>6, <1>7, <1>8, <2>2, <2>4 DEF Told, BusyWith
    <2> QED BY <2>3, <2>4
  <1> QED BY <1>6, <1>9, <1>10, <1>11 DEF ObInv

\* The hook of an allocation notes the start.
LEMMA AllocHookStep ==
  ASSUME ObInv, NEW t \in HookThreads, AllocHook(t) PROVE ObInv'
  <1> DEFINE b == hooks[t].block
  <1>1. /\ hooks[t].step = "written" /\ UNCHANGED <<sink, now, startNs, used, heard, took>>
    BY DEF AllocHook
  <1>2. hooks[t] \in HookCalls /\ startNs \in [HookThreads -> Nat] /\ b \in HookBlocks
    BY CallsTyped DEF ObInv, ObTypeOK
  <1>3. PICK c \in HookCalls :
          /\ hooks' = [hooks EXCEPT ![t] = c]
          /\ \/ /\ c.step = "emit" /\ c.block = b /\ UNCHANGED unheard
                /\ c.began = hooks[t].began /\ c.noted = hooks[t].noted
             \/ c = Idle /\ unheard' = [unheard EXCEPT ![b] = TRUE]
    <2>1. CASE sink
      <3> DEFINE c == [hooks[t] EXCEPT !.step = "emit"]
      <3>1. c \in HookCalls /\ c.step = "emit" /\ c.block = b
            /\ c.began = hooks[t].began /\ c.noted = hooks[t].noted
        BY <1>2 DEF HookCalls, HookSteps
      <3>2. hooks' = [hooks EXCEPT ![t] = c] /\ UNCHANGED unheard
        BY <2>1 DEF AllocHook, HookGoes
      <3> QED BY <3>1, <3>2
    <2>2. CASE ~sink
      BY <2>2, CallsTyped DEF AllocHook, HookEnds
    <2> QED BY <2>1, <2>2
  <1> HIDE DEF b
  <1>4. /\ hooks[t].began <= now /\ (hooks[t].noted => hooks[t].began <= startNs[t])
    BY <1>1 DEF ObInv, HooksKnown
  <1>5. c.step \in {"idle", "emit"} /\ (c.step = "idle" => c = Idle)
    BY <1>3, CallsTyped
  <1>6. /\ hooks' \in [HookThreads -> HookCalls] /\ HooksKnown'
        /\ hooks'[t] = c /\ \A u \in HookThreads \ {t} : hooks'[u] = hooks[u]
    <2>1. c.step \in {"route", "written", "emit"} =>
            c.began <= now /\ (c.noted => c.began <= startNs'[t])
      BY <1>1, <1>3, <1>4, CallsTyped
    <2> QED BY <1>1, <1>2, <1>3, <1>5, <2>1, CallMoves
  <1>7. BusyWith(t, b) /\ \A d \in HookBlocks \ {b} : ~BusyWith(t, d) /\ ~BusyWith(t, d)'
    BY <1>1, <1>3, <1>6, CallsTyped DEF BusyWith, b
  <1>8. \A u \in HookThreads \ {t}, d \in HookBlocks : BusyWith(u, d)' <=> BusyWith(u, d)
    BY <1>6 DEF BusyWith
  <1>9. /\ unheard' \in [HookBlocks -> BOOLEAN]
        /\ \A d \in HookBlocks : ~unheard'[d] => ~unheard[d]
        /\ c = Idle => unheard'[b]
    <2>1. unheard \in [HookBlocks -> BOOLEAN]
      BY DEF ObInv, ObTypeOK
    <2>2. CASE UNCHANGED unheard /\ c.step = "emit"
      BY <2>1, <2>2, CallsTyped
    <2>3. CASE unheard' = [unheard EXCEPT ![b] = TRUE]
      BY <1>2, <2>1, <2>3
    <2> QED BY <1>3, <2>2, <2>3
  <1>10. ObTypeOK'
    BY <1>1, <1>6, <1>9 DEF ObInv, ObTypeOK
  <1>11. BusyAlone' /\ TakesLonger'
    BY <1>1, <1>2, <1>7, <1>8 DEF ObInv, BusyAlone, TakesLonger
  <1>12. ASSUME NEW d \in HookBlocks PROVE Told(d)'
    <2>1. Told(d)
      BY DEF ObInv
    <2>2. CASE d = b
      BY <1>1, <1>2, <1>3, <1>5, <1>6, <1>7, <1>8, <1>9, <2>1, <2>2
      DEF ObInv, BusyAlone, Told, BusyWith
    <2>3. CASE d # b
      BY <1>1, <1>6, <1>7, <1>8, <1>9, <2>1, <2>3 DEF Told, BusyWith
    <2> QED BY <2>2, <2>3
  <1> QED BY <1>6, <1>10, <1>11, <1>12 DEF ObInv

\* The elapsed time is saturating.
LEMMA ElapsedIs ==
  ASSUME now \in Nat, NEW x \in Nat
  PROVE  Elapsed(x) \in Nat /\ \A y \in Nat : x <= y => Elapsed(y) <= Elapsed(x)
  BY DEF Elapsed

\* The record of an allocation is emitted.
LEMMA EmitAllocStep ==
  ASSUME ObInv, NEW t \in HookThreads, EmitAlloc(t) PROVE ObInv'
  <1> DEFINE b == hooks[t].block
             latency == Elapsed(startNs[t])
             long == IF hooks[t].noted THEN Elapsed(hooks[t].began) ELSE latency
  <1>1. /\ hooks[t].step = "emit" /\ UNCHANGED <<sink, now, startNs, used>>
        /\ hooks' = [hooks EXCEPT ![t] = Idle] /\ Emit(b, AllocRecord(latency), long)
    BY DEF EmitAlloc, HookEnds
  <1>2. /\ hooks[t] \in HookCalls /\ startNs \in [HookThreads -> Nat] /\ b \in HookBlocks
        /\ now \in Nat /\ hooks[t].began \in Nat /\ hooks[t].noted \in BOOLEAN
        /\ startNs[t] \in Nat
    BY CallsTyped DEF ObInv, ObTypeOK
  <1>3. latency \in Nat /\ long \in Nat /\ latency <= long
    <2>1. hooks[t].noted => hooks[t].began <= startNs[t]
      BY <1>1 DEF ObInv, HooksKnown
    <2>2. Elapsed(startNs[t]) \in Nat /\ Elapsed(hooks[t].began) \in Nat
      BY <1>2, ElapsedIs
    <2>3. hooks[t].noted => Elapsed(startNs[t]) <= Elapsed(hooks[t].began)
      BY <1>2, <2>1, ElapsedIs
    <2> QED BY <2>2, <2>3
  <1> HIDE DEF latency, long
  <1>4. /\ AllocRecord(latency) \in Records /\ AllocRecord(latency).op = "alloc"
        /\ AllocRecord(latency).latency = latency
    BY <1>3, CallsTyped
  <1>5. /\ hooks' \in [HookThreads -> HookCalls] /\ HooksKnown'
        /\ hooks'[t] = Idle /\ \A u \in HookThreads \ {t} : hooks'[u] = hooks[u]
    BY <1>1, <1>2, CallsTyped, CallMoves
  <1>6. BusyWith(t, b) /\ \A d \in HookBlocks : ~BusyWith(t, d)' /\ (BusyWith(t, d) => d = b)
    BY <1>1, <1>5, CallsTyped DEF BusyWith, b
  <1> HIDE DEF b
  <1>7. \A u \in HookThreads \ {t}, d \in HookBlocks : BusyWith(u, d)' <=> BusyWith(u, d)
    BY <1>5 DEF BusyWith
  <1>8. /\ heard' \in [HookBlocks -> Records] /\ took' \in [HookBlocks -> Nat]
        /\ unheard' \in [HookBlocks -> BOOLEAN]
        /\ \A d \in HookBlocks \ {b} : /\ heard'[d] = heard[d] /\ took'[d] = took[d]
                                       /\ unheard'[d] = unheard[d]
        /\ \/ heard'[b] = AllocRecord(latency) /\ took'[b] = long
           \/ unheard'[b] /\ heard'[b] = heard[b] /\ took'[b] = took[b]
    <2>1. /\ heard \in [HookBlocks -> Records] /\ took \in [HookBlocks -> Nat]
          /\ unheard \in [HookBlocks -> BOOLEAN]
      BY DEF ObInv, ObTypeOK
    <2>2. CASE sink
      BY <1>1, <1>2, <1>3, <1>4, <2>1, <2>2 DEF Emit
    <2>3. CASE ~sink
      BY <1>1, <1>2, <2>1, <2>3 DEF Emit
    <2> QED BY <2>2, <2>3
  <1>9. ObTypeOK'
    BY <1>1, <1>5, <1>8 DEF ObInv, ObTypeOK
  <1>10. BusyAlone'
    BY <1>1, <1>6, <1>7 DEF ObInv, BusyAlone
  <1>11. TakesLonger'
    BY <1>3, <1>4, <1>8 DEF ObInv, TakesLonger
  <1>12. ASSUME NEW d \in HookBlocks PROVE Told(d)'
    <2>1. Told(d)
      BY DEF ObInv
    <2>2. CASE d = b
      <3>1. used[b] = "header" /\ \A u \in HookThreads \ {t} : ~BusyWith(u, b)
        BY <1>2, <1>6 DEF ObInv, BusyAlone
      <3>2. used'[d] = "header" /\ \A u \in HookThreads : ~BusyWith(u, d)'
        BY <1>1, <1>2, <1>6, <1>7, <2>2, <3>1
      <3>3. ~unheard'[b] => heard'[b].op = "alloc"
        BY <1>4, <1>8
      <3> QED BY <2>2, <3>2, <3>3 DEF Told
    <2>3. CASE d # b
      BY <1>1, <1>5, <1>6, <1>7, <1>8, <2>1, <2>3 DEF Told
    <2> QED BY <2>2, <2>3
  <1> QED BY <1>5, <1>9, <1>10, <1>11, <1>12 DEF ObInv

\* The hook of a free finds a header.
LEMMA FreeHookStep ==
  ASSUME ObInv, NEW t \in HookThreads, NEW b \in HookBlocks, FreeHook(t, b) PROVE ObInv'
  <1> DEFINE c == HookCall(IF sink THEN "report" ELSE "release", b, 0, FALSE)
  <1>1. /\ hooks[t].step = "idle" /\ Held(b) /\ used[b] = "header"
        /\ hooks' = [hooks EXCEPT ![t] = c] /\ unheard' = [unheard EXCEPT ![b] = @ \/ ~sink]
        /\ UNCHANGED <<sink, now, startNs, used, heard, took>>
    BY DEF FreeHook
  <1>2. startNs \in [HookThreads -> Nat] /\ sink \in BOOLEAN
    BY DEF ObInv, ObTypeOK
  <1>3. /\ c \in HookCalls /\ c.block = b /\ c.step = (IF sink THEN "report" ELSE "release")
    <2>1. "report" \in HookSteps /\ "release" \in HookSteps
      BY DEF HookSteps
    <2>2. \A s \in {"report", "release"} :
            /\ HookCall(s, b, 0, FALSE) \in HookCalls
            /\ HookCall(s, b, 0, FALSE).block = b /\ HookCall(s, b, 0, FALSE).step = s
      BY <2>1 DEF HookCall, HookCalls
    <2>3. c = IF sink THEN HookCall("report", b, 0, FALSE) ELSE HookCall("release", b, 0, FALSE)
      OBVIOUS
    <2> QED BY <2>2, <2>3
  <1> HIDE DEF c
  <1>4. /\ hooks' \in [HookThreads -> HookCalls] /\ HooksKnown'
        /\ hooks'[t] = c /\ \A u \in HookThreads \ {t} : hooks'[u] = hooks[u]
    <2>1. c.step \in {"report", "release"}
      BY <1>3
    <2> QED BY <1>1, <1>2, <1>3, <2>1, CallMoves
  <1>5. \A u \in HookThreads : ~BusyWith(u, b)
    BY <1>1, HeldIs
  <1>6. BusyWith(t, b)' /\ \A d \in HookBlocks : ~BusyWith(t, d) /\ (BusyWith(t, d)' => d = b)
    BY <1>1, <1>3, <1>4 DEF BusyWith
  <1>7. \A u \in HookThreads \ {t}, d \in HookBlocks : BusyWith(u, d)' <=> BusyWith(u, d)
    BY <1>4 DEF BusyWith
  <1>8. /\ unheard' \in [HookBlocks -> BOOLEAN] /\ (~sink => unheard'[b])
        /\ \A d \in HookBlocks : ~unheard'[d] => ~unheard[d]
        /\ \A d \in HookBlocks \ {b} : unheard'[d] = unheard[d]
    <2>1. unheard \in [HookBlocks -> BOOLEAN] /\ unheard[b] \in BOOLEAN /\ sink \in BOOLEAN
      BY DEF ObInv, ObTypeOK
    <2> QED BY <1>1, <2>1
  <1>9. ObTypeOK'
    BY <1>1, <1>4, <1>8 DEF ObInv, ObTypeOK
  <1>10. BusyAlone' /\ TakesLonger'
    BY <1>1, <1>5, <1>6, <1>7 DEF ObInv, BusyAlone, TakesLonger
  <1>11. ASSUME NEW d \in HookBlocks PROVE Told(d)'
    <2>1. Told(d)
      BY DEF ObInv
    <2>2. CASE d = b
      <3>1. ~unheard'[b] => hooks'[t].step = "report"
        BY <1>3, <1>4, <1>8
      <3> QED BY <1>1, <1>5, <1>6, <1>7, <1>8, <2>1, <2>2, <3>1 DEF Told
    <2>3. CASE d # b
      BY <1>1, <1>4, <1>6, <1>7, <1>8, <2>1, <2>3 DEF Told
    <2> QED BY <2>2, <2>3
  <1> QED BY <1>4, <1>9, <1>10, <1>11 DEF ObInv

\* The record of a free is emitted.
LEMMA EmitFreeStep ==
  ASSUME ObInv, NEW t \in HookThreads, EmitFree(t) PROVE ObInv'
  <1> DEFINE b == hooks[t].block
             c == [hooks[t] EXCEPT !.step = "release"]
  <1>1. /\ hooks[t].step = "report" /\ UNCHANGED <<sink, now, startNs, used>>
        /\ hooks' = [hooks EXCEPT ![t] = c] /\ Emit(b, FreeRecord, 0)
    BY DEF EmitFree, HookGoes
  <1>2. hooks[t] \in HookCalls /\ startNs \in [HookThreads -> Nat] /\ b \in HookBlocks
    BY CallsTyped DEF ObInv, ObTypeOK
  <1>3. c \in HookCalls /\ c.step = "release" /\ c.block = b
    BY <1>2 DEF HookCalls, HookSteps
  <1> HIDE DEF c
  <1>4. /\ hooks' \in [HookThreads -> HookCalls] /\ HooksKnown'
        /\ hooks'[t] = c /\ \A u \in HookThreads \ {t} : hooks'[u] = hooks[u]
    BY <1>1, <1>2, <1>3, CallMoves
  <1>5. \A u \in HookThreads, d \in HookBlocks : BusyWith(u, d)' <=> BusyWith(u, d)
    BY <1>1, <1>3, <1>4 DEF BusyWith
  <1>6. BusyWith(t, b)
    BY <1>1 DEF BusyWith
  <1> HIDE DEF b
  <1>7. /\ heard' \in [HookBlocks -> Records] /\ took' \in [HookBlocks -> Nat]
        /\ unheard' \in [HookBlocks -> BOOLEAN]
        /\ \A d \in HookBlocks \ {b} : /\ heard'[d] = heard[d] /\ took'[d] = took[d]
                                       /\ unheard'[d] = unheard[d]
        /\ \/ heard'[b] = FreeRecord /\ took'[b] = 0
           \/ unheard'[b] /\ heard'[b] = heard[b] /\ took'[b] = took[b]
    <2>1. /\ heard \in [HookBlocks -> Records] /\ took \in [HookBlocks -> Nat]
          /\ unheard \in [HookBlocks -> BOOLEAN]
      BY DEF ObInv, ObTypeOK
    <2>0. FreeRecord \in Records
      BY CallsTyped
    <2>2. CASE sink
      <3>1. /\ heard' = [heard EXCEPT ![b] = FreeRecord] /\ took' = [took EXCEPT ![b] = 0]
            /\ unheard' = [unheard EXCEPT ![b] = FALSE]
        BY <1>1, <2>2 DEF Emit
      <3> QED BY <1>2, <2>0, <2>1, <3>1
    <2>3. CASE ~sink
      BY <1>1, <1>2, <2>1, <2>3 DEF Emit
    <2> QED BY <2>2, <2>3
  <1>8. ObTypeOK'
    BY <1>1, <1>4, <1>7 DEF ObInv, ObTypeOK
  <1>9. BusyAlone'
    BY <1>1, <1>5 DEF ObInv, BusyAlone
  <1>10. TakesLonger'
    <2>1. FreeRecord.latency <= 0
      BY CallsTyped
    <2> QED BY <1>7, <2>1 DEF ObInv, TakesLonger
  <1>11. ASSUME NEW d \in HookBlocks PROVE Told(d)'
    <2>1. Told(d)
      BY DEF ObInv
    <2>2. CASE d = b
      <3>1. ~unheard'[b] => heard'[b].op = "free"
        BY <1>7, CallsTyped
      <3>2. used[b] = "header"
        BY <1>2, <1>6 DEF ObInv, BusyAlone
      <3>3. used'[d] = "header" /\ BusyWith(t, d)'
        BY <1>1, <1>2, <1>5, <1>6, <2>2, <3>2
      <3> QED BY <2>2, <3>1, <3>3 DEF Told
    <2>3. CASE d # b
      <3>1. ~BusyWith(t, d)
        BY <1>6, <2>3 DEF BusyWith
      <3> QED BY <1>1, <1>4, <1>5, <1>7, <2>1, <2>3, <3>1 DEF Told
    <2> QED BY <2>2, <2>3
  <1> QED BY <1>4, <1>8, <1>9, <1>10, <1>11 DEF ObInv

\* A block with a header is given back, or one without.
LEMMA FreedStep ==
  ASSUME ObInv, NEW t \in HookThreads, NEW b \in HookBlocks,
         UNCHANGED <<sink, now, startNs, heard, unheard, took>>,
         used' = [used EXCEPT ![b] = "free"], hooks' = [hooks EXCEPT ![t] = Idle],
         \/ hooks[t].step = "idle" /\ Held(b) /\ used[b] = "raw"
         \/ hooks[t].step = "release" /\ hooks[t].block = b
  PROVE  ObInv'
  <1>1. /\ hooks' \in [HookThreads -> HookCalls] /\ HooksKnown'
        /\ hooks'[t] = Idle /\ \A u \in HookThreads \ {t} : hooks'[u] = hooks[u]
    <2>1. startNs \in [HookThreads -> Nat]
      BY DEF ObInv, ObTypeOK
    <2> QED BY <2>1, CallsTyped, CallMoves
  <1>2. /\ \A d \in HookBlocks : ~BusyWith(t, d)' /\ (BusyWith(t, d) => d = b)
        /\ \A u \in HookThreads \ {t}, d \in HookBlocks : BusyWith(u, d)' <=> BusyWith(u, d)
    BY <1>1, CallsTyped DEF BusyWith
  <1>3. \A u \in HookThreads : ~BusyWith(u, b)'
    <2>1. CASE hooks[t].step = "release" /\ hooks[t].block = b
      BY <1>2, <2>1 DEF ObInv, BusyAlone, BusyWith
    <2>2. CASE Held(b)
      BY <1>2, <2>2, HeldIs
    <2> QED BY <2>1, <2>2
  <1>4. used' \in [HookBlocks -> Uses] /\ used'[b] = "free"
        /\ \A d \in HookBlocks \ {b} : used'[d] = used[d]
    BY DEF ObInv, ObTypeOK, Uses
  <1>5. ObTypeOK'
    BY <1>1, <1>4 DEF ObInv, ObTypeOK
  <1>6. BusyAlone' /\ TakesLonger'
    BY <1>2, <1>3, <1>4 DEF ObInv, BusyAlone, TakesLonger
  <1>7. ASSUME NEW d \in HookBlocks PROVE Told(d)'
    <2>1. Told(d)
      BY DEF ObInv
    <2>2. CASE d = b
      <3>1. ~unheard[b] => heard[b].op # "alloc"
        BY <2>1, <2>2, CallsTyped DEF Told, BusyWith
      <3> QED BY <1>3, <1>4, <2>2, <3>1 DEF Told
    <2>3. CASE d # b
      BY <1>1, <1>2, <1>4, <2>1, <2>3 DEF Told
    <2> QED BY <2>2, <2>3
  <1> QED BY <1>1, <1>5, <1>6, <1>7 DEF ObInv

\* A block is given back, with or without a hook.
LEMMA FreeSteps ==
  ASSUME ObInv, NEW t \in HookThreads, Release(t) \/ \E b \in HookBlocks : FreeRaw(t, b)
  PROVE  ObInv'
  <1>1. CASE Release(t)
    <2>1. hooks[t].block \in HookBlocks
      BY CallsTyped DEF ObInv, ObTypeOK
    <2> QED BY <1>1, <2>1, FreedStep DEF Release, HookEnds, BlockBecomes
  <1>2. ASSUME NEW b \in HookBlocks, FreeRaw(t, b) PROVE ObInv'
    <2>1. hooks[t] = Idle /\ hooks \in [HookThreads -> HookCalls]
      BY <1>2 DEF FreeRaw, ObInv, HooksKnown, ObTypeOK
    <2>2. hooks' = [hooks EXCEPT ![t] = Idle]
      BY <1>2, <2>1 DEF FreeRaw
    <2> QED BY <1>2, <2>2, FreedStep DEF FreeRaw, BlockBecomes
  <1> QED BY <1>1, <1>2

\* What remains moves the sink, the latch or the clock.
LEMMA SinkMoves ==
  ASSUME ObInv, \/ InstallSink \/ ClearSink \/ LatchHooks \/ ClockTicks
                \/ \E t \in HookThreads : Nested(t)
                \/ UNCHANGED obVars
  PROVE  ObInv'
  <1>1. now \in Nat /\ startNs \in [HookThreads -> Nat] /\ sink \in BOOLEAN
    BY DEF ObInv, ObTypeOK
  <1>2. /\ UNCHANGED <<hooks, used, heard, unheard, took>>
        /\ now' \in Nat /\ now <= now' /\ startNs' \in [HookThreads -> Nat]
        /\ \A t \in HookThreads : startNs'[t] = startNs[t] \/ startNs'[t] = now
        /\ sink' \in BOOLEAN
    <2>1. CASE InstallSink
      BY <1>1, <2>1 DEF InstallSink
    <2>2. CASE ClearSink
      <3>1. sink' \in BOOLEAN
        BY <2>2, Zenon DEF ClearSink
      <3> QED BY <1>1, <2>2, <3>1 DEF ClearSink
    <2>3. CASE LatchHooks
      BY <1>1, <2>3 DEF LatchHooks
    <2>4. CASE ClockTicks
      BY <1>1, <2>4 DEF ClockTicks
    <2>5. ASSUME NEW t \in HookThreads, Nested(t)
          PROVE  /\ UNCHANGED <<sink, now, hooks, used, heard, unheard, took>>
                 /\ startNs' \in [HookThreads -> Nat]
                 /\ \A u \in HookThreads : startNs'[u] = startNs[u] \/ startNs'[u] = now
      BY <1>1, <2>5 DEF Nested, NoteStart
    <2>6. CASE UNCHANGED obVars
      BY <1>1, <2>6 DEF obVars
    <2> QED BY <1>1, <2>1, <2>2, <2>3, <2>4, <2>5, <2>6
  <1> QED BY <1>2, QuietStep

\* The invariant holds at the start.
LEMMA ObStart == ObInit => ObInv
  <1> SUFFICES ASSUME ObInit PROVE ObInv
    OBVIOUS
  <1>1. \A t \in HookThreads : hooks[t] = Idle
    BY DEF ObInit
  <1>2. ObTypeOK
    <2>1. hooks \in [HookThreads -> HookCalls] /\ heard \in [HookBlocks -> Records]
      BY CallsTyped DEF ObInit
    <2>2. unheard \in [HookBlocks -> BOOLEAN] /\ sink \in BOOLEAN
      BY DEF ObInit
    <2> QED BY <2>1, <2>2 DEF ObInit, ObTypeOK, Uses
  <1>3. HooksKnown /\ BusyAlone
    BY <1>1, CallsTyped DEF HooksKnown, BusyAlone, BusyWith
  <1>4. TakesLonger /\ \A b \in HookBlocks : Told(b)
    BY <1>1, CallsTyped DEF ObInit, TakesLonger, Told, BusyWith
  <1> QED BY <1>2, <1>3, <1>4 DEF ObInv

\* It is kept by every step.
LEMMA ObStep == ObInv /\ [ObNext]_obVars => ObInv'
  <1> SUFFICES ASSUME ObInv, [ObNext]_obVars PROVE ObInv'
    OBVIOUS
  <1>1. \A t \in HookThreads :
          BeginHook(t) \/ AllocHook(t) \/ EmitAlloc(t) \/ EmitFree(t) \/ Release(t) => ObInv'
    BY BeginStep, AllocHookStep, EmitAllocStep, EmitFreeStep, FreeSteps
  <1>2. \A t \in HookThreads, b \in HookBlocks :
          Serve(t, b) \/ FreeHook(t, b) \/ FreeRaw(t, b) => ObInv'
    BY ServeStep, FreeHookStep, FreeSteps
  <1> QED BY <1>1, <1>2, SinkMoves DEF ObNext

\* The invariant of the hooks: one thread is busy with a block, and tells of it before
\* another can be (observer.rs and the hooks of lib.rs).
THEOREM HooksInductive == ObSpec => []ObInv
  <1>1. ObInit => ObInv
    BY ObStart
  <1>2. ObInv /\ [ObNext]_obVars => ObInv'
    BY ObStep
  <1> QED BY <1>1, <1>2, PTL DEF ObSpec

\* What the sink was last told of a block is true of it, in every order of the threads
\* that pass it on (observer.rs and the hooks of lib.rs), for any threads and blocks.
THEOREM SinkAlways == ObSpec => []SinkAgrees
  <1>1. ObInv => SinkAgrees
    <2> SUFFICES ASSUME ObInv, NEW b \in HookBlocks
                 PROVE  /\ ~unheard[b] =>
                             /\ heard[b].op = "alloc" => used[b] = "header"
                             /\ Held(b) /\ used[b] = "header" => heard[b].op = "alloc"
                        /\ heard[b].latency <= took[b]
      BY DEF SinkAgrees
    <2>1. Told(b) /\ heard[b].latency <= took[b]
      BY DEF ObInv, TakesLonger
    <2> QED BY <2>1, HeldIs DEF Told
  <1> QED BY <1>1, HooksInductive, PTL

-----------------------------------------------------------------------------
(***************************************************************************)
(* TraceReplay, for any uploads, traces, sockets, capacity of the channel  *)
(* and number of records the broadcast retains: ReplayFaithful holds in    *)
(* every reachable state.                                                  *)
(*                                                                         *)
(* The invariant ties what an upload holds to its records: a block is held *)
(* when a record names it and no free's record does (HoldsRest), and each  *)
(* free's record names a block no other one took (FreesOwn).  The order in *)
(* which swap_remove leaves the vector does not matter for that.  The      *)
(* records of one upload are spread over those of all; Reported says that  *)
(* there is one for each operation before the next, in order.              *)
(***************************************************************************)

\* What an upload holds, what its records name, and what its frees have taken.
HeldBy(u)  == {live[u][i] : i \in 1 .. Len(live[u])}
Named(u)   == {records[i].block : i \in Of(u)}
TakenBy(u) == {records[i].block : i \in Frees(u)}

TrTypeOK ==
  /\ phase \in [Uploads -> {"new", "refused", "running", "done"}]
  /\ ops = [u \in Uploads |-> ops[u]]
  /\ op_index \in [Uploads -> Nat \ {0}] /\ live \in [Uploads -> Seq(Nat)]
  /\ allocs \in [Uploads -> Nat] /\ frees \in [Uploads -> Nat]
  /\ records \in Seq({records[i] : i \in 1 .. Len(records)})
  /\ channel \in Seq(Nat) /\ drained \in 0 .. Len(records)
  /\ socket \in [Sockets -> {"new", "open", "closed"}]
  /\ next \in [Sockets -> Nat \ {0}] /\ start \in [Sockets -> Nat \ {0}]
  /\ last \in [Sockets -> Nat] /\ sent \in [Sockets -> Nat] /\ missed \in [Sockets -> Nat]

\* The records of an upload are those of the operations before the next, in order.
Reported(u) ==
  /\ \A i \in Of(u) :
       /\ records[i].op \in 1 .. op_index[u] - 1 /\ records[i].frag \in 0 .. 100
       /\ records[i].block \in 0 .. op_index[u] - 1
       /\ TimestampsAreDegenerate(ops[u]) => records[i].ts = (records[i].op - 1) * Interval
  /\ \A i, j \in Of(u) : i < j => records[i].op < records[j].op
  /\ Cardinality(Of(u)) = op_index[u] - 1
  /\ phase[u] = "new" => op_index[u] = 1

\* A free took a block allocated before, of its size, that no other free took.
FreesOwn(u) ==
  \A i \in Frees(u) :
    /\ records[i].block < records[i].op
    /\ ops[u][records[i].block].op = "alloc"
    /\ ops[u][records[i].block].size = ops[u][records[i].op].size
    /\ \A j \in Frees(u) : records[j].block = records[i].block => i = j

\* What is held is what was allocated and not freed, each block once.
HoldsRest(u) ==
  /\ HeldBy(u) = Named(u) \ ({Nothing} \cup TakenBy(u))
  /\ \A i, j \in 1 .. Len(live[u]) : live[u][i] = live[u][j] => i = j
  /\ \A b \in HeldBy(u) : ops[u][b].op = "alloc"
  /\ Len(live[u]) = allocs[u] - frees[u]

Sends(s) ==
  /\ next[s] - start[s] = sent[s] + missed[s] /\ last[s] < next[s]
  /\ last[s] # 0 => last[s] >= start[s]
  /\ socket[s] = "new" => last[s] = 0 /\ sent[s] = 0 /\ missed[s] = 0

Queued ==
  \A i \in 1 .. Len(channel) :
    /\ channel[i] > (IF i = 1 THEN drained ELSE channel[i - 1])
    /\ channel[i] <= Len(records)

ReplayInv ==
  /\ TrTypeOK /\ Queued
  /\ \A u \in Uploads : Reported(u) /\ FreesOwn(u) /\ HoldsRest(u)
  /\ \A s \in Sockets : Sends(s)

-----------------------------------------------------------------------------
\* The estimate is a percentage.
LEMMA Percentage ==
  ASSUME NEW l \in Nat, NEW a \in Nat, NEW f \in Nat
  PROVE  FragmentationPct(l, a, f) \in 0 .. 100
  <1>1. CASE a = 0
    BY <1>1 DEF FragmentationPct
  <1>2. CASE a # 0
    <2> DEFINE churn == IF f < a THEN f ELSE a
               d == a * a
               n == 60 * l * a + 30 * churn * a + 10 * l * churn
    <2>1. churn \in Nat
      OBVIOUS
    <2>2. d \in Nat /\ d > 0
      BY <1>2
    <2> HIDE DEF churn
    <2>3. l * a \in Nat /\ churn * a \in Nat /\ l * churn \in Nat
      BY <2>1
    <2>4. n \in Nat
      <3>1. 60 * l * a = 60 * (l * a) /\ 30 * churn * a = 30 * (churn * a)
            /\ 10 * l * churn = 10 * (l * churn)
        BY <2>1
      <3> QED BY <2>3, <3>1
    <2> HIDE DEF d, n
    <2>5. n \div d \in Nat
      BY <2>2, <2>4
    <2> DEFINE q == n \div d
    <2>6. FragmentationPct(l, a, f) = Min({100, q})
      BY <1>2 DEF FragmentationPct, churn, d, n
    <2> HIDE DEF q
    <2>7. PICK m \in {100, q} : \A k \in {100, q} : m <= k
      <3>1. q \in Nat
        BY <2>5 DEF q
      <3>2. CASE q <= 100
        BY <3>1, <3>2
      <3>3. CASE q > 100
        BY <3>1, <3>3
      <3> QED BY <3>1, <3>2, <3>3
    <2>8. Min({100, q}) \in {100, q} /\ \A k \in {100, q} : Min({100, q}) <= k
      BY <2>7 DEF Min
    <2> QED BY <2>5, <2>6, <2>8 DEF q
  <1> QED BY <1>1, <1>2

\* swap_remove takes out one element and keeps the others, each once.
LEMMA SwapRemoved ==
  ASSUME NEW l \in Seq(Nat), NEW i \in 1 .. Len(l),
         \A j, k \in 1 .. Len(l) : l[j] = l[k] => j = k
  PROVE  LET r == SwapRemove(l, i)
         IN  /\ r \in Seq(Nat) /\ Len(r) = Len(l) - 1
             /\ \A j, k \in 1 .. Len(r) : r[j] = r[k] => j = k
             /\ {r[k] : k \in 1 .. Len(r)} = {l[k] : k \in 1 .. Len(l)} \ {l[i]}
  <1> DEFINE n == Len(l)
             r == SwapRemove(l, i)
  <1>1. n \in Nat /\ n >= 1 /\ n - 1 \in Nat
    BY LenProperties
  <1>2. r = [k \in 1 .. n - 1 |-> IF k = i THEN l[n] ELSE l[k]]
    BY DEF SwapRemove
  <1>3. \A k \in 1 .. n : l[k] \in Nat
    BY ElementOfSeq
  <1>4. r \in [1 .. n - 1 -> Nat]
    BY <1>1, <1>2, <1>3
  <1>5. r \in Seq(Nat) /\ Len(r) = n - 1
    BY <1>1, <1>4, SeqDef, LenProperties
  <1>6. \A k \in 1 .. n - 1 : r[k] = IF k = i THEN l[n] ELSE l[k]
    BY <1>2
  <1> HIDE DEF r
  <1>7. \A j, k \in 1 .. n - 1 : r[j] = r[k] => j = k
    <2> SUFFICES ASSUME NEW j \in 1 .. n - 1, NEW k \in 1 .. n - 1, r[j] = r[k] PROVE j = k
      OBVIOUS
    <2>1. j \in 1 .. n /\ k \in 1 .. n /\ n \in 1 .. n /\ j # n /\ k # n
      BY <1>1
    <2> QED BY <1>6, <2>1
  <1>8. ASSUME NEW k \in 1 .. n - 1 PROVE r[k] \in {l[j] : j \in 1 .. n} \ {l[i]}
    <2>1. k \in 1 .. n /\ n \in 1 .. n /\ k # n
      BY <1>1
    <2>2. CASE k = i
      BY <1>6, <2>1, <2>2
    <2>3. CASE k # i
      BY <1>6, <2>1, <2>3
    <2> QED BY <2>2, <2>3
  <1>9. {l[k] : k \in 1 .. n} \ {l[i]} \subseteq {r[k] : k \in 1 .. n - 1}
    <2> SUFFICES ASSUME NEW k \in 1 .. n, k # i PROVE \E j \in 1 .. n - 1 : r[j] = l[k]
      OBVIOUS
    <2>1. CASE k = n
      <3>1. i \in 1 .. n - 1
        BY <1>1, <2>1
      <3> QED BY <1>6, <2>1, <3>1
    <2>2. CASE k # n
      <3>1. k \in 1 .. n - 1
        BY <1>1, <2>2
      <3> QED BY <1>6, <3>1
    <2> QED BY <2>1, <2>2
  <1>10. {r[k] : k \in 1 .. n - 1} = {l[k] : k \in 1 .. n} \ {l[i]}
    <2>1. {r[k] : k \in 1 .. n - 1} \subseteq {l[k] : k \in 1 .. n} \ {l[i]}
      BY <1>8
    <2> QED BY <1>9, <2>1
  <1> QED BY <1>5, <1>7, <1>10 DEF r

\* One more record, and what it adds to each upload's.
LEMMA OneMore ==
  ASSUME TrTypeOK, NEW u \in Uploads, NEW rec, rec.upload = u, SendRecord(rec)
  PROVE  LET n == Len(records)
         IN  /\ n \in Nat /\ Len(records') = n + 1
             /\ \A i \in 1 .. n : records'[i] = records[i]
             /\ records'[n + 1] = rec
             /\ records' \in Seq({records'[i] : i \in 1 .. Len(records')})
             /\ Of(u)' = Of(u) \cup {n + 1} /\ n + 1 \notin Of(u)
             /\ \A v \in Uploads \ {u} : Of(v)' = Of(v)
             /\ \A v \in Uploads : Of(v) \subseteq 1 .. n
  <1> DEFINE n == Len(records)
             R == {records[i] : i \in 1 .. n}
             P == R \cup {rec}
  <1>1. records \in Seq(P) /\ rec \in P /\ n \in Nat
    <2>1. records \in Seq(R)
      BY DEF TrTypeOK
    <2>2. n \in Nat
      BY <2>1, LenProperties
    <2> QED BY <2>1, <2>2, SeqMonotonic
  <1>2. records' = Append(records, rec)
    BY DEF SendRecord
  <1> HIDE DEF P, R
  <1>3. /\ records' \in Seq(P) /\ Len(records') = n + 1
        /\ \A i \in 1 .. n : records'[i] = records[i]
        /\ records'[n + 1] = rec
    BY <1>1, <1>2, AppendProperties
  <1>4. records' \in Seq({records'[i] : i \in 1 .. Len(records')})
    BY <1>3, RangeOfSeq, SeqOfRange, LenProperties
  <1>5. \A v \in Uploads : Of(v) \subseteq 1 .. n
    BY DEF Of
  <1>6. 1 .. Len(records') = (1 .. n) \cup {n + 1} /\ n + 1 \notin 1 .. n
    BY <1>1, <1>3
  <1>7. Of(u)' = Of(u) \cup {n + 1}
    BY <1>3, <1>6 DEF Of
  <1>8. n + 1 \notin Of(u)
    BY <1>5, <1>6
  <1>9. \A v \in Uploads \ {u} : Of(v)' = Of(v)
    BY <1>3, <1>6 DEF Of
  <1> QED BY <1>1, <1>3, <1>4, <1>5, <1>7, <1>8, <1>9


\* The records of an upload stay as they are when another's are sent.
LEMMA OthersStay ==
  ASSUME ReplayInv, NEW u \in Uploads, NEW rec, rec.upload = u, SendRecord(rec),
         NEW v \in Uploads \ {u}, ops'[v] = ops[v], op_index'[v] = op_index[v],
         phase'[v] = phase[v], live'[v] = live[v], allocs'[v] = allocs[v],
         frees'[v] = frees[v]
  PROVE  Reported(v)' /\ FreesOwn(v)' /\ HoldsRest(v)'
  <1>1. Of(v)' = Of(v) /\ \A i \in Of(v) : records'[i] = records[i]
    BY OneMore DEF ReplayInv
  <1>2. Frees(v)' = Frees(v) /\ Frees(v) \subseteq Of(v)
    BY <1>1 DEF Frees
  <1>3. HeldBy(v)' = HeldBy(v) /\ Named(v)' = Named(v) /\ TakenBy(v)' = TakenBy(v)
    BY <1>1, <1>2 DEF HeldBy, Named, TakenBy
  <1>4. Reported(v) /\ FreesOwn(v) /\ HoldsRest(v)
    BY DEF ReplayInv
  <1>5. Reported(v)'
    BY <1>1, <1>4 DEF Reported
  <1>6. FreesOwn(v)'
    BY <1>1, <1>2, <1>4 DEF FreesOwn
  <1>7. HoldsRest(v)'
    BY <1>3, <1>4 DEF HoldsRest
  <1> QED BY <1>5, <1>6, <1>7

\* An operation is reported with its number; what was reported before came earlier.
LEMMA ReportStep ==
  ASSUME ReplayShape, ReplayInv, NEW u \in Uploads, NEW block \in 0 .. op_index[u],
         NEW frag \in 0 .. 100, SendRecord(TelemetryRecord(u, block, frag)),
         op_index'[u] = op_index[u] + 1, ops' = ops, phase[u] = "running", phase' = phase
  PROVE  Reported(u)'
  <1> DEFINE n == Len(records)
             rec == TelemetryRecord(u, block, frag)
             k == op_index[u]
  <1>1. /\ rec.upload = u /\ rec.op = k /\ rec.block = block /\ rec.frag = frag
        /\ rec.ts = RecordTs(u)
    BY DEF TelemetryRecord
  <1> HIDE DEF rec
  <1>2. /\ n \in Nat /\ Of(u)' = Of(u) \cup {n + 1} /\ n + 1 \notin Of(u)
        /\ Of(u) \subseteq 1 .. n /\ records'[n + 1] = rec
        /\ \A i \in Of(u) : records'[i] = records[i]
    <2>1. SendRecord(rec) /\ TrTypeOK
      BY DEF rec, ReplayInv
    <2> QED BY <1>1, <2>1, OneMore
  <1>3. k \in Nat \ {0} /\ Reported(u)
    BY DEF ReplayInv, TrTypeOK
  <1>4. TimestampsAreDegenerate(ops[u]) => rec.ts = (k - 1) * Interval
    BY <1>1 DEF RecordTs
  <1>5. ASSUME NEW i \in Of(u)'
        PROVE  /\ records'[i].op \in 1 .. k /\ records'[i].frag \in 0 .. 100
               /\ records'[i].block \in 0 .. k
               /\ TimestampsAreDegenerate(ops[u]) =>
                    records'[i].ts = (records'[i].op - 1) * Interval
    <2>1. CASE i \in Of(u)
      <3>1. /\ records[i].op \in 1 .. k - 1 /\ records[i].frag \in 0 .. 100
            /\ records[i].block \in 0 .. k - 1
            /\ TimestampsAreDegenerate(ops[u]) => records[i].ts = (records[i].op - 1) * Interval
        BY <1>3, <2>1 DEF Reported
      <3>2. 1 .. k - 1 \subseteq 1 .. k /\ 0 .. k - 1 \subseteq 0 .. k
        BY <1>3
      <3>3. records'[i] = records[i]
        BY <1>2, <2>1
      <3> HIDE DEF k
      <3> QED BY <3>1, <3>2, <3>3
    <2>2. CASE i = n + 1
      <3>1. records'[i] = rec
        BY <1>2, <2>2
      <3>2. k \in 1 .. k /\ block \in 0 .. k
        BY <1>3
      <3> HIDE DEF k
      <3> QED BY <1>1, <1>4, <3>1, <3>2
    <2> QED BY <1>2, <2>1, <2>2
  <1>6. ASSUME NEW i \in Of(u)', NEW j \in Of(u)', i < j PROVE records'[i].op < records'[j].op
    <2>1. i \in Of(u) /\ (j \in Of(u) \/ j = n + 1)
      BY <1>2, <1>6
    <2>2. CASE j \in Of(u)
      BY <1>2, <1>3, <1>6, <2>1, <2>2 DEF Reported
    <2>3. CASE j = n + 1
      <3>1. records'[i].op \in 1 .. k - 1
        BY <1>2, <1>3, <2>1 DEF Reported
      <3> QED BY <1>1, <1>2, <1>3, <2>3, <3>1
    <2> QED BY <2>1, <2>2, <2>3
  <1>7. Cardinality(Of(u)') = k
    <2>1. IsFiniteSet(Of(u))
      <3>1. 1 \in Int /\ n \in Int /\ Of(u) \in SUBSET (1 .. n)
        BY <1>2
      <3> HIDE DEF n
      <3>2. IsFiniteSet(1 .. n)
        BY <3>1, FS_Interval
      <3> QED BY <3>1, <3>2, FS_Subset
    <2>2. Cardinality(Of(u)') = Cardinality(Of(u)) + 1
      BY <1>2, <2>1, FS_AddElement
    <2> QED BY <1>3, <2>2 DEF Reported
  <1>8. op_index'[u] - 1 = k
    BY <1>3
  <1> QED BY <1>5, <1>6, <1>7, <1>8 DEF Reported

\* What a record adds to what an upload's records name, and to what its frees took.
LEMMA SentAdds ==
  ASSUME ReplayInv, NEW u \in Uploads, NEW block, NEW frag,
         SendRecord(TelemetryRecord(u, block, frag)), ops' = ops
  PROVE  LET n == Len(records)
             takes == block # Nothing /\ ops[u][op_index[u]].op = "free"
         IN  /\ n \in Nat /\ Of(u) \subseteq 1 .. n
             /\ \A i \in Of(u) : records'[i] = records[i]
             /\ records'[n + 1].block = block /\ records'[n + 1].op = op_index[u]
             /\ Named(u)' = Named(u) \cup {block}
             /\ takes => Frees(u)' = Frees(u) \cup {n + 1} /\ TakenBy(u)' = TakenBy(u) \cup {block}
             /\ ~takes => Frees(u)' = Frees(u) /\ TakenBy(u)' = TakenBy(u)
  <1> DEFINE n == Len(records)
             rec == TelemetryRecord(u, block, frag)
             takes == block # Nothing /\ ops[u][op_index[u]].op = "free"
  <1>1. rec.upload = u /\ rec.op = op_index[u] /\ rec.block = block
    BY DEF TelemetryRecord
  <1>2. SendRecord(rec) /\ TrTypeOK
    BY DEF ReplayInv
  <1> HIDE DEF rec
  <1>3. /\ n \in Nat /\ Of(u)' = Of(u) \cup {n + 1} /\ n + 1 \notin Of(u)
        /\ Of(u) \subseteq 1 .. n /\ records'[n + 1] = rec
        /\ \A i \in Of(u) : records'[i] = records[i]
    BY <1>1, <1>2, OneMore
  <1> HIDE DEF n
  <1>4. Named(u)' = Named(u) \cup {block}
    BY <1>1, <1>3 DEF Named
  <1>5. Frees(u) \subseteq Of(u)
    BY DEF Frees
  <1>6. \A i : i \in Frees(u)' <=> i \in Frees(u) \/ (i = n + 1 /\ takes)
    <2> SUFFICES ASSUME NEW i PROVE i \in Frees(u)' <=> i \in Frees(u) \/ (i = n + 1 /\ takes)
      OBVIOUS
    <2>1. CASE i \in Of(u)
      BY <1>3, <2>1 DEF Frees
    <2>2. CASE i = n + 1
      BY <1>1, <1>3, <1>5, <2>2 DEF Frees
    <2>3. CASE i \notin Of(u) /\ i # n + 1
      BY <1>3, <2>3 DEF Frees
    <2> QED BY <2>1, <2>2, <2>3
  <1>7. takes => Frees(u)' = Frees(u) \cup {n + 1} /\ TakenBy(u)' = TakenBy(u) \cup {block}
    <2> SUFFICES ASSUME takes PROVE Frees(u)' = Frees(u) \cup {n + 1}
                                    /\ TakenBy(u)' = TakenBy(u) \cup {block}
      OBVIOUS
    <2>1. Frees(u)' = Frees(u) \cup {n + 1}
      BY <1>6
    <2> QED BY <1>1, <1>3, <1>5, <2>1 DEF TakenBy
  <1>8. ~takes => Frees(u)' = Frees(u) /\ TakenBy(u)' = TakenBy(u)
    <2> SUFFICES ASSUME ~takes PROVE Frees(u)' = Frees(u) /\ TakenBy(u)' = TakenBy(u)
      OBVIOUS
    <2>1. Frees(u)' = Frees(u)
      BY <1>6
    <2> QED BY <1>3, <1>5, <2>1 DEF TakenBy
  <1> QED BY <1>1, <1>3, <1>4, <1>7, <1>8 DEF n

\* What a record names is no later than its operation, and the operation was before.
LEMMA Earlier ==
  ASSUME ReplayInv, NEW u \in Uploads
  PROVE  /\ \A b \in Named(u) : b \in 0 .. op_index[u] - 1
         /\ TakenBy(u) \subseteq Named(u) /\ Frees(u) \subseteq Of(u)
         /\ op_index[u] \in Nat \ {0} /\ live[u] \in Seq(Nat)
         /\ allocs[u] \in Nat /\ frees[u] \in Nat
         /\ Reported(u) /\ FreesOwn(u) /\ HoldsRest(u)
  <1>1. Frees(u) \subseteq Of(u)
    BY DEF Frees
  <1>2. Reported(u) /\ FreesOwn(u) /\ HoldsRest(u) /\ TrTypeOK
    BY DEF ReplayInv
  <1>3. TakenBy(u) \subseteq Named(u)
    BY <1>1 DEF TakenBy, Named
  <1>4. \A b \in Named(u) : b \in 0 .. op_index[u] - 1
    BY <1>2 DEF Reported, Named
  <1> QED BY <1>1, <1>2, <1>3, <1>4 DEF TrTypeOK

\* A record that takes nothing leaves what the frees took.
LEMMA TakesNothing ==
  ASSUME ReplayInv, NEW u \in Uploads, NEW block, NEW frag,
         SendRecord(TelemetryRecord(u, block, frag)), ops' = ops,
         block = Nothing \/ ops[u][op_index[u]].op # "free"
  PROVE  FreesOwn(u)' /\ TakenBy(u)' = TakenBy(u) /\ Named(u)' = Named(u) \cup {block}
  <1>1. /\ \A i \in Of(u) : records'[i] = records[i]
        /\ Frees(u)' = Frees(u) /\ TakenBy(u)' = TakenBy(u)
        /\ Named(u)' = Named(u) \cup {block}
    BY SentAdds
  <1>2. FreesOwn(u) /\ Frees(u) \subseteq Of(u)
    BY Earlier
  <1>3. FreesOwn(u)'
    BY <1>1, <1>2 DEF FreesOwn
  <1> QED BY <1>1, <1>3

\* A successful allocation: the upload also holds the new block.
LEMMA AllocOkHolds ==
  ASSUME ReplayInv, NEW u \in Uploads, AllocOk(u) PROVE FreesOwn(u)' /\ HoldsRest(u)'
  <1> DEFINE k == op_index[u]
             l == live[u]
             frag == FragmentationPct(Len(live[u]) + 1, allocs[u] + 1, frees[u])
  <1>1. /\ SendRecord(TelemetryRecord(u, k, frag)) /\ ops' = ops
        /\ ops[u][k].op = "alloc" /\ live'[u] = Append(l, k)
        /\ allocs'[u] = allocs[u] + 1 /\ frees'[u] = frees[u]
    BY DEF AllocOk, Next1, ReplayInv, TrTypeOK
  <1> HIDE DEF frag
  <1>2. /\ k \in Nat \ {0} /\ l \in Seq(Nat) /\ allocs[u] \in Nat /\ frees[u] \in Nat
        /\ HoldsRest(u) /\ TakenBy(u) \subseteq Named(u)
        /\ \A b \in Named(u) : b \in 0 .. k - 1
    BY Earlier
  <1> HIDE DEF k, l
  <1>3. FreesOwn(u)' /\ TakenBy(u)' = TakenBy(u) /\ Named(u)' = Named(u) \cup {k}
    BY <1>1, TakesNothing DEF k
  <1>4. /\ Len(live'[u]) = Len(l) + 1 /\ Len(l) \in Nat
        /\ \A i \in 1 .. Len(l) : live'[u][i] = l[i]
        /\ live'[u][Len(l) + 1] = k
    BY <1>1, <1>2, AppendProperties, LenProperties
  <1>5. 1 .. Len(l) + 1 = 1 .. Len(l) \cup {Len(l) + 1}
    BY <1>4
  <1>6. HeldBy(u)' = HeldBy(u) \cup {k}
    BY <1>4, <1>5 DEF HeldBy, l
  <1>7. k \notin Named(u) /\ k # Nothing
    BY <1>2 DEF Nothing
  <1>8. HeldBy(u)' = Named(u)' \ ({Nothing} \cup TakenBy(u)')
    <2>1. HeldBy(u) = Named(u) \ ({Nothing} \cup TakenBy(u))
      BY <1>2 DEF HoldsRest
    <2> QED BY <1>2, <1>3, <1>6, <1>7, <2>1
  <1>9. \A i, j \in 1 .. Len(live'[u]) : live'[u][i] = live'[u][j] => i = j
    <2>1. \A i \in 1 .. Len(l) : l[i] # k
      <3>1. \A i \in 1 .. Len(l) : l[i] \in Named(u)
        BY <1>2 DEF HoldsRest, HeldBy, l
      <3> QED BY <1>7, <3>1
    <2>2. \A i, j \in 1 .. Len(l) : l[i] = l[j] => i = j
      BY <1>2 DEF HoldsRest, l
    <2> SUFFICES ASSUME NEW i \in 1 .. Len(l) \cup {Len(l) + 1},
                        NEW j \in 1 .. Len(l) \cup {Len(l) + 1}, live'[u][i] = live'[u][j]
                 PROVE  i = j
      BY <1>4, <1>5
    <2> QED BY <1>4, <2>1, <2>2
  <1>10. \A b \in HeldBy(u)' : ops'[u][b].op = "alloc"
    BY <1>1, <1>2, <1>6 DEF HoldsRest
  <1>11. Len(live'[u]) = allocs'[u] - frees'[u]
    <2>1. Len(l) = allocs[u] - frees[u]
      BY <1>2 DEF HoldsRest, l
    <2> QED BY <1>1, <1>2, <1>4, <2>1
  <1>12. HoldsRest(u)'
    BY <1>8, <1>9, <1>10, <1>11 DEF HoldsRest
  <1> QED BY <1>3, <1>12

\* A record that names no block changes nothing of what is held.
LEMMA HoldsSame ==
  ASSUME ReplayInv, NEW u \in Uploads, NEW frag,
         SendRecord(TelemetryRecord(u, Nothing, frag)), ops' = ops,
         live' = live, allocs' = allocs, frees' = frees
  PROVE  FreesOwn(u)' /\ HoldsRest(u)'
  <1>1. FreesOwn(u)' /\ TakenBy(u)' = TakenBy(u) /\ Named(u)' = Named(u) \cup {Nothing}
    BY TakesNothing
  <1>2. HoldsRest(u) /\ HeldBy(u)' = HeldBy(u)
    BY Earlier DEF HeldBy
  <1>3. HeldBy(u)' = Named(u)' \ ({Nothing} \cup TakenBy(u)')
    BY <1>1, <1>2 DEF HoldsRest
  <1> QED BY <1>1, <1>2, <1>3 DEF HoldsRest

\* The block that a free takes: held, the last of its size.
LEMMA Matching ==
  ASSUME ReplayInv, NEW u \in Uploads, Matches(u) # {}
  PROVE  LET m == Max(Matches(u))
         IN  /\ m \in 1 .. Len(live[u]) /\ Len(live[u]) \in Nat /\ live[u][m] \in HeldBy(u)
             /\ ops[u][live[u][m]].size = ops[u][op_index[u]].size
  <1>1. Len(live[u]) \in Nat
    BY Earlier, LenProperties
  <1>2. Matches(u) \in SUBSET (0 .. Len(live[u]))
    BY <1>1 DEF Matches
  <1>3. Max(Matches(u)) \in Matches(u)
    BY <1>1, <1>2, MaxOf
  <1> DEFINE m == Max(Matches(u))
  <1> HIDE DEF m
  <1>4. m \in 1 .. Len(live[u]) /\ ops[u][live[u][m]].size = ops[u][op_index[u]].size
    BY <1>3 DEF Matches, m
  <1> QED BY <1>1, <1>4 DEF HeldBy, m

\* A free that finds a block: the upload no longer holds it, and no free took it before.
LEMMA FreeOpHolds ==
  ASSUME ReplayInv, NEW u \in Uploads, FreeOp(u), Matches(u) # {}
  PROVE  FreesOwn(u)' /\ HoldsRest(u)'
  <1> DEFINE k == op_index[u]
             l == live[u]
             m == Max(Matches(u))
             b == l[m]
             n == Len(records)
             frag == FragmentationPct(Len(live[u]) - 1, allocs[u], frees[u] + 1)
  <1>1. /\ SendRecord(TelemetryRecord(u, b, frag)) /\ ops' = ops
        /\ ops[u][k].op = "free" /\ live'[u] = SwapRemove(l, m)
        /\ allocs'[u] = allocs[u] /\ frees'[u] = frees[u] + 1
    BY DEF FreeOp, Next1, ReplayInv, TrTypeOK
  <1> HIDE DEF frag
  <1>2. /\ k \in Nat \ {0} /\ l \in Seq(Nat) /\ allocs[u] \in Nat /\ frees[u] \in Nat
        /\ FreesOwn(u) /\ HoldsRest(u) /\ TakenBy(u) \subseteq Named(u)
        /\ Frees(u) \subseteq Of(u) /\ \A c \in Named(u) : c \in 0 .. k - 1
    BY Earlier
  <1>3. /\ m \in 1 .. Len(l) /\ Len(l) \in Nat /\ b \in HeldBy(u)
        /\ ops[u][b].size = ops[u][k].size
    BY Matching
  <1> HIDE DEF m, l, k
  <1>4. /\ b \in Named(u) /\ b # Nothing /\ b \notin TakenBy(u) /\ ops[u][b].op = "alloc"
        /\ b \in 0 .. k - 1
    BY <1>2, <1>3 DEF HoldsRest
  <1> DEFINE r == SwapRemove(l, m)
  <1>5. /\ Len(r) = Len(l) - 1 /\ \A i, j \in 1 .. Len(r) : r[i] = r[j] => i = j
        /\ {r[i] : i \in 1 .. Len(r)} = {l[i] : i \in 1 .. Len(l)} \ {b}
    <2>1. \A i, j \in 1 .. Len(l) : l[i] = l[j] => i = j
      BY <1>2 DEF HoldsRest, l
    <2> QED BY <1>2, <1>3, <2>1, SwapRemoved
  <1> HIDE DEF b, r
  <1>6. HeldBy(u)' = HeldBy(u) \ {b}
    BY <1>1, <1>5 DEF HeldBy, r, l
  <1>7. /\ n \in Nat /\ Of(u) \subseteq 1 .. n
        /\ \A i \in Of(u) : records'[i] = records[i]
        /\ records'[n + 1].block = b /\ records'[n + 1].op = k
        /\ Named(u)' = Named(u) \cup {b}
        /\ Frees(u)' = Frees(u) \cup {n + 1} /\ TakenBy(u)' = TakenBy(u) \cup {b}
    BY <1>1, <1>4, SentAdds DEF k
  <1> HIDE DEF n
  <1>8. \A i \in Frees(u) : records'[i] = records[i] /\ records[i].block # b /\ i # n + 1
    BY <1>2, <1>4, <1>7 DEF TakenBy
  <1>9. ASSUME NEW i \in Frees(u)'
        PROVE  /\ records'[i].block < records'[i].op
               /\ ops[u][records'[i].block].op = "alloc"
               /\ ops[u][records'[i].block].size = ops[u][records'[i].op].size
               /\ \A j \in Frees(u)' : records'[j].block = records'[i].block => i = j
    <2>1. CASE i \in Frees(u)
      <3>1. /\ records[i].block < records[i].op
            /\ ops[u][records[i].block].op = "alloc"
            /\ ops[u][records[i].block].size = ops[u][records[i].op].size
            /\ \A j \in Frees(u) : records[j].block = records[i].block => i = j
        BY <1>2, <2>1 DEF FreesOwn
      <3> QED BY <1>7, <1>8, <2>1, <3>1
    <2>2. CASE i = n + 1
      <3>1. b < k
        BY <1>2, <1>4
      <3>2. \A j \in Frees(u)' : records'[j].block = b => n + 1 = j
        BY <1>7, <1>8
      <3> QED BY <1>3, <1>4, <1>7, <2>2, <3>1, <3>2
    <2> QED BY <1>7, <2>1, <2>2
  <1>10. FreesOwn(u)'
    BY <1>1, <1>9 DEF FreesOwn
  <1>11. HeldBy(u)' = Named(u)' \ ({Nothing} \cup TakenBy(u)')
    <2>1. HeldBy(u) = Named(u) \ ({Nothing} \cup TakenBy(u))
      BY <1>2 DEF HoldsRest
    <2> QED BY <1>4, <1>6, <1>7, <2>1
  <1>12. Len(live'[u]) = allocs'[u] - frees'[u]
    <2>1. Len(l) = allocs[u] - frees[u]
      BY <1>2 DEF HoldsRest, l
    <2>2. Len(live'[u]) = Len(l) - 1
      BY <1>1, <1>5 DEF r
    <2>3. allocs'[u] = allocs[u] /\ frees'[u] = frees[u] + 1
      BY <1>1
    <2>4. Len(l) \in Nat /\ allocs[u] \in Nat /\ frees[u] \in Nat
      BY <1>2, <1>3
    <2> QED BY <2>1, <2>2, <2>3, <2>4
  <1>13. \A c \in HeldBy(u)' : ops'[u][c].op = "alloc"
    BY <1>1, <1>2, <1>6 DEF HoldsRest
  <1>14. HoldsRest(u)'
    BY <1>1, <1>5, <1>11, <1>12, <1>13 DEF HoldsRest, r
  <1> QED BY <1>10, <1>14

-----------------------------------------------------------------------------
\* What the queues and the sockets need of a record that is sent.
LEMMA SentQueued ==
  ASSUME ReplayInv, NEW u \in Uploads, NEW rec, rec.upload = u, SendRecord(rec)
  PROVE  /\ Queued' /\ channel' \in Seq(Nat) /\ drained' \in 0 .. Len(records')
         /\ records' \in Seq({records'[i] : i \in 1 .. Len(records')})
         /\ \A s \in Sockets : Sends(s)'
  <1> DEFINE n == Len(records)
  <1>1. n \in Nat /\ Len(records') = n + 1
        /\ records' \in Seq({records'[i] : i \in 1 .. Len(records')})
    BY OneMore DEF ReplayInv
  <1>2. drained \in 0 .. n /\ channel \in Seq(Nat) /\ drained' = drained
    BY DEF ReplayInv, TrTypeOK, SendRecord
  <1>3. \A s \in Sockets : Sends(s)'
    BY DEF ReplayInv, SendRecord, readers, Sends
  <1>4. Queued' /\ channel' \in Seq(Nat)
    <2>1. CASE channel' = channel
      BY <1>1, <1>2, <2>1 DEF ReplayInv, Queued
    <2>2. CASE channel' = Append(channel, n + 1)
      <3> DEFINE c == Len(channel)
      <3>1. /\ c \in Nat /\ channel' \in Seq(Nat) /\ Len(channel') = c + 1
            /\ \A i \in 1 .. c : channel'[i] = channel[i]
            /\ channel'[c + 1] = n + 1
        BY <1>1, <1>2, <2>2, AppendProperties, LenProperties
      <3>2. \A i \in 1 .. c : channel[i] \in Nat
        BY <1>2, ElementOfSeq
      <3>3. ASSUME NEW i \in 1 .. c + 1
            PROVE  /\ channel'[i] > (IF i = 1 THEN drained' ELSE channel'[i - 1])
                   /\ channel'[i] <= Len(records')
        <4>1. CASE i \in 1 .. c
          <5>1. channel[i] > (IF i = 1 THEN drained ELSE channel[i - 1]) /\ channel[i] <= n
            BY <4>1 DEF ReplayInv, Queued
          <5>2. i # 1 => i - 1 \in 1 .. c
            BY <3>1, <4>1
          <5>3. channel'[i] = channel[i] /\ (i # 1 => channel'[i - 1] = channel[i - 1])
            BY <3>1, <4>1, <5>2
          <5>4. channel[i] <= Len(records')
            BY <1>1, <3>2, <4>1, <5>1
          <5> QED BY <1>2, <5>1, <5>3, <5>4
        <4>2. CASE i = c + 1
          <5>1. channel'[i] = n + 1
            BY <3>1, <4>2
          <5>2. i = 1 => drained <= n
            BY <1>1, <1>2
          <5>3. i # 1 => channel'[i - 1] <= n /\ channel'[i - 1] \in Nat
            <6>1. i # 1 => i - 1 \in 1 .. c
              BY <3>1, <4>2
            <6> QED BY <3>1, <3>2, <6>1 DEF ReplayInv, Queued
          <5> QED BY <1>1, <1>2, <5>1, <5>2, <5>3
        <4> QED BY <3>1, <4>1, <4>2
      <3>4. Queued'
        BY <3>1, <3>3 DEF Queued
      <3> QED BY <3>1, <3>4
    <2> QED BY <2>1, <2>2 DEF SendRecord
  <1>5. drained' \in 0 .. Len(records')
    BY <1>1, <1>2
  <1> QED BY <1>1, <1>3, <1>4, <1>5

\* What the frame of an operation leaves to each upload.
LEMMA OneStep ==
  ASSUME ReplayInv, NEW u \in Uploads, AllocOk(u) \/ AllocFails(u) \/ FreeOp(u)
  PROVE  /\ phase[u] = "running" /\ phase' = phase /\ ops' = ops
         /\ op_index' = [op_index EXCEPT ![u] = @ + 1]
         /\ live' \in [Uploads -> Seq(Nat)]
         /\ allocs' \in [Uploads -> Nat] /\ frees' \in [Uploads -> Nat]
         /\ \A v \in Uploads \ {u} :
              live'[v] = live[v] /\ allocs'[v] = allocs[v] /\ frees'[v] = frees[v]
         /\ FreesOwn(u)' /\ HoldsRest(u)'
         /\ \E block \in 0 .. op_index[u], frag \in 0 .. 100 :
              SendRecord(TelemetryRecord(u, block, frag))
  <1> DEFINE k == op_index[u]
  <1>1. /\ live \in [Uploads -> Seq(Nat)]
        /\ allocs \in [Uploads -> Nat] /\ frees \in [Uploads -> Nat]
    BY DEF ReplayInv, TrTypeOK
  <1>2. /\ phase[u] = "running" /\ phase' = phase /\ ops' = ops
        /\ op_index' = [op_index EXCEPT ![u] = @ + 1]
    BY DEF AllocOk, AllocFails, FreeOp, Next1
  <1>3. /\ k \in Nat \ {0} /\ live[u] \in Seq(Nat) /\ Len(live[u]) \in Nat
        /\ \A b \in Named(u) : b \in 0 .. k - 1
    BY Earlier, LenProperties
  <1>4. Nothing \in 0 .. k
    BY <1>3 DEF Nothing
  <1>5. CASE AllocOk(u)
    <2>1. FreesOwn(u)' /\ HoldsRest(u)'
      BY <1>5, AllocOkHolds
    <2>2. Append(live[u], k) \in Seq(Nat)
      BY <1>3, AppendProperties
    <2>3. /\ live' = [live EXCEPT ![u] = Append(@, k)]
          /\ allocs' = [allocs EXCEPT ![u] = @ + 1] /\ frees' = frees
      BY <1>5 DEF AllocOk
    <2>4. FragmentationPct(Len(live[u]) + 1, allocs[u] + 1, frees[u]) \in 0 .. 100
      <3>1. Len(live[u]) + 1 \in Nat /\ allocs[u] + 1 \in Nat /\ frees[u] \in Nat
        BY <1>1, <1>3
      <3> QED BY <3>1, Percentage
    <2>5. \E block \in 0 .. k, frag \in 0 .. 100 : SendRecord(TelemetryRecord(u, block, frag))
      <3>1. k \in 0 .. k
        BY <1>3
      <3> QED BY <1>5, <2>4, <3>1 DEF AllocOk
    <2>6. live' \in [Uploads -> Seq(Nat)] /\ \A v \in Uploads \ {u} : live'[v] = live[v]
      BY <1>1, <2>2, <2>3
    <2>7. /\ allocs' \in [Uploads -> Nat] /\ frees' \in [Uploads -> Nat]
          /\ \A v \in Uploads \ {u} : allocs'[v] = allocs[v] /\ frees'[v] = frees[v]
      BY <1>1, <2>3
    <2> QED BY <1>2, <2>1, <2>5, <2>6, <2>7
  <1>6. CASE AllocFails(u)
    <2>1. FragmentationPct(Len(live[u]), allocs[u], 0) \in 0 .. 100
      BY <1>1, <1>3, Percentage
    <2>2. PICK frag \in 0 .. 100 : SendRecord(TelemetryRecord(u, Nothing, frag))
      BY <1>6, <2>1 DEF AllocFails
    <2>3. live' = live /\ allocs' = allocs /\ frees' = frees
      BY <1>6 DEF AllocFails
    <2>4. FreesOwn(u)' /\ HoldsRest(u)'
      BY <1>2, <2>2, <2>3, HoldsSame
    <2> QED BY <1>1, <1>2, <1>4, <2>2, <2>3, <2>4
  <1>7. CASE FreeOp(u) /\ Matches(u) = {}
    <2>1. FragmentationPct(Len(live[u]), allocs[u], frees[u]) \in 0 .. 100
      BY <1>1, <1>3, Percentage
    <2>2. PICK frag \in 0 .. 100 : SendRecord(TelemetryRecord(u, Nothing, frag))
      BY <1>7, <2>1 DEF FreeOp
    <2>3. live' = live /\ allocs' = allocs /\ frees' = frees
      BY <1>7 DEF FreeOp
    <2>4. FreesOwn(u)' /\ HoldsRest(u)'
      BY <1>2, <2>2, <2>3, HoldsSame
    <2> QED BY <1>1, <1>2, <1>4, <2>2, <2>3, <2>4
  <1>8. CASE FreeOp(u) /\ Matches(u) # {}
    <2> DEFINE m == Max(Matches(u))
    <2>1. FreesOwn(u)' /\ HoldsRest(u)'
      BY <1>8, FreeOpHolds
    <2>2. m \in 1 .. Len(live[u]) /\ live[u][m] \in HeldBy(u)
      BY <1>8, Matching
    <2>3. /\ live' = [live EXCEPT ![u] = SwapRemove(@, m)] /\ allocs' = allocs
          /\ frees' = [frees EXCEPT ![u] = @ + 1]
          /\ SendRecord(TelemetryRecord(u, live[u][m],
               FragmentationPct(Len(live[u]) - 1, allocs[u], frees[u] + 1)))
      BY <1>8 DEF FreeOp
    <2> HIDE DEF m
    <2>4. FragmentationPct(Len(live[u]) - 1, allocs[u], frees[u] + 1) \in 0 .. 100
      <3>1. Len(live[u]) - 1 \in Nat /\ allocs[u] \in Nat /\ frees[u] + 1 \in Nat
        BY <1>1, <1>3, <2>2
      <3> QED BY <3>1, Percentage
    <2>5. SwapRemove(live[u], m) \in Seq(Nat)
      <3>1. HoldsRest(u)
        BY Earlier
      <3> QED BY <1>3, <2>2, <3>1, SwapRemoved DEF HoldsRest
    <2>6. live[u][m] \in 0 .. k
      <3>1. live[u][m] \in Named(u)
        BY <2>2, Earlier DEF HoldsRest
      <3> QED BY <1>3, <3>1
    <2>7. \E block \in 0 .. k, frag \in 0 .. 100 : SendRecord(TelemetryRecord(u, block, frag))
      BY <2>3, <2>4, <2>6
    <2>8. live' \in [Uploads -> Seq(Nat)] /\ \A v \in Uploads \ {u} : live'[v] = live[v]
      BY <1>1, <2>3, <2>5
    <2>9. /\ allocs' \in [Uploads -> Nat] /\ frees' \in [Uploads -> Nat]
          /\ \A v \in Uploads \ {u} : allocs'[v] = allocs[v] /\ frees'[v] = frees[v]
      BY <1>1, <2>3
    <2> QED BY <1>2, <2>1, <2>7, <2>8, <2>9
  <1> QED BY <1>5, <1>6, <1>7, <1>8

\* The next operation of a trace.
LEMMA OperationStep ==
  ASSUME ReplayShape, ReplayInv, NEW u \in Uploads, AllocOk(u) \/ AllocFails(u) \/ FreeOp(u)
  PROVE  ReplayInv'
  <1>1. PICK block \in 0 .. op_index[u], frag \in 0 .. 100 :
          SendRecord(TelemetryRecord(u, block, frag))
    BY OneStep
  <1> DEFINE rec == TelemetryRecord(u, block, frag)
  <1>2. rec.upload = u /\ SendRecord(rec)
    BY <1>1 DEF TelemetryRecord
  <1>3. /\ phase[u] = "running" /\ phase' = phase /\ ops' = ops
        /\ op_index' = [op_index EXCEPT ![u] = @ + 1]
        /\ live' \in [Uploads -> Seq(Nat)]
        /\ allocs' \in [Uploads -> Nat] /\ frees' \in [Uploads -> Nat]
        /\ FreesOwn(u)' /\ HoldsRest(u)'
    BY OneStep
  <1>4. TrTypeOK
    BY DEF ReplayInv
  <1>5. op_index' \in [Uploads -> Nat \ {0}] /\ op_index'[u] = op_index[u] + 1
        /\ \A v \in Uploads \ {u} : op_index'[v] = op_index[v]
    BY <1>3, <1>4 DEF TrTypeOK
  <1>6. Reported(u)'
    BY <1>1, <1>3, <1>5, ReportStep
  <1> HIDE DEF rec
  <1>7. ASSUME NEW v \in Uploads \ {u} PROVE Reported(v)' /\ FreesOwn(v)' /\ HoldsRest(v)'
    <2>1. live'[v] = live[v] /\ allocs'[v] = allocs[v] /\ frees'[v] = frees[v]
      BY OneStep
    <2> QED BY <1>2, <1>3, <1>5, <2>1, OthersStay
  <1>8. /\ Queued' /\ channel' \in Seq(Nat) /\ drained' \in 0 .. Len(records')
        /\ records' \in Seq({records'[i] : i \in 1 .. Len(records')})
        /\ \A s \in Sockets : Sends(s)'
    BY <1>2, SentQueued
  <1>9. TrTypeOK'
    BY <1>2, <1>3, <1>4, <1>5, <1>8 DEF TrTypeOK, SendRecord, readers
  <1> QED BY <1>3, <1>6, <1>7, <1>8, <1>9 DEF ReplayInv

\* What a step that sends nothing leaves of an upload.
LEMMA UploadSame ==
  ASSUME ReplayInv, NEW v \in Uploads, records' = records, ops'[v] = ops[v],
         op_index'[v] = op_index[v], phase'[v] = "new" => phase[v] = "new",
         live'[v] = live[v], allocs'[v] = allocs[v], frees'[v] = frees[v]
  PROVE  Reported(v)' /\ FreesOwn(v)' /\ HoldsRest(v)'
  <1>1. Of(v)' = Of(v)
    BY DEF Of
  <1>2. Frees(v)' = Frees(v)
    BY <1>1 DEF Frees
  <1>3. HeldBy(v)' = HeldBy(v) /\ Named(v)' = Named(v) /\ TakenBy(v)' = TakenBy(v)
    BY <1>1, <1>2 DEF HeldBy, Named, TakenBy
  <1>4. Reported(v) /\ FreesOwn(v) /\ HoldsRest(v)
    BY DEF ReplayInv
  <1>5. Reported(v)'
    BY <1>1, <1>4 DEF Reported
  <1>6. FreesOwn(v)'
    BY <1>2, <1>4 DEF FreesOwn
  <1>7. HoldsRest(v)'
    BY <1>3, <1>4 DEF HoldsRest
  <1> QED BY <1>5, <1>6, <1>7

\* The queues and the sockets when the uploads send nothing.
LEMMA QueuesSame ==
  ASSUME ReplayInv, records' = records, UNCHANGED <<queues, readers>>
  PROVE  Queued' /\ \A s \in Sockets : Sends(s)'
  BY DEF ReplayInv, Queued, Sends, queues, readers

\* A new upload has no records yet, whatever its trace.
LEMMA UploadStep ==
  ASSUME ReplayInv, NEW u \in Uploads, NEW lines, ReplayTrace(u, lines) PROVE ReplayInv'
  <1>1. /\ phase[u] = "new" /\ records' = records /\ UNCHANGED <<queues, readers>>
        /\ op_index' = op_index /\ live' = live /\ allocs' = allocs /\ frees' = frees
    BY DEF ReplayTrace
  <1>2. TrTypeOK /\ Reported(u) /\ HoldsRest(u)
    BY DEF ReplayInv
  <1>3. /\ phase' \in [Uploads -> {"new", "refused", "running", "done"}]
        /\ ops' = [v \in Uploads |-> ops'[v]] /\ phase'[u] # "new"
        /\ \A v \in Uploads \ {u} : ops'[v] = ops[v] /\ phase'[v] = phase[v]
    BY <1>2 DEF ReplayTrace, TrTypeOK
  <1>4. TrTypeOK'
    BY <1>1, <1>2, <1>3 DEF TrTypeOK, queues, readers
  <1>5. Of(u) = {}
    <2>1. op_index[u] = 1
      BY <1>1, <1>2 DEF Reported
    <2>2. \A i \in Of(u) : records[i].op \in 1 .. 1 - 1
      BY <1>2, <2>1 DEF Reported
    <2> QED BY <2>2
  <1>6. Of(u)' = {} /\ Frees(u) = {} /\ Frees(u)' = {}
    <2>1. Of(u)' = {}
      BY <1>1, <1>5 DEF Of
    <2> QED BY <1>5, <2>1 DEF Frees
  <1>7. Named(u) = {} /\ Named(u)' = {} /\ TakenBy(u)' = {} /\ HeldBy(u)' = HeldBy(u) /\ HeldBy(u) = {}
    BY <1>1, <1>2, <1>5, <1>6 DEF Named, TakenBy, HeldBy, HoldsRest
  <1>8. Reported(u)'
    BY <1>1, <1>2, <1>3, <1>5, <1>6 DEF Reported
  <1>9. FreesOwn(u)'
    BY <1>6 DEF FreesOwn
  <1>10. HoldsRest(u)'
    BY <1>1, <1>2, <1>7 DEF HoldsRest
  <1>11. ASSUME NEW v \in Uploads \ {u} PROVE Reported(v)' /\ FreesOwn(v)' /\ HoldsRest(v)'
    BY <1>1, <1>3, UploadSame
  <1> QED BY <1>1, <1>4, <1>8, <1>9, <1>10, <1>11, QueuesSame DEF ReplayInv

\* The other steps of uploads, of the channel and of the sockets.
LEMMA FinishStep ==
  ASSUME ReplayInv, NEW u \in Uploads, Finish(u) PROVE ReplayInv'
  <1>1. /\ records' = records /\ UNCHANGED <<queues, readers>> /\ ops' = ops
        /\ op_index' = op_index /\ live' = live /\ allocs' = allocs /\ frees' = frees
        /\ phase' = [phase EXCEPT ![u] = "done"]
    BY DEF Finish
  <1>2. TrTypeOK'
    BY <1>1 DEF ReplayInv, TrTypeOK, queues, readers
  <1>3. ASSUME NEW v \in Uploads PROVE Reported(v)' /\ FreesOwn(v)' /\ HoldsRest(v)'
    <2>1. phase'[v] = "new" => phase[v] = "new"
      BY <1>1 DEF ReplayInv, TrTypeOK
    <2> QED BY <1>1, <2>1, UploadSame
  <1> QED BY <1>1, <1>2, <1>3, QueuesSame DEF ReplayInv

\* What the channel held is taken, up to the last.
LEMMA DrainStep ==
  ASSUME ReplayInv, Drain PROVE ReplayInv'
  <1>1. /\ channel # <<>> /\ drained' = channel[Len(channel)] /\ channel' = <<>>
        /\ UNCHANGED <<replay, readers>>
    BY DEF Drain
  <1>2. channel \in Seq(Nat) /\ Queued /\ Len(records) \in Nat
    BY LenProperties DEF ReplayInv, TrTypeOK
  <1>3. Len(channel) \in 1 .. Len(channel)
    BY <1>1, <1>2, EmptySeq, LenProperties
  <1>4. drained' \in 0 .. Len(records)
    <2>1. channel[Len(channel)] \in Nat
      BY <1>2, <1>3, ElementOfSeq
    <2> QED BY <1>1, <1>2, <1>3, <2>1 DEF Queued
  <1>5. channel' \in Seq(Nat) /\ Len(channel') = 0
    BY <1>1
  <1>6. TrTypeOK'
    BY <1>1, <1>4, <1>5 DEF ReplayInv, TrTypeOK, replay, readers
  <1>7. Queued'
    BY <1>5 DEF Queued
  <1>8. ASSUME NEW v \in Uploads PROVE Reported(v)' /\ FreesOwn(v)' /\ HoldsRest(v)'
    BY <1>1, UploadSame DEF replay
  <1>9. \A s \in Sockets : Sends(s)'
    BY <1>1 DEF ReplayInv, Sends, readers
  <1> QED BY <1>6, <1>7, <1>8, <1>9 DEF ReplayInv

\* A socket subscribes to what comes next, reads on or skips, and is dropped.
LEMMA SocketStep ==
  ASSUME ReplayShape, ReplayInv, NEW s \in Sockets, Connect(s) \/ Recv(s) \/ Close(s)
  PROVE  ReplayInv'
  <1> DEFINE n == Len(records)
  <1>1. UNCHANGED <<replay, queues>>
    BY DEF Connect, Recv, Close
  <1>2. TrTypeOK /\ Sends(s) /\ n \in Nat
    BY LenProperties DEF ReplayInv, TrTypeOK
  <1> HIDE DEF n
  <1>3. /\ socket[s] \in {"new", "open", "closed"} /\ next[s] \in Nat \ {0}
        /\ start[s] \in Nat \ {0} /\ last[s] \in Nat /\ sent[s] \in Nat /\ missed[s] \in Nat
    BY <1>2 DEF TrTypeOK
  <1>4. Oldest \in Nat \ {0}
    BY <1>2 DEF Oldest, ReplayShape, n
  <1> DEFINE Sockets3 == {"new", "open", "closed"}
             Typed == /\ socket' \in [Sockets -> Sockets3]
                      /\ next' \in [Sockets -> Nat \ {0}] /\ start' \in [Sockets -> Nat \ {0}]
                      /\ last' \in [Sockets -> Nat] /\ sent' \in [Sockets -> Nat]
                      /\ missed' \in [Sockets -> Nat]
             Rest == \A r \in Sockets \ {s} :
                       /\ socket'[r] = socket[r] /\ next'[r] = next[r] /\ start'[r] = start[r]
                       /\ last'[r] = last[r] /\ sent'[r] = sent[r] /\ missed'[r] = missed[r]
  <1>5. Typed /\ Rest /\ Sends(s)'
    <2>1. CASE Connect(s)
      <3>1. n + 1 \in Nat \ {0}
        BY <1>2
      <3>2. /\ socket' = [socket EXCEPT ![s] = "open"] /\ next' = [next EXCEPT ![s] = n + 1]
            /\ start' = [start EXCEPT ![s] = n + 1]
            /\ last' = last /\ sent' = sent /\ missed' = missed /\ socket[s] = "new"
        BY <2>1 DEF Connect, n
      <3>3. Typed /\ Rest
        BY <1>2, <3>1, <3>2 DEF TrTypeOK
      <3>4. last[s] = 0 /\ sent[s] = 0 /\ missed[s] = 0
        BY <1>2, <3>2 DEF Sends
      <3>5. /\ next'[s] = n + 1 /\ start'[s] = n + 1 /\ last'[s] = 0 /\ sent'[s] = 0
            /\ missed'[s] = 0
        BY <1>2, <3>2, <3>4 DEF TrTypeOK
      <3> QED BY <1>2, <3>3, <3>5 DEF Sends
    <2>2. CASE Recv(s) /\ next[s] < Oldest
      <3>1. /\ socket' = socket /\ start' = start /\ last' = last /\ sent' = sent
            /\ next' = [next EXCEPT ![s] = Oldest]
            /\ missed' = [missed EXCEPT ![s] = @ + Oldest - next[s]] /\ socket[s] = "open"
        BY <2>2 DEF Recv
      <3>2. missed[s] + Oldest - next[s] \in Nat
        BY <1>3, <1>4, <2>2
      <3>3. Typed /\ Rest
        BY <1>2, <1>4, <3>1, <3>2 DEF TrTypeOK
      <3>4. next'[s] = Oldest /\ missed'[s] = missed[s] + Oldest - next[s]
        BY <1>2, <3>1 DEF TrTypeOK
      <3>5. /\ next[s] - start[s] = sent[s] + missed[s] /\ last[s] < next[s]
            /\ last[s] # 0 => last[s] >= start[s]
        BY <1>2 DEF Sends
      <3>6. next'[s] - start[s] = sent[s] + missed'[s] /\ last[s] < next'[s]
        BY <1>3, <1>4, <2>2, <3>4, <3>5
      <3> QED BY <3>1, <3>3, <3>5, <3>6 DEF Sends
    <2>3. CASE Recv(s) /\ ~(next[s] < Oldest)
      <3>1. /\ socket' = socket /\ start' = start /\ missed' = missed
            /\ next' = [next EXCEPT ![s] = @ + 1] /\ last' = [last EXCEPT ![s] = next[s]]
            /\ sent' = [sent EXCEPT ![s] = @ + 1] /\ socket[s] = "open"
        BY <2>3 DEF Recv
      <3>2. Typed /\ Rest
        BY <1>2, <1>3, <3>1 DEF TrTypeOK
      <3>3. next'[s] = next[s] + 1 /\ last'[s] = next[s] /\ sent'[s] = sent[s] + 1
        BY <1>2, <3>1 DEF TrTypeOK
      <3> QED BY <1>2, <1>3, <3>1, <3>2, <3>3 DEF Sends
    <2>4. CASE Close(s)
      <3>1. /\ socket' = [socket EXCEPT ![s] = "closed"]
            /\ next' = [next EXCEPT ![s] = 1] /\ start' = [start EXCEPT ![s] = 1]
            /\ last' = [last EXCEPT ![s] = 0] /\ sent' = [sent EXCEPT ![s] = 0]
            /\ missed' = [missed EXCEPT ![s] = 0]
        BY <2>4 DEF Close
      <3>2. Typed /\ Rest
        BY <1>2, <3>1 DEF TrTypeOK
      <3>3. next'[s] = 1 /\ start'[s] = 1 /\ last'[s] = 0 /\ sent'[s] = 0 /\ missed'[s] = 0
        BY <1>2, <3>1 DEF TrTypeOK
      <3> QED BY <3>2, <3>3 DEF Sends
    <2> QED BY <2>1, <2>2, <2>3, <2>4
  <1>6. ASSUME NEW r \in Sockets PROVE Sends(r)'
    <2>1. CASE r = s
      BY <1>5, <2>1
    <2>2. CASE r # s
      BY <1>5, <2>2 DEF Sends, ReplayInv
    <2> QED BY <2>1, <2>2
  <1>7. TrTypeOK'
    <2>1. Typed
      BY <1>5
    <2>2. /\ phase' = phase /\ ops' = ops /\ op_index' = op_index /\ live' = live
          /\ allocs' = allocs /\ frees' = frees /\ records' = records
          /\ channel' = channel /\ drained' = drained
      BY <1>1 DEF replay, queues
    <2> QED BY <1>2, <2>1, <2>2 DEF TrTypeOK
  <1>8. Queued'
    BY <1>1 DEF ReplayInv, Queued, replay, queues
  <1>9. ASSUME NEW v \in Uploads PROVE Reported(v)' /\ FreesOwn(v)' /\ HoldsRest(v)'
    BY <1>1, UploadSame DEF replay
  <1> QED BY <1>6, <1>7, <1>8, <1>9 DEF ReplayInv

-----------------------------------------------------------------------------
\* At the start there are no records.
LEMMA ReplayStart == ASSUME TrInit PROVE ReplayInv
  <1>1. records = <<>> /\ Len(records) = 0 /\ channel = <<>> /\ Len(channel) = 0
    BY DEF TrInit
  <1>2. TrTypeOK
    <2>1. records \in Seq({records[i] : i \in 1 .. Len(records)})
      BY <1>1, EmptySeq
    <2>2. drained \in 0 .. Len(records)
      BY <1>1 DEF TrInit
    <2> QED BY <2>1, <2>2 DEF TrInit, TrTypeOK
  <1>3. Queued
    BY <1>1 DEF Queued
  <1>4. ASSUME NEW u \in Uploads PROVE Reported(u) /\ FreesOwn(u) /\ HoldsRest(u)
    <2>1. Of(u) = {} /\ Frees(u) = {}
      BY <1>1 DEF Of, Frees
    <2>2. /\ Named(u) = {} /\ op_index[u] = 1 /\ Len(live[u]) = 0
          /\ allocs[u] = 0 /\ frees[u] = 0
      BY <2>1 DEF Named, TrInit
    <2>3. HeldBy(u) = {}
      BY <2>2 DEF HeldBy
    <2>4. Reported(u)
      BY <2>1, <2>2, FS_EmptySet DEF Reported
    <2>5. HoldsRest(u)
      BY <2>2, <2>3 DEF HoldsRest
    <2> QED BY <2>1, <2>4, <2>5 DEF FreesOwn
  <1>5. \A s \in Sockets : Sends(s)
    BY DEF Sends, TrInit
  <1> QED BY <1>2, <1>3, <1>4, <1>5 DEF ReplayInv

\* Every step of uploads, channel and sockets keeps the invariant (replay.rs,
\* telemetry.rs).
THEOREM ReplayInductive == TrSpec => []ReplayInv
  <1>1. TrInit => ReplayInv
    BY ReplayStart
  <1>2. ASSUME ReplayInv, [TrNext]_trVars PROVE ReplayInv'
    <2>1. ASSUME NEW u \in Uploads, NEW lines \in TextsOf[u], ReplayTrace(u, lines)
          PROVE  ReplayInv'
      BY <1>2, <2>1, UploadStep
    <2>2. ASSUME NEW u \in Uploads, AllocOk(u) \/ AllocFails(u) \/ FreeOp(u) PROVE ReplayInv'
      BY <1>2, <2>2, OperationStep, ReplayShape
    <2>3. ASSUME NEW u \in Uploads, Finish(u) PROVE ReplayInv'
      BY <1>2, <2>3, FinishStep
    <2>4. CASE Drain
      BY <1>2, <2>4, DrainStep
    <2>5. ASSUME NEW s \in Sockets, Connect(s) \/ Recv(s) \/ Close(s) PROVE ReplayInv'
      BY <1>2, <2>5, SocketStep, ReplayShape
    <2>6. CASE UNCHANGED trVars
      <3>1. UNCHANGED <<replay, queues, readers>>
        BY <2>6 DEF trVars, replay, queues, readers
      <3>2. ASSUME NEW v \in Uploads PROVE Reported(v)' /\ FreesOwn(v)' /\ HoldsRest(v)'
        BY <1>2, <3>1, UploadSame DEF replay
      <3>3. Queued' /\ \A s \in Sockets : Sends(s)'
        BY <1>2, <3>1, QueuesSame DEF replay
      <3>4. TrTypeOK'
        BY <1>2, <3>1 DEF ReplayInv, TrTypeOK, replay, queues, readers
      <3> QED BY <3>2, <3>3, <3>4 DEF ReplayInv
    <2> QED BY <1>2, <2>1, <2>2, <2>3, <2>4, <2>5, <2>6 DEF TrNext
  <1> QED BY <1>1, <1>2, PTL DEF TrSpec

\* The property is a consequence.
LEMMA ReplayThen == ReplayShape /\ ReplayInv => ReplayFaithful
  <1> SUFFICES ASSUME ReplayShape, ReplayInv PROVE ReplayFaithful
    OBVIOUS
  <1>1. ASSUME NEW u \in Uploads, NEW i \in Of(u), NEW j \in Of(u), i < j
        PROVE  /\ records[i].op < records[j].op
               /\ TimestampsAreDegenerate(ops[u]) => records[i].ts < records[j].ts
    <2> DEFINE a == records[i].op
               b == records[j].op
    <2>1. Reported(u) /\ op_index[u] \in Nat \ {0}
      BY DEF ReplayInv, TrTypeOK
    <2>2. a \in Nat /\ b \in Nat /\ a < b
      BY <1>1, <2>1 DEF Reported
    <2>3. TimestampsAreDegenerate(ops[u]) =>
            records[i].ts = (a - 1) * Interval /\ records[j].ts = (b - 1) * Interval
      BY <2>1 DEF Reported
    <2> HIDE DEF a, b
    <2>4. (a - 1) * Interval < (b - 1) * Interval
      <3>1. Interval \in Nat /\ Interval > 0
        BY DEF ReplayShape
      <3>2. (b - 1) * Interval = (a - 1) * Interval + (b - a) * Interval
        BY <2>2, <3>1
      <3>3. (b - a) * Interval > 0
        BY <2>2, <3>1
      <3>4. (a - 1) * Interval \in Int
        BY <2>2, <3>1
      <3> QED BY <3>1, <3>2, <3>3, <3>4, <2>2
    <2> QED BY <2>2, <2>3, <2>4 DEF a, b
  <1>2. ASSUME NEW u \in Uploads
        PROVE  /\ Cardinality(Of(u)) = op_index[u] - 1
               /\ \A i \in Of(u) : records[i].frag \in 0 .. 100
               /\ HeldBy(u) = Named(u) \ ({Nothing} \cup TakenBy(u))
               /\ Len(live[u]) = allocs[u] - frees[u] /\ FreesOwn(u)
    BY DEF ReplayInv, Reported, HoldsRest
  <1>3. \A s \in Sockets : Sends(s)
    BY DEF ReplayInv
  <1>4. Queued
    BY DEF ReplayInv
  <1> QED BY <1>1, <1>2, <1>3, <1>4
        DEF ReplayFaithful, HeldBy, Named, TakenBy, FreesOwn, Sends, Queued

\* For any traces, sockets, capacities and interleavings of uploads: every operation
\* is reported once and in order, a free takes a block of its trace that is still
\* held, and the sockets and the channel get records in order (replay.rs, telemetry.rs).
THEOREM ReplayAlways == TrSpec => []ReplayFaithful
  BY ReplayInductive, ReplayThen, ReplayShape, PTL

-----------------------------------------------------------------------------
(***************************************************************************)
(* Evidence.  Proofs about RewardTraining and RewardBatches, for any       *)
(* threads, blocks, signatures, arms, contexts, latencies, sizes and       *)
(* settings, and any edges of the buckets: EvidenceAddsUp holds in every   *)
(* reachable state.                                                        *)
(*                                                                         *)
(* An open batch holds less than a full one, of latencies that were cut    *)
(* down at most (BatchSound), so its means are within the lowest and the   *)
(* highest there is and what is credited is a sum of rewards               *)
(* (RewardSound).  The histogram counts, up to each bucket, the latencies  *)
(* recorded that fall there (SameSums): that makes the bucket in which the *)
(* percentile is found no lower than that of the latency of the same rank. *)
(***************************************************************************)

\* A total is a sum.
LEMMA TotalIs == ASSUME NEW f PROVE Total(f) = Sum(f, DOMAIN f)
  BY DEF Total, FoldFunction, FoldFunctionOnSet, Sum, MapThenSumSet, MapThenFoldSet

\* So is that of a part of it.
LEMMA TotalOn == ASSUME NEW f, NEW S, IsFiniteSet(S) PROVE Total([x \in S |-> f[x]]) = Sum(f, S)
  <1> DEFINE g == [x \in S |-> f[x]]
  <1>1. DOMAIN g = S /\ \A x \in S : g[x] = f[x]
    OBVIOUS
  <1> HIDE DEF g
  <1>2. Total(g) = Sum(g, S)
    BY <1>1, TotalIs
  <1>3. Sum(g, S) = Sum(f, S)
    BY <1>1, SumSame
  <1> QED BY <1>2, <1>3 DEF g

-----------------------------------------------------------------------------
\* The highest latency and the highest share.
TopLatency == Max(Latencies)
TopFrag    == Max({FragPct(n) : n \in Totals})

\* A share is a share.
LEMMA FragIn == ASSUME EvidenceShape, NEW n \in Totals PROVE FragPct(n) \in 0 .. 100
  <1> DEFINE r == ReservedFor[n]
  <1>1. r \in Nat /\ n \in Nat \ {0}
    BY DEF EvidenceShape
  <1> HIDE DEF r
  <1>2. CASE r > n
    <2>1. (r - n) * 100 \in Nat /\ r \in Nat \ {0} /\ (r - n) * 100 <= r * 100
      BY <1>1, <1>2
    <2>2. ((r - n) * 100) \div r \in 0 .. 100
      BY <2>1, DivMean
    <2> QED BY <1>2, <2>2 DEF FragPct, r
  <1>3. CASE ~(r > n)
    BY <1>3 DEF FragPct, r
  <1> QED BY <1>2, <1>3

\* They are of latencies and shares that occur, and no other is higher.
LEMMA Tops ==
  ASSUME EvidenceShape
  PROVE  /\ TopLatency \in Latencies /\ TopLatency \in Nat /\ IsFiniteSet(Latencies)
         /\ \A l \in Latencies : l \in 0 .. TopLatency
         /\ TopFrag \in Nat /\ \A n \in Totals : FragPct(n) \in 0 .. TopFrag
  <1>1. /\ MaxLatency \in Nat /\ Latencies \subseteq 0 .. MaxLatency /\ Latencies # {}
        /\ Totals # {}
    BY DEF EvidenceShape
  <1>2. TopLatency \in Latencies /\ \A l \in Latencies : l <= TopLatency
    BY <1>1, MaxOf DEF TopLatency
  <1>3. IsFiniteSet(Latencies)
    <2>1. 0 \in Int /\ MaxLatency \in Int
      BY <1>1
    <2>2. IsFiniteSet(0 .. MaxLatency)
      BY <2>1, FS_Interval
    <2> QED BY <1>1, <2>2, FS_Subset
  <1> DEFINE F == {FragPct(n) : n \in Totals}
  <1>4. F \in SUBSET (0 .. 100) /\ F # {}
    <2>1. \A n \in Totals : FragPct(n) \in 0 .. 100
      BY FragIn
    <2>2. F \subseteq 0 .. 100
      BY <2>1
    <2>3. PICK n \in Totals : TRUE
      BY <1>1
    <2>4. FragPct(n) \in F
      OBVIOUS
    <2> QED BY <2>2, <2>4
  <1>5. TopFrag \in F /\ \A x \in F : x <= TopFrag
    <2> HIDE DEF F
    <2>1. Max(F) \in F /\ \A x \in F : x <= Max(F)
      BY <1>4, MaxOf
    <2> QED BY <2>1 DEF TopFrag, F
  <1>6. \A n \in Totals : FragPct(n) \in F
    OBVIOUS
  <1> HIDE DEF F
  <1>7. \A l \in Latencies : l \in Nat
    BY <1>1
  <1>8. \A x \in F : x \in Nat
    BY <1>4
  <1> QED BY <1>2, <1>3, <1>5, <1>6, <1>7, <1>8

\* A reward falls with the latency and with the share.
LEMMA RewardRange ==
  ASSUME EvidenceShape, NEW l \in 0 .. TopLatency, NEW f \in 0 .. TopFrag
  PROVE  /\ ShapedReward(l, f) \in Int /\ Worst \in Int /\ Best \in Int
         /\ Worst <= ShapedReward(l, f) /\ ShapedReward(l, f) <= Best
  <1>1. TopLatency \in Nat /\ TopFrag \in Nat /\ l \in Nat /\ f \in Nat
    BY Tops
  <1>2. TRef \in Nat \ {0} /\ Scale \in Nat \ {0} /\ FragWeight \in Nat
    BY DEF EvidenceShape
  <1> DEFINE N == Scale * TRef
             Speed(x) == N \div (TRef + x)
             W(x) == FragWeight * x * Scale
             Waste(x) == W(x) \div 10000
  <1>3. N \in Nat
    BY <1>2
  <1>4. \A x \in Nat : TRef + x \in Nat \ {0}
    BY <1>2
  <1>5. ASSUME NEW x \in Nat, NEW y \in Nat, x <= y
        PROVE  Speed(x) \in Nat /\ Speed(y) \in Nat /\ Speed(y) <= Speed(x)
    <2> HIDE DEF N
    <2>1. /\ TRef + x \in Nat \ {0} /\ TRef + y \in Nat \ {0} /\ TRef + x <= TRef + y
          /\ N <= N
      BY <1>2, <1>3, <1>4, <1>5
    <2>2. N \div (TRef + x) \in Nat /\ N \div (TRef + y) \in Nat
      BY <1>3, <2>1, DivMod
    <2>3. N \div (TRef + y) <= N \div (TRef + x)
      BY <1>3, <2>1, DivOrder
    <2> QED BY <2>2, <2>3
  <1>6. ASSUME NEW x \in Nat, NEW y \in Nat, x <= y
        PROVE  Waste(x) \in Nat /\ Waste(y) \in Nat /\ Waste(x) <= Waste(y)
    <2>1. FragWeight * x \in Nat /\ FragWeight * y \in Nat /\ FragWeight * x <= FragWeight * y
      <3>1. x * FragWeight <= y * FragWeight
        BY <1>2, <1>6, TimesMore
      <3> QED BY <1>2, <3>1
    <2> DEFINE p == FragWeight * x
               q == FragWeight * y
    <2>2. p \in Nat /\ q \in Nat /\ p <= q
      BY <2>1
    <2> HIDE DEF p, q
    <2>3. p * Scale \in Nat /\ q * Scale \in Nat /\ p * Scale <= q * Scale
      BY <1>2, <2>2, TimesMore
    <2>4. W(x) = p * Scale /\ W(y) = q * Scale
      BY DEF p, q
    <2> HIDE DEF W
    <2>5. W(x) \in Nat /\ W(y) \in Nat /\ W(x) <= W(y) /\ 10000 \in Nat \ {0} /\ 10000 <= 10000
      BY <2>3, <2>4
    <2> DEFINE u == W(x)
               v == W(y)
    <2>6. u \in Nat /\ v \in Nat /\ u <= v
      BY <2>5
    <2> HIDE DEF u, v
    <2>7. u \div 10000 \in Nat /\ v \div 10000 \in Nat /\ u \div 10000 <= v \div 10000
      BY <2>6
    <2> QED BY <2>7 DEF u, v
  <1>7. /\ Worst = Speed(TopLatency) - Waste(TopFrag) /\ Best = Speed(0) - Waste(0)
        /\ ShapedReward(l, f) = Speed(l) - Waste(f)
    BY DEF Worst, Best, ShapedReward, TopLatency, TopFrag
  <1> HIDE DEF Speed, Waste
  <1>8. l <= TopLatency /\ f <= TopFrag /\ 0 <= l /\ 0 <= f /\ 0 \in Nat
    BY <1>1
  <1>9. /\ Speed(TopLatency) \in Nat /\ Speed(l) \in Nat /\ Speed(0) \in Nat
        /\ Speed(TopLatency) <= Speed(l) /\ Speed(l) <= Speed(0)
    BY <1>1, <1>5, <1>8
  <1>10. /\ Waste(TopFrag) \in Nat /\ Waste(f) \in Nat /\ Waste(0) \in Nat
         /\ Waste(f) <= Waste(TopFrag) /\ Waste(0) <= Waste(f)
    BY <1>1, <1>6, <1>8
  <1> QED BY <1>7, <1>9, <1>10

-----------------------------------------------------------------------------
\* An open batch holds less than a full one, of latencies and shares that occur.
BatchSound(b) ==
  /\ b \in [latency: Nat, frag: Nat, count: 0 .. FullBatch - 1]
  /\ b.latency <= b.count * TopLatency /\ b.frag <= b.count * TopFrag

\* What was credited is a sum of rewards.
RewardSound(a) ==
  /\ a \in [sum: Int, count: Nat]
  /\ a.count * Worst <= a.sum /\ a.sum <= a.count * Best

\* A sample joins a batch.
LEMMA JoinedSound ==
  ASSUME EvidenceShape, NEW b, BatchSound(b), NEW l \in 0 .. TopLatency, NEW n \in Totals
  PROVE  LET j == Joined(b, l, n)
         IN  /\ j \in [latency: Nat, frag: Nat, count: 1 .. FullBatch]
             /\ j.latency <= j.count * TopLatency /\ j.frag <= j.count * TopFrag
             /\ j.count = b.count + 1
  <1>1. TopLatency \in Nat /\ TopFrag \in Nat /\ l \in Nat /\ FragPct(n) \in 0 .. TopFrag
    BY Tops
  <1> DEFINE j == Joined(b, l, n)
             more == IF FragWeight > 0 THEN FragPct(n) ELSE 0
  <1>2. more \in Nat /\ more <= TopFrag
    BY <1>1
  <1>3. /\ b.latency \in Nat /\ b.frag \in Nat /\ b.count \in 0 .. FullBatch - 1
        /\ b.latency <= b.count * TopLatency /\ b.frag <= b.count * TopFrag
    BY DEF BatchSound
  <1>4. FullBatch \in Nat \ {0}
    BY DEF EvidenceShape
  <1>5. j = [latency |-> b.latency + l, frag |-> b.frag + more, count |-> b.count + 1]
    BY DEF Joined
  <1> HIDE DEF more
  <1>6. j.latency = b.latency + l /\ j.frag = b.frag + more /\ j.count = b.count + 1
    BY <1>5
  <1> DEFINE k == b.count
             p == b.latency
             f == b.frag
  <1>7. /\ p \in Nat /\ f \in Nat /\ k \in 0 .. FullBatch - 1
        /\ p <= k * TopLatency /\ f <= k * TopFrag
    BY <1>3
  <1>8. /\ j = [latency |-> p + l, frag |-> f + more, count |-> k + 1]
        /\ j.latency = p + l /\ j.frag = f + more /\ j.count = k + 1
    BY <1>5, <1>6
  <1> HIDE DEF k, p, f, j
  <1>9. p + l \in Nat /\ f + more \in Nat
    BY <1>1, <1>2, <1>7
  <1>10. k \in Nat /\ k + 1 \in 1 .. FullBatch
    BY <1>4, <1>7
  <1>11. j \in [latency: Nat, frag: Nat, count: 1 .. FullBatch]
    BY <1>8, <1>9, <1>10
  <1>12. /\ (k + 1) * TopLatency = k * TopLatency + TopLatency /\ k * TopLatency \in Nat
         /\ (k + 1) * TopFrag = k * TopFrag + TopFrag /\ k * TopFrag \in Nat
    <2>1. k \in Nat /\ TopLatency \in Nat /\ TopFrag \in Nat
      BY <1>1, <1>10
    <2>2. ASSUME NEW t \in Nat PROVE (k + 1) * t = k * t + t /\ k * t \in Nat
      BY <2>1
    <2> QED BY <2>1, <2>2
  <1>13. p + l <= (k + 1) * TopLatency
    <2>1. l <= TopLatency /\ l \in Nat
      BY <1>1
    <2> QED BY <1>1, <1>7, <1>12, <2>1
  <1>14. f + more <= (k + 1) * TopFrag
    BY <1>1, <1>2, <1>7, <1>12
  <1> QED BY <1>8, <1>11, <1>13, <1>14 DEF j, k

\* A sample joins the batch, or fills it and is credited with it, once.
LEMMA BatchStep ==
  ASSUME EvidenceShape, NEW b, BatchSound(b), NEW a, RewardSound(a),
         NEW l \in 0 .. TopLatency, NEW n \in Totals
  PROVE  LET j == Joined(b, l, n)
         IN  /\ BatchSound(Remainder(j)) /\ RewardSound(Credited(a, j))
             /\ Taken(Remainder(j), Credited(a, j)) = Taken(b, a) + 1
             /\ Taken(b, a) \in Nat
  <1> DEFINE j == Joined(b, l, n)
  <1>1. /\ j \in [latency: Nat, frag: Nat, count: 1 .. FullBatch]
        /\ j.latency <= j.count * TopLatency /\ j.frag <= j.count * TopFrag
        /\ j.count = b.count + 1
    BY JoinedSound
  <1> HIDE DEF j
  <1>2. /\ FullBatch \in Nat \ {0} /\ TopLatency \in Nat /\ TopFrag \in Nat
        /\ b.count \in Nat /\ a.count \in Nat /\ a.sum \in Int
        /\ a.count * Worst <= a.sum /\ a.sum <= a.count * Best
    <2>1. FullBatch \in Nat \ {0}
      BY DEF EvidenceShape
    <2>2. b.count \in Nat
      BY <2>1 DEF BatchSound
    <2>3. /\ a.count \in Nat /\ a.sum \in Int
          /\ a.count * Worst <= a.sum /\ a.sum <= a.count * Best
      BY DEF RewardSound
    <2> QED BY Tops, <2>1, <2>2, <2>3
  <1>3. /\ j.count \in Nat \ {0} /\ j.count <= FullBatch /\ j.latency \in Nat /\ j.frag \in Nat
    <2>1. j.count \in 1 .. FullBatch /\ j.latency \in Nat /\ j.frag \in Nat
      BY <1>1
    <2> QED BY <1>2, <2>1
  <1>4. CASE ~Full(j)
    <2>1. Remainder(j) = j /\ Credited(a, j) = a
      BY <1>4 DEF Remainder, Credited
    <2>2. j.count \in 0 .. FullBatch - 1
      BY <1>2, <1>3, <1>4 DEF Full
    <2>3. BatchSound(j)
      BY <1>1, <1>3, <2>2 DEF BatchSound
    <2>4. Taken(j, a) = Taken(b, a) + 1 /\ Taken(b, a) \in Nat
      <3> DEFINE x == b.count
                 y == a.count
      <3>1. x \in Nat /\ y \in Nat /\ Taken(j, a) = (x + 1) + y /\ Taken(b, a) = x + y
        BY <1>1, <1>2 DEF Taken
      <3> HIDE DEF x, y
      <3> QED BY <3>1
    <2> QED BY <2>1, <2>3, <2>4 DEF j
  <1>5. CASE Full(j)
    <2> DEFINE k == j.count
               r == ShapedReward(j.latency \div j.count, j.frag \div j.count)
               c == Credited(a, j)
    <2>1. j.latency \div j.count \in 0 .. TopLatency /\ j.frag \div j.count \in 0 .. TopFrag
      BY <1>1, <1>2, <1>3, DivMean
    <2>2. r \in Int /\ Worst \in Int /\ Best \in Int /\ Worst <= r /\ r <= Best
      BY <2>1, RewardRange
    <2>3. Remainder(j) = NoBatch /\ c = [sum |-> a.sum + k * r, count |-> a.count + k]
      BY <1>5 DEF Remainder, Credited
    <2>4. k \in Nat
      BY <1>3
    <2>5. c.sum = a.sum + k * r /\ c.count = a.count + k
      BY <2>3
    <2> HIDE DEF r, k, c
    <2>6. k * r \in Int
      BY <2>2, <2>4
    <2>7. c \in [sum: Int, count: Nat]
      BY <1>2, <2>3, <2>4, <2>6
    <2>8. /\ Worst * k <= r * k /\ r * k <= Best * k /\ Worst * k \in Int /\ r * k \in Int
          /\ Best * k \in Int
      BY <2>2, <2>4, TimesMore
    <2>9. Worst * k = k * Worst /\ r * k = k * r /\ Best * k = k * Best
      BY <2>2, <2>4
    <2>10. /\ (a.count + k) * Worst = a.count * Worst + k * Worst
           /\ (a.count + k) * Best = a.count * Best + k * Best
           /\ a.count * Worst \in Int /\ a.count * Best \in Int
      <3> DEFINE y == a.count
      <3>1. y \in Int /\ k \in Int
        BY <1>2, <2>4
      <3> HIDE DEF y
      <3>2. ASSUME NEW t \in Int PROVE (y + k) * t = y * t + k * t /\ y * t \in Int
        BY <3>1
      <3> QED BY <2>2, <3>2 DEF y
    <2>11. (a.count + k) * Worst <= a.sum + k * r
      BY <1>2, <2>6, <2>8, <2>9, <2>10
    <2>12. a.sum + k * r <= (a.count + k) * Best
      BY <1>2, <2>6, <2>8, <2>9, <2>10
    <2>13. RewardSound(c)
      BY <2>5, <2>7, <2>11, <2>12 DEF RewardSound
    <2>14. BatchSound(NoBatch)
      <3>1. 0 * TopLatency = 0 /\ 0 * TopFrag = 0 /\ 0 \in 0 .. FullBatch - 1
        BY <1>2
      <3> QED BY <3>1 DEF BatchSound, NoBatch
    <2>15. NoBatch.count = 0
      BY DEF NoBatch
    <2>16. Taken(NoBatch, c) = a.count + k
      BY <1>2, <2>4, <2>5, <2>15 DEF Taken
    <2>17. Taken(b, a) = b.count + a.count
      BY DEF Taken
    <2>18. k = b.count + 1
      BY <1>1 DEF k
    <2>19. Taken(NoBatch, c) = Taken(b, a) + 1 /\ Taken(b, a) \in Nat
      <3> DEFINE x == b.count
                 y == a.count
      <3>1. /\ x \in Nat /\ y \in Nat /\ k = x + 1
            /\ Taken(NoBatch, c) = y + k /\ Taken(b, a) = x + y
        BY <1>2, <2>16, <2>17, <2>18
      <3> HIDE DEF x, y
      <3> QED BY <3>1
    <2> QED BY <2>3, <2>13, <2>14, <2>19 DEF c, j
  <1> QED BY <1>4, <1>5

-----------------------------------------------------------------------------
\* A histogram counts in each bucket.
Histogram(h) == h \in [0 .. Buckets - 1 -> Nat]

\* There is a last bucket, and finitely many up to each.
LEMMA UpTos ==
  ASSUME EvidenceShape
  PROVE  /\ Buckets \in Nat \ {0} /\ Buckets - 1 \in Nat
         /\ \A b \in 0 .. Buckets - 1 :
              IsFiniteSet(0 .. b) /\ 0 .. b \subseteq 0 .. Buckets - 1
  <1>1. Buckets \in Nat \ {0} /\ Buckets - 1 \in Nat
    BY DEF EvidenceShape
  <1>2. ASSUME NEW b \in 0 .. Buckets - 1
        PROVE  IsFiniteSet(0 .. b) /\ 0 .. b \subseteq 0 .. Buckets - 1
    <2>1. 0 \in Int /\ b \in Int /\ 0 .. b \subseteq 0 .. Buckets - 1
      BY <1>1
    <2>2. IsFiniteSet(0 .. b)
      BY <2>1, FS_Interval
    <2> QED BY <2>1, <2>2
  <1> QED BY <1>1, <1>2

\* Its total is the sum up to the last bucket.
LEMMA HistogramSums ==
  ASSUME EvidenceShape, NEW h, Histogram(h)
  PROVE  /\ Total(h) = Sum(h, 0 .. Buckets - 1) /\ Total(h) \in Nat
         /\ \A b \in 0 .. Buckets - 1 :
              /\ Total([i \in 0 .. b |-> h[i]]) = Sum(h, 0 .. b)
              /\ Sum(h, 0 .. b) \in Nat
  <1>1. DOMAIN h = 0 .. Buckets - 1 /\ \A i \in 0 .. Buckets - 1 : h[i] \in Nat
    BY DEF Histogram
  <1>2. Total(h) = Sum(h, 0 .. Buckets - 1)
    BY <1>1, TotalIs
  <1>3. Buckets - 1 \in 0 .. Buckets - 1
    BY UpTos
  <1>4. ASSUME NEW b \in 0 .. Buckets - 1
        PROVE  Total([i \in 0 .. b |-> h[i]]) = Sum(h, 0 .. b) /\ Sum(h, 0 .. b) \in Nat
    <2>1. IsFiniteSet(0 .. b) /\ 0 .. b \subseteq 0 .. Buckets - 1
      BY UpTos
    <2>2. 0 .. b \in SUBSET (0 .. b) /\ \A i \in 0 .. b : h[i] \in Nat
      BY <1>1, <2>1
    <2>3. Sum(h, 0 .. b) \in Nat
      BY <2>1, <2>2, SumPart
    <2>4. Total([i \in 0 .. b |-> h[i]]) = Sum(h, 0 .. b)
      BY <2>1, TotalOn
    <2> QED BY <2>3, <2>4
  <1> QED BY <1>2, <1>3, <1>4

\* The bucket of a latency is the last whose edge it reaches.
LEMMA BucketIn ==
  ASSUME EvidenceShape, NEW l \in Latencies
  PROVE  /\ BucketOf(l) \in 0 .. Buckets - 1
         /\ \A b \in 0 .. Buckets - 1 : Edges[b] <= l => b <= BucketOf(l)
  <1> DEFINE T == {b \in 0 .. Buckets - 1 : b = 0 \/ Edges[b] <= l}
  <1>1. Buckets - 1 \in Nat /\ 0 \in 0 .. Buckets - 1
    BY UpTos
  <1>2. T \in SUBSET (0 .. Buckets - 1) /\ T # {}
    BY <1>1
  <1>3. \A b \in 0 .. Buckets - 1 : Edges[b] <= l => b \in T
    OBVIOUS
  <1>4. BucketOf(l) = Max(T)
    BY DEF BucketOf
  <1> HIDE DEF T
  <1>5. Max(T) \in T /\ \A x \in T : x <= Max(T)
    BY <1>1, <1>2, MaxOf
  <1> QED BY <1>2, <1>3, <1>4, <1>5

\* A latency that is recorded is counted in the sums that take its bucket.
LEMMA HistRecordSums ==
  ASSUME EvidenceShape, NEW h, Histogram(h), NEW l \in Latencies
  PROVE  /\ Histogram(HistRecord(h, l))
         /\ \A b \in 0 .. Buckets - 1 :
              Sum(HistRecord(h, l), 0 .. b)
                = IF BucketOf(l) <= b THEN Sum(h, 0 .. b) + 1 ELSE Sum(h, 0 .. b)
  <1> DEFINE k == BucketOf(l)
             g == HistRecord(h, l)
  <1>1. k \in 0 .. Buckets - 1
    BY BucketIn
  <1>2. g = [h EXCEPT ![k] = @ + 1]
    BY DEF HistRecord
  <1> HIDE DEF k, g
  <1>3. h \in [0 .. Buckets - 1 -> Nat]
    BY DEF Histogram
  <1>4. g \in [0 .. Buckets - 1 -> Nat]
    BY <1>1, <1>2, <1>3
  <1>5. \A i \in 0 .. Buckets - 1 :
          /\ h[i] \in Int /\ g[i] \in Int
          /\ g[i] = IF i = k THEN h[i] + 1 ELSE h[i]
    BY <1>1, <1>2, <1>3, <1>4
  <1>6. ASSUME NEW b \in 0 .. Buckets - 1
        PROVE  Sum(g, 0 .. b) = IF k <= b THEN Sum(h, 0 .. b) + 1 ELSE Sum(h, 0 .. b)
    <2>1. IsFiniteSet(0 .. b) /\ 0 .. b \subseteq 0 .. Buckets - 1 /\ 1 \in Int
      BY UpTos
    <2>2. \A i \in 0 .. b : h[i] \in Int /\ g[i] = IF i = k THEN h[i] + 1 ELSE h[i]
      BY <1>5, <2>1
    <2>3. Sum(g, 0 .. b) = IF k \in 0 .. b THEN Sum(h, 0 .. b) + 1 ELSE Sum(h, 0 .. b)
      <3> DEFINE S == 0 .. b
      <3>1. /\ IsFiniteSet(S) /\ 1 \in Int
            /\ \A i \in S : h[i] \in Int /\ g[i] = IF i = k THEN h[i] + 1 ELSE h[i]
        BY <2>1, <2>2
      <3> HIDE DEF S
      <3>2. CASE k \in S
        <4>1. Sum(g, S) = Sum(h, S) + 1
          BY <3>1, <3>2, SumGrow
        <4> QED BY <3>2, <4>1 DEF S
      <3>3. CASE k \notin S
        <4>1. \A i \in S : g[i] = h[i]
          BY <3>1, <3>3
        <4>2. Sum(g, S) = Sum(h, S)
          BY <3>1, <4>1, SumSame
        <4> QED BY <3>3, <4>2 DEF S
      <3> QED BY <3>2, <3>3
    <2>4. k \in 0 .. b <=> k <= b
      BY <1>1, UpTos
    <2> QED BY <2>3, <2>4
  <1> QED BY <1>4, <1>6 DEF Histogram, k, g

\* The rank of a percentile is that of a sample.
LEMMA RankIn ==
  ASSUME NEW n \in Nat \ {0}, NEW pct \in 0 .. 100
  PROVE  Rank(n, pct) \in 1 .. n
  <1> DEFINE x == n * pct + 99
             up == x \div 100
  <1>1. pct * n <= 100 * n /\ pct * n \in Int /\ 100 * n \in Int
    <2>1. pct \in Int /\ 100 \in Int /\ n \in Nat /\ pct <= 100
      OBVIOUS
    <2> QED BY <2>1, TimesMore
  <1>2. n * pct \in Nat /\ n * pct <= n * 100
    BY <1>1
  <1>3. x \in Nat /\ x < (n + 1) * 100 /\ 100 \in Nat \ {0} /\ n + 1 \in Nat
    BY <1>2
  <1> HIDE DEF x
  <1>4. up \in Nat
    BY <1>3, DivMod
  <1>5. ~(n + 1 <= up)
    BY <1>3, DivFits
  <1>6. Rank(n, pct) = IF up > 1 THEN up ELSE 1
    BY DEF Rank, x
  <1> HIDE DEF up
  <1> QED BY <1>4, <1>5, <1>6

\* A percentile is the upper edge of a bucket up to which there are that many.
LEMMA QuantileIs ==
  ASSUME EvidenceShape, NEW h, Histogram(h), Total(h) > 0, NEW pct \in 0 .. 100
  PROVE  /\ Quantile(h, pct) \in Nat
         /\ \E q \in 0 .. Buckets - 1 :
              Quantile(h, pct) = Edges[q + 1] /\ Sum(h, 0 .. q) >= Rank(Total(h), pct)
  <1> DEFINE k == Rank(Total(h), pct)
             T == {b \in 0 .. Buckets - 1 : Total([i \in 0 .. b |-> h[i]]) >= k}
  <1>1. Total(h) \in Nat \ {0}
    BY HistogramSums
  <1>2. k \in 1 .. Total(h)
    BY <1>1, RankIn
  <1> HIDE DEF k
  <1>3. Buckets - 1 \in 0 .. Buckets - 1 /\ Buckets \in Nat \ {0}
    BY UpTos
  <1>4. Buckets - 1 \in T
    <2>1. Total([i \in 0 .. Buckets - 1 |-> h[i]]) = Total(h)
      BY <1>3, HistogramSums
    <2>2. Total(h) >= k
      BY <1>1, <1>2
    <2> QED BY <1>3, <2>1, <2>2
  <1>5. \A b \in T : b \in 0 .. Buckets - 1 /\ Sum(h, 0 .. b) >= k
    BY HistogramSums
  <1>6. Quantile(h, pct) = Edges[1 + Min(T)]
    BY DEF Quantile, k
  <1>7. T \in SUBSET Nat /\ T # {}
    <2>1. 0 .. Buckets - 1 \subseteq Nat
      BY <1>3
    <2> QED BY <1>4, <1>5, <2>1
  <1> HIDE DEF T
  <1>8. \E m \in T : \A x \in T : m <= x
    BY <1>7, LeastOf
  <1>9. Min(T) \in T
    BY <1>8 DEF Min
  <1>10. Min(T) \in 0 .. Buckets - 1 /\ Sum(h, 0 .. Min(T)) >= k
    BY <1>5, <1>9
  <1> DEFINE q == Min(T)
  <1> HIDE DEF q
  <1>11. q \in 0 .. Buckets - 1 /\ Sum(h, 0 .. q) >= k /\ Quantile(h, pct) = Edges[1 + q]
    BY <1>6, <1>10 DEF q
  <1>12. 1 + q = q + 1 /\ q + 1 \in 0 .. Buckets
    BY <1>3, <1>11
  <1>13. Edges[q + 1] \in Nat
    BY <1>12 DEF EvidenceShape
  <1> QED BY <1>11, <1>12, <1>13 DEF k

\* A latency is cut down, never raised.
LEMMA WinsorizedIn ==
  ASSUME EvidenceShape, NEW h, Histogram(h), clamp \in Percentiles, NEW l \in Latencies
  PROVE  Winsorized(h, l) \in 0 .. TopLatency
  <1>1. TopLatency \in Nat /\ l \in 0 .. TopLatency
    BY Tops
  <1>2. FullBatch \in Nat \ {0} /\ clamp \in 0 .. 100 /\ Total(h) \in Nat
    BY HistogramSums DEF EvidenceShape
  <1>3. CASE clamp = 0 \/ Total(h) < FullBatch
    BY <1>1, <1>3 DEF Winsorized
  <1>4. CASE ~(clamp = 0 \/ Total(h) < FullBatch)
    <2>1. Total(h) > 0
      BY <1>2, <1>4
    <2>2. Quantile(h, clamp) \in Nat
      BY <1>2, <2>1, QuantileIs
    <2>3. Winsorized(h, l) = Lesser(l, Quantile(h, clamp))
      BY <1>4 DEF Winsorized
    <2> QED BY <1>1, <2>2, <2>3 DEF Lesser
  <1> QED BY <1>3, <1>4

-----------------------------------------------------------------------------
\* The batches and the rewards of the contexts, and what they took.
ContextsSound(bs, as) ==
  /\ bs = [c \in ArmContexts |-> bs[c]] /\ as = [c \in ArmContexts |-> as[c]]
  /\ \A c \in ArmContexts : BatchSound(bs[c]) /\ RewardSound(as[c])

\* What was taken is a number.
LEMMA TakenNat ==
  ASSUME EvidenceShape, NEW b, BatchSound(b), NEW a, RewardSound(a)
  PROVE  Taken(b, a) \in Nat
  <1>1. FullBatch \in Nat
    BY DEF EvidenceShape
  <1>2. b.count \in Nat /\ a.count \in Nat
    BY <1>1 DEF BatchSound, RewardSound
  <1> QED BY <1>2 DEF Taken

\* A table with one entry changed.
With(f, c, v) == [f EXCEPT ![c] = v]

\* One context takes a sample.
LEMMA ContextStep ==
  ASSUME EvidenceShape, NEW bs, NEW as, ContextsSound(bs, as), NEW c \in ArmContexts,
         NEW u, BatchSound(u), NEW w, RewardSound(w), Taken(u, w) = Taken(bs[c], as[c]) + 1
  PROVE  /\ ContextsSound(With(bs, c, u), With(as, c, w))
         /\ TakenIn(With(bs, c, u), With(as, c, w)) = TakenIn(bs, as) + 1
  <1> DEFINE bsNew == [bs EXCEPT ![c] = u]
             asNew == [as EXCEPT ![c] = w]
  <1>1. /\ bs = [x \in ArmContexts |-> bs[x]] /\ as = [x \in ArmContexts |-> as[x]]
        /\ \A x \in ArmContexts : BatchSound(bs[x]) /\ RewardSound(as[x])
    BY DEF ContextsSound
  <1>2. BatchSound(u) /\ RewardSound(w) /\ Taken(u, w) = Taken(bs[c], as[c]) + 1
    OBVIOUS
  <1>3. /\ bsNew = [x \in ArmContexts |-> bsNew[x]] /\ asNew = [x \in ArmContexts |-> asNew[x]]
        /\ \A x \in ArmContexts : bsNew[x] = (IF x = c THEN u ELSE bs[x])
                                  /\ asNew[x] = (IF x = c THEN w ELSE as[x])
    BY <1>1
  <1> HIDE DEF bsNew, asNew
  <1>4. \A x \in ArmContexts : BatchSound(bsNew[x]) /\ RewardSound(asNew[x])
    BY <1>1, <1>2, <1>3
  <1>5. ContextsSound(bsNew, asNew)
    BY <1>3, <1>4 DEF ContextsSound
  <1> DEFINE f == [x \in ArmContexts |-> Taken(bs[x], as[x])]
             g == [x \in ArmContexts |-> Taken(bsNew[x], asNew[x])]
  <1>6. /\ TakenIn(bs, as) = Total(f) /\ TakenIn(bsNew, asNew) = Total(g)
        /\ DOMAIN f = ArmContexts /\ DOMAIN g = ArmContexts
    BY DEF TakenIn
  <1>7. /\ IsFiniteSet(ArmContexts) /\ 1 \in Int
    BY DEF EvidenceShape
  <1>8. ASSUME NEW x \in ArmContexts
        PROVE  f[x] \in Int /\ g[x] = IF x = c THEN f[x] + 1 ELSE f[x]
    <2>1. Taken(bs[x], as[x]) \in Nat
      BY <1>1, TakenNat
    <2>2. f[x] = Taken(bs[x], as[x]) /\ g[x] = Taken(bsNew[x], asNew[x])
      OBVIOUS
    <2> HIDE DEF f, g
    <2>3. CASE x = c
      <3>1. bsNew[x] = u /\ asNew[x] = w
        BY <1>3, <2>3
      <3>2. Taken(bsNew[x], asNew[x]) = Taken(bs[x], as[x]) + 1
        BY <1>2, <2>3, <3>1
      <3> DEFINE y == Taken(bs[x], as[x])
      <3>3. y \in Nat /\ f[x] = y /\ g[x] = y + 1
        BY <2>1, <2>2, <3>2
      <3> HIDE DEF y
      <3> QED BY <2>3, <3>3
    <2>4. CASE x # c
      <3>1. bsNew[x] = bs[x] /\ asNew[x] = as[x]
        BY <1>3, <2>4
      <3> DEFINE y == Taken(bs[x], as[x])
      <3>2. y \in Nat /\ f[x] = y /\ g[x] = y
        BY <2>1, <2>2, <3>1
      <3> HIDE DEF y
      <3> QED BY <2>4, <3>2
    <2> QED BY <2>3, <2>4
  <1> HIDE DEF f, g
  <1>9. Sum(g, ArmContexts) = Sum(f, ArmContexts) + 1
    BY <1>7, <1>8, SumBump
  <1>10. TakenIn(bsNew, asNew) = TakenIn(bs, as) + 1
    BY <1>6, <1>9, TotalIs
  <1> QED BY <1>5, <1>10 DEF With, bsNew, asNew

\* The latencies that fall in the buckets up to b.
Under(b) == {l \in Latencies : BucketOf(l) <= b}

SameSums(h, s) == \A b \in 0 .. Buckets - 1 : Sum(h, 0 .. b) = Sum(s, Under(b))

\* What is known of the arm at any time; the histogram counts, up to each bucket, the
\* latencies recorded that fall there.
EvidenceInv ==
  /\ clamp \in Percentiles /\ escalate \in BOOLEAN
  /\ Histogram(hist) /\ seen \in [Latencies -> Nat]
  /\ given \in [coarse: Nat, fine: Nat, deep: Nat]
  /\ BatchSound(batch) /\ RewardSound(arm)
  /\ ContextsSound(fineBatch, fineArm) /\ ContextsSound(deepBatch, deepArm)
  /\ Taken(batch, arm) = given.coarse
  /\ TakenIn(fineBatch, fineArm) = given.fine /\ TakenIn(deepBatch, deepArm) = given.deep
  /\ SameSums(hist, seen)

\* They are some of the latencies.
LEMMA UnderFinite ==
  ASSUME EvidenceShape, NEW b PROVE IsFiniteSet(Under(b)) /\ Under(b) \subseteq Latencies
  <1>1. Under(b) \subseteq Latencies /\ IsFiniteSet(Latencies)
    BY Tops DEF Under
  <1> QED BY <1>1, FS_Subset

\* An arm starts with nothing.
LEMMA EvidenceStarts ==
  ASSUME EvidenceShape, RbInit PROVE EvidenceInv
  <1>1. /\ FullBatch \in Nat \ {0} /\ TopLatency \in Nat /\ TopFrag \in Nat
        /\ Worst \in Int /\ Best \in Int /\ IsFiniteSet(ArmContexts)
    <2>1. TopLatency \in Nat /\ TopFrag \in Nat
      BY Tops
    <2>2. 0 \in 0 .. TopLatency /\ 0 \in 0 .. TopFrag
      BY <2>1
    <2>3. Worst \in Int /\ Best \in Int
      BY <2>2, RewardRange
    <2> QED BY <2>1, <2>3 DEF EvidenceShape
  <1>2. BatchSound(NoBatch)
    <2>1. 0 * TopLatency = 0 /\ 0 * TopFrag = 0 /\ 0 \in 0 .. FullBatch - 1
      BY <1>1
    <2> QED BY <2>1 DEF BatchSound, NoBatch
  <1>3. RewardSound(NoReward)
    <2>1. 0 * Worst = 0 /\ 0 * Best = 0
      BY <1>1
    <2> QED BY <2>1 DEF RewardSound, NoReward
  <1>4. Taken(NoBatch, NoReward) = 0
    BY DEF Taken, NoBatch, NoReward
  <1> DEFINE nb == [c \in ArmContexts |-> NoBatch]
             nr == [c \in ArmContexts |-> NoReward]
  <1>5. ContextsSound(nb, nr)
    BY <1>2, <1>3 DEF ContextsSound
  <1>6. TakenIn(nb, nr) = 0
    <2> DEFINE f == [c \in ArmContexts |-> Taken(nb[c], nr[c])]
    <2>1. DOMAIN f = ArmContexts /\ \A c \in ArmContexts : f[c] = 0
      BY <1>4
    <2>2. TakenIn(nb, nr) = Total(f)
      BY DEF TakenIn
    <2> HIDE DEF f
    <2>3. Sum(f, ArmContexts) = 0
      BY <1>1, <2>1, SumZero
    <2> QED BY <2>1, <2>2, <2>3, TotalIs
  <1> HIDE DEF nb, nr
  <1>7. /\ hist = [b \in 0 .. Buckets - 1 |-> 0] /\ seen = [l \in Latencies |-> 0]
    BY DEF RbInit
  <1>8. Histogram(hist)
    BY <1>7 DEF Histogram
  <1>9. seen \in [Latencies -> Nat]
    BY <1>7
  <1>10. ASSUME NEW b \in 0 .. Buckets - 1 PROVE Sum(hist, 0 .. b) = Sum(seen, Under(b))
    <2>1. IsFiniteSet(0 .. b) /\ 0 .. b \subseteq 0 .. Buckets - 1
      BY UpTos
    <2>2. IsFiniteSet(Under(b)) /\ Under(b) \subseteq Latencies
      BY UnderFinite
    <2>3. \A i \in 0 .. b : hist[i] = 0
      BY <1>7, <2>1
    <2>4. \A l \in Under(b) : seen[l] = 0
      BY <1>7, <2>2
    <2>5. Sum(hist, 0 .. b) = 0
      BY <2>1, <2>3, SumZero
    <2>6. Sum(seen, Under(b)) = 0
      BY <2>2, <2>4, SumZero
    <2> QED BY <2>5, <2>6
  <1>13. SameSums(hist, seen)
    BY <1>10 DEF SameSums
  <1>11. /\ fineBatch = nb /\ deepBatch = nb /\ fineArm = nr /\ deepArm = nr
         /\ batch = NoBatch /\ arm = NoReward /\ given = [coarse |-> 0, fine |-> 0, deep |-> 0]
         /\ clamp \in Percentiles /\ escalate \in BOOLEAN
    BY DEF RbInit, nb, nr
  <1>12. /\ given \in [coarse: Nat, fine: Nat, deep: Nat]
         /\ given.coarse = 0 /\ given.fine = 0 /\ given.deep = 0
    BY <1>11
  <1> QED BY <1>2, <1>3, <1>4, <1>5, <1>6, <1>8, <1>9, <1>11, <1>12, <1>13 DEF EvidenceInv

\* A latency recorded in the histogram, so many times, is in the history as often.
LEMMA SameSumsStep ==
  ASSUME EvidenceShape, NEW h, Histogram(h), NEW s \in [Latencies -> Nat],
         SameSums(h, s), NEW l \in Latencies
  PROVE  /\ Histogram(HistRecord(h, l)) /\ [s EXCEPT ![l] = @ + 1] \in [Latencies -> Nat]
         /\ SameSums(HistRecord(h, l), [s EXCEPT ![l] = @ + 1])
  <1> DEFINE g == HistRecord(h, l)
             t == [s EXCEPT ![l] = @ + 1]
  <1>1. t \in [Latencies -> Nat]
    OBVIOUS
  <1>2. \A x \in Latencies : s[x] \in Int /\ t[x] = IF x = l THEN s[x] + 1 ELSE s[x]
    OBVIOUS
  <1>3. /\ Histogram(g)
        /\ \A b \in 0 .. Buckets - 1 :
             Sum(g, 0 .. b) = IF BucketOf(l) <= b THEN Sum(h, 0 .. b) + 1 ELSE Sum(h, 0 .. b)
    BY HistRecordSums
  <1> HIDE DEF g, t
  <1>4. ASSUME NEW b \in 0 .. Buckets - 1 PROVE Sum(g, 0 .. b) = Sum(t, Under(b))
    <2>1. IsFiniteSet(Under(b)) /\ Under(b) \subseteq Latencies /\ 1 \in Int
      BY UnderFinite
    <2>2. \A x \in Under(b) : s[x] \in Int /\ t[x] = IF x = l THEN s[x] + 1 ELSE s[x]
      BY <1>2, <2>1
    <2>3. Sum(t, Under(b)) = IF l \in Under(b) THEN Sum(s, Under(b)) + 1 ELSE Sum(s, Under(b))
      <3> DEFINE S == Under(b)
      <3>1. /\ IsFiniteSet(S) /\ 1 \in Int
            /\ \A x \in S : s[x] \in Int /\ t[x] = IF x = l THEN s[x] + 1 ELSE s[x]
        BY <2>1, <2>2
      <3> HIDE DEF S
      <3>2. CASE l \in S
        <4>1. Sum(t, S) = Sum(s, S) + 1
          BY <3>1, <3>2, SumGrow
        <4> QED BY <3>2, <4>1 DEF S
      <3>3. CASE l \notin S
        <4>1. \A x \in S : t[x] = s[x]
          BY <3>1, <3>3
        <4>2. Sum(t, S) = Sum(s, S)
          BY <3>1, <4>1, SumSame
        <4> QED BY <3>3, <4>2 DEF S
      <3> QED BY <3>2, <3>3
    <2>4. l \in Under(b) <=> BucketOf(l) <= b
      BY DEF Under
    <2>5. Sum(h, 0 .. b) = Sum(s, Under(b))
      BY DEF SameSums
    <2> QED BY <1>3, <2>3, <2>4, <2>5
  <1> QED BY <1>1, <1>3, <1>4 DEF SameSums, g, t

\* A sample, with its contexts.
SampleTaken(c, d, l, n) ==
  /\ RecordCoarse(l, n) /\ RecordFine(c, l, n) /\ RecordDeep(d, l, n) /\ Count(c, d, l)

\* A free's sample is one with no deep context.
LEMMA SampleIs ==
  ASSUME EvidenceShape, RbNext
  PROVE  \E l \in Latencies, n \in Totals, c, d \in ArmContexts \cup {NoSample} :
           SampleTaken(c, d, l, n)
  <1>1. PICK l \in Latencies, n \in Totals, c \in ArmContexts \cup {NoSample},
             d \in ArmContexts \cup {NoSample} :
          AllocSample(c, d, l, n) \/ FreeSample(c, l, n)
    BY DEF RbNext
  <1>2. CASE AllocSample(c, d, l, n)
    BY <1>2 DEF AllocSample, SampleTaken
  <1>3. CASE FreeSample(c, l, n)
    <2>1. SampleTaken(c, NoSample, l, n)
      BY <1>3 DEF FreeSample, SampleTaken, RecordDeep
    <2> QED BY <2>1
  <1> QED BY <1>1, <1>2, <1>3

\* A sample leaves the invariant in force.
LEMMA EvidenceStep ==
  ASSUME EvidenceShape, EvidenceInv, RbNext PROVE EvidenceInv'
  <1>1. PICK l \in Latencies, n \in Totals, c \in ArmContexts \cup {NoSample},
             d \in ArmContexts \cup {NoSample} : SampleTaken(c, d, l, n)
    BY SampleIs
  <1>2. /\ clamp \in Percentiles /\ escalate \in BOOLEAN
        /\ Histogram(hist) /\ seen \in [Latencies -> Nat]
        /\ given \in [coarse: Nat, fine: Nat, deep: Nat]
        /\ BatchSound(batch) /\ RewardSound(arm)
        /\ ContextsSound(fineBatch, fineArm) /\ ContextsSound(deepBatch, deepArm)
        /\ Taken(batch, arm) = given.coarse
        /\ TakenIn(fineBatch, fineArm) = given.fine /\ TakenIn(deepBatch, deepArm) = given.deep
        /\ SameSums(hist, seen)
    BY DEF EvidenceInv
  <1> DEFINE rec1  == HistRecord(hist, l)
             rec2  == HistRecord(rec1, l)
             seen1 == [seen EXCEPT ![l] = @ + 1]
             seen2 == [seen1 EXCEPT ![l] = @ + 1]
  <1>3. Histogram(rec1) /\ seen1 \in [Latencies -> Nat] /\ SameSums(rec1, seen1)
    BY <1>2, SameSumsStep
  <1>4. Histogram(rec2) /\ seen2 \in [Latencies -> Nat] /\ SameSums(rec2, seen2)
    <2> HIDE DEF rec1, seen1
    <2> QED BY <1>3, SameSumsStep
  <1>5. [seen EXCEPT ![l] = @ + 1] = seen1 /\ [seen EXCEPT ![l] = @ + 2] = seen2
    BY <1>2
  <1>6. \A h \in {hist, rec1, rec2} : Winsorized(h, l) \in 0 .. TopLatency
    BY <1>2, <1>3, <1>4, WinsorizedIn
  <1>7. BatchSound(batch') /\ RewardSound(arm') /\ Taken(batch', arm') = given.coarse + 1
    <2> DEFINE h == IF clamp = 0 THEN hist ELSE rec1
               x == Winsorized(h, l)
               j == Joined(batch, x, n)
    <2>1. batch' = Remainder(j) /\ arm' = Credited(arm, j)
      BY <1>1 DEF SampleTaken, RecordCoarse
    <2>2. x \in 0 .. TopLatency
      BY <1>6
    <2> HIDE DEF x
    <2> QED BY <1>2, <2>1, <2>2, BatchStep
  <1> DEFINE cut == Winsorized(rec2, l)
  <1>8. cut \in 0 .. TopLatency
    BY <1>6
  <1>9. /\ ContextsSound(fineBatch', fineArm')
        /\ TakenIn(fineBatch', fineArm')
             = given.fine + IF c = NoSample THEN 0 ELSE 1
    <2>1. CASE c = NoSample
      <3>1. fineBatch' = fineBatch /\ fineArm' = fineArm
        BY <1>1, <2>1 DEF SampleTaken, RecordFine
      <3> QED BY <1>2, <2>1, <3>1
    <2>2. CASE c # NoSample
      <3> DEFINE j == Joined(fineBatch[c], cut, n)
      <3>1. /\ fineBatch' = [fineBatch EXCEPT ![c] = Remainder(j)]
            /\ fineArm' = [fineArm EXCEPT ![c] = Credited(@, j)]
        BY <1>1, <2>2 DEF SampleTaken, RecordFine
      <3>2. c \in ArmContexts
        BY <2>2
      <3> DEFINE b == fineBatch[c]
                 a == fineArm[c]
                 u == Remainder(j)
                 w == Credited(a, j)
                 bsNew == With(fineBatch, c, u)
                 asNew == With(fineArm, c, w)
      <3> HIDE DEF cut
      <3>5. BatchSound(b) /\ RewardSound(a)
        BY <1>2, <3>2 DEF ContextsSound
      <3>6. BatchSound(u) /\ RewardSound(w) /\ Taken(u, w) = Taken(b, a) + 1
        <4> HIDE DEF a
        <4> QED BY <1>8, <3>5, BatchStep
      <3>4. fineBatch' = bsNew /\ fineArm' = asNew
        BY <3>1 DEF With
      <3> HIDE DEF u, w, j
      <3>7. /\ ContextsSound(fineBatch, fineArm) /\ BatchSound(u) /\ RewardSound(w)
            /\ Taken(u, w) = Taken(fineBatch[c], fineArm[c]) + 1
        BY <1>2, <3>6
      <3>3. ContextsSound(bsNew, asNew) /\ TakenIn(bsNew, asNew) = TakenIn(fineBatch, fineArm) + 1
        BY <3>2, <3>7, ContextStep
      <3> HIDE DEF bsNew, asNew
      <3> QED BY <1>2, <2>2, <3>3, <3>4
    <2> QED BY <2>1, <2>2
  <1>10. /\ ContextsSound(deepBatch', deepArm')
         /\ TakenIn(deepBatch', deepArm')
              = given.deep + IF d = NoSample \/ ~escalate THEN 0 ELSE 1
    <2>1. CASE d = NoSample \/ ~escalate
      <3>1. deepBatch' = deepBatch /\ deepArm' = deepArm
        BY <1>1, <2>1 DEF SampleTaken, RecordDeep
      <3> QED BY <1>2, <2>1, <3>1
    <2>2. CASE ~(d = NoSample \/ ~escalate)
      <3> DEFINE j == Joined(deepBatch[d], cut, n)
      <3>1. /\ deepBatch' = [deepBatch EXCEPT ![d] = Remainder(j)]
            /\ deepArm' = [deepArm EXCEPT ![d] = Credited(@, j)]
        BY <1>1, <2>2 DEF SampleTaken, RecordDeep
      <3>2. d \in ArmContexts
        BY <2>2
      <3> DEFINE b == deepBatch[d]
                 a == deepArm[d]
                 u == Remainder(j)
                 w == Credited(a, j)
                 bsNew == With(deepBatch, d, u)
                 asNew == With(deepArm, d, w)
      <3> HIDE DEF cut
      <3>5. BatchSound(b) /\ RewardSound(a)
        BY <1>2, <3>2 DEF ContextsSound
      <3>6. BatchSound(u) /\ RewardSound(w) /\ Taken(u, w) = Taken(b, a) + 1
        <4> HIDE DEF a
        <4> QED BY <1>8, <3>5, BatchStep
      <3>4. deepBatch' = bsNew /\ deepArm' = asNew
        BY <3>1 DEF With
      <3> HIDE DEF u, w, j
      <3>7. /\ ContextsSound(deepBatch, deepArm) /\ BatchSound(u) /\ RewardSound(w)
            /\ Taken(u, w) = Taken(deepBatch[d], deepArm[d]) + 1
        BY <1>2, <3>6
      <3>3. ContextsSound(bsNew, asNew) /\ TakenIn(bsNew, asNew) = TakenIn(deepBatch, deepArm) + 1
        BY <3>2, <3>7, ContextStep
      <3> HIDE DEF bsNew, asNew
      <3> QED BY <1>2, <2>2, <3>3, <3>4
    <2> QED BY <2>1, <2>2
  <1>11. /\ clamp' = clamp /\ escalate' = escalate
         /\ given' = [coarse |-> given.coarse + 1,
                      fine   |-> given.fine + IF c = NoSample THEN 0 ELSE 1,
                      deep   |-> given.deep + IF d = NoSample \/ ~escalate THEN 0 ELSE 1]
    BY <1>1 DEF SampleTaken, Count
  <1>12. /\ given' \in [coarse: Nat, fine: Nat, deep: Nat]
         /\ given'.coarse = given.coarse + 1
         /\ given'.fine = given.fine + IF c = NoSample THEN 0 ELSE 1
         /\ given'.deep = given.deep + IF d = NoSample \/ ~escalate THEN 0 ELSE 1
    BY <1>2, <1>11
  <1>13. Histogram(hist') /\ seen' \in [Latencies -> Nat] /\ SameSums(hist', seen')
    <2>1. hist' = HistAfter(c, l)
      BY <1>1 DEF SampleTaken, Count
    <2>2. seen' = IF clamp = 0 THEN seen ELSE [seen EXCEPT ![l] = @ + Times(c)]
      BY <1>1 DEF SampleTaken, Count
    <2>3. CASE clamp = 0
      BY <1>2, <2>1, <2>2, <2>3 DEF HistAfter
    <2>4. CASE clamp # 0 /\ c = NoSample
      <3>1. hist' = rec1
        BY <2>1, <2>4 DEF HistAfter
      <3>2. seen' = seen1
        BY <2>2, <2>4 DEF Times
      <3> HIDE DEF rec1, seen1
      <3> QED BY <1>3, <3>1, <3>2
    <2>5. CASE clamp # 0 /\ c # NoSample
      <3>1. hist' = rec2
        BY <2>1, <2>5 DEF HistAfter
      <3>2. seen' = seen2
        BY <1>5, <2>2, <2>5 DEF Times
      <3> HIDE DEF rec2, seen2
      <3> QED BY <1>4, <3>1, <3>2
    <2> QED BY <2>3, <2>4, <2>5
  <1> HIDE DEF rec1, rec2, seen1, seen2, cut
  <1> QED BY <1>2, <1>7, <1>9, <1>10, <1>11, <1>12, <1>13 DEF EvidenceInv

\* The invariant holds at the start and after every step.
THEOREM EvidenceInductive == RbSpec => []EvidenceInv
  <1>1. RbInit => EvidenceInv
    BY EvidenceStarts, EvidenceShape
  <1>2. EvidenceInv /\ [RbNext]_rbVars => EvidenceInv'
    <2>1. ASSUME EvidenceInv, RbNext PROVE EvidenceInv'
      BY <2>1, EvidenceStep, EvidenceShape
    <2>2. ASSUME EvidenceInv, UNCHANGED rbVars PROVE EvidenceInv'
      <3>1. /\ clamp' = clamp /\ escalate' = escalate /\ hist' = hist /\ batch' = batch
            /\ fineBatch' = fineBatch /\ deepBatch' = deepBatch /\ arm' = arm
            /\ fineArm' = fineArm /\ deepArm' = deepArm /\ seen' = seen /\ given' = given
        BY <2>2 DEF rbVars
      <3> QED BY <2>2, <3>1 DEF EvidenceInv
    <2> QED BY <2>1, <2>2
  <1> QED BY <1>1, <1>2, PTL DEF RbSpec

-----------------------------------------------------------------------------
\* What RewardTraining records, of every signature and arm.
Tallies == [Sigs -> [Arms -> Int]]
TrainingInv ==
  /\ credited \in Tallies /\ pending \in Tallies /\ samples \in Tallies
  /\ BatchAccounts

\* One tally is set, if there is such a one.
Put(f, s, a, v) == [f EXCEPT ![s][a] = v]

\* The others keep their values.
LEMMA PutIs ==
  ASSUME NEW f \in Tallies, NEW s, NEW a, NEW v, s \in Sigs /\ a \in Arms => v \in Int
  PROVE  /\ Put(f, s, a, v) \in Tallies
         /\ \A x \in Sigs, y \in Arms :
              Put(f, s, a, v)[x][y] = IF x = s /\ y = a THEN v ELSE f[x][y]
  <1> DEFINE row == [f[s] EXCEPT ![a] = v]
             g == [f EXCEPT ![s] = row]
  <1>1. Put(f, s, a, v) = g
    BY DEF Put
  <1>2. s \in Sigs =>
          /\ row \in [Arms -> Int]
          /\ \A y \in Arms : row[y] = IF y = a THEN v ELSE f[s][y]
    <2> SUFFICES ASSUME s \in Sigs
                 PROVE  /\ row \in [Arms -> Int]
                        /\ \A y \in Arms : row[y] = IF y = a THEN v ELSE f[s][y]
      OBVIOUS
    <2> DEFINE q == f[s]
               r == [q EXCEPT ![a] = v]
    <2>1. q \in [Arms -> Int] /\ row = r
      BY DEF Tallies
    <2> HIDE DEF q, row
    <2>2. \A y \in Arms : r[y] = IF y = a THEN v ELSE q[y]
      BY <2>1
    <2>3. \A y \in Arms : r[y] \in Int
      BY <2>1, <2>2
    <2>4. r \in [Arms -> Int]
      BY <2>1, <2>3
    <2> QED BY <2>1, <2>2, <2>4 DEF q
  <1> HIDE DEF row
  <1>3. f \in [Sigs -> [Arms -> Int]]
    BY DEF Tallies
  <1>4. g \in [Sigs -> [Arms -> Int]]
    BY <1>2, <1>3
  <1>5. ASSUME NEW x \in Sigs, NEW y \in Arms
        PROVE  g[x][y] = IF x = s /\ y = a THEN v ELSE f[x][y]
    <2>1. CASE x = s
      BY <1>2, <1>3, <2>1
    <2>2. CASE x # s
      BY <1>3, <2>2
    <2> QED BY <2>1, <2>2
  <1> HIDE DEF g
  <1> QED BY <1>1, <1>4, <1>5 DEF Tallies

\* One tally grows, if there is such a one.
LEMMA BumpIs ==
  ASSUME NEW f \in Tallies, NEW s, NEW a, NEW n, s \in Sigs /\ a \in Arms => n \in Int
  PROVE  /\ Bump(f, s, a, n) \in Tallies
         /\ \A x \in Sigs, y \in Arms :
              Bump(f, s, a, n)[x][y] = IF x = s /\ y = a THEN f[x][y] + n ELSE f[x][y]
  <1> DEFINE v == f[s][a] + n
  <1>1. Bump(f, s, a, n) = Put(f, s, a, v)
    BY DEF Bump, Put
  <1>2. s \in Sigs /\ a \in Arms => v \in Int
    BY DEF Tallies
  <1>3. \A x \in Sigs, y \in Arms : x = s /\ y = a => v = f[x][y] + n
    OBVIOUS
  <1> HIDE DEF v
  <1>4. /\ Put(f, s, a, v) \in Tallies
        /\ \A x \in Sigs, y \in Arms :
             Put(f, s, a, v)[x][y] = IF x = s /\ y = a THEN v ELSE f[x][y]
    BY <1>2, PutIs
  <1> QED BY <1>1, <1>3, <1>4

\* A recorded latency is in the open batch, or credited with it.
LEMMA RecordAccounts ==
  ASSUME NEW s, NEW a, RecordLatency(s, a), TrainingInv
  PROVE  TrainingInv'
  <1>1. credited \in Tallies /\ pending \in Tallies /\ samples \in Tallies /\ BatchAccounts
    BY DEF TrainingInv
  <1> DEFINE p == pending[s][a]
  <1>2. s \in Sigs /\ a \in Arms => p \in Int /\ p + 1 \in Int
    BY <1>1 DEF Tallies
  <1>3. CASE ~learning
    <2>1. credited' = credited /\ pending' = pending /\ samples' = samples
      BY <1>3 DEF RecordLatency
    <2> QED BY <1>1, <2>1 DEF TrainingInv, BatchAccounts
  <1>4. CASE learning
    <2>1. samples' = Bump(samples, s, a, 1)
      BY <1>4 DEF RecordLatency
    <2>2. /\ samples' \in Tallies
          /\ \A x \in Sigs, y \in Arms :
               samples'[x][y] = IF x = s /\ y = a THEN samples[x][y] + 1 ELSE samples[x][y]
      <3>1. 1 \in Int
        OBVIOUS
      <3> QED BY <1>1, <2>1, <3>1, BumpIs
    <2>3. ASSUME NEW x \in Sigs, NEW y \in Arms
          PROVE  /\ credited[x][y] + pending[x][y] = samples[x][y]
                 /\ credited[x][y] \in Int /\ pending[x][y] \in Int /\ samples[x][y] \in Int
      BY <1>1 DEF BatchAccounts, Tallies
    <2>4. CASE p + 1 >= FullBatch
      <3>1. /\ credited' = Bump(credited, s, a, p + 1)
            /\ pending' = [pending EXCEPT ![s][a] = 0]
        BY <1>4, <2>4 DEF RecordLatency
      <3>2. /\ credited' \in Tallies
            /\ \A x \in Sigs, y \in Arms :
                 credited'[x][y] = IF x = s /\ y = a THEN credited[x][y] + (p + 1)
                                   ELSE credited[x][y]
        <4> HIDE DEF p
        <4> QED BY <1>1, <1>2, <3>1, BumpIs
      <3>3. /\ pending' \in Tallies
            /\ \A x \in Sigs, y \in Arms :
                 pending'[x][y] = IF x = s /\ y = a THEN 0 ELSE pending[x][y]
        <4>1. pending' = Put(pending, s, a, 0) /\ 0 \in Int
          BY <3>1 DEF Put
        <4> QED BY <1>1, <4>1, PutIs
      <3>4. ASSUME NEW x \in Sigs, NEW y \in Arms
            PROVE  credited'[x][y] + pending'[x][y] = samples'[x][y]
        <4>1. CASE x = s /\ y = a
          BY <1>2, <2>2, <2>3, <3>2, <3>3, <4>1
        <4>2. CASE ~(x = s /\ y = a)
          BY <2>2, <2>3, <3>2, <3>3, <4>2
        <4> QED BY <4>1, <4>2
      <3> QED BY <2>2, <3>2, <3>3, <3>4 DEF TrainingInv, BatchAccounts
    <2>5. CASE ~(p + 1 >= FullBatch)
      <3>1. pending' = Bump(pending, s, a, 1) /\ credited' = credited
        BY <1>4, <2>5 DEF RecordLatency
      <3>2. /\ pending' \in Tallies
            /\ \A x \in Sigs, y \in Arms :
                 pending'[x][y] = IF x = s /\ y = a THEN pending[x][y] + 1 ELSE pending[x][y]
        <4>1. 1 \in Int
          OBVIOUS
        <4> QED BY <1>1, <3>1, <4>1, BumpIs
      <3>3. ASSUME NEW x \in Sigs, NEW y \in Arms
            PROVE  credited'[x][y] + pending'[x][y] = samples'[x][y]
        BY <2>2, <2>3, <3>1, <3>2
      <3> QED BY <1>1, <2>2, <3>1, <3>2, <3>3 DEF TrainingInv, BatchAccounts
    <2> QED BY <2>4, <2>5
  <1> QED BY <1>3, <1>4

\* Other steps leave the accounts alone.
LEMMA NothingRecorded ==
  ASSUME credited' = credited, pending' = pending, samples' = samples, TrainingInv
  PROVE  TrainingInv'
  BY DEF TrainingInv, BatchAccounts

\* Nothing is accounted for at the start.
LEMMA ZeroAccounts ==
  /\ Zero \in Tallies
  /\ \A s \in Sigs, a \in Arms : Zero[s][a] + Zero[s][a] = Zero[s][a]
  BY DEF Zero, Tallies

\* So do the accounts of the batches of every signature and arm.
THEOREM TrainingInductive == TrainingSpec => []TrainingInv
  <1>1. TrainingInit => TrainingInv
    BY ZeroAccounts DEF TrainingInit, TrainingInv, BatchAccounts
  <1>2. TrainingInv /\ [TrainingNext]_rtVars => TrainingInv'
    <2> SUFFICES ASSUME TrainingInv, [TrainingNext]_rtVars PROVE TrainingInv'
      OBVIOUS
    <2>1. ASSUME NEW t \in Trainees, NEW s \in Sigs, NEW open, Select(t, s, open)
          PROVE  TrainingInv'
      BY <2>1, NothingRecorded DEF Select
    <2>2. ASSUME NEW t \in Trainees, NEW p \in Blocks, NEW by \in Arms, ServeBlock(t, p, by)
          PROVE  TrainingInv'
      BY <2>2, NothingRecorded DEF ServeBlock
    <2>3. ASSUME NEW t \in Trainees, CreditAlloc(t) PROVE TrainingInv'
      BY <2>3, RecordAccounts DEF CreditAlloc
    <2>4. ASSUME NEW t \in Trainees, CreditFree(t) PROVE TrainingInv'
      BY <2>4, RecordAccounts DEF CreditFree
    <2>5. ASSUME NEW t \in Trainees, NEW p \in Blocks, FreeServed(t, p) PROVE TrainingInv'
      BY <2>5, NothingRecorded DEF FreeServed
    <2>6. CASE EndTraining
      <3>1. credited' = Zero /\ pending' = Zero /\ samples' = Zero
        BY <2>6 DEF EndTraining
      <3> QED BY <3>1, ZeroAccounts DEF TrainingInv, BatchAccounts
    <2>7. CASE TrainAgain
      BY <2>7, NothingRecorded DEF TrainAgain
    <2>8. CASE UNCHANGED rtVars
      BY <2>8, NothingRecorded DEF rtVars
    <2> QED BY <2>1, <2>2, <2>3, <2>4, <2>5, <2>6, <2>7, <2>8 DEF TrainingNext
  <1> QED BY <1>1, <1>2, PTL DEF TrainingSpec

-----------------------------------------------------------------------------
\* The percentile of the latencies recorded is below the edge they are cut at, as
\* there are that many in the buckets below the edge.
LEMMA CutAbove ==
  ASSUME EvidenceShape, EvidenceInv, Total(hist) = Total(seen), Total(hist) > 0
  PROVE  LET cut == Quantile(hist, clamp)
         IN  cut > Ranked(Rank(Total(seen), clamp)) \/ cut = Edges[Buckets]
  <1>1. /\ Histogram(hist) /\ seen \in [Latencies -> Nat] /\ SameSums(hist, seen)
        /\ clamp \in 0 .. 100
    BY DEF EvidenceInv, EvidenceShape
  <1> DEFINE k == Rank(Total(seen), clamp)
             cut == Quantile(hist, clamp)
  <1>2. k \in Nat /\ k >= 1
    <2>1. Total(hist) \in Nat \ {0}
      BY <1>1, HistogramSums
    <2>2. k \in 1 .. Total(hist)
      BY <1>1, <2>1, RankIn
    <2> HIDE DEF k
    <2> QED BY <2>1, <2>2
  <1>3. PICK q \in 0 .. Buckets - 1 : cut = Edges[q + 1] /\ Sum(hist, 0 .. q) >= k
    BY <1>1, QuantileIs
  <1> HIDE DEF k
  <1>4. CASE q + 1 = Buckets
    BY <1>3, <1>4
  <1>5. CASE q + 1 # Buckets
    <2>1. Buckets \in Nat \ {0} /\ q + 1 \in 0 .. Buckets - 1 /\ q + 1 \in 0 .. Buckets
      BY <1>5, UpTos
    <2>2. Sum(seen, Under(q)) >= k
      BY <1>1, <1>3 DEF SameSums
    <2>3. IsFiniteSet(Under(q)) /\ Under(q) \subseteq Latencies
      BY UnderFinite
    <2>4. Under(q) # {}
      <3>1. ASSUME Under(q) = {} PROVE FALSE
        <4>1. Sum(seen, Under(q)) = 0
          BY <3>1, SumEmpty
        <4> QED BY <1>2, <2>2, <4>1
      <3> QED BY <3>1
    <2>5. MaxLatency \in Nat /\ Latencies \subseteq 0 .. MaxLatency
      BY DEF EvidenceShape
    <2> DEFINE m == Max(Under(q))
    <2>6. m \in Under(q) /\ \A x \in Under(q) : x <= m
      <3>1. Under(q) \in SUBSET (0 .. MaxLatency)
        BY <2>3, <2>5
      <3> QED BY <2>4, <2>5, <3>1, MaxOf
    <2> HIDE DEF m
    <2>7. m \in Latencies /\ m \in Nat /\ BucketOf(m) <= q
      BY <2>3, <2>5, <2>6 DEF Under
    <2>8. ~(Edges[q + 1] <= m)
      <3>1. ASSUME Edges[q + 1] <= m PROVE FALSE
        <4>1. q + 1 <= BucketOf(m) /\ BucketOf(m) \in 0 .. Buckets - 1
          BY <2>1, <2>7, <3>1, BucketIn
        <4> QED BY <2>1, <2>7, <4>1
      <3> QED BY <3>1
    <2>9. Edges[q + 1] \in Nat
      BY <2>1 DEF EvidenceShape
    <2> DEFINE below(y) == {x \in Latencies : x <= y}
               R == {y \in Latencies : Total([x \in below(y) |-> seen[x]]) >= k}
    <2>10. below(m) \subseteq Latencies /\ IsFiniteSet(below(m))
      <3>1. below(m) \subseteq Latencies /\ IsFiniteSet(Latencies)
        BY Tops
      <3> HIDE DEF below
      <3> QED BY <3>1, FS_Subset
    <2>11. Under(q) \in SUBSET below(m)
      BY <2>3, <2>6
    <2>12. Total([x \in below(m) |-> seen[x]]) >= k
      <3> HIDE DEF below
      <3>1. \A x \in below(m) : seen[x] \in Nat
        BY <1>1, <2>10
      <3>2. /\ Sum(seen, Under(q)) <= Sum(seen, below(m)) /\ Sum(seen, Under(q)) \in Nat
        BY <2>10, <2>11, <3>1, SumPart
      <3>3. below(m) \in SUBSET below(m)
        OBVIOUS
      <3>4. Sum(seen, below(m)) \in Nat
        BY <2>10, <3>1, <3>3, SumPart
      <3>5. Total([x \in below(m) |-> seen[x]]) = Sum(seen, below(m))
        BY <2>10, TotalOn
      <3> QED BY <1>2, <2>2, <3>2, <3>4, <3>5
    <2>13. m \in R /\ R \subseteq Latencies
      BY <2>7, <2>12
    <2>14. Ranked(k) = Min(R)
      BY DEF Ranked
    <2> HIDE DEF R
    <2>15. R \in SUBSET Nat /\ R # {}
      BY <2>5, <2>13
    <2>16. \E y \in R : \A x \in R : y <= x
      BY <2>15, LeastOf
    <2>17. Min(R) \in R /\ \A x \in R : Min(R) <= x
      BY <2>16 DEF Min
    <2>18. Min(R) <= m /\ Min(R) \in Nat
      BY <2>13, <2>15, <2>17
    <2>19. cut > Ranked(k)
      BY <1>3, <2>7, <2>8, <2>9, <2>14, <2>18
    <2> QED BY <2>19 DEF k
  <1> QED BY <1>4, <1>5

\* The property is a consequence.
LEMMA EvidenceThen == ASSUME EvidenceShape, EvidenceInv, TrainingInv PROVE EvidenceAddsUp
  <1>1. /\ Histogram(hist) /\ seen \in [Latencies -> Nat] /\ SameSums(hist, seen)
        /\ RewardSound(arm) /\ ContextsSound(fineBatch, fineArm)
        /\ ContextsSound(deepBatch, deepArm)
        /\ Taken(batch, arm) = given.coarse
        /\ TakenIn(fineBatch, fineArm) = given.fine
        /\ TakenIn(deepBatch, deepArm) = given.deep
    BY DEF EvidenceInv
  <1>2. BatchAccounts
    BY DEF TrainingInv
  <1>3. ASSUME NEW a \in {arm} \cup Range(fineArm) \cup Range(deepArm)
        PROVE  a.sum >= a.count * Worst /\ a.sum <= a.count * Best
    <2>1. /\ DOMAIN fineArm = ArmContexts /\ DOMAIN deepArm = ArmContexts
          /\ \A c \in ArmContexts : RewardSound(fineArm[c]) /\ RewardSound(deepArm[c])
      BY <1>1 DEF ContextsSound
    <2>2. RewardSound(a)
      BY <1>1, <2>1 DEF Range
    <2>3. Worst \in Int /\ Best \in Int
      <3>1. 0 \in 0 .. TopLatency /\ 0 \in 0 .. TopFrag
        BY Tops
      <3> QED BY <3>1, RewardRange
    <2>4. /\ a.count * Worst <= a.sum /\ a.sum <= a.count * Best
          /\ a.count \in Nat /\ a.sum \in Int
      BY <2>2 DEF RewardSound
    <2>5. a.count * Worst \in Int
      BY <2>3, <2>4
    <2> QED BY <2>4, <2>5
  <1>4. Total(hist) = Total(seen)
    <2>1. Buckets - 1 \in 0 .. Buckets - 1
      BY UpTos
    <2>2. Under(Buckets - 1) = Latencies
      <3>1. \A l \in Latencies : BucketOf(l) <= Buckets - 1
        BY BucketIn, UpTos
      <3> QED BY <3>1 DEF Under
    <2>3. Total(hist) = Sum(hist, 0 .. Buckets - 1)
      BY <1>1, HistogramSums
    <2>4. Total(seen) = Sum(seen, Latencies)
      BY <1>1, TotalIs
    <2> QED BY <1>1, <2>1, <2>2, <2>3, <2>4 DEF SameSums
  <1>5. ASSUME Total(hist) >= FullBatch
        PROVE  LET cut == Quantile(hist, clamp)
               IN  cut > Ranked(Rank(Total(seen), clamp)) \/ cut = Edges[Buckets]
    <2>1. Total(hist) \in Nat /\ FullBatch \in Nat \ {0}
      BY <1>1, HistogramSums DEF EvidenceShape
    <2>2. Total(hist) > 0
      BY <1>5, <2>1
    <2> QED BY <1>4, <2>2, CutAbove
  <1> QED BY <1>1, <1>2, <1>3, <1>4, <1>5 DEF EvidenceAddsUp

\* For any latencies, settings, contexts, threads and signatures, every sample is in
\* one batch or credited once, means are means of rewards, and a latency is not cut
\* below the percentile it is cut at (record_latency, winsorize_latency).
THEOREM EvidenceAlways == TrainingSpec /\ RbSpec => []EvidenceAddsUp
  BY EvidenceInductive, TrainingInductive, EvidenceThen, EvidenceShape, PTL

-----------------------------------------------------------------------------
(***************************************************************************)
(* FrozenRouting.  Proofs about FrozenRouting, for any number of sites and *)
(* contexts, any mixing functions whatever, any width of the hash word     *)
(* and any limits of the construction: RoutesAsBuilt holds in every        *)
(* reachable state.                                                        *)
(*                                                                         *)
(* The construction places one bucket after another.  What it has placed   *)
(* so far (Laid) are the keys of the buckets that are not left, each in    *)
(* the slot that its bucket's displacement gives it, and no two in one.    *)
(* At the end no bucket is left, so the slots taken are as many as the     *)
(* keys, and all there are: the hash is perfect and minimal (Perfect), and *)
(* a lookup, which reads one slot and compares the key, is exact (Exact).  *)
(* A file that is accepted has the sections of the model (ImageExact); one *)
(* key that differs differs in the checksum.                               *)
(***************************************************************************)

Mixing == mixer \in Mixers

\* A hash word is scaled down to an index.
LEMMA ScaleIn ==
  ASSUME NEW x \in 0 .. Word - 1, NEW n \in Nat \ {0}
  PROVE  Fastrange(x, n) \in 0 .. n - 1
  <1>1. Word \in Nat \ {0}
    BY RoutingShape
  <1>2. x * n <= (Word - 1) * n /\ x * n \in Int
    BY <1>1, TimesMore
  <1>3. (Word - 1) * n = n * Word - n /\ n * Word \in Int
    BY <1>1
  <1>4. x * n \in Nat
    BY <1>1
  <1>5. (x * n) \div Word \in Nat
    BY <1>1, <1>4, DivMod
  <1>6. ~(n <= (x * n) \div Word)
    <2>1. ~(n * Word <= x * n)
      BY <1>2, <1>3
    <2> QED BY <1>1, <1>4, <2>1, DivFits
  <1> QED BY <1>5, <1>6 DEF Fastrange

\* Whatever the mixing function, a key has a bucket at every attempt and, for every
\* displacement, a slot.
Attempts == 1 .. GlobalRetries
Offsets  == 0 .. MaxDisplacement
Hashing ==
  /\ \A key \in AllKeys, attempt \in Attempts, m \in Nat \ {0} :
       Bucket(key, attempt, m) \in 0 .. m - 1
  /\ \A key \in AllKeys, attempt \in Attempts, d \in Offsets, n \in Nat \ {0} :
       Slot(key, attempt, d, n) \in 0 .. n - 1

LEMMA SeedIn == ASSUME NEW g \in Attempts, NEW d \in Offsets PROVE SeedOf(g, d) \in Seeds
  <1> DEFINE r == GlobalRetries
             t == MaxDisplacement + 1
  <1>1. r \in Nat /\ t \in Nat /\ MaxDisplacement \in Nat
    BY RoutingShape
  <1>2. g \in Nat /\ g <= r /\ d \in Nat /\ d <= MaxDisplacement
    BY <1>1 DEF Attempts, Offsets
  <1>3. SeedOf(g, d) = g * t + d /\ SeedOf(r, MaxDisplacement) = r * t + MaxDisplacement
    BY DEF SeedOf
  <1> HIDE DEF r, t
  <1>4. g * t <= r * t /\ g * t \in Nat /\ r * t \in Nat
    BY <1>1, <1>2, TimesMore
  <1>5. g * t + d <= r * t + MaxDisplacement /\ g * t + d \in Nat
    BY <1>1, <1>2, <1>4
  <1> QED BY <1>1, <1>3, <1>4, <1>5 DEF Seeds, r

LEMMA HashIn == ASSUME Mixing PROVE Hashing
  <1>1. \A key \in AllKeys, seed \in Seeds : Mix(key, seed) \in 0 .. Word - 1
    BY RoutingShape DEF Mixing, Mix
  <1>2. 0 \in Offsets
    BY RoutingShape DEF Offsets
  <1>3. ASSUME NEW key \in AllKeys, NEW attempt \in Attempts, NEW d \in Offsets,
               NEW n \in Nat \ {0}
        PROVE  Slot(key, attempt, d, n) \in 0 .. n - 1
    <2>1. Mix(key, SeedOf(attempt, d)) \in 0 .. Word - 1
      BY <1>1, SeedIn
    <2> QED BY <2>1, ScaleIn DEF Slot
  <1>4. \A key \in AllKeys, attempt \in Attempts, m \in Nat \ {0} :
          Bucket(key, attempt, m) = Slot(key, attempt, 0, m)
    BY DEF Bucket, Slot
  <1>5. \A key \in AllKeys, attempt \in Attempts, m \in Nat \ {0} :
          Bucket(key, attempt, m) \in 0 .. m - 1
    BY <1>2, <1>3, <1>4
  <1> QED BY <1>3, <1>5 DEF Hashing

\* What is placed so far: the keys of the buckets that are not left, each in the slot
\* its bucket's displacement gives it.
Laid(keys, attempt, m, acc) ==
  LET n       == Cardinality(keys)
      home(k) == Bucket(k, attempt, m)
      slot(k) == Slot(k, attempt, acc.seeds[home(k)], n)
  IN  /\ acc = [left |-> acc.left, fits |-> acc.fits, seeds |-> acc.seeds, slots |-> acc.slots]
      /\ acc.left \subseteq 0 .. m - 1
      /\ acc.fits =>
           /\ acc.seeds \in [0 .. m - 1 -> Offsets]
           /\ DOMAIN acc.slots \subseteq 0 .. n - 1
           /\ acc.slots \in [DOMAIN acc.slots -> keys]
           /\ \A k \in keys : home(k) \notin acc.left =>
                slot(k) \in DOMAIN acc.slots /\ acc.slots[slot(k)] = k
           /\ \A s \in DOMAIN acc.slots :
                home(acc.slots[s]) \notin acc.left /\ slot(acc.slots[s]) = s

\* A set of keys to build from.
KeySet(keys) == IsFiniteSet(keys) /\ keys # {} /\ keys \subseteq AllKeys

LEMMA KeyCount == ASSUME NEW keys, KeySet(keys) PROVE Cardinality(keys) \in Nat \ {0}
  BY FS_CardinalityType, FS_EmptySet DEF KeySet

LEMMA LaidFirst ==
  ASSUME Hashing, NEW keys, KeySet(keys), NEW attempt \in Attempts, NEW m \in Nat \ {0}
  PROVE  Laid(keys, attempt, m, NothingPlaced(m))
  <1>1. \A k \in keys : Bucket(k, attempt, m) \in 0 .. m - 1
    BY DEF Hashing, KeySet
  <1>2. 0 \in Offsets
    BY RoutingShape DEF Offsets
  <1> QED BY <1>1, <1>2, KeyCount DEF Laid, NothingPlaced

\* A bucket that is displaced joins what is placed.
LEMMA LaidNext ==
  ASSUME Hashing, NEW keys, KeySet(keys), NEW attempt \in Attempts, NEW m \in Nat \ {0},
         NEW acc, Laid(keys, attempt, m, acc), NEW b \in acc.left,
         NEW new, new = Displace(acc, InBucket(keys, attempt, m, b), b, attempt, Cardinality(keys))
  PROVE  Laid(keys, attempt, m, new) /\ new.left = acc.left \ {b}
  <1> DEFINE n       == Cardinality(keys)
             M       == InBucket(keys, attempt, m, b)
             home(k) == Bucket(k, attempt, m)
             spot(k, d) == Slot(k, attempt, d, n)
             slot(k) == Slot(k, attempt, acc.seeds[home(k)], n)
             able    == {d \in 1 .. MaxDisplacement :
                           /\ \A k \in M : spot(k, d) \notin DOMAIN acc.slots
                           /\ \A k, l \in M : spot(k, d) = spot(l, d) => k = l}
             d       == Min(able)
             left    == acc.left \ {b}
  <1>0. n \in Nat \ {0} /\ MaxDisplacement \in Nat
    BY KeyCount, RoutingShape
  <1>1. /\ acc = [left |-> acc.left, fits |-> acc.fits, seeds |-> acc.seeds, slots |-> acc.slots]
        /\ acc.left \subseteq 0 .. m - 1
    BY DEF Laid
  <1>2. acc.fits =>
          /\ acc.seeds \in [0 .. m - 1 -> Offsets]
          /\ DOMAIN acc.slots \subseteq 0 .. n - 1
          /\ acc.slots \in [DOMAIN acc.slots -> keys]
          /\ \A k \in keys : home(k) \notin acc.left =>
               slot(k) \in DOMAIN acc.slots /\ acc.slots[slot(k)] = k
          /\ \A s \in DOMAIN acc.slots :
               home(acc.slots[s]) \notin acc.left /\ slot(acc.slots[s]) = s
    BY DEF Laid
  <1>3. M \subseteq keys /\ \A k \in keys : k \in M <=> home(k) = b
    BY DEF InBucket
  <1>4. CASE M = {}
    <2>1. new = [acc EXCEPT !.left = left]
      BY <1>4 DEF Displace
    <2>2. /\ new = [left |-> left, fits |-> acc.fits, seeds |-> acc.seeds, slots |-> acc.slots]
          /\ new.left = left /\ new.fits = acc.fits /\ new.seeds = acc.seeds
          /\ new.slots = acc.slots
      BY <1>1, <2>1
    <2>3. \A k \in keys : home(k) \notin left => home(k) \notin acc.left
      BY <1>3, <1>4
    <2> HIDE DEF M, able, d
    <2> QED BY <1>1, <1>2, <2>2, <2>3 DEF Laid
  <1>5. CASE M # {} /\ able = {}
    <2>1. new = [acc EXCEPT !.left = left, !.fits = FALSE]
      BY <1>5 DEF Displace
    <2>2. /\ new = [left |-> left, fits |-> FALSE, seeds |-> acc.seeds, slots |-> acc.slots]
          /\ new.left = left /\ new.fits = FALSE /\ new.seeds = acc.seeds
          /\ new.slots = acc.slots
      BY <1>1, <2>1
    <2> HIDE DEF M, able, d
    <2> QED BY <1>1, <2>2 DEF Laid
  <1>6. CASE M # {} /\ able # {}
    <2> DEFINE slots == [s \in DOMAIN acc.slots \cup {spot(k, d) : k \in M} |->
                           IF s \in DOMAIN acc.slots THEN acc.slots[s]
                           ELSE CHOOSE k \in M : spot(k, d) = s]
               seeds == [acc.seeds EXCEPT ![b] = d]
    <2>1. new = [left |-> left, fits |-> acc.fits, seeds |-> seeds, slots |-> slots]
      BY <1>6 DEF Displace
    <2>2. d \in able
      <3>1. able \subseteq Nat
        OBVIOUS
      <3>2. \E x \in able : \A y \in able : x <= y
        <4> HIDE DEF able
        <4> QED BY <1>6, <3>1, LeastOf
      <3> HIDE DEF able
      <3> QED BY <3>2 DEF Min
    <2>3. /\ d \in Offsets
          /\ \A k \in M : spot(k, d) \notin DOMAIN acc.slots
          /\ \A k, l \in M : spot(k, d) = spot(l, d) => k = l
      <3> HIDE DEF d
      <3> QED BY <2>2, <1>0 DEF Offsets
    <2>4. /\ new = [left |-> new.left, fits |-> new.fits, seeds |-> new.seeds, slots |-> new.slots]
          /\ new.left = left /\ new.fits = acc.fits /\ new.seeds = seeds
          /\ new.slots = slots
      <3> HIDE DEF d, seeds, slots, left
      <3> QED BY <2>1
    <2> HIDE DEF d, able, M
    <2>5. ASSUME acc.fits
          PROVE  /\ seeds \in [0 .. m - 1 -> Offsets]
                 /\ DOMAIN slots \subseteq 0 .. n - 1
                 /\ slots \in [DOMAIN slots -> keys]
                 /\ \A k \in keys : home(k) \notin left =>
                      /\ Slot(k, attempt, seeds[home(k)], n) \in DOMAIN slots
                      /\ slots[Slot(k, attempt, seeds[home(k)], n)] = k
                 /\ \A s \in DOMAIN slots :
                      /\ home(slots[s]) \notin left
                      /\ Slot(slots[s], attempt, seeds[home(slots[s])], n) = s
      <3> DEFINE D == DOMAIN acc.slots
      <3>1. /\ acc.seeds \in [0 .. m - 1 -> Offsets]
            /\ D \subseteq 0 .. n - 1
            /\ acc.slots \in [D -> keys]
            /\ \A k \in keys : home(k) \notin acc.left =>
                 slot(k) \in D /\ acc.slots[slot(k)] = k
            /\ \A s \in D :
                 home(acc.slots[s]) \notin acc.left /\ slot(acc.slots[s]) = s
        BY <1>2, <2>5
      <3>2. b \in 0 .. m - 1 /\ b \notin left
        BY <1>1
      <3>3. seeds \in [0 .. m - 1 -> Offsets] /\ seeds[b] = d
            /\ \A c \in 0 .. m - 1 : c # b => seeds[c] = acc.seeds[c]
        BY <2>3, <3>1, <3>2
      <3>4. \A k \in keys : k \in AllKeys /\ home(k) \in 0 .. m - 1
        BY DEF Hashing, KeySet
      <3>5. \A k \in M : spot(k, d) \in 0 .. n - 1
        BY <1>0, <1>3, <2>3, <3>4 DEF Hashing
      <3>6. DOMAIN slots = D \cup {spot(k, d) : k \in M}
        OBVIOUS
      <3>7. \A s \in D : slots[s] = acc.slots[s]
        OBVIOUS
      <3>8. \A k \in M : spot(k, d) \in DOMAIN slots /\ slots[spot(k, d)] = k
        <4> TAKE k \in M
        <4>1. spot(k, d) \notin D /\ spot(k, d) \in DOMAIN slots
          BY <2>3, <3>6
        <4>2. slots[spot(k, d)] = CHOOSE l \in M : spot(l, d) = spot(k, d)
          BY <4>1
        <4> HIDE DEF slots, spot
        <4> QED BY <2>3, <4>1, <4>2
      <3>9. \A k \in keys : Slot(k, attempt, seeds[home(k)], n)
                              = IF k \in M THEN spot(k, d) ELSE slot(k)
        BY <1>3, <3>3, <3>4
      <3> HIDE DEF slots, seeds, spot, home, slot, D
      <3>10. DOMAIN slots \subseteq 0 .. n - 1
        BY <3>1, <3>5, <3>6
      <3>11. ASSUME NEW k \in keys, home(k) \notin left
             PROVE  /\ Slot(k, attempt, seeds[home(k)], n) \in DOMAIN slots
                    /\ slots[Slot(k, attempt, seeds[home(k)], n)] = k
        BY <1>3, <3>1, <3>6, <3>7, <3>8, <3>9, <3>11
      <3>12. ASSUME NEW s \in DOMAIN slots
             PROVE  /\ slots[s] \in keys /\ home(slots[s]) \notin left
                    /\ Slot(slots[s], attempt, seeds[home(slots[s])], n) = s
        <4>1. CASE s \in D
          <5>1. slots[s] = acc.slots[s] /\ slots[s] \in keys /\ home(slots[s]) \notin acc.left
                /\ slot(slots[s]) = s
            BY <3>1, <3>7, <4>1
          <5>2. slots[s] \notin M
            BY <1>3, <5>1
          <5> QED BY <3>9, <5>1, <5>2
        <4>2. CASE s \notin D
          <5>1. PICK k \in M : s = spot(k, d)
            BY <3>6, <4>2
          <5>2. slots[s] = k /\ k \in keys /\ home(k) = b
            BY <1>3, <3>8, <5>1
          <5> QED BY <3>2, <3>9, <5>1, <5>2
        <4> QED BY <4>1, <4>2
      <3>13. slots = [s \in DOMAIN slots |-> slots[s]]
        BY DEF slots
      <3> QED BY <3>3, <3>10, <3>11, <3>12, <3>13
    <2>6. left \subseteq 0 .. m - 1
      BY <1>1
    <2> HIDE DEF seeds, slots
    <2> QED BY <2>4, <2>5, <2>6 DEF Laid
  <1> QED BY <1>4, <1>5, <1>6

\* A bucket is chosen from those that are left.
LEMMA LargestIsLeft ==
  ASSUME NEW keys, IsFiniteSet(keys), NEW attempt, NEW m,
         NEW left \in SUBSET Nat, left # {}
  PROVE  Largest(keys, attempt, m, left) \in left
  <1> DEFINE size(b) == Cardinality(InBucket(keys, attempt, m, b))
             sizes   == {size(b) : b \in left}
             n       == Cardinality(keys)
  <1>1. \A b \in left : size(b) \in 0 .. n
    <2> TAKE b \in left
    <2>1. InBucket(keys, attempt, m, b) \in SUBSET keys
      BY DEF InBucket
    <2> QED BY <2>1, FS_Subset, FS_CardinalityType
  <1>2. n \in Nat
    BY FS_CardinalityType
  <1> HIDE DEF size, n
  <1>3. sizes \in SUBSET (0 .. n) /\ sizes # {}
    BY <1>1
  <1>4. PICK big \in sizes : \A x \in sizes : x <= big
    <2> HIDE DEF sizes
    <2> QED BY <1>2, <1>3, MaxOf
  <1> DEFINE most == {b \in left : size(b) = big}
  <1>5. most \in SUBSET Nat /\ most # {}
    BY <1>4
  <1>6. PICK b \in most : \A c \in most : b <= c
    <2> HIDE DEF most
    <2> QED BY <1>5, LeastOf
  <1>7. b \in left /\ \A c \in left : size(b) > size(c) \/ (size(b) = size(c) /\ b <= c)
    BY <1>1, <1>4, <1>6
  <1> QED BY <1>7 DEF Largest, size

\* The states of the construction, up to the one after n buckets.
Placing(keys, attempt, m, g, n) ==
  \A i \in 0 .. n : g[i] = IF i = 0 THEN NothingPlaced(m)
                           ELSE PlaceLargest(keys, attempt, m, g[i - 1])
Placed(keys, attempt, m, n) ==
  \E g : g = [i \in 0 .. n |-> g[i]] /\ Placing(keys, attempt, m, g, n)

LEMMA PlacedAll ==
  ASSUME NEW keys, NEW attempt, NEW m PROVE \A n \in Nat : Placed(keys, attempt, m, n)
  <1> DEFINE P == {n \in Nat : Placed(keys, attempt, m, n)}
  <1>1. 0 \in P
    <2> DEFINE g == [i \in 0 .. 0 |-> NothingPlaced(m)]
    <2>1. g = [i \in 0 .. 0 |-> g[i]]
      OBVIOUS
    <2>2. \A i \in 0 .. 0 : i = 0 /\ g[i] = NothingPlaced(m)
      OBVIOUS
    <2> HIDE DEF g
    <2>3. Placing(keys, attempt, m, g, 0)
      BY <2>2 DEF Placing
    <2> QED BY <2>1, <2>3 DEF Placed
  <1>2. ASSUME NEW n \in Nat, n \in P PROVE n + 1 \in P
    <2>1. PICK g : g = [i \in 0 .. n |-> g[i]] /\ Placing(keys, attempt, m, g, n)
      BY <1>2 DEF Placed
    <2> DEFINE after == PlaceLargest(keys, attempt, m, g[n])
               h    == [i \in 0 .. n + 1 |-> IF i = n + 1 THEN after ELSE g[i]]
    <2>2. h = [i \in 0 .. n + 1 |-> h[i]]
      OBVIOUS
    <2>3. \A i \in 0 .. n : i \in 0 .. n + 1 /\ i # n + 1 /\ h[i] = g[i]
      OBVIOUS
    <2>4. h[n + 1] = after
      OBVIOUS
    <2> HIDE DEF h
    <2>5. ASSUME NEW i \in 0 .. n + 1
          PROVE  h[i] = IF i = 0 THEN NothingPlaced(m)
                        ELSE PlaceLargest(keys, attempt, m, h[i - 1])
      <3>1. CASE i = n + 1
        <4>1. i - 1 = n /\ n \in 0 .. n /\ i # 0
          BY <3>1
        <4> QED BY <2>3, <2>4, <3>1, <4>1
      <3>2. CASE i # n + 1
        <4>1. i \in 0 .. n /\ (i # 0 => i - 1 \in 0 .. n)
          BY <3>2
        <4> QED BY <2>1, <2>3, <4>1 DEF Placing
      <3> QED BY <3>1, <3>2
    <2>6. Placing(keys, attempt, m, h, n + 1)
      BY <2>5 DEF Placing
    <2> QED BY <2>2, <2>6 DEF Placed
  <1> HIDE DEF P
  <1>3. Nat \subseteq P
    BY <1>1, <1>2, Induct
  <1> QED BY <1>3 DEF P

\* An attempt is the last of those states.
LEMMA TryIs ==
  ASSUME NEW keys, NEW attempt, NEW m \in Nat
  PROVE  \E g : Placing(keys, attempt, m, g, m) /\ TryBuild(keys, attempt, m) = g[m]
  <1> DEFINE f == CHOOSE f : f = [i \in 0 .. m |->
                    IF i = 0 THEN NothingPlaced(m)
                    ELSE PlaceLargest(keys, attempt, m, f[i - 1])]
  <1>1. PICK g : g = [i \in 0 .. m |-> g[i]] /\ Placing(keys, attempt, m, g, m)
    BY PlacedAll DEF Placed
  <1>2. g = [i \in 0 .. m |-> IF i = 0 THEN NothingPlaced(m)
                              ELSE PlaceLargest(keys, attempt, m, g[i - 1])]
    BY <1>1 DEF Placing
  <1>3. f = [i \in 0 .. m |-> IF i = 0 THEN NothingPlaced(m)
                              ELSE PlaceLargest(keys, attempt, m, f[i - 1])]
    BY <1>2
  <1>4. TryBuild(keys, attempt, m) = f[m]
    BY DEF TryBuild
  <1> HIDE DEF f
  <1>5. Placing(keys, attempt, m, f, m)
    <2> DEFINE F(i) == IF i = 0 THEN NothingPlaced(m)
                       ELSE PlaceLargest(keys, attempt, m, f[i - 1])
    <2>1. f = [i \in 0 .. m |-> F(i)]
      BY <1>3
    <2> HIDE DEF F
    <2>2. \A i \in 0 .. m : f[i] = F(i)
      BY <2>1
    <2> QED BY <2>2 DEF Placing, F
  <1> QED BY <1>4, <1>5

\* At its end no bucket is left.
LEMMA TryLaid ==
  ASSUME Hashing, NEW keys, KeySet(keys), NEW attempt \in Attempts, NEW m \in Nat \ {0}
  PROVE  /\ Laid(keys, attempt, m, TryBuild(keys, attempt, m))
         /\ TryBuild(keys, attempt, m).left = {}
  <1>1. PICK g : Placing(keys, attempt, m, g, m) /\ TryBuild(keys, attempt, m) = g[m]
    BY TryIs
  <1> DEFINE P == {i \in Nat : i <= m => /\ Laid(keys, attempt, m, g[i])
                                         /\ IsFiniteSet(g[i].left)
                                         /\ Cardinality(g[i].left) = m - i}
  <1>2. 0 \in P
    <2>1. g[0] = NothingPlaced(m)
      BY <1>1 DEF Placing
    <2>2. g[0].left = 0 .. m - 1
      BY <2>1 DEF NothingPlaced
    <2>3. IsFiniteSet(0 .. m - 1) /\ Cardinality(0 .. m - 1) = m
      BY FS_Interval
    <2> QED BY <2>1, <2>2, <2>3, LaidFirst
  <1>3. ASSUME NEW i \in Nat, i \in P PROVE i + 1 \in P
    <2> SUFFICES ASSUME i + 1 <= m
                 PROVE  /\ Laid(keys, attempt, m, g[i + 1])
                        /\ IsFiniteSet(g[i + 1].left)
                        /\ Cardinality(g[i + 1].left) = m - (i + 1)
      OBVIOUS
    <2> DEFINE acc == g[i]
               b   == Largest(keys, attempt, m, acc.left)
    <2>1. /\ Laid(keys, attempt, m, acc) /\ IsFiniteSet(acc.left)
          /\ Cardinality(acc.left) = m - i /\ m - i # 0
      BY <1>3
    <2>2. g[i + 1] = PlaceLargest(keys, attempt, m, acc)
      <3>1. i + 1 \in 0 .. m /\ i + 1 # 0 /\ (i + 1) - 1 = i
        OBVIOUS
      <3> QED BY <1>1, <3>1 DEF Placing
    <2> HIDE DEF acc
    <2>3. acc.left # {} /\ acc.left \in SUBSET Nat
      BY <2>1, FS_EmptySet DEF Laid
    <2>4. b \in acc.left
      BY <2>3, LargestIsLeft DEF KeySet
    <2>5. g[i + 1] = Displace(acc, InBucket(keys, attempt, m, b), b, attempt, Cardinality(keys))
      BY <2>2 DEF PlaceLargest
    <2> HIDE DEF b
    <2>6. Laid(keys, attempt, m, g[i + 1]) /\ g[i + 1].left = acc.left \ {b}
      BY <2>1, <2>4, <2>5, LaidNext
    <2>7. IsFiniteSet(acc.left \ {b}) /\ Cardinality(acc.left \ {b}) = (m - i) - 1
      BY <2>1, <2>4, FS_RemoveElement
    <2> QED BY <2>6, <2>7
  <1> HIDE DEF P
  <1>4. Nat \subseteq P
    BY <1>2, <1>3, Induct
  <1>5. /\ Laid(keys, attempt, m, g[m]) /\ IsFiniteSet(g[m].left)
        /\ Cardinality(g[m].left) = m - m
    BY <1>4 DEF P
  <1>6. g[m].left = {}
    BY <1>5, FS_EmptySet
  <1> QED BY <1>1, <1>5, <1>6

\* An attempt that has not failed fills every slot with one key, and gives each key
\* its slot: the hash is perfect, and minimal.
Perfect(keys, attempt, m, r) ==
  LET n       == Cardinality(keys)
      slot(k) == Slot(k, attempt, r.seeds[Bucket(k, attempt, m)], n)
  IN  /\ r.seeds \in [0 .. m - 1 -> Offsets]
      /\ r.slots \in [0 .. n - 1 -> keys]
      /\ \A k \in keys : slot(k) \in 0 .. n - 1 /\ r.slots[slot(k)] = k

LEMMA TryPerfect ==
  ASSUME Hashing, NEW keys, KeySet(keys), NEW attempt \in Attempts, NEW m \in Nat \ {0},
         NEW r, r = TryBuild(keys, attempt, m), r.fits
  PROVE  Perfect(keys, attempt, m, r)
  <1> DEFINE n       == Cardinality(keys)
             slot(k) == Slot(k, attempt, r.seeds[Bucket(k, attempt, m)], n)
             D       == DOMAIN r.slots
             f       == [k \in keys |-> slot(k)]
  <1>1. Laid(keys, attempt, m, r) /\ r.left = {}
    BY TryLaid
  <1>2. /\ r.seeds \in [0 .. m - 1 -> Offsets]
        /\ D \subseteq 0 .. n - 1
        /\ r.slots \in [D -> keys]
        /\ \A k \in keys : slot(k) \in D /\ r.slots[slot(k)] = k
        /\ \A s \in D : slot(r.slots[s]) = s
    BY <1>1 DEF Laid
  <1>3. f \in [keys -> D] /\ \A k \in keys : f[k] = slot(k)
    BY <1>2
  <1>4. /\ \A k, l \in keys : f[k] = f[l] => k = l
        /\ \A s \in D : r.slots[s] \in keys /\ f[r.slots[s]] = s
    <2> HIDE DEF f, slot, D
    <2>1. ASSUME NEW k \in keys, NEW l \in keys, f[k] = f[l] PROVE k = l
      <3>1. slot(k) = slot(l)
        BY <1>3, <2>1
      <3>2. r.slots[slot(k)] = k /\ r.slots[slot(l)] = l
        BY <1>2
      <3> QED BY <3>1, <3>2
    <2>2. ASSUME NEW s \in D PROVE r.slots[s] \in keys /\ f[r.slots[s]] = s
      BY <1>2, <1>3
    <2> QED BY <2>1, <2>2
  <1> HIDE DEF f, slot, D
  <1>5. \A s \in D : \E k \in keys : f[k] = s
    BY <1>4
  <1>6. IsFiniteSet(D) /\ Cardinality(D) = n
    BY <1>3, <1>4, <1>5, SameCount DEF KeySet
  <1>7. n \in Nat \ {0}
    BY KeyCount
  <1> HIDE DEF n
  <1>8. IsFiniteSet(0 .. n - 1) /\ Cardinality(0 .. n - 1) = n
    BY <1>7, FS_Interval
  <1>9. D = 0 .. n - 1
    BY <1>2, <1>6, <1>8, FS_Subset
  <1> QED BY <1>2, <1>9 DEF Perfect, slot, D, n

\* What from_entries_flagged makes of its rows: an entry for each key.
Keyed(byKey) ==
  /\ IsFiniteSet(DOMAIN byKey) /\ DOMAIN byKey \subseteq AllKeys
  /\ byKey = [k \in DOMAIN byKey |-> byKey[k]]
  /\ \A k \in DOMAIN byKey : byKey[k].key = k

\* A table has these entries, and answers for their keys and no others.
Exact(tab, byKey) ==
  /\ \A k \in AllKeys : Lookup(tab, k) = IF k \in DOMAIN byKey THEN byKey[k] ELSE Miss
  /\ TableEntries(tab) = {byKey[k] : k \in DOMAIN byKey}

\* A perfect hash of the keys is an exact table of their entries.
LEMMA PerfectExact ==
  ASSUME Hashing, NEW byKey, Keyed(byKey), DOMAIN byKey # {}, NEW attempt \in Attempts,
         NEW m \in Nat \ {0}, NEW r, Perfect(DOMAIN byKey, attempt, m, r), NEW tab,
         tab = [n |-> Cardinality(DOMAIN byKey), attempt |-> attempt, buckets |-> m,
                  seeds |-> r.seeds,
                  slots |-> [s \in 0 .. Cardinality(DOMAIN byKey) - 1 |-> byKey[r.slots[s]]]]
  PROVE  Exact(tab, byKey) /\ Built(tab)
  <1> DEFINE keys    == DOMAIN byKey
             n       == Cardinality(keys)
             slot(k) == Slot(k, attempt, r.seeds[Bucket(k, attempt, m)], n)
  <1>1. KeySet(keys) /\ n \in Nat \ {0}
    BY KeyCount DEF KeySet, Keyed
  <1>2. /\ r.seeds \in [0 .. m - 1 -> Offsets]
        /\ r.slots \in [0 .. n - 1 -> keys]
        /\ \A k \in keys : slot(k) \in 0 .. n - 1 /\ r.slots[slot(k)] = k
    BY DEF Perfect
  <1>3. /\ tab.n = n /\ tab.attempt = attempt /\ tab.buckets = m
        /\ tab.seeds = r.seeds
        /\ tab.slots = [s \in 0 .. n - 1 |-> byKey[r.slots[s]]]
    OBVIOUS
  <1>4. \A s \in 0 .. n - 1 : tab.slots[s] = byKey[r.slots[s]] /\ r.slots[s] \in keys
    BY <1>2, <1>3
  <1>5. \A k \in AllKeys : slot(k) \in 0 .. n - 1
    BY <1>1, <1>2 DEF Hashing
  <1>6. \A k \in AllKeys : Lookup(tab, k) = IF tab.slots[slot(k)].key = k
                                          THEN tab.slots[slot(k)] ELSE Miss
    BY <1>1, <1>3 DEF Lookup
  <1>7. \A k \in keys : byKey[k].key = k /\ k \in AllKeys
    BY DEF Keyed
  <1>8. TableEntries(tab) = {tab.slots[s] : s \in 0 .. n - 1}
    BY <1>1, <1>3 DEF TableEntries, Range
  <1>9. Built(tab)
    BY <1>1, <1>3 DEF Built
  <1> HIDE DEF n, slot, keys
  <1>10. ASSUME NEW k \in AllKeys
         PROVE  Lookup(tab, k) = IF k \in keys THEN byKey[k] ELSE Miss
    <2>1. CASE k \in keys
      <3>1. tab.slots[slot(k)] = byKey[k]
        BY <1>2, <1>4, <2>1
      <3>2. tab.slots[slot(k)].key = k
        BY <1>7, <2>1, <3>1
      <3>3. Lookup(tab, k) = tab.slots[slot(k)]
        BY <1>6, <3>2
      <3> QED BY <2>1, <3>1, <3>3
    <2>2. CASE k \notin keys
      <3>1. PICK s \in 0 .. n - 1 : s = slot(k)
        BY <1>5
      <3>2. tab.slots[s] = byKey[r.slots[s]] /\ r.slots[s] \in keys
        BY <1>4
      <3>3. tab.slots[s].key \in keys
        BY <1>7, <3>2
      <3> QED BY <1>6, <2>2, <3>1, <3>3
    <2> QED BY <2>1, <2>2
  <1>11. TableEntries(tab) = {byKey[k] : k \in keys}
    <2>1. ASSUME NEW e \in TableEntries(tab) PROVE \E k \in keys : e = byKey[k]
      BY <1>4, <1>8, <2>1
    <2>2. ASSUME NEW k \in keys PROVE byKey[k] \in TableEntries(tab)
      <3>1. slot(k) \in 0 .. n - 1 /\ tab.slots[slot(k)] = byKey[k]
        BY <1>2, <1>4
      <3> QED BY <1>8, <3>1
    <2> QED BY <2>1, <2>2
  <1> QED BY <1>9, <1>10, <1>11 DEF Exact, keys

\* However the construction ends, the table it returns is exact.
LEMMA BuildExact ==
  ASSUME Hashing, NEW byKey, Keyed(byKey), Built(Build(byKey))
  PROVE  Exact(Build(byKey), byKey)
  <1> DEFINE keys   == DOMAIN byKey
             n      == Cardinality(keys)
             few    == (n + Lambda - 1) \div Lambda
             trials == [i \in 1 .. 2 * GlobalRetries |->
                          [attempt |-> ((i - 1) % GlobalRetries) + 1,
                           buckets |-> IF i <= GlobalRetries THEN few ELSE n]]
             result(i) == TryBuild(keys, trials[i].attempt, trials[i].buckets)
             good   == {i \in DOMAIN trials : result(i).fits}
             first  == Min(good)
             full   == [n |-> n, attempt |-> trials[first].attempt,
                        buckets |-> trials[first].buckets, seeds |-> result(first).seeds,
                        slots |-> [s \in 0 .. n - 1 |-> byKey[result(first).slots[s]]]]
  <1>1. Build(byKey) = IF n = 0 THEN [n |-> 0] ELSE IF good = {} THEN [n |-> -1] ELSE full
    BY DEF Build
  <1>2. n \in Nat /\ (n = 0 <=> keys = {})
    BY FS_CardinalityType, FS_EmptySet DEF Keyed
  <1>3. CASE n = 0
    <2>0. Build(byKey) = [n |-> 0]
      BY <1>1, <1>3
    <2>1. Build(byKey).n = 0 /\ keys = {}
      BY <1>2, <1>3, <2>0
    <2> HIDE DEF keys
    <2> QED BY <2>1 DEF Exact, Lookup, TableEntries, keys
  <1>4. CASE n # 0 /\ good = {}
    <2>1. Build(byKey) = [n |-> -1]
      BY <1>1, <1>4
    <2>2. Build(byKey).n = -1
      BY <2>1
    <2> QED BY <2>2 DEF Built
  <1>5. CASE n # 0 /\ good # {}
    <2>1. Build(byKey) = full
      BY <1>1, <1>5
    <2>2. GlobalRetries \in Nat /\ Lambda \in Nat \ {0}
      BY RoutingShape
    <2>3. first \in good
      <3>1. good \subseteq Nat
        BY <2>2
      <3>2. PICK x \in good : \A y \in good : x <= y
        <4> HIDE DEF good
        <4> QED BY <1>5, <3>1, LeastOf
      <3> HIDE DEF good
      <3> QED BY <3>2 DEF Min
    <2> HIDE DEF first
    <2>4. first \in 1 .. 2 * GlobalRetries /\ result(first).fits
      BY <2>3
    <2>5. few \in Nat \ {0}
      <3>1. n + Lambda - 1 \in Nat /\ 1 * Lambda <= n + Lambda - 1
        BY <1>2, <1>5, <2>2
      <3>2. 1 <= few /\ few \in Nat
        <4> HIDE DEF n
        <4> QED BY <2>2, <3>1, DivFits, DivMod
      <3> HIDE DEF few
      <3> QED BY <3>2
    <2>6. (first - 1) % GlobalRetries \in 0 .. GlobalRetries - 1 /\ GlobalRetries # 0
      BY <2>2, <2>4
    <2>7. trials[first] = [attempt |-> ((first - 1) % GlobalRetries) + 1,
                           buckets |-> IF first <= GlobalRetries THEN few ELSE n]
      BY <2>4
    <2>8. trials[first].attempt \in Attempts /\ trials[first].buckets \in Nat \ {0}
      <3> HIDE DEF few, n, trials
      <3>1. ((first - 1) % GlobalRetries) + 1 \in Attempts
        BY <2>2, <2>6 DEF Attempts
      <3> QED BY <1>2, <1>5, <2>5, <2>7, <3>1
    <2>9. KeySet(keys)
      BY <1>2, <1>5 DEF KeySet, Keyed
    <2> DEFINE attempt == trials[first].attempt
               m       == trials[first].buckets
               r       == TryBuild(keys, attempt, m)
    <2>10. r = result(first)
      OBVIOUS
    <2>11. attempt \in Attempts /\ m \in Nat \ {0} /\ r.fits
      BY <2>4, <2>8
    <2>12. full = [n |-> n, attempt |-> attempt, buckets |-> m, seeds |-> r.seeds,
                   slots |-> [s \in 0 .. n - 1 |-> byKey[r.slots[s]]]]
      OBVIOUS
    <2>13. Perfect(keys, attempt, m, r)
      <3> HIDE DEF attempt, m, keys
      <3> QED BY <2>9, <2>11, TryPerfect
    <2> HIDE DEF full, attempt, m, r
    <2> QED BY <1>2, <1>5, <2>1, <2>11, <2>12, <2>13, PerfectExact
  <1> QED BY <1>3, <1>4, <1>5

\* Rows in the order of some numbers.
Rows(entries) ==
  /\ \E n \in Nat : DOMAIN entries \subseteq 0 .. n
  /\ \A i \in DOMAIN entries : entries[i].key \in AllKeys

\* The last row of a key.
LastOf(entries, k) == CHOOSE i \in DOMAIN entries :
                        /\ entries[i].key = k
                        /\ \A j \in DOMAIN entries : entries[j].key = k => j <= i

LEMMA LastIs ==
  ASSUME NEW entries, Rows(entries), NEW j \in DOMAIN entries
  PROVE  /\ LastOf(entries, entries[j].key) \in DOMAIN entries
         /\ entries[LastOf(entries, entries[j].key)].key = entries[j].key
         /\ \A i \in DOMAIN entries :
              entries[i].key = entries[j].key => i <= LastOf(entries, entries[j].key)
  <1> DEFINE k == entries[j].key
             S == {i \in DOMAIN entries : entries[i].key = k}
  <1>1. PICK n \in Nat : DOMAIN entries \subseteq 0 .. n
    BY DEF Rows
  <1>2. S \in SUBSET (0 .. n) /\ S # {}
    BY <1>1
  <1>3. Max(S) \in S /\ \A x \in S : x <= Max(S)
    <2> HIDE DEF S
    <2> QED BY <1>2, MaxOf
  <1>4. \E i \in DOMAIN entries :
          entries[i].key = k /\ \A l \in DOMAIN entries : entries[l].key = k => l <= i
    BY <1>3
  <1> HIDE DEF k
  <1>5. /\ LastOf(entries, k) \in DOMAIN entries /\ entries[LastOf(entries, k)].key = k
        /\ \A l \in DOMAIN entries : entries[l].key = k => l <= LastOf(entries, k)
    BY <1>4 DEF LastOf
  <1> QED BY <1>5 DEF k

LEMMA DedupIs ==
  ASSUME NEW entries, Rows(entries)
  PROVE  /\ Deduplicated(entries)
              = [k \in {entries[i].key : i \in DOMAIN entries} |-> entries[LastOf(entries, k)]]
         /\ Keyed(Deduplicated(entries))
         /\ \A k \in DOMAIN Deduplicated(entries) :
              \E i \in DOMAIN entries : Deduplicated(entries)[k] = entries[i]
  <1> DEFINE K == {entries[i].key : i \in DOMAIN entries}
             d == Deduplicated(entries)
  <1>1. d = [k \in K |-> entries[LastOf(entries, k)]]
    BY DEF Deduplicated, LastOf
  <1>2. \A k \in K : LastOf(entries, k) \in DOMAIN entries
                     /\ entries[LastOf(entries, k)].key = k
    BY LastIs
  <1>3. K \subseteq AllKeys
    BY DEF Rows
  <1>4. IsFiniteSet(K)
    <2>1. PICK n \in Nat : DOMAIN entries \subseteq 0 .. n
      BY DEF Rows
    <2>2. IsFiniteSet(DOMAIN entries)
      <3>1. IsFiniteSet(0 .. n) /\ DOMAIN entries \in SUBSET (0 .. n)
        BY <2>1, FS_Interval
      <3> QED BY <3>1, FS_Subset
    <2> DEFINE f == [i \in DOMAIN entries |-> entries[i].key]
    <2>4. f \in Surjection(DOMAIN entries, K)
      BY DEF Surjection
    <2> HIDE DEF K, f
    <2> QED BY <2>2, <2>4, FS_Surjection
  <1> HIDE DEF K
  <1>5. DOMAIN d = K /\ \A k \in K : d[k] = entries[LastOf(entries, k)]
    BY <1>1
  <1>6. d = [k \in K |-> d[k]]
    BY <1>1
  <1> HIDE DEF d
  <1>7. Keyed(d)
    BY <1>2, <1>3, <1>4, <1>5, <1>6 DEF Keyed
  <1> QED BY <1>1, <1>2, <1>5, <1>7 DEF K, d

\* Rows that already have one key each stay what they are.
LEMMA DedupOnce ==
  ASSUME NEW byKey, Keyed(byKey), Rows(byKey) PROVE Deduplicated(byKey) = byKey
  <1>1. byKey = [k \in DOMAIN byKey |-> byKey[k]] /\ \A k \in DOMAIN byKey : byKey[k].key = k
    BY DEF Keyed
  <1>2. {byKey[i].key : i \in DOMAIN byKey} = DOMAIN byKey
    BY <1>1
  <1>3. \A k \in DOMAIN byKey : LastOf(byKey, k) = k
    <2> TAKE k \in DOMAIN byKey
    <2>1. LastOf(byKey, k) \in DOMAIN byKey /\ byKey[LastOf(byKey, k)].key = k
      BY <1>1, LastIs
    <2> QED BY <1>1, <2>1
  <1>4. Deduplicated(byKey) = [k \in DOMAIN byKey |-> byKey[LastOf(byKey, k)]]
    BY <1>2, DedupIs
  <1> QED BY <1>1, <1>3, <1>4

\* Where keys lie.
LEMMA KeysAre ==
  /\ SiteKeys \subseteq AllKeys /\ AllKeys \subseteq Nat
  /\ \E n \in Nat : AllKeys \subseteq 0 .. n
  /\ \A e \in Entries : /\ e.key \in AllKeys
                        /\ e = [key |-> e.key, backend |-> e.backend, flag |-> e.flag]
  <1> DEFINE n == Sites * (1 + 2 * Ctxs)
  <1>1. Sites \in Nat \ {0} /\ n \in Nat
    BY RoutingShape
  <1>2. SiteKeys = 0 .. Sites - 1 /\ FineKeys = Sites .. n - 1
    BY DEF SiteKeys, FineKeys
  <1>3. AllKeys = SiteKeys \cup FineKeys
    BY DEF AllKeys
  <1> HIDE DEF n
  <1>4. SiteKeys \subseteq 0 .. Sites + n /\ FineKeys \subseteq 0 .. Sites + n /\ Sites + n \in Nat
    BY <1>1, <1>2
  <1>5. \A e \in Entries : /\ e.key \in AllKeys
                           /\ e = [key |-> e.key, backend |-> e.backend, flag |-> e.flag]
    <2> HIDE DEF n
    <2> QED BY <1>3 DEF Entries
  <1> QED BY <1>3, <1>4, <1>5

\* Entries in any order, and the table of entries they are made into.
LEMMA GivenRows ==
  ASSUME NEW l \in Nat, NEW q \in BoundedSeq(Entries, l)
  PROVE  /\ Rows(q) /\ Keyed(Deduplicated(q)) /\ Rows(Deduplicated(q))
         /\ \A k \in DOMAIN Deduplicated(q) : Deduplicated(q)[k] \in Entries
  <1>1. PICK m \in 0 .. l : q \in [1 .. m -> Entries]
    BY DEF BoundedSeq, SeqOf
  <1>2. DOMAIN q \subseteq 0 .. m /\ m \in Nat /\ \A i \in DOMAIN q : q[i] \in Entries
    BY <1>1
  <1>3. Rows(q)
    BY <1>2, KeysAre DEF Rows
  <1> DEFINE d == Deduplicated(q)
  <1>4. Keyed(d) /\ \A k \in DOMAIN d : d[k] \in Entries
    BY <1>2, <1>3, DedupIs
  <1> HIDE DEF d
  <1>5. \A k \in DOMAIN d : d[k].key = k /\ k \in AllKeys
    BY <1>4, KeysAre DEF Keyed
  <1>6. Rows(d)
    BY <1>5, KeysAre DEF Rows
  <1> QED BY <1>3, <1>4, <1>6 DEF d

\* The section of an exact table is its entries.
LEMMA SectionIs ==
  ASSUME NEW tab, NEW byKey, Keyed(byKey), Exact(tab, byKey)
  PROVE  Section(tab) = byKey
  <1>1. TableEntries(tab) = {byKey[k] : k \in DOMAIN byKey}
    BY DEF Exact
  <1>2. byKey = [k \in DOMAIN byKey |-> byKey[k]] /\ \A k \in DOMAIN byKey : byKey[k].key = k
    BY DEF Keyed
  <1>3. {e.key : e \in TableEntries(tab)} = DOMAIN byKey
    <2>1. \A e \in TableEntries(tab) : e.key \in DOMAIN byKey
      BY <1>1, <1>2
    <2>2. ASSUME NEW k \in DOMAIN byKey PROVE \E e \in TableEntries(tab) : e.key = k
      BY <1>1, <1>2
    <2> QED BY <2>1, <2>2
  <1>4. \A k \in DOMAIN byKey : (CHOOSE e \in TableEntries(tab) : e.key = k) = byKey[k]
    <2> TAKE k \in DOMAIN byKey
    <2>1. byKey[k] \in TableEntries(tab) /\ byKey[k].key = k
      BY <1>1, <1>2
    <2>2. \A e \in TableEntries(tab) : e.key = k => e = byKey[k]
      BY <1>1, <1>2
    <2> QED BY <2>1, <2>2
  <1>5. Section(tab) = [k \in DOMAIN byKey |-> byKey[k]]
    BY <1>3, <1>4 DEF Section
  <1> QED BY <1>2, <1>5

\* The mixing function of a behaviour is one and the same.
LEMMA LookupStays ==
  ASSUME mixer' = mixer, NEW tab, NEW k PROVE Lookup(tab, k)' = Lookup(tab, k)
  BY DEF Lookup, Bucket, Slot, Mix, Fastrange, SeedOf

LEMMA ExactStays ==
  ASSUME mixer' = mixer, NEW tab, NEW byKey, Exact(tab, byKey) PROVE Exact(tab, byKey)'
  <1>1. \A k \in AllKeys : Lookup(tab, k)' = Lookup(tab, k)
    BY LookupStays
  <1> QED BY <1>1 DEF Exact

\* deserialize's checks.
Accepted(f) ==
  /\ f.magic /\ f.version = 4 /\ f.complete
  /\ BackendsKnown(f.main) /\ BackendsKnown(f.distilled)
  /\ FlagsKnown(f.main) /\ FlagsKnown(f.distilled)
  /\ f.checksum = Checksum(f.main, f.distilled)

Exported(m) == {<<e.key, e.backend>> : e \in TableEntries(m.main)}

\* A table that is built has the entries it was given.
Sourced(tab, entries) == Built(tab) => Exact(tab, Deduplicated(entries))

RowsGiven ==
  rows.main \in BoundedSeq(Entries, MaxEntries) /\ rows.distilled \in BoundedSeq(Entries, 1)
ModelExact == model # Miss => /\ Sourced(model.main, rows.main)
                              /\ Sourced(model.distilled, rows.distilled)
\* A file that is accepted has the sections of the model.
ImageExact ==
  image # Miss =>
    /\ model # Miss /\ Built(model.main) /\ Built(model.distilled)
    /\ damage = "none" => image = Serialized(model)
    /\ Accepted(image) => /\ image.main = Section(model.main)
                          /\ image.distilled = Section(model.distilled)
                          /\ DecodeRoutingEntries(image) = Exported(model)
    /\ DecodeRoutingEntries(image) \in {{}, Exported(model)}
LoadExact ==
  loaded # Miss => /\ image # Miss /\ Accepted(image)
                   /\ Sourced(loaded.main, image.main)
                   /\ Sourced(loaded.distilled, image.distilled)

RoutingInv == Mixing /\ RowsGiven /\ ModelExact /\ ImageExact /\ LoadExact

LEMMA RoutingStarts == FrInit => RoutingInv
  <1> SUFFICES ASSUME FrInit PROVE RoutingInv
    OBVIOUS
  <1>1. Mixing
    BY RoutingShape DEF FrInit, Mixing
  <1>2. RowsGiven
    <2> DEFINE E == [key: SiteKeys, backend: Verdicts, flag: {"none"}]
    <2>1. E \subseteq Entries
      BY DEF Entries
    <2>2. rows \in [main: BoundedSeq(Entries, MaxEntries), distilled: BoundedSeq(E, 1)]
      BY DEF FrInit
    <2> HIDE DEF E
    <2>3. BoundedSeq(E, 1) \subseteq BoundedSeq(Entries, 1)
      BY <2>1 DEF BoundedSeq, SeqOf
    <2> QED BY <2>2, <2>3 DEF RowsGiven
  <1> QED BY <1>1, <1>2 DEF FrInit, RoutingInv, ModelExact, ImageExact, LoadExact

\* What is built of rows.
LEMMA TableSourced ==
  ASSUME Mixing, NEW entries, Rows(entries) PROVE Sourced(FromEntries(entries), entries)
  <1>1. Keyed(Deduplicated(entries))
    BY DedupIs
  <1> QED BY <1>1, HashIn, BuildExact DEF Sourced, FromEntries

LEMMA SourcedStays ==
  ASSUME mixer' = mixer, NEW tab, NEW entries, Sourced(tab, entries)
  PROVE  Sourced(tab, entries)'
  BY ExactStays DEF Sourced, Built

LEMMA FreezesExact == ASSUME RoutingInv, FreezeModel PROVE RoutingInv'
  <1>1. /\ mixer' = mixer /\ rows' = rows /\ image' = image /\ damage' = damage
        /\ loaded' = loaded /\ image = Miss /\ loaded = Miss
        /\ model' = NewRouting(rows.main, rows.distilled)
    BY DEF FreezeModel, RoutingInv, ImageExact, LoadExact
  <1>2. Rows(rows.main) /\ Rows(rows.distilled)
    BY GivenRows, RoutingShape DEF RoutingInv, RowsGiven
  <1>3. /\ model'.main = FromEntries(rows.main)
        /\ model'.distilled = FromEntries(rows.distilled)
    BY <1>1 DEF NewRouting
  <1>4. /\ Sourced(FromEntries(rows.main), rows.main)
        /\ Sourced(FromEntries(rows.distilled), rows.distilled)
    BY <1>2, TableSourced DEF RoutingInv
  <1>5. ModelExact'
    <2> DEFINE a == FromEntries(rows.main)
               b == FromEntries(rows.distilled)
    <2>1. PICK s, t, p, q : s = a /\ t = b /\ p = rows.main /\ q = rows.distilled
      OBVIOUS
    <2>2. Sourced(s, p) /\ Sourced(t, q)
      BY <1>4, <2>1
    <2>3. Sourced(s, p)' /\ Sourced(t, q)'
      BY <1>1, <2>2, SourcedStays
    <2>4. model'.main = s /\ model'.distilled = t /\ rows'.main = p /\ rows'.distilled = q
      BY <1>1, <1>3, <2>1
    <2> HIDE DEF a, b
    <2> QED BY <2>3, <2>4 DEF ModelExact
  <1>6. ImageExact' /\ LoadExact'
    BY <1>1 DEF ImageExact, LoadExact
  <1> QED BY <1>1, <1>5, <1>6 DEF RoutingInv, Mixing, RowsGiven

\* What a reader sees of a section.
Shown(section) == {<<section[i].key, section[i].backend>> : i \in DOMAIN section}

\* The model that is in force, entry by entry.
LEMMA ModelSections ==
  ASSUME RoutingInv, model # Miss, Built(model.main), Built(model.distilled)
  PROVE  /\ Section(model.main) = Deduplicated(rows.main)
         /\ Section(model.distilled) = Deduplicated(rows.distilled)
         /\ Shown(Section(model.main)) = Exported(model)
  <1> DEFINE d == Deduplicated(rows.main)
  <1>1. Keyed(d) /\ Keyed(Deduplicated(rows.distilled))
    BY GivenRows, RoutingShape DEF RoutingInv, RowsGiven
  <1>2. Exact(model.main, d) /\ Exact(model.distilled, Deduplicated(rows.distilled))
    BY DEF RoutingInv, ModelExact, Sourced
  <1> HIDE DEF d
  <1>3. Section(model.main) = d /\ Section(model.distilled) = Deduplicated(rows.distilled)
    BY <1>1, <1>2, SectionIs
  <1>4. TableEntries(model.main) = {d[k] : k \in DOMAIN d}
    BY <1>2 DEF Exact
  <1>5. Shown(d) = Exported(model)
    BY <1>4 DEF Shown, Exported
  <1> QED BY <1>3, <1>5 DEF d

\* A file is read as the rows it shows, or not at all.
LEMMA DecodeIs ==
  ASSUME NEW f
  PROVE  /\ DecodeRoutingEntries(f) \in {{}, Shown(f.main)}
         /\ Accepted(f) => DecodeRoutingEntries(f) = Shown(f.main)
  BY DEF DecodeRoutingEntries, Accepted, Shown

LEMMA ExportsExact == ASSUME RoutingInv, ExportModel PROVE RoutingInv'
  <1>1. /\ mixer' = mixer /\ rows' = rows /\ model' = model /\ damage' = damage
        /\ loaded' = loaded /\ image = Miss /\ loaded = Miss /\ model # Miss
        /\ Built(model.main) /\ Built(model.distilled)
        /\ image' = Serialized(model)
    BY DEF ExportModel, RoutingInv, LoadExact
  <1>2. image'.main = Section(model.main) /\ image'.distilled = Section(model.distilled)
    BY <1>1 DEF Serialized
  <1>3. Shown(Section(model.main)) = Exported(model)
    BY <1>1, ModelSections
  <1>4. PICK f : f = image'
    OBVIOUS
  <1>5. /\ DecodeRoutingEntries(f) \in {{}, Exported(model)}
        /\ Accepted(f) => DecodeRoutingEntries(f) = Exported(model)
    BY <1>2, <1>3, <1>4, DecodeIs
  <1>6. ImageExact'
    BY <1>1, <1>2, <1>4, <1>5
    DEF ImageExact, Serialized, Built, Exported, DecodeRoutingEntries, Accepted
  <1>7. ModelExact'
    BY <1>1, SourcedStays DEF RoutingInv, ModelExact
  <1> QED BY <1>1, <1>6, <1>7 DEF RoutingInv, Mixing, RowsGiven, LoadExact

\* A key that changes changes the checksum.
LEMMA ChecksumTells ==
  ASSUME NEW s, NEW t, NEW u, IsFiniteSet(DOMAIN s), DOMAIN t = DOMAIN s,
         IsFiniteSet(DOMAIN u), \A i \in DOMAIN u : u[i].key \in Nat,
         NEW i \in DOMAIN s, \A j \in DOMAIN s : s[j].key \in Nat /\ t[j].key \in Nat,
         t[i].key # s[i].key, \A j \in DOMAIN s : j # i => t[j].key = s[j].key
  PROVE  Checksum(t, u) # Checksum(s, u)
  <1> DEFINE S == DOMAIN s
             f == KeysOf(s)
             g == KeysOf(t)
             h == KeysOf(u)
  <1>1. /\ \A j \in S : f[j] = s[j].key /\ g[j] = t[j].key
        /\ \A j \in DOMAIN u : h[j] = u[j].key
    BY DEF KeysOf
  <1>2. Checksum(s, u) = Sum(f, S) + Sum(h, DOMAIN u)
    BY DEF Checksum, Sum
  <1>3. Checksum(t, u) = Sum(g, S) + Sum(h, DOMAIN u)
    BY DEF Checksum, Sum
  <1> DEFINE k == t[i].key - s[i].key
  <1>4. k \in Int /\ k # 0
    OBVIOUS
  <1> HIDE DEF f, g, h
  <1>5. \A y \in S : f[y] \in Int /\ g[y] = IF y = i THEN f[y] + k ELSE f[y]
    BY <1>1
  <1> HIDE DEF k
  <1>6. Sum(g, S) = Sum(f, S) + k
    BY <1>4, <1>5, SumBump
  <1>7. Sum(f, S) \in Int /\ Sum(h, DOMAIN u) \in Int
    BY <1>1, <1>5, SumRemove
  <1> QED BY <1>2, <1>3, <1>4, <1>6, <1>7

\* One place of a row is changed.
WithRow(f, i, field, v) == [f EXCEPT !.main[i][field] = v]

LEMMA RowChanged ==
  ASSUME NEW m, NEW s, NEW t, NEW c, NEW f,
         f = [magic |-> TRUE, version |-> 4, complete |-> TRUE, main |-> s, distilled |-> t,
              checksum |-> c],
         s = [k \in DOMAIN s |-> s[k]],
         NEW i \in DOMAIN s, NEW v, NEW field \in {"key", "backend", "flag"},
         s[i] = [key |-> s[i].key, backend |-> s[i].backend, flag |-> s[i].flag],
         NEW g, g = WithRow(f, i, field, v)
  PROVE  /\ DOMAIN g.main = DOMAIN s /\ g.distilled = t /\ g.checksum = c
         /\ \A j \in DOMAIN s : j # i => g.main[j] = s[j]
         /\ g.main[i].key = IF field = "key" THEN v ELSE s[i].key
         /\ g.main[i].backend = IF field = "backend" THEN v ELSE s[i].backend
         /\ g.main[i].flag = IF field = "flag" THEN v ELSE s[i].flag
  <1> DEFINE row == [s[i] EXCEPT ![field] = v]
  <1>1. g = [f EXCEPT !.main = [s EXCEPT ![i] = row]]
    BY DEF WithRow
  <1>2. /\ row.key = IF field = "key" THEN v ELSE s[i].key
        /\ row.backend = IF field = "backend" THEN v ELSE s[i].backend
        /\ row.flag = IF field = "flag" THEN v ELSE s[i].flag
    OBVIOUS
  <1> HIDE DEF row
  <1>3. g.main = [s EXCEPT ![i] = row] /\ g.distilled = t /\ g.checksum = c
    BY <1>1
  <1> QED BY <1>2, <1>3

\* The file of two sections, and one with a bad place.
FileOf(s, t) == [magic |-> TRUE, version |-> 4, complete |-> TRUE, main |-> s,
                 distilled |-> t, checksum |-> Checksum(s, t)]
Damaged(s, t, field, g) ==
  \/ /\ field \in {"key", "backend", "flag"}
     /\ \E i \in DOMAIN s :
          \E v \in IF field = "key" THEN AllKeys \ {s[i].key} ELSE {Miss} :
            g = WithRow(FileOf(s, t), i, field, v)
  \/ /\ field \in {"magic", "version", "complete"}
     /\ \E v \in IF field = "version" THEN {2, 3} ELSE {FALSE} :
          g = [FileOf(s, t) EXCEPT ![field] = v]

\* What a bad place leaves of the file: it is rejected, or it reads as it was.
LEMMA DamageTells ==
  ASSUME NEW s, NEW t, Keyed(s), Keyed(t), \A k \in DOMAIN s : s[k] \in Entries,
         NEW field, NEW g, Damaged(s, t, field, g)
  PROVE  ~Accepted(g) /\ DecodeRoutingEntries(g) \in {{}, Shown(s)}
  <1> DEFINE f == FileOf(s, t)
  <1>f. f = [magic |-> TRUE, version |-> 4, complete |-> TRUE, main |-> s,
             distilled |-> t, checksum |-> Checksum(s, t)]
    BY DEF FileOf
  <1>d. Damaged(s, t, field, g)
    OBVIOUS
  <1> HIDE DEF f
  <1>k. /\ IsFiniteSet(DOMAIN s) /\ s = [k \in DOMAIN s |-> s[k]]
        /\ IsFiniteSet(DOMAIN t)
        /\ \A k \in DOMAIN s : s[k].key = k /\ k \in Nat
        /\ \A k \in DOMAIN t : t[k].key \in Nat
    BY KeysAre DEF Keyed
  <1>1. CASE field = "magic"
    <2>1. g = [f EXCEPT !.magic = FALSE]
      BY <1>1, <1>d DEF Damaged, f
    <2>2. g.magic = FALSE
      BY <1>f, <2>1
    <2> QED BY <2>2 DEF Accepted, DecodeRoutingEntries
  <1>2. CASE field = "complete"
    <2>1. g = [f EXCEPT !.complete = FALSE]
      BY <1>2, <1>d DEF Damaged, f
    <2>2. g.complete = FALSE
      BY <1>f, <2>1
    <2> QED BY <2>2 DEF Accepted, DecodeRoutingEntries
  <1>3. CASE field = "version"
    <2>1. PICK v \in {2, 3} : g = [f EXCEPT !.version = v]
      BY <1>3, <1>d DEF Damaged, f
    <2>2. g.version = v /\ g.main = s
      BY <1>f, <2>1
    <2>3. g.version # 4
      BY <2>2
    <2> QED BY <2>2, <2>3, DecodeIs DEF Accepted
  <1>4. ASSUME field \in {"key", "backend", "flag"}
        PROVE  ~Accepted(g) /\ DecodeRoutingEntries(g) \in {{}, Shown(s)}
    <2>1. PICK i \in DOMAIN s :
            \E v \in IF field = "key" THEN AllKeys \ {s[i].key} ELSE {Miss} :
              g = WithRow(f, i, field, v)
      BY <1>4, <1>d DEF Damaged, f
    <2>2. PICK v \in IF field = "key" THEN AllKeys \ {s[i].key} ELSE {Miss} :
            g = WithRow(f, i, field, v)
      BY <2>1
    <2>3. s[i] = [key |-> s[i].key, backend |-> s[i].backend, flag |-> s[i].flag]
      BY KeysAre
    <2>4. /\ DOMAIN g.main = DOMAIN s /\ g.distilled = t /\ g.checksum = Checksum(s, t)
          /\ \A j \in DOMAIN s : j # i => g.main[j] = s[j]
          /\ g.main[i].key = IF field = "key" THEN v ELSE s[i].key
          /\ g.main[i].backend = IF field = "backend" THEN v ELSE s[i].backend
          /\ g.main[i].flag = IF field = "flag" THEN v ELSE s[i].flag
      BY <1>4, <1>f, <1>k, <2>2, <2>3, RowChanged
    <2>5. CASE field = "key"
      <3>1. v # s[i].key /\ v \in Nat /\ g.main[i].key = v
        BY <2>2, <2>4, <2>5, KeysAre
      <3>2. \A j \in DOMAIN s : s[j].key \in Nat /\ g.main[j].key \in Nat
        BY <1>k, <2>4, <3>1
      <3>3. \A j \in DOMAIN s : j # i => g.main[j].key = s[j].key
        BY <2>4
      <3>4. Checksum(g.main, t) # Checksum(s, t)
        BY <1>k, <2>4, <3>1, <3>2, <3>3, ChecksumTells
      <3> QED BY <2>4, <3>4 DEF Accepted, DecodeRoutingEntries
    <2>6. CASE field = "backend"
      <3>1. ~BackendsKnown(g.main)
        BY <2>2, <2>4, <2>6 DEF BackendsKnown
      <3> QED BY <3>1 DEF Accepted, DecodeRoutingEntries
    <2>7. CASE field = "flag"
      <3>1. ~FlagsKnown(g.main)
        BY <2>2, <2>4, <2>7 DEF FlagsKnown
      <3>2. \A j \in DOMAIN s : g.main[j].key = s[j].key /\ g.main[j].backend = s[j].backend
        BY <2>4, <2>7
      <3>3. Shown(g.main) = Shown(s)
        BY <2>4, <3>2 DEF Shown
      <3> QED BY <3>1, <3>3, DecodeIs DEF Accepted
    <2> QED BY <1>4, <2>5, <2>6, <2>7
  <1> QED BY <1>d, <1>1, <1>2, <1>3, <1>4 DEF Damaged

LEMMA DamagesExact == ASSUME RoutingInv, DamageFile PROVE RoutingInv'
  <1> DEFINE s == Deduplicated(rows.main)
             t == Deduplicated(rows.distilled)
  <1>1. /\ mixer' = mixer /\ rows' = rows /\ model' = model /\ loaded' = loaded
        /\ loaded = Miss /\ image # Miss /\ damage = "none"
        /\ damage' \in {"magic", "version", "complete", "key", "backend", "flag"}
    BY DEF DamageFile
  <1>2. /\ model # Miss /\ Built(model.main) /\ Built(model.distilled)
        /\ image = Serialized(model)
    BY <1>1 DEF RoutingInv, ImageExact
  <1>3. /\ Section(model.main) = s /\ Section(model.distilled) = t
        /\ Shown(s) = Exported(model)
    BY <1>2, ModelSections
  <1>4. Keyed(s) /\ Keyed(t) /\ \A k \in DOMAIN s : s[k] \in Entries
    BY GivenRows, RoutingShape DEF RoutingInv, RowsGiven
  <1> HIDE DEF s, t
  <1>5. image = FileOf(s, t)
    BY <1>2, <1>3 DEF Serialized, FileOf
  <1>6. image.main = s
    BY <1>5 DEF FileOf
  <1>7. PICK g, d : g = image' /\ d = damage'
    OBVIOUS
  <1>8. Damaged(s, t, d, g)
    <2> DEFINE f == FileOf(s, t)
    <2>1. CASE d \in {"key", "backend", "flag"}
      <3>1. PICK i \in DOMAIN s :
              \E v \in IF d = "key" THEN AllKeys \ {s[i].key} ELSE {Miss} :
                image' = [image EXCEPT !.main[i][d] = v]
        BY <1>6, <1>7, <2>1 DEF DamageFile
      <3>2. PICK v \in IF d = "key" THEN AllKeys \ {s[i].key} ELSE {Miss} :
              image' = [image EXCEPT !.main[i][d] = v]
        BY <3>1
      <3> HIDE DEF f
      <3>3. g = WithRow(f, i, d, v)
        BY <1>5, <1>7, <3>2 DEF WithRow, f
      <3> QED BY <2>1, <3>2, <3>3 DEF Damaged, f
    <2>2. CASE d \in {"magic", "version", "complete"}
      <3>1. PICK v \in IF d = "version" THEN {2, 3} ELSE {FALSE} :
              image' = [image EXCEPT ![d] = v]
        BY <1>7, <2>2 DEF DamageFile
      <3> QED BY <1>5, <1>7, <2>2, <3>1 DEF Damaged
    <2> QED BY <1>1, <1>7, <2>1, <2>2
  <1>9. ~Accepted(g) /\ DecodeRoutingEntries(g) \in {{}, Shown(s)}
    BY <1>4, <1>8, DamageTells
  <1>10. ImageExact'
    BY <1>1, <1>2, <1>3, <1>7, <1>9
    DEF ImageExact, Built, Exported, DecodeRoutingEntries, Accepted
  <1>11. ModelExact'
    BY <1>1, SourcedStays DEF RoutingInv, ModelExact
  <1> QED BY <1>1, <1>10, <1>11 DEF RoutingInv, Mixing, RowsGiven, LoadExact

LEMMA LoadsExact == ASSUME RoutingInv, LoadFile PROVE RoutingInv'
  <1> DEFINE s == Deduplicated(rows.main)
             t == Deduplicated(rows.distilled)
  <1>1. /\ mixer' = mixer /\ rows' = rows /\ model' = model /\ image' = image
        /\ damage' = damage /\ image # Miss /\ loaded' = Deserialize(image)
    BY DEF LoadFile
  <1>2. ModelExact'
    BY <1>1, SourcedStays DEF RoutingInv, ModelExact
  <1>3. ImageExact'
    BY <1>1 DEF RoutingInv, ImageExact, Built, Exported, DecodeRoutingEntries, Accepted
  <1>4. ASSUME loaded' # Miss PROVE LoadExact'
    <2>1. Accepted(image) /\ loaded' = NewRouting(image.main, image.distilled)
      BY <1>1, <1>4 DEF Deserialize, Accepted
    <2>2. /\ image.main = Section(model.main) /\ image.distilled = Section(model.distilled)
          /\ model # Miss /\ Built(model.main) /\ Built(model.distilled)
      BY <1>1, <2>1 DEF RoutingInv, ImageExact
    <2>3. image.main = s /\ image.distilled = t
      BY <2>2, ModelSections
    <2>4. Rows(s) /\ Rows(t)
      BY GivenRows, RoutingShape DEF RoutingInv, RowsGiven
    <2> HIDE DEF s, t
    <2> DEFINE a == FromEntries(s)
               b == FromEntries(t)
    <2>5. loaded'.main = a /\ loaded'.distilled = b
      BY <2>1, <2>3 DEF NewRouting
    <2>6. Sourced(a, s) /\ Sourced(b, t)
      BY <2>4, TableSourced DEF RoutingInv
    <2> HIDE DEF a, b
    <2>7. PICK p, q, x, y : p = a /\ q = b /\ x = s /\ y = t
      OBVIOUS
    <2>8. Sourced(p, x)' /\ Sourced(q, y)'
      BY <1>1, <2>6, <2>7, SourcedStays
    <2>9. /\ loaded'.main = p /\ loaded'.distilled = q
          /\ image'.main = x /\ image'.distilled = y
      BY <1>1, <2>3, <2>5, <2>7
    <2>10. PICK f : f = image
      OBVIOUS
    <2>11. Accepted(f)' /\ image' = f
      BY <1>1, <2>1, <2>10 DEF Accepted
    <2> QED BY <1>1, <2>8, <2>9, <2>11 DEF LoadExact
  <1>5. LoadExact'
    BY <1>4 DEF LoadExact
  <1> QED BY <1>1, <1>2, <1>3, <1>5 DEF RoutingInv, Mixing, RowsGiven

LEMMA RoutingStays == ASSUME RoutingInv, UNCHANGED frVars PROVE RoutingInv'
  <1>1. /\ mixer' = mixer /\ rows' = rows /\ model' = model /\ image' = image
        /\ damage' = damage /\ loaded' = loaded
    BY DEF frVars
  <1>2. ModelExact'
    BY <1>1, SourcedStays DEF RoutingInv, ModelExact
  <1>3. ImageExact'
    BY <1>1 DEF RoutingInv, ImageExact, Built, Exported, DecodeRoutingEntries, Accepted
  <1>4. LoadExact'
    <2>1. Accepted(image) => Accepted(image)'
      BY <1>1 DEF Accepted
    <2> QED BY <1>1, <2>1, SourcedStays DEF RoutingInv, LoadExact
  <1> QED BY <1>1, <1>2, <1>3, <1>4 DEF RoutingInv, Mixing, RowsGiven

\* perfect_hash.rs: the table that is built, the one that is rebuilt from its file and
\* what the file is read as are the last entries of the rows that were given.
THEOREM RoutingInductive == FrSpec => []RoutingInv
  <1>1. ASSUME RoutingInv, [FrNext]_frVars PROVE RoutingInv'
    <2>1. CASE FreezeModel
      BY <1>1, <2>1, FreezesExact
    <2>2. CASE ExportModel
      BY <1>1, <2>2, ExportsExact
    <2>3. CASE DamageFile
      BY <1>1, <2>3, DamagesExact
    <2>4. CASE LoadFile
      BY <1>1, <2>4, LoadsExact
    <2>5. CASE UNCHANGED frVars
      BY <1>1, <2>5, RoutingStays
    <2> QED BY <1>1, <2>1, <2>2, <2>3, <2>4, <2>5 DEF FrNext
  <1> QED BY <1>1, RoutingStarts, PTL DEF FrSpec

\* The shortcut of a class is what the whole lookup finds.
LEMMA ShortcutIs ==
  ASSUME NEW main, NEW distilled, NEW mainBy, NEW distilledBy,
         Exact(main, mainBy), Exact(distilled, distilledBy),
         Keyed(mainBy), Keyed(distilledBy), NEW k \in SiteKeys, NEW cs,
         ScVerdict(main, distilled, ClassOf[k]) # Miss
  PROVE  LET class == ClassOf[k]
             full  == RouteMain(main, k, cs)
             pin   == Lookup(distilled, k)
         IN  /\ ScVerdict(main, distilled, class) =
                  IF full = Miss THEN DefaultOf[class] ELSE full
             /\ pin # Miss => pin.backend = DefaultOf[class]
  <1> DEFINE class == ClassOf[k]
             met  == {e \in TableEntries(main) \cup TableEntries(distilled) :
                         ClassOfKey(e.key) = class}
             said  == {e.backend : e \in met}
  <1>1. /\ ScVerdict(main, distilled, class) = DefaultOf[class]
        /\ said = {DefaultOf[class]}
        /\ \A e \in met : e.flag = "none"
    BY DEF ScVerdict
  <1>2. \A e \in met : e.flag = "none" /\ e.backend = DefaultOf[class]
    BY <1>1
  <1>3. k \in AllKeys /\ k % Sites = k
    BY RoutingShape, KeysAre DEF SiteKeys
  <1>4. \A e : e.key = k => ClassOfKey(e.key) = class
    BY <1>3 DEF ClassOfKey
  <1>5. k \in DOMAIN mainBy => /\ Lookup(main, k) = mainBy[k] /\ mainBy[k] \in met
    BY <1>3, <1>4 DEF Exact, Keyed
  <1>6. k \notin DOMAIN mainBy => Lookup(main, k) = Miss
    BY <1>3 DEF Exact
  <1>7. k \in DOMAIN distilledBy =>
          /\ Lookup(distilled, k) = distilledBy[k] /\ distilledBy[k] \in met
    BY <1>3, <1>4 DEF Exact, Keyed
  <1>8. k \notin DOMAIN distilledBy => Lookup(distilled, k) = Miss
    BY <1>3 DEF Exact
  <1> HIDE DEF met, said, class
  <1>9. RouteMain(main, k, cs) \in {Miss, DefaultOf[class]}
    BY <1>2, <1>5, <1>6 DEF RouteMain
  <1> QED BY <1>1, <1>2, <1>7, <1>8, <1>9 DEF class

\* RoutesAsBuilt: the hash is an exact table of what it was built of, for every mixing
\* function, every number of sites and whatever attempts and displacements it took; its
\* shortcut agrees with it, and its file loads as the same table or not at all.
THEOREM RoutesAlways == FrSpec => []RoutesAsBuilt
  <1>1. ASSUME RoutingInv PROVE RoutesAsBuilt
    <2> DEFINE s == Deduplicated(rows.main)
               t == Deduplicated(rows.distilled)
    <2>1. Keyed(s) /\ Keyed(t) /\ Rows(s) /\ Rows(t)
      BY <1>1, GivenRows, RoutingShape DEF RoutingInv, RowsGiven
    <2>2. model # Miss => /\ Built(model.main) => Exact(model.main, s)
                          /\ Built(model.distilled) => Exact(model.distilled, t)
      BY <1>1 DEF RoutingInv, ModelExact, Sourced
    <2>3. LookupExact
      BY <2>2, KeysAre DEF LookupExact, Intended, Exact
    <2> HIDE DEF s, t
    <2>4. ShortcutAgrees
      BY <2>1, <2>2, ShortcutIs DEF ShortcutAgrees
    <2>5. LoadsWholeOrNot
      <3> SUFFICES ASSUME loaded # Miss, Built(loaded.main), Built(loaded.distilled)
                   PROVE  \A k \in AllKeys :
                            /\ Lookup(loaded.main, k) = Lookup(model.main, k)
                            /\ Lookup(loaded.distilled, k) = Lookup(model.distilled, k)
        BY DEF LoadsWholeOrNot
      <3>1. /\ image # Miss /\ Accepted(image)
            /\ Exact(loaded.main, Deduplicated(image.main))
            /\ Exact(loaded.distilled, Deduplicated(image.distilled))
        BY <1>1 DEF RoutingInv, LoadExact, Sourced
      <3>2. /\ model # Miss /\ Built(model.main) /\ Built(model.distilled)
            /\ image.main = Section(model.main) /\ image.distilled = Section(model.distilled)
        BY <1>1, <3>1 DEF RoutingInv, ImageExact
      <3>3. image.main = s /\ image.distilled = t
        BY <1>1, <3>2, ModelSections DEF s, t
      <3>4. Exact(loaded.main, s) /\ Exact(loaded.distilled, t)
        BY <2>1, <3>1, <3>3, DedupOnce
      <3> QED BY <2>2, <3>2, <3>4, KeysAre DEF Exact
    <2>6. DecodersAgree
      BY <1>1 DEF RoutingInv, ImageExact, LoadExact, DecodersAgree, Exported
    <2> QED BY <2>3, <2>4, <2>5, <2>6 DEF RoutesAsBuilt
  <1> QED BY <1>1, RoutingInductive, PTL

-----------------------------------------------------------------------------
(***************************************************************************)
(* TuneConfig.  Proofs about TuneConfig, for any texts and variables, any  *)
(* threads, switches and numbers of stripes: the configuration in force is *)
(* the one the layers spell, and what a thread was told of a switch is     *)
(* what all are told.                                                      *)
(*                                                                         *)
(* A layer is a recursion over its pairs; the table of its stages is what  *)
(* Layered gives in closed form, pair by pair (LayerIs), so each field has *)
(* the last good value, and the focus under it.  The invariant says that   *)
(* what is in force is built from the texts or the defaults, that a latch  *)
(* once set is what the environment says, and that each answer is the one  *)
(* of a set latch.                                                         *)
(***************************************************************************)

\* What a layer has made of a field after i of its pairs.
GoodUpTo(pairs, k, i) == {j \in 1 .. i : pairs[j][1] = k /\ Accepts(k, pairs[j][2])}
Layered(base, pairs, i) ==
  [k \in Fields |-> IF GoodUpTo(pairs, k, i) = {} THEN base[k]
                    ELSE pairs[Max(GoodUpTo(pairs, k, i))][2]]

LEMMA LayeredFirst ==
  ASSUME NEW base, base = [k \in Fields |-> base[k]], NEW pairs
  PROVE  Layered(base, pairs, 0) = base
  <1>1. \A k : GoodUpTo(pairs, k, 0) = {}
    BY DEF GoodUpTo
  <1> QED BY <1>1 DEF Layered

\* One pair more.
LEMMA LayeredNext ==
  ASSUME NEW base, NEW pairs, NEW i \in Nat
  PROVE  Layered(base, pairs, i + 1) = ApplyKey(Layered(base, pairs, i), pairs[i + 1])
  <1> DEFINE cfg == Layered(base, pairs, i)
             key == pairs[i + 1][1]
             v   == pairs[i + 1][2]
             new == Layered(base, pairs, i + 1)
  <1>1. \A k : GoodUpTo(pairs, k, i + 1) = IF key = k /\ Accepts(k, v)
                                           THEN GoodUpTo(pairs, k, i) \cup {i + 1}
                                           ELSE GoodUpTo(pairs, k, i)
    <2> TAKE k
    <2>1. \A j : j \in 1 .. i + 1 <=> j \in 1 .. i \/ j = i + 1
      OBVIOUS
    <2> QED BY <2>1 DEF GoodUpTo
  <1>2. Accepts(key, v) => key \in Fields
    BY DEF Accepts, Fields
  <1>3. Accepts(key, v) => Max(GoodUpTo(pairs, key, i + 1)) = i + 1
    <2> SUFFICES ASSUME Accepts(key, v) PROVE Max(GoodUpTo(pairs, key, i + 1)) = i + 1
      OBVIOUS
    <2> DEFINE S == GoodUpTo(pairs, key, i + 1)
    <2>1. S \in SUBSET (0 .. i + 1) /\ i + 1 \in S /\ i + 1 \in Nat
      BY <1>1 DEF GoodUpTo
    <2> HIDE DEF S
    <2>2. Max(S) \in S /\ \A x \in S : x <= Max(S)
      BY <2>1, MaxOf
    <2>3. PICK x \in 0 .. i + 1 : x = Max(S)
      BY <2>1, <2>2
    <2>4. i + 1 <= x
      BY <2>1, <2>2, <2>3
    <2>5. Max(S) = i + 1
      BY <2>3, <2>4
    <2> QED BY <2>5 DEF S
  <1>4. /\ cfg = [k \in Fields |-> cfg[k]] /\ new = [k \in Fields |-> new[k]]
        /\ \A k \in Fields : cfg[k] = IF GoodUpTo(pairs, k, i) = {} THEN base[k]
                                      ELSE pairs[Max(GoodUpTo(pairs, k, i))][2]
        /\ \A k \in Fields : new[k] = IF GoodUpTo(pairs, k, i + 1) = {} THEN base[k]
                                      ELSE pairs[Max(GoodUpTo(pairs, k, i + 1))][2]
    BY DEF Layered
  <1>5. ApplyKey(cfg, pairs[i + 1]) = IF Accepts(key, v) THEN [cfg EXCEPT ![key] = v] ELSE cfg
    BY DEF ApplyKey
  <1> HIDE DEF cfg, new, key, v
  <1>6. CASE Accepts(key, v)
    <2>1. new[key] = v
      <3>1. GoodUpTo(pairs, key, i + 1) # {}
        BY <1>1, <1>6
      <3> QED BY <1>2, <1>3, <1>4, <1>6, <3>1 DEF v
    <2>2. \A k \in Fields : k # key => new[k] = cfg[k]
      BY <1>1, <1>4
    <2>3. [cfg EXCEPT ![key] = v] = [k \in Fields |-> IF k = key THEN v ELSE cfg[k]]
      BY <1>4
    <2>4. \A k \in Fields : new[k] = IF k = key THEN v ELSE cfg[k]
      BY <2>1, <2>2
    <2>5. new = [k \in Fields |-> IF k = key THEN v ELSE cfg[k]]
      BY <1>4, <2>4
    <2> QED BY <1>5, <1>6, <2>3, <2>5 DEF new, cfg
  <1>7. CASE ~Accepts(key, v)
    <2>1. \A k \in Fields : GoodUpTo(pairs, k, i + 1) = GoodUpTo(pairs, k, i)
      BY <1>1, <1>7
    <2>2. \A k \in Fields : new[k] = cfg[k]
      BY <1>4, <2>1
    <2>3. new = cfg
      BY <1>4, <2>2
    <2> QED BY <1>5, <1>7, <2>3 DEF new, cfg
  <1> QED BY <1>6, <1>7

\* A layer says of every field what it says.
LEMMA LayerIs ==
  ASSUME NEW cfg, cfg = [k \in Fields |-> cfg[k]], NEW pairs, NEW n \in Nat,
         Len(pairs) = n, DOMAIN pairs = 1 .. n
  PROVE  ApplyLayer(cfg, pairs) = [k \in Fields |-> Says(pairs, k, cfg[k])]
  <1> DEFINE base == ApplyFocus(cfg, FirstFocus(pairs))
             w    == FirstFocus(pairs).word
             f    == CHOOSE f : f = [i \in 0 .. n |->
                       IF i = 0 THEN base ELSE ApplyKey(f[i - 1], pairs[i])]
             g    == [i \in 0 .. n |-> Layered(base, pairs, i)]
  <1>1. base = [k \in Fields |-> base[k]]
    BY DEF ApplyFocus
  <1>2. \A k \in Fields : base[k] =
          IF w \in DOMAIN Presets /\ k \in DOMAIN Presets[w] THEN Presets[w][k] ELSE cfg[k]
    BY DEF ApplyFocus
  <1>3. ApplyLayer(cfg, pairs) = f[n]
    BY DEF ApplyLayer
  <1> HIDE DEF base
  <1>4. g = [i \in 0 .. n |-> IF i = 0 THEN base ELSE ApplyKey(g[i - 1], pairs[i])]
    <2>1. ASSUME NEW i \in 0 .. n
          PROVE  Layered(base, pairs, i) = IF i = 0 THEN base ELSE ApplyKey(g[i - 1], pairs[i])
      <3>1. CASE i = 0
        BY <1>1, <3>1, LayeredFirst
      <3>2. CASE i # 0
        <4>1. i - 1 \in 0 .. n /\ i - 1 \in Nat /\ (i - 1) + 1 = i
          BY <3>2
        <4>2. g[i - 1] = Layered(base, pairs, i - 1)
          BY <4>1
        <4>3. Layered(base, pairs, (i - 1) + 1)
                = ApplyKey(Layered(base, pairs, i - 1), pairs[(i - 1) + 1])
          BY <4>1, LayeredNext
        <4> QED BY <3>2, <4>1, <4>2, <4>3
      <3> QED BY <3>1, <3>2
    <2> QED BY <2>1
  <1>5. f = [i \in 0 .. n |-> IF i = 0 THEN base ELSE ApplyKey(f[i - 1], pairs[i])]
    <2> HIDE DEF g
    <2> QED BY <1>4
  <1>6. \A i \in 0 .. n : g[i] = Layered(base, pairs, i)
    OBVIOUS
  <1> HIDE DEF f, g
  <1>7. \A i \in Nat : i <= n => f[i] = Layered(base, pairs, i)
    <2> DEFINE P == {i \in Nat : i <= n => f[i] = Layered(base, pairs, i)}
    <2>1. 0 \in P
      <3>1. f[0] = base
        BY <1>5
      <3> QED BY <1>1, <3>1, LayeredFirst
    <2>2. ASSUME NEW i \in Nat, i \in P PROVE i + 1 \in P
      <3> SUFFICES ASSUME i + 1 <= n PROVE f[i + 1] = Layered(base, pairs, i + 1)
        OBVIOUS
      <3>1. i + 1 \in 0 .. n /\ i + 1 # 0 /\ (i + 1) - 1 = i
        OBVIOUS
      <3>2. f[i + 1] = ApplyKey(f[i], pairs[i + 1])
        BY <1>5, <3>1
      <3>3. f[i] = Layered(base, pairs, i)
        BY <2>2
      <3> QED BY <3>2, <3>3, LayeredNext
    <2> HIDE DEF P
    <2>3. Nat \subseteq P
      BY <2>1, <2>2, Induct
    <2> QED BY <2>3 DEF P
  <1>8. f[n] = Layered(base, pairs, n)
    BY <1>7
  <1>9. \A k : GoodUpTo(pairs, k, n) = GoodAt(pairs, k)
    BY DEF GoodUpTo, GoodAt
  <1>10. ASSUME NEW k \in Fields
         PROVE  Says(pairs, k, cfg[k]) = IF GoodAt(pairs, k) = {} THEN base[k]
                                         ELSE pairs[Max(GoodAt(pairs, k))][2]
    <2>1. \A x \in DOMAIN Presets : DOMAIN Presets[x] = {"t_ref_ns", "frag_weight"}
      BY DEF Presets
    <2>2. CASE GoodAt(pairs, k) # {}
      BY <2>2 DEF Says
    <2>3. CASE GoodAt(pairs, k) = {}
      <3>1. Says(pairs, k, cfg[k])
              = IF w \in DOMAIN Presets /\ k \in {"t_ref_ns", "frag_weight"}
                THEN Presets[w][k] ELSE cfg[k]
        <4> HIDE DEF w
        <4>1. Says(pairs, k, cfg[k])
                = CASE GoodAt(pairs, k) # {} -> pairs[Max(GoodAt(pairs, k))][2]
                    [] GoodAt(pairs, k) = {} /\ w \in DOMAIN Presets
                         /\ k \in {"t_ref_ns", "frag_weight"} -> Presets[w][k]
                    [] OTHER -> cfg[k]
          BY DEF Says, w
        <4> QED BY <2>3, <4>1
      <3>2. base[k] = IF w \in DOMAIN Presets /\ k \in {"t_ref_ns", "frag_weight"}
                      THEN Presets[w][k] ELSE cfg[k]
        BY <1>2, <2>1
      <3> QED BY <2>3, <3>1, <3>2
    <2> QED BY <2>2, <2>3
  <1>11. Layered(base, pairs, n) = [k \in Fields |-> Says(pairs, k, cfg[k])]
    BY <1>9, <1>10 DEF Layered
  <1> QED BY <1>3, <1>8, <1>11

\* The values a trainer can run with.
Sound(cfg) == /\ cfg = [k \in Fields |-> cfg[k]]
              /\ \A k \in Fields : cfg[k] = DEFAULTS[k] \/ Accepts(k, cfg[k])

LEMMA LayerSound ==
  ASSUME NEW cfg, Sound(cfg), NEW pairs, NEW n \in Nat, Len(pairs) = n,
         DOMAIN pairs = 1 .. n
  PROVE  Sound(ApplyLayer(cfg, pairs))
  <1> DEFINE new == ApplyLayer(cfg, pairs)
             w   == FirstFocus(pairs).word
  <1>1. new = [k \in Fields |-> Says(pairs, k, cfg[k])]
    BY LayerIs DEF Sound
  <1> HIDE DEF new
  <1>2. ASSUME NEW k \in Fields PROVE new[k] = DEFAULTS[k] \/ Accepts(k, new[k])
    <2>1. new[k] = Says(pairs, k, cfg[k])
      BY <1>1
    <2>2. CASE GoodAt(pairs, k) # {}
      <3> DEFINE S == GoodAt(pairs, k)
      <3>1. S \in SUBSET (0 .. n)
        BY DEF GoodAt
      <3>2. Max(S) \in S
        <4> HIDE DEF S
        <4> QED BY <2>2, <3>1, MaxOf DEF S
      <3>3. new[k] = pairs[Max(S)][2]
        BY <2>1, <2>2 DEF Says
      <3>4. Accepts(k, pairs[Max(S)][2])
        BY <3>2 DEF GoodAt
      <3> HIDE DEF S
      <3> QED BY <3>3, <3>4
    <2>3. CASE GoodAt(pairs, k) = {}
      <3>1. Says(pairs, k, cfg[k])
              = IF w \in DOMAIN Presets /\ k \in {"t_ref_ns", "frag_weight"}
                THEN Presets[w][k] ELSE cfg[k]
        <4> HIDE DEF w
        <4>1. Says(pairs, k, cfg[k])
                = CASE GoodAt(pairs, k) # {} -> pairs[Max(GoodAt(pairs, k))][2]
                    [] GoodAt(pairs, k) = {} /\ w \in DOMAIN Presets
                         /\ k \in {"t_ref_ns", "frag_weight"} -> Presets[w][k]
                    [] OTHER -> cfg[k]
          BY DEF Says, w
        <4> QED BY <2>3, <4>1
      <3> HIDE DEF w
      <3>2. \A x \in DOMAIN Presets, l \in {"t_ref_ns", "frag_weight"} :
              Accepts(l, Presets[x][l])
        <4>1. \A x \in DOMAIN Presets, l \in {"t_ref_ns", "frag_weight"} :
                Presets[x][l].is # "word"
          <5>1. /\ DOMAIN Presets = {"latency", "throughput", "balanced"}
                /\ Presets["latency"] = [t_ref_ns |-> Whole(50), frag_weight |-> Whole(0)]
                /\ Presets["throughput"] = [t_ref_ns |-> Whole(200), frag_weight |-> Part(5)]
                /\ Presets["balanced"] = [t_ref_ns |-> Whole(100), frag_weight |-> Part(2)]
            BY DEF Presets
          <5>2. \A i : Whole(i).is # "word" /\ Part(i).is # "word"
            BY DEF Whole, Part
          <5>3. \A l \in {"t_ref_ns", "frag_weight"} : Presets["latency"][l].is # "word"
            BY <5>1, <5>2
          <5>4. \A l \in {"t_ref_ns", "frag_weight"} : Presets["throughput"][l].is # "word"
            BY <5>1, <5>2
          <5>5. \A l \in {"t_ref_ns", "frag_weight"} : Presets["balanced"][l].is # "word"
            BY <5>1, <5>2
          <5> QED BY <5>1, <5>3, <5>4, <5>5
        <4>2. \A l \in {"t_ref_ns", "frag_weight"} : l \in Floats
          BY DEF Floats
        <4> QED BY <4>1, <4>2 DEF Accepts
      <3> QED BY <2>1, <3>1, <3>2 DEF Sound
    <2> QED BY <2>2, <2>3
  <1>3. new = [k \in Fields |-> new[k]]
    BY <1>1
  <1> QED BY <1>2, <1>3 DEF Sound, new

\* The variables that are set come one after another.
LEMMA EnvIs ==
  ASSUME NEW env, IsFiniteSet(DOMAIN env)
  PROVE  \E n \in Nat : Len(EnvPairs(env)) = n /\ DOMAIN EnvPairs(env) = 1 .. n
  <1> DEFINE S == {<<k, env[k]>> : k \in DOMAIN env}
             n == Cardinality(S)
  <1>1. IsFiniteSet(S)
    <2> DEFINE f == [k \in DOMAIN env |-> <<k, env[k]>>]
    <2>1. f \in Surjection(DOMAIN env, S)
      BY DEF Surjection
    <2> HIDE DEF f, S
    <2> QED BY <2>1, FS_Surjection
  <1> HIDE DEF S
  <1>2. n \in Nat /\ ExistsBijection(1 .. n, S)
    BY <1>1, FS_CardinalityType
  <1>3. PICK g : g \in Bijection(1 .. n, S)
    BY <1>2 DEF ExistsBijection
  <1>4. g \in [1 .. n -> S] /\ IsInjective(g)
    BY <1>3 DEF Bijection, Injection, IsInjective
  <1>5. EnvPairs(env) = SetToSeq(S)
    BY DEF EnvPairs, S
  <1>6. SetToSeq(S) \in [1 .. n -> S]
    BY <1>4 DEF SetToSeq
  <1>7. EnvPairs(env) \in Seq(S) /\ DOMAIN EnvPairs(env) = 1 .. n
    <2> HIDE DEF n
    <2> QED BY <1>2, <1>5, <1>6
  <1>8. Len(EnvPairs(env)) = n
    <2> HIDE DEF n
    <2> QED BY <1>2, <1>7
  <1> QED BY <1>2, <1>7, <1>8

\* The configuration that is built is what the two layers say, and sound.
Layers(lines, env, cfg) ==
  \A k \in Fields : cfg[k] = Says(EnvPairs(env), k, Says(lines, k, DEFAULTS[k]))

LEMMA BuiltIs ==
  ASSUME NEW lines \in Files, NEW env \in Environs
  PROVE  Sound(BuildConfig(lines, env)) /\ Layers(lines, env, BuildConfig(lines, env))
  <1> DEFINE first == ApplyLayer(DEFAULTS, lines)
  <1>1. Sound(DEFAULTS)
    BY DEF Sound, DEFAULTS
  <1>2. PICK m \in Nat : Len(lines) = m /\ DOMAIN lines = 1 .. m
    <2>1. lines \in Seq(STRING \X Texts)
      BY TuneShape
    <2> QED BY <2>1
  <1>3. PICK n \in Nat : Len(EnvPairs(env)) = n /\ DOMAIN EnvPairs(env) = 1 .. n
    BY TuneShape, EnvIs
  <1>4. Sound(first) /\ first = [k \in Fields |-> Says(lines, k, DEFAULTS[k])]
    BY <1>1, <1>2, LayerIs, LayerSound DEF Sound
  <1>5. BuildConfig(lines, env) = ApplyLayer(first, EnvPairs(env))
    BY DEF BuildConfig
  <1> HIDE DEF first
  <1>6. /\ Sound(ApplyLayer(first, EnvPairs(env)))
        /\ ApplyLayer(first, EnvPairs(env)) = [k \in Fields |-> Says(EnvPairs(env), k, first[k])]
    BY <1>3, <1>4, LayerIs, LayerSound DEF Sound
  <1>7. \A k \in Fields : first[k] = Says(lines, k, DEFAULTS[k])
    BY <1>4
  <1> QED BY <1>5, <1>6, <1>7 DEF Layers

Mask == StripeCount - 1

LEMMA StripesAre ==
  ASSUME override \in Overrides, cpus \in Cpus
  PROVE  StripeCount \in Powers /\ Mask \in Nat /\ Mask < MaxStripes
  <1>1. \A n \in Overrides \cup Cpus : NextPowerOfTwo(n) \in Powers
    BY TuneShape DEF NextPowerOfTwo
  <1>2. /\ Powers \subseteq Nat \ {0} /\ MinStripes \in Powers /\ MaxStripes \in Powers
        /\ \A n \in Overrides : n \in Nat
    BY TuneShape
  <1>3. \A a, b \in Powers : Least(a, b) \in Powers /\ Least(a, b) <= a /\ Least(a, b) <= b
    BY <1>2 DEF Least
  <1>4. NextPowerOfTwo(override) \in Powers /\ NextPowerOfTwo(cpus) \in Powers
    BY <1>1
  <1>5. StripeCount \in Powers /\ StripeCount <= MaxStripes
    <2>1. CASE override > 0
      BY <1>2, <1>3, <1>4, <2>1 DEF StripeCount
    <2>2. CASE ~(override > 0)
      <3> DEFINE up == IF NextPowerOfTwo(cpus) < MinStripes THEN MinStripes
                       ELSE NextPowerOfTwo(cpus)
      <3>1. up \in Powers
        BY <1>2, <1>4
      <3>2. StripeCount = Least(MaxStripes, up)
        BY <2>2 DEF StripeCount
      <3> HIDE DEF up
      <3> QED BY <1>2, <1>3, <3>1, <3>2
    <2> QED BY <2>1, <2>2
  <1> QED BY <1>2, <1>5 DEF Mask

\* What a thread was told is latched, and every latch is what the environment says.
Latched(s) == IF IsOn(s) THEN 1 ELSE 2
AsksOK     == asks \in [Askers -> Watched \cup {"STRIPES", NotAsking}]
LatchOK    == /\ latch \in [Watched -> {0, 1, 2}]
              /\ \A s \in Watched : latch[s] # 0 => latch[s] = Latched(s)
              /\ mask \in {Unlatched, Mask}
AnsweredOf(t) ==
  \/ answered[t] = <<>>
  \/ \E s \in Watched : answered[t] = <<s, IsOn(s)>> /\ latch[s] # 0
  \/ answered[t] = <<"STRIPES", Mask>> /\ mask # Unlatched
AnswersOK == DOMAIN answered = Askers /\ \A t \in Askers : AnsweredOf(t)
ConfigOK == \/ inForce = DEFAULTS
            \/ inForce = BuildConfig(text, environ)

TuneInv == /\ text \in Files /\ environ \in Environs
           /\ override \in Overrides /\ cpus \in Cpus
           /\ AsksOK /\ LatchOK /\ AnswersOK /\ ConfigOK

LEMMA TuneStarts == TuneInit => TuneInv
  <1> SUFFICES ASSUME TuneInit PROVE TuneInv
    OBVIOUS
  <1>1. AsksOK /\ ConfigOK
    BY DEF TuneInit, AsksOK, ConfigOK
  <1>2. LatchOK
    BY DEF TuneInit, LatchOK
  <1>3. AnswersOK
    BY DEF TuneInit, AnswersOK, AnsweredOf
  <1> QED BY <1>1, <1>2, <1>3 DEF TuneInit, TuneInv

\* What does not change but by a load.
Settled == /\ text' = text /\ environ' = environ /\ flag' = flag /\ override' = override
           /\ cpus' = cpus

LEMMA SettledSame ==
  ASSUME Settled PROVE Mask' = Mask /\ \A s : IsOn(s)' = IsOn(s) /\ Latched(s)' = Latched(s)
  <1>1. StripeCount' = StripeCount
    BY DEF Settled, StripeCount, NextPowerOfTwo, Least
  <1>2. \A s : IsOn(s)' = IsOn(s)
    BY DEF Settled, IsOn
  <1> QED BY <1>1, <1>2 DEF Mask, Latched

LEMMA LoadKeeps == ASSUME TuneInv, LoadFromEnv PROVE TuneInv'
  <1>1. /\ Settled /\ latch' = latch /\ mask' = mask /\ asks' = asks /\ answered' = answered
        /\ inForce' = BuildConfig(text, environ)
    BY DEF LoadFromEnv, Settled
  <1>2. Mask' = Mask /\ \A s : IsOn(s)' = IsOn(s) /\ Latched(s)' = Latched(s)
    BY <1>1, SettledSame
  <1>3. ConfigOK'
    BY <1>1 DEF ConfigOK, Settled
  <1>4. LatchOK' /\ AsksOK'
    BY <1>1, <1>2 DEF TuneInv, LatchOK, AsksOK
  <1>5. AnswersOK'
    BY <1>1, <1>2 DEF TuneInv, AnswersOK, AnsweredOf
  <1> QED BY <1>1, <1>3, <1>4, <1>5 DEF TuneInv, Settled

\* A thread is told of a latch: the others were told what they were.
LEMMA TellsKeep ==
  ASSUME TuneInv, Settled, NEW t \in Askers, NEW new, answered' = [answered EXCEPT ![t] = new],
         \A s \in Watched : latch[s] # 0 => latch'[s] # 0, mask # Unlatched => mask' # Unlatched,
         \/ \E s \in Watched : new = <<s, IsOn(s)>> /\ latch'[s] # 0
         \/ new = <<"STRIPES", Mask>> /\ mask' # Unlatched
  PROVE  AnswersOK'
  <1>1. Mask' = Mask /\ \A s : IsOn(s)' = IsOn(s)
    BY SettledSame
  <1>2. DOMAIN answered = Askers /\ \A u \in Askers : AnsweredOf(u)
    BY DEF TuneInv, AnswersOK
  <1>3. /\ DOMAIN answered' = Askers /\ answered'[t] = new
        /\ \A u \in Askers : u # t => answered'[u] = answered[u]
    BY <1>2
  <1>4. AnsweredOf(t)'
    BY <1>1, <1>3 DEF AnsweredOf
  <1>5. ASSUME NEW u \in Askers, u # t PROVE AnsweredOf(u)'
    BY <1>1, <1>2, <1>3, <1>5 DEF AnsweredOf
  <1> QED BY <1>3, <1>4, <1>5 DEF AnswersOK

LEMMA AskKeeps == ASSUME TuneInv, NEW t \in Askers, NEW s \in Watched, Ask(t, s) PROVE TuneInv'
  <1>1. /\ Settled /\ inForce' = inForce /\ latch' = latch /\ mask' = mask
    BY DEF Ask, surroundings, Settled
  <1>2. Mask' = Mask /\ \A x : IsOn(x)' = IsOn(x) /\ Latched(x)' = Latched(x)
    BY <1>1, SettledSame
  <1>3. ConfigOK'
    BY <1>1 DEF TuneInv, ConfigOK, Settled
  <1>4. LatchOK'
    BY <1>1, <1>2 DEF TuneInv, LatchOK
  <1>5. CASE latch[s] # 0
    <2>1. answered' = [answered EXCEPT ![t] = <<s, latch[s] = 1>>] /\ asks' = asks
      BY <1>5 DEF Ask
    <2>2. (latch[s] = 1) = IsOn(s)
      <3>1. latch[s] = Latched(s) /\ IsOn(s) \in BOOLEAN
        BY <1>5 DEF TuneInv, LatchOK, IsOn
      <3> QED BY <3>1 DEF Latched
    <2>3. AnswersOK'
      BY <1>1, <1>5, <2>1, <2>2, TellsKeep
    <2>4. AsksOK'
      BY <2>1 DEF TuneInv, AsksOK
    <2> QED BY <1>1, <1>3, <1>4, <2>3, <2>4 DEF TuneInv, Settled
  <1>6. CASE latch[s] = 0
    <2>1. asks' = [asks EXCEPT ![t] = s] /\ answered' = answered
      BY <1>6 DEF Ask
    <2>2. AsksOK'
      BY <2>1 DEF TuneInv, AsksOK
    <2>3. AnswersOK'
      BY <1>1, <1>2, <2>1 DEF TuneInv, AnswersOK, AnsweredOf
    <2> QED BY <1>1, <1>3, <1>4, <2>2, <2>3 DEF TuneInv, Settled
  <1> QED BY <1>5, <1>6

LEMMA LatchKeeps == ASSUME TuneInv, NEW t \in Askers, NEW s \in Watched, Latch(t, s) PROVE TuneInv'
  <1>1. /\ Settled /\ inForce' = inForce /\ mask' = mask
        /\ latch' = [latch EXCEPT ![s] = Latched(s)]
        /\ asks' = [asks EXCEPT ![t] = NotAsking]
        /\ answered' = [answered EXCEPT ![t] = <<s, IsOn(s)>>]
    BY DEF Latch, surroundings, Settled, Latched
  <1>2. Mask' = Mask /\ \A x : IsOn(x)' = IsOn(x) /\ Latched(x)' = Latched(x)
    BY <1>1, SettledSame
  <1>3. ConfigOK'
    BY <1>1 DEF TuneInv, ConfigOK, Settled
  <1>4. Latched(s) \in {1, 2}
    BY DEF Latched
  <1>5. /\ latch' \in [Watched -> {0, 1, 2}] /\ latch'[s] = Latched(s)
        /\ \A x \in Watched : x # s => latch'[x] = latch[x]
    BY <1>1, <1>4 DEF TuneInv, LatchOK
  <1>6. LatchOK'
    BY <1>1, <1>2, <1>5 DEF TuneInv, LatchOK
  <1>7. AsksOK'
    BY <1>1 DEF TuneInv, AsksOK
  <1>8. AnswersOK'
    <2>1. \A x \in Watched : latch[x] # 0 => latch'[x] # 0
      BY <1>4, <1>5
    <2>2. latch'[s] # 0
      BY <1>4, <1>5
    <2> QED BY <1>1, <2>1, <2>2, TellsKeep
  <1> QED BY <1>1, <1>3, <1>6, <1>7, <1>8 DEF TuneInv, Settled

LEMMA AskStripesKeeps == ASSUME TuneInv, NEW t \in Askers, AskStripes(t) PROVE TuneInv'
  <1>1. /\ Settled /\ inForce' = inForce /\ latch' = latch /\ mask' = mask
    BY DEF AskStripes, surroundings, Settled
  <1>2. Mask' = Mask /\ \A x : IsOn(x)' = IsOn(x) /\ Latched(x)' = Latched(x)
    BY <1>1, SettledSame
  <1>3. ConfigOK'
    BY <1>1 DEF TuneInv, ConfigOK, Settled
  <1>4. LatchOK'
    BY <1>1, <1>2 DEF TuneInv, LatchOK
  <1>5. CASE mask # Unlatched
    <2>1. answered' = [answered EXCEPT ![t] = <<"STRIPES", mask>>] /\ asks' = asks
      BY <1>5 DEF AskStripes
    <2>2. mask = Mask
      BY <1>5 DEF TuneInv, LatchOK
    <2>3. AnswersOK'
      BY <1>1, <1>5, <2>1, <2>2, TellsKeep
    <2>4. AsksOK'
      BY <2>1 DEF TuneInv, AsksOK
    <2> QED BY <1>1, <1>3, <1>4, <2>3, <2>4 DEF TuneInv, Settled
  <1>6. CASE mask = Unlatched
    <2>1. asks' = [asks EXCEPT ![t] = "STRIPES"] /\ answered' = answered
      BY <1>6 DEF AskStripes
    <2>2. AsksOK'
      BY <2>1 DEF TuneInv, AsksOK
    <2>3. AnswersOK'
      BY <1>1, <1>2, <2>1 DEF TuneInv, AnswersOK, AnsweredOf
    <2> QED BY <1>1, <1>3, <1>4, <2>2, <2>3 DEF TuneInv, Settled
  <1> QED BY <1>5, <1>6

LEMMA LatchStripesKeeps == ASSUME TuneInv, NEW t \in Askers, LatchStripes(t) PROVE TuneInv'
  <1>1. /\ Settled /\ inForce' = inForce /\ latch' = latch /\ mask' = Mask
        /\ asks' = [asks EXCEPT ![t] = NotAsking]
        /\ answered' = [answered EXCEPT ![t] = <<"STRIPES", Mask>>]
    BY DEF LatchStripes, surroundings, Settled, Mask
  <1>2. Mask' = Mask /\ \A x : IsOn(x)' = IsOn(x) /\ Latched(x)' = Latched(x)
    BY <1>1, SettledSame
  <1>3. ConfigOK'
    BY <1>1 DEF TuneInv, ConfigOK, Settled
  <1>4. LatchOK'
    BY <1>1, <1>2 DEF TuneInv, LatchOK
  <1>5. AsksOK'
    BY <1>1 DEF TuneInv, AsksOK
  <1>6. Mask # Unlatched
    BY StripesAre DEF TuneInv, Unlatched
  <1>7. AnswersOK'
    BY <1>1, <1>6, TellsKeep
  <1> QED BY <1>1, <1>3, <1>4, <1>5, <1>7 DEF TuneInv, Settled

LEMMA TuneStays == ASSUME TuneInv, UNCHANGED tuneVars PROVE TuneInv'
  <1>1. /\ Settled /\ inForce' = inForce /\ latch' = latch /\ mask' = mask /\ asks' = asks
        /\ answered' = answered
    BY DEF tuneVars, Settled
  <1>2. Mask' = Mask /\ \A x : IsOn(x)' = IsOn(x) /\ Latched(x)' = Latched(x)
    BY <1>1, SettledSame
  <1>3. ConfigOK' /\ AsksOK' /\ LatchOK'
    BY <1>1, <1>2 DEF TuneInv, ConfigOK, Settled, AsksOK, LatchOK
  <1>4. AnswersOK'
    BY <1>1, <1>2 DEF TuneInv, AnswersOK, AnsweredOf
  <1> QED BY <1>1, <1>3, <1>4 DEF TuneInv, Settled

\* tune.rs and the switches of lib.rs: the configuration is the defaults or the one
\* that is built, whole; each latch, once set, is what the environment says.
THEOREM TuneInductive == TuneSpec => []TuneInv
  <1>1. ASSUME TuneInv, [TuneNext]_tuneVars PROVE TuneInv'
    <2>1. CASE LoadFromEnv
      BY <1>1, <2>1, LoadKeeps
    <2>2. ASSUME NEW t \in Askers, NEW s \in Watched, Ask(t, s) PROVE TuneInv'
      BY <1>1, <2>2, AskKeeps
    <2>3. ASSUME NEW t \in Askers, NEW s \in Watched, Latch(t, s) PROVE TuneInv'
      BY <1>1, <2>3, LatchKeeps
    <2>4. ASSUME NEW t \in Askers, AskStripes(t) PROVE TuneInv'
      BY <1>1, <2>4, AskStripesKeeps
    <2>5. ASSUME NEW t \in Askers, LatchStripes(t) PROVE TuneInv'
      BY <1>1, <2>5, LatchStripesKeeps
    <2>6. CASE UNCHANGED tuneVars
      BY <1>1, <2>6, TuneStays
    <2> QED BY <1>1, <2>1, <2>2, <2>3, <2>4, <2>5, <2>6 DEF TuneNext
  <1> QED BY <1>1, TuneStarts, PTL DEF TuneSpec

\* ConfigInForce: for any texts and variables, in any order, good and bad, each field is
\* the last good value of the highest layer that has one; and any number of threads that
\* ask are told the same.
THEOREM ConfigAlways == TuneSpec => []ConfigInForce
  <1>1. ASSUME TuneInv PROVE ConfigInForce
    <2>1. /\ inForce = DEFAULTS \/ Layers(text, environ, inForce)
          /\ Sound(inForce)
      <3>1. Sound(DEFAULTS)
        BY DEF Sound, DEFAULTS
      <3> QED BY <1>1, <3>1, BuiltIs DEF TuneInv, ConfigOK
    <2>2. ASSUME NEW t \in Askers, answered[t] # <<>>
          PROVE  IF answered[t][1] = "STRIPES"
                 THEN /\ answered[t][2] = mask /\ mask + 1 \in Powers /\ mask < MaxStripes
                 ELSE /\ answered[t][2] = IsOn(answered[t][1])
                      /\ answered[t][2] = (latch[answered[t][1]] = 1)
      <3>1. AnsweredOf(t)
        BY <1>1 DEF TuneInv, AnswersOK
      <3>2. ASSUME NEW s \in Watched, answered[t] = <<s, IsOn(s)>>, latch[s] # 0
            PROVE  /\ answered[t][1] # "STRIPES"
                   /\ answered[t][2] = IsOn(answered[t][1])
                   /\ answered[t][2] = (latch[answered[t][1]] = 1)
        <4>1. s # "STRIPES"
          BY TuneShape DEF OptIn, OptOut
        <4>2. latch[s] = Latched(s) /\ IsOn(s) \in BOOLEAN
          BY <1>1, <3>2 DEF TuneInv, LatchOK, IsOn
        <4>3. answered[t][1] = s /\ answered[t][2] = IsOn(s)
          BY <3>2
        <4> QED BY <4>1, <4>2, <4>3 DEF Latched
      <3>3. ASSUME answered[t] = <<"STRIPES", Mask>>, mask # Unlatched
            PROVE  /\ answered[t][1] = "STRIPES" /\ answered[t][2] = mask
                   /\ mask + 1 \in Powers /\ mask < MaxStripes
        <4>1. mask = Mask /\ StripeCount \in Powers /\ Mask \in Nat /\ Mask < MaxStripes
          BY <1>1, <3>3, StripesAre DEF TuneInv, LatchOK
        <4>2. StripeCount \in Nat
          BY <4>1, TuneShape
        <4>3. Mask + 1 = StripeCount
          BY <4>2 DEF Mask
        <4> QED BY <3>3, <4>1, <4>3
      <3> QED BY <2>2, <3>1, <3>2, <3>3 DEF AnsweredOf
    <2> QED BY <2>1, <2>2 DEF ConfigInForce, Layers, Sound
  <1> QED BY <1>1, TuneInductive, PTL
=============================================================================
