----------------------------- MODULE Lifecycle -----------------------------
(***************************************************************************)
(* One process-wide allocator behind the C ABI: the malloc family of       *)
(* lohalloc-cabi and the part of Lohalloc (lib.rs) it drives, from the     *)
(* load of a model at the first malloc to the automatic freeze and the     *)
(* export of the model file.                                               *)
(*                                                                         *)
(* The policy state is behind a Mutex, and the code that holds it          *)
(* allocates: Rust's collections call the exported malloc and free again.  *)
(* Two depth counters in thread-local storage tell a nested call from the  *)
(* program's own: exportDepth (the C layer) and inAlloc (the allocator).   *)
(* Nested calls are not steps of their own: NestedReturns says of a state  *)
(* that a nested call made in it would come back.                          *)
(***************************************************************************)
EXTENDS Integers

CONSTANTS
  Callers,       \* threads of the program
  Controls,      \* control calls the program may make
  FreezeAfter,   \* LOHALLOC_FREEZE_AFTER; 0 is unset
  Converged,     \* freeze_mode = converged
  PollEvery,     \* CONVERGENCE_POLL_EVERY
  CountBound     \* bound: no call starts after so many counted mallocs

Unlocked == "unlocked"

\* A thread is told apart from a free lock and from a once-cell that is new or done.
ASSUME CallersApart == Callers \cap {Unlocked, "new", "done"} = {}

VARIABLES
  exportDepth, inAlloc,   \* hot TLS block of each thread
  once,                   \* ONCE of ensure_model_loaded: new, done or its thread
  stateLock, mode,        \* the Mutex around AllocatorState, and its variant
  frozen, table,          \* Lohalloc.frozen; whether frozen_table is set
  fired, count,           \* FREEZE_FIRED, MALLOC_COUNT
  tmp, file,              \* LOHALLOC_EXPORT_MODEL.tmp and the file itself
  process,                \* running, crashed or aborted
  modelFile, controls,    \* LOHALLOC_MODEL and the control calls of this program
  at, call, why,          \* where a thread is, in which call, why it locks
  top, bumped             \* its locals: top_level, and free's depth bump

lcVars == <<exportDepth, inAlloc, once, stateLock, mode, frozen, table, fired,
            count, tmp, file, process, at, call, why, top, bumped, modelFile,
            controls>>

tls         == <<exportDepth, inAlloc>>
policyState == <<stateLock, mode, frozen, table>>
counters    == <<once, fired, count>>
disk        == <<tmp, file>>
frame       == <<call, why, top, bumped>>
program     == <<modelFile, controls>>

LifecycleTypeOK ==
  /\ exportDepth \in [Callers -> 0 .. 1] /\ inAlloc \in [Callers -> 0 .. 2]
  /\ once \in {"new", "done"} \cup Callers
  /\ stateLock \in {Unlocked} \cup Callers
  /\ mode \in {"training", "inference"}
  /\ frozen \in BOOLEAN /\ table \in BOOLEAN /\ fired \in BOOLEAN
  /\ count \in Nat /\ tmp \in {"none", "part", "whole"}
  /\ file \in {"none", "part", "whole"} 
  /\ process \in {"running", "crashed", "aborted"}
  /\ modelFile \in {"none", "good", "bad"} /\ controls \subseteq Controls
  /\ at \in [Callers -> {"idle", "once", "boot", "booted", "alloc", "wait",
                         "locked", "auto", "swap", "freeze", "published",
                         "export", "write", "rename", "leave"}]
  /\ call \in [Callers -> {"none", "malloc", "free", "freeze", "load_model"}]
  /\ why \in [Callers -> {"none", "load", "route", "record", "poll", "freeze",
                          "export"}]
  /\ top \in [Callers -> BOOLEAN] /\ bumped \in [Callers -> BOOLEAN]

LifecycleInit ==
  /\ exportDepth = [t \in Callers |-> 0] /\ inAlloc = [t \in Callers |-> 0]
  /\ once = "new" /\ stateLock = Unlocked /\ mode = "training"
  /\ frozen = FALSE /\ table = FALSE /\ fired = FALSE /\ count = 0
  /\ tmp = "none" /\ file = "none" /\ process = "running"
  /\ modelFile \in {"none", "good", "bad"} /\ controls \in SUBSET Controls
  /\ at = [t \in Callers |-> "idle"] /\ call = [t \in Callers |-> "none"]
  /\ why = [t \in Callers |-> "none"]
  /\ top = [t \in Callers |-> FALSE] /\ bumped = [t \in Callers |-> FALSE]

\* Thread t stands here, in a process that runs.
Here(t, s) == process = "running" /\ at[t] = s /\ UNCHANGED program

Go(t, to)     == at' = [at EXCEPT ![t] = to]
Set(f, t, v)  == [f EXCEPT ![t] = v]
Deeper(t)     == inAlloc' = [inAlloc EXCEPT ![t] = @ + 1]
Shallower(t)  == inAlloc' = [inAlloc EXCEPT ![t] = @ - 1]
Begin(t, c)   == Here(t, "idle") /\ count < CountBound /\ call' = Set(call, t, c)

\* with_realloc_guard around state.lock(): the depth goes up before the wait.
GuardThenLock(t, reason) ==
  /\ Deeper(t) /\ Go(t, "wait") /\ why' = Set(why, t, reason)

(***************************************************************************)
(* Entries of the C ABI.                                                   *)
(***************************************************************************)

\* with_freeze_check: the call is the program's own if neither layer is in use.
Malloc(t) ==
  /\ Begin(t, "malloc")
  /\ top' = Set(top, t, exportDepth[t] = 0 /\ inAlloc[t] = 0)
  /\ exportDepth' = [exportDepth EXCEPT ![t] = @ + 1]
  /\ Go(t, IF top'[t] THEN "once" ELSE "alloc")
  /\ UNCHANGED <<inAlloc, counters, policyState, disk, process, why, bumped>>

\* free of a block with an owner: a reward is due while training, unless the
\* block was served to a nested call (tracked = FALSE).
Free(t, tracked) ==
  /\ Begin(t, "free")
  /\ bumped' = Set(bumped, t, ~fired)
  /\ exportDepth' = [exportDepth EXCEPT ![t] = @ + IF fired THEN 0 ELSE 1]
  /\ IF tracked /\ ~frozen
     THEN GuardThenLock(t, "record")
     ELSE Go(t, "leave") /\ UNCHANGED <<inAlloc, why>>
  /\ UNCHANGED <<counters, policyState, disk, process, top>>

\* lohalloc_freeze
ExplicitFreeze(t) ==
  /\ "freeze" \in controls /\ Begin(t, "freeze")
  /\ fired' = TRUE
  /\ exportDepth' = [exportDepth EXCEPT ![t] = @ + 1]
  /\ Go(t, "freeze")
  /\ UNCHANGED <<inAlloc, once, count, policyState, disk, process, why, top, bumped>>

\* lohalloc_load_model, for a file that holds a model.
LoadModel(t) ==
  /\ "load_model" \in controls /\ Begin(t, "load_model")
  /\ GuardThenLock(t, "load")
  /\ UNCHANGED <<exportDepth, counters, policyState, disk, process, top, bumped>>

\* Mutation: the threads that lose the race do not wait for the winner.
LoadsWithoutWaiting(t) ==
  /\ Here(t, "once")
  /\ \/ once = "new" /\ once' = t /\ Deeper(t) /\ Go(t, "boot")
     \/ once # "new" /\ Go(t, "alloc") /\ UNCHANGED <<once, inAlloc>>
  /\ UNCHANGED <<exportDepth, fired, count, policyState, disk, process, frame>>

\* ensure_model_loaded: one thread runs the body, the others wait for it.
EnsureModelLoaded(t) ==
  /\ Here(t, "once")
  /\ \/ once = "new" /\ once' = t /\ Deeper(t) /\ Go(t, "boot")
     \/ once = "done" /\ Go(t, "alloc") /\ UNCHANGED <<once, inAlloc>>
  /\ UNCHANGED <<exportDepth, fired, count, policyState, disk, process, frame>>

Boot(t) ==
  /\ Here(t, "boot")
  /\ IF modelFile = "good"
     THEN GuardThenLock(t, "load") /\ UNCHANGED once
     ELSE once' = "done" /\ Shallower(t) /\ Go(t, "alloc") /\ UNCHANGED why
  /\ UNCHANGED <<exportDepth, fired, count, policyState, disk, process, call, top,
                 bumped>>

Booted(t) ==
  /\ Here(t, "booted")
  /\ fired' = TRUE /\ once' = "done" /\ Shallower(t) /\ Go(t, "alloc")
  /\ UNCHANGED <<exportDepth, count, policyState, disk, process, frame>>

\* GlobalAlloc::alloc: a nested call is served by the System backend, one that
\* finds the table is routed by it, any other asks the policy state.
Alloc(t) ==
  /\ Here(t, "alloc")
  /\ IF inAlloc[t] > 0 \/ table
     THEN Go(t, "auto") /\ UNCHANGED <<inAlloc, why>>
     ELSE GuardThenLock(t, "route")
  /\ UNCHANGED <<exportDepth, counters, policyState, disk, process, call, top, bumped>>

(***************************************************************************)
(* Critical sections of the policy state.                                  *)
(***************************************************************************)

Lock(t) ==
  /\ Here(t, "wait") /\ stateLock = Unlocked
  /\ stateLock' = t /\ Go(t, "locked")
  /\ UNCHANGED <<tls, counters, mode, frozen, table, disk, process, frame>>

Unlock(t, reason) ==
  /\ Here(t, "locked") /\ why[t] = reason
  /\ stateLock' = Unlocked

\* route_with_frame; a training allocation is timed and recorded afterwards.
Route(t) ==
  /\ Unlock(t, "route")
  /\ IF mode = "training"
     THEN GuardThenLock(t, "record")
     ELSE Shallower(t) /\ Go(t, "auto") /\ UNCHANGED why
  /\ UNCHANGED <<exportDepth, counters, mode, frozen, table, disk, process, call,
                 top, bumped>>

\* record_latency, from an allocation or from a free.
Record(t) ==
  /\ Unlock(t, "record")
  /\ inAlloc' = Set(inAlloc, t, 0)
  /\ Go(t, IF call[t] = "malloc" THEN "auto" ELSE "leave")
  /\ UNCHANGED <<exportDepth, counters, mode, frozen, table, disk, process, frame>>

\* Lohalloc::load: state, table and frozen change under the lock.
Load(t) ==
  /\ Unlock(t, "load")
  /\ mode' = "inference" /\ table' = TRUE /\ frozen' = TRUE
  /\ Shallower(t)
  /\ Go(t, IF call[t] = "malloc" THEN "booted" ELSE "leave")
  /\ UNCHANGED <<exportDepth, counters, disk, process, frame>>

\* AllocatorState::freeze panics in Inference mode, and a panic cannot leave an
\* extern "C" function: the process aborts.
FreezeState(t) ==
  /\ Unlock(t, "freeze")
  /\ IF mode = "inference"
     THEN process' = "aborted" /\ UNCHANGED <<mode, table, at, inAlloc>>
     ELSE /\ mode' = "inference" /\ table' = TRUE
          /\ Shallower(t) /\ Go(t, "published") /\ UNCHANGED process
  /\ UNCHANGED <<exportDepth, counters, frozen, disk, frame>>

Published(t) ==
  /\ Here(t, "published")
  /\ frozen' = TRUE /\ Go(t, "export")
  /\ UNCHANGED <<tls, counters, stateLock, mode, table, disk, process, frame>>

\* is_converged, whose answer is the bandit's to give.
Poll(t) ==
  /\ Unlock(t, "poll")
  /\ Shallower(t)
  /\ \/ Go(t, "swap")
     \/ mode = "training" /\ Go(t, "leave")
  /\ UNCHANGED <<exportDepth, counters, mode, frozen, table, disk, process, frame>>

(***************************************************************************)
(* maybe_auto_freeze and maybe_export_model.                               *)
(***************************************************************************)

OpsHit(n) == FreezeAfter > 0 /\ n >= FreezeAfter

AutoFreeze(t) ==
  /\ Here(t, "auto")
  /\ IF top[t] /\ ~fired /\ (FreezeAfter > 0 \/ Converged)
     THEN /\ count' = count + 1
          /\ IF OpsHit(count')
             THEN Go(t, "swap") /\ UNCHANGED <<inAlloc, why>>
             ELSE IF Converged /\ count' % PollEvery = 0 /\ ~frozen
             THEN GuardThenLock(t, "poll")
             ELSE Go(t, "leave") /\ UNCHANGED <<inAlloc, why>>
     ELSE Go(t, "leave") /\ UNCHANGED <<count, inAlloc, why>>
  /\ UNCHANGED <<exportDepth, once, fired, policyState, disk, process, call, top,
                 bumped>>

\* Mutation: every thread that crossed the threshold freezes.
SwapUntested(t) ==
  /\ Here(t, "swap")
  /\ fired' = TRUE
  /\ Go(t, "freeze")
  /\ UNCHANGED <<tls, once, count, policyState, disk, process, frame>>

\* Several threads may cross the threshold: the swap picks one.
Swap(t) ==
  /\ Here(t, "swap")
  /\ fired' = TRUE
  /\ Go(t, IF fired THEN "leave" ELSE "freeze")
  /\ UNCHANGED <<tls, once, count, policyState, disk, process, frame>>

Freeze(t) ==
  /\ Here(t, "freeze")
  /\ GuardThenLock(t, "freeze")
  /\ UNCHANGED <<exportDepth, counters, policyState, disk, process, call, top, bumped>>

Export(t) ==
  /\ Here(t, "export")
  /\ GuardThenLock(t, "export")
  /\ UNCHANGED <<exportDepth, counters, policyState, disk, process, call, top, bumped>>

Serialize(t) ==
  /\ Unlock(t, "export")
  /\ Shallower(t)
  /\ Go(t, IF mode = "inference" THEN "write" ELSE "leave")
  /\ UNCHANGED <<exportDepth, counters, mode, frozen, table, disk, process, frame>>

\* fs::write truncates, then writes; it may fail half-way.
WriteTmp(t) ==
  /\ Here(t, "write")
  /\ \/ tmp # "part" /\ tmp' = "part" /\ UNCHANGED at
     \/ tmp = "part" /\ tmp' = "whole" /\ Go(t, "rename")
     \/ tmp = "part" /\ Go(t, "leave") /\ UNCHANGED tmp
  /\ UNCHANGED <<tls, counters, policyState, file, process, frame>>

Rename(t) ==
  /\ Here(t, "rename")
  /\ file' = tmp /\ tmp' = "none" /\ Go(t, "leave")
  /\ UNCHANGED <<tls, counters, policyState, process, frame>>

Leave(t) ==
  /\ Here(t, "leave")
  /\ exportDepth' = [exportDepth EXCEPT ![t] =
       IF call[t] \in {"malloc", "freeze"} \/ bumped[t] THEN @ - 1 ELSE @]
  /\ Go(t, "idle") /\ call' = Set(call, t, "none") /\ why' = Set(why, t, "none")
  /\ top' = Set(top, t, FALSE) /\ bumped' = Set(bumped, t, FALSE)
  /\ UNCHANGED <<inAlloc, counters, policyState, disk, process>>

Crash ==
  /\ process = "running" /\ process' = "crashed"
  /\ UNCHANGED <<tls, counters, policyState, disk, at, frame, program>>

LifecycleNext ==
  \/ Crash
  \/ \E t \in Callers :
       \/ Malloc(t) \/ ExplicitFreeze(t) \/ LoadModel(t)
       \/ \E tracked \in BOOLEAN : Free(t, tracked)
       \/ EnsureModelLoaded(t) \/ Boot(t) \/ Booted(t) \/ Alloc(t)
       \/ Lock(t) \/ Route(t) \/ Record(t) \/ Load(t) \/ FreezeState(t)
       \/ Published(t) \/ Poll(t) \/ AutoFreeze(t) \/ Swap(t) \/ Freeze(t)
       \/ Export(t) \/ Serialize(t) \/ WriteTmp(t) \/ Rename(t) \/ Leave(t)

\* A thread that holds the policy state, or runs the body of the once-cell, has
\* its allocator depth raised.  A malloc or free made there by Rust's own
\* collections is then served by the System backend and leaves no reward to
\* record (with_realloc_guard, with_bootstrap_guard), so it cannot come back for
\* the lock or the cell its own thread is in.
NestedBypasses ==
  \A t \in Callers : stateLock = t \/ once = t => inAlloc[t] > 0

\* With a readable model no allocation of the program is ever routed by a policy
\* in training, whichever thread comes first ("the process starts directly in
\* Inference mode with zero training"), a thread that sees frozen set, and so drops
\* its rewards, finds the table and the policy state of that freeze or load, and no
\* call made under the lock or by the loader comes back for either.
LoadedFirst ==
  /\ NestedBypasses
  /\ modelFile = "good" =>
       \A t \in Callers : at[t] = "locked" /\ why[t] = "route" => mode = "inference"
  /\ frozen => table /\ mode = "inference"

\* Threads that cross the threshold together freeze once: while the program makes
\* no control calls, the automatic freeze never meets a frozen state, even with a
\* model loaded at the first malloc ("freezes exactly once").  The model it
\* exports is absent or complete, whatever fails or crashes ("a crash mid-write
\* never leaves a truncated model").
FreezesAndExports ==
  /\ controls = {} => process # "aborted"
  /\ file # "part"

\* The process is never ended by its own freeze: FREEZE_FIRED is "set once the
\* auto-freeze (or an explicit freeze/model load) has happened", and freezing
\* twice is the panic of AllocatorState::freeze.
FreezesOnce == process # "aborted"

LifecycleSpec == LifecycleInit /\ [][LifecycleNext]_lcVars

=============================================================================
