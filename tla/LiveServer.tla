----------------------------- MODULE LiveServer -----------------------------
(***************************************************************************)
(* The requests of the live server that change what it has learnt          *)
(* (AppState and its handlers in server.rs): uploads of a trace, freeze,   *)
(* reset, a change of strategy, and telemetry records fed into the live    *)
(* allocator.                                                              *)
(*                                                                         *)
(* Every field of AppState has its own lock, so a request is a sequence of *)
(* short critical sections that others may come between.  A model is the   *)
(* number of its making, 0 no model; its routing table has its number.     *)
(***************************************************************************)
EXTENDS Integers, SequencesExt

CONSTANTS
  Requests,      \* requests under way at once
  Strategies,    \* strategy overrides
  RecordSizes,   \* sizes of telemetry records
  StampStep,     \* MIN_LIVE_TS_STEP_NS
  MaxClock,      \* bound: the epoch's clock
  MaxModels,     \* bound: models made
  MaxBlocks,     \* bound: blocks served by the live allocator
  MaxRequests    \* bound: requests

\* Sizes, and the least distance of two stamps, are numbers.
ASSUME LiveShape == RecordSizes \subseteq Nat /\ StampStep \in Nat

VARIABLES
  strategy,      \* AppState.strategy
  inference,     \* AppState.is_inference
  lastModel,     \* AppState.last_model
  routes,        \* AppState.routing_table
  livePolicy,    \* state of live_alloc: training or the number of its model
  poisoned,      \* its lock was held by a thread that panicked
  tracked,       \* live_allocations
  served,        \* the size of each block the allocator has handed out
  lastStamp,     \* live_ts_last
  clock,         \* live_epoch.elapsed()
  request,       \* what each request is at, with its locals
  made, asked,   \* history: models made, requests made
  stamps         \* history: time stamps given

liveVars == <<strategy, inference, lastModel, routes, livePolicy, poisoned, tracked,
              served, lastStamp, clock, request, made, asked, stamps>>

LiveTraining == -1

\* A request with what it was asked with, and one that is over.
Doing(at, model, size, seen, elapsed) ==
  [at |-> at, model |-> model, size |-> size, block |-> 0, seen |-> seen,
   elapsed |-> elapsed]
AtRest == Doing("idle", 0, 0, 0, 0)

serverMode == <<strategy, inference, lastModel, routes>>
engine     == <<livePolicy, poisoned>>
blocks     == <<tracked, served>>
time       == <<lastStamp, stamps>>

LiveInit ==
  /\ strategy = "default" /\ inference = FALSE /\ lastModel = 0 /\ routes = 0
  /\ livePolicy = LiveTraining /\ poisoned = FALSE
  /\ tracked = <<>> /\ served = <<>> /\ lastStamp = 0 /\ clock = 0
  /\ request = [r \in Requests |-> AtRest] /\ made = 0 /\ asked = 0 /\ stamps = <<>>

Request(r, to) ==
  /\ request[r] = AtRest /\ asked < MaxRequests
  /\ asked' = asked + 1
  /\ request' = [request EXCEPT ![r] = to]

On(r, s)       == request[r].at = s /\ UNCHANGED <<asked, clock>>
Proceeds(r, s) == request' = [request EXCEPT ![r].at = s]
Answer(r)      == request' = [request EXCEPT ![r] = AtRest]

Tick ==
  /\ clock < MaxClock /\ clock' = clock + 1
  /\ UNCHANGED <<serverMode, engine, blocks, time, request, made, asked>>

(***************************************************************************)
(* upload_trace_handler, freeze_live_handler and store_model.              *)
(***************************************************************************)

\* A trace is replayed under the strategy of the moment by an allocator of its own.
Upload(r) ==
  /\ made < MaxModels /\ made' = made + 1
  /\ Request(r, Doing("store", made', 0, 0, 0))
  /\ UNCHANGED <<serverMode, engine, blocks, time, clock>>

FreezeLive(r) ==
  /\ Request(r, IF inference THEN AtRest ELSE Doing("freeze", 0, 0, 0, 0))
  /\ UNCHANGED <<serverMode, engine, blocks, time, clock, made>>

\* Lohalloc::freeze skips a poisoned state, and panics in Inference mode with the
\* state locked; the request then ends without an answer.
FreezeAllocator(r) ==
  /\ On(r, "freeze") /\ made < MaxModels
  /\ IF poisoned
     THEN Proceeds(r, "export") /\ UNCHANGED <<engine, made>>
     ELSE IF livePolicy # LiveTraining
     THEN poisoned' = TRUE /\ Answer(r) /\ UNCHANGED <<livePolicy, made>>
     ELSE /\ made' = made + 1 /\ livePolicy' = made' /\ Proceeds(r, "export")
          /\ UNCHANGED poisoned
  /\ UNCHANGED <<serverMode, blocks, time>>

\* export gives nothing while training or poisoned.
ExportLive(r) ==
  /\ On(r, "export")
  /\ request' = [request EXCEPT ![r].at = "store",
                            ![r].model = IF poisoned \/ livePolicy = LiveTraining
                                         THEN 0 ELSE livePolicy]
  /\ UNCHANGED <<serverMode, engine, blocks, time, made>>

StoreModel(r) ==
  /\ On(r, "store") /\ Proceeds(r, "routes")
  /\ lastModel' = request[r].model
  /\ UNCHANGED <<strategy, inference, routes, engine, blocks, time, made>>

StoreRoutes(r) ==
  /\ On(r, "routes") /\ Proceeds(r, "inference")
  /\ routes' = request[r].model
  /\ UNCHANGED <<strategy, inference, lastModel, engine, blocks, time, made>>

SetInference(r) ==
  /\ On(r, "inference") /\ Answer(r)
  /\ inference' = TRUE
  /\ UNCHANGED <<strategy, lastModel, routes, engine, blocks, time, made>>

(***************************************************************************)
(* reset_training_handler and set_strategy_handler.                        *)
(***************************************************************************)

\* reset_to_training skips a poisoned state.
Reset(r) ==
  /\ Request(r, Doing("forget", 0, 0, 0, 0))
  /\ livePolicy' = IF poisoned THEN livePolicy ELSE LiveTraining
  /\ UNCHANGED <<serverMode, poisoned, blocks, time, clock, made>>

ForgetBlocks(r) ==
  /\ On(r, "forget") /\ Proceeds(r, "clear model") /\ tracked' = <<>>
  /\ UNCHANGED <<serverMode, engine, served, time, made>>

ClearModel(r) ==
  /\ On(r, "clear model") /\ Proceeds(r, "clear routes") /\ lastModel' = 0
  /\ UNCHANGED <<strategy, inference, routes, engine, blocks, time, made>>

SetStrategy(r, s) ==
  /\ Request(r, Doing("leave inference", 0, 0, 0, 0))
  /\ strategy' = s
  /\ UNCHANGED <<inference, lastModel, routes, engine, blocks, time, clock, made>>

\* A reset clears the table, then the mode; a strategy change the other way round.
ClearRoutes(r) ==
  /\ On(r, "clear routes") /\ Proceeds(r, "training") /\ routes' = 0
  /\ UNCHANGED <<strategy, inference, lastModel, engine, blocks, time, made>>

LeaveInference(r) ==
  /\ \/ On(r, "leave inference") /\ Proceeds(r, "clear table")
     \/ On(r, "training") /\ Answer(r)
  /\ inference' = FALSE
  /\ UNCHANGED <<strategy, lastModel, routes, engine, blocks, time, made>>

ClearTable(r) ==
  /\ On(r, "clear table") /\ Answer(r) /\ routes' = 0
  /\ UNCHANGED <<strategy, inference, lastModel, engine, blocks, time, made>>

(***************************************************************************)
(* post_telemetry_handler: next_live_timestamp, then feed_live_record.     *)
(***************************************************************************)

Telemetry(r, op, n) ==
  /\ Request(r, Doing(op, 0, n, lastStamp, clock))
  /\ UNCHANGED <<serverMode, engine, blocks, time, clock, made>>

\* The compare-and-swap fails if another stamp was given since the load.
StampOf(r) ==
  LET next == request[r].seen + StampStep
  IN  IF request[r].elapsed > next THEN request[r].elapsed ELSE next

Stamp(r) ==
  /\ On(r, "alloc") \/ On(r, "free")
  /\ IF lastStamp = request[r].seen
     THEN /\ lastStamp' = StampOf(r) /\ stamps' = Append(stamps, StampOf(r))
          /\ Proceeds(r, IF request[r].at = "alloc" THEN "serve" ELSE "match")
     ELSE /\ request' = [request EXCEPT ![r].seen = lastStamp] /\ UNCHANGED time
  /\ UNCHANGED <<serverMode, engine, blocks, made>>

\* alloc_with_hash; a null result is not tracked.
ServeLive(r) ==
  /\ On(r, "serve")
  /\ \/ /\ Len(served) < MaxBlocks
        /\ served' = Append(served, request[r].size)
        /\ request' = [request EXCEPT ![r].at = "track", ![r].block = Len(served')]
     \/ Answer(r) /\ UNCHANGED served
  /\ UNCHANGED <<serverMode, engine, tracked, time, made>>

Track(r) ==
  /\ On(r, "track") /\ Answer(r)
  /\ tracked' = Append(tracked, [block |-> request[r].block, size |-> request[r].size])
  /\ UNCHANGED <<serverMode, engine, served, time, made>>

\* Mutation: the entry matched stays in the list.
MatchKeeps(r) ==
  /\ On(r, "match")
  /\ LET same == {i \in DOMAIN tracked : tracked[i].size = request[r].size}
     IN  IF same = {} THEN Answer(r)
         ELSE request' = [request EXCEPT ![r].at = "give",
                                         ![r].block = tracked[Max(same)].block]
  /\ UNCHANGED <<serverMode, engine, tracked, served, time, made>>

\* rposition and swap_remove: the last entry of that size goes, and the last of
\* all takes its place.
Match(r) ==
  /\ On(r, "match")
  /\ LET same == {i \in DOMAIN tracked : tracked[i].size = request[r].size}
         i    == Max(same)
     IN  IF same = {} THEN Answer(r) /\ UNCHANGED tracked
         ELSE /\ request' = [request EXCEPT ![r].at = "give", ![r].block = tracked[i].block]
              /\ tracked' = Front([tracked EXCEPT ![i] = Last(tracked)])
  /\ UNCHANGED <<serverMode, engine, served, time, made>>

\* dealloc_with_hash, with the layout of the record.
GiveLive(r) ==
  /\ On(r, "give") /\ Answer(r)
  /\ served' = [served EXCEPT ![request[r].block] = @ - request[r].size]
  /\ UNCHANGED <<serverMode, engine, tracked, time, made>>

LiveNext ==
  \/ Tick
  \/ \E r \in Requests :
       \/ Upload(r) \/ FreezeLive(r) \/ FreezeAllocator(r) \/ ExportLive(r)
       \/ StoreModel(r) \/ StoreRoutes(r) \/ SetInference(r)
       \/ Reset(r) \/ ForgetBlocks(r) \/ ClearModel(r) \/ ClearRoutes(r)
       \/ \E s \in Strategies : SetStrategy(r, s)
       \/ LeaveInference(r) \/ ClearTable(r)
       \/ \E n \in RecordSizes : Telemetry(r, "alloc", n) \/ Telemetry(r, "free", n)
       \/ Stamp(r) \/ ServeLive(r) \/ Track(r) \/ Match(r) \/ GiveLive(r)

LiveSpec == LiveInit /\ [][LiveNext]_liveVars

\* A free that carries no pointer still gives back a block once and with the size
\* it was allocated for, whatever frees, allocations and resets come between: a
\* block is tracked once, or in the hands of one request, or never freed again.
BlocksPaired ==
  LET inHand == {r \in Requests : request[r].at \in {"track", "give"}}
  IN  /\ \A i, j \in DOMAIN tracked : tracked[i].block = tracked[j].block => i = j
      /\ \A i \in DOMAIN tracked : served[tracked[i].block] = tracked[i].size
      /\ \A r \in inHand :
           /\ served[request[r].block] = request[r].size
           /\ \A i \in DOMAIN tracked : tracked[i].block # request[r].block
           /\ \A q \in inHand \ {r} : request[q].block # request[r].block

\* No two records get the same stamp and none goes back, from however many
\* requests they come ("a strictly-increasing floor of MIN_LIVE_TS_STEP_NS").
StampsIncrease ==
  \A i \in 1 .. Len(stamps) - 1 : stamps[i] + StampStep <= stamps[i + 1]

\* What handlers of one connection each do with the shared log stays consistent.
LiveLogSound == BlocksPaired /\ StampsIncrease

\* When the server says training, the live allocator is training: "a strategy
\* change returns the allocator to Training mode".
ModeIsReal ==
  (\A r \in Requests : request[r] = AtRest) /\ ~inference => livePolicy = LiveTraining

=============================================================================
