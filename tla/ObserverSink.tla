---------------------------- MODULE ObserverSink ----------------------------
(***************************************************************************)
(* The observer hooks of the allocator (observer.rs and its call sites in  *)
(* lib.rs), compiled in with the feature telemetry-observer.               *)
(*                                                                         *)
(* A sink may come and go at any time.  A call asks twice whether there is *)
(* one: at the hook, before it makes a record, and when it emits it.  An   *)
(* allocation also asks when it begins, to note its time of start, which   *)
(* is one variable per thread that nested allocations share.               *)
(*                                                                         *)
(* The hooks are where headers are written and read: blocks without one    *)
(* come and go unobserved.                                                 *)
(***************************************************************************)
EXTENDS Integers

CONSTANTS
  HookThreads,  \* threads
  HookBlocks,
  MaxNow        \* bound: ticks of the clock

\* There is a block, of which a call that has none yet may hold the name.
ASSUME SomeBlock == HookBlocks # {}

VARIABLES
  sink,             \* SINK is not null
  sink_headerless,  \* the instance serves blocks without a header
  now,
  startNs,     \* ALLOC_START_NS of each thread
  hooks,       \* the call of each thread
  used,        \* of each block: "free", or served with a "header" or "raw"
  heard,       \* the last record the sink got of each block
  unheard,      \* history: a header block was allocated or freed since, and no
               \* sink was there to be told
  took         \* history: how long the allocation heard of last really took

obVars == <<sink, sink_headerless, now, startNs, hooks, used, heard, unheard, took>>

\* TelemetryCRecord::alloc, TelemetryCRecord::free
AllocRecord(latency) == [op |-> "alloc", latency |-> latency]
FreeRecord           == [op |-> "free", latency |-> 0]

\* What a call does next, with which block; when it began, and whether it noted it.
HookCall(step, b, began, noted) ==
  [step |-> step, block |-> b, began |-> began, noted |-> noted]
AnyBlock == CHOOSE b \in HookBlocks : TRUE
Idle     == HookCall("idle", AnyBlock, 0, FALSE)

HookGoes(t, step)    == hooks' = [hooks EXCEPT ![t].step = step]
HookEnds(t)      == hooks' = [hooks EXCEPT ![t] = Idle]
BlockBecomes(b, what) == used' = [used EXCEPT ![b] = what]

ObInit ==
  /\ sink = FALSE /\ sink_headerless = FALSE /\ now = 0
  /\ startNs = [t \in HookThreads |-> 0] /\ hooks = [t \in HookThreads |-> Idle]
  /\ used = [b \in HookBlocks |-> "free"] /\ heard = [b \in HookBlocks |-> FreeRecord]
  /\ unheard = [b \in HookBlocks |-> FALSE] /\ took = [b \in HookBlocks |-> 0]

\* install_sink, clear_sink
InstallSink ==
  /\ ~sink /\ sink' = TRUE
  /\ UNCHANGED <<sink_headerless, now, startNs, hooks, used, heard, unheard, took>>
ClearSink ==
  /\ sink /\ sink' = FALSE
  /\ UNCHANGED <<sink_headerless, now, startNs, hooks, used, heard, unheard, took>>

\* What makes an instance sink_headerless, latched once.
LatchHooks ==
  /\ ~sink_headerless /\ sink_headerless' = TRUE
  /\ UNCHANGED <<sink, now, startNs, hooks, used, heard, unheard, took>>

ClockTicks ==
  /\ now < MaxNow /\ now' = now + 1
  /\ UNCHANGED <<sink, sink_headerless, startNs, hooks, used, heard, unheard, took>>

NoteStart(t) == startNs' = [startNs EXCEPT ![t] = IF sink THEN now ELSE @]

\* The sink gets a record of block b, or is not there any more.
Emit(b, record, took_) ==
  IF sink
  THEN /\ heard' = [heard EXCEPT ![b] = record] /\ took' = [took EXCEPT ![b] = took_]
       /\ unheard' = [unheard EXCEPT ![b] = FALSE]
  ELSE unheard' = [unheard EXCEPT ![b] = TRUE] /\ UNCHANGED <<heard, took>>

-----------------------------------------------------------------------------
(* alloc.                                                                   *)

BeginHook(t) ==
  /\ hooks[t].step = "idle"
  /\ NoteStart(t)
  /\ hooks' = [hooks EXCEPT ![t] = HookCall("route", AnyBlock, now, sink)]
  /\ UNCHANGED <<sink, sink_headerless, now, used, heard, unheard, took>>

\* The decision allocates for itself: it begins as every allocation does, and is
\* served at once.
Nested(t) ==
  /\ hooks[t].step = "route" /\ NoteStart(t)
  /\ UNCHANGED <<sink, sink_headerless, now, hooks, used, heard, unheard, took>>

Serve(t, b) ==
  /\ hooks[t].step = "route" /\ used[b] = "free"
  /\ IF sink_headerless
     THEN BlockBecomes(b, "raw") /\ HookEnds(t)
     ELSE /\ BlockBecomes(b, "header")
          /\ hooks' = [hooks EXCEPT ![t].step = "written", ![t].block = b]
  /\ UNCHANGED <<sink, sink_headerless, now, startNs, heard, unheard, took>>

\* write_header: the hook.
AllocHook(t) ==
  /\ hooks[t].step = "written"
  /\ IF sink THEN HookGoes(t, "emit") /\ UNCHANGED unheard
     ELSE HookEnds(t) /\ unheard' = [unheard EXCEPT ![hooks[t].block] = TRUE]
  /\ UNCHANGED <<sink, sink_headerless, now, startNs, used, heard, took>>

Elapsed(since) == IF now > since THEN now - since ELSE 0

\* emit_alloc
EmitAlloc(t) ==
  /\ hooks[t].step = "emit" /\ HookEnds(t)
  /\ LET latency == Elapsed(startNs[t])
     IN  Emit(hooks[t].block, AllocRecord(latency),
              IF hooks[t].noted THEN Elapsed(hooks[t].began) ELSE latency)
  /\ UNCHANGED <<sink, sink_headerless, now, startNs, used>>

-----------------------------------------------------------------------------
(* dealloc, of a block that no call is busy with.                           *)

Held(b) == used[b] # "free" /\ \A t \in HookThreads : hooks[t] = Idle \/ hooks[t].block # b
                                                  \/ hooks[t].step = "route"

\* Mutation: the block is given back, then its free is reported.
FreeFirst(t, b) ==
  /\ hooks[t].step = "idle" /\ Held(b) /\ used[b] = "header"
  /\ BlockBecomes(b, "free")
  /\ hooks' = [hooks EXCEPT ![t] = HookCall("report", b, 0, FALSE)]
  /\ UNCHANGED <<sink, sink_headerless, now, startNs, heard, unheard, took>>

\* dealloc_with_header: the hook, before the block is given back.
FreeHook(t, b) ==
  /\ hooks[t].step = "idle" /\ Held(b) /\ used[b] = "header"
  /\ hooks' = [hooks EXCEPT ![t] = HookCall(IF sink THEN "report" ELSE "release", b, 0, FALSE)]
  /\ unheard' = [unheard EXCEPT ![b] = @ \/ ~sink]
  /\ UNCHANGED <<sink, sink_headerless, now, startNs, used, heard, took>>

\* emit_free
EmitFree(t) ==
  /\ hooks[t].step = "report" /\ HookGoes(t, "release")
  /\ Emit(hooks[t].block, FreeRecord, 0)
  /\ UNCHANGED <<sink, sink_headerless, now, startNs, used>>

Release(t) ==
  /\ hooks[t].step = "release" /\ HookEnds(t) /\ BlockBecomes(hooks[t].block, "free")
  /\ UNCHANGED <<sink, sink_headerless, now, startNs, heard, unheard, took>>

\* headerless_free_attributed
FreeRaw(t, b) ==
  /\ hooks[t].step = "idle" /\ Held(b) /\ used[b] = "raw" /\ BlockBecomes(b, "free")
  /\ UNCHANGED <<sink, sink_headerless, now, startNs, hooks, heard, unheard, took>>

ObNext ==
  \/ InstallSink \/ ClearSink \/ LatchHooks \/ ClockTicks
  \/ \E t \in HookThreads : BeginHook(t) \/ Nested(t) \/ AllocHook(t) \/ EmitAlloc(t)
                        \/ EmitFree(t) \/ Release(t)
  \/ \E t \in HookThreads, b \in HookBlocks : Serve(t, b) \/ FreeHook(t, b) \/ FreeRaw(t, b)

ObSpec == ObInit /\ [][ObNext]_obVars

-----------------------------------------------------------------------------

\* What the sink was told of a block is true of it, in every order of the threads
\* that pass it on: a block it heard allocated last is in use with a header, and one
\* that the program holds with a header was heard allocated, unless the sink was away
\* when that changed.  The latency it was told is not longer than the call.
SinkAgrees ==
  \A b \in HookBlocks :
    /\ ~unheard[b] =>
         /\ heard[b].op = "alloc" => used[b] = "header"
         /\ Held(b) /\ used[b] = "header" => heard[b].op = "alloc"
    /\ heard[b].latency <= took[b]

\* "The single chokepoint every successful allocation flows through."
EveryAllocationSeen ==
  \A b \in HookBlocks : ~unheard[b] /\ Held(b) => heard[b].op = "alloc"

\* "Latency is computed as the elapsed time since the allocation started."
LatencyExact == \A b \in HookBlocks : heard[b].latency = took[b]

=============================================================================
