------------------------------ MODULE ShimRing ------------------------------
(***************************************************************************)
(* The observer shim of a C program (shim/lohalloc_obs.c): threads of the  *)
(* program put telemetry records in a ring, one consumer thread posts them *)
(* to the server in batches, and the exit handler waits for it.            *)
(*                                                                         *)
(* The ring is under one mutex and no critical section blocks, so each is  *)
(* one step.  A record is named by the number of its emission.             *)
(***************************************************************************)
EXTENDS Integers, SequencesExt

CONSTANTS
  Emitters,      \* threads that emit
  RingCapacity,  \* RING_CAPACITY
  BatchSize,     \* BATCH_SIZE
  MaxEmits       \* bound: emissions

\* The two sizes are #defines of the shim, both above 0.
ASSUME ShimSizes == RingCapacity \in Nat \ {0} /\ BatchSize \in Nat \ {0}

VARIABLES
  initialized,  \* g_initialized: 0, 1 or 2
  stopping,     \* g_stopping
  started,      \* g_consumer_started
  head, tail,   \* g_head, g_tail
  ring,         \* g_ring
  dropped,      \* g_dropped
  emitter,      \* where each emitter is
  consumer,     \* where the consumer is
  batch,        \* the records it holds
  exiting,      \* where exit() is
  emitted,      \* history: emissions that reached the lock
  pushed,       \* history: records put in the ring
  posted        \* history: records written to the server's socket

shimVars == <<initialized, stopping, started, head, tail, ring, dropped, emitter,
              consumer, batch, exiting, emitted, pushed, posted>>

store == <<head, tail, ring, dropped, emitted, pushed>>
boot  == <<initialized, started>>
ends  == <<stopping, exiting>>

ShimTypeOK ==
  /\ initialized \in 0 .. 2 /\ stopping \in BOOLEAN /\ started \in BOOLEAN
  /\ head \in Nat /\ tail \in Nat /\ dropped \in Nat /\ emitted \in Nat
  /\ ring \in [0 .. RingCapacity - 1 -> Nat]
  /\ emitter \in [Emitters -> {"idle", "claim", "start", "ready", "spin", "push",
                               "wake"}]
  /\ consumer \in {"none", "boot", "check", "wait", "post", "advance", "test",
                   "done"}
  /\ exiting \in {"running", "broadcast", "join", "exited"}

ShimInit ==
  /\ initialized = 0 /\ stopping = FALSE /\ started = FALSE
  /\ head = 0 /\ tail = 0 /\ dropped = 0 /\ emitted = 0
  /\ ring = [i \in 0 .. RingCapacity - 1 |-> 0]
  /\ emitter = [e \in Emitters |-> "idle"]
  /\ consumer = "none" /\ batch = <<>> /\ exiting = "running"
  /\ pushed = <<>> /\ posted = <<>>

Alive      == exiting # "exited"
Step(e, s) == emitter' = [emitter EXCEPT ![e] = s]
On(e, s)   == Alive /\ emitter[e] = s

(***************************************************************************)
(* Producers: lohalloc_telemetry_emit and init_once.                       *)
(***************************************************************************)

Emit(e) ==
  /\ On(e, "idle") /\ emitted < MaxEmits
  /\ Step(e, IF initialized = 0 THEN "claim" ELSE "push")
  /\ UNCHANGED <<boot, ends, store, consumer, batch, posted>>

\* One caller initializes, another that found 0 spins until it has.
Claim(e) ==
  /\ On(e, "claim")
  /\ IF initialized = 0 THEN initialized' = 1 /\ Step(e, "start")
                        ELSE Step(e, "spin") /\ UNCHANGED initialized
  /\ UNCHANGED <<started, ends, store, consumer, batch, posted>>

\* pthread_create may fail, and the ring is then never read.
Start(e) ==
  /\ On(e, "start") /\ Step(e, "ready")
  /\ \/ consumer' = "boot" /\ started' = TRUE
     \/ UNCHANGED <<consumer, started>>
  /\ UNCHANGED <<initialized, ends, store, batch, posted>>

Ready(e) ==
  /\ On(e, "ready") /\ initialized' = 2 /\ Step(e, "push")
  /\ UNCHANGED <<started, ends, store, consumer, batch, posted>>

Spin(e) ==
  /\ On(e, "spin") /\ initialized = 2 /\ Step(e, "push")
  /\ UNCHANGED <<boot, ends, store, consumer, batch, posted>>

\* Mutation: an off-by-one in the test for a full ring.
PushOneMore(e) ==
  /\ On(e, "push")
  /\ emitted' = emitted + 1
  /\ IF head - tail > RingCapacity
     THEN /\ dropped' = dropped + 1 /\ Step(e, "idle")
          /\ UNCHANGED <<head, ring, pushed>>
     ELSE /\ ring' = [ring EXCEPT ![head % RingCapacity] = emitted']
          /\ head' = head + 1 /\ pushed' = Append(pushed, emitted')
          /\ Step(e, IF head = tail THEN "wake" ELSE "idle")
          /\ UNCHANGED dropped
  /\ UNCHANGED <<boot, ends, tail, consumer, batch, posted>>

Push(e) ==
  /\ On(e, "push")
  /\ emitted' = emitted + 1
  /\ IF head - tail >= RingCapacity
     THEN /\ dropped' = dropped + 1 /\ Step(e, "idle")
          /\ UNCHANGED <<head, ring, pushed>>
     ELSE /\ ring' = [ring EXCEPT ![head % RingCapacity] = emitted']
          /\ head' = head + 1 /\ pushed' = Append(pushed, emitted')
          /\ Step(e, IF head = tail THEN "wake" ELSE "idle")
          /\ UNCHANGED dropped
  /\ UNCHANGED <<boot, ends, tail, consumer, batch, posted>>

\* consumer_wake: a signal reaches the consumer only if it waits.
Signalled == IF consumer = "wait" THEN "check" ELSE consumer

Wake(e) ==
  /\ On(e, "wake") /\ Step(e, "idle")
  /\ consumer' = Signalled
  /\ UNCHANGED <<boot, ends, store, batch, posted>>

(***************************************************************************)
(* consumer_main.                                                          *)
(***************************************************************************)

ConsumerAt(s, to) == Alive /\ consumer = s /\ consumer' = to

\* The consumer allocates its buffers; without them it returns at once.
ConsumerStarts ==
  /\ ConsumerAt("boot", "check") \/ ConsumerAt("boot", "done")
  /\ UNCHANGED <<boot, ends, store, emitter, batch, posted>>

\* A wait may end for no reason.
SpuriousWakeup ==
  /\ ConsumerAt("wait", "check")
  /\ UNCHANGED <<boot, ends, store, emitter, batch, posted>>

\* The predicate of the wait, and snapshot_batch in the same critical section.
Check ==
  /\ Alive /\ consumer = "check"
  /\ LET waiting == IF head - tail > BatchSize THEN BatchSize ELSE head - tail
     IN  /\ batch' = [i \in 1 .. waiting |-> ring[(tail + i - 1) % RingCapacity]]
         /\ consumer' = IF waiting > 0 THEN "post"
                        ELSE IF stopping THEN "test" ELSE "wait"
  /\ UNCHANGED <<boot, ends, store, emitter, posted>>

\* http_post_telemetry: both attempts fail, or one writes the whole request.
PostFails ==
  /\ ConsumerAt("post", "test")
  /\ UNCHANGED <<boot, ends, store, emitter, batch, posted>>

PostSucceeds ==
  /\ ConsumerAt("post", "advance")
  /\ posted' = posted \o batch
  /\ UNCHANGED <<boot, ends, store, emitter, batch>>

AdvanceTail ==
  /\ ConsumerAt("advance", "test")
  /\ tail' = tail + Len(batch) /\ batch' = <<>>
  /\ UNCHANGED <<boot, ends, head, ring, dropped, emitted, pushed, emitter, posted>>

\* head and tail are read outside the lock.
Test ==
  /\ Alive /\ consumer = "test"
  /\ consumer' = IF stopping /\ head = tail THEN "done" ELSE "check"
  /\ UNCHANGED <<boot, ends, store, emitter, batch, posted>>

(***************************************************************************)
(* atexit_flush, while other threads still run.                            *)
(***************************************************************************)

Exit ==
  /\ exiting = "running" /\ initialized = 2
  /\ stopping' = TRUE /\ exiting' = "broadcast"
  /\ UNCHANGED <<boot, store, emitter, consumer, batch, posted>>

\* Mutation: the consumer is not woken at exit.
JoinUnsignalled ==
  /\ exiting = "broadcast" /\ exiting' = "join"
  /\ UNCHANGED <<boot, stopping, store, emitter, consumer, batch, posted>>

Broadcast ==
  /\ exiting = "broadcast" /\ exiting' = "join"
  /\ consumer' = Signalled
  /\ UNCHANGED <<boot, stopping, store, emitter, batch, posted>>

Join ==
  /\ exiting = "join" /\ (started => consumer = "done")
  /\ exiting' = "exited" /\ started' = FALSE
  /\ UNCHANGED <<initialized, stopping, store, emitter, consumer, batch, posted>>

EmitterNext(e) ==
  Claim(e) \/ Start(e) \/ Ready(e) \/ Spin(e) \/ Push(e) \/ Wake(e)

ConsumerNext == ConsumerStarts \/ Check \/ AdvanceTail \/ Test

ShimNext ==
  \/ \E e \in Emitters : Emit(e) \/ EmitterNext(e)
  \/ ConsumerNext \/ SpuriousWakeup \/ PostFails \/ PostSucceeds
  \/ Exit \/ Broadcast \/ Join

(***************************************************************************)
(* A thread that can run does, and a server that is asked again and again  *)
(* answers some time.                                                      *)
(***************************************************************************)
ShimFair ==
  /\ \A e \in Emitters : WF_shimVars(EmitterNext(e))
  /\ WF_shimVars(ConsumerNext) /\ SF_shimVars(PostSucceeds)
  /\ WF_shimVars(Broadcast) /\ WF_shimVars(Join)

ShimSpec == ShimInit /\ [][ShimNext]_shimVars /\ ShimFair

\* The consumer never sleeps over work: with records in the ring, or the exit
\* begun, a thread is about to signal it (the was_empty test is made under the
\* lock, the signal after it).
NoLostWakeup ==
  consumer = "wait" =>
    /\ head # tail => \E e \in Emitters : emitter[e] = "wake"
    /\ stopping => exiting = "broadcast"

\* The server is sent exactly the records that entered the ring, in their order
\* and each once, however often a post is retried and wherever the ring wraps; a
\* record that did not enter is counted ("drops on full (counter++)", and the
\* tail that "only advances on the next iteration"); and none stays there because
\* nobody wakes the consumer.
RingDelivers ==
  /\ IsPrefix(posted, pushed)
  /\ tail = Len(posted) - (IF consumer = "advance" THEN Len(batch) ELSE 0)
  /\ emitted = Len(pushed) + dropped
  /\ NoLostWakeup

\* exit() returns: "the consumer drains anything still buffered" and leaves, as
\* long as the server answers and the program stops emitting.
ExitReturns == exiting = "join" ~> exiting = "exited"

=============================================================================
