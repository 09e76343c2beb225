---------------------------- MODULE TraceReplay ----------------------------
(***************************************************************************)
(* Traces replayed by the server (replay.rs) and the telemetry that leaves *)
(* it (telemetry.rs, handle_telemetry_socket).                             *)
(*                                                                         *)
(* Uploads run at the same time, each through an allocator of its own.     *)
(* Their records go to one broadcast, which every socket reads at its own  *)
(* pace, and to one bounded channel.  A block is named by the operation    *)
(* that allocated it.                                                      *)
(***************************************************************************)
EXTENDS Integers, Sequences, FiniteSets, SequencesExt, FiniteSetsExt

CONSTANTS
  Uploads, Sockets,   \* requests, connections
  TextsOf,            \* the traces each may hold, as text: sequences of
                      \* [form, ts, op, size]; the form of a line is
                      \* "blank", "header", "op" or "bad"
  Interval,           \* SYNTHETIC_OP_INTERVAL_NS
  Capacity,           \* of the bounded channel
  Retained,           \* of the broadcast
  FailingSizes        \* sizes an allocation may fail for

ASSUME ReplayShape == Interval \in Nat \ {0} /\ Retained \in Nat

VARIABLES
  phase, ops, op_index,  \* of each upload: what it does, its trace, the next operation
  live, allocs, frees,   \* of each upload: its blocks, in the order of the vector
  executed,              \* ops_executed
  storedModel,           \* AppState.last_model: the upload it is from
  records,               \* what was sent, as a history
  channel, drained,      \* indices of records: in the channel, the last one taken
  socket, next,          \* of each connection: open or not, the next record
  start, last,           \* where it subscribed, the last record it was sent
  sent, missed           \* how many it was sent, and how many it lagged behind

queues   == <<channel, drained>>
readers  == <<socket, next, start, last, sent, missed>>
trVars == <<phase, ops, op_index, live, allocs, frees, executed, storedModel, records,
            channel, drained, socket, next, start, last, sent, missed>>

NoModel == "none"
Nothing == 0

TrInit ==
  /\ phase = [u \in Uploads |-> "new"]
  /\ ops = [u \in Uploads |-> <<>>] /\ op_index = [u \in Uploads |-> 1]
  /\ live = [u \in Uploads |-> <<>>]
  /\ allocs = [u \in Uploads |-> 0] /\ frees = [u \in Uploads |-> 0]
  /\ executed = [u \in Uploads |-> 0]
  /\ storedModel = NoModel
  /\ records = <<>> /\ channel = <<>> /\ drained = 0
  /\ socket = [s \in Sockets |-> "new"]
  /\ next = [s \in Sockets |-> 1] /\ start = [s \in Sockets |-> 1]
  /\ last = [s \in Sockets |-> 0]
  /\ sent = [s \in Sockets |-> 0] /\ missed = [s \in Sockets |-> 0]

\* parse_csv_trace: blank lines are skipped, and a header that is the first line.
Lines(text) ==
  LET kept(i) == text[i].form # "blank" /\ ~(i = 1 /\ text[i].form = "header")
  IN  [k \in 1 .. Cardinality({i \in 1 .. Len(text) : kept(i)}) |->
         text[CHOOSE i \in 1 .. Len(text) :
                kept(i) /\ Cardinality({j \in 1 .. i : kept(j)}) = k]]

ParseFails(text) == \E k \in 1 .. Len(Lines(text)) : Lines(text)[k].form # "op"

\* The timestamps are indices or placeholders: they span less than the operations are.
TimestampsAreDegenerate(trace) ==
  LET stamps == {trace[i].ts : i \in 1 .. Len(trace)}
  IN  Len(trace) >= 2 /\ Max(stamps) - Min(stamps) < Len(trace)

RecordTs(u) ==
  IF TimestampsAreDegenerate(ops[u]) THEN (op_index[u] - 1) * Interval ELSE ops[u][op_index[u]].ts

\* The fragmentation estimate, in percent, from the counts after the operation.
FragmentationPct(l, a, f) ==
  IF a = 0 THEN 0
  ELSE LET churn == IF f < a THEN f ELSE a
       IN  Min({100, (60 * l * a + 30 * churn * a + 10 * l * churn) \div (a * a)})

\* TelemetrySender::send: the broadcast takes every record, the channel what fits.
SendRecord(rec) ==
  /\ records' = Append(records, rec)
  /\ channel' = IF Len(channel) < Capacity THEN Append(channel, Len(records) + 1)
                ELSE channel
  /\ UNCHANGED <<drained, readers>>

\* A trace is uploaded; one that does not parse is refused.
ReplayTrace(u, text) ==
  /\ phase[u] = "new"
  /\ IF ParseFails(text)
     THEN phase' = [phase EXCEPT ![u] = "refused"] /\ UNCHANGED ops
     ELSE /\ phase' = [phase EXCEPT ![u] = "running"]
          /\ ops' = [ops EXCEPT ![u] = Lines(text)]
  /\ UNCHANGED <<op_index, live, allocs, frees, executed, storedModel, records, queues, readers>>

Next1(u, op) ==
  /\ phase[u] = "running" /\ op_index[u] <= Len(ops[u]) /\ ops[u][op_index[u]].op = op
  /\ op_index' = [op_index EXCEPT ![u] = @ + 1]
  /\ UNCHANGED <<phase, ops, storedModel>>

TelemetryRecord(u, block, frag) ==
  [upload |-> u, op |-> op_index[u], ts |-> RecordTs(u), block |-> block, frag |-> frag]

AllocOk(u) ==
  /\ Next1(u, "alloc")
  /\ live' = [live EXCEPT ![u] = Append(@, op_index[u])]
  /\ allocs' = [allocs EXCEPT ![u] = @ + 1]
  /\ executed' = [executed EXCEPT ![u] = @ + 1]
  /\ SendRecord(TelemetryRecord(u, op_index[u],
                  FragmentationPct(Len(live[u]) + 1, allocs[u] + 1, frees[u])))
  /\ UNCHANGED frees

\* A failed allocation is reported but not counted as executed.
AllocFails(u) ==
  /\ Next1(u, "alloc") /\ ops[u][op_index[u]].size \in FailingSizes
  /\ SendRecord(TelemetryRecord(u, Nothing, FragmentationPct(Len(live[u]), allocs[u], 0)))
  /\ UNCHANGED <<live, allocs, frees, executed>>

\* The last block in the vector with the size of the free.
Matches(u) == {i \in 1 .. Len(live[u]) : ops[u][live[u][i]].size = ops[u][op_index[u]].size}

\* Mutation: the last element leaves, whichever was found.
PopsLast(l, i) == SubSeq(l, 1, Len(l) - 1)

\* swap_remove: the last element takes the place of the one removed.
SwapRemove(l, i) == [k \in 1 .. Len(l) - 1 |-> IF k = i THEN l[Len(l)] ELSE l[k]]

FreeOp(u) ==
  /\ Next1(u, "free")
  /\ executed' = [executed EXCEPT ![u] = @ + 1]
  /\ IF Matches(u) = {}
     THEN /\ SendRecord(TelemetryRecord(u, Nothing,
                          FragmentationPct(Len(live[u]), allocs[u], frees[u])))
          /\ UNCHANGED <<live, frees>>
     ELSE /\ live' = [live EXCEPT ![u] = SwapRemove(@, Max(Matches(u)))]
          /\ frees' = [frees EXCEPT ![u] = @ + 1]
          /\ SendRecord(TelemetryRecord(u, live[u][Max(Matches(u))],
                          FragmentationPct(Len(live[u]) - 1, allocs[u], frees[u] + 1)))
  /\ UNCHANGED allocs

\* The allocator is frozen and exported, and the model stored.
Finish(u) ==
  /\ phase[u] = "running" /\ op_index[u] > Len(ops[u])
  /\ phase' = [phase EXCEPT ![u] = "done"]
  /\ storedModel' = u
  /\ UNCHANGED <<ops, op_index, live, allocs, frees, executed, records, queues, readers>>

replay == <<phase, ops, op_index, live, allocs, frees, executed, storedModel, records>>

\* drain and recv_batch take all there is.
Drain ==
  /\ channel # <<>>
  /\ drained' = channel[Len(channel)] /\ channel' = <<>>
  /\ UNCHANGED <<replay, readers>>

\* handle_telemetry_socket: subscribe, then forward.
Connect(s) ==
  /\ socket[s] = "new"
  /\ socket' = [socket EXCEPT ![s] = "open"]
  /\ next' = [next EXCEPT ![s] = Len(records) + 1]
  /\ start' = [start EXCEPT ![s] = Len(records) + 1]
  /\ UNCHANGED <<replay, queues, last, sent, missed>>

\* recv and send: a socket that has fallen behind what is retained skips to the oldest.
Oldest == IF Len(records) > Retained THEN Len(records) - Retained + 1 ELSE 1

Recv(s) ==
  /\ socket[s] = "open" /\ next[s] <= Len(records)
  /\ IF next[s] < Oldest
     THEN /\ next' = [next EXCEPT ![s] = Oldest]
          /\ missed' = [missed EXCEPT ![s] = @ + Oldest - next[s]]
          /\ UNCHANGED <<last, sent>>
     ELSE /\ next' = [next EXCEPT ![s] = @ + 1]
          /\ last' = [last EXCEPT ![s] = next[s]]
          /\ sent' = [sent EXCEPT ![s] = @ + 1]
          /\ UNCHANGED missed
  /\ UNCHANGED <<replay, queues, socket, start>>

\* The client goes away, or the send fails: both ends are dropped.
Close(s) ==
  /\ socket[s] = "open"
  /\ socket' = [socket EXCEPT ![s] = "closed"]
  /\ next' = [next EXCEPT ![s] = 1] /\ start' = [start EXCEPT ![s] = 1]
  /\ last' = [last EXCEPT ![s] = 0]
  /\ sent' = [sent EXCEPT ![s] = 0] /\ missed' = [missed EXCEPT ![s] = 0]
  /\ UNCHANGED <<replay, queues>>

TrNext ==
  \/ \E u \in Uploads :
       \/ \E text \in TextsOf[u] : ReplayTrace(u, text)
       \/ AllocOk(u) \/ AllocFails(u) \/ FreeOp(u) \/ Finish(u)
  \/ Drain
  \/ \E s \in Sockets : Connect(s) \/ Recv(s) \/ Close(s)

TrSpec == TrInit /\ [][TrNext]_trVars

\* The records of an upload, and those that name a block it freed.
Of(u)    == {i \in 1 .. Len(records) : records[i].upload = u}
Frees(u) == {i \in Of(u) : records[i].block # Nothing
                           /\ ops[u][records[i].op].op = "free"}

\* Every operation of a trace is reported once and in order, whatever else is
\* replayed meanwhile.  What a trace frees is a block of that size that it allocated
\* before and has not freed, and what it has not freed is what it still holds.  When
\* the timestamps are made up they tell the operations apart, and the fragmentation
\* is a percentage.  A socket is sent what it did not lag behind, once and in order,
\* and the channel holds records in order.
ReplayFaithful ==
  /\ \A u \in Uploads :
       /\ \A i, j \in Of(u) : i < j =>
            /\ records[i].op < records[j].op
            /\ TimestampsAreDegenerate(ops[u]) => records[i].ts < records[j].ts
       /\ Cardinality(Of(u)) = op_index[u] - 1
       /\ \A i \in Frees(u) :
            /\ records[i].block < records[i].op
            /\ ops[u][records[i].block].op = "alloc"
            /\ ops[u][records[i].block].size = ops[u][records[i].op].size
            /\ \A j \in Frees(u) : records[j].block = records[i].block => i = j
       /\ {live[u][i] : i \in 1 .. Len(live[u])}
            = {records[i].block : i \in Of(u)} \ ({Nothing} \cup
                 {records[i].block : i \in Frees(u)})
       /\ Len(live[u]) = allocs[u] - frees[u]
       /\ \A i \in Of(u) : records[i].frag \in 0 .. 100
  /\ \A s \in Sockets :
       /\ next[s] - start[s] = sent[s] + missed[s]
       /\ last[s] < next[s]
       /\ last[s] # 0 => last[s] >= start[s]
  /\ \A i \in 1 .. Len(channel) :
       channel[i] > (IF i = 1 THEN drained ELSE channel[i - 1])

\* Not so: a free takes the newest block of its size (replay.rs 363, "the most recent
\* live allocation of matching size (LIFO)").  swap_remove has moved another one.
FreesNewest ==
  \A u \in Uploads : \A i \in Frees(u) :
    \A b \in {records[j].block : j \in Of(u)} \ {Nothing} :
      (/\ ops[u][b].op = "alloc" /\ b > records[i].block /\ b < records[i].op
       /\ ops[u][b].size = ops[u][records[i].op].size)
        => \E j \in Frees(u) : j < i /\ records[j].block = b

=============================================================================
