---------------------------- MODULE RewardBatches ----------------------------
(***************************************************************************)
(* What training learns of one arm of one signature (state.rs, bandit.rs). *)
(*                                                                         *)
(* A measured latency enters a histogram of the arm and is cut down to a   *)
(* percentile of it (winsorize_latency), then joins a batch; a full batch  *)
(* becomes one reward, credited once per sample.  This happens up to three *)
(* times per sample: for the arm (record_latency), for the arm in the      *)
(* context of its allocation (record_fine_latency) and, for an allocation  *)
(* and with escalation on, in its deep context (record_fine_deep_latency). *)
(* The three share the histogram and one critical section of the policy's  *)
(* lock.  RewardTraining has the batches of several arms and threads; here *)
(* are their contents.                                                     *)
(*                                                                         *)
(* Rewards are in units of 1 / Scale, rounded down.                        *)
(***************************************************************************)
EXTENDS RewardTraining, FiniteSetsExt, Functions

CONSTANTS
  Latencies,       \* measured latencies
  MaxLatency,      \* u64::MAX
  Totals,          \* sizes asked for, with their headers
  ReservedFor,     \* what the arm's backend reserves for each: its class, its
                   \* block or its pages, or the size if it does not say
  ArmContexts,     \* shallow contexts, and deep ones
  NoSample,        \* CTX_UNTRACKED
  Buckets,         \* LATENCY_HIST_BUCKETS
  Edges,           \* of the buckets: 2^0, 2^1, ..
  Percentiles,     \* settings of clamp_percentile
  TRef,            \* t_ref_ns
  FragWeight,      \* frag_weight, in hundredths
  Scale,
  MaxTaken         \* bound: samples taken

\* What tune.rs takes, with a reference latency and a weight of the signs every focus
\* has.
ASSUME EvidenceShape ==
  /\ Buckets \in Nat \ {0} /\ Edges \in [0 .. Buckets -> Nat]
  /\ FullBatch \in Nat \ {0} /\ {TRef, Scale} \subseteq Nat \ {0} /\ FragWeight \in Nat
  /\ MaxLatency \in Nat /\ Latencies \subseteq 0 .. MaxLatency /\ Latencies # {}
  /\ Totals \subseteq Nat \ {0} /\ Totals # {} /\ ReservedFor \in [Totals -> Nat]
  /\ Percentiles \subseteq 0 .. 100 /\ IsFiniteSet(ArmContexts)

VARIABLES
  clamp, escalate,     \* clamp_percentile; escalate_variance > 0
  hist,                \* LatencyHist.buckets of the arm
  batch, fineBatch, deepBatch,   \* the open batches, the last two per context
  arm, fineArm, deepArm,   \* what was credited: sum of rewards and samples
  seen, given          \* history: latencies recorded in the histogram, and
                       \* samples taken, by kind

rbVars == <<clamp, escalate, hist, batch, fineBatch, deepBatch, arm, fineArm, deepArm,
            seen, given>>

NoBatch  == [latency |-> 0, frag |-> 0, count |-> 0]
NoReward == [sum |-> 0, count |-> 0]

RbInit ==
  /\ clamp \in Percentiles /\ escalate \in BOOLEAN
  /\ hist = [b \in 0 .. Buckets - 1 |-> 0]
  /\ batch = NoBatch /\ arm = NoReward
  /\ fineBatch = [c \in ArmContexts |-> NoBatch] /\ deepBatch = fineBatch
  /\ fineArm = [c \in ArmContexts |-> NoReward] /\ deepArm = fineArm
  /\ seen = [l \in Latencies |-> 0]
  /\ given = [coarse |-> 0, fine |-> 0, deep |-> 0]

Total(f) == FoldFunction(+, 0, f)

-----------------------------------------------------------------------------
(* LatencyHist.                                                             *)

\* bucket_of: the last bucket also takes what is beyond it.
BucketOf(l) == Max({b \in 0 .. Buckets - 1 : b = 0 \/ Edges[b] <= l})

HistRecord(h, l) == [h EXCEPT ![BucketOf(l)] = @ + 1]

\* The 1-based rank of the percentile among n samples.
Rank(n, pct) ==
  LET up == (n * pct + 99) \div 100
  IN  IF up > 1 THEN up ELSE 1

\* Mutation: the lower edge of the bucket.
LowerEdge(h, pct) ==
  LET upTo(b) == Total([i \in 0 .. b |-> h[i]])
  IN  Edges[Min({b \in 0 .. Buckets - 1 : upTo(b) >= Rank(Total(h), pct)})]

\* quantile, of a histogram that is not empty: the upper edge of the bucket that
\* holds the percentile.
Quantile(h, pct) ==
  LET upTo(b) == Total([i \in 0 .. b |-> h[i]])
  IN  Edges[1 + Min({b \in 0 .. Buckets - 1 : upTo(b) >= Rank(Total(h), pct)})]

Lesser(a, b) == IF a < b THEN a ELSE b

\* winsorize_latency cuts by the histogram that has the sample already; the first
\* samples, and all when the percentile is 0, pass as they are.
Winsorized(h, l) ==
  IF clamp = 0 \/ Total(h) < FullBatch THEN l ELSE Lesser(l, Quantile(h, clamp))

-----------------------------------------------------------------------------
(* Batches.                                                                 *)

\* frag_pct_for: the share of what is reserved that is not asked for.
FragPct(total) ==
  IF ReservedFor[total] > total
  THEN ((ReservedFor[total] - total) * 100) \div ReservedFor[total]
  ELSE 0

\* shaped_reward
ShapedReward(l, frag) ==
  (Scale * TRef) \div (TRef + l) - (FragWeight * frag * Scale) \div 10000

Joined(b, l, total) ==
  [latency |-> b.latency + l,
   frag |-> b.frag + IF FragWeight > 0 THEN FragPct(total) ELSE 0,
   count |-> b.count + 1]

Full(b) == b.count >= FullBatch

\* The batch after a sample: nothing once it was credited.
Remainder(b) == IF Full(b) THEN NoBatch ELSE b

\* update_weighted, update_fine, update_fine_deep: the reward of the means, once
\* per sample.
Credited(a, b) ==
  IF Full(b)
  THEN [sum |-> a.sum + b.count * ShapedReward(b.latency \div b.count,
                                               b.frag \div b.count),
        count |-> a.count + b.count]
  ELSE a

-----------------------------------------------------------------------------
(* One critical section of the policy's lock.                               *)

RecordCoarse(l, total) ==
  LET h == IF clamp = 0 THEN hist ELSE HistRecord(hist, l)
      b == Joined(batch, Winsorized(h, l), total)
  IN  batch' = Remainder(b) /\ arm' = Credited(arm, b)

\* The histogram has the sample a second time.
RecordFine(c, l, total) ==
  IF c = NoSample
  THEN UNCHANGED <<fineBatch, fineArm>>
  ELSE LET b == Joined(fineBatch[c], Winsorized(HistRecord(HistRecord(hist, l), l), l), total)
       IN  /\ fineBatch' = [fineBatch EXCEPT ![c] = Remainder(b)]
           /\ fineArm' = [fineArm EXCEPT ![c] = Credited(@, b)]

\* It cuts by the histogram as the others left it.
RecordDeep(c, l, total) ==
  IF c = NoSample \/ ~escalate
  THEN UNCHANGED <<deepBatch, deepArm>>
  ELSE LET b == Joined(deepBatch[c], Winsorized(HistRecord(HistRecord(hist, l), l), l), total)
       IN  /\ deepBatch' = [deepBatch EXCEPT ![c] = Remainder(b)]
           /\ deepArm' = [deepArm EXCEPT ![c] = Credited(@, b)]

Times(c) == IF c = NoSample THEN 1 ELSE 2

HistAfter(c, l) ==
  IF clamp = 0 THEN hist
  ELSE IF c = NoSample THEN HistRecord(hist, l) ELSE HistRecord(HistRecord(hist, l), l)

Count(c, d, l) ==
  /\ hist' = HistAfter(c, l)
  /\ seen' = IF clamp = 0 THEN seen ELSE [seen EXCEPT ![l] = @ + Times(c)]
  /\ given' = [coarse |-> given.coarse + 1,
               fine   |-> given.fine + IF c = NoSample THEN 0 ELSE 1,
               deep   |-> given.deep + IF d = NoSample \/ ~escalate THEN 0 ELSE 1]
  /\ UNCHANGED <<clamp, escalate>>

\* route_alloc_inner: an allocation has both contexts or none.
AllocSample(c, d, l, total) ==
  /\ given.coarse < MaxTaken
  /\ c = NoSample <=> d = NoSample
  /\ RecordCoarse(l, total) /\ RecordFine(c, l, total) /\ RecordDeep(d, l, total)
  /\ Count(c, d, l)

\* dealloc_with_header, headerless_free_attributed: the context of the allocation.
FreeSample(c, l, total) ==
  /\ given.coarse < MaxTaken
  /\ RecordCoarse(l, total) /\ RecordFine(c, l, total)
  /\ Count(c, NoSample, l)
  /\ UNCHANGED <<deepBatch, deepArm>>

RbNext ==
  \E l \in Latencies, total \in Totals, c, d \in ArmContexts \cup {NoSample} :
    AllocSample(c, d, l, total) \/ FreeSample(c, l, total)

RbSpec == RbInit /\ [][RbNext]_rbVars

-----------------------------------------------------------------------------

Taken(b, a) == b.count + a.count
TakenIn(bs, as) == Total([c \in ArmContexts |-> Taken(bs[c], as[c])])

\* The latency of rank k among those recorded, in their order.
Ranked(k) ==
  Min({l \in Latencies : Total([m \in {x \in Latencies : x <= l} |-> seen[m]]) >= k})

\* The lowest and the highest reward there is.
Worst == ShapedReward(Max(Latencies), Max({FragPct(n) : n \in Totals}))
Best  == ShapedReward(0, 0)

\* The evidence adds up, for many arms and threads as in RewardTraining, and for one
\* arm: its samples are those of its contexts and those without one, each in one
\* batch or credited once, in the deep contexts only those of allocations; and a mean
\* is a mean of rewards.  The latency a
\* sample is cut down to is not below the percentile it stands for, of the
\* latencies the arm has shown ("a sample at or below this passes through
\* unchanged"), unless that is beyond the last bucket.
EvidenceAddsUp ==
  /\ BatchAccounts
  /\ Taken(batch, arm) = given.coarse
  /\ TakenIn(fineBatch, fineArm) = given.fine /\ TakenIn(deepBatch, deepArm) = given.deep
  /\ \A a \in {arm} \cup Range(fineArm) \cup Range(deepArm) :
       a.sum >= a.count * Worst /\ a.sum <= a.count * Best
  /\ Total(hist) = Total(seen)
  /\ Total(hist) >= FullBatch /\ clamp > 0 =>
       LET cut == Quantile(hist, clamp)
           at  == Ranked(Rank(Total(seen), clamp))
       IN  cut > at \/ cut = Edges[Buckets]

=============================================================================
