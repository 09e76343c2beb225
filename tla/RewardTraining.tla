--------------------------- MODULE RewardTraining ---------------------------
(***************************************************************************)
(* Training: the bandit's choice for an allocation, the rewards of that    *)
(* allocation and of its free, and their batches (BanditPolicy in          *)
(* bandit.rs, record_latency in state.rs, and the calls route_alloc_inner, *)
(* dealloc_with_header and headerless_free_attributed make in lib.rs).     *)
(*                                                                         *)
(* The policy is under one lock, so each of its operations is a step; the  *)
(* block is served between the choice and the reward.  A headerless free   *)
(* finds the signature in a direct-mapped table of the freeing thread.     *)
(* Reward amounts and UCB scores are left out: any arm the mask allows may *)
(* be chosen, and what is counted is which arm each sample goes to.        *)
(***************************************************************************)
EXTENDS Integers, FiniteSets

CONSTANTS
  Trainees,      \* threads
  Blocks,        \* user pointers
  SlotOfBlock,   \* reward_track_slot
  Sigs,          \* signatures
  Arms,          \* backends
  FullBatch,     \* reward_batch
  MaxSamples     \* bound: no allocation starts after so many choices

NoSig == "no signature"

TrackSlots == {SlotOfBlock[p] : p \in Blocks}
EmptySlot  == [ptr |-> "none", sig |-> NoSig]

VARIABLES
  headerless,   \* the flavour of the instance's blocks
  pulls,        \* ArmStats.pulls, beyond the first
  credited,     \* samples in ArmStats.sum_reward
  pending,      \* PendingBatch.count
  learning,     \* the policy is in training; not frozen
  track,        \* REWARD_TRACK of each thread
  owner,        \* the signature and the serving arm of each live block
  doing,        \* what a thread is at, with its locals
  samples       \* history: calls of record_latency since training began

rtVars == <<headerless, pulls, credited, pending, learning, track, owner, doing,
            samples>>

Zero  == [s \in Sigs |-> [a \in Arms |-> 0]]
Rests == [step |-> "rests", sig |-> NoSig, arm |-> NoSig, ptr |-> NoSig,
          true |-> NoSig]
NoOwner == [sig |-> NoSig, arm |-> NoSig]

TrainingInit ==
  /\ headerless \in BOOLEAN
  /\ pulls = Zero /\ credited = Zero /\ pending = Zero /\ samples = Zero
  /\ learning = TRUE
  /\ track = [t \in Trainees |-> [i \in TrackSlots |-> EmptySlot]]
  /\ owner = [p \in Blocks |-> NoOwner]
  /\ doing = [t \in Trainees |-> Rests]

TrainingTypeOK ==
  /\ \A s \in Sigs, a \in Arms :
       /\ pulls[s][a] \in Nat /\ credited[s][a] \in Nat
       /\ pending[s][a] \in 0 .. FullBatch - 1
  /\ owner \in [Blocks -> [sig: Sigs \cup {NoSig}, arm: Arms \cup {NoSig}]]
  /\ track \in [Trainees -> [TrackSlots -> [ptr: Blocks \cup {"none"},
                                            sig: Sigs \cup {NoSig}]]]

Bump(f, s, a, n) == [f EXCEPT ![s][a] = @ + n]

TotalPulls == LET sum[S \in SUBSET (Sigs \X Arms)] ==
                    IF S = {} THEN 0
                    ELSE LET x == CHOOSE y \in S : TRUE
                         IN  pulls[x[1]][x[2]] + sum[S \ {x}]
              IN  sum[Sigs \X Arms]

\* select_with_frame; a masked arm is skipped, unless every arm is.
Select(t, s, mask) ==
  /\ doing[t].step = "rests" /\ learning /\ TotalPulls < MaxSamples
  /\ \E a \in Arms \ mask :
       /\ pulls' = Bump(pulls, s, a, 1)
       /\ doing' = [doing EXCEPT ![t] = [Rests EXCEPT !.step = "chosen", !.sig = s,
                                                      !.arm = a]]
  /\ UNCHANGED <<headerless, credited, pending, learning, track, owner, samples>>

\* The chosen arm serves a block, or the fall-through chain does.
ServeBlock(t, p, by) ==
  /\ doing[t].step = "chosen" /\ owner[p] = NoOwner
  /\ owner' = [owner EXCEPT ![p] = [sig |-> doing[t].sig, arm |-> by]]
  /\ doing' = [doing EXCEPT ![t].step = "served", ![t].ptr = p]
  /\ UNCHANGED <<headerless, pulls, credited, pending, learning, track, samples>>

\* Mutation: the sample that fills a batch is not part of it.
DropsLastSample(s, a) ==
  IF learning
  THEN /\ samples' = Bump(samples, s, a, 1)
       /\ IF pending[s][a] + 1 >= FullBatch
          THEN /\ credited' = Bump(credited, s, a, pending[s][a])
               /\ pending' = [pending EXCEPT ![s][a] = 0]
          ELSE pending' = Bump(pending, s, a, 1) /\ UNCHANGED credited
  ELSE UNCHANGED <<samples, credited, pending>>

\* record_latency: a full batch is credited whole and removed.
RecordLatency(s, a) ==
  IF learning
  THEN /\ samples' = Bump(samples, s, a, 1)
       /\ IF pending[s][a] + 1 >= FullBatch
          THEN /\ credited' = Bump(credited, s, a, pending[s][a] + 1)
               /\ pending' = [pending EXCEPT ![s][a] = 0]
          ELSE pending' = Bump(pending, s, a, 1) /\ UNCHANGED credited
  ELSE UNCHANGED <<samples, credited, pending>>

\* reward_track_record overwrites what shared the slot.
Recorded(t) ==
  [track EXCEPT ![t][SlotOfBlock[doing[t].ptr]] =
     [ptr |-> doing[t].ptr, sig |-> doing[t].sig]]

\* The allocation's reward goes to the arm that was chosen, and a headerless block
\* is tracked in its slot, whatever was there (reward_track_record).
CreditAlloc(t) ==
  /\ doing[t].step = "served"
  /\ RecordLatency(doing[t].sig, doing[t].arm)
  /\ track' = IF headerless THEN Recorded(t) ELSE track
  /\ doing' = [doing EXCEPT ![t] = Rests]
  /\ UNCHANGED <<headerless, pulls, learning, owner>>

\* reward_track_take clears the slot of a hit.
Tracked(t, p) == track[t][SlotOfBlock[p]].ptr = p

\* Any thread may free a block.  The free is timed, then credited to the arm that
\* served it, under the signature of its header or of the thread's table.
FreeServed(t, p) ==
  /\ doing[t].step = "rests" /\ owner[p] # NoOwner
  /\ \A u \in Trainees : doing[u].ptr # p
  /\ LET hit == headerless /\ learning /\ Tracked(t, p)
         key == IF hit THEN track[t][SlotOfBlock[p]].sig ELSE owner[p].sig
     IN  /\ doing' = [doing EXCEPT ![t] =
              IF learning /\ (hit \/ ~headerless)
              THEN [Rests EXCEPT !.step = "freed", !.sig = key,
                                 !.arm = owner[p].arm, !.true = owner[p].sig]
              ELSE Rests]
         /\ track' = IF hit
                     THEN [track EXCEPT ![t][SlotOfBlock[p]] = EmptySlot]
                     ELSE track
  /\ owner' = [owner EXCEPT ![p] = NoOwner]
  /\ UNCHANGED <<headerless, pulls, credited, pending, learning, samples>>

CreditFree(t) ==
  /\ doing[t].step = "freed"
  /\ RecordLatency(doing[t].sig, doing[t].arm)
  /\ doing' = [doing EXCEPT ![t] = Rests]
  /\ UNCHANGED <<headerless, pulls, learning, track, owner>>

\* The freeze drops the policy with its open batches.
EndTraining ==
  /\ learning /\ learning' = FALSE
  /\ pulls' = Zero /\ credited' = Zero /\ pending' = Zero /\ samples' = Zero
  /\ UNCHANGED <<headerless, track, owner, doing>>

\* reset_to_training starts from an empty policy; the tables of the threads stay.
TrainAgain ==
  /\ ~learning /\ learning' = TRUE
  /\ UNCHANGED <<headerless, pulls, credited, pending, track, owner, doing, samples>>

TrainingNext ==
  \/ \E t \in Trainees :
       \/ \E s \in Sigs, mask \in {{}, {"Buddy"}} : Select(t, s, mask)
       \/ \E p \in Blocks, by \in Arms : ServeBlock(t, p, by)
       \/ CreditAlloc(t) \/ CreditFree(t)
       \/ \E p \in Blocks : FreeServed(t, p)
  \/ EndTraining \/ TrainAgain

TrainingSpec == TrainingInit /\ [][TrainingNext]_rtVars

\* Every sample that was recorded is in the arm's sum or in the batch still open,
\* once: a flush credits the samples of its batch and starts the next from none
\* (PendingBatch and update_weighted).
BatchAccounts ==
  \A s \in Sigs, a \in Arms : credited[s][a] + pending[s][a] = samples[s][a]

\* A free is credited under the signature its block was allocated under, or not
\* at all: "a miss (slot evicted by a newer alloc, or foreign ptr) simply skips
\* attribution - never incorrect".
FreeCreditsItsAlloc ==
  \A t \in Trainees : doing[t].step = "freed" => doing[t].sig = doing[t].true

\* What keeps mean_reward = sum_reward / pulls "a true average": no more samples
\* are credited to an arm than it has pulls.
TrueAverage == \A s \in Sigs, a \in Arms : credited[s][a] <= pulls[s][a]

=============================================================================
