----------------------------- MODULE FreezePlan -----------------------------
(***************************************************************************)
(* The freeze of the policy (AllocatorState::freeze in state.rs, with      *)
(* freeze, freeze_fine and distill of bandit.rs): from the statistics of   *)
(* each signature to the entries of the main and the distilled table.      *)
(*                                                                         *)
(* A signature is a call site (its three-frame hash) at a size class.      *)
(* Rewards are integers, means are given; the trained statistics are any   *)
(* of a family chosen at the start.                                        *)
(***************************************************************************)
EXTENDS Integers, FiniteSetsExt

CONSTANTS
  NotFrozen,       \* no plan yet: a model value
  Signatures,      \* the [site, class] that may have been trained
  LeafOf,          \* the one-frame hash of each site; 0 is unknown
  Volumes,         \* values of total_pulls
  Subjects,        \* the signatures that may have context statistics
  ShallowStats, DeepStats,  \* such statistics: ctx, mean and pulls of each arm
  DemoteNum, DemoteDen,  \* demote_fraction
  FineMinPulls, FineMargin,     \* FINE_MIN_PULLS, FINE_MARGIN
  DeepShareNum, DeepShareDen    \* DEEP_CTX_MIN_FRACTION

\* A signature in training has been pulled (total_pulls starts from one pull of each
\* arm), and the demotion fraction is not negative.
ASSUME PlanShape ==
  /\ IsFiniteSet(Signatures) /\ Volumes \subseteq Nat \ {0}
  /\ DemoteNum \in Nat /\ DemoteDen \in Nat

Backends == {"Slab", "Buddy", "System", "Arena"}
ArmOrder == [Slab |-> 0, Buddy |-> 1, System |-> 2, Arena |-> 3]

VARIABLES
  trained,   \* SignatureStats of each trained signature
  fine,      \* BanditPolicy.fine and fine_deep, each a set of [sig, stats]
  setting,   \* demote_arena, reclaim_lifts_large, pin_exclude_legacy
  plan       \* the frozen entries, once frozen

fpVars == <<trained, fine, setting, plan>>

(***************************************************************************)
(* Verdicts of a size class.                                               *)
(***************************************************************************)

\* default_backend_for_size_class
SizeDefault(class) ==
  IF class <= 11 THEN "Slab" ELSE IF class <= 13 THEN "Buddy" ELSE "System"

Unservable(class, backend) ==
  \/ backend = "Slab" /\ class > 11
  \/ backend = "Buddy" /\ (class > 13 \/ class <= 10)
  \/ backend = "Arena" /\ class > 13

\* clamp_backend_for_size_class
Clamped(class, backend, demote) ==
  IF \/ backend = "System" /\ class <= 13
     \/ Unservable(class, backend)
     \/ demote /\ backend = "Arena"
  THEN SizeDefault(class) ELSE backend

DemoteFor(heavy, class) ==
  setting.demote /\ heavy /\ ~(setting.lifts /\ class >= 12)

Heavy(pulls, total) == total > 0 /\ pulls * DemoteDen >= total * DemoteNum

(***************************************************************************)
(* The main table.                                                         *)
(***************************************************************************)

Trained == DOMAIN trained
Pulls   == [s \in Trained |-> trained[s].pulls]
Volume(sigs) == MapThenSumSet(LAMBDA s : Pulls[s], sigs)

MainHeavy(s)   == Heavy(trained[s].pulls, Volume(Trained))
MainVerdict(s) == Clamped(s.class, trained[s].best,
                          DemoteFor(MainHeavy(s), s.class))

(***************************************************************************)
(* Entries of a context: fine_override and freeze_fine.                    *)
(***************************************************************************)

\* Iterator::max_by keeps the last of several greatest.
BestArm(f) ==
  CHOOSE a \in Backends : \A b \in Backends :
    f.mean[b] < f.mean[a] \/ (f.mean[b] = f.mean[a] /\ ArmOrder[b] <= ArmOrder[a])

Margin(f, coarse) == f.mean[BestArm(f)] - f.mean[coarse]

Overrules(f, coarse) ==
  /\ f.pulls[BestArm(f)] >= FineMinPulls /\ f.pulls[coarse] > 0
  /\ BestArm(f) # coarse /\ Margin(f, coarse) >= FineMargin

ShallowCandidates ==
  {r \in fine.shallow : r.sig \in Trained /\ Overrules(r.stats, MainVerdict(r.sig))}

Flagged == {r.sig : r \in ShallowCandidates}

\* The best margin any shallow context of the site showed.
ShallowMargin(s) ==
  Max({0} \cup {Margin(r.stats, MainVerdict(s)) : r \in
        {q \in fine.shallow : q.sig = s /\ q.stats.pulls[MainVerdict(s)] > 0}})

SizesOf(site) == {s.class : s \in {t \in Trained : t.site = site}}

ContextPulls(f) == MapThenSumSet(LAMBDA b : f.pulls[b], Backends)

DeepCandidates ==
  {r \in fine.deep :
     /\ r.sig \in Trained /\ r.sig \notin Flagged
     /\ trained[r.sig].noisy /\ Cardinality(SizesOf(r.sig.site)) >= 2
     /\ trained[r.sig].pulls > 0
     /\ ContextPulls(r.stats) * DeepShareDen >= trained[r.sig].pulls * DeepShareNum
     /\ Overrules(r.stats, MainVerdict(r.sig))
     /\ Margin(r.stats, MainVerdict(r.sig)) > ShallowMargin(r.sig)}

\* A candidate survives if, clamped as its parent is, it still differs from it.
FineVerdict(r) == Clamped(r.sig.class, BestArm(r.stats),
                          DemoteFor(MainHeavy(r.sig), r.sig.class))
Surviving(candidates) == {r \in candidates : FineVerdict(r) # MainVerdict(r.sig)}

FlagOf(s) ==
  IF s \in {r.sig : r \in Surviving(ShallowCandidates)} THEN "shallow"
  ELSE IF s \in {r.sig : r \in Surviving(DeepCandidates)} THEN "deep"
  ELSE "none"

(***************************************************************************)
(* The distilled table.                                                    *)
(***************************************************************************)

GroupOf(s)  == [leaf |-> LeafOf[s.site], class |-> s.class]
Groups      == {GroupOf(s) : s \in {t \in Trained : LeafOf[t.site] # 0}}
Members(g)  == {s \in Trained : GroupOf(s) = g}
Unanimous   == {g \in Groups :
                  \A s, t \in Members(g) : trained[s].best = trained[t].best}

GroupHeavy(g) ==
  Heavy(Volume(Members(g)), Volume(UNION {Members(h) : h \in Unanimous}))

GroupVerdict(g) ==
  Clamped(g.class, trained[CHOOSE s \in Members(g) : TRUE].best,
          DemoteFor(GroupHeavy(g), g.class))

\* Mutation: only the old rule keeps groups out of the distilled table.
ExcludedLegacyOnly ==
  {GroupOf(s) : s \in {t \in Flagged \cup {r.sig : r \in DeepCandidates} :
     LeafOf[t.site] # 0 /\ setting.legacy}}

\* Groups of a site that is routed by context, or under the old rule of a site
\* with any candidate.
Excluded ==
  {GroupOf(s) : s \in {t \in Flagged \cup {r.sig : r \in DeepCandidates} :
     /\ LeafOf[t.site] # 0
     /\ setting.legacy \/ FlagOf(t) # "none"}}

(***************************************************************************)
(* The freeze.                                                             *)
(***************************************************************************)

\* noisy says that escalation is on and the verdict's variance reaches it.
StatsOf(sigs) ==
  [sigs -> [best: Backends, pulls: Volumes, noisy: BOOLEAN]]

FpInit ==
  /\ \E sigs \in SUBSET Signatures : trained \in StatsOf(sigs)
  /\ \E subject \in Trained \cap Subjects :
       /\ \A s \in Trained \ {subject} : ~trained[s].noisy
       /\ \E sh \in {{}} \cup {{f} : f \in ShallowStats},
             dp \in {{}} \cup {{f} : f \in DeepStats} :
            fine = [shallow |-> {[sig |-> subject, stats |-> f] : f \in sh},
                    deep    |-> {[sig |-> subject, stats |-> f] : f \in dp}]
  /\ setting \in [demote: BOOLEAN, lifts: BOOLEAN, legacy: BOOLEAN]
  /\ setting.lifts => setting.demote
  /\ plan = NotFrozen

Planned ==
  [main |-> [s \in Trained |-> [backend |-> MainVerdict(s), flag |-> FlagOf(s)]],
   shallow |-> Surviving(ShallowCandidates),
   deep |-> Surviving(DeepCandidates),
   distilled |-> [g \in Unanimous \ Excluded |-> GroupVerdict(g)]]

FreezePolicy ==
  /\ plan = NotFrozen /\ plan' = Planned
  /\ UNCHANGED <<trained, fine, setting>>

FpSpec == FpInit /\ [][FreezePolicy]_fpVars

(***************************************************************************)
(* Properties.                                                             *)
(***************************************************************************)

\* Every context entry of the frozen table can be reached: its site carries the
\* flag of its depth, and the verdict it gives differs from the site's own.  A
\* site that routes by context is in no distilled group, since "the pin cache
\* would serve them without the ctx probe".
ContextReachable ==
  plan # NotFrozen =>
    /\ \A r \in plan.shallow : plan.main[r.sig].flag = "shallow"
    /\ \A r \in plan.deep : plan.main[r.sig].flag = "deep"
    /\ \A s \in DOMAIN plan.main :
         plan.main[s].flag # "none" =>
           /\ GroupOf(s) \notin DOMAIN plan.distilled
           /\ \E r \in plan.shallow \cup plan.deep : r.sig = s

\* The distilled table is at least as strict as the main one: it sends a site to
\* the arena only if the main table does, and otherwise to the main verdict or the
\* size default ("a distilled entry must never license a backend the main table
\* would have clamped away").
PinAtLeastAsStrict ==
  plan # NotFrozen =>
    \A g \in DOMAIN plan.distilled : \A s \in Members(g) :
      plan.distilled[g] \in {plan.main[s].backend} \cup
        (IF plan.main[s].backend = "Arena" THEN {SizeDefault(g.class)} ELSE {})

\* What a freeze publishes is reachable and no laxer than what was trained.
PlanSound == ContextReachable /\ PinAtLeastAsStrict

\* "distillation never changes a routing decision, it only makes the unambiguous
\* ones cheaper to reach".
DistillKeepsDecision ==
  plan # NotFrozen =>
    \A g \in DOMAIN plan.distilled : \A s \in Members(g) :
      plan.distilled[g] = plan.main[s].backend

=============================================================================
