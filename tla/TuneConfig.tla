----------------------------- MODULE TuneConfig -----------------------------
(***************************************************************************)
(* What a process takes from its environment (tune.rs, and the switches of *)
(* lib.rs): the training configuration, from a file and from variables of  *)
(* its own, and the switches and the stripe count, which the first         *)
(* allocations latch.                                                      *)
(*                                                                         *)
(* Threads allocate before the configuration is loaded, while it is, and   *)
(* after.  A value of a key is a record of what its text parses to.        *)
(* Fractions are counted in hundredths.                                    *)
(***************************************************************************)
EXTENDS Integers, Sequences, FiniteSets, SequencesExt

CONSTANTS
  Askers,      \* threads
  Files,       \* texts LOHALLOC_TUNE may name: sequences of <<key, value>>
  Environs,    \* values of the variables named after keys: partial functions
  Watched,     \* the switches that are asked for
  Flags,       \* values a switch's variable may have: "unset", "0", "1", other
  Overrides,   \* numbers LOHALLOC_STRIPES may hold; 0 for none
  Cpus,        \* numbers of processors
  Powers,      \* the powers of two a word holds
  MinStripes, MaxStripes

VARIABLES
  text, environ,   \* the file's text, the variables
  inForce,         \* what CONFIG_PTR points to: DEFAULTS until the load
  flag,            \* of each switch: its variable
  override, cpus,  \* LOHALLOC_STRIPES, available_parallelism
  latch, mask,     \* the latched switches: 0 unknown, 1 on, 2 off; STRIPE_MASK
  asks, answered   \* of each thread: what it has found unlatched; what it was answered

tuneVars == <<text, environ, inForce, flag, override, cpus, latch, mask, asks, answered>>
surroundings == <<text, environ, inForce, flag, override, cpus>>

\* KEYS, by what their values must be.
Floats    == {"ucb_c", "hysteresis", "t_ref_ns", "frag_weight", "baseline_slab",
              "baseline_buddy", "baseline_system", "baseline_arena"}
NonNegatives == {"demote_fraction", "escalate_variance"}
Counts    == {"converge_stable_n", "freeze_after", "reward_batch"}
Fields    == Floats \cup NonNegatives \cup Counts \cup {"freeze_mode", "clamp_percentile"}

\* A text: a whole number, another number, or a word.  1e999 is a word: it parses to
\* a value that is not finite.
Whole(n) == [is |-> "whole", n |-> 100 * n, word |-> ""]
Part(n)  == [is |-> "part", n |-> n, word |-> ""]
Spelled(w)  == [is |-> "word", n |-> 0, word |-> w]

Texts == [is: {"whole", "part", "word"}, n: Int, word: STRING]

DEFAULTS ==
  [k \in Fields |->
     CASE k = "ucb_c" -> Whole(2) [] k = "hysteresis" -> Part(15)
       [] k = "baseline_slab" -> Whole(1) [] k = "baseline_buddy" -> Part(80)
       [] k = "baseline_system" -> Part(30) [] k = "baseline_arena" -> Part(90)
       [] k = "t_ref_ns" -> Whole(50) [] k = "frag_weight" -> Whole(0)
       [] k = "freeze_mode" -> Spelled("ops") [] k = "converge_stable_n" -> Whole(64)
       [] k = "freeze_after" -> Spelled("none") [] k = "reward_batch" -> Whole(16)
       [] k = "demote_fraction" -> Part(10) [] k = "clamp_percentile" -> Whole(90)
       [] OTHER -> Part(1)]

\* apply_focus.  An unknown focus changes nothing.
Presets ==
  [w \in {"latency", "throughput", "balanced"} |->
     CASE w = "latency"    -> [t_ref_ns |-> Whole(50),  frag_weight |-> Whole(0)]
       [] w = "throughput" -> [t_ref_ns |-> Whole(200), frag_weight |-> Part(5)]
       [] OTHER            -> [t_ref_ns |-> Whole(100), frag_weight |-> Part(2)]]

ApplyFocus(cfg, v) ==
  IF v.word \notin DOMAIN Presets THEN cfg
  ELSE [k \in Fields |-> IF k \in DOMAIN Presets[v.word] THEN Presets[v.word][k]
                                                         ELSE cfg[k]]

\* apply_key keeps the field when the value is bad or the key unknown.
Accepts(k, v) ==
  \/ k \in Floats /\ v.is # "word"
  \/ k \in NonNegatives /\ v.is # "word" /\ v.n >= 0
  \/ k \in Counts /\ v.is = "whole" /\ v.n > 0
  \/ k = "clamp_percentile" /\ v.is = "whole" /\ v.n \in 0 .. 100 * 100
  \/ k = "freeze_mode" /\ v.word \in {"ops", "converged"}

ApplyKey(cfg, pair) ==
  IF Accepts(pair[1], pair[2]) THEN [cfg EXCEPT ![pair[1]] = pair[2]] ELSE cfg

\* The first focus of a layer first, then the keys in their order.
FirstFocus(pairs) ==
  LET at == {i \in DOMAIN pairs : pairs[i][1] = "focus"}
  IN  IF at = {} THEN Spelled("") ELSE pairs[Min(at)][2]

\* Mutation: pairs are applied in the order they come.
InOrder(cfg, pairs) ==
  FoldLeft(LAMBDA c, p : IF p[1] = "focus" THEN ApplyFocus(c, p[2]) ELSE ApplyKey(c, p),
           cfg, pairs)

ApplyLayer(cfg, pairs) ==
  LET applied[i \in 0 .. Len(pairs)] ==
        IF i = 0 THEN ApplyFocus(cfg, FirstFocus(pairs))
        ELSE ApplyKey(applied[i - 1], pairs[i])
  IN  applied[Len(pairs)]

\* The environment layer: the variables that are set, in the order of KEYS.
EnvPairs(env) == SetToSeq({<<k, env[k]>> : k \in DOMAIN env})

BuildConfig(lines, env) == ApplyLayer(ApplyLayer(DEFAULTS, lines), EnvPairs(env))

\* Switches that only "1" turns on, and switches that only "0" turns off.
OptIn  == {"REWARD_TRACK", "SERVABLE_TRAINING", "SC_SHORTCUT", "PIN_EXCLUDE_LEGACY"}
OptOut == {"SLAB_OWNER_FREE", "FAST_LANE", "ARENA_RECLAIM", "ARENA_SELF_FLUSH",
           "SLAB_SCAN_GATE"}

IsOn(s) == IF s \in OptIn THEN flag[s] = "1" ELSE flag[s] # "0"

\* stripe_count.
IsNextPower(p, n) == p >= n /\ (p \div 2 < n \/ p = 1)
NextPowerOfTwo(n) == CHOOSE p \in Powers : IsNextPower(p, n)

Least(a, b) == IF a < b THEN a ELSE b

StripeCount ==
  IF override > 0 THEN Least(NextPowerOfTwo(override), MaxStripes)
  ELSE Least(MaxStripes, IF NextPowerOfTwo(cpus) < MinStripes THEN MinStripes
                         ELSE NextPowerOfTwo(cpus))

\* A number of processors is at most the largest power of two there is, as is an
\* override: next_power_of_two does not overflow.
ASSUME TuneShape ==
  /\ Files \subseteq Seq(STRING \X Texts)
  /\ \A env \in Environs :
       IsFiniteSet(DOMAIN env) /\ \A k \in DOMAIN env : <<k, env[k]>> \in STRING \X Texts
  /\ Watched \subseteq OptIn \cup OptOut
  /\ Powers \subseteq Nat \ {0} /\ MinStripes \in Powers /\ MaxStripes \in Powers
  /\ \A n \in Overrides \cup Cpus : n \in Nat /\ \E p \in Powers : IsNextPower(p, n)

NotAsking == "nothing"
Unlatched == -1

TuneInit ==
  /\ text \in Files /\ environ \in Environs
  /\ inForce = DEFAULTS
  /\ flag \in {[s \in Watched |-> f] : f \in Flags}
  /\ override \in Overrides /\ cpus \in Cpus
  /\ latch = [s \in Watched |-> 0]
  /\ mask = Unlatched
  /\ asks = [t \in Askers |-> NotAsking]
  /\ answered = [t \in Askers |-> <<>>]

\* load_from_env: the configuration is built aside and then published.  A second
\* load, which the benchmark driver makes, publishes the same.
LoadFromEnv ==
  /\ inForce' = BuildConfig(text, environ)
  /\ UNCHANGED <<text, environ, flag, override, cpus, latch, mask, asks, answered>>

\* A switch is asked for: the latch answers, or is found unknown.
Ask(t, s) ==
  /\ asks[t] = NotAsking
  /\ IF latch[s] # 0
     THEN answered' = [answered EXCEPT ![t] = <<s, latch[s] = 1>>] /\ UNCHANGED asks
     ELSE asks' = [asks EXCEPT ![t] = s] /\ UNCHANGED answered
  /\ UNCHANGED <<surroundings, latch, mask>>

Latch(t, s) ==
  /\ asks[t] = s
  /\ latch' = [latch EXCEPT ![s] = IF IsOn(s) THEN 1 ELSE 2]
  /\ asks' = [asks EXCEPT ![t] = NotAsking]
  /\ answered' = [answered EXCEPT ![t] = <<s, IsOn(s)>>]
  /\ UNCHANGED <<surroundings, mask>>

AskStripes(t) ==
  /\ asks[t] = NotAsking
  /\ IF mask # Unlatched
     THEN answered' = [answered EXCEPT ![t] = <<"STRIPES", mask>>] /\ UNCHANGED asks
     ELSE asks' = [asks EXCEPT ![t] = "STRIPES"] /\ UNCHANGED answered
  /\ UNCHANGED <<surroundings, latch, mask>>

LatchStripes(t) ==
  /\ asks[t] = "STRIPES"
  /\ mask' = StripeCount - 1
  /\ asks' = [asks EXCEPT ![t] = NotAsking]
  /\ answered' = [answered EXCEPT ![t] = <<"STRIPES", StripeCount - 1>>]
  /\ UNCHANGED <<surroundings, latch>>

TuneNext ==
  \/ LoadFromEnv
  \/ \E t \in Askers :
       \/ \E s \in Watched : Ask(t, s) \/ Latch(t, s)
       \/ AskStripes(t) \/ LatchStripes(t)

TuneSpec == TuneInit /\ [][TuneNext]_tuneVars

\* Where a layer has a good value of a key.
GoodAt(pairs, k) == {i \in DOMAIN pairs : pairs[i][1] = k /\ Accepts(k, pairs[i][2])}

\* A layer's say on a field: the last good value before the focus, wherever they stand.
Says(pairs, k, below) ==
  LET w == FirstFocus(pairs).word
  IN  CASE GoodAt(pairs, k) # {} -> pairs[Max(GoodAt(pairs, k))][2]
        [] GoodAt(pairs, k) = {} /\ w \in DOMAIN Presets /\ k \in {"t_ref_ns", "frag_weight"}
             -> Presets[w][k]
        [] OTHER -> below

\* The configuration in force is the defaults or the loaded one, as a whole: in each
\* field the value of the variable, else of the variables' focus, else the last good
\* one of the file, else of the file's focus, else the default; and whatever the
\* texts hold, each value is one the trainer can run with (reward_batch is not zero,
\* no fraction is negative).  The switches and the mask, once they are answered to any
\* thread, are what the environment says, to all threads; the stripes are a power of
\* two within what the arrays hold.
ConfigInForce ==
  /\ \/ inForce = DEFAULTS
     \/ \A k \in Fields :
          inForce[k] = Says(EnvPairs(environ), k, Says(text, k, DEFAULTS[k]))
  /\ \A k \in Fields : inForce[k] = DEFAULTS[k] \/ Accepts(k, inForce[k])
  /\ \A t \in Askers : answered[t] # <<>> =>
       IF answered[t][1] = "STRIPES"
       THEN /\ answered[t][2] = mask
            /\ mask + 1 \in Powers
            /\ mask < MaxStripes
       ELSE answered[t][2] = IsOn(answered[t][1]) /\ answered[t][2] = (latch[answered[t][1]] = 1)

=============================================================================
