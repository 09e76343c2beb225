--------------------------- MODULE NativeWorkload ---------------------------
(***************************************************************************)
(* One run of the native benchmark (lohalloc-bench): the workloads of      *)
(* workloads.rs, the drivers they allocate through, and what               *)
(* bin/native_workload.rs does around them: load a model, freeze after so  *)
(* many allocations or at convergence, export.                             *)
(*                                                                         *)
(* Blocks have sizes, not contents; what a workload takes from its pseudo- *)
(* random sequence (a size, an index, a key, an operation) may be          *)
(* anything.  Allocations do not fail: the workloads use what they get.    *)
(***************************************************************************)
EXTENDS Integers, Sequences, FiniteSets, SequencesExt, FiniteSetsExt

CONSTANTS
  Jobs,        \* [workload, driver, ops, threads, model, env, tune, converged, export]
  Workers,     \* 1 .. n: threads a run may have
  Blocks,      \* bound: blocks in use at once
  Small, Big,  \* sizes: SMALL_FIXED_REQUEST and below; a sequence of larger ones
  Window,      \* 64: blocks the churn keeps
  Many,        \* 32: blocks the mixed workload keeps at least
  BurstLen,    \* 500; and, of a request, 20 small blocks
  Bursts,      \* 8: bursts of the fill
  ChurnLen,    \* 200 and 50: what a combination does at one site in a round
  Slow,        \* 20: operations for one large block
  Keys,        \* of the key-value store
  Slots, Probes,  \* CAP and 32: the key-value store's table
  Fanout,      \* 4: the first array of children
  AllocEvery,  \* INTERFERE_ALLOC_EVERY
  DropEvery,   \* 4096
  MailLen,     \* 256: the bounded channel of a pair
  PollEvery,   \* CONVERGENCE_POLL_EVERY
  Disabled     \* FREEZE_DISABLED

VARIABLES
  job,         \* the command line and the environment
  stage,       \* of main: start, run, exported
  heap,        \* of each block: its size, or 0
  pc, parts, turn,  \* of each thread: where it is, the loops left, the turns of this one
  got,         \* the block the driver has returned, and what it is for
  live,        \* the blocks a list or a window of the workload holds
  tree, slots, \* the nodes of the document, the entries of the store
  mail, open,  \* of each sender: the channel of its pair, and whether it lives
  remaining, polls, froze,  \* FreezeAfterDriver
  regime,      \* training or inference
  counted      \* history: allocations made through the driver

nwVars == <<job, stage, heap, pc, parts, turn, got, live, tree, slots, mail, open,
            remaining, polls, froze, regime, counted>>
freezer == <<remaining, polls, froze, regime>>
holders == <<live, tree, slots, mail, open>>

Nothing == [block |-> 0, size |-> 0, use |-> "none", for |-> <<>>]
NoEntry == [key |-> 0, block |-> 0, size |-> 0]

(***************************************************************************)
(* The workloads as loops: what each repeats, how often, and whether the   *)
(* driver is told of the end of a phase.                                   *)
(***************************************************************************)
Loop(does, n)  == [does |-> does, n |-> n, ends |-> FALSE]
Burst(n)       == [does |-> "burst", n |-> n, ends |-> TRUE]
AtLeastOne(n)  == IF n < 1 THEN 1 ELSE n
Repeat(seq, n) == FlattenSeq([k \in 1 .. n |-> seq])

\* workload_phase_lifetime: an eighth of the operations in each phase, in turn
\* freed at once and held to the end of the phase.
Phases(ops) ==
  LET len == AtLeastOne(ops \div 8)
      n   == (ops + len - 1) \div len
  IN  [k \in 1 .. n |-> Loop(IF k % 2 = 1 THEN "churn" ELSE "burst",
                             IF k < n THEN len ELSE ops - (n - 1) * len)]

RequestLoop(ops) ==
  Repeat(<<Loop("request", BurstLen + 1)>>, AtLeastOne(ops \div BurstLen))

\* workload_arena_fill_churn: half of the operations in bursts, the rest in a window.
FillChurn(ops) ==
  Repeat(<<Burst(AtLeastOne((ops \div 2) \div Bursts))>>, Bursts)
    \o <<Loop("slab", ops - ops \div 2)>>
ComboSlabArena(rounds)  == Repeat(<<Loop("slab", ChurnLen), Burst(BurstLen)>>, rounds)
ComboBuddySmall(rounds) == Repeat(<<Loop("buddy", ChurnLen), Loop("slab", ChurnLen)>>, rounds)

\* run, for one thread, with the workloads that only the benches call.
Program(workload, ops) ==
  CASE workload = "arena"   -> Repeat(<<Burst(BurstLen)>>, AtLeastOne(ops \div BurstLen))
    [] workload = "system"  -> <<Loop("system", AtLeastOne(ops \div Slow))>>
    [] workload = "adv-mixed" -> <<Loop("mixed", ops)>>
    [] workload = "request-loop" -> RequestLoop(ops)
    [] workload = "json-tree" -> <<Loop("json", AtLeastOne(ops))>>
    [] workload = "kv-store" -> <<Loop("kv", ops)>>
    [] workload = "phase"   -> Phases(ops)
    [] workload = "fill"    -> FillChurn(ops)
    [] workload = "combo-sa" -> ComboSlabArena(ops)
    [] workload = "combo-ba" -> ComboBuddySmall(ops)
    [] OTHER -> <<Loop(workload, ops)>>

\* The mt workloads: each thread its share, or pairs of which one frees what the
\* other allocates.
Pairs(j) == AtLeastOne(j.threads \div 2)
PairProgram(j, t) ==
  <<Loop(IF t % 2 = 1 THEN "send" ELSE "receive", AtLeastOne(j.ops \div Pairs(j)))>>
Threads(j) ==
  IF j.threads = 0 THEN 1
  ELSE IF j.workload = "xfree" THEN 2 * Pairs(j) ELSE j.threads
ProgramOf(j, t) ==
  IF t > Threads(j) THEN <<>>
  ELSE IF j.threads = 0 THEN Program(j.workload, j.ops)
  ELSE IF j.workload = "xfree" THEN PairProgram(j, t)
  ELSE Program(j.workload, AtLeastOne(j.ops \div j.threads))

(***************************************************************************)
(* run_lohalloc, before the run.                                           *)
(***************************************************************************)
Loads == job.driver = "freezing" /\ job.model = "good"

\* LOHALLOC_FREEZE_AFTER, or the tuning's freeze_after if there is no such number.
freeze_after ==
  IF Loads \/ job.driver # "freezing" THEN Disabled
  ELSE IF job.env # Disabled /\ job.env > 0 THEN job.env ELSE job.tune
converged_mode == job.driver = "freezing" /\ job.converged /\ ~Loads

NwInit ==
  /\ job \in Jobs
  /\ stage = "start"
  /\ heap = [b \in Blocks |-> 0]
  /\ pc = [t \in Workers |-> "off"] /\ parts = [t \in Workers |-> <<>>]
  /\ turn = [t \in Workers |-> 0] /\ got = [t \in Workers |-> Nothing]
  /\ live = [t \in Workers |-> <<>>]
  /\ tree = <<>> /\ slots = [s \in 0 .. Slots - 1 |-> NoEntry]
  /\ mail = [t \in Workers |-> <<>>] /\ open = [t \in Workers |-> TRUE]
  /\ remaining = Disabled /\ polls = 0 /\ froze = FALSE
  /\ regime = "training" /\ counted = 0

Start ==
  /\ stage = "start" /\ stage' = "run"
  /\ parts' = [t \in Workers |-> ProgramOf(job, t)]
  /\ pc' = [t \in Workers |-> IF parts'[t] = <<>> THEN "off" ELSE "loop"]
  /\ remaining' = freeze_after
  /\ regime' = IF Loads THEN "inference" ELSE "training"
  /\ UNCHANGED <<job, heap, turn, got, holders, polls, froze, counted>>

(***************************************************************************)
(* The drivers.                                                            *)
(***************************************************************************)
Goes(t, to) == pc' = [pc EXCEPT ![t] = to]
Freed(h, bs) == [b \in Blocks |-> IF b \in bs THEN 0 ELSE h[b]]

\* alloc: the block is had, and then it is counted.
Serve(t, freed, size, use, for) ==
  LET had == Freed(heap, freed)
      b   == CHOOSE b \in Blocks : had[b] = 0
  IN  /\ heap' = [had EXCEPT ![b] = size]
      /\ got' = [got EXCEPT ![t] = [block |-> b, size |-> size, use |-> use,
                                       for |-> for]]
      /\ counted' = counted + 1
      /\ Goes(t, IF job.driver = "freezing" THEN "count" ELSE "back")
      /\ UNCHANGED <<job, stage, parts, turn, freezer>>

\* Who takes the count from one to zero freezes.
Count(t) ==
  /\ pc[t] = "count"
  /\ remaining' = IF remaining \in {Disabled, 0} THEN remaining ELSE remaining - 1
  /\ Goes(t, IF remaining = 1 THEN "freeze" ELSE IF converged_mode THEN "check" ELSE "back")
  /\ UNCHANGED <<job, stage, heap, parts, turn, got, holders, polls, froze, regime, counted>>

Check(t) ==
  /\ pc[t] = "check" /\ Goes(t, IF froze THEN "back" ELSE "poll")
  /\ UNCHANGED <<job, stage, heap, parts, turn, got, holders, freezer, counted>>

\* The policy may have converged at any poll while it trains; what is frozen is
\* converged.
is_converged == IF regime = "training" THEN BOOLEAN ELSE {TRUE}
Poll(t) ==
  /\ pc[t] = "poll" /\ polls' = polls + 1
  /\ IF polls' % PollEvery # 0 THEN Goes(t, "back")
     ELSE \E yes \in is_converged : Goes(t, IF yes THEN "freeze" ELSE "back")
  /\ UNCHANGED <<job, stage, heap, parts, turn, got, holders, remaining, froze, regime,
                 counted>>

\* Mutation: froze is set after the freeze, not exchanged before.
FreezeEach(t) ==
  /\ pc[t] = "freeze" /\ Goes(t, "freezing")
  /\ UNCHANGED <<job, stage, heap, parts, turn, got, holders, freezer, counted>>

FreezeOnce(t) ==
  /\ pc[t] = "freeze"
  /\ froze' = TRUE /\ Goes(t, IF froze THEN "back" ELSE "freezing")
  /\ UNCHANGED <<job, stage, heap, parts, turn, got, holders, remaining, polls, regime,
                 counted>>

GlobalFreeze == regime' = IF regime = "training" THEN "inference" ELSE "panicked"
Freeze(t) ==
  /\ pc[t] = "freezing" /\ GlobalFreeze /\ Goes(t, "back")
  /\ UNCHANGED <<job, stage, heap, parts, turn, got, holders, remaining, polls, froze,
                 counted>>

(***************************************************************************)
(* Loops over a list or a window: one block is asked for in each turn, and *)
(* what the list is afterwards says what is freed.                         *)
(***************************************************************************)
Does(t)   == Head(parts[t]).does
InTurn(t) == pc[t] = "loop" /\ turn[t] < Head(parts[t]).n
Lists     == {"slab", "buddy", "churn", "system", "mixed", "data", "burst", "request",
              "exhaust"}
SizesOf(does) ==
  CASE does = "system" -> {Big} [] does \in {"buddy", "mixed", "request"} -> {Small, Big}
    [] OTHER -> {Small}
BlocksIn(list) == {list[k].block : k \in DOMAIN list}

AfterChurn(list) == IF Len(list) > Window THEN Tail(list) ELSE list
AfterInterleaved(list, i) == IF i % 2 = 1 THEN Tail(list) ELSE list

\* swap_remove
Swapped(list, k) == Front([list EXCEPT ![k] = Last(list)])
AfterMixed(list) ==
  {list} \cup (IF Len(list) > Many THEN {Swapped(list, k) : k \in DOMAIN list} ELSE {})
AfterData(list, i) ==
  IF i % DropEvery = DropEvery - 1 THEN {<<>>} ELSE {Front(list), list}

\* The list after turn i, of one that holds the block of this turn.
ListAfter(does, list, i) ==
  CASE does = "slab"  -> {AfterChurn(list)}
    [] does = "buddy" -> {AfterInterleaved(list, i)}
    [] does \in {"churn", "system"} -> {Front(list)}
    [] does = "mixed" -> AfterMixed(list)
    [] does = "data"  -> AfterData(list, i)
    [] OTHER          -> {list}

\* The interfering threads compute most of the time, and free before they ask.
Compute(t) ==
  /\ InTurn(t) /\ Does(t) = "interfere" /\ turn[t] % AllocEvery # 0
  /\ turn' = [turn EXCEPT ![t] = @ + 1]
  /\ UNCHANGED <<job, stage, heap, pc, parts, got, holders, freezer, counted>>

Ask(t) ==
  /\ InTurn(t) /\ Does(t) \in Lists
  /\ \E size \in SizesOf(Does(t)) : Serve(t, {}, size, "list", <<>>)
  /\ UNCHANGED holders
AskAfresh(t) ==
  /\ InTurn(t) /\ Does(t) = "interfere" /\ turn[t] % AllocEvery = 0
  /\ Serve(t, BlocksIn(live[t]), Small, "list", <<>>)
  /\ live' = [live EXCEPT ![t] = <<>>]
  /\ UNCHANGED <<tree, slots, mail, open>>

Back(t, use) == pc[t] = "back" /\ got[t].use = use
EndTurn(t) ==
  /\ turn' = [turn EXCEPT ![t] = @ + 1] /\ got' = [got EXCEPT ![t] = Nothing]
  /\ Goes(t, "loop")
  /\ UNCHANGED <<job, stage, parts, freezer, counted>>
TheBlock(t) == [block |-> got[t].block, size |-> got[t].size]

ToList(t) ==
  /\ Back(t, "list")
  /\ LET list == Append(live[t], TheBlock(t))
     IN  \E after \in ListAfter(Does(t), list, turn[t]) :
           /\ live' = [live EXCEPT ![t] = after]
           /\ heap' = Freed(heap, BlocksIn(list) \ BlocksIn(after))
  /\ EndTurn(t) /\ UNCHANGED <<tree, slots, mail, open>>

(***************************************************************************)
(* workload_mt_xfree: a bounded channel between the two of a pair.         *)
(***************************************************************************)
AskToSend(t) ==
  /\ InTurn(t) /\ Does(t) = "send" /\ Serve(t, {}, Small, "mail", <<>>)
  /\ UNCHANGED holders
Send(t) ==
  /\ Back(t, "mail") /\ Len(mail[t]) < MailLen
  /\ mail' = [mail EXCEPT ![t] = Append(@, TheBlock(t))]
  /\ EndTurn(t) /\ UNCHANGED <<heap, live, tree, slots, open>>
Receive(t) ==
  /\ pc[t] = "loop" /\ Does(t) = "receive" /\ mail[t - 1] # <<>>
  /\ heap' = Freed(heap, {Head(mail[t - 1]).block})
  /\ mail' = [mail EXCEPT ![t - 1] = Tail(@)]
  /\ UNCHANGED <<job, stage, pc, parts, turn, got, live, tree, slots, open, freezer, counted>>

(***************************************************************************)
(* workload_json_tree: a node, its key, and a place among the children of  *)
(* an earlier node, whose array grows.                                     *)
(***************************************************************************)
Kids(node) == IF node.cap = 0 THEN {} ELSE {[block |-> node.kids, size |-> node.cap]}
NodeBlocks(node) == {node.node, node.key} \cup Kids(node)
Sub(node, kids, cap) == [node EXCEPT !.kids = kids, !.cap = cap, !.nkids = @ + 1]

AskNode(t) ==
  /\ InTurn(t) /\ Does(t) = "json" /\ Serve(t, {}, Big, "node", <<>>)
  /\ UNCHANGED holders
AskKey(t) ==
  /\ Back(t, "node") /\ Serve(t, {}, Small, "key", <<>>)
  /\ tree' = Append(tree, [node |-> TheBlock(t), key |-> Nothing,
                           kids |-> 0, nkids |-> 0, cap |-> 0])
  /\ UNCHANGED <<live, slots, mail, open>>
Keyed(t) == [tree EXCEPT ![Len(tree)].key = TheBlock(t)]
FirstNode(t) ==
  /\ Back(t, "key") /\ Len(tree) = 1
  /\ tree' = Keyed(t) /\ EndTurn(t) /\ UNCHANGED <<heap, live, slots, mail, open>>
Link(t) ==
  /\ Back(t, "key")
  /\ \E p \in 1 .. Len(tree) - 1 :
       /\ tree[p].nkids < tree[p].cap
       /\ tree' = [Keyed(t) EXCEPT ![p].nkids = @ + 1]
  /\ EndTurn(t) /\ UNCHANGED <<heap, live, slots, mail, open>>

\* The array of a parent that is full: had, or had anew with twice the places.
\* Only GlobalDriver overrides realloc, so the other drivers copy and free.
AskKids(t) ==
  /\ Back(t, "key")
  /\ \E p \in 1 .. Len(tree) - 1 :
       /\ tree[p].nkids = tree[p].cap
       /\ tree[p].cap = 0 \/ job.driver # "global"
       /\ Serve(t, {}, IF tree[p].cap = 0 THEN Fanout ELSE 2 * tree[p].cap, "kids", <<p>>)
  /\ tree' = Keyed(t) /\ UNCHANGED <<live, slots, mail, open>>
Grow(t) ==
  /\ Back(t, "kids")
  /\ LET p == got[t].for[1]
     IN  /\ tree' = [tree EXCEPT ![p] = Sub(@, got[t].block, got[t].size)]
         /\ heap' = Freed(heap, {k.block : k \in Kids(tree[p])})
  /\ EndTurn(t) /\ UNCHANGED <<live, slots, mail, open>>
GrowInPlace(t) ==
  /\ Back(t, "key") /\ job.driver = "global"
  /\ \E p \in 1 .. Len(tree) - 1 :
       /\ tree[p].nkids = tree[p].cap /\ tree[p].cap > 0
       /\ tree' = [Keyed(t) EXCEPT ![p] = Sub(@, @.kids, 2 * @.cap)]
       /\ heap' = [heap EXCEPT ![tree[p].kids] = 2 * tree[p].cap]
  /\ EndTurn(t) /\ UNCHANGED <<live, slots, mail, open>>

(***************************************************************************)
(* workload_kv_store: open addressing; a key that finds no slot of its own *)
(* and none empty within so many probes takes the last one it looked at.   *)
(***************************************************************************)
Probe(key, k) == (key + k) % Slots
SlotOf(key) ==
  LET fits(k) == slots[Probe(key, k)].key \in {0, key}
  IN  Probe(key, IF \E k \in 0 .. Probes - 1 : fits(k)
                 THEN Min({k \in 0 .. Probes - 1 : fits(k)}) ELSE Probes)
InSlot(s) == IF slots[s].key = 0 THEN {} ELSE {slots[s].block}

Insert(t, key) ==
  /\ InTurn(t) /\ Does(t) = "kv"
  /\ \E size \in {Small, Big} :
       Serve(t, InSlot(SlotOf(key)), size, "entry", <<key, SlotOf(key)>>)
  /\ slots' = [slots EXCEPT ![SlotOf(key)] = NoEntry]
  /\ UNCHANGED <<live, tree, mail, open>>
Entered(t) ==
  /\ Back(t, "entry")
  /\ slots' = [slots EXCEPT ![got[t].for[2]] =
                 [key |-> got[t].for[1], block |-> got[t].block, size |-> got[t].size]]
  /\ EndTurn(t) /\ UNCHANGED <<heap, live, tree, mail, open>>
Delete(t, key) ==
  /\ InTurn(t) /\ Does(t) = "kv"
  /\ LET s == SlotOf(key)
         gone == slots[s].key = key
     IN  /\ heap' = Freed(heap, IF gone THEN InSlot(s) ELSE {})
         /\ slots' = IF gone THEN [slots EXCEPT ![s] = NoEntry] ELSE slots
  /\ EndTurn(t) /\ UNCHANGED <<live, tree, mail, open>>
LookUp(t) ==
  /\ InTurn(t) /\ Does(t) = "kv" /\ EndTurn(t) /\ UNCHANGED <<heap, holders>>

(***************************************************************************)
(* The end of a loop: what it still holds is freed, and the harness is     *)
(* told of the phase, which resets its arena whatever is in it.            *)
(***************************************************************************)
Finished(t) ==
  IF Does(t) = "receive" THEN mail[t - 1] = <<>> /\ ~open[t - 1]
  ELSE turn[t] = Head(parts[t]).n
phase_end(t) == job.driver = "harness" /\ Head(parts[t]).ends
LeftOver(t) ==
  CASE Does(t) = "exhaust" -> {}
    [] Does(t) = "json"    -> {b.block : b \in UNION {NodeBlocks(tree[k]) : k \in DOMAIN tree}}
    [] Does(t) = "kv"      -> UNION {InSlot(s) : s \in DOMAIN slots}
    [] OTHER               -> BlocksIn(live[t])

EndPart(t) ==
  /\ pc[t] = "loop" /\ Finished(t)
  /\ heap' = Freed(heap, IF phase_end(t) THEN Blocks ELSE LeftOver(t))
  /\ live' = IF Does(t) = "exhaust" THEN live ELSE [live EXCEPT ![t] = <<>>]
  /\ tree' = IF Does(t) = "json" THEN <<>> ELSE tree
  /\ slots' = IF Does(t) = "kv" THEN [s \in DOMAIN slots |-> NoEntry] ELSE slots
  /\ open' = [open EXCEPT ![t] = FALSE]
  /\ parts' = [parts EXCEPT ![t] = Tail(@)] /\ turn' = [turn EXCEPT ![t] = 0]
  /\ Goes(t, IF parts'[t] = <<>> THEN "off" ELSE "loop")
  /\ UNCHANGED <<job, stage, got, mail, freezer, counted>>

\* After the run a model that is to be exported is frozen if it is not, written
\* to a temporary file and renamed; a failure is only told.
Over == \A t \in Workers : pc[t] = "off"
Export ==
  /\ stage = "run" /\ Over
  /\ IF job.export /\ regime = "training" THEN GlobalFreeze ELSE UNCHANGED regime
  /\ stage' \in IF job.export THEN {"exported", "failed"} ELSE {"over"}
  /\ UNCHANGED <<job, heap, pc, parts, turn, got, holders, remaining, polls, froze, counted>>

Work(t) ==
  \/ Compute(t) \/ Ask(t) \/ AskAfresh(t) \/ ToList(t)
  \/ AskToSend(t) \/ Send(t) \/ Receive(t)
  \/ AskNode(t) \/ AskKey(t) \/ FirstNode(t) \/ Link(t)
  \/ AskKids(t) \/ Grow(t) \/ GrowInPlace(t)
  \/ \E key \in Keys : Insert(t, key) \/ Delete(t, key)
  \/ Entered(t) \/ LookUp(t) \/ EndPart(t)

NwNext ==
  \/ Start \/ Export
  \/ \E t \in Workers :
       Work(t) \/ Count(t) \/ Check(t) \/ Poll(t) \/ FreezeOnce(t) \/ Freeze(t)

NwSpec == NwInit /\ [][NwNext]_nwVars

(***************************************************************************)
(* Who holds a block, with the size that it will be freed with: a list of  *)
(* places, so that a block in two of them is seen twice.                   *)
(***************************************************************************)
At(place, b) == [place |-> place, block |-> b.block, size |-> b.size]
Holders ==
  {At(<<"got", t, 0>>, got[t]) : t \in Workers}
    \cup UNION {{At(<<"list", t, k>>, live[t][k]) : k \in DOMAIN live[t]} : t \in Workers}
    \cup UNION {{At(<<"mail", t, k>>, mail[t][k]) : k \in DOMAIN mail[t]} : t \in Workers}
    \cup UNION {{At(<<"tree", k, b>>, b) : b \in NodeBlocks(tree[k])} : k \in DOMAIN tree}
    \cup {At(<<"slot", s, 0>>, slots[s]) : s \in DOMAIN slots}
Held == {h \in Holders : h.block # 0}

\* Every block in use is in one place only, which knows its size, and a workload
\* ends with nothing in use but what it returns to its caller.
BlocksHeld ==
  /\ \A b \in Blocks :
       LET places == {h \in Held : h.block = b}
       IN  IF heap[b] = 0 THEN places = {}
           ELSE Cardinality(places) = 1 /\ \A h \in places : h.size = heap[b]
  /\ Over /\ job.workload # "exhaust" => \A b \in Blocks : heap[b] = 0

\* A global allocator is frozen once, however many threads reach the count or find
\* it converged, never after a model was loaded; by its count it is frozen neither
\* before nor later than the allocations that were in flight.
Undecided == \E t \in Workers : pc[t] \in {"count", "freeze", "freezing"}
FrozenInTime ==
  /\ regime # "panicked"
  /\ Loads => ~froze /\ remaining = Disabled
  /\ stage = "run" /\ ~Loads /\ freeze_after # Disabled =>
       /\ counted >= freeze_after /\ ~Undecided => regime = "inference"
       /\ counted < freeze_after /\ ~converged_mode => regime = "training"

WorkloadSound == BlocksHeld /\ FrozenInTime
=============================================================================
