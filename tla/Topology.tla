------------------------------ MODULE Topology ------------------------------
(***************************************************************************)
(* The name of an allocation site (topology.rs): the return addresses of   *)
(* up to NumFrames frames, made independent of where the modules of the    *)
(* process are mapped, and mixed into a hash.                              *)
(*                                                                         *)
(* Several processes run the same program, each with its own addresses.    *)
(* Threads walk stacks, modules are loaded meanwhile, and a module's range *)
(* never overlaps another's.  The mix is taken to be free of collisions:   *)
(* a hash is the sequence of what is mixed.                                *)
(***************************************************************************)
EXTENDS Integers, Sequences, FiniteSets, SequencesExt

CONSTANTS
  Walkers, Runs,   \* threads, processes
  RunOf,           \* the process of each thread
  Darwin,          \* the processes whose modules dyld lists
  Modules,         \* what dl_iterate_phdr or dyld lists
  Started,         \* the lists of modules a process may start with
  PathOf,          \* the path of each: a sequence of names, empty for the program
  Segments,        \* [run, module]: records [load, prot, from, size]
  BaseIn,          \* [run, module]: where a module is mapped
  Stacks,          \* call stacks: sequences of [valid, ret, ends]; ret is a module
                   \* and an offset, or None (no return address)
  NumFrames, MaxModules, MemoEntries,
  None

VARIABLES
  loaded,  \* of each process: the modules mapped, in order
  table,   \* MODULE_TABLE: their ranges when it was built, or None
  last,    \* of each thread: LAST_MODULE
  memo     \* of each thread: HASH_MEMO

tpVars == <<loaded, table, last, memo>>

\* The zero range contains no address.
EmptyRange == [base |-> 0, end |-> 0, ident |-> None]

TpInit ==
  /\ loaded \in [Runs -> Started]
  /\ table = [r \in Runs |-> None]
  /\ last = [t \in Walkers |-> EmptyRange]
  /\ memo = [t \in Walkers |->
       [i \in 0 .. MemoEntries - 1 |-> [key |-> <<>>, hash |-> <<>>]]]

Address(r, ret) == BaseIn[r, ret[1]] + ret[2]

\* fnv1a_basename: the hash of the last name of the path.
Basename(m) == IF PathOf[m] = <<>> THEN "" ELSE Last(PathOf[m])

\* What the program header or the load command says of a segment; on macOS the
\* page-zero segment, without access, covers every low address and does not count.
Loadable(r, m) ==
  {s \in Segments[r, m] : s.load /\ (r \in Darwin => s.prot # 0 /\ s.size > 0)}

ModuleRange(r, m) ==
  [base |-> BaseIn[r, m] + Min({s.from : s \in Loadable(r, m)}),
   end |-> BaseIn[r, m] + Max({s.from + s.size : s \in Loadable(r, m)}),
   ident |-> Basename(m)]

\* build_module_table: the modules there are, up to the cap, without those that have
\* nothing to load.
BuiltTable(r) ==
  FoldLeft(LAMBDA entries, m :
             IF Cardinality(entries) = MaxModules \/ Loadable(r, m) = {} THEN entries
             ELSE entries \cup {ModuleRange(r, m)},
           {}, loaded[r])

\* Mutation: the remembered module is taken to reach to the next one.
InRangeFrom(range, addr) == range.ident # None /\ addr >= range.base

InRange(range, addr) == addr >= range.base /\ addr < range.end

\* normalize_pc_with: the module remembered, else the last one that begins at or
\* before the address, if it reaches so far.
Found(entries, range, addr) ==
  IF InRange(range, addr) THEN {range}
  ELSE {m \in entries : /\ m.base <= addr /\ addr < m.end
                        /\ \A n \in entries : n.base <= addr => n.base <= m.base}

\* The frames that are mixed so far, and the module remembered.
NormalizePc(entries, acc, addr) ==
  LET found == Found(entries, acc.last, addr)
  IN  IF found = {}
      THEN [ips |-> Append(acc.ips, <<None, addr>>), last |-> acc.last]
      ELSE LET m == CHOOSE m \in found : TRUE
           IN  [ips |-> Append(acc.ips, <<m.ident, addr - m.base>>), last |-> m]

NormalizeAndMix(entries, range, raw) ==
  FoldLeft(LAMBDA acc, addr : NormalizePc(entries, acc, addr),
           [ips |-> <<>>, last |-> range], raw)

\* walk_leaf and finish_walk: frames are read while the frame pointer is sound and
\* has a return address, and a frame that ends the chain is the last.
Reads(stack, i) ==
  /\ stack[i].valid /\ stack[i].ret # None
  /\ \A j \in 1 .. i - 1 : ~stack[j].ends

Collected(stack) ==
  LET depth == Cardinality({i \in 1 .. Len(stack) :
                 i <= NumFrames /\ \A j \in 1 .. i : Reads(stack, j)})
  IN  [i \in 1 .. depth |-> stack[i].ret]

MemoIndex(raw) == FoldLeft(LAMBDA sum, addr : sum + addr, 0, raw) % MemoEntries

\* The table is built by the first walk of the process that needs it.
TableOf(r) == IF table[r] = None THEN BuiltTable(r) ELSE table[r]

Raw(t, frames) == [i \in 1 .. Len(frames) |-> Address(RunOf[t], frames[i])]

Fresh(t, frames) ==
  NormalizeAndMix(TableOf(RunOf[t]), last[t], Raw(t, frames))

MemoHit(t, frames) == memo[t][MemoIndex(Raw(t, frames))].key = Raw(t, frames)

\* fast_stack_hash.  A stack without a sound frame has the sentinel.
Answer(t, frames) ==
  IF frames # <<>> /\ MemoHit(t, frames)
  THEN memo[t][MemoIndex(Raw(t, frames))].hash ELSE Fresh(t, frames).ips

\* A miss uses the table and both caches; a hit and the sentinel change nothing.
Walk(t, frames) ==
  LET entry == [key |-> Raw(t, frames), hash |-> Fresh(t, frames).ips]
  IN  /\ frames # <<>> /\ ~MemoHit(t, frames)
      /\ table' = [table EXCEPT ![RunOf[t]] = TableOf(RunOf[t])]
      /\ last' = [last EXCEPT ![t] = Fresh(t, frames).last]
      /\ memo' = [memo EXCEPT ![t][MemoIndex(Raw(t, frames))] = entry]
      /\ UNCHANGED loaded

\* one_frame_hash: the innermost frame alone, without the memo.
OneFrame(t, frames) ==
  /\ frames # <<>>
  /\ table' = [table EXCEPT ![RunOf[t]] = TableOf(RunOf[t])]
  /\ last' = [last EXCEPT ![t] = Fresh(t, <<frames[1]>>).last]
  /\ UNCHANGED <<loaded, memo>>

\* dlopen; the table is not built again.
LoadModule(r, m) ==
  /\ \A i \in 1 .. Len(loaded[r]) : loaded[r][i] # m
  /\ loaded' = [loaded EXCEPT ![r] = Append(@, m)]
  /\ UNCHANGED <<table, last, memo>>

\* What a thread can run: the modules are there.
Runnable(t) ==
  {f \in {Collected(stack) : stack \in Stacks} :
     \A i \in 1 .. Len(f) :
       \E j \in 1 .. Len(loaded[RunOf[t]]) : loaded[RunOf[t]][j] = f[i][1]}

TpNext ==
  \/ \E t \in Walkers :
       \E frames \in Runnable(t) : Walk(t, frames) \/ OneFrame(t, frames)
  \/ \E r \in Runs, m \in Modules : LoadModule(r, m)

TpSpec == TpInit /\ [][TpNext]_tpVars

\* A site's name: a return address is its module's basename and an offset if the
\* process's table has the module, and a raw address otherwise.
InTable(r, m) == \E range \in TableOf(r) : range.base = BaseIn[r, m]
Name(r, frames) ==
  [i \in 1 .. Len(frames) |->
     IF InTable(r, frames[i][1]) THEN <<Basename(frames[i][1]), frames[i][2]>>
     ELSE <<None, Address(r, frames[i])>>]

\* Whatever a thread's caches hold from other sites and modules, and whatever has been
\* loaded since, its walks and its one-frame hashes name the site and nothing else: so
\* all threads of a process agree, for good, and two processes with other addresses
\* and another load order agree as far as both tables have the modules ("stable across
\* runs and independent of load order").
SitesNamed ==
  \A t \in Walkers : \A frames \in Runnable(t) :
    /\ Answer(t, frames) = Name(RunOf[t], frames)
    /\ frames # <<>> =>
         Fresh(t, <<frames[1]>>).ips = Name(RunOf[t], <<frames[1]>>)

=============================================================================
