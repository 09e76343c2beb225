------------------------------ MODULE MCBlocks -------------------------------
(***************************************************************************)
(* TLC instance of the parts of the allocator that hold and route blocks.  *)
(* They share no state: a behaviour explores one of them, its focus,       *)
(* chosen at the start, and the others rest in one state.  Topology is     *)
(* instantiated, the others are extended.                                  *)
(***************************************************************************)
EXTENDS BlockRouting, BlockLayout, BuddyMagazine, SystemCache, ArenaReset, TLC

VARIABLES
  focus,
  loaded, table, last, memo

\* Two sites with one pin index.  The first table pins both; the second has a
\* shortcut for small requests and no pin for the others.
Row(small, mid) == [small |-> small, mid |-> mid]
TwoTables ==
  <<[distilled |-> [p |-> Row("Slab", None), q |-> Row(None, "Buddy")],
     main      |-> [p |-> Row({"Slab"}, {}), q |-> Row({}, {"Buddy"})],
     shortcut  |-> Row(None, None)],
    [distilled |-> [p |-> Row("Arena", None), q |-> Row("Arena", None)],
     main      |-> [p |-> Row({"Arena"}, {}),
                    q |-> Row({"Arena"}, {"Buddy", "Arena"})],
     shortcut  |-> Row("Arena", None)]>>

TwoRequests ==
  {[class |-> "small", plain |-> TRUE, site |-> "p"],
   [class |-> "mid", plain |-> TRUE, site |-> "q"]}

\* Two instances, one of them with two stripes; piece 7 is not magazined.
SevenPieces == 1 .. 7
TwoInstances == [p \in SevenPieces |-> IF p = 6 THEN "b" ELSE "a"]
TwoStripes   == [p \in SevenPieces |-> IF p \in {4, 5} THEN 1 ELSE 0]
OneEach      == [t \in Holders |-> IF t = "t1" THEN 0 ELSE 1]

TwoPowers == {2 ^ k : k \in 0 .. 24}

\* Two processes map the modules in another order; q is on macOS.  In the stacks, a chain that goes
\* on past the frames that are read, one that ends early, one that turns bad, and
\* one that is bad from the start.
MappedAt ==
  [x \in {"p", "q"} \X {"exe", "lib", "jit", "stub"} |->
     CASE x = <<"p", "exe">> -> 10 [] x = <<"p", "lib">> -> 20
       [] x = <<"p", "jit">> -> 31 [] x = <<"q", "exe">> -> 25
       [] x = <<"q", "lib">> -> 6  [] x = <<"q", "jit">> -> 41
       [] OTHER -> 50]
SomePaths ==
  [exe |-> <<>>, lib |-> <<"usr", "lib">>, jit |-> <<"opt", "lib">>, stub |-> <<"stub">>]
Segment(prot, from, size) == [load |-> TRUE, prot |-> prot, from |-> from, size |-> size]
SomeSegments ==
  [x \in {"p", "q"} \X {"exe", "lib", "jit", "stub"} |->
     CASE x[2] = "exe"  -> {Segment(5, 0, 2), Segment(3, 2, 2)} \cup
                           IF x[1] = "q" THEN {Segment(0, -25, 25)} ELSE {}
       [] x[2] = "stub" -> {[load |-> FALSE, prot |-> 5, from |-> 0, size |-> 4]}
       [] OTHER         -> {Segment(5, 0, 3), Segment(3, 3, 1)}]
Frame(valid, m, offset, ends) ==
  [valid |-> valid, ret |-> <<m, offset>>, ends |-> ends]
SomeStacks ==
  {<<Frame(TRUE, "exe", 1, FALSE), Frame(TRUE, "lib", 0, FALSE),
     Frame(TRUE, "exe", 2, FALSE), Frame(TRUE, "exe", 3, FALSE)>>,
   <<Frame(TRUE, "lib", 3, FALSE), Frame(TRUE, "exe", 2, TRUE),
     Frame(TRUE, "exe", 3, FALSE)>>,
   <<Frame(TRUE, "jit", 0, FALSE), Frame(TRUE, "exe", 1, FALSE),
     Frame(FALSE, "exe", 2, FALSE)>>,
   <<Frame(FALSE, "exe", 1, FALSE)>>}

Topology == INSTANCE Topology WITH
  Walkers <- {"t1", "u1"}, Runs <- {"p", "q"},
  RunOf <- [t \in {"t1", "u1"} |-> IF t = "u1" THEN "q" ELSE "p"],
  Darwin <- {"q"}, Modules <- {"exe", "lib", "jit", "stub"},
  Started <- {<<"stub", "exe">>, <<"lib", "exe">>}, PathOf <- SomePaths,
  Segments <- SomeSegments, BaseIn <- MappedAt,
  Stacks <- SomeStacks, NumFrames <- 3, MaxModules <- 2, MemoEntries <- 2

topologyVars ==
  <<loaded, table, last, memo>>
vars ==
  <<focus, brVars, bmVars, blVars, cacheVars, topologyVars, arVars>>

\* A module that is not the focus stays as it is at its start; the variables of one
\* that is instantiated are not used.
Unused == "unused"

TopologyRests ==
  /\ loaded = Unused /\ table = Unused /\ last = Unused /\ memo = Unused

OthersRest(f) ==
  /\ BrInit /\ BmInit /\ CacheInit /\ ArInit /\ BlInit
  /\ IF f = "topology" THEN TRUE ELSE TopologyRests

Init ==
  \/ focus = "block" /\ OthersRest(focus)
  \/ focus = "magazine" /\ OthersRest(focus)
  \/ focus = "layout" /\ OthersRest(focus)
  \/ focus = "cache" /\ OthersRest(focus)
  \/ focus = "topology" /\ Topology!TpInit /\ OthersRest(focus)
  \/ focus = "reset" /\ OthersRest(focus)

BlockStep ==
  /\ focus = "block" /\ BrNext
  /\ UNCHANGED <<focus, bmVars, blVars, cacheVars, topologyVars,
                  arVars>>

MagazinesStep ==
  /\ focus = "magazine" /\ BmNext
  /\ UNCHANGED <<focus, brVars, blVars, cacheVars, topologyVars,
                  arVars>>

LayoutStep ==
  /\ focus = "layout" /\ BlNext
  /\ UNCHANGED <<focus, brVars, bmVars, cacheVars, topologyVars,
                  arVars>>

CacheStep ==
  /\ focus = "cache" /\ CacheNext
  /\ UNCHANGED <<focus, brVars, bmVars, blVars, topologyVars,
                  arVars>>

TopologyStep ==
  /\ focus = "topology" /\ Topology!TpNext
  /\ UNCHANGED <<focus, brVars, bmVars, blVars, cacheVars,
                  arVars>>

ResettingStep ==
  /\ focus = "reset" /\ ArNext
  /\ UNCHANGED <<focus, brVars, bmVars, blVars, cacheVars,
                  topologyVars>>

Next ==
  \/ BlockStep
  \/ MagazinesStep
  \/ LayoutStep
  \/ CacheStep
  \/ TopologyStep
  \/ ResettingStep

Spec == Init /\ [][Next]_vars

SitesNamed == focus = "topology" => Topology!SitesNamed

=============================================================================
