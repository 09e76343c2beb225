---------------------------- MODULE BlockRouting ----------------------------
(***************************************************************************)
(* The way of one block through Lohalloc (lib.rs): which backend serves    *)
(* it, with or without a header, and what a later free takes it for.       *)
(*                                                                         *)
(* A request is answered by the first of: the fast lane (this thread's pin *)
(* and magazine), the size-class shortcut of the published table, the pin  *)
(* cache, the whole lookup, or, while no table is published, the policy    *)
(* state.  A backend that cannot serve is followed by the others in the    *)
(* order of route_by_size.  Calls of several threads interleave with each  *)
(* other and with freeze, load and reset_to_training, at the loads and     *)
(* stores of the shared flags.  Backends are abstract: a request may fail, *)
(* and what matters of a block is where its memory comes from.             *)
(***************************************************************************)
EXTENDS Integers, Sequences, FiniteSets

CONSTANTS
  Routers,     \* threads that allocate
  Controller,  \* the thread that freezes, loads and resets
  Requests,    \* [class, plain, site]: size class, whether the alignment is at
               \* most MIN_ALIGN, call site; the sites have the same pin index
  Tables,      \* what freezes publish, and what loads do
  MaxKinds,    \* bound: no request while so many kinds of block are in use
  LatchesAlone,\* assumption: a call that may set the latches runs alone
  None

\* The thread that freezes, loads and resets does not allocate.
ASSUME ControllerApart == Controller \notin Routers

Threads  == Routers \cup {Controller}
Classes  == {r.class : r \in Requests}
Sites    == {r.site : r \in Requests}
Backends == {"Slab", "Buddy", "Arena", "System"}

\* Small requests are below SLAB_MAX and below the orders a header-free buddy
\* block can have; the others fit the buddy alone.
DefaultOf(class) == IF class = "small" THEN "Slab" ELSE "Buddy"

\* FrozenRouting: distilled and main map a site and a class to backends (main to
\* those of all its contexts), shortcut a class to a backend.
Distilled(k, site, class) == Tables[k].distilled[site][class]
Main(k, site, class) ==
  IF site = None \/ Tables[k].main[site][class] = {} THEN {DefaultOf(class)}
  ELSE Tables[k].main[site][class]
Shortcut(k, class) == Tables[k].shortcut[class]
HasSlabPin(k) ==
  \E site \in Sites, class \in Classes : Distilled(k, site, class) = "Slab"

VARIABLES
  policy,     \* AllocatorState: 0 in training, else the table it routes by
  stateLock,  \* its Mutex
  routing,    \* frozen_table: 0, or the table published
  isFrozen, lane, slabFlag, buddyFlag, arenaFlag,
              \* frozen, fast_lane_on and the three headerless latches
  latchInit,  \* train_headerless_init
  magId,      \* magazine_id
  recording, touched,
              \* record_orders; which of buddy and arena have memory
  pin, mag, seg,
              \* hot TLS: pin entry, slab magazine, segment cache
  inUse,      \* the kinds of the blocks the program has
  doing       \* the call of each thread

flags   == <<isFrozen, lane, slabFlag, buddyFlag, arenaFlag, latchInit>>
central == <<recording, touched>>
tlsVars == <<pin, mag, seg>>
brVars  == <<policy, stateLock, routing, flags, magId, central, tlsVars, inUse,
             doing>>

NoCall == [at |-> "idle", op |-> "none", req |-> None, site |-> None,
           rest |-> <<>>, flav |-> "none", old |-> None, token |-> None,
           alone |-> FALSE]
NoPin  == [k |-> 0, site |-> None, verdict |-> [class \in Classes |-> "unknown"]]

BrInit ==
  /\ policy = 0 /\ stateLock = None /\ routing = 0 /\ isFrozen = FALSE
  /\ lane = FALSE /\ slabFlag = FALSE /\ buddyFlag = FALSE /\ arenaFlag = FALSE
  /\ latchInit = FALSE /\ magId = 0 /\ recording = FALSE /\ touched = {}
  /\ pin = [t \in Routers |-> NoPin]
  /\ mag = [t \in Routers |-> [owner |-> 0, flav |-> "none"]]
  /\ seg = [t \in Routers |-> 0]
  /\ inUse = {} /\ doing = [t \in Threads |-> NoCall]

Idle(t)      == doing[t].at = "idle"
At(t, s)     == doing[t].at = s
Step(t, s)   == doing' = [doing EXCEPT ![t].at = s]
Return(t)    == doing' = [doing EXCEPT ![t] = NoCall]
Plain(t)     == doing[t].req.plain
Class(t)     == doing[t].req.class
Quiet        == \A t \in Threads : Idle(t)
MayStart(t)  == Idle(t) /\ \A u \in Threads : ~doing[u].alone

\* The first allocation, and a load or an enable on an instance not latched, set latches
\* that calls in flight have read.
Alone(op) ==
  /\ LatchesAlone /\ ~slabFlag
  /\ op \in {"load", "enable"} \/ (op \in {"alloc", "realloc"} /\ ~latchInit)

Block(backend, flav, owned) ==
  [backend |-> backend, flav |-> flav, mapped |-> owned]

(***************************************************************************)
(* What a free takes a block for.                                          *)
(***************************************************************************)

\* The three probes, each behind its flag: the block's segment is a header-free one,
\* the order of its slot is recorded, its chunk is registered.
headerless_class_for(b)       == slabFlag /\ b.backend = "Slab" /\ b.mapped
buddy_headerless_order_for(b) == buddyFlag /\ b.backend = "Buddy" /\ b.mapped
arena_headerless_hit(b)       == arenaFlag /\ b.backend = "Arena"

\* The header is read only if no probe hits.
Classified(b) ==
  IF headerless_class_for(b) \/ buddy_headerless_order_for(b) \/ arena_headerless_hit(b)
  THEN "headerless" ELSE "header"

\* Freeing an arena block is the same with a header and without.
Right(b, as) == b.backend = "Arena" \/ as = b.flav

(***************************************************************************)
(* Routing a request.                                                      *)
(***************************************************************************)

\* The backends asked in turn: the one routed to, then route_by_size without it.
From(first) ==
  <<first>> \o SelectSeq(<<"Slab", "Buddy">>, LAMBDA b : b # first)
              \o <<"System">>

Ask(t, first) ==
  doing' = [doing EXCEPT ![t].at = "serve", ![t].rest = From(first),
                         ![t].site = None]

Begin(t, op, r, old, token, at) ==
  /\ Alone(op) => Quiet
  /\ doing' = [doing EXCEPT ![t] = [NoCall EXCEPT
    !.at = at, !.op = op, !.req = r, !.site = r.site, !.old = old, !.token = token,
    !.alone = Alone(op)]]

\* alloc begins with the fast lane's flag.
Entry(r) == IF lane /\ r.plain /\ r.class = "small" THEN "lane" ELSE "route"

Alloc(t, r) ==
  /\ MayStart(t) /\ Cardinality(inUse) < MaxKinds
  /\ Begin(t, "alloc", r, None, None, Entry(r))
  /\ UNCHANGED <<policy, stateLock, routing, flags, magId, central, tlsVars,
                 inUse>>

\* alloc_with_hash goes to the whole lookup, with the hash of the caller.
AllocWithHash(t, r) ==
  /\ MayStart(t) /\ Cardinality(inUse) < MaxKinds
  /\ Begin(t, "alloc", r, None, None, "inner")
  /\ UNCHANGED <<policy, stateLock, routing, flags, magId, central, tlsVars,
                 inUse>>

\* alloc_with_hash_and_strategy: the preferred backend is asked before.
AllocPreferred(t, r, b) ==
  /\ MayStart(t) /\ Cardinality(inUse) < MaxKinds
  /\ Alone("alloc") => Quiet
  /\ doing' = [doing EXCEPT ![t] = [NoCall EXCEPT
       !.at = "serve", !.op = "prefer", !.req = r, !.site = r.site, !.rest = <<b>>,
       !.alone = Alone("alloc")]]
  /\ UNCHANGED <<policy, stateLock, routing, flags, magId, central, tlsVars,
                 inUse>>

\* A block is handed out.  A reallocation still has to copy into it and to free
\* the old block.
HandOut(t, b) ==
  /\ inUse' = inUse \cup {b}
  /\ IF doing[t].op = "realloc" THEN Step(t, "freeOld") ELSE Return(t)

\* slab_fast_alloc: everything is in this thread's TLS, but for the table and the
\* owner id.  The magazine may be empty at any time.
FastLane(t) ==
  /\ At(t, "lane")
  /\ \/ /\ routing # 0 /\ pin[t].k = routing /\ pin[t].site = doing[t].site
        /\ pin[t].verdict[Class(t)] = "Slab"
        /\ mag[t].owner = magId /\ mag[t].flav # "none"
        /\ HandOut(t, Block("Slab", "headerless", mag[t].flav = "headerless"))
     \/ Step(t, "route") /\ UNCHANGED inUse
  /\ UNCHANGED <<policy, stateLock, routing, flags, magId, central, tlsVars>>

\* Mutation: the entry taken over keeps its verdicts.
PinnedOver(t, k, site, class) ==
  [pin[t] EXCEPT !.k = k, !.site = site, !.verdict[class] = Distilled(k, site, class)]

\* pin_store: another table or another site takes the entry over.
Pinned(t, k, site, class) ==
  LET e == IF pin[t].k = k /\ pin[t].site = site THEN pin[t]
           ELSE [NoPin EXCEPT !.k = k, !.site = site]
  IN  [e EXCEPT !.verdict[class] = Distilled(k, site, class)]

\* route_alloc, by the table it loads: the shortcut, then the pin.  A walk that
\* finds no frame goes straight to the whole lookup.
Route(t) ==
  /\ At(t, "route")
  /\ LET k     == routing
         e     == pin[t]
         known == e.k = k /\ e.site = doing[t].site /\ e.verdict[Class(t)] # "unknown"
     IN  \/ /\ k # 0 /\ Shortcut(k, Class(t)) # None
            /\ Ask(t, Shortcut(k, Class(t))) /\ UNCHANGED pin
         \/ /\ k # 0 => Shortcut(k, Class(t)) = None
            /\ \/ /\ k # 0 /\ known /\ e.verdict[Class(t)] # None
                  /\ Ask(t, e.verdict[Class(t)]) /\ UNCHANGED pin
               \/ /\ k # 0 /\ known /\ e.verdict[Class(t)] = None
                  /\ Step(t, "inner") /\ UNCHANGED pin
               \/ /\ k # 0 /\ ~known
                  /\ pin' = [pin EXCEPT ![t] = Pinned(t, k, doing[t].site, Class(t))]
                  /\ Step(t, "inner")
               \/ /\ doing' = [doing EXCEPT ![t].at = "inner", ![t].site = None]
                  /\ UNCHANGED pin
  /\ UNCHANGED <<policy, stateLock, routing, flags, magId, central, mag, seg,
                 inUse>>

\* route_alloc_inner begins with the latch, which one call runs, unless
\* LOHALLOC_TRAIN_HEADERLESS turns it off.
Inner(t) ==
  /\ At(t, "inner")
  /\ latchInit' = TRUE
  /\ \/ ~latchInit /\ ~isFrozen /\ Step(t, "latchSlab")
     \/ Step(t, "lookup")
  /\ UNCHANGED <<policy, stateLock, routing, isFrozen, lane, slabFlag, buddyFlag,
                 arenaFlag, magId, central, tlsVars, inUse>>

\* The whole lookup in the table, loaded anew, or else the policy state, where a
\* small plain request has the buddy masked out on a header-free instance.
Lookup(t) ==
  /\ At(t, "lookup")
  /\ IF routing # 0
     THEN \E b \in Main(routing, doing[t].site, Class(t)) : Ask(t, b)
     ELSE /\ stateLock = None
          /\ IF policy = 0
             THEN \E b \in Backends :
                    /\ buddyFlag /\ Plain(t) /\ Class(t) = "small" => b # "Buddy"
                    /\ Ask(t, b)
             ELSE \E b \in Main(policy, doing[t].site, Class(t)) : Ask(t, b)
  /\ UNCHANGED <<policy, stateLock, routing, flags, magId, central, tlsVars,
                 inUse>>

(***************************************************************************)
(* Serving a request: try_backend and route_by_size.                       *)
(***************************************************************************)

Fits(b, class, flav) ==
  CASE b = "Slab"  -> class = "small"
    [] b = "Buddy" -> class # "small" \/ flav = "header"
    [] OTHER       -> TRUE

\* A backend's latch decides between the two flavours before it is entered.
FlavourFor(t, b) ==
  IF Plain(t) /\ ((b = "Slab" /\ slabFlag) \/ (b = "Buddy" /\ buddyFlag)
                  \/ (b = "Arena" /\ arenaFlag))
  THEN "headerless" ELSE "header"

\* After the last backend a null pointer is returned, and a reallocation has left
\* the old block alone; but a preference is followed by the whole lookup.
NextBackend(t) ==
  \/ /\ Tail(doing[t].rest) # <<>>
     /\ doing' = [doing EXCEPT ![t].at = "serve", ![t].rest = Tail(@)]
     /\ UNCHANGED inUse
  \/ /\ Tail(doing[t].rest) = <<>> /\ doing[t].op # "prefer"
     /\ inUse' = inUse \cup ({doing[t].old} \ {None}) /\ Return(t)
  \/ /\ Tail(doing[t].rest) = <<>> /\ doing[t].op = "prefer"
     /\ doing' = [doing EXCEPT ![t].at = "inner", ![t].op = "alloc",
                               ![t].rest = <<>>, ![t].flav = "none"]
     /\ UNCHANGED inUse

Serve(t) ==
  /\ At(t, "serve")
  /\ LET b == Head(doing[t].rest)
     IN  IF Fits(b, Class(t), FlavourFor(t, b))
         THEN /\ doing' = [doing EXCEPT ![t].at = "take", ![t].flav = FlavourFor(t, b)]
              /\ UNCHANGED inUse
         ELSE NextBackend(t)
  /\ UNCHANGED <<policy, stateLock, routing, flags, magId, central, tlsVars>>

\* The slab's magazine: what is in it, or a refill of the flavour asked for.
TakeSlab(t) ==
  \/ /\ mag[t].owner = magId /\ mag[t].flav # "none"
     /\ HandOut(t, Block("Slab", doing[t].flav, mag[t].flav = "headerless"))
     /\ UNCHANGED <<mag, touched>>
  \/ /\ mag' = [mag EXCEPT ![t] = [owner |-> magId, flav |-> doing[t].flav]]
     /\ HandOut(t, Block("Slab", doing[t].flav, doing[t].flav = "headerless"))
     /\ UNCHANGED touched

\* The buddy and the arena decide under their lock what they record.
TakeOther(t, b) ==
  /\ touched' = touched \cup ({b} \cap {"Buddy", "Arena"})
  /\ HandOut(t, Block(b, doing[t].flav,
       b = "Buddy" /\ recording /\ Class(t) # "small"))
  /\ UNCHANGED mag

Take(t) ==
  /\ At(t, "take")
  /\ LET b == Head(doing[t].rest)
     IN  \/ b = "Slab" /\ TakeSlab(t)
         \/ b # "Slab" /\ TakeOther(t, b)
         \/ NextBackend(t) /\ UNCHANGED <<touched, mag>>
  /\ UNCHANGED <<policy, stateLock, routing, flags, magId, recording, pin, seg>>

(***************************************************************************)
(* Freeing a block.                                                        *)
(***************************************************************************)

\* Other blocks of the kind may remain.
Gone(b) == inUse' \in {inUse, inUse \ {b}}

\* slab_fast_dealloc: the segment cache of this thread and of this owner id.
FreeFast(t, b) ==
  /\ MayStart(t)
  /\ lane /\ seg[t] = magId /\ magId # 0 /\ mag[t].owner = magId
  /\ b.backend = "Slab" /\ b.mapped
  /\ mag' = [mag EXCEPT ![t].flav = "headerless"]
  /\ Gone(b)
  /\ UNCHANGED <<policy, stateLock, routing, flags, magId, central, pin, seg,
                 doing>>

\* What the block is taken for decides how it is freed: a header-free slab block
\* goes to the magazine, one with a header only while the instance is not
\* header-free.
FreeAs(t, b, as) ==
  mag' = IF b.backend = "Slab" /\ (as = "headerless" \/ ~slabFlag)
         THEN [mag EXCEPT ![t] = [owner |-> magId, flav |-> as]] ELSE mag

\* dealloc, which also fills the segment cache.
Free(t, b) ==
  /\ MayStart(t)
  /\ FreeAs(t, b, Classified(b)) /\ Gone(b)
  /\ seg' = IF b.backend = "Slab" /\ Classified(b) = "headerless" /\ lane
            THEN [seg EXCEPT ![t] = magId] ELSE seg
  /\ UNCHANGED <<policy, stateLock, routing, flags, magId, central, pin, doing>>

\* realloc: the token is what the block is taken for now.  Except in the arena the
\* block may be large enough; otherwise a new one is asked for.
Realloc(t, b, r) ==
  /\ MayStart(t)
  /\ Begin(t, "realloc", r, b, Classified(b), Entry(r))
  /\ inUse' = inUse \ {b}
  /\ UNCHANGED <<policy, stateLock, routing, flags, magId, central, tlsVars>>

\* dealloc_with_header_token
FreeOld(t) ==
  /\ At(t, "freeOld")
  /\ FreeAs(t, doing[t].old, doing[t].token)
  /\ Return(t)
  /\ UNCHANGED <<policy, stateLock, routing, flags, magId, central, pin, seg,
                 inUse>>

(***************************************************************************)
(* freeze, load and reset_to_training, one at a time.                      *)
(***************************************************************************)

StartControl(t, op, s) ==
  /\ MayStart(t) /\ stateLock = None
  /\ Alone(op) => Quiet
  /\ doing' = [doing EXCEPT ![t] =
                 [NoCall EXCEPT !.at = s, !.op = op, !.alone = Alone(op)]]

\* The state freezes, and routes by another table than before, under its lock.
Freeze(t, k) ==
  /\ policy = 0 /\ StartControl(t, "freeze", "publishLane")
  /\ policy' = k /\ stateLock' = t
  /\ UNCHANGED <<routing, flags, magId, central, tlsVars, inUse>>

\* The state is replaced, whatever it was.
Load(t, k) ==
  /\ StartControl(t, "load", "latchSlab")
  /\ policy' = k /\ stateLock' = t
  /\ UNCHANGED <<routing, flags, magId, central, tlsVars, inUse>>

\* A training instance is latched, or is never to be, by hand.
EnableTraining(t) ==
  /\ ~isFrozen /\ StartControl(t, "enable", "latchSlab")
  /\ latchInit' = TRUE
  /\ UNCHANGED <<policy, stateLock, routing, isFrozen, lane, slabFlag, buddyFlag,
                 arenaFlag, magId, central, tlsVars, inUse>>

DisableTraining(t) ==
  /\ MayStart(t)
  /\ latchInit' = TRUE
  /\ UNCHANGED <<policy, stateLock, routing, isFrozen, lane, slabFlag, buddyFlag,
                 arenaFlag, magId, central, tlsVars, inUse, doing>>

\* latch_headerless, step by step.
AfterLatch(t) ==
  \/ doing[t].op = "load" /\ Step(t, "publishLane")
  \/ doing[t].op = "enable" /\ Return(t)
  \/ doing[t].op \in {"alloc", "realloc"} /\ Step(t, "lookup")

LatchSlab(t) ==
  /\ At(t, "latchSlab")
  /\ slabFlag' = TRUE /\ Step(t, "latchMag")
  /\ UNCHANGED <<policy, stateLock, routing, isFrozen, lane, buddyFlag, arenaFlag,
                 latchInit, magId, central, tlsVars, inUse>>

\* A fresh id; equality is all that matters, so the ids are renumbered.
LatchMag(t) ==
  /\ At(t, "latchMag")
  /\ magId' = 1 /\ Step(t, "latchBuddy")
  /\ mag' = [u \in Routers |-> [owner |-> 0, flav |-> "none"]]
  /\ seg' = [u \in Routers |-> 0]
  /\ UNCHANGED <<policy, stateLock, routing, flags, central, pin, inUse>>

\* Mutation: the gate opens although the buddy was touched and records nothing.
LatchAnyBuddy(t) ==
  /\ At(t, "latchBuddy")
  /\ recording' = (recording \/ "Buddy" \notin touched)
  /\ buddyFlag' = TRUE /\ Step(t, "latchArena")
  /\ UNCHANGED <<policy, stateLock, routing, isFrozen, lane, slabFlag, arenaFlag,
                 latchInit, magId, touched, tlsVars, inUse>>

\* Only a buddy without regions starts to record orders and is latched.
LatchBuddy(t) ==
  /\ At(t, "latchBuddy")
  /\ IF "Buddy" \notin touched
     THEN recording' = TRUE /\ buddyFlag' = TRUE
     ELSE UNCHANGED <<recording, buddyFlag>>
  /\ Step(t, "latchArena")
  /\ UNCHANGED <<policy, stateLock, routing, isFrozen, lane, slabFlag, arenaFlag,
                 latchInit, magId, touched, tlsVars, inUse>>

LatchArena(t) ==
  /\ At(t, "latchArena")
  /\ arenaFlag' = (arenaFlag \/ "Arena" \notin touched)
  /\ AfterLatch(t)
  /\ UNCHANGED <<policy, stateLock, routing, isFrozen, lane, slabFlag, buddyFlag,
                 latchInit, magId, central, tlsVars, inUse>>

\* publish_frozen_table: the lane before the table.
PublishLane(t) ==
  /\ At(t, "publishLane")
  /\ lane' = (slabFlag /\ HasSlabPin(policy))
  /\ Step(t, "publish")
  /\ UNCHANGED <<policy, stateLock, routing, isFrozen, slabFlag, buddyFlag,
                 arenaFlag, latchInit, magId, central, tlsVars, inUse>>

\* freeze sets frozen after it has let go of the state, load before.
Publish(t) ==
  /\ At(t, "publish")
  /\ routing' = policy
  /\ stateLock' = IF doing[t].op = "freeze" THEN None ELSE stateLock
  /\ Step(t, "setFrozen")
  /\ UNCHANGED <<policy, flags, magId, central, tlsVars, inUse>>

SetFrozen(t) ==
  /\ At(t, "setFrozen")
  /\ isFrozen' = TRUE /\ Return(t)
  /\ stateLock' = IF stateLock = t THEN None ELSE stateLock
  /\ UNCHANGED <<policy, routing, lane, slabFlag, buddyFlag, arenaFlag, latchInit,
                 magId, central, tlsVars, inUse>>

\* reset_to_training: the lane, the table, the state, the flag.
Reset(t) ==
  /\ StartControl(t, "reset", "unpublish")
  /\ lane' = FALSE
  /\ UNCHANGED <<policy, stateLock, routing, isFrozen, slabFlag, buddyFlag,
                 arenaFlag, latchInit, magId, central, tlsVars, inUse>>

Unpublish(t) ==
  /\ At(t, "unpublish")
  /\ routing' = 0 /\ Step(t, "retrain")
  /\ UNCHANGED <<policy, stateLock, flags, magId, central, tlsVars, inUse>>

Retrain(t) ==
  /\ At(t, "retrain") /\ stateLock = None
  /\ policy' = 0 /\ Step(t, "thaw")
  /\ UNCHANGED <<stateLock, routing, flags, magId, central, tlsVars, inUse>>

Thaw(t) ==
  /\ At(t, "thaw")
  /\ isFrozen' = FALSE /\ Return(t)
  /\ UNCHANGED <<policy, stateLock, routing, lane, slabFlag, buddyFlag, arenaFlag,
                 latchInit, magId, central, tlsVars, inUse>>

BrNext ==
  \/ \E t \in Routers :
       \/ \E r \in Requests :
            \/ Alloc(t, r) \/ AllocWithHash(t, r)
            \/ \E b \in {"Slab", "Arena", "Buddy"} : AllocPreferred(t, r, b)
            \/ \E b \in inUse : Realloc(t, b, r)
       \/ \E b \in inUse : FreeFast(t, b) \/ Free(t, b)
       \/ FastLane(t) \/ Route(t) \/ Inner(t) \/ Lookup(t) \/ Serve(t)
       \/ Take(t) \/ FreeOld(t)
  \/ Freeze(Controller, 1) \/ Load(Controller, 2)
  \/ \E t \in Threads :
       LatchSlab(t) \/ LatchMag(t) \/ LatchBuddy(t) \/ LatchArena(t)
  \/ EnableTraining(Controller) \/ DisableTraining(Controller)
  \/ PublishLane(Controller) \/ Publish(Controller) \/ SetFrozen(Controller)
  \/ Reset(Controller) \/ Unpublish(Controller) \/ Retrain(Controller)
  \/ Thaw(Controller)

\* A free, and the last step of a realloc, take every block for what it was served
\* as, whatever latches were set, tables published and magazines adopted since
\* ("header is authoritative"; the header of a header-free block "may be another
\* live block's tail").  For plain requests, if latches are set by calls that run
\* alone.
FreeFindsServer ==
  /\ \A b \in inUse : Right(b, Classified(b))
  /\ \A t \in Routers : doing[t].op = "realloc" => Right(doing[t].old, doing[t].token)

\* Whatever freezes, loads and resets came in between, a pin answers for its site
\* as the table it names was distilled, never for another table or a site with
\* the same index; and between control calls the table in force is the one of
\* the policy state, with frozen set exactly when there is one.
TableInForce ==
  /\ \A t \in Routers : pin[t].k # 0 =>
       \A class \in Classes : pin[t].verdict[class] \in
         {"unknown", Distilled(pin[t].k, pin[t].site, class)}
  /\ Idle(Controller) => routing = policy /\ (isFrozen <=> policy # 0)

BrSpec == BrInit /\ [][BrNext]_brVars
=============================================================================
