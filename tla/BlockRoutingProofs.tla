-------------------------- MODULE BlockRoutingProofs -------------------------
(***************************************************************************)
(* Proofs about what decides where a block is served and freed, and what   *)
(* it has room for: BlockRouting, for any number of threads, any requests  *)
(* and any frozen tables, and BlockLayout (at the end).                    *)
(*                                                                         *)
(* TableInForce: a pin answers as the table it names was distilled, and    *)
(* between control calls the published table is the policy state's.        *)
(*                                                                         *)
(* FreeFindsServer, when requests are plain and a call that may set the    *)
(* latches runs alone: a free takes a block for what it was served as.     *)
(* What has to be said beside it is that the flavour a call has chosen is  *)
(* still the one its backend's latch asks for when the block is taken      *)
(* (ChoiceStands), that magazines hold one flavour (MagFlavour), and that  *)
(* once an instance is header-free the buddy's latch can no longer change  *)
(* (Settled): a later latch finds it set or the buddy touched.             *)
(***************************************************************************)
EXTENDS BlockRouting, BlockLayout, Arithmetic, TLAPS

\* ControllerApart, as the hypothesis of the lemmas.
ControlApart == Controller \notin Routers

\* The requests and the calls FreeFindsServer is about.
PlainAlone == LatchesAlone = TRUE /\ \A r \in Requests : r.plain = TRUE

ControlLabels == {"latchSlab", "latchMag", "latchBuddy", "latchArena", "publishLane",
                  "publish", "setFrozen", "unpublish", "retrain", "thaw"}
Latching      == {"latchSlab", "latchMag", "latchBuddy", "latchArena"}
CallLabels    == {"lane", "route", "inner", "lookup", "serve", "take", "freeOld"}

CallFields == {"at", "op", "req", "site", "rest", "flav", "old", "token", "alone"}

-----------------------------------------------------------------------------
(* The tables.                                                              *)

\* A pin entry that names a table holds what the table says of its site.
PinSound(e) ==
  /\ DOMAIN e = {"k", "site", "verdict"} /\ DOMAIN e.verdict = Classes
  /\ e.k # 0 => \A class \in Classes :
                  e.verdict[class] \in {"unknown", Distilled(e.k, e.site, class)}

\* Between control calls: the table published is the policy state's.
InForce == routing = policy /\ (isFrozen <=> policy # 0)

\* How far a control call has come, and what it has stored.
Control ==
  LET c == doing[Controller]
  IN  /\ c.at \in {"idle"} \cup ControlLabels
      /\ c.op \in {"none", "freeze", "load", "enable", "reset"}
      /\ c.at = "idle" => InForce
      /\ c.at \in Latching => c.op \in {"load", "enable"}
      /\ c.at \in Latching /\ c.op = "enable" => InForce
      /\ (c.at \in Latching /\ c.op = "load") \/ c.at \in {"publishLane", "publish"} =>
           policy # 0
      /\ c.at = "setFrozen" => routing = policy /\ policy # 0
      /\ c.at \in {"retrain", "thaw"} => routing = 0
      /\ c.at = "thaw" => policy = 0

\* Every thread is idle, or in a call of its kind with the request it began with.
CallsTyped ==
  /\ DOMAIN doing = Threads /\ \A t \in Threads : DOMAIN doing[t] = CallFields
  /\ \A t \in Threads : Idle(t) => doing[t] = NoCall
  /\ \A t \in Routers : doing[t].at \in {"idle"} \cup CallLabels \cup Latching
  /\ \A t \in Routers : ~Idle(t) => doing[t].req \in Requests
                                    /\ doing[t].op \in {"alloc", "realloc", "prefer"}
  /\ \A t \in Routers : doing[t].at = "freeOld" => doing[t].op = "realloc"

\* Every thread's pin is sound.
PinsSound == DOMAIN pin = Routers /\ \A t \in Routers : PinSound(pin[t])

TablesInv == CallsTyped /\ Control /\ PinsSound

-----------------------------------------------------------------------------
(* The flavours.                                                            *)

\* A block header and latches agree: a header-free slab block comes from a header-free
\* segment, a header-free buddy block from a recorded slot, a block of the system has a
\* header; and a latch stays set.
BlockOK(b) ==
  /\ DOMAIN b = {"backend", "flav", "mapped"}
  /\ b.mapped \in BOOLEAN /\ b.flav \in {"header", "headerless"}
  /\ b.backend # "Arena" => (b.flav = "headerless" <=> b.mapped)
  /\ b.backend = "Slab" /\ b.mapped => slabFlag
  /\ b.backend = "Buddy" => "Buddy" \in touched /\ (b.mapped => buddyFlag)
  /\ b.backend \notin {"Slab", "Buddy", "Arena"} => b.flav = "header"

BlocksOK ==
  /\ \A b \in inUse : BlockOK(b)
  /\ \A t \in Routers :
       IF doing[t].op = "realloc"
       THEN BlockOK(doing[t].old) /\ doing[t].token \in {"header", "headerless"}
            /\ Right(doing[t].old, doing[t].token)
       ELSE doing[t].old = None

\* A call that sets the latches is alone, from before it looks at them.
AloneAlone ==
  \A t \in Threads : /\ doing[t].alone \in BOOLEAN
                     /\ doing[t].alone => \A u \in Threads \ {t} : Idle(u)
\* One that is not alone began with the latches set, or never to be.
FirstAlone ==
  \A t \in Threads : ~Idle(t) /\ ~doing[t].alone =>
    /\ doing[t].op \in {"alloc", "realloc", "prefer"} => slabFlag \/ latchInit
    /\ doing[t].op \in {"load", "enable"} \/ doing[t].at \in Latching => slabFlag

\* The first latch under way, past its first store.
Within(labels) == \E t \in Threads : doing[t].alone /\ doing[t].at \in labels

\* The buddy's latch is as it records, and no longer to change once the slab's is set
\* and the first latch is past it.
Settled ==
  /\ recording = buddyFlag
  /\ buddyFlag => slabFlag
  /\ slabFlag => \/ buddyFlag \/ "Buddy" \in touched
                 \/ Within({"latchMag", "latchBuddy"})
  /\ \A t \in Threads :
       doing[t].alone /\ doing[t].at \in {"latchMag", "latchBuddy", "latchArena"} =>
         slabFlag

\* A magazine in force holds one flavour, the one its latch asks for.
MagFlavour ==
  /\ DOMAIN mag = Routers
  /\ \A t \in Routers :
       /\ DOMAIN mag[t] = {"owner", "flav"}
       /\ mag[t].flav \in {"none", "header", "headerless"}
       /\ mag[t].owner = magId /\ mag[t].flav # "none" =>
            (mag[t].flav = "headerless" <=> slabFlag) \/ Within({"latchMag"})
  /\ magId \in {0, 1}

\* The flavour of a call that is about to take a block is that of the latch still.
FlavourOf(b) ==
  IF (b = "Slab" /\ slabFlag) \/ (b = "Buddy" /\ buddyFlag) \/ (b = "Arena" /\ arenaFlag)
  THEN "headerless" ELSE "header"
ChoiceStands ==
  \A t \in Routers : At(t, "take") =>
    LET b == Head(doing[t].rest)
    IN  /\ doing[t].flav \in {"header", "headerless"}
        /\ b # "Arena" => doing[t].flav = FlavourOf(b)
        /\ b = "Buddy" /\ doing[t].flav = "headerless" => Class(t) # "small"

\* The fast lane is only ever on in a header-free instance.
LaneLatched == (lane => slabFlag) /\ \A t \in Routers : At(t, "lane") => slabFlag

FlagsTyped == slabFlag \in BOOLEAN /\ buddyFlag \in BOOLEAN

FlavourInv ==
  /\ CallsTyped /\ BlocksOK /\ AloneAlone /\ FirstAlone /\ Settled /\ MagFlavour
  /\ ChoiceStands /\ LaneLatched /\ FlagsTyped

-----------------------------------------------------------------------------
(* What a step makes of the call of its thread.                             *)

\* It goes on, as the same call.
Goes(t, at) ==
  /\ doing' = [doing EXCEPT ![t] = doing'[t]] /\ DOMAIN doing'[t] = CallFields
  /\ doing'[t].at = at /\ doing'[t].op = doing[t].op
  /\ doing'[t].req = doing[t].req /\ doing'[t].old = doing[t].old
  /\ doing'[t].token = doing[t].token /\ doing'[t].alone = doing[t].alone

\* A step of a call goes on.
LEMMA StepGoes ==
  ASSUME CallsTyped, NEW t \in Threads, NEW s, Step(t, s)
  PROVE  Goes(t, s) /\ doing'[t].flav = doing[t].flav /\ doing'[t].rest = doing[t].rest
  BY DEF CallsTyped, Step, Goes

\* A request asks its backends.
LEMMA AskGoes ==
  ASSUME CallsTyped, NEW t \in Threads, NEW b, Ask(t, b)
  PROVE  Goes(t, "serve")
  BY DEF CallsTyped, Ask, Goes, CallFields

\* A block is handed out by a call that returns, or by one that still has to free.
LEMMA HandsOut ==
  ASSUME CallsTyped, NEW t \in Threads, NEW b, HandOut(t, b)
  PROVE  /\ inUse' = inUse \cup {b}
         /\ IF doing[t].op = "realloc" THEN Goes(t, "freeOld") ELSE Return(t)
  BY StepGoes DEF HandOut

\* The next backend is asked, or the call gives up, or its preference is forgotten.
GivesUp(t) ==
  doing[t].op # "prefer" /\ inUse' = inUse \cup ({doing[t].old} \ {None}) /\ Return(t)
Forgets(t) ==
  /\ doing' = [doing EXCEPT ![t] = doing'[t]] /\ DOMAIN doing'[t] = CallFields
  /\ doing'[t].at = "inner" /\ doing[t].op = "prefer" /\ doing'[t].op = "alloc"
  /\ doing'[t].req = doing[t].req /\ doing'[t].old = doing[t].old
  /\ doing'[t].token = doing[t].token /\ doing'[t].alone = doing[t].alone
  /\ inUse' = inUse

\* A backend that cannot serve is followed by the next, or the call ends.
LEMMA GoesNext ==
  ASSUME CallsTyped, NEW t \in Threads, NextBackend(t)
  PROVE  (Goes(t, "serve") /\ inUse' = inUse) \/ GivesUp(t) \/ Forgets(t)
  <1>1. CASE Tail(doing[t].rest) # <<>>
    BY <1>1 DEF NextBackend, CallsTyped, CallFields
  <1>2. CASE Tail(doing[t].rest) = <<>> /\ doing[t].op # "prefer"
    BY <1>2 DEF NextBackend, GivesUp
  <1>3. CASE Tail(doing[t].rest) = <<>> /\ doing[t].op = "prefer"
    BY <1>3 DEF NextBackend, CallsTyped, CallFields
  <1> QED BY <1>1, <1>2, <1>3

\* A call that is routed goes on to the backends or to the whole lookup.
LEMMA RouteGoes ==
  ASSUME CallsTyped, NEW t \in Threads, Route(t)
  PROVE  Goes(t, "serve") \/ Goes(t, "inner")
  <1>1. ASSUME doing' = [doing EXCEPT ![t].at = "inner", ![t].site = None]
        PROVE  Goes(t, "inner")
    BY <1>1 DEF CallsTyped, Goes, CallFields
  <1> QED BY <1>1, StepGoes, AskGoes DEF Route

\* The latch comes before the lookup, unless it was there.
LEMMA InnerGoes ==
  ASSUME CallsTyped, NEW t \in Threads, Inner(t)
  PROVE  latchInit' = TRUE /\ (Goes(t, "lookup") \/ (Goes(t, "latchSlab") /\ ~latchInit))
  BY StepGoes DEF Inner

\* The whole lookup ends with the backends to ask.
LEMMA LookupGoes ==
  ASSUME CallsTyped, NEW t \in Threads, Lookup(t)
  PROVE  Goes(t, "serve")
  BY AskGoes DEF Lookup

\* A backend that can serve is entered with the flavour its latch asks for.
LEMMA ServeGoes ==
  ASSUME CallsTyped, NEW t \in Threads, Serve(t)
  PROVE  \/ /\ Goes(t, "take") /\ inUse' = inUse /\ doing'[t].rest = doing[t].rest
            /\ doing'[t].flav = FlavourFor(t, Head(doing[t].rest))
            /\ Fits(Head(doing[t].rest), Class(t), FlavourFor(t, Head(doing[t].rest)))
         \/ NextBackend(t)
  <1> DEFINE b == Head(doing[t].rest)
  <1>1. CASE Fits(b, Class(t), FlavourFor(t, b))
    <2>1. /\ doing' = [doing EXCEPT ![t].at = "take", ![t].flav = FlavourFor(t, b)]
          /\ inUse' = inUse
      BY <1>1 DEF Serve
    <2> QED BY <1>1, <2>1 DEF CallsTyped, Goes, CallFields
  <1>2. CASE ~Fits(b, Class(t), FlavourFor(t, b))
    BY <1>2 DEF Serve
  <1> QED BY <1>1, <1>2

\* A backend serves, or the next one is asked.
LEMMA TakeGoes ==
  ASSUME CallsTyped, NEW t \in Threads, Take(t)
  PROVE  (\E b : HandOut(t, b)) \/ NextBackend(t)
  BY DEF Take, TakeSlab, TakeOther

-----------------------------------------------------------------------------
(* The calls.                                                               *)

\* What happens to one call leaves the others as they were.
LEMMA GoesTyped ==
  ASSUME CallsTyped, ControlApart, NEW t \in Routers, ~Idle(t),
         NEW at \in CallLabels \cup Latching, Goes(t, at),
         at = "freeOld" => doing[t].op = "realloc"
  PROVE  CallsTyped'
  BY DEF CallsTyped, Goes, Idle, CallLabels, Latching, Threads

\* The thread of a call that returns is idle.
LEMMA ReturnsTyped ==
  ASSUME CallsTyped, NEW t \in Threads, Return(t)
  PROVE  CallsTyped'
  BY DEF CallsTyped, Return, NoCall, Idle, CallFields, Threads

\* A call whose preferred backend failed begins anew.
LEMMA ForgetsTyped ==
  ASSUME CallsTyped, ControlApart, NEW t \in Routers, ~Idle(t), Forgets(t)
  PROVE  CallsTyped'
  BY DEF CallsTyped, Forgets, Idle, CallLabels, Threads

\* So calls keep their shape when a backend could not serve,
LEMMA NextTyped ==
  ASSUME CallsTyped, ControlApart, NEW t \in Routers, ~Idle(t), NextBackend(t)
  PROVE  CallsTyped'
  BY GoesNext, GoesTyped, ReturnsTyped, ForgetsTyped DEF GivesUp, CallLabels, Threads

\* and when one did.
LEMMA HandOutTyped ==
  ASSUME CallsTyped, ControlApart, NEW t \in Routers, ~Idle(t), NEW b, HandOut(t, b)
  PROVE  CallsTyped'
  BY HandsOut, GoesTyped, ReturnsTyped DEF CallLabels, Threads

\* Every thread is idle or in a call of its kind, with the request it began with.
LEMMA CallsTypedStep ==
  ASSUME CallsTyped, ControlApart, BrNext PROVE CallsTyped'
  <1> USE DEF Idle, At, MayStart, Begin, StartControl
  <1>1. ASSUME NEW t \in Routers, NEW r \in Requests, Alloc(t, r)
        PROVE  CallsTyped'
    BY <1>1
    DEF Alloc, CallsTyped, ControlApart, Threads, CallFields, CallLabels, Entry
  <1>2. ASSUME NEW t \in Routers, NEW r \in Requests, AllocWithHash(t, r)
        PROVE  CallsTyped'
    BY <1>2 DEF AllocWithHash, CallsTyped, Threads, CallFields, CallLabels
  <1>3. ASSUME NEW t \in Routers, NEW r \in Requests,
               NEW b \in {"Slab", "Arena", "Buddy"}, AllocPreferred(t, r, b)
        PROVE  CallsTyped'
    BY <1>3 DEF AllocPreferred, CallsTyped, Threads, CallLabels
  <1>4. ASSUME NEW t \in Routers, NEW r \in Requests, NEW b \in inUse, Realloc(t, b, r)
        PROVE  CallsTyped'
    BY <1>4 DEF Realloc, CallsTyped, Threads, CallFields, CallLabels, Entry
  <1>5. ASSUME NEW t \in Routers, NEW b \in inUse, FreeFast(t, b)
        PROVE  CallsTyped'
    BY <1>5 DEF FreeFast, CallsTyped
  <1>6. ASSUME NEW t \in Routers, NEW b \in inUse, Free(t, b)
        PROVE  CallsTyped'
    BY <1>6 DEF Free, CallsTyped
  <1>7. ASSUME NEW t \in Routers, FastLane(t)
        PROVE  CallsTyped'
    BY <1>7, StepGoes, GoesTyped, HandOutTyped DEF FastLane, CallLabels, Threads
  <1>8. ASSUME NEW t \in Routers, Route(t)
        PROVE  CallsTyped'
    BY <1>8, RouteGoes, GoesTyped DEF Route, CallLabels, Threads
  <1>9. ASSUME NEW t \in Routers, Inner(t)
        PROVE  CallsTyped'
    BY <1>9, InnerGoes, GoesTyped DEF Inner, CallLabels, Latching, Threads
  <1>10. ASSUME NEW t \in Routers, Lookup(t)
        PROVE  CallsTyped'
    BY <1>10, LookupGoes, GoesTyped DEF Lookup, CallLabels, Threads
  <1>11. ASSUME NEW t \in Routers, Serve(t)
        PROVE  CallsTyped'
    BY <1>11, ServeGoes, GoesTyped, NextTyped DEF Serve, CallLabels, Threads
  <1>12. ASSUME NEW t \in Routers, Take(t)
        PROVE  CallsTyped'
    BY <1>12, TakeGoes, HandOutTyped, NextTyped DEF Take, CallLabels, Threads
  <1>13. ASSUME NEW t \in Routers, FreeOld(t)
        PROVE  CallsTyped'
    BY <1>13 DEF FreeOld, Return, CallsTyped, Threads, CallFields, NoCall
  <1>14. ASSUME NEW t \in Threads, LatchSlab(t) PROVE CallsTyped'
    BY <1>14
    DEF LatchSlab, Step, CallsTyped, ControlApart, Threads, CallFields, CallLabels,
        Latching
  <1>15. ASSUME NEW t \in Threads, LatchMag(t) PROVE CallsTyped'
    BY <1>15
    DEF LatchMag, Step, CallsTyped, ControlApart, Threads, CallFields, CallLabels,
        Latching
  <1>16. ASSUME NEW t \in Threads, LatchBuddy(t) PROVE CallsTyped'
    BY <1>16
    DEF LatchBuddy, Step, CallsTyped, ControlApart, Threads, CallFields, CallLabels,
        Latching
  <1>17. ASSUME NEW t \in Threads, LatchArena(t) PROVE CallsTyped'
    <2>1. CASE Return(t)
      BY <2>1, ReturnsTyped
    <2>2. CASE ~Return(t)
      <3>1. (Step(t, "publishLane") /\ doing[t].op = "load") \/ Step(t, "lookup")
        BY <1>17, <2>2 DEF LatchArena, AfterLatch
      <3> QED BY <3>1, <1>17
              DEF LatchArena, Step, CallsTyped, Threads, CallFields, CallLabels
    <2> QED BY <2>1, <2>2
  <1>18. CASE Freeze(Controller, 1)
    BY <1>18 DEF Freeze, CallsTyped, ControlApart, Threads
  <1>19. CASE Load(Controller, 2)
    BY <1>19 DEF Load, CallsTyped, ControlApart, Threads
  <1>20. CASE EnableTraining(Controller)
    BY <1>20 DEF EnableTraining, CallsTyped, ControlApart, Threads
  <1>21. CASE DisableTraining(Controller)
    BY <1>21 DEF DisableTraining, CallsTyped
  <1>22. CASE PublishLane(Controller)
    BY <1>22
    DEF PublishLane, Step, CallsTyped, Threads, CallFields, CallLabels, Latching
  <1>23. CASE Publish(Controller)
    BY <1>23
    DEF Publish, Step, CallsTyped, Threads, CallFields, CallLabels, Latching
  <1>24. CASE SetFrozen(Controller)
    BY <1>24 DEF SetFrozen, Return, CallsTyped, Threads, CallFields, NoCall
  <1>25. CASE Reset(Controller)
    BY <1>25 DEF Reset, CallsTyped, ControlApart, Threads
  <1>26. CASE Unpublish(Controller)
    BY <1>26
    DEF Unpublish, Step, CallsTyped, Threads, CallFields, CallLabels, Latching
  <1>27. CASE Retrain(Controller)
    BY <1>27
    DEF Retrain, Step, CallsTyped, Threads, CallFields, CallLabels, Latching
  <1>28. CASE Thaw(Controller)
    BY <1>28 DEF Thaw, Return, CallsTyped, Threads, CallFields, NoCall
  <1> QED BY <1>1, <1>2, <1>3, <1>4, <1>5, <1>6, <1>7, <1>8, <1>9, <1>10, <1>11, <1>12,
             <1>13, <1>14, <1>15, <1>16, <1>17, <1>18, <1>19, <1>20, <1>21, <1>22,
             <1>23, <1>24, <1>25, <1>26, <1>27, <1>28 DEF BrNext

\* The stores of a control call come in their order.
LEMMA ControlStep ==
  ASSUME CallsTyped, Control, ControlApart, BrNext PROVE Control'
  <1> USE DEF Idle, At, Step, Return, MayStart, Begin, Ask, HandOut, StartControl,
              flags, central, tlsVars
  <1>1. ASSUME NEW t \in Routers, NEW r \in Requests, Alloc(t, r)
        PROVE  Control'
    BY <1>1 DEF Alloc, Control, ControlApart, InForce
  <1>2. ASSUME NEW t \in Routers, NEW r \in Requests, AllocWithHash(t, r)
        PROVE  Control'
    BY <1>2 DEF AllocWithHash, Control, ControlApart, InForce
  <1>3. ASSUME NEW t \in Routers, NEW r \in Requests,
               NEW b \in {"Slab", "Arena", "Buddy"}, AllocPreferred(t, r, b)
        PROVE  Control'
    BY <1>3 DEF AllocPreferred, Control, ControlApart, InForce
  <1>4. ASSUME NEW t \in Routers, NEW r \in Requests, NEW b \in inUse, Realloc(t, b, r)
        PROVE  Control'
    BY <1>4 DEF Realloc, Control, ControlApart, InForce
  <1>5. ASSUME NEW t \in Routers, NEW b \in inUse, FreeFast(t, b)
        PROVE  Control'
    BY <1>5 DEF FreeFast, Control, InForce
  <1>6. ASSUME NEW t \in Routers, NEW b \in inUse, Free(t, b)
        PROVE  Control'
    BY <1>6 DEF Free, Control, InForce
  <1>7. ASSUME NEW t \in Routers, FastLane(t)
        PROVE  Control'
    BY <1>7 DEF FastLane, CallsTyped, Control, Threads, InForce
  <1>8. ASSUME NEW t \in Routers, Route(t)
        PROVE  Control'
    BY <1>8 DEF Route, CallsTyped, Control, Threads, CallLabels, InForce
  <1>9. ASSUME NEW t \in Routers, Inner(t)
        PROVE  Control'
    BY <1>9 DEF Inner, CallsTyped, Control, Threads, InForce
  <1>10. ASSUME NEW t \in Routers, Lookup(t)
        PROVE  Control'
    BY <1>10 DEF Lookup, CallsTyped, Control, Threads, ControlLabels, InForce
  <1>11. ASSUME NEW t \in Routers, Serve(t)
        PROVE  Control'
    BY <1>11
    DEF Serve, NextBackend, CallsTyped, Control, Threads, Latching, InForce
  <1>12. ASSUME NEW t \in Routers, Take(t)
        PROVE  Control'
    BY <1>12
    DEF Take, TakeSlab, TakeOther, NextBackend, CallsTyped, Control, ControlApart,
        Threads, CallFields, ControlLabels, Latching, InForce
  <1>13. ASSUME NEW t \in Routers, FreeOld(t)
        PROVE  Control'
    BY <1>13 DEF FreeOld, Control, ControlLabels, InForce
  <1>14. ASSUME NEW t \in Threads, LatchSlab(t) PROVE Control'
    BY <1>14 DEF LatchSlab, Control, ControlLabels, Latching, InForce
  <1>15. ASSUME NEW t \in Threads, LatchMag(t) PROVE Control'
    BY <1>15 DEF LatchMag, Control, ControlLabels, Latching, InForce
  <1>16. ASSUME NEW t \in Threads, LatchBuddy(t) PROVE Control'
    BY <1>16 DEF LatchBuddy, Control, ControlLabels, Latching, InForce
  <1>17. ASSUME NEW t \in Threads, LatchArena(t) PROVE Control'
    BY <1>17
    DEF LatchArena, AfterLatch, CallsTyped, Control, Threads, CallFields, ControlLabels,
        Latching, InForce, NoCall
  <1>18. CASE Freeze(Controller, 1)
    BY <1>18 DEF Freeze, CallsTyped, Control, Threads, ControlLabels, Latching
  <1>19. CASE Load(Controller, 2)
    BY <1>19 DEF Load, CallsTyped, Control, Threads, ControlLabels
  <1>20. CASE EnableTraining(Controller)
    BY <1>20 DEF EnableTraining, Control, ControlLabels, InForce
  <1>21. CASE DisableTraining(Controller)
    BY <1>21 DEF DisableTraining, Control, InForce
  <1>22. CASE PublishLane(Controller)
    BY <1>22 DEF PublishLane, Control, ControlLabels, Latching
  <1>23. CASE Publish(Controller)
    BY <1>23 DEF Publish, Control, ControlLabels, Latching
  <1>24. CASE SetFrozen(Controller)
    BY <1>24 DEF SetFrozen, Control, Latching, InForce, NoCall
  <1>25. CASE Reset(Controller)
    BY <1>25 DEF Reset, Control, ControlLabels, Latching, InForce
  <1>26. CASE Unpublish(Controller)
    BY <1>26 DEF Unpublish, Control, ControlLabels, Latching
  <1>27. CASE Retrain(Controller)
    BY <1>27 DEF Retrain, Control, ControlLabels, Latching
  <1>28. CASE Thaw(Controller)
    BY <1>28 DEF Thaw, Control, Latching, InForce, NoCall
  <1> QED BY <1>1, <1>2, <1>3, <1>4, <1>5, <1>6, <1>7, <1>8, <1>9, <1>10, <1>11, <1>12,
             <1>13, <1>14, <1>15, <1>16, <1>17, <1>18, <1>19, <1>20, <1>21, <1>22,
             <1>23, <1>24, <1>25, <1>26, <1>27, <1>28 DEF BrNext

\* A pin is stored by route_alloc alone.
LEMMA PinnedSound ==
  ASSUME PinsSound, NEW t \in Routers, NEW k, NEW site, NEW class \in Classes
  PROVE  PinSound(Pinned(t, k, site, class))
  <1> DEFINE e == IF pin[t].k = k /\ pin[t].site = site THEN pin[t]
                  ELSE [NoPin EXCEPT !.k = k, !.site = site]
             p == Pinned(t, k, site, class)
  <1>1. /\ DOMAIN e = {"k", "site", "verdict"} /\ DOMAIN e.verdict = Classes
        /\ e.k = k /\ e.site = site
        /\ k # 0 => \A c \in Classes :
                      e.verdict[c] \in {"unknown", Distilled(k, site, c)}
    BY DEF PinsSound, PinSound, NoPin
  <1>2. p = [e EXCEPT !.verdict[class] = Distilled(k, site, class)]
    BY DEF Pinned
  <1>3. /\ DOMAIN p = {"k", "site", "verdict"} /\ DOMAIN p.verdict = Classes
        /\ p.k = k /\ p.site = site
        /\ \A c \in Classes : p.verdict[c] = IF c = class THEN Distilled(k, site, class)
                                             ELSE e.verdict[c]
    BY <1>1, <1>2
  <1> QED BY <1>1, <1>3 DEF PinSound

\* No other step touches a pin, and no step a table.
LEMMA PinsSoundStep ==
  ASSUME CallsTyped, ControlApart, PinsSound, BrNext PROVE PinsSound'
  <1>1. CASE pin' = pin
    BY <1>1 DEF PinsSound
  <1>2. ASSUME NEW t \in Routers, Route(t), pin' # pin
        PROVE  PinsSound'
    <2>1. pin' = [pin EXCEPT ![t] = Pinned(t, routing, doing[t].site, Class(t))]
      BY <1>2 DEF Route
    <2>2. Class(t) \in Classes
      BY <1>2 DEF CallsTyped, Class, Classes, Route, At, Idle
    <2>3. PinSound(Pinned(t, routing, doing[t].site, Class(t)))
      BY <2>2, PinnedSound
    <2> HIDE DEF PinSound
    <2>4. DOMAIN pin' = Routers /\ \A u \in Routers : PinSound(pin'[u])
      BY <2>1, <2>3 DEF PinsSound
    <2> QED BY <2>4 DEF PinsSound
  <1>3. pin' = pin \/ \E t \in Routers : Route(t)
    BY
    DEF BrNext, Alloc, AllocWithHash, AllocPreferred, Realloc, FreeFast, Free, FastLane,
        Inner, Lookup, Serve, Take, FreeOld, Freeze, Load, LatchSlab, LatchMag,
        LatchBuddy, LatchArena, EnableTraining, DisableTraining, PublishLane, Publish,
        SetFrozen, Reset, Unpublish, Retrain, Thaw, tlsVars
  <1> QED BY <1>1, <1>2, <1>3

\* No table at first, and no pins.
LEMMA TablesInit ==
  ASSUME BrInit, ControlApart PROVE TablesInv
  BY
  DEF BrInit, TablesInv, CallsTyped, Control, PinsSound, PinSound, NoCall, NoPin,
      InForce, Threads, CallFields, Latching, Idle

\* Every step keeps the tables and the pins.
LEMMA TablesStep ==
  ASSUME TablesInv, ControlApart, [BrNext]_brVars PROVE TablesInv'
  <1>1. CASE BrNext
    BY <1>1, CallsTypedStep, ControlStep, PinsSoundStep DEF TablesInv
  <1>2. CASE UNCHANGED brVars
    BY <1>2
    DEF brVars, flags, tlsVars, TablesInv, CallsTyped, Control, PinsSound, InForce, Idle
  <1> QED BY <1>1, <1>2

\* Whatever freezes, loads and resets came in between, a pin answers for its site as
\* the table it names was distilled, and between control calls the published table is
\* the policy state's, with frozen set exactly when there is one.
THEOREM TableInForceAlways ==
  BrSpec => []TableInForce
  <1>0. ControlApart
    BY ControllerApart DEF ControlApart
  <1>1. BrInit => TablesInv
    BY <1>0, TablesInit
  <1>2. TablesInv /\ [BrNext]_brVars => TablesInv'
    BY <1>0, TablesStep
  <1>3. TablesInv => TableInForce
    BY DEF TablesInv, TableInForce, PinsSound, PinSound, Control, InForce, Idle
  <1> QED BY <1>1, <1>2, <1>3, PTL DEF BrSpec

-----------------------------------------------------------------------------
(* The calls that latch.                                                    *)

\* A call goes on, ends or gives its preference up: it is alone as before, or over.
Continues(t) ==
  \/ Return(t)
  \/ /\ doing' = [doing EXCEPT ![t] = doing'[t]]
     /\ doing'[t].alone = doing[t].alone

\* A call that hands a block out goes on or ends,
LEMMA HandOutCont ==
  ASSUME CallsTyped, NEW t \in Threads, NEW b, HandOut(t, b)
  PROVE  Continues(t)
  BY HandsOut DEF Continues, Goes

\* and so does one whose backend could not serve.
LEMMA NextCont ==
  ASSUME CallsTyped, NEW t \in Threads, NextBackend(t)
  PROVE  Continues(t)
  BY GoesNext DEF Continues, GivesUp, Goes, Forgets

\* Then who runs alone runs alone still.
LEMMA AloneCont ==
  ASSUME CallsTyped, AloneAlone, NEW t \in Threads, ~Idle(t), Continues(t)
  PROVE  AloneAlone'
  <1>1. CASE Return(t)
    BY <1>1 DEF CallsTyped, AloneAlone, Return, NoCall
  <1>2. CASE ~Return(t)
    <2>1. /\ \A u \in Threads \ {t} : doing'[u] = doing[u]
          /\ doing'[t].alone = doing[t].alone
      BY <1>2 DEF Continues, CallsTyped
    <2> QED BY <2>1 DEF AloneAlone, Idle
  <1> QED BY <1>1, <1>2

\* No call starts beside one that runs alone.
LEMMA AloneAloneStep ==
  ASSUME CallsTyped, PlainAlone, ControlApart, AloneAlone, BrNext PROVE AloneAlone'
  <1> USE DEF Idle, At, Step, Return, MayStart, Begin, Ask, StartControl,
              flags, central, tlsVars
  <1>1. ASSUME NEW t \in Routers, NEW r \in Requests, Alloc(t, r)
        PROVE  AloneAlone'
    BY <1>1 DEF Alloc, CallsTyped, ControlApart, AloneAlone, NoCall, Alone, Quiet
  <1>2. ASSUME NEW t \in Routers, NEW r \in Requests, AllocWithHash(t, r)
        PROVE  AloneAlone'
    BY <1>2
    DEF AllocWithHash, CallsTyped, ControlApart, AloneAlone, NoCall, Alone, Quiet
  <1>3. ASSUME NEW t \in Routers, NEW r \in Requests,
               NEW b \in {"Slab", "Arena", "Buddy"}, AllocPreferred(t, r, b)
        PROVE  AloneAlone'
    BY <1>3
    DEF AllocPreferred, CallsTyped, ControlApart, AloneAlone, NoCall, Alone, Quiet
  <1>4. ASSUME NEW t \in Routers, NEW r \in Requests, NEW b \in inUse, Realloc(t, b, r)
        PROVE  AloneAlone'
    BY <1>4
    DEF Realloc, CallsTyped, ControlApart, AloneAlone, NoCall, Alone, Quiet
  <1>5. ASSUME NEW t \in Routers, NEW b \in inUse, FreeFast(t, b)
        PROVE  AloneAlone'
    BY <1>5 DEF FreeFast, AloneAlone
  <1>6. ASSUME NEW t \in Routers, NEW b \in inUse, Free(t, b)
        PROVE  AloneAlone'
    BY <1>6 DEF Free, AloneAlone
  <1>7. ASSUME NEW t \in Routers, FastLane(t)
        PROVE  AloneAlone'
    BY <1>7, HandOutCont, StepGoes, AloneCont
    DEF FastLane, Continues, Goes, Threads
  <1>8. ASSUME NEW t \in Routers, Route(t)
        PROVE  AloneAlone'
    BY <1>8, RouteGoes, AloneCont DEF Route, Continues, Goes, Threads
  <1>9. ASSUME NEW t \in Routers, Inner(t)
        PROVE  AloneAlone'
    BY <1>9, InnerGoes, AloneCont DEF Inner, Continues, Goes, Threads
  <1>10. ASSUME NEW t \in Routers, Lookup(t)
        PROVE  AloneAlone'
    BY <1>10, LookupGoes, AloneCont DEF Lookup, Continues, Goes, Threads
  <1>11. ASSUME NEW t \in Routers, Serve(t)
        PROVE  AloneAlone'
    BY <1>11, ServeGoes, NextCont, AloneCont DEF Serve, Continues, Goes, Threads
  <1>12. ASSUME NEW t \in Routers, Take(t)
        PROVE  AloneAlone'
    BY <1>12, TakeGoes, NextCont, HandOutCont, AloneCont DEF Take, Threads
  <1>13. ASSUME NEW t \in Routers, FreeOld(t)
        PROVE  AloneAlone'
    BY <1>13 DEF FreeOld, CallsTyped, AloneAlone, NoCall
  <1>14. ASSUME NEW t \in Threads, LatchSlab(t)
        PROVE  AloneAlone'
    BY <1>14 DEF LatchSlab, AloneAlone
  <1>15. ASSUME NEW t \in Threads, LatchMag(t)
        PROVE  AloneAlone'
    BY <1>15 DEF LatchMag, AloneAlone
  <1>16. ASSUME NEW t \in Threads, LatchBuddy(t)
        PROVE  AloneAlone'
    BY <1>16 DEF LatchBuddy, AloneAlone
  <1>17. ASSUME NEW t \in Threads, LatchArena(t)
        PROVE  AloneAlone'
    <2>1. Continues(t)
      BY <1>17, StepGoes DEF LatchArena, AfterLatch, Continues, Goes
    <2> QED BY <1>17, <2>1, AloneCont DEF LatchArena
  <1>18. CASE Freeze(Controller, 1)
    BY <1>18 DEF Freeze, CallsTyped, AloneAlone, NoCall, Alone
  <1>19. CASE Load(Controller, 2)
    BY <1>19 DEF Load, CallsTyped, AloneAlone, NoCall, Alone, Quiet
  <1>20. CASE EnableTraining(Controller)
    BY <1>20 DEF EnableTraining, CallsTyped, AloneAlone, NoCall, Alone, Quiet
  <1>21. CASE DisableTraining(Controller)
    BY <1>21 DEF DisableTraining, AloneAlone
  <1>22. CASE PublishLane(Controller)
    BY <1>22 DEF PublishLane, AloneAlone
  <1>23. CASE Publish(Controller)
    BY <1>23 DEF Publish, AloneAlone
  <1>24. CASE SetFrozen(Controller)
    BY <1>24 DEF SetFrozen, CallsTyped, AloneAlone, NoCall
  <1>25. CASE Reset(Controller)
    BY <1>25 DEF Reset, CallsTyped, AloneAlone, NoCall, Alone
  <1>26. CASE Unpublish(Controller)
    BY <1>26 DEF Unpublish, AloneAlone
  <1>27. CASE Retrain(Controller)
    BY <1>27 DEF Retrain, AloneAlone
  <1>28. CASE Thaw(Controller)
    BY <1>28 DEF Thaw, CallsTyped, AloneAlone, NoCall
  <1> QED BY <1>1, <1>2, <1>3, <1>4, <1>5, <1>6, <1>7, <1>8, <1>9, <1>10, <1>11, <1>12,
             <1>13, <1>14, <1>15, <1>16, <1>17, <1>18, <1>19, <1>20, <1>21, <1>22,
             <1>23, <1>24, <1>25, <1>26, <1>27, <1>28 DEF BrNext

\* A call that goes on stays of its kind, and begins to latch only if it is alone or
\* the latches are set.
FirstKept(t) ==
  \/ Return(t)
  \/ /\ \/ doing'[t].op = doing[t].op
        \/ {doing[t].op, doing'[t].op} \subseteq {"alloc", "realloc", "prefer"}
     /\ doing'[t].at \in Latching =>
          doing[t].alone \/ slabFlag' \/ doing[t].at \in Latching

\* A call that hands a block out does not begin to latch,
LEMMA HandOutFirst ==
  ASSUME CallsTyped, NEW t \in Threads, NEW b, HandOut(t, b)
  PROVE  FirstKept(t)
  BY HandsOut DEF FirstKept, Goes, Latching

\* nor does one whose backend could not serve.
LEMMA NextFirst ==
  ASSUME CallsTyped, NEW t \in Threads, NextBackend(t)
  PROVE  FirstKept(t)
  BY GoesNext DEF FirstKept, GivesUp, Goes, Forgets, Latching

\* Then the calls that are not alone find the latches set, or never to be.
LEMMA FirstCont ==
  ASSUME CallsTyped, FirstAlone, NEW t \in Threads, ~Idle(t), Continues(t), FirstKept(t),
         slabFlag => slabFlag', latchInit => latchInit'
  PROVE  FirstAlone'
  <1>1. CASE Return(t)
    BY <1>1 DEF FirstAlone, Return, NoCall, Idle
  <1>2. CASE ~Return(t)
    <2>1. /\ \A u \in Threads \ {t} : doing'[u] = doing[u]
          /\ doing'[t].alone = doing[t].alone
      BY <1>2 DEF Continues, CallsTyped
    <2> QED BY <1>2, <2>1 DEF FirstAlone, FirstKept, Idle
  <1> QED BY <1>1, <1>2

\* A call that is not alone began when the latches were set or never to be.
LEMMA FirstAloneStep ==
  ASSUME CallsTyped, PlainAlone, ControlApart, FirstAlone, BrNext PROVE FirstAlone'
  <1> USE DEF Idle, At, Step, Return, MayStart, Begin, Ask, StartControl,
              flags, central, tlsVars
  <1>1. ASSUME NEW t \in Routers, NEW r \in Requests, Alloc(t, r)
        PROVE  FirstAlone'
    BY <1>1 DEF Alloc, Entry, PlainAlone, FirstAlone, Alone, Latching
  <1>2. ASSUME NEW t \in Routers, NEW r \in Requests, AllocWithHash(t, r)
        PROVE  FirstAlone'
    BY <1>2 DEF AllocWithHash, PlainAlone, FirstAlone, Alone, Latching
  <1>3. ASSUME NEW t \in Routers, NEW r \in Requests,
               NEW b \in {"Slab", "Arena", "Buddy"}, AllocPreferred(t, r, b)
        PROVE  FirstAlone'
    BY <1>3 DEF AllocPreferred, PlainAlone, FirstAlone, Alone, Latching
  <1>4. ASSUME NEW t \in Routers, NEW r \in Requests, NEW b \in inUse, Realloc(t, b, r)
        PROVE  FirstAlone'
    BY <1>4 DEF Realloc, Entry, PlainAlone, FirstAlone, Alone, Latching
  <1>5. ASSUME NEW t \in Routers, NEW b \in inUse, FreeFast(t, b)
        PROVE  FirstAlone'
    BY <1>5 DEF FreeFast, FirstAlone
  <1>6. ASSUME NEW t \in Routers, NEW b \in inUse, Free(t, b)
        PROVE  FirstAlone'
    BY <1>6 DEF Free, FirstAlone
  <1>7. ASSUME NEW t \in Routers, FastLane(t)
        PROVE  FirstAlone'
    <2>1. FirstKept(t)
      BY <1>7, HandOutFirst, StepGoes
      DEF FastLane, Threads, FirstKept, Goes, Forgets, Latching
    <2>2. Continues(t)
      BY <1>7, HandOutCont, StepGoes DEF FastLane, Threads, Continues, Goes
    <2> QED BY <1>7, <2>1, <2>2, FirstCont DEF FastLane, Threads
  <1>8. ASSUME NEW t \in Routers, Route(t)
        PROVE  FirstAlone'
    <2>1. FirstKept(t)
      BY <1>8, RouteGoes DEF Threads, FirstKept, Goes, Latching
    <2>2. Continues(t)
      BY <1>8, RouteGoes DEF Threads, Continues, Goes
    <2> QED BY <1>8, <2>1, <2>2, FirstCont DEF Route, Threads
  <1>9. ASSUME NEW t \in Routers, Inner(t)
        PROVE  FirstAlone'
    <2>1. FirstKept(t)
      BY <1>9, InnerGoes
      DEF Inner, FirstAlone, CallsTyped, FirstKept, Goes, Latching
    <2>2. Continues(t)
      BY <1>9, InnerGoes DEF Threads, Continues, Goes
    <2> QED BY <1>9, <2>1, <2>2, FirstCont DEF Inner, Threads
  <1>10. ASSUME NEW t \in Routers, Lookup(t)
        PROVE  FirstAlone'
    <2>1. FirstKept(t)
      BY <1>10, LookupGoes DEF Threads, FirstKept, Goes, Latching
    <2>2. Continues(t)
      BY <1>10, LookupGoes DEF Threads, Continues, Goes
    <2> QED BY <1>10, <2>1, <2>2, FirstCont DEF Lookup, Threads
  <1>11. ASSUME NEW t \in Routers, Serve(t)
        PROVE  FirstAlone'
    <2>1. FirstKept(t)
      BY <1>11, ServeGoes, NextFirst DEF Threads, FirstKept, Goes, Latching
    <2>2. Continues(t)
      BY <1>11, ServeGoes, NextCont DEF Threads, Continues, Goes
    <2> QED BY <1>11, <2>1, <2>2, FirstCont DEF Serve, Threads
  <1>12. ASSUME NEW t \in Routers, Take(t)
        PROVE  FirstAlone'
    <2>1. FirstKept(t)
      BY <1>12, TakeGoes, NextFirst, HandOutFirst DEF Threads
    <2>2. Continues(t)
      BY <1>12, TakeGoes, NextCont, HandOutCont DEF Threads
    <2> QED BY <1>12, <2>1, <2>2, FirstCont DEF Take, Threads
  <1>13. ASSUME NEW t \in Routers, FreeOld(t)
        PROVE  FirstAlone'
    BY <1>13 DEF FreeOld, FirstAlone, NoCall
  <1>14. ASSUME NEW t \in Threads, LatchSlab(t)
        PROVE  FirstAlone'
    BY <1>14 DEF LatchSlab, FirstAlone
  <1>15. ASSUME NEW t \in Threads, LatchMag(t)
        PROVE  FirstAlone'
    BY <1>15 DEF LatchMag, FirstAlone, Latching
  <1>16. ASSUME NEW t \in Threads, LatchBuddy(t)
        PROVE  FirstAlone'
    BY <1>16 DEF LatchBuddy, FirstAlone, Latching
  <1>17. ASSUME NEW t \in Threads, LatchArena(t)
        PROVE  FirstAlone'
    <2>1. FirstKept(t)
      BY <1>17, StepGoes
      DEF LatchArena, AfterLatch, FirstKept, Goes, Forgets, Latching
    <2>2. Continues(t)
      BY <1>17, StepGoes DEF LatchArena, AfterLatch, Continues, Goes
    <2> QED BY <1>17, <2>1, <2>2, FirstCont DEF LatchArena
  <1>18. CASE Freeze(Controller, 1)
    BY <1>18 DEF Freeze, FirstAlone, Latching
  <1>19. CASE Load(Controller, 2)
    BY <1>19 DEF Load, PlainAlone, FirstAlone, Alone
  <1>20. CASE EnableTraining(Controller)
    BY <1>20 DEF EnableTraining, PlainAlone, FirstAlone, Alone
  <1>21. CASE DisableTraining(Controller)
    BY <1>21 DEF DisableTraining, FirstAlone
  <1>22. CASE PublishLane(Controller)
    BY <1>22 DEF PublishLane, FirstAlone, Latching
  <1>23. CASE Publish(Controller)
    BY <1>23 DEF Publish, FirstAlone, Latching
  <1>24. CASE SetFrozen(Controller)
    BY <1>24 DEF SetFrozen, FirstAlone, NoCall
  <1>25. CASE Reset(Controller)
    BY <1>25 DEF Reset, FirstAlone, Latching
  <1>26. CASE Unpublish(Controller)
    BY <1>26 DEF Unpublish, FirstAlone, Latching
  <1>27. CASE Retrain(Controller)
    BY <1>27 DEF Retrain, FirstAlone, Latching
  <1>28. CASE Thaw(Controller)
    BY <1>28 DEF Thaw, FirstAlone, NoCall
  <1> QED BY <1>1, <1>2, <1>3, <1>4, <1>5, <1>6, <1>7, <1>8, <1>9, <1>10, <1>11, <1>12,
             <1>13, <1>14, <1>15, <1>16, <1>17, <1>18, <1>19, <1>20, <1>21, <1>22,
             <1>23, <1>24, <1>25, <1>26, <1>27, <1>28 DEF BrNext

-----------------------------------------------------------------------------
(* When the latches may change.                                             *)

PastSlab == {"latchMag", "latchBuddy", "latchArena"}

\* A step outside the latching of the slab and the buddy, and not beside the first.
CalmFlags ==
  /\ slabFlag' = slabFlag /\ buddyFlag' = buddyFlag /\ recording' = recording
  /\ magId' = magId /\ touched \subseteq touched'
Calm(t) ==
  /\ \A u \in Threads \ {t} : doing'[u] = doing[u]
  /\ doing'[t].at \notin PastSlab
  /\ (doing'[t].at = "take" => Serve(t)) /\ (doing'[t].at = "lane" => lane)
  /\ CalmFlags /\ ~Within({"latchMag", "latchBuddy"})

\* A call that starts, or goes on elsewhere, does so with no first latch under way.
LEMMA StartOut ==
  ASSUME NEW t, MayStart(t)
  PROVE  ~Within({"latchMag", "latchBuddy"})
  BY DEF MayStart, Within
\* A call that goes on or ends leaves the other calls as they were.
LEMMA ContOthers ==
  ASSUME CallsTyped, NEW t \in Threads, Continues(t)
  PROVE  /\ \A u \in Threads \ {t} : doing'[u] = doing[u]
         /\ Return(t) => doing'[t].at = "idle"
  BY DEF CallsTyped, Continues, Return, NoCall
\* A call under way elsewhere is not beside a first latch, which is alone.
LEMMA BusyOut ==
  ASSUME AloneAlone, NEW t \in Threads, ~Idle(t),
         doing[t].at \notin {"latchMag", "latchBuddy"}
  PROVE  ~Within({"latchMag", "latchBuddy"})
  BY DEF AloneAlone, Within

\* Every step is outside, or one of the first three of latch_headerless.
LEMMA CalmOrLatch ==
  ASSUME CallsTyped, ControlApart, AloneAlone, BrNext 
  PROVE  \/ \E t \in Threads : Calm(t)
         \/ \E t \in Threads : LatchSlab(t) \/ LatchMag(t) \/ LatchBuddy(t)
  <1> USE DEF Idle, At, MayStart, Begin, Ask, StartControl,
              flags, central, tlsVars
  <1>1. ASSUME NEW t \in Routers, NEW r \in Requests, Alloc(t, r)
        PROVE  Calm(t)
    <2>1. /\ \A u \in Threads \ {t} : doing'[u] = doing[u]
          /\ doing'[t].at \notin PastSlab \cup {"take"} /\ (doing'[t].at = "lane" => lane)
      BY <1>1 DEF Alloc, Entry, PastSlab
    <2> QED BY <1>1, <2>1, StartOut DEF Alloc, Calm, CalmFlags
  <1>2. ASSUME NEW t \in Routers, NEW r \in Requests, AllocWithHash(t, r)
        PROVE  Calm(t)
    <2>1. /\ \A u \in Threads \ {t} : doing'[u] = doing[u]
          /\ doing'[t].at \notin PastSlab \cup {"take"} /\ (doing'[t].at = "lane" => lane)
      BY <1>2 DEF AllocWithHash, PastSlab
    <2> QED BY <1>2, <2>1, StartOut DEF AllocWithHash, Calm, CalmFlags
  <1>3. ASSUME NEW t \in Routers, NEW r \in Requests,
               NEW b \in {"Slab", "Arena", "Buddy"}, AllocPreferred(t, r, b)
        PROVE  Calm(t)
    <2>1. /\ \A u \in Threads \ {t} : doing'[u] = doing[u]
          /\ doing'[t].at \notin PastSlab \cup {"take"} /\ (doing'[t].at = "lane" => lane)
      BY <1>3 DEF AllocPreferred, PastSlab
    <2> QED BY <1>3, <2>1, StartOut DEF AllocPreferred, Calm, CalmFlags
  <1>4. ASSUME NEW t \in Routers, NEW r \in Requests, NEW b \in inUse, Realloc(t, b, r)
        PROVE  Calm(t)
    <2>1. /\ \A u \in Threads \ {t} : doing'[u] = doing[u]
          /\ doing'[t].at \notin PastSlab \cup {"take"} /\ (doing'[t].at = "lane" => lane)
      BY <1>4 DEF Realloc, Entry, PastSlab
    <2> QED BY <1>4, <2>1, StartOut DEF Realloc, Calm, CalmFlags
  <1>5. ASSUME NEW t \in Routers, NEW b \in inUse, FreeFast(t, b)
        PROVE  Calm(t)
    <2>1. /\ \A u \in Threads \ {t} : doing'[u] = doing[u]
          /\ doing'[t].at \notin PastSlab \cup {"take"} /\ (doing'[t].at = "lane" => lane)
      BY <1>5 DEF FreeFast, PastSlab
    <2> QED BY <1>5, <2>1, StartOut DEF FreeFast, Calm, CalmFlags
  <1>6. ASSUME NEW t \in Routers, NEW b \in inUse, Free(t, b)
        PROVE  Calm(t)
    <2>1. /\ \A u \in Threads \ {t} : doing'[u] = doing[u]
          /\ doing'[t].at \notin PastSlab \cup {"take"} /\ (doing'[t].at = "lane" => lane)
      BY <1>6 DEF Free, PastSlab
    <2> QED BY <1>6, <2>1, StartOut DEF Free, Calm, CalmFlags
  <1>7. ASSUME NEW t \in Routers, FastLane(t)
        PROVE  Calm(t)
    <2>1. Continues(t)
      BY <1>7, HandOutCont, StepGoes DEF FastLane, Threads, Continues, Goes
    <2>2. /\ \A u \in Threads \ {t} : doing'[u] = doing[u]
          /\ Return(t) => doing'[t].at = "idle"
      BY <2>1, ContOthers DEF Threads
    <2>3. \/ doing'[t].at \notin PastSlab \cup {"take", "lane"}
          \/ (Serve(t) /\ doing'[t].at = "take")
      BY <1>7, <2>2, HandsOut, StepGoes
      DEF FastLane, Goes, Forgets, GivesUp, PastSlab, Threads
    <2> QED BY <1>7, <2>2, <2>3, BusyOut
            DEF FastLane, Calm, CalmFlags, PastSlab, Threads
  <1>8. ASSUME NEW t \in Routers, Route(t)
        PROVE  Calm(t)
    <2>1. Continues(t)
      BY <1>8, RouteGoes DEF Threads, Continues, Goes
    <2>2. /\ \A u \in Threads \ {t} : doing'[u] = doing[u]
          /\ Return(t) => doing'[t].at = "idle"
      BY <2>1, ContOthers DEF Threads
    <2>3. \/ doing'[t].at \notin PastSlab \cup {"take", "lane"}
          \/ (Serve(t) /\ doing'[t].at = "take")
      BY <1>8, <2>2, RouteGoes DEF Goes, PastSlab, Threads
    <2> QED BY <1>8, <2>2, <2>3, BusyOut
            DEF Route, Calm, CalmFlags, PastSlab, Threads
  <1>9. ASSUME NEW t \in Routers, Inner(t)
        PROVE  Calm(t)
    <2>1. Continues(t)
      BY <1>9, InnerGoes DEF Threads, Continues, Goes
    <2>2. /\ \A u \in Threads \ {t} : doing'[u] = doing[u]
          /\ Return(t) => doing'[t].at = "idle"
      BY <2>1, ContOthers DEF Threads
    <2>3. \/ doing'[t].at \notin PastSlab \cup {"take", "lane"}
          \/ (Serve(t) /\ doing'[t].at = "take")
      BY <1>9, <2>2, InnerGoes DEF Goes, PastSlab, Threads
    <2> QED BY <1>9, <2>2, <2>3, BusyOut
            DEF Inner, Calm, CalmFlags, PastSlab, Threads
  <1>10. ASSUME NEW t \in Routers, Lookup(t)
        PROVE  Calm(t)
    <2>1. Continues(t)
      BY <1>10, LookupGoes DEF Threads, Continues, Goes
    <2>2. /\ \A u \in Threads \ {t} : doing'[u] = doing[u]
          /\ Return(t) => doing'[t].at = "idle"
      BY <2>1, ContOthers DEF Threads
    <2>3. \/ doing'[t].at \notin PastSlab \cup {"take", "lane"}
          \/ (Serve(t) /\ doing'[t].at = "take")
      BY <1>10, <2>2, LookupGoes DEF Goes, PastSlab, Threads
    <2> QED BY <1>10, <2>2, <2>3, BusyOut
            DEF Lookup, Calm, CalmFlags, PastSlab, Threads
  <1>11. ASSUME NEW t \in Routers, Serve(t)
        PROVE  Calm(t)
    <2>1. Continues(t)
      BY <1>11, ServeGoes, NextCont DEF Threads, Continues, Goes
    <2>2. /\ \A u \in Threads \ {t} : doing'[u] = doing[u]
          /\ Return(t) => doing'[t].at = "idle"
      BY <2>1, ContOthers DEF Threads
    <2>3. \/ doing'[t].at \notin PastSlab \cup {"take", "lane"}
          \/ (Serve(t) /\ doing'[t].at = "take")
      BY <1>11, <2>2, ServeGoes, GoesNext
      DEF Goes, Forgets, GivesUp, PastSlab, Threads
    <2> QED BY <1>11, <2>2, <2>3, BusyOut
            DEF Serve, Calm, CalmFlags, PastSlab, Threads
  <1>12. ASSUME NEW t \in Routers, Take(t)
        PROVE  Calm(t)
    <2>1. Continues(t)
      BY <1>12, TakeGoes, NextCont, HandOutCont DEF Threads
    <2>2. /\ \A u \in Threads \ {t} : doing'[u] = doing[u]
          /\ Return(t) => doing'[t].at = "idle"
      BY <2>1, ContOthers DEF Threads
    <2>3. \/ doing'[t].at \notin PastSlab \cup {"take", "lane"}
          \/ (Serve(t) /\ doing'[t].at = "take")
      BY <1>12, <2>2, TakeGoes, GoesNext, HandsOut
      DEF Goes, Forgets, GivesUp, PastSlab, Threads
    <2> QED BY <1>12, <2>2, <2>3, BusyOut
            DEF Take, TakeOther, TakeSlab, Calm, CalmFlags, PastSlab, Threads
  <1>13. ASSUME NEW t \in Routers, FreeOld(t)
        PROVE  Calm(t)
    <2>1. /\ \A u \in Threads \ {t} : doing'[u] = doing[u]
          /\ doing'[t].at \notin PastSlab \cup {"take"} /\ (doing'[t].at = "lane" => lane)
      BY <1>13 DEF FreeOld, Step, Return, PastSlab, NoCall
    <2> QED BY <1>13, <2>1, BusyOut DEF FreeOld, Calm, CalmFlags, Threads
  <1>17. ASSUME NEW t \in Threads, LatchArena(t)
        PROVE  Calm(t)
    <2>1. /\ \A u \in Threads \ {t} : doing'[u] = doing[u]
          /\ doing'[t].at \notin PastSlab \cup {"take"} /\ (doing'[t].at = "lane" => lane)
      BY <1>17, StepGoes
      DEF LatchArena, AfterLatch, Return, CallsTyped, Goes, PastSlab, NoCall
    <2> QED BY <1>17, <2>1, BusyOut DEF LatchArena, Calm, CalmFlags
  <1>18. ASSUME Freeze(Controller, 1) PROVE Calm(Controller)
    <2>1. /\ \A u \in Threads \ {Controller} : doing'[u] = doing[u]
          /\ doing'[Controller].at \notin PastSlab \cup {"take"}
          /\ (doing'[Controller].at = "lane" => lane)
      BY <1>18 DEF Freeze, PastSlab
    <2> QED BY <1>18, <2>1, StartOut DEF Freeze, Calm, CalmFlags
  <1>19. ASSUME Load(Controller, 2) PROVE Calm(Controller)
    <2>1. /\ \A u \in Threads \ {Controller} : doing'[u] = doing[u]
          /\ doing'[Controller].at \notin PastSlab \cup {"take"}
          /\ (doing'[Controller].at = "lane" => lane)
      BY <1>19 DEF Load, PastSlab
    <2> QED BY <1>19, <2>1, StartOut DEF Load, Calm, CalmFlags
  <1>20. ASSUME EnableTraining(Controller) PROVE Calm(Controller)
    <2>1. /\ \A u \in Threads \ {Controller} : doing'[u] = doing[u]
          /\ doing'[Controller].at \notin PastSlab \cup {"take"}
          /\ (doing'[Controller].at = "lane" => lane)
      BY <1>20 DEF EnableTraining, PastSlab
    <2> QED BY <1>20, <2>1, StartOut DEF EnableTraining, Calm, CalmFlags
  <1>21. ASSUME DisableTraining(Controller) PROVE Calm(Controller)
    <2>1. /\ \A u \in Threads \ {Controller} : doing'[u] = doing[u]
          /\ doing'[Controller].at \notin PastSlab \cup {"take"}
          /\ (doing'[Controller].at = "lane" => lane)
      BY <1>21 DEF DisableTraining, PastSlab
    <2> QED BY <1>21, <2>1, StartOut DEF DisableTraining, Calm, CalmFlags
  <1>22. ASSUME PublishLane(Controller) PROVE Calm(Controller)
    <2>1. /\ \A u \in Threads \ {Controller} : doing'[u] = doing[u]
          /\ doing'[Controller].at \notin PastSlab \cup {"take"}
          /\ (doing'[Controller].at = "lane" => lane)
      BY <1>22 DEF PublishLane, Step, Return, PastSlab
    <2> QED BY <1>22, <2>1, BusyOut DEF PublishLane, Calm, CalmFlags, Threads
  <1>23. ASSUME Publish(Controller) PROVE Calm(Controller)
    <2>1. /\ \A u \in Threads \ {Controller} : doing'[u] = doing[u]
          /\ doing'[Controller].at \notin PastSlab \cup {"take"}
          /\ (doing'[Controller].at = "lane" => lane)
      BY <1>23 DEF Publish, Step, Return, PastSlab
    <2> QED BY <1>23, <2>1, BusyOut DEF Publish, Calm, CalmFlags, Threads
  <1>24. ASSUME SetFrozen(Controller) PROVE Calm(Controller)
    <2>1. /\ \A u \in Threads \ {Controller} : doing'[u] = doing[u]
          /\ doing'[Controller].at \notin PastSlab \cup {"take"}
          /\ (doing'[Controller].at = "lane" => lane)
      BY <1>24 DEF SetFrozen, Step, Return, PastSlab, NoCall
    <2> QED BY <1>24, <2>1, BusyOut DEF SetFrozen, Calm, CalmFlags, Threads
  <1>25. ASSUME Reset(Controller) PROVE Calm(Controller)
    <2>1. /\ \A u \in Threads \ {Controller} : doing'[u] = doing[u]
          /\ doing'[Controller].at \notin PastSlab \cup {"take"}
          /\ (doing'[Controller].at = "lane" => lane)
      BY <1>25 DEF Reset, PastSlab
    <2> QED BY <1>25, <2>1, StartOut DEF Reset, Calm, CalmFlags
  <1>26. ASSUME Unpublish(Controller) PROVE Calm(Controller)
    <2>1. /\ \A u \in Threads \ {Controller} : doing'[u] = doing[u]
          /\ doing'[Controller].at \notin PastSlab \cup {"take"}
          /\ (doing'[Controller].at = "lane" => lane)
      BY <1>26 DEF Unpublish, Step, Return, PastSlab
    <2> QED BY <1>26, <2>1, BusyOut DEF Unpublish, Calm, CalmFlags, Threads
  <1>27. ASSUME Retrain(Controller) PROVE Calm(Controller)
    <2>1. /\ \A u \in Threads \ {Controller} : doing'[u] = doing[u]
          /\ doing'[Controller].at \notin PastSlab \cup {"take"}
          /\ (doing'[Controller].at = "lane" => lane)
      BY <1>27 DEF Retrain, Step, Return, PastSlab
    <2> QED BY <1>27, <2>1, BusyOut DEF Retrain, Calm, CalmFlags, Threads
  <1>28. ASSUME Thaw(Controller) PROVE Calm(Controller)
    <2>1. /\ \A u \in Threads \ {Controller} : doing'[u] = doing[u]
          /\ doing'[Controller].at \notin PastSlab \cup {"take"}
          /\ (doing'[Controller].at = "lane" => lane)
      BY <1>28 DEF Thaw, Step, Return, PastSlab, NoCall
    <2> QED BY <1>28, <2>1, BusyOut DEF Thaw, Calm, CalmFlags, Threads
  <1>c. Controller \in Threads
    BY DEF Threads
  <1>r. \A t \in Routers : t \in Threads
    BY DEF Threads
  <1> QED BY <1>c, <1>r, <1>1, <1>2, <1>3, <1>4, <1>5, <1>6, <1>7, <1>8, <1>9,
             <1>10, <1>11, <1>12, <1>13, <1>17, <1>18, <1>19, <1>20, <1>21, <1>22,
             <1>23, <1>24, <1>25, <1>26, <1>27, <1>28 DEF BrNext

\* Of the first latch, or of a later one that finds everything settled.
LatchAlone(t) == doing[t].alone \/ slabFlag

\* Who latches is the first, which runs alone, or finds the slab's latch set.
LEMMA AloneOrSet ==
  ASSUME CallsTyped, FirstAlone, NEW t \in Threads, doing[t].at \in Latching
  PROVE  LatchAlone(t)
  BY DEF FirstAlone, LatchAlone, Idle, Latching

\* Once the first latch is over the buddy's latch is settled.
LEMMA SettledStep ==
  ASSUME CallsTyped, ControlApart, AloneAlone, FirstAlone, Settled, BrNext
  PROVE  Settled'
  <1>1. ASSUME NEW t \in Threads, Calm(t)
        PROVE  Settled'
    <2>1. /\ recording' = buddyFlag' /\ (buddyFlag' => slabFlag')
          /\ slabFlag' => buddyFlag' \/ "Buddy" \in touched'
      BY <1>1 DEF Calm, CalmFlags, Settled
    <2>2. \A u \in Threads : doing'[u].alone /\ doing'[u].at \in PastSlab => slabFlag'
      BY <1>1 DEF Calm, CalmFlags, Settled, PastSlab
    <2> QED BY <2>1, <2>2 DEF Settled, PastSlab
  <1>2. ASSUME NEW t \in Threads, LatchSlab(t)
        PROVE  Settled'
    <2>1. /\ doing'[t].at = "latchMag" /\ doing'[t].alone = doing[t].alone
          /\ slabFlag' = TRUE /\ buddyFlag' = buddyFlag /\ recording' = recording
          /\ touched' = touched
      BY <1>2 DEF LatchSlab, Step, CallsTyped, central
    <2>2. \A u \in Threads \ {t} : doing'[u] = doing[u]
      BY <1>2 DEF LatchSlab, Step
    <2>3. CASE doing[t].alone
      BY <2>1, <2>2, <2>3 DEF Settled, Within
    <2>4. CASE ~doing[t].alone
      <3>1. slabFlag /\ ~Within({"latchMag", "latchBuddy"})
        BY <1>2, <2>4, AloneOrSet, BusyOut DEF LatchSlab, At, LatchAlone, Latching, Idle
      <3> QED BY <2>1, <3>1 DEF Settled
    <2> QED BY <2>3, <2>4
  <1>3. ASSUME NEW t \in Threads, LatchMag(t)
        PROVE  Settled'
    <2>1. /\ doing[t].at = "latchMag"
          /\ doing'[t].at = "latchBuddy" /\ doing'[t].alone = doing[t].alone
          /\ slabFlag' = slabFlag /\ buddyFlag' = buddyFlag /\ recording' = recording
          /\ touched' = touched
      BY <1>3 DEF LatchMag, Step, CallsTyped, central, flags, At
    <2>2. \A u \in Threads \ {t} : doing'[u] = doing[u]
      BY <1>3 DEF LatchMag, Step
    <2>3. Within({"latchMag", "latchBuddy"}) => Within({"latchMag", "latchBuddy"})'
      BY <2>1, <2>2 DEF Within
    <2> QED BY <2>1, <2>2, <2>3 DEF Settled
  <1>4. ASSUME NEW t \in Threads, LatchBuddy(t)
        PROVE  Settled'
    <2>1. /\ doing[t].at = "latchBuddy"
          /\ doing'[t].at = "latchArena" /\ doing'[t].alone = doing[t].alone
          /\ slabFlag' = slabFlag /\ touched' = touched
          /\ IF "Buddy" \notin touched THEN recording' = TRUE /\ buddyFlag' = TRUE
             ELSE recording' = recording /\ buddyFlag' = buddyFlag
      BY <1>4 DEF LatchBuddy, Step, CallsTyped, At
    <2>2. \A u \in Threads \ {t} : doing'[u] = doing[u]
      BY <1>4 DEF LatchBuddy, Step
    <2>3. slabFlag
      BY <2>1, AloneOrSet DEF Settled, LatchAlone, Latching
    <2> QED BY <2>1, <2>2, <2>3 DEF Settled
  <1> QED BY <1>1, <1>2, <1>3, <1>4, CalmOrLatch

\* The latches are only ever set.
LEMMA FlagsTypedStep ==
  ASSUME CallsTyped, ControlApart, AloneAlone, FlagsTyped, BrNext
  PROVE  FlagsTyped' /\ (slabFlag => slabFlag') /\ (buddyFlag => buddyFlag')
  BY CalmOrLatch DEF Calm, CalmFlags, FlagsTyped, LatchSlab, LatchMag, LatchBuddy, flags

\* While a call is under way that is not latching, the flags it looked at stand.
LEMMA FlagsStand ==
  ASSUME CallsTyped, ControlApart, AloneAlone, FirstAlone, Settled, FlagsTyped, BrNext,
         NEW t \in Threads, ~Idle(t), doing[t].at \notin Latching
  PROVE  slabFlag' = slabFlag /\ buddyFlag' = buddyFlag
  <1>1. ~Within({"latchMag", "latchBuddy"})
    BY BusyOut DEF Latching
  <1>2. ASSUME NEW u \in Threads, doing[u].at \in Latching
        PROVE  slabFlag = TRUE
    <2>1. u # t /\ ~doing[u].alone
      BY <1>2 DEF AloneAlone
    <2> QED BY <2>1, <1>2, AloneOrSet DEF LatchAlone
  <1>3. ASSUME NEW u \in Threads, LatchSlab(u)
        PROVE  slabFlag' = slabFlag /\ buddyFlag' = buddyFlag
    BY <1>2, <1>3 DEF LatchSlab, At, Latching
  <1>4. ASSUME NEW u \in Threads, LatchBuddy(u)
        PROVE  slabFlag' = slabFlag /\ buddyFlag' = buddyFlag
    <2>1. slabFlag
      BY <1>2, <1>4 DEF LatchBuddy, At, Latching
    <2>2. buddyFlag = TRUE \/ "Buddy" \in touched
      BY <2>1, <1>1 DEF Settled
    <2> QED BY <2>2, <1>4 DEF LatchBuddy
  <1> QED BY <1>3, <1>4, CalmOrLatch DEF Calm, CalmFlags, LatchMag, flags

\* The fast lane is only ever on in a header-free instance.
LEMMA LaneLatchedStep ==
  ASSUME CallsTyped, ControlApart, AloneAlone, LaneLatched, FlagsTyped, BrNext
  PROVE  LaneLatched'
  <1>1. slabFlag => slabFlag'
    BY FlagsTypedStep
  <1>2. lane' => slabFlag'
    <2>1. lane' = lane \/ PublishLane(Controller) \/ Reset(Controller)
      <3>1. ASSUME NEW t \in Routers, NEW r \in Requests,
                   \/ Alloc(t, r) \/ AllocWithHash(t, r)
                   \/ \E b \in {"Slab", "Arena", "Buddy"} : AllocPreferred(t, r, b)
                   \/ \E b \in inUse : Realloc(t, b, r)
            PROVE  lane' = lane
        BY <3>1 DEF Alloc, AllocWithHash, AllocPreferred, Realloc, flags
      <3>5. ASSUME NEW t \in Routers, NEW b \in inUse, FreeFast(t, b) \/ Free(t, b)
            PROVE  lane' = lane
        BY <3>5 DEF FreeFast, Free, flags
      <3>2. ASSUME NEW t \in Routers,
                   \/ FastLane(t) \/ Route(t) \/ Inner(t) \/ Lookup(t) \/ Serve(t)
                   \/ Take(t) \/ FreeOld(t)
            PROVE  lane' = lane
        BY <3>2 DEF FastLane, Route, Inner, Lookup, Serve, Take, FreeOld, flags
      <3>3. ASSUME NEW t \in Threads,
                   LatchSlab(t) \/ LatchMag(t) \/ LatchBuddy(t) \/ LatchArena(t)
            PROVE  lane' = lane
        BY <3>3 DEF LatchSlab, LatchMag, LatchBuddy, LatchArena, flags
      <3>4. ASSUME \/ Freeze(Controller, 1) \/ Load(Controller, 2)
                   \/ EnableTraining(Controller) \/ DisableTraining(Controller)
                   \/ Publish(Controller) \/ SetFrozen(Controller) \/ Unpublish(Controller)
                   \/ Retrain(Controller) \/ Thaw(Controller)
            PROVE  lane' = lane
        BY <3>4 DEF Freeze, Load, EnableTraining, DisableTraining, Publish, SetFrozen,
                    Unpublish, Retrain, Thaw, flags
      <3> QED BY <3>1, <3>2, <3>3, <3>4, <3>5 DEF BrNext
    <2> QED BY <1>1, <2>1 DEF LaneLatched, PublishLane, Reset
  <1>3. ASSUME NEW t \in Routers, doing'[t].at = "lane"
        PROVE  slabFlag'
    <2>1. t \in Threads
      BY DEF Threads
    <2>2. doing'[t].at = doing[t].at \/ lane
      <3>1. ASSUME NEW u \in Threads, Calm(u)
            PROVE  doing'[t].at = doing[t].at \/ lane
        BY <1>3, <2>1, <3>1 DEF Calm
      <3>2. ASSUME NEW u \in Threads, LatchSlab(u) \/ LatchMag(u) \/ LatchBuddy(u)
            PROVE  doing'[t].at = doing[t].at
        BY <1>3, <2>1, <3>2
        DEF LatchSlab, LatchMag, LatchBuddy, Step, CallsTyped, CallFields
      <3> QED BY <3>1, <3>2, CalmOrLatch
    <2> QED BY <1>1, <1>3, <2>1, <2>2 DEF LaneLatched, At
  <1> QED BY <1>2, <1>3 DEF LaneLatched, At

\* The flavour chosen before a backend is entered is the one its latch asks for still.
LEMMA ChoiceStandsStep ==
  ASSUME CallsTyped, PlainAlone, ControlApart, AloneAlone, FirstAlone, Settled, FlagsTyped,
         ChoiceStands, BrNext
  PROVE  ChoiceStands'
  <1> SUFFICES ASSUME NEW t \in Routers, doing'[t].at = "take"
               PROVE  LET b == Head(doing'[t].rest)
                      IN  /\ doing'[t].flav \in {"header", "headerless"}
                          /\ b # "Arena" => doing'[t].flav =
                               IF (b = "Slab" /\ slabFlag') \/ (b = "Buddy" /\ buddyFlag')
                               THEN "headerless" ELSE "header"
                          /\ b = "Buddy" /\ doing'[t].flav = "headerless" =>
                               doing'[t].req.class # "small"
    BY DEF ChoiceStands, At, Class, FlavourOf
  <1> DEFINE b == Head(doing'[t].rest)
  <1>0. t \in Threads
    BY DEF Threads
  <1>1. doing'[t] = doing[t] \/ Serve(t)
    <2>1. ASSUME NEW u \in Threads, Calm(u)
          PROVE  doing'[t] = doing[t] \/ Serve(t)
      BY <1>0, <2>1 DEF Calm
    <2>2. ASSUME NEW u \in Threads, LatchSlab(u) \/ LatchMag(u) \/ LatchBuddy(u)
          PROVE  doing'[t] = doing[t]
      BY <1>0, <2>2 DEF LatchSlab, LatchMag, LatchBuddy, Step, CallsTyped, CallFields
    <2> QED BY <2>1, <2>2, CalmOrLatch
  <1>2. CASE doing'[t] = doing[t]
    <2>1. ~Idle(t) /\ doing[t].at \notin Latching
      BY <1>2 DEF Idle, Latching
    <2>2. slabFlag' = slabFlag /\ buddyFlag' = buddyFlag
      BY <1>0, <2>1, FlagsStand
    <2> QED BY <1>2, <2>2 DEF ChoiceStands, At, Class, FlavourOf
  <1>3. CASE Serve(t)
    <2>1. /\ doing'[t].rest = doing[t].rest /\ doing'[t].flav = FlavourFor(t, b)
          /\ Fits(b, Class(t), FlavourFor(t, b)) /\ doing'[t].req = doing[t].req
      <3>1. ~NextBackend(t)
        BY <1>0, GoesNext, ContOthers DEF GivesUp, Goes, Forgets, Continues
      <3> QED BY <1>0, <1>3, <3>1, ServeGoes DEF Goes
    <2>2. Plain(t) = TRUE
      BY <1>3 DEF Serve, At, CallsTyped, Idle, PlainAlone, Plain
    <2>3. slabFlag' = slabFlag /\ buddyFlag' = buddyFlag
      BY <1>3 DEF Serve, flags
    <2> QED BY <2>1, <2>2, <2>3 DEF FlavourFor, FlavourOf, Fits, Class
  <1> QED BY <1>1, <1>2, <1>3

-----------------------------------------------------------------------------
(* The blocks.                                                              *)

\* What a call that goes on, ends or forgets its preference has of an old block.
OldKept(t) ==
  IF doing'[t].op = "realloc"
  THEN /\ doing[t].op = "realloc" /\ doing'[t].old = doing[t].old
       /\ doing'[t].token = doing[t].token
  ELSE doing'[t].old = None
OldTaken(t) ==
  /\ doing'[t].op = "realloc" /\ doing'[t].old \in inUse
  /\ doing'[t].token = Classified(doing'[t].old)
OldsStay == \A t \in Routers : OldKept(t) \/ OldTaken(t)

\* A reallocation keeps its old block and token until it ends.
LEMMA OldsCont ==
  ASSUME CallsTyped, BlocksOK, NEW t \in Threads, Continues(t),
         \/ Return(t) \/ Forgets(t)
         \/ /\ doing'[t].op = doing[t].op /\ doing'[t].old = doing[t].old
            /\ doing'[t].token = doing[t].token
  PROVE  OldsStay
  <1>1. ASSUME NEW u \in Routers, u # t
        PROVE  OldKept(u)
    <2>1. doing'[u] = doing[u]
      BY <1>1, ContOthers DEF Threads
    <2> QED BY <2>1 DEF BlocksOK, OldKept
  <1>2. t \in Routers => OldKept(t)
    <2>1. CASE Return(t)
      <3>1. doing'[t] = NoCall
        BY <2>1 DEF Return, CallsTyped
      <3> QED BY <3>1 DEF OldKept, NoCall
    <2>2. CASE ~Return(t)
      BY <2>2 DEF BlocksOK, OldKept, Forgets
    <2> QED BY <2>1, <2>2
  <1> QED BY <1>1, <1>2 DEF OldsStay

\* A reallocation begins with a block in use, and what that is taken for.
LEMMA OldsStep ==
  ASSUME CallsTyped, ControlApart, BlocksOK, BrNext PROVE OldsStay
  <1> USE DEF Idle, At, MayStart, Begin, StartControl
  <1>1. ASSUME NEW t \in Routers, NEW r \in Requests, Alloc(t, r)
        PROVE  OldsStay
    BY <1>1 DEF Alloc, BlocksOK, OldsStay, OldKept
  <1>2. ASSUME NEW t \in Routers, NEW r \in Requests, AllocWithHash(t, r)
        PROVE  OldsStay
    BY <1>2 DEF AllocWithHash, BlocksOK, OldsStay, OldKept
  <1>3. ASSUME NEW t \in Routers, NEW r \in Requests,
               NEW b \in {"Slab", "Arena", "Buddy"}, AllocPreferred(t, r, b)
        PROVE  OldsStay
    BY <1>3 DEF AllocPreferred, BlocksOK, NoCall, OldsStay, OldKept
  <1>4. ASSUME NEW t \in Routers, NEW r \in Requests, NEW b \in inUse, Realloc(t, b, r)
        PROVE  OldsStay
    BY <1>4 DEF Realloc, BlocksOK, OldsStay, OldKept, OldTaken
  <1>5. ASSUME NEW t \in Routers, NEW b \in inUse, FreeFast(t, b)
        PROVE  OldsStay
    BY <1>5 DEF FreeFast, BlocksOK, OldsStay, OldKept
  <1>6. ASSUME NEW t \in Routers, NEW b \in inUse, Free(t, b)
        PROVE  OldsStay
    BY <1>6 DEF Free, BlocksOK, OldsStay, OldKept
  <1>7. ASSUME NEW t \in Routers, FastLane(t)
        PROVE  OldsStay
    <2>1. Continues(t)
      BY <1>7, HandOutCont, StepGoes DEF FastLane, Threads, Continues, Goes
    <2>2. \/ Return(t) \/ Forgets(t)
          \/ /\ doing'[t].op = doing[t].op /\ doing'[t].old = doing[t].old
             /\ doing'[t].token = doing[t].token
      BY <1>7, HandsOut, StepGoes DEF FastLane, Threads, Goes, GivesUp
    <2> QED BY <2>1, <2>2, OldsCont DEF Threads
  <1>8. ASSUME NEW t \in Routers, Route(t)
        PROVE  OldsStay
    <2>1. Continues(t)
      BY <1>8, RouteGoes DEF Threads, Continues, Goes
    <2>2. \/ Return(t) \/ Forgets(t)
          \/ /\ doing'[t].op = doing[t].op /\ doing'[t].old = doing[t].old
             /\ doing'[t].token = doing[t].token
      BY <1>8, RouteGoes DEF Threads, Goes
    <2> QED BY <2>1, <2>2, OldsCont DEF Threads
  <1>9. ASSUME NEW t \in Routers, Inner(t)
        PROVE  OldsStay
    <2>1. Continues(t)
      BY <1>9, InnerGoes DEF Threads, Continues, Goes
    <2>2. \/ Return(t) \/ Forgets(t)
          \/ /\ doing'[t].op = doing[t].op /\ doing'[t].old = doing[t].old
             /\ doing'[t].token = doing[t].token
      BY <1>9, InnerGoes DEF Threads, Goes
    <2> QED BY <2>1, <2>2, OldsCont DEF Threads
  <1>10. ASSUME NEW t \in Routers, Lookup(t)
        PROVE  OldsStay
    <2>1. Continues(t)
      BY <1>10, LookupGoes DEF Threads, Continues, Goes
    <2>2. \/ Return(t) \/ Forgets(t)
          \/ /\ doing'[t].op = doing[t].op /\ doing'[t].old = doing[t].old
             /\ doing'[t].token = doing[t].token
      BY <1>10, LookupGoes DEF Threads, Goes
    <2> QED BY <2>1, <2>2, OldsCont DEF Threads
  <1>11. ASSUME NEW t \in Routers, Serve(t)
        PROVE  OldsStay
    <2>1. Continues(t)
      BY <1>11, ServeGoes, NextCont DEF Threads, Continues, Goes
    <2>2. \/ Return(t) \/ Forgets(t)
          \/ /\ doing'[t].op = doing[t].op /\ doing'[t].old = doing[t].old
             /\ doing'[t].token = doing[t].token
      BY <1>11, ServeGoes, GoesNext DEF Threads, Goes, GivesUp
    <2> QED BY <2>1, <2>2, OldsCont DEF Threads
  <1>12. ASSUME NEW t \in Routers, Take(t)
        PROVE  OldsStay
    <2>1. Continues(t)
      BY <1>12, TakeGoes, NextCont, HandOutCont DEF Threads
    <2>2. \/ Return(t) \/ Forgets(t)
          \/ /\ doing'[t].op = doing[t].op /\ doing'[t].old = doing[t].old
             /\ doing'[t].token = doing[t].token
      BY <1>12, TakeGoes, GoesNext, HandsOut DEF Threads, Goes, GivesUp
    <2> QED BY <2>1, <2>2, OldsCont DEF Threads
  <1>13. ASSUME NEW t \in Routers, FreeOld(t)
        PROVE  OldsStay
    <2>1. Continues(t)
      BY <1>13 DEF FreeOld, Threads, Continues, Goes
    <2>2. \/ Return(t) \/ Forgets(t)
          \/ /\ doing'[t].op = doing[t].op /\ doing'[t].old = doing[t].old
             /\ doing'[t].token = doing[t].token
      BY <1>13 DEF FreeOld, Threads, Goes, GivesUp
    <2> QED BY <2>1, <2>2, OldsCont DEF Threads
  <1>14. ASSUME NEW t \in Threads, LatchSlab(t)
        PROVE  OldsStay
    <2>1. Continues(t)
      BY <1>14, StepGoes DEF LatchSlab, Continues, Goes
    <2>2. \/ Return(t) \/ Forgets(t)
          \/ /\ doing'[t].op = doing[t].op /\ doing'[t].old = doing[t].old
             /\ doing'[t].token = doing[t].token
      BY <1>14, StepGoes DEF LatchSlab, Goes
    <2> QED BY <2>1, <2>2, OldsCont
  <1>15. ASSUME NEW t \in Threads, LatchMag(t)
        PROVE  OldsStay
    <2>1. Continues(t)
      BY <1>15, StepGoes DEF LatchMag, Continues, Goes
    <2>2. \/ Return(t) \/ Forgets(t)
          \/ /\ doing'[t].op = doing[t].op /\ doing'[t].old = doing[t].old
             /\ doing'[t].token = doing[t].token
      BY <1>15, StepGoes DEF LatchMag, Goes
    <2> QED BY <2>1, <2>2, OldsCont
  <1>16. ASSUME NEW t \in Threads, LatchBuddy(t)
        PROVE  OldsStay
    <2>1. Continues(t)
      BY <1>16, StepGoes DEF LatchBuddy, Continues, Goes
    <2>2. \/ Return(t) \/ Forgets(t)
          \/ /\ doing'[t].op = doing[t].op /\ doing'[t].old = doing[t].old
             /\ doing'[t].token = doing[t].token
      BY <1>16, StepGoes DEF LatchBuddy, Goes
    <2> QED BY <2>1, <2>2, OldsCont
  <1>17. ASSUME NEW t \in Threads, LatchArena(t)
        PROVE  OldsStay
    <2>1. Continues(t)
      BY <1>17, StepGoes DEF LatchArena, AfterLatch, Continues, Goes
    <2>2. \/ Return(t) \/ Forgets(t)
          \/ /\ doing'[t].op = doing[t].op /\ doing'[t].old = doing[t].old
             /\ doing'[t].token = doing[t].token
      BY <1>17, StepGoes DEF LatchArena, AfterLatch, Goes
    <2> QED BY <2>1, <2>2, OldsCont
  <1>18. CASE Freeze(Controller, 1)
    BY <1>18 DEF Freeze, BlocksOK, NoCall, OldsStay, OldKept
  <1>19. CASE Load(Controller, 2)
    BY <1>19 DEF Load, BlocksOK, NoCall, OldsStay, OldKept
  <1>20. CASE EnableTraining(Controller)
    BY <1>20 DEF EnableTraining, BlocksOK, NoCall, OldsStay, OldKept
  <1>21. CASE DisableTraining(Controller)
    BY <1>21 DEF DisableTraining, BlocksOK, OldsStay, OldKept
  <1>22. CASE PublishLane(Controller)
    <2>1. Continues(Controller)
      BY <1>22, StepGoes DEF PublishLane, Threads, Continues, Goes
    <2>2. \/ Return(Controller) \/ Forgets(Controller)
          \/ /\ doing'[Controller].op = doing[Controller].op
             /\ doing'[Controller].old = doing[Controller].old
             /\ doing'[Controller].token = doing[Controller].token
      BY <1>22, StepGoes DEF PublishLane, Threads, Goes, GivesUp
    <2> QED BY <2>1, <2>2, OldsCont DEF Threads
  <1>23. CASE Publish(Controller)
    <2>1. Continues(Controller)
      BY <1>23, StepGoes DEF Publish, Threads, Continues, Goes
    <2>2. \/ Return(Controller) \/ Forgets(Controller)
          \/ /\ doing'[Controller].op = doing[Controller].op
             /\ doing'[Controller].old = doing[Controller].old
             /\ doing'[Controller].token = doing[Controller].token
      BY <1>23, StepGoes DEF Publish, Threads, Goes, GivesUp
    <2> QED BY <2>1, <2>2, OldsCont DEF Threads
  <1>24. CASE SetFrozen(Controller)
    <2>1. Continues(Controller)
      BY <1>24 DEF SetFrozen, Threads, Continues, Goes
    <2>2. \/ Return(Controller) \/ Forgets(Controller)
          \/ /\ doing'[Controller].op = doing[Controller].op
             /\ doing'[Controller].old = doing[Controller].old
             /\ doing'[Controller].token = doing[Controller].token
      BY <1>24 DEF SetFrozen, Threads, Goes, GivesUp
    <2> QED BY <2>1, <2>2, OldsCont DEF Threads
  <1>25. CASE Reset(Controller)
    BY <1>25 DEF Reset, BlocksOK, NoCall, OldsStay, OldKept
  <1>26. CASE Unpublish(Controller)
    <2>1. Continues(Controller)
      BY <1>26, StepGoes DEF Unpublish, Threads, Continues, Goes
    <2>2. \/ Return(Controller) \/ Forgets(Controller)
          \/ /\ doing'[Controller].op = doing[Controller].op
             /\ doing'[Controller].old = doing[Controller].old
             /\ doing'[Controller].token = doing[Controller].token
      BY <1>26, StepGoes DEF Unpublish, Threads, Goes, GivesUp
    <2> QED BY <2>1, <2>2, OldsCont DEF Threads
  <1>27. CASE Retrain(Controller)
    <2>1. Continues(Controller)
      BY <1>27, StepGoes DEF Retrain, Threads, Continues, Goes
    <2>2. \/ Return(Controller) \/ Forgets(Controller)
          \/ /\ doing'[Controller].op = doing[Controller].op
             /\ doing'[Controller].old = doing[Controller].old
             /\ doing'[Controller].token = doing[Controller].token
      BY <1>27, StepGoes DEF Retrain, Threads, Goes, GivesUp
    <2> QED BY <2>1, <2>2, OldsCont DEF Threads
  <1>28. CASE Thaw(Controller)
    <2>1. Continues(Controller)
      BY <1>28 DEF Thaw, Threads, Continues, Goes
    <2>2. \/ Return(Controller) \/ Forgets(Controller)
          \/ /\ doing'[Controller].op = doing[Controller].op
             /\ doing'[Controller].old = doing[Controller].old
             /\ doing'[Controller].token = doing[Controller].token
      BY <1>28 DEF Thaw, Threads, Goes, GivesUp
    <2> QED BY <2>1, <2>2, OldsCont DEF Threads
  <1> QED BY <1>1, <1>2, <1>3, <1>4, <1>5, <1>6, <1>7, <1>8, <1>9, <1>10, <1>11, <1>12,
             <1>13, <1>14, <1>15, <1>16, <1>17, <1>18, <1>19, <1>20, <1>21, <1>22,
             <1>23, <1>24, <1>25, <1>26, <1>27, <1>28 DEF BrNext

\* The latches stay set and a backend that has memory keeps it, so a block that was
\* right is right.
LEMMA BlockKept ==
  ASSUME CallsTyped, ControlApart, AloneAlone, FlagsTyped, BrNext, NEW b, BlockOK(b)
  PROVE  BlockOK(b)'
  <1>1. (slabFlag => slabFlag') /\ (buddyFlag => buddyFlag')
    BY FlagsTypedStep
  <1>2. touched \subseteq touched'
    BY CalmOrLatch DEF Calm, CalmFlags, LatchSlab, LatchMag, LatchBuddy, central
  <1> QED BY <1>1, <1>2 DEF BlockOK

\* A magazine in force holds what its latch asks for, when no first latch is under way.
LEMMA MagazineHolds ==
  ASSUME MagFlavour, AloneAlone, NEW t \in Routers, ~Idle(t), doing[t].at \notin Latching,
         mag[t].owner = magId, mag[t].flav # "none"
  PROVE  mag[t].flav = "headerless" <=> slabFlag
  <1>1. t \in Threads
    BY DEF Threads
  <1>2. ~Within({"latchMag"})
    BY <1>1 DEF AloneAlone, Within, Latching
  <1> QED BY <1>2 DEF MagFlavour

\* The fast lane serves header-free blocks, of header-free segments.
LEMMA LaneServes ==
  ASSUME FlavourInv, NEW t \in Routers, FastLane(t), NEW b \in inUse', b \notin inUse
  PROVE  BlockOK(b)'
  <1>1. b = Block("Slab", "headerless", mag[t].flav = "headerless")
        /\ mag[t].owner = magId /\ mag[t].flav # "none"
    BY DEF FastLane, HandOut
  <1>2. slabFlag /\ slabFlag' = slabFlag
    BY DEF FastLane, FlavourInv, LaneLatched, flags
  <1>3. mag[t].flav = "headerless"
    BY <1>1, <1>2, MagazineHolds DEF FlavourInv, FastLane, At, Idle, Latching
  <1> QED BY <1>1, <1>2, <1>3 DEF BlockOK, Block

\* So do the backends, when their latches ask for it.
LEMMA TakeServes ==
  ASSUME FlavourInv, NEW t \in Routers, Take(t), NEW b, HandOut(t, b),
         \/ Head(doing[t].rest) = "Slab" /\ TakeSlab(t)
         \/ Head(doing[t].rest) # "Slab" /\ TakeOther(t, Head(doing[t].rest)),
         NEW c \in inUse', c \notin inUse
  PROVE  BlockOK(c)'
  <1> DEFINE h == Head(doing[t].rest)
             f == doing[t].flav
  <1>1. /\ f \in {"header", "headerless"}
        /\ h # "Arena" => f = FlavourOf(h)
        /\ h = "Buddy" /\ f = "headerless" => Class(t) # "small"
    BY DEF FlavourInv, ChoiceStands, Take
  <1>2. slabFlag' = slabFlag /\ buddyFlag' = buddyFlag
    BY DEF Take, flags
  <1>3. CASE h = "Slab"
    <2>1. \/ /\ c = Block("Slab", f, mag[t].flav = "headerless")
             /\ mag[t].owner = magId /\ mag[t].flav # "none"
          \/ c = Block("Slab", f, f = "headerless")
      BY <1>3 DEF TakeSlab, HandOut
    <2>2. c = Block("Slab", f, slabFlag)
      BY <1>1, <1>3, <2>1, MagazineHolds
      DEF FlavourInv, FlagsTyped, FlavourOf, Take, At, Idle, Latching
    <2> QED BY <1>1, <1>2, <1>3, <2>2
            DEF BlockOK, Block, FlavourOf, FlavourInv, FlagsTyped
  <1>4. CASE h # "Slab"
    <2>1. /\ c = Block(h, f, h = "Buddy" /\ recording /\ Class(t) # "small")
          /\ touched' = touched \cup ({h} \cap {"Buddy", "Arena"})
      BY <1>4 DEF TakeOther, HandOut
    <2>2. recording = buddyFlag
      BY DEF FlavourInv, Settled
    <2> QED BY <1>1, <1>2, <1>4, <2>1, <2>2 DEF BlockOK, Block, FlavourOf
  <1> QED BY <1>3, <1>4

\* Every block that comes into use was right when it was served.
LEMMA BlocksServed ==
  ASSUME FlavourInv, ControlApart, BrNext
  PROVE  \A b \in inUse' : b \in inUse \/ BlockOK(b)'
  <1>0. CallsTyped /\ AloneAlone /\ FlagsTyped /\ BlocksOK
    BY DEF FlavourInv
  <1>1. ASSUME NEW t \in Routers, NextBackend(t), NEW b \in inUse', b \notin inUse
        PROVE  BlockOK(b)'
    <2>1. b = doing[t].old /\ b # None
      BY <1>1 DEF NextBackend
    <2>2. BlockOK(b)
      BY <1>0, <2>1 DEF BlocksOK
    <2> QED BY <1>0, <2>2, BlockKept
  <1>2. ASSUME NEW t \in Routers, Take(t), NEW b \in inUse', b \notin inUse
        PROVE  BlockOK(b)'
    <2>1. \/ NextBackend(t)
          \/ Head(doing[t].rest) = "Slab" /\ TakeSlab(t)
          \/ Head(doing[t].rest) # "Slab" /\ TakeOther(t, Head(doing[t].rest))
      BY <1>2 DEF Take
    <2>2. NextBackend(t) \/ \E c : HandOut(t, c)
      BY <2>1 DEF TakeSlab, TakeOther
    <2> QED BY <1>1, <1>2, <2>1, <2>2, TakeServes
  <1>3. ASSUME NEW t \in Routers, Serve(t), NEW b \in inUse', b \notin inUse
        PROVE  BlockOK(b)'
    BY <1>1, <1>3 DEF Serve
  <1>4. \/ inUse' \subseteq inUse
        \/ \E t \in Routers : FastLane(t) \/ Take(t) \/ Serve(t)
    BY
    DEF BrNext, Alloc, AllocWithHash, AllocPreferred, Realloc, FreeFast, Free, Gone,
        Route, Inner, Lookup, FreeOld, Freeze, Load, LatchSlab, LatchMag, LatchBuddy,
        LatchArena, EnableTraining, DisableTraining, PublishLane, Publish, SetFrozen,
        Reset, Unpublish, Retrain, Thaw
  <1> QED BY <1>2, <1>3, <1>4, LaneServes

\* A block in use is taken for what it was served as.
LEMMA ClassifiedRight ==
  ASSUME FlagsTyped, NEW b, BlockOK(b)
  PROVE  Right(b, Classified(b)) /\ Classified(b) \in {"header", "headerless"}
  BY
  DEF BlockOK, Right, Classified, headerless_class_for, buddy_headerless_order_for,
      arena_headerless_hit

\* Blocks in use, and those being reallocated, stay right.
LEMMA BlocksOKStep ==
  ASSUME FlavourInv, ControlApart, BrNext PROVE BlocksOK'
  <1>0. CallsTyped /\ AloneAlone /\ FlagsTyped /\ BlocksOK
    BY DEF FlavourInv
  <1>1. \A b \in inUse' : BlockOK(b)'
    BY <1>0, BlocksServed, BlockKept DEF BlocksOK
  <1>2. ASSUME NEW t \in Routers
        PROVE  (IF doing[t].op = "realloc"
                THEN BlockOK(doing[t].old) /\ doing[t].token \in {"header", "headerless"}
                     /\ Right(doing[t].old, doing[t].token)
                ELSE doing[t].old = None)'
    <2>1. OldKept(t) \/ OldTaken(t)
      BY <1>0, OldsStep DEF OldsStay
    <2>2. CASE doing'[t].op # "realloc"
      BY <2>1, <2>2 DEF OldKept, OldTaken
    <2>3. CASE doing'[t].op = "realloc"
      <3>1. PICK o : o = doing'[t].old
        OBVIOUS
      <3>2. BlockOK(o) /\ doing'[t].token \in {"header", "headerless"}
            /\ Right(o, doing'[t].token)
        BY <1>0, <2>1, <2>3, <3>1, ClassifiedRight DEF OldKept, OldTaken, BlocksOK
      <3>3. BlockOK(o)'
        BY <1>0, <3>2, BlockKept
      <3>4. BlockOK(doing[t].old)'
        BY <3>1, <3>3
      <3> QED BY <2>3, <3>1, <3>2, <3>4
    <2> QED BY <2>2, <2>3
  <1> QED BY <1>1, <1>2 DEF BlocksOK

-----------------------------------------------------------------------------
(* The magazines.                                                           *)

\* A magazine is filled with blocks of one flavour, the one the slab's latch asks for.
Filled(t) ==
  /\ DOMAIN mag' = Routers /\ DOMAIN mag'[t] = {"owner", "flav"}
  /\ \A u \in Routers \ {t} : mag'[u] = mag[u]
  /\ mag'[t].flav \in {"header", "headerless"}
  /\ mag'[t].flav = "headerless" <=> slabFlag

\* So is one that a block is freed into, whatever the block is taken for.
LEMMA FreeFills ==
  ASSUME FlavourInv, NEW t \in Routers, NEW b, BlockOK(b),
         NEW as \in {"header", "headerless"}, Right(b, as), FreeAs(t, b, as)
  PROVE  mag' = mag \/ Filled(t)
  <1>1. CASE b.backend = "Slab" /\ (as = "headerless" \/ ~slabFlag)
    <2>1. mag' = [mag EXCEPT ![t] = [owner |-> magId, flav |-> as]]
      BY <1>1 DEF FreeAs
    <2>2. as = "headerless" <=> slabFlag
      BY <1>1 DEF BlockOK, Right
    <2> QED BY <2>1, <2>2 DEF FlavourInv, MagFlavour, Filled
  <1>2. CASE ~(b.backend = "Slab" /\ (as = "headerless" \/ ~slabFlag))
    BY <1>2 DEF FreeAs
  <1> QED BY <1>1, <1>2

\* A magazine changes by LatchMag, a refill or a free.
LEMMA MagazinesFill ==
  ASSUME FlavourInv, ControlApart, BrNext, mag' # mag
  PROVE  (\E t \in Threads : LatchMag(t)) \/ \E t \in Routers : Filled(t)
  <1>1. ASSUME NEW t \in Routers, NEW b \in inUse, FreeFast(t, b)
        PROVE  Filled(t)
    BY <1>1 DEF FreeFast, FlavourInv, MagFlavour, LaneLatched, Filled
  <1>2. ASSUME NEW t \in Routers, NEW b \in inUse, Free(t, b)
        PROVE  Filled(t)
    BY <1>2, ClassifiedRight, FreeFills DEF Free, FlavourInv, BlocksOK
  <1>3. ASSUME NEW t \in Routers, FreeOld(t)
        PROVE  Filled(t)
    <2>1. doing[t].op = "realloc"
      BY <1>3 DEF FreeOld, At, FlavourInv, CallsTyped
    <2> QED BY <1>3, <2>1, FreeFills DEF FreeOld, FlavourInv, BlocksOK
  <1>4. ASSUME NEW t \in Routers, Take(t)
        PROVE  Filled(t)
    <2>1. /\ Head(doing[t].rest) = "Slab"
          /\ mag' = [mag EXCEPT ![t] = [owner |-> magId, flav |-> doing[t].flav]]
      BY <1>4 DEF Take, TakeSlab, TakeOther
    <2>2. /\ doing[t].flav \in {"header", "headerless"}
          /\ doing[t].flav = "headerless" <=> slabFlag
      BY <1>4, <2>1 DEF Take, FlavourInv, ChoiceStands, FlavourOf
    <2> QED BY <2>1, <2>2 DEF FlavourInv, MagFlavour, Filled
  <1>5. \/ \E t \in Threads : LatchMag(t)
        \/ \E t \in Routers : \/ \E b \in inUse : FreeFast(t, b) \/ Free(t, b)
                              \/ FreeOld(t) \/ Take(t)
    BY
    DEF BrNext, Alloc, AllocWithHash, AllocPreferred, Realloc, FastLane, Route, Inner,
        Lookup, Serve, Freeze, Load, LatchSlab, LatchBuddy, LatchArena, EnableTraining,
        DisableTraining, PublishLane, Publish, SetFrozen, Reset, Unpublish, Retrain,
        Thaw, tlsVars
  <1> QED BY <1>1, <1>2, <1>3, <1>4, <1>5

\* A magazine in force holds the flavour its latch asks for.
LEMMA MagFlavourStep ==
  ASSUME FlavourInv, ControlApart, BrNext PROVE MagFlavour'
  <1>0. CallsTyped /\ AloneAlone /\ FirstAlone /\ MagFlavour /\ FlagsTyped
    BY DEF FlavourInv
  <1>1. ASSUME NEW t \in Threads, LatchMag(t)
        PROVE  MagFlavour'
    BY <1>1 DEF LatchMag, MagFlavour
  <1>2. ASSUME NEW t \in Threads, LatchSlab(t), doing[t].alone
        PROVE  MagFlavour'
    <2>1. doing'[t].at = "latchMag" /\ doing'[t].alone
      BY <1>0, <1>2 DEF LatchSlab, Step, CallsTyped
    <2>2. Within({"latchMag"})'
      BY <2>1 DEF Within
    <2> QED BY <1>0, <1>2, <2>2 DEF LatchSlab, MagFlavour, tlsVars
  <1>3. CASE /\ slabFlag' = slabFlag /\ magId' = magId /\ ~Within({"latchMag"})
             /\ ~\E t \in Threads : LatchMag(t)
    <2>1. CASE mag' = mag
      BY <1>0, <1>3, <2>1 DEF MagFlavour
    <2>2. ASSUME NEW t \in Routers, Filled(t)
          PROVE  MagFlavour'
      BY <1>0, <1>3, <2>2 DEF MagFlavour, Filled
    <2> QED BY <1>3, <2>1, <2>2, MagazinesFill
  <1>4. ASSUME NEW t \in Threads, Calm(t)
        PROVE  slabFlag' = slabFlag /\ magId' = magId /\ ~Within({"latchMag"})
    BY <1>4 DEF Calm, CalmFlags, Within
  <1>5. ASSUME NEW t \in Threads, LatchBuddy(t) \/ (LatchSlab(t) /\ ~doing[t].alone)
        PROVE  slabFlag' = slabFlag /\ magId' = magId /\ ~Within({"latchMag"})
    <2>1. ~Within({"latchMag"})
      BY <1>0, <1>5 DEF AloneAlone, Within, LatchBuddy, LatchSlab, At, Idle
    <2>2. LatchSlab(t) => slabFlag = TRUE
      BY <1>0, <1>5, AloneOrSet DEF LatchAlone, LatchSlab, LatchBuddy, At, Latching
    <2> QED BY <1>5, <2>1, <2>2 DEF LatchBuddy, LatchSlab
  <1> QED BY <1>0, <1>1, <1>2, <1>3, <1>4, <1>5, CalmOrLatch

-----------------------------------------------------------------------------

\* No latch is set at first, and nothing is in use.
LEMMA FlavourInit ==
  ASSUME BrInit, ControlApart PROVE FlavourInv
  BY
  DEF BrInit, FlavourInv, CallsTyped, BlocksOK, AloneAlone, FirstAlone, Settled,
      MagFlavour, ChoiceStands, LaneLatched, FlagsTyped, NoCall, Threads, CallFields,
      Idle, At

\* Every step keeps the flavours.
LEMMA FlavourStep ==
  ASSUME FlavourInv, PlainAlone, ControlApart, [BrNext]_brVars PROVE FlavourInv'
  <1>1. CASE BrNext
    <2>1. /\ CallsTyped /\ AloneAlone /\ FirstAlone /\ Settled /\ ChoiceStands
          /\ LaneLatched /\ FlagsTyped
      BY DEF FlavourInv
    <2> QED BY <1>1, <2>1, CallsTypedStep, BlocksOKStep, AloneAloneStep, FirstAloneStep,
               SettledStep, MagFlavourStep, ChoiceStandsStep, LaneLatchedStep,
               FlagsTypedStep DEF FlavourInv
  <1>2. CASE UNCHANGED brVars
    BY <1>2
    DEF brVars, flags, central, tlsVars, FlavourInv, CallsTyped, BlocksOK, BlockOK,
        AloneAlone, FirstAlone, Settled, MagFlavour, ChoiceStands, FlavourOf,
        LaneLatched, FlagsTyped, Within, Idle, At, Class
  <1> QED BY <1>1, <1>2

\* A free, and the last step of a realloc, take every block for what it was served as,
\* whatever latches were set, tables published and magazines adopted since; for plain
\* requests, when a call that may set the latches runs alone.
THEOREM FreeFindsServerAlways ==
  ASSUME PlainAlone PROVE BrSpec => []FreeFindsServer
  <1>0. ControlApart
    BY ControllerApart DEF ControlApart
  <1>1. BrInit => FlavourInv
    BY <1>0, FlavourInit
  <1>2. FlavourInv /\ [BrNext]_brVars => FlavourInv'
    BY <1>0, FlavourStep
  <1>3. FlavourInv => FreeFindsServer
    BY ClassifiedRight DEF FlavourInv, FreeFindsServer, BlocksOK
  <1> QED BY <1>1, <1>2, <1>3, PTL DEF BrSpec

-----------------------------------------------------------------------------
(***************************************************************************)
(* BlockLayout.  Proofs about the layout of a block, for headers, sizes,   *)
(* alignments and limits of any size: BlockHolds.  A block a backend gives *)
(* for a layout has room for it (Room) because a class, an order or a page *)
(* is a multiple of every alignment it may serve without padding, and the  *)
(* padding is one of the others; a reallocation finds the size again, or   *)
(* a bound that is not below it.                                           *)
(***************************************************************************)

\* LayoutShape, as the hypothesis of the lemmas.
LEMMA PowersAre ==
  /\ Powers \subseteq Nat /\ \A p \in Powers : p > 0
  /\ \A a, b \in Powers : a <= b => b % a = 0
  BY LayoutShape DEF LayoutShape

\* A multiple has no rest,
LEMMA MultMod == ASSUME NEW k \in Nat, NEW a \in Nat, a > 0 PROVE (k * a) % a = 0
  OBVIOUS

\* and what has none is a multiple.
LEMMA ModMult ==
  ASSUME NEW n \in Nat, NEW a \in Nat, a > 0, n % a = 0
  PROVE  \E k \in Nat : n = k * a
  <1>1. n \div a \in Nat /\ n = (n \div a) * a + (n % a)
    BY DivMod
  <1>2. (n \div a) * a \in Nat
    BY <1>1
  <1> QED BY <1>1, <1>2

\* What divides a divisor divides,
LEMMA ModTrans ==
  ASSUME NEW n \in Nat, NEW b \in Nat, NEW a \in Nat, a > 0, b > 0, n % b = 0, b % a = 0
  PROVE  n % a = 0
  <1>1. PICK k \in Nat : n = k * b
    BY ModMult
  <1>2. PICK l \in Nat : b = l * a
    BY ModMult
  <1>3. n = (k * l) * a /\ k * l \in Nat
    BY <1>1, <1>2
  <1> QED BY <1>3, MultMod

\* and what divides two numbers divides their sum.
LEMMA ModSum ==
  ASSUME NEW n \in Nat, NEW m \in Nat, NEW a \in Nat, a > 0, n % a = 0, m % a = 0
  PROVE  (n + m) % a = 0
  <1>1. PICK k \in Nat : n = k * a
    BY ModMult
  <1>2. PICK l \in Nat : m = l * a
    BY ModMult
  <1>3. n + m = (k + l) * a /\ k + l \in Nat
    BY <1>1, <1>2
  <1> QED BY <1>3, MultMod

\* A number aligned up is the next multiple.
LEMMA Aligned ==
  ASSUME NEW n \in Nat, NEW a \in Nat, a > 0
  PROVE  /\ AlignUp(n, a) \in Nat /\ AlignUp(n, a) % a = 0
         /\ AlignUp(n, a) >= n /\ AlignUp(n, a) < n + a
  <1> DEFINE x == n + a - 1
  <1>1. x \in Nat /\ a \in Nat \ {0}
    OBVIOUS
  <1>2. /\ x \div a \in Nat /\ x % a \in Nat /\ x % a < a
        /\ x = (x \div a) * a + (x % a)
    BY <1>1, DivMod
  <1>3. AlignUp(n, a) = (x \div a) * a
    BY DEF AlignUp
  <1>4. AlignUp(n, a) % a = 0
    BY <1>2, <1>3, MultMod
  <1>5. (x \div a) * a \in Nat
    BY <1>2
  <1> QED BY <1>2, <1>3, <1>4, <1>5

\* There is a power to round up to if one is not smaller.
LEMMA Rounded ==
  ASSUME NEW n \in Nat, NEW q \in Powers, n <= q
  PROVE  RoundUpPow2(n) \in Powers /\ RoundUpPow2(n) >= n
  <1> DEFINE S == {p \in Powers : p >= n}
  <1>1. S \in SUBSET Nat /\ S # {}
    BY PowersAre
  <1>2. \E p \in S : \A r \in S : p <= r
    BY <1>1, LeastOf
  <1>3. Min(S) \in S
    BY <1>2 DEF Min
  <1> QED BY <1>3 DEF RoundUpPow2

\* The block a class or an order has is a power that is not below the request.
LEMMA BlockFits ==
  ASSUME NEW n \in Nat, NEW q \in Powers, n <= q
  PROVE  /\ SlabClass(n) \in Powers /\ SlabClass(n) >= n
         /\ BuddyBlock(n) \in Powers /\ BuddyBlock(n) >= n /\ BuddyBlock(n) >= MinBlock
  <1>1. RoundUpPow2(n) \in Powers /\ RoundUpPow2(n) >= n
    BY Rounded
  <1>2. 8 \in Powers /\ MinBlock \in Powers /\ Powers \subseteq Nat
    BY LayoutShape DEF LayoutShape
  <1>3. RoundUpPow2(n) \in Nat /\ MinBlock \in Nat
    BY <1>1, <1>2
  <1> QED BY <1>1, <1>2, <1>3 DEF SlabClass, BuddyBlock, Larger

\* The padding in front of the user's pointer.
LEMMA Pad ==
  ASSUME NEW a \in Powers
  PROVE  /\ HeaderPad(a) \in Nat /\ HeaderPad(a) % a = 0
         /\ HeaderPad(a) >= HeaderSize /\ HeaderPad(a) >= a
  <1>1. a \in Nat /\ a > 0 /\ HeaderSize \in Nat /\ HeaderSize > 0
    BY PowersAre, LayoutShape DEF LayoutShape
  <1>2. /\ HeaderPad(a) \in Nat /\ HeaderPad(a) % a = 0
        /\ HeaderPad(a) >= HeaderSize
    BY <1>1, Aligned DEF HeaderPad
  <1>3. PICK k \in Nat : HeaderPad(a) = k * a
    BY <1>1, <1>2, ModMult
  <1>4. k # 0
    BY <1>1, <1>2, <1>3
  <1>5. k * a >= a
    BY <1>1, <1>4
  <1> QED BY <1>2, <1>3, <1>5

\* A block of the slab lies at a multiple of any power not above its class.
LEMMA StrideFits ==
  ASSUME NEW c \in Powers, NEW a \in Powers, MinAlign <= a
  PROVE  /\ Stride(c) \in Nat /\ Stride(c) >= c
         /\ a <= c \/ a = MinAlign => Stride(c) % a = 0
  <1>1. c \in Nat /\ a \in Nat /\ a > 0 /\ MinAlign \in Nat /\ MinAlign > 0 /\ MinAlign \in Powers
    BY PowersAre, LayoutShape DEF LayoutShape
  <1>2. /\ Stride(c) \in Nat /\ Stride(c) % MinAlign = 0
        /\ Stride(c) >= c /\ Stride(c) < c + MinAlign
    BY <1>1, Aligned DEF Stride
  <1>3. CASE a = MinAlign
    BY <1>2, <1>3
  <1>4. CASE a <= c
    <2>1. c % a = 0 /\ c % MinAlign = 0
      BY <1>1, <1>4, PowersAre
    <2>2. PICK k \in Nat : c = k * MinAlign
      BY <1>1, <2>1, ModMult
    <2>3. PICK l \in Nat : Stride(c) = l * MinAlign
      BY <1>1, <1>2, ModMult
    <2>4. l = k
      <3>1. l * MinAlign >= k * MinAlign /\ l * MinAlign < (k + 1) * MinAlign
        BY <1>1, <1>2, <2>2, <2>3
      <3>2. l < k => (l + 1) * MinAlign <= k * MinAlign
        BY <1>1
      <3>3. l > k => l * MinAlign >= (k + 1) * MinAlign
        BY <1>1
      <3>4. (l + 1) * MinAlign = l * MinAlign + MinAlign /\ l * MinAlign \in Nat
            /\ k * MinAlign \in Nat /\ (k + 1) * MinAlign \in Nat
        BY <1>1
      <3> QED BY <1>1, <3>1, <3>2, <3>3, <3>4
    <2> QED BY <1>2, <2>1, <2>2, <2>3, <2>4
  <1> QED BY <1>2, <1>3, <1>4

\* An arena block without a header, of which the size is not known.
Unsized(b) == b.tier = "arena" /\ ~b.header

\* A block b has room for n bytes at a multiple of a.
Room(b, n, a) ==
  /\ b.user \in Nat /\ b.end \in Nat /\ b.tier # "none" /\ b.header \in BOOLEAN
  /\ b.user % a = 0 /\ (b.header => b.user - HeaderSize >= b.start)
  /\ Usable(b) \in Nat /\ b.user + n <= b.end /\ b.user + Usable(b) <= b.end
  /\ Usable(b) >= n \/ Unsized(b)
  /\ Unsized(b) => Usable(b) = 0 /\ b.end <= ChunkBytes

\* A block with a header has it in front of the pointer, and the header says how much
\* was asked for.
LEMMA WithHeader ==
  ASSUME NEW tier, tier # "none", NEW start \in Nat, NEW end \in Nat, NEW n \in Nat,
         NEW a \in Powers,
         start % a = 0, start + HeaderPad(a) + n <= end
  PROVE  Room(Placed(tier, TRUE, start, end, n, a), n, a)
  <1> DEFINE b == Placed(tier, TRUE, start, end, n, a)
             pad == HeaderPad(a)
  <1>1. pad \in Nat /\ pad % a = 0 /\ pad >= HeaderSize /\ a \in Nat /\ a > 0 /\ HeaderSize \in Nat
    BY Pad, PowersAre, LayoutShape DEF LayoutShape
  <1>2. /\ b.user = start + pad /\ b.start = start /\ b.end = end /\ b.tier = tier
        /\ b.header = TRUE /\ b.total = n + pad /\ b.pad = pad
    BY DEF Placed
  <1>3. (start + pad) % a = 0
    BY <1>1, ModSum
  <1> HIDE DEF b, pad
  <1>4. Usable(b) = n
    <2>1. Usable(b) = Larger(b.total - b.pad, 0)
      BY <1>2 DEF Usable
    <2>2. b.total - b.pad = n
      BY <1>1, <1>2
    <2> QED BY <2>1, <2>2 DEF Larger
  <1>5. Room(b, n, a)
    <2>1. start + pad + n <= end
      BY DEF pad
    <2>2. b.user \in Nat /\ b.user - HeaderSize >= b.start /\ b.user + n <= b.end
      BY <1>1, <1>2, <2>1
    <2>3. ~Unsized(b) /\ b.tier # "none" /\ b.header \in BOOLEAN /\ b.end \in Nat
      BY <1>2 DEF Unsized
    <2> QED BY <1>2, <1>3, <1>4, <2>2, <2>3 DEF Room
  <1> QED BY <1>5 DEF b

\* A block of the slab has room,
LEMMA SlabRoom ==
  ASSUME NEW n \in Nat, NEW a \in Powers, MinAlign <= a, NEW header \in BOOLEAN,
         header \/ a = MinAlign, NEW b \in FromSlab(n, a, header)
  PROVE  Room(b, n, a)
  <1> DEFINE pad  == HeaderPad(a)
             want == IF header THEN n + pad ELSE n
             c    == SlabClass(want)
             w    == Stride(c)
  <1>1. pad \in Nat /\ pad >= a /\ a \in Nat /\ a > 0
    BY Pad, PowersAre
  <1>2. PICK k \in {0, 3} : /\ n + pad <= SlabMax
                            /\ b = Placed("slab", header, k * w, (k + 1) * w, n, a)
    BY DEF FromSlab
  <1>3. SlabMax \in Powers /\ SlabMax \in Nat
    BY LayoutShape DEF LayoutShape
  <1>4. want \in Nat /\ want <= SlabMax
    BY <1>1, <1>2, <1>3
  <1>5. c \in Powers /\ c >= want /\ c \in Nat
    BY <1>3, <1>4, BlockFits, PowersAre
  <1>6. w \in Nat /\ w >= c /\ w % a = 0
    <2>1. a <= c \/ a = MinAlign
      BY <1>1, <1>5
    <2> QED BY <1>5, <2>1, StrideFits
  <1> HIDE DEF w
  <1>7. (k * w) % a = 0 /\ k * w \in Nat /\ (k + 1) * w \in Nat /\ (k + 1) * w = k * w + w
    <2>1. CASE k = 0
      BY <1>1, <1>6, <2>1
    <2>2. CASE k = 3
      <3>1. PICK l \in Nat : w = l * a
        BY <1>1, <1>6, ModMult
      <3>2. 3 * w = (3 * l) * a /\ 3 * l \in Nat
        BY <1>1, <3>1
      <3>3. (3 * w) % a = 0
        BY <1>1, <3>2, MultMod
      <3> QED BY <1>6, <2>2, <3>3
    <2> QED BY <2>1, <2>2
  <1>8. CASE header
    <2>1. k * w + HeaderPad(a) + n <= (k + 1) * w
      BY <1>1, <1>5, <1>6, <1>7, <1>8
    <2>2. Room(Placed("slab", TRUE, k * w, (k + 1) * w, n, a), n, a)
      BY <1>7, <2>1, WithHeader
    <2> QED BY <1>2, <1>8, <2>2
  <1>9. CASE ~header
    <2>1. /\ b.user = k * w /\ b.end = (k + 1) * w /\ b.tier = "slab"
          /\ b.header = FALSE /\ b.request = n
      BY <1>2, <1>9 DEF Placed
    <2>2. Usable(b) = c
      BY <1>9, <2>1 DEF Usable
    <2>3. c >= n
      BY <1>5, <1>9
    <2> HIDE DEF c, want
    <2>4. /\ k * w + n <= (k + 1) * w /\ k * w + c <= (k + 1) * w
      BY <1>5, <1>6, <1>7, <2>3
    <2> QED BY <1>5, <1>7, <2>1, <2>2, <2>3, <2>4 DEF Room, Unsized
  <1> QED BY <1>8, <1>9

\* one of the buddy,
LEMMA BuddyRoom ==
  ASSUME NEW n \in Nat, NEW a \in Powers, MinAlign <= a, NEW header \in BOOLEAN,
         header \/ a = MinAlign, NEW b \in FromBuddy(n, a, header)
  PROVE  Room(b, n, a)
  <1> DEFINE pad  == HeaderPad(a)
             want == IF header THEN n + pad ELSE n
             w    == BuddyBlock(want)
  <1>1. pad \in Nat /\ pad >= a /\ a \in Nat /\ a > 0 /\ MinAlign \in Nat /\ MinBlock \in Nat
    BY Pad, PowersAre, LayoutShape DEF LayoutShape
  <1>2. PICK k \in {0, 3} : /\ n + pad <= BuddyMax
                            /\ b = Placed("buddy", header, k * w, (k + 1) * w, n, a)
    BY DEF FromBuddy
  <1>3. BuddyMax \in Powers /\ BuddyMax \in Nat
    BY LayoutShape DEF LayoutShape
  <1>4. want \in Nat /\ want <= BuddyMax
    BY <1>1, <1>2, <1>3
  <1>5. w \in Powers /\ w >= want /\ w \in Nat /\ w >= MinBlock
    BY <1>3, <1>4, BlockFits, PowersAre
  <1>6. w % a = 0
    <2>1. a <= w
      BY <1>1, <1>5, LayoutShape DEF LayoutShape
    <2> QED BY <1>5, <2>1, PowersAre
  <1> HIDE DEF w
  <1>7. (k * w) % a = 0 /\ k * w \in Nat /\ (k + 1) * w \in Nat /\ (k + 1) * w = k * w + w
    <2>1. CASE k = 0
      BY <1>1, <1>5, <2>1
    <2>2. CASE k = 3
      <3>1. PICK l \in Nat : w = l * a
        BY <1>1, <1>5, <1>6, ModMult
      <3>2. 3 * w = (3 * l) * a /\ 3 * l \in Nat
        BY <1>1, <3>1
      <3>3. (3 * w) % a = 0
        BY <1>1, <3>2, MultMod
      <3> QED BY <1>5, <2>2, <3>3
    <2> QED BY <2>1, <2>2
  <1>8. CASE header
    <2>1. k * w + HeaderPad(a) + n <= (k + 1) * w
      BY <1>1, <1>5, <1>7, <1>8
    <2>2. Room(Placed("buddy", TRUE, k * w, (k + 1) * w, n, a), n, a)
      BY <1>7, <2>1, WithHeader
    <2> QED BY <1>2, <1>8, <2>2
  <1>9. CASE ~header
    <2>1. /\ b.user = k * w /\ b.end = (k + 1) * w /\ b.tier = "buddy"
          /\ b.header = FALSE /\ b.request = n
      BY <1>2, <1>9 DEF Placed
    <2>2. Usable(b) = w
      BY <1>9, <2>1 DEF Usable, w
    <2>3. w >= n
      BY <1>5, <1>9
    <2> HIDE DEF want
    <2>4. k * w + n <= (k + 1) * w /\ k * w + w <= (k + 1) * w
      BY <1>5, <1>7, <2>3
    <2> QED BY <1>5, <1>7, <2>1, <2>2, <2>3, <2>4 DEF Room, Unsized
  <1> QED BY <1>8, <1>9

\* one of the arena, in the rest of its chunk,
LEMMA ArenaRoom ==
  ASSUME NEW n \in Nat, NEW a \in Powers, MinAlign <= a, NEW header \in BOOLEAN,
         NEW b \in FromArena(n, a, header)
  PROVE  Room(b, n, a)
  <1> DEFINE pad  == HeaderPad(a)
             want == IF header THEN n + pad ELSE n
  <1>1. pad \in Nat /\ a \in Nat /\ a > 0 /\ ChunkBytes \in Nat /\ Cursors \subseteq Nat
    BY Pad, PowersAre, LayoutShape DEF LayoutShape
  <1>2. PICK c \in Cursors :
          /\ AlignUp(c, a) + want <= ChunkBytes
          /\ b = Placed("arena", header, AlignUp(c, a), AlignUp(c, a) + want, n, a)
    BY DEF FromArena
  <1> DEFINE x == AlignUp(c, a)
  <1>3. x \in Nat /\ x % a = 0
    BY <1>1, Aligned
  <1> HIDE DEF x
  <1>4. want \in Nat /\ x + want \in Nat
    BY <1>1, <1>3
  <1>5. b = Placed("arena", header, x, x + want, n, a) /\ x + want <= ChunkBytes
    BY <1>2 DEF x
  <1>6. CASE header
    <2>1. x + HeaderPad(a) + n <= x + want
      BY <1>1, <1>3, <1>6
    <2>2. Room(Placed("arena", TRUE, x, x + want, n, a), n, a)
      BY <1>3, <1>4, <2>1, WithHeader
    <2> QED BY <1>5, <1>6, <2>2
  <1>7. CASE ~header
    <2>1. /\ b.user = x /\ b.end = x + n /\ b.tier = "arena" /\ b.header = FALSE
      BY <1>5, <1>7 DEF Placed
    <2>2. Usable(b) = 0
      BY <2>1 DEF Usable
    <2>3. x + n <= ChunkBytes
      BY <1>5, <1>7
    <2>4. b.end \in Nat /\ b.user + n <= b.end /\ b.user + 0 <= b.end
      BY <1>3, <2>1
    <2>5. Unsized(b) /\ b.header \in BOOLEAN /\ b.tier # "none"
      BY <2>1 DEF Unsized
    <2>6. b.user \in Nat /\ b.user % a = 0 /\ b.end <= ChunkBytes
      BY <1>3, <2>1, <2>3
    <2> QED BY <2>1, <2>2, <2>4, <2>5, <2>6 DEF Room
  <1> QED BY <1>6, <1>7

\* and a mapping, although it may be cut at its front.
LEMMA SystemRoom ==
  ASSUME NEW n \in Nat, NEW a \in Powers, NEW b \in FromSystem(n, a)
  PROVE  Room(b, n, a)
  <1> DEFINE pad   == HeaderPad(a)
             need  == AlignUp(n + pad, Page)
             bytes == IF a <= Page THEN need ELSE AlignUp(n + pad + a, Page)
             most  == Larger(a, Page)
  <1>1. /\ pad \in Nat /\ a \in Nat /\ a > 0 /\ Page \in Nat /\ Page > 0 /\ Page \in Powers
    BY Pad, PowersAre, LayoutShape DEF LayoutShape
  <1>2. PICK base \in {0, Page} :
          b = Placed("system", TRUE, AlignUp(base, most), base + bytes, n, a)
    BY DEF FromSystem
  <1> DEFINE x == AlignUp(base, most)
  <1>3. most \in Powers /\ most \in Nat /\ most > 0 /\ most >= a /\ base \in Nat
    BY <1>1 DEF Larger
  <1>4. x \in Nat /\ x % most = 0 /\ x >= base /\ x < base + most
    BY <1>3, Aligned
  <1>5. x % a = 0
    <2>1. most % a = 0
      BY <1>3, PowersAre
    <2> QED BY <1>1, <1>3, <1>4, <2>1, ModTrans
  <1>6. /\ need \in Nat /\ need >= n + pad
        /\ AlignUp(n + pad + a, Page) \in Nat /\ AlignUp(n + pad + a, Page) >= n + pad + a
    <2> HIDE DEF pad
    <2>1. n + pad \in Nat /\ n + pad + a \in Nat
      BY <1>1
    <2> QED BY <1>1, <2>1, Aligned
  <1>7. bytes \in Nat /\ x + pad + n <= base + bytes
    <2>1. CASE a <= Page
      <3>1. most = Page
        BY <1>1, <2>1 DEF Larger
      <3>2. x = base
        <4>1. CASE base = 0
          <5>1. x < Page /\ x % Page = 0
            BY <1>1, <1>4, <3>1, <4>1
          <5>2. PICK k \in Nat : x = k * Page
            BY <1>1, <1>4, <5>1, ModMult
          <5>3. k >= 1 => k * Page >= Page
            BY <1>1
          <5>4. k * Page \in Nat
            BY <1>1
          <5>5. k = 0
            BY <1>1, <5>1, <5>2, <5>3, <5>4
          <5> QED BY <1>1, <4>1, <5>2, <5>5
        <4>2. CASE base = Page
          <5>1. x >= Page /\ x < Page + Page /\ x % Page = 0
            BY <1>1, <1>4, <3>1, <4>2
          <5>2. PICK k \in Nat : x = k * Page
            BY <1>1, <1>4, <5>1, ModMult
          <5>3. /\ k >= 2 => k * Page >= Page + Page
                /\ k = 0 => k * Page = 0
                /\ k = 1 => k * Page = Page
            BY <1>1
          <5>4. k * Page \in Nat
            BY <1>1
          <5>5. k = 1
            BY <1>1, <5>1, <5>2, <5>3, <5>4
          <5> QED BY <1>1, <4>2, <5>2, <5>5
        <4> QED BY <4>1, <4>2
      <3> QED BY <1>1, <1>3, <1>6, <2>1, <3>2
    <2>2. CASE ~(a <= Page)
      <3>1. most = a
        BY <1>1, <2>2 DEF Larger
      <3> QED BY <1>1, <1>3, <1>4, <1>6, <2>2, <3>1
    <2> QED BY <2>1, <2>2
  <1> HIDE DEF x, bytes
  <1>8. base + bytes \in Nat /\ x + HeaderPad(a) + n <= base + bytes
    BY <1>3, <1>7
  <1>9. Room(Placed("system", TRUE, x, base + bytes, n, a), n, a)
    BY <1>4, <1>5, <1>8, WithHeader
  <1> QED BY <1>2, <1>9 DEF x, bytes

\* Whichever backend serves a layout, its block has room for it.
LEMMA ServedRoom ==
  ASSUME NEW size \in Nat, NEW align \in Powers, NEW b \in Served(size, align)
  PROVE  Room(b, size, Larger(align, MinAlign))
  <1> DEFINE n == Larger(size, 1)
             a == Larger(align, MinAlign)
  <1>1. n \in Nat /\ n >= size /\ a \in Powers /\ MinAlign <= a /\ a \in Nat /\ MinAlign \in Nat
    <2>1. MinAlign \in Powers /\ align \in Nat /\ MinAlign \in Nat
      BY PowersAre, LayoutShape DEF LayoutShape
    <2>2. a = align \/ a = MinAlign
      BY DEF Larger
    <2>3. MinAlign <= a
      BY <2>1 DEF Larger
    <2>4. n \in Nat /\ n >= size
      BY DEF Larger
    <2> QED BY <2>1, <2>2, <2>3, <2>4
  <1>2. b \in Blocks(n, a)
    BY DEF Served
  <1> HIDE DEF n, a
  <1>3. Room(b, n, a)
    <2>1. CASE b \in FromSystem(n, a)
      BY <1>1, <2>1, SystemRoom
    <2>2. ASSUME NEW header \in BOOLEAN, header \/ a <= MinAlign,
                 b \in FromSlab(n, a, header) \cup FromBuddy(n, a, header)
                         \cup FromArena(n, a, header)
          PROVE  Room(b, n, a)
      <3>1. header \/ a = MinAlign
        BY <1>1, <2>2
      <3> QED BY <1>1, <2>2, <3>1, SlabRoom, BuddyRoom, ArenaRoom
    <2> QED BY <1>2, <2>1, <2>2 DEF Blocks
  <1>4. Room(b, size, a)
    BY <1>1, <1>3 DEF Room
  <1> QED BY <1>4 DEF a

\* What holds of the block between two calls.
LayoutInv ==
  /\ intact = TRUE
  /\ block # NoBlock =>
       /\ demand \in [size: Nat, align: Powers]
       /\ Room(block, demand.size, Larger(demand.align, MinAlign))

\* What an entry point gets has room for what was asked.
LEMMA GetRoom ==
  ASSUME NEW size \in Nat, NEW align \in Powers, Get(size, align)
  PROVE  /\ demand' \in [size: Nat, align: Powers]
         /\ demand'.size = size
         /\ Room(block, demand.size, Larger(demand.align, MinAlign))'
  <1>1. demand' = [size |-> size, align |-> align] /\ block' \in Served(size, align)
    BY DEF Get
  <1>2. Room(block', size, Larger(align, MinAlign))
    BY <1>1, ServedRoom
  <1> QED BY <1>1, <1>2 DEF Room, Usable, Unsized

\* What a reallocation copies is what the program may have written, up to the new size.
LEMMA CopiesAll ==
  ASSUME LayoutInv, block # NoBlock, NEW size \in Nat
  PROVE  Smaller(CopyBound(block), size) >= Smaller(Written, size)
  <1> DEFINE a == Larger(demand.align, MinAlign)
  <1>1. /\ Room(block, demand.size, a) /\ demand.size \in Nat /\ ChunkBytes \in Nat
    BY LayoutShape DEF LayoutInv, LayoutShape
  <1>2. CopyBound(block) \in Int /\ Written \in Nat /\ CopyBound(block) >= Written
    <2>1. CASE Unsized(block)
      <3>1. Usable(block) = 0 /\ block.end <= ChunkBytes /\ block.user \in Nat
            /\ block.end \in Nat /\ block.user + demand.size <= block.end
        BY <1>1, <2>1 DEF Room
      <3>2. CopyBound(block) = ChunkBytes - block.user
        BY <2>1 DEF CopyBound, Unsized
      <3>3. Written = demand.size
        BY <1>1, <3>1 DEF Written, Larger
      <3> QED BY <1>1, <3>1, <3>2, <3>3
    <2>2. CASE ~Unsized(block)
      <3>1. Usable(block) \in Nat /\ Usable(block) >= demand.size
        BY <1>1, <2>2 DEF Room
      <3>2. CopyBound(block) = Usable(block)
        BY <2>2 DEF CopyBound, Unsized
      <3>3. Written = Usable(block)
        BY <1>1, <3>1 DEF Written, Larger
      <3> QED BY <3>1, <3>2, <3>3
    <2> QED BY <2>1, <2>2
  <1> QED BY <1>2 DEF Smaller

\* A block that stays has room for the new size: it says how large it is.
LEMMA StaysRoom ==
  ASSUME LayoutInv, block # NoBlock, NEW size \in Nat, Stays(size)
  PROVE  Room(block, size, MinAlign)
  <1> DEFINE a == Larger(demand.align, MinAlign)
             n == demand.size
  <1>1. Room(block, n, a) /\ n \in Nat /\ demand.align \in Powers
    BY DEF LayoutInv
  <1>2. MinAlign \in Powers /\ MinAlign \in Nat /\ MinAlign > 0 /\ demand.align \in Nat
    BY <1>1, PowersAre, LayoutShape DEF LayoutShape
  <1>3. a \in Powers /\ a \in Nat /\ a > 0 /\ MinAlign <= a
    <2>1. a = demand.align \/ a = MinAlign
      BY DEF Larger
    <2>2. MinAlign <= a
      BY <1>2 DEF Larger
    <2> QED BY <1>1, <1>2, <2>1, <2>2, PowersAre
  <1> HIDE DEF a, n
  <1>4. block.user % MinAlign = 0
    <2>1. a % MinAlign = 0
      BY <1>2, <1>3, PowersAre
    <2>2. block.user \in Nat /\ block.user % a = 0
      BY <1>1 DEF Room
    <2> QED BY <1>2, <1>3, <2>1, <2>2, ModTrans
  <1>5. ~Unsized(block) /\ size <= Usable(block)
    BY DEF Stays, AllowsInPlace, Unsized, CopyBound
  <1>6. block.user + size <= block.end
    BY <1>1, <1>5 DEF Room
  <1> QED BY <1>1, <1>4, <1>5, <1>6 DEF Room

\* A reallocation keeps the block, or gets another and copies.
LEMMA StaysOrMoves ==
  ASSUME LayoutInv, block # NoBlock, NEW size \in Nat, Grow(size) PROVE LayoutInv'
  <1>0. MinAlign \in Powers /\ MinAlign \in Nat
    BY PowersAre, LayoutShape DEF LayoutShape
  <1>1. CASE Stays(size)
    <2>1. demand' = [size |-> size, align |-> MinAlign] /\ intact' = TRUE /\ block' = block
      BY <1>1 DEF Grow
    <2>2. Room(block, size, MinAlign)
      BY <1>1, StaysRoom
    <2>3. Larger(MinAlign, MinAlign) = MinAlign
      BY DEF Larger
    <2>4. demand' \in [size: Nat, align: Powers] /\ demand'.size = size
          /\ demand'.align = MinAlign
      BY <1>0, <2>1
    <2> QED BY <2>1, <2>2, <2>3, <2>4 DEF LayoutInv, Room, Usable, Unsized
  <1>2. CASE ~Stays(size)
    <2>1. Get(size, MinAlign)
          /\ intact' = (Smaller(CopyBound(block), size) >= Smaller(Written, size))
      BY <1>2 DEF Grow
    <2>2. intact' = TRUE
      BY <2>1, CopiesAll
    <2> QED BY <1>0, <2>1, <2>2, GetRoom DEF LayoutInv
  <1> QED BY <1>1, <1>2

\* The sizes and alignments that calls come with.
LEMMA Arguments ==
  /\ Sizes \subseteq Nat /\ Alignments \subseteq Powers /\ MinAlign \in Powers
  /\ \A n \in Counts, size \in Sizes : n * size \in Nat
  /\ \A align \in Alignments : Larger(align, MinAlign) \in Powers
  <1>1. Sizes \subseteq Nat /\ Counts \subseteq Nat /\ Alignments \subseteq Powers
        /\ MinAlign \in Powers
    BY LayoutShape DEF LayoutShape
  <1>2. \A n \in Counts, size \in Sizes : n * size \in Nat
    BY <1>1
  <1> QED BY <1>1, <1>2 DEF Larger

\* The calls that allocate,
LEMMA MallocStep == ASSUME LayoutInv, NEW size \in Nat, malloc(size) PROVE LayoutInv'
  BY Arguments, GetRoom DEF malloc, LayoutInv

\* and the one that also frees.
LEMMA ReallocStep == ASSUME LayoutInv, NEW size \in Nat, realloc(size) PROVE LayoutInv'
  <1>1. CASE block = NoBlock /\ malloc(size)
    BY <1>1, MallocStep
  <1>2. CASE free
    BY <1>2 DEF free, LayoutInv
  <1>3. CASE block # NoBlock /\ Grow(size)
    BY <1>3, StaysOrMoves
  <1> QED BY <1>1, <1>2, <1>3 DEF realloc

\* Every call keeps it, whatever block it is given.
THEOREM LayoutInductive == BlSpec => []LayoutInv
  <1>1. BlInit => LayoutInv
    BY DEF BlInit, LayoutInv
  <1>2. ASSUME LayoutInv, [BlNext]_blVars PROVE LayoutInv'
    <2>1. CASE free
      BY <1>2, <2>1 DEF free, LayoutInv
    <2>2. ASSUME NEW size \in Sizes, malloc(size) \/ realloc(size) PROVE LayoutInv'
      BY <1>2, <2>2, Arguments, MallocStep, ReallocStep
    <2>3. ASSUME NEW size \in Sizes, NEW n \in Counts, calloc(n, size) \/ reallocarray(n, size)
          PROVE  LayoutInv'
      <3>1. n * size \in Nat /\ (malloc(n * size) \/ realloc(n * size))
        BY <2>3, Arguments DEF calloc, reallocarray
      <3> QED BY <1>2, <3>1, MallocStep, ReallocStep
    <2>4. ASSUME NEW size \in Sizes, NEW align \in Alignments,
                 posix_memalign(align, size) \/ aligned_alloc(align, size)
          PROVE  LayoutInv'
      <3>1. PICK a \in Powers : Get(size, a) /\ intact' = intact
        BY <2>4, Arguments DEF posix_memalign, aligned_alloc
      <3>2. size \in Nat
        BY Arguments
      <3> QED BY <1>2, <3>1, <3>2, GetRoom DEF LayoutInv
    <2>5. CASE UNCHANGED blVars
      BY <1>2, <2>5 DEF blVars, LayoutInv, Room, Usable, Unsized
    <2> QED BY <1>2, <2>1, <2>2, <2>3, <2>4, <2>5 DEF BlNext
  <1> QED BY <1>1, <1>2, PTL DEF BlSpec

\* The property is a consequence.
LEMMA HoldsThen == LayoutInv => BlockHolds
  <1> SUFFICES ASSUME LayoutInv, block # NoBlock PROVE BlockHolds
    BY DEF BlockHolds
  <1> DEFINE a == Larger(demand.align, MinAlign)
  <1>1. Room(block, demand.size, a) /\ demand.size \in Nat /\ demand.align \in Powers
    BY DEF LayoutInv
  <1>2. MinAlign \in Powers /\ MinAlign \in Nat /\ demand.align \in Nat /\ demand.align > 0
    BY <1>1, PowersAre, LayoutShape DEF LayoutShape
  <1>3. a \in Powers /\ a \in Nat /\ a > 0 /\ a >= demand.align
    <2>1. a = demand.align \/ a = MinAlign
      BY DEF Larger
    <2>2. demand.align <= a
      BY <1>2 DEF Larger
    <2> QED BY <1>1, <1>2, <2>1, <2>2, PowersAre
  <1> HIDE DEF a
  <1>4. block.user % demand.align = 0
    <2>1. a % demand.align = 0
      BY <1>1, <1>3, PowersAre
    <2>2. block.user \in Nat /\ block.user % a = 0
      BY <1>1 DEF Room
    <2> QED BY <1>2, <1>3, <2>1, <2>2, ModTrans
  <1>5. block.user + Written <= block.end
    BY <1>1 DEF Room, Written, Larger
  <1>6. Usable(block) >= demand.size \/ (block.tier = "arena" /\ Usable(block) = 0)
    BY <1>1 DEF Room, Unsized
  <1> QED BY <1>1, <1>4, <1>5, <1>6 DEF BlockHolds, LayoutInv, Room

\* For headers, sizes, alignments and limits of any size: a block is aligned as asked,
\* holds its header, what was asked for and what malloc_usable_size grants, and a
\* reallocation preserves what the program may have written (lohalloc-cabi; lib.rs).
THEOREM BlockHoldsAlways == BlSpec => []BlockHolds
  BY LayoutInductive, HoldsThen, PTL

=============================================================================
