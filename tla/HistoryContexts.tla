-------------------------- MODULE HistoryContexts --------------------------
(***************************************************************************)
(* The allocation-history register of a thread (AHR, lib.rs): a shift      *)
(* register of 2-bit event codes, read as a context that training learns   *)
(* under and that a frozen table with flagged entries is asked with.       *)
(*                                                                         *)
(* A context means the same in both modes only if every allocation leaves  *)
(* the same event, whatever serves it: the bandit, the frozen table, the   *)
(* shortcut of a size class, a pinned site or the fast lane.  The register *)
(* is maintained under the flag ahr_on, which a freeze or load sets before *)
(* it publishes its table, and a reset sets last.                          *)
(*                                                                         *)
(* A register is its newest events, the newest first.  Threads share only  *)
(* ahr_on and the table, so one of them stands for all.                    *)
(***************************************************************************)
EXTENDS Integers, Sequences, SequencesExt

CONSTANTS
  AllocCodes,  \* ahr_alloc_code of the sizes asked for: of 1 (slab), 2, 3
  Shallow,     \* CTX_EVENTS
  Deep,        \* events of the deep context, twice the codes it is folded to
  NoContext    \* no context: CTX_UNTRACKED

FreeCode == 0

\* A code has two bits, and a shallow context fewer events (6 bits) than a deep one
\* when it is folded (8 bits, the width of CTX_UNTRACKED).
ASSUME HistoryShape ==
  /\ AllocCodes \subseteq 0 .. 3
  /\ Shallow \in Nat \ {0} /\ Deep \in Nat /\ Shallow < Deep \div 2

\* No table; one without flags; one whose flagged sites need the register.
Tables == {"null", "plain", "flagged"}

VARIABLES
  entry,      \* the program frees through GlobalAlloc ("rust") or free ("c")
  ahr_on, frozen_table, publishing,   \* the instance, and what is about to be published
  ahr,        \* the register
  routing, code, ctx, asked_table,   \* an allocation: its code, contexts and table
  told        \* history: what was pushed since an event was last left out or
              \* pushed that is not the program's, newest first

hcVars == <<entry, ahr_on, frozen_table, publishing, ahr, routing, code, ctx,
            asked_table, told>>

instance   == <<ahr_on, frozen_table, publishing>>
allocating == <<routing, code, ctx, asked_table>>

HcInit ==
  /\ entry \in {"rust", "c"}
  /\ ahr_on = TRUE /\ frozen_table = "null" /\ publishing = "none"
  /\ ahr = [i \in 1 .. Deep |-> FreeCode] /\ told = ahr
  /\ routing = "idle" /\ code = FreeCode /\ ctx = NoContext /\ asked_table = "null"

Newest(s, n) == SubSeq(s, 1, IF Len(s) < n THEN Len(s) ELSE n)
Pushed(s, c) == Newest(<<c>> \o s, Deep)

\* Exclusive or of two 2-bit codes.
XorCodes(a, b) == 2 * (((a \div 2) + (b \div 2)) % 2) + ((a + b) % 2)

\* ahr_shallow; ahr_deep: the halves folded together, and the value that would
\* read as "untracked" moved by its lowest bit.
ShallowOf(s) == Newest(s, Shallow)
Untracked    == [i \in 1 .. Deep \div 2 |-> 3]
DeepOf(s) ==
  LET folded == [i \in 1 .. Deep \div 2 |-> XorCodes(s[i], s[i + Deep \div 2])]
  IN  IF folded = Untracked THEN [folded EXCEPT ![1] = 2] ELSE folded
ContextOf(s) == [shallow |-> ShallowOf(s), deep |-> DeepOf(s)]

\* An event of the program is pushed; or it is left out.
Push(c)  == ahr' = Pushed(ahr, c) /\ told' = Pushed(told, c)
LeaveOut == told' = <<>> /\ UNCHANGED ahr

\* route_alloc_inner: the contexts are of the history before this allocation.
ReadAndPush(c) ==
  /\ routing = "idle" /\ routing' = "read" /\ code' = c
  /\ IF ahr_on
     THEN ctx' = ContextOf(ahr) /\ Push(c)
     ELSE ctx' = NoContext /\ LeaveOut
  /\ UNCHANGED <<entry, instance, asked_table>>

\* Then the table: a flagged one is asked with the contexts, if there are any.
LookUpTable ==
  /\ routing = "read"
  /\ routing' = IF frozen_table = "null" THEN "reward" ELSE "routed"
  /\ asked_table' = frozen_table
  /\ UNCHANGED <<entry, instance, ahr, code, ctx, told>>

\* A batch that fills up is removed from its tree, which may free a node: that
\* free is an event too when Rust's collections use this allocator.
RewardBatch ==
  /\ routing = "reward" /\ routing' = "idle" /\ ctx' = NoContext /\ code' = FreeCode
  /\ \/ UNCHANGED <<ahr, told>>
     \/ /\ entry = "rust" /\ ahr_on
        /\ ahr' = Pushed(ahr, FreeCode) /\ told' = <<>>
  /\ UNCHANGED <<entry, instance, asked_table>>

ServeRouted ==
  /\ routing = "routed" /\ routing' = "idle" /\ ctx' = NoContext /\ code' = FreeCode
  /\ asked_table' = "null"
  /\ UNCHANGED <<entry, instance, ahr, told>>

\* slab_fast_alloc, route_alloc: the table is loaded, and answers for the site or
\* the size class without a context.
AnswerEarly(way, c) ==
  /\ routing = "idle" /\ frozen_table # "null"
  /\ routing' = way /\ code' = c /\ asked_table' = frozen_table
  /\ UNCHANGED <<entry, instance, ahr, ctx, told>>

\* Mutation: the lane pushes, gives up and leaves the call to a path that pushes.
PushTwice ==
  /\ routing \in {"lane", "pinned", "shortcut"} /\ routing' = "idle"
  /\ code' = FreeCode /\ asked_table' = "null"
  /\ IF ahr_on /\ (routing = "shortcut" => asked_table = "flagged")
     THEN /\ told' = Pushed(told, code)
          /\ ahr' = IF routing = "lane" THEN Pushed(Pushed(ahr, code), code)
                    ELSE Pushed(ahr, code)
     ELSE LeaveOut
  /\ UNCHANGED <<entry, instance, ctx>>

\* The event is pushed all the same; the shortcut spares it for a table without
\* flags (ahr_needed).
PushOnly ==
  /\ routing \in {"lane", "pinned", "shortcut"} /\ routing' = "idle"
  /\ code' = FreeCode /\ asked_table' = "null"
  /\ IF ahr_on /\ (routing = "shortcut" => asked_table = "flagged")
     THEN Push(code)
     ELSE LeaveOut
  /\ UNCHANGED <<entry, instance, ctx>>

\* GlobalAlloc::dealloc pushes before it looks at the block, try_dealloc_raw
\* does not.
FreeBlock ==
  /\ routing = "idle" /\ entry = "rust"
  /\ IF ahr_on THEN Push(FreeCode) ELSE LeaveOut
  /\ UNCHANGED <<entry, instance, allocating>>

\* publish_frozen_table: the flag, then the table.
Decide ==
  /\ publishing = "none" /\ publishing' \in Tables \ {"null"}
  /\ ahr_on' = (publishing' = "flagged")
  /\ UNCHANGED <<entry, frozen_table, ahr, allocating, told>>
Publish ==
  /\ publishing \in Tables \ {"null"} /\ frozen_table' = publishing /\ publishing' = "none"
  /\ UNCHANGED <<entry, ahr_on, ahr, allocating, told>>

\* reset_to_training: the table, then the flag.
Unpublish ==
  /\ publishing = "none" /\ frozen_table # "null"
  /\ frozen_table' = "null" /\ publishing' = "training"
  /\ UNCHANGED <<entry, ahr_on, ahr, allocating, told>>
ResetFlag ==
  /\ publishing = "training" /\ ahr_on' = TRUE /\ publishing' = "none"
  /\ UNCHANGED <<entry, frozen_table, ahr, allocating, told>>

HcNext ==
  \/ \E c \in AllocCodes :
       ReadAndPush(c) \/ \E way \in {"lane", "pinned", "shortcut"} : AnswerEarly(way, c)
  \/ LookUpTable \/ RewardBatch \/ ServeRouted \/ PushOnly \/ FreeBlock
  \/ Decide \/ Publish \/ Unpublish \/ ResetFlag

HcSpec == HcInit /\ [][HcNext]_hcVars

\* The events before the allocation under way, as far as they are known.
Before == IF ctx = NoContext THEN told ELSE Tail(told)

\* A context is a function of what the program did, not of what served it or of
\* the mode ("reads and pushes happen at the same points in both modes"): the
\* codes of its last events, as far back as no event was left out under ahr_on or
\* pushed by a free of the allocator's own collections; and neither context reads
\* as "untracked".
ContextsAgree ==
  /\ \A i \in 1 .. Len(told) : ahr[i] = told[i]
  /\ routing = "read" /\ ctx # NoContext =>
       /\ \A i \in 1 .. Shallow : i <= Len(Before) => ctx.shallow[i] = Before[i]
       /\ ctx.shallow # Untracked /\ ctx.deep # Untracked

\* "Decided BEFORE publishing the table so no alloc can observe a flagged table
\* with the register disabled."
FlaggedHasContext == routing = "routed" /\ asked_table = "flagged" => ctx # NoContext

=============================================================================
