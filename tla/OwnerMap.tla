------------------------------ MODULE OwnerMap ------------------------------
(***************************************************************************)
(* What an ownership registry promises to the free path: a map from the   *)
(* base of a segment, region or chunk to the payload it was registered    *)
(* with.  An entry is added once and never changes, and a lookup answers   *)
(* with the entry there is, or with none.                                  *)
(***************************************************************************)
CONSTANTS Bases, Payloads, Readers, None

VARIABLES
  entries,   \* the map: a payload, or None
  asked,     \* the base a reader looks up, or None
  told       \* the answer a reader holds while it looks nothing up

vars == <<entries, asked, told>>

Init == /\ entries = [b \in Bases |-> None]
        /\ asked = [r \in Readers |-> None]
        /\ told = [r \in Readers |-> None]

Insert(b, p) == /\ entries[b] = None
                /\ entries' = [entries EXCEPT ![b] = p]
                /\ UNCHANGED <<asked, told>>

Ask(r, b) == /\ asked[r] = None
             /\ asked' = [asked EXCEPT ![r] = b]
             /\ told' = [told EXCEPT ![r] = None]
             /\ UNCHANGED entries

Answer(r) == /\ asked[r] # None
             /\ told' = [told EXCEPT ![r] = entries[asked[r]]]
             /\ asked' = [asked EXCEPT ![r] = None]
             /\ UNCHANGED entries

Next == \/ \E b \in Bases, p \in Payloads : Insert(b, p)
        \/ \E r \in Readers : Answer(r) \/ \E b \in Bases : Ask(r, b)

Spec == Init /\ [][Next]_vars

=============================================================================
