--------------------------- MODULE OccurrenceLedger ---------------------------
(***************************************************************************)
(* What the rest of the dashboard may rely on about occurrences, however   *)
(* the chores service goes about it: a chore is opened once, its           *)
(* occurrences are only ever added to until the chore is purged, an        *)
(* occurrence is made at most once and for one chore only, and the counter *)
(* may lag behind the occurrences made but is never ahead of them.         *)
(***************************************************************************)
EXTENDS Integers, FiniteSets

CONSTANTS
    Chores,        \* identifiers of chores
    Occurrences    \* identifiers of occurrences

VARIABLES
    life,          \* whether a chore is unknown, open or purged
    made,          \* the occurrences made for each chore
    counted        \* the counter of each chore

vars == <<life, made, counted>>

TypeOK ==
    /\ life \in [Chores -> {"unknown", "open", "purged"}]
    /\ made \in [Chores -> SUBSET Occurrences]
    /\ counted \in [Chores -> Nat]

Init ==
    /\ life = [c \in Chores |-> "unknown"]
    /\ made = [c \in Chores |-> {}]
    /\ counted = [c \in Chores |-> 0]

Open(c) ==
    /\ life[c] = "unknown"
    /\ life' = [life EXCEPT ![c] = "open"]
    /\ UNCHANGED <<made, counted>>

Make(c, o) ==
    /\ life[c] = "open"
    /\ \A d \in Chores : o \notin made[d]
    /\ made' = [made EXCEPT ![c] = @ \cup {o}]
    /\ UNCHANGED <<life, counted>>

Count(c) ==
    /\ life[c] = "open"
    /\ \E k \in 0..Cardinality(made[c]) : counted' = [counted EXCEPT ![c] = k]
    /\ UNCHANGED <<life, made>>

Purge(c) ==
    /\ life[c] = "open"
    /\ life' = [life EXCEPT ![c] = "purged"]
    /\ made' = [made EXCEPT ![c] = {}]
    /\ counted' = [counted EXCEPT ![c] = 0]

Next ==
    \E c \in Chores :
        Open(c) \/ Count(c) \/ Purge(c) \/ \E o \in Occurrences : Make(c, o)

Spec == Init /\ [][Next]_vars

===============================================================================
