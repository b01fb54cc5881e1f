------------------------------ MODULE MCCalendar ------------------------------
(* The calendar feed for TLC.  A week of the instance has one day: what    *)
(* matters is the change of weeks, which entries and fetches may outlive.  *)
EXTENDS CalendarFeed, TLC

CONSTANT dinner

OnDays == [e \in Events |-> IF e = dinner THEN 1 ELSE 2]

Symmetry == Permutations(Members) \cup Permutations(Fetches)

===============================================================================
