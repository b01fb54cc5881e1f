------------------------------- MODULE MCChores -------------------------------
(***************************************************************************)
(* Chore configurations for model checking ChoresService.  The clock runs  *)
(* over days 0..MaxDay; instances can be generated up to MaxDate, which is *)
(* later than MaxDay, so that every rule has a next day.                   *)
(***************************************************************************)
EXTENDS ChoresInvariant, TLC

(* The slots, and the members, are interchangeable. *)
Interchangeable == Permutations(Slots) \cup Permutations(Members)

(* Every day, with a due time in the middle of the day. *)
Daily ==
    [once |-> FALSE, days |-> Dates, after |-> [d \in Days |-> d + 1],
     due_time |-> 1, due_date |-> None, end_date |-> None, max |-> 0,
     collab |-> FALSE, cond |-> FALSE, valid |-> TRUE]

(* Every day, without a due time: its rule's time is midnight. *)
Anytime == [Daily EXCEPT !.due_time = None]

(* Twice at most. *)
Twice == [Daily EXCEPT !.max = 2]

(* Every other day (a week of two days, due on its first). *)
AlternateDays ==
    [Daily EXCEPT !.days = {d \in Dates : d % 2 = 0},
                  !.after = [d \in Days |-> d + 2 - (d % 2)]]

(* Once, whenever it is set up. *)
OneTime == [Daily EXCEPT !.once = TRUE, !.due_time = None]

(* Once, on a day and at a time. *)
OneTimeDated == [Daily EXCEPT !.once = TRUE, !.due_date = 0]

OneTimeShared == [OneTimeDated EXCEPT !.collab = TRUE]

Ending == [Daily EXCEPT !.end_date = 1]

Conditional == [Daily EXCEPT !.cond = TRUE, !.max = 1]

(* Weekly without a day of the week: the endpoints accept it, the schema   *)
(* of the rule does not.                                                   *)
Malformed == [Anytime EXCEPT !.valid = FALSE]

Shared == [Daily EXCEPT !.collab = TRUE]

TwiceAnytime == [Anytime EXCEPT !.max = 2]

SharedAnytime == [Anytime EXCEPT !.collab = TRUE]

SharedThrice == [Shared EXCEPT !.max = 3]

OneTimers     == {OneTimeDated, OneTimeShared}
SharedAnyDays == {SharedAnytime}
AnyDays       == {SharedAnytime, TwiceAnytime}
OnlyAnytime   == {Anytime}
OnlySharedThrice == {SharedThrice}
Recurrences   == {Twice, AlternateDays, Ending, Conditional, OneTime, Malformed}

===============================================================================
