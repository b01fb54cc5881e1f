------------------------------ MODULE Recurrence ------------------------------
(***************************************************************************)
(* The dates a recurring chore falls on: calculate_period and              *)
(* get_next_occurrence of app/domain/chores/utils/periods.py, over the     *)
(* Gregorian calendar, and a chore whose occurrences they generate one     *)
(* after the other.                                                        *)
(*                                                                         *)
(* A month is the number of months since January of the year 0, a date a   *)
(* month and a day in it.  A time of day is 0 ("00:00"), 1 (the time a     *)
(* chore is due, if it has one) or 2 (later).                              *)
(***************************************************************************)
EXTENDS Integers, Sequences

CONSTANTS
    Rules,       \* the recurrence rules considered
    FirstDay,    \* the date on which the clock starts
    LastDay,     \* bound: the date on which it stops
    None

VARIABLES
    rule,        \* the rule of the chore
    today, now,  \* the clock, in the family's time zone
    due          \* period_start of the instance generated last

vars == <<rule, today, now, due>>

-------------------------------------------------------------------------------
(* The calendar (datetime.date, calendar.monthrange). *)

YearOf(month) == month \div 12

MonthOf(month) == (month % 12) + 1

Leap(year) == year % 4 = 0 /\ (year % 100 # 0 \/ year % 400 = 0)

DaysIn(month) ==
    CASE MonthOf(month) = 2                -> IF Leap(YearOf(month)) THEN 29 ELSE 28
      [] MonthOf(month) \in {4, 6, 9, 11}  -> 30
      [] OTHER                             -> 31

Date == [month: Nat, day: 1..31]

IsDate(d) == d \in Date /\ d.day <= DaysIn(d.month)

(* Days of a common year before each of its months. *)
Cumulated == <<0, 31, 59, 90, 120, 151, 181, 212, 243, 273, 304, 334>>

DaysBefore(month) ==
    LET y == YearOf(month) - 1
    IN  (365 * y) + (y \div 4) - (y \div 100) + (y \div 400) + Cumulated[MonthOf(month)]
        + IF MonthOf(month) > 2 /\ Leap(YearOf(month)) THEN 1 ELSE 0

Ordinal(d) == DaysBefore(d.month) + d.day

(* Monday is 0. *)
Weekday(d) == (Ordinal(d) + 6) % 7

(* d + timedelta(days=n), for up to four weeks. *)
Plus(d, n) ==
    IF d.day + n <= DaysIn(d.month) THEN [d EXCEPT !.day = @ + n]
    ELSE [month |-> d.month + 1, day |-> d.day + n - DaysIn(d.month)]

Least(S) == CHOOSE x \in S : \A y \in S : x <= y

-------------------------------------------------------------------------------
(* A rule that passes RecurrenceRule's validator, its numbers in the ranges *)
(* its documentation gives.  Nothing reads frequency_interval.             *)
Rule ==
    {r \in [frequency: {"daily", "weekly", "monthly", "yearly"},
            frequency_interval: Nat \ {0}, time: 0..1,
            day_of_week: Seq(0..6), day_of_month: (1..31) \cup {None},
            week_of_month: (1..5) \cup {None}, month: (1..12) \cup {None}] :
        /\ r.frequency = "weekly" => r.day_of_week # <<>>
        /\ r.frequency \in {"monthly", "yearly"} =>
              r.day_of_month # None \/ (r.day_of_week # <<>> /\ r.week_of_month # None)
        /\ r.frequency = "yearly" => r.month # None}

ASSUME RulesAssumption == \A r \in Rules : r \in Rule

ASSUME ClockAssumption == IsDate(FirstDay) /\ IsDate(LastDay)

(* Mutant (NextIsFirst): a month without an n-th weekday is overrun. *)
NthWeekdayMutant(month, weekday, n) ==
    LET first == [month |-> month, day |-> 1]
    IN  Plus(Plus(first, (weekday - Weekday(first)) % 7), 7 * (n - 1))

(* _get_nth_weekday: the last one when there is no n-th. *)
NthWeekday(month, weekday, n) ==
    LET first  == [month |-> month, day |-> 1]
        start  == Plus(first, (weekday - Weekday(first)) % 7)
        target == Plus(start, 7 * (n - 1))
    IN  IF target.month # month THEN Plus(start, 7 * (n - 2)) ELSE target

(* The day of a month that a monthly or a yearly rule names. *)
InMonth(r, month) ==
    IF r.day_of_month # None
    THEN [month |-> month, day |-> Least({r.day_of_month, DaysIn(month)})]
    ELSE NthWeekday(month, r.day_of_week[1], r.week_of_month)

(* Mutant (PeriodIsOccurrence): the day wanted is passed by one week. *)
DaysToMutant(r, d) == 7 - ((Weekday(d) - r.day_of_week[1]) % 7)

(* The days from d to the next day of the week that r names. *)
DaysTo(r, d) ==
    Least({LET diff == r.day_of_week[i] - Weekday(d)
           IN  IF diff < 0 THEN diff + 7 ELSE diff : i \in DOMAIN r.day_of_week})

(* calculate_period: its first day, which is also its last. *)
CalculatePeriod(r, d) ==
    CASE r.frequency = "daily"   -> d
      [] r.frequency = "weekly"  -> Plus(d, DaysTo(r, d))
      [] r.frequency = "monthly" -> InMonth(r, d.month)
      [] r.frequency = "yearly"  -> InMonth(r, (12 * YearOf(d.month)) + r.month - 1)

(* _advance_one_month *)
AdvanceOneMonth(d) ==
    [month |-> d.month + 1, day |-> Least({d.day, DaysIn(d.month + 1)})]

(* Mutant (GeneratedInOrder): a week is counted twice. *)
FollowingMutant(r, d, p) ==
    IF r.frequency = "weekly" THEN Plus(p, 14) ELSE CalculatePeriod(r, AdvanceOneMonth(d))

(* Where get_next_occurrence goes on to from d, when the period p found    *)
(* for d is over or its time has come.                                     *)
Following(r, d, p) ==
    CASE r.frequency = "daily"   -> Plus(d, 1)
      [] r.frequency = "weekly"  -> Plus(p, 7)
      [] r.frequency = "monthly" -> CalculatePeriod(r, AdvanceOneMonth(d))
      [] r.frequency = "yearly"  ->
            CalculatePeriod(r, [month |-> 12 * (YearOf(d.month) + 1), day |-> 1])

(* Mutant (OccurrenceKept): today is always too late. *)
NextOccurrenceMutant(r, d, time) ==
    LET p == CalculatePeriod(r, d)
    IN  IF Ordinal(p) > Ordinal(d) THEN p ELSE Following(r, d, p)

(* get_next_occurrence *)
NextOccurrence(r, d, time) ==
    LET p == CalculatePeriod(r, d)
    IN  IF Ordinal(p) > Ordinal(d) \/ (p = d /\ time < r.time)
        THEN p ELSE Following(r, d, p)

-------------------------------------------------------------------------------
(* One chore: an instance is generated when it is set up, when one is      *)
(* completed and at every sync.                                            *)

Init ==
    /\ rule \in Rules
    /\ today = FirstDay
    /\ now \in 0..2
    /\ due = NextOccurrence(rule, today, now)

Generate ==
    /\ due' = NextOccurrence(rule, today, now)
    /\ UNCHANGED <<rule, today, now>>

Tick ==
    /\ \/ now < 2 /\ now' = now + 1 /\ today' = today
       \/ Ordinal(today) < Ordinal(LastDay) /\ today' = Plus(today, 1) /\ now' = 0
    /\ UNCHANGED <<rule, due>>

Next == Generate \/ Tick

Spec == Init /\ [][Next]_vars

-------------------------------------------------------------------------------
(* What a rule means. *)

(* d is the n-th of its weekday in its month. *)
Nth(d) == (d.day + 6) \div 7

NamesInMonth(r, d) ==
    IF r.day_of_month # None
    THEN d.day = r.day_of_month \/ (d.day = DaysIn(d.month) /\ d.day < r.day_of_month)
    ELSE /\ Weekday(d) = r.day_of_week[1]
         /\ \/ Nth(d) = r.week_of_month
            \/ (Nth(d) < r.week_of_month /\ d.day + 7 > DaysIn(d.month))

(* The rule names day d. *)
Names(r, d) ==
    CASE r.frequency = "daily"   -> TRUE
      [] r.frequency = "weekly"  ->
            \E i \in DOMAIN r.day_of_week : r.day_of_week[i] = Weekday(d)
      [] r.frequency = "monthly" -> NamesInMonth(r, d)
      [] r.frequency = "yearly"  -> MonthOf(d.month) = r.month /\ NamesInMonth(r, d)

Between(d, e) ==
    {x \in [month: d.month..e.month, day: 1..31] :
        IsDate(x) /\ Ordinal(d) < Ordinal(x) /\ Ordinal(x) < Ordinal(e)}

(* An occurrence on day d can still be done. *)
Ahead(r, d) == Ordinal(d) > Ordinal(today) \/ (d = today /\ now < r.time)

-------------------------------------------------------------------------------
(* Properties. *)

(* The next occurrence is a day that the rule names, whose time has not    *)
(* come, and no such day is passed over: across short months, leap years,  *)
(* months without a fifth weekday and the end of the year.                 *)
NextIsFirst ==
    LET n == NextOccurrence(rule, today, now)
    IN  /\ IsDate(n) /\ Names(rule, n) /\ Ahead(rule, n)
        /\ \A d \in Between(today, n) : ~Names(rule, d)
        /\ Ahead(rule, today) /\ Names(rule, today) => n = today

(* generate_instance_for_association asks calculate_period for the period  *)
(* of the date get_next_occurrence gave it: it is that date.               *)
PeriodIsOccurrence ==
    LET n == NextOccurrence(rule, today, now) IN CalculatePeriod(rule, n) = n

(* As long as the instance generated last can still be done, a sync on any *)
(* day asks for that same instance, and generates no other.                *)
OccurrenceKept == Ahead(rule, due) => NextOccurrence(rule, today, now) = due

(* Instances are generated in the order of their dates:                    *)
(* archive_old_instances_for_association, which archives what is earlier   *)
(* than the new one, leaves nothing behind it.                             *)
GeneratedInOrder == [][Ordinal(due') >= Ordinal(due)]_vars

-------------------------------------------------------------------------------
(* The inductive invariant behind them. *)

(* No weekly rule has several days: get_next_occurrence adds a week to the *)
(* first one that is over, and skips the others.                           *)
OneWeekday == \A r \in Rules : r.frequency = "weekly" => Len(r.day_of_week) = 1

(* The next occurrence, asked for now. *)
Upcoming == NextOccurrence(rule, today, now)

Clock ==
    /\ rule \in Rules
    /\ IsDate(today) /\ now \in 0..2
    /\ IsDate(due) /\ Names(rule, due)

(* No instance is generated for a day later than the next occurrence.      *)
RecurrenceInv == Clock /\ Ordinal(due) <= Ordinal(Upcoming)

===============================================================================
