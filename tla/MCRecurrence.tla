---------------------------- MODULE MCRecurrence ----------------------------
(***************************************************************************)
(* Rules and clocks for model checking Recurrence.  The clock runs over    *)
(* the end of a year, a leap day and two months without a fifth of some    *)
(* weekdays.                                                               *)
(***************************************************************************)
EXTENDS Recurrence

On(year, month, day) == [month |-> (12 * year) + month - 1, day |-> day]

MidDecember == On(2027, 12, 15)
LateMarch   == On(2028, 3, 20)
FirstWeek   == On(2027, 12, 25)

Plain ==
    [frequency |-> "daily", frequency_interval |-> 1, time |-> 1,
     day_of_week |-> <<>>, day_of_month |-> None, week_of_month |-> None,
     month |-> None]

Weekly(days) == [Plain EXCEPT !.frequency = "weekly", !.day_of_week = days]

MonthlyOn(day) == [Plain EXCEPT !.frequency = "monthly", !.day_of_month = day]

MonthlyNth(n, weekday) ==
    [Plain EXCEPT !.frequency = "monthly", !.day_of_week = <<weekday>>,
                  !.week_of_month = n]

Yearly(month, r) == [r EXCEPT !.frequency = "yearly", !.month = month]

(* Every kind of rule that names one day of a week, a month or a year,     *)
(* with a due time and without.                                            *)
Timed ==
    {Plain, Weekly(<<0>>), Weekly(<<6>>), MonthlyOn(15), MonthlyOn(31),
     MonthlyNth(1, 0), MonthlyNth(5, 4), Yearly(2, MonthlyOn(29)),
     Yearly(12, MonthlyOn(31)), Yearly(1, MonthlyNth(5, 6))}

SingleDays == Timed \cup {[r EXCEPT !.time = 0] : r \in Timed}

SeveralDays == {Weekly(<<0, 2, 4>>)}

===============================================================================
