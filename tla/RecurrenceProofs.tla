--------------------------- MODULE RecurrenceProofs ---------------------------
(***************************************************************************)
(* Theorems about Recurrence, for every rule that passes the validator and *)
(* on every day of the calendar: get_next_occurrence answers a day that    *)
(* the rule names, passes over none, and goes on answering it until its    *)
(* time has come.                                                          *)
(*                                                                         *)
(* Days are counted from the length of the months and the years: the count *)
(* (Ordinal) is in the order of the dates, timedelta adds to it, and       *)
(* weekdays are its remainders.  A month has one day that a monthly or     *)
(* yearly rule names (OneInMonth), a week the days of a weekly one         *)
(* (DaysToFirst).  What get_next_occurrence answers is then the earlier of *)
(* two days.                                                               *)
(***************************************************************************)
EXTENDS Recurrence, TLAPS

(* The years before year y, in days. *)
Elapsed(y) == (365 * y) + (y \div 4) - (y \div 100) + (y \div 400)

(* The length of each month. *)
LEMMA MonthLength ==
    ASSUME NEW m
    PROVE  /\ MonthOf(m) = 2 => DaysIn(m) = IF Leap(YearOf(m)) THEN 29 ELSE 28
           /\ MonthOf(m) \in {4, 6, 9, 11} => DaysIn(m) = 30
           /\ MonthOf(m) \notin {2, 4, 6, 9, 11} => DaysIn(m) = 31
<1>1. MonthOf(m) = 2 => MonthOf(m) \notin {4, 6, 9, 11}
  OBVIOUS
<1>2. QED
  BY <1>1, Zenon DEF DaysIn

(* A month is a year and a month of it, of 28 to 31 days. *)
LEMMA Calendar ==
    ASSUME NEW m \in Nat
    PROVE  /\ YearOf(m) \in Nat /\ MonthOf(m) \in 1..12
           /\ m = (12 * YearOf(m)) + MonthOf(m) - 1
           /\ DaysIn(m) \in 28..31
<1>1. YearOf(m) \in Nat /\ MonthOf(m) \in 1..12 /\ m = (12 * YearOf(m)) + MonthOf(m) - 1
  BY DEF YearOf, MonthOf
<1>2. DaysIn(m) \in 28..31
  BY <1>1, MonthLength
<1>3. QED
  BY <1>1, <1>2

(* A year has 365 days, a leap year 366. *)
LEMMA YearLength ==
    ASSUME NEW y \in Nat
    PROVE  Elapsed(y) = Elapsed(y - 1) + IF Leap(y) THEN 366 ELSE 365
  BY SMTT(60) DEF Elapsed, Leap

(* Each year is counted. *)
LEMMA YearsGrow ==
    ASSUME NEW x \in Int, NEW y \in Int, x < y
    PROVE  Elapsed(x) + 365 <= Elapsed(y) /\ Elapsed(x) \in Int
  BY SMTT(60) DEF Elapsed

(* A month begins where the one before it ends, January too. *)
LEMMA NextMonthStarts ==
    ASSUME NEW m \in Nat
    PROVE  /\ DaysBefore(m) \in Int
           /\ DaysBefore(m + 1) = DaysBefore(m) + DaysIn(m)
<1> DEFINE y == YearOf(m)
<1>1. y \in Nat /\ MonthOf(m) \in 1..12 /\ m = (12 * y) + MonthOf(m) - 1
  BY Calendar
<1>2. /\ YearOf(m + 1) = IF MonthOf(m) = 12 THEN y + 1 ELSE y
      /\ MonthOf(m + 1) = IF MonthOf(m) = 12 THEN 1 ELSE MonthOf(m) + 1
  BY <1>1 DEF YearOf, MonthOf
<1>3. /\ DaysBefore(m) = Elapsed(y - 1) + Cumulated[MonthOf(m)]
                          + IF MonthOf(m) > 2 /\ Leap(y) THEN 1 ELSE 0
      /\ DaysBefore(m + 1) = Elapsed(YearOf(m + 1) - 1) + Cumulated[MonthOf(m + 1)]
                          + IF MonthOf(m + 1) > 2 /\ Leap(YearOf(m + 1)) THEN 1 ELSE 0
  BY DEF DaysBefore, Elapsed
<1>4. Elapsed(y) = Elapsed(y - 1) + IF Leap(y) THEN 366 ELSE 365
  BY <1>1, YearLength
<1>5. Elapsed(y) \in Int /\ Elapsed(y - 1) \in Int
  BY <1>1 DEF Elapsed
<1>6. \A k \in 1..12 : Cumulated[k] \in Nat
  BY DEF Cumulated
<1>7. CASE MonthOf(m) = 12
  BY <1>1, <1>2, <1>3, <1>4, <1>5, <1>7, MonthLength DEF Cumulated
<1>8. CASE MonthOf(m) # 12
  <2>1. Cumulated[MonthOf(m) + 1] = Cumulated[MonthOf(m)]
             + IF MonthOf(m) = 2 THEN 28 ELSE IF MonthOf(m) \in {4, 6, 9, 11} THEN 30 ELSE 31
    BY <1>1, <1>8 DEF Cumulated
  <2>2. QED
    BY <1>1, <1>2, <1>3, <1>5, <1>6, <1>8, <2>1, MonthLength
<1>9. QED
  BY <1>7, <1>8

(* No month begins before an earlier one has ended. *)
LEMMA MonthsInOrder ==
    ASSUME NEW m \in Nat, NEW n \in Nat, m < n
    PROVE  DaysBefore(m) + DaysIn(m) <= DaysBefore(n)
<1> DEFINE x == YearOf(m)
           y == YearOf(n)
<1>1. /\ x \in Nat /\ MonthOf(m) \in 1..12 /\ m = (12 * x) + MonthOf(m) - 1
      /\ y \in Nat /\ MonthOf(n) \in 1..12 /\ n = (12 * y) + MonthOf(n) - 1
  BY Calendar
<1>2. /\ DaysBefore(m) = Elapsed(x - 1) + Cumulated[MonthOf(m)]
                          + IF MonthOf(m) > 2 /\ Leap(x) THEN 1 ELSE 0
      /\ DaysBefore(n) = Elapsed(y - 1) + Cumulated[MonthOf(n)]
                          + IF MonthOf(n) > 2 /\ Leap(y) THEN 1 ELSE 0
  BY DEF DaysBefore, Elapsed
<1>3. Elapsed(x) \in Int /\ Elapsed(x - 1) \in Int /\ Elapsed(y - 1) \in Int
  BY <1>1 DEF Elapsed
<1>4. x = y \/ x < y
  BY <1>1
<1>5. CASE x = y
  <2>1. MonthOf(m) < MonthOf(n)
    BY <1>1, <1>5
  <2>2. QED
    BY <1>1, <1>2, <1>3, <1>5, <2>1, MonthLength DEF Cumulated
<1>6. CASE x < y
  <2>1. Elapsed(x) = Elapsed(x - 1) + IF Leap(x) THEN 366 ELSE 365
    BY <1>1, YearLength
  <2>2. DaysBefore(m) + DaysIn(m) <= Elapsed(x)
    BY <1>1, <1>2, <1>3, <2>1, MonthLength DEF Cumulated
  <2>3. Elapsed(y - 1) <= DaysBefore(n)
    BY <1>1, <1>2, <1>3 DEF Cumulated
  <2>4. Elapsed(x) <= Elapsed(y - 1)
    <3>1. CASE x = y - 1
      BY <3>1, <1>3
    <3>2. CASE x < y - 1
      <4>1. Elapsed(x) + 365 <= Elapsed(y - 1)
        BY <1>1, <3>2, YearsGrow
      <4>2. QED
        BY <4>1, <1>3
    <3>3. QED
      BY <1>1, <1>6, <3>1, <3>2
  <2>5. DaysBefore(m) \in Int /\ DaysBefore(n) \in Int /\ DaysIn(m) \in Int
    BY NextMonthStarts, Calendar
  <2>6. QED
    BY <1>3, <2>2, <2>3, <2>4, <2>5
<1>7. QED
  BY <1>4, <1>5, <1>6

(* Dates are counted in the order of month and day. *)
LEMMA OrdinalOrder ==
    ASSUME NEW d, NEW e, IsDate(d), IsDate(e)
    PROVE  /\ Ordinal(d) \in Int /\ Ordinal(e) \in Int
           /\ Ordinal(d) < Ordinal(e)
                 <=> d.month < e.month \/ (d.month = e.month /\ d.day < e.day)
           /\ Ordinal(d) = Ordinal(e) => d = e
<1>1. /\ d.month \in Nat /\ d.day \in 1..31 /\ d.day <= DaysIn(d.month)
      /\ e.month \in Nat /\ e.day \in 1..31 /\ e.day <= DaysIn(e.month)
      /\ d \in Date /\ e \in Date
  BY DEF IsDate, Date
<1>2. /\ DaysBefore(d.month) \in Int /\ DaysBefore(e.month) \in Int
      /\ DaysIn(d.month) \in Int /\ DaysIn(e.month) \in Int
  BY <1>1, NextMonthStarts, Calendar
<1>3. d.month < e.month => DaysBefore(d.month) + DaysIn(d.month) <= DaysBefore(e.month)
  BY <1>1, MonthsInOrder
<1>4. e.month < d.month => DaysBefore(e.month) + DaysIn(e.month) <= DaysBefore(d.month)
  BY <1>1, MonthsInOrder
<1>5. /\ Ordinal(d) = DaysBefore(d.month) + d.day
      /\ Ordinal(e) = DaysBefore(e.month) + e.day
  BY DEF Ordinal
<1>6. d.month = e.month /\ d.day = e.day => d = e
  BY <1>1 DEF Date
<1>7. CASE d.month < e.month
  <2>1. Ordinal(d) < Ordinal(e)
    BY <1>1, <1>2, <1>3, <1>5, <1>7
  <2>2. QED
    BY <1>1, <1>2, <1>5, <1>7, <2>1
<1>8. CASE e.month < d.month
  <2>1. Ordinal(e) < Ordinal(d)
    BY <1>1, <1>2, <1>4, <1>5, <1>8
  <2>2. QED
    BY <1>1, <1>2, <1>5, <1>8, <2>1
<1>9. CASE d.month = e.month
  BY <1>1, <1>2, <1>5, <1>6, <1>9
<1>10. QED
  BY <1>1, <1>7, <1>8, <1>9

(* timedelta counts days. *)
LEMMA PlusDays ==
    ASSUME NEW d, IsDate(d), NEW n \in 0..28
    PROVE  /\ IsDate(Plus(d, n))
           /\ Ordinal(Plus(d, n)) = Ordinal(d) + n
           /\ d.day + n <= DaysIn(d.month) =>
                 Plus(d, n) = [month |-> d.month, day |-> d.day + n]
           /\ d.day + n > DaysIn(d.month) => Plus(d, n).month = d.month + 1
<1>1. /\ d \in Date /\ d.month \in Nat /\ d.day \in 1..31 /\ d.day <= DaysIn(d.month)
      /\ DaysIn(d.month) \in 28..31 /\ DaysIn(d.month + 1) \in 28..31
  BY Calendar DEF IsDate, Date
<1>2. /\ DaysBefore(d.month) \in Int
      /\ DaysBefore(d.month + 1) = DaysBefore(d.month) + DaysIn(d.month)
  BY <1>1, NextMonthStarts
<1>3. CASE d.day + n <= DaysIn(d.month)
  <2>1. Plus(d, n) = [month |-> d.month, day |-> d.day + n]
    BY <1>1, <1>3 DEF Plus, Date
  <2>2. QED
    BY <1>1, <1>2, <1>3, <2>1 DEF IsDate, Date, Ordinal
<1>4. CASE d.day + n > DaysIn(d.month)
  <2>1. Plus(d, n) = [month |-> d.month + 1, day |-> d.day + n - DaysIn(d.month)]
    BY <1>1, <1>4 DEF Plus
  <2>2. QED
    BY <1>1, <1>2, <1>4, <2>1 DEF IsDate, Date, Ordinal
<1>5. QED
  BY <1>1, <1>3, <1>4

(* A delta of no days. *)
LEMMA PlusNothing ==
    ASSUME NEW d, IsDate(d)
    PROVE  Plus(d, 0) = d
<1>1. Ordinal(Plus(d, 0)) = Ordinal(d) + 0 /\ IsDate(Plus(d, 0))
  BY PlusDays
<1>2. QED
  BY <1>1, OrdinalOrder

(* Weekdays come round every seven days. *)
LEMMA Weekdays ==
    ASSUME NEW d, NEW e, IsDate(d), IsDate(e), NEW n \in Nat, Ordinal(e) = Ordinal(d) + n
    PROVE  /\ Weekday(d) \in 0..6
           /\ Weekday(e) = (Weekday(d) + n) % 7
<1>1. Ordinal(d) \in Int
  BY OrdinalOrder
<1>2. QED
  BY <1>1, SMTT(30) DEF Weekday

(* min of two numbers. *)
LEMMA LeastOfTwo ==
    ASSUME NEW a \in Int, NEW b \in Int
    PROVE  Least({a, b}) = IF a <= b THEN a ELSE b
  BY DEF Least

(* min over the days to some days of the week. *)
LEMMA LeastInWeek ==
    ASSUME NEW S, S \subseteq 0..6, S # {}
    PROVE  Least(S) \in S /\ \A x \in S : Least(S) <= x
<1>1. \E x \in S : \A y \in S : x <= y
  <2>1. PICK x \in S : TRUE
    OBVIOUS
  <2>2. CASE 0 \in S BY <2>2
  <2>3. CASE 1 \in S /\ 0 \notin S BY <2>3
  <2>4. CASE 2 \in S /\ 1 \notin S /\ 0 \notin S BY <2>4
  <2>5. CASE 3 \in S /\ \A k \in 0..2 : k \notin S BY <2>5
  <2>6. CASE 4 \in S /\ \A k \in 0..3 : k \notin S BY <2>6
  <2>7. CASE 5 \in S /\ \A k \in 0..4 : k \notin S BY <2>7
  <2>8. CASE 6 \in S /\ \A k \in 0..5 : k \notin S BY <2>8
  <2>9. QED
    BY <2>1, <2>2, <2>3, <2>4, <2>5, <2>6, <2>7, <2>8
<1>2. QED
  BY <1>1 DEF Least

(* DaysTo leads to the first day of the week named, and passes none. *)
LEMMA DaysToFirst ==
    ASSUME NEW r \in Rule, r.frequency = "weekly", NEW d, IsDate(d)
    PROVE  /\ DaysTo(r, d) \in 0..6
           /\ \E i \in DOMAIN r.day_of_week : r.day_of_week[i] = (Weekday(d) + DaysTo(r, d)) % 7
           /\ \A k \in 0..(DaysTo(r, d) - 1) :
                 ~ \E i \in DOMAIN r.day_of_week : r.day_of_week[i] = (Weekday(d) + k) % 7
<1> DEFINE Diff(i) == LET diff == r.day_of_week[i] - Weekday(d)
                      IN  IF diff < 0 THEN diff + 7 ELSE diff
           S == {Diff(i) : i \in DOMAIN r.day_of_week}
<1>1. r.day_of_week \in Seq(0..6) /\ r.day_of_week # <<>>
  BY DEF Rule
<1>2. Weekday(d) \in 0..6
  <2>1. Ordinal(d) \in Int
    BY OrdinalOrder
  <2>2. QED
    BY <2>1 DEF Weekday
<1>3. \A i \in DOMAIN r.day_of_week : r.day_of_week[i] \in 0..6
  BY <1>1
<1>4. \A i \in DOMAIN r.day_of_week :
         Diff(i) \in 0..6 /\ (Weekday(d) + Diff(i)) % 7 = r.day_of_week[i]
  BY <1>2, <1>3
<1>5. \A i \in DOMAIN r.day_of_week : \A k \in 0..6 :
         (Weekday(d) + k) % 7 = r.day_of_week[i] => k = Diff(i)
  BY <1>2, <1>3
<1>6. S \subseteq 0..6 /\ S # {}
  BY <1>1, <1>4
<1>7. DaysTo(r, d) = Least(S)
  BY DEF DaysTo
<1>8. Least(S) \in S /\ \A x \in S : Least(S) <= x
  BY <1>6, LeastInWeek
<1> HIDE DEF Diff
<1> HIDE DEF S
<1>9. \A k \in 0..(DaysTo(r, d) - 1) : k \in 0..6 /\ k \notin S
  <2>1. DaysTo(r, d) \in 0..6 /\ \A x \in S : x \in 0..6 /\ DaysTo(r, d) <= x
    BY <1>6, <1>7, <1>8
  <2>2. QED
    BY <2>1
<1> USE DEF S
<1>10. QED
  BY <1>4, <1>5, <1>6, <1>7, <1>8, <1>9

(* The same for the days of a month. *)
LEMMA PlusInMonth ==
    ASSUME NEW m \in Nat, NEW k \in 1..DaysIn(m), NEW n \in 0..28
    PROVE  /\ IsDate([month |-> m, day |-> k])
           /\ k + n <= DaysIn(m) =>
                 Plus([month |-> m, day |-> k], n) = [month |-> m, day |-> k + n]
           /\ k + n > DaysIn(m) => Plus([month |-> m, day |-> k], n).month = m + 1
<1> DEFINE d == [month |-> m, day |-> k]
<1>1. DaysIn(m) \in 28..31
  BY Calendar
<1>2. d.month = m /\ d.day = k
  OBVIOUS
<1>3. IsDate(d)
  BY <1>1 DEF IsDate, Date
<1> HIDE DEF d
<1>4. /\ d.day + n <= DaysIn(d.month) =>
            Plus(d, n) = [month |-> d.month, day |-> d.day + n]
      /\ d.day + n > DaysIn(d.month) => Plus(d, n).month = d.month + 1
  BY <1>3, PlusDays
<1>5. QED
  BY <1>2, <1>3, <1>4 DEF d

(* The days to a day of the week. *)
LEMMA DaysAhead ==
    ASSUME NEW b \in Int, NEW w \in 0..6
    PROVE  /\ (w - ((b + 7) % 7)) % 7 \in 0..6
           /\ (b + ((w - ((b + 7) % 7)) % 7)) % 7 = w
<1> DEFINE q   == (b + 7) % 7
           off == (w - q) % 7
<1>1. q \in 0..6 /\ \E z \in Int : b = (7 * z) + q
  <2>1. b + 7 = (7 * ((b + 7) \div 7)) + q /\ (b + 7) \div 7 \in Int /\ q \in 0..6
    OBVIOUS
  <2>2. b = (7 * (((b + 7) \div 7) - 1)) + q /\ ((b + 7) \div 7) - 1 \in Int
    BY <2>1
  <2>3. QED
    BY <2>1, <2>2
<1>2. PICK z \in Int : b = (7 * z) + q
  BY <1>1
<1> HIDE DEF q
<1>3. off \in 0..6 /\ (off = w - q \/ off = w - q + 7)
  BY <1>1
<1> HIDE DEF off
<1>4. (b + off) % 7 = w
  BY <1>1, <1>2, <1>3
<1>5. QED
  BY <1>3, <1>4 DEF off, q

(* The day that is the n-th of a weekday, off days after the first of a     *)
(* month of len days, or the last one there.                                *)
LEMMA NthDay ==
    ASSUME NEW off \in 0..6, NEW n \in 1..5, NEW len \in 28..31, NEW k \in 1..len,
           (k - 1 - off) % 7 = 0
    PROVE  LET day == IF 1 + off + 7 * (n - 1) <= len THEN 1 + off + 7 * (n - 1)
                      ELSE 1 + off + 7 * (n - 2)
           IN  /\ (k + 6) \div 7 = n \/ ((k + 6) \div 7 < n /\ k + 7 > len) <=> k = day
               /\ day \in 1..len /\ (day - 1 - off) % 7 = 0
<1>1. PICK z \in Int : k - 1 - off = 7 * z
  <2>1. k - 1 - off = (7 * ((k - 1 - off) \div 7)) + ((k - 1 - off) % 7)
        /\ (k - 1 - off) \div 7 \in Int
    OBVIOUS
  <2>2. QED
    BY <2>1
<1>2. z \in 0..4 /\ (k + 6) \div 7 = z + 1
  BY <1>1
<1> DEFINE day == IF 1 + off + 7 * (n - 1) <= len THEN 1 + off + 7 * (n - 1)
                  ELSE 1 + off + 7 * (n - 2)
<1>3. (k + 6) \div 7 = n \/ ((k + 6) \div 7 < n /\ k + 7 > len) <=> k = day
  BY <1>1, <1>2
<1>4. day \in 1..len
  OBVIOUS
<1>5. day - 1 - off = 7 * (n - 1) \/ day - 1 - off = 7 * (n - 2)
  OBVIOUS
<1>6. (day - 1 - off) % 7 = 0
  BY <1>5
<1>7. QED
  BY <1>3, <1>4, <1>6

(* The day of a month that is the n-th of a weekday, or the last one. *)
LEMMA NthWeekdayIs ==
    ASSUME NEW m \in Nat, NEW w \in 0..6, NEW n \in 1..5
    PROVE  LET t == NthWeekday(m, w, n)
               Is(x) == /\ Weekday(x) = w
                        /\ \/ Nth(x) = n
                           \/ Nth(x) < n /\ x.day + 7 > DaysIn(x.month)
           IN  /\ IsDate(t) /\ t.month = m /\ Is(t)
               /\ \A x : IsDate(x) /\ x.month = m /\ Is(x) => x = t
<1> DEFINE first  == [month |-> m, day |-> 1]
           off    == (w - Weekday(first)) % 7
           start  == Plus(first, off)
           t      == NthWeekday(m, w, n)
           Is(x)  == /\ Weekday(x) = w
                     /\ \/ Nth(x) = n
                        \/ Nth(x) < n /\ x.day + 7 > DaysIn(x.month)
           day    == IF 1 + off + 7 * (n - 1) <= DaysIn(m) THEN 1 + off + 7 * (n - 1)
                     ELSE 1 + off + 7 * (n - 2)
<1>1. DaysIn(m) \in 28..31 /\ DaysBefore(m) \in Int
  BY Calendar, NextMonthStarts
<1>2. Weekday(first) = (DaysBefore(m) + 7) % 7
  <2>1. Ordinal(first) = DaysBefore(m) + 1
    BY DEF Ordinal
  <2>2. QED
    BY <1>1, <2>1 DEF Weekday
<1>3. off \in 0..6 /\ (DaysBefore(m) + off) % 7 = w
  <2> DEFINE b == DaysBefore(m)
  <2>1. b \in Int /\ off = (w - ((b + 7) % 7)) % 7
    BY <1>1, <1>2
  <2> HIDE DEF b, off
  <2>2. off \in 0..6 /\ (b + off) % 7 = w
    BY <2>1, DaysAhead
  <2>3. QED
    BY <2>2 DEF b
<1>4. t = IF Plus(start, 7 * (n - 1)).month # m THEN Plus(start, 7 * (n - 2))
          ELSE Plus(start, 7 * (n - 1))
  BY DEF NthWeekday
<1> HIDE DEF off, t
<1>5. start = [month |-> m, day |-> 1 + off]
  <2>1. 1 \in 1..DaysIn(m) /\ off \in 0..28 /\ 1 + off <= DaysIn(m)
    BY <1>1, <1>3
  <2>2. QED
    BY <2>1, PlusInMonth
<1>6. 1 + off \in 1..DaysIn(m) /\ 7 * (n - 1) \in 0..28
  BY <1>1, <1>3
<1>7. t = [month |-> m, day |-> day]
  <2>1. CASE 1 + off + 7 * (n - 1) <= DaysIn(m)
    <3>1. Plus(start, 7 * (n - 1)) = [month |-> m, day |-> 1 + off + 7 * (n - 1)]
      BY <1>5, <1>6, <2>1, PlusInMonth
    <3>2. QED
      BY <1>4, <2>1, <3>1
  <2>2. CASE 1 + off + 7 * (n - 1) > DaysIn(m)
    <3>1. Plus(start, 7 * (n - 1)).month = m + 1
      BY <1>5, <1>6, <2>2, PlusInMonth
    <3>2. 7 * (n - 2) \in 0..28 /\ 1 + off + 7 * (n - 2) <= DaysIn(m)
      BY <1>1, <1>3, <2>2
    <3>3. Plus(start, 7 * (n - 2)) = [month |-> m, day |-> 1 + off + 7 * (n - 2)]
      BY <1>5, <1>6, <3>2, PlusInMonth
    <3>4. day = 1 + off + 7 * (n - 2)
      BY <1>1, <1>3, <2>2
    <3>5. QED
      BY <1>4, <3>1, <3>3, <3>4
  <2>3. QED
    BY <1>1, <1>3, <2>1, <2>2
<1>8. day \in 1..DaysIn(m) /\ (day - 1 - off) % 7 = 0
  <2>1. 1 + off \in 1..DaysIn(m) /\ (1 + off - 1 - off) % 7 = 0
    BY <1>3, <1>6
  <2>2. QED
    BY <1>1, <1>3, <2>1, NthDay
<1> HIDE DEF day
<1>9. IsDate(t) /\ t.month = m /\ t.day = day
  BY <1>1, <1>7, <1>8 DEF IsDate, Date
<1>10. ASSUME NEW x, IsDate(x), x.month = m
       PROVE  /\ x.day \in 1..DaysIn(m)
              /\ Weekday(x) = w <=> (x.day - 1 - off) % 7 = 0
  <2>1. x.day \in 1..DaysIn(m)
    BY <1>1, <1>10 DEF IsDate, Date
  <2>2. Weekday(x) = (DaysBefore(m) + x.day + 6) % 7
    BY <1>10 DEF Weekday, Ordinal
  <2>3. x.day \in Int
    BY <1>1, <2>1
  <2>4. (DaysBefore(m) + x.day + 6) % 7 = w <=> (x.day - 1 - off) % 7 = 0
    <3> DEFINE k == x.day - 1 - off
    <3>1. PICK z \in Int : DaysBefore(m) + off = (7 * z) + w
      <4>1. DaysBefore(m) + off = (7 * ((DaysBefore(m) + off) \div 7)) + w
            /\ (DaysBefore(m) + off) \div 7 \in Int
        BY <1>1, <1>3
      <4>2. QED
        BY <4>1
    <3>2. k \in Int /\ DaysBefore(m) + x.day + 6 = (7 * (z + 1)) + w + k
      BY <1>1, <1>3, <2>3, <3>1
    <3> HIDE DEF k
    <3>3. ((7 * (z + 1)) + w + k) % 7 = w <=> k % 7 = 0
      BY <3>2
    <3>4. QED
      BY <3>2, <3>3 DEF k
  <2>5. QED
    BY <2>1, <2>2, <2>4
<1>11. \A x : Nth(x) = (x.day + 6) \div 7
  BY DEF Nth
<1>12. ASSUME NEW x, IsDate(x), x.month = m
       PROVE  Is(x) <=> x.day = day
  <2>1. x.day \in 1..DaysIn(m) /\ (Weekday(x) = w <=> (x.day - 1 - off) % 7 = 0)
    BY <1>10, <1>12
  <2>2. (x.day - 1 - off) % 7 = 0 =>
           ((x.day + 6) \div 7 = n \/ ((x.day + 6) \div 7 < n /\ x.day + 7 > DaysIn(m))
               <=> x.day = day)
    BY <1>1, <1>3, <2>1, NthDay DEF day
  <2>3. QED
    BY <1>8, <1>11, <1>12, <2>1, <2>2
<1> HIDE DEF Is
<1>13. ASSUME NEW x, IsDate(x), x.month = m, x.day = day
       PROVE  x = t
  BY <1>7, <1>13 DEF IsDate, Date
<1>14. QED
  BY <1>9, <1>12, <1>13 DEF t, Is

(* A month has exactly one day that a monthly or yearly rule names. *)
LEMMA OneInMonth ==
    ASSUME NEW r \in Rule, r.frequency \in {"monthly", "yearly"}, NEW m \in Nat
    PROVE  /\ IsDate(InMonth(r, m)) /\ InMonth(r, m).month = m
           /\ NamesInMonth(r, InMonth(r, m))
           /\ \A x : IsDate(x) /\ x.month = m /\ NamesInMonth(r, x) => x = InMonth(r, m)
<1>1. DaysIn(m) \in 28..31
  BY Calendar
<1>2. CASE r.day_of_month # None
  <2>1. r.day_of_month \in 1..31
    BY <1>2 DEF Rule
  <2> DEFINE day == IF r.day_of_month <= DaysIn(m) THEN r.day_of_month ELSE DaysIn(m)
  <2>2. InMonth(r, m) = [month |-> m, day |-> day]
    BY <1>1, <1>2, <2>1, LeastOfTwo DEF InMonth
  <2>3. day \in 1..DaysIn(m)
    BY <1>1, <2>1
  <2>4. \A x : IsDate(x) /\ x.month = m => (NamesInMonth(r, x) <=> x.day = day)
    BY <1>1, <1>2, <2>1 DEF IsDate, Date, NamesInMonth
  <2> HIDE DEF day
  <2>5. /\ IsDate(InMonth(r, m)) /\ InMonth(r, m).month = m /\ InMonth(r, m).day = day
    BY <1>1, <2>2, <2>3 DEF IsDate, Date
  <2>6. \A x : IsDate(x) /\ x.month = m /\ x.day = day => x = InMonth(r, m)
    BY <2>2 DEF IsDate, Date
  <2>7. QED
    BY <2>4, <2>5, <2>6
<1>3. CASE r.day_of_month = None
  <2>1. r.day_of_week \in Seq(0..6) /\ r.day_of_week # <<>> /\ r.week_of_month \in 1..5
    BY <1>3 DEF Rule
  <2>2. r.day_of_week[1] \in 0..6
    BY <2>1
  <2>3. InMonth(r, m) = NthWeekday(m, r.day_of_week[1], r.week_of_month)
    BY <1>3 DEF InMonth
  <2>4. \A x : NamesInMonth(r, x) <=>
                  /\ Weekday(x) = r.day_of_week[1]
                  /\ \/ Nth(x) = r.week_of_month
                     \/ Nth(x) < r.week_of_month /\ x.day + 7 > DaysIn(x.month)
    BY <1>3 DEF NamesInMonth
  <2> DEFINE w == r.day_of_week[1]
             n == r.week_of_month
             Is(x) == /\ Weekday(x) = w
                      /\ \/ Nth(x) = n
                         \/ Nth(x) < n /\ x.day + 7 > DaysIn(x.month)
  <2>5. w \in 0..6 /\ n \in 1..5
    BY <2>1, <2>2
  <2>6. InMonth(r, m) = NthWeekday(m, w, n) /\ \A x : NamesInMonth(r, x) <=> Is(x)
    BY <2>3, <2>4
  <2> HIDE DEF w, n
  <2>7. /\ IsDate(NthWeekday(m, w, n)) /\ NthWeekday(m, w, n).month = m
        /\ Is(NthWeekday(m, w, n))
        /\ \A x : IsDate(x) /\ x.month = m /\ Is(x) => x = NthWeekday(m, w, n)
    BY <2>5, NthWeekdayIs
  <2> HIDE DEF Is
  <2>8. QED
    BY <2>6, <2>7
<1>4. QED
  BY <1>2, <1>3

(* calculate_period, frequency by frequency. *)
LEMMA Periods ==
    ASSUME NEW r, NEW d
    PROVE  /\ r.frequency = "daily" => CalculatePeriod(r, d) = d
           /\ r.frequency = "weekly" => CalculatePeriod(r, d) = Plus(d, DaysTo(r, d))
           /\ r.frequency = "monthly" => CalculatePeriod(r, d) = InMonth(r, d.month)
           /\ r.frequency = "yearly" =>
                 CalculatePeriod(r, d) = InMonth(r, (12 * YearOf(d.month)) + r.month - 1)
<1>1. /\ "daily" # "weekly" /\ "daily" # "monthly" /\ "daily" # "yearly"
      /\ "weekly" # "monthly" /\ "weekly" # "yearly" /\ "monthly" # "yearly"
  OBVIOUS
<1>2. QED
  BY <1>1, Zenon DEF CalculatePeriod

(* Where get_next_occurrence goes on to, frequency by frequency. *)
LEMMA Followings ==
    ASSUME NEW r, NEW d, NEW p
    PROVE  /\ r.frequency = "daily" => Following(r, d, p) = Plus(d, 1)
           /\ r.frequency = "weekly" => Following(r, d, p) = Plus(p, 7)
           /\ r.frequency = "monthly" =>
                 Following(r, d, p) = CalculatePeriod(r, AdvanceOneMonth(d))
           /\ r.frequency = "yearly" =>
                 Following(r, d, p) =
                    CalculatePeriod(r, [month |-> 12 * (YearOf(d.month) + 1), day |-> 1])
<1>1. /\ "daily" # "weekly" /\ "daily" # "monthly" /\ "daily" # "yearly"
      /\ "weekly" # "monthly" /\ "weekly" # "yearly" /\ "monthly" # "yearly"
  OBVIOUS
<1>2. QED
  BY <1>1, Zenon DEF Following

(* What a rule names, frequency by frequency. *)
LEMMA Naming ==
    ASSUME NEW r, NEW x
    PROVE  /\ r.frequency = "daily" => Names(r, x)
           /\ r.frequency = "weekly" =>
                 (Names(r, x) <=> \E i \in DOMAIN r.day_of_week : r.day_of_week[i] = Weekday(x))
           /\ r.frequency = "monthly" => (Names(r, x) <=> NamesInMonth(r, x))
           /\ r.frequency = "yearly" =>
                 (Names(r, x) <=> MonthOf(x.month) = r.month /\ NamesInMonth(r, x))
<1>1. /\ "daily" # "weekly" /\ "daily" # "monthly" /\ "daily" # "yearly"
      /\ "weekly" # "monthly" /\ "weekly" # "yearly" /\ "monthly" # "yearly"
  OBVIOUS
<1>2. QED
  BY <1>1, Zenon DEF Names

(* The period of a day that the rule names is that day. *)
LEMMA PeriodOfNamed ==
    ASSUME NEW r \in Rule, NEW x, IsDate(x), Names(r, x)
    PROVE  CalculatePeriod(r, x) = x
<1>1. r.frequency \in {"daily", "weekly", "monthly", "yearly"}
  BY DEF Rule
<1>2. CASE r.frequency = "daily"
  BY <1>2, Periods
<1>3. CASE r.frequency = "weekly"
  <2>1. \E i \in DOMAIN r.day_of_week : r.day_of_week[i] = Weekday(x)
    BY <1>3, Naming
  <2>2. Weekday(x) = (Weekday(x) + 0) % 7
    BY Weekdays, OrdinalOrder
  <2>3. DaysTo(r, x) = 0
    BY <1>3, <2>1, <2>2, DaysToFirst
  <2>4. QED
    BY <1>3, <2>3, Periods, PlusNothing
<1>4. CASE r.frequency = "monthly"
  BY <1>4, Periods, Naming, OneInMonth DEF IsDate, Date
<1>5. CASE r.frequency = "yearly"
  <2>1. x.month \in Nat /\ x.month = (12 * YearOf(x.month)) + r.month - 1
    BY <1>5, Naming, Calendar DEF IsDate, Date
  <2>2. QED
    BY <1>5, <2>1, Periods, Naming, OneInMonth
<1>6. QED
  BY <1>1, <1>2, <1>3, <1>4, <1>5

-------------------------------------------------------------------------------
(* get_next_occurrence. *)

(* At a time of day d, an occurrence on day x can still be done. *)
AheadOf(r, d, time, x) == Ordinal(x) > Ordinal(d) \/ (x = d /\ time < r.time)

(* A weekly rule: the answer is named and ahead, and with one day of the    *)
(* week none before it is.                                                  *)
LEMMA NextInWeeks ==
    ASSUME NEW r \in Rule, r.frequency = "weekly", NEW d, IsDate(d), NEW time
    PROVE  LET n == NextOccurrence(r, d, time)
           IN  /\ IsDate(n) /\ Names(r, n) /\ AheadOf(r, d, time, n)
               /\ Len(r.day_of_week) = 1 =>
                     \A x : IsDate(x) /\ Names(r, x) /\ AheadOf(r, d, time, x) =>
                               Ordinal(n) <= Ordinal(x)
<1> DEFINE k == DaysTo(r, d)
           p == Plus(d, k)
           n == NextOccurrence(r, d, time)
           w == Weekday(d)
           Named(v) == \E i \in DOMAIN r.day_of_week : r.day_of_week[i] = v
<1>1. k \in 0..6 /\ Named((w + k) % 7) /\ \A j \in 0..(k - 1) : ~Named((w + j) % 7)
  BY DaysToFirst
<1>2. w \in 0..6 /\ Ordinal(d) \in Int
  BY OrdinalOrder, Weekdays
<1>3. IsDate(p) /\ Ordinal(p) = Ordinal(d) + k
  <2> HIDE DEF k
  <2>1. k \in 0..28
    BY <1>1
  <2>2. QED
    BY <2>1, PlusDays
<1>4. n = IF Ordinal(p) > Ordinal(d) \/ (p = d /\ time < r.time) THEN p ELSE Plus(p, 7)
  BY Periods, Followings DEF NextOccurrence
<1>5. \A x : Names(r, x) <=> Named(Weekday(x))
  BY Naming
<1>6. \A x, j : IsDate(x) /\ j \in Nat /\ Ordinal(x) = Ordinal(d) + j => Weekday(x) = (w + j) % 7
  BY Weekdays
<1> HIDE DEF k, n, w, Named
<1>7. Names(r, p)
  BY <1>1, <1>3, <1>5, <1>6
<1>8. \A x : IsDate(x) /\ Names(r, x) /\ Ordinal(x) >= Ordinal(d) => Ordinal(x) >= Ordinal(p)
  <2> SUFFICES ASSUME NEW x, IsDate(x), Names(r, x), Ordinal(x) >= Ordinal(d),
                      Ordinal(x) < Ordinal(p)
               PROVE  FALSE
    BY <1>3, OrdinalOrder
  <2> DEFINE j == Ordinal(x) - Ordinal(d)
  <2>1. j \in 0..(k - 1) /\ Ordinal(x) = Ordinal(d) + j
    BY <1>1, <1>2, <1>3, OrdinalOrder
  <2>2. Weekday(x) = (w + j) % 7
    BY <1>6, <2>1
  <2>3. QED
    BY <1>1, <1>5, <2>1, <2>2
<1>9. CASE Ordinal(p) > Ordinal(d) \/ (p = d /\ time < r.time)
  <2>1. n = p
    BY <1>4, <1>9
  <2>2. \A x : IsDate(x) /\ AheadOf(r, d, time, x) => Ordinal(x) >= Ordinal(d)
    BY <1>2, OrdinalOrder DEF AheadOf
  <2>3. QED
    BY <1>3, <1>7, <1>8, <1>9, <2>1, <2>2 DEF AheadOf, n
<1>10. CASE ~(Ordinal(p) > Ordinal(d) \/ (p = d /\ time < r.time))
  <2>1. k = 0
    BY <1>1, <1>2, <1>3, <1>10
  <2>2. p = d
    BY <1>2, <1>3, <2>1, OrdinalOrder
  <2>3. n = Plus(d, 7)
    BY <1>4, <1>10, <2>2
  <2>4. IsDate(n) /\ Ordinal(n) = Ordinal(d) + 7
    BY <2>3, PlusDays
  <2>5. Weekday(n) = w
    <3>1. Weekday(n) = (w + 7) % 7
      BY <1>6, <2>4
    <3>2. QED
      BY <1>2, <3>1
  <2>6. Named(w)
    BY <1>5, <1>7, <2>2 DEF w
  <2>7. ASSUME Len(r.day_of_week) = 1,
               NEW x, IsDate(x), Names(r, x), AheadOf(r, d, time, x)
        PROVE  Ordinal(n) <= Ordinal(x)
    <3> DEFINE j == Ordinal(x) - Ordinal(d)
    <3>1. Ordinal(x) > Ordinal(d)
      BY <1>10, <2>2, <2>7 DEF AheadOf
    <3>2. j \in Nat /\ j > 0 /\ Ordinal(x) = Ordinal(d) + j
      BY <1>2, <2>7, <3>1, OrdinalOrder
    <3>3. Weekday(x) = (w + j) % 7
      BY <1>6, <2>7, <3>2
    <3>4. Weekday(x) = w
      <4>1. r.day_of_week \in Seq(0..6)
        BY DEF Rule
      <4>2. DOMAIN r.day_of_week = {1}
        BY <2>7, <4>1
      <4>3. QED
        BY <1>5, <2>6, <2>7, <4>2 DEF Named
    <3> HIDE DEF j
    <3>5. j >= 7
      BY <1>2, <3>2, <3>3, <3>4
    <3>6. QED
      BY <1>2, <2>4, <3>2, <3>5
  <2>8. QED
    BY <1>2, <1>5, <2>4, <2>5, <2>6, <2>7 DEF AheadOf, n
<1>11. QED
  BY <1>9, <1>10

(* Two months, the second one later than that of d: the answer is the day   *)
(* named in one of them.                                                    *)
LEMMA NextInMonths ==
    ASSUME NEW r \in Rule, r.frequency \in {"monthly", "yearly"},
           NEW d, IsDate(d), NEW time, NEW a \in Nat, NEW b \in Nat, a < b, d.month < b,
           NEW n, n = IF Ordinal(InMonth(r, a)) > Ordinal(d)
                           \/ (InMonth(r, a) = d /\ time < r.time)
                      THEN InMonth(r, a) ELSE InMonth(r, b)
    PROVE  /\ IsDate(n) /\ n.month \in {a, b} /\ NamesInMonth(r, n) /\ AheadOf(r, d, time, n)
           /\ \A x : IsDate(x) /\ NamesInMonth(r, x) /\ AheadOf(r, d, time, x)
                        /\ (x.month = a \/ x.month >= b) =>
                     Ordinal(n) <= Ordinal(x)
<1> DEFINE p == InMonth(r, a)
           q == InMonth(r, b)
<1>1. /\ IsDate(p) /\ p.month = a /\ NamesInMonth(r, p)
      /\ \A x : IsDate(x) /\ x.month = a /\ NamesInMonth(r, x) => x = p
  BY OneInMonth
<1>2. /\ IsDate(q) /\ q.month = b /\ NamesInMonth(r, q)
      /\ \A x : IsDate(x) /\ x.month = b /\ NamesInMonth(r, x) => x = q
  BY OneInMonth
<1>3. n = IF AheadOf(r, d, time, p) THEN p ELSE q
  BY DEF AheadOf
<1> HIDE DEF p, q
<1>4. d.month \in Nat
  BY DEF IsDate, Date
<1>5. Ordinal(q) > Ordinal(d) /\ Ordinal(q) > Ordinal(p)
  BY <1>1, <1>2, <1>4, OrdinalOrder
<1>6. IsDate(n) /\ n.month \in {a, b} /\ NamesInMonth(r, n) /\ AheadOf(r, d, time, n)
  BY <1>1, <1>2, <1>3, <1>5 DEF AheadOf
<1>7. ASSUME NEW x, IsDate(x), NamesInMonth(r, x), AheadOf(r, d, time, x),
             x.month = a \/ x.month >= b
      PROVE  Ordinal(n) <= Ordinal(x)
  <2>1. /\ Ordinal(x) \in Int /\ Ordinal(p) \in Int /\ Ordinal(q) \in Int
        /\ x.month \in Nat
    BY <1>1, <1>2, <1>7, OrdinalOrder DEF IsDate, Date
  <2>2. CASE x.month = a
    <3>1. x = p /\ n = p
      BY <1>1, <1>3, <1>7, <2>2
    <3>2. QED
      BY <2>1, <3>1
  <2>3. CASE x.month = b
    <3>1. x = q
      BY <1>2, <1>7, <2>3
    <3>2. QED
      BY <1>3, <1>5, <2>1, <3>1
  <2>4. CASE x.month > b
    <3>1. Ordinal(q) < Ordinal(x)
      BY <1>2, <1>7, <2>4, OrdinalOrder
    <3>2. QED
      BY <1>3, <1>5, <2>1, <3>1
  <2>5. QED
    BY <1>7, <2>1, <2>2, <2>3, <2>4
<1>8. QED
  BY <1>6, <1>7

(* get_next_occurrence answers a day that the rule names and whose time has *)
(* not come, and passes over none when a weekly rule has one day.           *)
LEMMA NextRight ==
    ASSUME NEW r \in Rule, NEW d, IsDate(d), NEW time
    PROVE  LET n == NextOccurrence(r, d, time)
           IN  /\ IsDate(n) /\ Names(r, n) /\ AheadOf(r, d, time, n)
               /\ (r.frequency = "weekly" => Len(r.day_of_week) = 1) =>
                     \A x : IsDate(x) /\ Names(r, x) /\ AheadOf(r, d, time, x) =>
                               Ordinal(n) <= Ordinal(x)
<1> DEFINE n == NextOccurrence(r, d, time)
           p == CalculatePeriod(r, d)
<1>1. r.frequency \in {"daily", "weekly", "monthly", "yearly"}
  BY DEF Rule
<1>2. n = IF Ordinal(p) > Ordinal(d) \/ (p = d /\ time < r.time) THEN p ELSE Following(r, d, p)
  BY DEF NextOccurrence
<1>3. d.month \in Nat /\ \A x : IsDate(x) => x.month \in Nat
  BY DEF IsDate, Date
<1> HIDE DEF p
<1>4. \A x : IsDate(x) /\ AheadOf(r, d, time, x) => x.month >= d.month
  BY <1>3, OrdinalOrder DEF AheadOf
<1>5. CASE r.frequency = "daily"
  <2>1. p = d /\ Following(r, d, p) = Plus(d, 1) /\ \A x : Names(r, x)
    <3>1. Following(r, d, p) = Plus(d, 1) /\ \A x : Names(r, x)
      BY <1>5, Followings, Naming
    <3>2. p = d
      BY <1>5, Periods DEF p
    <3>3. QED
      BY <3>1, <3>2
  <2>2. IsDate(Plus(d, 1)) /\ Ordinal(Plus(d, 1)) = Ordinal(d) + 1 /\ Ordinal(d) \in Int
    BY PlusDays, OrdinalOrder
  <2>3. n = IF time < r.time THEN d ELSE Plus(d, 1)
    BY <1>2, <2>1, <2>2
  <2>4. \A x : IsDate(x) /\ AheadOf(r, d, time, x) =>
           /\ Ordinal(x) \in Int
           /\ Ordinal(x) >= Ordinal(d) /\ (~(time < r.time) => Ordinal(x) > Ordinal(d))
    BY <2>2, OrdinalOrder DEF AheadOf
  <2> HIDE DEF n
  <2>5. QED
    BY <2>1, <2>2, <2>3, <2>4 DEF AheadOf, n
<1>6. CASE r.frequency = "weekly"
  BY <1>6, NextInWeeks
<1>7. CASE r.frequency = "monthly"
  <2> DEFINE a == d.month
             b == d.month + 1
  <2>1. p = InMonth(r, a)
    BY <1>7, Periods DEF p
  <2>2. Following(r, d, p) = InMonth(r, b)
    <3> DEFINE e == AdvanceOneMonth(d)
    <3>1. e.month = b
      BY DEF AdvanceOneMonth
    <3> HIDE DEF e, b
    <3>2. Following(r, d, p) = CalculatePeriod(r, e)
      BY <1>7, Followings DEF e
    <3>3. CalculatePeriod(r, e) = InMonth(r, e.month)
      BY <1>7, Periods
    <3>4. QED
      BY <3>1, <3>2, <3>3
  <2>3. a \in Nat /\ b \in Nat /\ a < b /\ d.month < b
    BY <1>3
  <2>4. n = IF Ordinal(InMonth(r, a)) > Ordinal(d) \/ (InMonth(r, a) = d /\ time < r.time)
            THEN InMonth(r, a) ELSE InMonth(r, b)
    BY <1>2, <2>1, <2>2
  <2>5. \A x : IsDate(x) /\ AheadOf(r, d, time, x) => x.month = a \/ x.month >= b
    BY <1>3, <1>4
  <2>6. \A x : Names(r, x) <=> NamesInMonth(r, x)
    BY <1>7, Naming
  <2> HIDE DEF a, b, n
  <2>7. /\ IsDate(n) /\ NamesInMonth(r, n) /\ AheadOf(r, d, time, n)
        /\ \A x : IsDate(x) /\ NamesInMonth(r, x) /\ AheadOf(r, d, time, x)
                     /\ (x.month = a \/ x.month >= b) =>
                  Ordinal(n) <= Ordinal(x)
    BY <1>7, <2>3, <2>4, NextInMonths
  <2>8. QED
    BY <2>5, <2>6, <2>7 DEF n
<1>8. CASE r.frequency = "yearly"
  <2> DEFINE y == YearOf(d.month)
             a == (12 * y) + r.month - 1
             b == (12 * (y + 1)) + r.month - 1
  <2>1. r.month \in 1..12
    BY <1>8 DEF Rule
  <2>2. y \in Nat /\ d.month \in (12 * y)..(12 * y + 11)
    <3>1. y \in Nat /\ MonthOf(d.month) \in 1..12 /\ d.month = (12 * y) + MonthOf(d.month) - 1
      BY <1>3, Calendar
    <3>2. QED
      BY <1>3, <3>1
  <2>3. p = InMonth(r, a)
    BY <1>8, Periods DEF p
  <2>4. Following(r, d, p) = InMonth(r, b)
    <3>1. YearOf(12 * (y + 1)) = y + 1
      BY <2>2 DEF YearOf
    <3> DEFINE e == [month |-> 12 * (y + 1), day |-> 1]
    <3>2. e.month = 12 * (y + 1)
      OBVIOUS
    <3>3. Following(r, d, p) = CalculatePeriod(r, e)
      BY <1>8, Followings
    <3> HIDE DEF e
    <3>4. CalculatePeriod(r, e) = InMonth(r, (12 * YearOf(e.month)) + r.month - 1)
      BY <1>8, Periods
    <3>5. QED
      BY <3>1, <3>2, <3>3, <3>4
  <2>5. a \in Nat /\ b \in Nat /\ a < b /\ d.month < b
    BY <1>3, <2>1, <2>2
  <2>6. n = IF Ordinal(InMonth(r, a)) > Ordinal(d) \/ (InMonth(r, a) = d /\ time < r.time)
            THEN InMonth(r, a) ELSE InMonth(r, b)
    BY <1>2, <2>3, <2>4
  <2>7. \A x : Names(r, x) <=> MonthOf(x.month) = r.month /\ NamesInMonth(r, x)
    BY <1>8, Naming
  <2>8. MonthOf(a) = r.month /\ MonthOf(b) = r.month
    BY <2>1, <2>2 DEF MonthOf
  <2>9. ASSUME NEW x, IsDate(x), AheadOf(r, d, time, x), MonthOf(x.month) = r.month
        PROVE  x.month = a \/ x.month >= b
    <3>1. /\ x.month \in Nat /\ x.month >= d.month
          /\ YearOf(x.month) \in Nat /\ x.month = (12 * YearOf(x.month)) + r.month - 1
      BY <1>3, <1>4, <2>9, Calendar
    <3> DEFINE z == YearOf(x.month)
    <3>2. z \in Nat /\ x.month = (12 * z) + r.month - 1 /\ x.month >= d.month
      BY <3>1
    <3> HIDE DEF z, y
    <3>3. z = y \/ z >= y + 1
      BY <2>1, <2>2, <3>2
    <3>4. QED
      BY <2>1, <2>2, <3>2, <3>3
  <2> HIDE DEF a, b, n
  <2>10. /\ IsDate(n) /\ n.month \in {a, b} /\ NamesInMonth(r, n) /\ AheadOf(r, d, time, n)
         /\ \A x : IsDate(x) /\ NamesInMonth(r, x) /\ AheadOf(r, d, time, x)
                      /\ (x.month = a \/ x.month >= b) =>
                   Ordinal(n) <= Ordinal(x)
    BY <1>8, <2>5, <2>6, NextInMonths
  <2>11. QED
    BY <2>7, <2>8, <2>9, <2>10 DEF n
<1>9. QED
  BY <1>1, <1>5, <1>6, <1>7, <1>8

-------------------------------------------------------------------------------
(* The chore: what the generated instance and the next occurrence have to   *)
(* do with each other as the clock goes on.                                 *)

(* Ahead and AheadOf say the same. *)
LEMMA AheadNow == \A x : Ahead(rule, x) <=> AheadOf(rule, today, now, x)
BY DEF Ahead, AheadOf

(* What get_next_occurrence answers now. *)
LEMMA UpcomingRight ==
    ASSUME rule \in Rules, IsDate(today)
    PROVE  /\ IsDate(Upcoming) /\ Names(rule, Upcoming) /\ Ahead(rule, Upcoming)
           /\ OneWeekday =>
                 \A x : IsDate(x) /\ Names(rule, x) /\ Ahead(rule, x) =>
                           Ordinal(Upcoming) <= Ordinal(x)
<1>1. rule \in Rule
  BY RulesAssumption
<1>2. QED
  BY <1>1, NextRight, AheadNow DEF Upcoming, OneWeekday

(* And after the step. *)
LEMMA UpcomingRightNext ==
    ASSUME rule' \in Rules, IsDate(today')
    PROVE  /\ IsDate(Upcoming') /\ Names(rule', Upcoming')
           /\ AheadOf(rule', today', now', Upcoming')
<1>1. rule' \in Rule
  BY RulesAssumption
<1>2. QED
  BY <1>1, NextRight DEF Upcoming

(* The chore is set up: the first instance is for a day that the rule names. *)
LEMMA InitClock == Init => Clock
<1> SUFFICES ASSUME Init PROVE Clock
  OBVIOUS
<1>1. rule \in Rules /\ IsDate(today) /\ now \in 0..2 /\ due = Upcoming
  BY ClockAssumption DEF Init, Upcoming
<1>2. QED
  BY <1>1, UpcomingRight DEF Clock

(* Every instance is for a day that the rule names, on whatever day it is
   generated. *)
LEMMA NextClock == Clock /\ [Next]_vars => Clock'
<1> SUFFICES ASSUME Clock, [Next]_vars PROVE Clock'
  OBVIOUS
<1>1. CASE Generate
  <2>1. due' = Upcoming /\ UNCHANGED <<rule, today, now>>
    BY <1>1 DEF Generate, Upcoming
  <2>2. QED
    BY <2>1, UpcomingRight DEF Clock
<1>2. CASE Tick
  <2>1. rule' = rule /\ due' = due
    BY <1>2 DEF Tick
  <2>2. now' \in 0..2 /\ (today' = today \/ today' = Plus(today, 1))
    BY <1>2 DEF Tick, Clock
  <2>3. IsDate(Plus(today, 1))
    BY PlusDays DEF Clock
  <2>4. QED
    BY <2>1, <2>2, <2>3 DEF Clock
<1>3. CASE UNCHANGED vars
  BY <1>3 DEF vars, Clock
<1>4. QED
  BY <1>1, <1>2, <1>3 DEF Next

(* The clock only goes forward: what can be done after a tick could before. *)
LEMMA TickForward ==
    ASSUME Clock, Tick, NEW x, IsDate(x), AheadOf(rule', today', now', x)
    PROVE  Ahead(rule, x)
<1>1. Ordinal(x) \in Int /\ Ordinal(today) \in Int
  BY OrdinalOrder DEF Clock
<1>2. CASE now < 2 /\ now' = now + 1 /\ today' = today
  BY <1>1, <1>2, RulesAssumption DEF Tick, Ahead, AheadOf, Clock, Rule
<1>3. CASE today' = Plus(today, 1)
  <2>1. Ordinal(Plus(today, 1)) = Ordinal(today) + 1
    BY PlusDays DEF Clock
  <2>2. QED
    BY <1>1, <1>3, <2>1 DEF Ahead, AheadOf, Tick
<1>4. QED
  BY <1>2, <1>3 DEF Tick

(* The first instance is the next occurrence. *)
LEMMA InitRecurrence == Init => RecurrenceInv
<1> SUFFICES ASSUME Init PROVE RecurrenceInv
  OBVIOUS
<1>1. Clock /\ due = Upcoming
  BY InitClock DEF Init, Upcoming
<1>2. QED
  BY <1>1, OrdinalOrder DEF RecurrenceInv, Clock

(* As the clock goes on the next occurrence only moves to later days, and a new
   instance is never for an earlier day than the one before. *)
LEMMA NextRecurrence ==
    ASSUME OneWeekday
    PROVE  RecurrenceInv /\ [Next]_vars => RecurrenceInv' /\ Ordinal(due') >= Ordinal(due)
<1> SUFFICES ASSUME RecurrenceInv, [Next]_vars
             PROVE  RecurrenceInv' /\ Ordinal(due') >= Ordinal(due)
  OBVIOUS
<1>1. Clock /\ Clock' /\ Ordinal(due) <= Ordinal(Upcoming)
  BY NextClock DEF RecurrenceInv
<1>2. /\ IsDate(Upcoming) /\ IsDate(Upcoming')
      /\ Ordinal(due) \in Int /\ Ordinal(Upcoming) \in Int
      /\ Ordinal(due') \in Int /\ Ordinal(Upcoming') \in Int
  <2>1. IsDate(Upcoming) /\ IsDate(due)
    BY <1>1, UpcomingRight DEF Clock
  <2>2. IsDate(Upcoming') /\ IsDate(due')
    BY <1>1, UpcomingRightNext DEF Clock
  <2>3. QED
    BY <2>1, <2>2, OrdinalOrder
<1>3. CASE Generate
  <2>1. due' = Upcoming /\ Upcoming' = Upcoming
    BY <1>3 DEF Generate, Upcoming
  <2>2. QED
    BY <1>1, <1>2, <2>1 DEF RecurrenceInv
<1>4. CASE Tick
  <2>1. due' = due /\ rule' = rule
    BY <1>4 DEF Tick
  <2>2. IsDate(Upcoming') /\ Names(rule, Upcoming') /\ AheadOf(rule', today', now', Upcoming')
    BY <1>1, <2>1, UpcomingRightNext DEF Clock
  <2>3. Ahead(rule, Upcoming')
    BY <1>1, <1>4, <2>2, TickForward
  <2>4. Ordinal(Upcoming) <= Ordinal(Upcoming')
    BY <1>1, <2>2, <2>3, UpcomingRight DEF Clock
  <2>5. QED
    BY <1>1, <1>2, <2>1, <2>4 DEF RecurrenceInv
<1>5. CASE UNCHANGED vars
  BY <1>1, <1>2, <1>5 DEF vars, Upcoming, RecurrenceInv
<1>6. QED
  BY <1>3, <1>4, <1>5 DEF Next

-------------------------------------------------------------------------------
(* The theorems. *)

(* get_next_occurrence always answers a day on which the rule falls and     *)
(* whose time has not come, for every rule the validator lets through and   *)
(* on every day of the calendar.                                            *)
UpcomingNamed == IsDate(Upcoming) /\ Names(rule, Upcoming) /\ Ahead(rule, Upcoming)

(* UpcomingNamed, whatever the rules. *)
THEOREM NextNamed == Spec => []UpcomingNamed
<1>1. Clock => UpcomingNamed
  BY UpcomingRight DEF Clock, UpcomingNamed
<1>2. QED
  BY <1>1, InitClock, NextClock, PTL DEF Spec

(* calculate_period, asked for the date of the next occurrence, answers     *)
(* that date: PeriodIsOccurrence, for every rule.                           *)
THEOREM PeriodRight == Spec => []PeriodIsOccurrence
<1>1. Clock => PeriodIsOccurrence
  <2> SUFFICES ASSUME Clock PROVE PeriodIsOccurrence
    OBVIOUS
  <2>1. rule \in Rule
    BY RulesAssumption DEF Clock
  <2>2. IsDate(Upcoming) /\ Names(rule, Upcoming)
    BY UpcomingRight DEF Clock
  <2>3. QED
    BY <2>1, <2>2, PeriodOfNamed DEF PeriodIsOccurrence, Upcoming
<1>2. QED
  BY <1>1, InitClock, NextClock, PTL DEF Spec

(* No day that the rule names is passed over: NextIsFirst, unless a weekly  *)
(* rule has several days.                                                   *)
THEOREM NothingSkipped ==
    ASSUME OneWeekday
    PROVE  Spec => []NextIsFirst
<1>1. Clock => NextIsFirst
  <2> SUFFICES ASSUME Clock PROVE NextIsFirst
    OBVIOUS
  <2>1. /\ IsDate(Upcoming) /\ Names(rule, Upcoming) /\ Ahead(rule, Upcoming)
        /\ \A x : IsDate(x) /\ Names(rule, x) /\ Ahead(rule, x) =>
                     Ordinal(Upcoming) <= Ordinal(x)
    BY UpcomingRight DEF Clock
  <2>2. ASSUME NEW d \in Between(today, Upcoming)
        PROVE  ~Names(rule, d)
    <3>1. IsDate(d) /\ Ordinal(today) < Ordinal(d) /\ Ordinal(d) < Ordinal(Upcoming)
      BY DEF Between
    <3>2. Ordinal(d) \in Int /\ Ordinal(Upcoming) \in Int /\ Ordinal(today) \in Int
      BY <2>1, <3>1, OrdinalOrder DEF Clock
    <3>3. Ahead(rule, d)
      BY <3>1, <3>2 DEF Ahead
    <3>4. QED
      BY <2>1, <3>1, <3>2, <3>3
  <2>3. ASSUME Ahead(rule, today), Names(rule, today)
        PROVE  Upcoming = today
    <3>1. Ordinal(Upcoming) <= Ordinal(today)
      BY <2>1, <2>3 DEF Clock
    <3>2. Ordinal(Upcoming) \in Int /\ Ordinal(today) \in Int
      BY <2>1, OrdinalOrder DEF Clock
    <3>3. QED
      BY <2>1, <3>1, <3>2 DEF Ahead
  <2>4. QED
    BY <2>1, <2>2, <2>3 DEF NextIsFirst, Upcoming
<1>2. QED
  BY <1>1, InitClock, NextClock, PTL DEF Spec

(* The inductive invariant: no instance is generated for a day later than   *)
(* the next occurrence.                                                     *)
THEOREM Recurring ==
    ASSUME OneWeekday
    PROVE  Spec => []RecurrenceInv
BY InitRecurrence, NextRecurrence, PTL DEF Spec

(* An instance that can still be done is the one every sync asks for:       *)
(* OccurrenceKept.                                                          *)
THEOREM OccurrenceStays ==
    ASSUME OneWeekday
    PROVE  Spec => []OccurrenceKept
<1>1. RecurrenceInv => OccurrenceKept
  <2> SUFFICES ASSUME RecurrenceInv, Ahead(rule, due) PROVE Upcoming = due
    BY DEF OccurrenceKept, Upcoming
  <2>1. Clock /\ Ordinal(due) <= Ordinal(Upcoming)
    BY DEF RecurrenceInv
  <2>2. IsDate(Upcoming) /\ Ordinal(Upcoming) <= Ordinal(due)
    BY <2>1, UpcomingRight DEF Clock
  <2>3. QED
    BY <2>1, <2>2, OrdinalOrder DEF Clock
<1>2. QED
  BY <1>1, Recurring, PTL

(* Instances are generated in the order of their dates: GeneratedInOrder.   *)
THEOREM InOrderOfDates ==
    ASSUME OneWeekday
    PROVE  Spec => GeneratedInOrder
<1>1. RecurrenceInv /\ [Next]_vars => [Ordinal(due') >= Ordinal(due)]_vars
  BY NextRecurrence
<1>2. QED
  BY <1>1, Recurring, PTL DEF Spec, GeneratedInOrder

(* What the model of the chores service takes a rule to be (Template in     *)
(* ChoreRules, with TemplateAssumption and InOrder): its days, and the day  *)
(* it goes on to from each, which is later, is one of its own and, unless   *)
(* a weekly rule has several days, skips none.                              *)
THEOREM RulesAreTemplates ==
    ASSUME NEW r \in Rule, NEW time \in 0..2, NEW d, IsDate(d)
    PROVE  LET After(x) == NextOccurrence(r, x, 2)
           IN  /\ NextOccurrence(r, d, time) =
                     IF Names(r, d) /\ time < r.time THEN d ELSE After(d)
               /\ IsDate(After(d)) /\ Names(r, After(d)) /\ Ordinal(After(d)) > Ordinal(d)
               /\ (r.frequency = "weekly" => Len(r.day_of_week) = 1) =>
                     \A e : IsDate(e) /\ Ordinal(d) < Ordinal(e) =>
                        /\ Ordinal(After(d)) <= Ordinal(After(e))
                        /\ Names(r, e) => Ordinal(After(d)) <= Ordinal(e)
<1> DEFINE After(x) == NextOccurrence(r, x, 2)
           Single == r.frequency = "weekly" => Len(r.day_of_week) = 1
<1>1. r.time \in 0..1
  BY DEF Rule
<1>2. ASSUME NEW x, IsDate(x)
      PROVE  /\ IsDate(After(x)) /\ Names(r, After(x)) /\ Ordinal(After(x)) > Ordinal(x)
             /\ Single => \A e : IsDate(e) /\ Names(r, e) /\ Ordinal(x) < Ordinal(e) =>
                                    Ordinal(After(x)) <= Ordinal(e)
  <2>1. /\ IsDate(After(x)) /\ Names(r, After(x)) /\ AheadOf(r, x, 2, After(x))
        /\ Single => \A e : IsDate(e) /\ Names(r, e) /\ AheadOf(r, x, 2, e) =>
                               Ordinal(After(x)) <= Ordinal(e)
    BY <1>2, NextRight
  <2>2. \A e : AheadOf(r, x, 2, e) <=> Ordinal(e) > Ordinal(x)
    BY <1>1 DEF AheadOf
  <2> HIDE DEF After, Single
  <2>3. \A e : IsDate(e) => (AheadOf(r, x, 2, e) <=> Ordinal(x) < Ordinal(e))
    BY <1>2, <2>2, OrdinalOrder
  <2>4. QED
    BY <2>1, <2>2, <2>3
<1>3. NextOccurrence(r, d, time) = IF Names(r, d) /\ time < r.time THEN d ELSE After(d)
  <2> DEFINE p == CalculatePeriod(r, d)
  <2>1. Names(r, d) => p = d
    BY PeriodOfNamed
  <2>2. CASE p = d /\ time < r.time
    <3>1. NextOccurrence(r, d, time) = d
      BY <2>2 DEF NextOccurrence
    <3>2. Names(r, d)
      BY <3>1, NextRight
    <3>3. QED
      BY <2>2, <3>1, <3>2
  <2>3. CASE ~(p = d /\ time < r.time)
    <3>1. NextOccurrence(r, d, time) = IF Ordinal(p) > Ordinal(d) THEN p ELSE Following(r, d, p)
      BY <2>3 DEF NextOccurrence
    <3>2. After(d) = IF Ordinal(p) > Ordinal(d) THEN p ELSE Following(r, d, p)
      BY <1>1 DEF NextOccurrence
    <3>3. QED
      BY <2>1, <2>3, <3>1, <3>2
  <2>4. QED
    BY <2>2, <2>3
<1> HIDE DEF After, Single
<1>4. ASSUME Single, NEW e, IsDate(e), Ordinal(d) < Ordinal(e)
      PROVE  /\ Ordinal(After(d)) <= Ordinal(After(e))
             /\ Names(r, e) => Ordinal(After(d)) <= Ordinal(e)
  <2>1. /\ IsDate(After(e)) /\ Names(r, After(e)) /\ Ordinal(After(e)) > Ordinal(e)
    BY <1>2, <1>4
  <2>2. Ordinal(d) \in Int /\ Ordinal(e) \in Int /\ Ordinal(After(e)) \in Int
    BY <1>4, <2>1, OrdinalOrder
  <2>3. Ordinal(d) < Ordinal(After(e))
    BY <1>4, <2>1, <2>2
  <2>4. QED
    BY <1>2, <1>4, <2>1, <2>3
<1>5. QED
  BY <1>2, <1>3, <1>4 DEF After, Single

===============================================================================
