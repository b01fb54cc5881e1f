----------------------------- MODULE ForecastPages -----------------------------
(***************************************************************************)
(* get_weather of app/infrastructure/weather/owm_adapter.py: the current   *)
(* conditions first, then the daily and the hourly timeline at the same    *)
(* time, each page by page, then the answer put together from them.        *)
(*                                                                         *)
(* A record is known by its place in time: a day of the daily timeline by  *)
(* its number, an hour of the hourly one by the hours since day 0.  What a *)
(* record says is left out, save for the reading of the current one; that  *)
(* and the amounts of a day are what conditions compare.                   *)
(***************************************************************************)
EXTENDS SequencesExt, Integers

CONSTANTS
    ForecastDays,  \* days of an answer
    HoursPerDay,   \* hourly records of a day
    PageSize,      \* bound: records of a page
    MaxExtra,      \* bound: records of a timeline that come early or twice
    MaxDay,        \* bound: days
    Readings,      \* what the current conditions may be
    None

VARIABLES
    today,         \* the date where the family lives
    outside,       \* the current conditions
    call           \* the local variables of get_weather

forecast == <<today, outside, call>>

Days == 0..MaxDay

Timelines == {"daily", "hourly"}

ASSUME ForecastAssumption ==
    /\ ForecastDays \in Nat \ {0, 1} /\ HoursPerDay \in Nat \ {0}
    /\ PageSize \in Nat \ {0} /\ MaxExtra \in Nat /\ MaxDay \in Nat
    /\ None \notin Readings \cup Seq(Int)

(* Mutant (StartsToday): exactly the days of the answer are fetched.       *)
MaxRecordsMutant(t) == IF t = "daily" THEN ForecastDays ELSE 2 * HoursPerDay

(* Mutant (TodayHasHours): the hours of one day are fetched. *)
MaxRecordsHourlyMutant(t) == IF t = "daily" THEN ForecastDays + 1 ELSE HoursPerDay

(* _MAX_DAILY_RECORDS and _MAX_HOURLY_RECORDS. *)
MaxRecords(t) == IF t = "daily" THEN ForecastDays + 1 ELSE 2 * HoursPerDay

(* The record of timeline t that begins at midnight of day d. *)
FirstOf(t, d) == IF t = "daily" THEN d ELSE d * HoursPerDay

(* _ts_to_date of a record of timeline t. *)
DayOf(t, x) == IF t = "daily" THEN x ELSE x \div HoursPerDay

-------------------------------------------------------------------------------
(* start: the day whose midnight the timelines were asked from; paging:    *)
(* the timelines still being fetched; got: their records, None once one    *)
(* has failed; shown: the daily entries of the answer, built: its date.    *)
(* ended and extra are history: the timelines that ran out early, and the  *)
(* records that came early or twice.                                       *)
NoCall ==
    [at |-> "idle", reading |-> None, start |-> 0, paging |-> {},
     got |-> [t \in Timelines |-> <<>>], shown |-> <<>>, built |-> 0,
     ended |-> {}, extra |-> [t \in Timelines |-> 0]]

InCall(label) == call.at = label

(* get_weather is called: _fetch_current. *)
GetWeather == InCall("idle") /\ call' = [NoCall EXCEPT !.at = "current"]

(* The current conditions arrive.  The timelines are asked for from the    *)
(* midnight before this moment, in asyncio.gather.                         *)
ReceiveCurrent ==
    /\ InCall("current")
    /\ call' = [call EXCEPT !.at = "timelines", !.reading = outside,
                            !.start = today, !.paging = Timelines]
    /\ UNCHANGED <<today, outside>>

(* Where the next record of timeline t would be. *)
Following(t) ==
    IF call.got[t] = <<>> THEN FirstOf(t, call.start) ELSE Last(call.got[t]) + 1

(* The records of a page of n, of which the first came early (when it is   *)
(* the first page) or was the last one of the page before.                 *)
PageFrom(t, n, early) == [k \in 1..n |-> Following(t) + k - 1 - early]

(* One page of _fetch_daily or _fetch_hourly, with or without a "next":    *)
(* the loop goes on while there is one and records are missing, and trims  *)
(* what it has in the end.  A page with a "next" is taken to have records: *)
(* of empty ones the code would follow any number.                         *)
ReceivePage(t) ==
    /\ t \in call.paging
    /\ \E n \in 0..PageSize, early \in {0, 1}, next \in BOOLEAN :
          /\ n = 0 => early = 0 /\ ~next
          /\ call.extra[t] + early <= MaxExtra
          /\ LET all == call.got[t] \o PageFrom(t, n, early)
                 full == Len(all) >= MaxRecords(t)
             IN  call' = [call EXCEPT
                   !.got[t] = IF full THEN SubSeq(all, 1, MaxRecords(t)) ELSE all,
                   !.paging = IF next /\ ~full THEN @ ELSE @ \ {t},
                   !.ended = IF next \/ full THEN @ ELSE @ \cup {t},
                   !.extra[t] = @ + early]
    /\ UNCHANGED <<today, outside>>

(* httpx.HTTPError: the pages already there are dropped. *)
LosePage(t) ==
    /\ t \in call.paging
    /\ call' = [call EXCEPT !.got[t] = None, !.paging = @ \ {t}]
    /\ UNCHANGED <<today, outside>>

(* Mutant (EvaluatorTypeOK): the answer is not cut. *)
CutMutant(days) == days

Cut(days) == SubSeq(days, 1, IF Len(days) < ForecastDays THEN Len(days) ELSE ForecastDays)

(* The entries of s at the positions in places, in their order. *)
Subsequence(s, places) ==
    LET Place(n) == CHOOSE k \in places : Cardinality(places \cap 1..k) = n
    IN  [n \in 1..Cardinality(places) |-> s[Place(n)]]

(* The days listed by _build_response: neither past nor twice. *)
Listed(records) ==
    Subsequence(records, {k \in DOMAIN records :
                             /\ records[k] >= today
                             /\ \A j \in 1..(k - 1) : records[j] # records[k]})

(* _parse_hourly_from_data. *)
HoursOf(d) ==
    LET hours == call.got["hourly"]
    IN  IF hours = None THEN <<>>
        ELSE Subsequence(hours, {k \in DOMAIN hours : DayOf("hourly", hours[k]) = d})

Fetched == InCall("timelines") /\ call.paging = {}

AllLost == \A t \in Timelines : call.got[t] = None

(* Without daily records the answer has no forecast. *)
BuildResponse ==
    /\ Fetched
    /\ ~AllLost
    /\ LET days == IF call.got["daily"] = None THEN <<>> ELSE Cut(Listed(call.got["daily"]))
       IN  call' = [call EXCEPT !.at = "answered", !.built = today,
                      !.shown = [k \in DOMAIN days |->
                                    [day |-> days[k], hours |-> HoursOf(days[k])]]]
    /\ UNCHANGED <<today, outside>>

(* get_weather raises: no current conditions, neither timeline, or         *)
(* something that is no httpx.HTTPError, in a page or in the records.      *)
RaiseWeather ==
    /\ call.at \in {"current", "timelines"}
    /\ call' = [NoCall EXCEPT !.at = "raised"]
    /\ UNCHANGED <<today, outside>>

WeatherStep ==
    \/ ReceiveCurrent \/ BuildResponse \/ RaiseWeather
    \/ \E t \in Timelines : ReceivePage(t) \/ LosePage(t)

-------------------------------------------------------------------------------
(* Midnight.  Every request has a timeout of ten seconds and a call makes  *)
(* no more than MaxRecords of each timeline: a second midnight cannot pass *)
(* before the answer is used.                                              *)
Midnight ==
    /\ today < MaxDay
    /\ call.at \in {"timelines", "answered"} => today = call.start
    /\ today' = today + 1
    /\ UNCHANGED <<outside, call>>

(* The weather changes. *)
ChangeWeather ==
    /\ \E r \in Readings \ {outside} : outside' = r
    /\ UNCHANGED <<today, call>>

ForecastInit ==
    /\ today = 0
    /\ outside \in Readings
    /\ call = NoCall

-------------------------------------------------------------------------------
(* Properties. *)

(* The call holds what its label says, and the answer no more than         *)
(* ForecastDays days.                                                      *)
ForecastTypeOK ==
    /\ today \in Days
    /\ outside \in Readings
    /\ call.at \in {"idle", "current", "timelines", "answered", "raised"}
    /\ call.reading \in Readings \cup {None}
    /\ {call.start, call.built} \subseteq Days
    /\ call.paging \subseteq Timelines /\ call.ended \subseteq Timelines
    /\ \A t \in Timelines :
          /\ call.got[t] # None => call.got[t] \in Seq(Int) /\ Len(call.got[t]) <= MaxRecords(t)
          /\ call.extra[t] \in 0..MaxExtra
    /\ call.shown \in Seq([day : Nat, hours : Seq(Int)])
    /\ Len(call.shown) <= ForecastDays

(* The days shown follow each other from the date of the answer, and there *)
(* are ForecastDays of them whenever the daily timeline was fetched to the *)
(* end and at most one record was of no use, be it because midnight passed *)
(* since the timelines were asked for.                                     *)
StartsToday ==
    InCall("answered") =>
    /\ \A k \in DOMAIN call.shown :
          call.shown[k].day >= call.built + k - 1
    /\ \A j, k \in DOMAIN call.shown : j < k => call.shown[j].day < call.shown[k].day
    /\ (call.got["daily"] # None /\ "daily" \notin call.ended
          /\ call.extra["daily"] + (call.built - call.start) <= 1) =>
       [k \in DOMAIN call.shown |-> call.shown[k].day]
          = [k \in 1..ForecastDays |-> call.built + k - 1]

(* When both timelines were fetched to the end and no hour came twice, the *)
(* day the answer was made has all its hours, on either side of midnight.  *)
TodayHasHours ==
    (InCall("answered") /\ call.shown # <<>> /\ call.shown[1].day = call.built
        /\ call.got["hourly"] # None /\ "hourly" \notin call.ended
        /\ call.extra["hourly"] = 0) =>
    call.shown[1].hours = [k \in 1..HoursPerDay |-> FirstOf("hourly", call.built) + k - 1]

-------------------------------------------------------------------------------
(* The inductive invariant behind them. *)

Call ==
    [at: {"idle", "current", "timelines", "answered", "raised"}, reading: Readings \cup {None},
     start: Days, paging: SUBSET Timelines, got: [Timelines -> Seq(Int) \cup {None}],
     shown: Seq([day: Nat, hours: Seq(Int)]), built: Days,
     ended: SUBSET Timelines, extra: [Timelines -> 0..MaxExtra]]

(* The records of a timeline asked for from record first on: none is left  *)
(* out, and as many came early or twice as extra says.                     *)
InSteps(s, first, extra) ==
    /\ s = <<>> => extra = 0
    /\ s # <<>> => /\ s[1] \in {first - 1, first}
                   /\ s[Len(s)] = first + Len(s) - 1 - extra
    /\ \A j, k \in 1..Len(s) : j <= k => s[j] <= s[k] /\ s[k] <= s[j] + (k - j)

(* A timeline being fetched is short of its records, one that is done has  *)
(* them all unless it has ended early.                                     *)
PagesOK(t) ==
    /\ t \in call.paging => call.got[t] # None /\ Len(call.got[t]) < MaxRecords(t)
    /\ call.got[t] # None => /\ Len(call.got[t]) <= MaxRecords(t)
                             /\ InSteps(call.got[t], FirstOf(t, call.start), call.extra[t])
    /\ call.at \in {"timelines", "answered"} /\ t \notin call.paging /\ t \notin call.ended
          /\ call.got[t] # None => Len(call.got[t]) = MaxRecords(t)

(* At most one midnight passes between the request for the timelines and   *)
(* the use of the answer.                                                  *)
DatesOK ==
    /\ call.at \in {"timelines", "answered"} =>
          /\ call.start <= today /\ today <= call.start + 1
          /\ call.reading \in Readings
    /\ call.at = "answered" => call.start <= call.built /\ call.built <= today

ForecastInv ==
    /\ today \in Days /\ outside \in Readings /\ call \in Call
    /\ call.at # "timelines" => call.paging = {}
    /\ Len(call.shown) <= ForecastDays
    /\ call.at \in {"timelines", "answered"} => \A t \in Timelines : PagesOK(t)
    /\ call.at \notin {"timelines", "answered"} => call = [NoCall EXCEPT !.at = call.at]
    /\ DatesOK /\ StartsToday /\ TodayHasHours

===============================================================================
