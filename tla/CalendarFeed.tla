----------------------------- MODULE CalendarFeed -----------------------------
(***************************************************************************)
(* The calendar of the family: get_calendar of app/api/routes/calendar.py  *)
(* above the cache, and deduplicate_events.                                *)
(*                                                                         *)
(* The cache is taken by what SwrCache shows of it: an entry is served for *)
(* StaleTtl at most, and a fetch may start whenever a request comes in (a  *)
(* fresh entry may have expired, a read of Redis may have failed).  Of the *)
(* events only the identifiers and the members they belong to are kept; a  *)
(* cancelled event counts as none, as parse_event has it.                  *)
(***************************************************************************)
EXTENDS Integers

CONSTANTS
    Members,       \* keys of family members
    Events,        \* events of the members' calendars, shared or not
    EventDay,      \* [Events -> 0..MaxDay]
    Floating,      \* queries without a start or without an end
    Explicit,      \* queries that name a week, by its number
    Fetches,       \* fetches that may be under way together
    WeekLength,    \* days in a week
    StaleTtl,      \* CALENDAR_STALE_TTL, in days
    Latency,       \* midnights that may pass during a fetch
    MaxDay,        \* bound: days
    MaxChanges,    \* bound: changes to the registry and the calendars
    None

Queries == Floating \cup Explicit

Days  == 0..MaxDay
Week(d) == d \div WeekLength
Weeks == {Week(d) : d \in Days} \cup Explicit

ASSUME FeedAssumption ==
    /\ Explicit \subseteq Nat /\ Floating \cap Explicit = {}
    /\ WeekLength \in Nat \ {0}
    /\ StaleTtl \in Nat /\ Latency \in Nat /\ MaxDay \in Nat /\ MaxChanges \in Nat
    /\ EventDay \in [Events -> Days]

VARIABLES
    family,        \* who is registered
    calendar,      \* the events in each member's calendar
    today,
    store,         \* the stale entry of each query
    fetch,         \* the local variables of each fetch
    steady,        \* history: what a fetch could see from its start on
    changes

feed == <<family, calendar, today, store, fetch, steady, changes>>

Answer == [week: Weeks, owners: [Events -> SUBSET Members]]
Entry  == [answer: Answer, left: 0..StaleTtl]

(* all: the members listed; todo, ok: those still to be fetched, and those *)
(* that were; got: all_events.                                             *)
Fetch ==
    [at: {"idle", "list", "loop"}, query: Queries \cup {None}, week: Weeks \cup {None},
     begun: Days, all: SUBSET Members, todo: SUBSET Members, ok: SUBSET Members,
     got: SUBSET (Members \X Events)]

Idle == [at |-> "idle", query |-> None, week |-> None, begun |-> 0,
         all |-> {}, todo |-> {}, ok |-> {}, got |-> {}]

Goto(f, x) == fetch' = [fetch EXCEPT ![f] = x]

Over(f) == Goto(f, Idle) /\ steady' = [steady EXCEPT ![f] = {}]

-------------------------------------------------------------------------------
(* Mutant (ShowsItsWeek): the week begins a day late. *)
WeekAskedMutant(q) == IF q \in Explicit THEN q ELSE IF today = 0 THEN 0 ELSE Week(today - 1)

(* The dates of the query, or get_default_week_dates. *)
WeekAsked(q) == IF q \in Explicit THEN q ELSE Week(today)

(* A request finds nothing, or something to refresh: cache.fetch calls     *)
(* fetch_calendar_events with the dates of this moment.                    *)
GetCalendar(f, q) ==
    /\ fetch[f].at = "idle"
    /\ Goto(f, [Idle EXCEPT !.at = "list", !.query = q, !.week = WeekAsked(q),
                            !.begun = today])
    /\ steady' = [steady EXCEPT ![f] = {p \in Members \X Events : p[2] \in calendar[p[1]]}]
    /\ UNCHANGED <<family, calendar, today, store, changes>>

ListMembers(f) ==
    /\ fetch[f].at = "list"
    /\ Goto(f, [fetch[f] EXCEPT !.at = "loop", !.all = family, !.todo = family])
    /\ UNCHANGED <<family, calendar, today, store, steady, changes>>

(* What the provider returns for the range of dates, parsed. *)
Parsed(m, w) == {<<m, e>> : e \in {x \in calendar[m] : Week(EventDay[x]) = w}}

(* One turn of the loop.  A turn that fails may have kept some events.     *)
FetchMember(f, m) ==
    /\ m \in fetch[f].todo
    /\ \/ Goto(f, [fetch[f] EXCEPT !.todo = @ \ {m}, !.ok = @ \cup {m},
                                   !.got = @ \cup Parsed(m, fetch[f].week)])
       \/ \E some \in SUBSET Parsed(m, fetch[f].week) :
             Goto(f, [fetch[f] EXCEPT !.todo = @ \ {m}, !.got = @ \cup some])
    /\ UNCHANGED <<family, calendar, today, store, steady, changes>>

Fetched(f) == fetch[f].at = "loop" /\ fetch[f].todo = {}

(* Mutant (AnswersKept): whatever was fetched is an answer. *)
AllFailedMutant(f) == FALSE

AllFailed(f) == fetch[f].all # {} /\ fetch[f].ok = {}

(* UpstreamServiceError: the request is refused, or the refresh gives up. *)
Raise(f) ==
    /\ Fetched(f) /\ AllFailed(f)
    /\ Over(f)
    /\ UNCHANGED <<family, calendar, today, store, changes>>

(* Mutant (NothingOverlooked): a group keeps the members of its first event. *)
OwnersMutant(got) ==
    [e \in Events |-> LET ms == {m \in Members : <<m, e>> \in got}
                      IN  IF ms = {} THEN {} ELSE {CHOOSE m \in ms : TRUE}]

(* deduplicate_events: one event per identifier, with everybody it is of. *)
Owners(got) == [e \in Events |-> {m \in Members : <<m, e>> \in got}]

(* Mutant (FeedTypeOK): the entry lives a day longer than stale_ttl. *)
StoredMutant(answer) == [answer |-> answer, left |-> StaleTtl + 1]

Stored(answer) == [answer |-> answer, left |-> StaleTtl]

(* The answer, which cache.fetch stores unless Redis fails. *)
Complete(f) ==
    /\ Fetched(f) /\ ~AllFailed(f)
    /\ LET a == [week |-> fetch[f].week, owners |-> Owners(fetch[f].got)]
       IN  \/ store' = [store EXCEPT ![fetch[f].query] = Stored(a)]
           \/ UNCHANGED store
    /\ Over(f)
    /\ UNCHANGED <<family, calendar, today, changes>>

-------------------------------------------------------------------------------
(* Time, and everybody else. *)

Aged(entry) ==
    IF entry = None \/ entry.left = 0 THEN None ELSE [entry EXCEPT !.left = @ - 1]

Midnight ==
    /\ today < MaxDay
    /\ \A f \in Fetches : fetch[f].at # "idle" => today - fetch[f].begun < Latency
    /\ today' = today + 1
    /\ store' = [q \in Queries |-> Aged(store[q])]
    /\ UNCHANGED <<family, calendar, fetch, steady, changes>>

Changed == changes < MaxChanges /\ changes' = changes + 1

(* FamilyRegistry: a member is registered, or deleted. *)
ChangeFamily(m) ==
    /\ Changed
    /\ family' = IF m \in family THEN family \ {m} ELSE family \cup {m}
    /\ UNCHANGED <<calendar, today, store, fetch, steady>>

(* A member enters an event, or deletes or cancels it. *)
EditCalendar(m, e) ==
    /\ Changed
    /\ calendar' = [calendar EXCEPT ![m] = IF e \in @ THEN @ \ {e} ELSE @ \cup {e}]
    /\ steady' = [f \in Fetches |-> steady[f] \ {<<m, e>>}]
    /\ UNCHANGED <<family, today, store, fetch>>

Restart ==
    /\ \E f \in Fetches : fetch[f].at # "idle"
    /\ fetch' = [f \in Fetches |-> Idle]
    /\ steady' = [f \in Fetches |-> {}]
    /\ UNCHANGED <<family, calendar, today, store, changes>>

-------------------------------------------------------------------------------
FeedInit ==
    /\ family \in SUBSET Members
    /\ calendar \in [Members -> SUBSET Events]
    /\ today = 0
    /\ store = [q \in Queries |-> None]
    /\ fetch = [f \in Fetches |-> Idle]
    /\ steady = [f \in Fetches |-> {}]
    /\ changes = 0

FeedNext ==
    \/ \E f \in Fetches :
          \/ \E q \in Queries : GetCalendar(f, q)
          \/ ListMembers(f) \/ Raise(f) \/ Complete(f)
          \/ \E m \in Members : FetchMember(f, m)
    \/ Midnight \/ Restart
    \/ \E m \in Members : ChangeFamily(m) \/ \E e \in Events : EditCalendar(m, e)

FeedSpec == FeedInit /\ [][FeedNext]_feed

-------------------------------------------------------------------------------
(* Properties. *)

FeedTypeOK ==
    /\ family \subseteq Members
    /\ calendar \in [Members -> SUBSET Events]
    /\ today \in Days
    /\ store \in [Queries -> Entry \cup {None}]
    /\ fetch \in [Fetches -> Fetch]
    /\ steady \in [Fetches -> SUBSET (Members \X Events)]
    /\ changes \in 0..MaxChanges

(* A query that names a week is answered with that week and its events.    *)
(* One that names none may show an old week, because its key names none    *)
(* either, but not one older than a fetch and the life of an entry ago.    *)
ShowsItsWeek ==
    \A q \in Queries : store[q] # None =>
        LET a == store[q].answer
        IN  /\ \A e \in Events : a.owners[e] # {} => Week(EventDay[e]) = a.week
            /\ q \in Explicit => a.week = q
            /\ q \in Floating =>
                  a.week >= Week(IF today < Latency + StaleTtl THEN 0
                                 ELSE today - Latency - StaleTtl)

(* Whoever else fails, changes or is merged with, an event that stayed in  *)
(* the calendar of a member who was fetched is in the answer, and as hers. *)
NothingOverlooked ==
    [][\A f \in Fetches : Complete(f) /\ store' # store =>
          LET a == store'[fetch[f].query].answer
          IN  \A m \in fetch[f].ok, e \in Events :
                 <<m, e>> \in steady[f] /\ Week(EventDay[e]) = a.week => m \in a.owners[e]]_feed

(* A new answer loses an event that the one it displaces had, and that is  *)
(* still there, only to the failure of that member's own fetch, or because *)
(* she is no longer listed; and never when all the fetches failed.         *)
AnswersKept ==
    [][\A f \in Fetches : Complete(f) =>
          LET q   == fetch[f].query
              old == store[q].answer
              new == store'[q].answer
          IN  store[q] # None /\ old.week = new.week =>
                 \A m \in Members, e \in Events :
                    m \in old.owners[e] \ new.owners[e] /\ <<m, e>> \in steady[f] =>
                       \/ m \notin fetch[f].all
                       \/ m \notin fetch[f].ok /\ fetch[f].ok # {}]_feed

-------------------------------------------------------------------------------
(* The inductive invariant behind them. *)

(* A fetch asks for the week of its query, as it was when it began, and    *)
(* has no events of another one.                                           *)
WeekOK(x) ==
    /\ x.query \in Queries /\ x.week \in Weeks
    /\ x.query \in Explicit => x.week = x.query
    /\ x.query \in Floating => x.week = Week(x.begun)
    /\ x.begun <= today /\ today <= x.begun + Latency
    /\ \A m \in Members, e \in Events : <<m, e>> \in x.got => Week(EventDay[e]) = x.week

(* Of a member whose turn succeeded it has whatever was there all along.   *)
TurnsOK(x, seen) ==
    /\ x.at # "loop" => x.all = {} /\ x.todo = {} /\ x.ok = {} /\ x.got = {}
    /\ \A m \in x.ok, e \in Events :
          <<m, e>> \in seen /\ Week(EventDay[e]) = x.week => <<m, e>> \in x.got

(* What the history says was there all along is there now. *)
SteadyOK(seen) == \A m \in Members, e \in Events : <<m, e>> \in seen => e \in calendar[m]

(* An entry has the week of its query; of a query without dates, the week  *)
(* of a day no longer ago than a fetch and the time it has been kept.      *)
EntryOK(q, entry) ==
    /\ \A e \in Events : entry.answer.owners[e] # {} => Week(EventDay[e]) = entry.answer.week
    /\ q \in Explicit => entry.answer.week = q
    /\ q \in Floating =>
          \E d \in Days : /\ entry.answer.week = Week(d)
                          /\ today <= d + Latency + StaleTtl - entry.left

FeedInv ==
    /\ FeedTypeOK
    /\ \A f \in Fetches :
          /\ fetch[f].at # "idle" => WeekOK(fetch[f])
          /\ TurnsOK(fetch[f], steady[f]) /\ SteadyOK(steady[f])
    /\ \A q \in Queries : store[q] # None => EntryOK(q, store[q])

===============================================================================
