-------------------------- MODULE CalendarFeedProofs --------------------------
(***************************************************************************)
(* The calendar shows the week that was asked for, and nothing that stayed *)
(* in it is overlooked, for any number of members, events and requests.    *)
(***************************************************************************)
EXTENDS CalendarFeed, TLAPS

(* Weeks follow each other as their days do. *)
LEMMA WeekMonotone ==
    ASSUME NEW c \in Nat, NEW d \in Nat, c <= d
    PROVE  Week(c) <= Week(d) /\ Week(c) \in Nat
<1> DEFINE u == c \div WeekLength
           v == d \div WeekLength
<1>1. WeekLength \in Nat /\ WeekLength > 0
  BY FeedAssumption
<1>2. /\ u \in Int /\ v \in Int /\ 0 <= u
      /\ WeekLength * u <= c /\ d < WeekLength * v + WeekLength
  BY <1>1, SMTT(30)
<1> HIDE DEF u, v
<1>3. u <= v
  <2> SUFFICES ASSUME u >= v + 1 PROVE FALSE
    BY <1>2
  <2>1. WeekLength * u >= WeekLength * (v + 1)
    BY <1>1, <1>2, SMTT(30)
  <2>2. WeekLength * (v + 1) = WeekLength * v + WeekLength
    BY <1>1, <1>2, SMTT(30)
  <2>3. WeekLength * u \in Int /\ WeekLength * v \in Int
    BY <1>1, <1>2, SMTT(30)
  <2> QED
    BY <1>1, <1>2, <2>1, <2>2, <2>3
<1> QED
  BY <1>2, <1>3 DEF u, v, Week

-------------------------------------------------------------------------------
(* Days have weeks, and a query without dates is asked about one of them. *)
LEMMA Asked ==
    ASSUME today \in Days, NEW q \in Queries
    PROVE  /\ WeekAsked(q) \in Weeks
           /\ q \in Explicit => WeekAsked(q) = q
           /\ q \in Floating => WeekAsked(q) = Week(today)
BY FeedAssumption DEF WeekAsked, Weeks, Queries

(* A fetch that is idle satisfies whatever is said of one under way. *)
LEMMA Resting ==
    /\ Idle \in Fetch /\ Idle.at = "idle"
    /\ TurnsOK(Idle, {}) /\ SteadyOK({})
BY FeedAssumption DEF Idle, Fetch, Days, TurnsOK, SteadyOK

(* A step of one fetch that leaves the world alone preserves the invariant *)
(* when it does for that fetch.                                            *)
LEMMA FetchSteps ==
    ASSUME FeedInv, NEW f \in Fetches, NEW x, Goto(f, x),
           UNCHANGED <<family, calendar, today, changes>>,
           x \in Fetch, NEW seen \in SUBSET (Members \X Events),
           steady' = [steady EXCEPT ![f] = seen],
           x.at # "idle" => WeekOK(x),
           TurnsOK(x, seen), SteadyOK(seen),
           store' \in [Queries -> Entry \cup {None}],
           \A q \in Queries : store'[q] # None => EntryOK(q, store'[q])
    PROVE  FeedInv'
<1>1. fetch' = [fetch EXCEPT ![f] = x] /\ fetch \in [Fetches -> Fetch]
  BY DEF Goto, FeedInv, FeedTypeOK
<1>2. FeedTypeOK'
  BY <1>1 DEF FeedInv, FeedTypeOK
<1>3. ASSUME NEW g \in Fetches
      PROVE  /\ fetch'[g].at # "idle" => WeekOK(fetch'[g])
             /\ TurnsOK(fetch'[g], steady'[g]) /\ SteadyOK(steady'[g])
  BY <1>1, <1>3 DEF FeedInv, FeedTypeOK
<1>4. ASSUME NEW g \in Fetches
      PROVE  /\ fetch'[g].at # "idle" => WeekOK(fetch[g])'
             /\ TurnsOK(fetch[g], steady[g])' /\ SteadyOK(steady[g])'
  BY <1>3 DEF WeekOK, TurnsOK, SteadyOK
<1>5. ASSUME NEW q \in Queries, store'[q] # None PROVE EntryOK(q, store[q])'
  BY <1>5 DEF EntryOK
<1> QED
  BY <1>2, <1>4, <1>5 DEF FeedInv

(* A fetch begins with the week of its query, today. *)
LEMMA GetCalendarStep ==
    ASSUME FeedInv, NEW f \in Fetches, NEW q \in Queries, GetCalendar(f, q)
    PROVE  FeedInv'
<1> DEFINE x == [Idle EXCEPT !.at = "list", !.query = q, !.week = WeekAsked(q), !.begun = today]
           seen == {p \in Members \X Events : p[2] \in calendar[p[1]]}
<1>1. today \in Days /\ Latency \in Nat
  BY FeedAssumption DEF FeedInv, FeedTypeOK
<1>2. /\ x \in Fetch /\ x.at = "list" /\ x.query = q /\ x.week = WeekAsked(q) /\ x.begun = today
      /\ x.all = {} /\ x.todo = {} /\ x.ok = {} /\ x.got = {}
  BY <1>1, Asked DEF Idle, Fetch
<1>3. Goto(f, x) /\ steady' = [steady EXCEPT ![f] = seen]
  BY DEF GetCalendar
<1>4. SteadyOK(seen) /\ seen \in SUBSET (Members \X Events)
  BY DEF SteadyOK
<1> HIDE DEF x, seen
<1>5. WeekOK(x) /\ TurnsOK(x, seen)
  BY <1>1, <1>2, Asked DEF WeekOK, TurnsOK, Days
<1>6. UNCHANGED <<family, calendar, today, store, changes>>
  BY DEF GetCalendar
<1> QED
  BY <1>2, <1>3, <1>4, <1>5, <1>6, FetchSteps DEF FeedInv, FeedTypeOK

(* It lists the members before it has fetched any. *)
LEMMA ListMembersStep ==
    ASSUME FeedInv, NEW f \in Fetches, ListMembers(f)
    PROVE  FeedInv'
<1> DEFINE x == [fetch[f] EXCEPT !.at = "loop", !.all = family, !.todo = family]
<1>1. /\ fetch[f] \in Fetch /\ fetch[f].at = "list" /\ family \subseteq Members
      /\ WeekOK(fetch[f]) /\ TurnsOK(fetch[f], steady[f]) /\ SteadyOK(steady[f])
      /\ steady \in [Fetches -> SUBSET (Members \X Events)]
  BY DEF FeedInv, FeedTypeOK, ListMembers
<1>2. /\ x \in Fetch /\ x.at = "loop" /\ x.query = fetch[f].query /\ x.week = fetch[f].week
      /\ x.begun = fetch[f].begun /\ x.ok = fetch[f].ok /\ x.got = fetch[f].got
  BY <1>1 DEF Fetch
<1>3. Goto(f, x) /\ UNCHANGED <<family, calendar, today, store, steady, changes>>
  BY DEF ListMembers
<1> HIDE DEF x
<1>4. WeekOK(x) /\ TurnsOK(x, steady[f])
  BY <1>1, <1>2 DEF WeekOK, TurnsOK
<1>5. steady' = [steady EXCEPT ![f] = steady[f]] /\ steady[f] \in SUBSET (Members \X Events)
  BY <1>1, <1>3
<1> QED
  BY <1>1, <1>2, <1>3, <1>4, <1>5, FetchSteps DEF FeedInv, FeedTypeOK

(* A turn that succeeds takes all of the member's events of the week, one  *)
(* that fails takes some of them.                                          *)
LEMMA FetchMemberStep ==
    ASSUME FeedInv, NEW f \in Fetches, NEW m \in Members, FetchMember(f, m)
    PROVE  FeedInv'
<1>1. /\ fetch[f] \in Fetch /\ fetch[f].at = "loop" /\ calendar \in [Members -> SUBSET Events]
      /\ WeekOK(fetch[f]) /\ TurnsOK(fetch[f], steady[f]) /\ SteadyOK(steady[f])
      /\ steady \in [Fetches -> SUBSET (Members \X Events)]
  BY DEF FeedInv, FeedTypeOK, FetchMember, TurnsOK
<1> DEFINE of == Parsed(m, fetch[f].week)
<1>2. /\ of \subseteq Members \X Events
      /\ \A n \in Members, e \in Events :
            <<n, e>> \in of <=> n = m /\ e \in calendar[m] /\ Week(EventDay[e]) = fetch[f].week
  BY <1>1 DEF Parsed
<1> HIDE DEF of
<1>3. PICK done, some :
         /\ some \subseteq of /\ ((done = {m} /\ some = of) \/ done = {})
         /\ Goto(f, [fetch[f] EXCEPT !.todo = @ \ {m}, !.ok = @ \cup done, !.got = @ \cup some])
  <2>1. CASE Goto(f, [fetch[f] EXCEPT !.todo = @ \ {m}, !.ok = @ \cup {m}, !.got = @ \cup of])
    BY <2>1
  <2>2. ASSUME NEW some \in SUBSET of,
               Goto(f, [fetch[f] EXCEPT !.todo = @ \ {m}, !.got = @ \cup some])
        PROVE  Goto(f, [fetch[f] EXCEPT !.todo = @ \ {m}, !.ok = @ \cup {}, !.got = @ \cup some])
    BY <1>1, <2>2 DEF Fetch
  <2> QED
    BY <2>1, <2>2 DEF FetchMember, of
<1> DEFINE x == [fetch[f] EXCEPT !.todo = @ \ {m}, !.ok = @ \cup done, !.got = @ \cup some]
<1>4. /\ x \in Fetch /\ x.at = "loop" /\ x.query = fetch[f].query /\ x.week = fetch[f].week
      /\ x.begun = fetch[f].begun
      /\ x.ok = fetch[f].ok \cup done /\ x.got = fetch[f].got \cup some
  BY <1>1, <1>2, <1>3 DEF Fetch
<1>5. Goto(f, x) /\ UNCHANGED <<family, calendar, today, store, steady, changes>>
  BY <1>3 DEF FetchMember
<1> HIDE DEF x
<1>6. WeekOK(x)
  BY <1>1, <1>2, <1>3, <1>4 DEF WeekOK
<1>7. TurnsOK(x, steady[f])
  <2> SUFFICES ASSUME NEW n \in x.ok, NEW e \in Events,
                      <<n, e>> \in steady[f], Week(EventDay[e]) = x.week
               PROVE  <<n, e>> \in x.got
    BY <1>4 DEF TurnsOK
  <2>1. CASE n \in fetch[f].ok
    BY <1>1, <1>4, <2>1 DEF TurnsOK
  <2>2. CASE n = m /\ some = of
    BY <1>1, <1>2, <1>4, <2>2 DEF SteadyOK
  <2> QED
    BY <1>3, <1>4, <2>1, <2>2
<1>8. steady' = [steady EXCEPT ![f] = steady[f]] /\ steady[f] \in SUBSET (Members \X Events)
  BY <1>1, <1>5
<1> QED
  BY <1>1, <1>4, <1>5, <1>6, <1>7, <1>8, FetchSteps DEF FeedInv, FeedTypeOK

(* The answer has the week of the fetch, and only events of that week. *)
LEMMA AnswerStored ==
    ASSUME FeedInv, NEW f \in Fetches, Fetched(f)
    PROVE  LET q == fetch[f].query
               a == [week |-> fetch[f].week, owners |-> Owners(fetch[f].got)]
           IN  q \in Queries /\ Stored(a) \in Entry /\ EntryOK(q, Stored(a)) /\ Stored(a).answer = a
<1>1. fetch[f] \in Fetch /\ WeekOK(fetch[f]) /\ today \in Days /\ StaleTtl \in Nat /\ Latency \in Nat
  BY FeedAssumption DEF FeedInv, FeedTypeOK, Fetched
<1> DEFINE a == [week |-> fetch[f].week, owners |-> Owners(fetch[f].got)]
<1>2. /\ a.week = fetch[f].week /\ a.owners \in [Events -> SUBSET Members]
      /\ \A e \in Events : a.owners[e] = {m \in Members : <<m, e>> \in fetch[f].got}
  BY DEF Owners
<1>3. a \in Answer /\ fetch[f].query \in Queries
  BY <1>1, <1>2 DEF Answer, WeekOK
<1> HIDE DEF a
<1>4. Stored(a) \in Entry /\ Stored(a).answer = a /\ Stored(a).left = StaleTtl
  BY <1>1, <1>3 DEF Stored, Entry
<1>5. \A e \in Events : a.owners[e] # {} => Week(EventDay[e]) = a.week
  BY <1>1, <1>2 DEF WeekOK
<1>6. fetch[f].query \in Floating =>
         \E d \in Days : a.week = Week(d) /\ today <= d + Latency + StaleTtl - StaleTtl
  BY <1>1, <1>2 DEF WeekOK, Fetch, Days
<1>7. fetch[f].query \in Explicit => a.week = fetch[f].query
  BY <1>1, <1>2 DEF WeekOK
<1>8. EntryOK(fetch[f].query, Stored(a))
  BY <1>4, <1>5, <1>6, <1>7 DEF EntryOK
<1> QED
  BY <1>3, <1>4, <1>8 DEF a

(* A fetch that is over leaves its answer, or nothing. *)
LEMMA CompleteStep ==
    ASSUME FeedInv, NEW f \in Fetches, Raise(f) \/ Complete(f)
    PROVE  FeedInv'
<1>1. /\ Goto(f, Idle) /\ steady' = [steady EXCEPT ![f] = {}]
      /\ UNCHANGED <<family, calendar, today, changes>>
  BY DEF Raise, Complete, Over
<1>2. /\ store' \in [Queries -> Entry \cup {None}]
      /\ \A q \in Queries : store'[q] # None => EntryOK(q, store'[q])
  <2>1. CASE UNCHANGED store
    BY <2>1 DEF FeedInv, FeedTypeOK
  <2>2. CASE ~UNCHANGED store
    <3> DEFINE a == [week |-> fetch[f].week, owners |-> Owners(fetch[f].got)]
    <3>1. Fetched(f) /\ store' = [store EXCEPT ![fetch[f].query] = Stored(a)]
      BY <2>2 DEF Raise, Complete
    <3>2. fetch[f].query \in Queries /\ Stored(a) \in Entry /\ EntryOK(fetch[f].query, Stored(a))
      BY <3>1, AnswerStored
    <3> HIDE DEF a
    <3> QED
      BY <3>1, <3>2 DEF FeedInv, FeedTypeOK
  <2> QED
    BY <2>1, <2>2
<1> QED
  BY <1>1, <1>2, Resting, FetchSteps

(* Midnight ages the entries and the fetches by a day. *)
LEMMA MidnightStep ==
    ASSUME FeedInv, Midnight
    PROVE  FeedInv'
<1>1. /\ today \in Nat /\ MaxDay \in Nat /\ today' = today + 1 /\ today' \in Days
      /\ StaleTtl \in Nat /\ Latency \in Nat
      /\ UNCHANGED <<family, calendar, fetch, steady, changes>>
  BY FeedAssumption DEF FeedInv, FeedTypeOK, Midnight, Days
<1>2. ASSUME NEW q \in Queries
      PROVE  /\ store'[q] \in Entry \cup {None}
             /\ store'[q] # None => EntryOK(q, store[q])'
  <2>1. store'[q] = Aged(store[q]) /\ store[q] \in Entry \cup {None}
    BY <1>2 DEF Midnight, FeedInv, FeedTypeOK
  <2>2. CASE Aged(store[q]) = None
    BY <2>1, <2>2
  <2>3. CASE store[q] # None /\ store[q].left # 0 /\ Aged(store[q]) # None
    <3>1. /\ store[q] \in Entry /\ EntryOK(q, store[q]) /\ store[q].left \in 1..StaleTtl
      BY <1>1, <2>1, <2>3 DEF FeedInv, Entry
    <3>2. /\ store'[q] \in Entry /\ store'[q].answer = store[q].answer
          /\ store'[q].left = store[q].left - 1
      BY <1>1, <2>1, <2>3, <3>1 DEF Aged, Entry
    <3>3. q \in Floating =>
             \E d \in Days : /\ store[q].answer.week = Week(d)
                             /\ today + 1 <= d + Latency + StaleTtl - (store[q].left - 1)
      BY <1>1, <3>1 DEF EntryOK, Days
    <3>4. EntryOK(q, store[q])'
      BY <1>1, <3>1, <3>2, <3>3 DEF EntryOK
    <3> QED
      BY <3>2, <3>4
  <2> QED
    BY <2>1, <2>2, <2>3 DEF Aged
<1>3. FeedTypeOK'
  BY <1>1, <1>2 DEF FeedInv, FeedTypeOK, Midnight
<1>4. ASSUME NEW f \in Fetches
      PROVE  /\ fetch'[f].at # "idle" => WeekOK(fetch[f])'
             /\ TurnsOK(fetch[f], steady[f])' /\ SteadyOK(steady[f])'
  <2>1. /\ fetch[f] \in Fetch /\ TurnsOK(fetch[f], steady[f]) /\ SteadyOK(steady[f])
        /\ fetch[f].at # "idle" => WeekOK(fetch[f]) /\ today - fetch[f].begun < Latency
    BY <1>4 DEF FeedInv, FeedTypeOK, Midnight
  <2>2. fetch[f].begun \in Nat
    BY <2>1 DEF Fetch, Days
  <2> QED
    BY <1>1, <2>1, <2>2 DEF WeekOK, TurnsOK, SteadyOK
<1> QED
  BY <1>2, <1>3, <1>4 DEF FeedInv

(* What happens to the registry and the calendars meanwhile only takes     *)
(* events out of what a fetch could have seen all along.                   *)
LEMMA WorldStep ==
    ASSUME FeedInv,
           \E m \in Members : ChangeFamily(m) \/ \E e \in Events : EditCalendar(m, e)
    PROVE  FeedInv'
<1>1. /\ today' = today /\ store' = store /\ fetch' = fetch /\ family' \subseteq Members
      /\ changes' \in 0..MaxChanges
  BY FeedAssumption DEF FeedInv, FeedTypeOK, ChangeFamily, EditCalendar, Changed
<1>2. /\ calendar' \in [Members -> SUBSET Events]
      /\ steady' \in [Fetches -> SUBSET (Members \X Events)]
      /\ \A f \in Fetches : /\ steady'[f] \subseteq steady[f]
                            /\ \A m \in Members, e \in Events : <<m, e>> \in steady'[f] => e \in calendar'[m]
  <2>1. /\ calendar \in [Members -> SUBSET Events]
        /\ steady \in [Fetches -> SUBSET (Members \X Events)]
        /\ \A f \in Fetches : SteadyOK(steady[f])
    BY DEF FeedInv, FeedTypeOK
  <2>2. CASE \E m \in Members : ChangeFamily(m)
    BY <2>1, <2>2 DEF ChangeFamily, SteadyOK
  <2>3. ASSUME NEW m \in Members, NEW e \in Events, EditCalendar(m, e)
        PROVE  <1>2!1 /\ <1>2!2 /\ <1>2!3
    <3>1. /\ calendar' = [calendar EXCEPT ![m] = IF e \in @ THEN @ \ {e} ELSE @ \cup {e}]
          /\ steady' = [f \in Fetches |-> steady[f] \ {<<m, e>>}]
      BY <2>3 DEF EditCalendar
    <3>2. calendar' \in [Members -> SUBSET Events]
      BY <2>1, <3>1
    <3>3. steady' \in [Fetches -> SUBSET (Members \X Events)]
      BY <2>1, <3>1
    <3>4. ASSUME NEW f \in Fetches, NEW n \in Members, NEW d \in Events, <<n, d>> \in steady'[f]
          PROVE  d \in calendar'[n]
      <4>1. <<n, d>> \in steady[f] /\ ~(n = m /\ d = e) /\ d \in calendar[n]
        BY <2>1, <3>1, <3>4 DEF SteadyOK
      <4> QED
        BY <2>1, <3>1, <4>1
    <3> QED
      BY <3>1, <3>2, <3>3, <3>4
  <2> QED
    BY <2>2, <2>3
<1>3. ASSUME NEW f \in Fetches
      PROVE  /\ fetch'[f].at # "idle" => WeekOK(fetch[f])'
             /\ TurnsOK(fetch[f], steady[f])' /\ SteadyOK(steady[f])'
  BY <1>1, <1>2, <1>3 DEF FeedInv, WeekOK, TurnsOK, SteadyOK
<1>4. ASSUME NEW q \in Queries, store'[q] # None PROVE EntryOK(q, store[q])'
  BY <1>1, <1>4 DEF FeedInv, EntryOK
<1>5. FeedTypeOK'
  BY <1>1, <1>2 DEF FeedInv, FeedTypeOK
<1> QED
  BY <1>3, <1>4, <1>5 DEF FeedInv

(* A restart forgets the fetches; a stuttering step changes nothing. *)
LEMMA RestartStep ==
    ASSUME FeedInv, Restart \/ UNCHANGED feed
    PROVE  FeedInv'
<1>1. UNCHANGED <<family, calendar, today, store, changes>>
  BY DEF Restart, feed
<1>2. ASSUME NEW f \in Fetches
      PROVE  /\ fetch'[f].at # "idle" => WeekOK(fetch'[f])
             /\ TurnsOK(fetch'[f], steady'[f]) /\ SteadyOK(steady'[f])
  BY <1>2, Resting DEF FeedInv, Restart, feed
<1>3. FeedTypeOK'
  BY <1>1, Resting DEF FeedInv, FeedTypeOK, Restart, feed
<1> QED
  BY <1>1, <1>2, <1>3 DEF FeedInv, WeekOK, TurnsOK, SteadyOK, EntryOK

(* The inductive invariant of the feed. *)
LEMMA FeedInvariant == FeedSpec => []FeedInv
<1>1. FeedInit => FeedInv
  BY FeedAssumption, Resting DEF FeedInit, FeedInv, FeedTypeOK, Days
<1>2. FeedInv /\ [FeedNext]_feed => FeedInv'
  BY GetCalendarStep, ListMembersStep, FetchMemberStep, CompleteStep, MidnightStep, WorldStep,
     RestartStep DEF FeedNext
<1> QED
  BY <1>1, <1>2, PTL DEF FeedSpec

(* Every variable of the feed keeps its type: what is stored is an answer  *)
(* about a week, with its owners, and lives for stale_ttl at most.         *)
THEOREM FeedTyping == FeedSpec => []FeedTypeOK
<1>1. FeedInv => FeedTypeOK
  BY DEF FeedInv
<1> QED
  BY <1>1, FeedInvariant, PTL

(* What is stored for a query has the events of that query's week alone.   *)
LEMMA WeekShown == FeedInv => ShowsItsWeek
<1> SUFFICES ASSUME FeedInv, NEW q \in Queries, store[q] # None, q \in Floating
             PROVE  store[q].answer.week
                       >= Week(IF today < Latency + StaleTtl THEN 0
                               ELSE today - Latency - StaleTtl)
  BY DEF FeedInv, EntryOK, ShowsItsWeek
<1>1. /\ today \in Nat /\ Latency \in Nat /\ StaleTtl \in Nat /\ store[q] \in Entry
      /\ EntryOK(q, store[q])
  BY FeedAssumption DEF FeedInv, FeedTypeOK, Days
<1>2. store[q].left \in Nat
  BY <1>1 DEF Entry
<1>3. PICK d \in Days : /\ store[q].answer.week = Week(d)
                        /\ today <= d + Latency + StaleTtl - store[q].left
  BY <1>1 DEF EntryOK
<1> DEFINE c == IF today < Latency + StaleTtl THEN 0 ELSE today - Latency - StaleTtl
<1>4. c \in Nat /\ d \in Nat /\ c <= d
  BY <1>1, <1>2, <1>3 DEF Days
<1> HIDE DEF c
<1>5. Week(c) <= Week(d)
  BY <1>4, WeekMonotone
<1>6. Week(c) \in Nat /\ Week(d) \in Nat
  BY <1>4, WeekMonotone
<1> QED
  BY <1>3, <1>5, <1>6 DEF c

(* get_calendar answers a query that names a week with that week, and one  *)
(* that names none with no week older than a fetch and stale_ttl, although *)
(* midnight may pass during a fetch and entries outlive the week of their  *)
(* key.                                                                    *)
THEOREM WeekServed == FeedSpec => []ShowsItsWeek
  BY FeedInvariant, WeekShown, PTL

(* deduplicate_events and the failures of others lose nothing: what was in *)
(* the calendar of a member whose turn succeeded, from the beginning of    *)
(* the fetch on, is in the answer.                                         *)
THEOREM AllShown == FeedSpec => NothingOverlooked
<1> DEFINE A == \A f \in Fetches : Complete(f) /\ store' # store =>
                   LET a == store'[fetch[f].query].answer
                   IN  \A m \in fetch[f].ok, e \in Events :
                          <<m, e>> \in steady[f] /\ Week(EventDay[e]) = a.week => m \in a.owners[e]
<1>1. FeedInv => A
  <2> SUFFICES ASSUME FeedInv, NEW f \in Fetches, Complete(f), store' # store,
                      NEW m \in fetch[f].ok, NEW e \in Events, <<m, e>> \in steady[f],
                      Week(EventDay[e]) = store'[fetch[f].query].answer.week
               PROVE  m \in store'[fetch[f].query].answer.owners[e]
    OBVIOUS
  <2> DEFINE a == [week |-> fetch[f].week, owners |-> Owners(fetch[f].got)]
  <2>1. Fetched(f) /\ store' = [store EXCEPT ![fetch[f].query] = Stored(a)]
    BY DEF Complete
  <2>2. fetch[f].query \in Queries /\ Stored(a).answer = a
    BY <2>1, AnswerStored
  <2>3. store'[fetch[f].query] = Stored(a)
    BY <2>1, <2>2 DEF FeedInv, FeedTypeOK
  <2>4. Week(EventDay[e]) = fetch[f].week
    BY <2>2, <2>3
  <2>5. <<m, e>> \in fetch[f].got /\ m \in Members
    BY <2>4 DEF FeedInv, FeedTypeOK, TurnsOK, Fetch
  <2> QED
    BY <2>2, <2>3, <2>5 DEF Owners
<1> QED
  BY <1>1, FeedInvariant, PTL DEF NothingOverlooked, FeedSpec

(* An event leaves an answer, while it stays in the calendar, by the       *)
(* failure of its member's own turn or because she is not listed; an       *)
(* answer after which nobody's turn succeeded replaces none.               *)
THEOREM AnswersLast == FeedSpec => AnswersKept
<1> DEFINE Lost(f) ==
             LET q   == fetch[f].query
                 old == store[q].answer
                 new == store'[q].answer
             IN  store[q] # None /\ old.week = new.week =>
                    \A m \in Members, e \in Events :
                       m \in old.owners[e] \ new.owners[e] /\ <<m, e>> \in steady[f] =>
                          \/ m \notin fetch[f].all
                          \/ m \notin fetch[f].ok /\ fetch[f].ok # {}
           A == \A f \in Fetches : Complete(f) => Lost(f)
<1>1. FeedInv => A
  <2> SUFFICES ASSUME FeedInv, NEW f \in Fetches, Complete(f), store' # store PROVE Lost(f)
    <3>1. ASSUME NEW f \in Fetches, store' = store PROVE Lost(f)
      BY <3>1
    <3> QED
      BY <3>1
  <2> DEFINE a == [week |-> fetch[f].week, owners |-> Owners(fetch[f].got)]
             q == fetch[f].query
  <2>1. /\ Fetched(f) /\ ~AllFailed(f) /\ store' = [store EXCEPT ![q] = Stored(a)]
    BY DEF Complete
  <2>2. q \in Queries /\ Stored(a).answer = a
    BY <2>1, AnswerStored
  <2>3. store'[q].answer = a
    BY <2>1, <2>2 DEF FeedInv, FeedTypeOK
  <2>4. \A m \in Members, e \in Events : m \in a.owners[e] <=> <<m, e>> \in fetch[f].got
    BY DEF Owners
  <2>5. a.week = fetch[f].week
    OBVIOUS
  <2> HIDE DEF a
  <2> SUFFICES ASSUME store[q] # None, store[q].answer.week = a.week,
                      NEW m \in Members, NEW e \in Events,
                      m \in store[q].answer.owners[e], m \notin a.owners[e],
                      <<m, e>> \in steady[f], m \in fetch[f].all
               PROVE  m \notin fetch[f].ok /\ fetch[f].ok # {}
    BY <2>3
  <2>6. Week(EventDay[e]) = fetch[f].week
    BY <2>2, <2>5 DEF FeedInv, EntryOK
  <2>7. m \notin fetch[f].ok
    BY <2>4, <2>6 DEF FeedInv, TurnsOK
  <2> QED
    BY <2>1, <2>7 DEF AllFailed
<1> QED
  BY <1>1, FeedInvariant, PTL DEF AnswersKept, FeedSpec

===============================================================================
