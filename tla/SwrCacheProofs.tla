---------------------------- MODULE SwrCacheProofs ----------------------------
(***************************************************************************)
(* What the cache serves is never older than stale_ttl and the time a      *)
(* fetch takes, for any number of requests and refreshes in flight.        *)
(***************************************************************************)
EXTENDS SwrCache, TLAPS

(* A step of one request or refresh, whichever it is. *)
LEMMA Steps ==
    ASSUME Next
    PROVE  \/ \E r \in Requests :
                 \/ Fetch(r) \/ GetFresh(r) \/ GetStale(r)
                 \/ Resume(r) \/ Retry(r) \/ Raise(r)
           \/ \E t \in Tasks : Receive(t) \/ SetFresh(t) \/ SetStale(t)
           \/ \E b \in Refreshers : GiveUp(b)
           \/ Tick \/ Change \/ Restart
BY DEF Next, Continue, Fails, Tasks

(* A write to Redis either stores the data with the key's time to live or  *)
(* changes nothing.                                                        *)
LEMMA SetTyped ==
    ASSUME TypeOK, NEW k \in Keys, NEW v \in Versions, Set(k, v)
    PROVE  /\ store' \in [Keys -> Entry \cup {None}] /\ faults' \in 0..MaxFaults
           /\ \/ store' = store
              \/ store' = [store EXCEPT ![k] = [data |-> v, left |-> Lifetime(k)]]
BY TtlAssumption DEF Set, Fault, TypeOK, Entry, Lifetime, Keys

(* Every variable keeps its type: entries expire at zero, attempts are     *)
(* counted to max_attempts, and what a task has to write it has fetched    *)
(* within Latency ticks.                                                   *)
THEOREM Typing == Spec => []TypeOK
<1>1. Init => TypeOK
  BY TtlAssumption DEF Init, TypeOK, Idle, Task, Versions, Keys, Old, Holding
<1>2. TypeOK /\ [Next]_vars => TypeOK'
  <2> SUFFICES ASSUME TypeOK, [Next]_vars PROVE TypeOK'
    OBVIOUS
  <2> USE TtlAssumption, TaskAssumption
  <2>i. /\ Idle \in Task /\ Idle.at = "idle"
        /\ \A v : RefreshOf(v) \in Task /\ RefreshOf(v).at = "call"
    BY DEF Idle, RefreshOf, Task
  <2>1. CASE UNCHANGED vars
    BY <2>1 DEF TypeOK, vars, Holding
  <2>2. CASE \E r \in Requests : Fetch(r)
    BY <2>2 DEF Fetch, Goto, TypeOK, Task, Tasks, Holding
  <2>3. CASE \E r \in Requests : GetFresh(r)
    BY <2>3, <2>i DEF GetFresh, Goto, Answer, Hit, Miss, Fault, TypeOK, Task, Tasks, Entry, Keys,
       Holding
  <2>4. CASE \E r \in Requests : GetStale(r)
    BY <2>4, <2>i DEF GetStale, Goto, Hit, Miss, Fault, TypeOK, Task, Tasks, Entry, Keys, Holding
  <2>5. CASE \E r \in Requests : Resume(r)
    BY <2>5 DEF Resume, Goto, TypeOK, Task, Tasks, Holding
  <2>6. CASE \E r \in Requests : Retry(r)
    <3>1. PICK r \in Requests : Retry(r)
      BY <2>6
    <3>2. task[r] \in Task /\ r \in Tasks
      BY DEF TypeOK, Tasks
    <3>3. Failed(r) \in 0..MaxAttempts
      BY <3>1, <3>2 DEF Retry, Failed, Task
    <3>4. [task[r] EXCEPT !.at = "pause", !.tries = Failed(r)] \in Task
      BY <3>2, <3>3 DEF Task
    <3> QED
      BY <3>1, <3>2, <3>4 DEF Retry, TypeOK, Holding
  <2>7. CASE \E r \in Requests : Raise(r)
    BY <2>7, <2>i DEF Raise, Answer, TypeOK, Tasks, Holding
  <2>8. CASE \E t \in Tasks : Receive(t)
    <3>1. PICK t \in Tasks : Receive(t)
      BY <2>8
    <3>2. current \in Versions /\ task[t] \in Task
      BY DEF TypeOK
    <3>3. [task[t] EXCEPT !.at = "set_fresh", !.data = current] \in Task
      BY <3>2 DEF Task
    <3> QED
      BY <3>1, <3>2, <3>3 DEF Receive, TypeOK, Holding
  <2>9. CASE \E t \in Tasks : SetFresh(t)
    <3>1. PICK t \in Tasks : SetFresh(t)
      BY <2>9
    <3>2. store' \in [Keys -> Entry \cup {None}] /\ faults' \in 0..MaxFaults
      BY <3>1, SetTyped DEF SetFresh, TypeOK, At, Holding, Keys
    <3> QED
      BY <3>1, <3>2 DEF SetFresh, Goto, TypeOK, Task, At, Holding
  <2>10. CASE \E t \in Tasks : SetStale(t)
    <3>1. PICK t \in Tasks : SetStale(t)
      BY <2>10
    <3>2. task[t].data \in Versions
      BY <3>1 DEF SetStale, TypeOK, At, Holding
    <3>3. store' \in [Keys -> Entry \cup {None}] /\ faults' \in 0..MaxFaults
      BY <3>1, <3>2, SetTyped DEF SetStale, Keys
    <3> QED
      BY <3>1, <3>2, <3>3, <2>i DEF SetStale, Answer, TypeOK, Holding
  <2>11. CASE \E b \in Refreshers : GiveUp(b)
    BY <2>11, <2>i DEF GiveUp, TypeOK, Tasks, Holding
  <2>12. CASE Tick
    <3>1. store' \in [Keys -> Entry \cup {None}]
      BY <2>12 DEF Tick, TypeOK, Aged, Entry
    <3>2. stopped' \in [Versions -> 0..Old]
      BY <2>12 DEF Tick, TypeOK, Old, Versions
    <3>3. task' \in [Tasks -> Task]
      BY <2>12 DEF Tick, TypeOK, Task
    <3> QED
      BY <2>12, <3>1, <3>2, <3>3 DEF Tick, TypeOK, Holding
  <2>13. CASE Change
    BY <2>13 DEF Change, TypeOK, Versions, Holding
  <2>14. CASE Restart
    BY <2>14, <2>i DEF Restart, Fault, TypeOK, Holding
  <2> QED
    BY Steps, <2>1, <2>2, <2>3, <2>4, <2>5, <2>6, <2>7, <2>8, <2>9, <2>10, <2>11, <2>12, <2>13, <2>14
<1> QED
  BY <1>1, <1>2, PTL DEF Spec

(* What is fetched was current a moment ago, and an entry is written with  *)
(* at most stale_ttl to live: whatever order the writes come in, no entry  *)
(* outlives the age its data may have.                                     *)
THEOREM Ageing == Spec => []AgeInv
<1>1. Init => AgeInv
  BY DEF Init, AgeInv, Idle, Holding, Versions, Tasks
<1>2. TypeOK /\ TypeOK' /\ AgeInv /\ [Next]_vars => AgeInv'
  <2> SUFFICES ASSUME TypeOK, TypeOK', AgeInv, [Next]_vars PROVE AgeInv'
    OBVIOUS
  <2> USE TtlAssumption, TaskAssumption
  <2>i. Idle.at = "idle" /\ \A v : RefreshOf(v).at = "call"
    BY DEF Idle, RefreshOf
  <2>w. ASSUME NEW k \in Keys, NEW t \in Tasks, Set(k, task[t].data), Holding(t),
               UNCHANGED <<current, stopped>>,
               \A u \in Tasks : task'[u].at \in {"set_fresh", "set_stale"} =>
                                task'[u].data = task[u].data /\ task'[u].held = task[u].held
                                /\ Holding(u)
        PROVE  AgeInv'
    <3>1. task[t].data \in Versions /\ stopped[task[t].data] <= task[t].held
          /\ task[t].held \in 0..Latency
      BY <2>w DEF TypeOK, AgeInv, Task
    <3>2. Lifetime(k) \in Nat /\ Lifetime(k) <= StaleTtl
      BY DEF Lifetime
    <3>3. stopped[task[t].data] + Lifetime(k) <= StaleTtl + Latency
      BY <3>1, <3>2 DEF TypeOK, Old
    <3>4. \A j \in Keys : store'[j] # None =>
             stopped[store'[j].data] + store'[j].left <= StaleTtl + Latency
      BY <2>w, <3>1, <3>3, SetTyped DEF AgeInv, TypeOK
    <3> QED
      BY <2>w, <3>4 DEF AgeInv, Holding
  <2>1. CASE UNCHANGED vars
    BY <2>1 DEF AgeInv, vars, Holding
  <2>2. CASE \E r \in Requests : Fetch(r)
    BY <2>2 DEF Fetch, Goto, AgeInv, TypeOK, Task, Tasks, Holding
  <2>3. CASE \E r \in Requests : GetFresh(r)
    BY <2>3, <2>i DEF GetFresh, Goto, Answer, AgeInv, TypeOK, Task, Tasks, Holding
  <2>4. CASE \E r \in Requests : GetStale(r)
    BY <2>4, <2>i DEF GetStale, Goto, AgeInv, TypeOK, Task, Tasks, Holding
  <2>5. CASE \E r \in Requests : Resume(r)
    BY <2>5 DEF Resume, Goto, AgeInv, TypeOK, Task, Tasks, Holding
  <2>6. CASE \E r \in Requests : Retry(r)
    BY <2>6 DEF Retry, AgeInv, TypeOK, Task, Tasks, Holding
  <2>7. CASE \E r \in Requests : Raise(r)
    BY <2>7, <2>i DEF Raise, Answer, AgeInv, TypeOK, Tasks, Holding
  <2>8. CASE \E t \in Tasks : Receive(t)
    <3>1. stopped[current] = 0
      BY DEF AgeInv, TypeOK, Versions
    <3> QED
      BY <2>8, <3>1 DEF Receive, AgeInv, TypeOK, Task, Holding
  <2>9. CASE \E t \in Tasks : SetFresh(t)
    BY <2>9, <2>w DEF SetFresh, Goto, TypeOK, Task, At, Holding, Keys
  <2>10. CASE \E t \in Tasks : SetStale(t)
    BY <2>10, <2>w, <2>i DEF SetStale, Answer, TypeOK, At, Holding, Keys, Tasks
  <2>11. CASE \E b \in Refreshers : GiveUp(b)
    BY <2>11, <2>i DEF GiveUp, AgeInv, TypeOK, Tasks, Holding
  <2>12. CASE Tick
    <3>1. \A v \in Versions : v >= current => stopped'[v] = 0
      BY <2>12 DEF Tick, AgeInv, TypeOK, Versions
    <3>2. \A v \in Versions : stopped[v] \in Nat /\ stopped'[v] \in Nat /\ stopped'[v] <= stopped[v] + 1
      BY <2>12 DEF Tick, TypeOK, Old
    <3>3. ASSUME NEW k \in Keys, store'[k] # None
          PROVE  stopped'[store'[k].data] + store'[k].left <= StaleTtl + Latency
      <4>1. /\ store[k] # None /\ store[k] \in Entry
            /\ store'[k] = [store[k] EXCEPT !.left = store[k].left - 1]
        BY <2>12, <3>3 DEF Tick, Aged, TypeOK
      <4>2. /\ store'[k].data = store[k].data /\ store'[k].left = store[k].left - 1
            /\ store[k].data \in Versions /\ store[k].left \in Nat
        BY <4>1 DEF Entry
      <4> QED
        BY <3>2, <4>1, <4>2 DEF AgeInv
    <3>4. ASSUME NEW t \in Tasks, Holding(t)'
          PROVE  stopped'[task'[t].data] <= task'[t].held
      <4>1. Holding(t) /\ task[t].data \in Versions /\ task[t].held \in Nat
            /\ task'[t].data = task[t].data /\ task'[t].held = task[t].held + 1
        BY <2>12, <3>4 DEF Tick, TypeOK, Task, Holding
      <4> QED
        BY <3>2, <4>1 DEF AgeInv
    <3> QED
      BY <2>12, <3>1, <3>3, <3>4 DEF Tick, AgeInv
  <2>13. CASE Change
    BY <2>13 DEF Change, AgeInv, TypeOK, Versions, Holding
  <2>14. CASE Restart
    BY <2>14, <2>i DEF Restart, AgeInv, TypeOK, Holding
  <2> QED
    BY Steps, <2>1, <2>2, <2>3, <2>4, <2>5, <2>6, <2>7, <2>8, <2>9, <2>10, <2>11, <2>12, <2>13, <2>14
<1> QED
  BY <1>1, <1>2, Typing, PTL DEF Spec

(* Whoever is answered gets an entry or what it has just fetched itself:   *)
(* data given up less than stale_ttl and a fetch ago, whatever overlaps,   *)
(* fails or is lost.                                                       *)
THEOREM NeverTooOld == Spec => AgeBounded
<1>1. TypeOK /\ AgeInv /\ [Next]_vars =>
      [\A r \in Requests :
          Continue(r) /\ task'[r].at = "idle" /\ last'[r] # None =>
          stopped[last'[r]] < StaleTtl + Latency]_vars
  <2> SUFFICES ASSUME TypeOK, AgeInv, NEW r \in Requests,
                      Continue(r), task'[r].at = "idle", last'[r] # None
               PROVE  stopped[last'[r]] < StaleTtl + Latency
    BY DEF vars
  <2> USE TtlAssumption, TaskAssumption
  <2>t. r \in Tasks /\ task[r] \in Task
    BY DEF Tasks, TypeOK
  <2>e. ASSUME NEW k \in Keys, store[k] # None
        PROVE  stopped[store[k].data] < StaleTtl + Latency
    BY <2>e DEF AgeInv, TypeOK, Entry, Old
  <2>1. CASE GetFresh(r)
    BY <2>1, <2>e, <2>t DEF GetFresh, Hit, Answer, Goto, Keys, TypeOK, Task
  <2>2. CASE GetStale(r)
    BY <2>2, <2>e, <2>t DEF GetStale, Hit, Goto, Keys, TypeOK, Task
  <2>3. CASE SetStale(r)
    <3>1. /\ task[r].data \in Versions /\ task[r].held \in 0..Latency
          /\ stopped[task[r].data] <= task[r].held
      BY <2>3, <2>t DEF SetStale, At, Holding, TypeOK, AgeInv, Task
    <3>2. last'[r] = task[r].data
      BY <2>3, <2>t DEF SetStale, Answer, TypeOK
    <3>3. stopped[task[r].data] \in Nat
      BY <3>1 DEF TypeOK, Old
    <3> QED
      BY <3>1, <3>2, <3>3
  <2>4. CASE Resume(r) \/ Receive(r) \/ SetFresh(r)
    <3>1. ~Resume(r) /\ ~SetFresh(r)
      BY <2>t DEF Resume, SetFresh, Goto, TypeOK, Task
    <3>2. [task[r] EXCEPT !.at = "set_fresh", !.data = current].at = "set_fresh"
      BY <2>t DEF Task
    <3>3. ~Receive(r)
      BY <3>2, <2>t DEF Receive, TypeOK
    <3> QED
      BY <2>4, <3>1, <3>3
  <2>5. CASE Fails(r)
    <3>1. ~Retry(r)
      BY <2>t DEF Retry, TypeOK, Task
    <3>2. ~Raise(r)
      BY DEF Raise, Answer, TypeOK
    <3> QED
      BY <2>5, <3>1, <3>2 DEF Fails
  <2> QED
    BY <2>1, <2>2, <2>3, <2>4, <2>5 DEF Continue
<1> QED
  BY <1>1, Typing, Ageing, PTL DEF Spec, AgeBounded

(* Failed calls of Redis and restarts are counted, never forgotten. *)
LEMMA FaultsCounted ==
    ASSUME TypeOK, [Next]_vars, faults' = 0
    PROVE  faults = 0
<1>1. faults \in Nat
  BY DEF TypeOK
<1>2. faults' \in {faults, faults + 1}
  <2>1. CASE UNCHANGED vars
    BY <2>1 DEF vars
  <2>2. CASE \E r \in Requests : Fetch(r) \/ Resume(r) \/ Retry(r) \/ Raise(r)
    BY <2>2 DEF Fetch, Resume, Retry, Raise
  <2>3. CASE \E r \in Requests : GetFresh(r) \/ GetStale(r)
    BY <2>3 DEF GetFresh, GetStale, Hit, Miss, Fault
  <2>4. CASE \E t \in Tasks : Receive(t) \/ SetFresh(t) \/ SetStale(t)
    BY <2>4 DEF Receive, SetFresh, SetStale, Set, Fault
  <2>5. CASE \E b \in Refreshers : GiveUp(b)
    BY <2>5 DEF GiveUp
  <2>6. CASE Tick \/ Change \/ Restart
    BY <2>6 DEF Tick, Change, Restart, Fault
  <2>7. QED
    BY <2>1, <2>2, <2>3, <2>4, <2>5, <2>6, Steps
<1>3. QED
  BY <1>1, <1>2

(* While no call of Redis fails and no task is lost, a step other than a   *)
(* write leaves both entries alone and every task where it is that has the *)
(* stale one still to write.                                               *)
LEMMA WritersStay ==
    ASSUME TypeOK, Next, faults' = 0, ~Tick,
           NEW u \in Tasks, \A t \in Tasks : ~SetFresh(t) /\ ~SetStale(t)
    PROVE  store' = store /\ (At(u, "set_stale") => At(u, "set_stale")')
<1> USE TaskAssumption DEF At
<1>1. task \in [Tasks -> Task] /\ faults \in Nat /\ Requests \subseteq Tasks /\ Refreshers \subseteq Tasks
  BY DEF TypeOK, Tasks
<1>2. CASE \E r \in Requests : Fetch(r) \/ GetFresh(r) \/ Resume(r) \/ Retry(r) \/ Raise(r)
  BY <1>1, <1>2 DEF Fetch, GetFresh, Resume, Retry, Raise, Goto, Answer
<1>3. CASE \E r \in Requests : GetStale(r)
  BY <1>1, <1>3 DEF GetStale, Goto
<1>4. CASE \E t \in Tasks : Receive(t)
  BY <1>1, <1>4 DEF Receive
<1>5. CASE \E b \in Refreshers : GiveUp(b)
  BY <1>1, <1>5 DEF GiveUp
<1>6. CASE Change
  BY <1>6 DEF Change
<1>7. ~Restart
  BY <1>1 DEF Restart, Fault
<1>8. QED
  BY <1>2, <1>3, <1>4, <1>5, <1>6, <1>7, Steps

(* A fresh entry never stands alone, in whatever order the two entries are *)
(* written by requests and refreshes that overlap: its writer is about to  *)
(* write the stale one, which lives longer.                                *)
THEOREM FallBack == Spec => []FreshHasStale
<1>1. Init => FreshHasStale
  BY DEF Init, FreshHasStale, Keys
<1>2. TypeOK /\ TypeOK' /\ FreshHasStale /\ [Next]_vars => FreshHasStale'
  <2> SUFFICES ASSUME TypeOK, TypeOK', FreshHasStale, [Next]_vars,
                      faults' = 0, store'["fresh"] # None
               PROVE  \/ store'["stale"] # None /\ store'["stale"].left >= store'["fresh"].left
                      \/ \E t \in Tasks : At(t, "set_stale")'
    BY DEF FreshHasStale
  <2> USE TtlAssumption, TaskAssumption
  <2>1. faults = 0
    BY FaultsCounted
  <2>2. CASE UNCHANGED vars
    BY <2>1, <2>2 DEF FreshHasStale, vars, At
  <2>3. CASE \E t \in Tasks : SetFresh(t)
    <3>1. PICK t \in Tasks : SetFresh(t)
      BY <2>3
    <3>2. task'[t].at = "set_stale"
      BY <3>1 DEF SetFresh, Goto, TypeOK, Task
    <3>3. QED
      BY <3>2 DEF At
  <2>4. CASE \E t \in Tasks : SetStale(t)
    <3>1. PICK t \in Tasks : SetStale(t)
      BY <2>4
    <3>2. store' = [store EXCEPT !["stale"] = [data |-> task[t].data, left |-> StaleTtl]]
      BY <2>1, <3>1 DEF SetStale, Set, Fault, Lifetime
    <3>i. task[t].data \in Versions
      BY <3>1 DEF SetStale, At, Holding, TypeOK
    <3>3. store'["stale"] = [data |-> task[t].data, left |-> StaleTtl] /\ store'["stale"] # None
      BY <3>i, <3>2, EntryAssumption DEF TypeOK, Keys, Entry
    <3>4. store'["fresh"].left \in 1..StaleTtl
      BY DEF TypeOK, Keys, Entry
    <3>5. QED
      BY <3>3, <3>4
  <2>5. CASE Tick
    <3>1. /\ store["fresh"] # None /\ store["fresh"] \in Entry /\ store["fresh"].left # 1
          /\ store'["fresh"].left = store["fresh"].left - 1
      BY <2>5 DEF Tick, Aged, TypeOK, Keys, Entry
    <3>2. CASE store["stale"] # None /\ store["stale"].left >= store["fresh"].left
      <4>1. store["stale"] \in Entry /\ store["fresh"].left \in 1..StaleTtl
        BY <3>1, <3>2 DEF TypeOK, Keys, Entry
      <4>2. store["stale"].left # 1
        BY <3>1, <3>2, <4>1 DEF Entry
      <4>3. store'["stale"] = [store["stale"] EXCEPT !.left = store["stale"].left - 1]
        BY <2>5, <3>2, <4>2 DEF Tick, Aged, Keys
      <4>4. store'["stale"].left = store["stale"].left - 1
        BY <4>1, <4>3 DEF Entry
      <4>5. store'["stale"] # None
        BY <4>1, <4>2, <4>3, EntryAssumption DEF Entry
      <4>6. QED
        BY <3>1, <3>2, <4>1, <4>4, <4>5 DEF Entry
    <3>3. CASE \E t \in Tasks : At(t, "set_stale")
      BY <2>5, <3>3 DEF Tick, At, Holding, TypeOK, Task
    <3>4. QED
      BY <2>1, <3>1, <3>2, <3>3 DEF FreshHasStale
  <2>6. CASE Next /\ ~Tick /\ \A t \in Tasks : ~SetFresh(t) /\ ~SetStale(t)
    <3>1. \A u \in Tasks : store' = store /\ (At(u, "set_stale") => At(u, "set_stale")')
      BY <2>6, WritersStay
    <3>2. CASE Tasks = {}
      BY <2>6, <3>2, Steps DEF Tasks, Change, Restart, Fault, TypeOK, FreshHasStale, At
    <3>3. CASE Tasks # {}
      BY <2>1, <3>1, <3>3 DEF FreshHasStale
    <3>4. QED
      BY <3>2, <3>3
  <2>7. QED
    BY <2>2, <2>3, <2>4, <2>5, <2>6
<1>3. QED
  BY <1>1, <1>2, Typing, PTL DEF Spec
===============================================================================
