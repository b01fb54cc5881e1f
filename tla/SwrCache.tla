------------------------------- MODULE SwrCache -------------------------------
(***************************************************************************)
(* The stale-while-revalidate cache of app/core/cache.py, for one key:     *)
(* Cache.fetch as the weather and calendar endpoints call it, the          *)
(* background refreshes it starts, the two entries it keeps in Redis, and  *)
(* the upstream service, whose data change now and then.                   *)
(*                                                                         *)
(* A task, the handler of a request or a background refresh, runs from one *)
(* await to the next without interruption; every Redis call, every call of *)
(* the fetcher and every pause between two attempts is an await.  The data *)
(* are known by their version.  Time passes in ticks; the pauses between   *)
(* attempts are far shorter than one.                                      *)
(***************************************************************************)
EXTENDS Integers, FiniteSets

CONSTANTS
    Requests,      \* requests that may be in flight together
    Refreshers,    \* bound: background refreshes in flight together
    FreshTtl,      \* fresh_ttl, in ticks
    StaleTtl,      \* stale_ttl, in ticks
    Latency,       \* ticks within which what was fetched has been stored
    MaxAttempts,   \* RetryConfig.max_attempts
    MaxVersion,    \* bound: times the upstream data change
    MaxFaults,     \* bound: Redis calls that fail, and restarts
    None

VARIABLES
    current,       \* the version of the data the upstream service has now
    stopped,       \* ticks since each version ceased to be current
    store,         \* Redis: the entries under key:fresh and key:stale
    task,          \* the local variables of every task
    last,          \* the last answer of each request, None for an error
    faults         \* Redis calls that have failed, and restarts

vars == <<current, stopped, store, task, last, faults>>

Tasks    == Requests \cup Refreshers
Versions == 0..MaxVersion
Keys     == {"fresh", "stale"}

ASSUME TtlAssumption ==
    /\ FreshTtl \in Nat \ {0} /\ StaleTtl \in Nat /\ FreshTtl < StaleTtl
    /\ Latency \in Nat \ {0} /\ MaxAttempts \in Nat \ {0}
    /\ MaxVersion \in Nat /\ MaxFaults \in Nat

ASSUME TaskAssumption ==
    Requests \cap Refreshers = {} /\ None \notin Versions

-------------------------------------------------------------------------------
(* An entry and the ticks it has left. *)
Entry == [data: Versions, left: 1..StaleTtl]

ASSUME EntryAssumption == None \notin Entry

(* tries: calls of the fetcher that have failed; data: what the last call  *)
(* returned; held: the ticks since.                                        *)
Task ==
    [at: {"idle", "get_fresh", "get_stale", "call", "pause", "set_fresh", "set_stale"},
     tries: 0..MaxAttempts, data: Versions \cup {None}, held: 0..Latency]

Idle == [at |-> "idle", tries |-> 0, data |-> None, held |-> 0]

At(t, label) == task[t].at = label

Goto(t, label) == task' = [task EXCEPT ![t].at = label]

(* Request r is answered. *)
Answer(r, v) ==
    /\ last' = [last EXCEPT ![r] = v]
    /\ task' = [task EXCEPT ![r] = Idle]

(* Redis calls fail at any time, and the cache goes on without. *)
Fault == faults < MaxFaults /\ faults' = faults + 1

-------------------------------------------------------------------------------
(* Cache.get: an error counts as a miss. *)
Hit(k) == store[k] # None /\ UNCHANGED faults

Miss(k) == IF store[k] = None THEN UNCHANGED faults ELSE Fault

(* Mutant (FreshHasStale): the two times to live are swapped. *)
LifetimeMutant(k) == IF k = "fresh" THEN StaleTtl ELSE FreshTtl

Lifetime(k) == IF k = "fresh" THEN FreshTtl ELSE StaleTtl

(* Cache.set: an error changes nothing. *)
Set(k, v) ==
    \/ store' = [store EXCEPT ![k] = [data |-> v, left |-> Lifetime(k)]] /\ UNCHANGED faults
    \/ Fault /\ UNCHANGED store

-------------------------------------------------------------------------------
(* Cache.fetch. *)

Fetch(r) ==
    /\ At(r, "idle")
    /\ Goto(r, "get_fresh")
    /\ UNCHANGED <<current, stopped, store, last, faults>>

GetFresh(r) ==
    /\ At(r, "get_fresh")
    /\ \/ Hit("fresh") /\ Answer(r, store["fresh"].data)
       \/ Miss("fresh") /\ Goto(r, "get_stale") /\ UNCHANGED last
    /\ UNCHANGED <<current, stopped, store>>

(* Mutant (AgeBounded, AgeInv, FreshAgain): what was found stale is stored   *)
(* anew.                                                                    *)
RefreshOfMutant(v) == [Idle EXCEPT !.at = "set_fresh", !.data = v]

(* What a background refresh begins with, beside the stale data v it is    *)
(* there to replace.                                                       *)
RefreshOf(v) == [Idle EXCEPT !.at = "call"]

(* A stale entry is served at once, and a refresh started that nobody      *)
(* waits for, whether or not another one is under way.  When the bound on  *)
(* Refreshers is reached, the further refresh is one that fails at once.   *)
GetStale(r) ==
    /\ At(r, "get_stale")
    /\ \/ /\ Hit("stale")
          /\ \/ \E b \in Refreshers :
                   /\ At(b, "idle")
                   /\ task' = [task EXCEPT ![r] = Idle, ![b] = RefreshOf(store["stale"].data)]
             \/ /\ \A b \in Refreshers : ~At(b, "idle")
                /\ task' = [task EXCEPT ![r] = Idle]
          /\ last' = [last EXCEPT ![r] = store["stale"].data]
       \/ Miss("stale") /\ Goto(r, "call") /\ UNCHANGED last
    /\ UNCHANGED <<current, stopped, store>>

(* The fetcher returns; what it returns was current when the upstream      *)
(* service read it.                                                        *)
Receive(t) ==
    /\ At(t, "call")
    /\ task' = [task EXCEPT ![t] = [@ EXCEPT !.at = "set_fresh", !.data = current]]
    /\ UNCHANGED <<current, stopped, store, last, faults>>

(* Mutant (Answered): the loop begins anew after every pause. *)
FailedMutant(t) == 1

(* The attempts that will have failed. *)
Failed(t) == task[t].tries + 1

(* A transient error, with attempts left. *)
Retry(r) ==
    /\ At(r, "call")
    /\ Failed(r) < MaxAttempts
    /\ task' = [task EXCEPT ![r] = [@ EXCEPT !.at = "pause", !.tries = Failed(r)]]
    /\ UNCHANGED <<current, stopped, store, last, faults>>

Resume(r) ==
    /\ At(r, "pause")
    /\ Goto(r, "call")
    /\ UNCHANGED <<current, stopped, store, last, faults>>

(* UpstreamServiceError: after the last attempt, or at once when the error *)
(* is not one of transient_errors.                                         *)
Raise(r) ==
    /\ At(r, "call")
    /\ Answer(r, None)
    /\ UNCHANGED <<current, stopped, store, faults>>

(* _background_refresh makes one attempt; its errors are logged. *)
GiveUp(b) ==
    /\ At(b, "call")
    /\ task' = [task EXCEPT ![b] = Idle]
    /\ UNCHANGED <<current, stopped, store, last, faults>>

(* What was fetched is written whatever the entry holds by now. *)
SetFresh(t) ==
    /\ At(t, "set_fresh")
    /\ Set("fresh", task[t].data)
    /\ Goto(t, "set_stale")
    /\ UNCHANGED <<current, stopped, last>>

SetStale(t) ==
    /\ At(t, "set_stale")
    /\ Set("stale", task[t].data)
    /\ IF t \in Requests THEN Answer(t, task[t].data)
       ELSE task' = [task EXCEPT ![t] = Idle] /\ UNCHANGED last
    /\ UNCHANGED <<current, stopped>>

-------------------------------------------------------------------------------
(* The environment. *)

Holding(t) == task[t].at \in {"set_fresh", "set_stale"}

(* Mutant (TypeOK): an entry stays when its time is up. *)
AgedMutant(e) == IF e = None THEN None ELSE [e EXCEPT !.left = @ - 1]

Aged(e) ==
    IF e = None \/ e.left = 1 THEN None ELSE [e EXCEPT !.left = @ - 1]

(* Beyond this age a version counts as long gone. *)
Old == StaleTtl + Latency

(* A tick passes.  That Redis answers or fails within Latency ticks, so    *)
(* that what was fetched is not held for longer, is an assumption about    *)
(* the environment: cache.py sets the client no timeout.                   *)
Tick ==
    /\ \A t \in Tasks : Holding(t) => task[t].held < Latency
    /\ store' = [k \in Keys |-> Aged(store[k])]
    /\ stopped' = [v \in Versions |->
                     IF v < current /\ stopped[v] < Old THEN stopped[v] + 1
                     ELSE stopped[v]]
    /\ task' = [t \in Tasks |->
                  IF Holding(t) THEN [task[t] EXCEPT !.held = @ + 1] ELSE task[t]]
    /\ UNCHANGED <<current, last, faults>>

(* The upstream data change. *)
Change ==
    /\ current < MaxVersion
    /\ current' = current + 1
    /\ UNCHANGED <<stopped, store, task, last, faults>>

(* The server restarts: its tasks are lost, Redis is not. *)
Restart ==
    /\ Fault
    /\ task' = [t \in Tasks |-> Idle]
    /\ UNCHANGED <<current, stopped, store, last>>

-------------------------------------------------------------------------------
Init ==
    /\ current = 0
    /\ stopped = [v \in Versions |-> 0]
    /\ store = [k \in Keys |-> None]
    /\ task = [t \in Tasks |-> Idle]
    /\ last = [r \in Requests |-> None]
    /\ faults = 0

(* The upstream service fails a call. *)
Fails(t) ==
    IF t \in Requests THEN Retry(t) \/ Raise(t) ELSE GiveUp(t)

Continue(t) ==
    \/ t \in Requests /\ (GetFresh(t) \/ GetStale(t) \/ Resume(t))
    \/ Receive(t) \/ Fails(t) \/ SetFresh(t) \/ SetStale(t)

Next ==
    \/ \E r \in Requests : Fetch(r)
    \/ \E t \in Tasks : Continue(t)
    \/ Tick
    \/ Change
    \/ Restart

Spec == Init /\ [][Next]_vars

(* The event loop resumes every task whose await is over, and time passes; *)
(* nothing obliges anyone to make a request.                               *)
FairSpec == Spec /\ (\A t \in Tasks : WF_vars(Continue(t))) /\ WF_vars(Tick)

-------------------------------------------------------------------------------
(* Properties. *)

TypeOK ==
    /\ current \in Versions
    /\ stopped \in [Versions -> 0..Old]
    /\ store \in [Keys -> Entry \cup {None}]
    /\ task \in [Tasks -> Task]
    /\ \A t \in Tasks : Holding(t) => task[t].data \in Versions
    /\ last \in [Requests -> Versions \cup {None}]
    /\ faults \in 0..MaxFaults

(* Nobody is answered with data the upstream service gave up longer ago    *)
(* than stale_ttl and the time a fetch takes, whichever refreshes overlap, *)
(* and whatever Redis loses.                                               *)
AgeBounded ==
    [][\A r \in Requests :
          Continue(r) /\ task'[r].at = "idle" /\ last'[r] # None =>
          stopped[last'[r]] < StaleTtl + Latency]_vars

(* Why AgeBounded holds: no entry outlives the age its data may have, and  *)
(* no task holds data that have been out of date for longer than it holds  *)
(* them.                                                                   *)
AgeInv ==
    /\ \A v \in Versions : v >= current => stopped[v] = 0
    /\ \A k \in Keys :
          store[k] # None => stopped[store[k].data] + store[k].left <= StaleTtl + Latency
    /\ \A t \in Tasks : Holding(t) => stopped[task[t].data] <= task[t].held

(* As long as no Redis call failed and no task was lost: while there is a  *)
(* fresh entry there is a stale one for it to fall back on, or a task      *)
(* about to write it.                                                      *)
FreshHasStale ==
    faults = 0 /\ store["fresh"] # None =>
    \/ store["stale"] # None /\ store["stale"].left >= store["fresh"].left
    \/ \E t \in Tasks : At(t, "set_stale")

(* Every request is answered: retries and refreshes of others do not keep  *)
(* it waiting.                                                             *)
Answered == \A r \in Requests : ~At(r, "idle") ~> At(r, "idle")

(* Once the upstream service has stopped failing, and if requests keep     *)
(* coming, every answer will be current from some time on: no refresh that *)
(* was slow brings old data back for good.                                 *)
FreshAgain ==
    (<>[][\A t \in Tasks : ~Fails(t)]_vars /\ \A r \in Requests : []<>~At(r, "idle")) =>
    <>[](\A r \in Requests : last[r] = current)

===============================================================================
