# Dashy API: a verification project

Dashy is the backend of a family dashboard: a chores board, a shared calendar,
the weather and a registry of family members, served by FastAPI handlers on one
asyncio event loop, over a PostgreSQL database, a Redis cache and two upstream
services.  This directory holds TLA+ models of the parts of it whose behaviour
depends on the order of steps, TLC configurations that check them on small
instances, and TLAPS proofs of the most important results for all instances.

All paths are relative to the root of the repository (`src/` in `PROJECT.json`).

## 1. Inventory

| Component | State | Operations | What is hard about it |
|---|---|---|---|
| **Chores service** (`app/domain/chores/services.py`, `app/api/routes/chores.py`) | none of its own: local copies of rows in every handler | create/patch/delete masters, associate and remove members, claim, assign, revert, reset, complete, status, delete instances, sync, bulk status changes | every repository call is an `await` *and* a commit; handlers work on rows that others have changed since; no operation is one transaction |
| **Chores repository and tables** (`app/infrastructure/persistence/`) | `master_chores`, `chore_associations`, `chore_instances` and their constraints | one method per query; each write commits | read-modify-write updates that write only dirty columns; constraints that do not match the service's checks |
| **Recurrence** (`app/domain/chores/utils/periods.py`) | none | `calculate_period`, `get_next_occurrence` | calendar arithmetic at the ends of months and years, the time of day, lists of weekdays |
| **SWR cache** (`app/core/cache.py`) | two Redis entries per key; background tasks | `fetch`, `_background_refresh`, `get`, `set` | overlapping fetches and refreshes, expiry, failing Redis calls, retries |
| **Calendar feed** (`app/api/routes/calendar.py`, `app/domain/calendar`) | entries of the cache, per-member metadata | fetch per member, merge, deduplicate | one member failing among several; the key of the default week names no week |
| **Weather feed** (`app/infrastructure/weather`) | entries of the cache | current conditions, then hourly and daily timelines page by page at once | a page failing in the middle; midnight between asking and answering; records early or twice |
| **Chore conditions** (`app/domain/chores/condition_evaluator.py`) | none | evaluate all conditions, fail closed | one call of a provider per condition, not through the cache; a failed fetch means "no"; the day may change under it |
| **Family members** (`app/api/routes/family.py`, repository, `app/core/seed.py`) | table `family_members` | list, create, replace, patch, delete, seed | check-then-insert across awaits |
| **Mock chores adapter** (`app/infrastructure/chores/mock_adapter.py`) | dictionaries | the repository's operations | nothing: made anew for each request |
| **Metrics and health**, **wiring and configuration**, **migrations and scripts** | a cached health answer; none; none | reporting, construction, one-off runs | - |

How they interact.  A request is one handler, one coroutine.  A route calls the
chores service, which awaits repository methods one after the other; the
repository commits in each writing method, so between any two of them any other
handler may read and write the same rows.  Generation of instances is reached
from three handlers: completing an instance, creating an association, and
`sync`, which the dashboard calls regularly (there is no scheduler).  Generation
asks the recurrence functions for a date and the condition evaluator for a
verdict; the evaluator calls the weather and calendar providers itself, once per
condition.  The endpoints of the two feeds call them through the cache, which may
start background tasks that outlive the request.

What would make each part correct:

* chores: an occurrence is made once; limits are respected; the counter agrees
  with the instances; what is done stays done; nobody owns what another was
  given; a sync serves everybody, also after a crash halfway; every request ends;
* recurrence: the next occurrence is the first day the rule names that can still
  be done, and does not move while it can;
* cache: nothing older than its time to live is served; a fresh entry has a
  stale one to fall back on; requests are answered; old data do not stay;
* conditions: no chore because something could not be fetched, none withheld while
  everything answered and its conditions held; every evaluation comes to an end.

`PROJECT.json` lists every component with its status, and under `hazards` the
places in the code where these can go wrong.

## 2. The modules

| Module | Models | Lines it stands for |
|---|---|---|
| `ChoreRules` | the three tables' rows and every decision taken on rows already read: limits, which instances are superseded, expired or overdue, who may claim, what an update sets, which columns are written | `services.py`, `chores_repository.py`, `models.py` |
| `ChoresService` | the state machine: the tables, the clock, and for each request in flight its local variables; one action per stretch of a handler between two awaits | `services.py`, `chores_repository.py`, `routes/chores.py` |
| `OccurrenceLedger` | abstract: chores are opened, occurrences made, counted, purged | a promise, no code |
| `ChoresRefinement` | the mapping under which `ChoresService` implements `OccurrenceLedger` | |
| `ChoresInvariant` | the inductive invariants of the proofs, in named parts | |
| `MCChores` | the chore configurations for TLC | |
| `ChoresTyping`, `ChoresProofs`, `SerialProofs` | theorems about `ChoresService` | |
| `Recurrence`, `MCRecurrence` | the calendar, the date functions, a chore generated day by day; the rules for TLC | `periods.py` |
| `RecurrenceProofs` | theorems about `Recurrence` | |
| `SwrCache` | one key of the cache, its requests and refreshes, Redis and the upstream service | `cache.py` |
| `SwrCacheProofs` | theorems about `SwrCache` | |
| `CalendarFeed`, `MCCalendar`, `CalendarFeedProofs` | the calendar of a week, fetched member by member, above the cache's promise | `routes/calendar.py`, `calendar/services.py` |
| `FamilyRegistry`, `MCFamily`, `FamilyRegistryProofs` | the family's table, the requests that write it, the seeding | `routes/family.py`, `family_repository.py`, `seed.py` |
| `ForecastPages` | one call of `get_weather`: the two timelines, their pages, the answer | `weather/owm_adapter.py` |
| `ConditionEvaluator`, `MCConditions`, `ConditionProofs` | one evaluation over such calls and the calendar's; the conditions for TLC | `condition_evaluator.py`, `schemas.py` |

### ChoresService

*State.*  `masters`, `assocs` and `insts` are the tables (`NoRow`: no row yet,
`Gone`: deleted for good; identifiers are UUIDs, never used again).  An instance
is known by its association and the first day of its period, as
`uq_instance_period` has it.  `day` and `tod` are the family's clock.  `req[s]`
is what the handler in slot `s` holds: where it is (`at`, the next repository
call), the rows it has read (`copy` is `masters_cache` of a sync, `row` the
instance `update_instance` loaded), the lists its loops run over (`todo`,
`queue`, `left`).

*Actions.*  One action is one stretch of a handler, named after what the code
does there: `LoadRow`/`CommitRow` are `update_instance`; `LookupMaster`,
`PlanInstance`, `ArchiveOld`, `InsertInstance`, `CountInstance` are
`generate_instance_for_association` (and `_generate_one_time_instance`) from its
entry to its last write; `MarkMissed`, `ListOverdue`, `MarkOverdue`,
`ListAssociations`, `NextAssociation` are `sync`; `GuardMaster`,
`CascadeArchive`, `BulkCommit` the bulk archive; `PurgeMaster`, `PurgeCommit` the
permanent delete.  `Abort` is a handler that raises: a row gone
(`StaleDataError`), a constraint that refuses (unique period, unique member,
no self-assignment, a foreign key), a schema that refuses a stored rule.  It
undoes nothing that was committed, as in the code.  `Tick` and `Restart` are the
environment.

*What is merged, and why it is sound for these properties.*

* Reads that a handler makes one after the other, with no write between them,
  are one step (for example `_validate_association`'s two queries).  A torn pair
  of reads is therefore not explored.
* The SELECT and the UPDATE of a method that sets one column to a constant are
  one step; those of `update_instance` on several columns are two, because which
  columns it writes depends on what it loaded (`Written`).
* A transaction that has several statements and one commit is one step.
* `CreateMaster`, `PatchMaster`, `SoftDeleteMaster` and `BulkSetStatus` are one
  repository call each and need no slot: they happen between any two steps of
  the handlers, in one-slot runs too.
* The verdict of the conditions is any of true, false or an exception.
* Names, categories, tags, points and texts are left out.

*Templates.*  What a user configures on a master is a record of the constant
`Templates`: the days its rule names and the day it goes on to (`after`), its
due time, dates and limits.  `TemplateAssumption` asks only that a rule goes on
to a later day it names, which `Recurrence` checks of the code's date functions
(`NextIsFirst` for rules that name one day; the code breaks it for several, see
`SkippedWeekdays`, but what it then returns is still a later day the rule names).
`RulesAreTemplates` of `RecurrenceProofs` proves it, for every rule.

### Recurrence

Dates are months and days of the Gregorian calendar, with leap years and
weekdays computed as `datetime` does.  `NthWeekday`, `CalculatePeriod`,
`AdvanceOneMonth` and `NextOccurrence` follow `periods.py` branch by branch; the
reference is `Names`, what a rule means day by day, written without them.

### SwrCache

`store` has the two entries of the key, each with the ticks it has left;
`task[t]` is a request or a background refresh at its current await; `current`
is the version of the data the upstream service has, `stopped[v]` how long ago
it gave up version `v`.  A Redis call may fail at any time (`get` then counts as
a miss, `set` changes nothing).  `Tick` lets time pass; `Latency` bounds how long
a task holds what it fetched before both entries are written: an assumption about
the environment, since `cache.py` gives the Redis client no timeout.  `Change` and `Restart` are the
environment.  When all background refreshes of the bound are busy, a further
one is one that fails at once: a behaviour of the code, so that the bound blocks
nobody.  The errors of the weather adapter reach `fetch` wrapped in
`UpstreamServiceError`, which is in no `transient_errors`: for the two feeds
`Retry` is never taken, `Raise` always.  The model keeps both.

### CalendarFeed

`fetch[f]` is one call of `fetch_calendar_events`: its query, the week fixed when
`get_calendar` began, the members listed (`all`), those still to be asked
(`todo`), those who were answered (`ok`) and `all_events` (`got`).  `store` holds
the stale entry of each query, the one that lives longest: a fresh entry is
written with it and cannot show anything older.  A fetch may start at any moment,
since a request may find the fresh entry expired or Redis failing.  A turn of the
loop that fails may already have appended some events, because `parse_event` runs
inside the `try`.  A retry of a fetch (the database failing in
`get_all_members`) keeps the week of its request, and is `ListMembers` later on.
`steady` is a history variable: the events that have been in a calendar ever since
a fetch began.  Times, texts and attendees of events are left out.

### FamilyRegistry

`members` is the table by its unique key.  `call[c]` is a handler: `read` is
`get_member`, `load` the SELECT of `save` or `delete`, `commit` its write, each an
await at which others run.  `Written` sets only the columns in which the
member differs from the row `save` loaded, as SQLAlchemy does, and never the
primary key; `Abort` is a commit the database refuses.  `referred` are the UUIDs
in the foreign keys of the chores tables, which `Refer` and `Release` change.
`Restart` loses every handler and seeds the table if it is empty.

### ForecastPages and ConditionEvaluator

`call` is the one call of `get_weather` under way: `start` the day whose midnight
was asked for, `paging` the timelines `asyncio.gather` still waits for, `got`
their records, `shown` the days of the answer.  A record is its place in time.  A
page has any number of records up to `PageSize`; the first may come early (a
record of before the midnight asked for) or repeat the last one of the page
before.  `ReceivePage` joins and trims, `LosePage` drops a timeline, `BuildResponse`
skips past days and repeated ones, cuts, and sorts the hours under their days.

`eval` is the coroutine `evaluate`: the results so far and the day a calendar call
was made for.  `UseWeather` is `_evaluate_weather` from the answer to the
comparison, with the clock read once more for snowfall and rainfall;
`UseCalendar` the same of a calendar condition.  Of a condition is kept what it
looks at and whether its comparison is sound, can never hold (titles compared for
equality with a text) or raises (a text that is no number, an order between
titles and a text): `schemas.py` admits all three.  Whether an amount or the
events of a day satisfy a comparison is fixed by the constants `Snowy` and `Busy`;
the current reading changes while calls are under way.  `ended`, `extra` and
`since` are history variables.

`Midnight` comes at most once between the request for the timelines and the use
of the answer: a request has a timeout of ten seconds and a call makes fewer than
seventy.  Two assumptions are about the upstream service: a page with a `next` has
records (the code follows empty ones without end), and records are in order.  A
day has the same number of hours always; the days on which clocks change are left
out.  The Google adapter's `fetch_events` is one step that answers or raises.

## 3. The runs

Passing runs:

| Run | Question | Bounds |
|---|---|---|
| `SerialBoard` | over four days, do counter, limits and open instances stay right? | 1 request, 1 master of 6 kinds, 2 associations, days 0..3, instances to day 4 |
| `SerialUses` | do status changes, claims, assignments, bulk archiving and syncs respect each other? is an assignment always by one to another? | 1 request, 2 members, 2 associations, 2 days, one-time chores, shared or not |
| `SyncServes` | does a sync mend what a crash left? does what is to be done pile up? | 1 request, 2 masters, 2 associations, 2 days, restarts anywhere |
| `Counting2` | what is left of the counter when requests overlap? does the service keep the ledger? does every request end? | 2 requests, 1 collaborative master, 2 associations, 1 day; masters patched and paused, associations made, completions, syncs |
| `Occurrences` | is the next occurrence right on every day? | 20 rules, 15 December 2027 to 20 March 2028, three times of day |
| `FamilyWeek` | which week, and whose events, does the calendar show? | 2 fetches, 2 members, a shared event, a named week and the default, 4 weeks, 1 change |
| `Registry` | do members keep their identity under overlapping requests and restarts? | 2 requests, 2 members, 1 column of 2 values, 4 UUIDs, 1 restart |
| `Conditions` | is a verdict true of the world? does an answer begin today? does every evaluation end? | 5 configurations, forecasts of 2 days of 2 hours, pages of up to 2 records, 1 early or repeated record per timeline, 3 days, 2 readings |
| `WarmAndStale` | what may the cache serve, and when? | 2 requests, 1 refresh, TTLs 1 and 2, latency 1, 2 attempts, 2 versions, 1 fault |

Why the bounds are enough to be interesting.  With *one slot* a request runs to
its end before the next starts, apart from the slotless masters' operations,
the clock and restarts: these runs are long histories of legal calls.  With
*two slots* every interleaving of two handlers is explored; the hazards of the
code each need two.  Two associations are the least with which a sync uses one
copy of a master twice.  `MaxDate` exceeds `MaxDay` by one, so every rule has a
day to go on to.  The recurrence run passes the end of a year, a leap day,
months of 29, 30 and 31 days and months without a fifth Friday or Sunday.  In
`FamilyWeek` a week has one day and an entry lives one week, the proportion of
`CALENDAR_STALE_TTL`; what matters is that entries and fetches outlive a week.
In `Registry` four UUIDs let a member be seeded, deleted and created again while
an older request for the same key is still under way.  In `Conditions` a timeline
takes two pages or more, each of which may be short, end early, repeat a record
or be lost; three days let midnight pass before the timelines are asked for,
between two pages, and between the answer and its use.  In
the cache run the two requests and the refresh can all hold fetched data at the
same time, and the bound of `AgeBounded` is reached.

Scope of some properties:

* `CounterExact` and `LimitRespected` speak of chores that are not collaborative
  and one request at a time: with two associations a sync loses counts
  (`SharedLimit`), and with two requests the code loses updates.  What survives
  concurrency is `CountNeverOverstates`, which is proved.
* `OneOpenInstance` is checked without revert, reset and free status updates: each
  can reopen an instance whose successor exists, and nothing in the repository
  forbids that.
* `AssociationRules` is checked without `patch_master`, which may make a shared
  chore exclusive afterwards, unchecked.
* `AssociationRules`, `CompletionKept` and `BulkArchiveSafe` hold for one request
  at a time, and only there: their runs show that the guards and lists are right
  over long histories, and nothing about the overlaps, which break each (below).
  They are not listed with the hazards of those overlaps.  `MarksAreTrue` is run
  with one request and proved for any number.
* `NothingPilesUp` is about the overlap of generations.  Each lists what it is to
  archive, awaits, and inserts; two that overlap both leave their instance open,
  so `OneOpenInstance` is lost, and `chores_repository.py:547` wants old instances
  not to "accumulate in the database".  What holds is that there are never more
  than requests run at once, since the next generation lists all of them.  The run
  has one request and restarts; for any number of requests it is proved
  (`NeverPilesUp`).  Trials with two slots on one daily chore agree, over two days
  (395,360 states) and three (4,142,700), and so does its inductive invariant
  `PileInv`; they are not among the runs.  It counts instances that are active or
  in progress.  Missed and overdue ones have no such bound: a sync with an old
  list may mark an instance missed that was archived meanwhile.
* `Ownership` runs with one request at a time, and is proved for any number of
  them.
* `Counting2` has no deletion and no restart: a third operation on the same rows
  would put it out of TLC's reach.  What it says of safety is proved with both;
  that requests end is shown for handlers whose lists gain rows and change, not
  for rows deleted for good under them.
* `StartsToday` asks for all the days only if at most one record was of no use:
  the adapter fetches one more than it shows, so midnight or one repetition costs
  nothing, both together a day.
* `UnmetIsTrue` speaks of evaluations in which every call answered in full.
* `SyncServesAll` is checked with rules their schema accepts.
* `ShowsItsWeek` bounds how late the default week may be; that it is the current
  one, as its endpoint says, is not so (below).

*Fairness.*  `Counting2` assumes `WF(Continue(s))`: the event loop resumes a
handler whose query was answered.  Nothing obliges anyone to make a request.
`Conditions` assumes `WF(Continue)`: a provider answers or fails (each request has
a timeout) and the loop resumes whoever waited; every step of it brings the
evaluation nearer its end.
`WarmAndStale` assumes the same of every task, and that time passes.
`FreshAgain` takes its conditions (the upstream service stops failing, requests
keep coming) as hypotheses of the formula.

*Deadlock* is checked in every run: something can always happen, if only a new
request, a fetch or `Generate`.

Runs that show a disagreement between the code and what the repository says of
it (the quotations are in `PROJECT.json`, `findings`):

| Run | What it shows |
|---|---|
| `SharedLimit` | a sync passes `max_occurrences` of a shared chore, one request at a time |
| `SyncArchivesToday` | a daily chore without a due time is archived on the very day it is for |
| `SkippedWeekdays` | a chore for Monday, Wednesday and Friday skips the last two |

Met while modelling, all reachable in the models, but kept without a run of
their own:

* a sync lists the expired instances and then sets each to missed without looking
  again: one completed in between is marked missed, and its stamp stays
  (`CompletionKept` with two slots; `services.py:967` says "Process instances past
  their period_end with non-completed status.");
* a request whose attempts all fail is refused although another request or a
  refresh has filled the cache meanwhile (`Raise` with an entry in `store`;
  `cache.py:219` says "When all retry attempts fail and no stale cache exists.");
* the default week is cached under a key without a week, so after a change of weeks
  the week before is shown, for up to seven days where the refreshes fail
  (`ShowsItsWeek` without its allowance; `routes/calendar.py:48` says "If start_date
  and end_date are not provided, defaults to the current week.");
* a PUT of an existing member answers with a new UUID that is stored nowhere
  (`ReplaceFamilyMember`, then `Written`; `api/models/family.py:16` calls it
  "Database UUID primary key (used as FK in chores/rewards)");
* a PATCH of one column takes back another request's change of a second one
  (`Written` over a newer row; `routes/family.py:155` says "Only the fields provided
  in the request body are updated.");
* two POSTs with one key may both be answered 201, the second as an update of the
  first (`Load` finds a row; `routes/family.py:71` promises a 409);
* a start that dies while it seeds leaves the rest unseeded for good (`ToSeed`);
* two overlapping requests claim and assign the same instance: `update_instance`
  leaves out `assigned_by`, loaded as null, and the claim ends up recorded as an
  assignment by somebody (`CommitRow` over a newer row; `services.py:237` says
  a claim "clears assigned_by");
* `create_association` with `auto_assign` that the database refuses leaves the
  association and its instance behind, and repeating the request is then refused
  because of them;
* an instance is generated between the check and the write of a bulk archive, and
  its master is archived with it still active (`BulkArchiveSafe` with two slots);
* two requests validate an association of an exclusive chore before either
  inserts, and both are in force (`AssociationRules` with two slots);
* a permanent delete of a master without associations raises, since it uses a
  name only the other branch imports (`chores_repository.py:252`; `PurgeCommit`
  requires `queue # {}`, `Raises` has the rest);
* a soft-deleted master can be resumed in bulk or by PATCH, and generates again;
* a member whose association was removed can never be associated with that chore
  again: the unique constraint counts removed rows, the checks do not
  (`docs/plans/CHORES-REDESIGN.md:104`);
* one stored rule that its schema refuses ends every sync at that association
  (`SyncServesAll` with the template `Malformed`);
* `frequency_interval` is read by nothing (`schemas.py:46` says "Every N
  days/weeks/months/years");
* `day_of_week` is compared with `date.weekday()`, whose 0 is Monday, while
  `models.py:134` says "0=Sun..6=Sat".

Met while modelling the weather and the conditions:

* a daily timeline that fails beside an hourly one that does not gives an answer
  without a forecast, which the cache stores as complete (`BuildResponse` with
  `got["daily"] = None`; `owm_adapter.py:307` raises only "If both failed");
* the example of a calendar condition, `"event_type": "meeting", "operator": "eq"`
  (`schemas.py:112`), compares a list of titles with a text and can never be
  satisfied (`test |-> "never"`);
* the number given as `event_count` is used for nothing but its presence: `value`
  is what the count is compared with;
* a `value` that is no number, or `contains` of a number, raises out of `evaluate`
  and ends the sync (`Compare` with `"clash"`);
* each condition makes its own call of its provider, not through the cache
  (`docs/plans/CHORES-REDESIGN.md:788` says "Weather data already cached upstream");
* the verdict is about today, though the instance it decides on may be for a later
  day;
* a calendar condition looks at the calendar of the first configured member, not
  of the family registry, and the Google adapter reads the first page of events
  only;
* a current reading without a wind speed is taken as 0 (`owm_adapter.py:172`), so a
  condition that asks for less wind than some value is met without data; the model
  has one reading per moment and leaves this default out, so `MetIsTrue` says
  nothing of it;
* hourly dew points and all wind speeds stay metric when imperial units are asked
  for;
* `metrics.py` calls an entry "fresh" that only its stale copy still holds.

Every property of a passing run has a mutant: a definition of the model with a
plausible bug (`...Mutant`, next to it), with which TLC finds the property
violated under the same configuration.

## 4. The proofs

All theorems are about the specifications the runs check, for every value of the
constants that satisfies the named assumptions (`BoundsAssumption`,
`SentinelAssumption`, `TemplateAssumption`, `OpsAssumption`; `TtlAssumption`,
`TaskAssumption`, `EntryAssumption`; `RegistryAssumption`; `FeedAssumption`;
`ForecastAssumption`, `ConfigAssumption`; `RulesAssumption`, `ClockAssumption`).  They hold for any number of masters,
members, associations and days, and, except where a theorem of `SerialProofs` says
`OneAtATime`, for any number of requests in flight (`NeverPilesUp`: any finite number).

* `ChoresTyping`: `Basis` and `Typing`.  `TypeOK` is not inductive: a handler's
  next step needs what its local variables say.  `Base` adds `Locals` (at each
  label, a handler holds what its next call needs) and `Linked` (the foreign keys,
  which tell that an instance has an association and that a master).  There is one
  lemma per handler, and one step per action.
* `ChoresProofs`: `Counting` and `CounterSafe`, `Spec => []CountNeverOverstates`.
  The counter is written from a copy, so the invariant has to speak of copies.
  `CopiesLag`: a copy of a master never says more than the number of instances
  there are now, and between `InsertInstance` and `CountInstance` at least one
  less.  It survives the steps of others because instances are never removed
  without their master (`Attached` and `Linked` exclude a purge that takes them
  from another one).  Lost updates lose counts; nothing can make the counter too
  high, so no limited chore is stopped short by a race.
* `ChoresProofs` also has `LedgerKept`, `Spec => KeepsLedger`, the refinement.  Every
  action is matched with a step of the ledger or a stutter: `CreateMaster` opens,
  `InsertInstance` makes, `CountInstance` counts, `PurgeCommit` purges, all else
  leaves the ledger alone.  `CountInv` gives the step `Count` its bound.
* `ChoresProofs`, third: `Owning` and `OwnersKept`, `Spec => []Ownership`.
  `update_instance` writes the columns in which the request differs from the row
  it loaded, over the row as it is by then.  `Remembering` says what the loaded
  row is still good for: an update that names an assigner names a member too, and
  if the loaded row had a member, so has the row now, or it was purged together
  with its association.  Without it a commit that leaves `member` alone, since it
  already was what the request asks for, could leave an assigner beside nobody.
  It holds because no write puts nobody in a member's place, and what was deleted
  for good never comes back under its key.
* `SwrCacheProofs`: `Typing`, `Ageing` and `NeverTooOld`, `Spec => AgeBounded`.
  `AgeInv` relates each entry's remaining time to the age of its data, and each
  task's data to how long it has held them; writes in any order preserve it.
  `FallBack`, `Spec => []FreshHasStale`, needs no more than types: the stale entry
  is written by the task that wrote the fresh one, and lives longer.
* `FamilyRegistryProofs`: `SamePerson`, `ReferencesHold`, `SeedsOnce` and
  `RegistryTyping`, for any number of requests, members and restarts.  `RegistryInv`
  adds what the table alone does not say: `OneKey`, that no UUID is known of two
  members, counting those in the hands of requests that may still write them (a
  PATCH whose member is deleted before it loads the row inserts it again, with the
  old UUID); `Issued`, that none is known before it is generated; and `Seeding`,
  that nobody is served while the table is seeded.

* `SerialProofs`, first part: what the board promises when one request is served at
  a time, in the theorems' words `OneAtATime` (`Slots` has one member).  The server
  does not see to that; a household mostly does.  These theorems are about long
  histories of requests, days and stops, and they leave out the properties whose
  only hazard is an overlap (`CompletionKept`, `AssociationRules`,
  `BulkArchiveSafe`), which would say nothing more than the guards.  Between any two steps
  of the one handler the clock may pass midnight, an operator may create, delete,
  pause or resume masters, and the server may stop where the theorem allows it.
  Three invariants build on each other:
  * `MarksInv` (any number of requests): what a sync has listed to be missed or
    overdue is past its day or its due time, and stays so while the clock goes on,
    since instances disappear only with their association and templates stay.
    `MarksTrue`, `Spec => MarksAreTrue`, needs `NoPatch`: a PATCH may move the due
    time between the query and the write.
  * `UseInv`: the row a handler loaded is still the row, what it is about to mark or
    to put away is not completed, and a completed instance has its stamp.
    `StampKept`, `Spec => []CompletedIsStamped`, follows.
  * `BoardInv`: each copy of a master has the row's template; that of a chore with
    one association also has its counter when an instance is made, and room for one
    more; a sync has not copied such a master before its association's turn; and the
    counter is the number of instances, less one between insert and count.
    `CounterRight` and `LimitKept` need `NoPatch` (a PATCH may make a shared chore
    exclusive) and `NoRestart`: a stop between the insert and the count leaves an
    instance that is never counted.  `Alone` is why they speak
    of chores that are not collaborative: a sync visits two associations of a shared
    chore with one copy (`SharedLimit`).
  * `OpenInv`: no instance is for a later period than the next one would be, so the
    instances `archive_old_instances_for_association` selects, those before the new
    period, are all that is open; and a one-time chore whose counter reads zero has no
    instance.  `OneIsOpen`, `Spec => []OneOpenInstance`, needs `NoReopen` (no revert,
    no reset, no free status) and `InOrder`: a rule goes on to no later a day than it
    will tomorrow and skips none of its own.  `RulesAreTemplates` proves that of the
    code's date functions for rules with one day of the week; where the code breaks `NextIsFirst`
    (several days of the week), it breaks `InOrder` too: after Monday's instance it
    makes next Monday's, then on Wednesday Wednesday's, and both are open.

  TLC has checked these invariants, on the bounds of `SerialBoard` and
  `SerialUses`, before they were proved.  None but `MarksTrue` extends to two
  requests.
* `SerialProofs`, second part: `NeverPilesUp`, `Spec => []NothingPilesUp`, for any
  finite number of overlapping requests and for restarts anywhere.  A handler cannot
  know what others make after its list was read, so the invariant does not bound the
  instances but *attributes* them: `Attributed` says that the instances to do of an
  association can be put down to distinct slots, each to one whose handler will not
  leave it beside another (`Spares`): if that handler is about to archive for this
  association the instance is on its list, and if it is about to insert for it none
  is put down to it.  An insert then puts its own instance down to its own slot,
  which is free; a plan lists every instance to do, because each is for an earlier
  period (`Prompt`, and `Intends` for the one about to be made); every other step
  makes none and reopens none.  When the handler ends or dies its slot keeps the
  instance, and the next generation in that slot has to list it.  An injection into
  `Slots` bounds the number (`FS_Injection`).  `NoPatch`, `NoReopen` and `InOrder`
  are needed as above; `OneAtATime`, `NoRestart` and the counters are not.
* `RecurrenceProofs`: `NextNamed`, `PeriodRight`, `NothingSkipped`, `OccurrenceStays`,
  `InOrderOfDates` and `RulesAreTemplates`, for every rule of `Rule` and every day, not
  only the sixteen weeks TLC runs over.  The calendar comes first: a month begins where
  the one before it ends (`NextMonthStarts`, with the leap years of the 400-year cycle),
  so dates are counted in their order (`OrdinalOrder`), `timedelta` adds to the count
  (`PlusDays`) and weekdays come round every seven days (`Weekdays`).  Then the date
  functions: `NthWeekday` finds the one day of a month that is the n-th of its weekday,
  or the last (`NthWeekdayIs`); a month has exactly one day that a monthly or yearly
  rule names (`OneInMonth`); `DaysTo` leads to the first day of a week
  (`DaysToFirst`).  What `get_next_occurrence` answers (`NextRight`) is the day found
  in this week, month or year, or, when that is over, the one in the next.  Only "the
  first one" needs `OneWeekday`, that weekly rules have one day: the run
  `SkippedWeekdays` shows why.  `RecurrenceInv` says that no instance is for a later
  day than the next occurrence, which only moves to later days as the clock goes on;
  an instance that can still be done is then the next occurrence itself.
  `RulesAssumption` asks that rules pass the validator and keep to the ranges of
  its documentation.
* `CalendarFeedProofs`: `FeedTyping`, `WeekServed`, `AllShown` and `AnswersLast`, for
  any number of members, weeks, events and overlapping fetches.  `FeedInv` says of a
  fetch that its week is that of its query when it began, no longer ago than
  `Latency`, and that it holds every event of its week that was there all along for
  each member whose turn succeeded; of an entry, that it shows the week of its query,
  or, for the default week, that of a day no longer ago than `Latency` and the time
  it has been kept.
* `ConditionProofs`: `EvaluatorTyping`, `DaysInOrder`, `HoursComplete`, `MetIsEarned`
  and `UnmetIsEarned`, for pages and days of any length and any conditions.
  `ForecastInv` keeps of each timeline that its records go up in steps of at most one
  from the record asked for, and that as many came early or twice as were counted; a
  sequence in such steps, filtered of past days and repeated ones, leaves no day out.
  `EvaluationInv` says of each result that it was true of the world at a moment since
  the evaluation began.  What the code filters is
  written by the positions that stay (`Subsequence`), and the least of a set of
  numbers, which would take an induction, is found by the well-foundedness of finite
  sets (`WFMin`).  `ForecastAssumption` asks that `None` is no reading and no sequence.

Only model-checked: liveness (`RequestsEnd`, `EvaluationEnds`, `Answered`,
`FreshAgain`) and anything with `ENABLED`, which the prover has no rules for;
`SyncServesAll`, which is true on the bounds of its run but not of every clock: a
sync that midnight overtakes between two associations has served them for different
days.  No module declares a `RECURSIVE` operator.

## 5. Not modelled

Categories and tags, listings and filters, texts, points; the statistics and
connection handling of the cache, and its `clear` and `delete`, which nothing in the
application calls; the calendar's metadata per member, which only the metrics
read; the inside of the Google adapter, and units and field mapping of the weather
adapter; metrics, wiring, migrations and scripts, which keep no state that two
requests could disagree on.  The mock chores adapter: a new one, with data
generated anew, is made for every request, so nothing it stores outlives the
request and none of the histories explored here exist in it.  The
members are a constant set of `ChoresService`, and the chores a set of references
in `FamilyRegistry`.  Torn reads within one handler
and a database that fails in the middle of a request other than by a restart
are not explored.

## 6. Plan

Done: the chores service, its tables, the ledger; recurrence; the cache; the
calendar feed; the family registry; the weather adapter's pages and the conditions;
the proofs listed above.  Next, in this order:

1. `CalendarFeed` above an abstract cache that `SwrCache` implements, instead of a
   promise restated.

The runs worth keeping are few: a new passing run may take the place of one of
those that show a disagreement, which then moves to the list above.
