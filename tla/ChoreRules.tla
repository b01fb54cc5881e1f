------------------------------ MODULE ChoreRules ------------------------------
(***************************************************************************)
(* The tables of the chores board and the decisions the chores service     *)
(* takes on rows it has read: none of these definitions touches the        *)
(* database.  ChoresService is the state machine that reads the rows,      *)
(* applies these decisions and writes the results.                         *)
(*                                                                         *)
(* A date is a natural number of days, a time of day one of three points:  *)
(* 0 is "00:00", 1 is the due time of the chores that have one, 2 is later.*)
(* The definitions named ...Mutant are wrong on purpose: each is a         *)
(* plausible bug that the property named beside it has to catch.           *)
(***************************************************************************)
EXTENDS Integers, FiniteSets

CONSTANTS
    Members,     \* family members
    Masters,     \* identifiers of master chores (UUIDs: never used twice)
    MaxAssocs,   \* bound: associations ever created
    MaxDay,      \* bound: last day the clock reaches
    MaxDate,     \* bound: last day an instance can be generated for
    Templates,   \* the configurations a master chore may be given
    None,        \* Python's None and SQL's NULL
    NoRow,       \* no row (yet) under this key
    Gone,        \* the row was deleted for good
    Keep         \* a column an update leaves alone

AssocIds == 1..MaxAssocs
Days     == 0..MaxDay      \* the days of the clock
Dates    == 0..MaxDate     \* the days of instances
Tods     == 0..2

(* An instance is known by its association and the first day of its period *)
(* (uq_instance_period); a period is one day long, period_end =            *)
(* period_start, for every frequency calculate_period knows.               *)
InstIds == AssocIds \X Dates

MasterStatus == {"active", "inactive", "archived"}
InstStatus   == {"active", "in_progress", "completed", "overdue", "missed",
                 "archived"}

(* A timestamp column: null, or set to the time of some request. *)
Stamp == {"null", "stamped"}

(* What a user configures on a master chore.  days: the days its rule      *)
(* names (every day for a daily rule); after: the day get_next_occurrence  *)
(* goes on to from a day that is not, or no longer, due; max:              *)
(* max_occurrences, 0 for none; cond: it has conditions; valid: its        *)
(* conditions and its rule pass the schemas, which the endpoints that      *)
(* write them do not ask.                                                  *)
Template ==
    [once: BOOLEAN, days: SUBSET Dates, after: [Days -> Dates],
     due_time: Tods \cup {None}, due_date: Dates \cup {None},
     end_date: Dates \cup {None}, max: Nat, collab: BOOLEAN, cond: BOOLEAN,
     valid: BOOLEAN]

MasterRow == [status: MasterStatus, deleted: BOOLEAN, occ: Nat, tmpl: Templates]

AssocRow == [master: Masters, member: Members \cup {None}, removed: BOOLEAN]

InstRow == [status: InstStatus, member: Members \cup {None},
            assigned_by: Members \cup {None}, started: Stamp, completed: Stamp]

(* The columns update_instance is asked to set. *)
Update == [status: InstStatus \cup {Keep}, member: Members \cup {Keep},
           assigned_by: Members \cup {None, Keep}, started: Stamp \cup {Keep},
           completed: Stamp \cup {Keep}]

Exists(row) == row \notin {NoRow, Gone}

ASSUME BoundsAssumption ==
    MaxAssocs \in Nat /\ MaxDay \in Nat /\ MaxDate \in Nat /\ MaxDay <= MaxDate

ASSUME SentinelAssumption ==
    /\ {NoRow, Gone} \cap (MasterRow \cup AssocRow \cup InstRow) = {}
    /\ NoRow # Gone
    /\ None \notin Members \cup Masters \cup AssocIds \cup Dates \cup InstIds
    /\ Keep \notin Members \cup {None} \cup InstStatus \cup Stamp \cup MasterRow

(* A rule goes on to a later day that it names.  Recurrence computes it    *)
(* from the calendar; here it is any such function.                        *)
ASSUME TemplateAssumption ==
    /\ Templates \subseteq Template
    /\ \A t \in Templates, d \in Days : t.after[d] > d /\ t.after[d] \in t.days

-------------------------------------------------------------------------------
(* Statuses the code groups together. *)

Startable == {"active", "in_progress"}

(* Mutant (OneOpenInstance): a missed occurrence is left open. *)
SupersededMutant == {"active", "in_progress", "overdue"}

(* Mutant (NothingPilesUp): only what somebody has begun is put away. *)
SupersededStartedMutant == {"in_progress", "missed", "overdue"}

(* archive_old_instances_for_association: what a newer period replaces. *)
Superseded == {"active", "in_progress", "missed", "overdue"}

(* Mutant (CompletionKept): expiry forgets that a chore can be done. *)
ExpirableMutant == InstStatus \ {"missed", "archived"}

(* get_expired_instances: what a sync declares missed once its day is over. *)
Expirable == {"active", "in_progress", "overdue"}

(* bulk_update_master_status: what archiving a master archives with it. *)
Finished == {"completed", "missed"}

-------------------------------------------------------------------------------
(* Occurrences. *)

(* RecurrenceRule.time falls back to midnight when no due time is set. *)
RuleTime(t) == IF t.due_time = None THEN 0 ELSE t.due_time

(* get_next_occurrence: today while its time has not come, else the day    *)
(* the rule goes on to.                                                    *)
NextOccurrence(t, d, now) ==
    IF d \in t.days /\ now < RuleTime(t) THEN d ELSE t.after[d]

(* The first day of the period the next instance of a chore is for. *)
PeriodFor(t, d, now) ==
    IF ~t.once THEN NextOccurrence(t, d, now)
    ELSE IF t.due_date # None THEN t.due_date ELSE d

AtLimit(c) == c.tmpl.max # 0 /\ c.occ >= c.tmpl.max

(* Mutant (LimitRespected): one occurrence too many. *)
GenerationDueMutant(c, p) ==
    IF c.tmpl.once THEN c.occ <= 1
    ELSE /\ c.tmpl.end_date # None => p <= c.tmpl.end_date
         /\ c.tmpl.max = 0 \/ c.occ <= c.tmpl.max

(* The limits of a chore, read off the copy c of its row. *)
GenerationDue(c, p) ==
    IF c.tmpl.once THEN c.occ < 1
    ELSE (c.tmpl.end_date # None => p <= c.tmpl.end_date) /\ ~AtLimit(c)

(* Mutant (CountNeverOverstates): the first instance is counted twice. *)
CountAfterMutant(c) == IF c.tmpl.once THEN 1 ELSE c.occ + 2

(* The occurrence_count written after an instance was inserted. *)
CountAfter(c) == IF c.tmpl.once THEN 1 ELSE c.occ + 1

(* Mutant (Ownership): the association's member is not handed on. *)
NewInstanceMutant(a) ==
    [status |-> "active", member |-> None, assigned_by |-> None,
     started |-> "null", completed |-> "null"]

(* Mutant (TypeOK): the instance is given the master as its member. *)
SwappedInstanceMutant(a) == [NewInstanceMutant(a) EXCEPT !.member = a.master]

(* The instance generated for association row a. *)
NewInstance(a) ==
    [status |-> "active", member |-> a.member, assigned_by |-> None,
     started |-> "null", completed |-> "null"]

(* Mutant (MarksAreTrue): the last day of a period counts as past it. *)
PastPeriodMutant(i, d) == i[2] <= d

(* get_expired_instances: period_end < today. *)
PastPeriod(i, d) == i[2] < d

(* get_overdue_instances: within the period, and past the due time. *)
PastDueTime(i, t, d, now) == i[2] = d /\ t.due_time # None /\ t.due_time < now

-------------------------------------------------------------------------------
(* Associations. *)

(* Mutant (AssociationRules): a non-collaborative chore in the pool may    *)
(* still be given to a member.                                             *)
AssociationAllowedMutant(collab, member, owners) ==
    member \notin owners /\ (collab \/ owners \subseteq {None})

(* _validate_association: owners are the members of the associations in    *)
(* force, None standing for the open pool.  Nobody twice, the pool         *)
(* included; and nobody else when the chore is not collaborative.          *)
AssociationAllowed(collab, member, owners) ==
    member \notin owners /\ (collab \/ owners = {})

(* _validate_claim_assign: whoever takes a pool instance of a              *)
(* collaborative chore must not be associated with that chore.             *)
TakeoverAllowed(collab, assocMember, member, owners) ==
    assocMember = None /\ collab => member \notin owners

-------------------------------------------------------------------------------
(* Updates of one instance row. *)

NoUpdate == [status |-> Keep, member |-> Keep, assigned_by |-> Keep,
             started |-> Keep, completed |-> Keep]

SetStatus(x) == [NoUpdate EXCEPT !.status = x]

ClaimUpdate(u) == [NoUpdate EXCEPT !.member = u, !.assigned_by = None]

AssignUpdate(u, by) == [NoUpdate EXCEPT !.member = u, !.assigned_by = by]

(* The columns revert_instance_status sets, by the status it read. *)
RevertUpdate(status) ==
    CASE status = "completed" ->
            [SetStatus("in_progress") EXCEPT !.completed = "null"]
      [] status = "in_progress" -> [SetStatus("active") EXCEPT !.started = "null"]
      [] OTHER -> SetStatus("active")

ResetUpdate ==
    [SetStatus("active") EXCEPT !.started = "null", !.completed = "null"]

(* Mutant (CompletedIsStamped): completing does not record when. *)
StatusUpdateMutant(x) ==
    IF x = "in_progress" THEN [SetStatus(x) EXCEPT !.started = "stamped"]
    ELSE SetStatus(x)

(* update_instance_status: any status is accepted as it comes. *)
StatusUpdate(x) ==
    CASE x = "in_progress" -> [SetStatus(x) EXCEPT !.started = "stamped"]
      [] x = "completed"   -> [SetStatus(x) EXCEPT !.completed = "stamped"]
      [] OTHER             -> SetStatus(x)

(* The session's unit of work writes a column only when its new value      *)
(* differs from the one loaded; a new timestamp always differs.            *)
Column(new, loaded, current) ==
    IF new = Keep \/ (new = loaded /\ new # "stamped") THEN current ELSE new

Written(u, loaded, current) ==
    [status      |-> Column(u.status, loaded.status, current.status),
     member      |-> Column(u.member, loaded.member, current.member),
     assigned_by |-> Column(u.assigned_by, loaded.assigned_by, current.assigned_by),
     started     |-> Column(u.started, loaded.started, current.started),
     completed   |-> Column(u.completed, loaded.completed, current.completed)]

(* ck_no_self_assign, with SQL's reading of a comparison with NULL. *)
SelfAssigned(row) ==
    row.assigned_by # None /\ row.member = row.assigned_by

===============================================================================
