---------------------------- MODULE ChoresService ----------------------------
(***************************************************************************)
(* The chores service over its database: every endpoint of                 *)
(* app/api/routes/chores.py that writes, as the sequence of repository     *)
(* calls its handler awaits.                                               *)
(*                                                                         *)
(* A handler runs from one awaited repository call to the next without     *)
(* interruption, and at each await any other handler may run: an action is *)
(* one such stretch.  Every repository write commits at once, so what a    *)
(* handler has read is out of date as soon as another handler commits.     *)
(* Slots bounds the requests in flight; with one slot the board is used by *)
(* one request at a time.                                                  *)
(*                                                                         *)
(* An update of several columns is two steps, the SELECT that loads the    *)
(* row and the UPDATE that writes the columns found to differ.  An update  *)
(* of one column to a constant is one step: it changes what the row would  *)
(* hold had the write happened where the row was loaded, or not at all.    *)
(***************************************************************************)
EXTENDS ChoreRules

CONSTANTS
    Slots,       \* requests that may be in flight together
    Ops          \* the kinds of request that are made

OpKinds ==
    {"create_master", "patch_master", "soft_delete", "purge", "bulk_set",
     "bulk_archive", "create_assoc", "delete_assoc", "claim", "assign",
     "revert", "reset", "complete", "status", "delete", "sync", "restart"}

ASSUME OpsAssumption == Ops \subseteq OpKinds

VARIABLES
    masters,     \* table master_chores
    assocs,      \* table chore_associations
    insts,       \* table chore_instances
    day, tod,    \* the clock, in the family's time zone
    req          \* what each handler in flight holds in its local variables

vars == <<masters, assocs, insts, day, tod, req>>
tables == <<masters, assocs, insts>>
clock == <<day, tod>>

-------------------------------------------------------------------------------
(* The local state of a handler.  at: the repository call it makes next;   *)
(* copy[m]: the row of master m it holds, Keep when it has not read one.   *)

Labels == {"idle", "load", "commit", "lookup", "insert_assoc", "gen", "archive",
           "insert", "count", "release", "remove", "expire", "overdue", "next",
           "guard", "purge"}

Copy == MasterRow \cup {Keep}

Request ==
    [op: OpKinds \cup {"idle"}, at: Labels, master: Masters \cup {None},
     assoc: AssocIds \cup {None}, member: Members \cup {None},
     inst: InstIds \cup {None}, upd: Update, row: InstRow \cup {NoRow},
     copy: [Masters -> Copy], todo: SUBSET InstIds, queue: SUBSET AssocIds,
     batch: SUBSET Masters, left: SUBSET Masters]

Idle ==
    [op |-> "idle", at |-> "idle", master |-> None, assoc |-> None,
     member |-> None, inst |-> None, upd |-> NoUpdate, row |-> NoRow,
     copy |-> [m \in Masters |-> Keep], todo |-> {}, queue |-> {},
     batch |-> {}, left |-> {}]

At(s, label) == req[s].at = label

Goto(s, r) == req' = [req EXCEPT ![s] = r]

Finish(s) == Goto(s, Idle)

(* The handler of slot s begins: op is made, and r is what its first reads *)
(* leave it with.                                                          *)
Begin(s, op, r) ==
    /\ op \in Ops
    /\ At(s, "idle")
    /\ Goto(s, [r EXCEPT !.op = op])
    /\ UNCHANGED <<tables, clock>>

-------------------------------------------------------------------------------
(* What the repository's queries return. *)

InForce(m) ==
    {a \in AssocIds :
        Exists(assocs[a]) /\ assocs[a].master = m /\ ~assocs[a].removed}

Owners(m) == {assocs[a].member : a \in InForce(m)}

InstancesOf(m) == {i \in InstIds : insts[i] # NoRow /\ assocs[i[1]].master = m}

(* Instances among ids whose status is one of st. *)
Having(ids, st) == {i \in ids : insts[i] # NoRow /\ insts[i].status \in st}

OfAssociation(a) == {a} \X Dates

(* One commit that gives every instance of ids the status x. *)
SetStatuses(ids, x) ==
    insts' = [i \in InstIds |->
                IF i \in ids THEN [insts[i] EXCEPT !.status = x] ELSE insts[i]]

Vanished(ids) == \E i \in ids : insts[i] = NoRow

-------------------------------------------------------------------------------
(* Master chores: one repository call each, so one step each. *)

NewMaster(t) == [status |-> "active", deleted |-> FALSE, occ |-> 0, tmpl |-> t]

CreateMaster(m) ==
    /\ "create_master" \in Ops
    /\ masters[m] = NoRow
    /\ \E t \in Templates : masters' = [masters EXCEPT ![m] = NewMaster(t)]
    /\ UNCHANGED <<assocs, insts, clock, req>>

(* A PATCH sets the fields it was sent, never to null: it cannot take away *)
(* a due time, a date or a limit.  It may set status, on a soft-deleted    *)
(* master too.                                                             *)
Patchable(old, new) ==
    /\ old.due_time # None => new.due_time # None
    /\ old.due_date # None => new.due_date # None
    /\ old.end_date # None => new.end_date # None
    /\ old.max # 0 => new.max # 0

PatchMaster(m) ==
    /\ "patch_master" \in Ops
    /\ Exists(masters[m])
    /\ \E t \in Templates, x \in MasterStatus :
          /\ Patchable(masters[m].tmpl, t)
          /\ masters' = [masters EXCEPT ![m].tmpl = t, ![m].status = x]
    /\ UNCHANGED <<assocs, insts, clock, req>>

SoftDeleteMaster(m) ==
    /\ "soft_delete" \in Ops
    /\ Exists(masters[m])
    /\ masters' = [masters EXCEPT ![m].deleted = TRUE, ![m].status = "archived"]
    /\ UNCHANGED <<assocs, insts, clock, req>>

(* The UPDATE of bulk_update_master_status. *)
WithStatus(batch, x) ==
    [m \in Masters |->
        IF m \in batch /\ Exists(masters[m]) THEN [masters[m] EXCEPT !.status = x]
        ELSE masters[m]]

(* Pause and resume check nothing: the UPDATE is all there is. *)
BulkSetStatus ==
    /\ "bulk_set" \in Ops
    /\ \E batch \in SUBSET Masters \ {{}}, x \in {"active", "inactive"} :
          masters' = WithStatus(batch, x)
    /\ UNCHANGED <<assocs, insts, clock, req>>

-------------------------------------------------------------------------------
(* Updates of one instance.  Each handler first reads the instance (a      *)
(* missing one ends it with an error, which changes nothing), then         *)
(* update_instance loads it again and commits.                             *)

BeginUpdate(s, op, i, u) == Begin(s, op, [Idle EXCEPT !.at = "load", !.inst = i, !.upd = u])

MayTake(i, u) ==
    LET a == assocs[i[1]]
    IN  TakeoverAllowed(masters[a.master].tmpl.collab, a.member, u, Owners(a.master))

ClaimInstance(s) ==
    \E i \in InstIds, u \in Members :
        /\ insts[i] # NoRow
        /\ MayTake(i, u)
        /\ BeginUpdate(s, "claim", i, ClaimUpdate(u))

AssignInstance(s) ==
    \E i \in InstIds, u, by \in Members :
        /\ insts[i] # NoRow
        /\ MayTake(i, u)
        /\ BeginUpdate(s, "assign", i, AssignUpdate(u, by))

(* The status read here decides what is written two awaits later. *)
RevertInstanceStatus(s) ==
    \E i \in InstIds :
        /\ insts[i] # NoRow
        /\ insts[i].status \in {"completed", "in_progress", "missed", "overdue"}
        /\ BeginUpdate(s, "revert", i, RevertUpdate(insts[i].status))

ResetInstance(s) ==
    \E i \in InstIds : insts[i] # NoRow /\ BeginUpdate(s, "reset", i, ResetUpdate)

UpdateInstanceStatus(s) ==
    \E i \in InstIds :
        /\ insts[i] # NoRow
        /\ \/ BeginUpdate(s, "complete", i, StatusUpdate("completed"))
           \/ \E x \in InstStatus : BeginUpdate(s, "status", i, StatusUpdate(x))

DeleteInstance(s) ==
    \E i \in InstIds :
        /\ insts[i] # NoRow
        /\ insts[i].status \in {"active", "archived"}
        /\ BeginUpdate(s, "delete", i, SetStatus("archived"))

(* update_instance: SELECT. *)
LoadRow(s) ==
    /\ At(s, "load")
    /\ insts[req[s].inst] # NoRow
    /\ Goto(s, [req[s] EXCEPT !.at = "commit", !.row = insts[req[s].inst]])
    /\ UNCHANGED <<tables, clock>>

Merged(s) == Written(req[s].upd, req[s].row, insts[req[s].inst])

(* update_instance: UPDATE of the columns that differ from the loaded row. *)
(* A completed instance goes on to generate the next one.                  *)
CommitRow(s) ==
    /\ At(s, "commit")
    /\ insts[req[s].inst] # NoRow
    /\ ~SelfAssigned(Merged(s))
    /\ insts' = [insts EXCEPT ![req[s].inst] = Merged(s)]
    /\ IF req[s].upd.status = "completed"
       THEN Goto(s, [Idle EXCEPT !.op = req[s].op, !.at = "lookup",
                                 !.assoc = req[s].inst[1]])
       ELSE Finish(s)
    /\ UNCHANGED <<masters, assocs, clock>>

-------------------------------------------------------------------------------
(* generate_instance_for_association, on behalf of a completion, of a new  *)
(* association or of a sync.  The handler works on a copy of the master.   *)

Held(s) == req[s].copy[req[s].master]

(* Mutant (RequestsEnd): the loop does not move on. *)
RemainingMutant(s) == req[s].queue

(* Mutant (SyncServesAll): the loop returns what it generated first. *)
RemainingNoneMutant(s) == {}

(* The associations a sync has still to visit after this one. *)
Remaining(s) == req[s].queue \ {req[s].assoc}

(* Where the caller goes on with the instance it got, or None: a sync with *)
(* the next association, an association created with auto_claim or         *)
(* auto_assign with that update (its association has a member, so          *)
(* _validate_claim_assign returns at once), the others end.                *)
Resume(s, i) ==
    IF req[s].op = "sync" /\ Remaining(s) # {}
    THEN Goto(s, [req[s] EXCEPT !.at = "next", !.queue = Remaining(s), !.todo = {},
                                !.inst = None, !.assoc = None, !.master = None])
    ELSE IF req[s].op = "create_assoc" /\ i # None /\ req[s].upd # NoUpdate
    THEN Goto(s, [Idle EXCEPT !.op = "create_assoc", !.at = "load",
                              !.inst = i, !.upd = req[s].upd])
    ELSE Finish(s)

(* After a completion: get_association, then its master; a removed         *)
(* association and a soft-deleted master are found as well.                *)
LookupMaster(s) ==
    /\ At(s, "lookup")
    /\ Exists(assocs[req[s].assoc])
    /\ LET m == assocs[req[s].assoc].master
       IN  IF masters[m].status = "active"
           THEN Goto(s, [req[s] EXCEPT !.at = "gen", !.master = m,
                                       !.copy = [@ EXCEPT ![m] = masters[m]]])
           ELSE Finish(s)
    /\ UNCHANGED <<tables, clock>>

(* The older instances archive_old_instances_for_association selects.      *)
OldInstances(a, p) ==
    {i \in Having(OfAssociation(a), Superseded) : i[2] < p}

(* The conditions, the rule, the clock, the limits and the period; then    *)
(* get_instance_for_period and the SELECT of the instances to archive.     *)
PlanInstance(s) ==
    /\ At(s, "gen")
    /\ LET c == Held(s)
           p == PeriodFor(c.tmpl, day, tod)
           i == <<req[s].assoc, p>>
       IN  \/ c.tmpl.cond /\ Resume(s, None)
           \/ c.tmpl.valid /\ ~GenerationDue(c, p) /\ Resume(s, None)
           \/ /\ c.tmpl.valid
              /\ GenerationDue(c, p)
              /\ insts[i] # NoRow
              /\ Resume(s, i)
           \/ /\ c.tmpl.valid
              /\ GenerationDue(c, p)
              /\ insts[i] = NoRow
              /\ Goto(s, [req[s] EXCEPT
                            !.at = IF c.tmpl.once THEN "insert" ELSE "archive",
                            !.inst = i,
                            !.todo = IF c.tmpl.once THEN {}
                                     ELSE OldInstances(req[s].assoc, p)])
    /\ UNCHANGED <<tables, clock>>

(* archive_old_instances_for_association: its commit. *)
ArchiveOld(s) ==
    /\ At(s, "archive")
    /\ ~Vanished(req[s].todo)
    /\ SetStatuses(req[s].todo, "archived")
    /\ Goto(s, [req[s] EXCEPT !.at = "insert", !.todo = {}])
    /\ UNCHANGED <<masters, assocs, clock>>

(* get_association, then create_instance under the unique constraint. *)
InsertInstance(s) ==
    /\ At(s, "insert")
    /\ LET i == req[s].inst
           a == assocs[i[1]]
       IN  \/ /\ ~Exists(a)
              /\ Resume(s, None)
              /\ UNCHANGED insts
           \/ /\ Exists(a)
              /\ insts[i] = NoRow
              /\ insts' = [insts EXCEPT ![i] = NewInstance(a)]
              /\ Goto(s, [req[s] EXCEPT !.at = "count"])
    /\ UNCHANGED <<masters, assocs, clock>>

(* update_master_chore: the counter, computed from the copy. *)
CountInstance(s) ==
    /\ At(s, "count")
    /\ Exists(masters[req[s].master])
    /\ masters' = [masters EXCEPT ![req[s].master].occ = CountAfter(Held(s))]
    /\ Resume(s, req[s].inst)
    /\ UNCHANGED <<assocs, insts, clock>>

-------------------------------------------------------------------------------
(* create_association. *)

(* What auto_claim or auto_assign will set on the first instance. *)
AutoUpdates(u) ==
    {NoUpdate} \cup
    (IF u = None THEN {}
     ELSE {ClaimUpdate(u)} \cup {AssignUpdate(u, by) : by \in Members})

(* get_master_chore_by_id (which finds soft-deleted masters too) and       *)
(* get_associations_by_master, then every check.                           *)
CreateAssociation(s) ==
    \E m \in Masters, u \in Members \cup {None} :
        /\ Exists(masters[m])
        /\ masters[m].status = "active"
        /\ AssociationAllowed(masters[m].tmpl.collab, u, Owners(m))
        /\ ~AtLimit(masters[m])
        /\ \E upd \in AutoUpdates(u) :
              Begin(s, "create_assoc",
                    [Idle EXCEPT !.at = "insert_assoc", !.master = m, !.member = u,
                                 !.upd = upd, !.copy = [@ EXCEPT ![m] = masters[m]]])

(* uq_association_member: the removed ones count, the pools do not. *)
Duplicate(m, u) ==
    /\ u # None
    /\ \E a \in AssocIds :
          Exists(assocs[a]) /\ assocs[a].master = m /\ assocs[a].member = u

(* Identifiers are given in the order of creation. *)
NextAssoc(a) == assocs[a] = NoRow /\ \A b \in AssocIds : b < a => assocs[b] # NoRow

InsertAssociation(s) ==
    /\ At(s, "insert_assoc")
    /\ Exists(masters[req[s].master])
    /\ ~Duplicate(req[s].master, req[s].member)
    /\ \E a \in AssocIds :
          /\ NextAssoc(a)
          /\ assocs' = [assocs EXCEPT ![a] =
                [master |-> req[s].master, member |-> req[s].member,
                 removed |-> FALSE]]
          /\ Goto(s, [req[s] EXCEPT !.at = "gen", !.assoc = a])
    /\ UNCHANGED <<masters, insts, clock>>

-------------------------------------------------------------------------------
(* delete_association: the instances to archive are selected, their commit *)
(* follows, and the association is removed last.                           *)

DeleteAssociation(s) ==
    \E a \in AssocIds :
        /\ Exists(assocs[a])
        /\ Begin(s, "delete_assoc",
                 [Idle EXCEPT !.at = "release", !.assoc = a,
                              !.todo = Having(OfAssociation(a), Startable)])

ReleaseInstances(s) ==
    /\ At(s, "release")
    /\ ~Vanished(req[s].todo)
    /\ SetStatuses(req[s].todo, "archived")
    /\ Goto(s, [req[s] EXCEPT !.at = "remove", !.todo = {}])
    /\ UNCHANGED <<masters, assocs, clock>>

RemoveAssociation(s) ==
    /\ At(s, "remove")
    /\ assocs' = IF Exists(assocs[req[s].assoc])
                 THEN [assocs EXCEPT ![req[s].assoc].removed = TRUE]
                 ELSE assocs
    /\ Finish(s)
    /\ UNCHANGED <<masters, insts, clock>>

-------------------------------------------------------------------------------
(* sync: process_expired_instances, mark_overdue_instances, then the loop  *)
(* of ensure_current_instances.                                            *)

Expired == {i \in Having(InstIds, Expirable) : PastPeriod(i, day)}

Overdue ==
    {i \in Having(InstIds, Startable) :
        PastDueTime(i, masters[assocs[i[1]].master].tmpl, day, tod)}

Sync(s) == Begin(s, "sync", [Idle EXCEPT !.at = "expire", !.todo = Expired])

(* One pass of the loop over the instances found. *)
MarkOne(s, x) ==
    /\ \E i \in req[s].todo :
          /\ insts[i] # NoRow
          /\ SetStatuses({i}, x)
          /\ Goto(s, [req[s] EXCEPT !.todo = @ \ {i}])
    /\ UNCHANGED <<masters, assocs, clock>>

MarkMissed(s) == At(s, "expire") /\ MarkOne(s, "missed")

ListOverdue(s) ==
    /\ At(s, "expire")
    /\ req[s].todo = {}
    /\ Goto(s, [req[s] EXCEPT !.at = "overdue", !.todo = Overdue])
    /\ UNCHANGED <<tables, clock>>

MarkOverdue(s) == At(s, "overdue") /\ MarkOne(s, "overdue")

ListAssociations(s) ==
    /\ At(s, "overdue")
    /\ req[s].todo = {}
    /\ LET all == UNION {InForce(m) : m \in Masters}
       IN  IF all = {} THEN Finish(s)
           ELSE Goto(s, [req[s] EXCEPT !.at = "next", !.queue = all])
    /\ UNCHANGED <<tables, clock>>

(* The newest association left.  Its master is read once per sync and kept *)
(* in masters_cache for the associations that share it; an association     *)
(* whose master is purged or not active is passed over.                    *)
NextAssociation(s) ==
    /\ At(s, "next")
    /\ \E a \in req[s].queue :
          /\ \A b \in req[s].queue : b <= a
          /\ LET m == assocs[a].master
                 c == IF req[s].copy[m] = Keep THEN masters[m] ELSE req[s].copy[m]
                 rest == req[s].queue \ {a}
             IN  IF Exists(assocs[a]) /\ c.status = "active"
                 THEN Goto(s, [req[s] EXCEPT !.at = "gen", !.assoc = a, !.master = m,
                                             !.copy = [@ EXCEPT ![m] = c]])
                 ELSE IF rest = {} THEN Finish(s)
                 ELSE Goto(s, [req[s] EXCEPT !.queue = rest,
                                             !.copy = IF Exists(assocs[a])
                                                      THEN [@ EXCEPT ![m] = c]
                                                      ELSE @])
    /\ UNCHANGED <<tables, clock>>

-------------------------------------------------------------------------------
(* bulk_update_master_status to archived: one master after the other is    *)
(* checked and its finished instances are archived; the masters are        *)
(* updated together at the end.                                            *)

BulkArchive(s) ==
    \E batch \in SUBSET Masters \ {{}} :
        Begin(s, "bulk_archive",
              [Idle EXCEPT !.at = "guard", !.batch = batch, !.left = batch])

(* Mutant (BulkArchiveSafe): an instance nobody started does not block. *)
BlockingMutant(m) == Having(InstancesOf(m), {"in_progress"})

(* The instances of a master that forbid archiving it in bulk. *)
Blocking(m) == Having(InstancesOf(m), Startable)

(* A master with an instance still to do ends the request with an error.   *)
GuardMaster(s) ==
    /\ At(s, "guard")
    /\ req[s].todo = {}
    /\ \E m \in req[s].left :
          /\ Blocking(m) = {}
          /\ Goto(s, [req[s] EXCEPT !.left = @ \ {m},
                                    !.todo = Having(InstancesOf(m), Finished)])
    /\ UNCHANGED <<tables, clock>>

CascadeArchive(s) == At(s, "guard") /\ MarkOne(s, "archived")

BulkCommit(s) ==
    /\ At(s, "guard")
    /\ req[s].todo = {}
    /\ req[s].left = {}
    /\ masters' = WithStatus(req[s].batch, "archived")
    /\ Finish(s)
    /\ UNCHANGED <<assocs, insts, clock>>

-------------------------------------------------------------------------------
(* permanent_delete_master_chore.  Its DELETEs are one transaction.  For a *)
(* master without associations it fails on a name that only the other      *)
(* branch binds.                                                           *)

AssociationsOf(m) == {a \in AssocIds : Exists(assocs[a]) /\ assocs[a].master = m}

PurgeMaster(s) ==
    \E m \in Masters :
        /\ Exists(masters[m])
        /\ Begin(s, "purge",
                 [Idle EXCEPT !.at = "purge", !.master = m, !.queue = AssociationsOf(m)])

(* The instances of the associations read before the transaction began. *)
PurgedInstances(s) == {i \in InstIds : i[1] \in req[s].queue}

(* An association that appeared meanwhile, with an instance, is still      *)
(* referred to when the associations are deleted.                          *)
ReferredTo(s) == \E i \in InstancesOf(req[s].master) : i[1] \notin req[s].queue

PurgeCommit(s) ==
    /\ At(s, "purge")
    /\ req[s].queue # {}
    /\ ~ReferredTo(s)
    /\ insts' = [i \in InstIds |-> IF i \in PurgedInstances(s) THEN NoRow ELSE insts[i]]
    /\ assocs' = [a \in AssocIds |->
                    IF a \in AssociationsOf(req[s].master) THEN Gone ELSE assocs[a]]
    /\ masters' = [masters EXCEPT ![req[s].master] = Gone]
    /\ Finish(s)
    /\ UNCHANGED clock

-------------------------------------------------------------------------------
(* A handler that raises: a row it needs is gone, a constraint of the      *)
(* database refuses its write, a schema or a check fails, or the bound on  *)
(* associations is reached.  What it has committed before stays.           *)
Raises(s) ==
    \/ At(s, "load") /\ insts[req[s].inst] = NoRow
    \/ At(s, "commit") /\ insts[req[s].inst] = NoRow
    \/ At(s, "commit") /\ insts[req[s].inst] # NoRow /\ SelfAssigned(Merged(s))
    \/ At(s, "lookup") /\ ~Exists(assocs[req[s].assoc])
    \/ req[s].at \in {"archive", "release", "expire", "overdue", "guard"}
       /\ Vanished(req[s].todo)
    \/ At(s, "gen") /\ ~Held(s).tmpl.valid
    \/ At(s, "insert")
       /\ (~Exists(assocs[req[s].inst[1]]) \/ insts[req[s].inst] # NoRow)
    \/ At(s, "count") /\ ~Exists(masters[req[s].master])
    \/ At(s, "insert_assoc")
       /\ \/ ~Exists(masters[req[s].master])
          \/ Duplicate(req[s].master, req[s].member)
          \/ \A a \in AssocIds : assocs[a] # NoRow
    \/ At(s, "guard") /\ req[s].todo = {}
       /\ \E m \in req[s].left : Blocking(m) # {}
    \/ At(s, "purge") /\ (req[s].queue = {} \/ ReferredTo(s))

Abort(s) == Raises(s) /\ Finish(s) /\ UNCHANGED <<tables, clock>>

-------------------------------------------------------------------------------
(* The environment. *)

Tick ==
    /\ \/ tod < 2 /\ tod' = tod + 1 /\ day' = day
       \/ day < MaxDay /\ day' = day + 1 /\ tod' = 0
    /\ UNCHANGED <<tables, req>>

(* The server process stops and starts again: every handler is lost. *)
Restart ==
    /\ "restart" \in Ops
    /\ \E s \in Slots : ~At(s, "idle")
    /\ req' = [s \in Slots |-> Idle]
    /\ UNCHANGED <<tables, clock>>

-------------------------------------------------------------------------------
Init ==
    /\ masters = [m \in Masters |-> NoRow]
    /\ assocs = [a \in AssocIds |-> NoRow]
    /\ insts = [i \in InstIds |-> NoRow]
    /\ day = 0
    /\ tod = 0
    /\ req = [s \in Slots |-> Idle]

(* A request arrives in slot s. *)
Arrive(s) ==
    \/ ClaimInstance(s) \/ AssignInstance(s) \/ RevertInstanceStatus(s)
    \/ ResetInstance(s) \/ UpdateInstanceStatus(s) \/ DeleteInstance(s)
    \/ CreateAssociation(s) \/ DeleteAssociation(s) \/ Sync(s)
    \/ BulkArchive(s) \/ PurgeMaster(s)

(* The handler in slot s goes on. *)
Continue(s) ==
    \/ LoadRow(s) \/ CommitRow(s) \/ LookupMaster(s) \/ PlanInstance(s)
    \/ ArchiveOld(s) \/ InsertInstance(s) \/ CountInstance(s)
    \/ InsertAssociation(s) \/ ReleaseInstances(s) \/ RemoveAssociation(s)
    \/ MarkMissed(s) \/ ListOverdue(s) \/ MarkOverdue(s) \/ ListAssociations(s)
    \/ NextAssociation(s) \/ GuardMaster(s) \/ CascadeArchive(s) \/ BulkCommit(s)
    \/ PurgeCommit(s) \/ Abort(s)

Next ==
    \/ \E m \in Masters : CreateMaster(m) \/ PatchMaster(m) \/ SoftDeleteMaster(m)
    \/ BulkSetStatus
    \/ \E s \in Slots : Arrive(s) \/ Continue(s)
    \/ Tick
    \/ Restart

Spec == Init /\ [][Next]_vars

(* The event loop resumes every handler whose query was answered; nothing  *)
(* obliges anyone to make a request.                                       *)
FairSpec == Spec /\ \A s \in Slots : WF_vars(Continue(s))

-------------------------------------------------------------------------------
(* Properties. *)

(* Every table holds rows of its type, and every handler's local state is  *)
(* one its code can be in.                                                 *)
TypeOK ==
    /\ masters \in [Masters -> MasterRow \cup {NoRow, Gone}]
    /\ assocs \in [AssocIds -> AssocRow \cup {NoRow, Gone}]
    /\ insts \in [InstIds -> InstRow \cup {NoRow}]
    /\ day \in Days
    /\ tod \in Tods
    /\ req \in [Slots -> Request]

(* However completions, syncs and new associations interleave, and         *)
(* wherever a handler dies, occurrence_count never exceeds the number of   *)
(* instances there are: a chore with max_occurrences is never stopped      *)
(* short (generate_instance_for_association writes the counter from a copy *)
(* read several awaits before).                                            *)
CountNeverOverstates ==
    \A m \in Masters :
        Exists(masters[m]) => masters[m].occ <= Cardinality(InstancesOf(m))

(* An instance of a member's association always has a member, and whoever  *)
(* is recorded as having assigned an instance assigned it to somebody      *)
(* else, whatever claims and assignments overlap column by column.         *)
Ownership ==
    \A i \in InstIds : insts[i] # NoRow =>
        /\ assocs[i[1]].member # None => insts[i].member # None
        /\ insts[i].assigned_by # None => insts[i].member \notin {None, insts[i].assigned_by}

(* _validate_association's rules hold of the associations in force: one    *)
(* only for a non-collaborative chore, and nobody (nor the pool) twice for *)
(* a collaborative one.                                                    *)
AssociationRules ==
    \A m \in Masters : \A a, b \in InForce(m) : a # b =>
        masters[m].tmpl.collab /\ assocs[a].member # assocs[b].member

(* The counter agrees with the instances of a chore that only one          *)
(* association generates for, save between the insert and its count.       *)
CounterExact ==
    \A m \in Masters :
        (Exists(masters[m]) /\ ~masters[m].tmpl.collab
            /\ \A s \in Slots : ~(At(s, "count") /\ req[s].master = m)) =>
        masters[m].occ = Cardinality(InstancesOf(m))

(* Such a chore is never done more often than its user allowed: once for a *)
(* one-time chore, max_occurrences times for a recurring one.              *)
LimitRespected ==
    \A m \in Masters :
        (Exists(masters[m]) /\ ~masters[m].tmpl.collab) =>
        LET t == masters[m].tmpl
            n == Cardinality(InstancesOf(m))
        IN  (t.once => n <= 1) /\ (t.max # 0 => n <= t.max)

(* A completed instance records when it was completed, through every       *)
(* sequence of reverts, resets and status updates.                         *)
CompletedIsStamped ==
    \A i \in InstIds :
        insts[i] # NoRow /\ insts[i].status = "completed" =>
        insts[i].completed = "stamped"

(* An association has at most one instance that is neither done nor put    *)
(* away: generation archives the old ones before it adds the next.         *)
OneOpenInstance ==
    \A a \in AssocIds :
        Cardinality(Having(OfAssociation(a), InstStatus \ {"completed", "archived"})) <= 1

(* What can still be done does not pile up: however long the board is      *)
(* used, and wherever a handler dies between archiving and inserting, an   *)
(* association of a recurring chore has no more instances to do than       *)
(* requests run at once.  generate_instance_for_association lists what it  *)
(* is to archive before it inserts: two that overlap list too little, and  *)
(* each leaves what the other made, but the next archives both.            *)
NothingPilesUp ==
    \A a \in AssocIds :
        (Exists(assocs[a]) /\ ~masters[assocs[a].master].tmpl.once) =>
        Cardinality(Having(OfAssociation(a), Startable)) <= Cardinality(Slots)

(* The step changes instance i from status x, on behalf of slot s. *)
Moves(s, i, x, y) ==
    /\ req'[s] # req[s]
    /\ insts[i] # NoRow /\ insts'[i] # NoRow
    /\ insts[i].status = x /\ insts'[i].status = y

(* A sync calls an instance missed only when its day is over, and overdue  *)
(* only when its due time has passed, also when midnight falls between its *)
(* query and its write.                                                    *)
MarksAreTrue ==
    [][\A s \in Slots, i \in InstIds, x \in InstStatus :
          req[s].op = "sync" =>
            /\ Moves(s, i, x, "missed") /\ x # "missed" => i[2] < day
            /\ Moves(s, i, x, "overdue") /\ x # "overdue" =>
                 i[2] < day
                 \/ PastDueTime(i, masters[assocs[i[1]].master].tmpl, day, tod)]_vars

(* Expiry, overdue marking and the archiving before a new period leave a   *)
(* completed instance completed.                                           *)
CompletionKept ==
    [][\A s \in Slots, i \in InstIds, y \in InstStatus \ {"completed"} :
          Moves(s, i, "completed", y) =>
          req[s].at \notin {"expire", "overdue", "archive", "release"}]_vars

(* A master is archived in bulk only while none of its instances is active *)
(* or in progress.                                                         *)
BulkArchiveSafe ==
    [][\A s \in Slots :
          (req[s].op = "bulk_archive" /\ masters' # masters /\ req'[s] # req[s]) =>
          \A m \in req[s].batch : Having(InstancesOf(m), Startable) = {}]_vars

(* What a sync archives as superseded is from an earlier day: today's      *)
(* instance can still be done.                                             *)
CurrentPeriodKept ==
    [][\A s \in Slots, i \in InstIds, x \in Superseded :
          req[s].op = "sync" /\ Moves(s, i, x, "archived") =>
          i[2] < day]_vars

(* A sync that runs to its end has seen to it that every association in    *)
(* force whose master is active and within its limits has an instance for  *)
(* today or later, whatever handlers died halfway through making one.      *)
SyncServesAll ==
    [][\A s \in Slots :
          req[s].op = "sync" /\ Continue(s) /\ req'[s].at = "idle" =>
          \A m \in Masters : \A a \in InForce(m) :
             LET c == masters'[m]
             IN  /\ c.status = "active"
                 /\ ~c.tmpl.cond
                 /\ GenerationDue(c, PeriodFor(c.tmpl, day, tod))
                 => \E p \in day..MaxDate : insts'[<<a, p>>] # NoRow]_vars

(* No chore, collaborative or not, has more instances than max_occurrences.*)
MaxOccurrencesHolds ==
    \A m \in Masters :
        Exists(masters[m]) /\ masters[m].tmpl.max # 0 =>
        Cardinality(InstancesOf(m)) <= masters[m].tmpl.max

(* Every request is answered: the loops over instances, associations and   *)
(* masters end although other requests keep changing the tables.           *)
RequestsEnd == \A s \in Slots : ~At(s, "idle") ~> At(s, "idle")

===============================================================================
