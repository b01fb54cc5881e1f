----------------------------- MODULE ChoresTyping -----------------------------
(***************************************************************************)
(* Every step keeps the tables typed and linked and every handler's local  *)
(* state one its code can be in: Base is inductive.                        *)
(***************************************************************************)
EXTENDS ChoresInvariant, TLAPS

USE DEF Base

-------------------------------------------------------------------------------
(* Updates and rows. *)

(* Every column list the handlers build for update_instance is one. *)
LEMMA UpdatesTyped ==
    /\ NoUpdate \in Update
    /\ \A x \in InstStatus : SetStatus(x) \in Update
    /\ \A x \in InstStatus : StatusUpdate(x) \in Update
    /\ \A x \in InstStatus : RevertUpdate(x) \in Update
    /\ ResetUpdate \in Update
    /\ \A u \in Members : ClaimUpdate(u) \in Update
    /\ \A u, by \in Members : AssignUpdate(u, by) \in Update
<1>1. NoUpdate \in Update
  BY DEF NoUpdate, Update
<1>2. \A x \in InstStatus : SetStatus(x) \in Update
  BY <1>1 DEF SetStatus, Update
<1>3. \A x \in InstStatus : StatusUpdate(x) \in Update
  BY <1>2 DEF StatusUpdate, Update, Stamp
<1>4. \A x \in InstStatus : RevertUpdate(x) \in Update
  <2>1. {"active", "in_progress"} \subseteq InstStatus
    BY DEF InstStatus
  <2> QED BY <1>2, <2>1 DEF RevertUpdate, Update, Stamp
<1>5. ResetUpdate \in Update
  <2>1. "active" \in InstStatus
    BY DEF InstStatus
  <2> QED BY <1>2, <2>1 DEF ResetUpdate, Update, Stamp
<1>6. /\ \A u \in Members : ClaimUpdate(u) \in Update
      /\ \A u, by \in Members : AssignUpdate(u, by) \in Update
  BY <1>1 DEF ClaimUpdate, AssignUpdate, Update
<1>7. QED
  BY <1>1, <1>2, <1>3, <1>4, <1>5, <1>6

(* Merging an update into a row yields a row. *)
LEMMA WrittenTyped ==
    ASSUME NEW u \in Update, NEW loaded \in InstRow, NEW current \in InstRow
    PROVE  Written(u, loaded, current) \in InstRow
<1>1. /\ Column(u.status, loaded.status, current.status) \in InstStatus
      /\ Column(u.member, loaded.member, current.member) \in Members \cup {None}
      /\ Column(u.assigned_by, loaded.assigned_by, current.assigned_by)
            \in Members \cup {None}
      /\ Column(u.started, loaded.started, current.started) \in Stamp
      /\ Column(u.completed, loaded.completed, current.completed) \in Stamp
  BY DEF Column, Update, InstRow
<1>2. QED
  BY <1>1 DEF Written, InstRow

(* A row of a table that exists is a row of its type. *)
LEMMA RowsTyped ==
    ASSUME TypeOK
    PROVE  /\ \A m \in Masters : Exists(masters[m]) => masters[m] \in MasterRow
           /\ \A a \in AssocIds : Exists(assocs[a]) => assocs[a] \in AssocRow
           /\ \A i \in InstIds : insts[i] # NoRow => insts[i] \in InstRow
BY DEF TypeOK, Exists

(* The period computed for an association is one of its instances' keys. *)
LEMMA PeriodTyped ==
    ASSUME NEW t \in Templates, NEW d \in Days, NEW now
    PROVE  PeriodFor(t, d, now) \in Dates
<1>1. t \in Template
  BY TemplateAssumption
<1>2. t.after \in [Days -> Dates] /\ t.due_date \in Dates \cup {None}
  BY <1>1 DEF Template
<1>3. d \in Dates
  BY BoundsAssumption DEF Days, Dates
<1>4. NextOccurrence(t, d, now) \in Dates
  BY <1>2, <1>3 DEF NextOccurrence
<1>5. QED
  BY <1>2, <1>3, <1>4 DEF PeriodFor

-------------------------------------------------------------------------------
(* Steps of one handler. *)

(* An idle slot is a request that holds nothing. *)
LEMMA IdleTyped == Idle \in Request /\ LocalsOK(Idle)
BY UpdatesTyped DEF Idle, Request, Copy, Labels, OpKinds, LocalsOK

(* Replacing the local state of one slot by a typed one keeps all typed. *)
LEMMA Going ==
    ASSUME req \in [Slots -> Request], Locals,
           NEW s \in Slots, NEW r \in Request, LocalsOK(r), Goto(s, r)
    PROVE  /\ req' \in [Slots -> Request]
           /\ Locals'
           /\ req'[s] = r
           /\ \A q \in Slots \ {s} : req'[q] = req[q]
<1>1. req' \in [Slots -> Request] /\ req'[s] = r /\ \A q \in Slots \ {s} : req'[q] = req[q]
  BY DEF Goto
<1>2. Locals'
  BY <1>1 DEF Locals, LocalsOK
<1>3. QED
  BY <1>1, <1>2

(* A step that touches no table and no clock keeps Base when the handler's *)
(* new local state is in order.                                            *)
LEMMA Quiet ==
    ASSUME Base, NEW s \in Slots, NEW r \in Request, LocalsOK(r), Goto(s, r),
           UNCHANGED <<tables, clock>>
    PROVE  Base'
<1>1. req' \in [Slots -> Request] /\ Locals'
  BY Going DEF TypeOK
<1>2. UNCHANGED <<masters, assocs, insts, day, tod>>
  BY DEF tables, clock
<1>3. QED
  BY <1>1, <1>2 DEF TypeOK, Linked

(* A request that arrives with its local state in order keeps Base. *)
LEMMA Beginning ==
    ASSUME Base, NEW s \in Slots, NEW op \in OpKinds, NEW r \in Request, LocalsOK(r),
           Begin(s, op, r)
    PROVE  Base'
<1>1. [r EXCEPT !.op = op] \in Request /\ LocalsOK([r EXCEPT !.op = op])
  BY DEF Request, LocalsOK
<1>2. QED
  BY <1>1, Quiet DEF Begin

(* A request to update an instance keeps Base. *)
LEMMA BeginningUpdate ==
    ASSUME Base, NEW s \in Slots, NEW op \in OpKinds, NEW i \in InstIds, NEW u \in Update,
           BeginUpdate(s, op, i, u)
    PROVE  Base'
<1>1. [Idle EXCEPT !.at = "load", !.inst = i, !.upd = u] \in Request
  BY IdleTyped DEF Request, Labels
<1>2. LocalsOK([Idle EXCEPT !.at = "load", !.inst = i, !.upd = u])
  BY IdleTyped DEF LocalsOK, Request
<1>3. QED
  BY <1>1, <1>2, Beginning DEF BeginUpdate

-------------------------------------------------------------------------------
(* Requests arriving. *)

(* Every request that arrives keeps Base. *)
LEMMA ArriveKeepsBase ==
    ASSUME Base, NEW s \in Slots, Arrive(s)
    PROVE  Base'
<1>1. CASE ClaimInstance(s)
  <2>1. PICK i \in InstIds, u \in Members : BeginUpdate(s, "claim", i, ClaimUpdate(u))
    BY <1>1 DEF ClaimInstance
  <2> QED BY <2>1, UpdatesTyped, BeginningUpdate DEF OpKinds
<1>2. CASE AssignInstance(s)
  <2>1. PICK i \in InstIds, u \in Members, by \in Members :
          BeginUpdate(s, "assign", i, AssignUpdate(u, by))
    BY <1>2 DEF AssignInstance
  <2> QED BY <2>1, UpdatesTyped, BeginningUpdate DEF OpKinds
<1>3. CASE RevertInstanceStatus(s)
  <2>1. PICK i \in InstIds : insts[i] # NoRow
          /\ BeginUpdate(s, "revert", i, RevertUpdate(insts[i].status))
    BY <1>3 DEF RevertInstanceStatus
  <2>2. RevertUpdate(insts[i].status) \in Update
    BY <2>1, UpdatesTyped, RowsTyped DEF InstRow
  <2> QED BY <2>1, <2>2, BeginningUpdate DEF OpKinds
<1>4. CASE ResetInstance(s)
  <2>1. PICK i \in InstIds : BeginUpdate(s, "reset", i, ResetUpdate)
    BY <1>4 DEF ResetInstance
  <2> QED BY <2>1, UpdatesTyped, BeginningUpdate DEF OpKinds
<1>5. CASE UpdateInstanceStatus(s)
  <2>1. PICK i \in InstIds :
          \/ BeginUpdate(s, "complete", i, StatusUpdate("completed"))
          \/ \E x \in InstStatus : BeginUpdate(s, "status", i, StatusUpdate(x))
    BY <1>5 DEF UpdateInstanceStatus
  <2>2. "completed" \in InstStatus
    BY DEF InstStatus
  <2> QED BY <2>1, <2>2, UpdatesTyped, BeginningUpdate DEF OpKinds
<1>6. CASE DeleteInstance(s)
  <2>1. PICK i \in InstIds : BeginUpdate(s, "delete", i, SetStatus("archived"))
    BY <1>6 DEF DeleteInstance
  <2>2. "archived" \in InstStatus
    BY DEF InstStatus
  <2> QED BY <2>1, <2>2, UpdatesTyped, BeginningUpdate DEF OpKinds
<1>7. CASE CreateAssociation(s)
  <2>1. PICK m \in Masters, u \in Members \cup {None} : \E upd \in AutoUpdates(u) :
          /\ Exists(masters[m])
          /\ Begin(s, "create_assoc",
                   [Idle EXCEPT !.at = "insert_assoc", !.master = m, !.member = u,
                                !.upd = upd, !.copy = [@ EXCEPT ![m] = masters[m]]])
    BY <1>7 DEF CreateAssociation
  <2>9. PICK upd \in AutoUpdates(u) :
          Begin(s, "create_assoc",
                [Idle EXCEPT !.at = "insert_assoc", !.master = m, !.member = u,
                             !.upd = upd, !.copy = [@ EXCEPT ![m] = masters[m]]])
    BY <2>1
  <2>2. upd \in Update
    BY UpdatesTyped DEF AutoUpdates
  <2> DEFINE r == [Idle EXCEPT !.at = "insert_assoc", !.master = m, !.member = u,
                               !.upd = upd, !.copy = [@ EXCEPT ![m] = masters[m]]]
  <2>3. masters[m] \in MasterRow
    BY <2>1, RowsTyped
  <2>4. [Idle.copy EXCEPT ![m] = masters[m]] \in [Masters -> Copy]
    BY <2>3, IdleTyped DEF Request, Copy
  <2>5. r \in Request
    BY <2>2, <2>4, IdleTyped DEF Request, Labels
  <2>6. r.copy[m] = masters[m] /\ r.at = "insert_assoc" /\ r.master = m
    BY IdleTyped DEF Request
  <2>7. LocalsOK(r)
    BY <2>3, <2>6 DEF LocalsOK
  <2> QED BY <2>9, <2>5, <2>7, Beginning DEF OpKinds
<1>8. CASE DeleteAssociation(s)
  <2>1. PICK a \in AssocIds :
          Begin(s, "delete_assoc",
                [Idle EXCEPT !.at = "release", !.assoc = a,
                             !.todo = Having(OfAssociation(a), Startable)])
    BY <1>8 DEF DeleteAssociation
  <2> DEFINE r == [Idle EXCEPT !.at = "release", !.assoc = a,
                               !.todo = Having(OfAssociation(a), Startable)]
  <2>2. Having(OfAssociation(a), Startable) \subseteq InstIds
    BY DEF Having, OfAssociation, InstIds
  <2>3. r \in Request
    BY <2>2, IdleTyped DEF Request, Labels
  <2>3a. LocalsOK(r)
    BY <2>3, IdleTyped DEF Request, LocalsOK
  <2> QED BY <2>1, <2>3, <2>3a, Beginning DEF OpKinds
<1>9. CASE Sync(s)
  <2> DEFINE r == [Idle EXCEPT !.at = "expire", !.todo = Expired]
  <2>1. r \in Request
    BY IdleTyped DEF Request, Labels, Expired, Having
  <2>1a. LocalsOK(r)
    BY <2>1, IdleTyped DEF Request, LocalsOK
  <2> QED BY <1>9, <2>1, <2>1a, Beginning DEF Sync, OpKinds
<1>10. CASE BulkArchive(s)
  <2>1. PICK batch \in SUBSET Masters :
          Begin(s, "bulk_archive",
                [Idle EXCEPT !.at = "guard", !.batch = batch, !.left = batch])
    BY <1>10 DEF BulkArchive
  <2> DEFINE r == [Idle EXCEPT !.at = "guard", !.batch = batch, !.left = batch]
  <2>2. r \in Request
    BY IdleTyped DEF Request, Labels
  <2>2a. LocalsOK(r)
    BY <2>2, IdleTyped DEF Request, LocalsOK
  <2> QED BY <2>1, <2>2, <2>2a, Beginning DEF OpKinds
<1>11. CASE PurgeMaster(s)
  <2>1. PICK m \in Masters :
          Begin(s, "purge",
                [Idle EXCEPT !.at = "purge", !.master = m, !.queue = AssociationsOf(m)])
    BY <1>11 DEF PurgeMaster
  <2> DEFINE r == [Idle EXCEPT !.at = "purge", !.master = m, !.queue = AssociationsOf(m)]
  <2>2. r \in Request
    BY IdleTyped DEF Request, Labels, AssociationsOf
  <2>2a. LocalsOK(r)
    BY <2>2, IdleTyped DEF Request, LocalsOK
  <2> QED BY <2>1, <2>2, <2>2a, Beginning DEF OpKinds
<1>12. QED
  BY <1>1, <1>2, <1>3, <1>4, <1>5, <1>6, <1>7, <1>8, <1>9, <1>10, <1>11 DEF Arrive

-------------------------------------------------------------------------------
(* Handlers going on: what several actions share. *)

(* Handing a generated instance back to the caller leaves a local state    *)
(* that is in order.                                                       *)
LEMMA Resuming ==
    ASSUME Base, NEW s \in Slots, NEW i \in InstIds \cup {None}, Resume(s, i)
    PROVE  \E r \in Request : LocalsOK(r) /\ Goto(s, r)
<1>1. CASE req[s].op = "sync" /\ Remaining(s) # {}
  <2> DEFINE r == [req[s] EXCEPT !.at = "next", !.queue = Remaining(s), !.todo = {},
                                 !.inst = None, !.assoc = None, !.master = None]
  <2>0. req[s] \in Request
    BY DEF TypeOK
  <2>1. r \in Request
    BY <2>0 DEF Request, Labels, Remaining
  <2>2. LocalsOK(r)
    BY <2>1 DEF TypeOK, Request, LocalsOK
  <2>3. Goto(s, r)
    BY <1>1 DEF Resume
  <2> QED BY <2>1, <2>2, <2>3
<1>2. CASE /\ ~(req[s].op = "sync" /\ Remaining(s) # {})
           /\ req[s].op = "create_assoc" /\ i # None /\ req[s].upd # NoUpdate
  <2> DEFINE r == [Idle EXCEPT !.op = "create_assoc", !.at = "load",
                               !.inst = i, !.upd = req[s].upd]
  <2>0. req[s].upd \in Update
    BY DEF TypeOK, Request
  <2>1. r \in Request
    BY <2>0, IdleTyped DEF Request, Labels, OpKinds
  <2>2. LocalsOK(r)
    BY <1>2, <2>1, IdleTyped DEF TypeOK, Request, LocalsOK
  <2>3. Goto(s, r)
    BY <1>2 DEF Resume
  <2> QED BY <2>1, <2>2, <2>3
<1>3. CASE /\ ~(req[s].op = "sync" /\ Remaining(s) # {})
           /\ ~(req[s].op = "create_assoc" /\ i # None /\ req[s].upd # NoUpdate)
  BY <1>3, IdleTyped DEF Resume, Finish
<1>4. QED
  BY <1>1, <1>2, <1>3

(* One commit that sets the status of several instances keeps them typed,  *)
(* and adds and deletes none.                                              *)
LEMMA SettingStatuses ==
    ASSUME TypeOK, NEW ids \in SUBSET InstIds, ~Vanished(ids), NEW x \in InstStatus,
           SetStatuses(ids, x)
    PROVE  /\ insts' \in [InstIds -> InstRow \cup {NoRow}]
           /\ \A i \in InstIds : insts'[i] = NoRow <=> insts[i] = NoRow
<1>1. \A i \in InstIds :
        insts'[i] = IF i \in ids THEN [insts[i] EXCEPT !.status = x] ELSE insts[i]
  BY DEF SetStatuses
<1>2. \A i \in ids : insts[i] \in InstRow
  BY DEF TypeOK, Vanished
<1>3. \A i \in ids : [insts[i] EXCEPT !.status = x] \in InstRow
  BY <1>2 DEF InstRow
<1>4. NoRow \notin InstRow
  BY SentinelAssumption
<1>5. insts' = [i \in InstIds |-> insts'[i]]
  BY <1>1 DEF SetStatuses
<1>6. QED
  BY <1>1, <1>2, <1>3, <1>4, <1>5 DEF TypeOK

(* A step that changes instances only, and deletes and adds none. *)
LEMMA Rewriting ==
    ASSUME Base, NEW s \in Slots, NEW r \in Request, LocalsOK(r), Goto(s, r),
           UNCHANGED <<masters, assocs, clock>>,
           insts' \in [InstIds -> InstRow \cup {NoRow}],
           \A i \in InstIds : insts'[i] = NoRow <=> insts[i] = NoRow
    PROVE  Base'
<1>1. req' \in [Slots -> Request] /\ Locals'
  BY Going DEF TypeOK
<1>2. UNCHANGED <<masters, assocs, day, tod>>
  BY DEF clock
<1>3. QED
  BY <1>1, <1>2 DEF TypeOK, Linked

(* The loops of a sync and of a bulk archiving, one instance at a time,    *)
(* keep Base.                                                              *)
LEMMA Marking ==
    ASSUME Base, NEW s \in Slots, NEW x \in InstStatus, MarkOne(s, x),
           req[s].at \in {"expire", "overdue", "guard"}
    PROVE  /\ Base'
           /\ UNCHANGED <<masters, assocs, clock>>
           /\ \A i \in InstIds : insts'[i] = NoRow <=> insts[i] = NoRow
           /\ Goto(s, [req[s] EXCEPT !.todo = req'[s].todo])
<1>1. PICK i \in req[s].todo :
        insts[i] # NoRow /\ SetStatuses({i}, x) /\ Goto(s, [req[s] EXCEPT !.todo = @ \ {i}])
  BY DEF MarkOne
<1> DEFINE r == [req[s] EXCEPT !.todo = @ \ {i}]
<1>2. req[s] \in Request /\ i \in InstIds
  BY DEF TypeOK, Request
<1>3. r \in Request
  BY <1>2 DEF Request
<1>4. LocalsOK(r)
  BY <1>2 DEF Locals, LocalsOK, Request
<1>5. /\ insts' \in [InstIds -> InstRow \cup {NoRow}]
      /\ \A j \in InstIds : insts'[j] = NoRow <=> insts[j] = NoRow
  BY <1>1, <1>2, SettingStatuses DEF Vanished
<1>6. UNCHANGED <<masters, assocs, clock>>
  BY DEF MarkOne
<1>7. req'[s] = r
  BY <1>1, <1>3, <1>4, Going DEF TypeOK
<1>8. r = [req[s] EXCEPT !.todo = r.todo]
  BY <1>2 DEF Request
<1>9. QED
  BY <1>1, <1>3, <1>4, <1>5, <1>6, <1>7, <1>8, Rewriting

(* Setting the status of a batch of masters keeps them typed, and creates  *)
(* and deletes none.                                                       *)
LEMMA SettingMasters ==
    ASSUME TypeOK, NEW batch, NEW x \in MasterStatus, masters' = WithStatus(batch, x)
    PROVE  /\ masters' \in [Masters -> MasterRow \cup {NoRow, Gone}]
           /\ \A m \in Masters : Exists(masters'[m]) <=> Exists(masters[m])
<1>1. \A m \in Masters :
        masters'[m] = IF m \in batch /\ Exists(masters[m])
                      THEN [masters[m] EXCEPT !.status = x] ELSE masters[m]
  BY DEF WithStatus
<1>2. \A m \in Masters :
        Exists(masters[m]) => [masters[m] EXCEPT !.status = x] \in MasterRow
  BY RowsTyped DEF MasterRow
<1>3. \A row \in MasterRow : Exists(row)
  BY SentinelAssumption DEF Exists
<1>4. masters' = [m \in Masters |-> masters'[m]]
  BY DEF WithStatus
<1>5. \A m \in Masters : masters'[m] \in MasterRow \cup {NoRow, Gone}
  BY <1>1, <1>2 DEF TypeOK
<1>6. QED
  BY <1>1, <1>2, <1>3, <1>4, <1>5

(* A step that changes masters only, and deletes none, keeps Base. *)
LEMMA Configuring ==
    ASSUME Base, req' \in [Slots -> Request], Locals',
           UNCHANGED <<assocs, insts, clock>>,
           masters' \in [Masters -> MasterRow \cup {NoRow, Gone}],
           \A m \in Masters : Exists(masters[m]) => Exists(masters'[m])
    PROVE  Base'
<1>1. UNCHANGED <<assocs, insts, day, tod>>
  BY DEF clock
<1>2. TypeOK'
  BY <1>1 DEF TypeOK
<1>3. \A a \in AssocIds : Exists(assocs[a]) => assocs[a].master \in Masters
  BY RowsTyped DEF AssocRow
<1>4. QED
  BY <1>1, <1>2, <1>3 DEF Linked

-------------------------------------------------------------------------------
(* Handlers going on, one lemma per kind of request. *)

(* Loading and committing an instance keeps Base. *)
LEMMA UpdateKeepsBase ==
    ASSUME Base, NEW s \in Slots, LoadRow(s) \/ CommitRow(s)
    PROVE  Base'
<1>1. req[s] \in Request /\ LocalsOK(req[s])
  BY DEF TypeOK, Locals
<1>2. CASE LoadRow(s)
  <2> DEFINE r == [req[s] EXCEPT !.at = "commit", !.row = insts[req[s].inst]]
  <2>1. req[s].inst \in InstIds
    BY <1>1, <1>2 DEF LoadRow, At, LocalsOK
  <2>2. insts[req[s].inst] \in InstRow
    BY <1>2, <2>1, RowsTyped DEF LoadRow
  <2>3. r \in Request
    BY <1>1, <2>2 DEF Request, Labels
  <2>4. LocalsOK(r)
    BY <1>1, <2>1, <2>2 DEF LocalsOK, Request
  <2> QED BY <1>2, <2>3, <2>4, Quiet DEF LoadRow
<1>3. CASE CommitRow(s)
  <2>1. req[s].inst \in InstIds /\ req[s].row \in InstRow /\ req[s].upd \in Update
    BY <1>1, <1>3 DEF CommitRow, At, LocalsOK, Request
  <2>2. insts[req[s].inst] \in InstRow
    BY <1>3, <2>1, RowsTyped DEF CommitRow
  <2>3. Merged(s) \in InstRow
    BY <2>1, <2>2, WrittenTyped DEF Merged
  <2>4. NoRow \notin InstRow
    BY SentinelAssumption
  <2>5. /\ insts' \in [InstIds -> InstRow \cup {NoRow}]
        /\ \A i \in InstIds : insts'[i] = NoRow <=> insts[i] = NoRow
    BY <1>3, <2>1, <2>2, <2>3, <2>4 DEF CommitRow, TypeOK
  <2> DEFINE r == [Idle EXCEPT !.op = req[s].op, !.at = "lookup", !.assoc = req[s].inst[1]]
  <2>9. req[s].op \in OpKinds \cup {"idle"} /\ req[s].inst[1] \in AssocIds
    BY <1>1, <2>1 DEF Request, InstIds
  <2>6. r \in Request
    BY <2>9, IdleTyped DEF Request, Labels
  <2>7. LocalsOK(r)
    BY <2>9, <2>6, IdleTyped DEF Request, LocalsOK
  <2>8. Goto(s, r) \/ Goto(s, Idle)
    BY <1>3 DEF CommitRow, Finish
  <2> QED BY <1>3, <2>5, <2>6, <2>7, <2>8, IdleTyped, Rewriting DEF CommitRow
<1>4. QED
  BY <1>2, <1>3

(* Looking up the master of a completed instance keeps Base. *)
LEMMA LookupKeepsBase ==
    ASSUME Base, NEW s \in Slots, LookupMaster(s)
    PROVE  Base'
<1>1. req[s] \in Request /\ LocalsOK(req[s])
  BY DEF TypeOK, Locals
<1>2. req[s].assoc \in AssocIds /\ req[s].at = "lookup"
  BY <1>1 DEF LookupMaster, At, LocalsOK
<1> DEFINE m == assocs[req[s].assoc].master
           r == [req[s] EXCEPT !.at = "gen", !.master = m,
                               !.copy = [@ EXCEPT ![m] = masters[m]]]
<1>3. m \in Masters /\ masters[m] \in MasterRow
  BY <1>2, RowsTyped DEF LookupMaster, Linked, AssocRow
<1>4. [req[s].copy EXCEPT ![m] = masters[m]] \in [Masters -> Copy]
  BY <1>1, <1>3 DEF Request, Copy
<1>5. r \in Request
  BY <1>1, <1>3, <1>4 DEF Request, Labels
<1>6. r.at = "gen" /\ r.assoc \in AssocIds /\ r.master = m /\ r.copy[m] = masters[m]
  BY <1>1, <1>2, <1>3 DEF Request
<1>7. LocalsOK(r)
  BY <1>3, <1>6 DEF LocalsOK
<1>8. Goto(s, r) \/ Goto(s, Idle)
  BY DEF LookupMaster, Finish
<1>9. QED
  BY <1>5, <1>7, <1>8, IdleTyped, Quiet DEF LookupMaster

(* Deciding on the next instance keeps Base. *)
LEMMA PlanKeepsBase ==
    ASSUME Base, NEW s \in Slots, PlanInstance(s)
    PROVE  Base'
<1>1. req[s] \in Request /\ LocalsOK(req[s]) /\ req[s].at = "gen"
  BY DEF TypeOK, Locals, PlanInstance, At
<1>2. req[s].assoc \in AssocIds /\ req[s].master \in Masters /\ Held(s) \in MasterRow
  BY <1>1 DEF LocalsOK, Held
<1> DEFINE c == Held(s)
           p == PeriodFor(c.tmpl, day, tod)
           i == <<req[s].assoc, p>>
           r == [req[s] EXCEPT !.at = IF c.tmpl.once THEN "insert" ELSE "archive",
                               !.inst = i,
                               !.todo = IF c.tmpl.once THEN {}
                                        ELSE OldInstances(req[s].assoc, p)]
<1>3. i \in InstIds
  <2>1. p \in Dates
    BY <1>2, PeriodTyped DEF MasterRow, TypeOK
  <2> QED BY <1>2, <2>1 DEF InstIds
<1>4. Resume(s, None) \/ Resume(s, i) \/ Goto(s, r)
  BY DEF PlanInstance
<1>5. r \in Request
  <2>1. OldInstances(req[s].assoc, p) \subseteq InstIds
    BY <1>2 DEF OldInstances, Having, OfAssociation, InstIds
  <2> DEFINE l == IF c.tmpl.once THEN "insert" ELSE "archive"
             ids == IF c.tmpl.once THEN {} ELSE OldInstances(req[s].assoc, p)
  <2>2. l \in Labels
    BY DEF Labels
  <2>3. ids \in SUBSET InstIds
    BY <2>1
  <2>4. r = [req[s] EXCEPT !.at = l, !.inst = i, !.todo = ids]
    OBVIOUS
  <2> HIDE DEF l, ids, i, r
  <2> QED BY <1>1, <1>3, <2>2, <2>3, <2>4 DEF Request
<1>6. LocalsOK(r)
  <2>1. /\ r.at \in {"insert", "archive"} /\ r.inst = i /\ r.assoc = req[s].assoc
        /\ r.master = req[s].master /\ r.copy = req[s].copy
    BY <1>1 DEF Request
  <2> HIDE DEF r, p
  <2> QED BY <1>2, <1>3, <2>1 DEF LocalsOK, Held
<1> HIDE DEF r, i
<1>7. QED
  BY <1>3, <1>4, <1>5, <1>6, Resuming, Quiet DEF PlanInstance

(* Archiving the instances of earlier periods keeps Base. *)
LEMMA ArchiveKeepsBase ==
    ASSUME Base, NEW s \in Slots, ArchiveOld(s) \/ ReleaseInstances(s)
    PROVE  Base'
<1>1. req[s] \in Request /\ LocalsOK(req[s]) /\ req[s].at \in {"archive", "release"}
  BY DEF TypeOK, Locals, ArchiveOld, ReleaseInstances, At
<1>2. req[s].todo \in SUBSET InstIds /\ "archived" \in InstStatus
  BY <1>1 DEF Request, InstStatus
<1>3. /\ insts' \in [InstIds -> InstRow \cup {NoRow}]
      /\ \A i \in InstIds : insts'[i] = NoRow <=> insts[i] = NoRow
  BY <1>2, SettingStatuses DEF ArchiveOld, ReleaseInstances
<1>4. CASE ArchiveOld(s)
  <2> DEFINE r == [req[s] EXCEPT !.at = "insert", !.todo = {}]
  <2>1. r \in Request
    BY <1>1 DEF Request, Labels
  <2>2. LocalsOK(r)
    BY <1>1, <1>4 DEF LocalsOK, Request, ArchiveOld, At
  <2> QED BY <1>3, <1>4, <2>1, <2>2, Rewriting DEF ArchiveOld
<1>5. CASE ReleaseInstances(s)
  <2> DEFINE r == [req[s] EXCEPT !.at = "remove", !.todo = {}]
  <2>1. r \in Request
    BY <1>1 DEF Request, Labels
  <2>2. LocalsOK(r)
    BY <1>1, <1>5 DEF LocalsOK, Request, ReleaseInstances, At
  <2> QED BY <1>3, <1>5, <2>1, <2>2, Rewriting DEF ReleaseInstances
<1>6. QED
  BY <1>4, <1>5

(* Inserting an instance keeps Base: its association is there. *)
LEMMA InsertKeepsBase ==
    ASSUME Base, NEW s \in Slots, InsertInstance(s)
    PROVE  Base'
<1>1. req[s] \in Request /\ LocalsOK(req[s]) /\ req[s].at = "insert"
  BY DEF TypeOK, Locals, InsertInstance, At
<1> DEFINE i == req[s].inst
           a == assocs[i[1]]
           r == [req[s] EXCEPT !.at = "count"]
<1>2. i \in InstIds /\ i[1] \in AssocIds
  BY <1>1 DEF LocalsOK, InstIds
<1>3. CASE Resume(s, None) /\ UNCHANGED insts
  <2>1. UNCHANGED <<tables, clock>>
    BY <1>3 DEF InsertInstance, tables
  <2> QED BY <1>3, <2>1, Resuming, Quiet
<1>4. CASE Exists(a) /\ insts' = [insts EXCEPT ![i] = NewInstance(a)] /\ Goto(s, r)
  <2>1. a \in AssocRow
    BY <1>2, <1>4, RowsTyped
  <2>2. NewInstance(a) \in InstRow
    BY <2>1 DEF NewInstance, AssocRow, InstRow, InstStatus, Stamp
  <2>3. r \in Request
    BY <1>1 DEF Request, Labels
  <2>4. LocalsOK(r)
    BY <1>1 DEF LocalsOK, Request
  <2>5. req' \in [Slots -> Request] /\ Locals'
    BY <1>4, <2>3, <2>4, Going DEF TypeOK
  <2>6. UNCHANGED <<masters, assocs, day, tod>>
    BY DEF InsertInstance, clock
  <2>7. insts' \in [InstIds -> InstRow \cup {NoRow}]
    BY <1>2, <1>4, <2>2 DEF TypeOK
  <2>8. \A j \in InstIds : insts'[j] # NoRow => insts[j] # NoRow \/ j = i
    BY <1>4, <1>2 DEF TypeOK
  <2>9. TypeOK'
    BY <2>5, <2>6, <2>7 DEF TypeOK
  <2>10. Linked'
    BY <1>4, <2>6, <2>8 DEF Linked
  <2> QED BY <2>5, <2>9, <2>10
<1>5. QED
  BY <1>3, <1>4 DEF InsertInstance

(* Writing the counter of a master keeps Base. *)
LEMMA CountKeepsBase ==
    ASSUME Base, NEW s \in Slots, CountInstance(s)
    PROVE  Base'
<1>1. req[s] \in Request /\ LocalsOK(req[s]) /\ req[s].at = "count"
  BY DEF TypeOK, Locals, CountInstance, At
<1> DEFINE m == req[s].master
<1>2. m \in Masters /\ Held(s) \in MasterRow /\ req[s].inst \in InstIds
  BY <1>1 DEF LocalsOK, Held
<1>3. masters[m] \in MasterRow
  BY <1>2, RowsTyped DEF CountInstance
<1>4. CountAfter(Held(s)) \in Nat
  BY <1>2 DEF CountAfter, MasterRow
<1>5. [masters[m] EXCEPT !.occ = CountAfter(Held(s))] \in MasterRow
  BY <1>3, <1>4 DEF MasterRow
<1>6. masters' = [masters EXCEPT ![m] = [masters[m] EXCEPT !.occ = CountAfter(Held(s))]]
  BY <1>2, <1>3 DEF CountInstance, TypeOK, MasterRow
<1>7. masters' \in [Masters -> MasterRow \cup {NoRow, Gone}]
  BY <1>2, <1>5, <1>6 DEF TypeOK
<1>8. \A n \in Masters : Exists(masters[n]) => Exists(masters'[n])
  BY <1>2, <1>5, <1>6, SentinelAssumption DEF TypeOK, Exists
<1>9. req' \in [Slots -> Request] /\ Locals'
  BY <1>2, Resuming, Going DEF CountInstance, TypeOK
<1>10. UNCHANGED <<assocs, insts, day, tod>>
  BY DEF CountInstance, clock
<1>11. TypeOK'
  BY <1>7, <1>9, <1>10 DEF TypeOK
<1>12. Linked'
  BY <1>8, <1>10 DEF Linked, TypeOK, Exists, AssocRow
<1>13. QED
  BY <1>9, <1>11, <1>12

(* Creating and removing an association keeps Base. *)
LEMMA AssociationKeepsBase ==
    ASSUME Base, NEW s \in Slots, InsertAssociation(s) \/ RemoveAssociation(s)
    PROVE  Base'
<1>1. req[s] \in Request /\ LocalsOK(req[s])
  BY DEF TypeOK, Locals
<1>2. CASE InsertAssociation(s)
  <2>1. PICK a \in AssocIds :
          /\ NextAssoc(a)
          /\ assocs' = [assocs EXCEPT ![a] =
                [master |-> req[s].master, member |-> req[s].member, removed |-> FALSE]]
          /\ Goto(s, [req[s] EXCEPT !.at = "gen", !.assoc = a])
    BY <1>2 DEF InsertAssociation
  <2> DEFINE row == [master |-> req[s].master, member |-> req[s].member, removed |-> FALSE]
             r == [req[s] EXCEPT !.at = "gen", !.assoc = a]
  <2>2. req[s].at = "insert_assoc" /\ Exists(masters[req[s].master])
    BY <1>2 DEF InsertAssociation, At
  <2>3. row \in AssocRow
    BY <1>1, <2>2 DEF Request, LocalsOK, AssocRow
  <2>4. r \in Request
    BY <1>1 DEF Request, Labels
  <2>5. LocalsOK(r)
    BY <1>1, <2>2 DEF LocalsOK, Request
  <2>6. req' \in [Slots -> Request] /\ Locals'
    BY <2>1, <2>4, <2>5, Going DEF TypeOK
  <2>7. UNCHANGED <<masters, insts, day, tod>>
    BY <1>2 DEF InsertAssociation, clock
  <2>8. assocs' \in [AssocIds -> AssocRow \cup {NoRow, Gone}]
    BY <2>1, <2>3 DEF TypeOK
  <2>9. TypeOK'
    BY <2>6, <2>7, <2>8 DEF TypeOK
  <2>10. Exists(row) /\ row.master = req[s].master
    BY <2>3, SentinelAssumption DEF Exists
  <2>11. \A b \in AssocIds : assocs'[b] = IF b = a THEN row ELSE assocs[b]
    BY <2>1 DEF TypeOK
  <2> HIDE DEF row
  <2>12. \A i \in InstIds : insts'[i] # NoRow => Exists(assocs'[i[1]])
    BY <2>7, <2>10, <2>11 DEF Linked, InstIds
  <2>13. \A b \in AssocIds : Exists(assocs'[b]) => Exists(masters'[assocs'[b].master])
    BY <2>2, <2>7, <2>10, <2>11 DEF Linked
  <2> QED BY <2>6, <2>9, <2>12, <2>13 DEF Linked
<1>3. CASE RemoveAssociation(s)
  <2> DEFINE a == req[s].assoc
  <2>1. a \in AssocIds
    BY <1>1, <1>3 DEF LocalsOK, RemoveAssociation, At
  <2>2. req' \in [Slots -> Request] /\ Locals'
    BY <1>3, IdleTyped, Going DEF RemoveAssociation, Finish, TypeOK
  <2>3. UNCHANGED <<masters, insts, day, tod>>
    BY <1>3 DEF RemoveAssociation, clock
  <2>4. CASE ~Exists(assocs[a])
    BY <1>3, <2>2, <2>3, <2>4 DEF RemoveAssociation, TypeOK, Linked
  <2>5. CASE Exists(assocs[a])
    <3>1. assocs[a] \in AssocRow
      BY <2>1, <2>5, RowsTyped
    <3> DEFINE row == [assocs[a] EXCEPT !.removed = TRUE]
    <3>2. row \in AssocRow /\ row.master = assocs[a].master
      BY <3>1 DEF AssocRow
    <3>3. assocs' = [assocs EXCEPT ![a] = row]
      BY <1>3, <2>5 DEF RemoveAssociation
    <3>4. \A b \in AssocIds : assocs'[b] = IF b = a THEN row ELSE assocs[b]
      BY <3>3 DEF TypeOK
    <3>5. Exists(row)
      BY <3>2, SentinelAssumption DEF Exists
    <3> HIDE DEF row, a
    <3>6. assocs' \in [AssocIds -> AssocRow \cup {NoRow, Gone}]
      BY <2>1, <3>2, <3>3 DEF TypeOK
    <3>7. \A i \in InstIds : insts'[i] # NoRow => Exists(assocs'[i[1]])
      BY <2>3, <3>4, <3>5 DEF Linked, InstIds
    <3>8. \A b \in AssocIds : Exists(assocs'[b]) => Exists(masters'[assocs'[b].master])
      BY <2>3, <2>5, <3>2, <3>4 DEF Linked
    <3> QED BY <2>2, <2>3, <3>6, <3>7, <3>8 DEF TypeOK, Linked
  <2> QED BY <2>4, <2>5
<1>4. QED
  BY <1>2, <1>3

(* The steps of a sync up to its loop over associations keep Base. *)
LEMMA SyncKeepsBase ==
    ASSUME Base, NEW s \in Slots,
           MarkMissed(s) \/ ListOverdue(s) \/ MarkOverdue(s) \/ ListAssociations(s)
    PROVE  Base'
<1>1. req[s] \in Request
  BY DEF TypeOK
<1>2. CASE MarkMissed(s)
  <2>1. "missed" \in InstStatus
    BY DEF InstStatus
  <2> QED BY <1>2, <2>1, Marking DEF MarkMissed, At
<1>3. CASE MarkOverdue(s)
  <2>1. "overdue" \in InstStatus
    BY DEF InstStatus
  <2> QED BY <1>3, <2>1, Marking DEF MarkOverdue, At
<1>4. CASE ListOverdue(s)
  <2> DEFINE r == [req[s] EXCEPT !.at = "overdue", !.todo = Overdue]
  <2>1. Overdue \in SUBSET InstIds
    BY DEF Overdue, Having
  <2>2. r \in Request
    BY <1>1, <2>1 DEF Request, Labels
  <2>3. LocalsOK(r)
    BY <1>1, <2>1 DEF LocalsOK, Request
  <2> QED BY <1>4, <2>2, <2>3, Quiet DEF ListOverdue
<1>5. CASE ListAssociations(s)
  <2> DEFINE all == UNION {InForce(m) : m \in Masters}
             r == [req[s] EXCEPT !.at = "next", !.queue = all]
  <2>1. all \in SUBSET AssocIds
    BY DEF InForce
  <2>2. r \in Request
    <3> HIDE DEF all
    <3> QED BY <1>1, <2>1 DEF Request, Labels
  <2>3. LocalsOK(r)
    <3> HIDE DEF all
    <3> QED BY <1>1, <2>1 DEF LocalsOK, Request
  <2>4. Goto(s, r) \/ Goto(s, Idle)
    BY <1>5 DEF ListAssociations, Finish
  <2> QED BY <1>5, <2>2, <2>3, <2>4, IdleTyped, Quiet DEF ListAssociations
<1>6. QED
  BY <1>2, <1>3, <1>4, <1>5

(* The step of a sync to its next association keeps Base. *)
LEMMA NextKeepsBase ==
    ASSUME Base, NEW s \in Slots, NextAssociation(s)
    PROVE  Base'
<1>1. req[s] \in Request
  BY DEF TypeOK
<1>2. PICK a \in req[s].queue :
        LET m == assocs[a].master
            c == IF req[s].copy[m] = Keep THEN masters[m] ELSE req[s].copy[m]
            rest == req[s].queue \ {a}
        IN  IF Exists(assocs[a]) /\ c.status = "active"
            THEN Goto(s, [req[s] EXCEPT !.at = "gen", !.assoc = a, !.master = m,
                                        !.copy = [@ EXCEPT ![m] = c]])
            ELSE IF rest = {} THEN Finish(s)
            ELSE Goto(s, [req[s] EXCEPT !.queue = rest,
                                        !.copy = IF Exists(assocs[a])
                                                 THEN [@ EXCEPT ![m] = c]
                                                 ELSE @])
  BY DEF NextAssociation
<1> DEFINE m == assocs[a].master
           c == IF req[s].copy[m] = Keep THEN masters[m] ELSE req[s].copy[m]
           held == [req[s].copy EXCEPT ![m] = c]
           rest == req[s].queue \ {a}
           r1 == [req[s] EXCEPT !.at = "gen", !.assoc = a, !.master = m, !.copy = held]
           kept == IF Exists(assocs[a]) THEN held ELSE req[s].copy
           r2 == [req[s] EXCEPT !.queue = rest, !.copy = kept]
<1>3. a \in AssocIds /\ rest \in SUBSET AssocIds /\ req[s].copy \in [Masters -> Copy]
  BY <1>1 DEF Request
<1>4. Exists(assocs[a]) => m \in Masters /\ c \in MasterRow
  <2>1. SUFFICES ASSUME Exists(assocs[a])
                 PROVE  m \in Masters /\ c \in MasterRow
    OBVIOUS
  <2>2. m \in Masters /\ masters[m] \in MasterRow
    BY <1>3, <2>1, RowsTyped DEF Linked, AssocRow
  <2> QED BY <1>3, <2>2 DEF Copy
<1>5. Exists(assocs[a]) => held \in [Masters -> Copy] /\ held[m] = c
  BY <1>3, <1>4 DEF Copy
<1>6. kept \in [Masters -> Copy]
  BY <1>3, <1>5
<1>7. \/ Exists(assocs[a]) /\ Goto(s, r1)
      \/ Goto(s, Idle)
      \/ Goto(s, r2)
  <2>1. /\ r1 = [req[s] EXCEPT !.at = "gen", !.assoc = a, !.master = m,
                               !.copy = [@ EXCEPT ![m] = c]]
        /\ r2 = [req[s] EXCEPT !.queue = rest,
                               !.copy = IF Exists(assocs[a])
                                        THEN [@ EXCEPT ![m] = c]
                                        ELSE @]
    BY <1>1 DEF Request
  <2> HIDE DEF r1, r2
  <2> QED BY <1>2, <2>1 DEF Finish
<1>8. r2 \in Request /\ LocalsOK(r2)
  <2> HIDE DEF kept, rest
  <2>1. r2 \in Request
    BY <1>1, <1>3, <1>6 DEF Request
  <2>2. r2.at = req[s].at
    BY <1>1 DEF Request
  <2>3. req[s].at = "next"
    BY DEF NextAssociation, At
  <2> QED BY <2>1, <2>2, <2>3 DEF LocalsOK
<1>9. Exists(assocs[a]) => r1 \in Request /\ LocalsOK(r1)
  <2>1. SUFFICES ASSUME Exists(assocs[a])
                 PROVE  r1 \in Request /\ LocalsOK(r1)
    OBVIOUS
  <2>2. held \in [Masters -> Copy] /\ held[m] \in MasterRow /\ m \in Masters
    BY <1>4, <1>5, <2>1
  <2> HIDE DEF held, m
  <2>3. r1 \in Request
    BY <1>1, <1>3, <2>2 DEF Request, Labels
  <2>4. r1.at = "gen" /\ r1.assoc = a /\ r1.master = m /\ r1.copy = held
    BY <1>1 DEF Request
  <2> QED BY <1>3, <2>2, <2>3, <2>4 DEF LocalsOK
<1> HIDE DEF r1, r2
<1>10. QED
  BY <1>7, <1>8, <1>9, IdleTyped, Quiet DEF NextAssociation

(* A step of a bulk archiving keeps Base. *)
LEMMA BulkKeepsBase ==
    ASSUME Base, NEW s \in Slots, GuardMaster(s) \/ CascadeArchive(s) \/ BulkCommit(s)
    PROVE  Base'
<1>1. req[s] \in Request /\ req[s].at = "guard"
  BY DEF TypeOK, GuardMaster, CascadeArchive, BulkCommit, At
<1>2. CASE GuardMaster(s)
  <2>1. PICK m \in req[s].left :
          Goto(s, [req[s] EXCEPT !.left = @ \ {m},
                                 !.todo = Having(InstancesOf(m), Finished)])
    BY <1>2 DEF GuardMaster
  <2> DEFINE ids == Having(InstancesOf(m), Finished)
             r == [req[s] EXCEPT !.left = @ \ {m}, !.todo = ids]
  <2>2. ids \in SUBSET InstIds
    BY DEF Having, InstancesOf
  <2> HIDE DEF ids
  <2>3. r \in Request
    BY <1>1, <2>2 DEF Request
  <2>4. LocalsOK(r)
    BY <1>1, <2>3 DEF LocalsOK, Request
  <2>5. Goto(s, r)
    BY <2>1 DEF ids
  <2> QED BY <1>2, <2>3, <2>4, <2>5, Quiet DEF GuardMaster
<1>3. CASE CascadeArchive(s)
  <2>1. "archived" \in InstStatus
    BY DEF InstStatus
  <2> QED BY <1>1, <1>3, <2>1, Marking DEF CascadeArchive
<1>4. CASE BulkCommit(s)
  <2>1. "archived" \in MasterStatus
    BY DEF MasterStatus
  <2>2. /\ masters' \in [Masters -> MasterRow \cup {NoRow, Gone}]
        /\ \A m \in Masters : Exists(masters'[m]) <=> Exists(masters[m])
    BY <1>4, <2>1, SettingMasters DEF BulkCommit
  <2>3. req' \in [Slots -> Request] /\ Locals'
    BY <1>4, IdleTyped, Going DEF BulkCommit, Finish, TypeOK
  <2> QED BY <1>4, <2>2, <2>3, Configuring DEF BulkCommit
<1>5. QED
  BY <1>2, <1>3, <1>4

(* A permanent delete keeps Base: it leaves no instance without its        *)
(* association and no association without its master.                      *)
LEMMA PurgeKeepsBase ==
    ASSUME Base, NEW s \in Slots, PurgeCommit(s)
    PROVE  Base'
<1>1. req[s] \in Request /\ LocalsOK(req[s]) /\ req[s].at = "purge"
  BY DEF TypeOK, Locals, PurgeCommit, At
<1> DEFINE m == req[s].master
<1>2. m \in Masters
  BY <1>1 DEF LocalsOK
<1>3. req' \in [Slots -> Request] /\ Locals'
  BY IdleTyped, Going DEF PurgeCommit, Finish, TypeOK
<1>4. /\ masters' = [masters EXCEPT ![m] = Gone]
      /\ \A a \in AssocIds :
            assocs'[a] = IF a \in AssociationsOf(m) THEN Gone ELSE assocs[a]
      /\ \A i \in InstIds :
            insts'[i] = IF i[1] \in req[s].queue THEN NoRow ELSE insts[i]
  BY DEF PurgeCommit, PurgedInstances
<1>5. TypeOK'
  <2>1. masters' \in [Masters -> MasterRow \cup {NoRow, Gone}]
    BY <1>2, <1>4 DEF TypeOK
  <2>2. assocs' \in [AssocIds -> AssocRow \cup {NoRow, Gone}]
    BY DEF PurgeCommit, TypeOK
  <2>3. insts' \in [InstIds -> InstRow \cup {NoRow}]
    BY DEF PurgeCommit, TypeOK
  <2> QED BY <1>3, <2>1, <2>2, <2>3 DEF TypeOK, PurgeCommit, clock
<1>6. \A i \in InstIds : insts'[i] # NoRow => Exists(assocs'[i[1]])
  <2>1. SUFFICES ASSUME NEW i \in InstIds, insts'[i] # NoRow
                 PROVE  Exists(assocs'[i[1]])
    OBVIOUS
  <2>2. insts[i] # NoRow /\ i[1] \notin req[s].queue /\ i[1] \in AssocIds
    BY <1>4, <2>1 DEF InstIds
  <2>3. Exists(assocs[i[1]])
    BY <2>2 DEF Linked
  <2>4. assocs[i[1]].master # m
    BY <2>2 DEF PurgeCommit, ReferredTo, InstancesOf
  <2> QED BY <1>4, <2>2, <2>3, <2>4 DEF AssociationsOf
<1>7. \A a \in AssocIds : Exists(assocs'[a]) => Exists(masters'[assocs'[a].master])
  <2>1. SUFFICES ASSUME NEW a \in AssocIds, Exists(assocs'[a])
                 PROVE  Exists(masters'[assocs'[a].master])
    OBVIOUS
  <2>2. a \notin AssociationsOf(m) /\ assocs'[a] = assocs[a]
    BY <1>4, <2>1 DEF Exists
  <2>3. assocs[a].master # m /\ Exists(masters[assocs[a].master])
    BY <2>1, <2>2 DEF AssociationsOf, Linked
  <2>4. assocs[a].master \in Masters
    BY <2>1, <2>2, RowsTyped DEF AssocRow
  <2> QED BY <1>4, <2>2, <2>3, <2>4 DEF TypeOK
<1>8. QED
  BY <1>3, <1>5, <1>6, <1>7 DEF Linked

(* A handler that raises keeps Base. *)
LEMMA AbortKeepsBase ==
    ASSUME Base, NEW s \in Slots, Abort(s)
    PROVE  Base'
BY IdleTyped, Quiet DEF Abort, Finish

(* Every step of a handler that goes on keeps Base. *)
LEMMA ContinueKeepsBase ==
    ASSUME Base, NEW s \in Slots, Continue(s)
    PROVE  Base'
BY UpdateKeepsBase, LookupKeepsBase, PlanKeepsBase, ArchiveKeepsBase, InsertKeepsBase,
   CountKeepsBase, AssociationKeepsBase, SyncKeepsBase, NextKeepsBase, BulkKeepsBase,
   PurgeKeepsBase, AbortKeepsBase
   DEF Continue

-------------------------------------------------------------------------------
(* The endpoints that take one step, and the environment. *)

(* Creating, editing and soft-deleting a master keeps Base. *)
LEMMA MastersKeepBase ==
    ASSUME Base, NEW m \in Masters,
           CreateMaster(m) \/ PatchMaster(m) \/ SoftDeleteMaster(m)
    PROVE  Base'
<1>1. NoRow \notin MasterRow /\ Gone \notin MasterRow
  BY SentinelAssumption
<1>2. UNCHANGED <<assocs, insts, day, tod, req>>
  BY DEF CreateMaster, PatchMaster, SoftDeleteMaster, clock
<1>3. req' \in [Slots -> Request] /\ Locals' /\ UNCHANGED <<assocs, insts, clock>>
  BY <1>2 DEF TypeOK, Locals, clock
<1>4. SUFFICES /\ masters' \in [Masters -> MasterRow \cup {NoRow, Gone}]
               /\ \A n \in Masters : Exists(masters[n]) => Exists(masters'[n])
  BY <1>3, Configuring
<1>5. CASE CreateMaster(m)
  <2>1. PICK t \in Templates : masters' = [masters EXCEPT ![m] = NewMaster(t)]
    BY <1>5 DEF CreateMaster
  <2>2. NewMaster(t) \in MasterRow
    BY DEF NewMaster, MasterRow, MasterStatus
  <2> QED BY <1>1, <1>5, <2>1, <2>2 DEF TypeOK, Exists
<1>6. CASE PatchMaster(m)
  <2>1. PICK t \in Templates, x \in MasterStatus :
          masters' = [masters EXCEPT ![m].tmpl = t, ![m].status = x]
    BY <1>6 DEF PatchMaster
  <2>2. masters[m] \in MasterRow
    BY <1>6, RowsTyped DEF PatchMaster
  <2> DEFINE row == [masters[m] EXCEPT !.tmpl = t, !.status = x]
  <2>3. row \in MasterRow
    BY <2>2 DEF MasterRow
  <2>4. masters' = [masters EXCEPT ![m] = row]
    BY <2>1 DEF TypeOK
  <2> HIDE DEF row
  <2> QED BY <1>1, <2>3, <2>4 DEF TypeOK, Exists
<1>7. CASE SoftDeleteMaster(m)
  <2>1. masters[m] \in MasterRow
    BY <1>7, RowsTyped DEF SoftDeleteMaster
  <2> DEFINE row == [masters[m] EXCEPT !.deleted = TRUE, !.status = "archived"]
  <2>2. row \in MasterRow
    BY <2>1 DEF MasterRow, MasterStatus
  <2>3. masters' = [masters EXCEPT ![m] = row]
    BY <1>7 DEF SoftDeleteMaster, TypeOK
  <2> HIDE DEF row
  <2> QED BY <1>1, <2>2, <2>3 DEF TypeOK, Exists
<1>8. QED
  BY <1>5, <1>6, <1>7

(* Pausing and resuming masters keeps Base. *)
LEMMA BulkSetKeepsBase ==
    ASSUME Base, BulkSetStatus
    PROVE  Base'
<1>1. PICK batch \in SUBSET Masters \ {{}}, x \in {"active", "inactive"} :
        masters' = WithStatus(batch, x)
  BY DEF BulkSetStatus
<1>2. x \in MasterStatus
  BY DEF MasterStatus
<1>3. /\ masters' \in [Masters -> MasterRow \cup {NoRow, Gone}]
      /\ \A m \in Masters : Exists(masters'[m]) <=> Exists(masters[m])
  BY <1>1, <1>2, SettingMasters
<1>4. req' \in [Slots -> Request] /\ Locals' /\ UNCHANGED <<assocs, insts, clock>>
  BY DEF BulkSetStatus, TypeOK, Locals
<1>5. QED
  BY <1>3, <1>4, Configuring

(* The clock and a restart of the server keep Base. *)
LEMMA EnvironmentKeepsBase ==
    ASSUME Base, Tick \/ Restart
    PROVE  Base'
<1>1. CASE Tick
  <2>1. day' \in Days /\ tod' \in Tods
    BY <1>1, BoundsAssumption DEF Tick, TypeOK, Days, Tods
  <2> QED BY <1>1, <2>1 DEF Tick, TypeOK, Locals, Linked, tables
<1>2. CASE Restart
  <2>1. req' \in [Slots -> Request] /\ Locals'
    BY <1>2, IdleTyped DEF Restart, Locals
  <2> QED BY <1>2, <2>1 DEF Restart, TypeOK, Linked, tables, clock
<1>3. QED
  BY <1>1, <1>2

(* The empty board satisfies Base. *)
LEMMA InitBase == Init => Base
<1>1. SUFFICES ASSUME Init PROVE Base
  OBVIOUS
<1>2. 0 \in Days /\ 0 \in Tods
  BY BoundsAssumption DEF Days, Tods
<1>3. TypeOK /\ Locals
  BY <1>1, <1>2, IdleTyped DEF Init, TypeOK, Locals
<1>4. Linked
  BY <1>1 DEF Init, Linked, Exists, InstIds
<1>5. QED
  BY <1>3, <1>4

(* Every step of the board keeps Base. *)
LEMMA NextBase == Base /\ [Next]_vars => Base'
<1>1. SUFFICES ASSUME Base, [Next]_vars PROVE Base'
  OBVIOUS
<1>2. CASE UNCHANGED vars
  BY <1>1, <1>2 DEF vars, TypeOK, Locals, Linked
<1>3. CASE Next
  BY <1>1, <1>3, ArriveKeepsBase, ContinueKeepsBase, MastersKeepBase, BulkSetKeepsBase,
     EnvironmentKeepsBase
     DEF Next
<1>4. QED
  BY <1>1, <1>2, <1>3

(* In every behaviour of the board, Base holds. *)
THEOREM Basis == Spec => []Base
BY InitBase, NextBase, PTL DEF Spec

(* For any number of members, masters, associations, days and requests in  *)
(* flight, the tables stay typed, and every handler always holds what its  *)
(* next repository call needs.                                             *)
THEOREM Typing == Spec => []TypeOK
<1>1. Base => TypeOK
  OBVIOUS
<1>2. QED
  BY <1>1, Basis, PTL

===============================================================================
