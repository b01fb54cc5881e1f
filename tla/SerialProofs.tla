----------------------------- MODULE SerialProofs -----------------------------
(***************************************************************************)
(* What the board promises when one request is served at a time, and what  *)
(* it still promises when requests overlap.                                *)
(*                                                                         *)
(* Many promises of the service do not survive two handlers that read      *)
(* before either writes, and the runs with two slots show it.  For these   *)
(* Slots has one member (OneAtATime), while the clock, the one-step        *)
(* endpoints of masters and, where it does no harm, a restart come between *)
(* any two steps of the one handler.  Three invariants build on each       *)
(* other: UseInv, that what the handler goes by is up to date; BoardInv,   *)
(* that its copies of masters still tell how many instances there are; and *)
(* OpenInv, that what it is about to make is the newest of its             *)
(* association.  Two need no such restriction: MarksInv, behind what a     *)
(* sync may call missed or overdue, and PileInv at the end, which puts     *)
(* each instance still to do down to a request of its own, any number of   *)
(* requests overlapping and dying.                                         *)
(*                                                                         *)
(* Each theorem names what it needs.  NoPatch: a PATCH may change under a  *)
(* handler the due time, the limits or the sharing it has read.            *)
(* NoRestart: a stop between an insert and its count leaves an instance    *)
(* uncounted.  NoReopen: revert, reset and the status endpoint reopen an   *)
(* old instance beside the new one.  InOrder: a rule that passes over its  *)
(* own days generates behind its newest instance.                          *)
(***************************************************************************)
EXTENDS ChoresProofs

USE DEF Base, CountInv

-------------------------------------------------------------------------------
(* What lasts from one step to the next, whoever takes it. *)

(* The clock goes on, an instance disappears with its association only and *)
(* for good, and no association goes to another master.                    *)
Lasts ==
    /\ day' \in Nat /\ tod' \in Nat
    /\ day < day' \/ (day = day' /\ tod <= tod')
    /\ \A i \in InstIds :
          /\ insts[i] # NoRow /\ insts'[i] = NoRow => assocs'[i[1]] = Gone
          /\ insts'[i] # NoRow => insts[i] # NoRow \/ Exists(assocs[i[1]])
    /\ \A a \in AssocIds :
          /\ assocs[a] = Gone => assocs'[a] = Gone
          /\ Exists(assocs[a]) /\ Exists(assocs'[a]) => assocs'[a].master = assocs[a].master
    /\ \A m \in Masters : Exists(masters[m]) /\ Exists(masters'[m]) =>
          masters'[m].tmpl = masters[m].tmpl

(* A step that makes and loses no row, and leaves templates alone. *)
LEMMA RowsStay ==
    ASSUME Base, UNCHANGED <<assocs, clock>>,
           \A i \in InstIds : insts'[i] = NoRow <=> insts[i] = NoRow,
           \A m \in Masters : Exists(masters[m]) /\ Exists(masters'[m]) =>
              masters'[m].tmpl = masters[m].tmpl
    PROVE  Lasts
<1>1. day \in Nat /\ tod \in Nat
  BY DEF TypeOK, Days, Tods
<1> QED
  BY <1>1 DEF clock, Lasts

(* Masters that are created, deleted or change status keep their template. *)
LEMMA TemplatesStay ==
    ASSUME Base, NEW batch, NEW x, masters' = WithStatus(batch, x)
    PROVE  \A m \in Masters : Exists(masters[m]) => masters'[m].tmpl = masters[m].tmpl
<1>1. \A m \in Masters : Exists(masters[m]) => masters[m] \in MasterRow
  BY RowsTyped
<1> QED
  BY <1>1 DEF WithStatus, MasterRow

(* No step of a handler undoes what lasts.                                 *)
LEMMA HandlersLast ==
    ASSUME CountInv, NEW s \in Slots, Continue(s)
    PROVE  Lasts
<1>1. req[s] \in Request /\ {"missed", "overdue", "archived"} \subseteq InstStatus
  BY DEF TypeOK, InstStatus
<1>2. CASE \/ LoadRow(s) \/ LookupMaster(s) \/ PlanInstance(s) \/ ListOverdue(s)
           \/ ListAssociations(s) \/ NextAssociation(s) \/ GuardMaster(s) \/ Abort(s)
  <2>1. UNCHANGED <<tables, clock>>
    BY <1>2 DEF LoadRow, LookupMaster, PlanInstance, ListOverdue, ListAssociations,
                NextAssociation, GuardMaster, Abort
  <2> QED
    BY <2>1, RowsStay DEF tables
<1>3. CASE CommitRow(s)
  <2>1. req[s].inst \in InstIds /\ req[s].row \in InstRow /\ req[s].upd \in Update
    BY <1>1, <1>3 DEF CommitRow, At, Locals, LocalsOK, Request
  <2>2. /\ insts[req[s].inst] # NoRow /\ UNCHANGED <<masters, assocs, clock>>
        /\ insts' = [insts EXCEPT ![req[s].inst] = Merged(s)]
    BY <1>3 DEF CommitRow
  <2>3. Merged(s) # NoRow
    <3>1. insts[req[s].inst] \in InstRow
      BY <2>1, <2>2, RowsTyped
    <3>2. Merged(s) \in InstRow
      BY <2>1, <3>1, WrittenTyped DEF Merged
    <3> QED
      BY <3>2, SentinelAssumption
  <2>4. \A i \in InstIds : insts'[i] = NoRow <=> insts[i] = NoRow
    BY <2>1, <2>2, <2>3 DEF TypeOK
  <2> QED
    BY <2>2, <2>4, RowsStay
<1>4. CASE ArchiveOld(s) \/ ReleaseInstances(s)
  <2>1. /\ ~Vanished(req[s].todo) /\ SetStatuses(req[s].todo, "archived")
        /\ req[s].todo \in SUBSET InstIds /\ UNCHANGED <<masters, assocs, clock>>
    BY <1>1, <1>4 DEF ArchiveOld, ReleaseInstances, Request
  <2> QED
    BY <1>1, <2>1, SettingStatuses, RowsStay
<1>5. CASE MarkMissed(s) \/ MarkOverdue(s) \/ CascadeArchive(s)
  <2>1. /\ UNCHANGED <<masters, assocs, clock>>
        /\ \A i \in InstIds : insts'[i] = NoRow <=> insts[i] = NoRow
    BY <1>1, <1>5, Marking DEF MarkMissed, MarkOverdue, CascadeArchive, At
  <2> QED
    BY <2>1, RowsStay
<1>6. CASE InsertInstance(s)
  <2>1. /\ req[s].inst \in InstIds /\ UNCHANGED <<masters, assocs, clock>>
        /\ \/ insts' = insts
           \/ /\ Exists(assocs[req[s].inst[1]]) /\ insts[req[s].inst] = NoRow
              /\ \E row : insts' = [insts EXCEPT ![req[s].inst] = row]
    BY <1>1, <1>6 DEF InsertInstance, At, Locals, LocalsOK
  <2>2. \A i \in InstIds : insts'[i] # insts[i] =>
           insts[i] = NoRow /\ Exists(assocs[i[1]])
    BY <2>1 DEF TypeOK
  <2>3. day \in Nat /\ tod \in Nat
    BY DEF TypeOK, Days, Tods
  <2> QED
    BY <2>1, <2>2, <2>3 DEF Lasts, clock
<1>7. CASE CountInstance(s)
  <2>1. /\ UNCHANGED <<assocs, insts, clock>> /\ req[s].master \in Masters
        /\ masters' = [masters EXCEPT ![req[s].master].occ = CountAfter(Held(s))]
    BY <1>1, <1>7 DEF CountInstance, At, Locals, LocalsOK
  <2>2. \A m \in Masters : Exists(masters[m]) => masters'[m].tmpl = masters[m].tmpl
    <3>1. \A m \in Masters : Exists(masters[m]) => masters[m] \in MasterRow
      BY RowsTyped
    <3> QED
      BY <2>1, <3>1 DEF MasterRow, TypeOK
  <2> QED
    BY <2>1, <2>2, RowsStay
<1>8. CASE InsertAssociation(s)
  <2>1. PICK a \in AssocIds : /\ assocs[a] = NoRow /\ UNCHANGED <<masters, insts, clock>>
                              /\ \E row : assocs' = [assocs EXCEPT ![a] = row]
    BY <1>8 DEF InsertAssociation, NextAssoc
  <2>2. \A b \in AssocIds : b # a => assocs'[b] = assocs[b]
    BY <2>1 DEF TypeOK
  <2>3. day \in Nat /\ tod \in Nat
    BY DEF TypeOK, Days, Tods
  <2>4. NoRow # Gone /\ \A i \in InstIds : i[1] \in AssocIds
    BY SentinelAssumption DEF InstIds
  <2> QED
    BY <2>1, <2>2, <2>3, <2>4 DEF Lasts, clock, Exists, Linked
<1>9. CASE RemoveAssociation(s)
  <2>1. /\ UNCHANGED <<masters, insts, clock>>
        /\ assocs' = IF Exists(assocs[req[s].assoc])
                     THEN [assocs EXCEPT ![req[s].assoc].removed = TRUE] ELSE assocs
    BY <1>9 DEF RemoveAssociation
  <2>2. \A a \in AssocIds : Exists(assocs[a]) => assocs[a] \in AssocRow
    BY RowsTyped
  <2>3. \A a \in AssocIds : Exists(assocs[a]) => assocs'[a].master = assocs[a].master
    BY <2>1, <2>2 DEF AssocRow, TypeOK
  <2>4. \A a \in AssocIds : assocs[a] = Gone => assocs'[a] = Gone
    BY <2>1 DEF TypeOK, Exists
  <2>5. day \in Nat /\ tod \in Nat
    BY DEF TypeOK, Days, Tods
  <2> QED
    BY <2>1, <2>3, <2>4, <2>5 DEF Lasts, clock, Linked
<1>10. CASE BulkCommit(s)
  BY <1>10, TemplatesStay, RowsStay DEF BulkCommit
<1>11. CASE PurgeCommit(s)
  <2> DEFINE m == req[s].master
  <2>1. /\ ~ReferredTo(s) /\ UNCHANGED clock /\ m \in Masters
        /\ insts' = [i \in InstIds |-> IF i \in PurgedInstances(s) THEN NoRow ELSE insts[i]]
        /\ assocs' = [a \in AssocIds |-> IF a \in AssociationsOf(m) THEN Gone ELSE assocs[a]]
        /\ masters' = [masters EXCEPT ![m] = Gone]
    BY <1>1, <1>11 DEF PurgeCommit, At, Locals, LocalsOK
  <2>2. day \in Nat /\ tod \in Nat
    BY DEF TypeOK, Days, Tods
  <2>3. ~Exists(Gone) /\ \A n \in Masters : Exists(masters'[n]) => masters'[n] = masters[n]
    BY <2>1 DEF TypeOK, Exists
  <2>4. \A a \in AssocIds : Exists(assocs'[a]) => assocs'[a] = assocs[a]
    BY <2>1, <2>3
  <2>5. \A a \in AssocIds : assocs[a] = Gone => assocs'[a] = Gone
    BY <2>1
  <2>6. ASSUME NEW i \in InstIds, insts[i] # NoRow, insts'[i] = NoRow PROVE assocs'[i[1]] = Gone
    <3>1. i[1] \in req[s].queue /\ i[1] \in AssocIds /\ Exists(assocs[i[1]])
      BY <2>1, <2>6 DEF PurgedInstances, InstIds, Linked
    <3>2. assocs[i[1]].master = m
      BY <1>11, <3>1 DEF PurgeCommit, At, Attached, Attaches, BelongsTo
    <3> QED
      BY <2>1, <3>1, <3>2 DEF AssociationsOf
  <2>7. \A i \in InstIds : insts'[i] # NoRow => insts[i] # NoRow
    BY <2>1
  <2> QED
    BY <2>1, <2>2, <2>3, <2>4, <2>5, <2>6, <2>7 DEF Lasts, clock
<1> QED
  BY <1>2, <1>3, <1>4, <1>5, <1>6, <1>7, <1>8, <1>9, <1>10, <1>11 DEF Continue

(* Requests that arrive only read. *)
LEMMA ArriveReads ==
    ASSUME NEW s \in Slots, Arrive(s)
    PROVE  UNCHANGED <<tables, clock>>
BY DEF Arrive, ClaimInstance, AssignInstance, RevertInstanceStatus, ResetInstance,
       UpdateInstanceStatus, DeleteInstance, CreateAssociation, DeleteAssociation, Sync,
       BulkArchive, PurgeMaster, BeginUpdate, Begin

(* Nor does any step, where nobody edits a master chore.                   *)
LEMMA EveryStepLasts ==
    ASSUME NoPatch, CountInv, [Next]_vars
    PROVE  Lasts
<1>1. ASSUME NEW m \in Masters, CreateMaster(m) \/ PatchMaster(m) \/ SoftDeleteMaster(m)
      PROVE  Lasts
  <2>1. CreateMaster(m) \/ SoftDeleteMaster(m)
    BY <1>1 DEF PatchMaster, NoPatch
  <2>2. UNCHANGED <<assocs, insts, clock>>
    BY <2>1 DEF CreateMaster, SoftDeleteMaster
  <2>3. \A n \in Masters : Exists(masters[n]) => masters'[n].tmpl = masters[n].tmpl
    <3>1. \A n \in Masters : Exists(masters[n]) => masters[n] \in MasterRow
      BY RowsTyped
    <3> QED
      BY <2>1, <3>1 DEF CreateMaster, SoftDeleteMaster, MasterRow, TypeOK, Exists
  <2> QED
    BY <2>2, <2>3, RowsStay
<1>2. CASE BulkSetStatus
  BY <1>2, TemplatesStay, RowsStay DEF BulkSetStatus
<1>3. ASSUME NEW s \in Slots, Arrive(s) PROVE Lasts
  BY <1>3, ArriveReads, RowsStay DEF tables
<1>4. CASE Tick
  <2>1. day \in Nat /\ tod \in Nat /\ UNCHANGED tables
    BY <1>4 DEF TypeOK, Days, Tods, Tick
  <2>2. day' \in Nat /\ tod' \in Nat /\ (day < day' \/ (day = day' /\ tod <= tod'))
    BY <1>4, <2>1 DEF Tick
  <2> QED
    BY <2>1, <2>2 DEF Lasts, tables, Linked
<1>5. CASE Restart \/ UNCHANGED vars
  BY <1>5, RowsStay DEF Restart, vars, tables, clock
<1> QED
  BY <1>1, <1>2, <1>3, <1>4, <1>5, HandlersLast DEF Next

-------------------------------------------------------------------------------
(* Marks. *)

(* What is overdue stays so. *)
LEMMA StaysLate ==
    ASSUME CountInv, Linked', Lasts, NEW i \in InstIds, insts[i] # NoRow, insts'[i] # NoRow, Late(i)
    PROVE  Late(i)'
<1>1. i[1] \in AssocIds /\ Exists(assocs[i[1]]) /\ Exists(assocs'[i[1]]) /\ i[2] \in Nat
  BY DEF Linked, InstIds, Dates
<1>2. assocs'[i[1]].master = assocs[i[1]].master
  BY <1>1 DEF Lasts
<1> DEFINE m == assocs[i[1]].master
<1>3. m \in Masters /\ Exists(masters[m]) /\ Exists(masters'[m])
  BY <1>1, <1>2, RowsTyped DEF Linked, AssocRow
<1>4. masters'[m].tmpl = masters[m].tmpl
  BY <1>3 DEF Lasts
<1>5. masters[m].tmpl.due_time \in Nat \cup {None}
  BY <1>3, RowsTyped, TemplateAssumption DEF MasterRow, Template, Tods
<1>6. day \in Nat /\ tod \in Nat
  BY DEF TypeOK, Days, Tods
<1> QED
  BY <1>1, <1>2, <1>4, <1>5, <1>6 DEF Late, PastDueTime, Lasts

(* What a handler has listed keeps its meaning when others take a step. *)
LEMMA MarksLast ==
    ASSUME CountInv, Base', Lasts, NEW r \in Request, Marks(r)
    PROVE  Marks(r)'
<1>1. day \in Nat /\ r.todo \subseteq InstIds
  BY DEF TypeOK, Days, Request
<1>2. \A i \in InstIds : i[1] \in AssocIds /\ i[2] \in Nat
  BY DEF InstIds, Dates
<1>3. day' >= day /\ day' \in Nat
  BY <1>1 DEF Lasts
<1>4. CASE r.op = "sync" /\ r.at = "overdue"
  <2>1. ASSUME NEW i \in r.todo
        PROVE  IF insts'[i] = NoRow THEN assocs'[i[1]] = Gone ELSE Late(i)'
    <3>1. CASE insts[i] = NoRow
      <4>1. assocs[i[1]] = Gone /\ assocs'[i[1]] = Gone /\ ~Exists(assocs[i[1]])
        BY <1>1, <1>2, <1>4, <3>1 DEF Marks, Lasts, Exists
      <4> QED
        BY <1>1, <3>1, <4>1 DEF Lasts
    <3>2. CASE insts[i] # NoRow
      BY <1>1, <1>4, <3>2, StaysLate DEF Marks, Lasts
    <3> QED
      BY <3>1, <3>2
  <2> QED
    BY <1>4, <2>1 DEF Marks
<1>5. CASE r.op = "sync" /\ r.at # "overdue"
  BY <1>1, <1>2, <1>3, <1>5 DEF Marks
<1> QED
  BY <1>4, <1>5 DEF Marks

-------------------------------------------------------------------------------
(* What a handler holds after each of its steps. *)

(* The request goes on with what it has to write. *)
Pursues(s) == req'[s].op = req[s].op /\ req'[s].upd = req[s].upd

(* It goes on with the association and the copies it has. *)
Retains(s) ==
    /\ Pursues(s)
    /\ req'[s].master = req[s].master /\ req'[s].assoc = req[s].assoc
    /\ req'[s].copy = req[s].copy /\ req'[s].queue = req[s].queue

(* A handler that goes on holds what it goes on with; the others hold what *)
(* they held.                                                              *)
LEMMA Holding ==
    ASSUME Base, NEW s \in Slots, NEW r, Goto(s, r)
    PROVE  req'[s] = r /\ \A t \in Slots \ {s} : req'[t] = req[t]
BY DEF Goto, TypeOK

(* Where generation goes on. *)
Resumed(s, i) ==
    \/ req'[s] = Idle
    \/ /\ Pursues(s) /\ req[s].op = "sync" /\ req'[s].at = "next"
       /\ req'[s].queue = Remaining(s) /\ req'[s].todo = {}
       /\ req'[s].assoc = None /\ req'[s].copy = req[s].copy
    \/ /\ Pursues(s) /\ req[s].op = "create_assoc" /\ req'[s].at = "load"
       /\ i # None /\ req'[s].inst = i /\ req'[s].copy = Idle.copy

(* What a generation hands back to the sync or to the request that asked   *)
(* for it.                                                                 *)
LEMMA ResumeGoes ==
    ASSUME Base, NEW s \in Slots, NEW i, Resume(s, i)
    PROVE  Resumed(s, i)
<1>1. req[s] \in Request
  BY DEF TypeOK
<1> DEFINE r1 == [req[s] EXCEPT !.at = "next", !.queue = Remaining(s), !.todo = {},
                                !.inst = None, !.assoc = None, !.master = None]
           r2 == [Idle EXCEPT !.op = "create_assoc", !.at = "load",
                              !.inst = i, !.upd = req[s].upd]
<1>2. \/ req[s].op = "sync" /\ Goto(s, r1)
      \/ req[s].op = "create_assoc" /\ i # None /\ Goto(s, r2)
      \/ Goto(s, Idle)
  BY DEF Resume, Finish
<1>3. /\ r1.op = req[s].op /\ r1.upd = req[s].upd /\ r1.at = "next" /\ r1.todo = {}
      /\ r1.queue = Remaining(s) /\ r1.assoc = None /\ r1.copy = req[s].copy
  BY <1>1 DEF Request
<1>4. /\ r2.op = "create_assoc" /\ r2.upd = req[s].upd /\ r2.at = "load" /\ r2.inst = i
      /\ r2.copy = Idle.copy
  BY DEF Idle
<1> HIDE DEF r1, r2
<1> QED
  BY <1>2, <1>3, <1>4, Holding DEF Resumed, Pursues

(* What each step leaves in its handler, read off the step. A request that *)
(* is over holds nothing.                                                  *)
LEMMA FinishGoes ==
    ASSUME Base, NEW s \in Slots, Finish(s)
    PROVE  req'[s] = Idle
BY Holding DEF Finish

(* update_instance: the SELECT.                                            *)
LEMMA LoadGoes ==
    ASSUME Base, NEW s \in Slots, LoadRow(s)
    PROVE  /\ Retains(s) /\ req[s].at = "load" /\ req'[s].at = "commit"
           /\ req'[s].inst = req[s].inst /\ req'[s].row = insts[req[s].inst]
           /\ UNCHANGED <<tables, clock>>
<1>1. req[s] \in Request
  BY DEF TypeOK
<1> DEFINE r == [req[s] EXCEPT !.at = "commit", !.row = insts[req[s].inst]]
<1>2. req'[s] = r /\ req[s].at = "load" /\ UNCHANGED <<tables, clock>>
  BY Holding DEF LoadRow, At
<1> QED
  BY <1>1, <1>2 DEF Request, Retains, Pursues

(* update_instance: the UPDATE, and the completion that goes on from it.   *)
LEMMA CommitGoes ==
    ASSUME Base, NEW s \in Slots, CommitRow(s)
    PROVE  /\ req[s].at = "commit" /\ req[s].inst \in InstIds /\ insts[req[s].inst] # NoRow
           /\ insts' = [insts EXCEPT ![req[s].inst] = Merged(s)]
           /\ UNCHANGED <<masters, assocs, clock>>
           /\ \/ req'[s] = Idle /\ req[s].upd.status # "completed"
              \/ /\ req[s].upd.status = "completed"
                 /\ req'[s].op = req[s].op /\ req'[s].at = "lookup" /\ req'[s].upd = NoUpdate
                 /\ req'[s].copy = Idle.copy
<1> DEFINE r == [Idle EXCEPT !.op = req[s].op, !.at = "lookup", !.assoc = req[s].inst[1]]
<1>1. r.op = req[s].op /\ r.at = "lookup" /\ r.upd = NoUpdate /\ r.copy = Idle.copy
  BY DEF Idle
<1>2. IF req[s].upd.status = "completed" THEN Goto(s, r) ELSE Goto(s, Idle)
  BY DEF CommitRow, Finish
<1> HIDE DEF r
<1> QED
  BY <1>1, <1>2, Holding DEF CommitRow, At, Locals, LocalsOK

(* The master of a completed instance.                                     *)
LEMMA LookupGoes ==
    ASSUME Base, NEW s \in Slots, LookupMaster(s)
    PROVE  /\ req[s].at = "lookup" /\ UNCHANGED <<tables, clock>>
           /\ \/ req'[s] = Idle
              \/ /\ Pursues(s) /\ req'[s].at = "gen" /\ req'[s].assoc = req[s].assoc
                 /\ Exists(assocs[req[s].assoc]) /\ req[s].assoc \in AssocIds
                 /\ req'[s].master = assocs[req[s].assoc].master
                 /\ req'[s].copy = [req[s].copy EXCEPT ![req'[s].master] = masters[req'[s].master]]
<1>1. req[s] \in Request /\ req[s].assoc \in AssocIds
  BY DEF TypeOK, LookupMaster, At, Locals, LocalsOK
<1> DEFINE m == assocs[req[s].assoc].master
           r == [req[s] EXCEPT !.at = "gen", !.master = m, !.copy = [@ EXCEPT ![m] = masters[m]]]
<1>2. req'[s] = Idle \/ req'[s] = r
  BY Holding DEF LookupMaster, Finish
<1>3. r.op = req[s].op /\ r.upd = req[s].upd /\ r.at = "gen" /\ r.assoc = req[s].assoc
      /\ r.master = m /\ r.copy = [req[s].copy EXCEPT ![m] = masters[m]]
  BY <1>1 DEF Request
<1> HIDE DEF r
<1> QED
  BY <1>1, <1>2, <1>3 DEF LookupMaster, At, Pursues

(* generate_instance_for_association up to its first write.                *)
LEMMA PlanGoes ==
    ASSUME Base, NEW s \in Slots, PlanInstance(s)
    PROVE  LET c == Held(s)
               p == PeriodFor(c.tmpl, day, tod)
           IN  /\ req[s].at = "gen" /\ UNCHANGED <<tables, clock>>
               /\ \/ Resumed(s, None)
                  \/ GenerationDue(c, p) /\ insts[<<req[s].assoc, p>>] # NoRow
                        /\ Resumed(s, <<req[s].assoc, p>>)
                  \/ /\ GenerationDue(c, p) /\ Retains(s) /\ req'[s].inst = <<req[s].assoc, p>>
                     /\ insts[req'[s].inst] = NoRow
                     /\ IF c.tmpl.once THEN req'[s].at = "insert" /\ req'[s].todo = {}
                        ELSE req'[s].at = "archive" /\ req'[s].todo = OldInstances(req[s].assoc, p)
<1>1. req[s] \in Request
  BY DEF TypeOK
<1> DEFINE c == Held(s)
           p == PeriodFor(c.tmpl, day, tod)
           r(at, todo) == [req[s] EXCEPT !.at = at, !.inst = <<req[s].assoc, p>>, !.todo = todo]
<1>2. \/ Resume(s, None)
      \/ GenerationDue(c, p) /\ insts[<<req[s].assoc, p>>] # NoRow /\ Resume(s, <<req[s].assoc, p>>)
      \/ /\ GenerationDue(c, p) /\ insts[<<req[s].assoc, p>>] = NoRow
         /\ IF c.tmpl.once THEN Goto(s, r("insert", {}))
            ELSE Goto(s, r("archive", OldInstances(req[s].assoc, p)))
  BY DEF PlanInstance
<1>3. \A at, todo :
         /\ r(at, todo).op = req[s].op /\ r(at, todo).upd = req[s].upd
         /\ r(at, todo).master = req[s].master /\ r(at, todo).assoc = req[s].assoc
         /\ r(at, todo).copy = req[s].copy /\ r(at, todo).queue = req[s].queue
         /\ r(at, todo).at = at /\ r(at, todo).todo = todo
         /\ r(at, todo).inst = <<req[s].assoc, p>>
  BY <1>1 DEF Request
<1>4. req[s].at = "gen" /\ UNCHANGED <<tables, clock>>
  BY DEF PlanInstance, At
<1> HIDE DEF c, p, r
<1>5. CASE Resume(s, None)
  BY <1>4, <1>5, ResumeGoes DEF c, p
<1>6. CASE /\ GenerationDue(c, p) /\ insts[<<req[s].assoc, p>>] # NoRow
           /\ Resume(s, <<req[s].assoc, p>>)
  BY <1>4, <1>6, ResumeGoes DEF c, p
<1>7. CASE /\ GenerationDue(c, p) /\ insts[<<req[s].assoc, p>>] = NoRow
           /\ IF c.tmpl.once THEN Goto(s, r("insert", {}))
              ELSE Goto(s, r("archive", OldInstances(req[s].assoc, p)))
  <2>1. IF c.tmpl.once THEN req'[s] = r("insert", {})
        ELSE req'[s] = r("archive", OldInstances(req[s].assoc, p))
    BY <1>7, Holding
  <2>2. Retains(s) /\ req'[s].inst = <<req[s].assoc, p>>
    BY <1>3, <2>1 DEF Retains, Pursues
  <2>3. IF c.tmpl.once THEN req'[s].at = "insert" /\ req'[s].todo = {}
        ELSE req'[s].at = "archive" /\ req'[s].todo = OldInstances(req[s].assoc, p)
    BY <1>3, <2>1
  <2> QED
    BY <1>4, <1>7, <2>2, <2>3 DEF c, p
<1> QED
  BY <1>2, <1>5, <1>6, <1>7

(* The two commits that archive what was selected.                         *)
LEMMA ArchiveGoes ==
    ASSUME Base, NEW s \in Slots, ArchiveOld(s) \/ ReleaseInstances(s)
    PROVE  /\ ~Vanished(req[s].todo) /\ SetStatuses(req[s].todo, "archived")
           /\ Retains(s) /\ req'[s].inst = req[s].inst /\ req'[s].todo = {}
           /\ \/ req[s].at = "archive" /\ req'[s].at = "insert"
              \/ req[s].at = "release" /\ req'[s].at = "remove"
           /\ UNCHANGED <<masters, assocs, clock>>
<1>1. req[s] \in Request
  BY DEF TypeOK
<1> DEFINE r(l) == [req[s] EXCEPT !.at = l, !.todo = {}]
<1>2. \A l : /\ r(l).op = req[s].op /\ r(l).upd = req[s].upd /\ r(l).at = l /\ r(l).todo = {}
             /\ r(l).master = req[s].master /\ r(l).assoc = req[s].assoc
             /\ r(l).inst = req[s].inst
             /\ r(l).copy = req[s].copy /\ r(l).queue = req[s].queue
  BY <1>1 DEF Request
<1>3. \/ req[s].at = "archive" /\ req'[s] = r("insert")
      \/ req[s].at = "release" /\ req'[s] = r("remove")
  BY Holding DEF ArchiveOld, ReleaseInstances, At
<1>4. /\ ~Vanished(req[s].todo) /\ SetStatuses(req[s].todo, "archived")
      /\ UNCHANGED <<masters, assocs, clock>>
  BY DEF ArchiveOld, ReleaseInstances
<1> HIDE DEF r
<1> QED
  BY <1>2, <1>3, <1>4 DEF Retains, Pursues

(* create_instance.                                                        *)
LEMMA InsertGoes ==
    ASSUME Base, NEW s \in Slots, InsertInstance(s), NEW i, i = req[s].inst
    PROVE  /\ req[s].at = "insert" /\ UNCHANGED <<masters, assocs, clock>>
           /\ \/ Resumed(s, None) /\ UNCHANGED insts
              \/ /\ Retains(s) /\ req'[s].at = "count" /\ req'[s].inst = i
                 /\ req'[s].todo = req[s].todo
                 /\ i \in InstIds /\ insts[i] = NoRow /\ Exists(assocs[i[1]])
                 /\ insts' = [insts EXCEPT ![i] = NewInstance(assocs[i[1]])]
<1>1. req[s] \in Request /\ req[s].inst \in InstIds
  BY DEF TypeOK, InsertInstance, At, Locals, LocalsOK
<1> DEFINE r == [req[s] EXCEPT !.at = "count"]
<1>2. /\ r.op = req[s].op /\ r.upd = req[s].upd /\ r.at = "count" /\ r.todo = req[s].todo
      /\ r.master = req[s].master /\ r.assoc = req[s].assoc /\ r.inst = req[s].inst
      /\ r.copy = req[s].copy /\ r.queue = req[s].queue
  BY <1>1 DEF Request
<1>3. /\ req[s].at = "insert" /\ UNCHANGED <<masters, assocs, clock>>
      /\ \/ Resume(s, None) /\ UNCHANGED insts
         \/ /\ insts[i] = NoRow /\ Exists(assocs[i[1]])
            /\ insts' = [insts EXCEPT ![i] = NewInstance(assocs[i[1]])]
            /\ Goto(s, r)
  BY DEF InsertInstance, At
<1> HIDE DEF r
<1>4. CASE Resume(s, None) /\ UNCHANGED insts
  BY <1>3, <1>4, ResumeGoes
<1>5. CASE /\ insts[i] = NoRow /\ Exists(assocs[i[1]])
           /\ insts' = [insts EXCEPT ![i] = NewInstance(assocs[i[1]])]
           /\ Goto(s, r)
  <2>1. req'[s] = r
    BY <1>5, Holding
  <2> QED
    BY <1>1, <1>2, <1>3, <1>5, <2>1 DEF Retains, Pursues
<1> QED
  BY <1>3, <1>4, <1>5

(* The counter that is written after it.                                   *)
LEMMA CountGoes ==
    ASSUME Base, NEW s \in Slots, CountInstance(s)
    PROVE  /\ req[s].at = "count" /\ Resumed(s, req[s].inst) /\ UNCHANGED <<assocs, insts, clock>>
           /\ req[s].master \in Masters /\ Exists(masters[req[s].master])
           /\ masters' = [masters EXCEPT ![req[s].master].occ = CountAfter(Held(s))]
BY ResumeGoes DEF CountInstance, At, Locals, LocalsOK

(* The INSERT of an association.                                           *)
LEMMA AssociateGoes ==
    ASSUME Base, NEW s \in Slots, InsertAssociation(s)
    PROVE  /\ req[s].at = "insert_assoc" /\ UNCHANGED <<masters, insts, clock>>
           /\ Pursues(s) /\ req'[s].at = "gen"
           /\ req'[s].master = req[s].master /\ req'[s].copy = req[s].copy
           /\ req'[s].queue = req[s].queue
           /\ Exists(masters[req[s].master])
           /\ req'[s].assoc \in AssocIds /\ assocs[req'[s].assoc] = NoRow
           /\ assocs' = [assocs EXCEPT ![req'[s].assoc] =
                 [master |-> req[s].master, member |-> req[s].member, removed |-> FALSE]]
<1>1. req[s] \in Request
  BY DEF TypeOK
<1>2. PICK a \in AssocIds :
          /\ NextAssoc(a)
          /\ assocs' = [assocs EXCEPT ![a] =
                [master |-> req[s].master, member |-> req[s].member,
                 removed |-> FALSE]]
          /\ Goto(s, [req[s] EXCEPT !.at = "gen", !.assoc = a])
  BY DEF InsertAssociation
<1> DEFINE r == [req[s] EXCEPT !.at = "gen", !.assoc = a]
<1>3. /\ r.op = req[s].op /\ r.upd = req[s].upd /\ r.at = "gen" /\ r.master = req[s].master
      /\ r.assoc = a /\ r.copy = req[s].copy /\ r.queue = req[s].queue
  BY <1>1 DEF Request
<1>4. req'[s] = r
  BY <1>2, Holding
<1>5. /\ req[s].at = "insert_assoc" /\ UNCHANGED <<masters, insts, clock>>
      /\ Exists(masters[req[s].master])
  BY DEF InsertAssociation, At
<1>6. assocs[a] = NoRow
  BY <1>2 DEF NextAssoc
<1> HIDE DEF r
<1> QED
  BY <1>2, <1>3, <1>4, <1>5, <1>6 DEF Pursues

(* One pass of a loop that writes one status after the other.              *)
LEMMA MarkGoes ==
    ASSUME Base, NEW s \in Slots, NEW x, MarkOne(s, x)
    PROVE  /\ Retains(s) /\ req'[s].at = req[s].at /\ req'[s].inst = req[s].inst
           /\ req'[s].batch = req[s].batch /\ req'[s].left = req[s].left
           /\ UNCHANGED <<masters, assocs, clock>>
           /\ \E i \in req[s].todo :
                 /\ i \in InstIds /\ insts[i] # NoRow /\ SetStatuses({i}, x)
                 /\ req'[s].todo = req[s].todo \ {i}
<1>1. req[s] \in Request
  BY DEF TypeOK
<1>2. PICK i \in req[s].todo :
          /\ insts[i] # NoRow
          /\ SetStatuses({i}, x)
          /\ Goto(s, [req[s] EXCEPT !.todo = @ \ {i}])
  BY DEF MarkOne
<1> DEFINE r == [req[s] EXCEPT !.todo = @ \ {i}]
<1>3. /\ r.op = req[s].op /\ r.upd = req[s].upd /\ r.at = req[s].at /\ r.inst = req[s].inst
      /\ r.master = req[s].master /\ r.assoc = req[s].assoc /\ r.copy = req[s].copy
      /\ r.queue = req[s].queue /\ r.batch = req[s].batch /\ r.left = req[s].left
      /\ r.todo = req[s].todo \ {i} /\ i \in InstIds
  BY <1>1, <1>2 DEF Request
<1>4. req'[s] = r
  BY <1>2, Holding
<1>5. UNCHANGED <<masters, assocs, clock>>
  BY DEF MarkOne
<1> HIDE DEF r
<1> QED
  BY <1>2, <1>3, <1>4, <1>5 DEF Retains, Pursues

(* The two queries of a sync, and its loop over the associations.          *)
LEMMA ListOverdueGoes ==
    ASSUME Base, NEW s \in Slots, ListOverdue(s)
    PROVE  /\ Retains(s) /\ req[s].at = "expire" /\ req'[s].at = "overdue"
           /\ req'[s].todo = Overdue /\ UNCHANGED <<tables, clock>>
<1>1. req[s] \in Request
  BY DEF TypeOK
<1> DEFINE r == [req[s] EXCEPT !.at = "overdue", !.todo = Overdue]
<1>2. req'[s] = r /\ req[s].at = "expire" /\ UNCHANGED <<tables, clock>>
  BY Holding DEF ListOverdue, At
<1> QED
  BY <1>1, <1>2 DEF Request, Retains, Pursues

(* The associations a sync is to visit.                                    *)
LEMMA ListAssociationsGoes ==
    ASSUME Base, NEW s \in Slots, ListAssociations(s)
    PROVE  /\ req[s].at = "overdue" /\ UNCHANGED <<tables, clock>>
           /\ \/ req'[s] = Idle
              \/ /\ Pursues(s) /\ req'[s].at = "next" /\ req'[s].copy = req[s].copy
                 /\ req'[s].assoc = req[s].assoc /\ req'[s].todo = {}
                 /\ req'[s].queue = UNION {InForce(m) : m \in Masters}
<1>1. req[s] \in Request
  BY DEF TypeOK
<1> DEFINE all == UNION {InForce(m) : m \in Masters}
           r == [req[s] EXCEPT !.at = "next", !.queue = all]
<1>2. /\ req'[s] = r \/ req'[s] = Idle
      /\ req[s].at = "overdue" /\ req[s].todo = {} /\ UNCHANGED <<tables, clock>>
  BY Holding DEF ListAssociations, At, Finish
<1>3. /\ r.op = req[s].op /\ r.upd = req[s].upd /\ r.at = "next" /\ r.copy = req[s].copy
      /\ r.assoc = req[s].assoc /\ r.todo = req[s].todo /\ r.queue = all
  BY <1>1 DEF Request
<1> HIDE DEF r
<1> QED
  BY <1>2, <1>3 DEF Pursues

(* The association a sync turns to, with the master it has or reads.       *)
LEMMA NextGoes ==
    ASSUME Base, NEW s \in Slots, NextAssociation(s)
    PROVE  /\ req[s].at = "next" /\ UNCHANGED <<tables, clock>>
           /\ \E a \in req[s].queue : \E m, c :
                 /\ a \in AssocIds /\ m = assocs[a].master
                 /\ c = (IF req[s].copy[m] = Keep THEN masters[m] ELSE req[s].copy[m])
                 /\ \/ /\ Exists(assocs[a]) /\ Pursues(s) /\ req'[s].at = "gen"
                       /\ req'[s].assoc = a /\ req'[s].master = m
                       /\ req'[s].todo = req[s].todo /\ req'[s].queue = req[s].queue
                       /\ req'[s].copy = [req[s].copy EXCEPT ![m] = c]
                    \/ req'[s] = Idle
                    \/ /\ Pursues(s) /\ req'[s].at = "next"
                       /\ req'[s].assoc = req[s].assoc /\ req'[s].todo = req[s].todo
                       /\ req'[s].queue = req[s].queue \ {a}
                       /\ req'[s].copy = IF Exists(assocs[a])
                                         THEN [req[s].copy EXCEPT ![m] = c] ELSE req[s].copy
<1>1. req[s] \in Request
  BY DEF TypeOK
<1>2. req[s].at = "next" /\ UNCHANGED <<tables, clock>>
  BY DEF NextAssociation, At
<1> DEFINE m(a) == assocs[a].master
           c(a) == IF req[s].copy[m(a)] = Keep THEN masters[m(a)] ELSE req[s].copy[m(a)]
           copy(a) == [req[s].copy EXCEPT ![m(a)] = c(a)]
           rest(a) == req[s].queue \ {a}
           r1(a) == [req[s] EXCEPT !.at = "gen", !.assoc = a, !.master = m(a),
                                   !.copy = [@ EXCEPT ![m(a)] = c(a)]]
           r2(a) == [req[s] EXCEPT !.queue = rest(a),
                                   !.copy = IF Exists(assocs[a])
                                            THEN [@ EXCEPT ![m(a)] = c(a)] ELSE @]
<1>3. PICK a \in req[s].queue :
          /\ \A b \in req[s].queue : b <= a
          /\ IF Exists(assocs[a]) /\ c(a).status = "active" THEN Goto(s, r1(a))
             ELSE IF rest(a) = {} THEN Finish(s) ELSE Goto(s, r2(a))
  BY DEF NextAssociation
<1>4. \/ Exists(assocs[a]) /\ req'[s] = r1(a)
      \/ req'[s] = Idle
      \/ req'[s] = r2(a)
  BY <1>3, Holding DEF Finish
<1>5. /\ r1(a).op = req[s].op /\ r1(a).upd = req[s].upd /\ r1(a).at = "gen" /\ r1(a).assoc = a
      /\ r1(a).master = m(a) /\ r1(a).todo = req[s].todo /\ r1(a).queue = req[s].queue
      /\ r1(a).copy = copy(a)
  BY <1>1 DEF Request
<1>6. /\ r2(a).op = req[s].op /\ r2(a).upd = req[s].upd /\ r2(a).at = req[s].at
      /\ r2(a).assoc = req[s].assoc /\ r2(a).todo = req[s].todo /\ r2(a).queue = rest(a)
      /\ r2(a).copy = IF Exists(assocs[a]) THEN copy(a) ELSE req[s].copy
  BY <1>1 DEF Request
<1>7. a \in AssocIds
  BY <1>1, <1>3 DEF Request
<1>8. /\ copy(a) = [req[s].copy EXCEPT ![m(a)] = c(a)] /\ rest(a) = req[s].queue \ {a}
      /\ c(a) = IF req[s].copy[m(a)] = Keep THEN masters[m(a)] ELSE req[s].copy[m(a)]
  OBVIOUS
<1> DEFINE Goes(n, k) ==
              \/ /\ Exists(assocs[a]) /\ Pursues(s) /\ req'[s].at = "gen"
                 /\ req'[s].assoc = a /\ req'[s].master = n
                 /\ req'[s].todo = req[s].todo /\ req'[s].queue = req[s].queue
                 /\ req'[s].copy = [req[s].copy EXCEPT ![n] = k]
              \/ req'[s] = Idle
              \/ /\ Pursues(s) /\ req'[s].at = "next"
                 /\ req'[s].assoc = req[s].assoc /\ req'[s].todo = req[s].todo
                 /\ req'[s].queue = req[s].queue \ {a}
                 /\ req'[s].copy = IF Exists(assocs[a])
                                   THEN [req[s].copy EXCEPT ![n] = k] ELSE req[s].copy
<1> HIDE DEF r1, r2, copy, rest, c
<1>9. Goes(m(a), c(a))
  BY <1>2, <1>4, <1>5, <1>6, <1>8 DEF Pursues
<1> QED
  BY <1>2, <1>3, <1>7, <1>8, <1>9

(* One master of a bulk archive found to have nothing to do.               *)
LEMMA GuardGoes ==
    ASSUME Base, NEW s \in Slots, GuardMaster(s)
    PROVE  /\ req[s].at = "guard" /\ Retains(s) /\ req'[s].at = "guard"
           /\ req'[s].batch = req[s].batch /\ UNCHANGED <<tables, clock>>
           /\ \E m \in req[s].left : /\ Blocking(m) = {}
                                     /\ req'[s].left = req[s].left \ {m}
                                     /\ req'[s].todo = Having(InstancesOf(m), Finished)
<1>1. req[s] \in Request
  BY DEF TypeOK
<1>2. PICK m \in req[s].left :
          /\ Blocking(m) = {}
          /\ Goto(s, [req[s] EXCEPT !.left = @ \ {m},
                                    !.todo = Having(InstancesOf(m), Finished)])
  BY DEF GuardMaster
<1> DEFINE h == Having(InstancesOf(m), Finished)
<1> HIDE DEF h
<1> DEFINE r == [req[s] EXCEPT !.left = @ \ {m}, !.todo = h]
<1>3. req'[s] = r
  BY <1>2, Holding DEF h
<1>4. /\ r.op = req[s].op /\ r.upd = req[s].upd /\ r.at = req[s].at
      /\ r.master = req[s].master /\ r.assoc = req[s].assoc /\ r.copy = req[s].copy
      /\ r.queue = req[s].queue /\ r.batch = req[s].batch /\ r.left = req[s].left \ {m}
      /\ r.todo = h
  BY <1>1 DEF Request
<1>5. req[s].at = "guard" /\ UNCHANGED <<tables, clock>>
  BY DEF GuardMaster, At
<1> HIDE DEF r
<1> QED
  BY <1>2, <1>3, <1>4, <1>5 DEF Retains, Pursues, h

(* The steps that end a request.                                           *)
LEMMA EndGoes ==
    ASSUME Base, NEW s \in Slots,
           RemoveAssociation(s) \/ BulkCommit(s) \/ PurgeCommit(s) \/ Abort(s)
    PROVE  req'[s] = Idle
BY FinishGoes DEF RemoveAssociation, BulkCommit, PurgeCommit, Abort

(* What a request that updates one row begins with. *)
Updating(s) ==
    /\ req'[s].op \in Ops
    /\ req'[s].at = "load" /\ req'[s].copy = Idle.copy
    /\ req'[s].inst \in InstIds /\ insts[req'[s].inst] # NoRow
    /\ \/ req'[s].op = "claim" /\ \E u \in Members : req'[s].upd = ClaimUpdate(u)
       \/ req'[s].op = "assign" /\ \E u, by \in Members : req'[s].upd = AssignUpdate(u, by)
       \/ req'[s].op = "revert" /\ \E x \in InstStatus : req'[s].upd = RevertUpdate(x)
       \/ req'[s].op = "reset" /\ req'[s].upd = ResetUpdate
       \/ req'[s].op = "complete" /\ req'[s].upd = StatusUpdate("completed")
       \/ req'[s].op = "status" /\ \E x \in InstStatus : req'[s].upd = StatusUpdate(x)
       \/ req'[s].op = "delete" /\ req'[s].upd = SetStatus("archived")

(* What a request for an association begins with. *)
Associating(s) ==
    /\ req'[s].op = "create_assoc" /\ req'[s].at = "insert_assoc"
    /\ \E m \in Masters, u \in Members \cup {None} :
          /\ req'[s].master = m /\ req'[s].member = u /\ req'[s].upd \in AutoUpdates(u)
          /\ req'[s].copy = [Idle.copy EXCEPT ![m] = masters[m]]
          /\ Exists(masters[m]) /\ ~AtLimit(masters[m])
          /\ AssociationAllowed(masters[m].tmpl.collab, u, Owners(m))

(* What the others begin with. *)
Opening(s) ==
    /\ req'[s].copy = Idle.copy /\ req'[s].upd = NoUpdate
    /\ \/ /\ req'[s].op = "delete_assoc" /\ req'[s].at = "release"
          /\ \E a \in AssocIds : req'[s].todo = Having(OfAssociation(a), Startable)
       \/ req'[s].op = "sync" /\ req'[s].at = "expire" /\ req'[s].todo = Expired
          /\ req'[s].queue = {} /\ req'[s].assoc = None
       \/ /\ req'[s].op = "bulk_archive" /\ req'[s].at = "guard" /\ req'[s].todo = {}
          /\ req'[s].left = req'[s].batch
       \/ req'[s].op = "purge" /\ req'[s].at = "purge"

(* A handler that begins an update. *)
LEMMA UpdateGoes ==
    ASSUME Base, NEW s \in Slots, NEW op, NEW i, NEW u, BeginUpdate(s, op, i, u)
    PROVE  /\ req'[s].op = op /\ req'[s].at = "load" /\ req'[s].copy = Idle.copy
           /\ req'[s].inst = i /\ req'[s].upd = u /\ op \in Ops
<1> DEFINE r == [[Idle EXCEPT !.at = "load", !.inst = i, !.upd = u] EXCEPT !.op = op]
<1>1. req'[s] = r
  BY Holding DEF BeginUpdate, Begin
<1>2. r.op = op /\ r.at = "load" /\ r.copy = Idle.copy /\ r.inst = i /\ r.upd = u
  BY DEF Idle
<1>3. op \in Ops
  BY DEF BeginUpdate, Begin
<1> QED
  BY <1>1, <1>2, <1>3

(* The six endpoints that update one instance begin alike.                 *)
LEMMA ArriveUpdates ==
    ASSUME Base, NEW s \in Slots,
           \/ ClaimInstance(s) \/ AssignInstance(s) \/ RevertInstanceStatus(s)
           \/ ResetInstance(s) \/ UpdateInstanceStatus(s) \/ DeleteInstance(s)
    PROVE  Updating(s)
<1>1. CASE ClaimInstance(s)
  BY <1>1, UpdateGoes DEF ClaimInstance, Updating
<1>2. CASE AssignInstance(s)
  BY <1>2, UpdateGoes DEF AssignInstance, Updating
<1>3. CASE RevertInstanceStatus(s)
  <2>1. PICK i \in InstIds :
          /\ insts[i] # NoRow
          /\ insts[i].status \in {"completed", "in_progress", "missed", "overdue"}
          /\ BeginUpdate(s, "revert", i, RevertUpdate(insts[i].status))
    BY <1>3 DEF RevertInstanceStatus
  <2>2. insts[i].status \in InstStatus
    BY <2>1, RowsTyped DEF InstRow
  <2> QED
    BY <2>1, <2>2, UpdateGoes DEF Updating
<1>4. CASE ResetInstance(s)
  BY <1>4, UpdateGoes DEF ResetInstance, Updating
<1>5. CASE UpdateInstanceStatus(s)
  BY <1>5, UpdateGoes DEF UpdateInstanceStatus, Updating
<1>6. CASE DeleteInstance(s)
  BY <1>6, UpdateGoes DEF DeleteInstance, Updating
<1> QED
  BY <1>1, <1>2, <1>3, <1>4, <1>5, <1>6

(* What a request holds after its first reads.                             *)
LEMMA ArriveGoes ==
    ASSUME Base, NEW s \in Slots, Arrive(s)
    PROVE  /\ UNCHANGED <<tables, clock>>
           /\ \/ Updating(s)
              \/ Associating(s)
              \/ Opening(s)
<1>1. UNCHANGED <<tables, clock>>
  BY ArriveReads
<1>2. CASE CreateAssociation(s)
  <2>1. PICK m \in Masters, u \in Members \cup {None} :
          /\ Exists(masters[m])
          /\ masters[m].status = "active"
          /\ AssociationAllowed(masters[m].tmpl.collab, u, Owners(m))
          /\ ~AtLimit(masters[m])
          /\ \E upd \in AutoUpdates(u) :
                Begin(s, "create_assoc",
                      [Idle EXCEPT !.at = "insert_assoc", !.master = m, !.member = u,
                                   !.upd = upd, !.copy = [@ EXCEPT ![m] = masters[m]]])
    BY <1>2 DEF CreateAssociation
  <2>2. PICK upd \in AutoUpdates(u) :
            Begin(s, "create_assoc",
                  [Idle EXCEPT !.at = "insert_assoc", !.master = m, !.member = u,
                               !.upd = upd, !.copy = [@ EXCEPT ![m] = masters[m]]])
    BY <2>1
  <2> DEFINE r == [[Idle EXCEPT !.at = "insert_assoc", !.master = m, !.member = u,
                                !.upd = upd, !.copy = [@ EXCEPT ![m] = masters[m]]]
                   EXCEPT !.op = "create_assoc"]
  <2>3. req'[s] = r
    BY <2>2, Holding DEF Begin
  <2>4. /\ r.op = "create_assoc" /\ r.at = "insert_assoc" /\ r.master = m /\ r.member = u
        /\ r.upd = upd /\ r.copy = [Idle.copy EXCEPT ![m] = masters[m]]
    BY DEF Idle
  <2> HIDE DEF r
  <2> QED
    BY <1>1, <2>1, <2>2, <2>3, <2>4 DEF Associating
<1>3. CASE DeleteAssociation(s)
  <2>1. PICK a \in AssocIds :
        /\ Exists(assocs[a])
        /\ Begin(s, "delete_assoc",
                 [Idle EXCEPT !.at = "release", !.assoc = a,
                              !.todo = Having(OfAssociation(a), Startable)])
    BY <1>3 DEF DeleteAssociation
  <2> DEFINE h == Having(OfAssociation(a), Startable)
  <2> HIDE DEF h
  <2> DEFINE r == [[Idle EXCEPT !.at = "release", !.assoc = a, !.todo = h]
                   EXCEPT !.op = "delete_assoc"]
  <2>2. req'[s] = r
    BY <2>1, Holding DEF Begin, h
  <2>3. /\ r.op = "delete_assoc" /\ r.at = "release" /\ r.todo = h /\ r.copy = Idle.copy
        /\ r.upd = NoUpdate
    BY DEF Idle
  <2> HIDE DEF r
  <2> QED
    BY <1>1, <2>2, <2>3 DEF Opening, h
<1>4. CASE Sync(s)
  <2> DEFINE r == [[Idle EXCEPT !.at = "expire", !.todo = Expired] EXCEPT !.op = "sync"]
  <2>1. req'[s] = r
    BY <1>4, Holding DEF Sync, Begin
  <2>2. /\ r.op = "sync" /\ r.at = "expire" /\ r.todo = Expired /\ r.copy = Idle.copy
        /\ r.upd = NoUpdate /\ r.queue = {} /\ r.assoc = None
    BY DEF Idle
  <2> HIDE DEF r
  <2> QED
    BY <1>1, <2>1, <2>2 DEF Opening
<1>5. CASE BulkArchive(s)
  <2>1. PICK batch \in SUBSET Masters \ {{}} :
            Begin(s, "bulk_archive",
                  [Idle EXCEPT !.at = "guard", !.batch = batch, !.left = batch])
    BY <1>5 DEF BulkArchive
  <2> DEFINE r == [[Idle EXCEPT !.at = "guard", !.batch = batch, !.left = batch]
                   EXCEPT !.op = "bulk_archive"]
  <2>2. req'[s] = r
    BY <2>1, Holding DEF Begin
  <2>3. /\ r.op = "bulk_archive" /\ r.at = "guard" /\ r.todo = {} /\ r.copy = Idle.copy
        /\ r.upd = NoUpdate /\ r.left = batch /\ r.batch = batch
    BY DEF Idle
  <2> HIDE DEF r
  <2> QED
    BY <1>1, <2>2, <2>3 DEF Opening
<1>6. CASE PurgeMaster(s)
  <2>1. PICK m \in Masters :
        /\ Exists(masters[m])
        /\ Begin(s, "purge",
                 [Idle EXCEPT !.at = "purge", !.master = m, !.queue = AssociationsOf(m)])
    BY <1>6 DEF PurgeMaster
  <2> DEFINE h == AssociationsOf(m)
  <2> HIDE DEF h
  <2> DEFINE r == [[Idle EXCEPT !.at = "purge", !.master = m, !.queue = h]
                   EXCEPT !.op = "purge"]
  <2>2. req'[s] = r
    BY <2>1, Holding DEF Begin, h
  <2>3. r.op = "purge" /\ r.at = "purge" /\ r.copy = Idle.copy /\ r.upd = NoUpdate
    BY DEF Idle
  <2> HIDE DEF r
  <2> QED
    BY <1>1, <2>2, <2>3 DEF Opening
<1>7. CASE \/ ClaimInstance(s) \/ AssignInstance(s) \/ RevertInstanceStatus(s)
           \/ ResetInstance(s) \/ UpdateInstanceStatus(s) \/ DeleteInstance(s)
  BY <1>1, <1>7, ArriveUpdates DEF Updating
<1> QED
  BY <1>2, <1>3, <1>4, <1>5, <1>6, <1>7 DEF Arrive

(* Only the handler that takes a step moves. *)
LEMMA OneMoves ==
    ASSUME Base, NEW s \in Slots, Arrive(s) \/ Continue(s)
    PROVE  \A t \in Slots \ {s} : req'[t] = req[t]
<1> DEFINE Goes == \E r : Goto(s, r)
<1>1. CASE Arrive(s)
  <2>1. \A op, r : Begin(s, op, r) => Goes
    BY DEF Begin
  <2>2. \A op, i, u : BeginUpdate(s, op, i, u) => Goes
    BY <2>1 DEF BeginUpdate
  <2> HIDE DEF Goes
  <2>3. ASSUME \/ CreateAssociation(s) \/ DeleteAssociation(s) \/ Sync(s) \/ BulkArchive(s)
               \/ PurgeMaster(s)
        PROVE  Goes
    BY <2>1, <2>3 DEF CreateAssociation, DeleteAssociation, Sync, BulkArchive, PurgeMaster
  <2>4. ASSUME \/ ClaimInstance(s) \/ AssignInstance(s) \/ RevertInstanceStatus(s)
               \/ ResetInstance(s) \/ UpdateInstanceStatus(s) \/ DeleteInstance(s)
        PROVE  Goes
    BY <2>2, <2>4 DEF ClaimInstance, AssignInstance, RevertInstanceStatus, ResetInstance,
                      UpdateInstanceStatus, DeleteInstance
  <2>5. Goes
    BY <1>1, <2>3, <2>4 DEF Arrive
  <2> QED
    BY <2>5, Holding DEF Goes
<1>2. CASE Continue(s)
  <2>1. Finish(s) => Goes
    BY DEF Finish
  <2>2. \A i : Resume(s, i) => Goes
    BY <2>1 DEF Resume
  <2>3. \A x : MarkOne(s, x) => Goes
    BY DEF MarkOne
  <2>4. \A r : Goto(s, r) => Goes
    OBVIOUS
  <2> HIDE DEF Goes
  <2>5. ASSUME LoadRow(s) \/ CommitRow(s) \/ LookupMaster(s)
        PROVE  Goes
    BY <2>1, <2>4, <2>5 DEF LoadRow, CommitRow, LookupMaster
  <2>6. ASSUME PlanInstance(s)
        PROVE  Goes
    BY <2>2, <2>4, <2>6 DEF PlanInstance
  <2>7. ASSUME ArchiveOld(s) \/ ReleaseInstances(s)
        PROVE  Goes
    BY <2>4, <2>7 DEF ArchiveOld, ReleaseInstances
  <2>8. ASSUME InsertInstance(s) \/ CountInstance(s) \/ InsertAssociation(s)
        PROVE  Goes
    BY <2>2, <2>4, <2>8 DEF InsertInstance, CountInstance, InsertAssociation
  <2>9. ASSUME MarkMissed(s) \/ MarkOverdue(s) \/ CascadeArchive(s)
        PROVE  Goes
    BY <2>3, <2>9 DEF MarkMissed, MarkOverdue, CascadeArchive
  <2>10. ASSUME ListOverdue(s) \/ ListAssociations(s)
        PROVE  Goes
    BY <2>1, <2>4, <2>10 DEF ListOverdue, ListAssociations
  <2>11. ASSUME NextAssociation(s) \/ GuardMaster(s)
        PROVE  Goes
    BY <2>1, <2>4, <2>11 DEF NextAssociation, GuardMaster
  <2>12. ASSUME RemoveAssociation(s) \/ BulkCommit(s) \/ PurgeCommit(s) \/ Abort(s)
        PROVE  Goes
    BY <2>1, <2>12 DEF RemoveAssociation, BulkCommit, PurgeCommit, Abort
  <2>13. Goes
    BY <1>2, <2>5, <2>6, <2>7, <2>8, <2>9, <2>10, <2>11, <2>12 DEF Continue
  <2> QED
    BY <2>13, Holding DEF Goes
<1> QED
  BY <1>1, <1>2

-------------------------------------------------------------------------------
(* A sync marks what is missed and what is overdue, whoever else is at     *)
(* work; only a PATCH could take back the due time it went by.             *)

(* Past its first two loops a sync has nothing left to mark. *)
LEMMA PastMarking ==
    ASSUME NEW r \in Request,
           \/ r.op # "sync"
           \/ r.at \in {"next", "gen", "archive", "insert", "count"}
    PROVE  Marks(r)'
BY DEF Marks

(* A handler at rest marks nothing.                                        *)
LEMMA IdleMarks == Marks(Idle) /\ Marks(Idle)'
BY DEF Marks, Idle

(* A sync begins with instances whose day is over.                         *)
LEMMA ArriveMarks ==
    ASSUME MarksInv, NEW s \in Slots, Arrive(s), NEW r \in Request, req'[s] = r
    PROVE  Marks(r)'
<1>1. Updating(s) \/ Associating(s) \/ Opening(s)
  BY ArriveGoes DEF MarksInv
<1>2. UNCHANGED clock
  BY ArriveGoes DEF MarksInv
<1>3. \A i \in Expired : i[2] < day
  BY DEF Expired, PastPeriod
<1>4. CASE r.op # "sync"
  BY <1>4 DEF Marks
<1>5. CASE r.op = "sync"
  <2>1. r.at = "expire" /\ r.todo = Expired
    BY <1>1, <1>5 DEF Updating, Associating, Opening
  <2> QED
    BY <1>2, <1>3, <2>1 DEF Marks, clock
<1> QED
  BY <1>4, <1>5

(* What it still has to mark is late at each of its steps.                 *)
LEMMA ContinueMarks ==
    ASSUME MarksInv, NEW s \in Slots, Continue(s), NEW r \in Request, req'[s] = r
    PROVE  Marks(r)'
<1>1. req[s] \in Request /\ Marks(req[s]) /\ Base
  BY DEF MarksInv, TypeOK
<1>2. CASE req'[s] = Idle
  BY <1>2, IdleMarks
<1>3. CASE LoadRow(s) \/ CommitRow(s) \/ LookupMaster(s)
  <2>1. req'[s] = Idle \/ req'[s].op = req[s].op
    BY <1>1, <1>3, LoadGoes, CommitGoes, LookupGoes DEF Retains, Pursues
  <2>2. req[s].at \in {"load", "commit", "lookup"}
    BY <1>1, <1>3, LoadGoes, CommitGoes, LookupGoes
  <2> QED
    BY <1>1, <1>2, <2>1, <2>2, PastMarking DEF Marks
<1>4. ASSUME NEW i, Resumed(s, i)
      PROVE  Marks(r)'
  <2>1. req'[s] = Idle \/ r.at = "next" \/ r.op = "create_assoc"
    BY <1>4 DEF Resumed, Pursues
  <2> QED
    BY <1>2, <2>1, PastMarking
<1>5. CASE PlanInstance(s) \/ ArchiveOld(s) \/ InsertInstance(s) \/ CountInstance(s)
           \/ InsertAssociation(s) \/ NextAssociation(s)
  <2>1. \/ \E i : Resumed(s, i)
        \/ req'[s] = Idle
        \/ req'[s].at \in {"next", "gen", "archive", "insert", "count"}
    BY <1>1, <1>5, PlanGoes, ArchiveGoes, InsertGoes, CountGoes, AssociateGoes, NextGoes
       DEF ArchiveOld, At
  <2> QED
    BY <1>2, <1>4, <2>1, PastMarking
<1>6. CASE ReleaseInstances(s) \/ GuardMaster(s) \/ CascadeArchive(s)
  <2>1. req[s].op # "sync"
    BY <1>1, <1>6 DEF Marks, ReleaseInstances, GuardMaster, CascadeArchive, At
  <2>2. r.op # "sync"
    BY <1>1, <1>6, <2>1, ArchiveGoes, GuardGoes, MarkGoes DEF Retains, Pursues, CascadeArchive
  <2> QED
    BY <2>2, PastMarking
<1>7. CASE MarkMissed(s) \/ MarkOverdue(s)
  <2>1. PICK x \in InstStatus : MarkOne(s, x)
    BY <1>7 DEF MarkMissed, MarkOverdue, InstStatus
  <2>2. /\ r.op = req[s].op /\ r.at = req[s].at /\ r.todo \subseteq req[s].todo
        /\ UNCHANGED <<masters, assocs, clock>>
    BY <1>1, <2>1, MarkGoes DEF Retains, Pursues
  <2>3. \A i \in InstIds : insts'[i] = NoRow <=> insts[i] = NoRow
    BY <1>1, <1>7, Marking DEF MarkMissed, MarkOverdue, At, InstStatus
  <2>4. req[s].todo \subseteq InstIds
    BY <1>1 DEF Request
  <2> QED
    BY <1>1, <2>2, <2>3, <2>4 DEF Marks, Late, clock
<1>8. CASE ListOverdue(s)
  <2>1. r.at = "overdue" /\ r.todo = Overdue /\ UNCHANGED <<tables, clock>>
    BY <1>1, <1>8, ListOverdueGoes
  <2>2. \A i \in Overdue : insts[i] # NoRow /\ Late(i)
    BY DEF Overdue, Having, Late
  <2> QED
    BY <2>1, <2>2 DEF Marks, Late, tables, clock
<1>9. CASE ListAssociations(s)
  <2>1. req'[s] = Idle \/ r.at = "next"
    BY <1>1, <1>9, ListAssociationsGoes
  <2> QED
    BY <1>2, <2>1, PastMarking
<1>10. CASE RemoveAssociation(s) \/ BulkCommit(s) \/ PurgeCommit(s) \/ Abort(s)
  BY <1>1, <1>2, <1>10, EndGoes
<1> QED
  BY <1>3, <1>5, <1>6, <1>7, <1>8, <1>9, <1>10 DEF Continue

(* Induction: every step keeps what syncs know to be late.                 *)
LEMMA NextMarks ==
    ASSUME NoPatch
    PROVE  MarksInv /\ [Next]_vars => MarksInv'
<1> SUFFICES ASSUME MarksInv, [Next]_vars PROVE MarksInv'
  OBVIOUS
<1>1. CountInv /\ CountInv' /\ Lasts
  BY NextCount, EveryStepLasts DEF MarksInv
<1>2. \A s \in Slots : req[s] \in Request /\ req'[s] \in Request /\ Marks(req[s])
  BY <1>1 DEF MarksInv, TypeOK
<1>3. \A s \in Slots : Marks(req[s])'
  <2> SUFFICES ASSUME NEW s \in Slots PROVE Marks(req[s])'
    OBVIOUS
  <2> DEFINE r == req'[s]
  <2>1. CASE r = req[s]
    BY <1>1, <1>2, <2>1, MarksLast
  <2>2. CASE r = Idle
    BY <2>2, IdleMarks
  <2>3. ASSUME NEW t \in Slots, Arrive(t) \/ Continue(t) PROVE Marks(req[s])'
    <3>1. CASE t = s
      BY <1>2, <2>3, <3>1, ArriveMarks, ContinueMarks
    <3>2. CASE t # s
      BY <1>1, <2>1, <2>3, <3>2, OneMoves
    <3> QED
      BY <3>1, <3>2
  <2>4. CASE Restart
    BY <2>2, <2>4 DEF Restart
  <2>5. CASE UNCHANGED req
    BY <2>1, <2>5
  <2> QED
    BY <2>3, <2>4, <2>5 DEF Next, vars, CreateMaster, PatchMaster, SoftDeleteMaster,
                            BulkSetStatus, Tick
<1> QED
  BY <1>1, <1>3 DEF MarksInv

(* And it holds at first.                                                  *)
LEMMA InitMarks == Init => MarksInv
<1> SUFFICES ASSUME Init PROVE MarksInv
  OBVIOUS
<1>1. CountInv
  BY InitCount
<1>2. \A s \in Slots : req[s] = Idle
  BY DEF Init
<1> QED
  BY <1>1, <1>2, IdleMarks DEF MarksInv

(* What MarksAreTrue says of one instance in one step. *)
LEMMA TrueMark ==
    ASSUME NoPatch, MarksInv, Next, NEW s \in Slots, NEW i \in InstIds, NEW x \in InstStatus,
           req[s].op = "sync"
    PROVE  /\ Moves(s, i, x, "missed") /\ x # "missed" => i[2] < day
           /\ Moves(s, i, x, "overdue") /\ x # "overdue" => Late(i)
<1> SUFFICES ASSUME NEW y \in {"missed", "overdue"}, x # y, Moves(s, i, x, y)
             PROVE  IF y = "missed" THEN i[2] < day ELSE Late(i)
  BY DEF Late
<1>1. /\ Base /\ Marks(req[s]) /\ req'[s] # req[s] /\ insts[i] # NoRow
      /\ insts'[i].status # insts[i].status
  BY DEF MarksInv, Moves
<1>2. req[s] \in Request
  BY <1>1 DEF TypeOK
<1>3. Continue(s)
  <2>1. Arrive(s) \/ Continue(s)
    <3>1. ASSUME NEW t \in Slots, Arrive(t) \/ Continue(t) PROVE t = s
      BY <1>1, <3>1, OneMoves
    <3>2. insts' # insts
      BY <1>1
    <3> QED
      BY <1>1, <3>1, <3>2 DEF Next, CreateMaster, PatchMaster, SoftDeleteMaster, BulkSetStatus,
                              Tick, Restart, tables
  <2>2. ~Arrive(s)
    BY <1>1, ArriveReads DEF tables
  <2> QED
    BY <2>1, <2>2
<1>4. ASSUME NEW z, \E ids : SetStatuses(ids, z) PROVE y = z
  BY <1>1, <1>4, RowsTyped DEF SetStatuses, InstRow, Moves
<1>5. CASE MarkMissed(s)
  <2>1. PICK j \in req[s].todo : SetStatuses({j}, "missed")
    BY <1>5 DEF MarkMissed, MarkOne
  <2>2. y = "missed" /\ i = j
    BY <1>1, <1>4, <2>1 DEF SetStatuses
  <2> QED
    BY <1>1, <1>5, <2>2 DEF Marks, MarkMissed, At
<1>6. CASE MarkOverdue(s)
  <2>1. PICK j \in req[s].todo : SetStatuses({j}, "overdue")
    BY <1>6 DEF MarkOverdue, MarkOne
  <2>2. y = "overdue" /\ i = j
    BY <1>1, <1>4, <2>1 DEF SetStatuses
  <2> QED
    BY <1>1, <1>6, <2>2 DEF Marks, MarkOverdue, At
<1>7. CASE ArchiveOld(s)
  BY <1>4, <1>7 DEF ArchiveOld
<1>8. CASE CommitRow(s) \/ ReleaseInstances(s) \/ CascadeArchive(s)
  BY <1>1, <1>8 DEF Marks, CommitRow, ReleaseInstances, CascadeArchive, At
<1>9. CASE InsertInstance(s)
  BY <1>1, <1>9, InsertGoes DEF TypeOK
<1>10. CASE PurgeCommit(s)
  BY <1>1, <1>10 DEF PurgeCommit, Moves
<1>11. insts' # insts
  BY <1>1
<1> QED
  BY <1>3, <1>5, <1>6, <1>7, <1>8, <1>9, <1>10, <1>11
     DEF Continue, LoadRow, LookupMaster, PlanInstance,
     CountInstance, InsertAssociation, RemoveAssociation, ListOverdue, ListAssociations,
     NextAssociation, GuardMaster, BulkCommit, Abort, tables

(* A sync calls an instance missed only when its day is over, and overdue  *)
(* only when it is late: however many requests are served at once, as long *)
(* as no chore is edited meanwhile (process_expired_instances and          *)
(* mark_overdue_instances write what they selected some awaits before).    *)
THEOREM MarksTrue == ASSUME NoPatch PROVE Spec => MarksAreTrue
<1>1. Init => MarksInv
  BY InitMarks
<1>2. MarksInv /\ [Next]_vars => MarksInv'
  BY NextMarks
<1> DEFINE A == \A s \in Slots, i \in InstIds, x \in InstStatus :
          req[s].op = "sync" =>
            /\ Moves(s, i, x, "missed") /\ x # "missed" => i[2] < day
            /\ Moves(s, i, x, "overdue") /\ x # "overdue" =>
                 i[2] < day
                 \/ PastDueTime(i, masters[assocs[i[1]].master].tmpl, day, tod)
<1>3. MarksInv /\ [Next]_vars => [A]_vars
  BY TrueMark DEF Late
<1> QED
  BY <1>1, <1>2, <1>3, PTL DEF Spec, MarksAreTrue

-------------------------------------------------------------------------------
(* One request at a time: what happens to an instance and to its stamp. *)

(* Every update a request asks for is coherent. *)
LEMMA UpdatesCohere ==
    /\ Coherent(NoUpdate) /\ Coherent(ResetUpdate) /\ Coherent(SetStatus("archived"))
    /\ \A u : Coherent(ClaimUpdate(u))
    /\ \A u, by : Coherent(AssignUpdate(u, by))
    /\ \A x \in InstStatus : Coherent(RevertUpdate(x)) /\ Coherent(StatusUpdate(x))
<1>1. Keep \notin InstStatus \cup Stamp
  BY SentinelAssumption
<1>2. Coherent(NoUpdate) /\ Coherent(ResetUpdate) /\ Coherent(SetStatus("archived"))
  BY <1>1 DEF Coherent, NoUpdate, ResetUpdate, SetStatus, InstStatus, Stamp
<1>3. \A u : Coherent(ClaimUpdate(u))
  BY <1>1 DEF Coherent, NoUpdate, ClaimUpdate, InstStatus, Stamp
<1>4. \A u, by : Coherent(AssignUpdate(u, by))
  BY <1>1 DEF Coherent, NoUpdate, AssignUpdate, InstStatus, Stamp
<1>5. ASSUME NEW x \in InstStatus PROVE Coherent(RevertUpdate(x))
  <2>1. CASE x = "completed"
    BY <1>1, <2>1 DEF Coherent, NoUpdate, RevertUpdate, SetStatus, InstStatus, Stamp
  <2>2. CASE x # "completed"
    BY <1>1, <2>2 DEF Coherent, NoUpdate, RevertUpdate, SetStatus, InstStatus, Stamp
  <2> QED
    BY <2>1, <2>2
<1>6. ASSUME NEW x \in InstStatus PROVE Coherent(StatusUpdate(x))
  BY <1>1 DEF Coherent, NoUpdate, StatusUpdate, SetStatus, InstStatus, Stamp
<1> QED
  BY <1>2, <1>3, <1>4, <1>5, <1>6

(* Where a handler holds nothing that could be out of date. *)
LEMMA NothingHeld ==
    ASSUME NEW r \in Request, Coherent(r.upd),
           r.at \notin {"commit", "expire", "overdue", "archive", "release"}
    PROVE  UpToDate(r)'
BY DEF UpToDate

(* A handler at rest has read nothing that could be out of date.           *)
LEMMA IdleUpToDate == UpToDate(Idle) /\ UpToDate(Idle)'
<1>1. Idle \in Request /\ Idle.op = "idle" /\ Idle.at = "idle" /\ Idle.upd = NoUpdate
  BY IdleTyped DEF Idle
<1>2. Coherent(Idle.upd)
  BY <1>1, UpdatesCohere
<1> QED
  BY <1>1, <1>2 DEF UpToDate

(* What a handler has loaded is up to date as long as no instance changes. *)
LEMMA StaysUpToDate ==
    ASSUME NEW r, UpToDate(r), UNCHANGED <<insts, assocs>>
    PROVE  UpToDate(r)'
BY DEF UpToDate

(* What a request has read when it begins is up to date.                   *)
LEMMA ArriveUpToDate ==
    ASSUME UseInv, NEW s \in Slots, Arrive(s), NEW r \in Request, req'[s] = r
    PROVE  UpToDate(r)'
<1>1. Base /\ UNCHANGED <<tables, clock>> /\ (Updating(s) \/ Associating(s) \/ Opening(s))
  BY ArriveGoes DEF UseInv
<1>2. CASE Updating(s)
  <2>1. Coherent(r.upd)
    BY <1>2, UpdatesCohere DEF Updating, InstStatus
  <2>2. r.at = "load"
    BY <1>2 DEF Updating
  <2> QED
    BY <2>1, <2>2, NothingHeld
<1>3. CASE Associating(s)
  <2>1. PICK u \in Members \cup {None} : r.upd \in AutoUpdates(u)
    BY <1>3 DEF Associating
  <2>2. \/ r.upd = NoUpdate \/ r.upd = ClaimUpdate(u)
        \/ \E by \in Members : r.upd = AssignUpdate(u, by)
    BY <2>1 DEF AutoUpdates
  <2>3. Coherent(r.upd)
    BY <2>2, UpdatesCohere
  <2>4. r.at = "insert_assoc"
    BY <1>3 DEF Associating
  <2> QED
    BY <2>3, <2>4, NothingHeld
<1>4. CASE Opening(s)
  <2>1. Coherent(r.upd)
    BY <1>4, UpdatesCohere DEF Opening
  <2>2. CASE r.op = "delete_assoc" \/ r.op = "sync"
    <3>1. r.at \in {"release", "expire"}
      BY <1>4, <2>2 DEF Opening
    <3>2. \A i \in r.todo : insts[i].status \in Superseded
      BY <1>4, <2>2 DEF Opening, Having, Startable, Expired, Expirable, Superseded
    <3> QED
      BY <1>1, <2>1, <2>2, <3>1, <3>2 DEF UpToDate, tables
  <2>3. CASE r.at = "guard" \/ r.at = "purge"
    BY <2>1, <2>3, NothingHeld
  <2> QED
    BY <1>4, <2>2, <2>3 DEF Opening
<1> QED
  BY <1>1, <1>2, <1>3, <1>4

(* A handler resumed with the next association or the first instance. *)
LEMMA ResumeUpToDate ==
    ASSUME UseInv, NEW s \in Slots, NEW i, Resumed(s, i), NEW r \in Request, req'[s] = r
    PROVE  UpToDate(r)'
<1>1. UpToDate(req[s])
  BY DEF UseInv
<1>2. r = Idle \/ (Pursues(s) /\ r.at \in {"next", "load"})
  BY DEF Resumed
<1>3. CASE Pursues(s) /\ r.at \in {"next", "load"}
  BY <1>1, <1>3, NothingHeld DEF UpToDate, Pursues
<1> QED
  BY <1>2, <1>3, IdleUpToDate

(* The commit of an update: the row it writes is the row it loaded. *)
LEMMA CommitUpToDate ==
    ASSUME UseInv, NEW s \in Slots, CommitRow(s), NEW r \in Request, req'[s] = r
    PROVE  UpToDate(r)' /\ CompletedIsStamped'
<1> DEFINE i == req[s].inst
           u == req[s].upd
           w == Merged(s)
<1>1. /\ Base /\ req[s] \in Request /\ UpToDate(req[s]) /\ req[s].at = "commit"
      /\ i \in InstIds /\ insts[i] # NoRow /\ insts' = [insts EXCEPT ![i] = w]
  BY CommitGoes DEF UseInv, TypeOK
<1>2. insts[i] \in InstRow /\ req[s].row = insts[i] /\ Coherent(u) /\ u \in Update
  BY <1>1, RowsTyped DEF UpToDate, Request
<1>3. insts[i].status = "completed" => insts[i].completed = "stamped"
  BY <1>1 DEF UseInv, CompletedIsStamped
<1>4. w.status = "completed" => w.completed = "stamped"
  <2> DEFINE c == insts[i]
  <2>1. /\ w.status = Column(u.status, c.status, c.status)
        /\ w.completed = Column(u.completed, c.completed, c.completed)
    BY <1>2 DEF Merged, Written
  <2>2. /\ c.completed \in Stamp /\ u.completed \in Stamp \cup {Keep}
        /\ Keep \notin InstStatus \cup Stamp
    BY <1>2, SentinelAssumption DEF InstRow, Update
  <2>3. (u.status = "completed" => u.completed = "stamped")
        /\ (u.completed = "null" => u.status \in InstStatus \ {"completed"})
    BY <1>2 DEF Coherent
  <2> HIDE DEF w, u, c, i
  <2>4. "completed" \in InstStatus /\ Stamp = {"null", "stamped"}
    BY DEF InstStatus, Stamp
  <2> QED
    BY <1>3, <2>1, <2>2, <2>3, <2>4 DEF Column, c
<1>5. CompletedIsStamped'
  BY <1>1, <1>4 DEF UseInv, CompletedIsStamped, TypeOK
<1>6. CASE r = Idle
  BY <1>5, <1>6, IdleUpToDate
<1>7. CASE r # Idle
  <2>1. r.at = "lookup" /\ r.upd = NoUpdate
    BY <1>1, <1>7, CommitGoes
  <2> QED
    BY <1>5, <2>1, NothingHeld, UpdatesCohere
<1> QED
  BY <1>6, <1>7

(* Instances that are given a status other than completed. *)
LEMMA SettingKeepsStamps ==
    ASSUME UseInv, NEW ids \in SUBSET InstIds, ~Vanished(ids), NEW x \in InstStatus \ {"completed"},
           SetStatuses(ids, x)
    PROVE  CompletedIsStamped'
<1>1. \A i \in ids : insts[i] \in InstRow
  BY RowsTyped DEF UseInv, Vanished
<1>2. \A i \in ids : insts'[i].status = x
  BY <1>1 DEF SetStatuses, InstRow
<1>3. \A i \in InstIds \ ids : insts'[i] = insts[i]
  BY DEF SetStatuses
<1> QED
  BY <1>2, <1>3 DEF UseInv, CompletedIsStamped

(* A handler that only reads. *)
LEMMA ReadingUpToDate ==
    ASSUME UseInv, NEW s \in Slots,
           \/ LoadRow(s) \/ LookupMaster(s) \/ PlanInstance(s) \/ ListOverdue(s)
           \/ ListAssociations(s) \/ NextAssociation(s) \/ GuardMaster(s) \/ Abort(s),
           NEW r \in Request, req'[s] = r
    PROVE  UpToDate(r)' /\ CompletedIsStamped'
<1>1. Base /\ UpToDate(req[s]) /\ UNCHANGED <<tables, clock>>
  BY DEF UseInv, LoadRow, LookupMaster, PlanInstance, ListOverdue, ListAssociations,
         NextAssociation, GuardMaster, Abort
<1>2. CompletedIsStamped'
  BY <1>1 DEF UseInv, CompletedIsStamped, tables
<1>3. CASE r = Idle
  BY <1>2, <1>3, IdleUpToDate
<1>4. ASSUME r.upd = req[s].upd,
             r.at \notin {"commit", "expire", "overdue", "archive", "release"}
      PROVE  UpToDate(r)'
  BY <1>1, <1>4, NothingHeld DEF UpToDate
<1>5. CASE LoadRow(s)
  <2>1. r.upd = req[s].upd /\ r.at = "commit" /\ r.row = insts[r.inst]
    BY <1>1, <1>5, LoadGoes DEF Retains, Pursues
  <2> QED
    BY <1>1, <1>2, <2>1 DEF UpToDate, tables
<1>6. CASE LookupMaster(s)
  <2>1. r = Idle \/ (r.upd = req[s].upd /\ r.at = "gen")
    BY <1>1, <1>6, LookupGoes DEF Pursues
  <2> QED
    BY <1>2, <1>3, <1>4, <2>1
<1>7. CASE PlanInstance(s)
  <2>1. \/ \E i : Resumed(s, i)
        \/ /\ r.upd = req[s].upd
           /\ \/ r.at = "insert"
              \/ r.at = "archive" /\ \E a, p : r.todo = OldInstances(a, p)
    <3> DEFINE p == PeriodFor(Held(s).tmpl, day, tod)
    <3>1. \/ Resumed(s, None)
          \/ Resumed(s, <<req[s].assoc, p>>)
          \/ Retains(s) /\ \/ r.at = "insert"
                           \/ r.at = "archive" /\ r.todo = OldInstances(req[s].assoc, p)
      BY <1>1, <1>7, PlanGoes
    <3> HIDE DEF p
    <3> QED
      BY <3>1 DEF Retains, Pursues
  <2>2. CASE \E i : Resumed(s, i)
    BY <1>2, <2>2, ResumeUpToDate
  <2>3. CASE r.upd = req[s].upd /\ r.at = "insert"
    BY <1>2, <1>4, <2>3
  <2>4. CASE /\ r.upd = req[s].upd /\ r.at = "archive"
             /\ \E a, p : r.todo = OldInstances(a, p)
    <3>1. \A i \in r.todo : insts[i].status \in Superseded
      BY <2>4 DEF OldInstances, Having
    <3> QED
      BY <1>1, <1>2, <2>4, <3>1 DEF UpToDate, tables
  <2> QED
    BY <2>1, <2>2, <2>3, <2>4
<1>8. CASE ListOverdue(s)
  <2>1. r.upd = req[s].upd /\ r.at = "overdue" /\ r.todo = Overdue
    BY <1>1, <1>8, ListOverdueGoes DEF Retains, Pursues
  <2>2. \A i \in Overdue : insts[i].status \in Superseded
    BY DEF Overdue, Having, Startable, Superseded
  <2> QED
    BY <1>1, <1>2, <2>1, <2>2 DEF UpToDate, tables
<1>9. CASE ListAssociations(s) \/ NextAssociation(s)
  <2>1. \/ r = Idle
        \/ r.upd = req[s].upd /\ r.at \in {"gen", "next"}
    BY <1>1, <1>9, ListAssociationsGoes, NextGoes DEF Pursues
  <2> QED
    BY <1>2, <1>3, <1>4, <2>1
<1>10. CASE GuardMaster(s)
  <2>1. r.upd = req[s].upd /\ r.at = "guard"
    BY <1>1, <1>10, GuardGoes DEF Retains, Pursues
  <2> QED
    BY <1>2, <1>4, <2>1
<1>11. CASE Abort(s)
  BY <1>1, <1>3, <1>11, EndGoes
<1> QED
  BY <1>5, <1>6, <1>7, <1>8, <1>9, <1>10, <1>11

(* A handler that writes what it has selected, and then something else. *)
LEMMA WritingUpToDate ==
    ASSUME UseInv, NEW s \in Slots,
           \/ ArchiveOld(s) \/ ReleaseInstances(s) \/ InsertInstance(s) \/ CountInstance(s)
           \/ InsertAssociation(s) \/ RemoveAssociation(s) \/ BulkCommit(s) \/ PurgeCommit(s),
           NEW r \in Request, req'[s] = r
    PROVE  UpToDate(r)' /\ CompletedIsStamped'
<1>1. Base /\ UpToDate(req[s]) /\ req[s] \in Request
  BY DEF UseInv, TypeOK
<1>2. ASSUME r.upd = req[s].upd,
             r.at \notin {"commit", "expire", "overdue", "archive", "release"}
      PROVE  UpToDate(r)'
  BY <1>1, <1>2, NothingHeld DEF UpToDate
<1>3. ASSUME UNCHANGED insts PROVE CompletedIsStamped'
  BY <1>3 DEF UseInv, CompletedIsStamped
<1>4. CASE ArchiveOld(s) \/ ReleaseInstances(s)
  <2>1. CompletedIsStamped'
    <3>1. req[s].todo \in SUBSET InstIds /\ "archived" \in InstStatus \ {"completed"}
      BY <1>1 DEF Request, InstStatus
    <3> QED
      BY <1>1, <1>4, <3>1, ArchiveGoes, SettingKeepsStamps
  <2>2. r.upd = req[s].upd /\ r.at \in {"insert", "remove"}
    BY <1>1, <1>4, ArchiveGoes DEF Retains, Pursues
  <2> QED
    BY <1>2, <2>1, <2>2
<1>5. CASE InsertInstance(s)
  <2> DEFINE i == req[s].inst
  <2>1. CASE Resumed(s, None) /\ UNCHANGED insts
    BY <1>3, <2>1, ResumeUpToDate
  <2>2. CASE /\ Retains(s) /\ r.at = "count" /\ req[s].at = "insert"
             /\ i \in InstIds /\ insts' = [insts EXCEPT ![i] = NewInstance(assocs[i[1]])]
    <3>1. NewInstance(assocs[i[1]]).status # "completed"
      BY DEF NewInstance
    <3>2. CompletedIsStamped'
      BY <1>1, <2>2, <3>1 DEF UseInv, CompletedIsStamped, TypeOK
    <3> QED
      BY <1>2, <2>2, <3>2 DEF Retains, Pursues
  <2> QED
    BY <1>1, <1>5, <2>1, <2>2, InsertGoes
<1>6. CASE CountInstance(s)
  BY <1>1, <1>3, <1>6, CountGoes, ResumeUpToDate
<1>7. CASE InsertAssociation(s)
  BY <1>1, <1>2, <1>3, <1>7, AssociateGoes DEF Pursues
<1>8. CASE RemoveAssociation(s) \/ BulkCommit(s)
  BY <1>1, <1>3, <1>8, EndGoes, IdleUpToDate DEF RemoveAssociation, BulkCommit
<1>9. CASE PurgeCommit(s)
  <2>1. \A i \in InstIds : insts'[i] \in {NoRow, insts[i]}
    BY <1>9 DEF PurgeCommit
  <2>2. CompletedIsStamped'
    BY <2>1 DEF UseInv, CompletedIsStamped
  <2> QED
    BY <1>1, <1>9, <2>2, EndGoes, IdleUpToDate
<1> QED
  BY <1>4, <1>5, <1>6, <1>7, <1>8, <1>9

(* One pass of a loop over the instances found. *)
LEMMA MarkingUpToDate ==
    ASSUME UseInv, NEW s \in Slots, MarkMissed(s) \/ MarkOverdue(s) \/ CascadeArchive(s),
           NEW r \in Request, req'[s] = r
    PROVE  UpToDate(r)' /\ CompletedIsStamped'
<1>1. Base /\ UpToDate(req[s]) /\ req[s] \in Request
  BY DEF UseInv, TypeOK
<1>2. PICK x \in {"missed", "overdue", "archived"} : MarkOne(s, x)
  BY DEF MarkMissed, MarkOverdue, CascadeArchive
<1>3. PICK i \in req[s].todo :
          /\ i \in InstIds /\ insts[i] # NoRow /\ SetStatuses({i}, x)
          /\ r.todo = req[s].todo \ {i}
  BY <1>1, <1>2, MarkGoes
<1>4. r.upd = req[s].upd /\ r.at = req[s].at
  BY <1>1, <1>2, MarkGoes DEF Retains, Pursues
<1>5. x \in InstStatus \ {"completed"} /\ ~Vanished({i}) /\ {i} \in SUBSET InstIds
  BY <1>3 DEF InstStatus, Vanished
<1>6. CompletedIsStamped'
  BY <1>3, <1>5, SettingKeepsStamps
<1>7. insts'[i].status = x /\ insts[i] \in InstRow /\ \A j \in InstIds \ {i} : insts'[j] = insts[j]
  BY <1>1, <1>3, RowsTyped DEF SetStatuses, InstRow
<1>8. req[s].at \in {"expire", "overdue", "guard"}
  BY DEF MarkMissed, MarkOverdue, CascadeArchive, At
<1>9. r.at \in {"expire", "overdue"} =>
         \A j \in r.todo : insts'[j] # NoRow => insts'[j].status \in Superseded
  <2>1. r.todo \subseteq InstIds \ {i}
    BY <1>1, <1>3 DEF Request
  <2> QED
    BY <1>1, <1>3, <1>4, <1>7, <2>1 DEF UpToDate
<1> QED
  BY <1>1, <1>4, <1>6, <1>8, <1>9 DEF UpToDate

(* Nothing is out of date at first.                                        *)
LEMMA InitUses == Init => UseInv
<1> SUFFICES ASSUME Init PROVE UseInv
  OBVIOUS
<1>1. Base
  BY InitBase
<1>2. \A s \in Slots : req[s] = Idle
  BY DEF Init
<1>3. CompletedIsStamped
  BY DEF Init, CompletedIsStamped
<1> QED
  BY <1>1, <1>2, <1>3, IdleUpToDate DEF UseInv

(* Induction: with one request at a time nothing a handler goes by gets    *)
(* out of date.                                                            *)
LEMMA NextUses ==
    ASSUME OneAtATime
    PROVE  UseInv /\ [Next]_vars => UseInv'
<1> SUFFICES ASSUME UseInv, [Next]_vars PROVE UseInv'
  OBVIOUS
<1>1. Base /\ Base'
  BY NextBase DEF UseInv
<1>2. \A s \in Slots : req'[s] \in Request
  BY <1>1 DEF TypeOK
<1>3. ASSUME NEW s \in Slots, Arrive(s) \/ Continue(s) PROVE UseInv'
  <2> DEFINE r == req'[s]
  <2>1. CASE Arrive(s)
    <3>1. UpToDate(req[s])'
      BY <1>2, <2>1, ArriveUpToDate
    <3>2. CompletedIsStamped'
      BY <2>1, ArriveReads DEF tables, UseInv, CompletedIsStamped
    <3> QED
      BY <1>1, <3>1, <3>2 DEF OneAtATime, UseInv
  <2>2. CASE Continue(s)
    <3>1. UpToDate(req[s])' /\ CompletedIsStamped'
      BY <1>2, <2>2, CommitUpToDate, ReadingUpToDate, WritingUpToDate, MarkingUpToDate DEF Continue
    <3> QED
      BY <1>1, <3>1 DEF OneAtATime, UseInv
  <2> QED
    BY <1>3, <2>1, <2>2
<1>4. CASE Restart
  <2>1. \A s \in Slots : req'[s] = Idle
    BY <1>4 DEF Restart
  <2>2. CompletedIsStamped'
    BY <1>4 DEF Restart, tables, UseInv, CompletedIsStamped
  <2> QED
    BY <1>1, <2>1, <2>2, IdleUpToDate DEF UseInv
<1>5. CASE UNCHANGED <<assocs, insts, req>>
  <2>1. \A s \in Slots : UpToDate(req[s])'
    <3> SUFFICES ASSUME NEW s \in Slots PROVE UpToDate(req[s])'
      OBVIOUS
    <3>1. UpToDate(req[s]) /\ req'[s] = req[s]
      BY <1>5 DEF UseInv
    <3> QED
      BY <1>5, <3>1, StaysUpToDate
  <2>2. CompletedIsStamped'
    BY <1>5 DEF UseInv, CompletedIsStamped
  <2> QED
    BY <1>1, <2>1, <2>2 DEF UseInv
<1> QED
  BY <1>3, <1>4, <1>5 DEF Next, vars, tables, CreateMaster, PatchMaster, SoftDeleteMaster,
                          BulkSetStatus, Tick

(* Hence UseInv is an invariant.                                           *)
LEMMA Uses == ASSUME OneAtATime PROVE Spec => []UseInv
BY InitUses, NextUses, PTL DEF Spec

(* With one request at a time, a completed instance is stamped: every      *)
(* update that sets the status sets the stamp with it, and the row it      *)
(* writes is the row it loaded (update_instance).                          *)
THEOREM StampKept == ASSUME OneAtATime PROVE Spec => []CompletedIsStamped
<1>1. UseInv => CompletedIsStamped
  BY DEF UseInv
<1> QED
  BY <1>1, Uses, PTL

-------------------------------------------------------------------------------
(* One request at a time: associations, the counter and the limits. *)

(* A step that makes no instance, counts none, and links nothing.          *)
Steady ==
    /\ UNCHANGED assocs
    /\ \A i \in InstIds : insts'[i] = NoRow <=> insts[i] = NoRow
    /\ \A m \in Masters :
          IF Exists(masters[m])
          THEN /\ Exists(masters'[m])
               /\ masters'[m].tmpl = masters[m].tmpl /\ masters'[m].occ = masters[m].occ
          ELSE Exists(masters'[m]) => masters'[m].occ = 0

(* The requests that arrive, and what an operator does to masters. *)
LEMMA OutsideSteady ==
    ASSUME Base,
           \/ \E m \in Masters : CreateMaster(m) \/ SoftDeleteMaster(m)
           \/ BulkSetStatus \/ Tick \/ Restart \/ UNCHANGED vars
           \/ \E s \in Slots : Arrive(s)
    PROVE  Steady
<1>1. \A m \in Masters : Exists(masters[m]) => masters[m] \in MasterRow
  BY RowsTyped
<1>2. ASSUME UNCHANGED tables PROVE Steady
  BY <1>2 DEF tables, Steady
<1>3. ASSUME NEW m \in Masters, CreateMaster(m) PROVE Steady
  <2>1. PICK t \in Templates : masters' = [masters EXCEPT ![m] = NewMaster(t)]
    BY <1>3 DEF CreateMaster
  <2>2. ~Exists(masters[m]) /\ NewMaster(t).occ = 0 /\ UNCHANGED <<assocs, insts>>
    BY <1>3 DEF CreateMaster, Exists, NewMaster
  <2> QED
    BY <2>1, <2>2 DEF Steady, TypeOK
<1>4. ASSUME NEW m \in Masters, SoftDeleteMaster(m) PROVE Steady
  <2> DEFINE row == [masters[m] EXCEPT !.deleted = TRUE, !.status = "archived"]
  <2>1. /\ Exists(masters[m]) /\ UNCHANGED <<assocs, insts>>
        /\ masters' = [masters EXCEPT ![m] = row]
    BY <1>4 DEF SoftDeleteMaster
  <2>2. row \in MasterRow /\ row.tmpl = masters[m].tmpl /\ row.occ = masters[m].occ
    BY <1>1, <2>1 DEF MasterRow, MasterStatus
  <2>3. Exists(row)
    BY <2>2, SentinelAssumption DEF Exists
  <2> HIDE DEF row
  <2> QED
    BY <2>1, <2>2, <2>3 DEF Steady, TypeOK
<1>5. CASE BulkSetStatus
  <2>1. PICK batch \in SUBSET Masters \ {{}}, x \in {"active", "inactive"} :
             masters' = WithStatus(batch, x)
    BY <1>5 DEF BulkSetStatus
  <2>2. x \in MasterStatus /\ UNCHANGED <<assocs, insts>>
    BY <1>5 DEF BulkSetStatus, MasterStatus
  <2>3. \A m \in Masters : Exists(masters'[m]) <=> Exists(masters[m])
    BY <2>1, <2>2, SettingMasters
  <2>4. \A m \in Masters : Exists(masters[m]) =>
           masters'[m].tmpl = masters[m].tmpl /\ masters'[m].occ = masters[m].occ
    BY <1>1, <2>1 DEF WithStatus, MasterRow
  <2> QED
    BY <2>2, <2>3, <2>4 DEF Steady
<1> QED
  BY <1>2, <1>3, <1>4, <1>5, ArriveReads DEF Tick, Restart, vars, tables

(* The handlers that make, count and link nothing. *)
LEMMA HandlerSteady ==
    ASSUME Base, NEW s \in Slots,
           \/ LoadRow(s) \/ CommitRow(s) \/ LookupMaster(s) \/ PlanInstance(s)
           \/ ArchiveOld(s) \/ ReleaseInstances(s)
           \/ MarkMissed(s) \/ ListOverdue(s) \/ MarkOverdue(s) \/ ListAssociations(s)
           \/ NextAssociation(s) \/ GuardMaster(s) \/ CascadeArchive(s) \/ BulkCommit(s)
           \/ Abort(s)
    PROVE  Steady
<1>1. req[s] \in Request /\ {"missed", "overdue", "archived"} \subseteq InstStatus
  BY DEF TypeOK, InstStatus
<1>2. ASSUME UNCHANGED <<masters, assocs>>,
             \A i \in InstIds : insts'[i] = NoRow <=> insts[i] = NoRow
      PROVE  Steady
  BY <1>2 DEF Steady, Exists
<1>3. CASE \/ LoadRow(s) \/ LookupMaster(s) \/ PlanInstance(s) \/ ListOverdue(s)
           \/ ListAssociations(s) \/ NextAssociation(s) \/ GuardMaster(s) \/ Abort(s)
  <2>1. UNCHANGED tables
    BY <1>3 DEF LoadRow, LookupMaster, PlanInstance, ListOverdue, ListAssociations,
                NextAssociation, GuardMaster, Abort
  <2> QED
    BY <1>2, <2>1 DEF tables
<1>4. CASE CommitRow(s)
  <2> DEFINE i == req[s].inst
  <2>1. /\ i \in InstIds /\ insts[i] # NoRow /\ insts' = [insts EXCEPT ![i] = Merged(s)]
        /\ UNCHANGED <<masters, assocs>>
    BY <1>4, CommitGoes
  <2>2. req[s].row \in InstRow /\ req[s].upd \in Update /\ insts[i] \in InstRow
    BY <1>1, <1>4, <2>1, RowsTyped DEF CommitRow, At, Locals, LocalsOK, Request
  <2>3. Merged(s) # NoRow
    BY <2>2, WrittenTyped, SentinelAssumption DEF Merged
  <2> HIDE DEF i
  <2> QED
    BY <1>2, <2>1, <2>3 DEF TypeOK
<1>5. CASE ArchiveOld(s) \/ ReleaseInstances(s)
  <2>1. req[s].todo \in SUBSET InstIds
    BY <1>1 DEF Request
  <2> QED
    BY <1>1, <1>2, <1>5, <2>1, ArchiveGoes, SettingStatuses
<1>6. CASE MarkMissed(s) \/ MarkOverdue(s) \/ CascadeArchive(s)
  BY <1>1, <1>2, <1>6, Marking DEF MarkMissed, MarkOverdue, CascadeArchive, At
<1>7. CASE BulkCommit(s)
  <2>1. /\ masters' = WithStatus(req[s].batch, "archived") /\ "archived" \in MasterStatus
        /\ UNCHANGED <<assocs, insts>>
    BY <1>7 DEF BulkCommit, MasterStatus
  <2>2. \A m \in Masters : Exists(masters'[m]) <=> Exists(masters[m])
    BY <2>1, SettingMasters
  <2>3. \A m \in Masters : Exists(masters[m]) => masters[m] \in MasterRow
    BY RowsTyped
  <2>4. \A m \in Masters : Exists(masters[m]) =>
           masters'[m].tmpl = masters[m].tmpl /\ masters'[m].occ = masters[m].occ
    BY <2>1, <2>3 DEF WithStatus, MasterRow
  <2> QED
    BY <2>1, <2>2, <2>4 DEF Steady
<1> QED
  BY <1>3, <1>4, <1>5, <1>6, <1>7

(* A steady step leaves the associations in force and the instances of     *)
(* every master as they are, and a chore that appears has none.            *)
LEMMA SteadySets ==
    ASSUME Base, Steady
    PROVE  /\ Tally' = Tally
           /\ \A m \in Masters : InForce(m)' = InForce(m) /\ Owners(m)' = Owners(m)
                                 /\ InstancesOf(m)' = InstancesOf(m)
           /\ \A m \in Masters : ~Exists(masters[m]) => InForce(m) = {} /\ InstancesOf(m) = {}
                                                        /\ Tally[m] = 0
<1>1. Tally' = Tally /\ \A m \in Masters : InstancesOf(m)' = InstancesOf(m)
  BY SameInstances DEF Steady
<1>2. \A m \in Masters : InForce(m)' = InForce(m)
  BY DEF Steady, InForce
<1>3. \A m \in Masters : Owners(m)' = Owners(m)
  BY <1>2 DEF Steady, Owners
<1>4. ASSUME NEW m \in Masters, ~Exists(masters[m]) PROVE InForce(m) = {} /\ InstancesOf(m) = {}
  BY <1>4 DEF InForce, InstancesOf, Linked, InstIds
<1>5. Cardinality({}) = 0
  BY FS_EmptySet
<1> QED
  BY <1>1, <1>2, <1>3, <1>4, <1>5 DEF Tally

(* The rules of the associations and the limits survive such a step.       *)
LEMMA SteadyRules ==
    ASSUME BoardInv, Base', Steady
    PROVE  AssociationRules' /\ (NoRestart => LimitRespected')
<1>1. Base /\ AssociationRules /\ (NoRestart => LimitRespected)
  BY DEF BoardInv, MarksInv, Tallies
<1>2. \A m \in Masters : Exists(masters[m]) =>
         Exists(masters'[m]) /\ masters'[m].tmpl = masters[m].tmpl
  BY DEF Steady
<1>3. AssociationRules'
  <2>1. \A m \in Masters : InForce(m)' # {} => Exists(masters[m])
    BY <1>1, SteadySets
  <2> QED
    BY <1>1, <1>2, <2>1, SteadySets DEF AssociationRules, Steady
<1>4. ASSUME NoRestart PROVE LimitRespected'
  <2> SUFFICES ASSUME NEW m \in Masters, Exists(masters'[m]), ~masters'[m].tmpl.collab
               PROVE  LET t == masters'[m].tmpl
                          n == Cardinality(InstancesOf(m)')
                      IN  (t.once => n <= 1) /\ (t.max # 0 => n <= t.max)
    BY DEF LimitRespected
  <2>1. CASE Exists(masters[m])
    BY <1>1, <1>2, <1>4, <2>1, SteadySets DEF LimitRespected
  <2>2. CASE ~Exists(masters[m])
    <3>1. InstancesOf(m)' = {} /\ Cardinality({}) = 0
      BY <1>1, <2>2, SteadySets, FS_EmptySet
    <3>2. masters'[m] \in MasterRow
      BY DEF Exists, TypeOK
    <3>3. masters'[m].tmpl.max \in Nat
      BY <3>2, TemplateAssumption DEF MasterRow, Template
    <3> QED
      BY <3>1, <3>3
  <2> QED
    BY <2>1, <2>2
<1> QED
  BY <1>3, <1>4

(* What a handler has read and checked holds after a steady step as before. *)
LEMMA SteadyLocals ==
    ASSUME Base, Steady, NEW r \in Request, LocalsOK(r), Checked(r), Counts(r)
    PROVE  Checked(r)' /\ Counts(r)'
<1>1. \A m \in Masters : r.copy[m] # Keep => Exists(masters[m]) /\ r.copy[m].tmpl = masters[m].tmpl
  BY DEF Counts
<1>2. r.at \in {"insert_assoc", "gen", "archive", "insert", "count"} =>
         r.master \in Masters /\ Exists(masters[r.master])
  BY <1>1, SentinelAssumption DEF LocalsOK
<1>3. \A m \in Masters : Exists(masters[m]) =>
         /\ Exists(masters'[m])
         /\ masters'[m].tmpl = masters[m].tmpl /\ masters'[m].occ = masters[m].occ
  BY DEF Steady
<1>4. \A m \in Masters : Exists(masters[m]) => Alone(m)' = Alone(m)
  BY <1>3 DEF Alone
<1>5. Checked(r)'
  <2>1. CASE r.at = "insert_assoc"
    <3>1. r.master \in Masters /\ masters'[r.master].tmpl = masters[r.master].tmpl
      BY <1>2, <1>3, <2>1
    <3>2. Owners(r.master)' = Owners(r.master)
      BY <3>1, SteadySets
    <3> QED
      BY <2>1, <3>1, <3>2 DEF Checked
  <2>2. CASE r.at # "insert_assoc"
    BY <2>2 DEF Checked
  <2> QED
    BY <2>1, <2>2
<1>6. r.op = "sync" \/ r.at \in {"expire", "overdue", "next"} => Visits(r)'
  <2> SUFFICES ASSUME r.op = "sync" \/ r.at \in {"expire", "overdue", "next"} PROVE Visits(r)'
    OBVIOUS
  <2>1. Visits(r)
    BY DEF Counts
  <2>2. r.at \in {"gen", "archive", "insert", "count"} => r.assoc \in InForce(r.master)'
    BY <1>2, <2>1, SteadySets DEF Visits
  <2>3. ASSUME NEW a \in r.queue \ {r.assoc}
        PROVE  /\ Exists(assocs'[a]) /\ ~assocs'[a].removed
               /\ Alone(assocs[a].master)' => r.copy[assocs[a].master] = Keep
    <3>1. a \in AssocIds /\ Exists(assocs[a]) /\ UNCHANGED assocs
      BY <2>1, <2>3 DEF Visits, Request, Steady
    <3>2. assocs[a].master \in Masters /\ Exists(masters[assocs[a].master])
      BY <3>1, RowsTyped DEF Linked, AssocRow
    <3> QED
      BY <1>4, <2>1, <2>3, <3>1, <3>2 DEF Visits
  <2>4. UNCHANGED assocs
    BY DEF Steady
  <2> QED
    BY <2>1, <2>2, <2>3, <2>4 DEF Visits, Alone
<1>7. r.at \in {"insert_assoc", "gen", "archive", "insert", "count"} /\ Alone(r.master)' =>
         Current(r, r.master)'
  BY <1>2, <1>3, <1>4 DEF Counts, Current
<1>8. r.at \in {"archive", "insert", "count"} /\ Alone(r.master)' => Room(r.copy[r.master])
  BY <1>2, <1>4 DEF Counts
<1> QED
  BY <1>1, <1>3, <1>5, <1>6, <1>7, <1>8 DEF Counts, Room, AtLimit

(* A handler that holds no copy and works for no sync has nothing to check. *)
LEMMA NothingCopied ==
    ASSUME NEW r, r.copy = Idle.copy, r.op # "sync",
           r.at \in {"idle", "load", "lookup", "release", "remove", "guard", "purge"}
    PROVE  Checked(r) /\ Counts(r)
BY DEF Checked, Counts, Idle

(* A handler at rest has copied nothing.                                   *)
LEMMA IdleCounts == Checked(Idle) /\ Counts(Idle) /\ Checked(Idle)' /\ Counts(Idle)'
<1>1. Idle.op = "idle" /\ Idle.at = "idle" /\ \A m \in Masters : Idle.copy[m] = Keep
  BY DEF Idle
<1> QED
  BY <1>1 DEF Checked, Counts

(* A request for an association copies its master; the others copy nothing *)
(* yet.                                                                    *)
LEMMA ArriveCounts ==
    ASSUME BoardInv, NEW s \in Slots, Arrive(s), NEW r \in Request, req'[s] = r
    PROVE  Checked(r) /\ Counts(r)
<1>1. Base /\ (Updating(s) \/ Associating(s) \/ Opening(s))
  BY ArriveGoes DEF BoardInv, MarksInv
<1>2. CASE Updating(s)
  BY <1>2, NothingCopied DEF Updating
<1>3. CASE Associating(s)
  <2>1. PICK m \in Masters, u \in Members \cup {None} :
          /\ r.master = m /\ r.member = u /\ r.upd \in AutoUpdates(u)
          /\ r.copy = [Idle.copy EXCEPT ![m] = masters[m]]
          /\ Exists(masters[m]) /\ ~AtLimit(masters[m])
          /\ AssociationAllowed(masters[m].tmpl.collab, u, Owners(m))
    BY <1>3 DEF Associating
  <2>2. r.op = "create_assoc" /\ r.at = "insert_assoc"
    BY <1>3 DEF Associating
  <2>3. r.copy[m] = masters[m] /\ \A n \in Masters \ {m} : r.copy[n] = Keep
    BY <2>1 DEF Idle
  <2> QED
    BY <2>1, <2>2, <2>3 DEF Checked, Counts, Current
<1>4. CASE Opening(s) /\ r.op # "sync"
  BY <1>4, NothingCopied DEF Opening
<1>5. CASE Opening(s) /\ r.op = "sync"
  <2>1. r.at = "expire" /\ r.copy = Idle.copy /\ r.queue = {} /\ r.assoc = None
    BY <1>5 DEF Opening
  <2>2. Visits(r)
    BY <2>1 DEF Visits
  <2> QED
    BY <2>1, <2>2 DEF Checked, Counts, Idle
<1> QED
  BY <1>1, <1>2, <1>3, <1>4, <1>5

(* A handler that goes on with the association and the copies it had, or   *)
(* from the loops of a sync over instances to those over associations.     *)
LEMMA ResumeCounts ==
    ASSUME BoardInv, NEW s \in Slots, NEW i, Resumed(s, i),
           req[s].at \in {"gen", "insert", "count"},
           NEW r \in Request, req'[s] = r
    PROVE  Checked(r) /\ Counts(r)
<1>1. Counts(req[s]) /\ req[s] \in Request /\ None \notin AssocIds
  BY SentinelAssumption DEF BoardInv, MarksInv, TypeOK
<1>2. CASE r = Idle
  BY <1>2, IdleCounts
<1>3. CASE r.op = "create_assoc" /\ r.at = "load" /\ r.copy = Idle.copy
  BY <1>3, NothingCopied
<1>4. CASE /\ r.op = "sync" /\ req[s].op = "sync" /\ r.at = "next" /\ r.queue = Remaining(s)
           /\ r.assoc = None /\ r.copy = req[s].copy
  <2>1. Visits(req[s])
    BY <1>1, <1>4 DEF Counts
  <2>2. r.queue = req[s].queue \ {req[s].assoc}
    BY <1>4 DEF Remaining
  <2>3. Visits(r)
    BY <1>1, <1>4, <2>1, <2>2 DEF Visits
  <2> QED
    BY <1>1, <1>4, <2>3 DEF Checked, Counts
<1> QED
  BY <1>2, <1>3, <1>4 DEF Resumed, Pursues

(* A generation goes on only when the copy has room.                       *)
LEMMA PlanCounts ==
    ASSUME BoardInv, NEW s \in Slots, PlanInstance(s), NEW r \in Request, req'[s] = r
    PROVE  Checked(r) /\ Counts(r)
<1>1. Base /\ Counts(req[s]) /\ req[s] \in Request /\ LocalsOK(req[s])
  BY DEF BoardInv, MarksInv, TypeOK, Locals
<1> DEFINE p == PeriodFor(Held(s).tmpl, day, tod)
<1>2. /\ req[s].at = "gen"
      /\ \/ Resumed(s, None)
         \/ Resumed(s, <<req[s].assoc, p>>)
         \/ GenerationDue(Held(s), p) /\ Retains(s) /\ r.at \in {"insert", "archive"}
  BY <1>1, PlanGoes
<1> HIDE DEF p
<1>3. CASE \E i : Resumed(s, i)
  BY <1>2, <1>3, ResumeCounts
<1>4. CASE GenerationDue(Held(s), p) /\ Retains(s) /\ r.at \in {"insert", "archive"}
  <2>1. /\ r.op = req[s].op /\ r.master = req[s].master /\ r.assoc = req[s].assoc
        /\ r.copy = req[s].copy /\ r.queue = req[s].queue
    BY <1>4 DEF Retains, Pursues
  <2>2. Held(s) = r.copy[r.master] /\ Held(s) \in MasterRow
    BY <1>1, <1>2, <2>1 DEF Held, LocalsOK
  <2>3. Held(s).occ \in Nat
    BY <2>2 DEF MasterRow
  <2>4. Room(r.copy[r.master])
    BY <1>4, <2>2, <2>3 DEF Room, GenerationDue
  <2>5. r.op = "sync" => Visits(r)
    BY <1>1, <1>2, <1>4, <2>1 DEF Visits, Counts
  <2> QED
    BY <1>1, <1>2, <1>4, <2>1, <2>4, <2>5 DEF Checked, Counts, Current
<1> QED
  BY <1>2, <1>3, <1>4

(* A completion copies the master as it is.                                *)
LEMMA LookupCounts ==
    ASSUME BoardInv, NEW s \in Slots, LookupMaster(s), NEW r \in Request, req'[s] = r
    PROVE  Checked(r) /\ Counts(r)
<1>1. Base /\ Counts(req[s]) /\ Marks(req[s]) /\ req[s] \in Request
  BY DEF BoardInv, MarksInv, TypeOK
<1>2. CASE r = Idle
  BY <1>2, IdleCounts
<1>3. CASE r # Idle
  <2>1. /\ req[s].at = "lookup" /\ r.op = req[s].op /\ r.at = "gen"
        /\ req[s].assoc \in AssocIds /\ Exists(assocs[req[s].assoc])
        /\ r.master = assocs[req[s].assoc].master
        /\ r.copy = [req[s].copy EXCEPT ![r.master] = masters[r.master]]
    BY <1>1, <1>3, LookupGoes DEF Pursues
  <2>2. r.op # "sync"
    BY <1>1, <2>1 DEF Marks
  <2>3. r.master \in Masters /\ Exists(masters[r.master])
    BY <1>1, <2>1, RowsTyped DEF Linked, AssocRow
  <2>4. r.copy[r.master] = masters[r.master]
        /\ \A m \in Masters \ {r.master} : r.copy[m] = req[s].copy[m]
    BY <1>1, <2>1, <2>3 DEF Request
  <2> QED
    BY <1>1, <2>1, <2>2, <2>3, <2>4 DEF Checked, Counts, Current
<1> QED
  BY <1>2, <1>3

(* A sync copies each master once: the copy of one with a single           *)
(* association is fresh.                                                   *)
LEMMA NextCounts ==
    ASSUME BoardInv, NEW s \in Slots, NextAssociation(s), NEW r \in Request, req'[s] = r
    PROVE  Checked(r) /\ Counts(r)
<1>1. Base /\ Counts(req[s]) /\ req[s] \in Request /\ AssociationRules /\ None \notin AssocIds
  BY SentinelAssumption DEF BoardInv, MarksInv, TypeOK
<1>2. req[s].at = "next"
  BY <1>1, NextGoes
<1>3. PICK a \in req[s].queue : \E m, c :
                 /\ a \in AssocIds /\ m = assocs[a].master
                 /\ c = (IF req[s].copy[m] = Keep THEN masters[m] ELSE req[s].copy[m])
                 /\ \/ /\ Exists(assocs[a]) /\ Pursues(s) /\ req'[s].at = "gen"
                       /\ req'[s].assoc = a /\ req'[s].master = m
                       /\ req'[s].todo = req[s].todo /\ req'[s].queue = req[s].queue
                       /\ req'[s].copy = [req[s].copy EXCEPT ![m] = c]
                    \/ req'[s] = Idle
                    \/ /\ Pursues(s) /\ req'[s].at = "next"
                       /\ req'[s].assoc = req[s].assoc /\ req'[s].todo = req[s].todo
                       /\ req'[s].queue = req[s].queue \ {a}
                       /\ req'[s].copy = IF Exists(assocs[a])
                                         THEN [req[s].copy EXCEPT ![m] = c] ELSE req[s].copy
  BY <1>1, NextGoes
<1>4. PICK m, c :
                 /\ a \in AssocIds /\ m = assocs[a].master
                 /\ c = (IF req[s].copy[m] = Keep THEN masters[m] ELSE req[s].copy[m])
                 /\ \/ /\ Exists(assocs[a]) /\ Pursues(s) /\ r.at = "gen"
                       /\ r.assoc = a /\ r.master = m
                       /\ r.queue = req[s].queue
                       /\ r.copy = [req[s].copy EXCEPT ![m] = c]
                    \/ r = Idle
                    \/ /\ Pursues(s) /\ r.at = "next"
                       /\ r.assoc = req[s].assoc
                       /\ r.queue = req[s].queue \ {a}
                       /\ r.copy = IF Exists(assocs[a])
                                   THEN [req[s].copy EXCEPT ![m] = c] ELSE req[s].copy
  <2>1. PICK m, c :
                 /\ a \in AssocIds /\ m = assocs[a].master
                 /\ c = (IF req[s].copy[m] = Keep THEN masters[m] ELSE req[s].copy[m])
                 /\ \/ /\ Exists(assocs[a]) /\ Pursues(s) /\ req'[s].at = "gen"
                       /\ req'[s].assoc = a /\ req'[s].master = m
                       /\ req'[s].todo = req[s].todo /\ req'[s].queue = req[s].queue
                       /\ req'[s].copy = [req[s].copy EXCEPT ![m] = c]
                    \/ req'[s] = Idle
                    \/ /\ Pursues(s) /\ req'[s].at = "next"
                       /\ req'[s].assoc = req[s].assoc /\ req'[s].todo = req[s].todo
                       /\ req'[s].queue = req[s].queue \ {a}
                       /\ req'[s].copy = IF Exists(assocs[a])
                                         THEN [req[s].copy EXCEPT ![m] = c] ELSE req[s].copy
    BY <1>3
  <2> QED
    BY <2>1
<1>5. CASE r = Idle
  BY <1>5, IdleCounts
<1>6. CASE ~Exists(assocs[a]) /\ r # Idle
  <2>1. /\ r.op = req[s].op /\ r.at = "next" /\ r.assoc = req[s].assoc /\ r.copy = req[s].copy
        /\ r.queue \subseteq req[s].queue
    BY <1>4, <1>6 DEF Pursues
  <2>2. Visits(r)
    BY <1>1, <1>2, <2>1 DEF Counts, Visits
  <2> QED
    BY <1>1, <2>1, <2>2 DEF Checked, Counts
<1>7. CASE Exists(assocs[a]) /\ r # Idle
  <2>1. m \in Masters /\ Exists(masters[m])
    BY <1>1, <1>4, <1>7, RowsTyped DEF Linked, AssocRow
  <2>2. /\ r.op = req[s].op /\ r.copy = [req[s].copy EXCEPT ![m] = c]
        /\ \/ r.at = "gen" /\ r.assoc = a /\ r.master = m /\ r.queue = req[s].queue
           \/ r.at = "next" /\ r.assoc = req[s].assoc /\ r.queue = req[s].queue \ {a}
    BY <1>4, <1>7 DEF Pursues
  <2>3. r.copy[m] = c /\ \A n \in Masters \ {m} : r.copy[n] = req[s].copy[n]
    BY <1>1, <2>1, <2>2 DEF Request
  <2>4. \A n \in Masters : r.copy[n] # Keep =>
           Exists(masters[n]) /\ r.copy[n].tmpl = masters[n].tmpl
    BY <1>1, <1>4, <2>1, <2>3 DEF Counts
  <2>5. /\ req[s].assoc = None /\ ~assocs[a].removed
        /\ Alone(m) => c = masters[m]
        /\ \A b \in req[s].queue \ {a} :
              /\ Exists(assocs[b]) /\ ~assocs[b].removed
              /\ Alone(assocs[b].master) => r.copy[assocs[b].master] = Keep
    <3>1. Visits(req[s]) /\ req[s].assoc = None /\ req[s].queue \subseteq AssocIds
      BY <1>1, <1>2 DEF Counts, Visits, Request
    <3>2. ~assocs[a].removed /\ (Alone(m) => req[s].copy[m] = Keep)
      BY <1>1, <1>4, <3>1 DEF Visits
    <3>3. ASSUME NEW b \in req[s].queue \ {a}
          PROVE  /\ Exists(assocs[b]) /\ ~assocs[b].removed
                 /\ Alone(assocs[b].master) => r.copy[assocs[b].master] = Keep
      <4>1. /\ b \in AssocIds /\ Exists(assocs[b]) /\ ~assocs[b].removed
            /\ Alone(assocs[b].master) => req[s].copy[assocs[b].master] = Keep
        BY <1>1, <3>1, <3>3 DEF Visits
      <4>2. assocs[b].master \in Masters
        BY <1>1, <4>1, RowsTyped DEF AssocRow
      <4>3. CASE assocs[b].master = m
        <5>1. a \in InForce(m) /\ b \in InForce(m) /\ a # b
          BY <1>4, <1>7, <3>2, <3>3, <4>1, <4>3 DEF InForce
        <5>2. masters[m].tmpl.collab
          BY <1>1, <2>1, <5>1 DEF AssociationRules
        <5> QED
          BY <4>1, <4>3, <5>2 DEF Alone
      <4>4. CASE assocs[b].master # m
        BY <2>3, <4>1, <4>2, <4>4
      <4> QED
        BY <4>3, <4>4
    <3> QED
      BY <1>4, <3>1, <3>2, <3>3
  <2>6. CASE r.at = "next"
    <3>1. Visits(r)
      BY <1>1, <2>2, <2>5, <2>6 DEF Visits
    <3> QED
      BY <2>4, <2>6, <3>1 DEF Checked, Counts
  <2>7. CASE r.at = "gen"
    <3>1. r.assoc = a /\ r.master = m /\ r.queue = req[s].queue
      BY <2>2, <2>7
    <3>2. a \in InForce(m)
      BY <1>4, <1>7, <2>5 DEF InForce
    <3>3. Visits(r)
      BY <2>5, <2>7, <3>1, <3>2 DEF Visits
    <3>4. Alone(m) => Current(r, m)
      BY <2>1, <2>3, <2>5 DEF Current
    <3> QED
      BY <2>4, <2>7, <3>1, <3>3, <3>4 DEF Checked, Counts
  <2> QED
    BY <2>2, <2>6, <2>7
<1> QED
  BY <1>5, <1>6, <1>7

(* The other handlers that make, count and link nothing. *)
LEMMA HandlerCounts ==
    ASSUME BoardInv, NEW s \in Slots,
           \/ LoadRow(s) \/ CommitRow(s) \/ ArchiveOld(s) \/ ReleaseInstances(s)
           \/ MarkMissed(s) \/ ListOverdue(s) \/ MarkOverdue(s) \/ ListAssociations(s)
           \/ GuardMaster(s) \/ CascadeArchive(s) \/ BulkCommit(s) \/ Abort(s),
           NEW r \in Request, req'[s] = r
    PROVE  Checked(r) /\ Counts(r)
<1>1. Base /\ Checked(req[s]) /\ Counts(req[s]) /\ Marks(req[s]) /\ req[s] \in Request
  BY DEF BoardInv, MarksInv, TypeOK
<1>2. CASE r = Idle
  BY <1>2, IdleCounts
<1> DEFINE Same == /\ r.op = req[s].op /\ r.master = req[s].master /\ r.assoc = req[s].assoc
                   /\ r.copy = req[s].copy /\ r.queue = req[s].queue
<1>3. ASSUME Same,
             \/ r.at = req[s].at /\ r.at # "insert_assoc"
             \/ req[s].at = "load" /\ r.at = "commit"
             \/ req[s].at = "archive" /\ r.at = "insert"
             \/ req[s].at = "release" /\ r.at = "remove"
             \/ req[s].at = "expire" /\ r.at = "overdue"
      PROVE  Checked(r) /\ Counts(r)
  <2>1. \A m \in Masters : r.copy[m] # Keep =>
           Exists(masters[m]) /\ r.copy[m].tmpl = masters[m].tmpl
    BY <1>1, <1>3 DEF Counts
  <2>2. r.at # "insert_assoc"
    BY <1>3
  <2>3. r.at \in {"gen", "archive", "insert", "count"} /\ Alone(r.master) => Current(r, r.master)
    BY <1>1, <1>3 DEF Counts, Current
  <2>4. r.at \in {"archive", "insert", "count"} /\ Alone(r.master) => Room(r.copy[r.master])
    BY <1>1, <1>3 DEF Counts
  <2>5. r.op = "sync" \/ r.at \in {"expire", "overdue", "next"} => Visits(r)
    <3>1. r.op = "sync" \/ r.at \in {"expire", "overdue", "next"} => Visits(req[s])
      BY <1>1, <1>3 DEF Counts
    <3>2. r.op = "sync" => req[s].at \notin {"load", "release"}
      BY <1>1, <1>3 DEF Marks
    <3> QED
      BY <1>3, <3>1, <3>2 DEF Visits
  <2> QED
    BY <2>1, <2>2, <2>3, <2>4, <2>5 DEF Checked, Counts
<1>4. CASE LoadRow(s)
  <2>1. Same /\ req[s].at = "load" /\ r.at = "commit"
    BY <1>1, <1>4, LoadGoes DEF Retains, Pursues
  <2> QED
    BY <1>3, <2>1
<1>5. CASE CommitRow(s)
  <2>1. \/ r = Idle
        \/ r.op = req[s].op /\ r.at = "lookup" /\ r.copy = Idle.copy /\ req[s].at = "commit"
    BY <1>1, <1>5, CommitGoes
  <2>2. req[s].at = "commit" => req[s].op # "sync"
    BY <1>1 DEF Marks
  <2> QED
    BY <1>2, <2>1, <2>2, NothingCopied
<1>6. CASE ArchiveOld(s) \/ ReleaseInstances(s)
  <2>1. /\ Same
        /\ \/ req[s].at = "archive" /\ r.at = "insert"
           \/ req[s].at = "release" /\ r.at = "remove"
    BY <1>1, <1>6, ArchiveGoes DEF Retains, Pursues
  <2> QED
    BY <1>3, <2>1
<1>7. CASE MarkMissed(s) \/ MarkOverdue(s) \/ CascadeArchive(s)
  <2>1. Same /\ r.at = req[s].at /\ r.at # "insert_assoc"
    BY <1>1, <1>7, MarkGoes DEF Retains, Pursues, MarkMissed, MarkOverdue, CascadeArchive, At
  <2> QED
    BY <1>3, <2>1
<1>8. CASE ListOverdue(s)
  <2>1. Same /\ req[s].at = "expire" /\ r.at = "overdue"
    BY <1>1, <1>8, ListOverdueGoes DEF Retains, Pursues
  <2> QED
    BY <1>3, <2>1
<1>9. CASE ListAssociations(s) /\ r # Idle
  <2>1. /\ r.op = req[s].op /\ r.at = "next" /\ r.copy = req[s].copy /\ r.assoc = req[s].assoc
        /\ r.queue = UNION {InForce(m) : m \in Masters} /\ req[s].at = "overdue"
    BY <1>1, <1>9, ListAssociationsGoes DEF Pursues
  <2>2. r.copy = Idle.copy /\ r.assoc = None
    BY <1>1, <2>1 DEF Counts, Visits
  <2>3. \A a \in r.queue : a \in AssocIds /\ Exists(assocs[a]) /\ ~assocs[a].removed
    BY <2>1 DEF InForce
  <2>4. \A a \in r.queue : r.copy[assocs[a].master] = Keep
    BY <1>1, <2>2, <2>3, RowsTyped DEF Idle, AssocRow
  <2>5. Visits(r)
    BY <2>1, <2>2, <2>3, <2>4 DEF Visits
  <2> QED
    BY <2>1, <2>2, <2>5 DEF Checked, Counts, Idle
<1>10. CASE GuardMaster(s)
  <2>1. Same /\ r.at = req[s].at /\ r.at # "insert_assoc"
    BY <1>1, <1>10, GuardGoes DEF Retains, Pursues
  <2> QED
    BY <1>3, <2>1
<1>11. CASE BulkCommit(s) \/ Abort(s)
  BY <1>1, <1>2, <1>11, EndGoes
<1> QED
  BY <1>2, <1>4, <1>5, <1>6, <1>7, <1>8, <1>9, <1>10, <1>11

(* A copy means that the master exists: a handler that is about to count   *)
(* finds it.                                                               *)
LEMMA CountingFinds ==
    ASSUME BoardInv, NEW s \in Slots, req[s].at \in {"gen", "archive", "insert", "count"}
    PROVE  req[s].master \in Masters /\ Exists(masters[req[s].master])
<1>1. req[s].master \in Masters /\ req[s].copy[req[s].master] \in MasterRow
  BY DEF BoardInv, MarksInv, Locals, LocalsOK
<1>2. req[s].copy[req[s].master] # Keep
  BY <1>1, SentinelAssumption
<1> QED
  BY <1>1, <1>2 DEF BoardInv, Counts

(* The tally stays right when nothing is made and nobody counts. *)
LEMMA SteadyTally ==
    ASSUME BoardInv, NoRestart, Steady,
           \A t \in Slots : \/ req'[t] = req[t]
                            \/ req'[t].at # "count" /\ req[t].at # "count",
           NEW m \in Masters, Exists(masters'[m]), Alone(m)'
    PROVE  TallyRight(m)'
<1>1. Base /\ Tally' = Tally /\ (~Exists(masters[m]) => Tally[m] = 0)
  BY SteadySets DEF BoardInv, MarksInv
<1>2. (\E t \in Slots : At(t, "count")' /\ req'[t].master = m)
       <=> (\E t \in Slots : At(t, "count") /\ req[t].master = m)
  BY DEF At
<1>3. CASE Exists(masters[m])
  <2>1. masters'[m].occ = masters[m].occ /\ Alone(m)
    BY <1>3 DEF Steady, Alone
  <2>2. TallyRight(m)
    BY <1>3, <2>1 DEF BoardInv, Tallies
  <2> QED
    BY <1>1, <1>2, <2>1, <2>2 DEF TallyRight
<1>4. CASE ~Exists(masters[m])
  <2>1. masters'[m].occ = 0
    BY <1>4 DEF Steady
  <2>2. ~\E t \in Slots : At(t, "count") /\ req[t].master = m
    BY <1>4, CountingFinds DEF At
  <2> QED
    BY <1>1, <1>2, <1>4, <2>1, <2>2 DEF TallyRight
<1> QED
  BY <1>3, <1>4

(* What has to be shown of a step of the one handler at work. *)
Ordered == AssociationRules /\ (NoRestart => Tallies)

(* A step that makes nothing and counts nothing leaves the board in order. *)
LEMMA SteadyOrdered ==
    ASSUME BoardInv, Base', Steady,
           \A t \in Slots : \/ req'[t] = req[t]
                            \/ req'[t].at # "count" /\ req[t].at # "count"
    PROVE  Ordered'
<1>1. NoRestart => \A m \in Masters : Exists(masters'[m]) /\ Alone(m)' => TallyRight(m)'
  BY SteadyTally
<1> QED
  BY <1>1, SteadyRules DEF Ordered, Tallies

(* The insert: one instance more, of the master that was found to have     *)
(* room for it.                                                            *)
LEMMA InsertOrdered ==
    ASSUME OneAtATime, BoardInv, Base', NEW s \in Slots, InsertInstance(s),
           NEW r \in Request, req'[s] = r
    PROVE  Checked(r)' /\ Counts(r)' /\ Ordered'
<1>1. CountInv /\ Counts(req[s]) /\ req[s] \in Request /\ LocalsOK(req[s])
  BY DEF BoardInv, MarksInv, TypeOK, Locals
<1> DEFINE i == req[s].inst
           M == req[s].master
<1>2. /\ req[s].at = "insert" /\ UNCHANGED <<masters, assocs, clock>>
      /\ \/ Resumed(s, None) /\ UNCHANGED insts
         \/ /\ Retains(s) /\ r.at = "count"
            /\ i \in InstIds /\ insts[i] = NoRow /\ Exists(assocs[i[1]])
            /\ insts' = [insts EXCEPT ![i] = NewInstance(assocs[i[1]])]
  BY <1>1, InsertGoes
<1>3. CASE Resumed(s, None) /\ UNCHANGED insts
  <2>1. Steady
    BY <1>2, <1>3 DEF Steady, Exists
  <2>2. LocalsOK(r) /\ Checked(r) /\ Counts(r)
    BY <1>2, <1>3, ResumeCounts DEF Locals
  <2>3. r.at # "count"
    BY <1>3 DEF Resumed, Idle
  <2> QED
    BY <1>1, <1>2, <2>1, <2>2, <2>3, SteadyLocals, SteadyOrdered DEF OneAtATime
<1>4. CASE /\ Retains(s) /\ r.at = "count"
           /\ i \in InstIds /\ insts[i] = NoRow /\ Exists(assocs[i[1]])
           /\ insts' = [insts EXCEPT ![i] = NewInstance(assocs[i[1]])]
  <2>1. M \in Masters /\ Exists(masters[M]) /\ assocs[i[1]].master = M
    <3>1. M \in Masters /\ Exists(masters[M])
      BY <1>2, CountingFinds
    <3>2. BelongsTo(req[s].assoc, M, assocs) /\ i[1] = req[s].assoc
      BY <1>1, <1>2 DEF Attached, Attaches, LocalsOK
    <3> QED
      BY <1>4, <3>1, <3>2 DEF BelongsTo
  <2>2. NewInstance(assocs[i[1]]) \in InstRow
    <3>1. insts'[i] = NewInstance(assocs[i[1]]) /\ NewInstance(assocs[i[1]]).status = "active"
      BY <1>1, <1>4 DEF TypeOK, NewInstance
    <3>2. assocs[i[1]] \in AssocRow
      BY <1>1, <1>4, RowsTyped DEF InstIds
    <3> QED
      BY <3>2 DEF NewInstance, InstRow, AssocRow, InstStatus, Stamp
  <2>3. /\ Tally'[M] = Tally[M] + 1
        /\ \A m \in Masters : InstancesOf(m)' = IF m = M THEN InstancesOf(m) \cup {i}
                                                ELSE InstancesOf(m)
    BY <1>1, <1>2, <1>4, <2>1, <2>2, OneMore
  <2>4. \A m \in Masters : /\ Tally[m] = Cardinality(InstancesOf(m)) /\ Tally[m] \in Nat
                           /\ Tally'[m] = Cardinality(InstancesOf(m)')
    BY Tallied DEF Tally
  <2>5. /\ r.op = req[s].op /\ r.master = M /\ r.assoc = req[s].assoc
        /\ r.copy = req[s].copy /\ r.queue = req[s].queue
    BY <1>4 DEF Retains, Pursues
  <2>6. Checked(r)' /\ Counts(r)'
    <3>1. Checked(r) /\ Counts(r)
      BY <1>1, <1>2, <1>4, <2>5 DEF Checked, Counts, Visits, Current
    <3> QED
      BY <1>2, <3>1 DEF Checked, Counts, Visits, InForce, Owners, Alone, Current, Room, AtLimit
  <2>7. AssociationRules'
    BY <1>2 DEF BoardInv, AssociationRules, InForce
  <2>8. NoRestart /\ Alone(M) => Tally[M] = masters[M].occ /\ Room(masters[M])
    <3> SUFFICES ASSUME NoRestart, Alone(M) PROVE Tally[M] = masters[M].occ /\ Room(masters[M])
      OBVIOUS
    <3>1. TallyRight(M) /\ ~\E t \in Slots : At(t, "count")
      BY <1>2, <2>1 DEF BoardInv, Tallies, OneAtATime, At
    <3>2. Current(req[s], M) /\ Room(req[s].copy[M])
      BY <1>1, <1>2 DEF Counts
    <3>3. Room(masters[M])
      BY <3>2 DEF Current, Room, AtLimit
    <3> QED
      BY <3>1, <3>3 DEF TallyRight
  <2>9. ASSUME NoRestart PROVE LimitRespected'
    <3> SUFFICES ASSUME NEW m \in Masters, Exists(masters'[m]), ~masters'[m].tmpl.collab
                 PROVE  LET t == masters'[m].tmpl
                            n == Cardinality(InstancesOf(m)')
                        IN  (t.once => n <= 1) /\ (t.max # 0 => n <= t.max)
      BY DEF LimitRespected
    <3>1. CASE m # M
      BY <1>2, <2>3, <2>9, <3>1 DEF BoardInv, Tallies, LimitRespected
    <3>2. CASE m = M
      <4> DEFINE t == masters[M].tmpl
                 n == Tally[M]
      <4>1. masters[M] \in MasterRow
        BY <1>1, <2>1, RowsTyped
      <4>2. t.max \in Nat /\ n \in Nat /\ masters'[m].tmpl = t
        BY <1>2, <2>4, <3>2, <4>1, TemplateAssumption DEF MasterRow, Template
      <4>3. (t.once => n = 0) /\ (~t.once => t.max = 0 \/ n < t.max)
        <5>1. n = masters[M].occ /\ Room(masters[M])
          BY <1>2, <2>8, <2>9, <3>2 DEF Alone
        <5> QED
          BY <4>1, <4>2, <5>1 DEF Room, AtLimit, MasterRow
      <4>4. Cardinality(InstancesOf(m)') = n + 1
        BY <2>1, <2>3, <2>4, <3>2
      <4> HIDE DEF t, n
      <4> QED
        BY <4>2, <4>3, <4>4
    <3> QED
      BY <3>1, <3>2
  <2>10. ASSUME NoRestart, NEW m \in Masters, Exists(masters'[m]), Alone(m)' PROVE TallyRight(m)'
    <3>1. Exists(masters[m]) /\ Alone(m) /\ masters'[m] = masters[m]
      BY <1>2, <2>10 DEF Alone
    <3>2. (\E t \in Slots : At(t, "count")' /\ req'[t].master = m) <=> m = M
      BY <1>4, <2>5 DEF OneAtATime, At
    <3>3. Tally[m] = masters[m].occ
      <4>1. TallyRight(m) /\ ~\E t \in Slots : At(t, "count")
        BY <1>2, <2>10, <3>1 DEF BoardInv, Tallies, OneAtATime, At
      <4> QED
        BY <4>1 DEF TallyRight
    <3>4. m # M => Tally'[m] = Tally[m]
      BY <2>3, <2>4
    <3> QED
      BY <2>3, <3>1, <3>2, <3>3, <3>4 DEF TallyRight
  <2> QED
    BY <2>6, <2>7, <2>9, <2>10 DEF Ordered, Tallies
<1> QED
  BY <1>2, <1>3, <1>4

(* The counter: written from a copy that is still the row. *)
LEMMA CountOrdered ==
    ASSUME OneAtATime, BoardInv, Base', NEW s \in Slots, CountInstance(s),
           NEW r \in Request, req'[s] = r
    PROVE  Checked(r)' /\ Counts(r)' /\ Ordered'
<1>1. CountInv /\ Counts(req[s]) /\ req[s] \in Request /\ LocalsOK(req[s])
  BY DEF BoardInv, MarksInv, TypeOK, Locals
<1> DEFINE M == req[s].master
<1>2. /\ req[s].at = "count" /\ Resumed(s, req[s].inst) /\ UNCHANGED <<assocs, insts, clock>>
      /\ M \in Masters /\ Exists(masters[M])
      /\ masters' = [masters EXCEPT ![M].occ = CountAfter(Held(s))]
  BY <1>1, CountGoes
<1>3. \A m \in Masters : Exists(masters[m]) =>
         /\ masters[m] \in MasterRow /\ masters'[m].tmpl = masters[m].tmpl
         /\ masters'[m].occ = IF m = M THEN CountAfter(Held(s)) ELSE masters[m].occ
  BY <1>1, <1>2, RowsTyped DEF MasterRow, TypeOK
<1>4. \A m \in Masters : Exists(masters'[m]) <=> Exists(masters[m])
  <2>1. Exists(masters'[M])
    <3>1. CountAfter(Held(s)) \in Nat
      BY <1>1, <1>2 DEF CountAfter, Held, LocalsOK, MasterRow
    <3>2. masters'[M] \in MasterRow
      BY <1>1, <1>2, <1>3, <3>1 DEF MasterRow, TypeOK
    <3> QED
      BY <3>2, SentinelAssumption DEF Exists
  <2> QED
    BY <1>1, <1>2, <2>1 DEF TypeOK
<1>5. \A m \in Masters : InForce(m)' = InForce(m) /\ InstancesOf(m)' = InstancesOf(m)
  BY <1>2 DEF InForce, InstancesOf
<1>6. Checked(r)' /\ Counts(r)'
  <2>1. Checked(r) /\ Counts(r)
    BY <1>2, ResumeCounts
  <2>2. r.at \in {"idle", "next", "load"}
    BY <1>2 DEF Resumed, Idle
  <2>3. \A m \in Masters : Exists(masters[m]) => Alone(m)' = Alone(m)
    BY <1>3 DEF Alone
  <2>4. r.op = "sync" \/ r.at = "next" => Visits(r)'
    <3> SUFFICES ASSUME r.op = "sync" \/ r.at = "next" PROVE Visits(r)'
      OBVIOUS
    <3>1. Visits(r)
      BY <2>1 DEF Counts
    <3>2. \A a \in r.queue \ {r.assoc} :
             assocs[a].master \in Masters /\ Exists(masters[assocs[a].master])
      BY <1>1, <3>1, RowsTyped DEF Visits, Request, Linked, AssocRow
    <3>3. UNCHANGED assocs
      BY <1>2
    <3>4. \A a \in r.queue \ {r.assoc} :
             /\ Exists(assocs'[a]) /\ ~assocs'[a].removed
             /\ Alone(assocs[a].master)' => r.copy[assocs[a].master] = Keep
      BY <2>3, <3>1, <3>2, <3>3 DEF Visits, Alone
    <3> QED
      BY <2>2, <3>1, <3>3, <3>4 DEF Visits, Alone
  <2> QED
    BY <1>3, <1>4, <2>1, <2>2, <2>4 DEF Checked, Counts
<1>7. AssociationRules'
  <2>1. \A m \in Masters : InForce(m) # {} => Exists(masters[m])
    BY <1>1 DEF InForce, Linked
  <2>2. UNCHANGED assocs
    BY <1>2
  <2> QED
    BY <1>3, <1>5, <2>1, <2>2 DEF BoardInv, AssociationRules
<1>8. ASSUME NoRestart PROVE LimitRespected'
  BY <1>3, <1>4, <1>5, <1>8 DEF BoardInv, Tallies, LimitRespected
<1>9. ASSUME NoRestart, NEW m \in Masters, Exists(masters'[m]), Alone(m)' PROVE TallyRight(m)'
  <2>1. Exists(masters[m]) /\ Alone(m)
    BY <1>3, <1>4, <1>9 DEF Alone
  <2>2. ~\E t \in Slots : At(t, "count")' /\ req'[t].master = m
    BY <1>2 DEF OneAtATime, At, Resumed, Idle
  <2>3. Tally'[m] = Tally[m]
    BY <1>5 DEF Tally
  <2>4. TallyRight(m)
    BY <1>9, <2>1 DEF BoardInv, Tallies
  <2>5. CASE m = M
    <3>1. Tally[m] = masters[m].occ + 1
      BY <1>2, <2>4, <2>5 DEF TallyRight, At
    <3>2. Current(req[s], M) /\ Room(req[s].copy[M])
      BY <1>1, <1>2, <2>1, <2>5 DEF Counts
    <3>3. CountAfter(Held(s)) = masters[m].occ + 1
      BY <2>5, <3>2 DEF CountAfter, Held, Current, Room
    <3> QED
      BY <1>3, <2>1, <2>2, <2>3, <2>5, <3>1, <3>3 DEF TallyRight
  <2>6. CASE m # M
    <3>1. ~\E t \in Slots : At(t, "count") /\ req[t].master = m
      BY <2>6 DEF OneAtATime
    <3> QED
      BY <1>3, <2>1, <2>2, <2>3, <2>4, <2>6, <3>1 DEF TallyRight
  <2> QED
    BY <2>5, <2>6
<1> QED
  BY <1>6, <1>7, <1>8, <1>9 DEF Ordered, Tallies

(* Instances, the counter and the limits when only associations change. *)
LEMMA LinkingOrdered ==
    ASSUME BoardInv, AssociationRules', UNCHANGED <<masters, insts>>,
           \A a \in AssocIds : Exists(assocs[a]) =>
                Exists(assocs'[a]) /\ assocs'[a].master = assocs[a].master,
           \A t \in Slots : \/ req'[t] = req[t]
                            \/ req'[t].at # "count" /\ req[t].at # "count"
    PROVE  Ordered'
<1>1. Tally' = Tally /\ \A m \in Masters : InstancesOf(m)' = InstancesOf(m)
  BY SameInstances DEF BoardInv, MarksInv
<1>2. ASSUME NoRestart PROVE LimitRespected'
  BY <1>1, <1>2 DEF BoardInv, Tallies, LimitRespected
<1>3. ASSUME NoRestart, NEW m \in Masters, Exists(masters'[m]), Alone(m)' PROVE TallyRight(m)'
  <2>1. TallyRight(m)
    BY <1>3 DEF BoardInv, Tallies, Alone
  <2>2. (\E t \in Slots : At(t, "count")' /\ req'[t].master = m)
         <=> (\E t \in Slots : At(t, "count") /\ req[t].master = m)
    BY DEF At
  <2> QED
    BY <1>1, <2>1, <2>2 DEF TallyRight
<1> QED
  BY <1>2, <1>3 DEF Ordered, Tallies

(* A new association, checked against those that are still in force. *)
LEMMA AssociationOrdered ==
    ASSUME OneAtATime, BoardInv, Base', NEW s \in Slots, InsertAssociation(s),
           NEW r \in Request, req'[s] = r
    PROVE  Checked(r)' /\ Counts(r)' /\ Ordered'
<1>1. /\ CountInv /\ Checked(req[s]) /\ Counts(req[s]) /\ Marks(req[s]) /\ req[s] \in Request
      /\ LocalsOK(req[s]) /\ AssociationRules
  BY DEF BoardInv, MarksInv, TypeOK, Locals
<1> DEFINE M == req[s].master
           b == r.assoc
           row == [master |-> M, member |-> req[s].member, removed |-> FALSE]
<1>2. /\ req[s].at = "insert_assoc" /\ UNCHANGED <<masters, insts, clock>>
      /\ r.op = req[s].op /\ r.at = "gen" /\ r.master = M /\ r.copy = req[s].copy
      /\ b \in AssocIds /\ assocs[b] = NoRow
      /\ assocs' = [assocs EXCEPT ![b] = row]
  BY <1>1, AssociateGoes DEF Pursues
<1>3. M \in Masters /\ AssociationAllowed(masters[M].tmpl.collab, req[s].member, Owners(M))
  BY <1>1, <1>2 DEF Checked, LocalsOK
<1>4. assocs'[b] = row /\ (\A a \in AssocIds \ {b} : assocs'[a] = assocs[a]) /\ ~Exists(assocs[b])
  BY <1>1, <1>2 DEF TypeOK, Exists
<1>5. \A m \in Masters : \A a \in InForce(m)' : (a = b /\ m = M) \/ (a # b /\ a \in InForce(m))
  <2> SUFFICES ASSUME NEW m \in Masters, NEW a \in InForce(m)'
               PROVE  (a = b /\ m = M) \/ (a # b /\ a \in InForce(m))
    OBVIOUS
  <2>1. row.master = M
    OBVIOUS
  <2>2. a \in AssocIds /\ Exists(assocs'[a]) /\ assocs'[a].master = m /\ ~assocs'[a].removed
    BY DEF InForce
  <2> HIDE DEF row, b, M
  <2>3. CASE a = b
    BY <1>4, <2>1, <2>2, <2>3
  <2>4. CASE a # b
    BY <1>4, <2>2, <2>4 DEF InForce
  <2> QED
    BY <2>3, <2>4
<1>6. \A a \in InForce(M) : masters[M].tmpl.collab /\ assocs[a].member # req[s].member
  BY <1>3 DEF AssociationAllowed, Owners
<1>7. AssociationRules'
  <2> SUFFICES ASSUME NEW m \in Masters, NEW a \in InForce(m)', NEW c \in InForce(m)', a # c
               PROVE  masters'[m].tmpl.collab /\ assocs'[a].member # assocs'[c].member
    BY DEF AssociationRules
  <2>1. a \in AssocIds /\ c \in AssocIds /\ row.member = req[s].member
    BY DEF InForce
  <2>2. CASE a # b /\ c # b
    BY <1>1, <1>2, <1>4, <1>5, <2>1, <2>2 DEF AssociationRules
  <2>3. CASE a = b
    BY <1>2, <1>4, <1>5, <1>6, <2>1, <2>3
  <2>4. CASE c = b
    BY <1>2, <1>4, <1>5, <1>6, <2>1, <2>4
  <2> QED
    BY <2>2, <2>3, <2>4
<1>8. Ordered'
  <2>1. \A a \in AssocIds : Exists(assocs[a]) =>
           Exists(assocs'[a]) /\ assocs'[a].master = assocs[a].master
    BY <1>4
  <2>2. \A t \in Slots : req'[t].at # "count" /\ req[t].at # "count"
    BY <1>2 DEF OneAtATime
  <2>3. UNCHANGED <<masters, insts>>
    BY <1>2
  <2> QED
    BY <1>7, <2>1, <2>2, <2>3, LinkingOrdered
<1>9. Checked(r)' /\ Counts(r)'
  <2>1. r.op # "sync"
    BY <1>1, <1>2 DEF Marks
  <2>2. UNCHANGED masters
    BY <1>2
  <2>3. \A m \in Masters : r.copy[m] # Keep =>
           Exists(masters[m]) /\ r.copy[m].tmpl = masters[m].tmpl
    BY <1>1, <1>2 DEF Counts
  <2>4. Alone(M) => Current(r, M)
    BY <1>1, <1>2 DEF Counts, Current
  <2> QED
    BY <1>2, <2>1, <2>2, <2>3, <2>4 DEF Checked, Counts, Alone, Current
<1> QED
  BY <1>8, <1>9

(* So does a removal, which leaves fewer associations in force.            *)
LEMMA RemovalOrdered ==
    ASSUME OneAtATime, BoardInv, NEW s \in Slots, RemoveAssociation(s)
    PROVE  Ordered'
<1>1. Base /\ AssociationRules
  BY DEF BoardInv, MarksInv
<1>2. /\ req[s].at = "remove" /\ UNCHANGED <<masters, insts>> /\ req'[s] = Idle
      /\ assocs' = IF Exists(assocs[req[s].assoc])
                   THEN [assocs EXCEPT ![req[s].assoc].removed = TRUE] ELSE assocs
  BY <1>1, EndGoes DEF RemoveAssociation, At
<1>3. \A a \in AssocIds : Exists(assocs[a]) => assocs[a] \in AssocRow
  BY <1>1, RowsTyped
<1>4. \A a \in AssocIds : Exists(assocs[a]) =>
         /\ assocs'[a].master = assocs[a].master /\ assocs'[a].member = assocs[a].member
         /\ assocs'[a].removed \/ assocs'[a].removed = assocs[a].removed
  BY <1>1, <1>2, <1>3 DEF AssocRow, TypeOK
<1>5. \A a \in AssocIds : Exists(assocs'[a]) <=> Exists(assocs[a])
  <2>1. CASE Exists(assocs[req[s].assoc]) /\ req[s].assoc \in AssocIds
    <3>1. [assocs[req[s].assoc] EXCEPT !.removed = TRUE] \in AssocRow
      BY <1>3, <2>1 DEF AssocRow
    <3>2. Exists([assocs[req[s].assoc] EXCEPT !.removed = TRUE])
      BY <3>1, SentinelAssumption DEF Exists
    <3> QED
      BY <1>1, <1>2, <2>1, <3>2 DEF TypeOK
  <2>2. CASE ~(Exists(assocs[req[s].assoc]) /\ req[s].assoc \in AssocIds)
    BY <1>1, <1>2, <2>2 DEF TypeOK
  <2> QED
    BY <2>1, <2>2
<1>6. \A m \in Masters : InForce(m)' \subseteq InForce(m)
  BY <1>4, <1>5 DEF InForce
<1>7. AssociationRules'
  <2>1. \A m \in Masters : InForce(m) \subseteq {a \in AssocIds : Exists(assocs[a])}
    BY DEF InForce
  <2> QED
    BY <1>1, <1>2, <1>4, <1>6, <2>1 DEF AssociationRules
<1>8. \A t \in Slots : req'[t].at # "count" /\ req[t].at # "count"
  BY <1>2 DEF OneAtATime, Idle
<1>9. \A a \in AssocIds : Exists(assocs[a]) =>
         Exists(assocs'[a]) /\ assocs'[a].master = assocs[a].master
  BY <1>4, <1>5
<1> QED
  BY <1>2, <1>7, <1>8, <1>9, LinkingOrdered

(* So does a purge: what is left belongs to other masters.                 *)
LEMMA PurgeOrdered ==
    ASSUME OneAtATime, BoardInv, NEW s \in Slots, PurgeCommit(s)
    PROVE  Ordered'
<1> DEFINE M == req[s].master
<1>1. CountInv /\ AssociationRules /\ (NoRestart => LimitRespected)
  BY DEF BoardInv, MarksInv, Tallies
<1>2. /\ M \in Masters
      /\ \A n \in Masters \ {M} : InstancesOf(n)' = InstancesOf(n)
  BY <1>1, PurgeTakesOne
<1>3. /\ req[s].at = "purge" /\ req'[s] = Idle
      /\ assocs' = [a \in AssocIds |-> IF a \in AssociationsOf(M) THEN Gone ELSE assocs[a]]
      /\ masters' = [masters EXCEPT ![M] = Gone]
  BY <1>1, EndGoes DEF PurgeCommit, At
<1>4. ~Exists(masters'[M]) /\ ~Exists(Gone) /\ \A n \in Masters \ {M} : masters'[n] = masters[n]
  BY <1>1, <1>2, <1>3 DEF TypeOK, Exists
<1>5. \A a \in AssocIds : Exists(assocs'[a]) => assocs'[a] = assocs[a] /\ a \notin AssociationsOf(M)
  BY <1>3, <1>4
<1>6. ASSUME NEW n \in Masters, NEW a \in InForce(n)'
      PROVE  n # M /\ a \in InForce(n) /\ assocs'[a] = assocs[a]
  <2>1. a \in AssocIds /\ Exists(assocs'[a]) /\ assocs'[a].master = n /\ ~assocs'[a].removed
    BY DEF InForce
  <2>2. assocs'[a] = assocs[a] /\ a \notin AssociationsOf(M)
    BY <1>5, <2>1
  <2> QED
    BY <2>1, <2>2 DEF InForce, AssociationsOf
<1>7. AssociationRules'
  <2> SUFFICES ASSUME NEW n \in Masters, NEW a \in InForce(n)', NEW c \in InForce(n)', a # c
               PROVE  masters'[n].tmpl.collab /\ assocs'[a].member # assocs'[c].member
    BY DEF AssociationRules
  <2>1. n # M /\ a \in InForce(n) /\ c \in InForce(n)
        /\ assocs'[a] = assocs[a] /\ assocs'[c] = assocs[c]
    BY <1>6
  <2> QED
    BY <1>1, <1>4, <2>1 DEF AssociationRules
<1>8. ASSUME NoRestart PROVE LimitRespected'
  BY <1>1, <1>2, <1>4, <1>8 DEF LimitRespected
<1>9. ASSUME NoRestart, NEW m \in Masters, Exists(masters'[m]), Alone(m)' PROVE TallyRight(m)'
  <2>1. m # M /\ masters'[m] = masters[m] /\ TallyRight(m) /\ Alone(m)
    BY <1>4, <1>9 DEF BoardInv, Tallies, Alone
  <2>2. Tally'[m] = Tally[m]
    BY <1>2, <2>1 DEF Tally
  <2>3. \A t \in Slots : req'[t].at # "count" /\ req[t].at # "count"
    BY <1>3 DEF OneAtATime, Idle
  <2> QED
    BY <2>1, <2>2, <2>3 DEF TallyRight, At
<1> QED
  BY <1>7, <1>8, <1>9 DEF Ordered, Tallies

(* The empty board is in order.                                            *)
LEMMA InitBoard == Init => BoardInv
<1> SUFFICES ASSUME Init PROVE BoardInv
  OBVIOUS
<1>1. MarksInv
  BY InitMarks
<1>2. \A s \in Slots : req[s] = Idle
  BY DEF Init
<1>3. \A m \in Masters : ~Exists(masters[m]) /\ InForce(m) = {}
  BY DEF Init, Exists, InForce
<1> QED
  BY <1>1, <1>2, <1>3, IdleCounts DEF BoardInv, Tallies, AssociationRules, LimitRespected

(* Induction: with one request at a time the board stays in order.         *)
LEMMA NextBoard ==
    ASSUME OneAtATime, NoPatch
    PROVE  BoardInv /\ [Next]_vars => BoardInv'
<1> SUFFICES ASSUME BoardInv, [Next]_vars PROVE BoardInv'
  OBVIOUS
<1>1. MarksInv /\ MarksInv' /\ CountInv /\ Base'
  BY NextMarks DEF BoardInv, MarksInv
<1>2. \A s \in Slots : /\ req'[s] \in Request /\ LocalsOK(req'[s])
                       /\ req[s] \in Request /\ LocalsOK(req[s])
                       /\ Checked(req[s]) /\ Counts(req[s])
  BY <1>1 DEF BoardInv, TypeOK, Locals
<1>3. ASSUME NEW s \in Slots, Checked(req[s])', Counts(req[s])', Ordered' PROVE BoardInv'
  BY <1>1, <1>3 DEF OneAtATime, BoardInv, Ordered
<1>4. ASSUME NEW s \in Slots, Arrive(s) PROVE BoardInv'
  <2> DEFINE r == req'[s]
  <2>1. Steady
    BY <1>1, <1>4, OutsideSteady
  <2>2. Checked(r) /\ Counts(r)
    BY <1>2, <1>4, ArriveCounts
  <2>3. Checked(req[s])' /\ Counts(req[s])'
    BY <1>1, <1>2, <2>1, <2>2, SteadyLocals
  <2>4. r.at # "count" /\ req[s].at # "count"
    <3>1. Updating(s) \/ Associating(s) \/ Opening(s)
      BY <1>1, <1>4, ArriveGoes
    <3>2. r.at # "count"
      BY <3>1 DEF Updating, Associating, Opening
    <3>3. req[s].at = "idle"
      BY <1>4 DEF Arrive, ClaimInstance, AssignInstance, RevertInstanceStatus, ResetInstance,
         UpdateInstanceStatus, DeleteInstance, CreateAssociation, DeleteAssociation, Sync,
         BulkArchive, PurgeMaster, BeginUpdate, Begin, At
    <3> QED
      BY <3>2, <3>3
  <2>5. Ordered'
    BY <1>1, <2>1, <2>4, SteadyOrdered DEF OneAtATime
  <2> QED
    BY <1>3, <2>3, <2>5
<1>5. ASSUME NEW s \in Slots,
             \/ LoadRow(s) \/ CommitRow(s) \/ LookupMaster(s) \/ PlanInstance(s)
             \/ ArchiveOld(s) \/ ReleaseInstances(s)
             \/ MarkMissed(s) \/ ListOverdue(s) \/ MarkOverdue(s) \/ ListAssociations(s)
             \/ NextAssociation(s) \/ GuardMaster(s) \/ CascadeArchive(s) \/ BulkCommit(s)
             \/ Abort(s)
      PROVE  BoardInv'
  <2> DEFINE r == req'[s]
  <2>1. Steady
    BY <1>1, <1>5, HandlerSteady
  <2>2. Checked(r) /\ Counts(r)
    BY <1>2, <1>5, HandlerCounts, LookupCounts, PlanCounts, NextCounts
  <2>3. Checked(req[s])' /\ Counts(req[s])'
    BY <1>1, <1>2, <2>1, <2>2, SteadyLocals
  <2>4. req[s].at # "count"
    <3>1. CASE Abort(s)
      <4>1. req[s].at = "count" => Exists(masters[req[s].master])
        BY CountingFinds
      <4> QED
        BY <3>1, <4>1 DEF Abort, Raises, At
    <3>2. CASE ~Abort(s)
      BY <1>5, <3>2 DEF LoadRow, CommitRow, LookupMaster, PlanInstance, ArchiveOld,
         ReleaseInstances, MarkMissed, ListOverdue, MarkOverdue, ListAssociations,
         NextAssociation, GuardMaster, CascadeArchive, BulkCommit, At
    <3> QED
      BY <3>1, <3>2
  <2>5. r.at # "count"
    <3>1. CASE PlanInstance(s)
      <4> DEFINE p == PeriodFor(Held(s).tmpl, day, tod)
      <4>1. \/ Resumed(s, None) \/ Resumed(s, <<req[s].assoc, p>>)
            \/ r.at \in {"insert", "archive"}
        BY <1>1, <3>1, PlanGoes
      <4> HIDE DEF p
      <4> QED
        BY <4>1 DEF Resumed, Idle
    <3>2. CASE LoadRow(s) \/ CommitRow(s) \/ LookupMaster(s)
      <4>1. r = Idle \/ r.at \in {"commit", "lookup", "gen"}
        BY <1>1, <3>2, LoadGoes, CommitGoes, LookupGoes
      <4> QED
        BY <4>1 DEF Idle
    <3>3. CASE ArchiveOld(s) \/ ReleaseInstances(s) \/ ListOverdue(s) \/ GuardMaster(s)
      BY <1>1, <3>3, ArchiveGoes, ListOverdueGoes, GuardGoes
    <3>4. CASE MarkMissed(s) \/ MarkOverdue(s) \/ CascadeArchive(s)
      BY <1>1, <2>4, <3>4, MarkGoes DEF MarkMissed, MarkOverdue, CascadeArchive
    <3>5. CASE ListAssociations(s) \/ NextAssociation(s)
      <4>1. r = Idle \/ r.at \in {"next", "gen"}
        BY <1>1, <3>5, ListAssociationsGoes, NextGoes
      <4> QED
        BY <4>1 DEF Idle
    <3>6. CASE BulkCommit(s) \/ Abort(s)
      BY <1>1, <3>6, EndGoes DEF Idle
    <3> QED
      BY <1>5, <3>1, <3>2, <3>3, <3>4, <3>5, <3>6
  <2>6. Ordered'
    BY <1>1, <2>1, <2>4, <2>5, SteadyOrdered DEF OneAtATime
  <2> QED
    BY <1>3, <2>3, <2>6
<1>6. ASSUME NEW s \in Slots, InsertInstance(s) \/ CountInstance(s) \/ InsertAssociation(s)
      PROVE  BoardInv'
  <2>1. Checked(req[s])' /\ Counts(req[s])' /\ Ordered'
    BY <1>1, <1>2, <1>6, InsertOrdered, CountOrdered, AssociationOrdered
  <2> QED
    BY <1>3, <2>1
<1>7. ASSUME NEW s \in Slots, RemoveAssociation(s) \/ PurgeCommit(s)
      PROVE  BoardInv'
  <2>1. req'[s] = Idle /\ Ordered'
    BY <1>1, <1>7, EndGoes, RemovalOrdered, PurgeOrdered
  <2>2. Checked(req[s])' /\ Counts(req[s])'
    BY <2>1, IdleCounts
  <2> QED
    BY <1>3, <2>1, <2>2
<1>8. CASE \/ \E m \in Masters : CreateMaster(m) \/ SoftDeleteMaster(m)
           \/ BulkSetStatus \/ Tick \/ UNCHANGED vars
  <2>1. Steady /\ UNCHANGED req
    BY <1>1, <1>8, OutsideSteady DEF CreateMaster, SoftDeleteMaster, BulkSetStatus, Tick, vars
  <2>2. \A s \in Slots : Checked(req[s])' /\ Counts(req[s])'
    BY <1>1, <1>2, <2>1, SteadyLocals
  <2>3. Ordered'
    BY <1>1, <2>1, SteadyOrdered
  <2> QED
    BY <1>1, <2>2, <2>3 DEF BoardInv, Ordered
<1>9. CASE Restart
  <2>1. Steady /\ ~NoRestart /\ \A s \in Slots : req'[s] = Idle
    BY <1>1, <1>9, OutsideSteady DEF Restart, NoRestart
  <2>2. \A s \in Slots : Checked(req[s])' /\ Counts(req[s])'
    BY <2>1, IdleCounts
  <2>3. AssociationRules'
    BY <1>1, <2>1, SteadyRules
  <2> QED
    BY <1>1, <2>1, <2>2, <2>3 DEF BoardInv
<1> QED
  BY <1>4, <1>5, <1>6, <1>7, <1>8, <1>9 DEF Next, Continue, NoPatch, PatchMaster

(* Hence BoardInv is an invariant.                                         *)
LEMMA Board ==
    ASSUME OneAtATime, NoPatch
    PROVE  Spec => []BoardInv
BY InitBoard, NextBoard, PTL DEF Spec

(* With one request at a time, the counter of a chore that one association *)
(* generates for is the number of its instances.                           *)
THEOREM CounterRight ==
    ASSUME OneAtATime, NoPatch, NoRestart
    PROVE  Spec => []CounterExact
<1>1. BoardInv => CounterExact
  BY DEF BoardInv, Tallies, CounterExact, TallyRight, Tally, Alone
<1> QED
  BY <1>1, Board, PTL

(* With one request at a time, such a chore is done no more often than its *)
(* limits allow (generate_instance_for_association checks the counter and  *)
(* writes it after the insert).                                            *)
THEOREM LimitKept ==
    ASSUME OneAtATime, NoPatch, NoRestart
    PROVE  Spec => []LimitRespected
<1>1. BoardInv => LimitRespected
  BY DEF BoardInv, Tallies
<1> QED
  BY <1>1, Board, PTL

-------------------------------------------------------------------------------
(* One open instance per association. *)

(* A step that makes no instance and reopens none. *)
Shuts ==
    \A i \in InstIds : insts'[i] # NoRow =>
        /\ insts[i] # NoRow
        /\ insts'[i].status \in Superseded => insts[i].status \in Superseded

(* The next instance is for no earlier a period than it was. *)
LEMMA PeriodGrows ==
    ASSUME InOrder, Base, Base', Lasts, NEW t \in Templates, ~t.once
    PROVE  /\ PeriodFor(t, day, tod) \in Dates
           /\ PeriodFor(t, day, tod)' \in Dates
           /\ PeriodFor(t, day, tod) <= PeriodFor(t, day, tod)'
<1>1. /\ day \in Days /\ day' \in Days /\ tod \in Tods /\ tod' \in Tods
      /\ day < day' \/ (day = day' /\ tod <= tod')
  BY DEF Lasts, TypeOK
<1>2. /\ t.after[day] \in Dates /\ t.after[day'] \in Dates /\ t.days \subseteq Dates
      /\ t.after[day] > day /\ t.after[day'] > day'
  BY <1>1, TemplateAssumption DEF Template
<1>3. day < day' => /\ t.after[day] <= t.after[day']
                    /\ day' \in t.days => t.after[day] <= day'
  BY <1>1 DEF InOrder
<1>4. RuleTime(t) \in Tods
  BY TemplateAssumption DEF Template, RuleTime, Tods
<1>5. /\ PeriodFor(t, day, tod) =
           IF day \in t.days /\ tod < RuleTime(t) THEN day ELSE t.after[day]
      /\ PeriodFor(t, day, tod)' =
           IF day' \in t.days /\ tod' < RuleTime(t) THEN day' ELSE t.after[day']
  BY DEF PeriodFor, NextOccurrence
<1> QED
  BY <1>1, <1>2, <1>3, <1>4, <1>5, BoundsAssumption DEF Days, Dates, Tods

(* Such a step leaves fewer instances open.                                *)
LEMMA ShutSets ==
    ASSUME Shuts, NEW a \in AssocIds
    PROVE  StillOpen(a)' \subseteq StillOpen(a) /\ (Unmade(a) => Unmade(a)')
BY DEF Shuts, StillOpen, Unmade, Having, OfAssociation, InstIds

(* Putting instances away, and calling missed or overdue what was open. *)
LEMMA SettingShuts ==
    ASSUME Base, NEW ids \in SUBSET InstIds, ~Vanished(ids), NEW x, SetStatuses(ids, x),
           x \in Superseded => \A i \in ids : insts[i].status \in Superseded
    PROVE  Shuts
<1> SUFFICES ASSUME NEW i \in InstIds, insts'[i] # NoRow
             PROVE  /\ insts[i] # NoRow
                    /\ insts'[i].status \in Superseded => insts[i].status \in Superseded
  BY DEF Shuts
<1>1. insts'[i] = IF i \in ids THEN [insts[i] EXCEPT !.status = x] ELSE insts[i]
  BY DEF SetStatuses
<1>2. CASE i \in ids
  <2>1. insts[i] # NoRow /\ insts[i] \in InstRow
    BY <1>2 DEF Vanished, TypeOK
  <2>2. insts'[i].status = x
    BY <1>1, <1>2, <2>1 DEF InstRow
  <2> QED
    BY <1>2, <2>1, <2>2
<1> QED
  BY <1>1, <1>2

(* A completion, a claim, an assignment and a deletion reopen nothing. *)
LEMMA CommitShuts ==
    ASSUME OpenInv, NEW s \in Slots, CommitRow(s)
    PROVE  Shuts
<1>1. Base /\ req[s].upd.status \in {Keep, "completed", "archived"}
  BY DEF OpenInv, UseInv, Follows
<1> DEFINE j == req[s].inst
<1>2. j \in InstIds /\ insts[j] # NoRow /\ insts' = [insts EXCEPT ![j] = Merged(s)]
  BY <1>1, CommitGoes
<1>3. Merged(s).status \in {"completed", "archived", insts[j].status}
  BY <1>1 DEF Merged, Written, Column
<1>4. insts \in [InstIds -> InstRow \cup {NoRow}]
  BY <1>1 DEF TypeOK
<1> HIDE DEF j
<1> QED
  BY <1>2, <1>3, <1>4 DEF Shuts, Superseded

(* Only the insert makes an instance. *)
LEMMA OthersShut ==
    ASSUME OpenInv, NEW s \in Slots, Continue(s), ~InsertInstance(s)
    PROVE  Shuts
<1>1. Base /\ UpToDate(req[s]) /\ req[s] \in Request
  BY DEF OpenInv, UseInv, TypeOK
<1>2. UNCHANGED insts => Shuts
  BY DEF Shuts
<1>3. CASE CommitRow(s)
  BY <1>3, CommitShuts
<1>4. CASE ArchiveOld(s) \/ ReleaseInstances(s)
  <2>1. ~Vanished(req[s].todo) /\ SetStatuses(req[s].todo, "archived")
    BY <1>1, <1>4, ArchiveGoes
  <2> QED
    BY <1>1, <2>1, SettingShuts DEF Request, Superseded
<1>5. ASSUME NEW x, MarkOne(s, x),
             x \in Superseded => \A i \in req[s].todo :
                                    insts[i] # NoRow => insts[i].status \in Superseded
      PROVE  Shuts
  <2>1. PICK i \in req[s].todo : i \in InstIds /\ insts[i] # NoRow /\ SetStatuses({i}, x)
    BY <1>1, <1>5, MarkGoes
  <2> QED
    BY <1>1, <1>5, <2>1, SettingShuts DEF Vanished
<1>6. CASE MarkMissed(s) \/ MarkOverdue(s) \/ CascadeArchive(s)
  <2>1. CASE CascadeArchive(s)
    BY <2>1, <1>5 DEF CascadeArchive, Superseded
  <2>2. CASE MarkMissed(s)
    BY <1>1, <2>2, <1>5 DEF MarkMissed, At, UpToDate
  <2>3. CASE MarkOverdue(s)
    BY <1>1, <2>3, <1>5 DEF MarkOverdue, At, UpToDate
  <2> QED
    BY <1>6, <2>1, <2>2, <2>3
<1>7. CASE PurgeCommit(s)
  BY <1>7 DEF PurgeCommit, Shuts
<1>8. CASE LoadRow(s) \/ LookupMaster(s) \/ PlanInstance(s) \/ CountInstance(s)
  <2>1. UNCHANGED insts
    BY <1>8 DEF LoadRow, LookupMaster, PlanInstance, CountInstance, tables
  <2> QED
    BY <1>2, <2>1
<1>9. CASE \/ InsertAssociation(s) \/ RemoveAssociation(s) \/ ListOverdue(s) \/ BulkCommit(s)
           \/ ListAssociations(s) \/ NextAssociation(s) \/ GuardMaster(s) \/ Abort(s)
  <2>1. CASE RemoveAssociation(s) \/ BulkCommit(s) \/ Abort(s)
    BY <1>2, <2>1 DEF RemoveAssociation, BulkCommit, Abort, tables
  <2>2. CASE ListOverdue(s) \/ ListAssociations(s)
    BY <1>2, <2>2 DEF ListOverdue, ListAssociations, tables
  <2>3. CASE InsertAssociation(s) \/ NextAssociation(s) \/ GuardMaster(s)
    <3>1. UNCHANGED insts
      BY <1>1, <2>3, AssociateGoes, NextGoes, GuardGoes DEF tables
    <3> QED
      BY <1>2, <3>1
  <2> QED
    BY <1>9, <2>1, <2>2, <2>3
<1> QED
  BY <1>3, <1>4, <1>6, <1>7, <1>8, <1>9 DEF Continue

(* The lateness of every master's instances survives a step that makes     *)
(* none, as long as nobody forgets to count.                               *)
LEMMA StaysTimely ==
    ASSUME OpenInv, InOrder, Base', Lasts, Shuts,
           \A m \in Masters :
              /\ Exists(masters[m]) /\ Exists(masters'[m]) /\ masters[m].tmpl.once
              /\ masters'[m].occ = 0
              => /\ masters[m].occ = 0
                 /\ \A t \in Slots : At(t, "count") /\ req[t].master = m => req'[t] = req[t],
           NEW m \in Masters, Exists(masters'[m])
    PROVE  Timely(m)'
<1>1. Base
  BY DEF OpenInv, UseInv
<1>2. \A i \in InstIds : insts'[i] # NoRow /\ assocs'[i[1]].master = m =>
         /\ i \in InstancesOf(m) /\ Exists(masters[m]) /\ i[2] \in Dates
  <2> SUFFICES ASSUME NEW i \in InstIds, insts'[i] # NoRow, assocs'[i[1]].master = m
               PROVE  i \in InstancesOf(m) /\ Exists(masters[m]) /\ i[2] \in Dates
    OBVIOUS
  <2>1. i[1] \in AssocIds /\ i[2] \in Dates
    BY DEF InstIds
  <2>2. insts[i] # NoRow /\ Exists(assocs[i[1]]) /\ Exists(assocs'[i[1]])
    BY <1>1 DEF Shuts, Linked
  <2>3. assocs[i[1]].master = m
    BY <2>1, <2>2 DEF Lasts
  <2> QED
    BY <1>1, <2>1, <2>2, <2>3 DEF Linked, InstancesOf
<1>3. ASSUME NEW i \in InstIds, insts'[i] # NoRow, assocs'[i[1]].master = m
      PROVE  /\ ~masters'[m].tmpl.once => i[2] <= PeriodFor(masters'[m].tmpl, day', tod')
             /\ masters'[m].tmpl.once /\ masters'[m].occ = 0 =>
                   \E s \in Slots : req'[s].at = "count" /\ req'[s].master = m
  <2>1. i \in InstancesOf(m) /\ Exists(masters[m]) /\ i[2] \in Dates
    BY <1>2, <1>3
  <2>2. Timely(m) /\ masters'[m].tmpl = masters[m].tmpl
    BY <2>1 DEF OpenInv, Lasts
  <2>3. ASSUME ~masters'[m].tmpl.once
        PROVE  i[2] <= PeriodFor(masters'[m].tmpl, day', tod')
    <3> DEFINE t == masters[m].tmpl
    <3>1. t \in Templates /\ ~t.once
      BY <1>1, <2>1, <2>2, <2>3, RowsTyped DEF MasterRow
    <3>2. i[2] <= PeriodFor(t, day, tod)
      BY <2>1, <2>2, <3>1 DEF Timely
    <3>3. /\ PeriodFor(t, day, tod) \in Dates /\ PeriodFor(t, day', tod') \in Dates
          /\ PeriodFor(t, day, tod) <= PeriodFor(t, day', tod')
      <4> HIDE DEF t
      <4> QED
        BY <1>1, <3>1, PeriodGrows
    <3>4. PeriodFor(masters'[m].tmpl, day', tod') = PeriodFor(t, day', tod')
      BY <2>2
    <3> HIDE DEF t
    <3> QED
      BY <2>1, <3>2, <3>3, <3>4, BoundsAssumption DEF Dates
  <2>4. ASSUME masters'[m].tmpl.once, masters'[m].occ = 0
        PROVE  \E s \in Slots : req'[s].at = "count" /\ req'[s].master = m
    <3>1. masters[m].tmpl.once /\ masters[m].occ = 0
      BY <2>1, <2>2, <2>4
    <3>2. \E s \in Slots : At(s, "count") /\ req[s].master = m
      BY <2>1, <2>2, <3>1 DEF Timely
    <3> QED
      BY <2>1, <2>4, <3>1, <3>2 DEF At
  <2> QED
    BY <2>3, <2>4
<1> QED
  BY <1>3 DEF Timely, InstancesOf, At

(* What a handler has planned still follows when nothing was made. *)
LEMMA StaysFollowing ==
    ASSUME InOrder, Base, Base', Lasts, Shuts, UNCHANGED assocs, NEW r \in Request, LocalsOK(r),
           Counts(r), Follows(r)
    PROVE  Follows(r)'
<1>1. r.at \in {"archive", "insert"} =>
         /\ insts'[r.inst] = NoRow
         /\ ~r.copy[r.master].tmpl.once =>
               r.inst[2] <= PeriodFor(r.copy[r.master].tmpl, day', tod')
  <2> SUFFICES ASSUME r.at \in {"archive", "insert"}
               PROVE  /\ insts'[r.inst] = NoRow
                      /\ ~r.copy[r.master].tmpl.once =>
                            r.inst[2] <= PeriodFor(r.copy[r.master].tmpl, day', tod')
    OBVIOUS
  <2> DEFINE t == r.copy[r.master].tmpl
  <2>1. r.inst \in InstIds /\ r.inst[2] \in Dates /\ t \in Templates
    BY DEF LocalsOK, InstIds, MasterRow
  <2>2. insts'[r.inst] = NoRow
    BY <2>1 DEF Follows, Shuts
  <2>3. ~t.once => r.inst[2] <= PeriodFor(t, day, tod)
    BY DEF Follows
  <2>4. ~t.once => /\ PeriodFor(t, day, tod) \in Dates /\ PeriodFor(t, day', tod') \in Dates
                   /\ PeriodFor(t, day, tod) <= PeriodFor(t, day', tod')
    <3> HIDE DEF t
    <3> QED
      BY <2>1, PeriodGrows
  <2> HIDE DEF t
  <2>5. ~t.once => r.inst[2] <= PeriodFor(t, day', tod')
    BY <2>1, <2>3, <2>4, BoundsAssumption DEF Dates
  <2> QED
    BY <2>2, <2>5 DEF t
<1>2. r.at = "archive" => StillOpen(r.assoc)' \subseteq r.todo
  BY ShutSets DEF Follows, LocalsOK
<1>3. r.at = "insert" => StillOpen(r.assoc)' = {}
  BY ShutSets DEF Follows, LocalsOK
<1>4. ASSUME NEW m \in Masters, r.copy[m] # Keep /\ r.copy[m].tmpl.once /\ r.copy[m].occ = 0
      PROVE  /\ r.at \in {"gen", "archive", "insert"} /\ r.master = m => Unmade(r.assoc)'
             /\ Looping(r) => \A a \in r.queue \ {r.assoc} :
                   assocs'[a].master = m => Unmade(a)'
  <2>1. /\ r.at \in {"gen", "archive", "insert"} /\ r.master = m => Unmade(r.assoc)
        /\ Looping(r) => \A a \in r.queue \ {r.assoc} :
              assocs[a].master = m => Unmade(a)
    BY <1>4 DEF Follows
  <2>2. r.at \in {"gen", "archive", "insert"} => r.assoc \in AssocIds
    BY DEF LocalsOK
  <2>3. r.queue \subseteq AssocIds
    BY DEF Request
  <2> QED
    BY <2>1, <2>2, <2>3, ShutSets
<1> QED
  BY <1>1, <1>2, <1>3, <1>4 DEF Follows

(* A handler that has read no master has planned nothing. *)
LEMMA NothingPlanned ==
    ASSUME NEW r, r.copy = Idle.copy, r.at \notin {"archive", "insert"},
           r.upd.status \in {Keep, "completed", "archived"}
    PROVE  Follows(r) /\ Follows(r)'
<1>1. \A m \in Masters : r.copy[m] = Keep
  BY DEF Idle
<1> QED
  BY <1>1 DEF Follows

(* A handler at rest has planned nothing.                                  *)
LEMMA IdleFollows == Follows(Idle) /\ Follows(Idle)'
<1>1. Idle.copy = Idle.copy /\ Idle.at = "idle" /\ Idle.upd.status = Keep
  BY DEF Idle, NoUpdate
<1> QED
  BY <1>1, NothingPlanned

(* Nor has a request that begins.                                          *)
LEMMA ArriveFollows ==
    ASSUME NoReopen, OpenInv, NEW s \in Slots, Arrive(s), NEW r \in Request, req'[s] = r
    PROVE  Follows(r)
<1>1. Base
  BY DEF OpenInv, UseInv
<1>2. /\ \A u : ClaimUpdate(u).status = Keep
      /\ \A u, by : AssignUpdate(u, by).status = Keep
      /\ StatusUpdate("completed").status = "completed"
      /\ SetStatus("archived").status = "archived"
      /\ NoUpdate.status = Keep
  BY DEF ClaimUpdate, AssignUpdate, StatusUpdate, SetStatus, NoUpdate
<1>3. Updating(s) \/ Associating(s) \/ Opening(s)
  BY <1>1, ArriveGoes
<1>4. CASE Updating(s)
  <2>1. r.op \notin {"revert", "reset", "status"}
    BY <1>4 DEF Updating, NoReopen
  <2>2. r.upd.status \in {Keep, "completed", "archived"}
    BY <1>2, <1>4, <2>1 DEF Updating
  <2> QED
    BY <1>4, <2>2, NothingPlanned DEF Updating
<1>5. CASE Associating(s)
  <2>1. r.upd.status = Keep
    BY <1>2, <1>5 DEF Associating, AutoUpdates
  <2> QED
    BY <1>5, <2>1 DEF Associating, Follows, Looping
<1>6. CASE Opening(s)
  BY <1>2, <1>6, NothingPlanned DEF Opening
<1> QED
  BY <1>3, <1>4, <1>5, <1>6

(* Nor has a generation that is over, save for the associations a sync has *)
(* still to visit.                                                         *)
LEMMA ResumeFollows ==
    ASSUME OpenInv, NEW s \in Slots, NEW i, Resumed(s, i), NEW r \in Request, req'[s] = r
    PROVE  Follows(r)
<1>1. Follows(req[s]) /\ None \notin AssocIds /\ req[s] \in Request
  BY SentinelAssumption DEF OpenInv, UseInv, TypeOK
<1>2. CASE r = Idle
  BY <1>2, IdleFollows
<1>3. CASE Pursues(s) /\ req[s].op = "create_assoc" /\ r.at = "load" /\ r.copy = Idle.copy
  <2>1. r.upd.status \in {Keep, "completed", "archived"}
    BY <1>1, <1>3 DEF Pursues, Follows
  <2> QED
    BY <1>3, <2>1, NothingPlanned
<1>4. CASE /\ Pursues(s) /\ req[s].op = "sync" /\ r.at = "next" /\ r.queue = Remaining(s)
           /\ r.assoc = None /\ r.copy = req[s].copy
  <2>1. r.upd = req[s].upd /\ r.op = req[s].op
    BY <1>4 DEF Pursues
  <2>2. r.queue \ {r.assoc} \subseteq req[s].queue \ {req[s].assoc}
    BY <1>4 DEF Remaining
  <2> QED
    BY <1>1, <1>4, <2>1, <2>2 DEF Follows, Looping
<1> QED
  BY <1>2, <1>3, <1>4 DEF Resumed

(* A step that keeps the copies plans no more than was planned. *)
LEMMA RetainFollows ==
    ASSUME OpenInv, NEW s \in Slots, Retains(s), NEW r \in Request, req'[s] = r,
           r.at \notin {"gen", "archive", "insert", "next"}
    PROVE  Follows(r)
<1>1. Follows(req[s])
  BY DEF OpenInv
<1> QED
  BY <1>1 DEF Follows, Retains, Pursues, Looping

(* A one-time chore read with its counter at zero has no instance, unless  *)
(* somebody is about to count.                                             *)
LEMMA NothingMade ==
    ASSUME OneAtATime, OpenInv, NEW s \in Slots, req[s].at # "count",
           NEW m \in Masters, Exists(masters[m]), masters[m].tmpl.once, masters[m].occ = 0,
           NEW a \in AssocIds, Exists(assocs[a]) => assocs[a].master = m
    PROVE  Unmade(a)
<1>1. Base /\ Timely(m)
  BY DEF OpenInv, UseInv
<1>2. InstancesOf(m) = {}
  BY <1>1 DEF Timely, OneAtATime, At
<1> SUFFICES ASSUME NEW i \in OfAssociation(a), insts[i] # NoRow PROVE FALSE
  BY DEF Unmade
<1>3. i \in InstIds /\ i[1] = a
  BY DEF OfAssociation, InstIds
<1> QED
  BY <1>1, <1>2, <1>3 DEF Linked, InstancesOf

(* A completion is about to plan for a one-time chore only if it was never *)
(* made.                                                                   *)
LEMMA LookupFollows ==
    ASSUME OneAtATime, OpenInv, NEW s \in Slots, LookupMaster(s), NEW r \in Request, req'[s] = r
    PROVE  Follows(r)
<1>1. Base /\ Follows(req[s]) /\ Marks(req[s]) /\ req[s] \in Request
  BY DEF OpenInv, UseInv, BoardInv, MarksInv, TypeOK
<1>2. CASE r = Idle
  BY <1>2, IdleFollows
<1> DEFINE b == req[s].assoc
           M == r.master
<1>3. CASE /\ req[s].at = "lookup" /\ Pursues(s) /\ r.at = "gen" /\ r.assoc = b
           /\ Exists(assocs[b]) /\ b \in AssocIds /\ M = assocs[b].master
           /\ r.copy = [req[s].copy EXCEPT ![M] = masters[M]]
  <2>1. ~Looping(r) /\ r.upd.status \in {Keep, "completed", "archived"}
    BY <1>1, <1>3 DEF Marks, Pursues, Follows, Looping
  <2>2. M \in Masters /\ Exists(masters[M])
    BY <1>1, <1>3, RowsTyped DEF AssocRow, Linked
  <2>3. r.copy[M] = masters[M]
    BY <1>1, <1>3, <2>2 DEF Request
  <2>4. masters[M].tmpl.once /\ masters[M].occ = 0 => Unmade(b)
    BY <1>3, <2>2, NothingMade
  <2> HIDE DEF b
  <2> QED
    BY <1>3, <2>1, <2>3, <2>4 DEF Follows
<1> QED
  BY <1>1, <1>2, <1>3, LookupGoes

(* What a handler plans: the instances it will archive are all that are    *)
(* open, since none is for a later period than the one it plans.           *)
LEMMA PlanFollows ==
    ASSUME OneAtATime, OpenInv, NEW s \in Slots, PlanInstance(s), NEW r \in Request, req'[s] = r
    PROVE  Follows(r)
<1>1. /\ Base /\ CountInv /\ Follows(req[s]) /\ Counts(req[s]) /\ req[s] \in Request
      /\ LocalsOK(req[s])
  BY DEF OpenInv, UseInv, BoardInv, MarksInv, TypeOK, Locals
<1> DEFINE t == Held(s).tmpl
           p == PeriodFor(t, day, tod)
           b == req[s].assoc
           M == req[s].master
<1>2. /\ req[s].at = "gen"
      /\ \/ Resumed(s, None) \/ Resumed(s, <<b, p>>)
         \/ /\ GenerationDue(Held(s), p) /\ Retains(s) /\ r.inst = <<b, p>> /\ insts[r.inst] = NoRow
            /\ IF t.once THEN r.at = "insert" /\ r.todo = {}
               ELSE r.at = "archive" /\ r.todo = OldInstances(b, p)
  BY <1>1, PlanGoes
<1>3. CASE Resumed(s, None) \/ Resumed(s, <<b, p>>)
  <2> HIDE DEF p, b
  <2> QED
    BY <1>3, ResumeFollows
<1>4. CASE /\ GenerationDue(Held(s), p) /\ Retains(s) /\ r.inst = <<b, p>> /\ insts[r.inst] = NoRow
           /\ IF t.once THEN r.at = "insert" /\ r.todo = {}
              ELSE r.at = "archive" /\ r.todo = OldInstances(b, p)
  <2>1. /\ M \in Masters /\ b \in AssocIds /\ req[s].copy[M] \in MasterRow /\ b = r.assoc
        /\ M = r.master /\ r.copy = req[s].copy /\ r.op = req[s].op /\ r.upd = req[s].upd
        /\ r.queue = req[s].queue
    BY <1>1, <1>2, <1>4 DEF LocalsOK, Retains, Pursues
  <2>2. t = r.copy[M].tmpl /\ req[s].copy[M] # Keep
    BY <2>1, SentinelAssumption DEF Held
  <2>3. Exists(masters[M]) /\ masters[M].tmpl = t
    BY <1>1, <2>1, <2>2 DEF Counts
  <2>4. BelongsTo(b, M, assocs)
    BY <1>1, <1>2 DEF Attached, Attaches
  <2>5. p \in Int \/ t.once
    <3>1. day \in Days
      BY <1>1 DEF TypeOK
    <3>2. t \in Templates
      BY <2>1, <2>2 DEF MasterRow
    <3>3. t.after[day] \in Dates
      BY <3>1, <3>2, TemplateAssumption DEF Template
    <3>4. t.once \/ p \in {day, t.after[day]}
      BY DEF PeriodFor, NextOccurrence
    <3> QED
      BY <3>1, <3>3, <3>4, BoundsAssumption DEF Days, Dates
  <2>6. ~t.once => /\ r.inst[2] = p
                   /\ \A i \in OfAssociation(b) : insts[i] # NoRow => i[2] <= p /\ i[2] # p
    <3> SUFFICES ASSUME ~t.once, NEW i \in OfAssociation(b), insts[i] # NoRow
                 PROVE  i[2] <= p /\ i[2] # p
      BY <1>4
    <3>1. i \in InstIds /\ i[1] = b /\ i = <<b, i[2]>>
      BY <2>1 DEF OfAssociation, InstIds
    <3>2. assocs[b].master = M
      BY <1>1, <2>4, <3>1 DEF BelongsTo, Linked
    <3>3. Timely(M)
      BY <2>1, <2>3 DEF OpenInv
    <3>4. i \in InstancesOf(M)
      BY <3>1, <3>2 DEF InstancesOf
    <3>5. i[2] <= PeriodFor(masters[M].tmpl, day, tod)
      BY <2>3, <3>3, <3>4 DEF Timely
    <3>6. i[2] # p
      BY <1>4, <3>1
    <3> QED
      BY <2>3, <3>5, <3>6
  <2>7. ~t.once => StillOpen(b) \subseteq r.todo
    <3> SUFFICES ASSUME ~t.once, NEW i \in StillOpen(b)
                 PROVE  i \in OldInstances(b, p)
      BY <1>4
    <3>1. i \in OfAssociation(b) /\ insts[i] # NoRow
      BY DEF StillOpen, Having
    <3>2. i[2] < p
      <4>1. i[2] <= p /\ i[2] # p
        BY <2>6, <3>1
      <4>2. i[2] \in Int
        BY <3>1, BoundsAssumption DEF OfAssociation, Dates
      <4> HIDE DEF p, t
      <4> QED
        BY <2>5, <4>1, <4>2
    <3> QED
      BY <3>2 DEF StillOpen, OldInstances
  <2>8. \A m \in Masters : r.copy[m] # Keep /\ r.copy[m].tmpl.once /\ r.copy[m].occ = 0 =>
          /\ M = m => Unmade(b)
          /\ Looping(r) => \A a \in r.queue \ {b} : assocs[a].master = m => Unmade(a)
    BY <1>1, <1>2, <1>4, <2>1 DEF Follows, Looping
  <2>9. t.once => StillOpen(b) = {}
    <3> SUFFICES ASSUME t.once PROVE StillOpen(b) = {}
      OBVIOUS
    <3>1. r.copy[M].occ = 0
      BY <1>4, <2>1, <2>2 DEF GenerationDue, Held, MasterRow
    <3>2. Unmade(b)
      BY <2>1, <2>2, <2>8, <3>1
    <3> QED
      BY <3>2 DEF Unmade, StillOpen, Having
  <2>10. r.upd.status \in {Keep, "completed", "archived"}
    BY <1>1, <2>1 DEF Follows
  <2>11. ~t.once => r.inst[2] <= PeriodFor(t, day, tod)
    <3>1. ~t.once => r.inst[2] = p /\ p \in Int
      BY <2>6, <2>5
    <3>2. p = PeriodFor(t, day, tod)
      OBVIOUS
    <3> HIDE DEF p, t
    <3> QED
      BY <3>1, <3>2
  <2>12. /\ insts[r.inst] = NoRow /\ r.at \in {"archive", "insert"}
         /\ r.at = "archive" => ~t.once
         /\ r.at = "insert" => t.once
    BY <1>4
  <2> HIDE DEF t, p, b
  <2> QED
    BY <2>1, <2>2, <2>7, <2>8, <2>9, <2>10, <2>11, <2>12 DEF Follows
<1> QED
  BY <1>2, <1>3, <1>4

(* So is a sync, for each association it has still to visit.               *)
LEMMA NextFollows ==
    ASSUME OneAtATime, OpenInv, NEW s \in Slots, NextAssociation(s),
           NEW r \in Request, req'[s] = r
    PROVE  Follows(r)
<1>1. /\ Base /\ Follows(req[s]) /\ Counts(req[s]) /\ Marks(req[s]) /\ req[s] \in Request
      /\ None \notin AssocIds
  BY SentinelAssumption DEF OpenInv, UseInv, BoardInv, MarksInv, TypeOK
<1>2. req[s].at = "next"
  BY <1>1, NextGoes
<1>3. PICK a \in req[s].queue : \E m, c :
                 /\ a \in AssocIds /\ m = assocs[a].master
                 /\ c = (IF req[s].copy[m] = Keep THEN masters[m] ELSE req[s].copy[m])
                 /\ \/ /\ Exists(assocs[a]) /\ Pursues(s) /\ req'[s].at = "gen"
                       /\ req'[s].assoc = a /\ req'[s].master = m
                       /\ req'[s].todo = req[s].todo /\ req'[s].queue = req[s].queue
                       /\ req'[s].copy = [req[s].copy EXCEPT ![m] = c]
                    \/ req'[s] = Idle
                    \/ /\ Pursues(s) /\ req'[s].at = "next"
                       /\ req'[s].assoc = req[s].assoc /\ req'[s].todo = req[s].todo
                       /\ req'[s].queue = req[s].queue \ {a}
                       /\ req'[s].copy = IF Exists(assocs[a])
                                         THEN [req[s].copy EXCEPT ![m] = c] ELSE req[s].copy
  BY <1>1, NextGoes
<1> DEFINE M == assocs[a].master
           c == IF req[s].copy[M] = Keep THEN masters[M] ELSE req[s].copy[M]
<1>4. \/ r = Idle
      \/ /\ Pursues(s) /\ r.at = "gen" /\ r.assoc = a /\ r.master = M /\ r.queue = req[s].queue
         /\ r.copy = [req[s].copy EXCEPT ![M] = c]
      \/ /\ Pursues(s) /\ r.at = "next" /\ r.assoc = req[s].assoc
         /\ r.queue = req[s].queue \ {a} /\ r.copy = [req[s].copy EXCEPT ![M] = c]
      \/ ~Exists(assocs[a])
  BY <1>3
<1>5. a \in AssocIds /\ req[s].queue \subseteq AssocIds /\ req[s].copy \in [Masters -> Copy]
  BY <1>1, <1>3 DEF Request
<1>6. CASE r = Idle
  BY <1>6, IdleFollows
<1>7. CASE r # Idle
  <2>1. /\ req[s].assoc = None
        /\ \A b \in req[s].queue : Exists(assocs[b]) /\ ~assocs[b].removed
    BY <1>1, <1>2, <1>5, <1>7 DEF Counts, Visits
  <2>2. /\ Pursues(s) /\ r.copy = [req[s].copy EXCEPT ![M] = c]
        /\ \/ r.at = "gen" /\ r.assoc = a /\ r.master = M /\ r.queue = req[s].queue
           \/ r.at = "next" /\ r.assoc = None /\ r.queue = req[s].queue \ {a}
    BY <1>4, <1>7, <2>1
  <2>3. M \in Masters /\ Exists(masters[M])
    BY <1>1, <1>5, <2>1, RowsTyped DEF AssocRow, Linked
  <2>4. ASSUME NEW b \in req[s].queue, NEW m \in Masters, assocs[b].master = m,
               r.copy[m].tmpl.once, r.copy[m].occ = 0, r.copy[m] # Keep
        PROVE  Unmade(b)
    <3>1. CASE req[s].copy[m] = Keep
      <4>1. m = M /\ r.copy[m] = masters[m]
        BY <1>5, <2>2, <2>4, <3>1
      <4> QED
        BY <1>2, <1>5, <2>3, <2>4, <4>1, NothingMade
    <3>2. CASE req[s].copy[m] # Keep
      <4>1. r.copy[m] = req[s].copy[m]
        BY <1>5, <2>2, <2>3, <3>2
      <4>2. b \in req[s].queue \ {req[s].assoc}
        BY <1>1, <1>5, <2>1
      <4> QED
        BY <1>1, <1>2, <2>4, <3>2, <4>1, <4>2 DEF Follows, Looping
    <3> QED
      BY <3>1, <3>2
  <2>5. r.upd.status \in {Keep, "completed", "archived"}
    BY <1>1, <1>7, <2>2 DEF Pursues, Follows
  <2> HIDE DEF c
  <2> QED
    BY <1>3, <2>2, <2>4, <2>5 DEF Follows
<1> QED
  BY <1>6, <1>7

(* When the older instances are put away nothing of the association is     *)
(* open.                                                                   *)
LEMMA ArchiveFollows ==
    ASSUME OpenInv, NEW s \in Slots, ArchiveOld(s) \/ ReleaseInstances(s),
           NEW r \in Request, req'[s] = r
    PROVE  Follows(r)'
<1>1. /\ Base /\ Follows(req[s]) /\ req[s] \in Request /\ LocalsOK(req[s])
  BY DEF OpenInv, UseInv, TypeOK, Locals
<1>2. /\ ~Vanished(req[s].todo) /\ SetStatuses(req[s].todo, "archived")
      /\ Retains(s) /\ r.inst = req[s].inst
      /\ \/ req[s].at = "archive" /\ r.at = "insert"
         \/ req[s].at = "release" /\ r.at = "remove"
      /\ UNCHANGED <<masters, assocs, clock>>
  BY <1>1, ArchiveGoes
<1>3. Shuts
  BY <1>1, <1>2, SettingShuts DEF Request, Superseded
<1>4. /\ r.upd = req[s].upd /\ r.copy = req[s].copy /\ r.assoc = req[s].assoc
      /\ r.master = req[s].master /\ r.queue = req[s].queue /\ r.op = req[s].op
  BY <1>2 DEF Retains, Pursues
<1>5. ASSUME r.at = "insert"
      PROVE  /\ req[s].at = "archive" /\ r.inst \in InstIds /\ r.assoc \in AssocIds
             /\ StillOpen(r.assoc)' = {} /\ insts'[r.inst] = NoRow
  <2>1. req[s].at = "archive" /\ r.inst \in InstIds /\ r.assoc \in AssocIds
    BY <1>1, <1>2, <1>4, <1>5 DEF LocalsOK
  <2>2. insts'[r.inst] = NoRow
    BY <1>1, <1>2, <1>3, <2>1 DEF Follows, Shuts
  <2>3. StillOpen(r.assoc) \subseteq req[s].todo
    BY <1>1, <1>4, <2>1 DEF Follows
  <2>4. ASSUME NEW i \in StillOpen(r.assoc)' PROVE FALSE
    <3>1. i \in StillOpen(r.assoc) /\ i \in InstIds
      BY <1>3, <2>1, ShutSets DEF StillOpen, Having, OfAssociation, InstIds
    <3>2. insts[i] \in InstRow
      BY <1>1, <3>1, RowsTyped DEF StillOpen, Having
    <3>3. insts'[i] = [insts[i] EXCEPT !.status = "archived"]
      BY <1>2, <2>3, <3>1 DEF SetStatuses
    <3>4. insts'[i].status = "archived"
      BY <3>2, <3>3 DEF InstRow
    <3> QED
      BY <3>4 DEF StillOpen, Having, Superseded
  <2> QED
    BY <2>1, <2>2, <2>4
<1>6. \A m \in Masters : r.copy[m] # Keep /\ r.copy[m].tmpl.once /\ r.copy[m].occ = 0 =>
         /\ r.at = "insert" /\ r.master = m => Unmade(r.assoc)'
         /\ Looping(r) => \A a \in r.queue \ {r.assoc} :
               assocs'[a].master = m => Unmade(a)'
  <2> SUFFICES ASSUME NEW m \in Masters,
                      r.copy[m] # Keep /\ r.copy[m].tmpl.once /\ r.copy[m].occ = 0
               PROVE  /\ r.at = "insert" /\ r.master = m => Unmade(r.assoc)'
                      /\ Looping(r) => \A a \in r.queue \ {r.assoc} :
                            assocs'[a].master = m => Unmade(a)'
    OBVIOUS
  <2>1. /\ r.at = "insert" /\ r.master = m => Unmade(r.assoc)
        /\ Looping(r) => \A a \in r.queue \ {r.assoc} : assocs[a].master = m => Unmade(a)
    BY <1>1, <1>2, <1>4 DEF Follows, Looping
  <2>2. r.queue \subseteq AssocIds
    BY DEF Request
  <2> QED
    BY <1>2, <1>3, <1>5, <2>1, <2>2, ShutSets
<1>7. /\ r.upd.status \in {Keep, "completed", "archived"}
      /\ r.at = "insert" /\ ~r.copy[r.master].tmpl.once =>
            r.inst[2] <= PeriodFor(r.copy[r.master].tmpl, day', tod')
  BY <1>1, <1>2, <1>4 DEF Follows, clock
<1>8. r.at \in {"insert", "remove"}
  BY <1>2
<1> QED
  BY <1>5, <1>6, <1>7, <1>8 DEF Follows

(* The insert: the only open instance of its association, for the latest   *)
(* period there is.                                                        *)
LEMMA InsertOpens ==
    ASSUME OneAtATime, InOrder, OpenInv, Base', NEW s \in Slots, InsertInstance(s),
           NEW r \in Request, req'[s] = r
    PROVE  /\ Follows(r)'
           /\ \A m \in Masters : Exists(masters'[m]) => Timely(m)'
           /\ \A a \in AssocIds : \A i, j \in StillOpen(a)' : i = j
<1>1. /\ Base /\ CountInv /\ Follows(req[s]) /\ Counts(req[s]) /\ req[s] \in Request
      /\ LocalsOK(req[s]) /\ Lasts
  BY HandlersLast DEF OpenInv, UseInv, BoardInv, MarksInv, TypeOK, Locals, Continue
<1> DEFINE k == req[s].inst
           b == req[s].assoc
           M == req[s].master
           t == req[s].copy[M].tmpl
<1>2. /\ req[s].at = "insert" /\ UNCHANGED <<masters, assocs, clock>>
      /\ \/ Resumed(s, None) /\ UNCHANGED insts
         \/ /\ Retains(s) /\ r.at = "count" /\ k \in InstIds /\ insts[k] = NoRow
            /\ Exists(assocs[k[1]])
            /\ insts' = [insts EXCEPT ![k] = NewInstance(assocs[k[1]])]
  BY <1>1, InsertGoes
<1>3. UNCHANGED <<day, tod>>
  BY <1>2 DEF clock
<1>4. CASE Resumed(s, None) /\ UNCHANGED insts
  <2>1. Follows(r)
    BY <1>4, ResumeFollows
  <2>2. Follows(r)'
    BY <1>2, <1>3, <1>4, <2>1 DEF Follows, Unmade, StillOpen, Having
  <2>3. Shuts
    BY <1>4 DEF Shuts
  <2>4. \A m \in Masters : Exists(masters'[m]) => Timely(m)'
    BY <1>1, <1>2, <2>3, StaysTimely DEF OneAtATime, At
  <2>5. \A a \in AssocIds : \A i, j \in StillOpen(a)' : i = j
    BY <1>4 DEF OpenInv, StillOpen, Having
  <2> QED
    BY <2>2, <2>4, <2>5
<1>5. CASE /\ Retains(s) /\ r.at = "count" /\ k \in InstIds /\ insts[k] = NoRow
           /\ Exists(assocs[k[1]])
           /\ insts' = [insts EXCEPT ![k] = NewInstance(assocs[k[1]])]
  <2>1. /\ M \in Masters /\ b \in AssocIds /\ k[1] = b /\ k[2] \in Dates
        /\ req[s].copy[M] \in MasterRow
        /\ req[s].copy[M] # Keep /\ r.master = M /\ r.assoc = b /\ r.copy = req[s].copy
        /\ r.upd = req[s].upd /\ r.queue = req[s].queue /\ r.op = req[s].op
    BY <1>1, <1>2, <1>5, SentinelAssumption DEF LocalsOK, Retains, Pursues, InstIds
  <2>2. assocs[b].master = M /\ Exists(masters[M]) /\ masters[M].tmpl = t
    BY <1>1, <1>2, <1>5, <2>1 DEF Attached, Attaches, BelongsTo, Counts
  <2>3. \A i \in InstIds : i # k => insts'[i] = insts[i]
    BY <1>1, <1>5 DEF TypeOK
  <2>4. StillOpen(b) = {} /\ (~t.once => k[2] <= PeriodFor(t, day, tod))
    BY <1>1, <1>2, <2>1 DEF Follows
  <2>5. \A a \in AssocIds : \A i, j \in StillOpen(a)' : i = j
    <3> SUFFICES ASSUME NEW a \in AssocIds, NEW i \in StillOpen(a)', NEW j \in StillOpen(a)'
                 PROVE  i = j
      OBVIOUS
    <3>1. i \in InstIds /\ j \in InstIds /\ i[1] = a /\ j[1] = a
      BY DEF StillOpen, Having, OfAssociation, InstIds
    <3>2. (i = k \/ i \in StillOpen(a)) /\ (j = k \/ j \in StillOpen(a))
      BY <2>3, <3>1 DEF StillOpen, Having
    <3>3. i = k \/ j = k => a = b
      BY <2>1, <3>1
    <3>4. i \in StillOpen(a) /\ j \in StillOpen(a) => i = j
      BY DEF OpenInv
    <3> HIDE DEF b, k
    <3> QED
      BY <2>4, <3>2, <3>3, <3>4
  <2>6. ASSUME NEW m \in Masters, Exists(masters'[m]) PROVE Timely(m)'
    <3>1. Exists(masters[m]) /\ Timely(m) /\ masters'[m] = masters[m]
      BY <1>2, <2>6 DEF OpenInv
    <3>2. ASSUME NEW i \in InstIds, insts'[i] # NoRow, assocs'[i[1]].master = m
          PROVE  \/ i = k /\ m = M
                 \/ i \in InstancesOf(m)
      BY <1>2, <2>1, <2>2, <2>3, <3>2 DEF InstancesOf
    <3>3. ~masters[m].tmpl.once => \A i \in InstancesOf(m)' :
             i[2] <= PeriodFor(masters[m].tmpl, day, tod)
      <4> SUFFICES ASSUME ~masters[m].tmpl.once, NEW i \in InstancesOf(m)'
                   PROVE  i[2] <= PeriodFor(masters[m].tmpl, day, tod)
        OBVIOUS
      <4>1. \/ i = k /\ m = M
            \/ i \in InstancesOf(m)
        BY <3>2 DEF InstancesOf
      <4>2. CASE i = k /\ m = M
        BY <2>2, <2>4, <4>2
      <4>3. CASE i \in InstancesOf(m)
        BY <3>1, <4>3 DEF Timely
      <4> QED
        BY <4>1, <4>2, <4>3
    <3>4. masters[m].tmpl.once /\ masters[m].occ = 0 =>
             \A i \in InstancesOf(m)' : r.at = "count" /\ r.master = m
      <4> SUFFICES ASSUME masters[m].tmpl.once, masters[m].occ = 0, NEW i \in InstancesOf(m)'
                   PROVE  m = M
        BY <1>5, <2>1
      <4>1. ~\E q \in Slots : At(q, "count") /\ req[q].master = m
        BY <1>2 DEF OneAtATime, At
      <4>2. InstancesOf(m) = {}
        BY <3>1, <4>1 DEF Timely
      <4> QED
        BY <3>2, <4>2 DEF InstancesOf
    <3> QED
      BY <1>3, <3>1, <3>3, <3>4 DEF Timely, At
  <2>7. Follows(r)'
    <3>1. ASSUME NEW m \in Masters, r.copy[m] # Keep /\ r.copy[m].tmpl.once /\ r.copy[m].occ = 0,
                 Looping(r), NEW a \in r.queue \ {r.assoc}, assocs'[a].master = m
          PROVE  Unmade(a)'
      <4>1. Unmade(a)
        BY <1>1, <1>2, <1>5, <2>1, <3>1 DEF Follows, Looping
      <4>2. a \in AssocIds /\ a # b
        BY <2>1, <3>1 DEF Request
      <4>3. \A i \in OfAssociation(a) : i \in InstIds /\ i # k
        BY <2>1, <4>2 DEF OfAssociation, InstIds
      <4> QED
        BY <2>3, <4>1, <4>3 DEF Unmade
    <3>2. r.upd.status \in {Keep, "completed", "archived"}
      BY <1>1, <2>1 DEF Follows
    <3> QED
      BY <1>5, <3>1, <3>2 DEF Follows
  <2> QED
    BY <2>5, <2>6, <2>7
<1> QED
  BY <1>2, <1>4, <1>5

(* A new association has no instance. *)
LEMMA AssociateFollows ==
    ASSUME OpenInv, NEW s \in Slots, InsertAssociation(s), NEW r \in Request, req'[s] = r
    PROVE  Follows(r)'
<1>1. /\ Base /\ Follows(req[s]) /\ Marks(req[s])
  BY DEF OpenInv, UseInv, BoardInv, MarksInv
<1>2. /\ req[s].at = "insert_assoc" /\ UNCHANGED <<masters, insts, clock>>
      /\ Pursues(s) /\ r.at = "gen" /\ r.assoc \in AssocIds /\ assocs[r.assoc] = NoRow
  BY <1>1, AssociateGoes
<1>3. ~Looping(r) /\ r.upd.status \in {Keep, "completed", "archived"}
  BY <1>1, <1>2 DEF Marks, Pursues, Looping, Follows
<1>4. Unmade(r.assoc)'
  <2> SUFFICES ASSUME NEW i \in OfAssociation(r.assoc) PROVE insts'[i] = NoRow
    BY DEF Unmade
  <2>1. i \in InstIds /\ i[1] = r.assoc
    BY <1>2 DEF OfAssociation, InstIds
  <2> QED
    BY <1>1, <1>2, <2>1 DEF Linked, Exists
<1> QED
  BY <1>2, <1>3, <1>4 DEF Follows

(* What was planned depends on the instances, the associations and the     *)
(* clock.                                                                  *)
LEMMA SameFollows ==
    ASSUME NEW r, Follows(r), UNCHANGED <<insts, assocs, clock>>
    PROVE  Follows(r)'
BY DEF Follows, Unmade, StillOpen, Having, OfAssociation, clock

(* What a handler plans at each of its other steps. *)
LEMMA ContinueFollows ==
    ASSUME OneAtATime, NoReopen, InOrder, OpenInv, Base', NEW s \in Slots, Continue(s),
           ~InsertInstance(s), NEW r \in Request, req'[s] = r, LocalsOK(r)
    PROVE  Follows(r)'
<1>1. /\ Base /\ CountInv /\ Follows(req[s]) /\ Counts(req[s]) /\ BoardInv
      /\ Lasts /\ Shuts
  BY HandlersLast, OthersShut DEF OpenInv, UseInv, BoardInv, MarksInv
<1>2. CASE LoadRow(s)
  <2>1. Follows(r) /\ UNCHANGED <<insts, assocs, clock>>
    BY <1>1, <1>2, LoadGoes, RetainFollows DEF tables
  <2> QED
    BY <2>1, SameFollows
<1>3. CASE CommitRow(s)
  <2>1. CASE r = Idle
    BY <2>1, IdleFollows
  <2>2. CASE r.at = "lookup" /\ r.upd = NoUpdate /\ r.copy = Idle.copy
    BY <2>2, NothingPlanned DEF NoUpdate
  <2> QED
    BY <1>1, <1>3, <2>1, <2>2, CommitGoes
<1>4. CASE LookupMaster(s) \/ PlanInstance(s) \/ NextAssociation(s)
  <2>1. Follows(r)
    BY <1>4, LookupFollows, PlanFollows, NextFollows
  <2>2. CASE LookupMaster(s) \/ NextAssociation(s)
    BY <1>1, <2>1, <2>2, LookupGoes, NextGoes, SameFollows DEF tables
  <2>3. CASE PlanInstance(s)
    BY <2>1, <2>3, SameFollows DEF PlanInstance, tables
  <2> QED
    BY <1>4, <2>2, <2>3
<1>5. CASE ArchiveOld(s) \/ ReleaseInstances(s)
  BY <1>5, ArchiveFollows
<1>6. CASE CountInstance(s)
  <2>1. Resumed(s, req[s].inst) /\ UNCHANGED <<assocs, insts, clock>>
    BY <1>1, <1>6, CountGoes
  <2>2. Follows(r)
    BY <2>1, ResumeFollows
  <2> QED
    BY <2>1, <2>2, SameFollows
<1>7. CASE InsertAssociation(s)
  BY <1>7, AssociateFollows
<1>8. CASE ListOverdue(s) \/ GuardMaster(s)
  <2>1. Retains(s) /\ r.at \in {"overdue", "guard"} /\ UNCHANGED <<insts, assocs, clock>>
    BY <1>1, <1>8, ListOverdueGoes, GuardGoes DEF tables
  <2>2. Follows(r)
    BY <2>1, RetainFollows
  <2> QED
    BY <2>1, <2>2, SameFollows
<1>9. CASE MarkMissed(s) \/ MarkOverdue(s) \/ CascadeArchive(s)
  <2>1. /\ Retains(s) /\ r.at = req[s].at /\ UNCHANGED assocs
        /\ req[s].at \in {"expire", "overdue", "guard"}
    BY <1>1, <1>9, MarkGoes DEF MarkMissed, MarkOverdue, CascadeArchive, At
  <2>2. Follows(r)
    BY <2>1, RetainFollows
  <2>3. Counts(r)
    BY <1>1, <1>9, HandlerCounts
  <2> QED
    BY <1>1, <2>1, <2>2, <2>3, StaysFollowing
<1>10. CASE ListAssociations(s)
  <2>1. CASE r = Idle
    BY <2>1, IdleFollows
  <2>2. CASE Pursues(s) /\ r.at = "next" /\ r.copy = req[s].copy /\ req[s].at = "overdue"
    <3>1. r.copy = Idle.copy
      BY <1>1, <2>2 DEF Counts, Visits
    <3>2. r.upd.status \in {Keep, "completed", "archived"}
      BY <1>1, <2>2 DEF Follows, Pursues
    <3> QED
      BY <2>2, <3>1, <3>2, NothingPlanned
  <2> QED
    BY <1>1, <1>10, <2>1, <2>2, ListAssociationsGoes
<1>11. CASE RemoveAssociation(s) \/ BulkCommit(s) \/ PurgeCommit(s) \/ Abort(s)
  BY <1>1, <1>11, EndGoes, IdleFollows
<1> QED
  BY <1>2, <1>3, <1>4, <1>5, <1>6, <1>7, <1>8, <1>9, <1>10, <1>11 DEF Continue

(* Nobody forgets to count: a handler about to count does nothing else. *)
LEMMA CountsFirst ==
    ASSUME BoardInv, NEW s \in Slots, Continue(s), ~CountInstance(s)
    PROVE  req[s].at # "count"
<1>1. CASE Abort(s)
  <2>1. req[s].at = "count" => Exists(masters[req[s].master])
    BY CountingFinds
  <2> QED
    BY <1>1, <2>1 DEF Abort, Raises, At
<1>2. CASE ~Abort(s)
  <2>1. CASE \/ LoadRow(s) \/ CommitRow(s) \/ LookupMaster(s) \/ PlanInstance(s) \/ ArchiveOld(s)
             \/ ReleaseInstances(s) \/ RemoveAssociation(s) \/ InsertAssociation(s)
             \/ InsertInstance(s)
    BY <2>1 DEF LoadRow, CommitRow, LookupMaster, PlanInstance, ArchiveOld, ReleaseInstances,
       RemoveAssociation, InsertAssociation, InsertInstance, At
  <2>2. CASE \/ MarkMissed(s) \/ ListOverdue(s) \/ MarkOverdue(s) \/ ListAssociations(s)
             \/ NextAssociation(s) \/ GuardMaster(s) \/ CascadeArchive(s) \/ BulkCommit(s)
             \/ PurgeCommit(s)
    BY <2>2 DEF MarkMissed, ListOverdue, MarkOverdue, ListAssociations, NextAssociation,
       GuardMaster, CascadeArchive, BulkCommit, PurgeCommit, At
  <2> QED
    BY <1>2, <2>1, <2>2 DEF Continue
<1> QED
  BY <1>1, <1>2

(* No step of a handler but the count changes a counter. *)
LEMMA CountersStay ==
    ASSUME BoardInv, NEW s \in Slots, Continue(s), ~CountInstance(s),
           NEW m \in Masters, Exists(masters[m]), Exists(masters'[m])
    PROVE  masters'[m].occ = masters[m].occ
<1>1. Base
  BY DEF BoardInv, MarksInv
<1>2. CASE InsertInstance(s) \/ InsertAssociation(s) \/ RemoveAssociation(s)
  BY <1>1, <1>2, AssociateGoes DEF InsertInstance, RemoveAssociation
<1>3. CASE PurgeCommit(s)
  <2>1. masters' = [masters EXCEPT ![req[s].master] = Gone] /\ ~Exists(Gone)
    BY <1>3 DEF PurgeCommit, Exists
  <2> QED
    BY <1>1, <2>1 DEF TypeOK
<1>4. CASE ~(InsertInstance(s) \/ InsertAssociation(s) \/ RemoveAssociation(s) \/ PurgeCommit(s))
  <2>1. Steady
    BY <1>1, <1>4, HandlerSteady DEF Continue
  <2> QED
    BY <2>1 DEF Steady
<1> QED
  BY <1>2, <1>3, <1>4

(* Nothing is open at first.                                               *)
LEMMA InitOpen == Init => OpenInv
<1> SUFFICES ASSUME Init PROVE OpenInv
  OBVIOUS
<1>1. UseInv /\ BoardInv
  BY InitUses, InitBoard
<1>2. /\ \A s \in Slots : req[s] = Idle
      /\ \A m \in Masters : ~Exists(masters[m])
      /\ \A i \in InstIds : insts[i] = NoRow
  BY DEF Init, Exists
<1>3. \A a \in AssocIds : StillOpen(a) = {}
  BY <1>2 DEF StillOpen, Having, OfAssociation, InstIds
<1> QED
  BY <1>1, <1>2, <1>3, IdleFollows DEF OpenInv

(* Induction: no step opens a second instance of an association.           *)
LEMMA NextOpen ==
    ASSUME OneAtATime, NoPatch, NoRestart, NoReopen, InOrder
    PROVE  OpenInv /\ [Next]_vars => OpenInv'
<1> SUFFICES ASSUME OpenInv, [Next]_vars PROVE OpenInv'
  OBVIOUS
<1>1. Base /\ CountInv /\ BoardInv /\ UseInv
  BY DEF OpenInv, UseInv, BoardInv, MarksInv
<1>2. BoardInv' /\ UseInv' /\ Base' /\ Lasts
  BY <1>1, NextBoard, NextUses, EveryStepLasts DEF UseInv
<1>3. \A s \in Slots : /\ req[s] \in Request /\ LocalsOK(req[s])
                       /\ req'[s] \in Request /\ LocalsOK(req'[s])
                       /\ Counts(req[s]) /\ Follows(req[s])
  BY <1>1, <1>2 DEF OpenInv, BoardInv, TypeOK, Locals
<1>4. ASSUME Shuts PROVE \A a \in AssocIds : \A i, j \in StillOpen(a)' : i = j
  BY <1>4, ShutSets DEF OpenInv
<1>5. ASSUME NEW s \in Slots, Follows(req[s])',
             \A m \in Masters : Exists(masters'[m]) => Timely(m)',
             \A a \in AssocIds : \A i, j \in StillOpen(a)' : i = j
      PROVE  OpenInv'
  BY <1>2, <1>5 DEF OpenInv, OneAtATime
<1>6. ASSUME NEW s \in Slots, Arrive(s) PROVE OpenInv'
  <2> DEFINE r == req'[s]
  <2>1. UNCHANGED <<tables, clock>>
    BY <1>1, <1>6, ArriveGoes
  <2>2. Shuts
    BY <2>1 DEF Shuts, tables
  <2>3. Follows(req[s])'
    <3>1. \A q \in Request : req'[s] = q => Follows(q)
      BY <1>6, ArriveFollows
    <3>2. \A q \in Request : req'[s] = q => Follows(q)'
      BY <2>1, <3>1, SameFollows DEF tables
    <3> QED
      BY <1>3, <3>2
  <2>4. \A t \in Slots : ~At(t, "count")
    <3>1. req[s].at = "idle"
      BY <1>6 DEF Arrive, ClaimInstance, AssignInstance, RevertInstanceStatus, ResetInstance,
         UpdateInstanceStatus, DeleteInstance, CreateAssociation, DeleteAssociation, Sync,
         BulkArchive, PurgeMaster, BeginUpdate, Begin, At
    <3> QED
      BY <3>1 DEF OneAtATime, At
  <2>5. \A m \in Masters : Exists(masters'[m]) => Timely(m)'
    BY <1>2, <2>1, <2>2, <2>4, StaysTimely DEF tables
  <2> QED
    BY <1>4, <1>5, <2>2, <2>3, <2>5
<1>7. ASSUME NEW s \in Slots, Continue(s) PROVE OpenInv'
  <2>1. CASE InsertInstance(s)
    <3>1. \A q \in Request : req'[s] = q =>
             /\ Follows(q)'
             /\ \A m \in Masters : Exists(masters'[m]) => Timely(m)'
             /\ \A a \in AssocIds : \A i, j \in StillOpen(a)' : i = j
      BY <1>2, <2>1, InsertOpens
    <3> QED
      BY <1>3, <1>5, <3>1
  <2>2. CASE ~InsertInstance(s)
    <3>1. Shuts
      BY <1>7, <2>2, OthersShut
    <3>2. Follows(req[s])'
      <4>1. \A q \in Request : req'[s] = q /\ LocalsOK(q) => Follows(q)'
        BY <1>2, <1>7, <2>2, ContinueFollows
      <4> QED
        BY <1>3, <4>1
    <3>3. ASSUME NEW m \in Masters, Exists(masters[m]), Exists(masters'[m]),
                 masters[m].tmpl.once, masters'[m].occ = 0
          PROVE  /\ masters[m].occ = 0
                 /\ \A t \in Slots : At(t, "count") /\ req[t].master = m => req'[t] = req[t]
      <4>1. CASE ~CountInstance(s)
        <5>1. masters'[m].occ = masters[m].occ
          BY <1>1, <1>7, <3>3, <4>1, CountersStay
        <5>2. \A t \in Slots : ~At(t, "count")
          BY <1>1, <1>7, <4>1, CountsFirst DEF OneAtATime, At
        <5> QED
          BY <3>3, <5>1, <5>2
      <4>2. CASE CountInstance(s)
        <5> DEFINE M == req[s].master
        <5>1. /\ req[s].at = "count" /\ M \in Masters /\ Exists(masters[M])
              /\ masters' = [masters EXCEPT ![M].occ = CountAfter(Held(s))]
          BY <1>1, <4>2, CountGoes
        <5>2. m # M
          <6> SUFFICES ASSUME m = M PROVE FALSE
            OBVIOUS
          <6>1. req[s].copy[M] \in MasterRow /\ req[s].copy[M] # Keep
            BY <1>3, <5>1, SentinelAssumption DEF LocalsOK
          <6>2. Held(s).tmpl = masters[M].tmpl
            BY <1>3, <5>1, <6>1 DEF Counts, Held
          <6>3. CountAfter(Held(s)) = 1
            BY <3>3, <6>2 DEF CountAfter
          <6>4. masters[M] \in MasterRow
            BY <1>1, <5>1, RowsTyped
          <6>5. masters'[M] = [masters[M] EXCEPT !.occ = 1]
            BY <1>1, <5>1, <6>3 DEF TypeOK
          <6> QED
            BY <3>3, <6>4, <6>5 DEF MasterRow
        <5>3. masters'[m] = masters[m]
          BY <1>1, <5>1, <5>2 DEF TypeOK
        <5> QED
          BY <3>3, <5>2, <5>3 DEF OneAtATime
      <4> QED
        BY <4>1, <4>2
    <3>4. \A m \in Masters : Exists(masters'[m]) => Timely(m)'
      BY <1>2, <3>1, <3>3, StaysTimely
    <3> QED
      BY <1>4, <1>5, <3>1, <3>2, <3>4
  <2> QED
    BY <2>1, <2>2
<1>8. CASE \/ \E m \in Masters : CreateMaster(m) \/ SoftDeleteMaster(m)
           \/ BulkSetStatus \/ Tick \/ UNCHANGED vars
  <2>1. Steady /\ UNCHANGED <<insts, assocs, req>>
    BY <1>1, <1>8, OutsideSteady DEF CreateMaster, SoftDeleteMaster, BulkSetStatus, Tick, vars,
       tables
  <2>2. Shuts
    BY <2>1 DEF Shuts
  <2>3. \A s \in Slots : Follows(req[s])'
    <3> SUFFICES ASSUME NEW s \in Slots PROVE Follows(req[s])'
      OBVIOUS
    <3>1. \A r \in Request : LocalsOK(r) /\ Counts(r) /\ Follows(r) => Follows(r)'
      BY <1>1, <1>2, <2>1, <2>2, StaysFollowing
    <3>2. Follows(req[s])' <=> \E r \in Request : r = req[s] /\ Follows(r)'
      BY <1>3, <2>1
    <3> QED
      BY <1>3, <3>1, <3>2
  <2>4. \A m \in Masters : Exists(masters'[m]) => Timely(m)'
    BY <1>2, <2>1, <2>2, StaysTimely DEF Steady
  <2> QED
    BY <1>2, <1>4, <2>2, <2>3, <2>4 DEF OpenInv
<1> QED
  BY <1>6, <1>7, <1>8 DEF Next, NoPatch, PatchMaster, NoRestart, Restart

(* With one request at a time, nobody setting a status back and a rule     *)
(* that goes on day by day, an association has at most one open instance:  *)
(* generate_instance_for_association archives the older ones before it     *)
(* makes the next.                                                         *)
THEOREM OneIsOpen ==
    ASSUME OneAtATime, NoPatch, NoRestart, NoReopen, InOrder
    PROVE  Spec => []OneOpenInstance
<1>1. OpenInv => OneOpenInstance
  <2> SUFFICES ASSUME OpenInv, NEW a \in AssocIds
               PROVE  Cardinality(Having(OfAssociation(a),
                                         InstStatus \ {"completed", "archived"})) <= 1
    BY DEF OneOpenInstance
  <2> DEFINE h == Having(OfAssociation(a), InstStatus \ {"completed", "archived"})
  <2>1. h = StillOpen(a)
    BY DEF StillOpen, Having, InstStatus, Superseded
  <2>2. \A i, j \in h : i = j
    BY <2>1 DEF OpenInv
  <2> HIDE DEF h
  <2>3. CASE h = {}
    <3>1. Cardinality(h) = 0
      BY <2>3, FS_EmptySet
    <3> QED
      BY <3>1 DEF h
  <2>4. CASE h # {}
    <3>1. PICK i \in h : h = {i}
      BY <2>2, <2>4
    <3>2. Cardinality(h) = 1
      BY <3>1, FS_Singleton
    <3> QED
      BY <3>2 DEF h
  <2> QED
    BY <2>3, <2>4
<1> QED
  BY <1>1, InitOpen, NextOpen, PTL DEF Spec

-------------------------------------------------------------------------------
(* What can still be done does not pile up, however many requests overlap. *)

(* No instance is made, and none can be done that could not before. *)
Lessens ==
    \A i \in InstIds : insts'[i] # NoRow =>
        /\ insts[i] # NoRow
        /\ insts'[i].status \in Startable => insts[i].status \in Startable

(* A master that was purged does not come back. *)
LEMMA GoneForGood ==
    ASSUME Base, [Next]_vars
    PROVE  \A m \in Masters : masters[m] = Gone => masters'[m] = Gone
<1>1. NoRow # Gone /\ ~Exists(Gone)
  BY SentinelAssumption DEF Exists
<1>2. ASSUME NEW m \in Masters, CreateMaster(m) \/ PatchMaster(m) \/ SoftDeleteMaster(m)
      PROVE  \A n \in Masters : masters[n] = Gone => masters'[n] = Gone
  <2>1. masters[m] # Gone
    BY <1>1, <1>2 DEF CreateMaster, PatchMaster, SoftDeleteMaster
  <2>2. \E row : masters' = [masters EXCEPT ![m] = row]
    <3>1. CASE CreateMaster(m)
      BY <3>1 DEF CreateMaster
    <3>2. CASE PatchMaster(m)
      BY <3>2 DEF PatchMaster, TypeOK
    <3>3. CASE SoftDeleteMaster(m)
      BY <3>3 DEF SoftDeleteMaster, TypeOK
    <3> QED
      BY <1>2, <3>1, <3>2, <3>3
  <2> QED
    BY <2>1, <2>2 DEF TypeOK
<1>3. ASSUME NEW batch, NEW x, masters' = WithStatus(batch, x)
      PROVE  \A m \in Masters : masters[m] = Gone => masters'[m] = Gone
  BY <1>1, <1>3 DEF WithStatus
<1>4. ASSUME NEW s \in Slots, Continue(s), masters' # masters
      PROVE  \A m \in Masters : masters[m] = Gone => masters'[m] = Gone
  <2>1. CountInstance(s) \/ BulkCommit(s) \/ PurgeCommit(s)
    <3>1. CASE \/ LoadRow(s) \/ CommitRow(s) \/ LookupMaster(s) \/ PlanInstance(s)
               \/ ArchiveOld(s) \/ InsertInstance(s) \/ InsertAssociation(s)
               \/ ReleaseInstances(s) \/ RemoveAssociation(s) \/ MarkMissed(s)
      BY <1>4, <3>1 DEF LoadRow, CommitRow, LookupMaster, PlanInstance, ArchiveOld,
         InsertInstance, InsertAssociation, ReleaseInstances, RemoveAssociation, MarkMissed,
         MarkOne, tables
    <3>2. CASE \/ ListOverdue(s) \/ MarkOverdue(s) \/ ListAssociations(s) \/ NextAssociation(s)
               \/ GuardMaster(s) \/ CascadeArchive(s) \/ Abort(s)
      BY <1>4, <3>2 DEF ListOverdue, MarkOverdue, ListAssociations, NextAssociation,
         GuardMaster, CascadeArchive, Abort, MarkOne, tables
    <3> QED
      BY <1>4, <3>1, <3>2 DEF Continue
  <2>2. CASE CountInstance(s)
    <3>1. /\ req[s].master \in Masters /\ Exists(masters[req[s].master])
          /\ masters' = [masters EXCEPT ![req[s].master].occ = CountAfter(Held(s))]
      BY <2>2, CountGoes
    <3> QED
      BY <1>1, <3>1 DEF TypeOK
  <2>3. CASE BulkCommit(s)
    BY <1>3, <2>3 DEF BulkCommit
  <2>4. CASE PurgeCommit(s)
    BY <2>4 DEF PurgeCommit, TypeOK
  <2> QED
    BY <2>1, <2>2, <2>3, <2>4
<1>5. CASE UNCHANGED masters
  BY <1>5
<1>6. ASSUME NEW s \in Slots, Arrive(s) PROVE UNCHANGED masters
  BY <1>6, ArriveReads DEF tables
<1> QED
  BY <1>2, <1>3, <1>4, <1>5, <1>6 DEF Next, vars, tables, BulkSetStatus, Tick, Restart

(* Putting away, and calling missed or overdue, leaves less to do. *)
LEMMA SettingLessens ==
    ASSUME Base, NEW ids \in SUBSET InstIds, ~Vanished(ids), NEW x, SetStatuses(ids, x),
           x \notin Startable
    PROVE  Lessens
<1> SUFFICES ASSUME NEW i \in InstIds, insts'[i] # NoRow
             PROVE  /\ insts[i] # NoRow
                    /\ insts'[i].status \in Startable => insts[i].status \in Startable
  BY DEF Lessens
<1>1. insts'[i] = IF i \in ids THEN [insts[i] EXCEPT !.status = x] ELSE insts[i]
  BY DEF SetStatuses
<1>2. CASE i \in ids
  <2>1. insts[i] # NoRow /\ insts[i] \in InstRow
    BY <1>2 DEF Vanished, TypeOK
  <2>2. insts'[i].status = x
    BY <1>1, <1>2, <2>1 DEF InstRow
  <2> QED
    BY <2>1, <2>2
<1> QED
  BY <1>1, <1>2

(* So does every step of a handler but the insert: nobody sets a status    *)
(* back.                                                                   *)
LEMMA OthersLessen ==
    ASSUME Base, NEW s \in Slots, Intends(req[s]), Continue(s), ~InsertInstance(s)
    PROVE  Lessens
<1>1. req[s] \in Request
  BY DEF TypeOK
<1>2. UNCHANGED insts => Lessens
  BY DEF Lessens
<1>3. CASE CommitRow(s)
  <2> DEFINE j == req[s].inst
  <2>1. j \in InstIds /\ insts[j] # NoRow /\ insts' = [insts EXCEPT ![j] = Merged(s)]
    BY <1>3, CommitGoes
  <2>2. Merged(s).status \in {"completed", "archived", insts[j].status}
    BY DEF Intends, Merged, Written, Column
  <2>3. insts \in [InstIds -> InstRow \cup {NoRow}]
    BY DEF TypeOK
  <2> HIDE DEF j
  <2> QED
    BY <2>1, <2>2, <2>3 DEF Lessens, Startable
<1>4. CASE ArchiveOld(s) \/ ReleaseInstances(s)
  <2>1. ~Vanished(req[s].todo) /\ SetStatuses(req[s].todo, "archived")
    BY <1>4, ArchiveGoes
  <2> QED
    BY <1>1, <2>1, SettingLessens DEF Request, Startable
<1>5. CASE MarkMissed(s) \/ MarkOverdue(s) \/ CascadeArchive(s)
  <2>1. PICK x \in {"missed", "overdue", "archived"} : MarkOne(s, x)
    BY <1>5 DEF MarkMissed, MarkOverdue, CascadeArchive
  <2>2. PICK i \in req[s].todo : i \in InstIds /\ insts[i] # NoRow /\ SetStatuses({i}, x)
    BY <2>1, MarkGoes
  <2> QED
    BY <2>2, SettingLessens DEF Vanished, Startable
<1>6. CASE PurgeCommit(s)
  BY <1>6 DEF PurgeCommit, Lessens
<1>7. CASE \/ LoadRow(s) \/ LookupMaster(s) \/ PlanInstance(s) \/ CountInstance(s)
           \/ InsertAssociation(s) \/ RemoveAssociation(s) \/ BulkCommit(s) \/ Abort(s)
  BY <1>2, <1>7 DEF LoadRow, LookupMaster, PlanInstance, CountInstance, InsertAssociation,
     RemoveAssociation, BulkCommit, Abort, tables
<1>8. CASE ListOverdue(s) \/ ListAssociations(s) \/ NextAssociation(s) \/ GuardMaster(s)
  BY <1>2, <1>8 DEF ListOverdue, ListAssociations, NextAssociation, GuardMaster, tables
<1> QED
  BY <1>3, <1>4, <1>5, <1>6, <1>7, <1>8 DEF Continue

(* Where nothing is made, no instance comes to lie behind the next one. *)
LEMMA StaysPrompt ==
    ASSUME InOrder, Base, Base', Lasts, \A i \in InstIds : insts'[i] # NoRow => insts[i] # NoRow,
           NEW m \in Masters, Exists(masters'[m]), Exists(masters[m]) => Prompt(m)
    PROVE  Prompt(m)'
<1> SUFFICES ASSUME ~masters'[m].tmpl.once, NEW i \in InstIds, insts'[i] # NoRow,
                    assocs'[i[1]].master = m
             PROVE  i[2] <= PeriodFor(masters'[m].tmpl, day', tod')
  BY DEF Prompt, InstancesOf
<1>1. i[1] \in AssocIds /\ i[2] \in Dates
  BY DEF InstIds
<1>2. insts[i] # NoRow /\ Exists(assocs[i[1]]) /\ Exists(assocs'[i[1]])
  BY DEF Linked
<1>3. assocs[i[1]].master = m
  BY <1>1, <1>2 DEF Lasts
<1>4. Exists(masters[m]) /\ i \in InstancesOf(m)
  BY <1>1, <1>2, <1>3 DEF Linked, InstancesOf
<1> DEFINE t == masters[m].tmpl
<1>5. t \in Templates /\ masters'[m].tmpl = t
  BY <1>4, RowsTyped DEF MasterRow, Lasts
<1>6. i[2] <= PeriodFor(t, day, tod)
  BY <1>4, <1>5 DEF Prompt
<1>7. ~t.once
  BY <1>5
<1> HIDE DEF t
<1>8. /\ PeriodFor(t, day, tod) \in Dates /\ PeriodFor(t, day', tod') \in Dates
      /\ PeriodFor(t, day, tod) <= PeriodFor(t, day', tod')
  BY <1>5, <1>7, PeriodGrows
<1> QED
  BY <1>1, <1>5, <1>6, <1>8, BoundsAssumption DEF Dates

(* What a handler holds of masters that are or were there. *)
Knows(r) == Intends(r) /\ \A m \in Masters : r.copy[m] # Keep => masters[m] # NoRow

(* It stays true while others take steps. *)
LEMMA IntendsLasts ==
    ASSUME InOrder, Base, Base', Lasts, \A m \in Masters : masters[m] = Gone => masters'[m] = Gone,
           NEW r \in Request, LocalsOK(r), Knows(r)
    PROVE  Intends(r)'
<1>1. \A m \in Masters : r.copy[m] # Keep /\ Exists(masters'[m]) =>
         r.copy[m].tmpl = masters'[m].tmpl
  BY DEF Knows, Intends, Lasts, Exists
<1>2. ASSUME r.at \in {"archive", "insert"}, ~r.copy[r.master].tmpl.once
      PROVE  r.inst[2] <= PeriodFor(r.copy[r.master].tmpl, day', tod')
  <2> DEFINE t == r.copy[r.master].tmpl
  <2>1. r.inst[2] \in Dates /\ t \in Templates /\ ~t.once
    BY <1>2 DEF LocalsOK, InstIds, MasterRow
  <2>2. r.inst[2] <= PeriodFor(t, day, tod)
    BY <1>2 DEF Knows, Intends
  <2> HIDE DEF t
  <2>3. /\ PeriodFor(t, day, tod) \in Dates /\ PeriodFor(t, day', tod') \in Dates
        /\ PeriodFor(t, day, tod) <= PeriodFor(t, day', tod')
    BY <2>1, PeriodGrows
  <2>4. r.inst[2] <= PeriodFor(t, day', tod')
    BY <2>1, <2>2, <2>3, BoundsAssumption DEF Dates
  <2> QED
    BY <2>4 DEF t
<1> QED
  BY <1>1, <1>2 DEF Knows, Intends

(* A handler that has read no master, and is to reopen nothing. *)
LEMMA NothingKnown ==
    ASSUME NEW r, r.copy = Idle.copy, r.at \notin {"archive", "insert"},
           r.upd.status \in {Keep, "completed", "archived"}
    PROVE  Knows(r)
<1>1. \A m \in Masters : r.copy[m] = Keep
  BY DEF Idle
<1> QED
  BY <1>1 DEF Knows, Intends

(* A handler at rest.                                                      *)
LEMMA IdleKnows == Knows(Idle)
<1>1. Idle.copy = Idle.copy /\ Idle.at = "idle" /\ Idle.upd.status = Keep
  BY DEF Idle, NoUpdate
<1> QED
  BY <1>1, NothingKnown

(* A request that begins.                                                  *)
LEMMA ArriveKnows ==
    ASSUME NoReopen, Base, NEW s \in Slots, Arrive(s), NEW r \in Request, req'[s] = r
    PROVE  Knows(r) /\ r.at \notin {"archive", "insert"}
<1>2. /\ \A u : ClaimUpdate(u).status = Keep
      /\ \A u, by : AssignUpdate(u, by).status = Keep
      /\ StatusUpdate("completed").status = "completed"
      /\ SetStatus("archived").status = "archived"
      /\ NoUpdate.status = Keep
  BY DEF ClaimUpdate, AssignUpdate, StatusUpdate, SetStatus, NoUpdate
<1>3. Updating(s) \/ Associating(s) \/ Opening(s)
  BY ArriveGoes
<1>4. CASE Updating(s)
  <2>1. r.op \notin {"revert", "reset", "status"}
    BY <1>4 DEF Updating, NoReopen
  <2>2. r.upd.status \in {Keep, "completed", "archived"}
    BY <1>2, <1>4, <2>1 DEF Updating
  <2> QED
    BY <1>4, <2>2, NothingKnown DEF Updating
<1>5. CASE Associating(s)
  <2>1. r.upd.status = Keep
    BY <1>2, <1>5 DEF Associating, AutoUpdates
  <2>2. PICK m \in Masters : Exists(masters[m]) /\ r.copy = [Idle.copy EXCEPT ![m] = masters[m]]
    BY <1>5 DEF Associating
  <2>3. \A n \in Masters : r.copy[n] # Keep => r.copy[n] = masters[n] /\ Exists(masters[n])
    BY <2>2 DEF Idle
  <2> QED
    BY <1>5, <2>1, <2>3 DEF Associating, Knows, Intends, Exists
<1>6. CASE Opening(s)
  BY <1>2, <1>6, NothingKnown DEF Opening
<1> QED
  BY <1>3, <1>4, <1>5, <1>6

(* A handler that goes on: it knows what it knew, and the master it reads. *)
LEMMA ContinueKnows ==
    ASSUME CountInv, NEW s \in Slots, Intends(req[s]), Continue(s), NEW r \in Request, req'[s] = r
    PROVE  Knows(r)
<1>1. /\ Base /\ req[s] \in Request /\ LocalsOK(req[s]) /\ Knows(req[s])
  BY DEF TypeOK, Locals, CopiesLag, Lags, Knows
<1>2. CASE r = Idle
  BY <1>2, IdleKnows
<1>3. ASSUME r.upd = req[s].upd, r.copy = req[s].copy, r.at \notin {"archive", "insert"}
      PROVE  Knows(r)
  BY <1>1, <1>3 DEF Knows, Intends
<1>4. ASSUME NEW i, Resumed(s, i) PROVE Knows(r)
  <2>1. \/ r = Idle
        \/ r.upd = req[s].upd /\ r.copy = req[s].copy /\ r.at = "next"
        \/ r.upd = req[s].upd /\ r.copy = Idle.copy /\ r.at = "load"
    BY <1>4 DEF Resumed, Pursues
  <2>2. CASE r.upd = req[s].upd /\ r.copy = Idle.copy /\ r.at = "load"
    BY <1>1, <2>2, NothingKnown DEF Knows, Intends
  <2> QED
    BY <1>2, <1>3, <2>1, <2>2
<1>5. CASE LoadRow(s)
  BY <1>1, <1>3, <1>5, LoadGoes DEF Retains, Pursues
<1>6. CASE CommitRow(s)
  <2>1. CASE r.at = "lookup" /\ r.upd = NoUpdate /\ r.copy = Idle.copy
    BY <2>1, NothingKnown DEF NoUpdate
  <2> QED
    BY <1>1, <1>2, <1>6, <2>1, CommitGoes
<1>7. ASSUME NEW m, Exists(masters[m]), r.upd = req[s].upd, r.at \notin {"archive", "insert"},
             \/ r.copy = [req[s].copy EXCEPT ![m] = masters[m]]
             \/ r.copy = req[s].copy
      PROVE  Knows(r)
  <2>1. \A n \in Masters : r.copy[n] # Keep =>
           r.copy[n] = req[s].copy[n] \/ (r.copy[n] = masters[n] /\ Exists(masters[n]))
    BY <1>1, <1>7 DEF Request
  <2> QED
    BY <1>1, <1>7, <2>1 DEF Knows, Intends, Exists
<1>8. CASE LookupMaster(s)
  <2>1. CASE /\ Pursues(s) /\ r.at = "gen" /\ Exists(assocs[req[s].assoc])
             /\ req[s].assoc \in AssocIds /\ r.master = assocs[req[s].assoc].master
             /\ r.copy = [req[s].copy EXCEPT ![r.master] = masters[r.master]]
    <3>1. Exists(masters[r.master])
      BY <1>1, <2>1 DEF Linked
    <3> QED
      BY <1>7, <2>1, <3>1 DEF Pursues
  <2> QED
    BY <1>1, <1>2, <1>8, <2>1, LookupGoes
<1>9. CASE PlanInstance(s)
  <2> DEFINE t == Held(s).tmpl
             p == PeriodFor(t, day, tod)
             b == req[s].assoc
  <2>1. \/ Resumed(s, None) \/ Resumed(s, <<b, p>>)
        \/ Retains(s) /\ r.inst = <<b, p>>
    BY <1>1, <1>9, PlanGoes
  <2>2. CASE Retains(s) /\ r.inst = <<b, p>>
    <3>1. r.upd = req[s].upd /\ r.copy = req[s].copy /\ t = r.copy[r.master].tmpl /\ r.inst[2] = p
      BY <2>2 DEF Retains, Pursues, Held
    <3>2. p \in Int \/ t.once
      <4>1. req[s].at = "gen"
        BY <1>1, <1>9, PlanGoes
      <4>2. t \in Templates /\ day \in Days
        BY <1>1, <4>1 DEF LocalsOK, Held, MasterRow, TypeOK
      <4>3. t.after[day] \in Dates
        BY <4>2, TemplateAssumption DEF Template
      <4>4. t.once \/ p \in {day, t.after[day]}
        BY DEF PeriodFor, NextOccurrence
      <4> QED
        BY <4>2, <4>3, <4>4, BoundsAssumption DEF Days, Dates
    <3>3. p = PeriodFor(t, day, tod)
      OBVIOUS
    <3> HIDE DEF p, t, b
    <3>4. ~t.once => r.inst[2] <= PeriodFor(t, day, tod)
      BY <3>1, <3>2, <3>3
    <3> QED
      BY <1>1, <3>1, <3>4 DEF Knows, Intends
  <2> HIDE DEF p, b
  <2> QED
    BY <1>4, <2>1, <2>2
<1>10. CASE ArchiveOld(s) \/ ReleaseInstances(s)
  <2>1. /\ r.upd = req[s].upd /\ r.copy = req[s].copy /\ r.inst = req[s].inst
        /\ r.master = req[s].master
        /\ req[s].at = "archive" \/ r.at = "remove"
    BY <1>1, <1>10, ArchiveGoes DEF Retains, Pursues
  <2> QED
    BY <1>1, <2>1 DEF Knows, Intends
<1>11. CASE InsertInstance(s)
  <2>1. Resumed(s, None) \/ (Retains(s) /\ r.at = "count")
    BY <1>1, <1>11, InsertGoes
  <2> QED
    BY <1>3, <1>4, <2>1 DEF Retains, Pursues
<1>12. CASE CountInstance(s)
  BY <1>1, <1>4, <1>12, CountGoes
<1>13. CASE InsertAssociation(s)
  BY <1>1, <1>3, <1>13, AssociateGoes DEF Pursues
<1>14. CASE MarkMissed(s) \/ MarkOverdue(s) \/ CascadeArchive(s)
  <2>1. Retains(s) /\ r.at = req[s].at /\ req[s].at \in {"expire", "overdue", "guard"}
    BY <1>1, <1>14, MarkGoes DEF MarkMissed, MarkOverdue, CascadeArchive, At
  <2> QED
    BY <1>3, <2>1 DEF Retains, Pursues
<1>15. CASE ListOverdue(s) \/ GuardMaster(s)
  <2>1. Retains(s) /\ r.at \in {"overdue", "guard"}
    BY <1>1, <1>15, ListOverdueGoes, GuardGoes
  <2> QED
    BY <1>3, <2>1 DEF Retains, Pursues
<1>16. CASE ListAssociations(s)
  BY <1>1, <1>2, <1>3, <1>16, ListAssociationsGoes DEF Pursues
<1>17. CASE NextAssociation(s)
  <2>1. PICK a \in req[s].queue : \E m, c :
                 /\ a \in AssocIds /\ m = assocs[a].master
                 /\ c = (IF req[s].copy[m] = Keep THEN masters[m] ELSE req[s].copy[m])
                 /\ \/ /\ Exists(assocs[a]) /\ Pursues(s) /\ req'[s].at = "gen"
                       /\ req'[s].assoc = a /\ req'[s].master = m
                       /\ req'[s].todo = req[s].todo /\ req'[s].queue = req[s].queue
                       /\ req'[s].copy = [req[s].copy EXCEPT ![m] = c]
                    \/ req'[s] = Idle
                    \/ /\ Pursues(s) /\ req'[s].at = "next"
                       /\ req'[s].assoc = req[s].assoc /\ req'[s].todo = req[s].todo
                       /\ req'[s].queue = req[s].queue \ {a}
                       /\ req'[s].copy = IF Exists(assocs[a])
                                         THEN [req[s].copy EXCEPT ![m] = c] ELSE req[s].copy
    BY <1>1, <1>17, NextGoes
  <2> DEFINE M == assocs[a].master
             c == IF req[s].copy[M] = Keep THEN masters[M] ELSE req[s].copy[M]
  <2>2. \/ r = Idle
        \/ /\ Exists(assocs[a]) /\ a \in AssocIds
           /\ r.upd = req[s].upd /\ r.at \in {"gen", "next"}
           /\ r.copy = [req[s].copy EXCEPT ![M] = c]
        \/ r.upd = req[s].upd /\ r.at = "next" /\ r.copy = req[s].copy
    BY <2>1 DEF Pursues
  <2>3. CASE /\ Exists(assocs[a]) /\ a \in AssocIds
             /\ r.upd = req[s].upd /\ r.at \in {"gen", "next"}
             /\ r.copy = [req[s].copy EXCEPT ![M] = c]
    <3>1. Exists(masters[M])
      BY <1>1, <2>3 DEF Linked
    <3>2. \/ r.copy = [req[s].copy EXCEPT ![M] = masters[M]]
          \/ r.copy = req[s].copy
      BY <1>1, <2>3 DEF Request
    <3> HIDE DEF M, c
    <3> QED
      BY <1>7, <2>3, <3>1, <3>2
  <2> QED
    BY <1>2, <1>3, <2>2, <2>3
<1>18. CASE RemoveAssociation(s) \/ BulkCommit(s) \/ PurgeCommit(s) \/ Abort(s)
  BY <1>1, <1>2, <1>18, EndGoes
<1> QED
  BY <1>5, <1>6, <1>8, <1>9, <1>10, <1>11, <1>12, <1>13, <1>14, <1>15, <1>16, <1>17, <1>18
     DEF Continue

(* Who was put down to a request stays so while the request spares it. *)
LEMMA Attributing ==
    ASSUME NEW a \in AssocIds, Attributed(a), StillToDo(a)' \subseteq StillToDo(a),
           \A t \in Slots : \A i \in StillToDo(a)' : Spares(req[t], a, i) => Spares(req'[t], a, i)
    PROVE  Attributed(a)'
<1>1. PICK by \in [StillToDo(a) -> Slots] :
         /\ \A i, j \in StillToDo(a) : by[i] = by[j] => i = j
         /\ \A i \in StillToDo(a) : Spares(req[by[i]], a, i)
  BY DEF Attributed
<1> DEFINE S == StillToDo(a)'
           f == [i \in S |-> by[i]]
<1>2. S \subseteq StillToDo(a)
  OBVIOUS
<1> HIDE DEF S
<1>3. /\ f \in [S -> Slots]
      /\ \A i, j \in S : f[i] = f[j] => i = j
  BY <1>1, <1>2
<1>4. \A i \in S : f[i] \in Slots /\ Spares(req[f[i]], a, i)
  BY <1>1, <1>2
<1>5. \A i \in S : Spares(req'[f[i]], a, i)
  BY <1>4 DEF S
<1> HIDE DEF f
<1>6. \E g \in [S -> Slots] : /\ \A i, j \in S : g[i] = g[j] => i = j
                              /\ \A i \in S : Spares(req'[g[i]], a, i)
  BY <1>3, <1>5
<1> QED
  BY <1>6 DEF S, Attributed, Spares

(* Where nothing is to do, nothing has piled up. *)
LEMMA NothingAttributed ==
    ASSUME NEW a \in AssocIds, StillToDo(a)' = {}
    PROVE  Attributed(a)'
<1> DEFINE f == [i \in {} |-> CHOOSE s \in Slots : TRUE]
<1>1. f \in [StillToDo(a)' -> Slots]
  OBVIOUS
<1> QED
  BY <1>1 DEF Attributed

(* An association that is new, or whose chore is, has no instances.        *)
LEMMA NewAttributed ==
    ASSUME Base, Base', Lasts, NEW a \in AssocIds, Recurring(a)', ~Recurring(a)
    PROVE  Attributed(a)'
<1>1. ~Exists(assocs[a])
  <2> SUFFICES ASSUME Exists(assocs[a]) PROVE FALSE
    OBVIOUS
  <2> DEFINE m == assocs[a].master
  <2>1. Exists(assocs'[a]) /\ assocs'[a].master = m
    BY DEF Recurring, Lasts
  <2>2. m \in Masters /\ Exists(masters[m]) /\ Exists(masters'[m])
    BY <2>1, RowsTyped DEF Linked, AssocRow
  <2>3. masters'[m].tmpl = masters[m].tmpl
    BY <2>2 DEF Lasts
  <2> QED
    BY <2>1, <2>3 DEF Recurring
<1>2. \A i \in OfAssociation(a) : i \in InstIds /\ i[1] = a
  BY DEF OfAssociation, InstIds
<1>3. \A i \in OfAssociation(a) : insts'[i] = NoRow
  BY <1>1, <1>2 DEF Lasts, Linked
<1>4. StillToDo(a)' = {}
  BY <1>3 DEF StillToDo, Having, OfAssociation
<1> QED
  BY <1>4, NothingAttributed

(* Elsewhere than before an archive or an insert, nothing is left behind.  *)
LEMMA Sparing ==
    ASSUME NEW r, r.at \notin {"archive", "insert"}, NEW a, NEW i
    PROVE  Spares(r, a, i)
BY DEF Spares

(* What a generation is about to leave behind it did not list: when it     *)
(* lists, every instance still to do is for an earlier period.             *)
LEMMA PlanSpares ==
    ASSUME PileInv, NEW s \in Slots, PlanInstance(s), NEW a \in AssocIds, Recurring(a),
           NEW i \in StillToDo(a), NEW r \in Request, req'[s] = r
    PROVE  Spares(r, a, i)
<1>1. /\ Base /\ CountInv /\ req[s] \in Request /\ LocalsOK(req[s]) /\ Intends(req[s])
      /\ req[s].at = "gen" /\ Attaches(req[s], assocs)
  BY PlanGoes DEF PileInv, TypeOK, Locals, Attached
<1> DEFINE t == Held(s).tmpl
           p == PeriodFor(t, day, tod)
           b == req[s].assoc
<1>2. \/ Resumed(s, None) \/ Resumed(s, <<b, p>>)
      \/ /\ Retains(s) /\ insts[<<b, p>>] = NoRow
         /\ IF t.once THEN r.at = "insert"
            ELSE r.at = "archive" /\ r.todo = OldInstances(b, p)
  BY <1>1, PlanGoes
<1>3. CASE r.at \notin {"archive", "insert"}
  BY <1>3, Sparing
<1>4. CASE Resumed(s, None) \/ Resumed(s, <<b, p>>)
  <2>1. r.at \in {"idle", "next", "load"}
    BY <1>4 DEF Resumed, Idle
  <2> QED
    BY <1>3, <2>1
<1>5. CASE b # a /\ Retains(s)
  BY <1>5 DEF Spares, Retains
<1>6. ASSUME b = a, Retains(s), insts[<<b, p>>] = NoRow,
             IF t.once THEN r.at = "insert"
             ELSE r.at = "archive" /\ r.todo = OldInstances(b, p)
      PROVE  Spares(r, a, i)
  <2> DEFINE m == req[s].master
  <2>1. /\ m \in Masters /\ req[s].copy[m] \in MasterRow /\ req[s].copy[m] # Keep
        /\ t = req[s].copy[m].tmpl
    BY <1>1, SentinelAssumption DEF LocalsOK, Held
  <2>2. Exists(assocs[a]) /\ assocs[a].master = m /\ Exists(masters[m])
    BY <1>1, <1>6 DEF Recurring, Attaches, BelongsTo, Linked
  <2>3. t = masters[m].tmpl /\ ~t.once /\ t \in Templates
    BY <1>1, <2>1, <2>2 DEF Intends, Recurring, MasterRow
  <2>4. /\ i \in InstIds /\ i[1] = a /\ i[2] \in Dates /\ i = <<a, i[2]>>
        /\ insts[i] # NoRow /\ insts[i].status \in Startable
    BY DEF StillToDo, Having, OfAssociation, InstIds
  <2>5. i \in InstancesOf(m)
    BY <2>2, <2>4 DEF InstancesOf
  <2>6. i[2] <= p
    BY <2>1, <2>2, <2>3, <2>5 DEF PileInv, Prompt
  <2>7. i[2] # p
    BY <1>6, <2>4
  <2>8. p \in Dates
    <3>1. day \in Days /\ t.after[day] \in Dates
      BY <1>1, <2>3, TemplateAssumption DEF TypeOK, Template
    <3> QED
      BY <2>3, <3>1, BoundsAssumption DEF PeriodFor, NextOccurrence, Days, Dates
  <2> HIDE DEF t, p, m
  <2>9. i[2] < p
    BY <2>4, <2>6, <2>7, <2>8, BoundsAssumption DEF Dates
  <2>10. i \in OldInstances(b, p)
    BY <1>6, <2>4, <2>9 DEF OldInstances, Having, StillToDo, Startable, Superseded
  <2> QED
    BY <1>6, <2>3, <2>10 DEF Spares
<1> QED
  BY <1>2, <1>4, <1>5, <1>6

(* Only the plan of a generation and its archiving go on to where          *)
(* something could be left behind.                                         *)
LEMMA ComingToMake ==
    ASSUME Base, NEW s \in Slots, Continue(s), req'[s].at \in {"archive", "insert"}
    PROVE  PlanInstance(s) \/ ArchiveOld(s)
<1> SUFFICES ASSUME ~PlanInstance(s), ~ArchiveOld(s) PROVE FALSE
  OBVIOUS
<1>1. Idle.at = "idle"
  BY DEF Idle
<1>2. \A i : ~Resumed(s, i)
  BY <1>1 DEF Resumed
<1>3. CASE LoadRow(s) \/ CommitRow(s) \/ LookupMaster(s)
  BY <1>1, <1>3, LoadGoes, CommitGoes, LookupGoes
<1>4. CASE ReleaseInstances(s)
  <2>1. req[s].at = "release"
    BY <1>4 DEF ReleaseInstances, At
  <2> QED
    BY <1>4, <2>1, ArchiveGoes
<1>5. CASE InsertInstance(s) \/ CountInstance(s) \/ InsertAssociation(s)
  BY <1>2, <1>5, InsertGoes, CountGoes, AssociateGoes
<1>6. CASE MarkMissed(s) \/ MarkOverdue(s) \/ CascadeArchive(s)
  <2>1. req'[s].at = req[s].at /\ req[s].at \in {"expire", "overdue", "guard"}
    BY <1>6, MarkGoes DEF MarkMissed, MarkOverdue, CascadeArchive, At
  <2> QED
    BY <2>1
<1>7. CASE ListOverdue(s) \/ GuardMaster(s) \/ ListAssociations(s)
  BY <1>1, <1>7, ListOverdueGoes, GuardGoes, ListAssociationsGoes
<1>8. CASE NextAssociation(s)
  <2>1. req'[s].at \in {"gen", "next", "idle"}
    BY <1>1, <1>8, NextGoes
  <2> QED
    BY <2>1
<1>9. CASE RemoveAssociation(s) \/ BulkCommit(s) \/ PurgeCommit(s) \/ Abort(s)
  BY <1>1, <1>9, EndGoes
<1> QED
  BY <1>3, <1>4, <1>5, <1>6, <1>7, <1>8, <1>9 DEF Continue

(* An insert puts the instance it makes down to its own request, which     *)
(* spared nothing else.                                                    *)
LEMMA InsertAttributes ==
    ASSUME Base, NEW s \in Slots, InsertInstance(s), NEW a \in AssocIds, Attributed(a),
           \A t \in Slots \ {s} : req'[t] = req[t]
    PROVE  Attributed(a)'
<1> DEFINE i0 == req[s].inst
<1>1. /\ req[s] \in Request /\ LocalsOK(req[s]) /\ req[s].at = "insert"
      /\ i0[1] = req[s].assoc
  BY InsertGoes DEF TypeOK, Locals, LocalsOK
<1>2. \/ UNCHANGED insts
      \/ i0 \in InstIds /\ insts' = [insts EXCEPT ![i0] = NewInstance(assocs[i0[1]])]
  BY InsertGoes
<1>3. req'[s].at \notin {"archive", "insert"}
  <2>1. Resumed(s, None) \/ req'[s].at = "count"
    BY InsertGoes
  <2> QED
    BY <2>1 DEF Resumed, Idle
<1>4. \A t \in Slots : \A i : Spares(req[t], a, i) => Spares(req'[t], a, i)
  BY <1>3, Sparing
<1> HIDE DEF i0
<1>5. CASE UNCHANGED insts \/ i0[1] # a
  <2>1. \A i \in OfAssociation(a) : i[1] = a /\ i \in InstIds
    BY DEF OfAssociation, InstIds
  <2>2. \A i \in OfAssociation(a) : insts'[i] = insts[i]
    BY <1>2, <1>5, <2>1 DEF TypeOK
  <2>3. StillToDo(a)' \subseteq StillToDo(a)
    BY <2>2 DEF StillToDo, Having, OfAssociation
  <2> QED
    BY <1>4, <2>3, Attributing
<1>6. CASE /\ i0[1] = a /\ i0 \in InstIds
           /\ insts' = [insts EXCEPT ![i0] = NewInstance(assocs[i0[1]])]
  <2>1. PICK by \in [StillToDo(a) -> Slots] :
           /\ \A i, j \in StillToDo(a) : by[i] = by[j] => i = j
           /\ \A i \in StillToDo(a) : Spares(req[by[i]], a, i)
    BY DEF Attributed
  <2>2. \A i \in StillToDo(a) : by[i] \in Slots \ {s}
    BY <1>1, <1>6, <2>1 DEF Spares
  <2> DEFINE S == StillToDo(a)'
             f == [i \in S |-> IF i = i0 THEN s ELSE by[i]]
  <2>3. \A i \in S : i = i0 \/ i \in StillToDo(a)
    <3>1. \A i \in OfAssociation(a) : i \in InstIds
      BY DEF OfAssociation, InstIds
    <3>2. \A i \in OfAssociation(a) : i # i0 => insts'[i] = insts[i]
      BY <1>6, <3>1 DEF TypeOK
    <3> QED
      BY <3>2 DEF StillToDo, Having, OfAssociation
  <2>4. \A i \in S : Spares(req'[f[i]], a, i)
    <3> SUFFICES ASSUME NEW i \in S PROVE Spares(req'[f[i]], a, i)
      OBVIOUS
    <3>1. CASE i = i0
      BY <1>3, <3>1, Sparing
    <3>2. CASE i # i0
      <4>1. i \in StillToDo(a)
        BY <2>3, <3>2
      <4>2. f[i] = by[i] /\ by[i] \in Slots \ {s} /\ Spares(req[by[i]], a, i)
        BY <2>1, <2>2, <3>2, <4>1
      <4> HIDE DEF f
      <4> QED
        BY <4>2
    <3> QED
      BY <3>1, <3>2
  <2> HIDE DEF S
  <2>5. /\ f \in [S -> Slots]
        /\ \A i, j \in S : f[i] = f[j] => i = j
    BY <2>1, <2>2, <2>3
  <2> HIDE DEF f
  <2>6. \E g \in [S -> Slots] : /\ \A i, j \in S : g[i] = g[j] => i = j
                                /\ \A i \in S : Spares(req'[g[i]], a, i)
    BY <2>4, <2>5
  <2> QED
    BY <2>6 DEF S, Attributed, Spares
<1> QED
  BY <1>2, <1>5, <1>6

(* A handler that goes on leaves nothing behind it, or is the one request  *)
(* what it leaves is put down to.                                          *)
LEMMA ContinueAttributes ==
    ASSUME PileInv, Base', NEW s \in Slots, Continue(s), NEW a \in AssocIds, Recurring(a)
    PROVE  Attributed(a)'
<1>1. Base /\ Attributed(a) /\ \A t \in Slots \ {s} : req'[t] = req[t]
  BY OneMoves DEF PileInv
<1>2. CASE InsertInstance(s)
  BY <1>1, <1>2, InsertAttributes
<1>3. CASE ~InsertInstance(s)
  <2>1. Lessens
    BY <1>1, <1>3, OthersLessen DEF PileInv
  <2>2. StillToDo(a)' \subseteq StillToDo(a)
    <3>1. \A i \in OfAssociation(a) : i \in InstIds
      BY DEF OfAssociation, InstIds
    <3> QED
      BY <2>1, <3>1 DEF Lessens, StillToDo, Having, OfAssociation
  <2>3. ASSUME NEW i \in StillToDo(a)', Spares(req[s], a, i) PROVE Spares(req'[s], a, i)
    <3>1. CASE req'[s].at \notin {"archive", "insert"}
      BY <3>1, Sparing
    <3>2. CASE PlanInstance(s)
      <4>1. req'[s] \in Request
        BY DEF TypeOK
      <4>2. \A r \in Request : req'[s] = r => Spares(r, a, i)
        BY <2>2, <3>2, PlanSpares
      <4> QED
        BY <4>1, <4>2
    <3>3. CASE ArchiveOld(s)
      <4>1. /\ SetStatuses(req[s].todo, "archived") /\ ~Vanished(req[s].todo)
            /\ req[s].at = "archive" /\ req'[s].at = "insert" /\ req'[s].assoc = req[s].assoc
        BY <1>1, <3>3, ArchiveGoes DEF Retains, ArchiveOld, At
      <4>2. i \in InstIds /\ insts'[i].status \in Startable
        BY DEF StillToDo, Having, OfAssociation, InstIds
      <4>3. i \notin req[s].todo
        <5> SUFFICES ASSUME i \in req[s].todo PROVE FALSE
          OBVIOUS
        <5>1. insts[i] \in InstRow
          BY <1>1, <4>1, <4>2 DEF Vanished, TypeOK
        <5>2. insts'[i] = [insts[i] EXCEPT !.status = "archived"]
          BY <4>1, <4>2 DEF SetStatuses
        <5> QED
          BY <4>2, <5>1, <5>2 DEF InstRow, Startable
      <4> QED
        BY <2>3, <4>1, <4>3 DEF Spares
    <3> QED
      BY <1>1, <3>1, <3>2, <3>3, ComingToMake
  <2> QED
    BY <1>1, <2>2, <2>3, Attributing
<1> QED
  BY <1>2, <1>3

(* The instance an insert makes is no later than the next one would be.    *)
LEMMA InsertPrompt ==
    ASSUME PileInv, NEW s \in Slots, InsertInstance(s), NEW m \in Masters, Exists(masters[m])
    PROVE  Prompt(m)'
<1> DEFINE i0 == req[s].inst
<1>1. /\ Base /\ req[s] \in Request /\ LocalsOK(req[s]) /\ req[s].at = "insert"
      /\ Intends(req[s]) /\ Attaches(req[s], assocs) /\ i0[1] = req[s].assoc
      /\ UNCHANGED <<masters, assocs, clock>>
  BY InsertGoes DEF PileInv, Attached, TypeOK, Locals, LocalsOK
<1>2. \/ UNCHANGED insts
      \/ /\ i0 \in InstIds /\ Exists(assocs[i0[1]])
         /\ insts' = [insts EXCEPT ![i0] = NewInstance(assocs[i0[1]])]
  BY InsertGoes DEF PileInv
<1>3. SUFFICES ASSUME ~masters[m].tmpl.once, NEW i \in InstIds, insts'[i] # NoRow,
                      assocs[i[1]].master = m
               PROVE  i[2] <= PeriodFor(masters[m].tmpl, day, tod)
  BY <1>1 DEF Prompt, InstancesOf, clock
<1>4. CASE i \in InstancesOf(m)
  BY <1>3, <1>4 DEF PileInv, Prompt
<1>5. CASE i \notin InstancesOf(m)
  <2> DEFINE M == req[s].master
  <2>1. i = i0 /\ Exists(assocs[i0[1]])
    BY <1>1, <1>2, <1>3, <1>5 DEF InstancesOf, TypeOK
  <2>2. M = m
    BY <1>1, <1>3, <2>1 DEF Attaches, BelongsTo
  <2>3. req[s].copy[M] \in MasterRow /\ req[s].copy[M] # Keep
    BY <1>1, SentinelAssumption DEF LocalsOK
  <2>4. req[s].copy[M].tmpl = masters[m].tmpl
    BY <1>1, <2>2, <2>3 DEF Intends
  <2> QED
    BY <1>1, <1>3, <2>1, <2>4 DEF Intends
<1> QED
  BY <1>4, <1>5

(* Nothing is to do at first.                                              *)
LEMMA InitPile == Init => PileInv
<1> SUFFICES ASSUME Init PROVE PileInv
  OBVIOUS
<1>1. /\ \A s \in Slots : req[s] = Idle
      /\ \A m \in Masters : ~Exists(masters[m])
      /\ \A a \in AssocIds : ~Exists(assocs[a])
  BY DEF Init, Exists
<1> QED
  BY <1>1, InitCount, IdleKnows DEF PileInv, Recurring, Knows

(* Induction: what is left to do is put down to distinct requests.         *)
LEMMA NextPile ==
    ASSUME NoPatch, NoReopen, InOrder
    PROVE  PileInv /\ [Next]_vars => PileInv'
<1> SUFFICES ASSUME PileInv, [Next]_vars PROVE PileInv'
  OBVIOUS
<1>1. CountInv /\ Base /\ CountInv' /\ Base' /\ Lasts
  BY NextCount, EveryStepLasts DEF PileInv
<1>2. \A m \in Masters : masters[m] = Gone => masters'[m] = Gone
  BY <1>1, GoneForGood
<1>3. \A s \in Slots : /\ req[s] \in Request /\ Knows(req[s])
                       /\ req'[s] \in Request /\ LocalsOK(req'[s])
  BY <1>1 DEF PileInv, TypeOK, Locals, CopiesLag, Lags, Knows
<1>4. ASSUME \A s \in Slots : \A r \in Request : req'[s] = r => Knows(r),
             \A m \in Masters : Exists(masters'[m]) => Prompt(m)',
             \A a \in AssocIds : Recurring(a) => Attributed(a)'
      PROVE  PileInv'
  <2>1. ASSUME NEW s \in Slots PROVE Intends(req[s])'
    <3>1. \A r \in Request : LocalsOK(r) /\ Knows(r) => Intends(r)'
      BY <1>1, <1>2, IntendsLasts
    <3>2. \A r \in Request : req'[s] = r => Intends(r)'
      BY <1>3, <1>4, <3>1
    <3> QED
      BY <1>3, <3>2
  <2>2. \A a \in AssocIds : Recurring(a)' => Attributed(a)'
    BY <1>1, <1>4, NewAttributed
  <2> QED
    BY <1>1, <1>4, <2>1, <2>2 DEF PileInv
<1>5. ASSUME \A i \in InstIds : insts'[i] # NoRow => insts[i] # NoRow,
             NEW m \in Masters, Exists(masters'[m])
      PROVE  Prompt(m)'
  BY <1>1, <1>5, StaysPrompt DEF PileInv
<1>6. ASSUME UNCHANGED insts, \A s \in Slots : req'[s].at \notin {"archive", "insert"}
                                                \/ req'[s] = req[s]
      PROVE  \A a \in AssocIds : Recurring(a) => Attributed(a)'
  <2> SUFFICES ASSUME NEW a \in AssocIds, Recurring(a) PROVE Attributed(a)'
    OBVIOUS
  <2>1. \A t \in Slots : \A i \in StillToDo(a)' : Spares(req[t], a, i) => Spares(req'[t], a, i)
    BY <1>6, Sparing
  <2>2. StillToDo(a)' \subseteq StillToDo(a)
    BY <1>6 DEF StillToDo, Having
  <2> QED
    BY <2>1, <2>2, Attributing DEF PileInv
<1>7. ASSUME NEW s \in Slots, Arrive(s) PROVE PileInv'
  <2>1. UNCHANGED <<tables, clock>> /\ \A t \in Slots \ {s} : req'[t] = req[t]
    BY <1>1, <1>7, ArriveReads, OneMoves
  <2>2. \A r \in Request : req'[s] = r => Knows(r) /\ r.at \notin {"archive", "insert"}
    BY <1>1, <1>7, ArriveKnows
  <2>3. \A t \in Slots : req'[t].at \notin {"archive", "insert"} \/ req'[t] = req[t]
    BY <1>3, <2>1, <2>2
  <2>4. \A t \in Slots : \A r \in Request : req'[t] = r => Knows(r)
    BY <1>3, <2>1, <2>2
  <2> QED
    BY <1>4, <1>5, <1>6, <2>1, <2>3, <2>4 DEF tables
<1>8. ASSUME NEW s \in Slots, Continue(s) PROVE PileInv'
  <2>1. \A t \in Slots \ {s} : req'[t] = req[t]
    BY <1>1, <1>8, OneMoves
  <2>2. \A r \in Request : req'[s] = r => Knows(r)
    BY <1>1, <1>8, ContinueKnows DEF PileInv
  <2>3. \A t \in Slots : \A r \in Request : req'[t] = r => Knows(r)
    BY <1>3, <2>1, <2>2
  <2>4. \A m \in Masters : Exists(masters'[m]) => Prompt(m)'
    <3>1. CASE InsertInstance(s)
      <4>1. UNCHANGED masters
        BY <1>1, <3>1, InsertGoes
      <4> QED
        BY <3>1, <4>1, InsertPrompt
    <3>2. CASE ~InsertInstance(s)
      <4>1. Lessens
        BY <1>1, <1>8, <3>2, OthersLessen DEF PileInv
      <4> QED
        BY <1>5, <4>1 DEF Lessens
    <3> QED
      BY <3>1, <3>2
  <2>5. \A a \in AssocIds : Recurring(a) => Attributed(a)'
    BY <1>1, <1>8, ContinueAttributes
  <2> QED
    BY <1>4, <2>3, <2>4, <2>5
<1>9. ASSUME UNCHANGED insts, \A s \in Slots : req'[s] = Idle \/ req'[s] = req[s] PROVE PileInv'
  <2>1. \A s \in Slots : req'[s].at \notin {"archive", "insert"} \/ req'[s] = req[s]
    BY <1>9 DEF Idle
  <2>2. \A s \in Slots : \A r \in Request : req'[s] = r => Knows(r)
    BY <1>3, <1>9, IdleKnows
  <2> QED
    BY <1>4, <1>5, <1>6, <1>9, <2>1, <2>2
<1>10. CASE \/ \E m \in Masters : CreateMaster(m) \/ PatchMaster(m) \/ SoftDeleteMaster(m)
            \/ BulkSetStatus \/ Tick \/ Restart \/ UNCHANGED vars
  BY <1>9, <1>10 DEF CreateMaster, PatchMaster, SoftDeleteMaster, BulkSetStatus, Tick, Restart,
     vars, tables
<1> QED
  BY <1>7, <1>8, <1>10 DEF Next

(* However many requests overlap, however long the board is used and       *)
(* wherever handlers die, an association of a recurring chore has no more  *)
(* instances still to do than requests run at once, as long as nobody      *)
(* edits a master, nobody sets a status back, and rules go on day by day.  *)
THEOREM NeverPilesUp ==
    ASSUME NoPatch, NoReopen, InOrder, IsFiniteSet(Slots)
    PROVE  Spec => []NothingPilesUp
<1>1. PileInv => NothingPilesUp
  <2> SUFFICES ASSUME PileInv, NEW a \in AssocIds, Exists(assocs[a]),
                      ~masters[assocs[a].master].tmpl.once
               PROVE  Cardinality(StillToDo(a)) <= Cardinality(Slots)
    BY DEF NothingPilesUp, StillToDo
  <2>1. Attributed(a)
    BY DEF PileInv, Recurring
  <2>2. PICK by \in [StillToDo(a) -> Slots] :
           \A i, j \in StillToDo(a) : by[i] = by[j] => i = j
    BY <2>1 DEF Attributed
  <2>3. by \in Injection(StillToDo(a), Slots)
    BY <2>2 DEF Injection, IsInjective
  <2> QED
    BY <2>3, FS_Injection
<1> QED
  BY <1>1, InitPile, NextPile, PTL DEF Spec

===============================================================================
