--------------------------- MODULE ChoresInvariant ---------------------------
(***************************************************************************)
(* The inductive invariants behind the theorems about ChoresService, in    *)
(* named parts.  Each says what a handler's local state still means for    *)
(* tables that other handlers have changed since it was read.              *)
(***************************************************************************)
EXTENDS ChoresRefinement

(* At each label a handler holds what its next repository call needs. *)
LocalsOK(r) ==
    /\ r.at \in {"load", "commit", "archive", "insert", "count"} => r.inst \in InstIds
    /\ r.at = "commit" => r.row \in InstRow
    /\ r.at \in {"lookup", "gen", "archive", "insert", "count", "release", "remove"} =>
          r.assoc \in AssocIds
    /\ r.at \in {"archive", "insert", "count"} => r.inst[1] = r.assoc
    /\ r.at \in {"insert_assoc", "gen", "archive", "insert", "count"} =>
          r.master \in Masters /\ r.copy[r.master] \in MasterRow
    /\ r.at = "purge" => r.master \in Masters

Locals == \A s \in Slots : LocalsOK(req[s])

(* The foreign keys of the three tables. *)
Linked ==
    /\ \A i \in InstIds : insts[i] # NoRow => Exists(assocs[i[1]])
    /\ \A a \in AssocIds : Exists(assocs[a]) => Exists(masters[assocs[a].master])

(* The rows say that association a is one of master m, or that it was      *)
(* purged: identifiers are not used twice, and master_chore_id is never    *)
(* written again.                                                          *)
BelongsTo(a, m, rows) ==
    rows[a] # NoRow /\ (Exists(rows[a]) => rows[a].master = m)

(* A handler that generates works for an association of the master it      *)
(* holds, and a purge deletes associations of its master only.             *)
Attaches(r, rows) ==
    /\ r.at \in {"gen", "archive", "insert", "count"} =>
          BelongsTo(r.assoc, r.master, rows)
    /\ r.at = "purge" => \A a \in r.queue : BelongsTo(a, r.master, rows)

Attached == \A s \in Slots : Attaches(req[s], assocs)

(* The number of instances of each master. *)
Tally == [m \in Masters |-> Cardinality(InstancesOf(m))]

(* A copy of a master was counted when there were fewer instances, or as   *)
(* many; after its own insert a handler knows of one more.  A master that  *)
(* is being purged was there once.                                         *)
Lags(r, rows, tally) ==
    /\ \A m \in Masters : r.copy[m] # Keep =>
          /\ rows[m] # NoRow
          /\ Exists(rows[m]) =>
                /\ r.copy[m].occ <= tally[m]
                /\ r.at = "count" /\ r.master = m => r.copy[m].occ + 1 <= tally[m]
    /\ r.at = "purge" => rows[r.master] # NoRow

CopiesLag == \A s \in Slots : Lags(req[s], masters, Tally)

Base == TypeOK /\ Locals /\ Linked

CountInv == Base /\ Attached /\ CopiesLag /\ CountNeverOverstates

(* Whoever an update records as assigner assigns to somebody; and the      *)
(* instance it is about to write is the one it loaded, with a member if    *)
(* there was one then, or was purged together with its association.        *)
Remembers(r, rows, links) ==
    /\ r.upd.assigned_by \in Members => r.upd.member \in Members
    /\ r.at = "commit" =>
          IF rows[r.inst] = NoRow THEN links[r.inst[1]] = Gone
          ELSE r.row.member # None => rows[r.inst].member # None

Remembering == \A s \in Slots : Remembers(req[s], insts, assocs)

OwnInv == CountInv /\ Remembering /\ Ownership

-------------------------------------------------------------------------------
(* What holds besides when one request is served at a time; the clock, the *)
(* endpoints of masters and a restart may still come in between.           *)

OneAtATime == \A s, t \in Slots : s = t
NoPatch    == "patch_master" \notin Ops
NoRestart  == "restart" \notin Ops

(* Whoever sets an instance completed stamps it, whoever clears the stamp  *)
(* gives it another status.                                                *)
Coherent(u) ==
    /\ u.status = "completed" => u.completed = "stamped"
    /\ u.completed = "null" => u.status \in InstStatus \ {"completed"}

(* The row a handler loaded is still the row, and what it is to mark or to *)
(* put away is not completed.                                              *)
UpToDate(r) ==
    /\ Coherent(r.upd)
    /\ r.at = "commit" => insts[r.inst] = r.row
    /\ r.at \in {"expire", "overdue", "archive", "release"} =>
          \A i \in r.todo : insts[i] # NoRow => insts[i].status \in Superseded

UseInv == Base /\ (\A s \in Slots : UpToDate(req[s])) /\ CompletedIsStamped

(* What a sync knows to be overdue stays so. *)
Late(i) == i[2] < day \/ PastDueTime(i, masters[assocs[i[1]].master].tmpl, day, tod)

Marks(r) ==
    r.op = "sync" => /\ r.at \in {"expire", "overdue", "next", "gen", "archive", "insert", "count"}
                     /\ r.at = "expire" => \A i \in r.todo : i[2] < day
                     /\ r.at = "overdue" => \A i \in r.todo :
                          IF insts[i] = NoRow THEN assocs[i[1]] = Gone ELSE Late(i)

MarksInv == CountInv /\ \A s \in Slots : Marks(req[s])

(* The associations in force have been checked against those in force now. *)
Checked(r) ==
    r.at = "insert_assoc" =>
        AssociationAllowed(masters[r.master].tmpl.collab, r.member, Owners(r.master))

(* A handler's copy of a master is the row, status aside. *)
Current(r, m) ==
    /\ Exists(masters[m])
    /\ r.copy[m].tmpl = masters[m].tmpl /\ r.copy[m].occ = masters[m].occ

(* One more instance is within the limits of the copy c. *)
Room(c) == (c.tmpl.once => c.occ = 0) /\ (~c.tmpl.once => ~AtLimit(c))

Alone(m) == ~masters[m].tmpl.collab

(* A sync has read no master before it lists the associations; those it    *)
(* has still to visit are in force, and it has not read their master       *)
(* unless others share it.                                                 *)
Visits(r) ==
    /\ r.at \in {"expire", "overdue"} => r.copy = Idle.copy
    /\ r.at \in {"expire", "overdue", "next"} => r.assoc = None
    /\ r.at \in {"gen", "archive", "insert", "count"} => r.assoc \in InForce(r.master)
    /\ \A a \in r.queue \ {r.assoc} :
          /\ Exists(assocs[a]) /\ ~assocs[a].removed
          /\ Alone(assocs[a].master) => r.copy[assocs[a].master] = Keep

(* A copy has the row's template; that of a chore with one association is  *)
(* the row when an instance is made by it.                                 *)
Counts(r) ==
    /\ \A m \in Masters : r.copy[m] # Keep =>
          Exists(masters[m]) /\ r.copy[m].tmpl = masters[m].tmpl
    /\ r.at \in {"insert_assoc", "gen", "archive", "insert", "count"} /\ Alone(r.master) =>
          Current(r, r.master)
    /\ r.at \in {"archive", "insert", "count"} /\ Alone(r.master) => Room(r.copy[r.master])
    /\ r.op = "sync" \/ r.at \in {"expire", "overdue", "next"} => Visits(r)

(* The instances of a chore that are counted. *)
TallyRight(m) ==
    IF \E s \in Slots : At(s, "count") /\ req[s].master = m
    THEN Tally[m] = masters[m].occ + 1 ELSE Tally[m] = masters[m].occ

(* What a restart between an insert and its count would break. *)
Tallies ==
    /\ LimitRespected
    /\ \A m \in Masters : Exists(masters[m]) /\ Alone(m) => TallyRight(m)

BoardInv ==
    /\ MarksInv /\ AssociationRules
    /\ \A s \in Slots : Checked(req[s]) /\ Counts(req[s])
    /\ NoRestart => Tallies

(* Nobody sets a status back. *)
NoReopen   == {"revert", "reset", "status"} \cap Ops = {}

(* A rule goes on to no later a day than it will tomorrow, and skips none  *)
(* of its own.                                                             *)
InOrder ==
    \A t \in Templates : \A d, e \in Days : ~t.once /\ d < e =>
        /\ t.after[d] <= t.after[e]
        /\ e \in t.days => t.after[d] <= e

StillOpen(a) == Having(OfAssociation(a), Superseded)

Unmade(a) == \A i \in OfAssociation(a) : insts[i] = NoRow

Looping(r) == r.op = "sync" \/ r.at = "next"

(* The instance about to be made is the newest of its association, and     *)
(* nothing that was not selected to be archived before it is open.         *)
Follows(r) ==
    /\ r.upd.status \in {Keep, "completed", "archived"}
    /\ r.at \in {"archive", "insert"} => insts[r.inst] = NoRow
    /\ r.at \in {"archive", "insert"} /\ ~r.copy[r.master].tmpl.once =>
          r.inst[2] <= PeriodFor(r.copy[r.master].tmpl, day, tod)
    /\ r.at = "archive" => StillOpen(r.assoc) \subseteq r.todo
    /\ r.at = "insert" => StillOpen(r.assoc) = {}
    /\ \A m \in Masters : r.copy[m] # Keep /\ r.copy[m].tmpl.once /\ r.copy[m].occ = 0 =>
          /\ r.at \in {"gen", "archive", "insert"} /\ r.master = m => Unmade(r.assoc)
          /\ Looping(r) => \A a \in r.queue \ {r.assoc} :
                assocs[a].master = m => Unmade(a)

(* No instance is for a later period than the next one would be for, and a *)
(* one-time chore is counted as soon as it has an instance.                *)
Timely(m) ==
    /\ ~masters[m].tmpl.once =>
          \A i \in InstancesOf(m) : i[2] <= PeriodFor(masters[m].tmpl, day, tod)
    /\ masters[m].tmpl.once /\ masters[m].occ = 0 =>
          \A i \in InstancesOf(m) : \E s \in Slots : At(s, "count") /\ req[s].master = m

OpenInv ==
    /\ UseInv /\ BoardInv
    /\ \A s \in Slots : Follows(req[s])
    /\ \A m \in Masters : Exists(masters[m]) => Timely(m)
    /\ \A a \in AssocIds : \A i, j \in StillOpen(a) : i = j

-------------------------------------------------------------------------------
(* What holds of overlapping generations, any number of them, and wherever *)
(* they die.                                                               *)

StillToDo(a) == Having(OfAssociation(a), Startable)

(* The handler r is not about to leave instance i beside another that it   *)
(* makes: i is among those it archives first, or it makes none for a.      *)
Spares(r, a, i) ==
    /\ r.at = "archive" /\ r.assoc = a => i \in r.todo
    /\ r.at = "insert" => r.assoc # a

(* Each instance to do is put down to a request of its own that spares it: *)
(* to the one that made it, while that still runs.                         *)
Attributed(a) ==
    \E by \in [StillToDo(a) -> Slots] :
        /\ \A i, j \in StillToDo(a) : by[i] = by[j] => i = j
        /\ \A i \in StillToDo(a) : Spares(req[by[i]], a, i)

Recurring(a) == Exists(assocs[a]) /\ ~masters[assocs[a].master].tmpl.once

(* What a handler is about to write reopens nothing; its copies have the   *)
(* templates of the rows that are still there; and the instance it is      *)
(* about to make is for no later a period than the next one would be.      *)
Intends(r) ==
    /\ r.upd.status \in {Keep, "completed", "archived"}
    /\ \A m \in Masters : r.copy[m] # Keep /\ Exists(masters[m]) =>
          r.copy[m].tmpl = masters[m].tmpl
    /\ r.at \in {"archive", "insert"} /\ ~r.copy[r.master].tmpl.once =>
          r.inst[2] <= PeriodFor(r.copy[r.master].tmpl, day, tod)

(* No instance of a recurring chore is.                                    *)
Prompt(m) ==
    ~masters[m].tmpl.once =>
        \A i \in InstancesOf(m) : i[2] <= PeriodFor(masters[m].tmpl, day, tod)

PileInv ==
    /\ CountInv
    /\ \A s \in Slots : Intends(req[s])
    /\ \A m \in Masters : Exists(masters[m]) => Prompt(m)
    /\ \A a \in AssocIds : Recurring(a) => Attributed(a)

===============================================================================
