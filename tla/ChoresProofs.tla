----------------------------- MODULE ChoresProofs -----------------------------
(***************************************************************************)
(* occurrence_count never runs ahead of the instances there are, the       *)
(* chores service keeps the ledger of occurrences, and an instance stays   *)
(* whose it is.                                                            *)
(*                                                                         *)
(* CountNeverOverstates is not inductive: what a handler writes comes from *)
(* a copy of the master it read earlier.  CountInv adds what that copy     *)
(* still says (CopiesLag), whose association a handler works for           *)
(* (Attached), and the typing and foreign keys of Base.                    *)
(***************************************************************************)
EXTENDS ChoresTyping, FiniteSetTheorems

USE DEF Base, CountInv

-------------------------------------------------------------------------------
(* Counting instances. *)

(* The instances of a master are finitely many. *)
LEMMA FinitelyMany ==
    ASSUME NEW m \in Masters
    PROVE  /\ IsFiniteSet(InstancesOf(m))
           /\ Cardinality(InstancesOf(m)) \in Nat
<1>1. IsFiniteSet(AssocIds) /\ IsFiniteSet(Dates)
  BY BoundsAssumption, FS_Interval DEF AssocIds, Dates
<1>2. IsFiniteSet(InstIds)
  BY <1>1, FS_Product DEF InstIds
<1>3. InstancesOf(m) \in SUBSET InstIds
  BY DEF InstancesOf
<1>4. IsFiniteSet(InstancesOf(m))
  BY <1>2, <1>3, FS_Subset
<1>5. QED
  BY <1>4, FS_CardinalityType

(* The same, in the next state. *)
LEMMA FinitelyManyNext ==
    ASSUME NEW m \in Masters
    PROVE  /\ IsFiniteSet(InstancesOf(m)')
           /\ Cardinality(InstancesOf(m)') \in Nat
<1>1. IsFiniteSet(AssocIds) /\ IsFiniteSet(Dates)
  BY BoundsAssumption, FS_Interval DEF AssocIds, Dates
<1>2. IsFiniteSet(InstIds)
  BY <1>1, FS_Product DEF InstIds
<1>3. InstancesOf(m)' \in SUBSET InstIds
  BY DEF InstancesOf
<1>4. IsFiniteSet(InstancesOf(m)')
  BY <1>2, <1>3, FS_Subset
<1>5. QED
  BY <1>4, FS_CardinalityType

(* A step that moves no association to another master and neither adds nor *)
(* deletes instances leaves every master its instances.                    *)
LEMMA SameInstances ==
    ASSUME Base,
           \A a \in AssocIds : Exists(assocs[a]) =>
                Exists(assocs'[a]) /\ assocs'[a].master = assocs[a].master,
           \A i \in InstIds : insts'[i] = NoRow <=> insts[i] = NoRow
    PROVE  (\A m \in Masters : InstancesOf(m)' = InstancesOf(m)) /\ Tally' = Tally
<1>0. \A i \in InstIds : i[1] \in AssocIds
  BY DEF InstIds
<1>1. \A i \in InstIds : insts[i] # NoRow => assocs'[i[1]].master = assocs[i[1]].master
  BY <1>0 DEF Linked
<1>2. \A m \in Masters : InstancesOf(m)' = InstancesOf(m)
  BY <1>1 DEF InstancesOf
<1>3. QED
  BY <1>2 DEF Tally

-------------------------------------------------------------------------------
(* What a step of one handler does to the local state of the others. *)

(* A handler's copies keep lagging while no master is created anew under   *)
(* its identifier and no instance of a master that exists is lost.         *)
LEMMA Lagging ==
    ASSUME NEW r, NEW old, NEW new, NEW n \in [Masters -> Nat], NEW p \in [Masters -> Nat],
           r \in Request, LocalsOK(r), Lags(r, old, n),
           \A m \in Masters : old[m] # NoRow =>
                new[m] # NoRow /\ (Exists(new[m]) => Exists(old[m]) /\ n[m] <= p[m])
    PROVE  Lags(r, new, p)
<1>1. \A m \in Masters : r.copy[m] # Keep => r.copy[m].occ \in Nat
  BY DEF Request, Copy, MasterRow
<1>2. r.at = "purge" => r.master \in Masters
  BY DEF LocalsOK
<1>3. QED
  BY <1>1, <1>2 DEF Lags

(* A handler stays attached while associations keep their masters.         *)
LEMMA Attaching ==
    ASSUME NEW r \in Request, NEW old, NEW new, LocalsOK(r), Attaches(r, old),
           \A a \in AssocIds : old[a] # NoRow =>
                /\ new[a] # NoRow
                /\ Exists(new[a]) => Exists(old[a]) /\ new[a].master = old[a].master
    PROVE  Attaches(r, new)
BY DEF Request, LocalsOK, Attaches, BelongsTo

(* The tallies are numbers. *)
LEMMA Tallied == Tally \in [Masters -> Nat] /\ Tally' \in [Masters -> Nat]
BY FinitelyMany, FinitelyManyNext DEF Tally

(* One handler moves to local state r; associations and masters only come  *)
(* and go, and no instance of a master that exists is lost.                *)
LEMMA Evolving ==
    ASSUME CountInv, NEW s \in Slots, NEW r, Goto(s, r),
           Attaches(r, assocs'), Lags(r, masters', Tally'),
           \A a \in AssocIds : assocs[a] # NoRow =>
                /\ assocs'[a] # NoRow
                /\ Exists(assocs'[a]) =>
                      Exists(assocs[a]) /\ assocs'[a].master = assocs[a].master,
           \A m \in Masters : masters[m] # NoRow =>
                /\ masters'[m] # NoRow
                /\ Exists(masters'[m]) => Exists(masters[m]) /\ Tally[m] <= Tally'[m]
    PROVE  Attached' /\ CopiesLag'
<1>1. req'[s] = r /\ \A q \in Slots \ {s} : req'[q] = req[q]
  BY DEF Goto, TypeOK
<1>2. \A q \in Slots : /\ req[q] \in Request /\ LocalsOK(req[q])
                       /\ Attaches(req[q], assocs) /\ Lags(req[q], masters, Tally)
  BY DEF TypeOK, Locals, Attached, CopiesLag
<1>3. \A q \in Slots \ {s} : Attaches(req[q], assocs') /\ Lags(req[q], masters', Tally')
  BY <1>2, Tallied, Attaching, Lagging
<1>4. QED
  BY <1>1, <1>3 DEF Attached, CopiesLag

(* One handler moves to local state r, and the step changes nothing but    *)
(* columns of instances.                                                   *)
LEMMA Calm ==
    ASSUME CountInv, NEW s \in Slots, NEW r, Goto(s, r),
           Attaches(r, assocs), Lags(r, masters, Tally),
           UNCHANGED <<masters, assocs>>,
           \A i \in InstIds : insts'[i] = NoRow <=> insts[i] = NoRow
    PROVE  Attached' /\ CopiesLag' /\ CountNeverOverstates'
<1>1. (\A m \in Masters : InstancesOf(m)' = InstancesOf(m)) /\ Tally' = Tally
  BY SameInstances
<1>2. Attached' /\ CopiesLag'
  BY <1>1, Tallied, Evolving
<1>3. CountNeverOverstates'
  BY <1>1 DEF CountNeverOverstates
<1>4. QED
  BY <1>2, <1>3

(* A handler that is not generating, with the copies it had or none, is    *)
(* attached to nothing and lags as before.                                 *)
LEMMA Settled ==
    ASSUME CountInv, NEW s \in Slots, NEW r, r.copy \in {Idle.copy, req[s].copy},
           r.at \notin {"gen", "archive", "insert", "count", "purge"}
    PROVE  Attaches(r, assocs) /\ Lags(r, masters, Tally)
<1>1. Lags(req[s], masters, Tally)
  BY DEF CopiesLag
<1>2. \A m \in Masters : Idle.copy[m] = Keep
  BY DEF Idle
<1>3. QED
  BY <1>1, <1>2 DEF Attaches, Lags

(* The local state a generation resumes its caller with. *)
LEMMA ResumesSettled ==
    ASSUME CountInv, NEW s \in Slots, NEW i, Resume(s, i)
    PROVE  \E r : /\ Goto(s, r)
                  /\ r.copy \in {Idle.copy, req[s].copy}
                  /\ r.at \notin {"gen", "archive", "insert", "count", "purge"}
<1>1. req[s] \in Request
  BY DEF TypeOK
<1> DEFINE r1 == [req[s] EXCEPT !.at = "next", !.queue = Remaining(s), !.todo = {},
                                !.inst = None, !.assoc = None, !.master = None]
           r2 == [Idle EXCEPT !.op = "create_assoc", !.at = "load",
                              !.inst = i, !.upd = req[s].upd]
<1>2. Goto(s, r1) \/ Goto(s, r2) \/ Goto(s, Idle)
  BY DEF Resume, Finish
<1>3. r1.copy = req[s].copy /\ r1.at = "next"
  BY <1>1 DEF Request
<1>4. r2.copy = Idle.copy /\ r2.at = "load" /\ Idle.at = "idle"
  BY DEF Idle
<1> HIDE DEF r1, r2
<1>5. QED
  BY <1>2, <1>3, <1>4

-------------------------------------------------------------------------------
(* Requests arriving. *)

(* A request that begins with a fresh local state leaves the counters right. *)
LEMMA BeginsFresh ==
    ASSUME CountInv, NEW s \in Slots, NEW r, Goto(s, r), UNCHANGED <<tables, clock>>,
           r.copy = Idle.copy, r.at \in {"idle", "load", "release", "expire", "guard"}
    PROVE  Attached' /\ CopiesLag' /\ CountNeverOverstates'
<1>1. UNCHANGED <<masters, assocs, insts>>
  BY DEF tables
<1>2. QED
  BY <1>1, Settled, Calm

(* A request that updates one instance leaves the counters right. *)
LEMMA BeginUpdateKeepsCount ==
    ASSUME CountInv, NEW s \in Slots, NEW op, NEW i, NEW u, BeginUpdate(s, op, i, u)
    PROVE  Attached' /\ CopiesLag' /\ CountNeverOverstates'
<1> DEFINE r == [[Idle EXCEPT !.at = "load", !.inst = i, !.upd = u] EXCEPT !.op = op]
<1>1. r.copy = Idle.copy /\ r.at = "load"
  BY DEF Idle
<1>2. Goto(s, r) /\ UNCHANGED <<tables, clock>>
  BY DEF BeginUpdate, Begin
<1> HIDE DEF r
<1>3. QED
  BY <1>1, <1>2, BeginsFresh

(* A new association is checked: the handler holds a copy of its master.   *)
LEMMA CreateAssociationKeepsCount ==
    ASSUME CountInv, NEW s \in Slots, CreateAssociation(s)
    PROVE  Attached' /\ CopiesLag' /\ CountNeverOverstates'
<1>1. PICK m \in Masters, u \in Members \cup {None} :
        /\ Exists(masters[m])
        /\ \E upd \in AutoUpdates(u) :
              Begin(s, "create_assoc",
                    [Idle EXCEPT !.at = "insert_assoc", !.master = m, !.member = u,
                                 !.upd = upd, !.copy = [@ EXCEPT ![m] = masters[m]]])
  BY DEF CreateAssociation
<1>2. PICK upd \in AutoUpdates(u) :
        Begin(s, "create_assoc",
              [Idle EXCEPT !.at = "insert_assoc", !.master = m, !.member = u,
                           !.upd = upd, !.copy = [@ EXCEPT ![m] = masters[m]]])
  BY <1>1
<1> DEFINE r == [[Idle EXCEPT !.at = "insert_assoc", !.master = m, !.member = u,
                              !.upd = upd, !.copy = [@ EXCEPT ![m] = masters[m]]]
                   EXCEPT !.op = "create_assoc"]
<1>3. r.at = "insert_assoc" /\ r.copy = [Idle.copy EXCEPT ![m] = masters[m]]
  BY DEF Idle
<1>4. Goto(s, r) /\ UNCHANGED <<masters, assocs, insts>>
  BY <1>2 DEF Begin, tables
<1> HIDE DEF r
<1>5. Attaches(r, assocs)
  BY <1>3 DEF Attaches
<1>6. Lags(r, masters, Tally)
  <2>1. \A n \in Masters : r.copy[n] # Keep => n = m
    BY <1>3 DEF Idle
  <2>2. r.copy[m] = masters[m] /\ masters[m] # NoRow /\ masters[m].occ <= Tally[m]
    BY <1>1, <1>3 DEF Idle, Exists, CountNeverOverstates, Tally
  <2> QED BY <1>3, <2>1, <2>2 DEF Lags
<1>7. QED
  BY <1>4, <1>5, <1>6, Calm

(* A purge lists the associations of its master. *)
LEMMA PurgeMasterKeepsCount ==
    ASSUME CountInv, NEW s \in Slots, PurgeMaster(s)
    PROVE  Attached' /\ CopiesLag' /\ CountNeverOverstates'
<1>1. PICK m \in Masters :
        /\ Exists(masters[m])
        /\ Begin(s, "purge", [Idle EXCEPT !.at = "purge", !.master = m,
                                          !.queue = AssociationsOf(m)])
  BY DEF PurgeMaster
<1> DEFINE r == [[Idle EXCEPT !.at = "purge", !.master = m, !.queue = AssociationsOf(m)]
                   EXCEPT !.op = "purge"]
<1>2. r.at = "purge" /\ r.master = m /\ r.queue = AssociationsOf(m) /\ r.copy = Idle.copy
  BY DEF Idle
<1>3. Goto(s, r) /\ UNCHANGED <<masters, assocs, insts>>
  BY <1>1 DEF Begin, tables
<1> HIDE DEF r
<1>4. Attaches(r, assocs)
  BY <1>2 DEF Attaches, BelongsTo, AssociationsOf, Exists
<1>5. Lags(r, masters, Tally)
  BY <1>1, <1>2 DEF Lags, Idle, Exists
<1>6. QED
  BY <1>3, <1>4, <1>5, Calm

(* A request that arrives leaves the counters right. *)
LEMMA ArriveKeepsCount ==
    ASSUME CountInv, NEW s \in Slots, Arrive(s)
    PROVE  Attached' /\ CopiesLag' /\ CountNeverOverstates'
<1>1. CASE \E op, i, u : BeginUpdate(s, op, i, u)
  BY <1>1, BeginUpdateKeepsCount
<1>2. CASE DeleteAssociation(s)
  <2>1. PICK a \in AssocIds :
          Begin(s, "delete_assoc",
                [Idle EXCEPT !.at = "release", !.assoc = a,
                             !.todo = Having(OfAssociation(a), Startable)])
    BY <1>2 DEF DeleteAssociation
  <2> DEFINE r == [[Idle EXCEPT !.at = "release", !.assoc = a,
                                !.todo = Having(OfAssociation(a), Startable)]
                     EXCEPT !.op = "delete_assoc"]
  <2>2. r.copy = Idle.copy /\ r.at = "release"
    BY DEF Idle
  <2>3. Goto(s, r) /\ UNCHANGED <<tables, clock>>
    BY <2>1 DEF Begin
  <2> HIDE DEF r
  <2> QED BY <2>2, <2>3, BeginsFresh
<1>3. CASE Sync(s)
  <2> DEFINE r == [[Idle EXCEPT !.at = "expire", !.todo = Expired] EXCEPT !.op = "sync"]
  <2>1. r.copy = Idle.copy /\ r.at = "expire"
    BY DEF Idle
  <2>2. Goto(s, r) /\ UNCHANGED <<tables, clock>>
    BY <1>3 DEF Sync, Begin
  <2> HIDE DEF r
  <2> QED BY <2>1, <2>2, BeginsFresh
<1>4. CASE BulkArchive(s)
  <2>1. PICK batch \in SUBSET Masters :
          Begin(s, "bulk_archive",
                [Idle EXCEPT !.at = "guard", !.batch = batch, !.left = batch])
    BY <1>4 DEF BulkArchive
  <2> DEFINE r == [[Idle EXCEPT !.at = "guard", !.batch = batch, !.left = batch]
                     EXCEPT !.op = "bulk_archive"]
  <2>2. r.copy = Idle.copy /\ r.at = "guard"
    BY DEF Idle
  <2>3. Goto(s, r) /\ UNCHANGED <<tables, clock>>
    BY <2>1 DEF Begin
  <2> HIDE DEF r
  <2> QED BY <2>2, <2>3, BeginsFresh
<1>5. ASSUME ~CreateAssociation(s), ~PurgeMaster(s), ~DeleteAssociation(s), ~Sync(s),
             ~BulkArchive(s)
      PROVE  \E op, i, u : BeginUpdate(s, op, i, u)
  BY <1>5 DEF Arrive, ClaimInstance, AssignInstance, RevertInstanceStatus, ResetInstance,
              UpdateInstanceStatus, DeleteInstance
<1>6. QED
  BY <1>1, <1>2, <1>3, <1>4, <1>5, CreateAssociationKeepsCount, PurgeMasterKeepsCount

-------------------------------------------------------------------------------
(* Handlers going on without touching a counter or the number of instances. *)

(* What a generation resumes its caller with leaves the counters right.    *)
LEMMA ResumeKeepsCount ==
    ASSUME CountInv, NEW s \in Slots, NEW i, Resume(s, i), UNCHANGED <<masters, assocs, insts>>
    PROVE  Attached' /\ CopiesLag' /\ CountNeverOverstates'
<1>1. PICK r : /\ Goto(s, r)
               /\ r.copy \in {Idle.copy, req[s].copy}
               /\ r.at \notin {"gen", "archive", "insert", "count", "purge"}
  BY ResumesSettled
<1>2. Attaches(r, assocs) /\ Lags(r, masters, Tally)
  BY <1>1, Settled
<1>3. QED
  BY <1>1, <1>2, Calm

(* An update of one instance leaves the counters right. *)
LEMMA UpdateKeepsCount ==
    ASSUME CountInv, NEW s \in Slots, LoadRow(s) \/ CommitRow(s)
    PROVE  Attached' /\ CopiesLag' /\ CountNeverOverstates'
<1>1. req[s] \in Request /\ LocalsOK(req[s])
  BY DEF TypeOK, Locals
<1>2. CASE LoadRow(s)
  <2> DEFINE r == [req[s] EXCEPT !.at = "commit", !.row = insts[req[s].inst]]
  <2>1. r.copy = req[s].copy /\ r.at = "commit"
    BY <1>1 DEF Request
  <2>2. Goto(s, r) /\ UNCHANGED <<masters, assocs, insts>>
    BY <1>2 DEF LoadRow, tables
  <2> HIDE DEF r
  <2> QED BY <2>1, <2>2, Settled, Calm
<1>3. CASE CommitRow(s)
  <2> DEFINE r == [Idle EXCEPT !.op = req[s].op, !.at = "lookup", !.assoc = req[s].inst[1]]
  <2>1. r.copy = Idle.copy /\ r.at = "lookup" /\ Idle.at = "idle"
    BY DEF Idle
  <2>2. Goto(s, r) \/ Goto(s, Idle)
    BY <1>3 DEF CommitRow, Finish
  <2>3. req[s].inst \in InstIds /\ req[s].row \in InstRow /\ req[s].upd \in Update
    BY <1>1, <1>3 DEF CommitRow, At, LocalsOK, Request
  <2>4. insts[req[s].inst] \in InstRow
    BY <1>3, <2>3, RowsTyped DEF CommitRow
  <2>5. Merged(s) \in InstRow
    BY <2>3, <2>4, WrittenTyped DEF Merged
  <2>6. \A i \in InstIds : insts'[i] = NoRow <=> insts[i] = NoRow
    BY <1>3, <2>3, <2>5, SentinelAssumption DEF CommitRow, TypeOK
  <2> HIDE DEF r
  <2> QED BY <1>3, <2>1, <2>2, <2>6, Settled, Calm DEF CommitRow
<1>4. QED
  BY <1>2, <1>3

(* A completion reads its association's master: a copy that is up to date. *)
LEMMA LookupKeepsCount ==
    ASSUME CountInv, NEW s \in Slots, LookupMaster(s)
    PROVE  Attached' /\ CopiesLag' /\ CountNeverOverstates'
<1>1. req[s] \in Request /\ req[s].assoc \in AssocIds
  BY DEF TypeOK, Locals, LocalsOK, LookupMaster, At
<1> DEFINE m == assocs[req[s].assoc].master
           r == [req[s] EXCEPT !.at = "gen", !.master = m,
                               !.copy = [@ EXCEPT ![m] = masters[m]]]
<1>2. Exists(assocs[req[s].assoc]) /\ m \in Masters /\ Exists(masters[m])
  BY <1>1, RowsTyped DEF LookupMaster, Linked, AssocRow
<1>3. /\ r.at = "gen" /\ r.assoc = req[s].assoc /\ r.master = m
      /\ r.copy = [req[s].copy EXCEPT ![m] = masters[m]]
  BY <1>1 DEF Request
<1>4. Goto(s, r) \/ Goto(s, Idle)
  BY DEF LookupMaster, Finish
<1>5. UNCHANGED <<masters, assocs, insts>>
  BY DEF LookupMaster, tables
<1> HIDE DEF r
<1>6. Attaches(r, assocs)
  BY <1>2, <1>3 DEF Attaches, BelongsTo, Exists
<1>7. Lags(r, masters, Tally)
  <2>1. Lags(req[s], masters, Tally)
    BY DEF CopiesLag
  <2>2. masters[m].occ <= Tally[m]
    BY <1>2 DEF CountNeverOverstates, Tally
  <2>3. r.copy[m] = masters[m] /\ \A n \in Masters \ {m} : r.copy[n] = req[s].copy[n]
    BY <1>1, <1>2, <1>3 DEF Request
  <2> HIDE DEF m
  <2> QED BY <1>2, <1>3, <2>1, <2>2, <2>3 DEF Lags, Exists
<1>8. Idle.copy \in {Idle.copy, req[s].copy} /\ Idle.at = "idle"
  BY DEF Idle
<1>9. QED
  BY <1>4, <1>5, <1>6, <1>7, <1>8, Settled, Calm

(* A generation that plans an instance, or none, leaves the counters right. *)
LEMMA PlanKeepsCount ==
    ASSUME CountInv, NEW s \in Slots, PlanInstance(s)
    PROVE  Attached' /\ CopiesLag' /\ CountNeverOverstates'
<1>1. req[s] \in Request /\ req[s].at = "gen"
  BY DEF TypeOK, PlanInstance, At
<1> DEFINE c == Held(s)
           p == PeriodFor(c.tmpl, day, tod)
           i == <<req[s].assoc, p>>
           l == IF c.tmpl.once THEN "insert" ELSE "archive"
           ids == IF c.tmpl.once THEN {} ELSE OldInstances(req[s].assoc, p)
           r == [req[s] EXCEPT !.at = l, !.inst = i, !.todo = ids]
<1>2. Resume(s, None) \/ Resume(s, i) \/ Goto(s, r)
  BY DEF PlanInstance
<1>3. UNCHANGED <<masters, assocs, insts>>
  BY DEF PlanInstance, tables
<1>4. l \in {"insert", "archive"}
  OBVIOUS
<1> HIDE DEF l, ids, i, p, c
<1>5. /\ r.at = l /\ r.assoc = req[s].assoc /\ r.master = req[s].master
      /\ r.copy = req[s].copy
  BY <1>1 DEF Request
<1> HIDE DEF r
<1>6. Attaches(req[s], assocs) /\ Lags(req[s], masters, Tally)
  BY DEF Attached, CopiesLag
<1>7. Attaches(r, assocs) /\ Lags(r, masters, Tally)
  BY <1>1, <1>4, <1>5, <1>6 DEF Attaches, Lags
<1>8. QED
  BY <1>2, <1>3, <1>7, ResumeKeepsCount, Calm

(* Archiving older instances, for a new period or with their association,  *)
(* leaves the counters right.                                              *)
LEMMA ArchiveKeepsCount ==
    ASSUME CountInv, NEW s \in Slots, ArchiveOld(s) \/ ReleaseInstances(s)
    PROVE  Attached' /\ CopiesLag' /\ CountNeverOverstates'
<1>1. req[s] \in Request /\ req[s].at \in {"archive", "release"}
  BY DEF TypeOK, ArchiveOld, ReleaseInstances, At
<1>2. req[s].todo \in SUBSET InstIds /\ "archived" \in InstStatus
  BY <1>1 DEF Request, InstStatus
<1>3. \A i \in InstIds : insts'[i] = NoRow <=> insts[i] = NoRow
  BY <1>2, SettingStatuses DEF ArchiveOld, ReleaseInstances
<1>4. UNCHANGED <<masters, assocs>>
  BY DEF ArchiveOld, ReleaseInstances
<1>5. CASE ArchiveOld(s)
  <2> DEFINE r == [req[s] EXCEPT !.at = "insert", !.todo = {}]
  <2>1. /\ r.at = "insert" /\ r.assoc = req[s].assoc /\ r.master = req[s].master
        /\ r.copy = req[s].copy
    BY <1>1 DEF Request
  <2>2. Goto(s, r) /\ req[s].at = "archive"
    BY <1>5 DEF ArchiveOld, At
  <2> HIDE DEF r
  <2>3. Attaches(req[s], assocs) /\ Lags(req[s], masters, Tally)
    BY DEF Attached, CopiesLag
  <2>4. Attaches(r, assocs) /\ Lags(r, masters, Tally)
    BY <2>1, <2>2, <2>3 DEF Attaches, Lags
  <2> QED BY <1>3, <1>4, <2>2, <2>4, Calm
<1>6. CASE ReleaseInstances(s)
  <2> DEFINE r == [req[s] EXCEPT !.at = "remove", !.todo = {}]
  <2>1. r.copy = req[s].copy /\ r.at = "remove"
    BY <1>1 DEF Request
  <2>2. Goto(s, r)
    BY <1>6 DEF ReleaseInstances
  <2> HIDE DEF r
  <2> QED BY <1>3, <1>4, <2>1, <2>2, Settled, Calm
<1>7. QED
  BY <1>5, <1>6

(* One pass of a loop over instances leaves the counters right. *)
LEMMA MarkingKeepsCount ==
    ASSUME CountInv, NEW s \in Slots, NEW x \in InstStatus, MarkOne(s, x),
           req[s].at \in {"expire", "overdue", "guard"}
    PROVE  Attached' /\ CopiesLag' /\ CountNeverOverstates'
<1> DEFINE r == [req[s] EXCEPT !.todo = req'[s].todo]
<1>1. req[s] \in Request
  BY DEF TypeOK
<1>2. /\ UNCHANGED <<masters, assocs>>
      /\ \A i \in InstIds : insts'[i] = NoRow <=> insts[i] = NoRow
      /\ Goto(s, r)
  BY Marking
<1>3. r.copy = req[s].copy /\ r.at = req[s].at
  BY <1>1 DEF Request
<1> HIDE DEF r
<1>4. QED
  BY <1>2, <1>3, Settled, Calm

(* The steps of a sync, and of a bulk archiving, that only plan or mark    *)
(* leave the counters right.                                               *)
LEMMA LoopsKeepCount ==
    ASSUME CountInv, NEW s \in Slots,
           \/ MarkMissed(s) \/ ListOverdue(s) \/ MarkOverdue(s) \/ ListAssociations(s)
           \/ GuardMaster(s) \/ CascadeArchive(s)
    PROVE  Attached' /\ CopiesLag' /\ CountNeverOverstates'
<1>1. req[s] \in Request
  BY DEF TypeOK
<1>2. {"missed", "overdue", "archived"} \subseteq InstStatus
  BY DEF InstStatus
<1>3. CASE MarkMissed(s) \/ MarkOverdue(s) \/ CascadeArchive(s)
  BY <1>2, <1>3, MarkingKeepsCount DEF MarkMissed, MarkOverdue, CascadeArchive, At
<1>4. CASE ListOverdue(s)
  <2> DEFINE r == [req[s] EXCEPT !.at = "overdue", !.todo = Overdue]
  <2>1. r.copy = req[s].copy /\ r.at = "overdue"
    BY <1>1 DEF Request
  <2>2. Goto(s, r) /\ UNCHANGED <<masters, assocs, insts>>
    BY <1>4 DEF ListOverdue, tables
  <2> HIDE DEF r
  <2> QED BY <2>1, <2>2, Settled, Calm
<1>5. CASE ListAssociations(s)
  <2> DEFINE all == UNION {InForce(m) : m \in Masters}
             r == [req[s] EXCEPT !.at = "next", !.queue = all]
  <2>1. Goto(s, r) \/ Goto(s, Idle)
    BY <1>5 DEF ListAssociations, Finish
  <2> HIDE DEF all
  <2>2. r.copy = req[s].copy /\ r.at = "next" /\ Idle.at = "idle"
    BY <1>1 DEF Request, Idle
  <2>3. UNCHANGED <<masters, assocs, insts>>
    BY <1>5 DEF ListAssociations, tables
  <2> HIDE DEF r
  <2> QED BY <2>1, <2>2, <2>3, Settled, Calm
<1>6. CASE GuardMaster(s)
  <2>1. PICK m \in req[s].left :
          Goto(s, [req[s] EXCEPT !.left = @ \ {m},
                                 !.todo = Having(InstancesOf(m), Finished)])
    BY <1>6 DEF GuardMaster
  <2> DEFINE r == [req[s] EXCEPT !.left = @ \ {m},
                                 !.todo = Having(InstancesOf(m), Finished)]
  <2>2. r.copy = req[s].copy /\ r.at = "guard"
    BY <1>1, <1>6 DEF Request, GuardMaster, At
  <2>3. Goto(s, r) /\ UNCHANGED <<masters, assocs, insts>>
    BY <1>6, <2>1 DEF GuardMaster, tables
  <2> HIDE DEF r
  <2> QED BY <2>2, <2>3, Settled, Calm
<1>7. QED
  BY <1>3, <1>4, <1>5, <1>6

(* A sync that goes on to its next association reads the master at most    *)
(* once: its copy is up to date or older, and never counts too much.       *)
LEMMA NextKeepsCount ==
    ASSUME CountInv, NEW s \in Slots, NextAssociation(s)
    PROVE  Attached' /\ CopiesLag' /\ CountNeverOverstates'
<1>1. req[s] \in Request /\ req[s].at = "next"
  BY DEF TypeOK, NextAssociation, At
<1>2. PICK a \in req[s].queue :
        LET m == assocs[a].master
            c == IF req[s].copy[m] = Keep THEN masters[m] ELSE req[s].copy[m]
            rest == req[s].queue \ {a}
        IN  IF Exists(assocs[a]) /\ c.status = "active"
            THEN Goto(s, [req[s] EXCEPT !.at = "gen", !.assoc = a, !.master = m,
                                        !.copy = [@ EXCEPT ![m] = c]])
            ELSE IF rest = {} THEN Finish(s)
            ELSE Goto(s, [req[s] EXCEPT !.queue = rest,
                                        !.copy = IF Exists(assocs[a])
                                                 THEN [@ EXCEPT ![m] = c]
                                                 ELSE @])
  BY DEF NextAssociation
<1> DEFINE m == assocs[a].master
           c == IF req[s].copy[m] = Keep THEN masters[m] ELSE req[s].copy[m]
           held == [req[s].copy EXCEPT ![m] = c]
           rest == req[s].queue \ {a}
           kept == IF Exists(assocs[a]) THEN held ELSE req[s].copy
           r1 == [req[s] EXCEPT !.at = "gen", !.assoc = a, !.master = m, !.copy = held]
           r2 == [req[s] EXCEPT !.queue = rest, !.copy = kept]
<1>3. \/ Exists(assocs[a]) /\ Goto(s, r1)
      \/ Goto(s, Idle)
      \/ Goto(s, r2)
  <2>1. /\ r1 = [req[s] EXCEPT !.at = "gen", !.assoc = a, !.master = m,
                               !.copy = [@ EXCEPT ![m] = c]]
        /\ r2 = [req[s] EXCEPT !.queue = rest,
                               !.copy = IF Exists(assocs[a])
                                        THEN [@ EXCEPT ![m] = c]
                                        ELSE @]
    BY <1>1 DEF Request
  <2> HIDE DEF r1, r2
  <2> QED BY <1>2, <2>1 DEF Finish
<1>4. UNCHANGED <<masters, assocs, insts>>
  BY DEF NextAssociation, tables
<1>5. /\ r1.at = "gen" /\ r1.assoc = a /\ r1.master = m /\ r1.copy = held
      /\ r2.at = "next" /\ r2.copy = kept
  <2> HIDE DEF held, kept, m, rest
  <2> QED BY <1>1 DEF Request
<1>6. Exists(assocs[a]) => assocs[a] # NoRow /\ m \in Masters /\ Exists(masters[m])
  <2>1. a \in AssocIds
    BY <1>1 DEF Request
  <2> QED BY <2>1, RowsTyped DEF Linked, AssocRow, Exists
<1>7. Exists(assocs[a]) =>
        \A n \in Masters : held[n] # Keep =>
          masters[n] # NoRow /\ (Exists(masters[n]) => held[n].occ <= Tally[n])
  <2>1. SUFFICES ASSUME Exists(assocs[a]), NEW n \in Masters, held[n] # Keep
                 PROVE  masters[n] # NoRow /\ (Exists(masters[n]) => held[n].occ <= Tally[n])
    OBVIOUS
  <2>2. Lags(req[s], masters, Tally)
    BY DEF CopiesLag
  <2>3. Exists(masters[n]) => masters[n].occ <= Tally[n]
    BY DEF CountNeverOverstates, Tally
  <2>4. CASE n = m /\ req[s].copy[m] = Keep
    <3>1. held[n] = masters[n]
      BY <1>1, <1>6, <2>1, <2>4 DEF Request
    <3> HIDE DEF held, m
    <3> QED BY <1>6, <2>1, <2>3, <2>4, <3>1 DEF Exists
  <2>5. CASE ~(n = m /\ req[s].copy[m] = Keep)
    <3>1. held[n] = req[s].copy[n]
      BY <1>1, <1>6, <2>1, <2>5 DEF Request
    <3> HIDE DEF held, m
    <3> QED BY <2>1, <2>2, <3>1 DEF Lags
  <2> QED BY <2>4, <2>5
<1>5a. kept = IF Exists(assocs[a]) THEN held ELSE req[s].copy
  OBVIOUS
<1> HIDE DEF r1, r2, held, m, kept, rest, c
<1>8. Exists(assocs[a]) => Attaches(r1, assocs) /\ Lags(r1, masters, Tally)
  <2>1. Exists(assocs[a]) => Attaches(r1, assocs)
    BY <1>5, <1>6 DEF Attaches, BelongsTo, m
  <2>2. Exists(assocs[a]) => Lags(r1, masters, Tally)
    BY <1>5, <1>7 DEF Lags
  <2> QED BY <2>1, <2>2
<1>9. Attaches(r2, assocs) /\ Lags(r2, masters, Tally)
  <2>1. Attaches(r2, assocs)
    BY <1>5 DEF Attaches
  <2>2. CASE Exists(assocs[a])
    BY <1>5, <1>5a, <1>7, <2>1, <2>2 DEF Lags
  <2>3. CASE ~Exists(assocs[a])
    <3>1. Lags(req[s], masters, Tally) /\ r2.copy = req[s].copy
      BY <1>5, <1>5a, <2>3 DEF CopiesLag
    <3> QED BY <1>5, <2>1, <3>1 DEF Lags
  <2> QED BY <2>1, <2>2, <2>3
<1>10. Idle.copy \in {Idle.copy, req[s].copy} /\ Idle.at = "idle"
  BY DEF Idle
<1>11. QED
  BY <1>3, <1>4, <1>8, <1>9, <1>10, Settled, Calm

-------------------------------------------------------------------------------
(* Handlers that insert an instance, count it, or change associations.     *)

(* An instance inserted for association a is one more of its master's, and *)
(* only of its master's.                                                   *)
LEMMA OneMore ==
    ASSUME CountInv, NEW i \in InstIds, insts[i] = NoRow, Exists(assocs[i[1]]),
           NEW row \in InstRow, insts' = [insts EXCEPT ![i] = row], UNCHANGED assocs
    PROVE  /\ Tally'[assocs[i[1]].master] = Tally[assocs[i[1]].master] + 1
           /\ \A m \in Masters : Tally[m] <= Tally'[m]
           /\ \A m \in Masters :
                InstancesOf(m)' = IF m = assocs[i[1]].master
                                  THEN InstancesOf(m) \cup {i} ELSE InstancesOf(m)
<1>1. row # NoRow
  BY SentinelAssumption
<1>2. \A j \in InstIds : insts'[j] = IF j = i THEN row ELSE insts[j]
  BY DEF TypeOK
<1>3. \A m \in Masters :
        InstancesOf(m)' = IF m = assocs[i[1]].master
                          THEN InstancesOf(m) \cup {i} ELSE InstancesOf(m)
  BY <1>1, <1>2 DEF InstancesOf
<1>4. \A m \in Masters : i \notin InstancesOf(m)
  BY DEF InstancesOf
<1>5. i[1] \in AssocIds
  BY DEF InstIds
<1>6. assocs[i[1]].master \in Masters
  BY <1>5, RowsTyped DEF AssocRow
<1>7. \A m \in Masters :
        Cardinality(InstancesOf(m) \cup {i}) = Cardinality(InstancesOf(m)) + 1
  BY <1>4, FinitelyMany, FS_AddElement
<1>8. \A m \in Masters : Tally[m] \in Nat /\ Tally[m] = Cardinality(InstancesOf(m))
  BY FinitelyMany DEF Tally
<1>9. \A m \in Masters : Tally'[m] = Cardinality(InstancesOf(m)')
  BY DEF Tally
<1>10. \A m \in Masters :
        Tally'[m] = IF m = assocs[i[1]].master THEN Tally[m] + 1 ELSE Tally[m]
  BY <1>3, <1>7, <1>8, <1>9
<1>11. QED
  BY <1>3, <1>6, <1>8, <1>10

(* Inserting an instance leaves the counters right, and lets its handler   *)
(* count one more than its copy says.                                      *)
LEMMA InsertKeepsCount ==
    ASSUME CountInv, NEW s \in Slots, InsertInstance(s)
    PROVE  Attached' /\ CopiesLag' /\ CountNeverOverstates'
<1>1. req[s] \in Request /\ LocalsOK(req[s]) /\ req[s].at = "insert"
  BY DEF TypeOK, Locals, InsertInstance, At
<1> DEFINE i == req[s].inst
           a == assocs[i[1]]
           m == req[s].master
           r == [req[s] EXCEPT !.at = "count"]
<1>2. i \in InstIds /\ i[1] \in AssocIds /\ i[1] = req[s].assoc /\ m \in Masters
  BY <1>1 DEF LocalsOK, InstIds
<1>3. CASE Resume(s, None) /\ UNCHANGED insts
  BY <1>3, ResumeKeepsCount DEF InsertInstance
<1>4. CASE /\ Exists(a) /\ insts[i] = NoRow
           /\ insts' = [insts EXCEPT ![i] = NewInstance(a)] /\ Goto(s, r)
  <2>1. NewInstance(a) \in InstRow
    BY <1>2, <1>4, RowsTyped DEF NewInstance, AssocRow, InstRow, InstStatus, Stamp
  <2>2. UNCHANGED <<masters, assocs>>
    BY DEF InsertInstance
  <2>3. Attaches(req[s], assocs) /\ Lags(req[s], masters, Tally)
    BY DEF Attached, CopiesLag
  <2>4. a.master = m
    BY <1>1, <1>2, <1>4, <2>3 DEF Attaches, BelongsTo
  <2>5. Tally'[m] = Tally[m] + 1 /\ \A n \in Masters : Tally[n] <= Tally'[n]
    BY <1>2, <1>4, <2>1, <2>2, <2>4, OneMore
  <2>6. /\ r.at = "count" /\ r.assoc = req[s].assoc /\ r.master = m
        /\ r.copy = req[s].copy
    BY <1>1 DEF Request
  <2>7. \A n \in Masters : r.copy[n] # Keep => r.copy[n].occ \in Nat
    BY <1>1, <2>6 DEF Request, Copy, MasterRow
  <2> HIDE DEF r
  <2>8. Attaches(r, assocs')
    BY <1>1, <2>2, <2>3, <2>6 DEF Attaches
  <2>9. Lags(r, masters', Tally')
    BY <1>2, <2>2, <2>3, <2>5, <2>6, <2>7, Tallied DEF Lags
  <2>10. Attached' /\ CopiesLag'
    BY <1>4, <2>2, <2>5, <2>8, <2>9, Evolving
  <2>11. CountNeverOverstates'
    <3>1. \A n \in Masters : Exists(masters[n]) => masters[n].occ \in Nat
      BY RowsTyped DEF MasterRow
    <3>2. \A n \in Masters : Exists(masters[n]) => masters[n].occ <= Tally[n]
      BY DEF CountNeverOverstates, Tally
    <3>3. \A n \in Masters : Tally'[n] = Cardinality(InstancesOf(n))'
      BY DEF Tally
    <3> QED BY <2>2, <2>5, <3>1, <3>2, <3>3, Tallied DEF CountNeverOverstates
  <2> QED BY <2>10, <2>11
<1>5. QED
  BY <1>3, <1>4 DEF InsertInstance

(* What a handler counts is at most what its own insert left behind. *)
LEMMA CountKeepsCount ==
    ASSUME CountInv, NEW s \in Slots, CountInstance(s)
    PROVE  Attached' /\ CopiesLag' /\ CountNeverOverstates'
<1>1. req[s] \in Request /\ LocalsOK(req[s]) /\ req[s].at = "count"
  BY DEF TypeOK, Locals, CountInstance, At
<1> DEFINE m == req[s].master
           c == req[s].copy[m]
<1>2. m \in Masters /\ c \in MasterRow /\ Held(s) = c /\ Exists(masters[m])
  BY <1>1 DEF LocalsOK, Held, CountInstance
<1>3. c.occ \in Nat /\ c.occ + 1 <= Tally[m]
  <2>1. Lags(req[s], masters, Tally) /\ c # Keep
    BY <1>2, SentinelAssumption DEF CopiesLag
  <2> QED BY <1>1, <1>2, <2>1 DEF Lags, MasterRow
<1>4. CountAfter(c) <= Tally[m] /\ CountAfter(c) \in Nat
  BY <1>2, <1>3, Tallied DEF CountAfter
<1>5. masters[m] \in MasterRow
  BY <1>2, RowsTyped
<1>6. \A n \in Masters :
        masters'[n] = IF n = m THEN [masters[m] EXCEPT !.occ = CountAfter(c)] ELSE masters[n]
  BY <1>2 DEF CountInstance, TypeOK
<1>7. [masters[m] EXCEPT !.occ = CountAfter(c)] \in MasterRow
  BY <1>4, <1>5 DEF MasterRow
<1>8. \A n \in Masters : masters[n] # NoRow =>
        masters'[n] # NoRow /\ (Exists(masters'[n]) => Exists(masters[n]))
  BY <1>2, <1>6, <1>7, SentinelAssumption
<1>9. UNCHANGED <<assocs, insts>>
  BY DEF CountInstance
<1>10. Tally' = Tally /\ \A n \in Masters : InstancesOf(n)' = InstancesOf(n)
  BY <1>9, SameInstances
<1>11. PICK r : /\ Goto(s, r)
                /\ r.copy \in {Idle.copy, req[s].copy}
                /\ r.at \notin {"gen", "archive", "insert", "count", "purge"}
  BY ResumesSettled DEF CountInstance
<1>12. Attaches(r, assocs) /\ Lags(r, masters, Tally)
  BY <1>11, Settled
<1>13. Lags(r, masters', Tally')
  BY <1>8, <1>10, <1>11, <1>12 DEF Lags
<1>14. Attached' /\ CopiesLag'
  BY <1>8, <1>9, <1>10, <1>11, <1>12, <1>13, Tallied, Evolving
<1>15. CountNeverOverstates'
  <2>1. SUFFICES ASSUME NEW n \in Masters, Exists(masters'[n])
                 PROVE  masters'[n].occ <= Tally[n]
    BY <1>10 DEF CountNeverOverstates, Tally
  <2>2. CASE n = m
    <3>1. masters'[n].occ = CountAfter(c)
      BY <1>2, <1>5, <1>6, <2>2 DEF MasterRow
    <3> QED BY <1>4, <2>2, <3>1
  <2>3. CASE n # m
    BY <1>6, <2>1, <2>3 DEF CountNeverOverstates, Tally
  <2> QED BY <2>2, <2>3
<1>16. QED
  BY <1>14, <1>15

(* A new association gets an identifier nobody worked for. *)
LEMMA InsertAssociationKeepsCount ==
    ASSUME CountInv, NEW s \in Slots, InsertAssociation(s)
    PROVE  Attached' /\ CopiesLag' /\ CountNeverOverstates'
<1>1. req[s] \in Request /\ req[s].at = "insert_assoc"
  BY DEF TypeOK, InsertAssociation, At
<1>2. PICK a \in AssocIds :
        /\ assocs[a] = NoRow
        /\ assocs' = [assocs EXCEPT ![a] =
              [master |-> req[s].master, member |-> req[s].member, removed |-> FALSE]]
        /\ Goto(s, [req[s] EXCEPT !.at = "gen", !.assoc = a])
  BY DEF InsertAssociation, NextAssoc
<1> DEFINE row == [master |-> req[s].master, member |-> req[s].member, removed |-> FALSE]
           r == [req[s] EXCEPT !.at = "gen", !.assoc = a]
<1>3. r.at = "gen" /\ r.assoc = a /\ r.master = req[s].master /\ r.copy = req[s].copy
  BY <1>1 DEF Request
<1>4. row \in AssocRow
  BY <1>1 DEF Request, AssocRow, TypeOK, Locals, LocalsOK
<1>5. row # NoRow /\ row.master = req[s].master
  BY <1>4, SentinelAssumption
<1>6. \A b \in AssocIds : assocs'[b] = IF b = a THEN row ELSE assocs[b]
  BY <1>2 DEF TypeOK
<1>7. UNCHANGED <<masters, insts>>
  BY DEF InsertAssociation
<1> HIDE DEF r, row
<1>8. Attaches(r, assocs')
  BY <1>3, <1>5, <1>6 DEF Attaches, BelongsTo
<1>9. \A b \in AssocIds : Exists(assocs[b]) =>
        Exists(assocs'[b]) /\ assocs'[b].master = assocs[b].master
  BY <1>2, <1>6 DEF Exists
<1>10. Tally' = Tally /\ \A n \in Masters : InstancesOf(n)' = InstancesOf(n)
  BY <1>7, <1>9, SameInstances
<1>11. Lags(r, masters', Tally')
  BY <1>1, <1>3, <1>7, <1>10 DEF CopiesLag, Lags
<1>12. Goto(s, r)
  BY <1>2 DEF r
<1>13. Attached' /\ CopiesLag'
  <2>1. \A b \in AssocIds : assocs[b] # NoRow => assocs'[b] = assocs[b]
    BY <1>2, <1>6
  <2>2. \A n \in Masters : Tally[n] <= Tally'[n]
    BY <1>10, Tallied
  <2> QED BY <1>7, <1>8, <1>11, <1>12, <2>1, <2>2, Evolving
<1>14. CountNeverOverstates'
  BY <1>7, <1>10 DEF CountNeverOverstates
<1>15. QED
  BY <1>13, <1>14

(* A removed association keeps its master. *)
LEMMA RemoveAssociationKeepsCount ==
    ASSUME CountInv, NEW s \in Slots, RemoveAssociation(s)
    PROVE  Attached' /\ CopiesLag' /\ CountNeverOverstates'
<1> DEFINE a == req[s].assoc
<1>1. a \in AssocIds
  BY DEF TypeOK, Locals, LocalsOK, RemoveAssociation, At
<1>2. UNCHANGED <<masters, insts>> /\ Goto(s, Idle)
  BY DEF RemoveAssociation, Finish
<1>3. \A b \in AssocIds :
        /\ assocs[b] # NoRow => assocs'[b] # NoRow
        /\ Exists(assocs'[b]) <=> Exists(assocs[b])
        /\ Exists(assocs[b]) => assocs'[b].master = assocs[b].master
  <2>1. CASE ~Exists(assocs[a])
    BY <2>1 DEF RemoveAssociation
  <2>2. CASE Exists(assocs[a])
    <3> DEFINE row == [assocs[a] EXCEPT !.removed = TRUE]
    <3>1. row \in AssocRow /\ row.master = assocs[a].master
      BY <1>1, <2>2, RowsTyped DEF AssocRow
    <3>2. Exists(row)
      BY <3>1, SentinelAssumption DEF Exists
    <3>3. \A b \in AssocIds : assocs'[b] = IF b = a THEN row ELSE assocs[b]
      BY <2>2 DEF RemoveAssociation, TypeOK
    <3> HIDE DEF row, a
    <3> QED BY <2>2, <3>1, <3>2, <3>3 DEF Exists
  <2> QED BY <2>1, <2>2
<1>4. Tally' = Tally /\ \A n \in Masters : InstancesOf(n)' = InstancesOf(n)
  BY <1>2, <1>3, SameInstances
<1>5. Attaches(Idle, assocs') /\ Lags(Idle, masters', Tally')
  BY DEF Idle, Attaches, Lags
<1>6. Attached' /\ CopiesLag'
  BY <1>2, <1>3, <1>4, <1>5, Tallied, Evolving
<1>7. CountNeverOverstates'
  BY <1>2, <1>4 DEF CountNeverOverstates
<1>8. QED
  BY <1>6, <1>7

(* A permanent delete takes the instances of its master with it, and no    *)
(* instance of another.                                                    *)
LEMMA PurgeTakesOne ==
    ASSUME CountInv, NEW s \in Slots, PurgeCommit(s), NEW m, m = req[s].master
    PROVE  /\ m \in Masters
           /\ InstancesOf(m)' = {}
           /\ \A n \in Masters \ {m} : InstancesOf(n)' = InstancesOf(n)
<1>1. req[s] \in Request /\ m \in Masters /\ req[s].at = "purge"
  BY DEF TypeOK, Locals, LocalsOK, PurgeCommit, At
<1>2. /\ \A a \in AssocIds :
            assocs'[a] = IF a \in AssociationsOf(m) THEN Gone ELSE assocs[a]
      /\ \A i \in InstIds :
            insts'[i] = IF i[1] \in req[s].queue THEN NoRow ELSE insts[i]
  BY DEF PurgeCommit, PurgedInstances
<1>3. \A i \in InstIds : i[1] \in AssocIds
  BY DEF InstIds
<1>4. \A a \in req[s].queue : Exists(assocs[a]) => assocs[a].master = m
  BY <1>1 DEF Attached, Attaches, BelongsTo
<1>5. \A i \in InstIds : insts[i] # NoRow =>
        (i[1] \in req[s].queue <=> assocs[i[1]].master = m)
  BY <1>4 DEF Linked, PurgeCommit, ReferredTo, InstancesOf
<1>6. \A i \in InstIds : insts'[i] # NoRow =>
        /\ insts[i] # NoRow /\ assocs[i[1]].master # m
        /\ assocs'[i[1]] = assocs[i[1]]
  BY <1>2, <1>3, <1>5 DEF AssociationsOf
<1>7. \A i \in InstIds : insts[i] # NoRow /\ assocs[i[1]].master # m => insts'[i] # NoRow
  BY <1>2, <1>5
<1>8. InstancesOf(m)' = {}
  BY <1>6 DEF InstancesOf
<1>9. \A n \in Masters \ {m} : InstancesOf(n)' = InstancesOf(n)
  BY <1>6, <1>7 DEF InstancesOf
<1>10. QED
  BY <1>1, <1>8, <1>9

(* A permanent delete leaves the counters of the other masters right. *)
LEMMA PurgeKeepsCount ==
    ASSUME CountInv, NEW s \in Slots, PurgeCommit(s)
    PROVE  Attached' /\ CopiesLag' /\ CountNeverOverstates'
<1> DEFINE m == req[s].master
<1>1. /\ m \in Masters
      /\ \A n \in Masters \ {m} : InstancesOf(n)' = InstancesOf(n)
  BY PurgeTakesOne
<1>2. \A n \in Masters : masters'[n] = IF n = m THEN Gone ELSE masters[n]
  BY DEF PurgeCommit, TypeOK
<1>3. \A a \in AssocIds : assocs'[a] = Gone \/ assocs'[a] = assocs[a]
  BY DEF PurgeCommit, TypeOK
<1>4. \A n \in Masters \ {m} : Tally'[n] = Tally[n]
  BY <1>1 DEF Tally
<1>5. Goto(s, Idle)
  BY DEF PurgeCommit, Finish
<1>6. Attaches(Idle, assocs') /\ Lags(Idle, masters', Tally')
  BY DEF Idle, Attaches, Lags
<1>7. \A n \in Masters : masters[n] # NoRow =>
        /\ masters'[n] # NoRow
        /\ Exists(masters'[n]) => Exists(masters[n]) /\ Tally[n] <= Tally'[n]
  BY <1>2, <1>4, Tallied, SentinelAssumption DEF Exists
<1>8. \A a \in AssocIds : assocs[a] # NoRow =>
        /\ assocs'[a] # NoRow
        /\ Exists(assocs'[a]) =>
              Exists(assocs[a]) /\ assocs'[a].master = assocs[a].master
  BY <1>3, SentinelAssumption DEF Exists
<1>9. Attached' /\ CopiesLag'
  BY <1>5, <1>6, <1>7, <1>8, Evolving
<1>10. CountNeverOverstates'
  BY <1>1, <1>2 DEF CountNeverOverstates, Exists
<1>11. QED
  BY <1>9, <1>10

(* A handler that raises leaves the counters right. *)
LEMMA AbortKeepsCount ==
    ASSUME CountInv, NEW s \in Slots, Abort(s)
    PROVE  Attached' /\ CopiesLag' /\ CountNeverOverstates'
<1>1. Idle.at = "idle"
  BY DEF Idle
<1>2. QED
  BY <1>1, BeginsFresh DEF Abort, Finish

-------------------------------------------------------------------------------
(* Masters and the environment. *)

(* A step that creates masters that count nothing, or changes other        *)
(* columns than the counter, leaves the counters right.                    *)
LEMMA Uncounting ==
    ASSUME CountInv, UNCHANGED <<assocs, insts, req>>,
           \A m \in Masters :
              \/ masters'[m] = masters[m]
              \/ /\ masters[m] = NoRow
                 /\ masters'[m] # NoRow /\ masters'[m].occ = 0
              \/ /\ Exists(masters[m]) /\ Exists(masters'[m])
                 /\ masters'[m].occ = masters[m].occ
    PROVE  Attached' /\ CopiesLag' /\ CountNeverOverstates'
<1>1. Tally' = Tally /\ \A n \in Masters : InstancesOf(n)' = InstancesOf(n)
  BY SameInstances
<1>2. Attached'
  BY DEF Attached
<1>3. CopiesLag'
  <2>1. \A s \in Slots : req[s].at = "purge" => req[s].master \in Masters
    BY DEF Locals, LocalsOK
  <2> QED BY <1>1, <2>1 DEF CopiesLag, Lags, Exists
<1>4. CountNeverOverstates'
  BY <1>1, FinitelyMany DEF CountNeverOverstates, Exists
<1>5. QED
  BY <1>2, <1>3, <1>4

(* The endpoints on masters leave the counters right. *)
LEMMA MastersKeepCount ==
    ASSUME CountInv, NEW m \in Masters,
           CreateMaster(m) \/ PatchMaster(m) \/ SoftDeleteMaster(m)
    PROVE  Attached' /\ CopiesLag' /\ CountNeverOverstates'
<1>1. UNCHANGED <<assocs, insts, req>>
  BY DEF CreateMaster, PatchMaster, SoftDeleteMaster
<1>2. CASE CreateMaster(m)
  <2>1. PICK t \in Templates : masters' = [masters EXCEPT ![m] = NewMaster(t)]
    BY <1>2 DEF CreateMaster
  <2>2. NewMaster(t) \in MasterRow /\ NewMaster(t).occ = 0
    BY DEF NewMaster, MasterRow, MasterStatus
  <2>3. NewMaster(t) # NoRow
    BY <2>2, SentinelAssumption
  <2> QED BY <1>1, <1>2, <2>1, <2>2, <2>3, Uncounting DEF CreateMaster, TypeOK
<1>3. CASE PatchMaster(m)
  <2>1. PICK t \in Templates, x \in MasterStatus :
          masters' = [masters EXCEPT ![m].tmpl = t, ![m].status = x]
    BY <1>3 DEF PatchMaster
  <2>2. masters[m] \in MasterRow /\ Exists(masters[m])
    BY <1>3, RowsTyped DEF PatchMaster
  <2> DEFINE row == [masters[m] EXCEPT !.tmpl = t, !.status = x]
  <2>3. row \in MasterRow /\ row.occ = masters[m].occ
    BY <2>2 DEF MasterRow
  <2>4. \A n \in Masters : masters'[n] = IF n = m THEN row ELSE masters[n]
    BY <2>1 DEF TypeOK
  <2>5. Exists(row)
    BY <2>3, SentinelAssumption DEF Exists
  <2> HIDE DEF row
  <2> QED BY <1>1, <2>2, <2>3, <2>4, <2>5, Uncounting
<1>4. CASE SoftDeleteMaster(m)
  <2> DEFINE row == [masters[m] EXCEPT !.deleted = TRUE, !.status = "archived"]
  <2>1. masters[m] \in MasterRow /\ Exists(masters[m])
    BY <1>4, RowsTyped DEF SoftDeleteMaster
  <2>2. row \in MasterRow /\ row.occ = masters[m].occ
    BY <2>1 DEF MasterRow, MasterStatus
  <2>3. \A n \in Masters : masters'[n] = IF n = m THEN row ELSE masters[n]
    BY <1>4 DEF SoftDeleteMaster, TypeOK
  <2>4. Exists(row)
    BY <2>2, SentinelAssumption DEF Exists
  <2> HIDE DEF row
  <2> QED BY <1>1, <2>1, <2>2, <2>3, <2>4, Uncounting
<1>5. QED
  BY <1>2, <1>3, <1>4

(* Setting the status of a batch of masters leaves the counters right. *)
LEMMA StatusesKeepCount ==
    ASSUME CountInv, NEW batch, NEW x \in MasterStatus, masters' = WithStatus(batch, x),
           NEW m \in Masters
    PROVE  \/ masters'[m] = masters[m]
           \/ /\ Exists(masters[m]) /\ Exists(masters'[m])
              /\ masters'[m].occ = masters[m].occ
<1>1. Exists(masters'[m]) <=> Exists(masters[m])
  BY SettingMasters
<1>2. CASE m \in batch /\ Exists(masters[m])
  <2>1. masters[m] \in MasterRow
    BY <1>2, RowsTyped
  <2>2. masters'[m] = [masters[m] EXCEPT !.status = x]
    BY <1>2 DEF WithStatus
  <2> QED BY <1>1, <1>2, <2>1, <2>2 DEF MasterRow
<1>3. CASE ~(m \in batch /\ Exists(masters[m]))
  BY <1>3 DEF WithStatus
<1>4. QED
  BY <1>2, <1>3

(* Pausing and resuming masters, and the commit of a bulk archiving, leave *)
(* the counters right.                                                     *)
LEMMA BulkKeepsCount ==
    ASSUME CountInv, BulkSetStatus \/ \E s \in Slots : BulkCommit(s)
    PROVE  Attached' /\ CopiesLag' /\ CountNeverOverstates'
<1>1. CASE BulkSetStatus
  <2>1. PICK batch \in SUBSET Masters \ {{}}, x \in {"active", "inactive"} :
          masters' = WithStatus(batch, x)
    BY <1>1 DEF BulkSetStatus
  <2>2. x \in MasterStatus
    BY DEF MasterStatus
  <2>3. UNCHANGED <<assocs, insts, req>>
    BY <1>1 DEF BulkSetStatus
  <2> QED BY <2>1, <2>2, <2>3, StatusesKeepCount, Uncounting
<1>2. ASSUME NEW s \in Slots, BulkCommit(s)
      PROVE  Attached' /\ CopiesLag' /\ CountNeverOverstates'
  <2>1. masters' = WithStatus(req[s].batch, "archived") /\ "archived" \in MasterStatus
    BY <1>2 DEF BulkCommit, MasterStatus
  <2>2. \A m \in Masters :
          \/ masters'[m] = masters[m]
          \/ Exists(masters[m]) /\ Exists(masters'[m]) /\ masters'[m].occ = masters[m].occ
    BY <2>1, StatusesKeepCount
  <2>3. UNCHANGED <<assocs, insts>> /\ Goto(s, Idle)
    BY <1>2 DEF BulkCommit, Finish
  <2>4. Tally' = Tally /\ \A n \in Masters : InstancesOf(n)' = InstancesOf(n)
    BY <2>3, SameInstances
  <2>5. Attaches(Idle, assocs') /\ Lags(Idle, masters', Tally')
    BY DEF Idle, Attaches, Lags
  <2>6. \A m \in Masters : Tally[m] <= Tally'[m]
    BY <2>4, Tallied
  <2>7. Attached' /\ CopiesLag'
    BY <2>2, <2>3, <2>5, <2>6, Evolving DEF Exists
  <2>8. CountNeverOverstates'
    BY <2>2, <2>4 DEF CountNeverOverstates
  <2> QED BY <2>7, <2>8
<1>3. QED
  BY <1>1, <1>2

(* The clock and a restart of the server leave the counters right. *)
LEMMA EnvironmentKeepsCount ==
    ASSUME CountInv, Tick \/ Restart
    PROVE  Attached' /\ CopiesLag' /\ CountNeverOverstates'
<1>1. CASE Tick
  BY <1>1, Uncounting DEF Tick, tables
<1>2. CASE Restart
  <2>1. UNCHANGED <<masters, assocs, insts>> /\ \A s \in Slots : req'[s] = Idle
    BY <1>2 DEF Restart, tables
  <2>2. Attaches(Idle, assocs) /\ Lags(Idle, masters, Tally)
    BY DEF Idle, Attaches, Lags
  <2>3. Tally' = Tally /\ \A n \in Masters : InstancesOf(n)' = InstancesOf(n)
    BY <2>1, SameInstances
  <2> QED BY <2>1, <2>2, <2>3 DEF Attached, CopiesLag, CountNeverOverstates
<1>3. QED
  BY <1>1, <1>2

-------------------------------------------------------------------------------
(* The invariant. *)

(* The empty board satisfies CountInv. *)
LEMMA InitCount == Init => CountInv
<1>1. SUFFICES ASSUME Init PROVE CountInv
  OBVIOUS
<1>2. Base
  BY <1>1, InitBase
<1>3. Attached /\ CopiesLag /\ CountNeverOverstates
  BY <1>1 DEF Init, Idle, Attached, Attaches, CopiesLag, Lags, CountNeverOverstates, Exists
<1>4. QED
  BY <1>2, <1>3

(* Every step of the board keeps CountInv. *)
LEMMA NextCount == CountInv /\ [Next]_vars => CountInv'
<1>1. SUFFICES ASSUME CountInv, [Next]_vars PROVE CountInv'
  OBVIOUS
<1>2. Base'
  BY <1>1, NextBase
<1>3. CASE UNCHANGED vars
  BY <1>1, <1>2, <1>3, Uncounting DEF vars
<1>4. ASSUME NEW s \in Slots, Continue(s)
      PROVE  Attached' /\ CopiesLag' /\ CountNeverOverstates'
  BY <1>1, <1>4, UpdateKeepsCount, LookupKeepsCount, PlanKeepsCount, ArchiveKeepsCount,
     InsertKeepsCount, CountKeepsCount, InsertAssociationKeepsCount,
     RemoveAssociationKeepsCount, LoopsKeepCount, NextKeepsCount, BulkKeepsCount,
     PurgeKeepsCount, AbortKeepsCount
     DEF Continue
<1>5. CASE Next
  BY <1>1, <1>2, <1>4, <1>5, ArriveKeepsCount, MastersKeepCount, BulkKeepsCount,
     EnvironmentKeepsCount
     DEF Next
<1>6. QED
  BY <1>1, <1>3, <1>5

(* CountInv holds in every behaviour of the board. *)
THEOREM Counting == Spec => []CountInv
BY InitCount, NextCount, PTL DEF Spec

(* For any number of overlapping completions, syncs, associations, purges  *)
(* and restarts, occurrence_count never exceeds the number of instances:   *)
(* the lost updates the code allows only ever lose counts.                 *)
THEOREM CounterSafe == Spec => []CountNeverOverstates
<1>1. CountInv => CountNeverOverstates
  OBVIOUS
<1>2. QED
  BY <1>1, Counting, PTL

-------------------------------------------------------------------------------
(* The chores service implements OccurrenceLedger: under the mapping of    *)
(* ChoresRefinement, every step of every handler opens a chore, makes one  *)
(* occurrence, counts, purges, or leaves the ledger alone.                 *)

(* A step that creates and deletes no row, moves no association to another *)
(* master and writes no counter leaves the ledger alone.                   *)
LEMMA LedgerAlone ==
    ASSUME CountInv,
           \A m \in Masters :
              \/ masters'[m] = masters[m]
              \/ /\ Exists(masters[m]) /\ Exists(masters'[m])
                 /\ masters'[m].occ = masters[m].occ,
           \A a \in AssocIds : Exists(assocs[a]) =>
                Exists(assocs'[a]) /\ assocs'[a].master = assocs[a].master,
           \A i \in InstIds : insts'[i] = NoRow <=> insts[i] = NoRow
    PROVE  UNCHANGED Ledger!vars
<1>1. \A m \in Masters : InstancesOf(m)' = InstancesOf(m)
  BY SameInstances
<1>2. Made' = Made
  BY <1>1 DEF Made
<1>3. Life' = Life
  BY DEF Life, Exists
<1>4. Counted' = Counted
  BY DEF Counted, Exists
<1>5. QED
  BY <1>2, <1>3, <1>4 DEF Ledger!vars

(* A step that leaves the tables as they are leaves the ledger alone. *)
LEMMA TablesAlone ==
    ASSUME CountInv, UNCHANGED tables
    PROVE  UNCHANGED Ledger!vars
BY LedgerAlone DEF tables

(* Requests that arrive leave the ledger alone: they only read. *)
LEMMA ArriveLeavesLedger ==
    ASSUME CountInv, NEW s \in Slots, Arrive(s)
    PROVE  UNCHANGED Ledger!vars
<1>1. UNCHANGED tables
  BY DEF Arrive, ClaimInstance, AssignInstance, RevertInstanceStatus, ResetInstance,
         UpdateInstanceStatus, DeleteInstance, CreateAssociation, DeleteAssociation, Sync,
         BulkArchive, PurgeMaster, BeginUpdate, Begin
<1>2. QED
  BY <1>1, TablesAlone

(* Whatever only rewrites columns of instances leaves the ledger alone. *)
LEMMA StatusesLeaveLedger ==
    ASSUME CountInv, NEW s \in Slots,
           \/ CommitRow(s) \/ ArchiveOld(s) \/ ReleaseInstances(s)
           \/ MarkMissed(s) \/ MarkOverdue(s) \/ CascadeArchive(s)
    PROVE  UNCHANGED Ledger!vars
<1>1. req[s] \in Request /\ LocalsOK(req[s])
  BY DEF TypeOK, Locals
<1>2. {"missed", "overdue", "archived"} \subseteq InstStatus
  BY DEF InstStatus
<1>3. UNCHANGED <<masters, assocs>>
  BY DEF CommitRow, ArchiveOld, ReleaseInstances, MarkMissed, MarkOverdue, CascadeArchive,
         MarkOne
<1>4. \A i \in InstIds : insts'[i] = NoRow <=> insts[i] = NoRow
  <2>1. CASE CommitRow(s)
    <3>1. req[s].inst \in InstIds /\ req[s].row \in InstRow /\ req[s].upd \in Update
      BY <1>1, <2>1 DEF CommitRow, At, LocalsOK, Request
    <3>2. insts[req[s].inst] \in InstRow
      BY <2>1, <3>1, RowsTyped DEF CommitRow
    <3>3. Merged(s) \in InstRow
      BY <3>1, <3>2, WrittenTyped DEF Merged
    <3> QED BY <2>1, <3>1, <3>3, SentinelAssumption DEF CommitRow, TypeOK
  <2>2. CASE ArchiveOld(s) \/ ReleaseInstances(s)
    <3>1. req[s].todo \in SUBSET InstIds
      BY <1>1 DEF Request
    <3> QED BY <1>2, <2>2, <3>1, SettingStatuses DEF ArchiveOld, ReleaseInstances
  <2>3. CASE MarkMissed(s) \/ MarkOverdue(s) \/ CascadeArchive(s)
    BY <1>2, <2>3, Marking DEF MarkMissed, MarkOverdue, CascadeArchive, At
  <2> QED BY <2>1, <2>2, <2>3
<1>5. QED
  BY <1>3, <1>4, LedgerAlone

(* Creating and removing an association leaves the ledger alone. *)
LEMMA AssociationsLeaveLedger ==
    ASSUME CountInv, NEW s \in Slots, InsertAssociation(s) \/ RemoveAssociation(s)
    PROVE  UNCHANGED Ledger!vars
<1>1. UNCHANGED <<masters, insts>>
  BY DEF InsertAssociation, RemoveAssociation
<1>2. \A a \in AssocIds : Exists(assocs[a]) =>
        Exists(assocs'[a]) /\ assocs'[a].master = assocs[a].master
  <2>1. CASE InsertAssociation(s)
    <3>1. PICK a \in AssocIds :
            /\ assocs[a] = NoRow
            /\ assocs' = [assocs EXCEPT ![a] =
                  [master |-> req[s].master, member |-> req[s].member, removed |-> FALSE]]
      BY <2>1 DEF InsertAssociation, NextAssoc
    <3>2. \A b \in AssocIds : b # a => assocs'[b] = assocs[b]
      BY <3>1 DEF TypeOK
    <3> QED BY <3>1, <3>2 DEF Exists
  <2>2. CASE RemoveAssociation(s) /\ Exists(assocs[req[s].assoc])
    <3> DEFINE a == req[s].assoc
               row == [assocs[a] EXCEPT !.removed = TRUE]
    <3>1. a \in AssocIds
      BY <2>2 DEF TypeOK, Locals, LocalsOK, RemoveAssociation, At
    <3>2. row \in AssocRow /\ row.master = assocs[a].master
      BY <2>2, <3>1, RowsTyped DEF AssocRow
    <3>3. Exists(row)
      BY <3>2, SentinelAssumption DEF Exists
    <3>4. \A b \in AssocIds : assocs'[b] = IF b = a THEN row ELSE assocs[b]
      BY <2>2 DEF RemoveAssociation, TypeOK
    <3> HIDE DEF row, a
    <3> QED BY <3>2, <3>3, <3>4
  <2>3. CASE RemoveAssociation(s) /\ ~Exists(assocs[req[s].assoc])
    BY <2>3 DEF RemoveAssociation
  <2> QED BY <2>1, <2>2, <2>3
<1>3. QED
  BY <1>1, <1>2, LedgerAlone

(* Editing, soft-deleting, pausing, resuming and archiving masters leaves  *)
(* the ledger alone.                                                       *)
LEMMA MastersLeaveLedger ==
    ASSUME CountInv,
           \/ \E m \in Masters : PatchMaster(m) \/ SoftDeleteMaster(m)
           \/ BulkSetStatus
           \/ \E s \in Slots : BulkCommit(s)
    PROVE  UNCHANGED Ledger!vars
<1>1. UNCHANGED <<assocs, insts>>
  BY DEF PatchMaster, SoftDeleteMaster, BulkSetStatus, BulkCommit
<1>2. \A n \in Masters :
        \/ masters'[n] = masters[n]
        \/ Exists(masters[n]) /\ Exists(masters'[n]) /\ masters'[n].occ = masters[n].occ
  <2>1. ASSUME NEW m \in Masters, PatchMaster(m) \/ SoftDeleteMaster(m), NEW n \in Masters
        PROVE  \/ masters'[n] = masters[n]
               \/ /\ Exists(masters[n]) /\ Exists(masters'[n])
                  /\ masters'[n].occ = masters[n].occ
    <3>1. masters[m] \in MasterRow /\ Exists(masters[m])
      BY <2>1, RowsTyped DEF PatchMaster, SoftDeleteMaster
    <3>2. \E row \in MasterRow :
            row.occ = masters[m].occ /\ masters' = [masters EXCEPT ![m] = row]
      <4>1. CASE PatchMaster(m)
        <5>1. PICK t \in Templates, x \in MasterStatus :
                masters' = [masters EXCEPT ![m].tmpl = t, ![m].status = x]
          BY <4>1 DEF PatchMaster
        <5> DEFINE row == [masters[m] EXCEPT !.tmpl = t, !.status = x]
        <5>2. row \in MasterRow /\ row.occ = masters[m].occ
          BY <3>1 DEF MasterRow
        <5>3. masters' = [masters EXCEPT ![m] = row]
          BY <5>1 DEF TypeOK
        <5> HIDE DEF row
        <5> QED BY <5>2, <5>3
      <4>2. CASE SoftDeleteMaster(m)
        <5> DEFINE row == [masters[m] EXCEPT !.deleted = TRUE, !.status = "archived"]
        <5>1. row \in MasterRow /\ row.occ = masters[m].occ
          BY <3>1 DEF MasterRow, MasterStatus
        <5>2. masters' = [masters EXCEPT ![m] = row]
          BY <4>2 DEF SoftDeleteMaster, TypeOK
        <5> HIDE DEF row
        <5> QED BY <5>1, <5>2
      <4> QED BY <2>1, <4>1, <4>2
    <3> QED BY <3>1, <3>2, SentinelAssumption DEF TypeOK, Exists
  <2>2. CASE BulkSetStatus
    <3>1. PICK batch \in SUBSET Masters \ {{}}, x \in {"active", "inactive"} :
            masters' = WithStatus(batch, x)
      BY <2>2 DEF BulkSetStatus
    <3>2. x \in MasterStatus
      BY DEF MasterStatus
    <3> QED BY <3>1, <3>2, StatusesKeepCount
  <2>3. ASSUME NEW s \in Slots, BulkCommit(s)
        PROVE  masters' = WithStatus(req[s].batch, "archived") /\ "archived" \in MasterStatus
    BY <2>3 DEF BulkCommit, MasterStatus
  <2> QED BY <2>1, <2>2, <2>3, StatusesKeepCount
<1>3. QED
  BY <1>1, <1>2, LedgerAlone

-------------------------------------------------------------------------------
(* The four steps the ledger knows. *)

(* Creating a master opens a chore. *)
LEMMA CreatingOpens ==
    ASSUME CountInv, NEW m \in Masters, CreateMaster(m)
    PROVE  Ledger!Open(m)
<1>1. PICK t \in Templates : masters' = [masters EXCEPT ![m] = NewMaster(t)]
  BY DEF CreateMaster
<1>2. NewMaster(t) \in MasterRow /\ NewMaster(t).occ = 0
  BY DEF NewMaster, MasterRow, MasterStatus
<1>3. NewMaster(t) # NoRow /\ NewMaster(t) # Gone
  BY <1>2, SentinelAssumption
<1>4. masters[m] = NoRow /\ UNCHANGED <<assocs, insts>>
  BY DEF CreateMaster
<1>5. \A n \in Masters : masters'[n] = IF n = m THEN NewMaster(t) ELSE masters[n]
  BY <1>1 DEF TypeOK
<1>6. Made' = Made
  BY <1>4, SameInstances DEF Made
<1>7. Counted' = Counted
  BY <1>2, <1>3, <1>4, <1>5 DEF Counted, Exists
<1>8. Life[m] = "unknown"
  BY <1>4, SentinelAssumption DEF Life
<1>9. Life' = [Life EXCEPT ![m] = "open"]
  <2>1. \A n \in Masters : Life'[n] = IF n = m THEN "open" ELSE Life[n]
    BY <1>3, <1>5 DEF Life
  <2>2. Life = [n \in Masters |-> Life[n]] /\ Life' = [n \in Masters |-> Life'[n]]
    BY DEF Life
  <2> QED BY <2>1, <2>2
<1>10. QED
  BY <1>6, <1>7, <1>8, <1>9 DEF Ledger!Open

(* Inserting an instance makes an occurrence that no chore had. *)
LEMMA InsertingMakes ==
    ASSUME CountInv, NEW s \in Slots, InsertInstance(s)
    PROVE  \/ UNCHANGED Ledger!vars
           \/ \E m \in Masters, i \in InstIds : Ledger!Make(m, i)
<1>1. CASE UNCHANGED insts
  BY <1>1, LedgerAlone DEF InsertInstance
<1> DEFINE i == req[s].inst
           a == assocs[i[1]]
<1>2. CASE Exists(a) /\ insts[i] = NoRow /\ insts' = [insts EXCEPT ![i] = NewInstance(a)]
  <2>1. i \in InstIds /\ i[1] \in AssocIds
    BY DEF InsertInstance, At, TypeOK, Locals, LocalsOK, InstIds
  <2>2. PICK m \in Masters : m = a.master
    BY <1>2, <2>1, RowsTyped DEF AssocRow
  <2>3. Exists(masters[m])
    BY <1>2, <2>1, <2>2 DEF Linked
  <2>4. NewInstance(a) \in InstRow
    BY <1>2, <2>1, RowsTyped DEF NewInstance, AssocRow, InstRow, InstStatus, Stamp
  <2>5. UNCHANGED <<masters, assocs>>
    BY DEF InsertInstance
  <2> PICK j \in InstIds : j = i
    BY <2>1
  <2>6. \A n \in Masters :
          InstancesOf(n)' = IF n = m THEN InstancesOf(n) \cup {j} ELSE InstancesOf(n)
    BY <1>2, <2>1, <2>2, <2>4, <2>5, OneMore
  <2>7. \A n \in Masters : j \notin InstancesOf(n)
    BY <1>2 DEF InstancesOf
  <2>8. Life[m] = "open"
    BY <2>3 DEF Life, Exists
  <2>9. \A n \in Masters : j \notin Made[n]
    BY <2>7 DEF Made
  <2>10. Made' = [Made EXCEPT ![m] = @ \cup {j}]
    <3>1. \A n \in Masters : Made'[n] = IF n = m THEN Made[n] \cup {j} ELSE Made[n]
      BY <2>6 DEF Made
    <3>2. Made = [n \in Masters |-> Made[n]] /\ Made' = [n \in Masters |-> Made'[n]]
      BY DEF Made
    <3> QED BY <3>1, <3>2
  <2>11. UNCHANGED <<Life, Counted>>
    BY <2>5 DEF Life, Counted
  <2>12. Ledger!Make(m, j)
    BY <2>8, <2>9, <2>10, <2>11 DEF Ledger!Make
  <2> QED BY <2>12
<1>3. QED
  BY <1>1, <1>2 DEF InsertInstance

(* Writing the counter counts occurrences that were made. *)
LEMMA CountingCounts ==
    ASSUME CountInv, NEW s \in Slots, CountInstance(s)
    PROVE  \E m \in Masters : Ledger!Count(m)
<1> DEFINE m == req[s].master
           c == req[s].copy[m]
<1>1. req[s] \in Request /\ LocalsOK(req[s]) /\ req[s].at = "count"
  BY DEF TypeOK, Locals, CountInstance, At
<1>2. m \in Masters /\ c \in MasterRow /\ Held(s) = c /\ Exists(masters[m])
  BY <1>1 DEF LocalsOK, Held, CountInstance
<1>3. c.occ \in Nat /\ c.occ + 1 <= Tally[m]
  <2>1. Lags(req[s], masters, Tally) /\ c # Keep
    BY <1>2, SentinelAssumption DEF CopiesLag
  <2> QED BY <1>1, <1>2, <2>1 DEF Lags, MasterRow
<1>4. CountAfter(c) <= Tally[m] /\ CountAfter(c) \in Nat
  BY <1>2, <1>3, Tallied DEF CountAfter
<1>5. masters[m] \in MasterRow
  BY <1>2, RowsTyped
<1> DEFINE row == [masters[m] EXCEPT !.occ = CountAfter(c)]
<1>6. row \in MasterRow /\ row.occ = CountAfter(c)
  BY <1>4, <1>5 DEF MasterRow
<1>7. Exists(row)
  BY <1>6, SentinelAssumption DEF Exists
<1>8. \A n \in Masters : masters'[n] = IF n = m THEN row ELSE masters[n]
  BY <1>2 DEF CountInstance, TypeOK
<1>9. UNCHANGED <<assocs, insts>>
  BY DEF CountInstance
<1> HIDE DEF row
<1> PICK n \in Masters : n = m
  BY <1>2
<1>10. Made' = Made
  BY <1>9, SameInstances DEF Made
<1>11. Life' = Life
  BY <1>2, <1>7, <1>8 DEF Life, Exists
<1>12. Life[n] = "open"
  BY <1>2 DEF Life, Exists
<1>13. Counted' = [Counted EXCEPT ![n] = CountAfter(c)]
  <2>1. \A q \in Masters : Counted'[q] = IF q = n THEN CountAfter(c) ELSE Counted[q]
    BY <1>6, <1>7, <1>8 DEF Counted
  <2>2. /\ Counted = [q \in Masters |-> Counted[q]]
        /\ Counted' = [q \in Masters |-> Counted'[q]]
    BY DEF Counted
  <2> QED BY <2>1, <2>2
<1>14. CountAfter(c) \in 0..Cardinality(Made[n])
  BY <1>4, FinitelyMany DEF Made, Tally
<1>15. Ledger!Count(n)
  <2>1. \E k \in 0..Cardinality(Made[n]) : Counted' = [Counted EXCEPT ![n] = k]
    BY <1>13, <1>14
  <2>2. Ledger!Cardinality(Made[n]) = Cardinality(Made[n])
    BY Zenon DEF Ledger!Cardinality, Cardinality
  <2>3. UNCHANGED <<Life, Made>>
    BY <1>10, <1>11
  <2> HIDE DEF m, c
  <2> QED BY <1>12, <2>1, <2>2, <2>3 DEF Ledger!Count
<1>16. QED
  BY <1>15

(* A permanent delete purges a chore, or comes after another one did. *)
LEMMA PurgingPurges ==
    ASSUME CountInv, NEW s \in Slots, PurgeCommit(s)
    PROVE  UNCHANGED Ledger!vars \/ \E m \in Masters : Ledger!Purge(m)
<1>1. PICK m : m = req[s].master
  OBVIOUS
<1>2. /\ m \in Masters
      /\ InstancesOf(m)' = {}
      /\ \A n \in Masters \ {m} : InstancesOf(n)' = InstancesOf(n)
  BY <1>1, PurgeTakesOne
<1>3. \A n \in Masters : masters'[n] = IF n = m THEN Gone ELSE masters[n]
  BY <1>1 DEF PurgeCommit, TypeOK
<1>4. masters[m] # NoRow
  BY <1>1 DEF PurgeCommit, At, CopiesLag, Lags
<1>5. Made' = [Made EXCEPT ![m] = {}]
  <2>1. \A n \in Masters : Made'[n] = IF n = m THEN {} ELSE Made[n]
    BY <1>2 DEF Made
  <2>2. Made = [n \in Masters |-> Made[n]] /\ Made' = [n \in Masters |-> Made'[n]]
    BY DEF Made
  <2> QED BY <2>1, <2>2
<1>6. Life' = [Life EXCEPT ![m] = "purged"]
  <2>1. \A n \in Masters : Life'[n] = IF n = m THEN "purged" ELSE Life[n]
    BY <1>3, SentinelAssumption DEF Life
  <2>2. Life = [n \in Masters |-> Life[n]] /\ Life' = [n \in Masters |-> Life'[n]]
    BY DEF Life
  <2> QED BY <2>1, <2>2
<1>7. Counted' = [Counted EXCEPT ![m] = 0]
  <2>1. \A n \in Masters : Counted'[n] = IF n = m THEN 0 ELSE Counted[n]
    BY <1>3 DEF Counted, Exists
  <2>2. /\ Counted = [n \in Masters |-> Counted[n]]
        /\ Counted' = [n \in Masters |-> Counted'[n]]
    BY DEF Counted
  <2> QED BY <2>1, <2>2
<1>8. CASE masters[m] # Gone
  <2>1. Life[m] = "open"
    BY <1>2, <1>4, <1>8 DEF Life
  <2>2. Ledger!Purge(m)
    BY <1>5, <1>6, <1>7, <2>1 DEF Ledger!Purge
  <2> QED BY <1>2, <2>2
<1>9. CASE masters[m] = Gone
  <2>1. InstancesOf(m) = {}
    <3>1. \A i \in InstIds : insts[i] # NoRow => assocs[i[1]].master # m
      BY <1>9 DEF Linked, Exists, InstIds
    <3> QED BY <3>1 DEF InstancesOf
  <2>2. Made[m] = {} /\ Life[m] = "purged" /\ Counted[m] = 0
    BY <1>2, <1>9, <2>1, SentinelAssumption DEF Made, Life, Counted, Exists
  <2>3. Made = [n \in Masters |-> Made[n]]
    BY DEF Made
  <2>4. Life = [n \in Masters |-> Life[n]]
    BY DEF Life
  <2>5. Counted = [n \in Masters |-> Counted[n]]
    BY DEF Counted
  <2>6. UNCHANGED <<Life, Made, Counted>>
    BY <1>5, <1>6, <1>7, <2>2, <2>3, <2>4, <2>5
  <2> QED BY <2>6 DEF Ledger!vars
<1>10. QED
  BY <1>8, <1>9

-------------------------------------------------------------------------------
(* The refinement. *)

(* The empty board is the empty ledger. *)
LEMMA InitLedger == Init => Ledger!Init
<1>1. SUFFICES ASSUME Init PROVE Ledger!Init
  OBVIOUS
<1>2. Life = [m \in Masters |-> "unknown"]
  BY <1>1, SentinelAssumption DEF Init, Life
<1>3. Made = [m \in Masters |-> {}]
  BY <1>1 DEF Init, Made, InstancesOf
<1>4. Counted = [m \in Masters |-> 0]
  BY <1>1 DEF Init, Counted, Exists
<1>5. QED
  BY <1>2, <1>3, <1>4 DEF Ledger!Init

(* Every step of the board is a step of the ledger or leaves it alone. *)
LEMMA NextLedger == CountInv /\ [Next]_vars => [Ledger!Next]_(Ledger!vars)
<1>1. SUFFICES ASSUME CountInv, [Next]_vars PROVE [Ledger!Next]_(Ledger!vars)
  OBVIOUS
<1>2. CASE UNCHANGED vars
  BY <1>1, <1>2, TablesAlone DEF vars, tables
<1>3. ASSUME NEW m \in Masters, CreateMaster(m)
      PROVE  Ledger!Next
  BY <1>1, <1>3, CreatingOpens DEF Ledger!Next
<1>4. ASSUME NEW s \in Slots, Continue(s)
      PROVE  [Ledger!Next]_(Ledger!vars)
  <2>1. CASE InsertInstance(s)
    BY <1>1, <2>1, InsertingMakes DEF Ledger!Next
  <2>2. CASE CountInstance(s)
    BY <1>1, <2>2, CountingCounts DEF Ledger!Next
  <2>3. CASE PurgeCommit(s)
    BY <1>1, <2>3, PurgingPurges DEF Ledger!Next
  <2>4. CASE \/ CommitRow(s) \/ ArchiveOld(s) \/ ReleaseInstances(s)
            \/ MarkMissed(s) \/ MarkOverdue(s) \/ CascadeArchive(s)
    BY <1>1, <2>4, StatusesLeaveLedger
  <2>5. CASE InsertAssociation(s) \/ RemoveAssociation(s)
    BY <1>1, <2>5, AssociationsLeaveLedger
  <2>6. CASE BulkCommit(s)
    BY <1>1, <2>6, MastersLeaveLedger
  <2>7. CASE \/ LoadRow(s) \/ LookupMaster(s) \/ PlanInstance(s) \/ ListOverdue(s)
            \/ ListAssociations(s) \/ NextAssociation(s) \/ GuardMaster(s) \/ Abort(s)
    <3>1. UNCHANGED tables
      BY <2>7 DEF LoadRow, LookupMaster, PlanInstance, ListOverdue, ListAssociations,
                  NextAssociation, GuardMaster, Abort
    <3> QED BY <1>1, <3>1, TablesAlone
  <2> QED BY <1>4, <2>1, <2>2, <2>3, <2>4, <2>5, <2>6, <2>7 DEF Continue
<1>5. ASSUME NEW s \in Slots, Arrive(s)
      PROVE  UNCHANGED Ledger!vars
  BY <1>1, <1>5, ArriveLeavesLedger
<1>6. CASE \/ \E m \in Masters : PatchMaster(m) \/ SoftDeleteMaster(m)
          \/ BulkSetStatus
  BY <1>1, <1>6, MastersLeaveLedger
<1>7. CASE Tick \/ Restart
  BY <1>1, <1>7, TablesAlone DEF Tick, Restart
<1>8. QED
  BY <1>1, <1>2, <1>3, <1>4, <1>5, <1>6, <1>7 DEF Next

(* However requests interleave, abort or die with the server, the chores   *)
(* service keeps the ledger: every occurrence is made once and for one     *)
(* chore, none is lost but with its chore, and no counter runs ahead.      *)
THEOREM LedgerKept == Spec => KeepsLedger
<1>1. Spec => []CountInv
  BY Counting
<1>2. QED
  BY <1>1, InitLedger, NextLedger, PTL DEF Spec, KeepsLedger, Ledger!Spec

-------------------------------------------------------------------------------
(* Whose an instance is, when claims and assignments overlap.              *)
(*                                                                         *)
(* update_instance writes the columns in which the request differs from    *)
(* the row it loaded, over the row as it is then; Ownership is about the   *)
(* row that results.  Remembering adds what a loaded row still says: an    *)
(* instance that had a member has one, unless it was purged, and what was  *)
(* purged does not come back under the same key.                           *)

USE DEF OwnInv

(* What a step does to what handlers remember. *)

(* No instance is lost save with its association, no instance loses its    *)
(* member to nobody, and what is deleted for good stays so.                *)
Persists ==
    \A i \in InstIds :
        /\ insts[i] # NoRow /\ insts'[i] = NoRow => assocs'[i[1]] = Gone
        /\ (insts[i] # NoRow /\ insts'[i] # NoRow /\ insts[i].member # None) =>
              insts'[i].member # None
        /\ assocs[i[1]] = Gone => assocs'[i[1]] = Gone

(* A handler that stays where it was remembers after such a step as before.*)
LEMMA Remembered ==
    ASSUME NEW r \in Request, LocalsOK(r), Remembers(r, insts, assocs), Persists, Linked'
    PROVE  Remembers(r, insts', assocs')
<1>1. \A i \in InstIds : assocs'[i[1]] = Gone => insts'[i] = NoRow
  BY DEF Linked, Exists
<1>2. r.at = "commit" => r.inst \in InstIds
  BY DEF LocalsOK
<1>3. QED
  BY <1>1, <1>2 DEF Remembers, Persists

(* One handler moves to local state r in such a step. *)
LEMMA Upheld ==
    ASSUME OwnInv, Base', NEW s \in Slots, NEW r, Goto(s, r),
           Remembers(r, insts', assocs'), Persists
    PROVE  Remembering'
<1>1. req'[s] = r /\ \A q \in Slots \ {s} : req'[q] = req[q]
  BY DEF Goto, TypeOK
<1>2. \A q \in Slots : /\ req[q] \in Request /\ LocalsOK(req[q])
                       /\ Remembers(req[q], insts, assocs)
  BY DEF TypeOK, Locals, Remembering
<1>3. \A q \in Slots \ {s} : Remembers(req[q], insts', assocs')
  BY <1>2, Remembered
<1>4. QED
  BY <1>1, <1>2, <1>3 DEF Remembering

(* Away from a commit there is nothing to remember but the update. *)
LEMMA Elsewhere ==
    ASSUME OwnInv, NEW s \in Slots, NEW r, r.at # "commit", r.upd \in {NoUpdate, req[s].upd}
    PROVE  Remembers(r, insts', assocs')
<1>1. Remembers(req[s], insts, assocs)
  BY DEF Remembering
<1>2. NoUpdate.assigned_by \notin Members
  BY SentinelAssumption DEF NoUpdate
<1>3. QED
  BY <1>1, <1>2 DEF Remembers

(* A step that leaves members and assigners alone, and neither adds nor    *)
(* deletes an instance or an association, keeps both.                      *)
LEMMA SameOwners ==
    ASSUME OwnInv,
           UNCHANGED assocs,
           \A i \in InstIds :
              /\ insts'[i] = NoRow <=> insts[i] = NoRow
              /\ insts[i] # NoRow => /\ insts'[i].member = insts[i].member
                                     /\ insts'[i].assigned_by = insts[i].assigned_by
    PROVE  Persists /\ Ownership'
BY DEF Persists, Ownership

(* A step that leaves the tables of associations and instances alone. *)
LEMMA NothingOwned ==
    ASSUME OwnInv, UNCHANGED <<assocs, insts>>
    PROVE  Persists /\ Ownership'
BY SameOwners

-------------------------------------------------------------------------------
(* Requests arriving. *)

(* Every column list that a claim or an assignment builds names a member.  *)
LEMMA UpdatesName ==
    /\ NoUpdate.assigned_by \notin Members
    /\ \A x : SetStatus(x).assigned_by \notin Members
    /\ \A x : StatusUpdate(x).assigned_by \notin Members
    /\ \A x : RevertUpdate(x).assigned_by \notin Members
    /\ ResetUpdate.assigned_by \notin Members
    /\ \A u \in Members : ClaimUpdate(u).assigned_by \notin Members
    /\ \A u, by \in Members : AssignUpdate(u, by).member \in Members
<1>1. NoUpdate.assigned_by = Keep /\ Keep \notin Members /\ None \notin Members
  BY SentinelAssumption DEF NoUpdate
<1>2. \A x : SetStatus(x).assigned_by = Keep
  BY DEF SetStatus, NoUpdate
<1>3. \A x : StatusUpdate(x).assigned_by = Keep
  BY DEF StatusUpdate, SetStatus, NoUpdate
<1>4. \A x : RevertUpdate(x).assigned_by = Keep
  BY DEF RevertUpdate, SetStatus, NoUpdate
<1>5. ResetUpdate.assigned_by = Keep
  BY DEF ResetUpdate, SetStatus, NoUpdate
<1>6. \A u \in Members : ClaimUpdate(u).assigned_by = None
  BY DEF ClaimUpdate, NoUpdate
<1>7. \A u, by \in Members : AssignUpdate(u, by).member = u
  BY DEF AssignUpdate, NoUpdate
<1>8. QED
  BY <1>1, <1>2, <1>3, <1>4, <1>5, <1>6, <1>7

(* A handler that goes on, or begins, without writing to the tables and    *)
(* away from a commit, remembers nothing but an update that names somebody.*)
LEMMA BeginsOwning ==
    ASSUME OwnInv, Base', NEW s \in Slots, NEW r, Goto(s, r), UNCHANGED <<tables, clock>>,
           r.at # "commit", r.upd.assigned_by \in Members => r.upd.member \in Members
    PROVE  Remembering' /\ Ownership'
<1>1. UNCHANGED <<assocs, insts>>
  BY DEF tables
<1>2. Remembers(r, insts', assocs')
  BY DEF Remembers
<1>3. QED
  BY <1>1, <1>2, NothingOwned, Upheld

(* A request to update an instance keeps every owner. *)
LEMMA BeginUpdateOwns ==
    ASSUME OwnInv, Base', NEW s \in Slots, NEW op, NEW i, NEW u, BeginUpdate(s, op, i, u),
           u.assigned_by \in Members => u.member \in Members
    PROVE  Remembering' /\ Ownership'
<1> DEFINE r == [[Idle EXCEPT !.at = "load", !.inst = i, !.upd = u] EXCEPT !.op = op]
<1>1. r.at = "load" /\ r.upd = u
  BY DEF Idle
<1>2. Goto(s, r) /\ UNCHANGED <<tables, clock>>
  BY DEF BeginUpdate, Begin
<1> HIDE DEF r
<1>3. QED
  BY <1>1, <1>2, BeginsOwning

(* Every request that arrives keeps every owner. *)
LEMMA ArriveOwns ==
    ASSUME OwnInv, Base', NEW s \in Slots, Arrive(s)
    PROVE  Remembering' /\ Ownership'
<1>1. CASE \/ ClaimInstance(s) \/ AssignInstance(s) \/ RevertInstanceStatus(s)
           \/ ResetInstance(s) \/ UpdateInstanceStatus(s) \/ DeleteInstance(s)
  <2>1. \E op, i : \E u :
          /\ BeginUpdate(s, op, i, u)
          /\ u.assigned_by \in Members => u.member \in Members
    BY <1>1, UpdatesName
       DEF ClaimInstance, AssignInstance, RevertInstanceStatus, ResetInstance,
           UpdateInstanceStatus, DeleteInstance
  <2> QED BY <2>1, BeginUpdateOwns
<1>2. CASE CreateAssociation(s)
  <2>1. PICK m \in Masters, u \in Members \cup {None} : \E upd \in AutoUpdates(u) :
          Begin(s, "create_assoc",
                [Idle EXCEPT !.at = "insert_assoc", !.master = m, !.member = u,
                             !.upd = upd, !.copy = [@ EXCEPT ![m] = masters[m]]])
    BY <1>2 DEF CreateAssociation
  <2>2. PICK upd \in AutoUpdates(u) :
          Begin(s, "create_assoc",
                [Idle EXCEPT !.at = "insert_assoc", !.master = m, !.member = u,
                             !.upd = upd, !.copy = [@ EXCEPT ![m] = masters[m]]])
    BY <2>1
  <2>3. upd.assigned_by \in Members => upd.member \in Members
    BY UpdatesName DEF AutoUpdates
  <2> DEFINE r == [[Idle EXCEPT !.at = "insert_assoc", !.master = m, !.member = u,
                                !.upd = upd, !.copy = [@ EXCEPT ![m] = masters[m]]]
                   EXCEPT !.op = "create_assoc"]
  <2>4. r.at = "insert_assoc" /\ r.upd = upd
    BY DEF Idle
  <2>5. Goto(s, r) /\ UNCHANGED <<tables, clock>>
    BY <2>2 DEF Begin
  <2> HIDE DEF r
  <2> QED BY <2>3, <2>4, <2>5, BeginsOwning
<1>3. CASE DeleteAssociation(s) \/ Sync(s) \/ BulkArchive(s) \/ PurgeMaster(s)
  <2> DEFINE Fresh(r) == r.at # "commit" /\ r.upd = NoUpdate
             released(a) == [[Idle EXCEPT !.at = "release", !.assoc = a,
                                          !.todo = Having(OfAssociation(a), Startable)]
                             EXCEPT !.op = "delete_assoc"]
             synced == [[Idle EXCEPT !.at = "expire", !.todo = Expired] EXCEPT !.op = "sync"]
             archived(b) == [[Idle EXCEPT !.at = "guard", !.batch = b, !.left = b]
                             EXCEPT !.op = "bulk_archive"]
             purged(m) == [[Idle EXCEPT !.at = "purge", !.master = m,
                                        !.queue = AssociationsOf(m)]
                           EXCEPT !.op = "purge"]
  <2>1. /\ \A a : Fresh(released(a))
        /\ Fresh(synced)
        /\ \A b : Fresh(archived(b))
        /\ \A m : Fresh(purged(m))
    BY DEF Idle
  <2>2. /\ \/ \E a : Goto(s, released(a))
           \/ Goto(s, synced)
           \/ \E b : Goto(s, archived(b))
           \/ \E m : Goto(s, purged(m))
        /\ UNCHANGED <<tables, clock>>
    BY <1>3 DEF DeleteAssociation, Sync, BulkArchive, PurgeMaster, Begin
  <2>3. PICK r : Goto(s, r) /\ Fresh(r)
    <3> HIDE DEF Fresh, released, synced, archived, purged
    <3> QED BY <2>1, <2>2
  <2> QED BY <2>2, <2>3, UpdatesName, BeginsOwning
<1>4. QED
  BY <1>1, <1>2, <1>3 DEF Arrive

-------------------------------------------------------------------------------
(* Handlers going on. *)

(* Where a handler goes on from anywhere but a load. *)
GoesElsewhere(s) ==
    \E r : Goto(s, r) /\ r.at # "commit" /\ r.upd \in {NoUpdate, req[s].upd}

(* A generation that ends hands its caller the update it had, or none. *)
LEMMA ResumesElsewhere ==
    ASSUME OwnInv, NEW s \in Slots, NEW i, Resume(s, i)
    PROVE  GoesElsewhere(s)
<1>1. req[s] \in Request
  BY DEF TypeOK
<1> DEFINE r1 == [req[s] EXCEPT !.at = "next", !.queue = Remaining(s), !.todo = {},
                                !.inst = None, !.assoc = None, !.master = None]
           r2 == [Idle EXCEPT !.op = "create_assoc", !.at = "load",
                              !.inst = i, !.upd = req[s].upd]
<1>2. Goto(s, r1) \/ Goto(s, r2) \/ Goto(s, Idle)
  BY DEF Resume, Finish
<1>3. r1.at = "next" /\ r1.upd = req[s].upd
  BY <1>1 DEF Request
<1>4. r2.at = "load" /\ r2.upd = req[s].upd /\ Idle.at = "idle" /\ Idle.upd = NoUpdate
  BY DEF Idle
<1> HIDE DEF r1, r2
<1>5. QED
  BY <1>2, <1>3, <1>4 DEF GoesElsewhere

(* A handler that ends remembers nothing. *)
LEMMA FinishesElsewhere ==
    ASSUME NEW s \in Slots, Finish(s)
    PROVE  GoesElsewhere(s)
<1>1. Idle.at = "idle" /\ Idle.upd = NoUpdate
  BY DEF Idle
<1>2. QED
  BY <1>1 DEF Finish, GoesElsewhere

(* A handler that moves on keeps its update. *)
LEMMA MovesElsewhere ==
    ASSUME OwnInv, NEW s \in Slots, NEW r, Goto(s, r), r.at # "commit", r.upd = req[s].upd
    PROVE  GoesElsewhere(s)
BY DEF GoesElsewhere

(* Only a load leads to a commit. *)
LEMMA ContinuesElsewhere ==
    ASSUME OwnInv, NEW s \in Slots, Continue(s), ~LoadRow(s)
    PROVE  GoesElsewhere(s)
<1>1. req[s] \in Request
  BY DEF TypeOK
<1>2. CASE CommitRow(s)
  <2> DEFINE r == [Idle EXCEPT !.op = req[s].op, !.at = "lookup", !.assoc = req[s].inst[1]]
  <2>1. Goto(s, r) \/ Finish(s)
    BY <1>2 DEF CommitRow
  <2>2. r.at = "lookup" /\ r.upd = NoUpdate
    BY DEF Idle
  <2> HIDE DEF r
  <2> QED BY <2>1, <2>2, FinishesElsewhere DEF GoesElsewhere
<1>3. CASE LookupMaster(s)
  <2> DEFINE m == assocs[req[s].assoc].master
             r == [req[s] EXCEPT !.at = "gen", !.master = m, !.copy = [@ EXCEPT ![m] = masters[m]]]
  <2>1. Goto(s, r) \/ Finish(s)
    BY <1>3 DEF LookupMaster
  <2>2. r.at = "gen" /\ r.upd = req[s].upd
    BY <1>1 DEF Request
  <2> HIDE DEF r
  <2> QED BY <2>1, <2>2, FinishesElsewhere, MovesElsewhere
<1>4. CASE PlanInstance(s)
  <2> DEFINE r(at, i, todo) == [req[s] EXCEPT !.at = at, !.inst = i, !.todo = todo]
  <2>1. \/ \E i : Resume(s, i)
        \/ \E at \in {"insert", "archive"} : \E i, todo : Goto(s, r(at, i, todo))
    BY <1>4 DEF PlanInstance
  <2>2. \A at, i, todo : r(at, i, todo).at = at /\ r(at, i, todo).upd = req[s].upd
    BY <1>1 DEF Request
  <2> HIDE DEF r
  <2> QED BY <2>1, <2>2, ResumesElsewhere, MovesElsewhere
<1>5. CASE ArchiveOld(s) \/ ReleaseInstances(s)
  <2> DEFINE r(at) == [req[s] EXCEPT !.at = at, !.todo = {}]
  <2>1. \E at \in {"insert", "remove"} : Goto(s, r(at))
    BY <1>5 DEF ArchiveOld, ReleaseInstances
  <2>2. \A at : r(at).at = at /\ r(at).upd = req[s].upd
    BY <1>1 DEF Request
  <2> HIDE DEF r
  <2> QED BY <2>1, <2>2, MovesElsewhere
<1>6. CASE InsertInstance(s)
  <2> DEFINE r == [req[s] EXCEPT !.at = "count"]
  <2>1. Resume(s, None) \/ Goto(s, r)
    BY <1>6 DEF InsertInstance
  <2>2. r.at = "count" /\ r.upd = req[s].upd
    BY <1>1 DEF Request
  <2> HIDE DEF r
  <2> QED BY <2>1, <2>2, ResumesElsewhere, MovesElsewhere
<1>7. CASE CountInstance(s)
  BY <1>7, ResumesElsewhere DEF CountInstance
<1>8. CASE InsertAssociation(s)
  <2> DEFINE r(a) == [req[s] EXCEPT !.at = "gen", !.assoc = a]
  <2>1. \E a : Goto(s, r(a))
    BY <1>8 DEF InsertAssociation
  <2>2. \A a : r(a).at = "gen" /\ r(a).upd = req[s].upd
    BY <1>1 DEF Request
  <2> HIDE DEF r
  <2> QED BY <2>1, <2>2, MovesElsewhere
<1>9. CASE MarkMissed(s) \/ MarkOverdue(s) \/ CascadeArchive(s)
  <2> DEFINE r(i) == [req[s] EXCEPT !.todo = @ \ {i}]
  <2>1. \E i : Goto(s, r(i))
    BY <1>9 DEF MarkMissed, MarkOverdue, CascadeArchive, MarkOne
  <2>2. \A i : r(i).at = req[s].at /\ r(i).upd = req[s].upd
    BY <1>1 DEF Request
  <2>3. req[s].at # "commit"
    BY <1>9 DEF MarkMissed, MarkOverdue, CascadeArchive, At
  <2> HIDE DEF r
  <2> QED BY <2>1, <2>2, <2>3, MovesElsewhere
<1>10. CASE ListOverdue(s)
  <2> DEFINE r == [req[s] EXCEPT !.at = "overdue", !.todo = Overdue]
  <2>1. Goto(s, r)
    BY <1>10 DEF ListOverdue
  <2>2. r.at = "overdue" /\ r.upd = req[s].upd
    BY <1>1 DEF Request
  <2> HIDE DEF r
  <2> QED BY <2>1, <2>2, MovesElsewhere
<1>11. CASE ListAssociations(s)
  <2> DEFINE r(all) == [req[s] EXCEPT !.at = "next", !.queue = all]
  <2>1. Finish(s) \/ \E all : Goto(s, r(all))
    BY <1>11 DEF ListAssociations
  <2>2. \A all : r(all).at = "next" /\ r(all).upd = req[s].upd
    BY <1>1 DEF Request
  <2> HIDE DEF r
  <2> QED BY <2>1, <2>2, FinishesElsewhere, MovesElsewhere
<1>12. CASE NextAssociation(s)
  <2> DEFINE r1(a, m, copy) == [req[s] EXCEPT !.at = "gen", !.assoc = a, !.master = m,
                                              !.copy = copy]
             r2(rest, copy) == [req[s] EXCEPT !.queue = rest, !.copy = copy]
  <2>1. \/ Finish(s)
        \/ \E a, m, copy : Goto(s, r1(a, m, copy))
        \/ \E rest, copy : Goto(s, r2(rest, copy))
    BY <1>12 DEF NextAssociation
  <2>2. /\ \A a, m, copy : r1(a, m, copy).at = "gen" /\ r1(a, m, copy).upd = req[s].upd
        /\ \A rest, copy : r2(rest, copy).at = req[s].at /\ r2(rest, copy).upd = req[s].upd
    BY <1>1 DEF Request
  <2>3. req[s].at = "next"
    BY <1>12 DEF NextAssociation, At
  <2> HIDE DEF r1, r2
  <2> QED BY <2>1, <2>2, <2>3, FinishesElsewhere, MovesElsewhere
<1>13. CASE GuardMaster(s)
  <2> DEFINE r(left, todo) == [req[s] EXCEPT !.left = left, !.todo = todo]
  <2>1. \E left, todo : Goto(s, r(left, todo))
    BY <1>13 DEF GuardMaster
  <2>2. \A left, todo : r(left, todo).at = req[s].at /\ r(left, todo).upd = req[s].upd
    BY <1>1 DEF Request
  <2>3. req[s].at = "guard"
    BY <1>13 DEF GuardMaster, At
  <2> HIDE DEF r
  <2> QED BY <2>1, <2>2, <2>3, MovesElsewhere
<1>14. CASE RemoveAssociation(s) \/ BulkCommit(s) \/ PurgeCommit(s) \/ Abort(s)
  BY <1>14, FinishesElsewhere DEF RemoveAssociation, BulkCommit, PurgeCommit, Abort
<1>15. QED
  BY <1>2, <1>3, <1>4, <1>5, <1>6, <1>7, <1>8, <1>9, <1>10, <1>11, <1>12, <1>13, <1>14
     DEF Continue

-------------------------------------------------------------------------------
(* What handlers write. *)

(* Setting statuses leaves members and assigners alone. *)
LEMMA StatusesOwn ==
    ASSUME OwnInv, NEW ids \in SUBSET InstIds, ~Vanished(ids), NEW x \in InstStatus,
           SetStatuses(ids, x), UNCHANGED assocs
    PROVE  Persists /\ Ownership'
<1>1. \A i \in InstIds :
        insts'[i] = IF i \in ids THEN [insts[i] EXCEPT !.status = x] ELSE insts[i]
  BY DEF SetStatuses
<1>2. \A i \in InstIds : insts'[i] = NoRow <=> insts[i] = NoRow
  BY SettingStatuses
<1>3. \A i \in InstIds : insts[i] # NoRow => insts[i] \in InstRow
  BY RowsTyped
<1>4. \A row \in InstRow : /\ [row EXCEPT !.status = x].member = row.member
                           /\ [row EXCEPT !.status = x].assigned_by = row.assigned_by
  BY DEF InstRow
<1>5. QED
  BY <1>1, <1>2, <1>3, <1>4, SameOwners

(* The loops that mark and archive instances leave their owners alone. *)
LEMMA MarkingOwns ==
    ASSUME OwnInv, NEW s \in Slots,
           \/ ArchiveOld(s) \/ ReleaseInstances(s)
           \/ MarkMissed(s) \/ MarkOverdue(s) \/ CascadeArchive(s)
    PROVE  Persists /\ Ownership'
<1>1. req[s].todo \in SUBSET InstIds
  BY DEF TypeOK, Request
<1>2. {"missed", "overdue", "archived"} \subseteq InstStatus
  BY DEF InstStatus
<1>3. CASE ArchiveOld(s) \/ ReleaseInstances(s)
  BY <1>1, <1>2, <1>3, StatusesOwn DEF ArchiveOld, ReleaseInstances
<1>4. CASE MarkMissed(s) \/ MarkOverdue(s) \/ CascadeArchive(s)
  <2>1. PICK x \in {"missed", "overdue", "archived"} : MarkOne(s, x)
    BY <1>4 DEF MarkMissed, MarkOverdue, CascadeArchive
  <2>2. PICK i \in req[s].todo : insts[i] # NoRow /\ SetStatuses({i}, x) /\ UNCHANGED assocs
    BY <2>1 DEF MarkOne
  <2>3. {i} \in SUBSET InstIds /\ ~Vanished({i})
    BY <1>1, <2>2 DEF Vanished
  <2> QED BY <1>2, <2>2, <2>3, StatusesOwn
<1>5. QED
  BY <1>3, <1>4

(* The UPDATE of update_instance.  Each column comes from the request or   *)
(* from the row as it is; a member is never taken away, and the constraint *)
(* refuses an assigner who is the member.                                  *)
LEMMA CommitOwns ==
    ASSUME OwnInv, NEW s \in Slots, CommitRow(s)
    PROVE  Persists /\ Ownership'
<1> DEFINE i == req[s].inst
           u == req[s].upd
           old == insts[i]
           new == Merged(s)
<1>1. i \in InstIds /\ req[s].row \in InstRow /\ u \in Update
  BY DEF TypeOK, Locals, LocalsOK, CommitRow, At, Request
<1>2. old # NoRow /\ old \in InstRow
  BY <1>1, RowsTyped DEF CommitRow
<1>3. /\ u.assigned_by \in Members => u.member \in Members
      /\ req[s].row.member # None => old.member # None
  BY <1>2 DEF Remembering, Remembers, CommitRow, At
<1>4. u.member \in Members \cup {Keep} /\ u.assigned_by \in Members \cup {None, Keep}
  BY <1>1 DEF Update
<1>5. new.member = Column(u.member, req[s].row.member, old.member)
  BY DEF Merged, Written
<1>6. new.assigned_by = Column(u.assigned_by, req[s].row.assigned_by, old.assigned_by)
  BY DEF Merged, Written
<1>7. None \notin Members /\ Keep \notin Members
  BY SentinelAssumption
<1>8. old.member # None => new.member # None
  BY <1>4, <1>5, <1>7 DEF Column
<1>9. u.member \in Members => new.member # None
  BY <1>3, <1>5, <1>7 DEF Column
<1>10. old.assigned_by # None => old.member # None
  BY <1>1, <1>2 DEF Ownership
<1>11. new.assigned_by # None => new.member # None
  <2>1. CASE new.assigned_by = old.assigned_by
    BY <1>8, <1>10, <2>1
  <2>2. CASE new.assigned_by # old.assigned_by
    <3>1. new.assigned_by = u.assigned_by /\ u.assigned_by # Keep
      BY <1>6, <2>2 DEF Column
    <3> QED BY <1>3, <1>4, <1>9, <3>1
  <2> QED BY <2>1, <2>2
<1>12. new.assigned_by # None => new.member # new.assigned_by
  BY DEF CommitRow, SelfAssigned
<1>13. new \in InstRow /\ new # NoRow
  BY <1>1, <1>2, WrittenTyped, SentinelAssumption DEF Merged
<1>14. \A j \in InstIds : insts'[j] = IF j = i THEN new ELSE insts[j]
  BY <1>1 DEF CommitRow, TypeOK
<1>15. UNCHANGED assocs
  BY DEF CommitRow
<1>16. assocs[i[1]].member # None => old.member # None
  BY <1>1, <1>2 DEF Ownership
<1> HIDE DEF i, u, old, new
<1>17. Persists
  BY <1>1, <1>8, <1>13, <1>14, <1>15 DEF Persists, old
<1>18. Ownership'
  BY <1>1, <1>2, <1>8, <1>11, <1>12, <1>13, <1>14, <1>15, <1>16 DEF Ownership, old
<1>19. QED
  BY <1>17, <1>18

(* A new instance is its association's member's, or nobody's. *)
LEMMA InsertOwns ==
    ASSUME OwnInv, NEW s \in Slots, InsertInstance(s)
    PROVE  Persists /\ Ownership'
<1>1. CASE UNCHANGED insts
  BY <1>1, NothingOwned DEF InsertInstance
<1>2. CASE ~UNCHANGED insts
  <2> DEFINE i == req[s].inst
             new == NewInstance(assocs[i[1]])
  <2>1. i \in InstIds
    BY <1>2 DEF TypeOK, Locals, LocalsOK, InsertInstance, At
  <2>2. /\ insts[i] = NoRow /\ Exists(assocs[i[1]])
        /\ insts' = [insts EXCEPT ![i] = new]
        /\ UNCHANGED assocs
    BY <1>2 DEF InsertInstance
  <2>3. new.member = assocs[i[1]].member /\ new.assigned_by = None
    BY DEF NewInstance
  <2>4. \A j \in InstIds : insts'[j] = IF j = i THEN new ELSE insts[j]
    BY <2>1, <2>2 DEF TypeOK
  <2> HIDE DEF i, new
  <2>5. Persists
    BY <2>1, <2>2, <2>4 DEF Persists
  <2>6. Ownership'
    BY <2>1, <2>2, <2>3, <2>4 DEF Ownership
  <2> QED BY <2>5, <2>6
<1>3. QED
  BY <1>1, <1>2

(* A new association has no instance yet, and a removed one keeps its      *)
(* member.                                                                 *)
LEMMA AssociationsOwn ==
    ASSUME OwnInv, NEW s \in Slots, InsertAssociation(s) \/ RemoveAssociation(s)
    PROVE  Persists /\ Ownership'
<1>1. UNCHANGED insts
  BY DEF InsertAssociation, RemoveAssociation
<1>2. \A j \in InstIds : j[1] \in AssocIds /\ (insts[j] # NoRow => Exists(assocs[j[1]]))
  BY DEF InstIds, Linked
<1>3. \A b \in AssocIds :
        /\ assocs[b] = Gone => assocs'[b] = Gone
        /\ Exists(assocs[b]) => assocs'[b].member = assocs[b].member
  <2>1. CASE InsertAssociation(s)
    <3>1. PICK a \in AssocIds :
            /\ assocs[a] = NoRow
            /\ assocs' = [assocs EXCEPT ![a] =
                  [master |-> req[s].master, member |-> req[s].member, removed |-> FALSE]]
      BY <2>1 DEF InsertAssociation, NextAssoc
    <3>2. \A b \in AssocIds : b # a => assocs'[b] = assocs[b]
      BY <3>1 DEF TypeOK
    <3> QED BY <3>1, <3>2, SentinelAssumption DEF Exists
  <2>2. CASE RemoveAssociation(s)
    <3> DEFINE a == req[s].assoc
               row == [assocs[a] EXCEPT !.removed = TRUE]
    <3>1. a \in AssocIds
      BY <2>2 DEF TypeOK, Locals, LocalsOK, RemoveAssociation, At
    <3>2. CASE Exists(assocs[a])
      <4>1. row.member = assocs[a].member
        BY <3>1, <3>2, RowsTyped DEF AssocRow
      <4>2. \A b \in AssocIds : assocs'[b] = IF b = a THEN row ELSE assocs[b]
        BY <2>2, <3>2 DEF RemoveAssociation, TypeOK
      <4> HIDE DEF a, row
      <4> QED BY <3>2, <4>1, <4>2 DEF Exists
    <3>3. CASE ~Exists(assocs[a])
      BY <2>2, <3>3 DEF RemoveAssociation
    <3> QED BY <3>2, <3>3
  <2> QED BY <2>1, <2>2
<1>4. Persists
  BY <1>1, <1>2, <1>3 DEF Persists
<1>5. Ownership'
  BY <1>1, <1>2, <1>3 DEF Ownership
<1>6. QED
  BY <1>4, <1>5

(* A permanent delete takes instances only together with their association.*)
LEMMA PurgeOwns ==
    ASSUME OwnInv, Linked', NEW s \in Slots, PurgeCommit(s)
    PROVE  Persists /\ Ownership'
<1> DEFINE m == req[s].master
<1>1. req[s] \in Request /\ m \in Masters /\ req[s].at = "purge"
  BY DEF TypeOK, Locals, LocalsOK, PurgeCommit, At
<1>2. /\ \A a \in AssocIds :
            assocs'[a] = IF a \in AssociationsOf(m) THEN Gone ELSE assocs[a]
      /\ \A i \in InstIds :
            insts'[i] = IF i[1] \in req[s].queue THEN NoRow ELSE insts[i]
  BY DEF PurgeCommit, PurgedInstances
<1>3. \A i \in InstIds : i[1] \in AssocIds
  BY DEF InstIds
<1>4. \A a \in req[s].queue : Exists(assocs[a]) => assocs[a].master = m
  BY <1>1 DEF Attached, Attaches, BelongsTo
<1>5. \A i \in InstIds : insts[i] # NoRow /\ i[1] \in req[s].queue => assocs'[i[1]] = Gone
  BY <1>2, <1>3, <1>4 DEF Linked, AssociationsOf
<1>6. \A i \in InstIds : insts'[i] # NoRow =>
        insts[i] # NoRow /\ insts'[i] = insts[i] /\ assocs'[i[1]] = assocs[i[1]]
  BY <1>2, <1>3 DEF Linked, Exists
<1>7. Persists
  BY <1>2, <1>3, <1>5, <1>6 DEF Persists
<1>8. Ownership'
  BY <1>6 DEF Ownership
<1>9. QED
  BY <1>7, <1>8

-------------------------------------------------------------------------------
(* Every step. *)

(* A handler that goes on keeps every owner. *)
LEMMA ContinueOwns ==
    ASSUME OwnInv, Base', NEW s \in Slots, Continue(s)
    PROVE  Remembering' /\ Ownership'
<1>1. CASE LoadRow(s)
  <2> DEFINE r == [req[s] EXCEPT !.at = "commit", !.row = insts[req[s].inst]]
  <2>1. req[s] \in Request /\ Remembers(req[s], insts, assocs)
    BY DEF TypeOK, Remembering
  <2>2. r.inst = req[s].inst /\ r.upd = req[s].upd /\ r.row = insts[req[s].inst]
    BY <2>1 DEF Request
  <2>3. Goto(s, r) /\ UNCHANGED <<assocs, insts>> /\ insts[req[s].inst] # NoRow
    BY <1>1 DEF LoadRow, tables
  <2> HIDE DEF r
  <2>4. Remembers(r, insts', assocs')
    BY <2>1, <2>2, <2>3 DEF Remembers
  <2> QED BY <2>3, <2>4, NothingOwned, Upheld
<1>2. CASE ~LoadRow(s)
  <2>1. PICK r : Goto(s, r) /\ r.at # "commit" /\ r.upd \in {NoUpdate, req[s].upd}
    BY <1>2, ContinuesElsewhere DEF GoesElsewhere
  <2>2. Remembers(r, insts', assocs')
    BY <2>1, Elsewhere
  <2>3. CASE \/ LookupMaster(s) \/ PlanInstance(s) \/ CountInstance(s) \/ ListOverdue(s)
             \/ ListAssociations(s) \/ NextAssociation(s) \/ GuardMaster(s)
             \/ BulkCommit(s) \/ Abort(s)
    <3>1. UNCHANGED <<assocs, insts>>
      BY <2>3 DEF LookupMaster, PlanInstance, CountInstance, ListOverdue, ListAssociations,
                  NextAssociation, GuardMaster, BulkCommit, Abort, tables
    <3> QED BY <2>1, <2>2, <3>1, NothingOwned, Upheld
  <2>4. CASE \/ ArchiveOld(s) \/ ReleaseInstances(s)
             \/ MarkMissed(s) \/ MarkOverdue(s) \/ CascadeArchive(s)
    BY <2>1, <2>2, <2>4, MarkingOwns, Upheld
  <2>5. CASE CommitRow(s)
    BY <2>1, <2>2, <2>5, CommitOwns, Upheld
  <2>6. CASE InsertInstance(s)
    BY <2>1, <2>2, <2>6, InsertOwns, Upheld
  <2>7. CASE InsertAssociation(s) \/ RemoveAssociation(s)
    BY <2>1, <2>2, <2>7, AssociationsOwn, Upheld
  <2>8. CASE PurgeCommit(s)
    BY <2>1, <2>2, <2>8, PurgeOwns, Upheld
  <2> QED BY <1>2, <2>3, <2>4, <2>5, <2>6, <2>7, <2>8 DEF Continue
<1>3. QED
  BY <1>1, <1>2

(* The masters' own operations, the clock and a restart keep every owner.  *)
LEMMA EnvironmentOwns ==
    ASSUME OwnInv, Base',
           \/ \E m \in Masters : CreateMaster(m) \/ PatchMaster(m) \/ SoftDeleteMaster(m)
           \/ BulkSetStatus \/ Tick \/ Restart \/ UNCHANGED vars
    PROVE  Remembering' /\ Ownership'
<1>1. UNCHANGED <<assocs, insts>>
  BY DEF CreateMaster, PatchMaster, SoftDeleteMaster, BulkSetStatus, Tick, Restart,
         tables, vars
<1>2. Persists /\ Ownership'
  BY <1>1, NothingOwned
<1>3. CASE UNCHANGED req
  BY <1>1, <1>2, <1>3 DEF Remembering
<1>4. CASE Restart
  <2>1. Remembers(Idle, insts', assocs')
    BY UpdatesName DEF Remembers, Idle
  <2> QED BY <1>2, <1>4, <2>1 DEF Restart, Remembering
<1>5. QED
  BY <1>2, <1>3, <1>4 DEF CreateMaster, PatchMaster, SoftDeleteMaster, BulkSetStatus, Tick, vars

(* The empty board belongs to nobody. *)
LEMMA InitOwns == Init => OwnInv
<1>1. SUFFICES ASSUME Init PROVE OwnInv
  OBVIOUS
<1>2. CountInv
  BY <1>1, InitCount
<1>3. Remembering
  BY <1>1, UpdatesName DEF Init, Remembering, Remembers, Idle
<1>4. Ownership
  BY <1>1 DEF Init, Ownership
<1>5. QED
  BY <1>2, <1>3, <1>4

(* Every step keeps every owner. *)
LEMMA NextOwns == OwnInv /\ [Next]_vars => OwnInv'
<1>1. SUFFICES ASSUME OwnInv, [Next]_vars PROVE OwnInv'
  OBVIOUS
<1>2. CountInv'
  BY <1>1, NextCount
<1>3. Remembering' /\ Ownership'
  BY <1>1, <1>2, ArriveOwns, ContinueOwns, EnvironmentOwns DEF Next
<1>4. QED
  BY <1>2, <1>3

(* In every behaviour of the board, OwnInv holds. *)
THEOREM Owning == Spec => []OwnInv
BY InitOwns, NextOwns, PTL DEF Spec

(* However many claims, assignments, completions, removals and permanent   *)
(* deletions overlap: an instance of a member's association always has a   *)
(* member, and nobody is recorded as having assigned it to himself or to   *)
(* nobody, although update_instance writes only the columns that changed.  *)
THEOREM OwnersKept == Spec => []Ownership
<1>1. OwnInv => Ownership
  OBVIOUS
<1>2. QED
  BY <1>1, Owning, PTL

===============================================================================
