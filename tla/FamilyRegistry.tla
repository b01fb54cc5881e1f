---------------------------- MODULE FamilyRegistry ----------------------------
(***************************************************************************)
(* The registry of family members: the endpoints that write, of            *)
(* app/api/routes/family.py, over the table family_members, and the        *)
(* seeding at start-up.                                                    *)
(*                                                                         *)
(* A handler reads the member it is about (get_member), then save or       *)
(* delete reads the row again and commits: at each of the three awaits     *)
(* other handlers may run.  The session keeps nothing between the two      *)
(* reads, because nobody holds on to the row the first one loaded.         *)
(***************************************************************************)
EXTENDS Integers, FiniteSets

CONSTANTS
    Keys,          \* member keys ("faiyaz")
    Columns,       \* the columns a request may write: name, email, ...
    Values,        \* what a column may hold
    Clients,       \* requests that may be in flight together
    Configured,    \* the members of the environment's FAMILY_MEMBERS
    MaxUuids,      \* bound: UUIDs ever generated
    MaxRestarts,   \* bound: times the server restarts
    Keep,          \* a column that a PATCH does not mention
    None

VARIABLES
    members,       \* table family_members, by its unique key
    referred,      \* UUIDs that rows of the chores tables refer to
    issued,        \* UUIDs generated so far
    call,          \* the local variables of each handler
    todo,          \* members the seeding has still to save
    restarts

registry == <<members, referred, issued, call, todo, restarts>>

Uuids   == 1..MaxUuids
Profile == [Columns -> Values]
Row     == [uuid: Uuids, profile: Profile]
Sent    == [Columns -> Values \cup {Keep}]

ASSUME RegistryAssumption ==
    /\ Configured \subseteq Keys
    /\ MaxUuids \in Nat /\ MaxRestarts \in Nat /\ Cardinality(Configured) <= MaxUuids
    /\ Keep \notin Values /\ None \notin Row

(* sent: the body; member: the domain object; row: what save has loaded. *)
Call ==
    [op: {"idle", "create", "replace", "patch", "delete"},
     at: {"idle", "read", "load", "commit"}, key: Keys \cup {None},
     sent: Sent \cup {None}, member: Row \cup {None}, row: Row \cup {None}]

Idle == [op |-> "idle", at |-> "idle", key |-> None, sent |-> None,
         member |-> None, row |-> None]

Registered == {k \in Keys : members[k] # None}

Stored == {members[k].uuid : k \in Registered}

Goto(c, x) == call' = [call EXCEPT ![c] = x]

At(c, label) == call[c].at = label

-------------------------------------------------------------------------------
(* uuid7(). *)

(* Mutant (Identity): two calls return the same. *)
GenerateMutant(u) == u = 1 /\ issued < MaxUuids /\ issued' = issued + 1

Generate(u) == issued < MaxUuids /\ issued' = issued + 1 /\ u = issued'

(* Requests are served once the seeding is done. *)
Begin(c, x) ==
    /\ todo = {}
    /\ At(c, "idle")
    /\ Goto(c, x)
    /\ UNCHANGED <<members, referred, todo, restarts>>

CreateFamilyMember(c) ==
    \E k \in Keys, p \in Profile :
        /\ Begin(c, [Idle EXCEPT !.op = "create", !.at = "read", !.key = k, !.sent = p])
        /\ UNCHANGED issued

(* A PUT looks nothing up: its member has a UUID of its own. *)
ReplaceFamilyMember(c) ==
    \E k \in Keys, p \in Profile, u \in Uuids :
        /\ Generate(u)
        /\ Begin(c, [Idle EXCEPT !.op = "replace", !.at = "load", !.key = k,
                                 !.member = [uuid |-> u, profile |-> p]])

UpdateFamilyMember(c) ==
    \E k \in Keys, b \in Sent :
        /\ Begin(c, [Idle EXCEPT !.op = "patch", !.at = "read", !.key = k, !.sent = b])
        /\ UNCHANGED issued

DeleteFamilyMember(c) ==
    \E k \in Keys :
        /\ Begin(c, [Idle EXCEPT !.op = "delete", !.at = "read", !.key = k])
        /\ UNCHANGED issued

-------------------------------------------------------------------------------
(* get_member, and the 404 or 409 that may follow. *)

Found(c) == members[call[c].key]

Refused(c) == (call[c].op = "create") = (Found(c) # None)

(* Mutant (RegistryTypeOK): what the body leaves out is written as well. *)
PatchedMutant(sent, profile) == sent

Patched(sent, profile) ==
    [col \in Columns |-> IF sent[col] = Keep THEN profile[col] ELSE sent[col]]

GetMember(c) ==
    /\ At(c, "read")
    /\ \/ Refused(c) /\ Goto(c, Idle) /\ UNCHANGED issued
       \/ /\ call[c].op = "create" /\ ~Refused(c)
          /\ \E u \in Uuids :
                /\ Generate(u)
                /\ Goto(c, [call[c] EXCEPT !.at = "load",
                                !.member = [uuid |-> u, profile |-> call[c].sent]])
       \/ /\ call[c].op = "patch" /\ ~Refused(c)
          /\ Goto(c, [call[c] EXCEPT !.at = "load",
                          !.member = [Found(c) EXCEPT !.profile = Patched(call[c].sent, @)]])
          /\ UNCHANGED issued
       \/ /\ call[c].op = "delete" /\ ~Refused(c)
          /\ Goto(c, [call[c] EXCEPT !.at = "load"])
          /\ UNCHANGED issued
    /\ UNCHANGED <<members, referred, todo, restarts>>

(* save and delete: SELECT. *)
Load(c) ==
    /\ At(c, "load")
    /\ IF call[c].op = "delete" /\ Found(c) = None THEN Goto(c, Idle)
       ELSE Goto(c, [call[c] EXCEPT !.at = "commit", !.row = Found(c)])
    /\ UNCHANGED <<members, referred, issued, todo, restarts>>

(* The row that was loaded is still there. *)
StillThere(c) == Found(c) # None /\ Found(c).uuid = call[c].row.uuid

(* Mutant (Identity): save writes the whole of the domain object. *)
WrittenMutant(member, loaded, current) == member

(* The columns that differ from the loaded row; never the primary key. *)
Written(member, loaded, current) ==
    [current EXCEPT !.profile =
        [col \in Columns |-> IF member.profile[col] = loaded.profile[col] THEN @[col]
                             ELSE member.profile[col]]]

(* save: commit.  A create whose key was taken between its two reads       *)
(* finds a row to update here.                                             *)
Save(c) ==
    /\ At(c, "commit")
    /\ call[c].op # "delete"
    /\ LET k == call[c].key
           m == call[c].member
           r == call[c].row
       IN  IF r = None
           THEN Found(c) = None /\ members' = [members EXCEPT ![k] = m]
           ELSE IF m.profile = r.profile THEN UNCHANGED members
           ELSE StillThere(c) /\ members' = [members EXCEPT ![k] = Written(m, r, @)]
    /\ Goto(c, Idle)
    /\ UNCHANGED <<referred, issued, todo, restarts>>

(* Mutant (ReferredToExist): the chores tables do not forbid it. *)
DeletableMutant(u) == TRUE

(* The foreign keys of the chores tables. *)
Deletable(u) == u \notin referred

(* delete: commit; a row that is gone already is only logged. *)
Delete(c) ==
    /\ At(c, "commit")
    /\ call[c].op = "delete"
    /\ IF StillThere(c)
       THEN /\ Deletable(call[c].row.uuid)
            /\ members' = [members EXCEPT ![call[c].key] = None]
       ELSE UNCHANGED members
    /\ Goto(c, Idle)
    /\ UNCHANGED <<referred, issued, todo, restarts>>

(* The database refuses: the key was taken, the row is gone or referred    *)
(* to; or the bound on UUIDs is reached.                                   *)
Raises(c) ==
    LET r == call[c].row
    IN  \/ At(c, "read") /\ call[c].op = "create" /\ issued = MaxUuids
        \/ /\ At(c, "commit")
           /\ \/ call[c].op # "delete" /\ r = None /\ Found(c) # None
              \/ /\ call[c].op # "delete" /\ r # None
                 /\ call[c].member.profile # r.profile /\ ~StillThere(c)
              \/ call[c].op = "delete" /\ StillThere(c) /\ ~Deletable(r.uuid)

Abort(c) ==
    /\ Raises(c)
    /\ Goto(c, Idle)
    /\ UNCHANGED <<members, referred, issued, todo, restarts>>

-------------------------------------------------------------------------------
(* Start-up and the rest of the system. *)

(* Mutant (SeededFromScratch): the members who are missing are seeded. *)
ToSeedMutant == Configured \ Registered

(* seed_family_members_if_empty: get_all and the configuration. *)
ToSeed == IF Registered = {} THEN Configured ELSE {}

(* The server restarts: handlers, and a seeding under way, are lost. *)
Restart ==
    /\ restarts < MaxRestarts
    /\ issued + Cardinality(ToSeed) <= MaxUuids
    /\ restarts' = restarts + 1
    /\ call' = [c \in Clients |-> Idle]
    /\ todo' = ToSeed
    /\ UNCHANGED <<members, referred, issued>>

(* One save of the seeding, with what the environment says of the member;  *)
(* nobody else is served yet.                                              *)
Seed(k) ==
    /\ k \in todo
    /\ todo' = todo \ {k}
    /\ \E u \in Uuids, p \in Profile :
          Generate(u) /\ members' = [members EXCEPT ![k] = [uuid |-> u, profile |-> p]]
    /\ UNCHANGED <<referred, call, restarts>>

(* The chores service writes a row for member k, or deletes one. *)
Refer(k) ==
    /\ todo = {} /\ members[k] # None
    /\ referred' = referred \cup {members[k].uuid}
    /\ UNCHANGED <<members, issued, call, todo, restarts>>

Release(u) ==
    /\ todo = {} /\ u \in referred
    /\ referred' = referred \ {u}
    /\ UNCHANGED <<members, issued, call, todo, restarts>>

-------------------------------------------------------------------------------
RegistryInit ==
    /\ members = [k \in Keys |-> None]
    /\ referred = {}
    /\ issued = 0
    /\ call = [c \in Clients |-> Idle]
    /\ todo = Configured
    /\ restarts = 0

RegistryNext ==
    \/ \E c \in Clients :
          \/ CreateFamilyMember(c) \/ ReplaceFamilyMember(c)
          \/ UpdateFamilyMember(c) \/ DeleteFamilyMember(c)
          \/ GetMember(c) \/ Load(c) \/ Save(c) \/ Delete(c) \/ Abort(c)
    \/ Restart
    \/ \E k \in Keys : Seed(k) \/ Refer(k)
    \/ \E u \in Uuids : Release(u)

RegistrySpec == RegistryInit /\ [][RegistryNext]_registry

-------------------------------------------------------------------------------
(* Properties. *)

RegistryTypeOK ==
    /\ members \in [Keys -> Row \cup {None}]
    /\ referred \subseteq Uuids
    /\ issued \in 0..MaxUuids
    /\ call \in [Clients -> Call]
    /\ todo \subseteq Keys
    /\ restarts \in 0..MaxRestarts

(* Whatever requests overlap, a member keeps the UUID it was registered    *)
(* with, and no other member ever has it: what the chores tables refer to  *)
(* is always the same person.                                              *)
Identity ==
    [][/\ \A k \in Registered : members'[k] # None => members'[k].uuid = members[k].uuid
       /\ \A k \in Keys : members'[k] # None /\ members[k] = None =>
             members'[k].uuid \notin Stored \cup referred]_registry

(* A restart seeds the registry from nothing or not at all: nobody whom    *)
(* the family has registered, changed or deleted is brought back while     *)
(* somebody is left.                                                       *)
SeededFromScratch ==
    [][todo' # {} => /\ Registered' = Configured \ todo'
                     /\ restarts' # restarts => Registered = {}]_registry

(* The chores tables never refer to a member who is gone, though a delete  *)
(* looks at nothing but its own table before it commits.                   *)
ReferredToExist == referred \subseteq Stored

(* Why they hold.  A handler has read or generated what its next step      *)
(* needs.                                                                  *)
HandlerOK(x) ==
    /\ x.at # "idle" => x.key \in Keys
    /\ x.at = "read" /\ x.op = "create" => x.sent \in Profile
    /\ x.at = "read" /\ x.op = "patch" => x.sent \in Sent
    /\ x.at \in {"load", "commit"} /\ x.op # "delete" => x.member \in Row

(* UUID u is that of member k in the table, or in the hands of a request   *)
(* that may write it there.                                                *)
Known(u, k) ==
    \/ members[k] # None /\ members[k].uuid = u
    \/ \E c \in Clients : call[c].member # None /\ call[c].key = k /\ call[c].member.uuid = u

(* No UUID is known of two members, and none that is yet to be generated.  *)
OneKey == \A u \in Uuids : \A j, k \in Keys : Known(u, j) /\ Known(u, k) => j = k

Issued == \A u \in Uuids : \A k \in Keys : Known(u, k) => u <= issued

(* While the table is being seeded nobody is served, and the members in it *)
(* are those already saved.                                                *)
Seeding ==
    todo # {} => /\ \A c \in Clients : call[c] = Idle
                 /\ Registered = Configured \ todo /\ todo \subseteq Configured

RegistryInv ==
    /\ RegistryTypeOK
    /\ \A c \in Clients : HandlerOK(call[c])
    /\ OneKey /\ Issued
    /\ Seeding
    /\ ReferredToExist

===============================================================================
