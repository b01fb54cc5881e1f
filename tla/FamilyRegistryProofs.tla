------------------------- MODULE FamilyRegistryProofs -------------------------
(***************************************************************************)
(* A UUID means one family member for good, and the chores tables refer to *)
(* nobody who is gone, for any number of requests in flight.               *)
(***************************************************************************)
EXTENDS FamilyRegistry, TLAPS

USE RegistryAssumption

-------------------------------------------------------------------------------
(* The values handlers put together. *)

LEMMA IdleOK == Idle \in Call /\ HandlerOK(Idle) /\ Idle.at = "idle" /\ Idle.member = None
BY DEF Idle, Call, HandlerOK

(* A body is a profile in which columns may be left out. *)
LEMMA ProfileSent == Profile \subseteq Sent
BY DEF Profile, Sent

(* PATCH laid over a row leaves a whole row: what the body leaves out is the
   value read before. *)
LEMMA PatchedTyped ==
    ASSUME NEW s \in Sent, NEW p \in Profile
    PROVE  Patched(s, p) \in Profile
<1>1. \A col \in Columns : (IF s[col] = Keep THEN p[col] ELSE s[col]) \in Values
  BY DEF Sent, Profile
<1>2. QED
  BY <1>1 DEF Patched, Profile

(* save never changes the primary key of a row that is there. *)
LEMMA WrittenTyped ==
    ASSUME NEW m \in Row, NEW l \in Row, NEW x \in Row
    PROVE  Written(m, l, x) \in Row /\ Written(m, l, x).uuid = x.uuid
<1> DEFINE p == [col \in Columns |-> IF m.profile[col] = l.profile[col] THEN x.profile[col]
                                     ELSE m.profile[col]]
<1>1. x.profile \in Profile /\ m.profile \in Profile /\ x.uuid \in Uuids
  BY DEF Row
<1>2. p \in Profile
  BY <1>1 DEF Profile
<1>3. Written(m, l, x) = [x EXCEPT !.profile = p]
  BY DEF Written
<1>4. Written(m, l, x) = [uuid |-> x.uuid, profile |-> p]
  BY <1>3 DEF Row
<1>5. QED
  BY <1>1, <1>2, <1>4 DEF Row

(* A new local state of one handler. *)
LEMMA Stepped ==
    ASSUME RegistryInv, NEW c \in Clients, NEW x \in Call, HandlerOK(x), Goto(c, x)
    PROVE  /\ call' \in [Clients -> Call]
           /\ \A d \in Clients : HandlerOK(call'[d])
           /\ call'[c] = x /\ \A d \in Clients \ {c} : call'[d] = call[d]
BY DEF Goto, RegistryInv, RegistryTypeOK

(* UUIDs stay with their members while none is handed on, or one is handed *)
(* out anew for member k.                                                  *)
LEMMA KeptApart ==
    ASSUME RegistryInv, NEW k \in Keys,
           \/ /\ issued' = issued
              /\ \A u \in Uuids : \A j \in Keys : Known(u, j)' => Known(u, j)
           \/ /\ issued' = issued + 1
              /\ \A u \in Uuids : \A j \in Keys :
                    Known(u, j)' => Known(u, j) \/ (u = issued' /\ j = k)
    PROVE  OneKey' /\ Issued'
<1>1. issued \in Nat
  BY DEF RegistryInv, RegistryTypeOK
<1>2. CASE issued' = issued /\ \A u \in Uuids : \A j \in Keys : Known(u, j)' => Known(u, j)
  BY <1>2 DEF RegistryInv, OneKey, Issued
<1>3. CASE /\ issued' = issued + 1
           /\ \A u \in Uuids : \A j \in Keys :
                 Known(u, j)' => Known(u, j) \/ (u = issued' /\ j = k)
  <2>1. \A u \in Uuids : \A j \in Keys : Known(u, j) => u <= issued
    BY DEF RegistryInv, Issued
  <2>2. \A u \in Uuids : u \in Nat
    BY DEF Uuids
  <2>3. Issued'
    BY <1>1, <1>3, <2>1, <2>2 DEF Issued
  <2>4. ASSUME NEW u \in Uuids, NEW i \in Keys, NEW j \in Keys, Known(u, i)', Known(u, j)'
        PROVE  i = j
    <3>1. CASE u = issued'
      BY <1>1, <1>3, <2>1, <2>2, <2>4, <3>1
    <3>2. CASE u # issued'
      BY <1>3, <2>4, <3>2 DEF RegistryInv, OneKey
    <3>3. QED
      BY <3>1, <3>2
  <2>5. QED
    BY <2>3, <2>4 DEF OneKey
<1>4. QED
  BY <1>2, <1>3

(* A handler takes hold of nothing that it did not hold before. *)
LEMMA NothingNew ==
    ASSUME RegistryInv, NEW c \in Clients, NEW x \in Call, Goto(c, x),
           UNCHANGED <<members, issued>>,
           x.member # None => x.key \in Keys /\ Known(x.member.uuid, x.key)
    PROVE  OneKey' /\ Issued'
<1>1. \A d \in Clients : d # c => call'[d] = call[d]
  BY DEF Goto, RegistryInv, RegistryTypeOK
<1>2. call'[c] = x
  BY DEF Goto, RegistryInv, RegistryTypeOK
<1>3. \A u \in Uuids : \A j \in Keys : Known(u, j)' => Known(u, j)
  BY <1>1, <1>2 DEF Known
<1>4. Keys = {} => OneKey' /\ Issued'
  BY DEF OneKey, Issued
<1>5. QED
  BY <1>3, <1>4, KeptApart

(* A handler takes hold of a UUID just generated. *)
LEMMA Generated ==
    ASSUME RegistryInv, NEW c \in Clients, NEW x \in Call, Goto(c, x),
           UNCHANGED members, NEW u \in Uuids, Generate(u),
           x.key \in Keys, x.member # None, x.member.uuid = u
    PROVE  OneKey' /\ Issued'
<1>1. \A d \in Clients : d # c => call'[d] = call[d]
  BY DEF Goto, RegistryInv, RegistryTypeOK
<1>2. call'[c] = x
  BY DEF Goto, RegistryInv, RegistryTypeOK
<1>3. issued' = issued + 1 /\ u = issued'
  BY DEF Generate
<1>4. \A v \in Uuids : \A j \in Keys : Known(v, j)' => Known(v, j) \/ (v = issued' /\ j = x.key)
  BY <1>1, <1>2, <1>3 DEF Known
<1>5. QED
  BY <1>3, <1>4, KeptApart

-------------------------------------------------------------------------------
(* One lemma per handler's step. *)

(* While handlers run nothing is being seeded. *)
LEMMA Serving ==
    ASSUME RegistryInv, NEW c \in Clients, call[c].at # "idle"
    PROVE  todo = {}
BY IdleOK DEF RegistryInv, Seeding

(* A request that begins holds its key and its body and nothing read yet. *)
LEMMA Begins ==
    ASSUME RegistryInv, NEW c \in Clients,
           \/ CreateFamilyMember(c) \/ ReplaceFamilyMember(c)
           \/ UpdateFamilyMember(c) \/ DeleteFamilyMember(c)
    PROVE  RegistryInv'
<1> USE DEF Begin
<1>1. ReferredToExist' /\ Seeding' /\ UNCHANGED <<members, referred, todo, restarts>>
  BY DEF CreateFamilyMember, ReplaceFamilyMember, UpdateFamilyMember, DeleteFamilyMember,
     RegistryInv, ReferredToExist, Stored, Registered, Seeding
<1>2. CASE CreateFamilyMember(c)
  <2>1. PICK k \in Keys, p \in Profile :
           /\ Goto(c, [Idle EXCEPT !.op = "create", !.at = "read", !.key = k, !.sent = p])
           /\ issued' = issued
    BY <1>2 DEF CreateFamilyMember
  <2> DEFINE x == [Idle EXCEPT !.op = "create", !.at = "read", !.key = k, !.sent = p]
  <2>2. x \in Call /\ HandlerOK(x) /\ x.member = None
    BY ProfileSent DEF Idle, Call, HandlerOK
  <2> HIDE DEF x
  <2>3. OneKey' /\ Issued'
    BY <1>1, <2>1, <2>2, NothingNew DEF x
  <2>4. QED
    BY <1>1, <2>1, <2>2, <2>3, Stepped DEF x, RegistryInv, RegistryTypeOK
<1>3. CASE ReplaceFamilyMember(c)
  <2>1. PICK k \in Keys, p \in Profile, u \in Uuids :
           /\ Generate(u)
           /\ Goto(c, [Idle EXCEPT !.op = "replace", !.at = "load", !.key = k,
                                   !.member = [uuid |-> u, profile |-> p]])
    BY <1>3 DEF ReplaceFamilyMember
  <2> DEFINE m == [uuid |-> u, profile |-> p]
             x == [Idle EXCEPT !.op = "replace", !.at = "load", !.key = k, !.member = m]
  <2>2. m \in Row /\ m # None /\ m.uuid = u
    BY DEF Row
  <2> HIDE DEF m
  <2>3. x \in Call /\ HandlerOK(x) /\ x.member = m /\ x.key = k
    BY <2>2 DEF Idle, Call, HandlerOK
  <2> HIDE DEF x
  <2>4. OneKey' /\ Issued'
    BY <1>1, <2>1, <2>2, <2>3, Generated DEF m, x
  <2>5. issued' \in 0..MaxUuids
    BY <2>1 DEF Generate, RegistryInv, RegistryTypeOK
  <2>6. QED
    BY <1>1, <2>1, <2>3, <2>4, <2>5, Stepped DEF m, x, RegistryInv, RegistryTypeOK
<1>4. CASE UpdateFamilyMember(c)
  <2>1. PICK k \in Keys, b \in Sent :
           /\ Goto(c, [Idle EXCEPT !.op = "patch", !.at = "read", !.key = k, !.sent = b])
           /\ issued' = issued
    BY <1>4 DEF UpdateFamilyMember
  <2> DEFINE x == [Idle EXCEPT !.op = "patch", !.at = "read", !.key = k, !.sent = b]
  <2>2. x \in Call /\ HandlerOK(x) /\ x.member = None
    BY DEF Idle, Call, HandlerOK
  <2> HIDE DEF x
  <2>3. OneKey' /\ Issued'
    BY <1>1, <2>1, <2>2, NothingNew DEF x
  <2>4. QED
    BY <1>1, <2>1, <2>2, <2>3, Stepped DEF x, RegistryInv, RegistryTypeOK
<1>5. CASE DeleteFamilyMember(c)
  <2>1. PICK k \in Keys :
           /\ Goto(c, [Idle EXCEPT !.op = "delete", !.at = "read", !.key = k])
           /\ issued' = issued
    BY <1>5 DEF DeleteFamilyMember
  <2> DEFINE x == [Idle EXCEPT !.op = "delete", !.at = "read", !.key = k]
  <2>2. x \in Call /\ HandlerOK(x) /\ x.member = None
    BY DEF Idle, Call, HandlerOK
  <2> HIDE DEF x
  <2>3. OneKey' /\ Issued'
    BY <1>1, <2>1, <2>2, NothingNew DEF x
  <2>4. QED
    BY <1>1, <2>1, <2>2, <2>3, Stepped DEF x, RegistryInv, RegistryTypeOK
<1>6. QED
  BY <1>2, <1>3, <1>4, <1>5

(* A handler that ends, with whatever answer, has nothing left in hand. *)
LEMMA Ends ==
    ASSUME RegistryInv, NEW c \in Clients, Goto(c, Idle), call[c].at # "idle",
           UNCHANGED <<members, referred, issued, todo, restarts>>
    PROVE  RegistryInv'
<1>1. OneKey' /\ Issued'
  BY IdleOK, NothingNew
<1>2. ReferredToExist' /\ Seeding'
  BY Serving DEF RegistryInv, ReferredToExist, Stored, Registered, Seeding
<1>3. QED
  BY <1>1, <1>2, IdleOK, Stepped DEF RegistryInv, RegistryTypeOK

(* The first read of a handler: the request is refused, or goes on with the
   member it will write, the one found or one with a new UUID. *)
LEMMA Gets ==
    ASSUME RegistryInv, NEW c \in Clients, GetMember(c)
    PROVE  RegistryInv'
<1> DEFINE r == call[c]
<1>1. /\ r \in Call /\ HandlerOK(r) /\ r.at = "read" /\ r.key \in Keys
      /\ Found(c) \in Row \cup {None}
      /\ UNCHANGED <<members, referred, todo, restarts>>
  BY DEF GetMember, At, RegistryInv, RegistryTypeOK, HandlerOK, Found
<1>2. ReferredToExist' /\ Seeding' /\ todo = {}
  BY <1>1, Serving DEF RegistryInv, ReferredToExist, Stored, Registered, Seeding
<1>3. CASE Goto(c, Idle) /\ issued' = issued
  BY <1>1, <1>3, Ends
<1>4. CASE /\ r.op = "create"
           /\ \E u \in Uuids :
                 /\ Generate(u)
                 /\ Goto(c, [r EXCEPT !.at = "load", !.member = [uuid |-> u, profile |-> r.sent]])
  <2>1. PICK u \in Uuids :
                 /\ Generate(u)
                 /\ Goto(c, [r EXCEPT !.at = "load", !.member = [uuid |-> u, profile |-> r.sent]])
    BY <1>4
  <2> DEFINE m == [uuid |-> u, profile |-> r.sent]
             x == [r EXCEPT !.at = "load", !.member = m]
  <2>2. m \in Row /\ m # None /\ m.uuid = u
    BY <1>1, <1>4 DEF Row, HandlerOK
  <2> HIDE DEF m
  <2>3. x \in Call /\ HandlerOK(x) /\ x.member = m /\ x.key = r.key
    BY <1>1, <1>4, <2>2 DEF Call, HandlerOK
  <2> HIDE DEF x
  <2>4. OneKey' /\ Issued'
    BY <1>1, <2>1, <2>2, <2>3, Generated DEF m, x
  <2>5. issued' \in 0..MaxUuids
    BY <2>1 DEF Generate, RegistryInv, RegistryTypeOK
  <2>6. QED
    BY <1>1, <1>2, <2>1, <2>3, <2>4, <2>5, Stepped DEF m, x, RegistryInv, RegistryTypeOK
<1>5. CASE /\ r.op = "patch" /\ ~Refused(c) /\ issued' = issued
           /\ Goto(c, [r EXCEPT !.at = "load",
                          !.member = [Found(c) EXCEPT !.profile = Patched(r.sent, @)]])
  <2> DEFINE m == [Found(c) EXCEPT !.profile = Patched(r.sent, @)]
             x == [r EXCEPT !.at = "load", !.member = m]
  <2>1. Found(c) \in Row /\ Found(c) # None /\ r.sent \in Sent
    BY <1>1, <1>5 DEF Refused, HandlerOK
  <2>2. Patched(r.sent, Found(c).profile) \in Profile
    BY <2>1, PatchedTyped DEF Row
  <2>3. m \in Row /\ m.uuid = Found(c).uuid
    BY <2>1, <2>2 DEF Row
  <2> HIDE DEF m
  <2>4. x \in Call /\ HandlerOK(x) /\ x.member = m /\ x.key = r.key
    BY <1>1, <1>5, <2>3 DEF Call, HandlerOK
  <2> HIDE DEF x
  <2>5. Known(m.uuid, r.key)
    BY <2>1, <2>3 DEF Known, Found
  <2>6. OneKey' /\ Issued'
    BY <1>1, <1>5, <2>4, <2>5, NothingNew DEF m, x
  <2>7. QED
    BY <1>1, <1>2, <1>5, <2>4, <2>6, Stepped DEF m, x, RegistryInv, RegistryTypeOK
<1>6. CASE r.op = "delete" /\ issued' = issued /\ Goto(c, [r EXCEPT !.at = "load"])
  <2> DEFINE x == [r EXCEPT !.at = "load"]
  <2>1. x \in Call /\ HandlerOK(x) /\ x.member = r.member /\ x.key = r.key
    BY <1>1, <1>6 DEF Call, HandlerOK
  <2> HIDE DEF x
  <2>2. r.member # None => Known(r.member.uuid, r.key)
    BY DEF Known
  <2>3. OneKey' /\ Issued'
    BY <1>1, <1>6, <2>1, <2>2, NothingNew DEF x
  <2>4. QED
    BY <1>1, <1>2, <1>6, <2>1, <2>3, Stepped DEF x, RegistryInv, RegistryTypeOK
<1>7. QED
  BY <1>3, <1>4, <1>5, <1>6 DEF GetMember

(* The read of save or delete: the row found under the key, or None, goes
   with the request to its commit; a delete that finds no row ends. *)
LEMMA Loads ==
    ASSUME RegistryInv, NEW c \in Clients, Load(c)
    PROVE  RegistryInv'
<1> DEFINE x == [call[c] EXCEPT !.at = "commit", !.row = Found(c)]
<1>1. /\ call[c] \in Call /\ HandlerOK(call[c]) /\ call[c].at = "load" /\ call[c].key \in Keys
      /\ Found(c) \in Row \cup {None}
      /\ UNCHANGED <<members, referred, issued, todo, restarts>>
  BY DEF Load, At, RegistryInv, RegistryTypeOK, HandlerOK, Found
<1>2. CASE Goto(c, Idle)
  BY <1>1, <1>2, Ends
<1>3. CASE Goto(c, x)
  <2>1. x \in Call /\ HandlerOK(x) /\ x.member = call[c].member /\ x.key = call[c].key
    BY <1>1 DEF Call, HandlerOK
  <2> HIDE DEF x
  <2>2. call[c].member # None => Known(call[c].member.uuid, call[c].key)
    BY DEF Known
  <2>3. OneKey' /\ Issued'
    BY <1>1, <1>3, <2>1, <2>2, NothingNew
  <2>4. ReferredToExist' /\ Seeding'
    BY <1>1, Serving DEF RegistryInv, ReferredToExist, Stored, Registered, Seeding
  <2>5. QED
    BY <1>1, <1>3, <2>1, <2>3, <2>4, Stepped DEF RegistryInv, RegistryTypeOK
<1>4. QED
  BY <1>2, <1>3 DEF Load

(* A commit stores row y under the key of its request, with the UUID the   *)
(* request holds, and never another than the row there had.                *)
LEMMA Stores ==
    ASSUME RegistryInv, NEW c \in Clients, call[c].at = "commit", Goto(c, Idle),
           NEW y \in Row, members' = [members EXCEPT ![call[c].key] = y],
           Known(y.uuid, call[c].key),
           members[call[c].key] # None => members[call[c].key].uuid = y.uuid,
           UNCHANGED <<referred, issued, todo, restarts>>
    PROVE  RegistryInv'
<1> DEFINE k == call[c].key
<1>1. k \in Keys /\ todo = {}
  BY Serving DEF RegistryInv, HandlerOK
<1>2. /\ members' \in [Keys -> Row \cup {None}]
      /\ members'[k] = y /\ y # None
      /\ \A j \in Keys \ {k} : members'[j] = members[j]
  BY <1>1 DEF RegistryInv, RegistryTypeOK
<1>3. \A d \in Clients : call'[d] = IF d = c THEN Idle ELSE call[d]
  BY IdleOK, Stepped
<1>4. \A u \in Uuids : \A j \in Keys : Known(u, j)' => Known(u, j)
  <2> SUFFICES ASSUME NEW u \in Uuids, NEW j \in Keys, Known(u, j)' PROVE Known(u, j)
    OBVIOUS
  <2>1. CASE members'[j] # None /\ members'[j].uuid = u
    BY <1>2, <2>1 DEF Known
  <2>2. CASE \E d \in Clients : call'[d].member # None /\ call'[d].key = j /\ call'[d].member.uuid = u
    BY <1>3, <2>2, IdleOK DEF Known
  <2>3. QED
    BY <2>1, <2>2 DEF Known
<1>5. OneKey' /\ Issued'
  BY <1>1, <1>4, KeptApart
<1>6. Stored \subseteq Stored'
  BY <1>1, <1>2 DEF Stored, Registered
<1>7. ReferredToExist' /\ Seeding'
  BY <1>1, <1>6 DEF RegistryInv, ReferredToExist, Seeding
<1>8. QED
  BY <1>2, <1>5, <1>7, IdleOK, Stepped DEF RegistryInv, RegistryTypeOK

(* What Save writes, if it writes at all. *)
LEMMA Saved ==
    ASSUME RegistryInv, NEW c \in Clients, Save(c)
    PROVE  \/ UNCHANGED members
           \/ \E y \in Row :
                 /\ members' = [members EXCEPT ![call[c].key] = y]
                 /\ Known(y.uuid, call[c].key)
                 /\ members[call[c].key] # None => members[call[c].key].uuid = y.uuid
<1> DEFINE k == call[c].key  m == call[c].member  r == call[c].row
<1>1. /\ k \in Keys /\ m \in Row /\ r \in Row \cup {None}
      /\ members[k] \in Row \cup {None} /\ m # None
  BY DEF Save, At, RegistryInv, RegistryTypeOK, HandlerOK, Call
<1>2. Known(m.uuid, k)
  BY <1>1 DEF Known
<1>3. CASE r = None /\ Found(c) = None /\ members' = [members EXCEPT ![k] = m]
  BY <1>1, <1>2, <1>3 DEF Found
<1>4. CASE r # None /\ StillThere(c) /\ members' = [members EXCEPT ![k] = Written(m, r, @)]
  <2>1. members[k] # None /\ members[k] \in Row
    BY <1>1, <1>4 DEF StillThere, Found
  <2>2. Written(m, r, members[k]) \in Row /\ Written(m, r, members[k]).uuid = members[k].uuid
    BY <1>1, <1>4, <2>1, WrittenTyped
  <2>3. Known(members[k].uuid, k)
    BY <2>1 DEF Known
  <2>4. members' = [members EXCEPT ![k] = Written(m, r, members[k])]
    BY <1>4
  <2>5. QED
    BY <2>2, <2>3, <2>4
<1>5. QED
  BY <1>3, <1>4 DEF Save

(* The commit of a save: an INSERT takes a free key, an UPDATE changes columns
   of the row that has the UUID it read. *)
LEMMA Saves ==
    ASSUME RegistryInv, NEW c \in Clients, Save(c)
    PROVE  RegistryInv'
<1>1. call[c].at = "commit" /\ Goto(c, Idle) /\ UNCHANGED <<referred, issued, todo, restarts>>
  BY DEF Save, At
<1>2. CASE UNCHANGED members
  BY <1>1, <1>2, Ends
<1>3. CASE \E y \in Row :
              /\ members' = [members EXCEPT ![call[c].key] = y]
              /\ Known(y.uuid, call[c].key)
              /\ members[call[c].key] # None => members[call[c].key].uuid = y.uuid
  BY <1>1, <1>3, Stores
<1>4. QED
  BY <1>2, <1>3, Saved

(* The foreign keys keep a member to whom a chore refers. *)
LEMMA Deletes ==
    ASSUME RegistryInv, NEW c \in Clients, Delete(c)
    PROVE  RegistryInv'
<1> DEFINE k == call[c].key
<1>1. /\ call[c].at = "commit" /\ Goto(c, Idle)
      /\ UNCHANGED <<referred, issued, todo, restarts>>
  BY DEF Delete, At
<1>2. CASE UNCHANGED members
  BY <1>1, <1>2, Ends
<1>3. CASE StillThere(c) /\ Deletable(call[c].row.uuid) /\ members' = [members EXCEPT ![k] = None]
  <2>1. k \in Keys /\ todo = {}
    BY <1>1, Serving DEF RegistryInv, HandlerOK
  <2>2. members[k] # None /\ members[k].uuid \notin referred
    BY <1>3 DEF StillThere, Found, Deletable
  <2>3. /\ members' \in [Keys -> Row \cup {None}] /\ members'[k] = None
        /\ \A j \in Keys \ {k} : members'[j] = members[j]
    BY <1>3, <2>1 DEF RegistryInv, RegistryTypeOK
  <2>4. \A d \in Clients : call'[d] = IF d = c THEN Idle ELSE call[d]
    BY <1>1, IdleOK, Stepped
  <2>5. \A u \in Uuids : \A j \in Keys : Known(u, j)' => Known(u, j)
    <3> SUFFICES ASSUME NEW u \in Uuids, NEW j \in Keys, Known(u, j)' PROVE Known(u, j)
      OBVIOUS
    <3>1. CASE members'[j] # None /\ members'[j].uuid = u
      BY <2>3, <3>1 DEF Known
    <3>2. CASE \E d \in Clients : call'[d].member # None /\ call'[d].key = j /\ call'[d].member.uuid = u
      BY <2>4, <3>2, IdleOK DEF Known
    <3>3. QED
      BY <3>1, <3>2 DEF Known
  <2>6. OneKey' /\ Issued'
    BY <1>1, <2>1, <2>5, KeptApart
  <2>7. ReferredToExist'
    BY <1>1, <2>2, <2>3 DEF RegistryInv, ReferredToExist, Stored, Registered
  <2>8. QED
    BY <1>1, <2>1, <2>3, <2>6, <2>7, IdleOK, Stepped DEF RegistryInv, RegistryTypeOK, Seeding
<1>4. QED
  BY <1>2, <1>3 DEF Delete

(* A handler that raises rolls back and ends. *)
LEMMA Aborts ==
    ASSUME RegistryInv, NEW c \in Clients, Abort(c)
    PROVE  RegistryInv'
<1>1. call[c].at # "idle"
  BY DEF Abort, Raises, At
<1>2. QED
  BY <1>1, Ends DEF Abort

-------------------------------------------------------------------------------
(* One lemma per step of the rest of the system. *)

(* A restart that seeds begins with an empty table. *)
LEMMA Restarts ==
    ASSUME RegistryInv, Restart
    PROVE  RegistryInv'
<1>1. /\ \A c \in Clients : call'[c] = Idle
      /\ UNCHANGED <<members, referred, issued>>
      /\ todo' = ToSeed /\ restarts' \in 0..MaxRestarts
  BY DEF Restart, RegistryInv, RegistryTypeOK
<1>2. \A u \in Uuids : \A j \in Keys : Known(u, j)' => Known(u, j)
  BY <1>1, IdleOK DEF Known
<1>3. OneKey' /\ Issued'
  <2>1. CASE Keys = {}
    BY <2>1 DEF OneKey, Issued
  <2>2. CASE Keys # {}
    BY <1>1, <1>2, <2>2, KeptApart
  <2>3. QED
    BY <2>1, <2>2
<1>4. Seeding' /\ todo' \subseteq Keys
  BY <1>1 DEF Seeding, ToSeed, Registered
<1>5. ReferredToExist'
  BY <1>1 DEF RegistryInv, ReferredToExist, Stored, Registered
<1>6. call' \in [Clients -> Call]
  BY IdleOK DEF Restart
<1>7. QED
  BY <1>1, <1>3, <1>4, <1>5, <1>6, IdleOK DEF RegistryInv, RegistryTypeOK

(* A step of the seeding writes a member who is not there yet. *)
LEMMA Seeds ==
    ASSUME RegistryInv, NEW k \in Keys, Seed(k)
    PROVE  RegistryInv' /\ members[k] = None
<1>1. PICK u \in Uuids, p \in Profile :
         Generate(u) /\ members' = [members EXCEPT ![k] = [uuid |-> u, profile |-> p]]
  BY DEF Seed
<1> DEFINE y == [uuid |-> u, profile |-> p]
<1>2. /\ k \in todo /\ todo' = todo \ {k} /\ k \in Configured /\ members[k] = None
      /\ UNCHANGED <<referred, call, restarts>>
  BY DEF Seed, RegistryInv, Seeding, Registered
<1>3. y \in Row /\ y.uuid = u /\ y # None
  BY DEF Row
<1> HIDE DEF y
<1>4. /\ members' \in [Keys -> Row \cup {None}] /\ members'[k] = y
      /\ \A j \in Keys \ {k} : members'[j] = members[j]
  BY <1>1, <1>3 DEF y, RegistryInv, RegistryTypeOK
<1>5. issued' = issued + 1 /\ u = issued' /\ issued' \in 0..MaxUuids
  BY <1>1 DEF Generate, RegistryInv, RegistryTypeOK
<1>6. \A v \in Uuids : \A j \in Keys : Known(v, j)' => Known(v, j) \/ (v = issued' /\ j = k)
  BY <1>2, <1>3, <1>4, <1>5 DEF Known
<1>7. OneKey' /\ Issued'
  BY <1>5, <1>6, KeptApart
<1>8. Seeding'
  BY <1>2, <1>3, <1>4 DEF RegistryInv, Seeding, Registered
<1>9. ReferredToExist'
  BY <1>2, <1>4 DEF RegistryInv, ReferredToExist, Stored, Registered
<1>10. QED
  BY <1>2, <1>4, <1>5, <1>7, <1>8, <1>9 DEF RegistryInv, RegistryTypeOK

(* Rows of other tables that point at a member come and go; a member pointed
   at exists. *)
LEMMA Refers ==
    ASSUME RegistryInv, \/ \E k \in Keys : Refer(k)
                        \/ \E u \in Uuids : Release(u)
    PROVE  RegistryInv'
<1>1. UNCHANGED <<members, issued, call, todo, restarts>>
  BY DEF Refer, Release
<1>2. OneKey' /\ Issued' /\ Seeding'
  BY <1>1 DEF RegistryInv, OneKey, Issued, Seeding, Known, Registered
<1>3. ReferredToExist' /\ referred' \subseteq Uuids
  BY <1>1 DEF Refer, Release, RegistryInv, RegistryTypeOK, ReferredToExist, Stored, Registered, Row
<1>4. QED
  BY <1>1, <1>2, <1>3 DEF RegistryInv, RegistryTypeOK

-------------------------------------------------------------------------------
(* The theorems. *)

(* No UUID means two members, whether it is in the table or in the hands   *)
(* of a request that may write it there yet; what the chores tables refer  *)
(* to exists; and the table is seeded from nothing, in every reachable     *)
(* state.                                                                  *)
THEOREM Registering == RegistrySpec => []RegistryInv
<1>1. RegistryInit => RegistryInv
  <2> SUFFICES ASSUME RegistryInit PROVE RegistryInv
    OBVIOUS
  <2>1. RegistryTypeOK
    BY IdleOK DEF RegistryInit, RegistryTypeOK
  <2>2. \A u \in Uuids : \A k \in Keys : ~Known(u, k)
    BY IdleOK DEF RegistryInit, Known
  <2>3. Seeding /\ ReferredToExist
    BY DEF RegistryInit, Seeding, Registered, ReferredToExist
  <2>4. QED
    BY <2>1, <2>2, <2>3, IdleOK DEF RegistryInit, RegistryInv, OneKey, Issued
<1>2. RegistryInv /\ [RegistryNext]_registry => RegistryInv'
  <2> SUFFICES ASSUME RegistryInv, [RegistryNext]_registry PROVE RegistryInv'
    OBVIOUS
  <2>1. CASE UNCHANGED registry
    BY <2>1 DEF registry, RegistryInv, RegistryTypeOK, OneKey, Issued, Known, Seeding, Registered,
       ReferredToExist, Stored
  <2>2. CASE \E c \in Clients : \/ CreateFamilyMember(c) \/ ReplaceFamilyMember(c)
                                \/ UpdateFamilyMember(c) \/ DeleteFamilyMember(c)
    BY <2>2, Begins
  <2>3. CASE \E c \in Clients : GetMember(c) \/ Load(c) \/ Save(c) \/ Delete(c) \/ Abort(c)
    BY <2>3, Gets, Loads, Saves, Deletes, Aborts
  <2>4. CASE Restart
    BY <2>4, Restarts
  <2>5. CASE \E k \in Keys : Seed(k)
    BY <2>5, Seeds
  <2>6. CASE (\E k \in Keys : Refer(k)) \/ (\E u \in Uuids : Release(u))
    BY <2>6, Refers
  <2>7. QED
    BY <2>1, <2>2, <2>3, <2>4, <2>5, <2>6 DEF RegistryNext
<1>3. QED
  BY <1>1, <1>2, PTL DEF RegistrySpec

(* The table and every handler's local state are well typed. *)
THEOREM RegistryTyping == RegistrySpec => []RegistryTypeOK
<1>1. RegistryInv => RegistryTypeOK
  BY DEF RegistryInv
<1>2. QED
  BY <1>1, Registering, PTL

(* Nobody whom a chore refers to is ever deleted. *)
THEOREM ReferencesHold == RegistrySpec => []ReferredToExist
<1>1. RegistryInv => ReferredToExist
  BY DEF RegistryInv
<1>2. QED
  BY <1>1, Registering, PTL

(* A member keeps the UUID it was registered with, and one that is added   *)
(* takes nobody else's, whatever requests overlap.                         *)
THEOREM SamePerson == RegistrySpec => Identity
<1> DEFINE Same == \A k \in Registered : members'[k] # None => members'[k].uuid = members[k].uuid
           Own  == \A k \in Keys : members'[k] # None /\ members[k] = None =>
                      members'[k].uuid \notin Stored \cup referred
<1>1. RegistryInv /\ RegistryInv' /\ [RegistryNext]_registry => [Same /\ Own]_registry
  <2> SUFFICES ASSUME RegistryInv, RegistryInv', RegistryNext PROVE Same /\ Own
    OBVIOUS
  <2>1. Same
    <3>1. CASE UNCHANGED members
      BY <3>1
    <3>2. CASE \E c \in Clients : Save(c)
      <4>1. PICK c \in Clients : Save(c)
        BY <3>2
      <4>2. call[c].key \in Keys
        BY <4>1 DEF Save, At, RegistryInv, HandlerOK
      <4>3. QED
        BY <4>1, <4>2, Saved DEF Registered, RegistryInv, RegistryTypeOK
    <3>3. CASE \E c \in Clients : Delete(c)
      <4>1. PICK c \in Clients : Delete(c)
        BY <3>3
      <4>2. call[c].key \in Keys
        BY <4>1 DEF Delete, At, RegistryInv, HandlerOK
      <4>3. QED
        BY <4>1, <4>2 DEF Delete, Registered, RegistryInv, RegistryTypeOK
    <3>4. CASE \E k \in Keys : Seed(k)
      BY <3>4, Seeds DEF Seed, Registered, RegistryInv, RegistryTypeOK
    <3>5. QED
      BY <3>1, <3>2, <3>3, <3>4 DEF RegistryNext, CreateFamilyMember, ReplaceFamilyMember,
         UpdateFamilyMember, DeleteFamilyMember, Begin, GetMember, Load, Abort, Restart, Refer, Release
  <2>2. Own
    <3> SUFFICES ASSUME NEW k \in Keys, members'[k] # None, members[k] = None
                 PROVE  members'[k].uuid \notin Stored \cup referred
      OBVIOUS
    <3>1. \A j \in Keys : members[j] # None => members'[j] # None /\ members'[j].uuid = members[j].uuid
      <4>1. CASE \E c \in Clients : Save(c)
        <5>1. PICK c \in Clients : Save(c)
          BY <4>1
        <5>2. call[c].key \in Keys
          BY <5>1 DEF Save, At, RegistryInv, HandlerOK
        <5>3. QED
          BY <5>1, <5>2, Saved DEF RegistryInv, RegistryTypeOK
      <4>2. CASE \E i \in Keys : Seed(i)
        BY <4>2, Seeds DEF Seed, RegistryInv, RegistryTypeOK
      <4>3. CASE \E c \in Clients : Delete(c)
        BY <4>3 DEF Delete, RegistryInv, RegistryTypeOK
      <4>4. CASE UNCHANGED members
        BY <4>4
      <4>5. QED
        BY <4>1, <4>2, <4>3, <4>4 DEF RegistryNext, CreateFamilyMember, ReplaceFamilyMember,
           UpdateFamilyMember, DeleteFamilyMember, Begin, GetMember, Load, Abort, Restart, Refer, Release
    <3>2. members'[k] \in Row /\ members'[k].uuid \in Uuids
      BY DEF RegistryInv, RegistryTypeOK, Row
    <3>3. \A j \in Keys : members[j] # None => members[j].uuid # members'[k].uuid
      <4> SUFFICES ASSUME NEW j \in Keys, members[j] # None, members[j].uuid = members'[k].uuid
                   PROVE  FALSE
        OBVIOUS
      <4>1. PICK u \in Uuids : u = members'[k].uuid
        BY <3>2
      <4>2. Known(u, k)' /\ Known(u, j)'
        BY <3>1, <4>1 DEF Known
      <4>3. QED
        BY <4>2 DEF RegistryInv, OneKey
    <3>4. QED
      BY <3>3 DEF Stored, Registered, RegistryInv, ReferredToExist
  <2>3. QED
    BY <2>1, <2>2
<1>2. QED
  BY <1>1, Registering, PTL DEF RegistrySpec, Identity

(* The table is seeded from nothing or not at all, and holds no more than  *)
(* what was seeded until the seeding is over.                              *)
THEOREM SeedsOnce == RegistrySpec => SeededFromScratch
<1>1. RegistryInv /\ RegistryInv' /\ [RegistryNext]_registry =>
      [todo' # {} => /\ Registered' = Configured \ todo'
                     /\ restarts' # restarts => Registered = {}]_registry
  <2> SUFFICES ASSUME RegistryInv', RegistryNext, todo' # {}
               PROVE  /\ Registered' = Configured \ todo'
                      /\ restarts' # restarts => Registered = {}
    OBVIOUS
  <2>1. Registered' = Configured \ todo'
    BY DEF RegistryInv, Seeding
  <2>2. restarts' # restarts => Restart
    BY DEF RegistryNext, CreateFamilyMember, ReplaceFamilyMember, UpdateFamilyMember,
       DeleteFamilyMember, Begin, GetMember, Load, Save, Delete, Abort, Seed, Refer, Release
  <2>3. Restart => Registered = {}
    BY DEF Restart, ToSeed
  <2>4. QED
    BY <2>1, <2>2, <2>3
<1>2. QED
  BY <1>1, Registering, PTL DEF RegistrySpec, SeededFromScratch

===============================================================================
