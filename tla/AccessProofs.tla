----------------------------- MODULE AccessProofs -----------------------------
(***************************************************************************)
(* Of Workspace and of Access, for any accounts, roles, keys, requests and *)
(* exchanges at a time, lifetimes and bounds: somebody manages, every      *)
(* member holds a working key, and the keys held at a removal stay dead; a *)
(* code gives tokens once, and whoever is let in acts as the database says *)
(* at that moment.                                                         *)
(***************************************************************************)
EXTENDS Access, SequenceTheorems, TLAPS

(* The workspace.                                                          *)
KeyRow == [user : User, revoked : BOOLEAN]

(* Neither claim needs more than the others and the types: the transaction *)
(* that changes a role reads and writes the keys that go with it.          *)
IndInv == TypeOK /\ SomeAdmin /\ MembersCanConnect /\ RemovalRevokes

(* A key once minted stays its member's, and revoked once is revoked.      *)
KeysAge == /\ DOMAIN keys \subseteq DOMAIN keys'
           /\ \A i \in DOMAIN keys : /\ keys'[i].user = keys[i].user
                                     /\ keys[i].revoked => keys'[i].revoked

-----------------------------------------------------------------------------
(* What Revoke and a minted key do to the rows.                            *)
LEMMA RevokeRows ==
    ASSUME NEW rows \in Seq(KeyRow), NEW ids
    PROVE  /\ Revoke(rows, ids) \in Seq(KeyRow)
           /\ Len(Revoke(rows, ids)) = Len(rows)
           /\ DOMAIN Revoke(rows, ids) = DOMAIN rows
           /\ \A i \in DOMAIN rows :
                 /\ Revoke(rows, ids)[i].user = rows[i].user
                 /\ Revoke(rows, ids)[i].revoked <=> (rows[i].revoked \/ i \in ids)
<1> DEFINE e(i) == IF i \in ids THEN [rows[i] EXCEPT !.revoked = TRUE] ELSE rows[i]
<1>1. /\ Len(rows) \in Nat /\ DOMAIN rows = 1..Len(rows)
      /\ \A i \in 1..Len(rows) : rows[i] \in KeyRow
  BY LenProperties
<1>2. \A i \in 1..Len(rows) : e(i) \in KeyRow
  BY <1>1 DEF KeyRow
<1>3. Revoke(rows, ids) = [i \in 1..Len(rows) |-> e(i)]
  BY <1>1 DEF Revoke
<1>4. Revoke(rows, ids) \in Seq(KeyRow)
  BY <1>1, <1>2, <1>3
<1>5. Len(Revoke(rows, ids)) = Len(rows)
  BY <1>1, <1>3, <1>4, LenProperties
<1>6. ASSUME NEW i \in DOMAIN rows
      PROVE  /\ Revoke(rows, ids)[i].user = rows[i].user
             /\ Revoke(rows, ids)[i].revoked <=> (rows[i].revoked \/ i \in ids)
  BY <1>1, <1>3, <1>6 DEF KeyRow
<1>7. QED
  BY <1>1, <1>3, <1>4, <1>5, <1>6

LEMMA MintRow ==
    ASSUME NEW rows \in Seq(KeyRow), NEW u \in User
    PROVE  LET minted == Append(rows, NewKey(u)) IN
           /\ minted \in Seq(KeyRow) /\ Len(minted) = Len(rows) + 1
           /\ DOMAIN minted = DOMAIN rows \cup {Len(rows) + 1}
           /\ Len(rows) + 1 \notin DOMAIN rows
           /\ \A i \in DOMAIN rows : minted[i] = rows[i]
           /\ minted[Len(rows) + 1] = NewKey(u)
<1>1. NewKey(u) \in KeyRow
  BY DEF NewKey, KeyRow
<1>2. Len(rows) \in Nat /\ DOMAIN rows = 1..Len(rows)
  BY LenProperties
<1>3. /\ Append(rows, NewKey(u)) \in Seq(KeyRow)
      /\ Len(Append(rows, NewKey(u))) = Len(rows) + 1
      /\ \A i \in 1..Len(rows) : Append(rows, NewKey(u))[i] = rows[i]
      /\ Append(rows, NewKey(u))[Len(rows) + 1] = NewKey(u)
  BY <1>1, AppendProperties
<1>4. DOMAIN Append(rows, NewKey(u)) = 1..(Len(rows) + 1)
  BY <1>3, LenProperties
<1>5. QED
  BY <1>2, <1>3, <1>4

-----------------------------------------------------------------------------
LEMMA InitInv == Init => IndInv
<1> SUFFICES ASSUME Init PROVE IndInv
  OBVIOUS
<1>1. <<NewKey(Creator)>> \in Seq(KeyRow) /\ Len(keys) = 1 /\ DOMAIN keys = {1}
      /\ keys[1] = NewKey(Creator)
  BY CreatorAssumption DEF Init, NewKey, KeyRow
<1>2. TypeOK
  BY <1>1, CreatorAssumption, RolesAssumption, MaxKeysAssumption DEF Init, TypeOK, KeyRow
<1>3. Creator \in Admins /\ \A u \in User : role[u] # NotMember => u = Creator
  BY CreatorAssumption DEF Init, Admins
<1>4. 1 \in KeysOf(Creator) /\ Active(1)
  BY <1>1 DEF KeysOf, Active, NewKey
<1>5. QED
  BY <1>2, <1>3, <1>4 DEF Init, IndInv, SomeAdmin, MembersCanConnect, RemovalRevokes

(* A request that is carried out was authorized for accounts and a role.   *)
LEMMA Doer ==
    ASSUME TypeOK, NEW r \in Request, request[r] # Idle
    PROVE  request[r].user \in User /\ Target(r) \in User /\ request[r].role \in Roles
BY DEF TypeOK, Acting, Target

(* The rows of the key table after each operation that touches it.         *)
LEMMA AddKeys ==
    ASSUME TypeOK, NEW r \in Request, AddMember(r), role[Target(r)] = NotMember
    PROVE  /\ keys' \in Seq(KeyRow) /\ Len(keys') <= MaxKeys
           /\ KeysAge
           /\ \A i \in DOMAIN keys : keys'[i] = keys[i]
           /\ \E i \in DOMAIN keys' : keys'[i].user = Target(r) /\ ~ keys'[i].revoked
<1>1. Target(r) \in User
  BY Doer DEF AddMember, Doing
<1>2. keys \in Seq(KeyRow) /\ keys' = Append(keys, NewKey(Target(r))) /\ Len(keys) < MaxKeys
  BY DEF TypeOK, KeyRow, AddMember
<1>3. /\ keys' \in Seq(KeyRow) /\ Len(keys') = Len(keys) + 1
      /\ DOMAIN keys' = DOMAIN keys \cup {Len(keys) + 1}
      /\ \A i \in DOMAIN keys : keys'[i] = keys[i]
      /\ keys'[Len(keys) + 1] = NewKey(Target(r))
  BY <1>1, <1>2, MintRow
<1>4. Len(keys) + 1 <= MaxKeys
  BY <1>2, LenProperties, MaxKeysAssumption
<1>5. keys'[Len(keys) + 1].user = Target(r) /\ ~ keys'[Len(keys) + 1].revoked
  BY <1>3 DEF NewKey
<1>6. QED
  BY <1>3, <1>4, <1>5 DEF KeysAge

LEMMA RemoveKeys ==
    ASSUME TypeOK, NEW r \in Request, RemoveMember(r),
           role[Target(r)] # NotMember, ~ LastAdmin(Target(r))
    PROVE  /\ keys' \in Seq(KeyRow) /\ Len(keys') <= MaxKeys
           /\ KeysAge /\ DOMAIN keys' = DOMAIN keys
           /\ \A i \in DOMAIN keys :
                 keys'[i].revoked <=> (keys[i].revoked \/ keys[i].user = Target(r))
<1>1. keys \in Seq(KeyRow) /\ keys' = Revoke(keys, KeysOf(Target(r)))
  BY DEF TypeOK, KeyRow, RemoveMember
<1>2. \A i \in DOMAIN keys : i \in KeysOf(Target(r)) <=> keys[i].user = Target(r)
  BY DEF KeysOf
<1>3. QED
  BY <1>1, <1>2, RevokeRows DEF KeysAge, TypeOK

LEMMA RotateKeys ==
    ASSUME TypeOK, NEW r \in Request, RotateKey(r)
    PROVE  /\ keys' \in Seq(KeyRow) /\ Len(keys') <= MaxKeys
           /\ KeysAge
           /\ \A i \in DOMAIN keys : keys[i].user # request[r].user =>
                 (keys'[i].revoked <=> keys[i].revoked)
           /\ \E i \in DOMAIN keys' : keys'[i].user = request[r].user /\ ~ keys'[i].revoked
<1> DEFINE u == request[r].user
           left == Revoke(keys, KeysOf(u))
<1>1. u \in User
  BY Doer DEF RotateKey, Doing
<1>2. keys \in Seq(KeyRow) /\ keys' = Append(left, NewKey(u)) /\ Len(keys) < MaxKeys
  BY DEF TypeOK, KeyRow, RotateKey
<1>3. /\ left \in Seq(KeyRow) /\ Len(left) = Len(keys) /\ DOMAIN left = DOMAIN keys
      /\ \A i \in DOMAIN keys : /\ left[i].user = keys[i].user
                                /\ left[i].revoked <=> (keys[i].revoked \/ i \in KeysOf(u))
  BY <1>2, RevokeRows
<1> HIDE DEF left
<1>4. /\ keys' \in Seq(KeyRow) /\ Len(keys') = Len(keys) + 1
      /\ DOMAIN keys' = DOMAIN keys \cup {Len(keys) + 1}
      /\ \A i \in DOMAIN keys : keys'[i] = left[i]
      /\ keys'[Len(keys) + 1] = NewKey(u)
  BY <1>1, <1>2, <1>3, MintRow
<1>5. Len(keys) + 1 <= MaxKeys
  BY <1>2, LenProperties, MaxKeysAssumption
<1>6. keys'[Len(keys) + 1].user = u /\ ~ keys'[Len(keys) + 1].revoked
  BY <1>4 DEF NewKey
<1>7. \A i \in DOMAIN keys : keys[i].user # u => i \notin KeysOf(u)
  BY DEF KeysOf
<1>8. QED
  BY <1>3, <1>4, <1>5, <1>6, <1>7 DEF KeysAge

-----------------------------------------------------------------------------
(* The step, in the two halves the operations leave: roles and keys.       *)
LEMMA Ages == TypeOK /\ [Next]_vars => KeysAge
<1> SUFFICES ASSUME TypeOK, [Next]_vars PROVE KeysAge
  OBVIOUS
<1>1. UNCHANGED keys => KeysAge
  BY DEF KeysAge
<1>2. ASSUME NEW r \in Request, Act(r) PROVE KeysAge
  <2>1. CASE AddMember(r)
    BY <2>1, <1>1, AddKeys DEF AddMember
  <2>2. CASE SetMemberRole(r)
    BY <2>2, <1>1 DEF SetMemberRole
  <2>3. CASE RemoveMember(r)
    BY <2>3, <1>1, RemoveKeys DEF RemoveMember
  <2>4. CASE RotateKey(r)
    BY <2>4, RotateKeys
  <2>5. QED BY <1>2, <2>1, <2>2, <2>3, <2>4 DEF Act
<1>3. QED
  BY <1>1, <1>2 DEF Next, Authorize, Abandon, vars

LEMMA TypeStep == TypeOK /\ [Next]_vars => TypeOK'
<1> SUFFICES ASSUME TypeOK, [Next]_vars PROVE TypeOK'
  OBVIOUS
<1>1. ASSUME NEW r \in Request, NEW u \in User, NEW kind \in AdminKinds \cup {"rotate"},
             NEW target \in User, NEW newRole \in Roles,
             Authorize(r, u, kind, target, newRole)
      PROVE  TypeOK'
  BY <1>1 DEF Authorize, TypeOK, Acting, KeyRow
<1>2. ASSUME NEW r \in Request, Done(r)
      PROVE  request' \in [Request -> {Idle} \cup Acting]
  BY <1>2 DEF Done, TypeOK
<1>3. ASSUME NEW r \in Request, AddMember(r) PROVE TypeOK'
  <2>1. Target(r) \in User /\ request[r].role \in Roles
    BY <1>3, Doer DEF AddMember, Doing
  <2>2. role' \in [User -> Roles \cup {NotMember}]
    BY <1>3, <2>1 DEF AddMember, TypeOK
  <2>3. keys' \in Seq(KeyRow) /\ Len(keys') <= MaxKeys /\ DOMAIN keys \subseteq DOMAIN keys'
    BY <1>3, AddKeys DEF AddMember, TypeOK, KeyRow, KeysAge
  <2>4. QED BY <1>2, <1>3, <2>2, <2>3 DEF AddMember, TypeOK, KeyRow
<1>4. ASSUME NEW r \in Request, SetMemberRole(r) PROVE TypeOK'
  <2>1. Target(r) \in User /\ request[r].role \in Roles
    BY <1>4, Doer DEF SetMemberRole, Doing
  <2>2. QED BY <1>2, <1>4, <2>1 DEF SetMemberRole, TypeOK
<1>5. ASSUME NEW r \in Request, RemoveMember(r) PROVE TypeOK'
  <2>1. Target(r) \in User
    BY <1>5, Doer DEF RemoveMember, Doing
  <2>2. CASE role[Target(r)] = NotMember \/ LastAdmin(Target(r))
    BY <1>2, <1>5, <2>2 DEF RemoveMember, TypeOK
  <2>3. CASE role[Target(r)] # NotMember /\ ~ LastAdmin(Target(r))
    <3>1. keys' \in Seq(KeyRow) /\ Len(keys') <= MaxKeys /\ DOMAIN keys' = DOMAIN keys
      BY <1>5, <2>3, RemoveKeys
    <3>2. cut' \subseteq DOMAIN keys
      BY <1>5, <2>3 DEF RemoveMember, TypeOK, KeysOf
    <3>3. QED BY <1>2, <1>5, <2>1, <2>3, <3>1, <3>2 DEF RemoveMember, TypeOK, KeyRow
  <2>4. QED BY <2>2, <2>3
<1>6. ASSUME NEW r \in Request, RotateKey(r) PROVE TypeOK'
  <2>1. keys' \in Seq(KeyRow) /\ Len(keys') <= MaxKeys /\ DOMAIN keys \subseteq DOMAIN keys'
    BY <1>6, RotateKeys DEF KeysAge
  <2>2. QED BY <1>2, <1>6, <2>1 DEF RotateKey, TypeOK, KeyRow
<1>7. ASSUME NEW r \in Request, Abandon(r) PROVE TypeOK'
  BY <1>2, <1>7 DEF Abandon, TypeOK
<1>8. CASE UNCHANGED vars
  BY <1>8 DEF vars, TypeOK
<1>9. QED
  BY <1>1, <1>3, <1>4, <1>5, <1>6, <1>7, <1>8, RolesAssumption DEF Next, Act, AdminKinds

(* Whoever loses the role of an admin was not the last to have it.         *)
LEMMA AdminStep == TypeOK /\ SomeAdmin /\ [Next]_vars => SomeAdmin'
<1> SUFFICES ASSUME TypeOK, SomeAdmin, [Next]_vars PROVE SomeAdmin'
  OBVIOUS
<1>0. UNCHANGED role => SomeAdmin'
  BY DEF SomeAdmin, Admins
<1>1. ASSUME NEW r \in Request, AddMember(r) PROVE SomeAdmin'
  <2>1. PICK u \in User : role[u] = "admin"
    BY DEF SomeAdmin, Admins
  <2>2. role'[u] = "admin"
    BY <1>1, <2>1 DEF AddMember, TypeOK, NotMember
  <2>3. QED BY <2>2 DEF SomeAdmin, Admins
<1>2. ASSUME NEW r \in Request, NEW x \in Roles \cup {NotMember},
             role' = [role EXCEPT ![Target(r)] = x],
             x = "admin" \/ ~ LastAdmin(Target(r)), Target(r) \in User
      PROVE  SomeAdmin'
  <2>1. \E u \in User : role'[u] = "admin"
    BY <1>2 DEF SomeAdmin, Admins, LastAdmin, TypeOK
  <2>2. QED BY <2>1 DEF SomeAdmin, Admins
<1>3. ASSUME NEW r \in Request, SetMemberRole(r) PROVE SomeAdmin'
  <2>1. Target(r) \in User /\ request[r].role \in Roles
    BY <1>3, Doer DEF SetMemberRole, Doing
  <2>2. QED BY <1>0, <1>2, <1>3, <2>1 DEF SetMemberRole
<1>4. ASSUME NEW r \in Request, RemoveMember(r) PROVE SomeAdmin'
  <2>1. Target(r) \in User
    BY <1>4, Doer DEF RemoveMember, Doing
  <2>2. QED BY <1>0, <1>2, <1>4, <2>1 DEF RemoveMember
<1>5. QED
  BY <1>0, <1>1, <1>3, <1>4 DEF Next, Authorize, Act, RotateKey, Abandon, vars

(* A key is given with a membership and replaced in one transaction.       *)
LEMMA KeyStep ==
    TypeOK /\ TypeOK' /\ MembersCanConnect /\ RemovalRevokes /\ [Next]_vars
        => MembersCanConnect' /\ RemovalRevokes'
<1> SUFFICES ASSUME TypeOK, TypeOK', MembersCanConnect, RemovalRevokes, [Next]_vars
             PROVE  MembersCanConnect' /\ RemovalRevokes'
  OBVIOUS
<1> USE DEF MembersCanConnect, RemovalRevokes, KeysOf, Active
<1>0. KeysAge
  BY Ages
<1>r. UNCHANGED cut => RemovalRevokes'
  BY <1>0 DEF KeysAge, TypeOK
<1>1. ASSUME NEW r \in Request, AddMember(r)
      PROVE  MembersCanConnect' /\ RemovalRevokes'
  <2>1. CASE role[Target(r)] # NotMember
    BY <1>1, <2>1 DEF AddMember
  <2>2. CASE role[Target(r)] = NotMember
    <3>1. \A i \in DOMAIN keys : i \in DOMAIN keys' /\ keys'[i] = keys[i]
      BY <1>0, <1>1, <2>2, AddKeys DEF KeysAge
    <3>2. \E i \in DOMAIN keys' : keys'[i].user = Target(r) /\ ~ keys'[i].revoked
      BY <1>1, <2>2, AddKeys
    <3>3. \A u \in User : u # Target(r) => role'[u] = role[u]
      BY <1>1, <2>2 DEF AddMember, TypeOK
    <3>4. MembersCanConnect'
      BY <3>1, <3>2, <3>3
    <3>5. QED BY <1>1, <1>r, <3>4 DEF AddMember
  <2>3. QED BY <2>1, <2>2
<1>2. ASSUME NEW r \in Request, SetMemberRole(r)
      PROVE  MembersCanConnect' /\ RemovalRevokes'
  <2>1. \A u \in User : role'[u] # NotMember => role[u] # NotMember
    BY <1>2 DEF SetMemberRole, TypeOK
  <2>2. QED BY <1>2, <2>1 DEF SetMemberRole
<1>3. ASSUME NEW r \in Request, RemoveMember(r)
      PROVE  MembersCanConnect' /\ RemovalRevokes'
  <2>1. CASE role[Target(r)] = NotMember \/ LastAdmin(Target(r))
    BY <1>3, <2>1 DEF RemoveMember
  <2>2. CASE role[Target(r)] # NotMember /\ ~ LastAdmin(Target(r))
    <3>1. /\ DOMAIN keys' = DOMAIN keys
          /\ \A i \in DOMAIN keys :
                keys'[i].revoked <=> (keys[i].revoked \/ keys[i].user = Target(r))
      BY <1>3, <2>2, RemoveKeys
    <3>2. Target(r) \in User
      BY <1>3, Doer DEF RemoveMember, Doing
    <3>3. \A u \in User : role'[u] # NotMember => u # Target(r) /\ role[u] # NotMember
      BY <1>3, <2>2, <3>2 DEF RemoveMember, TypeOK
    <3>4. MembersCanConnect'
      BY <1>0, <3>1, <3>3 DEF KeysAge
    <3>5. RemovalRevokes'
      BY <1>3, <2>2, <3>1 DEF RemoveMember, TypeOK
    <3>6. QED BY <3>4, <3>5
  <2>3. QED BY <2>1, <2>2
<1>4. ASSUME NEW r \in Request, RotateKey(r)
      PROVE  MembersCanConnect' /\ RemovalRevokes'
  <2>1. /\ \A i \in DOMAIN keys : keys[i].user # request[r].user =>
              (keys'[i].revoked <=> keys[i].revoked)
        /\ \E i \in DOMAIN keys' : keys'[i].user = request[r].user /\ ~ keys'[i].revoked
    BY <1>4, RotateKeys
  <2>2. ASSUME NEW u \in User, role'[u] # NotMember
        PROVE  \E i \in DOMAIN keys' : keys'[i].user = u /\ ~ keys'[i].revoked
    <3>1. CASE u = request[r].user
      BY <2>1, <3>1
    <3>2. CASE u # request[r].user
      <4>1. PICK i \in DOMAIN keys : keys[i].user = u /\ ~ keys[i].revoked
        BY <1>4, <2>2 DEF RotateKey
      <4>2. i \in DOMAIN keys' /\ keys'[i].user = u /\ ~ keys'[i].revoked
        BY <1>0, <2>1, <3>2, <4>1 DEF KeysAge
      <4>3. QED BY <4>2
    <3>3. QED BY <3>1, <3>2
  <2>3. QED BY <1>4, <1>r, <2>2 DEF RotateKey
<1>5. QED
  BY <1>1, <1>2, <1>3, <1>4 DEF Next, Authorize, Act, Abandon, vars

LEMMA IndInvStep == IndInv /\ [Next]_vars => IndInv'
BY TypeStep, AdminStep, KeyStep DEF IndInv

-----------------------------------------------------------------------------
(* However admins demote and remove each other on roles they read earlier, *)
(* somebody can still manage the workspace, whoever belongs to it can      *)
(* connect, and a removed member's keys never work again (tenant.Repo).    *)
THEOREM WorkspaceKept == Spec => [](SomeAdmin /\ MembersCanConnect /\ RemovalRevokes)
BY InitInv, IndInvStep, PTL DEF Spec, IndInv

-----------------------------------------------------------------------------
(* The token server in front of it.                                        *)
Code == [key : DOMAIN keys, exp : Nat]
Token == [kind : {"access"}, key : DOMAIN keys, role : Roles, exp : Nat]
           \cup [kind : {"refresh"}, key : DOMAIN keys, exp : Nat]

Types ==
    /\ time \in 1..MaxTime /\ restarts \in 0..MaxRestarts
    /\ codes \in Seq(Code) /\ Len(codes) <= MaxCodes
    /\ seen \subseteq DOMAIN codes
    /\ tokens \subseteq Token /\ \A t \in tokens : time <= t.exp
    /\ exchange \in [Exchange -> {Server!Idle} \cup Server!Exchanging]
    /\ \A x \in Exchange : exchange[x] # Server!Idle => exchange[x].code \in 0..Len(codes)
    /\ gate \in {Server!NoCall} \cup Server!Calling
    /\ redeemed \in Seq(Nat) /\ Len(redeemed) = Len(codes)

(* A code that lasts was redeemed once in each life of the server that is  *)
(* over and, if its mark is there, once in this one.  Tick only takes      *)
(* codes out of the claim.                                                 *)
MarkedIfRedeemed ==
    \A c \in DOMAIN codes : time <= codes[c].exp =>
        /\ redeemed[c] <= 1 + restarts
        /\ c \notin seen => redeemed[c] <= restarts

(* A call whose key was dead when it came has a revoked key, so it does    *)
(* not pass the query for it.                                              *)
DeadStaysOut ==
    /\ gate.step = "key" => (gate.dead => keys[gate.key].revoked)
    /\ gate.step \in {"role", "in"} => ~ gate.dead

AccessInv == TypeOK /\ Types /\ MarkedIfRedeemed /\ DeadStaysOut

LEMMA AccessInitInv == AccessInit => AccessInv
<1> SUFFICES ASSUME AccessInit PROVE AccessInv
  OBVIOUS
<1>1. TypeOK
  BY InitInv DEF AccessInit, IndInv
<1>2. Len(<<>>) = 0 /\ <<>> \in Seq(Code) /\ <<>> \in Seq(Nat)
  BY EmptySeq
<1>3. DOMAIN codes = {}
  BY DEF AccessInit, Server!Init
<1>4. Types
  BY <1>2, <1>3, ServerBoundsAssumption DEF AccessInit, Server!Init, Types
<1>5. MarkedIfRedeemed /\ DeadStaysOut
  BY <1>3 DEF AccessInit, Server!Init, MarkedIfRedeemed, DeadStaysOut, Server!NoCall
<1>6. QED
  BY <1>1, <1>4, <1>5 DEF AccessInv

(* A step of the dashboard: keys are only added, and die for good.         *)
LEMMA DashboardStep == AccessInv /\ [Next]_vars /\ UNCHANGED server => AccessInv'
<1> SUFFICES ASSUME AccessInv, [Next]_vars, UNCHANGED server PROVE AccessInv'
  OBVIOUS
<1>1. TypeOK' /\ KeysAge
  BY TypeStep, Ages DEF AccessInv
<1>2. Code \subseteq Code' /\ Token \subseteq Token'
      /\ Server!Exchanging \subseteq Server!Exchanging' /\ Server!Calling \subseteq Server!Calling'
  BY <1>1 DEF KeysAge, Code, Token, Server!Exchanging, Server!Calling, Server!Key
<1>3. codes' \in Seq(Code')
  BY <1>2, SeqMonotonic DEF AccessInv, Types, server
<1>4. Types'
  BY <1>2, <1>3 DEF AccessInv, Types, server, Server!Idle, Server!NoCall
<1>5. MarkedIfRedeemed'
  BY DEF AccessInv, MarkedIfRedeemed, server
<1>6. DeadStaysOut'
  <2>1. gate.step = "key" => gate.key \in DOMAIN keys
    BY DEF AccessInv, Types, Server!NoCall, Server!Calling, Server!Key
  <2>2. QED BY <1>1, <2>1 DEF AccessInv, DeadStaysOut, server, KeysAge
<1>7. QED
  BY <1>1, <1>4, <1>5, <1>6 DEF AccessInv

(* The role a key acts in is one a member may have, however it is read.    *)
LEMMA RoleOfRole ==
    ASSUME TypeOK, NEW k \in DOMAIN keys
    PROVE  \A r \in Server!RoleRead(k) : r \in Roles
<1>1. keys \in [1..Len(keys) -> KeyRow] /\ DOMAIN keys = 1..Len(keys)
  BY LenProperties DEF TypeOK, KeyRow
<1>2. keys[k].user \in User
  BY <1>1 DEF KeyRow
<1>3. QED
  BY <1>2, RolesAssumption DEF Server!RoleRead, Server!RoleOf, TypeOK

LEMMA SealedFacts ==
    ASSUME Types, NEW x \in Exchange, exchange[x] # Server!Idle
    PROVE  /\ exchange[x] \in Server!Exchanging
           /\ exchange[x].key \in DOMAIN keys /\ exchange[x].role \in Roles
           /\ exchange[x].code \in 0..Len(codes)
BY DEF Types, Server!Exchanging, Server!Key

LEMMA CodeFacts ==
    ASSUME Types
    PROVE  /\ Len(codes) \in Nat /\ DOMAIN codes = 1..Len(codes)
           /\ \A c \in DOMAIN codes : codes[c].key \in DOMAIN keys /\ codes[c].exp \in Nat
<1>1. Len(codes) \in Nat /\ codes \in [1..Len(codes) -> Code] /\ DOMAIN codes = 1..Len(codes)
  BY LenProperties DEF Types
<1>2. QED
  BY <1>1 DEF Code

(* What a step of the server keeps of the workspace.                       *)
LEMMA DatabaseKept ==
    ASSUME TypeOK, UNCHANGED Server!database, UNCHANGED <<request, cut>>
    PROVE  TypeOK' /\ Code' = Code /\ Token' = Token
BY DEF TypeOK, Server!database, Code, Token

(* An exchange leaves its step for another, for the same code and key.     *)
LEMMA ExchangeTyped ==
    ASSUME Types, NEW x \in Exchange, UNCHANGED <<keys, codes>>,
           NEW e, exchange' = [exchange EXCEPT ![x] = e],
           e = Server!Idle \/ (e \in Server!Exchanging /\ e.code \in 0..Len(codes))
    PROVE  /\ exchange' \in [Exchange -> {Server!Idle} \cup Server!Exchanging']
           /\ \A y \in Exchange : exchange'[y] # Server!Idle => exchange'[y].code \in 0..Len(codes')
BY DEF Types, Server!Exchanging, Server!Key

LEMMA ExpiryTyped ==
    ASSUME Types
    PROVE  time \in Nat /\ time + CodeTTL \in Nat
           /\ time + AccessTTL \in Nat /\ time <= time + AccessTTL
           /\ time + RefreshTTL \in Nat /\ time <= time + RefreshTTL
BY TTLAssumption, ServerBoundsAssumption DEF Types

(* The tokens of an exchange are of its key, and last for now.             *)
LEMMA IssuedTyped ==
    ASSUME TypeOK, Types, NEW x \in Exchange, exchange[x] # Server!Idle, Server!Issue(x),
           UNCHANGED <<keys, codes, time>>
    PROVE  /\ tokens' \subseteq Token /\ \A t \in tokens' : time <= t.exp
           /\ exchange' \in [Exchange -> {Server!Idle} \cup Server!Exchanging']
           /\ \A y \in Exchange : exchange'[y] # Server!Idle => exchange'[y].code \in 0..Len(codes')
<1> DEFINE a == Server!Access(exchange[x].key, exchange[x].role, time + AccessTTL)
           r == Server!Refresh(exchange[x].key, time + RefreshTTL)
<1>1. exchange[x].key \in DOMAIN keys /\ exchange[x].role \in Roles
  BY SealedFacts
<1>2. a \in Token /\ time <= a.exp
  BY <1>1, ExpiryTyped DEF Token, Server!Access
<1>3. r \in Token /\ time <= r.exp
  BY <1>1, ExpiryTyped DEF Token, Server!Refresh
<1>4. tokens' = tokens \cup {a, r}
  BY DEF Server!Issue
<1> HIDE DEF a, r
<1>5. tokens' \subseteq Token /\ \A t \in tokens' : time <= t.exp
  BY <1>2, <1>3, <1>4 DEF Types
<1>6. exchange' = [exchange EXCEPT ![x] = Server!Idle]
  BY DEF Server!Issue
<1>7. QED
  BY <1>5, <1>6, ExchangeTyped

-----------------------------------------------------------------------------
LEMMA TickStep ==
    ASSUME AccessInv, Server!Tick, UNCHANGED <<request, cut>> PROVE AccessInv'
<1> USE DEF AccessInv, Server!Tick
<1>1. TypeOK' /\ Code' = Code /\ Token' = Token
  BY DatabaseKept
<1>2. time' \in 1..MaxTime /\ time <= time' /\ time \in Nat /\ time' \in Nat
  BY ServerBoundsAssumption DEF Types
<1>3. Types'
  BY <1>1, <1>2 DEF Types, Server!database, Server!Exchanging, Server!Calling, Server!Key
<1>4. MarkedIfRedeemed'
  <2>1. \A c \in DOMAIN codes : codes[c].exp \in Nat
    BY CodeFacts
  <2>2. QED BY <1>2, <2>1 DEF MarkedIfRedeemed
<1>5. DeadStaysOut'
  BY DEF DeadStaysOut, Server!database
<1>6. QED
  BY <1>1, <1>3, <1>4, <1>5

LEMMA AuthorizeStep ==
    ASSUME AccessInv, NEW k \in DOMAIN keys, Server!Authorize(k), UNCHANGED <<request, cut>>
    PROVE  AccessInv'
<1> DEFINE code == [key |-> k, exp |-> time + CodeTTL]
<1> USE DEF AccessInv
<1>1. TypeOK' /\ Code' = Code /\ Token' = Token
  BY DatabaseKept DEF Server!Authorize
<1>2. code \in Code
  BY ExpiryTyped DEF Code
<1>3. codes' = Append(codes, code) /\ redeemed' = Append(redeemed, 0)
  BY DEF Server!Authorize
<1>4. /\ codes' \in Seq(Code) /\ Len(codes') = Len(codes) + 1
      /\ \A c \in 1..Len(codes) : codes'[c] = codes[c]
  BY <1>2, <1>3, AppendProperties DEF Types
<1>5. /\ redeemed' \in Seq(Nat) /\ Len(redeemed') = Len(codes) + 1
      /\ \A c \in 1..Len(codes) : redeemed'[c] = redeemed[c]
      /\ redeemed'[Len(codes) + 1] = 0
  BY <1>3, AppendProperties DEF Types
<1>6. /\ DOMAIN codes = 1..Len(codes) /\ DOMAIN codes' = 1..(Len(codes) + 1)
      /\ Len(codes) \in Nat
  BY <1>4, LenProperties DEF Types
<1>7. Types'
  <2>1. Len(codes') <= MaxCodes
    BY <1>4, <1>6, ServerBoundsAssumption DEF Server!Authorize
  <2>2. 0..Len(codes) \subseteq 0..Len(codes')
    BY <1>4, <1>6
  <2>3. QED
    BY <1>1, <1>4, <1>5, <1>6, <2>1, <2>2
       DEF Types, Server!Authorize, Server!database, Server!Exchanging, Server!Calling, Server!Key
<1>8. MarkedIfRedeemed'
  <2>1. restarts \in Nat
    BY ServerBoundsAssumption DEF Types
  <2>2. QED
    BY <1>4, <1>5, <1>6, <2>1 DEF MarkedIfRedeemed, Server!Authorize
<1>9. DeadStaysOut'
  BY DEF DeadStaysOut, Server!Authorize, Server!database
<1>10. QED
  BY <1>1, <1>7, <1>8, <1>9

(* A request to /token that opens its claims, or asks for its key.         *)
LEMMA PresentStep ==
    ASSUME AccessInv, NEW x \in Exchange, NEW c \in 0..Len(codes), NEW k \in DOMAIN keys,
           Server!Present(x, c, k), UNCHANGED <<request, cut>>
    PROVE  AccessInv'
<1> DEFINE e == [step |-> "validate", code |-> c, key |-> k, role |-> "member"]
<1> USE DEF AccessInv
<1>1. TypeOK' /\ Code' = Code /\ Token' = Token
  BY DatabaseKept DEF Server!Present
<1>2. c \in 0..MaxCodes
  BY LenProperties, ServerBoundsAssumption DEF Types
<1>3. e \in Server!Exchanging /\ e.code \in 0..Len(codes)
  BY <1>2, RolesAssumption DEF Server!Exchanging, Server!Key
<1>4. exchange' = [exchange EXCEPT ![x] = e] /\ UNCHANGED <<keys, codes>>
  BY DEF Server!Present, Server!database
<1> HIDE DEF e
<1>5. /\ exchange' \in [Exchange -> {Server!Idle} \cup Server!Exchanging']
      /\ \A y \in Exchange : exchange'[y] # Server!Idle => exchange'[y].code \in 0..Len(codes')
  BY <1>3, <1>4, ExchangeTyped
<1>6. Types'
  BY <1>1, <1>5 DEF Types, Server!Present, Server!database, Server!Calling, Server!Key
<1>7. MarkedIfRedeemed' /\ DeadStaysOut'
  BY DEF Server!Present, Server!database, MarkedIfRedeemed, DeadStaysOut
<1>8. QED
  BY <1>1, <1>6, <1>7

LEMMA ValidateStep ==
    ASSUME AccessInv, NEW x \in Exchange, Server!Validate(x), UNCHANGED <<request, cut>>
    PROVE  AccessInv'
<1> DEFINE k == exchange[x].key
           issue(r) == [exchange[x] EXCEPT !.step = "issue", !.role = r]
<1> USE DEF AccessInv
<1>1. TypeOK' /\ Code' = Code /\ Token' = Token
  BY DatabaseKept DEF Server!Validate
<1>2. exchange[x] \in Server!Exchanging /\ k \in DOMAIN keys /\ exchange[x].code \in 0..Len(codes)
  BY SealedFacts DEF Server!Validate
<1>3. \A r \in Server!RoleRead(k) : r \in Roles
  BY <1>2, RoleOfRole
<1>4. \A r \in Roles : issue(r) \in Server!Exchanging /\ issue(r).code \in 0..Len(codes)
  BY <1>2 DEF Server!Exchanging
<1>5. UNCHANGED <<keys, codes>>
  BY DEF Server!Validate, Server!database
<1>6. PICK e : /\ exchange' = [exchange EXCEPT ![x] = e]
               /\ e = Server!Idle \/ (e \in Server!Exchanging /\ e.code \in 0..Len(codes))
  <2>1. CASE exchange' = [exchange EXCEPT ![x] = Server!Idle]
    BY <2>1
  <2>2. ASSUME NEW r \in Server!RoleRead(k), exchange' = [exchange EXCEPT ![x] = issue(r)]
        PROVE  \E e : /\ exchange' = [exchange EXCEPT ![x] = e]
                      /\ e = Server!Idle \/ (e \in Server!Exchanging /\ e.code \in 0..Len(codes))
    BY <2>2, <1>3, <1>4
  <2>3. QED BY <2>1, <2>2 DEF Server!Validate
<1>7. /\ exchange' \in [Exchange -> {Server!Idle} \cup Server!Exchanging']
      /\ \A y \in Exchange : exchange'[y] # Server!Idle => exchange'[y].code \in 0..Len(codes')
  BY <1>5, <1>6, ExchangeTyped
<1>8. Types'
  BY <1>1, <1>7 DEF Types, Server!Validate, Server!database, Server!Calling, Server!Key
<1>9. MarkedIfRedeemed' /\ DeadStaysOut'
  BY DEF Server!Validate, Server!database, MarkedIfRedeemed, DeadStaysOut
<1>10. QED
  BY <1>1, <1>8, <1>9

LEMMA RefreshedStep ==
    ASSUME AccessInv, NEW x \in Exchange, Server!IssueRefreshed(x), UNCHANGED <<request, cut>>
    PROVE  AccessInv'
<1> USE DEF AccessInv, Server!IssueRefreshed
<1>1. TypeOK' /\ Code' = Code /\ Token' = Token
  BY DatabaseKept
<1>2. Types'
  BY <1>1, IssuedTyped DEF Types, Server!IssuesNow, Server!database, Server!Calling, Server!Key
<1>3. MarkedIfRedeemed' /\ DeadStaysOut'
  BY DEF MarkedIfRedeemed, DeadStaysOut, Server!database
<1>4. QED
  BY <1>1, <1>2, <1>3

(* The exchange of a code: while it lasts its mark is not dropped, so only *)
(* the first one since the last restart issues tokens.                     *)
LEMMA RedeemStep ==
    ASSUME AccessInv, NEW x \in Exchange, Server!Redeem(x), UNCHANGED <<request, cut>>
    PROVE  AccessInv'
<1> DEFINE c == exchange[x].code
           left == {d \in seen : codes[d].exp >= time}
<1> USE DEF AccessInv
<1>1. TypeOK' /\ Code' = Code /\ Token' = Token
  BY DatabaseKept DEF Server!Redeem
<1>2. /\ exchange[x] # Server!Idle /\ c # 0
      /\ UNCHANGED <<role, keys, time, codes, restarts, gate>>
  BY DEF Server!Redeem, Server!IssuesNow, Server!database
<1>3. DOMAIN codes = 1..Len(codes) /\ DOMAIN redeemed = 1..Len(codes)
  BY LenProperties DEF Types
<1>4. c \in DOMAIN codes
  BY <1>2, <1>3, SealedFacts, LenProperties DEF Types
<1>5. redeemed \in [1..Len(codes) -> Nat] /\ restarts \in Nat
  BY LenProperties, ServerBoundsAssumption DEF Types
<1>6. DeadStaysOut'
  BY <1>2 DEF DeadStaysOut
<1>7. CASE c \in left
  <2>1. /\ exchange' = [exchange EXCEPT ![x] = Server!Idle]
        /\ seen' = left /\ UNCHANGED <<tokens, redeemed>>
    BY <1>7 DEF Server!Redeem
  <2>2. /\ exchange' \in [Exchange -> {Server!Idle} \cup Server!Exchanging']
        /\ \A y \in Exchange : exchange'[y] # Server!Idle => exchange'[y].code \in 0..Len(codes')
    BY <1>2, <2>1, ExchangeTyped
  <2>5. Types'
    BY <1>1, <1>2, <2>1, <2>2 DEF Types, Server!Calling, Server!Key
  <2>3. MarkedIfRedeemed'
    BY <1>2, <2>1 DEF MarkedIfRedeemed
  <2>4. QED BY <1>1, <1>6, <2>5, <2>3
<1>8. CASE c \notin left
  <2>1. /\ Server!Issue(x) /\ seen' = left \cup {c}
        /\ redeemed' = [redeemed EXCEPT ![c] = @ + 1]
    BY <1>8 DEF Server!Redeem
  <2>2. redeemed' \in Seq(Nat) /\ Len(redeemed') = Len(redeemed)
    <3>1. redeemed[c] + 1 \in Nat
      BY <1>3, <1>4, <1>5
    <3>2. QED BY <1>3, <1>4, <2>1, <3>1, ExceptSeq DEF Types
  <2>3. Types'
    BY <1>1, <1>2, <1>4, <2>1, <2>2, IssuedTyped DEF Types, Server!Calling, Server!Key
  <2>4. MarkedIfRedeemed'
    <3>1. ASSUME NEW d \in DOMAIN codes, time <= codes[d].exp
          PROVE  /\ redeemed'[d] <= 1 + restarts
                 /\ d \notin seen' => redeemed'[d] <= restarts
      <4>1. CASE d = c
        <5>1. c \notin seen
          BY <1>4, <1>8, <3>1, <4>1
        <5>2. redeemed[c] <= restarts
          BY <1>4, <3>1, <4>1, <5>1 DEF MarkedIfRedeemed
        <5>3. QED BY <1>3, <1>4, <1>5, <2>1, <4>1, <5>2
      <4>2. CASE d # c
        <5>1. redeemed'[d] = redeemed[d]
          BY <1>3, <1>4, <1>5, <2>1, <3>1, <4>2
        <5>2. d \notin seen' => d \notin seen
          BY <2>1, <3>1, <4>2
        <5>3. QED BY <3>1, <5>1, <5>2 DEF MarkedIfRedeemed
      <4>3. QED BY <4>1, <4>2
    <3>2. QED BY <1>2, <3>1 DEF MarkedIfRedeemed
  <2>5. QED BY <1>1, <1>6, <2>3, <2>4
<1>9. QED
  BY <1>7, <1>8

(* The gate.                                                               *)
LEMMA GateStep ==
    ASSUME AccessInv, UNCHANGED <<request, cut>>, UNCHANGED Server!database,
           UNCHANGED <<time, codes, seen, tokens, exchange, restarts, redeemed>>,
           gate' \in {Server!NoCall} \cup Server!Calling, DeadStaysOut'
    PROVE  AccessInv'
<1>1. TypeOK' /\ Code' = Code /\ Token' = Token
  BY DatabaseKept DEF AccessInv
<1>2. Types' /\ MarkedIfRedeemed'
  BY <1>1 DEF AccessInv, Types, MarkedIfRedeemed, Server!database, Server!Exchanging,
              Server!Calling, Server!Key
<1>3. QED
  BY <1>1, <1>2 DEF AccessInv

LEMMA CallFacts ==
    ASSUME Types, gate.step # "idle"
    PROVE  gate \in Server!Calling /\ gate.key \in DOMAIN keys
BY DEF Types, Server!NoCall, Server!Calling, Server!Key

LEMMA GateSteps ==
    ASSUME AccessInv, UNCHANGED <<request, cut>>,
           \/ \E k \in DOMAIN keys, r \in Roles : Server!Arrive(k, r)
           \/ Server!FindKey \/ Server!FindRole
    PROVE  AccessInv'
<1> USE DEF AccessInv
<1>1. ASSUME NEW k \in DOMAIN keys, NEW r \in Roles, Server!Arrive(k, r) PROVE AccessInv'
  <2>1. gate' = [step |-> "key", key |-> k, role |-> r, dead |-> ~ Server!Live(k)]
    BY <1>1 DEF Server!Arrive
  <2>2. gate' \in Server!Calling
    BY <2>1 DEF Server!Calling, Server!Key
  <2>3. DeadStaysOut'
    <3>1. gate'.step = "key" /\ gate'.key = k /\ (gate'.dead <=> keys[k].revoked)
      BY <2>1 DEF Server!Live
    <3>2. keys' = keys
      BY <1>1 DEF Server!Arrive, Server!database
    <3>3. QED BY <3>1, <3>2 DEF DeadStaysOut
  <2>4. QED BY <1>1, <2>2, <2>3, GateStep DEF Server!Arrive
<1>2. CASE Server!FindKey
  <2>1. gate \in Server!Calling /\ gate.key \in DOMAIN keys
    BY <1>2, CallFacts DEF Server!FindKey
  <2>2. CASE Server!Live(gate.key) /\ gate' = [gate EXCEPT !.step = "role"]
    <3>1. gate' = [gate EXCEPT !.step = "role"]
      BY <2>2
    <3>2. gate' \in Server!Calling /\ gate'.step = "role" /\ gate'.dead = gate.dead
      BY <2>1, <3>1 DEF Server!Calling
    <3>3. ~ gate.dead
      BY <1>2, <2>2 DEF DeadStaysOut, Server!FindKey, Server!Live
    <3>4. DeadStaysOut'
      BY <3>2, <3>3 DEF DeadStaysOut
    <3>5. QED BY <1>2, <3>2, <3>4, GateStep DEF Server!FindKey
  <2>3. CASE gate' = Server!NoCall
    <3>1. DeadStaysOut'
      BY <2>3 DEF DeadStaysOut, Server!NoCall
    <3>2. QED BY <1>2, <2>3, <3>1, GateStep DEF Server!FindKey
  <2>4. QED BY <1>2, <2>2, <2>3 DEF Server!FindKey
<1>3. CASE Server!FindRole
  <2>1. gate \in Server!Calling /\ gate.key \in DOMAIN keys
    BY <1>3, CallFacts DEF Server!FindRole
  <2>2. \A r \in Server!RoleRead(gate.key) : r \in Roles
    BY <2>1, RoleOfRole
  <2>3. PICK r \in Server!RoleRead(gate.key) : gate' = [gate EXCEPT !.step = "in", !.role = r]
    BY <1>3 DEF Server!FindRole
  <2>4. gate' \in Server!Calling /\ gate'.step = "in" /\ gate'.dead = gate.dead
    BY <2>1, <2>2, <2>3 DEF Server!Calling
  <2>5. DeadStaysOut'
    BY <1>3, <2>4 DEF DeadStaysOut, Server!FindRole
  <2>6. QED BY <1>3, <2>4, <2>5, GateStep DEF Server!FindRole
<1>4. QED
  BY <1>1, <1>2, <1>3

LEMMA RestartStep ==
    ASSUME AccessInv, Server!Restart, UNCHANGED <<request, cut>> PROVE AccessInv'
<1> USE DEF AccessInv, Server!Restart
<1>1. TypeOK' /\ Code' = Code /\ Token' = Token
  BY DatabaseKept
<1>2. Types'
  BY <1>1, ServerBoundsAssumption
     DEF Types, Server!database, Server!Calling, Server!Exchanging, Server!Key
<1>3. MarkedIfRedeemed'
  <2>1. redeemed \in [1..Len(codes) -> Nat] /\ DOMAIN codes = 1..Len(codes) /\ restarts \in Nat
    BY LenProperties, ServerBoundsAssumption DEF Types
  <2>2. QED BY <2>1 DEF MarkedIfRedeemed
<1>4. DeadStaysOut'
  BY DEF DeadStaysOut, Server!NoCall
<1>5. QED
  BY <1>1, <1>2, <1>3, <1>4

-----------------------------------------------------------------------------
LEMMA ServerStep == AccessInv /\ Server!Next /\ UNCHANGED <<request, cut>> => AccessInv'
<1> SUFFICES ASSUME AccessInv, Server!Next, UNCHANGED <<request, cut>> PROVE AccessInv'
  OBVIOUS
<1>1. ASSUME NEW x \in Exchange, NEW c \in DOMAIN codes, Server!PresentCode(x, c) PROVE AccessInv'
  <2>1. codes[c].key \in DOMAIN keys /\ c \in 0..Len(codes)
    BY CodeFacts DEF AccessInv
  <2>2. QED BY <1>1, <2>1, PresentStep DEF Server!PresentCode
<1>2. ASSUME NEW x \in Exchange, NEW t \in tokens, Server!PresentRefresh(x, t) PROVE AccessInv'
  <2>1. t.key \in DOMAIN keys
    BY DEF AccessInv, Types, Token
  <2>2. 0 \in 0..Len(codes)
    BY LenProperties DEF AccessInv, Types
  <2>3. QED BY <1>2, <2>1, <2>2, PresentStep DEF Server!PresentRefresh
<1>3. ASSUME NEW k \in DOMAIN keys, Server!CallWithKey(k) PROVE AccessInv'
  BY <1>3, GateSteps, RolesAssumption DEF Server!CallWithKey
<1>4. ASSUME NEW t \in tokens, Server!CallWithToken(t) PROVE AccessInv'
  <2>1. t.kind = "access"
    BY <1>4 DEF Server!CallWithToken
  <2>2. t.key \in DOMAIN keys /\ t.role \in Roles
    BY <2>1 DEF AccessInv, Types, Token
  <2>3. QED BY <1>4, <2>2, GateSteps DEF Server!CallWithToken
<1>5. QED
  BY <1>1, <1>2, <1>3, <1>4, TickStep, AuthorizeStep, ValidateStep, RefreshedStep, RedeemStep,
     GateSteps, RestartStep DEF Server!Next, Server!Key, Server!Codes

LEMMA AccessInvStep == AccessInv /\ [AccessNext]_<<vars, server>> => AccessInv'
<1> SUFFICES ASSUME AccessInv, [AccessNext]_<<vars, server>> PROVE AccessInv'
  OBVIOUS
<1>1. CASE [Next]_vars /\ UNCHANGED server
  BY <1>1, DashboardStep
<1>2. CASE Server!Next /\ UNCHANGED <<request, cut>>
  BY <1>2, ServerStep
<1>3. QED
  BY <1>1, <1>2 DEF AccessNext

(* Every reachable state of workspace and server has its declared shape,   *)
(* and a code redeemed in this life of the server is remembered.           *)
THEOREM TokensTypeCorrect == AccessSpec => []TokensTypeOK
<1>1. AccessInv => TokensTypeOK
  <2> SUFFICES ASSUME AccessInv PROVE TokensTypeOK
    OBVIOUS
  <2>1. /\ codes \in [1..Len(codes) -> Code] /\ DOMAIN codes = 1..Len(codes)
        /\ redeemed \in [1..Len(codes) -> Nat]
    BY LenProperties DEF AccessInv, Types
  <2>2. Server!TypeOK
    BY <2>1 DEF AccessInv, Types, Server!TypeOK, Code, Token, Server!Key, Server!Codes, Server!Open
  <2>3. \A c \in DOMAIN codes :
           redeemed[c] > 0 /\ time <= codes[c].exp /\ restarts = 0 => c \in seen
    BY <2>1 DEF AccessInv, MarkedIfRedeemed
  <2>4. QED BY <2>2, <2>3 DEF TokensTypeOK
<1>2. QED
  BY <1>1, AccessInitInv, AccessInvStep, PTL DEF AccessSpec

(* However often an authorization code is exchanged, retried or beside     *)
(* itself, each life of the server gives tokens for it at most once while  *)
(* it lasts (oauth.replayGuard.useOnce).                                   *)
THEOREM CodesRedeemedOnce == AccessSpec => []RedeemedOnce
<1>1. AccessInv => RedeemedOnce
  BY DEF AccessInv, MarkedIfRedeemed, RedeemedOnce, Server!RedeemedOnce, Server!Codes
<1>2. QED
  BY <1>1, AccessInitInv, AccessInvStep, PTL DEF AccessSpec

(* Nobody is let in with a key that was dead when the call came, and who   *)
(* is let in as more than a plain member has that role by the membership   *)
(* of that moment, whatever the token said (auth.ResolveBearer,            *)
(* tenantFromKey).                                                         *)
THEOREM AdmittedByDatabase == AccessSpec => AdmittedAsNow
<1> DEFINE Admitted == gate # gate' /\ gate'.step = "in" =>
                           ~ gate'.dead /\ gate'.role \in Server!RoleRead(gate'.key)
<1>1. AccessInv /\ [AccessNext]_<<vars, server>> => [Admitted]_(Server!vars)
  <2> SUFFICES ASSUME AccessInv, [AccessNext]_<<vars, server>>, gate # gate', gate'.step = "in"
               PROVE  ~ gate'.dead /\ gate'.role \in Server!RoleRead(gate'.key)
    OBVIOUS
  <2>1. Server!FindRole
    <3>1. ASSUME NEW k, NEW r, Server!Arrive(k, r) PROVE FALSE
      BY <3>1 DEF Server!Arrive
    <3>2. CASE Server!FindKey
      <4>1. gate \in Server!Calling
        BY <3>2, CallFacts DEF Server!FindKey, AccessInv
      <4>2. gate'.step \in {"role", "idle"}
        BY <3>2, <4>1 DEF Server!FindKey, Server!NoCall, Server!Calling
      <4>3. QED BY <4>2
    <3>3. ~ Server!Restart
      BY DEF Server!Restart, Server!NoCall
    <3>4. ASSUME NEW x, NEW c, NEW k, Server!Present(x, c, k) PROVE FALSE
      BY <3>4 DEF Server!Present
    <3>5. QED
      BY <3>1, <3>2, <3>3, <3>4
         DEF AccessNext, server, Server!Next, Server!Tick, Server!Authorize, Server!PresentCode,
             Server!PresentRefresh, Server!Validate, Server!IssueRefreshed, Server!Redeem,
             Server!CallWithToken, Server!CallWithKey
  <2>2. gate \in Server!Calling /\ gate.key \in DOMAIN keys
    BY <2>1, CallFacts DEF Server!FindRole, AccessInv
  <2>3. PICK r \in Server!RoleRead(gate.key) : gate' = [gate EXCEPT !.step = "in", !.role = r]
    BY <2>1 DEF Server!FindRole
  <2>4. gate'.key = gate.key /\ gate'.dead = gate.dead /\ gate'.role = r
    BY <2>2, <2>3 DEF Server!Calling
  <2>5. ~ gate.dead
    BY <2>1 DEF AccessInv, DeadStaysOut, Server!FindRole
  <2>6. QED BY <2>3, <2>4, <2>5
<1>2. QED
  BY <1>1, AccessInitInv, AccessInvStep, PTL DEF AccessSpec, AdmittedAsNow, Server!AdmittedAsNow
=============================================================================
