------------------------------ MODULE Workspace ------------------------------
(***************************************************************************)
(* One workspace: who belongs to it, in which role, and the API keys its   *)
(* members connect with (tenant.Repo behind the dashboard's Members and    *)
(* Key sections).  A dashboard request reads the caller's role first and   *)
(* acts in a later transaction, so roles may change in between.  Every     *)
(* query carries the team id: workspaces share nothing.                    *)
(*                                                                         *)
(* The transactions are atomic: SQLite refuses the write of one that has   *)
(* read rows another has changed since, and the request fails.             *)
(***************************************************************************)
EXTENDS Integers, Sequences

CONSTANTS
    User,       \* accounts
    Creator,    \* who created the workspace
    Roles,      \* roles a member may have (ValidRole)
    Request,    \* dashboard requests served at a time
    MaxKeys     \* bound: API keys minted

ASSUME CreatorAssumption == Creator \in User
ASSUME RolesAssumption == {"member", "admin"} \subseteq Roles
ASSUME MaxKeysAssumption == MaxKeys \in Nat \ {0}

VARIABLES
    role,       \* role[u]: the memberships row of u, NotMember without one
    keys,       \* api_keys rows, in the order they were minted
    request,    \* request[r]: what r has been authorized to do
    cut         \* history: keys a member held when removed

vars == <<role, keys, request, cut>>

NotMember == "not a member"
AdminKinds == {"add", "set role", "remove"}
Idle == [kind |-> "none"]
Acting == [kind : AdminKinds \cup {"rotate"}, user : User, target : User, role : Roles]

Active(i) == ~ keys[i].revoked
KeysOf(u) == {i \in DOMAIN keys : keys[i].user = u}
NewKey(u) == [user |-> u, revoked |-> FALSE]
Admins == {u \in User : role[u] = "admin"}

(* Types; rows of keys are never deleted, only revoked.                    *)
TypeOK ==
    /\ role \in [User -> Roles \cup {NotMember}]
    /\ keys \in Seq([user : User, revoked : BOOLEAN]) /\ Len(keys) <= MaxKeys
    /\ request \in [Request -> {Idle} \cup Acting]
    /\ cut \subseteq DOMAIN keys

(* CreateWorkspaceForUser: the creator is its admin and has a key.         *)
Init ==
    /\ role = [u \in User |-> IF u = Creator THEN "admin" ELSE NotMember]
    /\ keys = <<NewKey(Creator)>>
    /\ request = [r \in Request |-> Idle]
    /\ cut = {}

-----------------------------------------------------------------------------
(* membership: the caller's role decides once, before the operation.       *)
Authorize(r, u, kind, target, newRole) ==
    /\ request[r] = Idle
    /\ role[u] # NotMember
    /\ kind \in AdminKinds => role[u] = "admin"
    /\ request' = [request EXCEPT ![r] = [kind |-> kind, user |-> u,
                      target |-> target, role |-> newRole]]
    /\ UNCHANGED <<role, keys, cut>>

Doing(r, kind) == request[r] # Idle /\ request[r].kind = kind
Done(r) == request' = [request EXCEPT ![r] = Idle]
Target(r) == request[r].target

AddMemberReinstates(r) ==
    /\ Doing(r, "add") /\ Done(r)
    /\ LET old == KeysOf(Target(r)) IN
       IF role[Target(r)] # NotMember THEN UNCHANGED <<role, keys>>
       ELSE /\ Len(keys) < MaxKeys
            /\ role' = [role EXCEPT ![Target(r)] = request[r].role]
            /\ keys' = IF old = {} THEN Append(keys, NewKey(Target(r)))
                       ELSE [i \in DOMAIN keys |->
                               [keys[i] EXCEPT !.revoked = @ /\ i \notin old]]
    /\ UNCHANGED cut

(* AddMemberByEmail: ErrAlreadyMember, or membership and key together.     *)
AddMember(r) ==
    /\ Doing(r, "add") /\ Done(r)
    /\ IF role[Target(r)] # NotMember THEN UNCHANGED <<role, keys>>
       ELSE /\ Len(keys) < MaxKeys
            /\ role' = [role EXCEPT ![Target(r)] = request[r].role]
            /\ keys' = Append(keys, NewKey(Target(r)))
    /\ UNCHANGED cut

LastAdmin(u) == Admins = {u}

SetMemberRoleUnguarded(r) ==
    /\ Doing(r, "set role") /\ Done(r)
    /\ role' = IF role[Target(r)] = NotMember
               THEN role ELSE [role EXCEPT ![Target(r)] = request[r].role]
    /\ UNCHANGED <<keys, cut>>

(* SetMemberRole: ErrNotMember; the last admin is not demoted.             *)
SetMemberRole(r) ==
    /\ Doing(r, "set role") /\ Done(r)
    /\ role' = IF \/ role[Target(r)] = NotMember
                  \/ LastAdmin(Target(r)) /\ request[r].role # "admin"
               THEN role ELSE [role EXCEPT ![Target(r)] = request[r].role]
    /\ UNCHANGED <<keys, cut>>

Revoke(rows, ids) ==
    [i \in DOMAIN rows |-> IF i \in ids THEN [rows[i] EXCEPT !.revoked = TRUE]
                                        ELSE rows[i]]

(* RemoveMember: the last admin stays; all keys of the member are revoked. *)
RemoveMember(r) ==
    /\ Doing(r, "remove") /\ Done(r)
    /\ IF role[Target(r)] = NotMember \/ LastAdmin(Target(r))
       THEN UNCHANGED <<role, keys, cut>>
       ELSE /\ role' = [role EXCEPT ![Target(r)] = NotMember]
            /\ keys' = Revoke(keys, KeysOf(Target(r)))
            /\ cut' = cut \cup KeysOf(Target(r))

RotateKeyMintsFirst(r) ==
    /\ Doing(r, "rotate") /\ Done(r)
    /\ Len(keys) < MaxKeys
    /\ LET rows == Append(keys, NewKey(request[r].user)) IN
       keys' = Revoke(rows, {i \in DOMAIN rows : rows[i].user = request[r].user})
    /\ UNCHANGED <<role, cut>>

(* RotateKey: the caller's own keys are revoked, a new one is minted.      *)
RotateKey(r) ==
    /\ Doing(r, "rotate") /\ Done(r)
    /\ Len(keys) < MaxKeys
    /\ keys' = Append(Revoke(keys, KeysOf(request[r].user)), NewKey(request[r].user))
    /\ UNCHANGED <<role, cut>>

(* The transaction fails or the process dies: nothing has happened.        *)
Abandon(r) ==
    /\ request[r] # Idle
    /\ Done(r)
    /\ UNCHANGED <<role, keys, cut>>

Act(r) == AddMember(r) \/ SetMemberRole(r) \/ RemoveMember(r) \/ RotateKey(r)

Next == \E r \in Request :
    \/ \E u, target \in User, kind \in {"add", "set role"}, newRole \in Roles :
          Authorize(r, u, kind, target, newRole)
    \/ \E u, target \in User : Authorize(r, u, "remove", target, "member")
    \/ \E u \in User : Authorize(r, u, "rotate", u, "member")
    \/ Act(r) \/ Abandon(r)

Spec == Init /\ [][Next]_vars

-----------------------------------------------------------------------------
(* A workspace always keeps somebody who can manage it, although the       *)
(* requests that demote or remove admins were authorized on roles that may *)
(* be gone when they act (tenant.go:434-438, ErrLastAdmin).                *)
SomeAdmin == Admins # {}

(* Every member holds a key that works: adding somebody mints one with the *)
(* membership, rotating replaces it in one transaction, and nobody else's  *)
(* requests take it away (AddMemberByEmail, RotateKey).                    *)
MembersCanConnect ==
    \A u \in User : role[u] # NotMember => \E i \in KeysOf(u) : Active(i)

(* Keys held at a removal never work again, also when the member is added  *)
(* back.  (A rotation authorized before the removal and carried out after  *)
(* it mints a key that did not exist yet.)                                 *)
RemovalRevokes == \A i \in cut : ~ Active(i)
=============================================================================
