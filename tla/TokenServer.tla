----------------------------- MODULE TokenServer -----------------------------
(***************************************************************************)
(* The OAuth endpoints and the gate in front of /mcp (oauth.AuthServer),   *)
(* over the keys and roles of a Workspace.  Codes and tokens are sealed    *)
(* claims the server does not store; the one thing it remembers is which   *)
(* codes were redeemed, until they expire, in memory.  A token request     *)
(* opens the sealed claims, asks the database for the key and issues, each *)
(* at its own reading of the clock.                                        *)
(*                                                                         *)
(* Clients present what they were given: the sealing, the PKCE verifier,   *)
(* the redirect and the key's secret match.                                *)
(***************************************************************************)
EXTENDS Integers, Sequences, FiniteSets

CONSTANTS
    Roles,      \* roles of a member
    NotMember,  \* role of an account without a membership row
    Exchange,   \* requests to /token served at a time
    CodeTTL, AccessTTL, RefreshTTL,
    MaxTime,    \* bound: the clock
    MaxCodes,   \* bound: codes issued
    MaxRestarts \* bound: restarts of the server

VARIABLES
    role, keys, \* the workspace's memberships and API keys
    time,       \* the clock
    codes,      \* authorization codes issued: the key and the expiry
    seen,       \* replayGuard.seen: ids of redeemed codes
    tokens,     \* access and refresh tokens issued and not expired
    exchange,   \* exchange[x]: a request to /token
    gate,       \* the call at the gate, and whether its key was dead on arrival
    restarts,   \* restarts so far
    redeemed    \* history: times each code was redeemed since it was issued

vars == <<role, keys, time, codes, seen, tokens, exchange, gate, restarts, redeemed>>
database == <<role, keys>>

Key == DOMAIN keys
Codes == DOMAIN codes
Open(exp) == time <= exp        \* openPayload rejects now > Exp
Live(k) == ~ keys[k].revoked
(* tenantFromKey: a key without a membership row is a member's, and so is  *)
(* one whose membership could not be read.                                 *)
RoleOf(k) == IF role[keys[k].user] = NotMember THEN "member" ELSE role[keys[k].user]
RoleRead(k) == {RoleOf(k), "member"}

Access(k, r, exp) == [kind |-> "access", key |-> k, role |-> r, exp |-> exp]
Refresh(k, exp) == [kind |-> "refresh", key |-> k, exp |-> exp]
Idle == [step |-> "idle"]
Exchanging == [step : {"validate", "issue"}, code : 0..MaxCodes, key : Key,
               role : Roles]
NoCall == [step |-> "idle"]
Calling == [step : {"key", "role", "in"}, key : Key, role : Roles, dead : BOOLEAN]

TypeOK ==
    /\ time \in 1..MaxTime /\ restarts \in 0..MaxRestarts
    /\ \A c \in Codes : codes[c].key \in Key /\ codes[c].exp \in Nat
    /\ Len(codes) <= MaxCodes
    /\ seen \subseteq Codes
    /\ \A t \in tokens : t.key \in Key /\ Open(t.exp)
    /\ exchange \in [Exchange -> {Idle} \cup Exchanging]
    /\ gate \in {NoCall} \cup Calling
    /\ redeemed \in [Codes -> Nat]

Init ==
    /\ time = 1 /\ restarts = 0
    /\ codes = <<>> /\ seen = {} /\ redeemed = <<>>
    /\ tokens = {}
    /\ exchange = [x \in Exchange |-> Idle]
    /\ gate = NoCall

-----------------------------------------------------------------------------
Tick ==
    /\ time < MaxTime
    /\ time' = time + 1
    /\ tokens' = {t \in tokens : t.exp >= time'}
    /\ UNCHANGED <<database, codes, seen, exchange, restarts, redeemed, gate>>

(* /authorize: ClientByKey, no secret yet.                                 *)
Authorize(k) ==
    /\ Live(k)
    /\ Len(codes) < MaxCodes
    /\ codes' = Append(codes, [key |-> k, exp |-> time + CodeTTL])
    /\ redeemed' = Append(redeemed, 0)
    /\ UNCHANGED <<database, time, seen, tokens, exchange, restarts, gate>>

Present(x, code, k) ==
    /\ exchange[x] = Idle
    /\ exchange' = [exchange EXCEPT ![x] =
           [step |-> "validate", code |-> code, key |-> k, role |-> "member"]]
    /\ UNCHANGED <<database, time, codes, seen, tokens, restarts, redeemed, gate>>

(* /token: tokenAuthCode opens a code, tokenRefresh a refresh token, which *)
(* may be used again and again.                                            *)
PresentCode(x, c) == Open(codes[c].exp) /\ Present(x, c, codes[c].key)
PresentRefresh(x, t) == t.kind = "refresh" /\ Open(t.exp) /\ Present(x, 0, t.key)

(* ValidateClient: a revoked key is an invalid client, and so is one that  *)
(* cannot be read.                                                         *)
Validate(x) ==
    /\ exchange[x] # Idle /\ exchange[x].step = "validate"
    /\ LET k == exchange[x].key IN
       \/ exchange' = [exchange EXCEPT ![x] = Idle]
       \/ /\ Live(k)
          /\ \E r \in RoleRead(k) :
                exchange' = [exchange EXCEPT ![x] = [@ EXCEPT !.step = "issue", !.role = r]]
    /\ UNCHANGED <<database, time, codes, seen, tokens, restarts, redeemed, gate>>

Issue(x) ==
    /\ tokens' = tokens \cup
          {Access(exchange[x].key, exchange[x].role, time + AccessTTL),
           Refresh(exchange[x].key, time + RefreshTTL)}
    /\ exchange' = [exchange EXCEPT ![x] = Idle]

IssuesNow(x) == exchange[x] # Idle /\ exchange[x].step = "issue"

(* issueTokens of a refresh.                                               *)
IssueRefreshed(x) ==
    /\ IssuesNow(x) /\ exchange[x].code = 0
    /\ Issue(x)
    /\ UNCHANGED <<database, time, codes, seen, restarts, redeemed, gate>>

RedeemForgetsAtExpiry(x) ==
    /\ IssuesNow(x) /\ exchange[x].code # 0
    /\ LET c == exchange[x].code
           left == {d \in seen : codes[d].exp > time}
       IN IF c \in left
          THEN /\ exchange' = [exchange EXCEPT ![x] = Idle]
               /\ seen' = left /\ UNCHANGED <<tokens, redeemed>>
          ELSE /\ Issue(x)
               /\ seen' = left \cup {c}
               /\ redeemed' = [redeemed EXCEPT ![c] = @ + 1]
    /\ UNCHANGED <<database, time, codes, restarts, gate>>

RedeemUnmarked(x) ==
    /\ IssuesNow(x) /\ exchange[x].code # 0
    /\ Issue(x)
    /\ seen' = {d \in seen : codes[d].exp >= time}
    /\ redeemed' = [redeemed EXCEPT ![exchange[x].code] = @ + 1]
    /\ UNCHANGED <<database, time, codes, restarts, gate>>

(* useOnce drops the ids of expired codes, then rejects a code it has      *)
(* seen; the first to redeem it gets the tokens.                           *)
Redeem(x) ==
    /\ IssuesNow(x) /\ exchange[x].code # 0
    /\ LET c == exchange[x].code
           left == {d \in seen : codes[d].exp >= time}
       IN IF c \in left
          THEN /\ exchange' = [exchange EXCEPT ![x] = Idle]
               /\ seen' = left /\ UNCHANGED <<tokens, redeemed>>
          ELSE /\ Issue(x)
               /\ seen' = left \cup {c}
               /\ redeemed' = [redeemed EXCEPT ![c] = @ + 1]
    /\ UNCHANGED <<database, time, codes, restarts, gate>>

(* The gate opens an access token (ResolveBearer) or takes a key's own one *)
(* (ResolveToken); what an access token says of the role is not used.      *)
Arrive(k, r) ==
    /\ gate.step \in {"idle", "in"}
    /\ gate' = [step |-> "key", key |-> k, role |-> r, dead |-> ~ Live(k)]
    /\ UNCHANGED <<database, time, codes, seen, tokens, exchange, restarts, redeemed>>

CallWithToken(t) == t.kind = "access" /\ Open(t.exp) /\ Arrive(t.key, t.role)
CallWithKey(k) == Arrive(k, "member")

FindKeyAsSealed ==
    /\ gate.step = "key"
    /\ gate' = [gate EXCEPT !.step = "in"]
    /\ UNCHANGED <<database, time, codes, seen, tokens, exchange, restarts, redeemed>>

(* ClientByKey, ResolveToken: a revoked key is refused, and so is one that *)
(* cannot be read.                                                         *)
FindKey ==
    /\ gate.step = "key"
    /\ \/ gate' = NoCall
       \/ Live(gate.key) /\ gate' = [gate EXCEPT !.step = "role"]
    /\ UNCHANGED <<database, time, codes, seen, tokens, exchange, restarts, redeemed>>

(* tenantFromKey reads the membership in a query of its own, and lets the  *)
(* caller in as a plain member when that fails.                            *)
FindRole ==
    /\ gate.step = "role"
    /\ \E r \in RoleRead(gate.key) : gate' = [gate EXCEPT !.step = "in", !.role = r]
    /\ UNCHANGED <<database, time, codes, seen, tokens, exchange, restarts, redeemed>>

(* Sealed claims survive a restart, the replay guard does not.             *)
Restart ==
    /\ restarts < MaxRestarts /\ restarts' = restarts + 1
    /\ seen' = {}
    /\ exchange' = [x \in Exchange |-> Idle]
    /\ gate' = NoCall
    /\ UNCHANGED <<database, time, codes, tokens, redeemed>>

Next ==
    \/ Tick
    \/ \E k \in Key : Authorize(k) \/ CallWithKey(k)
    \/ \E x \in Exchange :
          \/ \E c \in Codes : PresentCode(x, c)
          \/ \E t \in tokens : PresentRefresh(x, t)
          \/ Validate(x) \/ IssueRefreshed(x) \/ Redeem(x)
    \/ \E t \in tokens : CallWithToken(t)
    \/ FindKey \/ FindRole
    \/ Restart

-----------------------------------------------------------------------------
(* The first exchange of a code wins (server.go:225-228): in one life of   *)
(* the server, exchanges of the same code run side by side, retried or     *)
(* late give tokens once while the code lasts.  The guard reads the clock  *)
(* after the code was opened and may by then have dropped its mark, so the *)
(* claim ends with the code.                                               *)
RedeemedOnce ==
    \A c \in Codes : time <= codes[c].exp => redeemed[c] <= 1 + restarts

(* Nobody is let in with a key that was revoked before the call came, and  *)
(* whoever is let in as more than a plain member has that role by the      *)
(* membership at that moment, whatever was sealed into the token when it   *)
(* was issued or refreshed (server.go:281-290).  A membership that cannot  *)
(* be read makes a caller a member, never more (tenant.go:303-314).        *)
AdmittedAsNow ==
    [][gate # gate' /\ gate'.step = "in" =>
          ~ gate'.dead /\ gate'.role \in RoleRead(gate'.key)]_vars
=============================================================================
