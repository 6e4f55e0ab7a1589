----------------------------- MODULE SecondFactor -----------------------------
(***************************************************************************)
(* The second factor of one account (tenant/totp.go behind the account     *)
(* page and the code step of the login): a TOTP secret, pending until a    *)
(* code of it is confirmed, and a set of one-time recovery codes.  Each    *)
(* request reads the account and writes in a later statement, so two tabs  *)
(* or a double submit interleave.  The account's owner has every secret    *)
(* and every code the pages have shown, old ones included.                 *)
(***************************************************************************)
EXTENDS Integers

CONSTANTS
    Request,    \* requests served at a time
    SetSize,    \* recovery codes in a set (recoveryCodeCount)
    MaxSecrets, \* bound: secrets minted
    MaxSets     \* bound: sets of recovery codes minted

(* What is assumed of the constants; MC modules assume it of theirs.       *)
Assumptions == {SetSize, MaxSecrets, MaxSets} \subseteq Nat

VARIABLES
    secret,     \* users.totp_secret, by order of minting; NoSecret is ''
    enabled,    \* users.totp_enabled
    codes,      \* totp_recovery_codes not used yet
    minted,     \* secrets minted so far
    sets,       \* sets of codes minted so far
    request,    \* request[r]: what r has read and is about to write
    confirmed,  \* history: secrets a code of which was confirmed
    spent,      \* history: spent[c]: how often code c was accepted
    raced       \* history: a write met another account than its request read

vars == <<secret, enabled, codes, minted, sets, request, confirmed, spent, raced>>

NoSecret == 0
Code == (1..MaxSets) \X (1..SetSize)
NewestSet == {sets} \X (1..SetSize)
Idle == [kind |-> "none"]
Account == [secret : 0..MaxSecrets, enabled : BOOLEAN]
Requests == [kind : {"setup", "enable"}, saw : Account]
            \cup [kind : {"spend"}, code : Code, for : {"login", "disable"}]
            \cup {[kind |-> "disable"]}

TypeOK ==
    /\ secret \in 0..minted /\ enabled \in BOOLEAN /\ codes \subseteq Code
    /\ minted \in 0..MaxSecrets /\ sets \in 0..MaxSets
    /\ request \in [Request -> {Idle} \cup Requests]
    /\ confirmed \subseteq 1..minted
    /\ spent \in [Code -> Nat]
    /\ raced \in BOOLEAN

Init ==
    /\ secret = NoSecret /\ enabled = FALSE /\ codes = {}
    /\ minted = 0 /\ sets = 0
    /\ request = [r \in Request |-> Idle]
    /\ confirmed = {}
    /\ spent = [c \in Code |-> 0]
    /\ raced = FALSE

-----------------------------------------------------------------------------
Doing(r, kind) == request[r].kind = kind
Become(r, next) == request' = [request EXCEPT ![r] = next]
Row == [secret |-> secret, enabled |-> enabled]

BeginSetupAnyway(r) ==
    /\ Doing(r, "none")
    /\ Become(r, [kind |-> "setup", saw |-> Row])
    /\ UNCHANGED <<secret, enabled, codes, minted, sets, confirmed, spent, raced>>

(* postTOTPSetup: nothing happens when the factor is on.                   *)
BeginSetup(r) ==
    /\ Doing(r, "none")
    /\ ~ enabled
    /\ Become(r, [kind |-> "setup", saw |-> Row])
    /\ UNCHANGED <<secret, enabled, codes, minted, sets, confirmed, spent, raced>>

(* BeginTOTPEnrollment: a fresh secret replaces whatever there is.         *)
WriteSecret(r) ==
    /\ Doing(r, "setup") /\ Become(r, Idle)
    /\ minted < MaxSecrets /\ minted' = minted + 1
    /\ secret' = minted + 1
    /\ raced' = (raced \/ request[r].saw # Row)
    /\ UNCHANGED <<enabled, codes, sets, confirmed, spent>>

(* ConfirmTOTP: the code is checked against the secret read, whether the   *)
(* factor is on already or not.                                            *)
BeginConfirm(r) ==
    /\ Doing(r, "none")
    /\ secret # NoSecret
    /\ Become(r, [kind |-> "enable", saw |-> Row])
    /\ UNCHANGED <<secret, enabled, codes, minted, sets, confirmed, spent, raced>>

EnableKeepingCodes(r) ==
    /\ Doing(r, "enable") /\ Become(r, Idle)
    /\ sets < MaxSets /\ sets' = sets + 1
    /\ enabled' = TRUE
    /\ codes' = codes \cup ({sets + 1} \X (1..SetSize))
    /\ confirmed' = confirmed \cup {request[r].saw.secret}
    /\ raced' = (raced \/ request[r].saw # Row)
    /\ UNCHANGED <<secret, minted, spent>>

(* Its transaction: on, and the recovery codes replaced by a new set.      *)
Enable(r) ==
    /\ Doing(r, "enable") /\ Become(r, Idle)
    /\ sets < MaxSets /\ sets' = sets + 1
    /\ enabled' = TRUE
    /\ codes' = {sets + 1} \X (1..SetSize)
    /\ confirmed' = confirmed \cup {request[r].saw.secret}
    /\ raced' = (raced \/ request[r].saw # Row)
    /\ UNCHANGED <<secret, minted, spent>>

(* VerifyTOTPLogin with a recovery code, at login or to disable.           *)
BeginSpend(r, c, for) ==
    /\ Doing(r, "none")
    /\ enabled /\ c[1] <= sets
    /\ Become(r, [kind |-> "spend", code |-> c, for |-> for])
    /\ UNCHANGED <<secret, enabled, codes, minted, sets, confirmed, spent, raced>>

Accept(r) ==
    /\ spent' = [spent EXCEPT ![request[r].code] = @ + 1]
    /\ Become(r, IF request[r].for = "login" THEN Idle ELSE [kind |-> "disable"])

SpendWithoutBurning(r) ==
    /\ Doing(r, "spend")
    /\ IF request[r].code \in codes
       THEN Accept(r) /\ UNCHANGED codes
       ELSE Become(r, Idle) /\ UNCHANGED <<codes, spent>>
    /\ UNCHANGED <<secret, enabled, minted, sets, confirmed, raced>>

(* consumeRecoveryCode: one guarded UPDATE; no row means a wrong code.     *)
Spend(r) ==
    /\ Doing(r, "spend")
    /\ IF request[r].code \in codes
       THEN Accept(r) /\ codes' = codes \ {request[r].code}
       ELSE Become(r, Idle) /\ UNCHANGED <<codes, spent>>
    /\ UNCHANGED <<secret, enabled, minted, sets, confirmed, raced>>

(* VerifyTOTPLogin with a code of the secret, to disable.  (At login such  *)
(* a code changes nothing here.)                                           *)
BeginDisable(r) ==
    /\ Doing(r, "none")
    /\ enabled /\ secret # NoSecret
    /\ Become(r, [kind |-> "disable"])
    /\ UNCHANGED <<secret, enabled, codes, minted, sets, confirmed, spent, raced>>

(* DisableTOTP's transaction.                                              *)
Disable(r) ==
    /\ Doing(r, "disable") /\ Become(r, Idle)
    /\ secret' = NoSecret /\ enabled' = FALSE /\ codes' = {}
    /\ UNCHANGED <<minted, sets, confirmed, spent, raced>>

(* The statement or transaction fails.                                     *)
Fail(r) ==
    /\ ~ Doing(r, "none") /\ Become(r, Idle)
    /\ UNCHANGED <<secret, enabled, codes, minted, sets, confirmed, spent, raced>>

Next == \E r \in Request :
    \/ BeginSetup(r) \/ WriteSecret(r) \/ BeginConfirm(r) \/ Enable(r)
    \/ \E c \in Code, for \in {"login", "disable"} : BeginSpend(r, c, for)
    \/ Spend(r) \/ BeginDisable(r) \/ Disable(r) \/ Fail(r)

Spec == Init /\ [][Next]_vars

-----------------------------------------------------------------------------
(* A recovery code is accepted once, however many requests present it at   *)
(* the same time, at the login or to disable, and also after the factor    *)
(* was set up again (totp.go:197-201).                                     *)
SpentOnce == \A c \in Code : spent[c] <= 1

(* With the factor on, the codes that work are those of the newest set     *)
(* less the ones accepted; with the factor off, none (ConfirmTOTP,         *)
(* "exactly this freshly shown set is valid", and DisableTOTP).            *)
CodesAccounted ==
    codes = IF enabled THEN {c \in NewestSet : spent[c] = 0} ELSE {}

(* The login demands codes of a secret only after one was confirmed, so    *)
(* that nobody is locked out by an authenticator never seeded, as long as  *)
(* no two requests change the account across each other (totp.go:113-116). *)
SeededUnlessRaced ==
    ~ raced => (enabled => secret \in confirmed)
=============================================================================
