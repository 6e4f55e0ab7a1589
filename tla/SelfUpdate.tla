------------------------------ MODULE SelfUpdate -------------------------------
(***************************************************************************)
(* The update command of the client (clients/claude-code/update.go): the   *)
(* running binary is replaced by a release, by way of a file staged beside *)
(* it.  Updates may run side by side, be killed anywhere and be given an   *)
(* asset that is cut short or built for another machine.                   *)
(***************************************************************************)
EXTENDS Naturals

CONSTANTS Updater, Tag, MaxUpdates, None

VARIABLES target,    \* the binary in place: its tag and whether it is whole
          staged,    \* updater -> the file it staged
          step,      \* updater -> what it does next
          wanted,    \* updater -> the tag it installs
          latest,    \* the newest release
          updates,
          stray      \* staged files a kill left behind

vars == <<target, staged, step, wanted, latest, updates, stray>>

File(t, w) == [tag |-> t, whole |-> w]

Init ==
    /\ latest \in Tag
    /\ target = File("dev", TRUE)
    /\ staged = [u \in Updater |-> None] /\ step = [u \in Updater |-> "idle"]
    /\ wanted = [u \in Updater |-> None] /\ updates = 0 /\ stray = {}

(* The tag is pinned or asked for, and left alone when it is the one       *)
(* stamped into the binary that runs: that may be another than the one in  *)
(* place now, which was replaced meanwhile or is named by --bin.           *)
Resolve(u, pin, running) ==
    LET t == IF pin = None THEN latest ELSE pin IN
    /\ step[u] = "idle" /\ updates < MaxUpdates
    /\ updates' = updates + 1
    /\ IF t = running
         THEN UNCHANGED <<step, wanted>>
         ELSE step' = [step EXCEPT ![u] = "download"] /\ wanted' = [wanted EXCEPT ![u] = t]
    /\ UNCHANGED <<target, staged, latest, stray>>

(* Each download has a temporary name of its own.                          *)
DownloadBinary(u, whole) ==
    /\ step[u] = "download"
    /\ staged' = [staged EXCEPT ![u] = File(wanted[u], whole)]
    /\ step' = [step EXCEPT ![u] = "verify"]
    /\ UNCHANGED <<target, wanted, latest, updates, stray>>

Exists(f) == f # None
Runs(f) == f.whole
VerifyBinary(u) ==
    /\ step[u] = "verify"
    /\ IF Runs(staged[u])
         THEN step' = [step EXCEPT ![u] = "replace"] /\ UNCHANGED staged
         ELSE /\ step' = [step EXCEPT ![u] = "idle"]
              /\ staged' = [staged EXCEPT ![u] = None]
    /\ UNCHANGED <<target, wanted, latest, updates, stray>>

ReplaceBinary(u) ==
    /\ step[u] = "replace"
    /\ target' = staged[u]
    /\ staged' = [staged EXCEPT ![u] = None]
    /\ step' = [step EXCEPT ![u] = "idle"]
    /\ UNCHANGED <<wanted, latest, updates, stray>>

(* An error removes the staged file, a kill leaves it.                     *)
GiveUp(u) ==
    /\ step[u] # "idle"
    /\ step' = [step EXCEPT ![u] = "idle"]
    /\ staged' = [staged EXCEPT ![u] = None]
    /\ UNCHANGED <<target, wanted, latest, updates, stray>>

Kill(u) ==
    /\ step[u] # "idle"
    /\ step' = [step EXCEPT ![u] = "idle"]
    /\ staged' = [staged EXCEPT ![u] = None]
    /\ stray' = IF staged[u] = None THEN stray ELSE stray \cup {staged[u]}
    /\ UNCHANGED <<target, wanted, latest, updates>>

Release(t) ==
    /\ latest # t /\ latest' = t
    /\ UNCHANGED <<target, staged, step, wanted, updates, stray>>

Next ==
    \/ \E u \in Updater :
         \/ \E pin \in Tag \cup {None}, running \in Tag \cup {"dev"} : Resolve(u, pin, running)
         \/ \E whole \in BOOLEAN : DownloadBinary(u, whole)
         \/ VerifyBinary(u) \/ ReplaceBinary(u) \/ GiveUp(u) \/ Kill(u)
    \/ \E t \in Tag : Release(t)

Spec == Init /\ [][Next]_vars

TypeOK ==
    /\ target \in [tag : Tag \cup {"dev"}, whole : BOOLEAN]
    /\ \A u \in Updater : step[u] \in {"idle", "download", "verify", "replace"}
    /\ updates \in 0..MaxUpdates

(* The binary in place always runs, whatever was downloaded and wherever   *)
(* an update stopped, and an update that was not carried through has not   *)
(* changed it (update.go:70-73, 277-280).                                  *)
BinaryAlwaysRuns == target.whole

=============================================================================
