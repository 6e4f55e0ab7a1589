----------------------------- MODULE EmbedWorker -----------------------------
(***************************************************************************)
(* The background embed worker: one goroutine that serves the embedding    *)
(* queues of all workspaces in rounds (embedworker.Worker.Run).  A round   *)
(* lists the teams with pending rows and gives each of them one batch of   *)
(* drawers and one of closets; a round that indexed nothing sleeps.        *)
(*                                                                         *)
(* Here a queue is its length and a batch is one step; what happens inside *)
(* a batch, row by row and store by store, is DrawerStore's.  The two      *)
(* lengths of sleep (idle and backoff) are one: a timer fires eventually.  *)
(***************************************************************************)
EXTENDS Integers, FiniteSets

CONSTANTS
    Team,       \* workspaces
    Batch,      \* rows of a kind embedded per turn
    Broken,     \* teams the embedder refuses: their oldest drawers always fail
    MaxRows,    \* bound: rows of a kind pending in one team
    MaxAbsorbs, \* bound: imports in a behaviour
    MaxFaults   \* bound: transient failures and restarts in a behaviour

NoTeam == "no team"

ASSUME TeamAssumption == IsFiniteSet(Team) /\ NoTeam \notin Team /\ Broken \subseteq Team
ASSUME BoundsAssumption == /\ Batch \in Nat \ {0} /\ MaxRows \in Nat
                           /\ MaxAbsorbs \in Nat /\ MaxFaults \in Nat

VARIABLES
    drawers,    \* drawers[t]: drawers of team t awaiting embedding
    closets,    \* closets[t]: closets of team t awaiting embedding
    phase,      \* what Run does next
    first,      \* teams with drawers still to be served in this round
    rest,       \* teams listed for their closets alone, served after them
    turn,       \* team in the middle of its turn, or NoTeam
    did,        \* whether the round has indexed anything
    absorbs,    \* imports so far
    faults,     \* failures and restarts so far
    overtaken   \* history: turns others took while team t was waiting

vars == <<drawers, closets, phase, first, rest, turn, did, absorbs, faults, overtaken>>

LeastOf(a, b) == IF a <= b THEN a ELSE b

Waiting(t) == drawers[t] + closets[t] > 0

(* Types; a turn is in progress exactly between its two batches.           *)
TypeOK ==
    /\ drawers \in [Team -> 0..MaxRows] /\ closets \in [Team -> 0..MaxRows]
    /\ phase \in {"list", "round", "closets", "sleep"}
    /\ first \subseteq Team /\ rest \subseteq Team \ first
    /\ turn \in Team \cup {NoTeam} /\ (turn = NoTeam <=> phase # "closets")
    /\ did \in BOOLEAN
    /\ absorbs \in 0..MaxAbsorbs /\ faults \in 0..MaxFaults
    /\ overtaken \in [Team -> Nat]

Init ==
    /\ drawers = [t \in Team |-> 0] /\ closets = [t \in Team |-> 0]
    /\ phase = "list" /\ first = {} /\ rest = {} /\ turn = NoTeam /\ did = FALSE
    /\ absorbs = 0 /\ faults = 0
    /\ overtaken = [t \in Team |-> 0]

-----------------------------------------------------------------------------
(* An import files rows whose vectors are still to be built.               *)
Absorb(t, d, c) ==
    /\ absorbs < MaxAbsorbs
    /\ d + c > 0 /\ drawers[t] + d <= MaxRows /\ closets[t] + c <= MaxRows
    /\ absorbs' = absorbs + 1
    /\ drawers' = [drawers EXCEPT ![t] = @ + d]
    /\ closets' = [closets EXCEPT ![t] = @ + c]
    /\ UNCHANGED <<phase, first, rest, turn, did, faults, overtaken>>

ListTeamsTwice ==
    /\ phase = "list"
    /\ first' = {t \in Team : drawers[t] > 0}
    /\ rest' = {t \in Team : closets[t] > 0}
    /\ phase' = IF first' \cup rest' = {} THEN "sleep" ELSE "round"
    /\ did' = FALSE
    /\ UNCHANGED <<drawers, closets, turn, absorbs, faults, overtaken>>

(* TeamsWithPending, unbounded, in any order within each kind.             *)
ListTeams ==
    /\ phase = "list"
    /\ first' = {t \in Team : drawers[t] > 0}
    /\ rest' = {t \in Team : closets[t] > 0} \ first'
    /\ phase' = IF first' \cup rest' = {} THEN "sleep" ELSE "round"
    /\ did' = FALSE
    /\ UNCHANGED <<drawers, closets, turn, absorbs, faults, overtaken>>

Next1(t) == t \in first \/ (first = {} /\ t \in rest)

Served(t) ==
    /\ first' = first \ {t} /\ rest' = rest \ {t}
    /\ overtaken' = [u \in Team |-> IF u = t \/ ~ Waiting(u) THEN 0
                                    ELSE overtaken[u] + 1]

EmbedDrawersUntilDrained(t) ==
    /\ phase = "round" /\ Next1(t)
    /\ t \in Broken => drawers[t] = 0
    /\ drawers' = [drawers EXCEPT ![t] = @ - LeastOf(@, Batch)]
    /\ did' = (did \/ drawers[t] > 0)
    /\ IF drawers[t] > Batch
       THEN /\ overtaken' = [u \in Team |-> IF u = t \/ ~ Waiting(u) THEN 0
                                            ELSE overtaken[u] + 1]
            /\ UNCHANGED <<first, rest, phase, turn>>
       ELSE Served(t) /\ phase' = "closets" /\ turn' = t
    /\ UNCHANGED <<closets, absorbs, faults>>

(* embedPendingDrawers succeeds, a team without pending drawers trivially. *)
EmbedDrawers(t) ==
    /\ phase = "round" /\ Next1(t)
    /\ t \in Broken => drawers[t] = 0
    /\ drawers' = [drawers EXCEPT ![t] = @ - LeastOf(@, Batch)]
    /\ did' = (did \/ drawers[t] > 0)
    /\ Served(t)
    /\ phase' = "closets" /\ turn' = t
    /\ UNCHANGED <<closets, absorbs, faults>>

DrawersFailEndsRound(t) ==
    /\ phase = "round" /\ Next1(t)
    /\ drawers[t] > 0
    /\ \/ t \in Broken /\ UNCHANGED faults
       \/ faults < MaxFaults /\ faults' = faults + 1
    /\ first' = {} /\ rest' = {}
    /\ UNCHANGED <<drawers, closets, phase, turn, did, absorbs, overtaken>>

(* It fails, for good or for now: the team's closets lose their turn too,  *)
(* the round moves on to the next team.                                    *)
DrawersFail(t) ==
    /\ phase = "round" /\ Next1(t)
    /\ drawers[t] > 0
    /\ \/ t \in Broken /\ UNCHANGED faults
       \/ faults < MaxFaults /\ faults' = faults + 1
    /\ Served(t)
    /\ UNCHANGED <<drawers, closets, phase, turn, did, absorbs>>

EmbedClosets ==
    /\ phase = "closets"
    /\ closets' = [closets EXCEPT ![turn] = @ - LeastOf(@, Batch)]
    /\ did' = (did \/ closets[turn] > 0)
    /\ phase' = "round" /\ turn' = NoTeam
    /\ UNCHANGED <<drawers, first, rest, absorbs, faults, overtaken>>

ClosetsFail ==
    /\ phase = "closets"
    /\ faults < MaxFaults /\ faults' = faults + 1
    /\ phase' = "round" /\ turn' = NoTeam
    /\ UNCHANGED <<drawers, closets, first, rest, did, absorbs, overtaken>>

EndRound ==
    /\ phase = "round" /\ first \cup rest = {}
    /\ phase' = IF did THEN "list" ELSE "sleep"
    /\ UNCHANGED <<drawers, closets, first, rest, turn, did, absorbs, faults, overtaken>>

Wake ==
    /\ phase = "sleep"
    /\ phase' = "list"
    /\ UNCHANGED <<drawers, closets, first, rest, turn, did, absorbs, faults, overtaken>>

(* Listing the teams fails: back off and list again.                       *)
ListFails ==
    /\ phase = "list"
    /\ faults < MaxFaults /\ faults' = faults + 1
    /\ phase' = "sleep"
    /\ UNCHANGED <<drawers, closets, first, rest, turn, did, absorbs, overtaken>>

(* The server stops at any point and is started again: the queues are      *)
(* rows, the round is not.                                                 *)
Restart ==
    /\ faults < MaxFaults /\ faults' = faults + 1
    /\ phase' = "list" /\ first' = {} /\ rest' = {} /\ turn' = NoTeam
    /\ UNCHANGED <<drawers, closets, did, absorbs, overtaken>>

Run == \/ ListTeams
       \/ \E t \in Team : EmbedDrawers(t) \/ DrawersFail(t)
       \/ EmbedClosets \/ EndRound \/ Wake

Next == \/ \E t \in Team, d, c \in 0..MaxRows : Absorb(t, d, c)
        \/ Run
        \/ ClosetsFail \/ ListFails \/ Restart

Spec == Init /\ [][Next]_vars

(* The goroutine runs for the life of the process.                         *)
FairSpec == Spec /\ WF_vars(Run)

-----------------------------------------------------------------------------
(* Round-robin: a waiting team is overtaken at most once by each other     *)
(* team in the round under way and once in its own, whatever the size of   *)
(* the other queues; a failure or restart may cost it one more round       *)
(* (worker.go:34-35 "one large migration cannot starve another's").        *)
BoundedOvertaking ==
    \A t \in Team : overtaken[t] <= (2 + faults) * (Cardinality(Team) - 1)

(* A team the embedder serves gets all its rows indexed, even next to      *)
(* teams whose rows fail forever (worker.go:104-106).                      *)
HealthyTeamDrains ==
    \A t \in Team \ Broken : Waiting(t) ~> ~ Waiting(t)
=============================================================================
