------------------------------- MODULE Metering -------------------------------
(***************************************************************************)
(* Metered requests of one workspace against the monthly cap of its plan   *)
(* (usage.Service.Allow, called by every MCP tool, by the import endpoint  *)
(* and by the metered command line).  Allow takes the period first, then   *)
(* reads the cap, the count and counts, in three statements with no lock   *)
(* between them; requests run side by side, the plan may change and the    *)
(* month may end at any point.                                             *)
(***************************************************************************)
EXTENDS Integers, FiniteSets

CONSTANTS
    Request,    \* requests served at a time
    Plans,      \* plan ids
    Cap,        \* Cap[p]: monthly_request_cap of plan p, none if <= 0
    Months,     \* bound: calendar months, 1..Months
    MaxCount,   \* bound: requests counted in a month, as far as the model goes
    MaxErrors   \* bound: failed statements in a behaviour

ASSUME CapAssumption == Cap \in [Plans -> Int]
ASSUME BoundsAssumption ==
    Months \in Nat \ {0} /\ MaxCount \in Nat /\ MaxErrors \in Nat
ASSUME RequestAssumption == IsFiniteSet(Request)

VARIABLES
    plan,       \* teams.plan_id
    month,      \* the current month (UTC)
    count,      \* count[m]: usage_counters row of the month
    request,    \* request[r]: the step of Allow and what it has read
    errors,     \* failed statements so far
    ceiling     \* history: ceiling[m]: highest cap the requests of m have read

vars == <<plan, month, count, request, errors, ceiling>>

Idle == [step |-> "idle"]
Allowing == [step : {"cap", "get", "count"}, month : 1..Months, cap : Int]

Unlimited(cap) == cap <= 0
NoCeiling == -1
Lift(c, cap) == IF c = NoCeiling \/ Unlimited(cap) THEN NoCeiling
                ELSE IF cap > c THEN cap ELSE c

(* Types; only a request with a cap is measured against the count.         *)
TypeOK ==
    /\ plan \in Plans
    /\ month \in 1..Months
    /\ count \in [1..Months -> 0..MaxCount]
    /\ request \in [Request -> {Idle} \cup Allowing]
    /\ errors \in 0..MaxErrors
    /\ ceiling \in [1..Months -> Nat \cup {NoCeiling}]
    /\ \A r \in Request : request[r] # Idle =>
          /\ request[r].month <= month
          /\ request[r].step = "get" => ~ Unlimited(request[r].cap)

Init ==
    /\ plan \in Plans
    /\ month = 1
    /\ count = [m \in 1..Months |-> 0]
    /\ request = [r \in Request |-> Idle]
    /\ errors = 0
    /\ ceiling = [m \in 1..Months |-> 0]

-----------------------------------------------------------------------------
At(r, step) == request[r] # Idle /\ request[r].step = step

(* SetTeamPlan, by a billing webhook or the set-plan command.              *)
SetTeamPlan(p) ==
    /\ plan' = p
    /\ UNCHANGED <<month, count, request, errors, ceiling>>

NextMonth ==
    /\ month < Months
    /\ month' = month + 1
    /\ UNCHANGED <<plan, count, request, errors, ceiling>>

(* Allow fixes the period; a request that waits is still of its month.     *)
Begin(r) ==
    /\ request[r] = Idle
    /\ request' = [request EXCEPT ![r] =
                     [step |-> "cap", month |-> month, cap |-> 0]]
    /\ UNCHANGED <<plan, month, count, errors, ceiling>>

(* MonthlyCap; without a cap the count is not looked at.                   *)
ReadCap(r) ==
    /\ At(r, "cap")
    /\ LET cap == Cap[plan] IN
       /\ request' = [request EXCEPT ![r] = [@ EXCEPT !.cap = cap,
                        !.step = IF Unlimited(cap) THEN "count" ELSE "get"]]
       /\ ceiling' = [ceiling EXCEPT ![request[r].month] = Lift(@, cap)]
    /\ UNCHANGED <<plan, month, count, errors>>

GetOfThisMonth(r) ==
    /\ At(r, "get")
    /\ request' = [request EXCEPT ![r] =
          IF count[month] >= request[r].cap THEN Idle
          ELSE [@ EXCEPT !.step = "count"]]
    /\ UNCHANGED <<plan, month, count, errors, ceiling>>

(* get: at the cap the request is refused and not counted.                 *)
Get(r) ==
    /\ At(r, "get")
    /\ request' = [request EXCEPT ![r] =
          IF count[request[r].month] >= request[r].cap THEN Idle
          ELSE [@ EXCEPT !.step = "count"]]
    /\ UNCHANGED <<plan, month, count, errors, ceiling>>

(* increment: one upsert, so no count is lost.                             *)
Count(r) ==
    /\ At(r, "count")
    /\ count[request[r].month] < MaxCount
    /\ count' = [count EXCEPT ![request[r].month] = @ + 1]
    /\ request' = [request EXCEPT ![r] = Idle]
    /\ UNCHANGED <<plan, month, errors, ceiling>>

(* Any of the statements fails: the tool is not run.                       *)
Error(r) ==
    /\ request[r] # Idle
    /\ errors < MaxErrors /\ errors' = errors + 1
    /\ request' = [request EXCEPT ![r] = Idle]
    /\ UNCHANGED <<plan, month, count, ceiling>>

Next == \/ NextMonth
        \/ \E p \in Plans : SetTeamPlan(p)
        \/ \E r \in Request : Begin(r) \/ ReadCap(r) \/ Get(r) \/ Count(r) \/ Error(r)

Spec == Init /\ [][Next]_vars

-----------------------------------------------------------------------------
(* Requests of month m past the check and not counted yet.                 *)
Admitted(m) == {r \in Request : At(r, "count") /\ request[r].month = m}

(* The cap is overshot by less than the requests served side by side: in a *)
(* month whose requests all read a cap, the requests counted and those     *)
(* past the check are at most one less than the highest cap read plus the  *)
(* number of requests at a time; one at a time, the cap is exact.  This    *)
(* holds across plan changes and the turn of the month (usage.go:98-100).  *)
BoundedOvershoot ==
    \A m \in 1..Months : ceiling[m] > 0 =>
        count[m] + Cardinality(Admitted(m))
            <= ceiling[m] - 1 + Cardinality(Request)
=============================================================================
