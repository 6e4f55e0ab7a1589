------------------------------- MODULE Billing -------------------------------
(***************************************************************************)
(* The paid plan of a workspace follows its Stripe subscription through    *)
(* webhooks (billing.Service.HandleWebhook).  An event changes two rows in *)
(* two statements: teams.plan_id, which metering reads, and the one        *)
(* subscriptions row of the team, which attributes later events.           *)
(*                                                                         *)
(* Stripe is external: it emits an event when a checkout completes and one *)
(* when a subscription ends, delivers an event again until it is answered  *)
(* with success, and may deliver it again even then.  Signatures are       *)
(* checked before anything else; events here have passed.                  *)
(***************************************************************************)
EXTENDS Integers, Sequences, FiniteSets

CONSTANTS
    Team,
    Sub,        \* Stripe subscriptions
    TeamOf,     \* TeamOf[s]: the workspace whose checkout started s
    PlanOf,     \* PlanOf[s]: the plan it buys
    Free,       \* tenant.FreePlanID
    Handler,    \* webhook requests served at a time
    InOrder,    \* whether a team's events are first delivered one after another
    GuardErrs,  \* whether the guard's read may fail on a repeated event too
    OldRepeats, \* whether events of superseded subscriptions are repeated
    MaxRepeats, \* bound: deliveries of events already answered
    MaxFaults   \* bound: handlers that fail

NoSub == "no subscription"

(* What is assumed of the constants; MC modules assume it of theirs.       *)
Assumptions ==
    /\ NoSub \notin Sub
    /\ TeamOf \in [Sub -> Team] /\ \A s \in Sub : PlanOf[s] # Free
    /\ {InOrder, GuardErrs, OldRepeats} \subseteq BOOLEAN
    /\ MaxRepeats \in Nat /\ MaxFaults \in Nat

VARIABLES
    stripe,     \* stripe[s]: "none", "active" or "ended"
    owed,       \* owed[t]: events of team t not answered yet, oldest first
    answered,   \* events answered with success at least once
    plan,       \* plan[t]: teams.plan_id
    row,        \* row[t]: the subscriptions row, NoRow before the first
    handler,    \* handler[h]: the event being handled, the step, the row read
    latest,     \* history: the team's last checkout
    repeats, faults

vars == <<stripe, owed, answered, plan, row, handler, latest, repeats, faults>>

Plans == {Free} \cup {PlanOf[s] : s \in Sub}
Activated(s) == [kind |-> "activated", sub |-> s]
Canceled(s) == [kind |-> "canceled", sub |-> s]
Events == [kind : {"activated", "canceled"}, sub : Sub]
NoRow == [status |-> "none"]
Row == [sub : Sub, plan : Plans, status : {"active", "canceled"}]
Idle == [step |-> "idle"]
Handling == [step : {"guard", "lookup", "plan", "upsert"}, event : Events,
             row : {NoRow} \cup Row]

InList(e, list) == \E i \in DOMAIN list : list[i] = e
Without(list, e) ==
    IF ~ InList(e, list) THEN list
    ELSE LET at == CHOOSE i \in DOMAIN list : list[i] = e IN
         [i \in 1 .. Len(list) - 1 |-> IF i < at THEN list[i] ELSE list[i + 1]]

(* Types; a cancellation is carried out on the row it was attributed to.   *)
TypeOK ==
    /\ stripe \in [Sub -> {"none", "active", "ended"}]
    /\ \A t \in Team : \A i \in DOMAIN owed[t] : owed[t][i] \in Events
    /\ answered \subseteq Events
    /\ plan \in [Team -> Plans]
    /\ row \in [Team -> {NoRow} \cup Row]
    /\ handler \in [Handler -> {Idle} \cup Handling]
    /\ latest \in [Team -> Sub \cup {NoSub}]
    /\ repeats \in 0..MaxRepeats /\ faults \in 0..MaxFaults
    /\ \A h \in Handler :
          handler[h] # Idle /\ handler[h].step \in {"plan", "upsert"} =>
             (handler[h].event.kind = "canceled" =>
                handler[h].row # NoRow /\ handler[h].row.sub = handler[h].event.sub)

Init ==
    /\ stripe = [s \in Sub |-> "none"]
    /\ owed = [t \in Team |-> <<>>] /\ answered = {}
    /\ plan = [t \in Team |-> Free]
    /\ row = [t \in Team |-> NoRow]
    /\ handler = [h \in Handler |-> Idle]
    /\ latest = [t \in Team |-> NoSub]
    /\ repeats = 0 /\ faults = 0

local == <<plan, row, handler>>
-----------------------------------------------------------------------------
(* Stripe.                                                                 *)
Emit(e) == owed' = [owed EXCEPT ![TeamOf[e.sub]] = Append(@, e)]

Checkout(s) ==
    /\ stripe[s] = "none"
    /\ stripe' = [stripe EXCEPT ![s] = "active"]
    /\ latest' = [latest EXCEPT ![TeamOf[s]] = s]
    /\ Emit(Activated(s))
    /\ UNCHANGED <<local, answered, repeats, faults>>

End(s) ==
    /\ stripe[s] = "active"
    /\ stripe' = [stripe EXCEPT ![s] = "ended"]
    /\ Emit(Canceled(s))
    /\ UNCHANGED <<local, answered, latest, repeats, faults>>

Receive(h, e) ==
    handler' = [handler EXCEPT ![h] =
        [step |-> IF e.kind = "activated" THEN "guard" ELSE "lookup",
         event |-> e, row |-> NoRow]]

Deliver(h, e) ==
    /\ handler[h] = Idle
    /\ LET list == owed[TeamOf[e.sub]] IN
       IF InOrder THEN list # <<>> /\ Head(list) = e ELSE InList(e, list)
    /\ \A g \in Handler : handler[g] # Idle => handler[g].event # e
    /\ Receive(h, e)
    /\ UNCHANGED <<stripe, owed, answered, plan, row, latest, repeats, faults>>

Repeat(h, e) ==
    /\ handler[h] = Idle
    /\ e \in answered
    /\ OldRepeats \/ latest[TeamOf[e.sub]] = e.sub
    /\ repeats < MaxRepeats /\ repeats' = repeats + 1
    /\ Receive(h, e)
    /\ UNCHANGED <<stripe, owed, answered, plan, row, latest, faults>>

-----------------------------------------------------------------------------
(* HandleWebhook.                                                          *)
At(h, step) == handler[h] # Idle /\ handler[h].step = step
Event(h) == handler[h].event
SubOf(h) == Event(h).sub

(* A success is answered and settles the event.                            *)
Succeed(h) ==
    /\ handler' = [handler EXCEPT ![h] = Idle]
    /\ owed' = [owed EXCEPT ![TeamOf[SubOf(h)]] = Without(@, Event(h))]
    /\ answered' = answered \cup {Event(h)}

ToPlan(h, r) == handler' = [handler EXCEPT ![h].step = "plan", ![h].row = r]

UnguardedActivation(h) ==
    /\ At(h, "guard")
    /\ ToPlan(h, NoRow) /\ UNCHANGED <<owed, answered>>
    /\ UNCHANGED <<stripe, plan, row, latest, repeats, faults>>

(* applyActivated: a subscription recorded as canceled is not revived.     *)
Guard(h) ==
    /\ At(h, "guard")
    /\ LET r == row[TeamOf[SubOf(h)]] IN
       IF r # NoRow /\ r.sub = SubOf(h) /\ r.status = "canceled"
       THEN Succeed(h)
       ELSE ToPlan(h, NoRow) /\ UNCHANGED <<owed, answered>>
    /\ UNCHANGED <<stripe, plan, row, latest, repeats, faults>>

(* An error of that read is not looked at: the activation goes on.         *)
GuardFails(h) ==
    /\ At(h, "guard")
    /\ GuardErrs \/ Event(h) \notin answered
    /\ faults < MaxFaults /\ faults' = faults + 1
    /\ ToPlan(h, NoRow)
    /\ UNCHANGED <<stripe, owed, answered, plan, row, latest, repeats>>

LookupByTeam(h) ==
    /\ At(h, "lookup")
    /\ LET r == row[TeamOf[SubOf(h)]] IN
       IF r # NoRow THEN ToPlan(h, r) /\ UNCHANGED <<owed, answered>>
       ELSE Succeed(h)
    /\ UNCHANGED <<stripe, plan, row, latest, repeats, faults>>

(* applyCanceled: ByStripeSubID finds the row that records the             *)
(* subscription; one that is not recorded is nothing of ours.              *)
Lookup(h) ==
    /\ At(h, "lookup")
    /\ LET r == row[TeamOf[SubOf(h)]] IN
       IF r # NoRow /\ r.sub = SubOf(h)
       THEN ToPlan(h, r) /\ UNCHANGED <<owed, answered>>
       ELSE Succeed(h)
    /\ UNCHANGED <<stripe, plan, row, latest, repeats, faults>>

NewPlan(h) == IF Event(h).kind = "activated" THEN PlanOf[SubOf(h)] ELSE Free

SetTeamPlan(h) ==
    /\ At(h, "plan")
    /\ plan' = [plan EXCEPT ![TeamOf[SubOf(h)]] = NewPlan(h)]
    /\ handler' = [handler EXCEPT ![h].step = "upsert"]
    /\ UNCHANGED <<stripe, owed, answered, row, latest, repeats, faults>>

UpsertStatusOnly(h) ==
    /\ At(h, "upsert")
    /\ row' = [row EXCEPT ![TeamOf[SubOf(h)]] =
          IF Event(h).kind = "activated"
          THEN [sub |-> SubOf(h), plan |-> NewPlan(h), status |-> "active"]
          ELSE [handler[h].row EXCEPT !.status = "canceled"]]
    /\ Succeed(h)
    /\ UNCHANGED <<stripe, plan, latest, repeats, faults>>

(* Repo.Upsert replaces the team's row: with the event's subscription, or  *)
(* with the row read at Lookup, now canceled and on the free plan.         *)
Upsert(h) ==
    /\ At(h, "upsert")
    /\ row' = [row EXCEPT ![TeamOf[SubOf(h)]] =
          IF Event(h).kind = "activated"
          THEN [sub |-> SubOf(h), plan |-> NewPlan(h), status |-> "active"]
          ELSE [handler[h].row EXCEPT !.plan = Free, !.status = "canceled"]]
    /\ Succeed(h)
    /\ UNCHANGED <<stripe, plan, latest, repeats, faults>>

FailAnswersOK(h) ==
    /\ handler[h] # Idle
    /\ faults < MaxFaults /\ faults' = faults + 1
    /\ Succeed(h)
    /\ UNCHANGED <<stripe, plan, row, latest, repeats>>

(* Any other query fails or the server dies: no success is answered, and   *)
(* what was written stays written.                                         *)
Fail(h) ==
    /\ handler[h] # Idle
    /\ faults < MaxFaults /\ faults' = faults + 1
    /\ handler' = [handler EXCEPT ![h] = Idle]
    /\ UNCHANGED <<stripe, owed, answered, plan, row, latest, repeats>>

Handle(h) == Guard(h) \/ Lookup(h) \/ SetTeamPlan(h) \/ Upsert(h)
Attempt(h) == \E e \in Events : Deliver(h, e)

Next ==
    \/ \E s \in Sub : Checkout(s) \/ End(s)
    \/ \E h \in Handler :
          \/ Handle(h)
          \/ \E e \in Events : Deliver(h, e) \/ Repeat(h, e)
          \/ GuardFails(h) \/ Fail(h)

Spec == Init /\ [][Next]_vars

(* Stripe keeps delivering what was not answered with success.             *)
FairSpec == Spec /\ \A h \in Handler : WF_vars(Handle(h)) /\ WF_vars(Attempt(h))

-----------------------------------------------------------------------------
Settled == /\ \A t \in Team : owed[t] = <<>>
           /\ \A h \in Handler : handler[h] = Idle

Paid(t) == latest[t] # NoSub /\ stripe[latest[t]] = "active"

(* Once every event has been answered, a team is on the plan its last      *)
(* checkout bought if that subscription is still active, and on the free   *)
(* plan if it ended, however often events were repeated or handlers failed *)
(* in between (billing.go:180-182 "the same event arriving twice must      *)
(* converge to the same state"; 212-217 "a late activated event must NOT   *)
(* resurrect it to Pro").                                                  *)
Converges ==
    Settled => \A t \in Team :
        plan[t] = IF Paid(t) THEN PlanOf[latest[t]] ELSE Free

(* The two rows agree: the plan metering reads is the one the              *)
(* subscription row accounts for.                                          *)
RowTellsPlan ==
    Settled => \A t \in Team : row[t] # NoRow =>
        /\ plan[t] = row[t].plan
        /\ row[t].status = "canceled" <=> plan[t] = Free

(* In whatever order and however many at a time events are handled, and    *)
(* whatever fails: a team has only a plan that a checkout of its own       *)
(* bought; it is recorded with a subscription that was started, as         *)
(* canceled only once that has ended; and who is recorded is on the free   *)
(* plan only if a subscription of the team has ended (billing.go:208-239,  *)
(* 244-264).                                                               *)
PlanIsOwed ==
    \A t \in Team :
        /\ plan[t] # Free =>
              \E s \in Sub : TeamOf[s] = t /\ stripe[s] # "none" /\ plan[t] = PlanOf[s]
        /\ row[t] # NoRow =>
              /\ stripe[row[t].sub] # "none"
              /\ row[t].status = "canceled" => stripe[row[t].sub] = "ended"
              /\ plan[t] = Free => \E s \in Sub : TeamOf[s] = t /\ stripe[s] = "ended"

(* Who has paid gets the plan, unless the subscription ends first or is    *)
(* superseded by another checkout.                                         *)
PaidGetsPlan ==
    \A s \in Sub : stripe[s] = "active" ~>
        \/ plan[TeamOf[s]] = PlanOf[s]
        \/ stripe[s] = "ended" \/ latest[TeamOf[s]] # s
=============================================================================
