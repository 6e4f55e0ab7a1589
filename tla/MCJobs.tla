-------------------------------- MODULE MCJobs --------------------------------
(* What runs by itself to an end: the embed worker (extended here), the    *)
(* calls that file a source, and Stripe's deliveries.                      *)
(* They share no state in these models, so a behaviour runs one of them    *)
(* and the others stay as they started.                                    *)
EXTENDS EmbedWorker

CONSTANTS Services,         \* which of them the behaviours run
          Handler, Docs, Mined, Added, MaxCalls, FilingFaults,
          Webhook, Subs, InOrder, GuardErrs, OldRepeats, MaxRepeats, WebhookFaults

(* The source: a long version, one without its second chunk, and a text    *)
(* too short to be mined; places that are mined and places added to.       *)
Chunks == {"c1", "c2"}
Slots == 1..2
Cut == [d \in Docs |-> CASE d = "long" -> {"c1", "c2"}
                         [] d = "short" -> {"c1"}
                         [] d = "nothing" -> {}]
Packed == [d \in Docs |-> CASE d = "long" -> {1, 2}
                            [] d = "short" -> {1}
                            [] d = "nothing" -> {}]
Calls == [p \in Mined \cup Added |->
            {k \in {"add", "mine"} : (k = "mine" /\ p \in Mined) \/ (k = "add" /\ p \in Added)}]

(* One workspace that buys the plans pro_monthly, then pro_yearly.         *)
OneTeam == [s \in Subs |-> "team"]
Bought == [s \in Subs |-> IF s = "sub_a" THEN "pro_monthly" ELSE "pro_yearly"]

VARIABLES
    service,
    rows, vectors, sourceClosets, closetVecs, call, lock, calls, filingFaults,
    stripe, owed, answered, plan, row, handler, latest, repeats, webhookFaults

filing == <<rows, vectors, sourceClosets, closetVecs, call, lock, calls, filingFaults>>
billing == <<stripe, owed, answered, plan, row, handler, latest, repeats, webhookFaults>>

Filing == INSTANCE SourceFiling WITH
    Place <- Mined \cup Added, Doc <- Docs, Chunk <- Chunks, ChunksOf <- Cut,
    Slot <- Slots, SlotsOf <- Packed, KindsAt <- Calls,
    MaxFaults <- FilingFaults, closets <- sourceClosets, faults <- filingFaults
Billing == INSTANCE Billing WITH
    Team <- {"team"}, Sub <- Subs, TeamOf <- OneTeam, PlanOf <- Bought,
    Free <- "free", Handler <- Webhook,
    MaxFaults <- WebhookFaults, faults <- webhookFaults

ASSUME JobsAssumption ==
    /\ Services \subseteq {"worker", "filing", "billing"}
    /\ Docs \subseteq {"long", "short", "nothing"}
    /\ Filing!Assumptions /\ Billing!Assumptions

MCInit ==
    /\ service \in Services
    /\ Init /\ Filing!Init /\ Billing!Init

MCNext ==
    /\ UNCHANGED service
    /\ \/ /\ service = "worker" /\ Next
          /\ UNCHANGED <<filing, billing>>
       \/ /\ service = "filing" /\ Filing!Next
          /\ UNCHANGED <<vars, billing>>
       \/ /\ service = "billing" /\ Billing!Next
          /\ UNCHANGED <<vars, filing>>

(* The fairness of each module, of the one that runs.                      *)
MCSpec ==
    /\ MCInit /\ [][MCNext]_<<service, vars, filing, billing>>
    /\ WF_vars(service = "worker" /\ Run)
    /\ \A h \in Handler : /\ WF_filing(service = "filing" /\ (Filing!Purge(h) \/ Filing!Store(h)))
                          /\ SF_filing(service = "filing" /\ Filing!Acquire(h))
    /\ \A h \in Webhook : /\ WF_billing(service = "billing" /\ Billing!Handle(h))
                          /\ WF_billing(service = "billing" /\ Billing!Attempt(h))

(* Types of the three.                                                     *)
JobsTypeOK == TypeOK /\ Filing!TypeOK /\ Billing!TypeOK

(* Mining is wholesale: a mine that succeeds has replaced the drawers and   *)
(* closets of its source, and what is mined can be searched, whatever other *)
(* mines and adds run or fail beside it (palace/mine.go, service.go).      *)
SourceReplaced == []Filing!MinedRowsSearchable /\ Filing!MineReplaces

(* Every call on a source returns; no return keeps its lock (mine.go:118).  *)
CallsReturn == Filing!CallsReturn

(* A team with a queue is overtaken by no more than a round's turns, and if *)
(* none of its own rows is rejected its queue drains, whatever the queues   *)
(* of the others (embedworker/worker.go).                                  *)
TeamsServed == []BoundedOvertaking /\ HealthyTeamDrains

(* Plans: when Stripe's deliveries are answered, plan and subscription row  *)
(* agree with each other and with what was paid for; at any time no plan is *)
(* one nobody bought and none is taken away before a subscription ended;    *)
(* and who has paid gets the plan (billing/billing.go).                     *)
PlansFollowPayment ==
    /\ [](Billing!Converges /\ Billing!RowTellsPlan /\ Billing!PlanIsOwed)
    /\ Billing!PaidGetsPlan

(* What the comments on the two promise where it does not hold: a row      *)
(* always has its embedding, also when add_drawer, which takes no lock, is *)
(* called twice for one source (palace/service.go:179-180); and deliveries *)
(* in any order leave a team on the plan it pays for                       *)
(* (billing/billing.go:212-217).                                           *)
RowsSearchable == Filing!RowsSearchable
PlansConverge == Billing!Converges
=============================================================================
