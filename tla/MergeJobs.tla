------------------------------ MODULE MergeJobs ------------------------------
(***************************************************************************)
(* What the merge queue promises its dashboard: each job waits, runs, and  *)
(* ends done or failed once and for all; a restart may put a running job   *)
(* back in the queue, and at most MaxRunning jobs run at a time.           *)
(***************************************************************************)
EXTENDS FiniteSets, Naturals

CONSTANTS Job, MaxRunning
VARIABLE status

Init == status = [j \in Job |-> "none"]

Running == {j \in Job : status[j] = "running"}
Move(j, from, to) == status[j] = from /\ status' = [status EXCEPT ![j] = to]

Enqueue(j) == Move(j, "none", "queued")
Claim(j) == Cardinality(Running) < MaxRunning /\ Move(j, "queued", "running")
Settle(j) == Move(j, "running", "done") \/ Move(j, "running", "failed")
Reclaim == status' = [j \in Job |-> IF status[j] = "running" THEN "queued"
                                                            ELSE status[j]]

Next == (\E j \in Job : Enqueue(j) \/ Claim(j) \/ Settle(j)) \/ Reclaim

Spec == Init /\ [][Next]_status
=============================================================================
