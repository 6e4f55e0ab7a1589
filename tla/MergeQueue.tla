------------------------------ MODULE MergeQueue ------------------------------
(***************************************************************************)
(* The background wing merge: the dashboard queues a job that folds one    *)
(* wing into another, a worker claims it, relabels the drawers and then    *)
(* the closets of the source wing, rebuilds the derived graph and records  *)
(* the outcome (mergejob, palace.MergeWing).  Each of these is a statement *)
(* of its own against the shared database, and drawers keep being filed.   *)
(*                                                                         *)
(* The server starts one Worker.Run; ClaimNext is written for several, so  *)
(* the number of workers is a parameter.  The graph is the set of wings    *)
(* that have hallways, rebuilt in one step (its lock is per team).         *)
(***************************************************************************)
EXTENDS Integers, FiniteSets

CONSTANTS
    Job,        \* merge jobs
    Worker,     \* goroutines running Worker.Run
    Wing,       \* wing names of one team
    Drawer, Closet,
    MaxTime,    \* bound: seconds that pass (created_at has one-second grain)
    MaxFaults   \* bound: failures and restarts in a behaviour

ASSUME BoundsAssumption == MaxTime \in Nat /\ MaxFaults \in Nat
ASSUME SetsAssumption == IsFiniteSet(Job) /\ IsFiniteSet(Worker) /\ IsFiniteSet(Drawer)

VARIABLES
    job,        \* job[j]: the merge_jobs row, NoJob when there is none
    drawerWing, \* drawerWing[d]: wing of drawer d, None when not filed
    closetWing, \* the same for closets
    graph,      \* wings that have hallways
    worker,     \* worker[w]: the step of Worker.run and what it knows
    time,       \* the clock, in seconds
    faults,     \* failures and restarts so far
    moved,      \* history: drawers relabelled on behalf of each job
    unmarked    \* history: jobs left running, as the write of their final
                \* status or their release at a boot failed

vars == <<job, drawerWing, closetWing, graph, worker, time, faults, moved, unmarked>>
data == <<drawerWing, closetWing, graph>>

None == "none"
ASSUME NoneAssumption == None \notin Wing    \* no wing has the marker as its name
NoJob == [status |-> "none"]
Statuses == {"queued", "running", "done", "failed"}
JobRow == [status : Statuses, source : Wing, target : Wing,
           created : 0..MaxTime, drawers : 0..Cardinality(Drawer)]

Idle == [step |-> "idle"]
Busy == [step : {"claim", "drawers", "closets", "graph", "done", "failed"},
         job : Job, count : 0..Cardinality(Drawer),
         due : SUBSET Drawer, dueClosets : SUBSET Closet]

Executing(w, j) ==
    /\ worker[w] # Idle /\ worker[w].job = j
    /\ worker[w].step # "claim"

(* Types; a job is executed only as a running row.                         *)
TypeOK ==
    /\ job \in [Job -> {NoJob} \cup JobRow]
    /\ drawerWing \in [Drawer -> Wing \cup {None}]
    /\ closetWing \in [Closet -> Wing \cup {None}]
    /\ graph \subseteq Wing
    /\ worker \in [Worker -> {Idle} \cup Busy]
    /\ time \in 0..MaxTime /\ faults \in 0..MaxFaults
    /\ moved \in [Job -> SUBSET Drawer] /\ unmarked \subseteq Job
    /\ \A w \in Worker, j \in Job : Executing(w, j) => job[j].status = "running"

Init ==
    /\ job = [j \in Job |-> NoJob]
    /\ drawerWing = [d \in Drawer |-> None]
    /\ closetWing = [c \in Closet |-> None]
    /\ graph = {}
    /\ worker = [w \in Worker |-> Idle]
    /\ time = 0 /\ faults = 0
    /\ moved = [j \in Job |-> {}] /\ unmarked = {}

Drawers(wing) == {d \in Drawer : drawerWing[d] = wing}
Closets(wing) == {c \in Closet : closetWing[c] = wing}
Wings == {drawerWing[d] : d \in Drawer} \ {None}     \* WingsWithDrawers
Running == {j \in Job : job[j].status = "running"}

-----------------------------------------------------------------------------
(* Clients: drawers are filed (with their closets, when mined) at any time.*)
File(d, wing, cs) ==
    /\ drawerWing[d] = None
    /\ \A c \in cs : closetWing[c] = None
    /\ drawerWing' = [drawerWing EXCEPT ![d] = wing]
    /\ closetWing' = [c \in Closet |-> IF c \in cs THEN wing ELSE closetWing[c]]
    /\ UNCHANGED <<job, graph, worker, time, faults, moved, unmarked>>

Tick ==
    /\ time < MaxTime
    /\ time' = time + 1
    /\ UNCHANGED <<job, data, worker, faults, moved, unmarked>>

(* Service.Enqueue: ErrSameWing, and ErrWingNotFound for a source wing no  *)
(* drawer is filed in.                                                     *)
WingExists(wing) == wing \in Wings

Enqueue(j, source, target) ==
    /\ job[j] = NoJob
    /\ source # target /\ WingExists(source)
    /\ job' = [job EXCEPT ![j] = [status |-> "queued", source |-> source,
                 target |-> target, created |-> time, drawers |-> 0]]
    /\ UNCHANGED <<data, worker, time, faults, moved, unmarked>>

-----------------------------------------------------------------------------
(* Worker.Run.                                                             *)
Queued == {j \in Job : job[j].status = "queued"}
At(w, step) == worker[w] # Idle /\ worker[w].step = step
Source(w) == job[worker[w].job].source
Target(w) == job[worker[w].job].target
Advance(w, step) == worker' = [worker EXCEPT ![w].step = step]
SetStatus(j, status) == job' = [job EXCEPT ![j].status = status]

(* ClaimNext reads the oldest queued job first; jobs created within the    *)
(* same second come in any order ...                                       *)
ReadOldest(w) ==
    /\ worker[w] = Idle
    /\ \E j \in Queued :
          /\ \A k \in Queued : job[j].created <= job[k].created
          /\ worker' = [worker EXCEPT ![w] = [step |-> "claim", job |-> j,
                           count |-> 0, due |-> {}, dueClosets |-> {}]]
    /\ UNCHANGED <<job, data, time, faults, moved, unmarked>>

(* ... then updates it where it is still queued; no row matched is a lost  *)
(* race.  due and dueClosets remember what the source wing held then.      *)
Claim(w) ==
    /\ At(w, "claim")
    /\ IF job[worker[w].job].status = "queued"
       THEN /\ SetStatus(worker[w].job, "running")
            /\ worker' = [worker EXCEPT ![w].step = "drawers",
                             ![w].due = Drawers(Source(w)),
                             ![w].dueClosets = Closets(Source(w))]
       ELSE /\ worker' = [worker EXCEPT ![w] = Idle]
            /\ UNCHANGED job
    /\ UNCHANGED <<data, time, faults, moved, unmarked>>

Relabel(wingOf, source, target) ==
    [x \in DOMAIN wingOf |-> IF wingOf[x] = source THEN target ELSE wingOf[x]]

RelabelDrawers(w) ==
    /\ At(w, "drawers")
    /\ drawerWing' = Relabel(drawerWing, Source(w), Target(w))
    /\ worker' = [worker EXCEPT ![w].step = "closets",
                     ![w].count = Cardinality(Drawers(Source(w)))]
    /\ moved' = [moved EXCEPT ![worker[w].job] = @ \cup Drawers(Source(w))]
    /\ UNCHANGED <<job, closetWing, graph, time, faults, unmarked>>

RelabelClosets(w) ==
    /\ At(w, "closets")
    /\ closetWing' = Relabel(closetWing, Source(w), Target(w))
    /\ Advance(w, "graph")
    /\ UNCHANGED <<job, drawerWing, graph, time, faults, moved, unmarked>>

(* RecomputeGraph(team, all wings, prune): wings without drawers lose      *)
(* their hallways.                                                         *)
RecomputeGraph(w) ==
    /\ At(w, "graph")
    /\ graph' = Wings
    /\ Advance(w, "done")
    /\ UNCHANGED <<job, drawerWing, closetWing, time, faults, moved, unmarked>>

(* Both marks are guarded by status = running.                             *)
Mark(w, status, count) ==
    LET j == worker[w].job IN
    /\ job' = IF job[j].status = "running"
              THEN [job EXCEPT ![j].status = status, ![j].drawers = count]
              ELSE job
    /\ worker' = [worker EXCEPT ![w] = Idle]
    /\ UNCHANGED <<data, time, faults, moved, unmarked>>

MarkDone(w) == At(w, "done") /\ Mark(w, "done", worker[w].count)
MarkFailed(w) == At(w, "failed") /\ Mark(w, "failed", 0)

Fault == faults < MaxFaults /\ faults' = faults + 1

MergeFailsAsDone(w) ==
    /\ At(w, "drawers") \/ At(w, "closets") \/ At(w, "graph")
    /\ Fault
    /\ Advance(w, "done")
    /\ UNCHANGED <<job, data, time, moved, unmarked>>

(* A relabel or the rebuild fails, or shutdown cancels its context: the    *)
(* job is marked failed, on a context of its own.                          *)
MergeFails(w) ==
    /\ At(w, "drawers") \/ At(w, "closets") \/ At(w, "graph")
    /\ Fault
    /\ Advance(w, "failed")
    /\ UNCHANGED <<job, data, time, moved, unmarked>>

(* The status write fails: it is logged, the row stays running.            *)
MarkFails(w) ==
    /\ At(w, "done") \/ At(w, "failed")
    /\ Fault
    /\ unmarked' = unmarked \cup {worker[w].job}
    /\ worker' = [worker EXCEPT ![w] = Idle]
    /\ UNCHANGED <<job, data, time, moved>>

BootReleasesNothing ==
    /\ Fault
    /\ worker' = [w \in Worker |-> Idle]
    /\ UNCHANGED <<job, data, time, moved, unmarked>>

BootReleasesAll ==
    /\ Fault
    /\ worker' = [w \in Worker |-> Idle]
    /\ job' = [j \in Job |-> IF job[j] # NoJob
                             THEN [job[j] EXCEPT !.status = "queued"] ELSE NoJob]
    /\ UNCHANGED <<data, time, moved, unmarked>>

BootBesideOldProcess ==
    /\ Fault
    /\ job' = [j \in Job |-> IF job[j].status = "running"
                             THEN [job[j] EXCEPT !.status = "queued"] ELSE job[j]]
    /\ UNCHANGED <<data, time, worker, moved, unmarked>>

(* The process dies and is started again: ReleaseRunning, whose failure is *)
(* logged and leaves the rows as they are until another boot.              *)
Boot ==
    /\ Fault
    /\ worker' = [w \in Worker |-> Idle]
    /\ \/ /\ job' = [j \in Job |-> IF j \in Running
                                   THEN [job[j] EXCEPT !.status = "queued"] ELSE job[j]]
          /\ UNCHANGED unmarked
       \/ unmarked' = unmarked \cup Running /\ UNCHANGED job
    /\ UNCHANGED <<data, time, moved>>

Run(w) == \/ ReadOldest(w) \/ Claim(w) \/ RelabelDrawers(w) \/ RelabelClosets(w)
          \/ RecomputeGraph(w) \/ MarkDone(w) \/ MarkFailed(w)

Next ==
    \/ \E d \in Drawer, wing \in Wing, cs \in SUBSET Closet : File(d, wing, cs)
    \/ Tick
    \/ \E j \in Job, source, target \in Wing : Enqueue(j, source, target)
    \/ \E w \in Worker : Run(w) \/ MergeFails(w) \/ MarkFails(w)
    \/ Boot

Spec == Init /\ [][Next]_vars

(* The goroutine runs for the life of the process.                         *)
FairSpec == Spec /\ \A w \in Worker : WF_vars(Run(w))

-----------------------------------------------------------------------------
Lifecycle == INSTANCE MergeJobs WITH
    MaxRunning <- (MaxFaults + 1) * Cardinality(Worker),
    status <- [j \in Job |-> job[j].status]

(* The rows of merge_jobs go through the life cycle the dashboard shows;   *)
(* no step of the workers or of a restart touches a settled job.  A job    *)
(* whose mark or release was lost stays running beside those executed.     *)
ImplementsLifecycle == Lifecycle!Spec

(* With the one worker the server runs, "done" means merged: nothing that  *)
(* was in the source wing when the job was claimed is left there, drawer   *)
(* or closet, whatever was filed since; and a source wing without drawers  *)
(* has no hallways left.                                                   *)
DoneMeansMerged ==
    [][\A w \in Worker : MarkDone(w) =>
          /\ \A d \in worker[w].due : drawerWing[d] # Source(w)
          /\ \A c \in worker[w].dueClosets : closetWing[c] # Source(w)
          /\ Source(w) \in graph => Drawers(Source(w)) # {}]_vars

(* Every queued job is settled in the end, but for those whose final       *)
(* status write failed (worker.go:122-125) or which a boot could not       *)
(* release (worker.go:65); a merge that fails does not hold up the queue,  *)
(* and jobs in flight at a restart are taken up again.                     *)
JobsSettle ==
    \A j \in Job : job[j].status = "queued" ~>
                      job[j].status \in {"done", "failed"} \/ j \in unmarked
=============================================================================
