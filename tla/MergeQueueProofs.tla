-------------------------- MODULE MergeQueueProofs --------------------------
(***************************************************************************)
(* Of MergeQueue, for any jobs, workers, wings, drawers and closets: a job *)
(* has one worker at a time, the rows go through the life cycle MergeJobs  *)
(* states, and with one worker "done" means merged.                        *)
(***************************************************************************)
EXTENDS MergeQueue, FiniteSetTheorems, TLAPS

(* Claims are guarded by the status, so no job is executed by two workers. *)
OneEach == \A v, w \in Worker, j \in Job : Executing(v, j) /\ Executing(w, j) => v = w

(* A running row is being executed, or was left; one fault leaves no more  *)
(* rows than there are workers.                                            *)
Left(n) == n * Cardinality(Worker)
Accounted ==
    /\ IsFiniteSet(unmarked) /\ Cardinality(unmarked) <= Left(faults)
    /\ \A j \in Running : j \in unmarked \/ \E w \in Worker : Executing(w, j)

WingsDiffer == \A j \in Job : job[j] # NoJob => job[j].source # job[j].target

QueueInv == TypeOK /\ OneEach /\ Accounted /\ WingsDiffer

-----------------------------------------------------------------------------
(* What is in a row, and in a worker that is not idle.                     *)
LEMMA RowFacts ==
    ASSUME TypeOK, NEW j \in Job, job[j].status \in Statuses
    PROVE  job[j] \in JobRow /\ job[j] # NoJob
BY DEF TypeOK, NoJob, Statuses

LEMMA BusyFacts ==
    ASSUME TypeOK, NEW w \in Worker, worker[w] # Idle
    PROVE  worker[w] \in Busy /\ worker[w].job \in Job
BY DEF TypeOK, Busy

LEMMA Counted ==
    /\ Cardinality(Drawer) \in Nat
    /\ \A wing : Cardinality(Drawers(wing)) \in 0..Cardinality(Drawer)
<1>1. Cardinality(Drawer) \in Nat
  BY SetsAssumption, FS_CardinalityType
<1>2. ASSUME NEW wing PROVE Cardinality(Drawers(wing)) \in 0..Cardinality(Drawer)
  <2>1. Drawers(wing) \in SUBSET Drawer
    BY DEF Drawers
  <2>2. IsFiniteSet(Drawers(wing)) /\ Cardinality(Drawers(wing)) <= Cardinality(Drawer)
    BY <2>1, SetsAssumption, FS_Subset
  <2>3. QED BY <1>1, <2>2, FS_CardinalityType
<1>3. QED
  BY <1>1, <1>2

(* Each fault adds at most the workers.                                    *)
LEMMA LeftGrows ==
    /\ Cardinality(Worker) \in Nat
    /\ \A w \in Worker : Cardinality(Worker) >= 1
    /\ \A n \in Nat : Left(n) \in Nat /\ Left(n + 1) = Left(n) + Cardinality(Worker)
    /\ \A m, n \in Nat : m <= n => Left(m) <= Left(n)
<1>1. Cardinality(Worker) \in Nat
  BY SetsAssumption, FS_CardinalityType
<1>2. ASSUME NEW w \in Worker PROVE Cardinality(Worker) >= 1
  BY <1>1, SetsAssumption, FS_EmptySet
<1> PICK c \in Nat : c = Cardinality(Worker)
  BY <1>1
<1>3. \A n \in Nat : n * c \in Nat /\ (n + 1) * c = n * c + c
  OBVIOUS
<1>4. \A m, n \in Nat : m <= n => m * c <= n * c
  OBVIOUS
<1>5. QED
  BY <1>1, <1>2, <1>3, <1>4 DEF Left

LEMMA Relabelled ==
    ASSUME NEW S, NEW f \in [S -> Wing \cup {None}], NEW source, NEW target \in Wing
    PROVE  /\ Relabel(f, source, target) \in [S -> Wing \cup {None}]
           /\ \A x \in S : Relabel(f, source, target)[x] =
                              IF f[x] = source THEN target ELSE f[x]
BY DEF Relabel

(* A worker goes on to another step of its job, or to none.                *)
LEMMA Advances ==
    ASSUME TypeOK, NEW w \in Worker, worker[w] # Idle,
           NEW s \in {"claim", "drawers", "closets", "graph", "done", "failed"}, Advance(w, s)
    PROVE  /\ worker' \in [Worker -> {Idle} \cup Busy] /\ worker'[w] \in Busy
           /\ worker'[w].step = s /\ worker'[w].job = worker[w].job
           /\ worker'[w].due = worker[w].due /\ worker'[w].dueClosets = worker[w].dueClosets
           /\ \A v \in Worker : v # w => worker'[v] = worker[v]
<1>1. worker[w] \in Busy
  BY BusyFacts
<1>2. worker' = [worker EXCEPT ![w] = [worker[w] EXCEPT !.step = s]]
  BY DEF Advance
<1>3. [worker[w] EXCEPT !.step = s] \in Busy
  BY <1>1 DEF Busy
<1>4. worker' \in [Worker -> {Idle} \cup Busy] /\ worker'[w] = [worker[w] EXCEPT !.step = s]
  BY <1>2, <1>3 DEF TypeOK
<1>5. \A v \in Worker : v # w => worker'[v] = worker[v]
  BY <1>2 DEF TypeOK
<1>6. QED
  BY <1>1, <1>3, <1>4, <1>5 DEF Busy

LEMMA Leaves ==
    ASSUME TypeOK, NEW w \in Worker, worker' = [worker EXCEPT ![w] = Idle]
    PROVE  /\ worker' \in [Worker -> {Idle} \cup Busy] /\ worker'[w] = Idle
           /\ \A v \in Worker : v # w => worker'[v] = worker[v]
BY DEF TypeOK

(* What a claim and the first relabel make of the worker.                  *)
LEMMA Claims ==
    ASSUME TypeOK, NEW w \in Worker, Claim(w), job[worker[w].job].status = "queued"
    PROVE  /\ worker' \in [Worker -> {Idle} \cup Busy] /\ worker'[w] \in Busy
           /\ worker'[w].step = "drawers" /\ worker'[w].job = worker[w].job
           /\ worker'[w].due = Drawers(Source(w)) /\ worker'[w].dueClosets = Closets(Source(w))
           /\ \A v \in Worker : v # w => worker'[v] = worker[v]
<1> DEFINE ds == Drawers(Source(w))
           cs == Closets(Source(w))
           e == [worker[w] EXCEPT !.step = "drawers", !.due = ds, !.dueClosets = cs]
<1>1. worker[w] \in Busy
  BY BusyFacts DEF Claim, At
<1>2. worker' = [worker EXCEPT ![w].step = "drawers", ![w].due = ds, ![w].dueClosets = cs]
  BY DEF Claim
<1>3. ds \in SUBSET Drawer /\ cs \in SUBSET Closet
  BY DEF Drawers, Closets
<1> HIDE DEF ds, cs
<1>4. e \in Busy /\ e.step = "drawers" /\ e.job = worker[w].job /\ e.due = ds /\ e.dueClosets = cs
  BY <1>1, <1>3 DEF Busy
<1>5. worker' = [worker EXCEPT ![w] = e]
  BY <1>2 DEF TypeOK
<1> HIDE DEF e
<1>6. worker' \in [Worker -> {Idle} \cup Busy] /\ worker'[w] = e
      /\ \A v \in Worker : v # w => worker'[v] = worker[v]
  BY <1>4, <1>5 DEF TypeOK
<1>7. QED
  BY <1>4, <1>6 DEF ds, cs

LEMMA Relabels ==
    ASSUME TypeOK, NEW w \in Worker, RelabelDrawers(w)
    PROVE  /\ worker' \in [Worker -> {Idle} \cup Busy] /\ worker'[w] \in Busy
           /\ worker'[w].step = "closets" /\ worker'[w].job = worker[w].job
           /\ worker'[w].due = worker[w].due /\ worker'[w].dueClosets = worker[w].dueClosets
           /\ \A v \in Worker : v # w => worker'[v] = worker[v]
<1> DEFINE n == Cardinality(Drawers(Source(w)))
           e == [worker[w] EXCEPT !.step = "closets", !.count = n]
<1>1. worker[w] \in Busy
  BY BusyFacts DEF RelabelDrawers, At
<1>2. worker' = [worker EXCEPT ![w].step = "closets", ![w].count = n]
  BY DEF RelabelDrawers
<1>3. n \in 0..Cardinality(Drawer)
  BY Counted
<1> HIDE DEF n
<1>4. /\ e \in Busy /\ e.step = "closets" /\ e.job = worker[w].job
      /\ e.due = worker[w].due /\ e.dueClosets = worker[w].dueClosets
  BY <1>1, <1>3 DEF Busy
<1>5. worker' = [worker EXCEPT ![w] = e]
  BY <1>2 DEF TypeOK
<1> HIDE DEF e
<1>6. worker' \in [Worker -> {Idle} \cup Busy] /\ worker'[w] = e
      /\ \A v \in Worker : v # w => worker'[v] = worker[v]
  BY <1>4, <1>5 DEF TypeOK
<1>7. QED
  BY <1>4, <1>6

-----------------------------------------------------------------------------
LEMMA QueueInit == Init => QueueInv
<1> SUFFICES ASSUME Init PROVE QueueInv
  OBVIOUS
<1>1. TypeOK
  BY BoundsAssumption DEF Init, TypeOK, Executing
<1>2. OneEach
  BY DEF Init, OneEach, Executing
<1>3. Accounted
  BY FS_EmptySet, LeftGrows DEF Init, Accounted, Running, NoJob
<1>4. WingsDiffer
  BY DEF Init, WingsDiffer
<1>5. QED
  BY <1>1, <1>2, <1>3, <1>4 DEF QueueInv

(* Who executes which job, and what it is accountable for.                 *)
Courses == /\ \A w \in Worker, j \in Job : Executing(w, j) => job[j].status = "running"
           /\ OneEach /\ Accounted /\ WingsDiffer

LEMMA CoursesKept ==
    ASSUME QueueInv, UNCHANGED <<job, unmarked>>, faults <= faults', faults' \in Nat,
           \A w \in Worker, j \in Job : Executing(w, j)' <=> Executing(w, j)
    PROVE  Courses'
<1>1. IsFiniteSet(unmarked) /\ Cardinality(unmarked) \in Nat /\ faults \in Nat
  BY FS_CardinalityType, BoundsAssumption DEF QueueInv, Accounted, TypeOK
<1>2. Left(faults) \in Nat /\ Left(faults') \in Nat /\ Left(faults) <= Left(faults')
  BY <1>1, LeftGrows
<1>3. QED
  BY <1>1, <1>2 DEF QueueInv, TypeOK, Courses, OneEach, Accounted, Running, WingsDiffer

(* A worker on its way through a job stays on it.                          *)
LEMMA StaysOn ==
    ASSUME QueueInv, NEW w \in Worker, worker[w] # Idle, worker[w].step # "claim",
           worker'[w] \in Busy, worker'[w].job = worker[w].job, worker'[w].step # "claim",
           \A v \in Worker : v # w => worker'[v] = worker[v],
           UNCHANGED <<job, unmarked>>, faults <= faults', faults' \in Nat
    PROVE  Courses'
<1>1. worker'[w] # Idle
  BY DEF Busy, Idle
<1>2. \A v \in Worker, j \in Job : Executing(v, j)' <=> Executing(v, j)
  BY <1>1 DEF Executing
<1>3. QED
  BY <1>2, CoursesKept

-----------------------------------------------------------------------------
LEMMA ClientStep ==
    ASSUME QueueInv,
           \/ \E d \in Drawer, wing \in Wing, cs \in SUBSET Closet : File(d, wing, cs)
           \/ Tick
           \/ \E j \in Job, source, target \in Wing : Enqueue(j, source, target)
    PROVE  QueueInv'
<1> USE DEF QueueInv
<1>1. ASSUME NEW d \in Drawer, NEW wing \in Wing, NEW cs \in SUBSET Closet, File(d, wing, cs)
      PROVE  QueueInv'
  <2>1. TypeOK'
    BY <1>1 DEF File, TypeOK, Executing
  <2>2. Courses'
    BY <1>1, CoursesKept, BoundsAssumption DEF File, Executing, TypeOK
  <2>3. QED BY <2>1, <2>2 DEF Courses
<1>2. CASE Tick
  <2>1. time' \in 0..MaxTime
    BY <1>2, BoundsAssumption DEF Tick, TypeOK
  <2>2. TypeOK'
    BY <1>2, <2>1 DEF Tick, data, TypeOK, Executing
  <2>3. Courses'
    BY <1>2, CoursesKept, BoundsAssumption DEF Tick, Executing, TypeOK
  <2>4. QED BY <2>2, <2>3 DEF Courses
<1>3. ASSUME NEW j \in Job, NEW source \in Wing, NEW target \in Wing, Enqueue(j, source, target)
      PROVE  QueueInv'
  <2> DEFINE new == [status |-> "queued", source |-> source, target |-> target,
                     created |-> time, drawers |-> 0]
  <2>1. new \in JobRow /\ new.status = "queued" /\ new.source # new.target
    BY <1>3, Counted DEF JobRow, Statuses, Enqueue, TypeOK
  <2>2. job' = [job EXCEPT ![j] = new] /\ job[j] = NoJob
    BY <1>3 DEF Enqueue
  <2> HIDE DEF new
  <2>3. job' \in [Job -> {NoJob} \cup JobRow]
    BY <2>1, <2>2 DEF TypeOK
  <2>4. job'[j] = new /\ \A k \in Job : k # j => job'[k] = job[k]
    BY <2>2 DEF TypeOK
  <2>5. \A w \in Worker, k \in Job : Executing(w, k)' <=> Executing(w, k)
    BY <1>3 DEF Enqueue, Executing
  <2>6. \A w \in Worker : ~ Executing(w, j)
    BY <2>2 DEF TypeOK, NoJob
  <2>7. \A w \in Worker, k \in Job : Executing(w, k)' => job'[k].status = "running"
    BY <2>4, <2>5, <2>6 DEF TypeOK
  <2>8. TypeOK'
    BY <1>3, <2>3, <2>7 DEF Enqueue, data, TypeOK
  <2>9. OneEach' /\ Accounted' /\ WingsDiffer'
    BY <1>3, <2>1, <2>4, <2>5 DEF Enqueue, OneEach, Accounted, Running, WingsDiffer
  <2>10. QED BY <2>8, <2>9
<1>4. QED
  BY <1>1, <1>2, <1>3

LEMMA ReadStep ==
    ASSUME QueueInv, NEW w \in Worker, ReadOldest(w)
    PROVE  QueueInv'
<1> USE DEF QueueInv
<1>1. PICK j \in Queued :
         worker' = [worker EXCEPT ![w] = [step |-> "claim", job |-> j,
                       count |-> 0, due |-> {}, dueClosets |-> {}]]
  BY DEF ReadOldest
<1> DEFINE e == [step |-> "claim", job |-> j, count |-> 0, due |-> {}, dueClosets |-> {}]
<1>2. e \in Busy /\ e.step = "claim" /\ j \in Job
  BY Counted DEF Busy, Queued
<1>3. worker' = [worker EXCEPT ![w] = e]
  BY <1>1
<1> HIDE DEF e
<1>4. /\ worker' \in [Worker -> {Idle} \cup Busy] /\ worker'[w] = e
      /\ \A v \in Worker : v # w => worker'[v] = worker[v]
  BY <1>2, <1>3 DEF TypeOK
<1>5. \A v \in Worker, k \in Job : Executing(v, k)' <=> Executing(v, k)
  BY <1>2, <1>4 DEF Executing, ReadOldest
<1>6. Courses'
  BY <1>5, CoursesKept, BoundsAssumption DEF ReadOldest, TypeOK
<1>7. TypeOK'
  BY <1>4, <1>6 DEF ReadOldest, data, TypeOK, Courses
<1>8. QED
  BY <1>6, <1>7 DEF Courses

(* The row of a job gets another status.                                   *)
LEMMA StatusSet ==
    ASSUME TypeOK, NEW j \in Job, NEW s \in Statuses, job[j] \in JobRow,
           NEW n \in 0..Cardinality(Drawer),
           \/ job' = [job EXCEPT ![j].status = s]
           \/ job' = [job EXCEPT ![j].status = s, ![j].drawers = n]
    PROVE  /\ job' \in [Job -> {NoJob} \cup JobRow]
           /\ job'[j] \in JobRow /\ job'[j].status = s
           /\ job'[j].source = job[j].source /\ job'[j].target = job[j].target
           /\ \A k \in Job : k # j => job'[k] = job[k]
<1> DEFINE e == [job[j] EXCEPT !.status = s]
           f == [job[j] EXCEPT !.status = s, !.drawers = n]
<1>1. e \in JobRow /\ e.status = s /\ e.source = job[j].source /\ e.target = job[j].target
  BY DEF JobRow
<1>2. f \in JobRow /\ f.status = s /\ f.source = job[j].source /\ f.target = job[j].target
  BY DEF JobRow
<1>3. job' = [job EXCEPT ![j] = e] \/ job' = [job EXCEPT ![j] = f]
  BY DEF TypeOK
<1> HIDE DEF e, f
<1>4. QED
  BY <1>1, <1>2, <1>3 DEF TypeOK

LEMMA ClaimStep ==
    ASSUME QueueInv, NEW w \in Worker, Claim(w)
    PROVE  QueueInv'
<1> USE DEF QueueInv
<1> DEFINE j == worker[w].job
<1>1. worker[w] \in Busy /\ worker[w] # Idle /\ worker[w].step = "claim" /\ j \in Job
  BY BusyFacts DEF Claim, At
<1>2. CASE job[j].status = "queued"
  <2>1. /\ worker' \in [Worker -> {Idle} \cup Busy] /\ worker'[w] \in Busy
        /\ worker'[w].step = "drawers" /\ worker'[w].job = j
        /\ \A v \in Worker : v # w => worker'[v] = worker[v]
    BY <1>2, Claims
  <2>2. job' = [job EXCEPT ![j].status = "running"] /\ job[j] \in JobRow
    BY <1>1, <1>2, RowFacts DEF Claim, SetStatus, Statuses
  <2>3. /\ job' \in [Job -> {NoJob} \cup JobRow] /\ job'[j].status = "running"
        /\ job'[j].source = job[j].source /\ job'[j].target = job[j].target
        /\ \A k \in Job : k # j => job'[k] = job[k]
    <3>1. "running" \in Statuses /\ 0 \in 0..Cardinality(Drawer)
      BY Counted DEF Statuses
    <3>2. QED BY <1>1, <2>2, <3>1, StatusSet
  <2>4. \A v \in Worker : ~ Executing(v, j)
    BY <1>1, <1>2 DEF TypeOK
  <2>5. \A v \in Worker, k \in Job : v # w => (Executing(v, k)' <=> Executing(v, k))
    BY <2>1 DEF Executing
  <2>6. \A k \in Job : Executing(w, k)' <=> k = j
    <3>1. worker'[w] # Idle
      BY <2>1 DEF Busy, Idle
    <3>2. QED BY <2>1, <3>1 DEF Executing
  <2>7. \A k \in Job : ~ Executing(w, k)
    BY <1>1 DEF Executing
  <2>8. TypeOK'
    <3>1. \A v \in Worker, k \in Job : Executing(v, k)' => job'[k].status = "running"
      BY <2>3, <2>4, <2>5, <2>6 DEF TypeOK
    <3>2. QED BY <2>1, <2>3, <3>1 DEF Claim, data, TypeOK
  <2>9. OneEach'
    BY <1>1, <2>4, <2>5, <2>6 DEF OneEach
  <2>10. Accounted'
    <3>1. unmarked' = unmarked /\ faults' = faults
      BY <1>2 DEF Claim
    <3>2. ASSUME NEW k \in Job, k # j, job'[k].status = "running"
          PROVE  k \in unmarked \/ \E v \in Worker : Executing(v, k)'
      <4>1. k \in unmarked \/ \E v \in Worker : v # w /\ Executing(v, k)
        BY <2>3, <2>7, <3>2 DEF Accounted, Running
      <4>2. QED BY <2>5, <4>1
    <3>3. \A k \in Running' : k \in unmarked' \/ \E v \in Worker : Executing(v, k)'
      BY <2>6, <3>1, <3>2 DEF Running
    <3>4. QED BY <3>1, <3>3 DEF Accounted
  <2>11. WingsDiffer'
    <3>1. job[j] # NoJob
      BY <1>1, <1>2, RowFacts DEF Statuses
    <3>2. QED BY <2>3, <3>1 DEF WingsDiffer
  <2>12. QED BY <2>8, <2>9, <2>10, <2>11
<1>3. CASE job[j].status # "queued"
  <2>1. worker' = [worker EXCEPT ![w] = Idle] /\ UNCHANGED job
    BY <1>3 DEF Claim
  <2>2. /\ worker' \in [Worker -> {Idle} \cup Busy] /\ worker'[w] = Idle
        /\ \A v \in Worker : v # w => worker'[v] = worker[v]
    BY <2>1, Leaves
  <2>3. \A v \in Worker, k \in Job : Executing(v, k)' <=> Executing(v, k)
    BY <1>1, <2>2 DEF Executing
  <2>4. Courses'
    BY <2>1, <2>3, CoursesKept, BoundsAssumption DEF Claim, TypeOK
  <2>5. TypeOK'
    BY <2>1, <2>2, <2>4 DEF Claim, data, TypeOK, Courses
  <2>6. QED BY <2>4, <2>5 DEF Courses
<1>4. QED
  BY <1>2, <1>3

(* The relabels and the rebuild, done or failed.                           *)
LEMMA MergeStep ==
    ASSUME QueueInv, NEW w \in Worker,
           \/ RelabelDrawers(w) \/ RelabelClosets(w) \/ RecomputeGraph(w) \/ MergeFails(w)
    PROVE  QueueInv'
<1> USE DEF QueueInv
<1>1. /\ worker[w] # Idle /\ worker[w].step \in {"drawers", "closets", "graph"}
      /\ worker[w] \in Busy /\ worker[w].job \in Job
  BY BusyFacts DEF RelabelDrawers, RelabelClosets, RecomputeGraph, MergeFails, At
<1>2. /\ job[worker[w].job] \in JobRow
      /\ Source(w) \in Wing /\ Target(w) \in Wing
  <2>1. Executing(w, worker[w].job)
    BY <1>1 DEF Executing
  <2>2. job[worker[w].job] \in JobRow
    BY <1>1, <2>1, RowFacts DEF TypeOK, Statuses
  <2>3. QED BY <2>2 DEF Source, Target, JobRow
<1>3. /\ worker' \in [Worker -> {Idle} \cup Busy] /\ worker'[w] \in Busy
      /\ worker'[w].step # "claim" /\ worker'[w].job = worker[w].job
      /\ \A v \in Worker : v # w => worker'[v] = worker[v]
  BY <1>1, Relabels, Advances DEF RelabelClosets, RecomputeGraph, MergeFails
<1>4. UNCHANGED <<job, unmarked, time>> /\ faults <= faults' /\ faults' \in 0..MaxFaults
  BY BoundsAssumption
     DEF RelabelDrawers, RelabelClosets, RecomputeGraph, MergeFails, Fault, data, TypeOK
<1>5. Courses'
  BY <1>1, <1>3, <1>4, StaysOn, BoundsAssumption
<1>6. /\ drawerWing' \in [Drawer -> Wing \cup {None}] /\ closetWing' \in [Closet -> Wing \cup {None}]
      /\ graph' \subseteq Wing /\ moved' \in [Job -> SUBSET Drawer]
  <2>1. CASE RelabelDrawers(w)
    BY <1>1, <1>2, <2>1, Relabelled DEF RelabelDrawers, TypeOK, Drawers
  <2>2. CASE RelabelClosets(w)
    BY <1>2, <2>2, Relabelled DEF RelabelClosets, TypeOK
  <2>3. CASE RecomputeGraph(w)
    BY <2>3 DEF RecomputeGraph, TypeOK, Wings
  <2>4. CASE MergeFails(w)
    BY <2>4 DEF MergeFails, data, TypeOK
  <2>5. QED BY <2>1, <2>2, <2>3, <2>4
<1>7. TypeOK'
  BY <1>3, <1>4, <1>5, <1>6 DEF TypeOK, Courses
<1>8. QED
  BY <1>5, <1>7 DEF Courses

(* The outcome is recorded, or the write of it fails.                      *)
LEMMA MarkStep ==
    ASSUME QueueInv, NEW w \in Worker, MarkDone(w) \/ MarkFailed(w) \/ MarkFails(w)
    PROVE  QueueInv'
<1> USE DEF QueueInv
<1> DEFINE j == worker[w].job
<1>1. /\ worker[w] # Idle /\ worker[w].step \in {"done", "failed"}
      /\ worker[w] \in Busy /\ j \in Job
  BY BusyFacts DEF MarkDone, MarkFailed, MarkFails, At
<1>2. Executing(w, j) /\ \A v \in Worker : v # w => ~ Executing(v, j)
  BY <1>1 DEF Executing, OneEach
<1>3. job[j].status = "running" /\ job[j] \in JobRow /\ job[j] # NoJob
  BY <1>1, <1>2, RowFacts DEF TypeOK, Statuses
<1>4. /\ worker' \in [Worker -> {Idle} \cup Busy] /\ worker'[w] = Idle
      /\ \A v \in Worker : v # w => worker'[v] = worker[v]
  BY Leaves DEF MarkDone, MarkFailed, Mark, MarkFails
<1>5. \A v \in Worker, k \in Job : Executing(v, k)' <=> Executing(v, k) /\ k # j
  <2>1. \A k \in Job : Executing(w, k) <=> k = j
    BY <1>1 DEF Executing
  <2>2. \A k \in Job : ~ Executing(w, k)'
    BY <1>4 DEF Executing
  <2>3. \A v \in Worker, k \in Job : v # w => (Executing(v, k)' <=> Executing(v, k))
    BY <1>4 DEF Executing
  <2>4. QED BY <1>2, <2>1, <2>2, <2>3
<1>6. ASSUME MarkDone(w) \/ MarkFailed(w) PROVE QueueInv'
  <2>1. PICK s \in {"done", "failed"}, n \in 0..Cardinality(Drawer) :
           job' = [job EXCEPT ![j].status = s, ![j].drawers = n]
    <3>1. worker[w].count \in 0..Cardinality(Drawer) /\ 0 \in 0..Cardinality(Drawer)
      BY <1>1, Counted DEF Busy
    <3>2. QED BY <1>3, <1>6, <3>1 DEF MarkDone, MarkFailed, Mark
  <2>2. /\ job' \in [Job -> {NoJob} \cup JobRow] /\ job'[j].status = s
        /\ job'[j].source = job[j].source /\ job'[j].target = job[j].target
        /\ \A k \in Job : k # j => job'[k] = job[k]
    BY <1>1, <1>3, <2>1, StatusSet DEF Statuses
  <2>3. UNCHANGED <<data, time, faults, moved, unmarked>>
    BY <1>6 DEF MarkDone, MarkFailed, Mark
  <2>4. TypeOK'
    BY <1>4, <1>5, <2>2, <2>3 DEF data, TypeOK
  <2>5. OneEach'
    BY <1>5 DEF OneEach
  <2>6. Accounted'
    BY <1>5, <2>2, <2>3 DEF Accounted, Running
  <2>7. WingsDiffer'
    BY <1>3, <2>2 DEF WingsDiffer
  <2>8. QED BY <2>4, <2>5, <2>6, <2>7
<1>7. CASE MarkFails(w)
  <2>1. /\ unmarked' = unmarked \cup {j} /\ faults' = faults + 1 /\ faults < MaxFaults
        /\ UNCHANGED <<job, data, time, moved>>
    BY <1>7 DEF MarkFails, Fault
  <2>2. TypeOK'
    BY <1>1, <1>4, <1>5, <2>1, BoundsAssumption DEF data, TypeOK
  <2>3. IsFiniteSet(unmarked') /\ Cardinality(unmarked') <= Left(faults')
    <3>1. IsFiniteSet(unmarked) /\ Cardinality(unmarked) \in Nat
      BY FS_CardinalityType DEF Accounted
    <3>2. /\ IsFiniteSet(unmarked')
          /\ Cardinality(unmarked') = IF j \in unmarked THEN Cardinality(unmarked)
                                                       ELSE Cardinality(unmarked) + 1
      BY <2>1, <3>1, FS_AddElement
    <3>3. faults \in Nat
      BY BoundsAssumption DEF TypeOK
    <3>4. Left(faults') = Left(faults) + Cardinality(Worker) /\ Left(faults) \in Nat
          /\ Cardinality(Worker) >= 1 /\ Cardinality(Worker) \in Nat
      BY <2>1, <3>3, LeftGrows
    <3>5. QED BY <3>1, <3>2, <3>4 DEF Accounted
  <2>4. Accounted'
    BY <1>5, <2>1, <2>3 DEF Accounted, Running
  <2>5. OneEach' /\ WingsDiffer'
    BY <1>5, <2>1 DEF OneEach, WingsDiffer
  <2>6. QED BY <2>2, <2>4, <2>5
<1>8. QED
  BY <1>6, <1>7

(* Those running and not left behind are each with a worker of their own.  *)
LEMMA WithWorkers ==
    ASSUME QueueInv, NEW W \in SUBSET Worker,
           \A j \in Running \ unmarked, v \in Worker : Executing(v, j) => v \in W
    PROVE  /\ IsFiniteSet(Running \ unmarked) /\ IsFiniteSet(W)
           /\ Cardinality(Running \ unmarked) <= Cardinality(W)
           /\ IsFiniteSet(Running \cup unmarked)
           /\ Cardinality(Running \cup unmarked) <= Cardinality(W) + Cardinality(unmarked)
<1> USE DEF QueueInv
<1> DEFINE Alive == Running \ unmarked
           by == [j \in Alive |-> CHOOSE v \in Worker : Executing(v, j)]
<1>1. \A j \in Alive : by[j] \in Worker /\ Executing(by[j], j)
  BY DEF Accounted
<1>2. \A j \in Alive : by[j] \in W
  BY <1>1
<1>3. \A i, j \in Alive : by[i] = by[j] => i = j
  BY <1>1 DEF Executing
<1>4. by \in Injection(Alive, W)
  <2>1. by \in [Alive -> W]
    BY <1>2
  <2> HIDE DEF by
  <2>2. QED BY <1>3, <2>1 DEF Injection, IsInjective
<1> HIDE DEF by
<1>5. IsFiniteSet(W) /\ Cardinality(W) \in Nat
  BY SetsAssumption, FS_Subset, FS_CardinalityType
<1>6. IsFiniteSet(Alive) /\ Cardinality(Alive) <= Cardinality(W)
  BY <1>4, <1>5, FS_Injection
<1>7. IsFiniteSet(unmarked) /\ Cardinality(unmarked) \in Nat
  BY FS_CardinalityType DEF Accounted
<1>8. /\ IsFiniteSet(Alive \cup unmarked)
      /\ Cardinality(Alive \cup unmarked)
            = Cardinality(Alive) + Cardinality(unmarked) - Cardinality(Alive \cap unmarked)
  BY <1>6, <1>7, FS_Union
<1>9. Alive \cap unmarked = {} /\ Running \cup unmarked = Alive \cup unmarked
  OBVIOUS
<1>10. Cardinality(Alive \cap unmarked) = 0
  BY <1>9, FS_EmptySet
<1>11. Cardinality(Alive) \in Nat
  BY <1>6, FS_CardinalityType
<1>12. Cardinality(Running \cup unmarked) <= Cardinality(W) + Cardinality(unmarked)
  <2>1. Cardinality(Alive \cup unmarked) = Cardinality(Alive) + Cardinality(unmarked)
    <3> HIDE DEF Alive
    <3>1. QED BY <1>7, <1>8, <1>10, <1>11
  <2>2. Cardinality(Alive \cup unmarked) = Cardinality(Running \cup unmarked)
    BY <1>9
  <2> HIDE DEF Alive
  <2>3. QED BY <1>5, <1>6, <1>7, <1>11, <2>1, <2>2
<1>13. QED
  BY <1>5, <1>6, <1>8, <1>9, <1>12

(* A boot releases what was running, or cannot.                            *)
LEMMA ReleasedStep ==
    ASSUME QueueInv, Boot, UNCHANGED unmarked,
           job' = [j \in Job |-> IF j \in Running
                                 THEN [job[j] EXCEPT !.status = "queued"] ELSE job[j]]
    PROVE  QueueInv'
<1> USE DEF QueueInv
<1>1. /\ worker' = [w \in Worker |-> Idle] /\ faults < MaxFaults /\ faults' = faults + 1
      /\ UNCHANGED <<data, time, moved>>
  BY DEF Boot, Fault
<1>2. \A w \in Worker, j \in Job : ~ Executing(w, j)'
  BY <1>1 DEF Executing
<1>3. ASSUME NEW j \in Job
      PROVE  /\ job'[j] \in {NoJob} \cup JobRow /\ job'[j].status # "running"
             /\ job'[j] # NoJob => /\ job[j] # NoJob
                                   /\ job'[j].source = job[j].source
                                   /\ job'[j].target = job[j].target
  <2>1. CASE job[j].status = "running"
    <3>1. job'[j] = [job[j] EXCEPT !.status = "queued"]
      BY <2>1 DEF Running
    <3>2. job[j] \in JobRow /\ job[j] # NoJob
      BY <2>1, RowFacts DEF Statuses
    <3>3. QED BY <3>1, <3>2 DEF JobRow, Statuses
  <2>2. CASE job[j].status # "running"
    BY <2>2 DEF Running, TypeOK
  <2>3. QED BY <2>1, <2>2
<1>4. DOMAIN job' = Job /\ job' = [j \in DOMAIN job' |-> job'[j]]
  OBVIOUS
<1>5. job' \in [Job -> {NoJob} \cup JobRow]
  BY <1>3, <1>4
<1>6. faults' \in 0..MaxFaults /\ faults <= faults'
  BY <1>1, BoundsAssumption DEF TypeOK
<1>7. TypeOK'
  BY <1>1, <1>2, <1>5, <1>6 DEF data, TypeOK
<1>8. OneEach' /\ WingsDiffer'
  BY <1>2, <1>3 DEF OneEach, WingsDiffer
<1>9. Accounted'
  <2>1. IsFiniteSet(unmarked) /\ Cardinality(unmarked) \in Nat /\ faults \in Nat
    BY FS_CardinalityType, BoundsAssumption DEF Accounted, TypeOK
  <2>2. Left(faults) \in Nat /\ Left(faults') \in Nat /\ Left(faults) <= Left(faults')
    BY <1>1, <2>1, LeftGrows
  <2>3. QED BY <1>3, <2>1, <2>2 DEF Accounted, Running
<1>10. QED
  BY <1>7, <1>8, <1>9

LEMMA UnreleasedStep ==
    ASSUME QueueInv, Boot, UNCHANGED job, unmarked' = unmarked \cup Running
    PROVE  QueueInv'
<1> USE DEF QueueInv
<1>1. /\ worker' = [w \in Worker |-> Idle] /\ faults < MaxFaults /\ faults' = faults + 1
      /\ UNCHANGED <<data, time, moved>>
  BY DEF Boot, Fault
<1>2. \A w \in Worker, j \in Job : ~ Executing(w, j)'
  BY <1>1 DEF Executing
<1>3. faults \in Nat /\ faults' \in 0..MaxFaults
  BY <1>1, BoundsAssumption DEF TypeOK
<1>4. TypeOK'
  BY <1>1, <1>2, <1>3 DEF data, TypeOK, Running
<1>5. OneEach' /\ WingsDiffer'
  BY <1>2 DEF OneEach, WingsDiffer
<1>6. Accounted'
  <2>1. unmarked' = Running \cup unmarked
    OBVIOUS
  <2>2. IsFiniteSet(Running \cup unmarked)
        /\ Cardinality(Running \cup unmarked) <= Cardinality(Worker) + Cardinality(unmarked)
    BY WithWorkers
  <2>3. Cardinality(unmarked) <= Left(faults) /\ Cardinality(unmarked) \in Nat
    BY FS_CardinalityType DEF Accounted
  <2>4. Cardinality(Running \cup unmarked) \in Nat
    BY <2>2, FS_CardinalityType
  <2>5. Left(faults') = Left(faults) + Cardinality(Worker) /\ Left(faults) \in Nat
        /\ Cardinality(Worker) \in Nat
    BY <1>1, <1>3, LeftGrows
  <2>6. Cardinality(unmarked') <= Left(faults') /\ IsFiniteSet(unmarked')
    <3>1. PICK u : u = Running \cup unmarked
      OBVIOUS
    <3>2. Cardinality(u) <= Left(faults')
      BY <2>2, <2>3, <2>4, <2>5, <3>1
    <3>3. unmarked' = u /\ IsFiniteSet(u)
      BY <2>1, <2>2, <3>1
    <3> HIDE DEF QueueInv
    <3>4. QED BY ONLY <3>2, <3>3
  <2>7. Running' \subseteq unmarked'
    BY DEF Running
  <2>8. QED BY <2>6, <2>7 DEF Accounted
<1>7. QED
  BY <1>4, <1>5, <1>6

LEMMA BootStep == ASSUME QueueInv, Boot PROVE QueueInv'
BY ReleasedStep, UnreleasedStep DEF Boot

LEMMA QueueInvStep == QueueInv /\ [Next]_vars => QueueInv'
<1> SUFFICES ASSUME QueueInv, [Next]_vars PROVE QueueInv'
  OBVIOUS
<1>1. CASE UNCHANGED vars
  <2>1. \A w \in Worker, j \in Job : Executing(w, j)' <=> Executing(w, j)
    BY <1>1 DEF vars, Executing
  <2>2. QED
    BY <1>1, <2>1 DEF vars, QueueInv, TypeOK, OneEach, Accounted, Running, WingsDiffer
<1>2. CASE Next
  BY <1>2, ClientStep, ReadStep, ClaimStep, MergeStep, MarkStep, BootStep DEF Next, Run
<1>3. QED
  BY <1>1, <1>2

(* Every reachable state has its declared shape, and whatever a worker is  *)
(* executing is a running row, also after restarts and lost marks          *)
(* (mergejob.Worker, Repo.ClaimNext).                                      *)
THEOREM QueueTypeCorrect == Spec => []TypeOK
<1>1. QueueInv => TypeOK
  BY DEF QueueInv
<1>2. QED
  BY <1>1, QueueInit, QueueInvStep, PTL DEF Spec

-----------------------------------------------------------------------------
(* The life cycle.  A worker that claims a job executes no other, so the   *)
(* running jobs are those of other workers and those whose mark was lost.  *)
LEMMA ClaimFits ==
    ASSUME QueueInv, NEW w \in Worker, At(w, "claim")
    PROVE  Cardinality(Running) < (MaxFaults + 1) * Cardinality(Worker)
<1> USE DEF QueueInv
<1> DEFINE Others == Worker \ {w}
<1>1. \A j \in Running \ unmarked, v \in Worker : Executing(v, j) => v \in Others
  BY DEF At, Executing
<1>2. /\ Cardinality(Running \cup unmarked) <= Cardinality(Others) + Cardinality(unmarked)
      /\ IsFiniteSet(Running \cup unmarked)
  BY <1>1, WithWorkers
<1>3. /\ IsFiniteSet(Others) /\ Cardinality(Others) = Cardinality(Worker) - 1
      /\ Cardinality(Worker) \in Nat /\ Cardinality(Others) \in Nat
  BY SetsAssumption, FS_RemoveElement, FS_CardinalityType
<1>4. Cardinality(unmarked) <= Left(faults) /\ Cardinality(unmarked) \in Nat
  BY FS_CardinalityType DEF Accounted
<1>5. Running \in SUBSET (Running \cup unmarked)
  OBVIOUS
<1>6. /\ Cardinality(Running) <= Cardinality(Running \cup unmarked)
      /\ Cardinality(Running) \in Nat /\ Cardinality(Running \cup unmarked) \in Nat
  BY <1>2, <1>5, FS_Subset, FS_CardinalityType
<1>7. faults \in 0..MaxFaults /\ MaxFaults \in Nat
  BY BoundsAssumption DEF TypeOK
<1>8. /\ Left(faults) <= Left(MaxFaults) /\ Left(faults) \in Nat /\ Left(MaxFaults) \in Nat
      /\ Left(MaxFaults + 1) = Left(MaxFaults) + Cardinality(Worker)
  BY <1>7, LeftGrows
<1>9. Left(MaxFaults + 1) = (MaxFaults + 1) * Cardinality(Worker)
  BY DEF Left
<1> HIDE DEF Others
<1>10. Cardinality(Running) < Left(MaxFaults + 1)
  BY <1>2, <1>3, <1>4, <1>6, <1>8
<1>11. QED
  BY <1>9, <1>10

(* The status of one job as the dashboard sees it.                         *)
StatusOf == [j \in Job |-> job[j].status]

LEMMA Moves ==
    ASSUME NEW j \in Job, NEW s, job'[j].status = s,
           \A k \in Job : k # j => job'[k].status = job[k].status
    PROVE  StatusOf' = [StatusOf EXCEPT ![j] = s]
BY DEF StatusOf

LEMMA LifecycleStep ==
    ASSUME QueueInv, [Next]_vars
    PROVE  [Lifecycle!Next]_StatusOf
<1> USE DEF QueueInv
<1>0. UNCHANGED job => UNCHANGED StatusOf
  BY DEF StatusOf
<1>1. ASSUME NEW j \in Job, NEW source, NEW target, Enqueue(j, source, target)
      PROVE  Lifecycle!Enqueue(j)
  <2>1. job[j].status = "none"
    BY <1>1 DEF Enqueue, NoJob
  <2>2. job'[j].status = "queued" /\ \A k \in Job : k # j => job'[k].status = job[k].status
    BY <1>1 DEF Enqueue, TypeOK
  <2>3. QED BY <2>1, <2>2, Moves DEF Lifecycle!Enqueue, Lifecycle!Move, StatusOf
<1>2. ASSUME NEW w \in Worker, NEW j \in Job, j = worker[w].job, Claim(w)
      PROVE  Lifecycle!Claim(j) \/ UNCHANGED job
  <2>1. j \in Job
    OBVIOUS
  <2>2. CASE job[j].status = "queued"
    <3>1. job[j] \in JobRow /\ job' = [job EXCEPT ![j].status = "running"]
      BY <1>2, <2>1, <2>2, RowFacts DEF Claim, SetStatus, Statuses
    <3>2. job'[j].status = "running" /\ \A k \in Job : k # j => job'[k].status = job[k].status
      BY <2>1, <3>1 DEF TypeOK, JobRow
    <3>3. Cardinality(Lifecycle!Running) < (MaxFaults + 1) * Cardinality(Worker)
      <4>1. Lifecycle!Running = Running
        BY DEF Lifecycle!Running, Running
      <4>2. QED BY <1>2, <4>1, ClaimFits DEF Claim
    <3>4. Lifecycle!Cardinality(Lifecycle!Running) = Cardinality(Lifecycle!Running)
      BY DEF Lifecycle!Cardinality, Cardinality
    <3>5. QED
      BY <2>1, <2>2, <3>2, <3>3, <3>4, Moves DEF Lifecycle!Claim, Lifecycle!Move, StatusOf
  <2>3. CASE job[j].status # "queued"
    BY <1>2, <2>3 DEF Claim
  <2>4. QED BY <2>2, <2>3
<1>3. ASSUME NEW w \in Worker, NEW j \in Job, j = worker[w].job, MarkDone(w) \/ MarkFailed(w)
      PROVE  Lifecycle!Settle(j)
  <2>1. j \in Job /\ Executing(w, j)
    BY <1>3 DEF MarkDone, MarkFailed, At, Executing
  <2>2. job[j].status = "running" /\ job[j] \in JobRow
    BY <2>1, RowFacts DEF TypeOK, Statuses
  <2>3. PICK s \in {"done", "failed"} :
           \E n : job' = [job EXCEPT ![j].status = s, ![j].drawers = n]
    BY <1>3, <2>2 DEF MarkDone, MarkFailed, Mark
  <2>4. job'[j].status = s /\ \A k \in Job : k # j => job'[k].status = job[k].status
    BY <2>1, <2>2, <2>3 DEF TypeOK, JobRow
  <2>5. QED
    BY <2>1, <2>2, <2>4, Moves DEF Lifecycle!Settle, Lifecycle!Move, StatusOf
<1>4. CASE Boot
  <2>1. CASE job' = [j \in Job |-> IF j \in Running
                                   THEN [job[j] EXCEPT !.status = "queued"] ELSE job[j]]
    <3>1. \A j \in Job : job'[j].status = IF job[j].status = "running" THEN "queued"
                                                                      ELSE job[j].status
      <4>1. ASSUME NEW j \in Job, job[j].status = "running"
            PROVE  job'[j].status = "queued"
        <5>1. job[j] \in JobRow /\ job'[j] = [job[j] EXCEPT !.status = "queued"]
          BY <2>1, <4>1, RowFacts DEF Running, Statuses
        <5>2. QED BY <5>1 DEF JobRow
      <4>2. QED BY <2>1, <4>1 DEF Running
    <3>2. QED BY <3>1 DEF Lifecycle!Next, Lifecycle!Reclaim, StatusOf
  <2>2. CASE UNCHANGED job
    BY <1>0, <2>2
  <2>3. QED BY <1>4, <2>1, <2>2 DEF Boot
<1>5. ASSUME NEW w \in Worker, Run(w) \/ MergeFails(w) \/ MarkFails(w)
      PROVE  Lifecycle!Next \/ UNCHANGED job
  <2>1. ASSUME Claim(w) PROVE Lifecycle!Next \/ UNCHANGED job
    <3>1. PICK j \in Job : j = worker[w].job
      BY <2>1, BusyFacts DEF Claim, At
    <3>2. QED BY <1>2, <2>1, <3>1 DEF Lifecycle!Next
  <2>2. ASSUME MarkDone(w) \/ MarkFailed(w) PROVE Lifecycle!Next
    <3>1. PICK j \in Job : j = worker[w].job
      BY <2>2, BusyFacts DEF MarkDone, MarkFailed, At
    <3>2. QED BY <1>3, <2>2, <3>1 DEF Lifecycle!Next
  <2>3. QED
    BY <1>5, <2>1, <2>2 DEF Run, ReadOldest, RelabelDrawers, RelabelClosets, RecomputeGraph,
       MergeFails, MarkFails
<1>6. CASE UNCHANGED vars
  BY <1>0, <1>6 DEF vars
<1>7. QED
  BY <1>0, <1>1, <1>4, <1>5, <1>6 DEF Next, Lifecycle!Next, File, Tick

(* The rows of merge_jobs implement the life cycle of MergeJobs: a settled *)
(* job is never touched again, a restart only takes running ones back, and *)
(* no more run than there are workers and lost marks.                      *)
THEOREM QueueImplementsLifecycle == Spec => ImplementsLifecycle
<1>1. Init => Lifecycle!Init
  BY DEF Init, Lifecycle!Init, NoJob
<1>2. QueueInv /\ [Next]_vars => [Lifecycle!Next]_StatusOf
  BY LifecycleStep
<1>3. QED
  BY <1>1, <1>2, QueueInit, QueueInvStep, PTL
     DEF Spec, ImplementsLifecycle, Lifecycle!Spec, StatusOf

-----------------------------------------------------------------------------
(* The one worker of the server: what its steps have moved out of the      *)
(* source wing stays out, for nobody else relabels and filing leaves a     *)
(* drawer where it is.                                                     *)
OneWorker == \A v, w \in Worker : v = w

Past(w, steps) == worker[w] # Idle /\ worker[w].step \in steps
DueAreFiled(w) == Past(w, {"drawers", "closets", "graph", "done"}) =>
    /\ \A d \in worker[w].due : drawerWing[d] # None
    /\ \A c \in worker[w].dueClosets : closetWing[c] # None
DueMoved(w) == Past(w, {"closets", "graph", "done"}) =>
    \A d \in worker[w].due : drawerWing[d] # Source(w)
DueClosetsMoved(w) == Past(w, {"graph", "done"}) =>
    \A c \in worker[w].dueClosets : closetWing[c] # Source(w)
GraphPruned(w) == Past(w, {"done"}) => (Source(w) \in graph => Drawers(Source(w)) # {})

Merges(w) == DueAreFiled(w) /\ DueMoved(w) /\ DueClosetsMoved(w) /\ GraphPruned(w)
MergedInv == QueueInv /\ \A w \in Worker : Merges(w)

(* The wings of a job that is executed are wings, and two.                 *)
LEMMA Merging ==
    ASSUME QueueInv, NEW w \in Worker, worker[w] # Idle, worker[w].step # "claim"
    PROVE  /\ worker[w] \in Busy /\ worker[w].job \in Job
           /\ job[worker[w].job] \in JobRow
           /\ Source(w) \in Wing /\ Target(w) \in Wing /\ Source(w) # Target(w)
           /\ Source(w) # None /\ Target(w) # None
<1>1. worker[w] \in Busy /\ worker[w].job \in Job /\ Executing(w, worker[w].job)
  BY BusyFacts DEF Executing, QueueInv
<1>2. job[worker[w].job] \in JobRow /\ job[worker[w].job] # NoJob
  BY <1>1, RowFacts DEF QueueInv, TypeOK, Statuses
<1>3. QED
  BY <1>1, <1>2, NoneAssumption DEF QueueInv, WingsDiffer, Source, Target, JobRow

(* Filing a drawer or a closet does not undo a merge.                      *)
LEMMA FilingKeeps ==
    ASSUME MergedInv, NEW w \in Worker, UNCHANGED worker, Source(w)' = Source(w),
           graph' = graph,
           \A d \in Drawer : drawerWing[d] # None => drawerWing'[d] = drawerWing[d],
           \A c \in Closet : closetWing[c] # None => closetWing'[c] = closetWing[c]
    PROVE  Merges(w)'
<1>1. CASE worker[w] = Idle \/ worker[w].step = "claim" \/ worker[w].step = "failed"
  BY <1>1 DEF Merges, DueAreFiled, DueMoved, DueClosetsMoved, GraphPruned, Past
<1>2. CASE worker[w] # Idle /\ worker[w].step \in {"drawers", "closets", "graph", "done"}
  <2>1. worker[w].due \subseteq Drawer /\ worker[w].dueClosets \subseteq Closet /\ Source(w) # None
    BY <1>2, Merging DEF MergedInv, Busy
  <2>2. DueAreFiled(w)' /\ DueMoved(w)' /\ DueClosetsMoved(w)'
    BY <1>2, <2>1 DEF MergedInv, Merges, DueAreFiled, DueMoved, DueClosetsMoved, Past
  <2>3. Drawers(Source(w)) # {} => Drawers(Source(w))' # {}
    BY <2>1 DEF Drawers
  <2>4. GraphPruned(w)'
    BY <2>3 DEF MergedInv, Merges, GraphPruned, Past
  <2>5. QED BY <2>2, <2>4 DEF Merges
<1>3. QED
  <2>1. worker[w] = Idle \/ worker[w] \in Busy
    BY DEF MergedInv, QueueInv, TypeOK
  <2>2. QED BY <1>1, <1>2, <2>1 DEF Busy

LEMMA ClaimMerges ==
    ASSUME MergedInv, NEW w \in Worker, Claim(w) PROVE Merges(w)'
<1>1. CASE job[worker[w].job].status # "queued"
  <2>1. worker'[w] = Idle
    BY <1>1 DEF Claim, MergedInv, QueueInv, TypeOK
  <2>2. QED BY <2>1 DEF Merges, DueAreFiled, DueMoved, DueClosetsMoved, GraphPruned, Past
<1>2. CASE job[worker[w].job].status = "queued"
  <2>1. /\ worker'[w].step = "drawers"
        /\ worker'[w].due = Drawers(Source(w)) /\ worker'[w].dueClosets = Closets(Source(w))
    BY <1>2, Claims DEF MergedInv, QueueInv
  <2>2. Source(w) # None
    <3>1. worker[w].job \in Job
      BY BusyFacts DEF Claim, At, MergedInv, QueueInv
    <3>2. QED
      BY <1>2, <3>1, RowFacts, NoneAssumption DEF MergedInv, QueueInv, Source, JobRow, Statuses
  <2>3. UNCHANGED <<drawerWing, closetWing>>
    BY DEF Claim, data
  <2>4. QED
    BY <2>1, <2>2, <2>3
       DEF Merges, DueAreFiled, DueMoved, DueClosetsMoved, GraphPruned, Past, Drawers, Closets
<1>3. QED BY <1>1, <1>2

LEMMA RelabelMerges ==
    ASSUME MergedInv, NEW w \in Worker, RelabelDrawers(w) \/ RelabelClosets(w)
    PROVE  Merges(w)'
<1> USE DEF Merges, DueAreFiled, DueMoved, DueClosetsMoved, GraphPruned, Past
<1>1. /\ worker[w] # Idle /\ worker[w].step \in {"drawers", "closets"}
      /\ worker[w] \in Busy /\ Source(w) # Target(w) /\ Source(w) # None /\ Target(w) # None
      /\ Target(w) \in Wing
  BY Merging DEF RelabelDrawers, RelabelClosets, At, MergedInv
<1>2. /\ worker'[w].job = worker[w].job /\ job' = job
      /\ worker'[w].due = worker[w].due /\ worker'[w].dueClosets = worker[w].dueClosets
  BY <1>1, Relabels, Advances DEF RelabelDrawers, RelabelClosets, MergedInv, QueueInv
<1>3. Source(w)' = Source(w)
  BY <1>2 DEF Source
<1>4. worker[w].due \subseteq Drawer /\ worker[w].dueClosets \subseteq Closet
  BY <1>1 DEF Busy
<1>5. CASE RelabelDrawers(w)
  <2>1. \A d \in Drawer : drawerWing'[d] = IF drawerWing[d] = Source(w) THEN Target(w) ELSE drawerWing[d]
    BY <1>1, <1>5, Relabelled DEF RelabelDrawers, MergedInv, QueueInv, TypeOK
  <2>2. worker'[w].step = "closets" /\ closetWing' = closetWing
    BY <1>5, Relabels DEF RelabelDrawers, MergedInv, QueueInv
  <2>3. QED BY <1>1, <1>2, <1>3, <1>4, <2>1, <2>2 DEF MergedInv
<1>6. CASE RelabelClosets(w)
  <2>1. \A c \in Closet : closetWing'[c] = IF closetWing[c] = Source(w) THEN Target(w) ELSE closetWing[c]
    BY <1>1, <1>6, Relabelled DEF RelabelClosets, MergedInv, QueueInv, TypeOK
  <2>2. worker'[w].step = "graph" /\ drawerWing' = drawerWing
    BY <1>1, <1>6, Advances DEF RelabelClosets, MergedInv, QueueInv
  <2>3. worker[w].step = "closets"
    BY <1>6 DEF RelabelClosets, At
  <2>4. QED BY <1>1, <1>2, <1>3, <1>4, <2>1, <2>2, <2>3 DEF MergedInv
<1>7. QED BY <1>5, <1>6

LEMMA GraphMerges ==
    ASSUME MergedInv, NEW w \in Worker, RecomputeGraph(w) PROVE Merges(w)'
<1>1. /\ worker[w] # Idle /\ worker[w].step = "graph"
      /\ worker'[w].job = worker[w].job /\ worker'[w].step = "done"
      /\ worker'[w].due = worker[w].due /\ worker'[w].dueClosets = worker[w].dueClosets
  BY Advances DEF RecomputeGraph, At, MergedInv, QueueInv
<1>2. UNCHANGED <<job, drawerWing, closetWing>> /\ graph' = Wings
  BY DEF RecomputeGraph
<1>3. Source(w)' = Source(w) /\ Drawers(Source(w))' = Drawers(Source(w))
  BY <1>1, <1>2 DEF Source, Drawers
<1>4. Source(w) \in Wings => Drawers(Source(w)) # {}
  BY DEF Wings, Drawers
<1>5. QED
  BY <1>1, <1>2, <1>3, <1>4
     DEF MergedInv, Merges, DueAreFiled, DueMoved, DueClosetsMoved, GraphPruned, Past

LEMMA EndMerges ==
    ASSUME MergedInv, NEW w \in Worker,
           \/ ReadOldest(w) \/ MarkDone(w) \/ MarkFailed(w) \/ MergeFails(w) \/ MarkFails(w)
           \/ Boot
    PROVE  Merges(w)'
<1>1. worker'[w] = Idle \/ worker'[w].step \in {"claim", "failed"}
  <2>1. CASE ReadOldest(w)
    BY <2>1 DEF ReadOldest, MergedInv, QueueInv, TypeOK
  <2>2. CASE MergeFails(w)
    BY <2>2, Advances DEF MergeFails, At, MergedInv, QueueInv
  <2>3. CASE MarkDone(w) \/ MarkFailed(w) \/ MarkFails(w)
    BY <2>3, Leaves DEF MarkDone, MarkFailed, Mark, MarkFails, MergedInv, QueueInv
  <2>4. CASE Boot
    BY <2>4 DEF Boot
  <2>5. QED BY <2>1, <2>2, <2>3, <2>4
<1>2. QED
  BY <1>1 DEF Merges, DueAreFiled, DueMoved, DueClosetsMoved, GraphPruned, Past

LEMMA MergedInvStep == OneWorker => (MergedInv /\ [Next]_vars => MergedInv')
<1> SUFFICES ASSUME OneWorker, MergedInv, [Next]_vars PROVE MergedInv'
  OBVIOUS
<1>1. QueueInv'
  BY QueueInvStep DEF MergedInv
<1>2. ASSUME NEW w \in Worker PROVE Merges(w)'
  <2>1. ASSUME NEW d \in Drawer, NEW wing \in Wing, NEW cs \in SUBSET Closet, File(d, wing, cs)
        PROVE  Merges(w)'
    <3>1. /\ \A e \in Drawer : drawerWing[e] # None => drawerWing'[e] = drawerWing[e]
          /\ \A c \in Closet : closetWing[c] # None => closetWing'[c] = closetWing[c]
      BY <2>1 DEF File, MergedInv, QueueInv, TypeOK
    <3>2. UNCHANGED <<worker, job, graph>>
      BY <2>1 DEF File
    <3>3. Source(w)' = Source(w)
      BY <3>2 DEF Source
    <3>4. QED BY <3>1, <3>2, <3>3, FilingKeeps
  <2>2. CASE Tick \/ UNCHANGED vars
    <3>1. UNCHANGED <<worker, job, drawerWing, closetWing, graph>>
      BY <2>2 DEF Tick, vars, data
    <3>2. Source(w)' = Source(w)
      BY <3>1 DEF Source
    <3>3. QED BY <3>1, <3>2, FilingKeeps
  <2>3. ASSUME NEW j \in Job, NEW source \in Wing, NEW target \in Wing, Enqueue(j, source, target)
        PROVE  Merges(w)'
    <3>1. UNCHANGED <<worker, drawerWing, closetWing, graph>>
      BY <2>3 DEF Enqueue, data
    <3>2. CASE worker[w] # Idle /\ worker[w].step # "claim"
      <4>1. job[worker[w].job] \in JobRow /\ worker[w].job \in Job
        BY <3>2, Merging DEF MergedInv
      <4>2. worker[w].job # j
        BY <2>3, <4>1 DEF Enqueue, NoJob, JobRow, Statuses
      <4>3. Source(w)' = Source(w)
        BY <2>3, <3>1, <4>1, <4>2 DEF Enqueue, Source, MergedInv, QueueInv, TypeOK
      <4>4. QED BY <3>1, <4>3, FilingKeeps
    <3>3. CASE worker[w] = Idle \/ worker[w].step = "claim"
      BY <3>1, <3>3 DEF Merges, DueAreFiled, DueMoved, DueClosetsMoved, GraphPruned, Past
    <3>4. QED BY <3>2, <3>3
  <2>4. ASSUME NEW v \in Worker, Run(v) \/ MergeFails(v) \/ MarkFails(v)
        PROVE  Merges(w)'
    <3>1. v = w
      BY DEF OneWorker
    <3>2. QED
      BY <2>4, <3>1, ClaimMerges, RelabelMerges, GraphMerges, EndMerges DEF Run
  <2>5. CASE Boot
    BY <2>5, EndMerges
  <2>6. QED
    BY <2>1, <2>2, <2>3, <2>4, <2>5 DEF Next
<1>3. QED
  BY <1>1, <1>2 DEF MergedInv

(* With the one worker the server runs, a job marked done has left nothing *)
(* it found in the source wing there, drawer or closet, and no hallways of *)
(* a wing without drawers (palace.MergeWing).                              *)
THEOREM DoneMeansMergedByOne == OneWorker => (Spec => DoneMeansMerged)
<1> SUFFICES ASSUME OneWorker PROVE Spec => DoneMeansMerged
  OBVIOUS
<1> DEFINE Merged(w) == /\ \A d \in worker[w].due : drawerWing[d] # Source(w)
                        /\ \A c \in worker[w].dueClosets : closetWing[c] # Source(w)
                        /\ Source(w) \in graph => Drawers(Source(w)) # {}
<1>1. Init => MergedInv
  <2>1. Init => \A w \in Worker : worker[w] = Idle
    BY DEF Init
  <2>2. QED
    BY <2>1, QueueInit
       DEF MergedInv, Merges, DueAreFiled, DueMoved, DueClosetsMoved, GraphPruned, Past
<1>2. MergedInv /\ [Next]_vars => MergedInv'
  BY MergedInvStep
<1>3. MergedInv => \A w \in Worker : MarkDone(w) => Merged(w)
  BY DEF MarkDone, At, MergedInv, Merges, DueMoved, DueClosetsMoved, GraphPruned, Past
<1>4. QED
  BY <1>1, <1>2, <1>3, PTL DEF Spec, DoneMeansMerged
=============================================================================
