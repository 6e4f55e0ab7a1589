----------------------------- MODULE DrawerStore -----------------------------
(***************************************************************************)
(* The write side of one workspace's memory: a drawer is a metadata row    *)
(* (SQLite table `drawers`) joined by id to an embedding that is stored    *)
(* twice, in the source of truth (table `vectors`) and in a search index   *)
(* layered on it (store.Hybrid).  No transaction spans the three, so every *)
(* operation is a sequence of separate store calls, and request handlers,  *)
(* the background embed worker, failures and crashes interleave between    *)
(* them.                                                                   *)
(*                                                                         *)
(* A drawer's text is abstracted to an edit number: 0 is the text its id   *)
(* is a hash of, every update_drawer stores a fresh number.  A vector is   *)
(* the number of the text it was computed from.                            *)
(***************************************************************************)
EXTENDS Integers, FiniteSets

CONSTANTS
    Id,         \* drawer ids (content hashes, palace.DrawerID)
    Handler,    \* concurrent request handlers
    Ops,        \* operations the handlers issue, a subset of AllOps
    FiledAt,    \* filed_at of each id: the order PendingDrawers serves them
    Batch,      \* rows the worker embeds per call (embedBatch)
    MaxEdits,   \* bound: updates begun in a behaviour
    MaxFaults   \* bound: failed store calls and crashes in a behaviour

AllOps == {"file", "absorb", "update", "move", "delete"}

ASSUME OpsAssumption == Ops \subseteq AllOps
ASSUME BatchAssumption == Batch \in Nat \ {0}
ASSUME BoundsAssumption == MaxEdits \in Nat /\ MaxFaults \in Nat
ASSUME FiledAtAssumption == FiledAt \in [Id -> Nat]

VARIABLES
    row,        \* row[i]: text of drawer i, None when it has no row
    stamped,    \* ids whose row has embedded_at set; the other rows are pending
    sot,        \* sot[i]: text the source of truth's vector of i was made from
    index,      \* the same for the search index
    op,         \* op[h]: what handler h is in the middle of
    worker,     \* the embed worker: its step and the batch it has read
    edits,      \* updates begun so far
    faults,     \* failures and crashes so far
    erased      \* history: ids on which a delete_drawer has begun

vars == <<row, stamped, sot, index, op, worker, edits, faults, erased>>

None == -1
Text == 0..MaxEdits
Original == 0

Rows == {i \in Id : row[i] # None}
Pending == Rows \ stamped

Idle == [kind |-> "none", id |-> None, text |-> None, step |-> "idle"]

(* The next store call of a handler: write or drop the SoT vector, the     *)
(* index vector, then (Writes) the row.                                    *)
Writes == {"file", "update", "move"}
Busy == [kind : Writes, id : Id, text : Text, step : {"sot", "index", "row"}]
        \cup [kind : {"delete"}, id : Id, text : Text, step : {"sot", "index"}]

NoBatch == [i \in Id |-> None]
WorkerIdle == [step |-> "idle", batch |-> NoBatch]
InBatch == {i \in Id : worker.batch[i] # None}

(* Types; embedded_at is a column, so only an existing row is stamped.     *)
TypeOK ==
    /\ row \in [Id -> Text \cup {None}]
    /\ sot \in [Id -> Text \cup {None}]
    /\ index \in [Id -> Text \cup {None}]
    /\ stamped \subseteq Rows
    /\ op \in [Handler -> {Idle} \cup Busy]
    /\ worker \in [step : {"idle", "sot", "index", "mark"},
                   batch : [Id -> Text \cup {None}]]
    /\ edits \in 0..MaxEdits
    /\ faults \in 0..MaxFaults
    /\ erased \subseteq Id

Init ==
    /\ row = [i \in Id |-> None]
    /\ sot = [i \in Id |-> None]
    /\ index = [i \in Id |-> None]
    /\ stamped = {}
    /\ op = [h \in Handler |-> Idle]
    /\ worker = WorkerIdle
    /\ edits = 0
    /\ faults = 0
    /\ erased = {}

-----------------------------------------------------------------------------
(* Request handlers.                                                       *)

Begin(h, kind, i, text) ==
    /\ kind \in Ops
    /\ op[h] = Idle
    /\ op' = [op EXCEPT ![h] =
                [kind |-> kind, id |-> i, text |-> text, step |-> "sot"]]

(* add_drawer without a source and diary_write: the text is chunked and    *)
(* embedded first (a failed embed changes nothing), then storeDrawers.     *)
BeginFile(h, i) ==
    /\ Begin(h, "file", i, Original)
    /\ UNCHANGED <<row, stamped, sot, index, worker, edits, faults, erased>>

(* update_drawer: the row must exist when it is read; the new text is      *)
(* embedded before any store is touched.                                   *)
BeginUpdate(h, i) ==
    /\ i \in Rows
    /\ edits < MaxEdits
    /\ Begin(h, "update", i, edits + 1)
    /\ edits' = edits + 1
    /\ UNCHANGED <<row, stamped, sot, index, worker, faults, erased>>

(* update_drawer with a new wing or room alone: the text just read is      *)
(* embedded again and its vector written like an edited one.               *)
BeginMove(h, i) ==
    /\ i \in Rows
    /\ Begin(h, "move", i, row[i])
    /\ UNCHANGED <<row, stamped, sot, index, worker, edits, faults, erased>>

(* delete_drawer: the row goes first, the vectors follow.  Deleting an     *)
(* absent row is not an error.                                             *)
BeginDelete(h, i) ==
    /\ Begin(h, "delete", i, Original)
    /\ row' = [row EXCEPT ![i] = None]
    /\ stamped' = stamped \ {i}
    /\ erased' = erased \cup {i}
    /\ UNCHANGED <<sot, index, worker, edits, faults>>

VectorAfter(h) == IF op[h].kind = "delete" THEN None ELSE op[h].text

(* store.Hybrid writes and deletes the source of truth first.  The embed   *)
(* worker and the handlers of one process share no lock on a drawer.       *)
WriteSoT(h) ==
    /\ op[h].step = "sot"
    /\ sot' = [sot EXCEPT ![op[h].id] = VectorAfter(h)]
    /\ op' = [op EXCEPT ![h].step = "index"]
    /\ UNCHANGED <<row, stamped, index, worker, edits, faults, erased>>

WriteIndexNeverDeletes(h) ==
    /\ op[h].step = "index"
    /\ index' = IF op[h].kind = "delete" THEN index
                ELSE [index EXCEPT ![op[h].id] = op[h].text]
    /\ op' = IF op[h].kind = "delete" THEN [op EXCEPT ![h] = Idle]
                                      ELSE [op EXCEPT ![h].step = "row"]
    /\ UNCHANGED <<row, stamped, sot, worker, edits, faults, erased>>

WriteIndex(h) ==
    /\ op[h].step = "index"
    /\ index' = [index EXCEPT ![op[h].id] = VectorAfter(h)]
    /\ op' = IF op[h].kind = "delete" THEN [op EXCEPT ![h] = Idle]
                                      ELSE [op EXCEPT ![h].step = "row"]
    /\ UNCHANGED <<row, stamped, sot, worker, edits, faults, erased>>

(* Repo.Save: insert or replace the row and stamp embedded_at.             *)
SaveRow(h) ==
    /\ op[h].step = "row" /\ op[h].kind = "file"
    /\ row' = [row EXCEPT ![op[h].id] = op[h].text]
    /\ stamped' = stamped \cup {op[h].id}
    /\ op' = [op EXCEPT ![h] = Idle]
    /\ UNCHANGED <<sot, index, worker, edits, faults, erased>>

(* Repo.Update: the row may be gone by now (ErrRecordNotFound); a move     *)
(* leaves the text alone, both leave embedded_at as it is.                 *)
UpdateRow(h) ==
    /\ op[h].step = "row" /\ op[h].kind \in {"update", "move"}
    /\ row' = IF op[h].kind = "update" /\ op[h].id \in Rows
              THEN [row EXCEPT ![op[h].id] = op[h].text] ELSE row
    /\ op' = [op EXCEPT ![h] = Idle]
    /\ UNCHANGED <<stamped, sot, index, worker, edits, faults, erased>>

(* AbsorbDrawers -> SaveUnembedded, one statement for the batch: a new row *)
(* has embedded_at NULL, an existing one gets its columns back from the    *)
(* imported record and keeps its embedded_at.                              *)
AbsorbRequeues(batch) ==
    /\ "absorb" \in Ops
    /\ row' = [i \in Id |-> IF i \in batch THEN Original ELSE row[i]]
    /\ stamped' = stamped \ batch
    /\ UNCHANGED <<sot, index, op, worker, edits, faults, erased>>

Absorb(batch) ==
    /\ "absorb" \in Ops
    /\ row' = [i \in Id |-> IF i \in batch THEN Original ELSE row[i]]
    /\ UNCHANGED <<stamped, sot, index, op, worker, edits, faults, erased>>

-----------------------------------------------------------------------------
(* The embed worker (EmbedPendingForTeam, drawers).                        *)

(* PendingDrawers: the oldest rows first, at most Batch of them.           *)
OldestPending(b) ==
    /\ b \subseteq Pending
    /\ b # {}
    /\ \A i \in b, j \in Pending \ b : FiledAt[i] <= FiledAt[j]
    /\ \/ b = Pending /\ Cardinality(b) <= Batch
       \/ b # Pending /\ Cardinality(b) = Batch

(* Any rows of the queue, in whatever order the table has them.            *)
ReadPendingUnordered ==
    /\ worker.step = "idle"
    /\ \E b \in SUBSET Pending :
          /\ b # {} /\ (Cardinality(b) = Batch \/ (b = Pending /\ Cardinality(b) < Batch))
          /\ worker' = [step |-> "sot",
                        batch |-> [i \in Id |-> IF i \in b THEN row[i] ELSE None]]
    /\ UNCHANGED <<row, stamped, sot, index, op, edits, faults, erased>>

ReadPending ==
    /\ worker.step = "idle"
    /\ \E b \in SUBSET Id :
          /\ OldestPending(b)
          /\ worker' = [step |-> "sot",
                        batch |-> [i \in Id |-> IF i \in b THEN row[i] ELSE None]]
    /\ UNCHANGED <<row, stamped, sot, index, op, edits, faults, erased>>

WithBatch(vectors) ==
    [i \in Id |-> IF i \in InBatch THEN worker.batch[i] ELSE vectors[i]]

(* The text read with the batch has been embedded; it is not read again.   *)
IndexSoT ==
    /\ worker.step = "sot"
    /\ sot' = WithBatch(sot)
    /\ worker' = [worker EXCEPT !.step = "index"]
    /\ UNCHANGED <<row, stamped, index, op, edits, faults, erased>>

IndexSearch ==
    /\ worker.step = "index"
    /\ index' = WithBatch(index)
    /\ worker' = [worker EXCEPT !.step = "mark"]
    /\ UNCHANGED <<row, stamped, sot, op, edits, faults, erased>>

(* MarkDrawersEmbedded: whatever rows exist under the ids of the batch.    *)
MarkEmbeddedUpserts ==
    /\ worker.step = "mark"
    /\ stamped' = stamped \cup InBatch
    /\ worker' = WorkerIdle
    /\ UNCHANGED <<row, sot, index, op, edits, faults, erased>>

MarkEmbedded ==
    /\ worker.step = "mark"
    /\ stamped' = stamped \cup (InBatch \cap Rows)
    /\ worker' = WorkerIdle
    /\ UNCHANGED <<row, sot, index, op, edits, faults, erased>>

-----------------------------------------------------------------------------
(* Failures: a store call returns an error and the operation stops where   *)
(* it is; a crash stops all of them.                                       *)

HandlerIgnoresError(h) ==
    /\ op[h].step = "sot"
    /\ faults < MaxFaults
    /\ faults' = faults + 1
    /\ op' = [op EXCEPT ![h].step = "index"]
    /\ UNCHANGED <<row, stamped, sot, index, worker, edits, erased>>

HandlerFails(h) ==
    /\ op[h] # Idle
    /\ faults < MaxFaults
    /\ faults' = faults + 1
    /\ op' = [op EXCEPT ![h] = Idle]
    /\ UNCHANGED <<row, stamped, sot, index, worker, edits, erased>>

WorkerIgnoresError ==
    /\ worker.step = "sot"
    /\ faults < MaxFaults
    /\ faults' = faults + 1
    /\ worker' = [worker EXCEPT !.step = "mark"]
    /\ UNCHANGED <<row, stamped, sot, index, op, edits, erased>>

WorkerFails ==
    /\ worker.step # "idle"
    /\ faults < MaxFaults
    /\ faults' = faults + 1
    /\ worker' = WorkerIdle
    /\ UNCHANGED <<row, stamped, sot, index, op, edits, erased>>

Crash ==
    /\ faults < MaxFaults
    /\ faults' = faults + 1
    /\ op' = [h \in Handler |-> Idle]
    /\ worker' = WorkerIdle
    /\ UNCHANGED <<row, stamped, sot, index, edits, erased>>

WorkerStep == ReadPending \/ IndexSoT \/ IndexSearch \/ MarkEmbedded

HandlerStep(h) == WriteSoT(h) \/ WriteIndex(h) \/ SaveRow(h) \/ UpdateRow(h)

Next ==
    \/ \E h \in Handler, i \in Id :
          BeginFile(h, i) \/ BeginUpdate(h, i) \/ BeginMove(h, i) \/ BeginDelete(h, i)
    \/ \E h \in Handler : HandlerStep(h) \/ HandlerFails(h)
    \/ \E batch \in SUBSET Id : Absorb(batch)
    \/ WorkerStep
    \/ WorkerFails
    \/ Crash

Spec == Init /\ [][Next]_vars

(* The worker goroutine keeps running (embedworker.Worker.Run); clients    *)
(* owe nothing.                                                            *)
FairSpec == Spec /\ WF_vars(WorkerStep)

-----------------------------------------------------------------------------
(* Properties.                                                             *)

(* A row that left the embedding queue has its vector in the source of     *)
(* truth, whatever handlers, worker, errors and crashes do, unless some    *)
(* delete_drawer was issued on its id (storeDrawers, EmbedPendingForTeam:  *)
(* vectors before rows, vectors before the stamp).                         *)
VectorlessOnlyAfterErase ==
    \A i \in stamped : sot[i] = None => i \in erased

(* A vector is durable before the search index ever sees it (store.Hybrid),*)
(* again unless a delete_drawer was issued on the id.                      *)
IndexOnlyAfterSoT ==
    \A i \in Id : index[i] # None /\ sot[i] = None => i \in erased

(* When one request at a time is served and nothing was absorbed, an       *)
(* operation that runs to its end leaves row, source of truth and index    *)
(* agreeing on its drawer, whatever earlier failed operations and crashes  *)
(* left behind: repeating a failed call repairs the drawer.                *)
CompletionAgrees ==
    [][\A h \in Handler :
          (op[h] # Idle /\ op'[h] = Idle /\ faults' = faults) =>
             LET i == op[h].id IN row'[i] = sot'[i] /\ sot'[i] = index'[i]]_vars

(* A row joins the queue that is served before row i: an import brings its *)
(* filed_at along, so it may be older than rows that wait already.         *)
OlderArrives(i) ==
    \E j \in Id \ {i} : /\ FiledAt[j] <= FiledAt[i]
                         /\ j \notin Pending /\ j \in Pending'

(* Every row in the embedding queue leaves it, however many younger rows   *)
(* are imported, deleted and imported again meanwhile, unless older ones   *)
(* keep arriving for ever: the worker takes the oldest (repo.go:115-123),  *)
(* given that the embedder and the stores eventually answer.               *)
PendingSettles ==
    \A i \in Id : \/ []<><<OlderArrives(i)>>_vars
                  \/ (i \in Pending) ~> (i \notin Pending)

Stage(i) == IF i \in erased          THEN "erased"
            ELSE IF i \notin Rows    THEN "absent"
            ELSE IF i \notin stamped THEN "pending"
            ELSE IF sot[i] # None    THEN "indexed"
            ELSE "lost"

Lifecycle == INSTANCE DrawerLifecycle WITH stage <- [i \in Id |-> Stage(i)]

(* The store implements the life cycle of a drawer: it is searchable when  *)
(* add_drawer returns, an import never makes it less so, and "lost"        *)
(* (stamped without a vector) is no stage at all.                          *)
ImplementsLifecycle == Lifecycle!Spec
=============================================================================
