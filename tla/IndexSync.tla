------------------------------ MODULE IndexSync ------------------------------
(* The vector store as a durable half and a rebuildable one                *)
(* (store/hybrid.go, store/qdrant, store/chromemvec): what a write leaves   *)
(* when its second half fails, the sync command that replays SQLite into    *)
(* Qdrant while the server goes on writing (cmd/server/sync.go), and the    *)
(* chromem index of a directory, loaded at a boot that refills the          *)
(* namespaces it finds empty (cmd/server/main.go).                          *)
EXTENDS Naturals, FiniteSets, FiniteSetsExt

CONSTANTS
    Namespace,      \* teams, and the closets of teams
    Point,
    Writer,         \* requests and workers of the running server
    UpsertBatch,    \* points of one request to Qdrant: 256
    MaxVersion,     \* bound: contents of a point
    MaxWrites       \* bound: writes of a behaviour

VARIABLES
    backend,        \* "qdrant" or "chromem"
    sot,            \* content of a point in SQLite, 0 for none
    index,          \* the same in what serves the searches
    made,           \* namespaces whose collection exists in the index
    disk,           \* chromem: the directory, which the running index persists to
    up,             \* the server runs
    write,          \* the step each writer is in
    writes,         \* writes so far
    sync,           \* the sync command, or the boot's replay
    touched,        \* points written since the replay of their namespace began
    good            \* namespaces replayed without an error

vars == <<backend, sot, index, made, disk, up, write, writes, sync, touched, good>>

None == [p \in Point |-> 0]
Held(points) == {p \in Point : points[p] # 0}
Idle == [step |-> "idle"]

TypeOK ==
    /\ backend \in {"qdrant", "chromem"} /\ up \in BOOLEAN
    /\ \A stored \in {sot, index, disk} : stored \in [Namespace -> [Point -> 0..MaxVersion]]
    /\ made \subseteq Namespace /\ good \subseteq Namespace
    /\ \A n \in Namespace \ made : index[n] = None
    /\ touched \subseteq Namespace \X Point
    /\ writes \in 0..MaxWrites
    /\ sync.step \in {"idle", "next", "read", "ensure", "load", "done"}

(* What a writer does to the points of a namespace: their new contents, or *)
(* nothing for a deletion.                                                 *)
After(points, job) ==
    [p \in Point |-> IF p \in job.ids THEN job.content ELSE points[p]]
Writing == {w \in Writer : write[w] # Idle}
InFlight == {<<write[w].ns, p>> : w \in Writing, p \in Point} \cap
            UNION {{write[w].ns} \X write[w].ids : w \in Writing}
Touch(job) == touched' = touched \union ({job.ns} \X job.ids)

Begin(w, n, ids, content) ==
    /\ up /\ write[w] = Idle /\ writes < MaxWrites
    /\ ids # {}
    /\ writes' = writes + 1
    /\ write' = [write EXCEPT ![w] =
           [step |-> IF content = 0 THEN "truth" ELSE "ensure",
            ns |-> n, ids |-> ids, content |-> content]]
    /\ UNCHANGED <<backend, sot, index, made, disk, up, sync, touched, good>>

(* The collection is made if it is absent; a Qdrant that does not answer   *)
(* ends the write before anything is stored.                               *)
Ensure(w) ==
    /\ write[w].step = "ensure"
    /\ made' = made \union {write[w].ns}
    /\ write' = [write EXCEPT ![w].step = "truth"]
    /\ UNCHANGED <<backend, sot, index, disk, up, writes, sync, touched, good>>

WriteTruth(w) ==
    /\ write[w].step = "truth"
    /\ sot' = [sot EXCEPT ![write[w].ns] = After(@, write[w])]
    /\ write' = [write EXCEPT ![w].step = "index"]
    /\ Touch(write[w])
    /\ UNCHANGED <<backend, index, made, disk, up, writes, sync, good>>

(* Qdrant refuses points of a collection that is not there; chromem makes   *)
(* it, and persists what it holds.                                          *)
WriteIndex(w) ==
    /\ write[w].step = "index"
    /\ write[w].ns \in made \/ backend = "chromem"
    /\ made' = made \union {write[w].ns}
    /\ index' = [index EXCEPT ![write[w].ns] = After(@, write[w])]
    /\ disk' = IF backend = "chromem"
               THEN [disk EXCEPT ![write[w].ns] = After(@, write[w])] ELSE disk
    /\ write' = [write EXCEPT ![w] = Idle]
    /\ Touch(write[w])
    /\ UNCHANGED <<backend, sot, up, writes, sync, good>>

WriteFails(w) ==
    /\ write[w] # Idle
    /\ write' = [write EXCEPT ![w] = Idle]
    /\ UNCHANGED <<backend, sot, index, made, disk, up, writes, sync, touched, good>>

(* A replay: of the namespaces SQLite holds points of, one after another.  *)
NamespacesOfIndex == {n \in Namespace : Held(index[n]) # {}}
Namespaces == {n \in Namespace : Held(sot[n]) # {}}
StartSync(mode) ==
    /\ backend = "qdrant" /\ sync.step \in {"idle", "done"}
    /\ sync' = [step |-> "next", mode |-> mode, todo |-> Namespaces, ns |-> "", points |-> None]
    /\ good' = {}
    /\ UNCHANGED <<backend, sot, index, made, disk, up, write, writes, touched>>

(* With --recreate the collection is dropped before its namespace is read. *)
NextNamespace(n) ==
    /\ sync.step = "next" /\ n \in sync.todo
    /\ IF sync.mode = "boot" /\ Held(index[n]) # {}
       THEN /\ sync' = [sync EXCEPT !.todo = @ \ {n}]
            /\ made' = made \union {n}
            /\ UNCHANGED <<index, touched>>
       ELSE /\ sync' = [sync EXCEPT !.todo = @ \ {n}, !.ns = n, !.step = "read"]
            /\ IF sync.mode = "recreate"
               THEN index' = [index EXCEPT ![n] = None] /\ made' = made \ {n}
               ELSE UNCHANGED index /\ made' = IF sync.mode = "boot" THEN made \union {n} ELSE made
            /\ touched' = (touched \ ({n} \X Point)) \union {t \in InFlight : t[1] = n}
    /\ UNCHANGED <<backend, sot, disk, up, write, writes, good>>

(* AllPoints: a namespace that emptied meanwhile is left as it is.         *)
Read ==
    /\ sync.step = "read"
    /\ LET points == sot[sync.ns] IN
       IF points = None
       THEN /\ sync' = [sync EXCEPT !.step = "next"]
            /\ good' = good \union {sync.ns}
       ELSE /\ sync' = [sync EXCEPT !.step = "ensure", !.points = points]
            /\ UNCHANGED good
    /\ UNCHANGED <<backend, sot, index, made, disk, up, write, writes, touched>>

EnsureIndex ==
    /\ sync.step = "ensure"
    /\ made' = made \union {sync.ns}
    /\ sync' = [sync EXCEPT !.step = "load"]
    /\ UNCHANGED <<backend, sot, index, disk, up, write, writes, touched, good>>

(* One request loads at most UpsertBatch points; chromem takes them all.   *)
Batches(points) ==
    LET size == Cardinality(Held(points)) IN
    kSubset(IF backend = "qdrant" /\ UpsertBatch < size THEN UpsertBatch ELSE size, Held(points))
Left(points, ids) == [p \in Point |-> IF p \in ids THEN 0 ELSE points[p]]
Load ==
    /\ sync.step = "load" /\ sync.ns \in made
    /\ \E ids \in Batches(sync.points) :
         LET loaded(stored) == [stored EXCEPT ![sync.ns] =
                 [p \in Point |-> IF p \in ids THEN sync.points[p] ELSE @[p]]]
             left == Left(sync.points, ids) IN
         /\ index' = loaded(index)
         /\ disk' = IF backend = "chromem" THEN loaded(disk) ELSE disk
         /\ sync' = [sync EXCEPT !.points = left, !.step = IF left = None THEN "next" ELSE @]
         /\ good' = IF left = None THEN good \union {sync.ns} ELSE good
    /\ UNCHANGED <<backend, sot, made, up, write, writes, touched>>

(* A failed namespace is counted and the next is tried; an interrupted     *)
(* command ends between two, and a boot that fails gives up.               *)
NamespaceFails ==
    /\ sync.step \in {"read", "ensure", "load"}
    /\ IF sync.mode = "boot"
       THEN /\ sync' = Idle /\ made' = {} /\ good' = {} /\ touched' = {}
            /\ index' = [n \in Namespace |-> None]
       ELSE /\ sync' = [sync EXCEPT !.step = "next"]
            /\ UNCHANGED <<index, made, touched, good>>
    /\ UNCHANGED <<backend, sot, disk, up, write, writes>>

EndSync ==
    /\ sync.step = "next"
    /\ sync.mode = "boot" => sync.todo = {}
    /\ sync' = [sync EXCEPT !.step = "done", !.todo = {}]
    /\ up' = (up \/ sync.mode = "boot")
    /\ UNCHANGED <<backend, sot, index, made, disk, write, writes, touched, good>>

(* The server stops at any step; its chromem directory may be gone when it *)
(* starts again, and what it finds is loaded before the replay.            *)
Stop ==
    /\ up /\ backend = "chromem"
    /\ up' = FALSE /\ write' = [w \in Writer |-> Idle]
    /\ index' = [n \in Namespace |-> None] /\ made' = {}
    /\ good' = {} /\ touched' = {}
    /\ disk' \in {disk, [n \in Namespace |-> None]}
    /\ UNCHANGED <<backend, sot, writes, sync>>

Boot ==
    /\ ~up /\ backend = "chromem" /\ sync.step \in {"idle", "done"}
    /\ index' = disk
    /\ made' = {n \in Namespace : Held(disk[n]) # {}}
    /\ sync' = [step |-> "next", mode |-> "boot", todo |-> Namespaces, ns |-> "", points |-> None]
    /\ UNCHANGED <<backend, sot, disk, up, write, writes, touched, good>>

(* Any index may lag a database: writes fail, directories are restored.    *)
Init ==
    /\ backend \in {"qdrant", "chromem"}
    /\ sot \in [Namespace -> [Point -> 0..1]]
    /\ index \in [Namespace -> [Point -> 0..1]]
    /\ made = {n \in Namespace : Held(index[n]) # {}}
    /\ disk = IF backend = "chromem" THEN index ELSE [n \in Namespace |-> None]
    /\ up = TRUE /\ write = [w \in Writer |-> Idle] /\ writes = 0
    /\ sync = Idle
    /\ touched = Namespace \X Point /\ good = {}

Next ==
    \/ \E w \in Writer :
         \/ \E n \in Namespace, ids \in SUBSET Point, content \in 0..MaxVersion :
              Begin(w, n, ids, content)
         \/ Ensure(w) \/ WriteTruth(w) \/ WriteIndex(w) \/ WriteFails(w)
    \/ \E mode \in {"recreate", "upsert"} : StartSync(mode)
    \/ \E n \in Namespace : NextNamespace(n)
    \/ Read \/ EnsureIndex \/ Load \/ NamespaceFails \/ EndSync
    \/ Stop \/ Boot

Spec == Init /\ [][Next]_vars

(* The index tells the truth after a replay: of a namespace replayed       *)
(* without an error, every point no write touched since the replay of that *)
(* namespace began is in the index as SQLite holds it, whatever the server *)
(* wrote meanwhile, and with --recreate nothing else is; once booted, no   *)
(* namespace with points is searched empty.                                *)
SyncedIsTruth ==
    /\ \A n \in good, p \in Point : <<n, p>> \notin touched =>
         \/ index[n][p] = sot[n][p]
         \/ sync.mode # "recreate" /\ sot[n][p] = 0
    /\ backend = "chromem" /\ up => \A n \in Namespace :
         Held(sot[n]) # {} /\ touched \cap ({n} \X Point) = {} => Held(index[n]) # {}
=============================================================================
