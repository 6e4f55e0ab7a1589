----------------------------- MODULE SourceFiling -----------------------------
(***************************************************************************)
(* Filing one named source: add_drawer with a source_file and mine both    *)
(* replace what the source left behind (palace.Service.Add, .Mine).  The   *)
(* replacement is a chain of separate store calls: list the old ids, drop  *)
(* their vectors, drop their rows, write the new vectors, write the new    *)
(* rows; mine does it for drawers and for the closets built over them.     *)
(* mine holds a process-wide lock on (team, source); add_drawer takes none.*)
(*                                                                         *)
(* A drawer id is the hash of its place and chunk, so its vector is fixed  *)
(* by its id and a set of ids says which vectors exist.  A closet id names *)
(* only its place and number, so closets carry the version they came from. *)
(* The two vector stores behind one call are DrawerStore's subject and one *)
(* store here.                                                             *)
(***************************************************************************)
EXTENDS Integers, FiniteSets

CONSTANTS
    Handler,    \* concurrent request handlers
    Place,      \* (wing, room) pairs the source is filed under
    Doc,        \* versions of the source's text
    Chunk,      \* chunk texts with their positions
    ChunksOf,   \* ChunksOf[d]: the chunks version d is cut into, maybe none
    Slot,       \* closet numbers
    SlotsOf,    \* SlotsOf[d]: closets packed from version d
    KindsAt,    \* KindsAt[p]: the calls made on p, a subset of {"add", "mine"}
    MaxCalls,   \* bound: calls in a behaviour
    MaxFaults   \* bound: failed store or embedder calls in a behaviour

NoOne == "no one"

(* What is assumed of the constants; MC modules assume it of theirs.       *)
Assumptions == /\ NoOne \notin Handler
               /\ ChunksOf \in [Doc -> SUBSET Chunk]
               /\ SlotsOf \in [Doc -> SUBSET Slot]
               /\ KindsAt \in [Place -> SUBSET {"add", "mine"}]
               /\ MaxCalls \in Nat /\ MaxFaults \in Nat

VARIABLES
    rows,       \* drawer rows of the source: <<place, chunk>>
    vectors,    \* drawer vectors
    closets,    \* closet rows: <<place, slot, doc the text was built from>>
    closetVecs, \* closet vectors, likewise
    call,       \* call[h]: what handler h is doing and the ids it has listed
    lock,       \* holder of mineLocks for the source, or NoOne
    calls,      \* calls so far
    faults      \* failures so far

vars == <<rows, vectors, closets, closetVecs, call, lock, calls, faults>>

DrawerId == Place \X Chunk
ClosetKey == Place \X Slot
Idle == [kind |-> "none"]

Steps == {"lock", "list", "vectors", "rows", "closets", "closet vectors",
          "closet rows", "write vectors", "write rows",
          "write closet vectors", "write closet rows"}
Call == [kind : {"add", "mine"}, place : Place, doc : Doc, step : Steps,
         old : SUBSET DrawerId, oldClosets : SUBSET ClosetKey]

NewRows(h) == {<<call[h].place, c>> : c \in ChunksOf[call[h].doc]}
NewClosets(h) ==
    {<<call[h].place, s, call[h].doc>> : s \in SlotsOf[call[h].doc]}
Key(c) == <<c[1], c[2]>>
Drop(set, keys) == {c \in set : Key(c) \notin keys}

(* Types; at most one row and one vector exist per closet id.              *)
TypeOK ==
    /\ rows \subseteq DrawerId /\ vectors \subseteq DrawerId
    /\ \A set \in {closets, closetVecs} :
          /\ set \subseteq Place \X Slot \X Doc
          /\ \A c, d \in set : Key(c) = Key(d) => c = d
    /\ call \in [Handler -> {Idle} \cup Call]
    /\ lock \in Handler \cup {NoOne}
    /\ calls \in 0..MaxCalls /\ faults \in 0..MaxFaults

Init ==
    /\ rows = {} /\ vectors = {} /\ closets = {} /\ closetVecs = {}
    /\ call = [h \in Handler |-> Idle]
    /\ lock = NoOne
    /\ calls = 0 /\ faults = 0

-----------------------------------------------------------------------------
At(h, step) == call[h] # Idle /\ call[h].step = step

GoTo(h, step) == call' = [call EXCEPT ![h].step = step]

(* add_drawer embeds the new chunks before it touches the source, so a     *)
(* failed embed is a call that never began; its text is never empty.       *)
BeginAdd(h, p, d) ==
    /\ "add" \in KindsAt[p] /\ call[h] = Idle /\ calls < MaxCalls
    /\ ChunksOf[d] # {}
    /\ calls' = calls + 1
    /\ call' = [call EXCEPT ![h] = [kind |-> "add", place |-> p, doc |-> d,
                   step |-> "list", old |-> {}, oldClosets |-> {}]]
    /\ UNCHANGED <<rows, vectors, closets, closetVecs, lock, faults>>

BeginMine(h, p, d) ==
    /\ "mine" \in KindsAt[p] /\ call[h] = Idle /\ calls < MaxCalls
    /\ calls' = calls + 1
    /\ call' = [call EXCEPT ![h] = [kind |-> "mine", place |-> p, doc |-> d,
                   step |-> "lock", old |-> {}, oldClosets |-> {}]]
    /\ UNCHANGED <<rows, vectors, closets, closetVecs, lock, faults>>

AcquireNothing(h) ==
    /\ At(h, "lock")
    /\ GoTo(h, "list")
    /\ UNCHANGED <<rows, vectors, closets, closetVecs, lock, calls, faults>>

Acquire(h) ==
    /\ At(h, "lock")
    /\ lock = NoOne
    /\ lock' = h
    /\ GoTo(h, "list")
    /\ UNCHANGED <<rows, vectors, closets, closetVecs, calls, faults>>

AfterPurge(h) == IF call[h].kind = "mine" THEN "closets" ELSE "write vectors"

(* purgeSource: only this wing and room; nothing to purge skips both       *)
(* deletes.                                                                *)
ListOld(h) ==
    /\ At(h, "list")
    /\ LET ids == {r \in rows : r[1] = call[h].place}
       IN call' = [call EXCEPT ![h].old = ids,
                      ![h].step = IF ids = {} THEN AfterPurge(h) ELSE "vectors"]
    /\ UNCHANGED <<rows, vectors, closets, closetVecs, lock, calls, faults>>

DropVectors(h) ==
    /\ At(h, "vectors")
    /\ vectors' = vectors \ call[h].old
    /\ GoTo(h, "rows")
    /\ UNCHANGED <<rows, closets, closetVecs, lock, calls, faults>>

(* DeleteBySource drops every row of the source here, listed or not.       *)
DropRows(h) ==
    /\ At(h, "rows")
    /\ rows' = {r \in rows : r[1] # call[h].place}
    /\ GoTo(h, AfterPurge(h))
    /\ UNCHANGED <<vectors, closets, closetVecs, lock, calls, faults>>

(* The rest of Mine for a text that yields no chunk: return.               *)
AfterClosetPurge(h) == IF ChunksOf[call[h].doc] = {} THEN "done" ELSE "write vectors"

Finish(h) ==
    /\ call' = [call EXCEPT ![h] = Idle]
    /\ lock' = IF lock = h THEN NoOne ELSE lock

GoOn(h, step) == IF step = "done" THEN Finish(h) ELSE GoTo(h, step) /\ UNCHANGED lock

(* purgeClosetSource: closets of the source in every wing and room.        *)
ListClosets(h) ==
    /\ At(h, "closets")
    /\ IF closets = {} THEN GoOn(h, AfterClosetPurge(h))
       ELSE /\ call' = [call EXCEPT ![h].step = "closet vectors",
                           ![h].oldClosets = {Key(c) : c \in closets}]
            /\ UNCHANGED lock
    /\ UNCHANGED <<rows, vectors, closets, closetVecs, calls, faults>>

DropClosetVectors(h) ==
    /\ At(h, "closet vectors")
    /\ closetVecs' = Drop(closetVecs, call[h].oldClosets)
    /\ GoTo(h, "closet rows")
    /\ UNCHANGED <<rows, vectors, closets, lock, calls, faults>>

DropClosetRowsHere(h) ==
    /\ At(h, "closet rows")
    /\ closets' = {c \in closets : c[1] # call[h].place}
    /\ GoOn(h, AfterClosetPurge(h))
    /\ UNCHANGED <<rows, vectors, closetVecs, calls, faults>>

DropClosetRows(h) ==
    /\ At(h, "closet rows")
    /\ closets' = {}
    /\ GoOn(h, AfterClosetPurge(h))
    /\ UNCHANGED <<rows, vectors, closetVecs, calls, faults>>

(* storeDrawers: vectors, then rows (insert or replace).                   *)
WriteVectors(h) ==
    /\ At(h, "write vectors")
    /\ vectors' = vectors \cup NewRows(h)
    /\ GoTo(h, "write rows")
    /\ UNCHANGED <<rows, closets, closetVecs, lock, calls, faults>>

AfterRows(h) == IF call[h].kind = "mine" /\ SlotsOf[call[h].doc] # {}
                THEN "write closet vectors" ELSE "done"

WriteRows(h) ==
    /\ At(h, "write rows")
    /\ rows' = rows \cup NewRows(h)
    /\ GoOn(h, AfterRows(h))
    /\ UNCHANGED <<vectors, closets, closetVecs, calls, faults>>

Put(set, new) == Drop(set, {Key(c) : c \in new}) \cup new

InsertClosetVectors(h) ==
    /\ At(h, "write closet vectors")
    /\ closetVecs' = closetVecs \cup NewClosets(h)
    /\ GoTo(h, "write closet rows")
    /\ UNCHANGED <<rows, vectors, closets, lock, calls, faults>>

(* storeClosets: vectors, then rows.                                       *)
WriteClosetVectors(h) ==
    /\ At(h, "write closet vectors")
    /\ closetVecs' = Put(closetVecs, NewClosets(h))
    /\ GoTo(h, "write closet rows")
    /\ UNCHANGED <<rows, vectors, closets, lock, calls, faults>>

WriteClosetRows(h) ==
    /\ At(h, "write closet rows")
    /\ closets' = Put(closets, NewClosets(h))
    /\ Finish(h)
    /\ UNCHANGED <<rows, vectors, closetVecs, calls, faults>>

FailKeepsLock(h) ==
    /\ call[h] # Idle /\ call[h].step # "lock"
    /\ faults < MaxFaults
    /\ faults' = faults + 1
    /\ call' = [call EXCEPT ![h] = Idle]
    /\ UNCHANGED <<rows, vectors, closets, closetVecs, lock, calls>>

(* Any store call may fail, and mine's two embed calls, which come after   *)
(* the purge; the deferred unlock runs on every return.                    *)
Fail(h) ==
    /\ call[h] # Idle /\ call[h].step # "lock"
    /\ faults < MaxFaults
    /\ faults' = faults + 1
    /\ Finish(h)
    /\ UNCHANGED <<rows, vectors, closets, closetVecs, calls>>

Purge(h) == \/ ListOld(h) \/ DropVectors(h) \/ DropRows(h)
            \/ ListClosets(h) \/ DropClosetVectors(h) \/ DropClosetRows(h)
Store(h) == \/ WriteVectors(h) \/ WriteRows(h)
            \/ WriteClosetVectors(h) \/ WriteClosetRows(h)
Step(h) == Acquire(h) \/ Purge(h) \/ Store(h)

Next == \E h \in Handler :
           \/ \E p \in Place, d \in Doc : BeginAdd(h, p, d) \/ BeginMine(h, p, d)
           \/ Step(h)
           \/ Fail(h)

Spec == Init /\ [][Next]_vars

(* A handler keeps running, and sync.Mutex hands over to a waiter that     *)
(* keeps losing (its starvation mode).                                     *)
FairSpec == Spec /\ \A h \in Handler :
               WF_vars(Purge(h) \/ Store(h)) /\ SF_vars(Acquire(h))

-----------------------------------------------------------------------------
Quiet == \A h \in Handler : call[h] = Idle

MineCompletes(h) ==
    call[h] # Idle /\ call[h].kind = "mine" /\ call'[h] = Idle /\ faults' = faults

OnlyMined(p) == KindsAt[p] = {"mine"}

(* A mine that returns success has replaced the source: where it is only   *)
(* mined, exactly its chunks are filed in the wing and room, each with its *)
(* vector, and everywhere the only closets of the source are its own,      *)
(* indexed by their own text, whatever other mines of the source ran       *)
(* meanwhile or failed halfway before (Service.Mine under mineLocks).      *)
MineReplaces ==
    [][\A h \in Handler : MineCompletes(h) =>
          /\ OnlyMined(call[h].place) =>
                /\ {r \in rows' : r[1] = call[h].place} = NewRows(h)
                /\ NewRows(h) \subseteq vectors'
          /\ ChunksOf[call[h].doc] # {} =>
                closets' = NewClosets(h) /\ closets' \subseteq closetVecs'
          /\ ChunksOf[call[h].doc] = {} => closets' = {}]_vars

(* While no call has failed, every drawer of a place that is only mined is *)
(* searchable between calls, whatever ran there together (storeDrawers: "a *)
(* row never exists without its embedding").                               *)
MinedRowsSearchable ==
    Quiet /\ faults = 0 =>
        \A r \in rows : OnlyMined(r[1]) => r \in vectors

(* The same of every drawer, also where add_drawer, which takes no lock,   *)
(* re-files one place from two requests.                                   *)
RowsSearchable == Quiet /\ faults = 0 => rows \subseteq vectors

(* A call that was admitted returns: the source's lock is given back on    *)
(* every path (defer unlock()).                                            *)
CallsReturn == \A h \in Handler : call[h] # Idle ~> call[h] = Idle
=============================================================================
