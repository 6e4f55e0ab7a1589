-------------------------------- MODULE Facts --------------------------------
(***************************************************************************)
(* The temporal knowledge graph of one team (palace/kg.go): triples with a *)
(* validity window, added and ended, never deleted.  kg_add looks for a    *)
(* current triple and inserts in a later statement; kg_invalidate checks   *)
(* the current triples and ends them in a later statement.                 *)
(*                                                                         *)
(* Moments are the datetimes of the TEXT columns.  A temporal value is     *)
(* kept with the moments temporalStartKey and temporalEndKey give it: a    *)
(* datetime has one moment, a date two, the first and the last of its day. *)
(***************************************************************************)
EXTENDS Integers, Sequences, FiniteSets

CONSTANTS
    Fact,       \* subject, predicate and object, after normalization
    Endpoints,  \* Endpoints[f]: the ids of subject and object
    Temporal,   \* dates and datetimes given, [start, end]
    Request,    \* tool calls served at a time
    MaxRows     \* bound: triples inserted

(* What is assumed of the constants; MC modules assume it of theirs.       *)
Assumptions ==
    /\ IsFiniteSet(Request) /\ MaxRows \in Nat
    /\ \A t \in Temporal : {t.start, t.end} \subseteq Nat /\ t.start <= t.end

VARIABLES
    rows,       \* kg_triples, in the order of insertion
    entities,   \* kg_entities: ids with a row
    request,    \* request[r]: what r has read and is about to write
    unseen      \* history: triples ended by a call that had not read them

vars == <<rows, entities, request, unseen>>

Open == [start |-> -1, end |-> -1]      \* valid_from or valid_to is ''
Bounds == Temporal \cup {Open}
Idle == [kind |-> "none"]
Writing == [kind : {"add"}, fact : Fact, from : Bounds, to : Bounds]
           \cup [kind : {"end"}, fact : Fact, to : Temporal, seen : 0..MaxRows]

Inverted(from, to) == from # Open /\ to # Open /\ to.end < from.start

Moments == {t.start : t \in Temporal} \cup {t.end : t \in Temporal}

(* CurrentTriples: the triples of a fact that have not been ended.         *)
Current(f) == {i \in DOMAIN rows : rows[i].fact = f /\ rows[i].to = Open}

InEffectUpToMidnight(row, moment) ==
    /\ row.from = Open \/ row.from.start <= moment
    /\ row.to = Open \/ moment <= row.to.start

(* inEffectAt, what a query as of a moment answers with.                   *)
InEffectAt(row, moment) ==
    /\ row.from = Open \/ row.from.start <= moment
    /\ row.to = Open \/ moment <= row.to.end

(* Types; a triple always has its endpoints named.                         *)
TypeOK ==
    /\ rows \in Seq([fact : Fact, from : Bounds, to : Bounds])
    /\ Len(rows) <= MaxRows
    /\ request \in [Request -> {Idle} \cup Writing]
    /\ unseen \subseteq DOMAIN rows
    /\ \A i \in DOMAIN rows : Endpoints[rows[i].fact] \subseteq entities

Init ==
    /\ rows = <<>>
    /\ entities = {}
    /\ request = [r \in Request |-> Idle]
    /\ unseen = {}

-----------------------------------------------------------------------------
Doing(r, kind) == request[r] # Idle /\ request[r].kind = kind
Done(r) == request' = [request EXCEPT ![r] = Idle]

BeginAddUnchecked(r, f, from, to) ==
    /\ request[r] = Idle
    /\ ~ Inverted(from, to)
    /\ entities' = entities \cup Endpoints[f]
    /\ request' = [request EXCEPT ![r] =
                     [kind |-> "add", fact |-> f, from |-> from, to |-> to]]
    /\ UNCHANGED <<rows, unseen>>

BeginAddNameless(r, f, from, to) ==
    /\ request[r] = Idle
    /\ ~ Inverted(from, to)
    /\ request' = IF Current(f) # {} THEN request
                  ELSE [request EXCEPT ![r] =
                          [kind |-> "add", fact |-> f, from |-> from, to |-> to]]
    /\ UNCHANGED <<rows, entities, unseen>>

(* KGAdd up to its look-up: an inverted window is refused, the endpoints   *)
(* are upserted, and a current triple of the fact is the answer.           *)
BeginAdd(r, f, from, to) ==
    /\ request[r] = Idle
    /\ ~ Inverted(from, to)
    /\ entities' = entities \cup Endpoints[f]
    /\ request' = IF Current(f) # {} THEN request
                  ELSE [request EXCEPT ![r] =
                          [kind |-> "add", fact |-> f, from |-> from, to |-> to]]
    /\ UNCHANGED <<rows, unseen>>

(* InsertKGTriple.                                                         *)
InsertTriple(r) ==
    /\ Doing(r, "add") /\ Done(r)
    /\ Len(rows) < MaxRows
    /\ rows' = Append(rows, [fact |-> request[r].fact, from |-> request[r].from,
                             to |-> request[r].to])
    /\ UNCHANGED <<entities, unseen>>

BeginInvalidateFirstOnly(r, f, ended) ==
    /\ request[r] = Idle
    /\ \A i \in Current(f) : i = 1 => ~ Inverted(rows[i].from, ended)
    /\ request' = [request EXCEPT ![r] =
                     [kind |-> "end", fact |-> f, to |-> ended, seen |-> Len(rows)]]
    /\ UNCHANGED <<rows, entities, unseen>>

(* KGInvalidate up to its guard: an end before the start of a current      *)
(* triple is refused.  (Without an end the day's date is taken.)           *)
BeginInvalidate(r, f, ended) ==
    /\ request[r] = Idle
    /\ \A i \in Current(f) : ~ Inverted(rows[i].from, ended)
    /\ request' = [request EXCEPT ![r] =
                     [kind |-> "end", fact |-> f, to |-> ended, seen |-> Len(rows)]]
    /\ UNCHANGED <<rows, entities, unseen>>

Ended(ids, to) ==
    [i \in DOMAIN rows |-> IF i \in ids THEN [rows[i] EXCEPT !.to = to] ELSE rows[i]]

EndTriplesAgain(r) ==
    /\ Doing(r, "end") /\ Done(r)
    /\ LET ids == {i \in DOMAIN rows : rows[i].fact = request[r].fact} IN
       /\ rows' = Ended(ids, request[r].to)
       /\ unseen' = unseen \cup {i \in ids : i > request[r].seen}
    /\ UNCHANGED entities

(* InvalidateKGTriples: whatever is current now is ended.                  *)
EndTriples(r) ==
    /\ Doing(r, "end") /\ Done(r)
    /\ LET ids == Current(request[r].fact) IN
       /\ rows' = Ended(ids, request[r].to)
       /\ unseen' = unseen \cup {i \in ids : i > request[r].seen}
    /\ UNCHANGED entities

(* The statement fails, by a lost connection or because the id collides: a *)
(* triple's id is made of its fact, start and second of recording.         *)
Fail(r) == request[r] # Idle /\ Done(r) /\ UNCHANGED <<rows, entities, unseen>>

Next == \E r \in Request :
    \/ \E f \in Fact, from, to \in Bounds : BeginAdd(r, f, from, to)
    \/ \E f \in Fact, ended \in Temporal : BeginInvalidate(r, f, ended)
    \/ InsertTriple(r) \/ EndTriples(r) \/ Fail(r)

Spec == Init /\ [][Next]_vars

-----------------------------------------------------------------------------
(* A fact has one current triple, or as many as there are calls at a time: *)
(* calls that looked before the first of them inserted are all let in, and *)
(* nobody afterwards (kg_add, "unless an identical current fact exists").  *)
BoundedDuplicates ==
    \A f \in Fact : Cardinality(Current(f)) <= Cardinality(Request)

(* Only kg_invalidate changes what held: a triple that was in effect at a  *)
(* moment stays so unless a call ends it before that moment, and a triple  *)
(* once ended stays as it is ("history is never lost", kg.go:16-18).       *)
HistoryStands ==
    [][\A i \in DOMAIN rows :
         /\ i \in DOMAIN rows'
         /\ rows[i].to # Open => rows'[i] = rows[i]
         /\ \A t \in Moments :
              InEffectAt(rows[i], t) /\ ~ InEffectAt(rows'[i], t) =>
                \E r \in Request : Doing(r, "end") /\ request[r].to.end < t]_vars

(* A window is never inverted, so every triple is visible to some query,   *)
(* unless a call ended a triple it had not seen when it checked the starts *)
(* (the guards of KGAdd and KGInvalidate).                                 *)
UprightUnlessUnseen ==
    \A i \in DOMAIN rows : Inverted(rows[i].from, rows[i].to) => i \in unseen
=============================================================================
