------------------------------- MODULE GraphWalk -------------------------------
(***************************************************************************)
(* The read side of the graph: buildGraph folds the drawers of a team into *)
(* rooms and the wings they span, traverse walks from room to room over    *)
(* shared wings, breadth first, find_tunnels lists the rooms of several    *)
(* wings and graph_stats counts.  The walk is a loop over a queue; here it *)
(* is a step per turn of the loop.                                         *)
(***************************************************************************)
EXTENDS Integers, FiniteSets, Sequences, SequencesExt, FiniteSetsExt

CONSTANTS
    Rooms,        \* names of rooms, numbers because they are sorted
    Wings,
    General,      \* the room "general", no part of the graph
    Graphs,       \* numbers of drawers by room and wing to be tried
    Asked,        \* values of max_hops to be tried
    DefaultHops, MaxHops, MaxResults

Assumptions ==
    /\ IsFiniteSet(Rooms) /\ Rooms \subseteq Int /\ IsFiniteSet(Wings)
    /\ \A f \in Graphs : f \in [Rooms \X Wings -> Nat]
    /\ Asked \subseteq Int /\ MaxHops \in Nat /\ DefaultHops \in 0..MaxHops /\ MaxResults \in Nat

VARIABLES
    filed,        \* filed[r, w]: drawers filed in room r of wing w
    start, hops,  \* the arguments, clamped
    queue,        \* rooms to visit, with their hop and the wings shared
    visited, result, done

vars == <<filed, start, hops, queue, visited, result, done>>

(* The sum of f over a finite set, and a set in the order of a relation    *)
(* that tells any two of its members apart.                                *)
Total(S, f) ==
    LET e == SetToSeq(S)
        sum[n \in 0..Cardinality(S)] == IF n = 0 THEN 0 ELSE sum[n - 1] + f[e[n]]
    IN  sum[Cardinality(S)]
Arranged(S, R) ==
    [k \in 1..Cardinality(S) |-> CHOOSE x \in S : 1 + Cardinality({y \in S : <<y, x>> \in R}) = k]

(* buildGraph: rooms in no wing, and the general one, are left out.        *)
WingsOf(room) == {w \in Wings : filed[room, w] > 0}
Nodes == {r \in Rooms \ {General} : WingsOf(r) # {}}
Count(room) == Total(Wings, [w \in Wings |-> filed[room, w]])

Clamp(n) == IF n <= 0 THEN DefaultHops ELSE IF n > MaxHops THEN MaxHops ELSE n

Init ==
    /\ filed \in Graphs
    /\ start \in Nodes                                  \* else ErrNotFound
    /\ hops \in {Clamp(n) : n \in Asked}
    /\ queue = <<[room |-> start, hop |-> 0, via |-> {}]>>
    /\ visited = {start} /\ result = <<>> /\ done = FALSE

Shared(room, other) == WingsOf(room) \cap WingsOf(other)
Neighbours(room) == {r \in Nodes : Shared(room, r) # {}}
Sorted(rooms) == Arranged(rooms, {p \in rooms \X rooms : p[1] < p[2]})

VisitIgnoringSeen ==
    /\ queue # <<>>
    /\ LET cur == Head(queue)
           next == IF cur.hop >= hops THEN {} ELSE Neighbours(cur.room) \ {cur.room} IN
       /\ queue' = Tail(queue)
                   \o [i \in 1..Cardinality(next) |->
                         [room |-> Sorted(next)[i], hop |-> cur.hop + 1,
                          via |-> Shared(cur.room, Sorted(next)[i])]]
       /\ result' = Append(result, cur)
    /\ UNCHANGED <<filed, start, hops, visited, done>>

(* One turn of the loop: unseen neighbours of the head, in the stable      *)
(* order, are marked and queued with the wings they share with it.         *)
Visit ==
    /\ queue # <<>>
    /\ LET cur == Head(queue)
           next == IF cur.hop >= hops THEN {} ELSE Neighbours(cur.room) \ visited IN
       /\ visited' = visited \cup next
       /\ queue' = Tail(queue)
                   \o [i \in 1..Cardinality(next) |->
                         [room |-> Sorted(next)[i], hop |-> cur.hop + 1,
                          via |-> Shared(cur.room, Sorted(next)[i])]]
       /\ result' = Append(result, cur)
    /\ UNCHANGED <<filed, start, hops, done>>

Before(a, b) ==
    \/ a.hop < b.hop
    \/ a.hop = b.hop /\ Count(a.room) > Count(b.room)
    \/ a.hop = b.hop /\ Count(a.room) = Count(b.room) /\ a.room < b.room

Ranked ==
    LET places == DOMAIN result
        order == Arranged(places, {p \in places \X places : Before(result[p[1]], result[p[2]])})
    IN  [i \in places |-> result[order[i]]]

Page(seq) == SubSeq(seq, 1, Min({Len(seq), MaxResults}))

Rank ==
    /\ queue = <<>> /\ ~done
    /\ result' = Page(Ranked)
    /\ done' = TRUE
    /\ UNCHANGED <<filed, start, hops, queue, visited>>

Next == Visit \/ Rank

Spec == Init /\ [][Next]_vars

-----------------------------------------------------------------------------
(* find_tunnels: the rooms of two wings or more, of wings a and b if given.*)
FindTunnels(wanted) ==
    LET found == {r \in Nodes : Cardinality(WingsOf(r)) >= 2 /\ wanted \subseteq WingsOf(r)}
    IN  Page(Arranged(found, {p \in found \X found :
               Count(p[1]) > Count(p[2]) \/ (Count(p[1]) = Count(p[2]) /\ p[1] < p[2])}))

(* graph_stats.                                                            *)
Multi == {r \in Nodes : Cardinality(WingsOf(r)) >= 2}
TotalEdges ==
    Total(Multi, [r \in Multi |-> (Cardinality(WingsOf(r)) * (Cardinality(WingsOf(r)) - 1)) \div 2])
RoomsPerWing == [w \in Wings |-> Cardinality({r \in Nodes : w \in WingsOf(r)})]

-----------------------------------------------------------------------------
TypeOK ==
    /\ start \in visited /\ visited \subseteq Nodes
    /\ Len(result) <= Cardinality(Nodes)
    /\ \A i \in DOMAIN queue : queue[i].hop \in 0..hops

(* Reference: rooms within n hops are those within n - 1 and all rooms a   *)
(* wing away from one of them.                                             *)
Within[n \in 0..MaxHops] ==
    IF n = 0 THEN {start}
    ELSE Within[n - 1] \cup {r \in Nodes : \E s \in Within[n - 1] : WingsOf(r) \cap WingsOf(s) # {}}

Distance(room) == CHOOSE n \in 0..MaxHops :
    room \in Within[n] /\ (n = 0 \/ room \notin Within[n - 1])

(* The walk answers with the nearest rooms within the hops asked for, each *)
(* once, at its true distance and with a way to it over wings it shares    *)
(* with a nearer room; none is left out for a farther one, at equal        *)
(* distance none for one of fewer drawers (graphquery.go:78-81).           *)
WalkIsNearest ==
    done =>
      /\ \A i \in DOMAIN result :
            LET r == result[i].room IN
            /\ r \in Within[hops] /\ result[i].hop = Distance(r)
            /\ r # start => \E s \in Within[hops] :
                  Distance(s) = Distance(r) - 1 /\ result[i].via = Shared(s, r)
      /\ \A i, j \in DOMAIN result : i < j => Before(result[i], result[j])
      /\ Len(result) = Min({MaxResults, Cardinality(Within[hops])})
      /\ \A r \in Within[hops] \ {result[i].room : i \in DOMAIN result},
            i \in DOMAIN result : Before(result[i], [room |-> r, hop |-> Distance(r)])

(* Edges counted per room are the rooms counted per pair of wings, and the *)
(* connectors of two wings are the rooms both can be reached from.         *)
Pairs == {p \in SUBSET Wings : Cardinality(p) = 2}
StatsAgree ==
    /\ TotalEdges = Total(Pairs, [p \in Pairs |-> Cardinality({r \in Nodes : p \subseteq WingsOf(r)})])
    /\ \A p \in Pairs :
          Len(FindTunnels(p)) = Min({MaxResults, Cardinality({r \in Nodes : p \subseteq WingsOf(r)})})
    /\ \A w \in Wings : RoomsPerWing[w] > 0 <=> \E r \in Nodes : w \in WingsOf(r)
=============================================================================
