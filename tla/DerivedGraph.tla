----------------------------- MODULE DerivedGraph -----------------------------
(***************************************************************************)
(* The stored graph of one team: hallways (entity pairs that co-occur in a *)
(* wing) and tunnels (links between wings, authored or derived from the    *)
(* hallways).  recompute_graph derives both from the drawers, statement by *)
(* statement under a per-team mutex, while drawers are filed, deleted and  *)
(* merged and users create and delete tunnels.                             *)
(*                                                                         *)
(* SanitizeName lets no colon through, so a room "entity:<E>" is never the *)
(* room of an authored tunnel: the rooms of derived tunnels are the        *)
(* entities themselves, apart from the places of Link.                     *)
(***************************************************************************)
EXTENDS Integers, FiniteSets

CONSTANTS
    Wing,        \* names of wings, positive numbers because they compare
    Link,        \* pairs of places users link, a place being <<wing, room>>
    Drawer,      \* drawers of the team
    EntitiesOf,  \* EntitiesOf[d]: entities stamped on drawer d
    RoomOf,      \* RoomOf[d]: the room it is filed in
    Call,        \* concurrent calls
    Label,       \* labels of authored tunnels
    MinCount,    \* hallwayMinCount
    MaxCalls,    \* bound: calls begun, which is also the clock
    MaxChanges   \* bound: changes of drawers

VARIABLES
    wingOf,      \* wingOf[d]: wing of the row, NoWing when there is no row
    hallways,    \* the hallways table
    tunnels,     \* the tunnels table
    graphLock,   \* graphLocks: the call that holds the team's mutex
    call,        \* call[c]: the step a call is at and what it has read
    begun,       \* calls begun
    changes,     \* changes of drawers so far
    settled      \* history: the drawers are as the last complete rebuild read
                 \* them, and nothing derived has been deleted by hand

vars == <<wingOf, hallways, tunnels, graphLock, call, begun, changes, settled>>

None == "none"
NoWing == 0
Idle == [step |-> "idle"]
Pairs == {p \in SUBSET UNION {EntitiesOf[d] : d \in Drawer} : Cardinality(p) = 2}

(* A pair has to be on some drawer to count; the rooms of authored links   *)
(* are no entities (see above).                                            *)
Assumptions ==
    /\ MinCount \in Nat \ {0}
    /\ None \notin Call
    /\ NoWing \notin Wing
    /\ \A l \in Link, d \in Drawer : l[1][2] \notin EntitiesOf[d] /\ l[2][2] \notin EntitiesOf[d]

Init ==
    /\ wingOf \in [Drawer -> Wing \cup {NoWing}]
    /\ hallways = {} /\ tunnels = {}
    /\ graphLock = None
    /\ call = [c \in Call |-> Idle]
    /\ begun = 0 /\ changes = 0
    /\ settled = FALSE

Drawers(wing) == {d \in Drawer : wingOf[d] = wing}
WingsWithDrawers == {wingOf[d] : d \in Drawer} \ {NoWing}
RoomExists(wing, room) == \E d \in Drawers(wing) : RoomOf[d] = room

(* Pairs of a wing and how many of its drawers each is on.                 *)
DrawersForHallways(wing) ==
    [p \in Pairs |-> Cardinality({d \in Drawers(wing) : p \subseteq EntitiesOf[d]})]

At(c, step) == call[c] # Idle /\ call[c].step = step
Goto(c, step) == call' = [call EXCEPT ![c].step = step]

(* History: a rebuild under way will not end in a settled graph.           *)
Rebuilding(c) == call[c] # Idle /\ "clean" \in DOMAIN call[c]
Spoiled == [c \in Call |-> IF Rebuilding(c) THEN [call[c] EXCEPT !.clean = FALSE]
                           ELSE call[c]]

-----------------------------------------------------------------------------
(* Drawers come, go and change wings (File also stands for a mine, Merge   *)
(* for the relabelling of merge_wing).                                     *)
Change ==
    /\ changes < MaxChanges /\ changes' = changes + 1
    /\ settled' = FALSE
    /\ call' = Spoiled
    /\ UNCHANGED <<hallways, tunnels, graphLock, begun>>

File(d, wing) ==
    wingOf[d] = NoWing /\ wingOf' = [wingOf EXCEPT ![d] = wing] /\ Change

Delete(d) ==
    wingOf[d] # NoWing /\ wingOf' = [wingOf EXCEPT ![d] = NoWing] /\ Change

Merge(source, target) ==
    /\ source # target /\ Drawers(source) # {}
    /\ wingOf' = [d \in Drawer |-> IF wingOf[d] = source THEN target ELSE wingOf[d]]
    /\ Change

-----------------------------------------------------------------------------
(* RecomputeGraph(wing, prune); wing is NoWing for all wings, the only case  *)
(* in which prune counts.                                                  *)
Derived(wing, count, now, prior) ==
    {[wing |-> wing, pair |-> p, count |-> count[p],
      since |-> IF \E h \in prior : h.pair = p
                THEN (CHOOSE h \in prior : h.pair = p).since ELSE now]
        : p \in {q \in Pairs : count[q] >= MinCount}}

EntityWings(halls, e) == {h.wing : h \in {g \in halls : e \in g.pair}}

(* Tunnels between every two wings that have hallways of one entity, from  *)
(* the wing whose name sorts first.                                        *)
EntityTunnels(halls, now) ==
    {[id |-> {<<w[1], w[3]>>, <<w[2], w[3]>>}, kind |-> "entity",
      label |-> None, since |-> now, source |-> <<w[1], w[3]>>]
        : w \in {v \in Wing \X Wing \X UNION Pairs :
                   v[1] < v[2] /\ {v[1], v[2]} \subseteq EntityWings(halls, v[3])}}

Begins(c, record) ==
    /\ call[c] = Idle /\ begun < MaxCalls
    /\ begun' = begun + 1
    /\ call' = [call EXCEPT ![c] = record]

RecomputeUnlocked(c, wing, prune) ==
    /\ Begins(c, [step |-> "present", only |-> wing, prune |-> prune, now |-> begun,
                  clean |-> settled \/ (wing = NoWing /\ prune),
                  present |-> {}, todo |-> {}, wing |-> NoWing, halls |-> {},
                  count |-> [p \in Pairs |-> 0]])
    /\ settled' = FALSE
    /\ UNCHANGED <<wingOf, hallways, tunnels, graphLock, changes>>

Recompute(c, wing, prune) ==
    /\ graphLock = None /\ graphLock' = c
    /\ Begins(c, [step |-> "present", only |-> wing, prune |-> prune, now |-> begun,
                  clean |-> settled \/ (wing = NoWing /\ prune),
                  present |-> {}, todo |-> {}, wing |-> NoWing, halls |-> {},
                  count |-> [p \in Pairs |-> 0]])
    /\ settled' = FALSE
    /\ UNCHANGED <<wingOf, hallways, tunnels, changes>>

(* The deferred unlock.                                                    *)
Returns(c, clean) ==
    /\ call' = [call EXCEPT ![c] = Idle]
    /\ graphLock' = IF graphLock = c THEN None ELSE graphLock
    /\ settled' = clean

Present(c) ==
    /\ At(c, "present")
    /\ LET only == call[c].only IN
       IF only # NoWing /\ only \notin WingsWithDrawers
       THEN Returns(c, call[c].clean)                         \* ErrInvalidInput
       ELSE /\ call' = [call EXCEPT ![c].step = "wings",
                           ![c].present = WingsWithDrawers,
                           ![c].todo = IF only = NoWing THEN WingsWithDrawers ELSE {only}]
            /\ UNCHANGED <<graphLock, settled>>
    /\ UNCHANGED <<wingOf, hallways, tunnels, begun, changes>>

(* computeHallwaysForWing: the drawers, then the hallways there are ...    *)
CountPairs(c, wing) ==
    /\ At(c, "wings") /\ wing \in call[c].todo
    /\ call' = [call EXCEPT ![c].step = "prior", ![c].wing = wing,
                   ![c].count = DrawersForHallways(wing)]
    /\ UNCHANGED <<wingOf, hallways, tunnels, graphLock, begun, changes, settled>>

KeepDynamics(c) ==
    /\ At(c, "prior")
    /\ call' = [call EXCEPT ![c].step = "replace",
                   ![c].halls = Derived(call[c].wing, call[c].count, call[c].now,
                                    {h \in hallways : h.wing = call[c].wing}),
                   ![c].count = [p \in Pairs |-> 0]]
    /\ UNCHANGED <<wingOf, hallways, tunnels, graphLock, begun, changes, settled>>

(* ... then ReplaceWingHallways, one transaction.                          *)
ReplaceWingHallways(c) ==
    /\ At(c, "replace")
    /\ hallways' = {h \in hallways : h.wing # call[c].wing} \cup call[c].halls
    /\ call' = [call EXCEPT ![c].step = "wings",
                   ![c].todo = call[c].todo \ {call[c].wing}, ![c].halls = {}]
    /\ UNCHANGED <<wingOf, tunnels, graphLock, begun, changes, settled>>

PruneNothing(c) ==
    /\ At(c, "wings") /\ call[c].todo = {}
    /\ call' = [call EXCEPT ![c].step = "prune"]
    /\ UNCHANGED <<wingOf, hallways, tunnels, graphLock, begun, changes, settled>>

(* Wings with hallways and no drawers, found in one statement and cleared  *)
(* in one statement each.                                                  *)
ListStale(c) ==
    /\ At(c, "wings") /\ call[c].todo = {}
    /\ call' = [call EXCEPT ![c].step = "prune",
                   ![c].todo = IF call[c].prune /\ call[c].only = NoWing
                               THEN {h.wing : h \in hallways} \ call[c].present
                               ELSE {}]
    /\ UNCHANGED <<wingOf, hallways, tunnels, graphLock, begun, changes, settled>>

PruneWing(c, wing) ==
    /\ At(c, "prune") /\ wing \in call[c].todo
    /\ hallways' = {h \in hallways : h.wing # wing}
    /\ call' = [call EXCEPT ![c].todo = @ \ {wing}]
    /\ UNCHANGED <<wingOf, tunnels, graphLock, begun, changes, settled>>

DropAllTunnels(c) ==
    /\ At(c, "prune") /\ call[c].todo = {}
    /\ tunnels' = {}
    /\ Goto(c, "list")
    /\ UNCHANGED <<wingOf, hallways, graphLock, begun, changes, settled>>

DeleteTunnelsByKind(c) ==
    /\ At(c, "prune") /\ call[c].todo = {}
    /\ tunnels' = {t \in tunnels : t.kind # "entity"}
    /\ Goto(c, "list")
    /\ UNCHANGED <<wingOf, hallways, graphLock, begun, changes, settled>>

ListAll(c) ==
    /\ At(c, "list")
    /\ call' = [call EXCEPT ![c].step = "save", ![c].halls = hallways]
    /\ UNCHANGED <<wingOf, hallways, tunnels, graphLock, begun, changes, settled>>

(* An upsert of every column.                                              *)
SaveTunnels(c) ==
    LET fresh == EntityTunnels(call[c].halls, call[c].now) IN
    /\ At(c, "save")
    /\ tunnels' = {t \in tunnels : \A u \in fresh : u.id # t.id} \cup fresh
    /\ Returns(c, call[c].clean)
    /\ UNCHANGED <<wingOf, hallways, begun, changes>>

(* A statement fails, or the caller goes away and cancels it.              *)
Fail(c) ==
    /\ Rebuilding(c)
    /\ Returns(c, FALSE)
    /\ UNCHANGED <<wingOf, hallways, tunnels, begun, changes>>

-----------------------------------------------------------------------------
(* Users: create_tunnel checks one end, then the other, then upserts.      *)
CreateTunnel(c, source, target, label) ==
    /\ Begins(c, [step |-> "source", source |-> source, target |-> target,
                  label |-> label, now |-> begun])
    /\ UNCHANGED <<wingOf, hallways, tunnels, graphLock, changes, settled>>

CheckEnd(c, step, end, next) ==
    /\ At(c, step)
    /\ IF RoomExists(end[1], end[2]) THEN Goto(c, next)
       ELSE call' = [call EXCEPT ![c] = Idle]                 \* ErrInvalidInput
    /\ UNCHANGED <<wingOf, hallways, tunnels, graphLock, begun, changes, settled>>

CheckSource(c) == At(c, "source") /\ CheckEnd(c, "source", call[c].source, "target")
CheckTarget(c) == At(c, "target") /\ CheckEnd(c, "target", call[c].target, "upsert")

CanonicalId(source, target) == {source, target}

Explicit(c) == [id |-> CanonicalId(call[c].source, call[c].target), kind |-> "explicit",
                label |-> call[c].label, since |-> call[c].now, source |-> call[c].source]

UpsertAll(c) ==
    /\ At(c, "upsert")
    /\ tunnels' = {t \in tunnels : t.id # Explicit(c).id} \cup {Explicit(c)}
    /\ call' = [call EXCEPT ![c] = Idle]
    /\ UNCHANGED <<wingOf, hallways, graphLock, begun, changes, settled>>

UpsertExplicitTunnel(c) ==
    /\ At(c, "upsert")
    /\ tunnels' = IF \E t \in tunnels : t.id = Explicit(c).id
                  THEN {IF t.id = Explicit(c).id THEN [t EXCEPT !.label = call[c].label]
                        ELSE t : t \in tunnels}
                  ELSE tunnels \cup {Explicit(c)}
    /\ call' = [call EXCEPT ![c] = Idle]
    /\ UNCHANGED <<wingOf, hallways, graphLock, begun, changes, settled>>

(* What is deleted by hand comes back with the next rebuild.               *)
ByHand ==
    /\ begun < MaxCalls /\ begun' = begun + 1
    /\ UNCHANGED <<wingOf, graphLock, changes>>

DeleteTunnel(t) ==
    /\ ByHand
    /\ tunnels' = tunnels \ {t}
    /\ IF t.kind = "entity" THEN settled' = FALSE /\ call' = Spoiled
       ELSE UNCHANGED <<settled, call>>
    /\ UNCHANGED hallways

DeleteHallway(h) ==
    /\ ByHand
    /\ hallways' = hallways \ {h}
    /\ settled' = FALSE /\ call' = Spoiled
    /\ UNCHANGED tunnels

Next ==
    \/ \E d \in Drawer : Delete(d) \/ \E wing \in Wing : File(d, wing)
    \/ \E source, target \in Wing : Merge(source, target)
    \/ \E c \in Call :
          \/ \E wing \in Wing \cup {NoWing}, prune \in BOOLEAN : Recompute(c, wing, prune)
          \/ Present(c) \/ KeepDynamics(c) \/ ReplaceWingHallways(c)
          \/ ListStale(c) \/ DeleteTunnelsByKind(c) \/ ListAll(c) \/ SaveTunnels(c)
          \/ \E wing \in Wing : CountPairs(c, wing) \/ PruneWing(c, wing)
          \/ Fail(c)
          \/ \E link \in Link, label \in Label : CreateTunnel(c, link[1], link[2], label)
          \/ CheckSource(c) \/ CheckTarget(c) \/ UpsertExplicitTunnel(c)
    \/ \E t \in tunnels : DeleteTunnel(t)
    \/ \E h \in hallways : DeleteHallway(h)

Spec == Init /\ [][Next]_vars

-----------------------------------------------------------------------------
(* Types: one row per tunnel id and per wing and pair; the lock is held by *)
(* a rebuild, and no rebuild runs without it.                              *)
TypeOK ==
    /\ wingOf \in [Drawer -> Wing \cup {NoWing}]
    /\ \A h \in hallways : h.wing \in Wing /\ h.pair \in Pairs /\ h.count >= MinCount
    /\ \A h, g \in hallways : h.wing = g.wing /\ h.pair = g.pair => h = g
    /\ \A t, u \in tunnels : t.id = u.id => t = u
    /\ \A c \in Call : Rebuilding(c) <=> graphLock = c
    /\ begun \in 0..MaxCalls /\ changes \in 0..MaxChanges /\ settled \in BOOLEAN

Content(halls) == {[h EXCEPT !.since = 0] : h \in halls}

(* Once a rebuild of all wings, with pruning, has run to its end with the  *)
(* drawers left alone, and until they change, the graph is exactly what    *)
(* the drawers say: every wing's pairs and counts, tunnels for every       *)
(* entity that has hallways in two wings, none for anything else; failed   *)
(* and partial rebuilds before it, and rebuilds of single wings after it,  *)
(* do not matter (graphquery.go:230-241).                                  *)
GraphTellsDrawers ==
    settled =>
      /\ Content(hallways) = UNION {Derived(w, DrawersForHallways(w), 0, {}) : w \in Wing}
      /\ {t.id : t \in {u \in tunnels : u.kind = "entity"}}
            = {t.id : t \in EntityTunnels(hallways, 0)}

(* An authored tunnel outlives rebuilds, merges and other people's calls:  *)
(* it goes only by delete_tunnel, and creating it again, from either end   *)
(* and by two calls at once, keeps its orientation and age                 *)
(* (graph.go:157-161).                                                     *)
AuthoredTunnelsKept ==
    [][\A t \in tunnels : t.kind = "explicit" =>
          \/ \E u \in tunnels' : u = [t EXCEPT !.label = u.label]
          \/ DeleteTunnel(t)]_vars
=============================================================================
