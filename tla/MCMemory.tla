-------------------------------- MODULE MCMemory --------------------------------
(* What the palace makes of text: it is cut into chunks (extended here),   *)
(* summed up in closets, written into journals, searched, and linked into  *)
(* a graph that is rebuilt and walked; and the search index is made anew   *)
(* from the source of truth.  In these models the parts share no state: a  *)
(* behaviour runs one of them, the others stay as they started.            *)
EXTENDS Chunking, FiniteSets, TLC

CONSTANTS
    TopicLists, QuoteLists, LineLength, PlainLine, \* closets: what patterns find, how long it is
    TopicLimit, QuoteLimit, ClosetLimit,
    SearchedDrawer, Word, Wings, Sources, Query, \* a search: what there is to find,
    Memories, ClosetLists, Asked,                \* what is asked and answered,
    DefaultLimit, MaxLimit, Multiplier, FilterPool, RankBoosts, \* what the program fixes
    Unit, Rerankers, Batch, Far, MaxTouched,
    Agent, Lower, Entry,            \* journals: names, in lower case, and entries
    MaxTime, MaxWrites,
    Wing, Link, Drawer,             \* the graph: wings, authored links, drawers,
    EntitiesOf, RoomOf, Label,      \* what they name and where they are filed
    MinCount, Call, MaxCalls, MaxChanges,
    Placements,                     \* wings the drawers may start in
    WalkedRoom, WalkedWing, GeneralRoom, Walks, \* a walk: the graphs it may be of,
    HopsAsked, DefaultHops, MaxHops, MaxResults,
    Namespace, Point, Writer,       \* the index and who writes beside its replay
    UpsertBatch, MaxVersion,
    Absent

(* Texts of letters, blanks and line breaks, with windows that overlap by  *)
(* a little, by almost half, and not at all.                               *)
TextsTried == UNION {[1..n -> Char] : n \in {5, 7}}
SizingsTried == {[size |-> 4, overlap |-> 1, min |-> 2],
                 [size |-> 5, overlap |-> 2, min |-> 3],
                 [size |-> 3, overlap |-> 0, min |-> 2]}

(* Topics and quotes of a source, more than are kept, and some that are    *)
(* longer than a closet.                                                   *)
TopicsFound == UNION {[1..n -> {"a", "b", "c"}] : n \in 0..4}
QuotesFound == UNION {[1..n -> {"q", "r"}] : n \in 0..2}
LengthsTried == [x \in {"a", "b", "c", "q", "r", "f"} |->
                 CASE x \in {"a", "q"} -> 1 [] x \in {"b", "f"} -> 2
                   [] x = "c" -> 3 [] x = "r" -> 7]

LowerCase == [Ann |-> "ann", bob |-> "bob"]
Entries == {<<"x">>, <<"x", "x">>, <<"x", "y">>}

(* Two memories.  In one words are rare, a drawer has no text and the last *)
(* is too far; in the other a word is in all but one, in texts of several  *)
(* lengths and more than once.  The closets name known sources, or a row   *)
(* that has gone.                                                          *)
Memory(texts, near) ==
    [count |-> [d \in SearchedDrawer |-> [w \in Word |-> Cardinality({i \in DOMAIN texts[d] : texts[d][i] = w})]],
     length |-> [d \in SearchedDrawer |-> Len(texts[d])],
     source |-> [d \in SearchedDrawer |-> IF d \in {"d1", "d2"} THEN "s1" ELSE "s2"],
     near |-> near]
MemoriesTried ==
    {Memory([d1 |-> <<"a", "b", "c">>, d2 |-> <<"a", "a">>, d3 |-> <<>>, d4 |-> <<"a", "x">>],
            [d1 |-> 9, d2 |-> 7, d3 |-> 7, d4 |-> 2]),
     Memory([d1 |-> <<"x">>, d2 |-> <<"a", "a", "a", "b", "c", "c">>,
             d3 |-> <<"b", "x", "b">>, d4 |-> <<"b", "x", "x">>],
            [d1 |-> 8, d2 |-> 6, d3 |-> 6, d4 |-> 5])}
Closet(row, source, near) == [row |-> row, source |-> source, near |-> near]
ClosetsFound == {<<>>,
                 <<Closet(FALSE, "s2", TRUE), Closet(TRUE, "s2", TRUE), Closet(TRUE, "s2", FALSE)>>,
                 <<Closet(TRUE, "s1", FALSE), Closet(TRUE, "s1", TRUE)>>}

QueryTried == <<"a", "b", "c">>
Boosts == <<40, 25>>

(* Nothing tells the two callers of the graph apart.                       *)
CallSymmetry == Permutations(Call)

(* Drawers of one room name both entities; users link it across wings.     *)
(* The drawers are interchangeable, so they need only be told apart by how *)
(* many are in each wing at first; 0 is the wing of a row not there.       *)
BothEntities == [d \in 1..4 |-> {"e1", "e2"}]
OneRoom == [d \in 1..4 |-> "r"]
PlacementsTried == {<<1, 1, 2, 2>>, <<1, 1, 2, 0>>}
Links == {<< <<1, "r">>, <<2, "r">> >>, << <<2, "r">>, <<1, "r">> >>}

(* Every graph over four rooms and three wings, "general" in all of them,  *)
(* up to the names of the wings.                                           *)
RoomsOf(f, w) == f[1, w] + 2 * f[2, w] + 4 * f[3, w] + 8 * f[4, w]
GraphsTried == {f \in [(0..4) \X {"a", "b", "c"} -> {0, 1}] :
                   /\ \A w \in {"a", "b", "c"} : f[0, w] = 1
                   /\ RoomsOf(f, "a") <= RoomsOf(f, "b")
                   /\ RoomsOf(f, "b") <= RoomsOf(f, "c")}

VARIABLES
    part,
    pointers, nextLine, docs, cur, chars,
    entries, now, nonces, written, reading,
    memory, row, vector, touched, ask, stage, hits, survivors, boosts, ranked, scores,
    reranked, answer,
    wingOf, hallways, tunnels, graphLock, call, begun, changes, settled,
    filed, room, hops, queue, visited, result, walked,
    backend, sot, index, made, disk, up, write, writes, sync, rewritten, good

closets == <<pointers, nextLine, docs, cur, chars>>
journal == <<entries, now, nonces, written, reading>>
searching == <<memory, row, vector, touched, ask, stage, hits, survivors, boosts, ranked,
               scores, reranked, answer>>
graph == <<wingOf, hallways, tunnels, graphLock, call, begun, changes, settled>>
walk == <<filed, room, hops, queue, visited, result, walked>>
vectors == <<backend, sot, index, made, disk, up, write, writes, sync, rewritten, good>>

Closets == INSTANCE Closets WITH
    Topics <- TopicLists, Quotes <- QuoteLists, Length <- LineLength, Fallback <- PlainLine,
    CharLimit <- ClosetLimit, next <- nextLine
Journal == INSTANCE Journal WITH
    Wings <- {<<"project">>}, NoWing <- <<>>,
    Asked <- {0, 1}, DefaultN <- 2, MaxN <- 3, rows <- entries
Search == INSTANCE Search WITH Drawer <- SearchedDrawer, None <- Absent
Graph == INSTANCE DerivedGraph
Walk == INSTANCE GraphWalk WITH
    Rooms <- WalkedRoom, Wings <- WalkedWing, General <- GeneralRoom, Graphs <- Walks,
    Asked <- HopsAsked, start <- room, done <- walked
Sync == INSTANCE IndexSync WITH touched <- rewritten

ASSUME MemoryAssumption == Graph!Assumptions
ASSUME ClosetsAssumption == Closets!Assumptions
ASSUME SearchAssumption == Search!Assumptions
ASSUME WalkAssumption == Walk!Assumptions

(* A part that does not run has nothing to remember, but for the two that  *)
(* action properties are about.                                            *)
Rest == "at rest"
MCInit ==
    /\ part \in {"chunking", "closets", "journal", "search", "graph", "walk", "sync"}
    /\ IF part = "closets" THEN Closets!Init
       ELSE /\ pointers = Rest /\ nextLine = Rest /\ docs = Rest /\ cur = Rest
            /\ chars = Rest
    /\ IF part = "journal" THEN Journal!Init
       ELSE /\ entries = Rest /\ now = Rest /\ nonces = Rest /\ written = Rest
            /\ reading = Rest
    /\ IF part = "search" THEN Search!Init
       ELSE /\ memory = Rest /\ row = Rest /\ vector = Rest /\ touched = Rest
            /\ ask = Rest /\ stage = Rest /\ hits = Rest /\ survivors = Rest
            /\ boosts = Rest /\ ranked = Rest /\ scores = Rest /\ reranked = Rest
            /\ answer = Rest
    /\ IF part = "walk" THEN Walk!Init
       ELSE /\ filed = Rest /\ room = Rest /\ hops = Rest /\ queue = Rest
            /\ visited = Rest /\ result = Rest /\ walked = Rest
    /\ IF part = "sync" THEN Sync!Init
       ELSE /\ backend = Rest /\ sot = Rest /\ index = Rest /\ made = Rest
            /\ disk = Rest /\ up = Rest /\ write = Rest /\ writes = Rest
            /\ sync = Rest /\ rewritten = Rest /\ good = Rest
    /\ IF part = "graph" THEN Graph!Init /\ wingOf \in Placements
       ELSE Graph!Init /\ wingOf = [d \in Drawer |-> 0]
    /\ IF part = "chunking" THEN Init
       ELSE /\ cutter = "diary" /\ sizing = [size |-> 3, overlap |-> 0, min |-> 2]
            /\ text = <<>> /\ start = 0 /\ chunks = <<>> /\ done = TRUE

MCNext ==
    /\ UNCHANGED part
    /\ \/ /\ part = "chunking" /\ Next
          /\ UNCHANGED <<closets, journal, searching, graph, walk, vectors>>
       \/ /\ part = "closets" /\ Closets!Next
          /\ UNCHANGED <<vars, journal, searching, graph, walk, vectors>>
       \/ /\ part = "journal" /\ Journal!Next
          /\ UNCHANGED <<vars, closets, searching, graph, walk, vectors>>
       \/ /\ part = "search" /\ Search!Next
          /\ UNCHANGED <<vars, closets, journal, graph, walk, vectors>>
       \/ /\ part = "graph" /\ Graph!Next
          /\ UNCHANGED <<vars, closets, journal, searching, walk, vectors>>
       \/ /\ part = "walk" /\ Walk!Next
          /\ UNCHANGED <<vars, closets, journal, searching, graph, vectors>>
       \/ /\ part = "sync" /\ Sync!Next
          /\ UNCHANGED <<vars, closets, journal, searching, graph, walk>>

MCSpec == MCInit /\ [][MCNext]_<<part, vars, closets, journal, searching, graph, walk, vectors>>

(* Types of the part that runs.                                            *)
MemoryTypeOK == CASE part = "chunking" -> TypeOK
                  [] part = "closets"  -> Closets!TypeOK
                  [] part = "journal"  -> Journal!TypeOK
                  [] part = "search"   -> Search!TypeOK
                  [] part = "graph"    -> Graph!TypeOK
                  [] part = "walk"     -> Walk!TypeOK
                  [] part = "sync"     -> Sync!TypeOK

(* Cutting loses no text and always gets on to the end of it, and a closet  *)
(* is as full as it may be (palace/chunk.go, minechunk.go, closet.go).     *)
TextKept == /\ [](/\ part = "chunking" => NothingLost
                  /\ part = "closets" => Closets!PackedTightly)
            /\ Advances

(* A journal only ever gains entries, also of one text and in one second   *)
(* (palace.Service.WriteDiary).                                            *)
JournalAppends == part = "journal" => Journal!JournalAppends

(* A search ranks fairly and its filter is not starved (palace.Search).    *)
SearchIsFair ==
    part = "search" => Search!RankingIsFair /\ Search!FilterFindsAll /\ Search!AnswersAsAsked

(* A rebuilt graph tells the drawers it was read from, and rebuilding      *)
(* keeps what users linked by hand (palace.RecomputeGraph).                *)
GraphIsRebuilt == /\ [](part = "graph" => Graph!GraphTellsDrawers)
                  /\ Graph!AuthoredTunnelsKept

(* A walk finds the nearest rooms, and the statistics count the same graph *)
(* (palace.Traverse, FindTunnels, GraphStats).                             *)
WalkIsNearest == part = "walk" => Walk!WalkIsNearest /\ Walk!StatsAgree

(* A replay that reports success has made the index the truth              *)
(* (store.Hybrid.Rebuild, cmd/server/sync.go).                             *)
SyncedIsTruth == part = "sync" => Sync!SyncedIsTruth
=============================================================================
