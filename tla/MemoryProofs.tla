------------------------------ MODULE MemoryProofs ------------------------------
(***************************************************************************)
(* Proofs about the parts MCMemory runs, but the walk, for every value of  *)
(* their constants.  A replay that reports success has made the index the  *)
(* truth (SyncInv: what has been loaded and what is yet to be); journals   *)
(* only gain entries (JournalInv: whose rows are whose); the graph a       *)
(* complete rebuild leaves is what the drawers say, and it keeps what      *)
(* users have authored (GraphInv: how far a rebuild nobody disturbed has   *)
(* come); cutting a text and packing its closets loses nothing (CutInv,    *)
(* PackInv: what is held of the text behind the cursor); and a search      *)
(* answers as asked and in a fair order (SearchInv: the lists its steps    *)
(* have made of one another, down to the sort of the blend).               *)
(***************************************************************************)
EXTENDS MCMemory, FiniteSetTheorems, SequenceTheorems, WellFoundedInduction, TLAPS

-----------------------------------------------------------------------------
(* A replay is at a namespace while it reads and loads it.                 *)
Contents == [Point -> Nat]
Jobs == [step : {"ensure", "truth", "index"}, ns : Namespace, ids : (SUBSET Point) \ {{}}, content : Nat]
Replays == [step : {"next", "read", "ensure", "load", "done"},
            mode : {"recreate", "upsert", "boot"}, todo : SUBSET Namespace,
            ns : Namespace \cup {""}, points : Contents]
Replaying == sync.step \in {"read", "ensure", "load"}
Running == Replaying \/ sync.step = "next"

SyncTypes ==
    /\ backend \in {"qdrant", "chromem"} /\ up \in BOOLEAN
    /\ sot \in [Namespace -> Contents]
    /\ index \in [Namespace -> Contents]
    /\ disk \in [Namespace -> Contents]
    /\ made \subseteq Namespace /\ good \subseteq Namespace
    /\ rewritten \subseteq Namespace \X Point
    /\ write \in [Writer -> Jobs \cup {Sync!Idle}]
    /\ sync \in Replays \cup {Sync!Idle}
    /\ Replaying => sync.ns \in Namespace

(* What is yet to be replayed, or is being replayed, is not called good.   *)
TodoIsNotGood ==
    /\ Running => sync.todo \cap good = {}
    /\ Replaying => sync.ns \notin good \cup sync.todo

(* In memory the replay is that of a boot, before the server serves, and   *)
(* what a server that is down had called good is forgotten.                *)
BootsAlone ==
    /\ Running => (backend = "chromem" <=> sync.mode = "boot")
    /\ backend = "chromem" =>
         /\ up => ~Running
         /\ ~up => \A w \in Writer : write[w] = Sync!Idle
         /\ ~up /\ ~Running => good = {}

(* A point no write touched is either still to be loaded as the truth has  *)
(* it, or it is in the index.                                              *)
Untouched(n, p) == <<n, p>> \notin rewritten
Cleared(n, p) == sync.mode = "recreate" => index[n][p] = 0
LoadedOrHeld ==
    /\ sync.step = "read" => \A p \in Point : Untouched(sync.ns, p) => Cleared(sync.ns, p)
    /\ sync.step \in {"ensure", "load"} =>
         /\ Sync!Held(sync.points) # {}
         /\ \A p \in Point : Untouched(sync.ns, p) =>
              \/ sync.points[p] = sot[sync.ns][p] /\ Cleared(sync.ns, p)
              \/ sync.points[p] = 0 /\ index[sync.ns][p] = sot[sync.ns][p]

(* A boot leaves no namespace empty behind it.                             *)
BootRefills ==
    backend = "chromem" /\ Running =>
      \A n \in Namespace : Sync!Held(sot[n]) # {} =>
         n \in sync.todo \/ (Replaying /\ n = sync.ns) \/ Sync!Held(index[n]) # {}

SyncInv == SyncTypes /\ TodoIsNotGood /\ BootsAlone /\ LoadedOrHeld /\ BootRefills /\ Sync!SyncedIsTruth
(* Updates of the replay's record, of a field and of several.              *)
LEMMA ReplayUpdates ==
    ASSUME NEW r \in Replays, NEW x
    PROVE  /\ [r EXCEPT !.step = x] = [step |-> x, mode |-> r.mode, todo |-> r.todo, ns |-> r.ns, points |-> r.points]
           /\ [r EXCEPT !.todo = x] = [step |-> r.step, mode |-> r.mode, todo |-> x, ns |-> r.ns, points |-> r.points]
           /\ [r EXCEPT !.points = x] = [step |-> r.step, mode |-> r.mode, todo |-> r.todo, ns |-> r.ns, points |-> x]
  <1>1. r = [step |-> r.step, mode |-> r.mode, todo |-> r.todo, ns |-> r.ns, points |-> r.points]
    BY DEF Replays
  <1> QED BY <1>1

LEMMA ReplayMoves ==
    ASSUME sync \in Replays, NEW t, NEW n, NEW s,
           sync' = [sync EXCEPT !.todo = t, !.ns = n, !.step = s]
    PROVE  sync' = [step |-> s, mode |-> sync.mode, todo |-> t, ns |-> n, points |-> sync.points]
  <1> DEFINE a == [sync EXCEPT !.todo = t]
             b == [a EXCEPT !.ns = n]
  <1>1. a = [step |-> sync.step, mode |-> sync.mode, todo |-> t, ns |-> sync.ns, points |-> sync.points]
    BY ReplayUpdates, Zenon
  <1>2. b = [step |-> sync.step, mode |-> sync.mode, todo |-> t, ns |-> n, points |-> sync.points]
    <2> HIDE DEF a
    <2> QED BY <1>1
  <1>3. sync' = [b EXCEPT !.step = s]
    BY Zenon
  <1> HIDE DEF a, b
  <1> QED BY <1>2, <1>3

LEMMA ReplayHolds ==
    ASSUME sync \in Replays, NEW s, NEW q, sync' = [sync EXCEPT !.step = s, !.points = q]
    PROVE  sync' = [step |-> s, mode |-> sync.mode, todo |-> sync.todo, ns |-> sync.ns, points |-> q]
  <1> DEFINE a == [sync EXCEPT !.step = s]
  <1>1. a = [step |-> s, mode |-> sync.mode, todo |-> sync.todo, ns |-> sync.ns, points |-> sync.points]
    BY ReplayUpdates, Zenon
  <1>3. sync' = [a EXCEPT !.points = q]
    BY Zenon
  <1> HIDE DEF a
  <1> QED BY <1>1, <1>3

LEMMA ReplayEnds ==
    ASSUME sync \in Replays, NEW s, NEW t, sync' = [sync EXCEPT !.step = s, !.todo = t]
    PROVE  sync' = [step |-> s, mode |-> sync.mode, todo |-> t, ns |-> sync.ns, points |-> sync.points]
  <1> DEFINE a == [sync EXCEPT !.step = s]
  <1>1. a = [step |-> s, mode |-> sync.mode, todo |-> sync.todo, ns |-> sync.ns, points |-> sync.points]
    BY ReplayUpdates, Zenon
  <1>3. sync' = [a EXCEPT !.todo = t]
    BY Zenon
  <1> HIDE DEF a
  <1> QED BY <1>1, <1>3

(* A writer in a step has a job, a replay in a step is one.                *)
LEMMA AtWork ==
    ASSUME SyncTypes
    PROVE  /\ \A w \in Writer : write[w].step # "idle" =>
                /\ write[w] \in Jobs
                /\ write[w].ns \in Namespace /\ write[w].ids \subseteq Point
                /\ write[w].ids # {} /\ write[w].content \in Nat
                /\ \A s \in {"ensure", "truth", "index"} : [write[w] EXCEPT !.step = s] \in Jobs
           /\ \A w \in Writer : write[w] # Sync!Idle => write[w].step # "idle"
           /\ sync.step # "idle" => sync \in Replays
  BY DEF SyncTypes, Jobs, Sync!Idle

LEMMA AfterIsContents ==
    ASSUME NEW c \in Contents, NEW j \in Jobs PROVE Sync!After(c, j) \in Contents
  BY DEF Contents, Jobs, Sync!After

LEMMA NoneIsContents == Sync!None \in Contents
  BY DEF Sync!None, Contents

LEMMA WriterTypes ==
    ASSUME SyncTypes, NEW w \in Writer,
           \/ \E n \in Namespace, ids \in SUBSET Point, content \in 0..MaxVersion :
                Sync!Begin(w, n, ids, content)
           \/ Sync!Ensure(w) \/ Sync!WriteTruth(w) \/ Sync!WriteIndex(w) \/ Sync!WriteFails(w)
    PROVE  SyncTypes'
  <1> USE DEF SyncTypes, Replaying
  <1>1. ASSUME NEW n \in Namespace, NEW ids \in SUBSET Point,
               NEW content \in 0..MaxVersion, Sync!Begin(w, n, ids, content)
        PROVE  SyncTypes'
    <2>1. [step |-> IF content = 0 THEN "truth" ELSE "ensure", ns |-> n, ids |-> ids, content |-> content] \in Jobs
      BY <1>1 DEF Jobs, Sync!Begin
    <2> QED BY <1>1, <2>1 DEF Sync!Begin
  <1>2. CASE Sync!Ensure(w)
    <2>1. write[w].ns \in Namespace /\ [write[w] EXCEPT !.step = "truth"] \in Jobs
      BY <1>2, AtWork DEF Sync!Ensure
    <2> QED BY <1>2, <2>1 DEF Sync!Ensure
  <1>3. CASE Sync!WriteTruth(w)
    <2>1. write[w] \in Jobs /\ write[w].ns \in Namespace /\ write[w].ids \subseteq Point /\ [write[w] EXCEPT !.step = "index"] \in Jobs
      BY <1>3, AtWork DEF Sync!WriteTruth
    <2>2. sot' \in [Namespace -> Contents]
      BY <1>3, <2>1, AfterIsContents DEF Sync!WriteTruth
    <2>3. rewritten' \subseteq Namespace \X Point
      BY <1>3, <2>1 DEF Sync!WriteTruth, Sync!Touch
    <2> QED BY <1>3, <2>1, <2>2, <2>3 DEF Sync!WriteTruth
  <1>4. CASE Sync!WriteIndex(w)
    <2>1. write[w] \in Jobs /\ write[w].ns \in Namespace /\ write[w].ids \subseteq Point
      BY <1>4, AtWork DEF Sync!WriteIndex
    <2>2. index' \in [Namespace -> Contents] /\ disk' \in [Namespace -> Contents]
      BY <1>4, <2>1, AfterIsContents DEF Sync!WriteIndex
    <2>3. rewritten' \subseteq Namespace \X Point
      BY <1>4, <2>1 DEF Sync!WriteIndex, Sync!Touch
    <2> QED BY <1>4, <2>1, <2>2, <2>3 DEF Sync!WriteIndex
  <1>5. CASE Sync!WriteFails(w)
    BY <1>5 DEF Sync!WriteFails
  <1> QED BY <1>1, <1>2, <1>3, <1>4, <1>5

(* A load of the points ids, as Load has it.                                *)
Loads(ids) ==
    LET loaded(stored) == [stored EXCEPT ![sync.ns] =
            [p \in Point |-> IF p \in ids THEN sync.points[p] ELSE @[p]]]
        left == Sync!Left(sync.points, ids) IN
    /\ index' = loaded(index)
    /\ disk' = IF backend = "chromem" THEN loaded(disk) ELSE disk
    /\ sync' = [sync EXCEPT !.points = left, !.step = IF left = Sync!None THEN "next" ELSE @]
    /\ good' = IF left = Sync!None THEN good \union {sync.ns} ELSE good

LEMMA LoadUpdates ==
    ASSUME sync \in Replays, sync.step = "load", NEW ids, Loads(ids)
    PROVE  sync' = [step |-> IF Sync!Left(sync.points, ids) = Sync!None THEN "next" ELSE "load",
                    mode |-> sync.mode, todo |-> sync.todo, ns |-> sync.ns,
                    points |-> Sync!Left(sync.points, ids)]
  <1> DEFINE left == Sync!Left(sync.points, ids)
             a == [sync EXCEPT !.points = left]
  <1>1. sync' = [a EXCEPT !.step = IF left = Sync!None THEN "next" ELSE @]
    BY Zenon DEF Loads
  <1>2. a = [step |-> sync.step, mode |-> sync.mode, todo |-> sync.todo, ns |-> sync.ns, points |-> left]
    BY ReplayUpdates, Zenon
  <1> HIDE DEF a, left
  <1>3. sync' = [step |-> IF left = Sync!None THEN "next" ELSE "load", mode |-> sync.mode,
                 todo |-> sync.todo, ns |-> sync.ns, points |-> left]
    BY <1>1, <1>2
  <1> QED BY <1>3 DEF left

LEMMA ReplayTypes ==
    ASSUME SyncTypes,
           \/ \E mode \in {"recreate", "upsert"} : Sync!StartSync(mode)
           \/ \E n \in Namespace : Sync!NextNamespace(n)
           \/ Sync!Read \/ Sync!EnsureIndex \/ Sync!Load
    PROVE  SyncTypes'
  <1> USE DEF SyncTypes
  <1>6. ASSUME NEW mode \in {"recreate", "upsert"}, Sync!StartSync(mode) PROVE SyncTypes'
    <2>1. sync' \in Replays /\ sync'.step = "next"
      BY <1>6, NoneIsContents DEF Sync!StartSync, Sync!Namespaces, Replays
    <2> QED BY <1>6, <2>1 DEF Sync!StartSync, Replaying
  <1>7. ASSUME NEW n \in Namespace, Sync!NextNamespace(n) PROVE SyncTypes'
    <2>0. sync \in Replays
      BY <1>7, AtWork DEF Sync!NextNamespace
    <2>1. sync' \in Replays /\ (sync'.step = "next" \/ sync'.ns = n)
      <3>1. CASE sync.mode = "boot" /\ Sync!Held(index[n]) # {}
        <4>1. sync' = [sync EXCEPT !.todo = @ \ {n}]
          BY <1>7, <3>1, Zenon DEF Sync!NextNamespace
        <4> QED BY <4>1, <1>7, <2>0 DEF Sync!NextNamespace, Replays
      <3>2. CASE ~(sync.mode = "boot" /\ Sync!Held(index[n]) # {})
        <4>1. sync' = [step |-> "read", mode |-> sync.mode, todo |-> sync.todo \ {n}, ns |-> n, points |-> sync.points]
          <5> DEFINE t == sync.todo \ {n}
          <5>1. sync' = [sync EXCEPT !.todo = t, !.ns = n, !.step = "read"]
            BY <1>7, <3>2, Zenon DEF Sync!NextNamespace
          <5> HIDE DEF t
          <5>2. sync' = [step |-> "read", mode |-> sync.mode, todo |-> t, ns |-> n, points |-> sync.points]
            BY <5>1, <2>0, ReplayMoves, Zenon
          <5> QED BY <5>2 DEF t
        <4> QED BY <4>1, <2>0 DEF Replays
      <3> QED BY <3>1, <3>2
    <2>2. index' \in [Namespace -> Contents]
      BY <1>7, NoneIsContents DEF Sync!NextNamespace
    <2>3. rewritten' \subseteq Namespace \X Point
      <3>1. Sync!InFlight \subseteq Namespace \X Point
        <4>1. \A w \in Sync!Writing : {write[w].ns} \X write[w].ids \subseteq Namespace \X Point
          BY AtWork DEF Sync!Writing
        <4> QED BY <4>1 DEF Sync!InFlight
      <3> QED BY <1>7, <3>1 DEF Sync!NextNamespace
    <2>4. made' \subseteq Namespace
      BY <1>7 DEF Sync!NextNamespace
    <2>5. UNCHANGED <<backend, sot, disk, up, write, good>>
      BY <1>7 DEF Sync!NextNamespace
    <2>6. Replaying' => sync'.ns \in Namespace
      BY <2>1 DEF Replaying
    <2> QED BY <2>1, <2>2, <2>3, <2>4, <2>5, <2>6
  <1>8. CASE Sync!Read
    <2>0. sync \in Replays /\ sync.ns \in Namespace
      BY <1>8, AtWork DEF Sync!Read, Replaying
    <2>1. sync' \in Replays /\ sync'.ns = sync.ns
      <3>1. CASE sot[sync.ns] = Sync!None
        <4>1. sync' = [sync EXCEPT !.step = "next"]
          BY <1>8, <3>1, Zenon DEF Sync!Read
        <4> QED BY <4>1, <2>0 DEF Replays
      <3>2. CASE sot[sync.ns] # Sync!None
        <4>1. sync' = [step |-> "ensure", mode |-> sync.mode, todo |-> sync.todo, ns |-> sync.ns, points |-> sot[sync.ns]]
          <5>1. sync' = [sync EXCEPT !.step = "ensure", !.points = sot[sync.ns]]
            BY <1>8, <3>2, Zenon DEF Sync!Read
          <5> QED BY <5>1, <2>0, ReplayHolds, Zenon
        <4> QED BY <4>1, <2>0 DEF Replays
      <3> QED BY <3>1, <3>2
    <2>2. good' \subseteq Namespace
      BY <1>8, <2>0 DEF Sync!Read
    <2> QED BY <1>8, <2>0, <2>1, <2>2 DEF Sync!Read, Replaying
  <1>9. CASE Sync!EnsureIndex
    <2>0. sync \in Replays /\ sync.ns \in Namespace
      BY <1>9, AtWork DEF Sync!EnsureIndex, Replaying
    <2>1. sync' \in Replays /\ sync'.ns = sync.ns
      BY <1>9, <2>0 DEF Sync!EnsureIndex, Replays
    <2> QED BY <1>9, <2>0, <2>1 DEF Sync!EnsureIndex, Replaying
  <1>10. CASE Sync!Load
    <2>0. sync \in Replays /\ sync.ns \in Namespace
      BY <1>10, AtWork DEF Sync!Load, Replaying
    <2> PICK ids \in Sync!Batches(sync.points) : Loads(ids)
      BY <1>10, Zenon DEF Sync!Load, Loads
    <2> DEFINE left == Sync!Left(sync.points, ids)
    <2>1. left \in Contents
      BY <2>0 DEF Sync!Left, Contents, Replays
    <2>2. sync' \in Replays /\ sync'.ns = sync.ns
      <3>1. sync.step = "load"
        BY <1>10 DEF Sync!Load
      <3>2. sync' = [step |-> IF left = Sync!None THEN "next" ELSE "load", mode |-> sync.mode,
                     todo |-> sync.todo, ns |-> sync.ns, points |-> left]
        BY <2>0, <3>1, LoadUpdates, Zenon
      <3> HIDE DEF left
      <3> QED BY <3>2, <2>0, <2>1 DEF Replays
    <2>3. index' \in [Namespace -> Contents] /\ disk' \in [Namespace -> Contents]
      <3>1. \A c \in Contents : [p \in Point |-> IF p \in ids THEN sync.points[p] ELSE c[p]] \in Contents
        BY <2>0 DEF Contents, Replays
      <3> QED BY <2>0, <3>1 DEF Loads
    <2>4. good' \subseteq Namespace
      BY <2>0 DEF Loads
    <2> QED BY <1>10, <2>0, <2>2, <2>3, <2>4 DEF Sync!Load, Replaying
  <1> QED BY <1>6, <1>7, <1>8, <1>9, <1>10

LEMMA EndTypes ==
    ASSUME SyncTypes,
           Sync!NamespaceFails \/ Sync!EndSync \/ Sync!Stop \/ Sync!Boot
    PROVE  SyncTypes'
  <1> USE DEF SyncTypes
  <1>0. [n \in Namespace |-> Sync!None] \in [Namespace -> Contents]
    BY NoneIsContents
  <1>1. CASE Sync!NamespaceFails
    <2>1. sync \in Replays /\ sync.step \in {"read", "ensure", "load"}
      BY <1>1, AtWork DEF Sync!NamespaceFails
    <2>2. CASE sync.mode = "boot"
      BY <1>0, <1>1, <2>2 DEF Sync!NamespaceFails, Replaying, Sync!Idle
    <2>3. CASE sync.mode # "boot"
      <3>1. sync' = [sync EXCEPT !.step = "next"]
        BY <1>1, <2>3, Zenon DEF Sync!NamespaceFails
      <3>2. sync' \in Replays /\ sync'.step = "next"
        BY <2>1, <3>1 DEF Replays
      <3>3. UNCHANGED <<backend, sot, index, made, disk, up, write, rewritten, good>>
        BY <1>1, <2>3 DEF Sync!NamespaceFails
      <3> QED BY <3>2, <3>3 DEF Replaying
    <2> QED BY <2>2, <2>3
  <1>2. CASE Sync!EndSync
    <2>1. sync \in Replays
      BY <1>2, AtWork DEF Sync!EndSync
    <2>2. sync' = [sync EXCEPT !.step = "done", !.todo = {}]
      BY <1>2, Zenon DEF Sync!EndSync
    <2>3. sync' = [step |-> "done", mode |-> sync.mode, todo |-> {}, ns |-> sync.ns, points |-> sync.points]
      BY <2>1, <2>2, ReplayEnds, Zenon
    <2>4. sync' \in Replays /\ sync'.step = "done"
      BY <2>1, <2>3 DEF Replays
    <2>5. UNCHANGED <<backend, sot, index, made, disk, write, rewritten, good>> /\ up' \in BOOLEAN
      BY <1>2 DEF Sync!EndSync
    <2> QED BY <2>4, <2>5 DEF Replaying
  <1>3. CASE Sync!Stop
    BY <1>0, <1>3 DEF Sync!Stop, Replaying
  <1>4. CASE Sync!Boot
    <2>1. sync' \in Replays /\ sync'.step = "next"
      BY <1>4, NoneIsContents DEF Sync!Boot, Sync!Namespaces, Replays
    <2> QED BY <1>4, <2>1 DEF Sync!Boot, Replaying
  <1> QED BY <1>1, <1>2, <1>3, <1>4

-----------------------------------------------------------------------------
(* A writer's step touches whatever it changes.                            *)
WriterStep(w) ==
    \/ \E n \in Namespace, ids \in SUBSET Point, content \in 0..MaxVersion :
         Sync!Begin(w, n, ids, content)
    \/ Sync!Ensure(w) \/ Sync!WriteTruth(w) \/ Sync!WriteIndex(w) \/ Sync!WriteFails(w)

LEMMA WritersTouch ==
    ASSUME SyncTypes, NEW w \in Writer, WriterStep(w), NEW n \in Namespace, NEW p \in Point,
           Untouched(n, p)'
    PROVE  Untouched(n, p) /\ sot'[n][p] = sot[n][p] /\ index'[n][p] = index[n][p]
  <1> USE DEF Untouched
  <1>1. CASE Sync!WriteTruth(w)
    <2>1. write[w].ns \in Namespace /\ write[w].ids \subseteq Point /\ sot[n] \in Contents
      BY <1>1, AtWork DEF Sync!WriteTruth, SyncTypes
    <2>2. Untouched(n, p) /\ ~(n = write[w].ns /\ p \in write[w].ids)
      BY <1>1, <2>1 DEF Sync!WriteTruth, Sync!Touch
    <2>3. Sync!After(sot[n], write[w])[p] = sot[n][p] \/ n # write[w].ns
      BY <2>2 DEF Sync!After
    <2> QED BY <1>1, <2>1, <2>2, <2>3 DEF Sync!WriteTruth, SyncTypes
  <1>2. CASE Sync!WriteIndex(w)
    <2>1. write[w].ns \in Namespace /\ write[w].ids \subseteq Point /\ index[n] \in Contents
      BY <1>2, AtWork DEF Sync!WriteIndex, SyncTypes
    <2>2. Untouched(n, p) /\ ~(n = write[w].ns /\ p \in write[w].ids)
      BY <1>2, <2>1 DEF Sync!WriteIndex, Sync!Touch
    <2>3. Sync!After(index[n], write[w])[p] = index[n][p] \/ n # write[w].ns
      BY <2>2 DEF Sync!After
    <2> QED BY <1>2, <2>1, <2>2, <2>3 DEF Sync!WriteIndex, SyncTypes
  <1>3. CASE Sync!Ensure(w) \/ Sync!WriteFails(w)
    BY <1>3 DEF Sync!Ensure, Sync!WriteFails
  <1>4. CASE \E m \in Namespace, ids \in SUBSET Point, content \in 0..MaxVersion :
                Sync!Begin(w, m, ids, content)
    BY <1>4 DEF Sync!Begin
  <1> QED BY <1>1, <1>2, <1>3, <1>4 DEF WriterStep

LEMMA WritersKeep ==
    ASSUME SyncInv, NEW w \in Writer, WriterStep(w)
    PROVE  SyncInv'
  <1> USE DEF SyncInv
  <1>1. SyncTypes'
    BY WriterTypes, Zenon DEF WriterStep
  <1>2. UNCHANGED <<backend, up, sync, good>>
    BY DEF WriterStep, Sync!Begin, Sync!Ensure, Sync!WriteTruth, Sync!WriteIndex, Sync!WriteFails
  <1>3. up \/ write[w] # Sync!Idle
    BY DEF WriterStep, Sync!Begin, Sync!Ensure, Sync!WriteTruth, Sync!WriteIndex, Sync!WriteFails, Sync!Idle
  <1>4. backend = "chromem" => up /\ ~Running
    BY <1>3 DEF BootsAlone
  <1>5. TodoIsNotGood'
    BY <1>2 DEF TodoIsNotGood, Running, Replaying
  <1>6. BootsAlone'
    BY <1>2, <1>4 DEF BootsAlone, Running, Replaying
  <1>7. LoadedOrHeld'
    <2>1. CASE Replaying
      <3>1. sync.ns \in Namespace
        BY <2>1 DEF SyncTypes
      <3>2. \A p \in Point : Untouched(sync.ns, p)' =>
              Untouched(sync.ns, p) /\ sot'[sync.ns][p] = sot[sync.ns][p] /\ index'[sync.ns][p] = index[sync.ns][p]
        BY <1>2, <3>1, WritersTouch DEF Untouched
      <3> QED BY <1>2, <3>2 DEF LoadedOrHeld, Cleared, Untouched
    <2>2. CASE ~Replaying
      BY <1>2, <2>2 DEF LoadedOrHeld, Replaying
    <2> QED BY <2>1, <2>2
  <1>8. BootRefills'
    BY <1>2, <1>4 DEF BootRefills, Running, Replaying
  <1>9. Sync!SyncedIsTruth'
    <2>1. \A n \in good, p \in Point : <<n, p>> \notin rewritten' =>
            \/ index'[n][p] = sot'[n][p]
            \/ sync.mode # "recreate" /\ sot'[n][p] = 0
      BY WritersTouch DEF Untouched, Sync!SyncedIsTruth, SyncTypes
    <2>2. ASSUME backend = "chromem", up, NEW n \in Namespace,
                 Sync!Held(sot'[n]) # {}, rewritten' \cap ({n} \X Point) = {}
          PROVE  Sync!Held(index'[n]) # {}
      <3>1. \A p \in Point : Untouched(n, p)'
        BY <2>2 DEF Untouched
      <3>2. \A p \in Point : Untouched(n, p) /\ sot'[n][p] = sot[n][p] /\ index'[n][p] = index[n][p]
        BY <3>1, WritersTouch
      <3>3. rewritten \cap ({n} \X Point) = {} /\ Sync!Held(sot[n]) # {}
        <4>1. \A p \in Point : <<n, p>> \notin rewritten
          BY <3>2 DEF Untouched
        <4>2. PICK p \in Point : sot'[n][p] # 0
          BY <2>2 DEF Sync!Held
        <4>3. sot[n][p] # 0
          BY <3>2, <4>2
        <4> QED BY <4>1, <4>2, <4>3 DEF Sync!Held
      <3>4. Sync!Held(index[n]) # {}
        BY <2>2, <3>3 DEF Sync!SyncedIsTruth
      <3> QED BY <3>2, <3>4 DEF Sync!Held
    <2> QED BY <1>2, <2>1, <2>2 DEF Sync!SyncedIsTruth
  <1> QED BY <1>1, <1>5, <1>6, <1>7, <1>8, <1>9

-----------------------------------------------------------------------------
(* Steps of a replay.  None but Load changes what is in the index of the   *)
(* namespaces called good.                                                 *)
LEMMA StartsKeep ==
    ASSUME SyncInv, \/ \E mode \in {"recreate", "upsert"} : Sync!StartSync(mode)
                    \/ Sync!Boot
    PROVE  SyncInv'
  <1> USE DEF SyncInv
  <1>1. ASSUME NEW mode \in {"recreate", "upsert"}, Sync!StartSync(mode)
        PROVE  SyncInv'
    <2>1. SyncTypes'
      BY <1>1, ReplayTypes, Zenon
    <2>2. /\ backend = "qdrant" /\ good' = {}
          /\ UNCHANGED <<backend, sot, index, up, write, rewritten>>
          /\ sync'.step = "next" /\ sync'.mode = mode
      BY <1>1 DEF Sync!StartSync
    <2> QED BY <2>1, <2>2 DEF TodoIsNotGood, BootsAlone, LoadedOrHeld, BootRefills,
               Sync!SyncedIsTruth, Running, Replaying
  <1>2. CASE Sync!Boot
    <2>1. SyncTypes'
      BY <1>2, EndTypes, Zenon
    <2>2. /\ backend = "chromem" /\ ~up /\ sync.step \in {"idle", "done"}
          /\ UNCHANGED <<backend, sot, up, write, rewritten, good>>
          /\ sync'.step = "next" /\ sync'.mode = "boot" /\ sync'.todo = Sync!Namespaces
      BY <1>2 DEF Sync!Boot
    <2>3. good = {} /\ \A w \in Writer : write[w] = Sync!Idle
      BY <2>2 DEF BootsAlone, Running, Replaying
    <2> QED BY <2>1, <2>2, <2>3 DEF TodoIsNotGood, BootsAlone, LoadedOrHeld, BootRefills,
               Sync!SyncedIsTruth, Running, Replaying, Sync!Namespaces
  <1> QED BY <1>1, <1>2

LEMMA NextKeeps ==
    ASSUME SyncInv, NEW n \in Namespace, Sync!NextNamespace(n)
    PROVE  SyncInv'
  <1> USE DEF SyncInv
  <1>1. SyncTypes'
    BY ReplayTypes, Zenon
  <1>2. sync \in Replays /\ sync.step = "next" /\ n \in sync.todo /\ n \notin good /\ Running /\ ~Replaying
    BY AtWork DEF Sync!NextNamespace, TodoIsNotGood, Running, Replaying
  <1>3. UNCHANGED <<backend, sot, up, write, good>>
    BY DEF Sync!NextNamespace
  <1>4. backend = "chromem" <=> sync.mode = "boot"
    BY <1>2 DEF BootsAlone
  <1>5. backend = "chromem" => ~up
    BY <1>2 DEF BootsAlone
  <1>6. CASE sync.mode = "boot" /\ Sync!Held(index[n]) # {}
    <2>1. sync' = [sync EXCEPT !.todo = @ \ {n}] /\ UNCHANGED <<index, rewritten>>
      BY <1>6 DEF Sync!NextNamespace
    <2>2. sync'.step = "next" /\ sync'.mode = sync.mode /\ sync'.todo = sync.todo \ {n}
      BY <1>2, <2>1 DEF Replays
    <2>3. BootRefills'
      BY <1>2, <1>3, <1>6, <2>1, <2>2 DEF BootRefills, Running, Replaying
    <2>4. TodoIsNotGood' /\ BootsAlone' /\ LoadedOrHeld'
      BY <1>2, <1>3, <2>2 DEF TodoIsNotGood, BootsAlone, LoadedOrHeld, Running, Replaying
    <2>5. Sync!SyncedIsTruth'
      BY <1>3, <2>1, <2>2 DEF Sync!SyncedIsTruth
    <2> QED BY <1>1, <2>3, <2>4, <2>5
  <1>7. CASE ~(sync.mode = "boot" /\ Sync!Held(index[n]) # {})
    <2> DEFINE t == sync.todo \ {n}
    <2>1. sync' = [sync EXCEPT !.todo = t, !.ns = n, !.step = "read"]
      BY <1>7, Zenon DEF Sync!NextNamespace
    <2>2. sync' = [step |-> "read", mode |-> sync.mode, todo |-> t, ns |-> n, points |-> sync.points]
      <3> HIDE DEF t
      <3> QED BY <1>2, <2>1, ReplayMoves, Zenon
    <2>3. /\ sync'.step = "read" /\ sync'.mode = sync.mode /\ sync'.ns = n
          /\ sync'.todo = sync.todo \ {n}
      <3> HIDE DEF Sync!NextNamespace
      <3>1. sync'.todo = t
        BY <2>2, Zenon
      <3>2. sync'.step = "read" /\ sync'.mode = sync.mode /\ sync'.ns = n
        BY <2>2, Zenon
      <3> QED BY <3>1, <3>2, Zenon
    <2>4. /\ \A m \in Namespace \ {n} : index'[m] = index[m]
          /\ sync.mode = "recreate" => index'[n] = Sync!None
          /\ sync.mode # "recreate" => index' = index
      BY <1>7 DEF Sync!NextNamespace, SyncTypes
    <2>5. \A m \in Namespace \ {n}, p \in Point : <<m, p>> \in rewritten => <<m, p>> \in rewritten'
      BY <1>7, Zenon DEF Sync!NextNamespace
    <2>6. TodoIsNotGood' /\ BootsAlone'
      BY <1>2, <1>3, <2>3 DEF TodoIsNotGood, BootsAlone, Running, Replaying
    <2>7. LoadedOrHeld'
      BY <2>3, <2>4 DEF LoadedOrHeld, Cleared, Sync!None
    <2>8. BootRefills'
      BY <1>2, <1>3, <1>4, <2>3, <2>4 DEF BootRefills, Running, Replaying
    <2>9. Sync!SyncedIsTruth'
      <3>1. \A m \in good, p \in Point : m # n /\ m \in Namespace
        BY <1>2 DEF SyncTypes
      <3>2. \A m \in good', p \in Point : <<m, p>> \notin rewritten' =>
              index'[m][p] = sot'[m][p] \/ (sync'.mode # "recreate" /\ sot'[m][p] = 0)
        BY <1>3, <2>3, <2>4, <2>5, <3>1 DEF Sync!SyncedIsTruth
      <3> QED BY <1>3, <1>5, <3>2 DEF Sync!SyncedIsTruth
    <2> QED BY <1>1, <2>6, <2>7, <2>8, <2>9
  <1> QED BY <1>6, <1>7

LEMMA ReadKeeps ==
    ASSUME SyncInv, Sync!Read
    PROVE  SyncInv'
  <1> USE DEF SyncInv
  <1>1. SyncTypes'
    BY ReplayTypes, Zenon
  <1>2. sync \in Replays /\ sync.step = "read" /\ Running /\ Replaying /\ sync.ns \in Namespace
    BY AtWork DEF Sync!Read, Running, Replaying, SyncTypes
  <1>3. UNCHANGED <<backend, sot, index, up, write, rewritten>>
    BY DEF Sync!Read
  <1>4. backend = "chromem" => ~up
    BY <1>2 DEF BootsAlone
  <1>5. CASE sot[sync.ns] = Sync!None
    <2>1. sync' = [sync EXCEPT !.step = "next"] /\ good' = good \cup {sync.ns}
      BY <1>5 DEF Sync!Read
    <2>2. sync'.step = "next" /\ sync'.mode = sync.mode /\ sync'.todo = sync.todo
      BY <1>2, <2>1 DEF Replays
    <2>3. TodoIsNotGood' /\ BootsAlone' /\ LoadedOrHeld'
      BY <1>2, <1>3, <1>4, <2>1, <2>2 DEF TodoIsNotGood, BootsAlone, LoadedOrHeld, Running, Replaying
    <2>4. BootRefills'
      BY <1>2, <1>3, <1>5, <2>2 DEF BootRefills, Running, Replaying, Sync!Held, Sync!None
    <2>5. \A p \in Point : <<sync.ns, p>> \notin rewritten =>
            sot[sync.ns][p] = 0 /\ (sync.mode = "recreate" => index[sync.ns][p] = 0)
      BY <1>2, <1>5 DEF LoadedOrHeld, Untouched, Cleared, Sync!None
    <2>6. Sync!SyncedIsTruth'
      BY <1>3, <1>4, <2>1, <2>2, <2>5 DEF Sync!SyncedIsTruth
    <2> QED BY <1>1, <2>3, <2>4, <2>6
  <1>6. CASE sot[sync.ns] # Sync!None
    <2>1. sync' = [sync EXCEPT !.step = "ensure", !.points = sot[sync.ns]] /\ good' = good
      BY <1>6, Zenon DEF Sync!Read
    <2>2. sync' = [step |-> "ensure", mode |-> sync.mode, todo |-> sync.todo, ns |-> sync.ns, points |-> sot[sync.ns]]
      BY <1>2, <2>1, ReplayHolds, Zenon
    <2>3. /\ sync'.step = "ensure" /\ sync'.mode = sync.mode /\ sync'.todo = sync.todo
          /\ sync'.ns = sync.ns /\ sync'.points = sot[sync.ns] /\ good' = good
      BY <2>1, <2>2, Zenon
    <2>4. TodoIsNotGood' /\ BootsAlone'
      BY <1>2, <1>3, <2>3 DEF TodoIsNotGood, BootsAlone, Running, Replaying
    <2>5. LoadedOrHeld'
      <3>1. Sync!Held(sot[sync.ns]) # {}
        BY <1>2, <1>6 DEF Sync!Held, Sync!None, SyncTypes, Contents
      <3> QED BY <1>2, <1>3, <2>3, <3>1 DEF LoadedOrHeld, Untouched, Cleared
    <2>6. BootRefills'
      BY <1>2, <1>3, <2>3 DEF BootRefills, Running, Replaying
    <2>7. Sync!SyncedIsTruth'
      BY <1>3, <2>3 DEF Sync!SyncedIsTruth
    <2> QED BY <1>1, <2>4, <2>5, <2>6, <2>7
  <1> QED BY <1>5, <1>6

LEMMA EnsureKeeps ==
    ASSUME SyncInv, Sync!EnsureIndex
    PROVE  SyncInv'
  <1> USE DEF SyncInv
  <1>1. SyncTypes'
    BY ReplayTypes, Zenon
  <1>2. sync \in Replays /\ sync.step = "ensure" /\ Running /\ Replaying
    BY AtWork DEF Sync!EnsureIndex, Running, Replaying
  <1>3. UNCHANGED <<backend, sot, index, up, write, rewritten, good>> /\ sync' = [sync EXCEPT !.step = "load"]
    BY DEF Sync!EnsureIndex
  <1>4. /\ sync'.step = "load" /\ sync'.mode = sync.mode /\ sync'.todo = sync.todo
        /\ sync'.ns = sync.ns /\ sync'.points = sync.points
    BY <1>2, <1>3 DEF Replays
  <1>5. TodoIsNotGood' /\ BootsAlone'
    BY <1>2, <1>3, <1>4 DEF TodoIsNotGood, BootsAlone, Running, Replaying
  <1>6. LoadedOrHeld'
    BY <1>2, <1>3, <1>4 DEF LoadedOrHeld, Untouched, Cleared
  <1>7. BootRefills'
    BY <1>2, <1>3, <1>4 DEF BootRefills, Running, Replaying
  <1>8. Sync!SyncedIsTruth'
    BY <1>3, <1>4 DEF Sync!SyncedIsTruth
  <1> QED BY <1>1, <1>5, <1>6, <1>7, <1>8

LEMMA BatchesAreHeld ==
    \A points : \A ids \in Sync!Batches(points) : ids \subseteq Sync!Held(points)
  <1>1. \A k, S : \A s \in Sync!kSubset(k, S) : s \subseteq S
    BY DEF Sync!kSubset
  <1> TAKE points
  <1> TAKE ids \in Sync!Batches(points)
  <1>2. \E k : ids \in Sync!kSubset(k, Sync!Held(points))
    BY Zenon DEF Sync!Batches
  <1> QED BY <1>1, <1>2, Zenon

LEMMA LoadKeeps ==
    ASSUME SyncInv, Sync!Load
    PROVE  SyncInv'
  <1> USE DEF SyncInv
  <1>1. SyncTypes'
    BY ReplayTypes, Zenon
  <1>2. sync \in Replays /\ sync.step = "load" /\ Running /\ Replaying /\ sync.ns \in Namespace
    BY AtWork DEF Sync!Load, Running, Replaying, SyncTypes
  <1>3. UNCHANGED <<backend, sot, up, write, rewritten>>
    BY DEF Sync!Load
  <1> PICK ids \in Sync!Batches(sync.points) : Loads(ids)
    BY Zenon DEF Sync!Load, Loads
  <1> DEFINE left == Sync!Left(sync.points, ids)
             ns == sync.ns
  <1>4. ids \subseteq Sync!Held(sync.points)
    BY BatchesAreHeld
  <1>5. sync' = [step |-> IF left = Sync!None THEN "next" ELSE "load", mode |-> sync.mode,
                 todo |-> sync.todo, ns |-> sync.ns, points |-> left]
    BY <1>2, LoadUpdates, Zenon
  <1>6. /\ sync'.mode = sync.mode /\ sync'.todo = sync.todo /\ sync'.ns = sync.ns
        /\ sync'.points = left /\ sync'.step = IF left = Sync!None THEN "next" ELSE "load"
    <2> HIDE DEF left
    <2> QED BY <1>5
  <1>7. good' = IF left = Sync!None THEN good \union {ns} ELSE good
    BY DEF Loads
  <1>8. /\ \A m \in Namespace \ {ns} : index'[m] = index[m]
        /\ \A p \in Point : index'[ns][p] = IF p \in ids THEN sync.points[p] ELSE index[ns][p]
    BY <1>2 DEF Loads, SyncTypes, Contents
  <1>9. \A p \in Point : left[p] = IF p \in ids THEN 0 ELSE sync.points[p]
    BY DEF Sync!Left
  <1>10. left # Sync!None => Sync!Held(left) # {}
    BY DEF Sync!Left, Sync!None, Sync!Held
  <1>11. left = Sync!None => \A p \in Point : left[p] = 0
    BY DEF Sync!None
  <1>12. backend = "chromem" => ~up
    BY <1>2 DEF BootsAlone
  <1>13. ns \notin good
    BY <1>2 DEF TodoIsNotGood
  <1>14. \A p \in Point : Untouched(ns, p) =>
            \/ left[p] = sot[ns][p] /\ (sync.mode = "recreate" => index'[ns][p] = 0)
            \/ left[p] = 0 /\ index'[ns][p] = sot[ns][p]
    <2> TAKE p \in Point
    <2> HAVE Untouched(ns, p)
    <2>1. \/ sync.points[p] = sot[ns][p] /\ (sync.mode = "recreate" => index[ns][p] = 0)
          \/ sync.points[p] = 0 /\ index[ns][p] = sot[ns][p]
      BY <1>2 DEF LoadedOrHeld, Cleared
    <2>2. p \in ids => sync.points[p] # 0
      BY <1>4 DEF Sync!Held
    <2> HIDE DEF left
    <2> QED BY <1>8, <1>9, <2>1, <2>2
  <1>15. left = Sync!None => Sync!Held(index'[ns]) # {}
    <2> SUFFICES ASSUME left = Sync!None PROVE Sync!Held(index'[ns]) # {}
      OBVIOUS
    <2>1. PICK p \in Point : sync.points[p] # 0
      BY <1>2 DEF LoadedOrHeld, Sync!Held
    <2>2. p \in ids
      BY <1>9, <1>11, <2>1
    <2>3. index'[ns][p] # 0
      BY <1>8, <2>1, <2>2
    <2> QED BY <2>3 DEF Sync!Held
  <1> HIDE DEF left
  <1>16. TodoIsNotGood'
    BY <1>2, <1>6, <1>7 DEF TodoIsNotGood, Running, Replaying
  <1>17. BootsAlone'
    BY <1>2, <1>3, <1>6, <1>12 DEF BootsAlone, Running, Replaying
  <1>18. LoadedOrHeld'
    BY <1>3, <1>6, <1>10, <1>14 DEF LoadedOrHeld, Untouched, Cleared
  <1>19. BootRefills'
    <2> SUFFICES ASSUME backend = "chromem", NEW m \in Namespace, Sync!Held(sot[m]) # {}
                 PROVE  m \in sync'.todo \/ (Replaying' /\ m = sync'.ns) \/ Sync!Held(index'[m]) # {}
      BY <1>3 DEF BootRefills
    <2>1. CASE m = ns
      BY <1>6, <1>15, <2>1 DEF Replaying
    <2>2. CASE m # ns
      <3>1. m \in sync.todo \/ Sync!Held(index[m]) # {}
        BY <1>2, <2>2 DEF BootRefills
      <3> QED BY <1>6, <1>8, <2>2, <3>1
    <2> QED BY <2>1, <2>2
  <1>20. Sync!SyncedIsTruth'
    <2>1. \A m \in good', p \in Point : <<m, p>> \notin rewritten =>
            index'[m][p] = sot[m][p] \/ (sync.mode # "recreate" /\ sot[m][p] = 0)
      <3> TAKE m \in good', p \in Point
      <3>1. CASE m = ns
        <4>1. left = Sync!None
          BY <1>7, <1>13, <3>1
        <4> QED BY <1>11, <1>14, <3>1, <4>1 DEF Untouched
      <3>2. CASE m # ns
        <4>1. m \in good /\ m \in Namespace \ {ns}
          BY <1>7, <3>2 DEF SyncTypes
        <4> QED BY <1>8, <4>1 DEF Sync!SyncedIsTruth
      <3> QED BY <3>1, <3>2
    <2> QED BY <1>3, <1>6, <1>12, <2>1 DEF Sync!SyncedIsTruth
  <1> QED BY <1>1, <1>16, <1>17, <1>18, <1>19, <1>20

LEMMA EndsKeep ==
    ASSUME SyncInv, Sync!NamespaceFails \/ Sync!EndSync \/ Sync!Stop
    PROVE  SyncInv'
  <1> USE DEF SyncInv
  <1>1. SyncTypes'
    BY EndTypes, Zenon
  <1>2. CASE Sync!NamespaceFails
    <2>1. sync \in Replays /\ Running /\ Replaying
      BY <1>2, AtWork DEF Sync!NamespaceFails, Running, Replaying
    <2>2. UNCHANGED <<backend, sot, up, write>>
      BY <1>2 DEF Sync!NamespaceFails
    <2>3. CASE sync.mode = "boot"
      <3>1. sync' = Sync!Idle /\ good' = {} /\ backend = "chromem" /\ ~up
        BY <1>2, <2>1, <2>3 DEF Sync!NamespaceFails, BootsAlone
      <3>2. ~Running' /\ ~Replaying'
        BY <3>1 DEF Running, Replaying, Sync!Idle
      <3> QED BY <1>1, <2>1, <2>2, <3>1, <3>2 DEF TodoIsNotGood, BootsAlone, LoadedOrHeld, BootRefills,
                 Sync!SyncedIsTruth, Replaying
    <2>4. CASE sync.mode # "boot"
      <3>1. sync' = [sync EXCEPT !.step = "next"] /\ UNCHANGED <<index, rewritten, good>>
        BY <1>2, <2>4 DEF Sync!NamespaceFails
      <3>2. sync'.step = "next" /\ sync'.mode = sync.mode /\ sync'.todo = sync.todo
        BY <2>1, <3>1 DEF Replays
      <3>3. backend = "qdrant"
        BY <2>1, <2>4 DEF BootsAlone, SyncTypes
      <3> QED BY <1>1, <2>1, <2>2, <3>1, <3>2, <3>3 DEF TodoIsNotGood, BootsAlone, LoadedOrHeld, BootRefills,
                 Sync!SyncedIsTruth, Running, Replaying
    <2> QED BY <2>3, <2>4
  <1>3. CASE Sync!EndSync
    <2>1. sync \in Replays /\ sync.step = "next" /\ Running /\ ~Replaying
      BY <1>3, AtWork DEF Sync!EndSync, Running, Replaying
    <2>2. sync' = [sync EXCEPT !.step = "done", !.todo = {}]
      BY <1>3, Zenon DEF Sync!EndSync
    <2>3. sync' = [step |-> "done", mode |-> sync.mode, todo |-> {}, ns |-> sync.ns, points |-> sync.points]
      BY <2>1, <2>2, ReplayEnds, Zenon
    <2>4. sync'.step = "done" /\ sync'.mode = sync.mode
      BY <2>3, Zenon
    <2>5. UNCHANGED <<backend, sot, index, write, rewritten, good>> /\ up' = (up \/ sync.mode = "boot")
      BY <1>3, Zenon DEF Sync!EndSync
    <2>6. ~Running' /\ ~Replaying'
      BY <2>4 DEF Running, Replaying
    <2>7. backend = "chromem" => sync.mode = "boot" /\ sync.todo = {}
      <3>1. backend = "chromem" => sync.mode = "boot"
        BY <2>1 DEF BootsAlone
      <3>2. sync.mode = "boot" => sync.todo = {}
        BY <1>3, Zenon DEF Sync!EndSync
      <3> QED BY <3>1, <3>2
    <2> HIDE DEF SyncInv
    <2>8. Sync!SyncedIsTruth'
      BY <2>1, <2>4, <2>5, <2>7 DEF SyncInv, Sync!SyncedIsTruth, BootRefills
    <2>9. TodoIsNotGood' /\ BootsAlone' /\ LoadedOrHeld' /\ BootRefills'
      BY <2>4, <2>5, <2>6, <2>7 DEF TodoIsNotGood, BootsAlone, LoadedOrHeld, BootRefills
    <2> QED BY <1>1, <2>8, <2>9 DEF SyncInv
  <1>4. CASE Sync!Stop
    <2>1. /\ backend = "chromem" /\ up /\ up' = FALSE /\ good' = {}
          /\ write' = [w \in Writer |-> Sync!Idle] /\ UNCHANGED <<backend, sot, sync>>
      BY <1>4 DEF Sync!Stop
    <2>2. ~Running /\ ~Replaying
      BY <2>1 DEF BootsAlone, Running
    <2> QED BY <1>1, <2>1, <2>2 DEF TodoIsNotGood, BootsAlone, LoadedOrHeld, BootRefills,
               Sync!SyncedIsTruth, Running, Replaying
  <1> QED BY <1>2, <1>3, <1>4

LEMMA SyncStarts ==
    ASSUME Sync!Init PROVE SyncInv
  <1> USE DEF Sync!Init
  <1>1. sync = Sync!Idle /\ sync.step = "idle"
    BY DEF Sync!Idle
  <1>2. ~Running /\ ~Replaying
    BY <1>1 DEF Running, Replaying
  <1>3. [Point -> 0..1] \subseteq Contents
    BY DEF Contents
  <1>4. SyncTypes
    BY <1>2, <1>3, NoneIsContents DEF SyncTypes
  <1>5. Sync!SyncedIsTruth
    <2>1. ASSUME NEW n \in Namespace, rewritten \cap ({n} \X Point) = {}
          PROVE  Point = {}
      <3>1. \A p \in Point : <<n, p>> \in rewritten \cap ({n} \X Point)
        BY DEF Sync!Init
      <3> HIDE DEF Sync!Init
      <3> QED BY <2>1, <3>1
    <2> QED BY <2>1 DEF Sync!SyncedIsTruth, Sync!Held
  <1> QED BY <1>1, <1>2, <1>4, <1>5 DEF SyncInv, TodoIsNotGood, BootsAlone, LoadedOrHeld, BootRefills

LEMMA SyncKeeps ==
    ASSUME SyncInv, [Sync!Next]_vectors
    PROVE  SyncInv'
  <1>1. CASE Sync!Next
    BY <1>1, WritersKeep, StartsKeep, NextKeeps, ReadKeeps, EnsureKeeps, LoadKeeps, EndsKeep
       DEF Sync!Next, WriterStep
  <1>2. CASE UNCHANGED vectors
    BY <1>2 DEF vectors, SyncInv, SyncTypes, TodoIsNotGood, BootsAlone, LoadedOrHeld, BootRefills,
       Sync!SyncedIsTruth, Running, Replaying, Untouched, Cleared
  <1> QED BY <1>1, <1>2

(* A replay that reports success has made the index the truth, and a boot  *)
(* leaves no namespace to be searched empty (store.Hybrid.Rebuild,         *)
(* cmd/server/sync.go).                                                    *)
THEOREM ReplaysTellTheTruth == MCSpec => []SyncedIsTruth
  <1> DEFINE Inv == part = "sync" => SyncInv
  <1>1. MCInit => Inv
    BY SyncStarts DEF MCInit
  <1>2. Inv /\ [MCNext]_<<part, vars, closets, journal, searching, graph, walk, vectors>> => Inv'
    <2> SUFFICES ASSUME Inv, [MCNext]_<<part, vars, closets, journal, searching, graph, walk, vectors>>,
                        part' = "sync"
                 PROVE  SyncInv'
      OBVIOUS
    <2>1. part = "sync" /\ [Sync!Next]_vectors
      BY DEF MCNext
    <2> QED BY <2>1, SyncKeeps
  <1>3. Inv => SyncedIsTruth
    BY DEF SyncInv, SyncedIsTruth
  <1> QED BY <1>1, <1>2, <1>3, PTL DEF MCSpec

-----------------------------------------------------------------------------
(* Journals.  Entries are numbered as they are acknowledged, one nonce is  *)
(* drawn for each, and the seed of an entry is part of all its rows' ids.  *)
Numbered(e) == e.number \in 0..(nonces - 1)
OfSeed(e, seed) ==
    /\ e.random => seed[2] = e.number + 1
    /\ ~e.random => seed[2] = 0
    /\ \A id \in e.rows : id[5] = seed

JournalInv ==
    /\ nonces \in Nat /\ IsFiniteSet(written) /\ Cardinality(written) = nonces
    /\ \A e \in written : Numbered(e) /\ e.random \in BOOLEAN /\ \E seed : OfSeed(e, seed)
    /\ \A e, f \in written : e.number = f.number => e = f
    /\ \A e \in written : e.rows \subseteq {r.id : r \in entries}

LEMMA JournalCardinality == \A S : Journal!Cardinality(S) = Cardinality(S)
  BY DEF Journal!Cardinality, Cardinality

LEMMA JournalStarts == ASSUME Journal!Init PROVE JournalInv
  <1> written = {} /\ entries = {} /\ nonces = 0
    BY DEF Journal!Init
  <1> QED BY FS_EmptySet DEF JournalInv

LEMMA WritingAppends ==
    ASSUME JournalInv, NEW name \in Agent, NEW wing, NEW entry, Journal!WriteDiary(name, wing, entry)
    PROVE  JournalInv'
  <1> DEFINE new(seed) == {Journal!Row(Lower[name], Journal!WingOf(Lower[name], wing), entry, i, seed) : i \in DOMAIN entry}
             noted(seed) == [number |-> Cardinality(written), random |-> seed[2] # 0,
                             rows |-> {r.id : r \in new(seed)}]
  <1>1. PICK seed \in Journal!DiarySeed :
            /\ entries' = Journal!Store(new(seed))
            /\ written' = written \cup {noted(seed)}
            /\ nonces' = nonces + 1
    BY JournalCardinality, Zenon DEF Journal!WriteDiary
  <1>2. \A r \in new(seed) : r.id[5] = seed
    BY DEF Journal!Row, Journal!DiaryEntryId
  <1>3. /\ noted(seed).number = nonces /\ noted(seed).random = (seed[2] # 0)
        /\ noted(seed).rows = {r.id : r \in new(seed)}
    BY DEF JournalInv
  <1>4. seed[2] = 0 \/ seed[2] = nonces + 1
    BY DEF Journal!DiarySeed
  <1>5. {r.id : r \in entries} \subseteq {r.id : r \in entries'} /\ new(seed) \subseteq entries'
    <2> HIDE DEF new
    <2>1. entries' = {r \in entries : \A n \in new(seed) : n.id # r.id} \cup new(seed)
      BY <1>1 DEF Journal!Store
    <2> QED BY <2>1
  <1> DEFINE e == noted(seed)
  <1>6. e.rows \subseteq {r.id : r \in entries'}
    BY <1>3, <1>5
  <1>7. \A id \in e.rows : id[5] = seed
    BY <1>2, <1>3
  <1> HIDE DEF new, noted, e
  <1>8. written' = written \cup {e} /\ e.number = nonces /\ e.random = (seed[2] # 0) /\ nonces' = nonces + 1
    BY <1>1, <1>3 DEF e
  <1>9. e \notin written
    BY <1>8 DEF JournalInv, Numbered
  <1>10. IsFiniteSet(written') /\ Cardinality(written') = nonces'
    BY <1>8, <1>9, FS_AddElement DEF JournalInv
  <1>11. OfSeed(e, seed) /\ e.random \in BOOLEAN
    BY <1>4, <1>7, <1>8 DEF OfSeed, JournalInv
  <1>12. \A f \in written' : Numbered(f)'
    BY <1>8 DEF JournalInv, Numbered
  <1>13. \A f \in written' : f.random \in BOOLEAN /\ \E s : OfSeed(f, s)
    BY <1>8, <1>11 DEF JournalInv
  <1>14. \A f, g \in written' : f.number = g.number => f = g
    BY <1>8 DEF JournalInv, Numbered
  <1>15. \A f \in written' : f.rows \subseteq {r.id : r \in entries'}
    BY <1>5, <1>6, <1>8 DEF JournalInv
  <1> QED BY <1>8, <1>10, <1>12, <1>13, <1>14, <1>15 DEF JournalInv, OfSeed

LEMMA JournalKeeps == ASSUME JournalInv, [Journal!Next]_journal PROVE JournalInv'
  <1>1. ASSUME NEW a \in Agent, NEW w, NEW e, Journal!WriteDiary(a, w, e)
        PROVE  JournalInv'
    BY <1>1, WritingAppends
  <1>2. ASSUME UNCHANGED <<entries, nonces, written>>
        PROVE  JournalInv'
    BY <1>2 DEF JournalInv, Numbered, OfSeed
  <1>3. CASE Journal!Next
    BY <1>1, <1>2, <1>3 DEF Journal!Next, Journal!ReadPage, Journal!Count, Journal!Reply, Journal!Tick
  <1>4. CASE UNCHANGED journal
    BY <1>2, <1>4 DEF journal
  <1> QED BY <1>3, <1>4

LEMMA SeedsTellApart == ASSUME JournalInv PROVE Journal!JournalAppends
  <1> SUFFICES ASSUME NEW e \in written, e.random, NEW f \in written \ {e},
                      NEW id \in e.rows \cap f.rows
               PROVE  FALSE
    BY DEF Journal!JournalAppends, JournalInv
  <1>1. PICK s : OfSeed(e, s)
    BY DEF JournalInv
  <1>2. PICK t : OfSeed(f, t)
    BY DEF JournalInv
  <1>3. s = t /\ s[2] = e.number + 1
    BY <1>1, <1>2 DEF OfSeed
  <1>4. e.number \in Nat /\ f.number \in Nat /\ e.number # f.number /\ f.random \in BOOLEAN
    BY DEF JournalInv, Numbered
  <1> QED BY <1>2, <1>3, <1>4 DEF OfSeed

(* A journal only ever gains entries: whatever is written later, at any    *)
(* time and by whoever, no row of an entry goes, and the rows of an entry  *)
(* that drew a nonce are no other entry's (palace.Service.WriteDiary).     *)
THEOREM JournalsAppend == MCSpec => []JournalAppends
  <1> DEFINE Inv == part = "journal" => JournalInv
  <1>1. MCInit => Inv
    BY JournalStarts DEF MCInit
  <1>2. Inv /\ [MCNext]_<<part, vars, closets, journal, searching, graph, walk, vectors>> => Inv'
    <2> SUFFICES ASSUME Inv, [MCNext]_<<part, vars, closets, journal, searching, graph, walk, vectors>>,
                        part' = "journal"
                 PROVE  JournalInv'
      OBVIOUS
    <2>1. part = "journal" /\ [Journal!Next]_journal
      BY DEF MCNext
    <2> QED BY <2>1, JournalKeeps
  <1>3. Inv => JournalAppends
    BY SeedsTellApart DEF JournalAppends
  <1> QED BY <1>1, <1>2, <1>3, PTL DEF MCSpec

-----------------------------------------------------------------------------
(* The graph.  Calls are rebuilds, or create a tunnel between the ends of  *)
(* a link.                                                                 *)
Counts == {Graph!Cardinality(S) : S \in SUBSET Drawer} \cup {0}
Halls == [wing : Wing, pair : Graph!Pairs, count : Counts, since : Nat]
Rebuilds == [step : {"present", "wings", "prior", "replace", "prune", "list", "save"},
             only : Wing \cup {0}, prune : BOOLEAN, now : Nat, clean : BOOLEAN,
             present : SUBSET Wing, todo : SUBSET Wing, wing : Wing \cup {0},
             halls : SUBSET Halls, count : [Graph!Pairs -> Counts]]
Places == {l[1] : l \in Link} \cup {l[2] : l \in Link}
Creates == [step : {"source", "target", "upsert"}, source : Places, target : Places,
            label : Label, now : Nat]

(* A rebuild at work on a wing has one.                                    *)
Aimed(r) == r.step \in {"prior", "replace"} => r.wing \in Wing
ShapeOf(t) == [id |-> t.id, kind |-> t.kind, label |-> t.label, since |-> t.since, source |-> t.source]
Linked(id) == \E l \in Link : id = {l[1], l[2]}

GraphTypes ==
    /\ wingOf \in [Drawer -> Wing \cup {0}]
    /\ hallways \subseteq Halls
    /\ begun \in Nat /\ settled \in BOOLEAN
    /\ graphLock \in Call \cup {Graph!None}
    /\ call \in [Call -> {Graph!Idle} \cup Rebuilds \cup Creates]
    /\ \A c \in Call : call[c] \in Creates => Linked({call[c].source, call[c].target})
    /\ \A c \in Call : call[c] \in Rebuilds => Aimed(call[c])
    /\ \A t \in tunnels : t = ShapeOf(t) /\ (t.kind = "explicit" => Linked(t.id))

(* One rebuild at a time; while one runs the graph is not settled.         *)
OneRebuild == \A c \in Call : Graph!Rebuilding(c) => graphLock = c /\ ~settled

(* A wing is told when its hallways are what its drawers say.              *)
HallsOf(w) == {h \in hallways : h.wing = w}
Told(w) == Graph!Content(HallsOf(w)) = Graph!Derived(w, Graph!DrawersForHallways(w), 0, {})
AllTold == \A w \in Wing : Told(w)
EntityIds == {t.id : t \in {u \in tunnels : u.kind = "entity"}}
TunnelsTold == EntityIds = {t.id : t \in Graph!EntityTunnels(hallways, 0)}

(* How far a rebuild nobody disturbed has come.                            *)
Progress(r) ==
    /\ r.step = "present" => (r.only = 0 /\ r.prune) \/ (AllTold /\ TunnelsTold)
    /\ r.step \in {"wings", "prior", "replace"} =>
         /\ r.present = Graph!WingsWithDrawers
         /\ \A w \in Wing : Told(w) \/ w \in r.todo \/ (r.only = 0 /\ r.prune /\ w \notin r.present)
    /\ r.step \in {"prior", "replace"} => r.wing \in r.todo
    /\ r.step = "prior" => r.count = Graph!DrawersForHallways(r.wing)
    /\ r.step = "replace" =>
         /\ \A h \in r.halls : h.wing = r.wing
         /\ Graph!Content(r.halls) = Graph!Derived(r.wing, Graph!DrawersForHallways(r.wing), 0, {})
    /\ r.step = "prune" => /\ r.todo \cap Graph!WingsWithDrawers = {}
                           /\ \A w \in Wing : Told(w) \/ w \in r.todo
    /\ r.step \in {"list", "save"} => AllTold /\ EntityIds = {}
    /\ r.step = "save" => r.halls = hallways

CleanProgress == \A c \in Call : Graph!Rebuilding(c) /\ call[c].clean => Progress(call[c])
SettledTold == settled => AllTold /\ TunnelsTold

GraphInv == GraphTypes /\ OneRebuild /\ CleanProgress /\ SettledTold

(* A rebuild's record with some fields anew.                               *)
With(r, s, p, t, w, h, n) ==
    [step |-> s, only |-> r.only, prune |-> r.prune, now |-> r.now, clean |-> r.clean,
     present |-> p, todo |-> t, wing |-> w, halls |-> h, count |-> n]
At(c, r) == [call EXCEPT ![c] = r]

LEMMA WithIsRebuild ==
    ASSUME NEW r \in Rebuilds, NEW s \in {"present", "wings", "prior", "replace", "prune", "list", "save"},
           NEW p \in SUBSET Wing, NEW t \in SUBSET Wing, NEW w \in Wing \cup {0},
           NEW h \in SUBSET Halls, NEW n \in [Graph!Pairs -> Counts]
    PROVE  With(r, s, p, t, w, h, n) \in Rebuilds
  BY DEF Rebuilds, With

(* Steps of a rebuild that change several fields of its record.            *)
LEMMA PresentUpdate ==
    ASSUME GraphTypes, NEW c \in Call, call[c] \in Rebuilds, NEW x, NEW y, NEW z
    PROVE  [call EXCEPT ![c].step = x, ![c].present = y, ![c].todo = z]
           = At(c, With(call[c], x, y, z, call[c].wing, call[c].halls, call[c].count))
  <1> DEFINE r1 == [call[c] EXCEPT !.step = x]
             a == [call EXCEPT ![c].step = x]
  <1> DEFINE r2 == [r1 EXCEPT !.present = y]
             b == [a EXCEPT ![c].present = y]
  <1> DEFINE r3 == [r2 EXCEPT !.todo = z]
             d == [b EXCEPT ![c].todo = z]
  <1>1. r1 = With(call[c], x, call[c].present, call[c].todo, call[c].wing, call[c].halls, call[c].count)
    BY DEF Rebuilds, With
  <1>2. a = At(c, r1)
    BY DEF At, GraphTypes
  <1>3. r2 = With(call[c], x, y, call[c].todo, call[c].wing, call[c].halls, call[c].count)
    <2> HIDE DEF r1
    <2> QED BY <1>1 DEF With
  <1>4. b = At(c, r2)
    <2>1. a = At(c, r1)
      BY <1>2
    <2> HIDE DEF a, r1
    <2> QED BY <2>1 DEF At, GraphTypes
  <1>5. r3 = With(call[c], x, y, z, call[c].wing, call[c].halls, call[c].count)
    <2> HIDE DEF r2
    <2> QED BY <1>3 DEF With
  <1>6. d = At(c, r3)
    <2>1. b = At(c, r2)
      BY <1>4
    <2> HIDE DEF b, r2
    <2> QED BY <2>1 DEF At, GraphTypes
  <1> QED BY <1>5, <1>6, Zenon

LEMMA CountUpdate ==
    ASSUME GraphTypes, NEW c \in Call, call[c] \in Rebuilds, NEW x, NEW y, NEW z
    PROVE  [call EXCEPT ![c].step = x, ![c].wing = y, ![c].count = z]
           = At(c, With(call[c], x, call[c].present, call[c].todo, y, call[c].halls, z))
  <1> DEFINE r1 == [call[c] EXCEPT !.step = x]
             a == [call EXCEPT ![c].step = x]
  <1> DEFINE r2 == [r1 EXCEPT !.wing = y]
             b == [a EXCEPT ![c].wing = y]
  <1> DEFINE r3 == [r2 EXCEPT !.count = z]
             d == [b EXCEPT ![c].count = z]
  <1>1. r1 = With(call[c], x, call[c].present, call[c].todo, call[c].wing, call[c].halls, call[c].count)
    BY DEF Rebuilds, With
  <1>2. a = At(c, r1)
    BY DEF At, GraphTypes
  <1>3. r2 = With(call[c], x, call[c].present, call[c].todo, y, call[c].halls, call[c].count)
    <2> HIDE DEF r1
    <2> QED BY <1>1 DEF With
  <1>4. b = At(c, r2)
    <2>1. a = At(c, r1)
      BY <1>2
    <2> HIDE DEF a, r1
    <2> QED BY <2>1 DEF At, GraphTypes
  <1>5. r3 = With(call[c], x, call[c].present, call[c].todo, y, call[c].halls, z)
    <2> HIDE DEF r2
    <2> QED BY <1>3 DEF With
  <1>6. d = At(c, r3)
    <2>1. b = At(c, r2)
      BY <1>4
    <2> HIDE DEF b, r2
    <2> QED BY <2>1 DEF At, GraphTypes
  <1> QED BY <1>5, <1>6, Zenon

LEMMA KeepUpdate ==
    ASSUME GraphTypes, NEW c \in Call, call[c] \in Rebuilds, NEW x, NEW y, NEW z
    PROVE  [call EXCEPT ![c].step = x, ![c].halls = y, ![c].count = z]
           = At(c, With(call[c], x, call[c].present, call[c].todo, call[c].wing, y, z))
  <1> DEFINE r1 == [call[c] EXCEPT !.step = x]
             a == [call EXCEPT ![c].step = x]
  <1> DEFINE r2 == [r1 EXCEPT !.halls = y]
             b == [a EXCEPT ![c].halls = y]
  <1> DEFINE r3 == [r2 EXCEPT !.count = z]
             d == [b EXCEPT ![c].count = z]
  <1>1. r1 = With(call[c], x, call[c].present, call[c].todo, call[c].wing, call[c].halls, call[c].count)
    BY DEF Rebuilds, With
  <1>2. a = At(c, r1)
    BY DEF At, GraphTypes
  <1>3. r2 = With(call[c], x, call[c].present, call[c].todo, call[c].wing, y, call[c].count)
    <2> HIDE DEF r1
    <2> QED BY <1>1 DEF With
  <1>4. b = At(c, r2)
    <2>1. a = At(c, r1)
      BY <1>2
    <2> HIDE DEF a, r1
    <2> QED BY <2>1 DEF At, GraphTypes
  <1>5. r3 = With(call[c], x, call[c].present, call[c].todo, call[c].wing, y, z)
    <2> HIDE DEF r2
    <2> QED BY <1>3 DEF With
  <1>6. d = At(c, r3)
    <2>1. b = At(c, r2)
      BY <1>4
    <2> HIDE DEF b, r2
    <2> QED BY <2>1 DEF At, GraphTypes
  <1> QED BY <1>5, <1>6, Zenon

LEMMA ReplaceUpdate ==
    ASSUME GraphTypes, NEW c \in Call, call[c] \in Rebuilds, NEW x, NEW y, NEW z
    PROVE  [call EXCEPT ![c].step = x, ![c].todo = y, ![c].halls = z]
           = At(c, With(call[c], x, call[c].present, y, call[c].wing, z, call[c].count))
  <1> DEFINE r1 == [call[c] EXCEPT !.step = x]
             a == [call EXCEPT ![c].step = x]
  <1> DEFINE r2 == [r1 EXCEPT !.todo = y]
             b == [a EXCEPT ![c].todo = y]
  <1> DEFINE r3 == [r2 EXCEPT !.halls = z]
             d == [b EXCEPT ![c].halls = z]
  <1>1. r1 = With(call[c], x, call[c].present, call[c].todo, call[c].wing, call[c].halls, call[c].count)
    BY DEF Rebuilds, With
  <1>2. a = At(c, r1)
    BY DEF At, GraphTypes
  <1>3. r2 = With(call[c], x, call[c].present, y, call[c].wing, call[c].halls, call[c].count)
    <2> HIDE DEF r1
    <2> QED BY <1>1 DEF With
  <1>4. b = At(c, r2)
    <2>1. a = At(c, r1)
      BY <1>2
    <2> HIDE DEF a, r1
    <2> QED BY <2>1 DEF At, GraphTypes
  <1>5. r3 = With(call[c], x, call[c].present, y, call[c].wing, z, call[c].count)
    <2> HIDE DEF r2
    <2> QED BY <1>3 DEF With
  <1>6. d = At(c, r3)
    <2>1. b = At(c, r2)
      BY <1>4
    <2> HIDE DEF b, r2
    <2> QED BY <2>1 DEF At, GraphTypes
  <1> QED BY <1>5, <1>6, Zenon

LEMMA ListUpdate ==
    ASSUME GraphTypes, NEW c \in Call, call[c] \in Rebuilds, NEW x, NEW y
    PROVE  [call EXCEPT ![c].step = x, ![c].todo = y]
           = At(c, With(call[c], x, call[c].present, y, call[c].wing, call[c].halls, call[c].count))
  <1> DEFINE r1 == [call[c] EXCEPT !.step = x]
             a == [call EXCEPT ![c].step = x]
  <1> DEFINE r2 == [r1 EXCEPT !.todo = y]
             b == [a EXCEPT ![c].todo = y]
  <1>1. r1 = With(call[c], x, call[c].present, call[c].todo, call[c].wing, call[c].halls, call[c].count)
    BY DEF Rebuilds, With
  <1>2. a = At(c, r1)
    BY DEF At, GraphTypes
  <1>3. r2 = With(call[c], x, call[c].present, y, call[c].wing, call[c].halls, call[c].count)
    <2> HIDE DEF r1
    <2> QED BY <1>1 DEF With
  <1>4. b = At(c, r2)
    <2>1. a = At(c, r1)
      BY <1>2
    <2> HIDE DEF a, r1
    <2> QED BY <2>1 DEF At, GraphTypes
  <1> QED BY <1>3, <1>4, Zenon

LEMMA ReadUpdate ==
    ASSUME GraphTypes, NEW c \in Call, call[c] \in Rebuilds, NEW x, NEW y
    PROVE  [call EXCEPT ![c].step = x, ![c].halls = y]
           = At(c, With(call[c], x, call[c].present, call[c].todo, call[c].wing, y, call[c].count))
  <1> DEFINE r1 == [call[c] EXCEPT !.step = x]
             a == [call EXCEPT ![c].step = x]
  <1> DEFINE r2 == [r1 EXCEPT !.halls = y]
             b == [a EXCEPT ![c].halls = y]
  <1>1. r1 = With(call[c], x, call[c].present, call[c].todo, call[c].wing, call[c].halls, call[c].count)
    BY DEF Rebuilds, With
  <1>2. a = At(c, r1)
    BY DEF At, GraphTypes
  <1>3. r2 = With(call[c], x, call[c].present, call[c].todo, call[c].wing, y, call[c].count)
    <2> HIDE DEF r1
    <2> QED BY <1>1 DEF With
  <1>4. b = At(c, r2)
    <2>1. a = At(c, r1)
      BY <1>2
    <2> HIDE DEF a, r1
    <2> QED BY <2>1 DEF At, GraphTypes
  <1> QED BY <1>3, <1>4, Zenon

LEMMA DerivedTypes ==
    ASSUME NEW w \in Wing, NEW n \in [Graph!Pairs -> Counts], NEW b \in Nat, NEW prior \in SUBSET Halls
    PROVE  /\ Graph!Derived(w, n, b, prior) \in SUBSET Halls
           /\ \A h \in Graph!Derived(w, n, b, prior) : h.wing = w
           /\ Graph!Content(Graph!Derived(w, n, b, prior)) = Graph!Derived(w, n, 0, {})
  <1> DEFINE since(p) == IF \E h \in prior : h.pair = p
                         THEN (CHOOSE h \in prior : h.pair = p).since ELSE b
             hall(p) == [wing |-> w, pair |-> p, count |-> n[p], since |-> since(p)]
             fresh(p) == [wing |-> w, pair |-> p, count |-> n[p], since |-> 0]
             ps == {q \in Graph!Pairs : n[q] >= MinCount}
  <1>1. Graph!Derived(w, n, b, prior) = {hall(p) : p \in ps}
    BY Zenon DEF Graph!Derived
  <1>2. Graph!Derived(w, n, 0, {}) = {fresh(p) : p \in ps}
    BY DEF Graph!Derived
  <1>3. \A p \in ps : since(p) \in Nat
    BY DEF Halls
  <1>4. \A p \in ps : n[p] \in Counts
    OBVIOUS
  <1> HIDE DEF since, ps
  <1>5. \A p \in ps : hall(p) \in Halls
    BY <1>3, <1>4 DEF Halls, ps
  <1>6. \A p \in ps : hall(p).wing = w /\ [hall(p) EXCEPT !.since = 0] = fresh(p)
    OBVIOUS
  <1>7. Graph!Content({hall(p) : p \in ps}) = {fresh(p) : p \in ps}
    <2> HIDE DEF hall, fresh
    <2> QED BY <1>6 DEF Graph!Content
  <1> HIDE DEF hall, fresh
  <1> QED BY <1>1, <1>2, <1>5, <1>6, <1>7

LEMMA CountTypes ==
    ASSUME GraphTypes, NEW w
    PROVE  Graph!DrawersForHallways(w) \in [Graph!Pairs -> Counts]
  BY DEF Graph!DrawersForHallways, Counts, Graph!Drawers

LEMMA WingTypes == ASSUME GraphTypes PROVE Graph!WingsWithDrawers \in SUBSET Wing
  BY DEF Graph!WingsWithDrawers, GraphTypes, Graph!NoWing

(* A wing without drawers has no pairs.                                    *)
LEMMA NothingDerived ==
    ASSUME GraphTypes, NEW w \in Wing, w \notin Graph!WingsWithDrawers
    PROVE  Graph!Derived(w, Graph!DrawersForHallways(w), 0, {}) = {}
  <1>1. Graph!Drawers(w) = {}
    BY MemoryAssumption DEF Graph!Drawers, Graph!WingsWithDrawers, Graph!Assumptions, Graph!NoWing
  <1>2. Graph!Cardinality({}) = 0
    <2>1. Graph!Cardinality({}) = Cardinality({})
      BY DEF Graph!Cardinality, Cardinality
    <2> QED BY <2>1, FS_EmptySet
  <1>3. \A p \in Graph!Pairs : Graph!DrawersForHallways(w)[p] = 0
    BY <1>1, <1>2 DEF Graph!DrawersForHallways
  <1> QED BY <1>3, MemoryAssumption DEF Graph!Derived, Graph!Assumptions

RebuildSteps == {"present", "wings", "prior", "replace", "prune", "list", "save"}
CreateSteps == {"source", "target", "upsert"}

LEMMA CallKinds ==
    ASSUME GraphTypes, NEW c \in Call
    PROVE  /\ Graph!Rebuilding(c) <=> call[c] \in Rebuilds
           /\ \A s \in RebuildSteps : Graph!At(c, s) => call[c] \in Rebuilds /\ call[c].step = s
           /\ \A s \in CreateSteps : Graph!At(c, s) => call[c] \in Creates /\ call[c].step = s
           /\ call[c] \notin Rebuilds <=> call[c] \in Creates \/ call[c] = Graph!Idle
  <1>1. \A r \in Rebuilds : "clean" \in DOMAIN r /\ r # Graph!Idle /\ r.step \in RebuildSteps /\ r \notin Creates
    BY DEF Rebuilds, Creates, Graph!Idle, RebuildSteps
  <1>2. \A r \in Creates : "clean" \notin DOMAIN r /\ r # Graph!Idle /\ r.step \in CreateSteps
    BY DEF Creates, Graph!Idle, CreateSteps
  <1>3. Graph!Idle.step = "idle"
    BY DEF Graph!Idle
  <1>4. call[c] = Graph!Idle \/ call[c] \in Rebuilds \/ call[c] \in Creates
    BY DEF GraphTypes
  <1> QED BY <1>1, <1>2, <1>3, <1>4 DEF Graph!Rebuilding, Graph!At, RebuildSteps, CreateSteps

LEMMA KindsStay ==
    ASSUME GraphTypes, NEW c \in Call, call'[c] \in {Graph!Idle} \cup Rebuilds \cup Creates
    PROVE  Graph!Rebuilding(c)' <=> call'[c] \in Rebuilds
  <1>1. \A r \in Rebuilds : "clean" \in DOMAIN r /\ r # Graph!Idle
    BY DEF Rebuilds, Graph!Idle
  <1>2. \A r \in Creates : "clean" \notin DOMAIN r
    BY DEF Creates
  <1> QED BY <1>1, <1>2 DEF Graph!Rebuilding

(* What all the steps of a rebuild have in common.                         *)
TunnelsTyped == \A t \in tunnels : t = ShapeOf(t) /\ (t.kind = "explicit" => Linked(t.id))

LEMMA OnlyOne ==
    ASSUME GraphInv, NEW c \in Call, call[c] \in Rebuilds
    PROVE  /\ \A d \in Call \ {c} : call[d] \notin Rebuilds
           /\ graphLock = c /\ ~settled
           /\ call[c].clean => Progress(call[c])
  BY CallKinds DEF GraphInv, OneRebuild, CleanProgress

LEMMA RebuildMoves ==
    ASSUME GraphInv, NEW c \in Call, call[c] \in Rebuilds, NEW r \in Rebuilds,
           call' = At(c, r), r.clean = call[c].clean, Aimed(r),
           UNCHANGED <<wingOf, graphLock, begun, settled>>,
           (hallways \subseteq Halls)', TunnelsTyped',
           call[c].clean => Progress(call[c])'
    PROVE  GraphInv'
  <1>1. call'[c] = r /\ \A d \in Call \ {c} : call'[d] = call[d]
    BY DEF At, GraphInv, GraphTypes
  <1>2. call' \in [Call -> {Graph!Idle} \cup Rebuilds \cup Creates]
    BY DEF At, GraphInv, GraphTypes
  <1>3. r \notin Creates
    BY DEF Rebuilds, Creates
  <1>4. GraphTypes'
    BY <1>1, <1>2, <1>3 DEF GraphInv, GraphTypes, TunnelsTyped, Aimed
  <1>5. \A d \in Call : Graph!Rebuilding(d)' => d = c
    BY <1>1, <1>2, KindsStay, OnlyOne DEF GraphInv
  <1>6. OneRebuild'
    BY <1>5, OnlyOne DEF OneRebuild
  <1>7. CleanProgress'
    BY <1>1, <1>5 DEF CleanProgress
  <1>8. SettledTold'
    BY OnlyOne DEF SettledTold
  <1> QED BY <1>4, <1>6, <1>7, <1>8 DEF GraphInv

LEMMA RebuildReturns ==
    ASSUME GraphInv, NEW c \in Call, call[c] \in Rebuilds, NEW k \in BOOLEAN, Graph!Returns(c, k),
           UNCHANGED <<wingOf, begun>>, (hallways \subseteq Halls)', TunnelsTyped',
           k => (AllTold /\ TunnelsTold)'
    PROVE  GraphInv'
  <1>1. call'[c] = Graph!Idle /\ \A d \in Call \ {c} : call'[d] = call[d]
    BY DEF Graph!Returns, GraphInv, GraphTypes
  <1>2. call' \in [Call -> {Graph!Idle} \cup Rebuilds \cup Creates] /\ settled' = k /\ graphLock' = Graph!None
    BY OnlyOne DEF Graph!Returns, GraphInv, GraphTypes
  <1>3. Graph!Idle \notin Creates /\ Graph!Idle \notin Rebuilds
    BY DEF Rebuilds, Creates, Graph!Idle
  <1>4. GraphTypes'
    BY <1>1, <1>2, <1>3 DEF GraphInv, GraphTypes, TunnelsTyped, Aimed
  <1>5. \A d \in Call : ~Graph!Rebuilding(d)'
    BY <1>1, <1>2, <1>3, KindsStay, OnlyOne DEF GraphInv
  <1> QED BY <1>2, <1>4, <1>5 DEF GraphInv, OneRebuild, CleanProgress, SettledTold

(* Steps that leave drawers, hallways and entity tunnels as they are.      *)
LEMMA ToldStays ==
    ASSUME UNCHANGED <<wingOf, hallways>>
    PROVE  /\ \A w : Graph!DrawersForHallways(w)' = Graph!DrawersForHallways(w)
           /\ \A w : Told(w)' <=> Told(w)
           /\ AllTold' <=> AllTold
           /\ EntityIds' = EntityIds => (TunnelsTold' <=> TunnelsTold)
  <1>1. \A w : HallsOf(w)' = HallsOf(w)
    BY DEF HallsOf
  <1>2. \A w : Graph!DrawersForHallways(w)' = Graph!DrawersForHallways(w)
    BY DEF Graph!DrawersForHallways, Graph!Drawers
  <1>3. \A w : Told(w)' <=> Told(w)
    BY <1>1, <1>2 DEF Told, Graph!Content, Graph!Derived
  <1>4. AllTold' <=> AllTold
    BY <1>3 DEF AllTold
  <1>5. EntityIds' = EntityIds => (TunnelsTold' <=> TunnelsTold)
    BY DEF TunnelsTold, Graph!EntityTunnels, Graph!EntityWings
  <1> QED BY <1>2, <1>3, <1>4, <1>5

LEMMA ProgressStays ==
    ASSUME NEW c \in Call, call'[c] = call[c], UNCHANGED <<wingOf, hallways>>, EntityIds' = EntityIds,
           Progress(call[c])
    PROVE  Progress(call[c])'
  <1>1. Graph!WingsWithDrawers' = Graph!WingsWithDrawers
    BY DEF Graph!WingsWithDrawers
  <1>2. Graph!DrawersForHallways(call[c].wing)' = Graph!DrawersForHallways(call[c].wing)
    BY ToldStays
  <1> QED BY <1>1, <1>2, ToldStays DEF Progress, Graph!Content, Graph!Derived

LEMMA UsersKeep ==
    ASSUME GraphInv, NEW c \in Call, call[c] \notin Rebuilds,
           \A d \in Call \ {c} : call'[d] = call[d],
           call' \in [Call -> {Graph!Idle} \cup Rebuilds \cup Creates],
           call'[c] \in Creates \/ call'[c] = Graph!Idle \/ call'[c] = call[c],
           call'[c] \in Creates => Linked({call'[c].source, call'[c].target}),
           UNCHANGED <<wingOf, hallways, graphLock, settled>>, begun' \in Nat,
           TunnelsTyped', EntityIds' = EntityIds
    PROVE  GraphInv'
  <1>1. call'[c] \notin Rebuilds
    BY DEF Creates, Rebuilds, Graph!Idle
  <1>2. GraphTypes'
    <2>1. \A d \in Call : call'[d] \in Rebuilds => call'[d] = call[d]
      BY <1>1
    <2> QED BY <2>1 DEF GraphInv, GraphTypes, TunnelsTyped, Aimed
  <1>3. \A d \in Call : Graph!Rebuilding(d)' => Graph!Rebuilding(d) /\ call'[d] = call[d]
    BY <1>1, CallKinds, KindsStay DEF GraphInv
  <1>4. OneRebuild'
    BY <1>3 DEF GraphInv, OneRebuild
  <1>5. CleanProgress'
    BY <1>3, ProgressStays DEF GraphInv, CleanProgress
  <1>6. SettledTold'
    BY ToldStays DEF GraphInv, SettledTold
  <1> QED BY <1>2, <1>4, <1>5, <1>6 DEF GraphInv

-----------------------------------------------------------------------------
(* The steps of a rebuild, one by one.                                     *)
LEMMA RecomputeKeeps ==
    ASSUME GraphInv, NEW c \in Call, NEW w \in Wing \cup {Graph!NoWing}, NEW p \in BOOLEAN,
           Graph!Recompute(c, w, p)
    PROVE  GraphInv'
  <1> DEFINE r == [step |-> "present", only |-> w, prune |-> p, now |-> begun,
                   clean |-> settled \/ (w = Graph!NoWing /\ p),
                   present |-> {}, todo |-> {}, wing |-> Graph!NoWing, halls |-> {},
                   count |-> [q \in Graph!Pairs |-> 0]]
  <1>1. /\ graphLock = Graph!None /\ graphLock' = c /\ call' = At(c, r) /\ settled' = FALSE
        /\ begun' = begun + 1 /\ UNCHANGED <<wingOf, hallways, tunnels>>
    BY DEF Graph!Recompute, Graph!Begins, At
  <1>2. r \in Rebuilds
    BY DEF Rebuilds, Graph!NoWing, Counts, GraphInv, GraphTypes
  <1>3. r.step = "present" /\ r.clean = (settled \/ (w = Graph!NoWing /\ p)) /\ r.only = w /\ r.prune = p
    OBVIOUS
  <1> HIDE DEF r
  <1>4. call'[c] = r /\ \A d \in Call \ {c} : call'[d] = call[d]
    BY <1>1 DEF At, GraphInv, GraphTypes
  <1>5. call' \in [Call -> {Graph!Idle} \cup Rebuilds \cup Creates]
    BY <1>1, <1>2 DEF At, GraphInv, GraphTypes
  <1>6. \A d \in Call : call[d] \notin Rebuilds
    BY <1>1, CallKinds, MemoryAssumption DEF GraphInv, OneRebuild, Graph!Assumptions
  <1>7. \A d \in Call : Graph!Rebuilding(d)' => d = c
    BY <1>4, <1>5, <1>6, KindsStay DEF GraphInv
  <1>8. r \notin Creates
    BY <1>2 DEF Rebuilds, Creates
  <1>9. GraphTypes'
    <2>1. \A d \in Call : call'[d] \in Creates => Linked({call'[d].source, call'[d].target})
      BY <1>4, <1>8 DEF GraphInv, GraphTypes
    <2>2. TunnelsTyped'
      BY <1>1 DEF GraphInv, GraphTypes, TunnelsTyped
    <2>3. begun' \in Nat
      BY <1>1 DEF GraphInv, GraphTypes
    <2>4. (wingOf \in [Drawer -> Wing \cup {0}])' /\ (hallways \subseteq Halls)'
      BY <1>1 DEF GraphInv, GraphTypes
    <2>5. \A d \in Call : call'[d] \in Rebuilds => Aimed(call'[d])
      BY <1>3, <1>4, <1>6 DEF Aimed
    <2> HIDE <1>3
    <2> QED BY <1>1, <1>5, <2>1, <2>2, <2>3, <2>4, <2>5 DEF GraphTypes, TunnelsTyped
  <1>10. OneRebuild'
    BY <1>1, <1>7 DEF OneRebuild
  <1>11. r.clean => (w = 0 /\ p) \/ (AllTold /\ TunnelsTold)'
    BY <1>1, <1>3, ToldStays DEF GraphInv, SettledTold, EntityIds, Graph!NoWing
  <1>12. CleanProgress'
    BY <1>3, <1>4, <1>7, <1>11 DEF CleanProgress, Progress
  <1> QED BY <1>1, <1>9, <1>10, <1>12 DEF GraphInv, SettledTold

LEMMA PresentKeeps ==
    ASSUME GraphInv, NEW c \in Call, Graph!Present(c) PROVE GraphInv'
  <1>0. call[c] \in Rebuilds /\ call[c].step = "present" /\ GraphTypes
    BY CallKinds DEF Graph!Present, GraphInv, RebuildSteps
  <1>1. UNCHANGED <<wingOf, hallways, tunnels, begun>>
    BY DEF Graph!Present
  <1>2. TunnelsTyped' /\ (hallways \subseteq Halls)' /\ EntityIds' = EntityIds
    BY <1>1, <1>0 DEF TunnelsTyped, GraphTypes, EntityIds
  <1>3. CASE call[c].only # Graph!NoWing /\ call[c].only \notin Graph!WingsWithDrawers
    <2>1. Graph!Returns(c, call[c].clean)
      BY <1>3 DEF Graph!Present
    <2>2. call[c].clean => (AllTold /\ TunnelsTold)'
      BY <1>0, <1>1, <1>2, <1>3, OnlyOne, ToldStays DEF Progress, Graph!NoWing
    <2>3. call[c].clean \in BOOLEAN
      BY <1>0 DEF Rebuilds
    <2> QED BY <1>0, <1>1, <1>2, <2>1, <2>2, <2>3, RebuildReturns
  <1>4. CASE ~(call[c].only # Graph!NoWing /\ call[c].only \notin Graph!WingsWithDrawers)
    <2> DEFINE wings == Graph!WingsWithDrawers
               t == IF call[c].only = Graph!NoWing THEN wings ELSE {call[c].only}
               r == With(call[c], "wings", wings, t, call[c].wing, call[c].halls, call[c].count)
    <2>1. call' = [call EXCEPT ![c].step = "wings", ![c].present = wings, ![c].todo = t] /\ UNCHANGED <<graphLock, settled>>
      BY <1>4, Zenon DEF Graph!Present
    <2>2. call' = At(c, r)
      <3> HIDE DEF wings, t
      <3> QED BY <1>0, <2>1, PresentUpdate, Zenon
    <2>3. wings \in SUBSET Wing /\ t \in SUBSET Wing
      BY <1>0, <1>4, WingTypes
    <2>4. /\ r.step = "wings" /\ r.present = wings /\ r.todo = t /\ r.only = call[c].only
          /\ r.prune = call[c].prune /\ r.clean = call[c].clean
      <3> HIDE DEF wings, t
      <3> QED BY DEF With
    <2>5. r \in Rebuilds
      <3> HIDE DEF wings, t
      <3>1. call[c].wing \in Wing \cup {0} /\ call[c].halls \in SUBSET Halls /\ call[c].count \in [Graph!Pairs -> Counts]
        BY <1>0 DEF Rebuilds
      <3> QED BY <1>0, <2>3, <3>1, WithIsRebuild
    <2>6. call'[c] = r
      BY <1>0, <2>2 DEF At, GraphTypes
    <2>7. wings' = wings
      BY <1>1 DEF Graph!WingsWithDrawers
    <2>8. call[c].clean => Progress(call[c])'
      <3> SUFFICES ASSUME call[c].clean PROVE Progress(call[c])'
        OBVIOUS
      <3>1. (call[c].only = 0 /\ call[c].prune) \/ AllTold
        BY <1>0, OnlyOne DEF Progress
      <3>2. \A w \in Wing : Told(w)' \/ w \in t \/ (call[c].only = 0 /\ call[c].prune /\ w \notin wings)
        BY <1>1, <3>1, ToldStays DEF AllTold, Graph!NoWing
      <3> HIDE DEF r, t
      <3> QED BY <2>4, <2>6, <2>7, <3>2 DEF Progress
    <2>9. Aimed(r)
      BY <2>4 DEF Aimed
    <2> HIDE DEF r
    <2> QED BY <1>0, <1>1, <1>2, <2>1, <2>2, <2>4, <2>5, <2>8, <2>9, RebuildMoves
  <1> QED BY <1>3, <1>4

LEMMA CountKeeps ==
    ASSUME GraphInv, NEW c \in Call, NEW w \in Wing, Graph!CountPairs(c, w) PROVE GraphInv'
  <1>0. call[c] \in Rebuilds /\ call[c].step = "wings" /\ GraphTypes /\ w \in call[c].todo
    BY CallKinds DEF Graph!CountPairs, GraphInv, RebuildSteps
  <1>1. UNCHANGED <<wingOf, hallways, tunnels, begun, graphLock, settled>>
    BY DEF Graph!CountPairs
  <1>2. TunnelsTyped' /\ (hallways \subseteq Halls)' /\ EntityIds' = EntityIds
    BY <1>1, <1>0 DEF TunnelsTyped, GraphTypes, EntityIds
  <1> DEFINE n == Graph!DrawersForHallways(w)
             r == With(call[c], "prior", call[c].present, call[c].todo, w, call[c].halls, n)
  <1>3. call' = At(c, r)
    <2>1. call' = [call EXCEPT ![c].step = "prior", ![c].wing = w, ![c].count = n]
      BY Zenon DEF Graph!CountPairs
    <2> HIDE DEF n
    <2>2. \A x, y, z : [call EXCEPT ![c].step = x, ![c].wing = y, ![c].count = z]
                       = At(c, With(call[c], x, call[c].present, call[c].todo, y, call[c].halls, z))
      BY <1>0, CountUpdate, Zenon
    <2> QED BY <2>1, <2>2, Zenon
  <1>4. n \in [Graph!Pairs -> Counts]
    BY <1>0, CountTypes
  <1> HIDE DEF n
  <1>5. /\ r.step = "prior" /\ r.present = call[c].present /\ r.todo = call[c].todo /\ r.only = call[c].only
        /\ r.prune = call[c].prune /\ r.clean = call[c].clean /\ r.wing = w /\ r.count = n
    BY DEF With
  <1>6. r \in Rebuilds
    <2>1. /\ call[c].present \in SUBSET Wing /\ call[c].todo \in SUBSET Wing
          /\ call[c].halls \in SUBSET Halls
      BY <1>0 DEF Rebuilds
    <2> QED BY <1>0, <1>4, <2>1, WithIsRebuild
  <1>7. call'[c] = r
    BY <1>0, <1>3 DEF At, GraphTypes
  <1>8. call[c].clean => Progress(call[c])'
    <2> SUFFICES ASSUME call[c].clean PROVE Progress(call[c])'
      OBVIOUS
    <2>1. /\ call[c].present = Graph!WingsWithDrawers
          /\ \A v \in Wing : Told(v) \/ v \in call[c].todo \/ (call[c].only = 0 /\ call[c].prune /\ v \notin call[c].present)
      BY <1>0, OnlyOne DEF Progress
    <2>2. Graph!WingsWithDrawers' = Graph!WingsWithDrawers
      BY <1>1 DEF Graph!WingsWithDrawers
    <2>3. n = Graph!DrawersForHallways(w)'
      BY <1>1, ToldStays DEF n
    <2>4. \A v \in Wing : Told(v)' <=> Told(v)
      BY <1>1, ToldStays
    <2> HIDE DEF r
    <2> QED BY <1>0, <1>5, <1>7, <2>1, <2>2, <2>3, <2>4 DEF Progress
  <1>9. Aimed(r)
    BY <1>5 DEF Aimed
  <1> HIDE DEF r
  <1> QED BY <1>0, <1>1, <1>2, <1>3, <1>5, <1>6, <1>8, <1>9, RebuildMoves

LEMMA KeepDynamicsKeeps ==
    ASSUME GraphInv, NEW c \in Call, Graph!KeepDynamics(c) PROVE GraphInv'
  <1>0. call[c] \in Rebuilds /\ call[c].step = "prior" /\ GraphTypes
    BY CallKinds DEF Graph!KeepDynamics, GraphInv, RebuildSteps
  <1>1. UNCHANGED <<wingOf, hallways, tunnels, begun, graphLock, settled>>
    BY DEF Graph!KeepDynamics
  <1>2. TunnelsTyped' /\ (hallways \subseteq Halls)' /\ EntityIds' = EntityIds
    BY <1>1, <1>0 DEF TunnelsTyped, GraphTypes, EntityIds
  <1> DEFINE old == call[c]
             prior == {h \in hallways : h.wing = old.wing}
             halls == Graph!Derived(old.wing, old.count, old.now, prior)
             none == [p \in Graph!Pairs |-> 0]
             r == With(old, "replace", old.present, old.todo, old.wing, halls, none)
  <1>3. call' = At(c, r)
    <2>1. call' = [call EXCEPT ![c].step = "replace", ![c].halls = halls, ![c].count = none]
      BY Zenon DEF Graph!KeepDynamics
    <2> HIDE DEF halls, none
    <2>2. \A x, y, z : [call EXCEPT ![c].step = x, ![c].halls = y, ![c].count = z]
                       = At(c, With(old, x, old.present, old.todo, old.wing, y, z))
      BY <1>0, KeepUpdate, Zenon
    <2> QED BY <2>1, <2>2, Zenon
  <1>4. /\ old.present \in SUBSET Wing /\ old.todo \in SUBSET Wing /\ old.count \in [Graph!Pairs -> Counts]
        /\ old.now \in Nat /\ none \in [Graph!Pairs -> Counts] /\ prior \in SUBSET Halls
    BY <1>0 DEF Rebuilds, Counts, GraphTypes
  <1>10. old.wing \in Wing
    BY <1>0 DEF GraphTypes, Aimed
  <1>5. /\ halls \in SUBSET Halls /\ \A h \in halls : h.wing = old.wing
        /\ Graph!Content(halls) = Graph!Derived(old.wing, old.count, 0, {})
    <2> HIDE DEF prior
    <2> QED BY <1>4, <1>10, DerivedTypes
  <1> HIDE DEF halls, none, prior
  <1>6. /\ r.step = "replace" /\ r.present = old.present /\ r.todo = old.todo /\ r.only = old.only
        /\ r.prune = old.prune /\ r.clean = old.clean /\ r.wing = old.wing /\ r.halls = halls
    BY DEF With
  <1>7. r \in Rebuilds
    <2> HIDE DEF old
    <2>1. old \in Rebuilds /\ old.wing \in Wing \cup {0}
      BY <1>0, <1>10 DEF old
    <2> QED BY <1>4, <1>5, <2>1, WithIsRebuild
  <1>8. call'[c] = r
    BY <1>0, <1>3 DEF At, GraphTypes
  <1>9. old.clean => Progress(call[c])'
    <2> SUFFICES ASSUME old.clean PROVE Progress(call[c])'
      OBVIOUS
    <2>1. /\ old.present = Graph!WingsWithDrawers
          /\ \A v \in Wing : Told(v) \/ v \in old.todo \/ (old.only = 0 /\ old.prune /\ v \notin old.present)
          /\ old.wing \in old.todo /\ old.count = Graph!DrawersForHallways(old.wing)
      BY <1>0, OnlyOne DEF Progress
    <2>2. Graph!WingsWithDrawers' = Graph!WingsWithDrawers
      BY <1>1 DEF Graph!WingsWithDrawers
    <2>3. /\ \A v : Graph!DrawersForHallways(v)' = Graph!DrawersForHallways(v)
          /\ \A v \in Wing : Told(v)' <=> Told(v)
      BY <1>1, ToldStays
    <2>4. Graph!Content(halls) = Graph!Derived(old.wing, Graph!DrawersForHallways(old.wing), 0, {})
      BY <1>5, <2>1
    <2>5. r.wing = old.wing /\ \A h \in r.halls : h.wing = r.wing
      BY <1>5, <1>6
    <2> HIDE DEF r
    <2>6. Graph!Content(r.halls) = Graph!Derived(r.wing, Graph!DrawersForHallways(r.wing), 0, {})
      BY <1>6, <2>4
    <2>7. (Graph!Content(call[c].halls) = Graph!Derived(call[c].wing, Graph!DrawersForHallways(call[c].wing), 0, {}))'
      BY <1>8, <2>3, <2>6 DEF Graph!Content, Graph!Derived
    <2>8. /\ call'[c].step = "replace" /\ call'[c].present = Graph!WingsWithDrawers'
          /\ \A v \in Wing : Told(v)' \/ v \in call'[c].todo \/ (call'[c].only = 0 /\ call'[c].prune /\ v \notin call'[c].present)
          /\ call'[c].wing \in call'[c].todo /\ \A h \in call'[c].halls : h.wing = call'[c].wing
      BY <1>6, <1>8, <2>1, <2>2, <2>3, <2>5
    <2> QED BY <2>7, <2>8 DEF Progress
  <1>11. Aimed(r)
    BY <1>6, <1>10 DEF Aimed
  <1> HIDE DEF r
  <1> QED BY <1>0, <1>1, <1>2, <1>3, <1>6, <1>7, <1>9, <1>11, RebuildMoves

LEMMA CountsStay ==
    ASSUME UNCHANGED wingOf
    PROVE  /\ \A w : Graph!DrawersForHallways(w)' = Graph!DrawersForHallways(w)
           /\ Graph!WingsWithDrawers' = Graph!WingsWithDrawers
  BY DEF Graph!DrawersForHallways, Graph!Drawers, Graph!WingsWithDrawers

(* What a wing is told depends on its own hallways.                        *)
LEMMA ToldByOwn ==
    ASSUME UNCHANGED wingOf, NEW w, HallsOf(w)' = HallsOf(w), Told(w)
    PROVE  Told(w)'
  BY CountsStay DEF Told, Graph!Content, Graph!Derived

LEMMA ReplaceKeeps ==
    ASSUME GraphInv, NEW c \in Call, Graph!ReplaceWingHallways(c) PROVE GraphInv'
  <1>0. call[c] \in Rebuilds /\ call[c].step = "replace" /\ GraphTypes
    BY CallKinds DEF Graph!ReplaceWingHallways, GraphInv, RebuildSteps
  <1> DEFINE old == call[c]
             todo == old.todo \ {old.wing}
             none == {}
             r == With(old, "wings", old.present, todo, old.wing, none, old.count)
  <1>1. /\ UNCHANGED <<wingOf, tunnels, graphLock, begun, settled>>
        /\ hallways' = {h \in hallways : h.wing # old.wing} \cup old.halls
    BY DEF Graph!ReplaceWingHallways
  <1>2. call' = At(c, r)
    <2>1. call' = [call EXCEPT ![c].step = "wings", ![c].todo = todo, ![c].halls = none]
      BY Zenon DEF Graph!ReplaceWingHallways
    <2> HIDE DEF todo, none
    <2>2. \A x, y, z : [call EXCEPT ![c].step = x, ![c].todo = y, ![c].halls = z]
                       = At(c, With(old, x, old.present, y, old.wing, z, old.count))
      BY <1>0, ReplaceUpdate, Zenon
    <2> QED BY <2>1, <2>2, Zenon
  <1>3. /\ old.wing \in Wing /\ old.present \in SUBSET Wing /\ todo \in SUBSET Wing
        /\ old.count \in [Graph!Pairs -> Counts] /\ old.halls \in SUBSET Halls
    BY <1>0 DEF Rebuilds, GraphTypes, Aimed
  <1>4. TunnelsTyped' /\ (hallways \subseteq Halls)'
    BY <1>0, <1>1, <1>3 DEF TunnelsTyped, GraphTypes
  <1>5. r \in Rebuilds
    <2> HIDE DEF old
    <2>1. old \in Rebuilds /\ old.wing \in Wing \cup {0} /\ none \in SUBSET Halls
      BY <1>0, <1>3 DEF old
    <2> HIDE DEF todo, none
    <2> QED BY <1>3, <2>1, WithIsRebuild
  <1>6. /\ r.step = "wings" /\ r.present = old.present /\ r.todo = todo /\ r.only = old.only
        /\ r.prune = old.prune /\ r.clean = old.clean
    BY DEF With
  <1>7. call'[c] = r
    BY <1>0, <1>2 DEF At, GraphTypes
  <1>8. old.clean => Progress(call[c])'
    <2> SUFFICES ASSUME old.clean PROVE Progress(call[c])'
      OBVIOUS
    <2>1. /\ old.present = Graph!WingsWithDrawers
          /\ \A v \in Wing : Told(v) \/ v \in old.todo \/ (old.only = 0 /\ old.prune /\ v \notin old.present)
          /\ \A h \in old.halls : h.wing = old.wing
          /\ Graph!Content(old.halls) = Graph!Derived(old.wing, Graph!DrawersForHallways(old.wing), 0, {})
      BY <1>0, OnlyOne DEF Progress
    <2>2. /\ \A v : v = old.wing => HallsOf(v)' = old.halls
          /\ \A v \in Wing \ {old.wing} : HallsOf(v)' = HallsOf(v)
      BY <1>1, <2>1 DEF HallsOf
    <2>3. \A v \in Wing \ {old.wing} : Told(v) => Told(v)'
      BY <1>1, <2>2, ToldByOwn
    <2>4. \A v : v = old.wing => Told(v)'
      <3> TAKE v
      <3> HAVE v = old.wing
      <3>1. HallsOf(v)' = old.halls
        BY <2>2
      <3>2. Graph!DrawersForHallways(v)' = Graph!DrawersForHallways(old.wing)
        BY <1>1, CountsStay
      <3> QED BY <2>1, <3>1, <3>2 DEF Told, Graph!Content, Graph!Derived
    <2>5. \A v \in Wing : Told(v)' \/ v \in todo \/ (old.only = 0 /\ old.prune /\ v \notin old.present)
      BY <2>1, <2>3, <2>4
    <2>6. Graph!WingsWithDrawers' = Graph!WingsWithDrawers
      BY <1>1, CountsStay
    <2> HIDE DEF r, todo
    <2> QED BY <1>6, <1>7, <2>1, <2>5, <2>6 DEF Progress
  <1>9. Aimed(r)
    BY <1>6 DEF Aimed
  <1> HIDE DEF r
  <1> QED BY <1>0, <1>1, <1>2, <1>4, <1>5, <1>6, <1>8, <1>9, RebuildMoves

LEMMA ListStaleKeeps ==
    ASSUME GraphInv, NEW c \in Call, Graph!ListStale(c) PROVE GraphInv'
  <1>0. call[c] \in Rebuilds /\ call[c].step = "wings" /\ GraphTypes /\ call[c].todo = {}
    BY CallKinds DEF Graph!ListStale, GraphInv, RebuildSteps
  <1>1. UNCHANGED <<wingOf, hallways, tunnels, begun, graphLock, settled>>
    BY DEF Graph!ListStale
  <1>2. TunnelsTyped' /\ (hallways \subseteq Halls)' /\ EntityIds' = EntityIds
    BY <1>1, <1>0 DEF TunnelsTyped, GraphTypes, EntityIds
  <1> DEFINE old == call[c]
             todo == IF old.prune /\ old.only = Graph!NoWing
                     THEN {h.wing : h \in hallways} \ old.present ELSE {}
             r == With(old, "prune", old.present, todo, old.wing, old.halls, old.count)
  <1>3. call' = At(c, r)
    <2>1. call' = [call EXCEPT ![c].step = "prune", ![c].todo = todo]
      BY Zenon DEF Graph!ListStale
    <2> HIDE DEF todo
    <2>2. \A x, y : [call EXCEPT ![c].step = x, ![c].todo = y]
                    = At(c, With(old, x, old.present, y, old.wing, old.halls, old.count))
      BY <1>0, ListUpdate, Zenon
    <2> QED BY <2>1, <2>2, Zenon
  <1>4. /\ old.wing \in Wing \cup {0} /\ old.present \in SUBSET Wing /\ todo \in SUBSET Wing
        /\ old.count \in [Graph!Pairs -> Counts] /\ old.halls \in SUBSET Halls
    BY <1>0 DEF Rebuilds, GraphTypes, Halls
  <1>5. r \in Rebuilds
    <2> HIDE DEF todo, old
    <2>1. old \in Rebuilds
      BY <1>0 DEF old
    <2> QED BY <1>4, <2>1, WithIsRebuild
  <1>6. r.step = "prune" /\ r.todo = todo /\ r.clean = old.clean
    BY DEF With
  <1>7. call'[c] = r
    BY <1>0, <1>3 DEF At, GraphTypes
  <1>8. old.clean => Progress(call[c])'
    <2> SUFFICES ASSUME old.clean PROVE Progress(call[c])'
      OBVIOUS
    <2>1. /\ old.present = Graph!WingsWithDrawers
          /\ \A v \in Wing : Told(v) \/ (old.only = 0 /\ old.prune /\ v \notin old.present)
      BY <1>0, OnlyOne DEF Progress
    <2>2. \A v \in Wing : v \notin Graph!WingsWithDrawers => Told(v) \/ v \in {h.wing : h \in hallways}
      <3> SUFFICES ASSUME NEW v \in Wing, v \notin Graph!WingsWithDrawers, v \notin {h.wing : h \in hallways}
                   PROVE  Told(v)
        OBVIOUS
      <3>1. HallsOf(v) = {}
        BY DEF HallsOf
      <3>2. Graph!Content({}) = {}
        BY DEF Graph!Content
      <3> QED BY <1>0, <3>1, <3>2, NothingDerived DEF Told
    <2>3. \A v \in Wing : Told(v) \/ v \in todo
      BY <2>1, <2>2 DEF Graph!NoWing
    <2>4. todo \cap Graph!WingsWithDrawers = {}
      BY <2>1
    <2>5. Graph!WingsWithDrawers' = Graph!WingsWithDrawers /\ \A v \in Wing : Told(v)' <=> Told(v)
      BY <1>1, CountsStay, ToldStays
    <2> HIDE DEF r, todo
    <2> QED BY <1>6, <1>7, <2>3, <2>4, <2>5 DEF Progress
  <1>9. Aimed(r)
    BY <1>6 DEF Aimed
  <1> HIDE DEF r
  <1> QED BY <1>0, <1>1, <1>2, <1>3, <1>5, <1>6, <1>8, <1>9, RebuildMoves

LEMMA PruneWingKeeps ==
    ASSUME GraphInv, NEW c \in Call, NEW w \in Wing, Graph!PruneWing(c, w) PROVE GraphInv'
  <1>0. call[c] \in Rebuilds /\ call[c].step = "prune" /\ GraphTypes /\ w \in call[c].todo
    BY CallKinds DEF Graph!PruneWing, GraphInv, RebuildSteps
  <1> DEFINE old == call[c]
             todo == old.todo \ {w}
             r == With(old, "prune", old.present, todo, old.wing, old.halls, old.count)
  <1>1. UNCHANGED <<wingOf, tunnels, begun, graphLock, settled>> /\ hallways' = {h \in hallways : h.wing # w}
    BY DEF Graph!PruneWing
  <1>2. TunnelsTyped' /\ (hallways \subseteq Halls)'
    BY <1>1, <1>0 DEF TunnelsTyped, GraphTypes
  <1>3. call' = At(c, r)
    <2>1. call' = At(c, [old EXCEPT !.todo = todo])
      BY <1>0 DEF Graph!PruneWing, At, GraphTypes
    <2>2. [old EXCEPT !.todo = todo] = r
      BY <1>0 DEF Rebuilds, With
    <2> QED BY <2>1, <2>2, Zenon
  <1>4. /\ old.wing \in Wing \cup {0} /\ old.present \in SUBSET Wing /\ todo \in SUBSET Wing
        /\ old.count \in [Graph!Pairs -> Counts] /\ old.halls \in SUBSET Halls
    BY <1>0 DEF Rebuilds
  <1>5. r \in Rebuilds
    <2> HIDE DEF todo, old
    <2>1. old \in Rebuilds
      BY <1>0 DEF old
    <2> QED BY <1>4, <2>1, WithIsRebuild
  <1>6. r.step = "prune" /\ r.todo = todo /\ r.clean = old.clean
    BY DEF With
  <1>7. call'[c] = r
    BY <1>0, <1>3 DEF At, GraphTypes
  <1>8. old.clean => Progress(call[c])'
    <2> SUFFICES ASSUME old.clean PROVE Progress(call[c])'
      OBVIOUS
    <2>1. old.todo \cap Graph!WingsWithDrawers = {} /\ \A v \in Wing : Told(v) \/ v \in old.todo
      BY <1>0, OnlyOne DEF Progress
    <2>2. HallsOf(w)' = {} /\ \A v \in Wing \ {w} : HallsOf(v)' = HallsOf(v)
      BY <1>1 DEF HallsOf
    <2>3. \A v \in Wing \ {w} : Told(v) => Told(v)'
      BY <1>1, <2>2, ToldByOwn
    <2>4. Told(w)'
      <3>1. Graph!Derived(w, Graph!DrawersForHallways(w), 0, {}) = {}
        BY <1>0, <2>1, NothingDerived
      <3>2. Graph!Content({}) = {}
        BY DEF Graph!Content
      <3>3. Graph!DrawersForHallways(w)' = Graph!DrawersForHallways(w)
        BY <1>1, CountsStay
      <3> QED BY <2>2, <3>1, <3>2, <3>3 DEF Told, Graph!Content, Graph!Derived
    <2>5. Graph!WingsWithDrawers' = Graph!WingsWithDrawers
      BY <1>1, CountsStay
    <2>6. \A v \in Wing : Told(v)' \/ v \in todo
      BY <2>1, <2>3, <2>4
    <2>7. todo \cap Graph!WingsWithDrawers = {}
      BY <2>1
    <2> HIDE DEF r, todo
    <2> QED BY <1>6, <1>7, <2>5, <2>6, <2>7 DEF Progress
  <1>9. Aimed(r)
    BY <1>6 DEF Aimed
  <1> HIDE DEF r
  <1> QED BY <1>0, <1>1, <1>2, <1>3, <1>5, <1>6, <1>8, <1>9, RebuildMoves

LEMMA DeleteTunnelsKeeps ==
    ASSUME GraphInv, NEW c \in Call, Graph!DeleteTunnelsByKind(c) PROVE GraphInv'
  <1>0. call[c] \in Rebuilds /\ call[c].step = "prune" /\ GraphTypes /\ call[c].todo = {}
    BY CallKinds DEF Graph!DeleteTunnelsByKind, GraphInv, RebuildSteps
  <1> DEFINE old == call[c]
             r == With(old, "list", old.present, old.todo, old.wing, old.halls, old.count)
  <1>1. /\ UNCHANGED <<wingOf, hallways, begun, graphLock, settled>>
        /\ tunnels' = {t \in tunnels : t.kind # "entity"}
    BY DEF Graph!DeleteTunnelsByKind
  <1>2. TunnelsTyped' /\ (hallways \subseteq Halls)' /\ EntityIds' = {}
    BY <1>1, <1>0 DEF TunnelsTyped, GraphTypes, EntityIds
  <1>3. call' = At(c, r)
    <2>1. call' = At(c, [old EXCEPT !.step = "list"])
      BY <1>0 DEF Graph!DeleteTunnelsByKind, Graph!Goto, At, GraphTypes
    <2>2. [old EXCEPT !.step = "list"] = r
      BY <1>0 DEF Rebuilds, With
    <2> QED BY <2>1, <2>2, Zenon
  <1>4. /\ old.wing \in Wing \cup {0} /\ old.present \in SUBSET Wing /\ old.todo \in SUBSET Wing
        /\ old.count \in [Graph!Pairs -> Counts] /\ old.halls \in SUBSET Halls
    BY <1>0 DEF Rebuilds
  <1>5. r \in Rebuilds
    BY <1>0, <1>4, WithIsRebuild
  <1>6. r.step = "list" /\ r.clean = old.clean
    BY DEF With
  <1>7. call'[c] = r
    BY <1>0, <1>3 DEF At, GraphTypes
  <1>8. old.clean => Progress(call[c])'
    <2> SUFFICES ASSUME old.clean PROVE Progress(call[c])'
      OBVIOUS
    <2>1. \A v \in Wing : Told(v)
      BY <1>0, OnlyOne DEF Progress
    <2>2. AllTold'
      BY <1>1, <2>1, ToldStays DEF AllTold
    <2> HIDE DEF r
    <2> QED BY <1>2, <1>6, <1>7, <2>2 DEF Progress
  <1>9. Aimed(r)
    BY <1>6 DEF Aimed
  <1> HIDE DEF r
  <1> QED BY <1>0, <1>1, <1>2, <1>3, <1>5, <1>6, <1>8, <1>9, RebuildMoves

LEMMA ListAllKeeps ==
    ASSUME GraphInv, NEW c \in Call, Graph!ListAll(c) PROVE GraphInv'
  <1>0. call[c] \in Rebuilds /\ call[c].step = "list" /\ GraphTypes
    BY CallKinds DEF Graph!ListAll, GraphInv, RebuildSteps
  <1> DEFINE old == call[c]
             r == With(old, "save", old.present, old.todo, old.wing, hallways, old.count)
  <1>1. UNCHANGED <<wingOf, hallways, tunnels, begun, graphLock, settled>>
    BY DEF Graph!ListAll
  <1>2. TunnelsTyped' /\ (hallways \subseteq Halls)' /\ EntityIds' = EntityIds
    BY <1>1, <1>0 DEF TunnelsTyped, GraphTypes, EntityIds
  <1>3. call' = At(c, r)
    <2>1. call' = [call EXCEPT ![c].step = "save", ![c].halls = hallways]
      BY Zenon DEF Graph!ListAll
    <2>2. \A x, y : [call EXCEPT ![c].step = x, ![c].halls = y]
                    = At(c, With(old, x, old.present, old.todo, old.wing, y, old.count))
      BY <1>0, ReadUpdate, Zenon
    <2> QED BY <2>1, <2>2, Zenon
  <1>4. /\ old.wing \in Wing \cup {0} /\ old.present \in SUBSET Wing /\ old.todo \in SUBSET Wing
        /\ old.count \in [Graph!Pairs -> Counts] /\ hallways \in SUBSET Halls
    BY <1>0 DEF Rebuilds, GraphTypes
  <1>5. r \in Rebuilds
    BY <1>0, <1>4, WithIsRebuild
  <1>6. r.step = "save" /\ r.clean = old.clean /\ r.halls = hallways
    BY DEF With
  <1>7. call'[c] = r
    BY <1>0, <1>3 DEF At, GraphTypes
  <1>8. old.clean => Progress(call[c])'
    <2> SUFFICES ASSUME old.clean PROVE Progress(call[c])'
      OBVIOUS
    <2>1. AllTold /\ EntityIds = {}
      BY <1>0, OnlyOne DEF Progress
    <2>2. AllTold' /\ EntityIds' = {}
      BY <1>1, <1>2, <2>1, ToldStays
    <2> HIDE DEF r
    <2> QED BY <1>1, <1>6, <1>7, <2>2 DEF Progress
  <1>9. Aimed(r)
    BY <1>6 DEF Aimed
  <1> HIDE DEF r
  <1> QED BY <1>0, <1>1, <1>2, <1>3, <1>5, <1>6, <1>8, <1>9, RebuildMoves

(* When derived tunnels were made does not tell them apart.                *)
LEMMA FreshTunnels ==
    ASSUME NEW halls, NEW b
    PROVE  /\ \A t \in Graph!EntityTunnels(halls, b) : t = ShapeOf(t) /\ t.kind = "entity"
           /\ {t.id : t \in Graph!EntityTunnels(halls, b)} = {t.id : t \in Graph!EntityTunnels(halls, 0)}
  <1> DEFINE ws == {v \in Wing \X Wing \X UNION Graph!Pairs :
                      v[1] < v[2] /\ {v[1], v[2]} \subseteq Graph!EntityWings(halls, v[3])}
             id(w) == {<<w[1], w[3]>>, <<w[2], w[3]>>}
             drawn(w, n) == [id |-> id(w), kind |-> "entity", label |-> Graph!None, since |-> n,
                            source |-> <<w[1], w[3]>>]
  <1>1. \A n : Graph!EntityTunnels(halls, n) = {drawn(w, n) : w \in ws}
    BY Zenon DEF Graph!EntityTunnels
  <1>2. \A w, n : drawn(w, n) = ShapeOf(drawn(w, n)) /\ drawn(w, n).kind = "entity" /\ drawn(w, n).id = id(w)
    BY DEF ShapeOf
  <1> HIDE DEF ws, drawn, id
  <1>3. \A n : {t.id : t \in Graph!EntityTunnels(halls, n)} = {id(w) : w \in ws}
    BY <1>1, <1>2
  <1> QED BY <1>1, <1>2, <1>3

LEMMA SaveKeeps ==
    ASSUME GraphInv, NEW c \in Call, Graph!SaveTunnels(c) PROVE GraphInv'
  <1>0. call[c] \in Rebuilds /\ call[c].step = "save" /\ GraphTypes
    BY CallKinds DEF Graph!SaveTunnels, GraphInv, RebuildSteps
  <1> DEFINE old == call[c]
             fresh == Graph!EntityTunnels(old.halls, old.now)
  <1>1. /\ UNCHANGED <<wingOf, hallways, begun>>
        /\ tunnels' = {t \in tunnels : \A u \in fresh : u.id # t.id} \cup fresh
        /\ Graph!Returns(c, old.clean) /\ old.clean \in BOOLEAN
    BY <1>0 DEF Graph!SaveTunnels, Rebuilds
  <1>2. /\ \A t \in fresh : t = ShapeOf(t) /\ t.kind = "entity"
        /\ {t.id : t \in fresh} = {t.id : t \in Graph!EntityTunnels(old.halls, 0)}
    BY FreshTunnels
  <1> HIDE DEF fresh
  <1>3. TunnelsTyped' /\ (hallways \subseteq Halls)'
    BY <1>0, <1>1, <1>2 DEF TunnelsTyped, GraphTypes
  <1>4. old.clean => (AllTold /\ TunnelsTold)'
    <2> SUFFICES ASSUME old.clean PROVE (AllTold /\ TunnelsTold)'
      OBVIOUS
    <2>1. AllTold /\ EntityIds = {} /\ old.halls = hallways
      BY <1>0, OnlyOne DEF Progress
    <2>2. AllTold'
      BY <1>1, <2>1, ToldStays
    <2>3. EntityIds' = {t.id : t \in fresh}
      <3>1. \A t \in tunnels : t.kind # "entity"
        BY <2>1 DEF EntityIds
      <3>2. {u \in tunnels : u.kind = "entity"}' = fresh
        BY <1>1, <1>2, <3>1
      <3> QED BY <3>2 DEF EntityIds
    <2>4. Graph!EntityTunnels(hallways, 0)' = Graph!EntityTunnels(hallways, 0)
      BY <1>1 DEF Graph!EntityTunnels, Graph!EntityWings
    <2>5. TunnelsTold'
      BY <1>2, <2>1, <2>3, <2>4 DEF TunnelsTold
    <2> QED BY <2>2, <2>5
  <1> HIDE DEF old
  <1>5. call[c] = old
    BY DEF old
  <1> QED BY <1>0, <1>1, <1>3, <1>4, <1>5, RebuildReturns

LEMMA FailKeeps ==
    ASSUME GraphInv, NEW c \in Call, Graph!Fail(c) PROVE GraphInv'
  <1>1. call[c] \in Rebuilds /\ Graph!Returns(c, FALSE) /\ UNCHANGED <<wingOf, hallways, tunnels, begun>>
    BY CallKinds DEF Graph!Fail, GraphInv
  <1>2. TunnelsTyped' /\ (hallways \subseteq Halls)'
    BY <1>1 DEF GraphInv, TunnelsTyped, GraphTypes
  <1> QED BY <1>1, <1>2, RebuildReturns

-----------------------------------------------------------------------------
(* The drawers change, and users link and delete by hand.                  *)
LEMMA SpoiledKeeps ==
    ASSUME GraphInv, call' = Graph!Spoiled, settled' = FALSE, UNCHANGED graphLock, begun' \in Nat,
           (wingOf \in [Drawer -> Wing \cup {0}])', (hallways \subseteq Halls)', TunnelsTyped'
    PROVE  GraphInv'
  <1>1. \A r \in Rebuilds : /\ [r EXCEPT !.clean = FALSE] \in Rebuilds
                            /\ ~[r EXCEPT !.clean = FALSE].clean
                            /\ [r EXCEPT !.clean = FALSE].step = r.step
                            /\ [r EXCEPT !.clean = FALSE].wing = r.wing
    BY DEF Rebuilds
  <1>2. \A d \in Call : call'[d] = IF call[d] \in Rebuilds THEN [call[d] EXCEPT !.clean = FALSE] ELSE call[d]
    BY CallKinds DEF Graph!Spoiled, GraphInv
  <1>3. call' \in [Call -> {Graph!Idle} \cup Rebuilds \cup Creates]
    BY <1>1, <1>2 DEF Graph!Spoiled, GraphInv, GraphTypes
  <1>4. \A r \in Rebuilds : r \notin Creates
    BY DEF Rebuilds, Creates
  <1>5. \A d \in Call : /\ call'[d] \in Creates => call'[d] = call[d]
                        /\ call'[d] \in Rebuilds => call[d] \in Rebuilds /\ ~call'[d].clean /\ Aimed(call'[d])
    <2> TAKE d \in Call
    <2>1. CASE call[d] \in Rebuilds
      <3> DEFINE r == [call[d] EXCEPT !.clean = FALSE]
      <3>1. call'[d] = r /\ r \in Rebuilds /\ ~r.clean /\ r.step = call[d].step /\ r.wing = call[d].wing
        BY <1>1, <1>2, <2>1
      <3>2. Aimed(call[d])
        BY <2>1 DEF GraphInv, GraphTypes
      <3> HIDE DEF r
      <3> QED BY <1>4, <2>1, <3>1, <3>2 DEF Aimed
    <2>2. CASE call[d] \notin Rebuilds
      BY <1>2, <2>2
    <2> QED BY <2>1, <2>2
  <1>6. GraphTypes'
    BY <1>3, <1>5 DEF GraphInv, GraphTypes, TunnelsTyped
  <1>7. \A d \in Call : Graph!Rebuilding(d)' => Graph!Rebuilding(d) /\ ~call'[d].clean
    BY <1>3, <1>5, CallKinds, KindsStay DEF GraphInv
  <1>8. OneRebuild' /\ CleanProgress' /\ SettledTold'
    BY <1>7 DEF OneRebuild, CleanProgress, SettledTold, GraphInv
  <1> QED BY <1>6, <1>8 DEF GraphInv

LEMMA ChangeKeeps ==
    ASSUME GraphInv,
           \/ \E d \in Drawer : Graph!Delete(d) \/ \E w \in Wing : Graph!File(d, w)
           \/ \E v, w \in Wing : Graph!Merge(v, w)
    PROVE  GraphInv'
  <1>1. Graph!Change
    BY DEF Graph!Delete, Graph!File, Graph!Merge
  <1>2. wingOf' \in [Drawer -> Wing \cup {0}]
    BY DEF Graph!Delete, Graph!File, Graph!Merge, GraphInv, GraphTypes, Graph!NoWing
  <1>3. TunnelsTyped' /\ (hallways \subseteq Halls)' /\ begun' \in Nat
    BY <1>1 DEF Graph!Change, GraphInv, GraphTypes, TunnelsTyped
  <1> QED BY <1>1, <1>2, <1>3, SpoiledKeeps DEF Graph!Change

LEMMA CreateKeeps ==
    ASSUME GraphInv, NEW c \in Call, NEW l \in Link, NEW a \in Label, Graph!CreateTunnel(c, l[1], l[2], a)
    PROVE  GraphInv'
  <1> DEFINE r == [step |-> "source", source |-> l[1], target |-> l[2], label |-> a, now |-> begun]
  <1>1. /\ call[c] = Graph!Idle /\ call' = At(c, r) /\ begun' = begun + 1
        /\ UNCHANGED <<wingOf, hallways, tunnels, graphLock, settled>>
    BY DEF Graph!CreateTunnel, Graph!Begins, At
  <1>2. r \in Creates /\ Linked({r.source, r.target})
    BY DEF Creates, Places, Linked, GraphInv, GraphTypes
  <1>3. call[c] \notin Rebuilds
    BY <1>1 DEF Rebuilds, Graph!Idle
  <1>4. begun' \in Nat
    BY <1>1 DEF GraphInv, GraphTypes
  <1> HIDE DEF r
  <1>5. /\ call'[c] = r /\ \A d \in Call \ {c} : call'[d] = call[d]
        /\ call' \in [Call -> {Graph!Idle} \cup Rebuilds \cup Creates]
    BY <1>1, <1>2 DEF At, GraphInv, GraphTypes
  <1>6. TunnelsTyped' /\ EntityIds' = EntityIds
    BY <1>1 DEF GraphInv, GraphTypes, TunnelsTyped, EntityIds
  <1> QED BY <1>1, <1>2, <1>3, <1>4, <1>5, <1>6, UsersKeep

LEMMA CheckKeeps ==
    ASSUME GraphInv, NEW c \in Call, Graph!CheckSource(c) \/ Graph!CheckTarget(c)
    PROVE  GraphInv'
  <1>1. /\ call[c] \in Creates /\ UNCHANGED <<wingOf, hallways, tunnels, graphLock, begun, settled>>
        /\ \/ call' = At(c, Graph!Idle)
           \/ \E s \in {"target", "upsert"} : call' = [call EXCEPT ![c].step = s]
    BY CallKinds DEF Graph!CheckSource, Graph!CheckTarget, Graph!CheckEnd, Graph!Goto, At, GraphInv, CreateSteps
  <1>2. Linked({call[c].source, call[c].target})
    BY <1>1 DEF GraphInv, GraphTypes
  <1>3. call[c] \notin Rebuilds
    BY <1>1 DEF Rebuilds, Creates
  <1>4. TunnelsTyped' /\ EntityIds' = EntityIds /\ begun' \in Nat
    BY <1>1 DEF GraphInv, GraphTypes, TunnelsTyped, EntityIds
  <1>5. CASE call' = At(c, Graph!Idle)
    <2>1. /\ call'[c] = Graph!Idle /\ \A d \in Call \ {c} : call'[d] = call[d]
          /\ call' \in [Call -> {Graph!Idle} \cup Rebuilds \cup Creates]
      BY <1>5 DEF At, GraphInv, GraphTypes
    <2>2. Graph!Idle \notin Creates
      BY DEF Graph!Idle, Creates
    <2> QED BY <1>1, <1>3, <1>4, <2>1, <2>2, UsersKeep
  <1>6. CASE \E s \in {"target", "upsert"} : call' = [call EXCEPT ![c].step = s]
    <2>1. PICK s \in {"target", "upsert"} : call' = [call EXCEPT ![c].step = s]
      BY <1>6
    <2> DEFINE r == [call[c] EXCEPT !.step = s]
    <2>2. call' = At(c, r)
      BY <2>1 DEF At, GraphInv, GraphTypes
    <2>3. r \in Creates /\ r.source = call[c].source /\ r.target = call[c].target
      BY <1>1 DEF Creates
    <2> HIDE DEF r
    <2>4. /\ call'[c] = r /\ \A d \in Call \ {c} : call'[d] = call[d]
          /\ call' \in [Call -> {Graph!Idle} \cup Rebuilds \cup Creates]
      BY <2>2, <2>3 DEF At, GraphInv, GraphTypes
    <2> QED BY <1>1, <1>2, <1>3, <1>4, <2>3, <2>4, UsersKeep
  <1> QED BY <1>1, <1>5, <1>6

(* The tunnel of a call to create one, and a change of label.              *)
LEMMA ExplicitShape ==
    ASSUME GraphInv, NEW c \in Call, call[c] \in Creates
    PROVE  LET t == Graph!Explicit(c) IN
           t = ShapeOf(t) /\ t.kind = "explicit" /\ Linked(t.id)
  <1>1. Linked({call[c].source, call[c].target})
    BY DEF GraphInv, GraphTypes
  <1> QED BY <1>1 DEF Graph!Explicit, Graph!CanonicalId, ShapeOf

LEMMA Relabelled ==
    ASSUME NEW t, t = ShapeOf(t), NEW a
    PROVE  /\ [t EXCEPT !.label = a] = ShapeOf([t EXCEPT !.label = a])
           /\ [t EXCEPT !.label = a].id = t.id
           /\ [t EXCEPT !.label = a].kind = t.kind
           /\ [t EXCEPT !.label = a].label = a
  <1> DEFINE s == ShapeOf(t)
             u == [s EXCEPT !.label = a]
             v == [id |-> t.id, kind |-> t.kind, label |-> a, since |-> t.since, source |-> t.source]
  <1>3. u = v
    BY DEF ShapeOf
  <1>4. v = ShapeOf(v) /\ v.id = s.id /\ v.kind = s.kind /\ v.label = a
    BY DEF ShapeOf
  <1>1. u = ShapeOf(u) /\ u.id = s.id /\ u.kind = s.kind /\ u.label = a
    <2> HIDE DEF u, v, s
    <2> QED BY <1>3, <1>4
  <1>2. s = t
    OBVIOUS
  <1> HIDE DEF s
  <1> QED BY <1>1, <1>2

LEMMA UpsertKeeps ==
    ASSUME GraphInv, NEW c \in Call, Graph!UpsertExplicitTunnel(c) PROVE GraphInv'
  <1> DEFINE x == Graph!Explicit(c)
             old == {t \in tunnels : t.id = x.id}
             given(t) == [t EXCEPT !.label = call[c].label]
  <1>1. /\ call[c] \in Creates /\ UNCHANGED <<wingOf, hallways, graphLock, begun, settled>>
        /\ call' = At(c, Graph!Idle)
    BY CallKinds DEF Graph!UpsertExplicitTunnel, At, GraphInv, CreateSteps
  <1>2. tunnels' = IF \E t \in tunnels : t.id = x.id
                   THEN {IF t.id = x.id THEN given(t) ELSE t : t \in tunnels} ELSE tunnels \cup {x}
    BY Zenon DEF Graph!UpsertExplicitTunnel
  <1>3. x = ShapeOf(x) /\ x.kind = "explicit" /\ Linked(x.id)
    BY <1>1, ExplicitShape
  <1>4. \A t \in tunnels : given(t) = ShapeOf(given(t)) /\ given(t).id = t.id /\ given(t).kind = t.kind
    <2> TAKE t \in tunnels
    <2>1. t = ShapeOf(t)
      BY DEF GraphInv, GraphTypes
    <2> QED BY <2>1, Relabelled, Zenon
  <1>5. call[c] \notin Rebuilds
    BY <1>1 DEF Rebuilds, Creates
  <1>6. /\ call'[c] = Graph!Idle /\ \A d \in Call \ {c} : call'[d] = call[d]
        /\ call' \in [Call -> {Graph!Idle} \cup Rebuilds \cup Creates]
    BY <1>1 DEF At, GraphInv, GraphTypes
  <1>7. Graph!Idle \notin Creates
    BY DEF Graph!Idle, Creates
  <1>8. \A t \in tunnels : t = ShapeOf(t) /\ (t.kind = "explicit" => Linked(t.id))
    BY DEF GraphInv, GraphTypes
  <1> HIDE DEF x, given
  <1>9. TunnelsTyped'
    BY <1>2, <1>3, <1>4, <1>8 DEF TunnelsTyped
  <1>10. EntityIds' = EntityIds
    <2>1. CASE \E t \in tunnels : t.id = x.id
      <3> DEFINE new(t) == IF t.id = x.id THEN given(t) ELSE t
      <3>1. tunnels' = {new(t) : t \in tunnels}
        BY <1>2, <2>1
      <3>2. \A t \in tunnels : new(t).id = t.id /\ new(t).kind = t.kind
        BY <1>4
      <3> HIDE DEF new
      <3> QED BY <3>1, <3>2 DEF EntityIds
    <2>2. CASE ~\E t \in tunnels : t.id = x.id
      BY <1>2, <1>3, <2>2 DEF EntityIds
    <2> QED BY <2>1, <2>2
  <1>11. begun' \in Nat
    BY <1>1 DEF GraphInv, GraphTypes
  <1> QED BY <1>1, <1>5, <1>6, <1>7, <1>9, <1>10, <1>11, UsersKeep

LEMMA DeleteKeeps ==
    ASSUME GraphInv, \/ \E t \in tunnels : Graph!DeleteTunnel(t)
                     \/ \E h \in hallways : Graph!DeleteHallway(h)
    PROVE  GraphInv'
  <1>1. UNCHANGED <<wingOf, graphLock>> /\ begun' \in Nat
    BY DEF Graph!DeleteTunnel, Graph!DeleteHallway, Graph!ByHand, GraphInv, GraphTypes
  <1>2. TunnelsTyped' /\ (hallways \subseteq Halls)' /\ (wingOf \in [Drawer -> Wing \cup {0}])'
    BY <1>1 DEF Graph!DeleteTunnel, Graph!DeleteHallway, GraphInv, GraphTypes, TunnelsTyped
  <1>3. CASE call' = Graph!Spoiled /\ settled' = FALSE
    BY <1>1, <1>2, <1>3, SpoiledKeeps
  <1>4. CASE \E t \in tunnels : t.kind # "entity" /\ tunnels' = tunnels \ {t} /\ UNCHANGED <<hallways, settled, call>>
    <2>1. EntityIds' = EntityIds
      BY <1>4 DEF EntityIds
    <2>2. GraphTypes'
      BY <1>1, <1>2, <1>4 DEF GraphInv, GraphTypes, TunnelsTyped
    <2>3. \A d \in Call : Graph!Rebuilding(d)' <=> Graph!Rebuilding(d)
      BY <1>4 DEF Graph!Rebuilding
    <2>4. CleanProgress'
      BY <1>1, <1>4, <2>1, <2>3, ProgressStays DEF GraphInv, CleanProgress
    <2>5. SettledTold' /\ OneRebuild'
      BY <1>1, <1>4, <2>1, <2>3, ToldStays DEF GraphInv, SettledTold, OneRebuild
    <2> QED BY <2>2, <2>4, <2>5 DEF GraphInv
  <1> QED BY <1>3, <1>4 DEF Graph!DeleteTunnel, Graph!DeleteHallway

-----------------------------------------------------------------------------
(* A rebuild of everything tells the drawers, and a rebuild keeps what     *)
(* users have authored.                                                    *)
LEMMA GraphStarts == ASSUME Graph!Init PROVE GraphInv
  <1>1. Graph!Idle \notin Rebuilds /\ Graph!Idle \notin Creates
    BY DEF Graph!Idle, Rebuilds, Creates
  <1>2. GraphTypes
    BY <1>1 DEF Graph!Init, GraphTypes, Graph!NoWing
  <1>3. \A c \in Call : ~Graph!Rebuilding(c)
    BY DEF Graph!Init, Graph!Rebuilding
  <1> QED BY <1>2, <1>3 DEF Graph!Init, GraphInv, OneRebuild, CleanProgress, SettledTold

LEMMA GraphMoves == ASSUME GraphInv, Graph!Next PROVE GraphInv'
  <1>1. ASSUME \/ \E d \in Drawer : Graph!Delete(d) \/ \E wing \in Wing : Graph!File(d, wing)
               \/ \E source, target \in Wing : Graph!Merge(source, target)
        PROVE  GraphInv'
    BY <1>1, ChangeKeeps
  <1>2. ASSUME NEW c \in Call, \E wing \in Wing \cup {Graph!NoWing}, prune \in BOOLEAN : Graph!Recompute(c, wing, prune)
        PROVE  GraphInv'
    BY <1>2, RecomputeKeeps
  <1>3. ASSUME NEW c \in Call,
               \/ Graph!Present(c) \/ Graph!KeepDynamics(c) \/ Graph!ReplaceWingHallways(c)
               \/ Graph!ListStale(c) \/ Graph!DeleteTunnelsByKind(c) \/ Graph!ListAll(c) \/ Graph!SaveTunnels(c)
               \/ \E wing \in Wing : Graph!CountPairs(c, wing) \/ Graph!PruneWing(c, wing)
               \/ Graph!Fail(c)
        PROVE  GraphInv'
    BY <1>3, PresentKeeps, CountKeeps, KeepDynamicsKeeps, ReplaceKeeps, ListStaleKeeps, PruneWingKeeps,
       DeleteTunnelsKeeps, ListAllKeeps, SaveKeeps, FailKeeps
  <1>4. ASSUME NEW c \in Call,
               \/ \E link \in Link, label \in Label : Graph!CreateTunnel(c, link[1], link[2], label)
               \/ Graph!CheckSource(c) \/ Graph!CheckTarget(c) \/ Graph!UpsertExplicitTunnel(c)
        PROVE  GraphInv'
    BY <1>4, CreateKeeps, CheckKeeps, UpsertKeeps
  <1>5. ASSUME \/ \E t \in tunnels : Graph!DeleteTunnel(t)
               \/ \E h \in hallways : Graph!DeleteHallway(h)
        PROVE  GraphInv'
    BY <1>5, DeleteKeeps
  <1> QED BY <1>1, <1>2, <1>3, <1>4, <1>5 DEF Graph!Next

LEMMA GraphRests == ASSUME GraphInv, UNCHANGED graph PROVE GraphInv'
  <1>1. UNCHANGED <<wingOf, hallways, tunnels, graphLock, call, begun, settled>>
    BY DEF graph
  <1>2. GraphTypes'
    BY <1>1 DEF GraphInv, GraphTypes
  <1>3. EntityIds' = EntityIds
    BY <1>1 DEF EntityIds
  <1>4. \A d \in Call : Graph!Rebuilding(d)' <=> Graph!Rebuilding(d)
    BY <1>1 DEF Graph!Rebuilding
  <1>5. CleanProgress'
    BY <1>1, <1>3, <1>4, ProgressStays DEF GraphInv, CleanProgress
  <1>6. SettledTold' /\ OneRebuild'
    BY <1>1, <1>3, <1>4, ToldStays DEF GraphInv, SettledTold, OneRebuild
  <1> QED BY <1>2, <1>5, <1>6 DEF GraphInv

LEMMA GraphTells == ASSUME GraphInv PROVE Graph!GraphTellsDrawers
  <1> SUFFICES ASSUME settled PROVE Graph!GraphTellsDrawers
    BY DEF Graph!GraphTellsDrawers
  <1>1. (\A w \in Wing : Told(w)) /\ TunnelsTold /\ \A h \in hallways : h.wing \in Wing
    BY DEF GraphInv, SettledTold, AllTold, GraphTypes, Halls
  <1>2. Graph!Content(hallways) = UNION {Graph!Content(HallsOf(w)) : w \in Wing}
    BY <1>1 DEF Graph!Content, HallsOf
  <1>3. \A w \in Wing : Graph!Content(HallsOf(w)) = Graph!Derived(w, Graph!DrawersForHallways(w), 0, {})
    BY <1>1 DEF Told
  <1>4. Graph!Content(hallways) = UNION {Graph!Derived(w, Graph!DrawersForHallways(w), 0, {}) : w \in Wing}
    BY <1>2, <1>3, Zenon
  <1> QED BY <1>1, <1>4 DEF Graph!GraphTellsDrawers, TunnelsTold, EntityIds

(* No derived tunnel has the ends of an authored one.                      *)
LEMMA DerivedApart ==
    ASSUME NEW halls, NEW b, NEW t \in Graph!EntityTunnels(halls, b)
    PROVE  ~Linked(t.id)
  <1>1. PICK w \in Wing \X Wing \X UNION Graph!Pairs : t.id = {<<w[1], w[3]>>, <<w[2], w[3]>>}
    BY DEF Graph!EntityTunnels
  <1>2. PICK d \in Drawer : w[3] \in EntitiesOf[d]
    BY DEF Graph!Pairs
  <1>3. \A x \in t.id : x[2] = w[3]
    BY <1>1
  <1>4. \A l \in Link : l[1][2] # w[3]
    BY <1>2, MemoryAssumption DEF Graph!Assumptions
  <1> QED BY <1>3, <1>4 DEF Linked

LEMMA AuthoredKept ==
    ASSUME GraphInv, Graph!Next, NEW t \in tunnels, t.kind = "explicit"
    PROVE  \/ \E u \in tunnels' : u = [t EXCEPT !.label = u.label]
           \/ Graph!DeleteTunnel(t)
  <1>1. t = ShapeOf(t) /\ Linked(t.id)
    BY DEF GraphInv, GraphTypes
  <1>2. t = [t EXCEPT !.label = t.label]
    BY <1>1 DEF ShapeOf
  <1>3. CASE t \in tunnels'
    BY <1>2, <1>3
  <1>4. CASE \E c \in Call : Graph!SaveTunnels(c)
    <2>1. PICK c \in Call : Graph!SaveTunnels(c)
      BY <1>4
    <2>2. \A u \in Graph!EntityTunnels(call[c].halls, call[c].now) : u.id # t.id
      BY <1>1, DerivedApart
    <2> QED BY <1>3, <2>1, <2>2 DEF Graph!SaveTunnels
  <1>5. CASE \E c \in Call : Graph!UpsertExplicitTunnel(c)
    <2>1. PICK c \in Call : Graph!UpsertExplicitTunnel(c)
      BY <1>5
    <2> DEFINE a == call[c].label
               u == [t EXCEPT !.label = a]
    <2>2. u \in tunnels' \/ t \in tunnels'
      BY <2>1, Zenon DEF Graph!UpsertExplicitTunnel
    <2>3. u.label = a
      BY <1>1, Relabelled, Zenon
    <2> QED BY <1>3, <2>2, <2>3, Zenon
  <1>6. CASE \E v \in tunnels : Graph!DeleteTunnel(v)
    BY <1>3, <1>6 DEF Graph!DeleteTunnel
  <1>7. CASE \E c \in Call : Graph!DeleteTunnelsByKind(c)
    BY <1>3, <1>7 DEF Graph!DeleteTunnelsByKind
  <1>8. CASE UNCHANGED tunnels
    BY <1>3, <1>8
  <1> QED BY <1>4, <1>5, <1>6, <1>7, <1>8
       DEF Graph!Next, Graph!Delete, Graph!File, Graph!Merge, Graph!Change, Graph!Recompute, Graph!Present,
           Graph!KeepDynamics, Graph!ReplaceWingHallways, Graph!ListStale, Graph!ListAll, Graph!CountPairs,
           Graph!PruneWing, Graph!Fail, Graph!CreateTunnel, Graph!CheckSource, Graph!CheckTarget,
           Graph!CheckEnd, Graph!DeleteHallway

LEMMA GraphStep ==
    ASSUME GraphInv, [MCNext]_<<part, vars, closets, journal, searching, graph, walk, vectors>>
    PROVE  /\ GraphInv'
           /\ [\A t \in tunnels : t.kind = "explicit" =>
                  \/ \E u \in tunnels' : u = [t EXCEPT !.label = u.label]
                  \/ Graph!DeleteTunnel(t)]_Graph!vars
  <1>1. Graph!Next \/ UNCHANGED graph
    BY DEF MCNext
  <1>2. UNCHANGED graph => UNCHANGED Graph!vars
    BY DEF graph, Graph!vars
  <1> QED BY <1>1, <1>2, GraphMoves, GraphRests, AuthoredKept

(* palace.RecomputeGraph: once a rebuild of all wings, with pruning, has   *)
(* run to its end with the drawers left alone, hallways and derived        *)
(* tunnels are exactly what the drawers say, whatever failed before it;    *)
(* and no rebuild, no other caller and no merge takes away or ages a       *)
(* tunnel a user has authored.                                             *)
THEOREM RebuiltGraphTells == MCSpec => GraphIsRebuilt
  <1>1. MCInit => GraphInv
    BY GraphStarts DEF MCInit
  <1>2. GraphInv => (part = "graph" => Graph!GraphTellsDrawers)
    BY GraphTells
  <1> QED BY <1>1, <1>2, GraphStep, PTL DEF MCSpec, GraphIsRebuilt, Graph!AuthoredTunnelsKept

-----------------------------------------------------------------------------
LEMMA Least == ASSUME NEW T \in SUBSET Nat, T # {} PROVE \E n \in T : \A m \in T : n <= m
<1> DEFINE R == OpToRel(<, Nat)
<1>1. IsWellFoundedOn(R, Nat)
  BY NatLessThanWellFounded
<1>2. \A x, y \in Nat : x < y => <<x, y>> \in R
  BY DEF OpToRel
<1> HIDE DEF R
<1>3. PICK n \in T : \A m \in T : ~(<<m, n>> \in R)
  BY <1>1, WFMin
<1>4. ASSUME NEW m \in T PROVE n <= m
  <2>1. ~(m < n)
    BY <1>2, <1>3
  <2> QED BY <2>1
<1> QED BY <1>4

LEMMA Stepwise == ASSUME NEW P \in SUBSET Nat, 0 \in P, \A n \in P : n + 1 \in P PROVE P = Nat
<1> SUFFICES ASSUME Nat \ P # {} PROVE FALSE
  OBVIOUS
<1>1. PICK n \in Nat \ P : \A m \in Nat \ P : n <= m
  BY Least
<1>2. n # 0 /\ n - 1 \in Nat /\ ~(n <= n - 1) /\ n - 1 + 1 = n
  OBVIOUS
<1>3. n - 1 \in P
  BY <1>1, <1>2
<1> QED BY <1>1, <1>2, <1>3

LEMMA Greatest ==
    ASSUME NEW S \in SUBSET Int, S # {}, NEW b \in Int, \A x \in S : x <= b
    PROVE  Max(S) \in S /\ \A x \in S : x <= Max(S)
<1> DEFINE T == {n \in Nat : b - n \in S}
<1>1. T # {} /\ T \in SUBSET Nat
  <2>1. PICK x \in S : TRUE
    OBVIOUS
  <2>2. b - x \in Nat /\ b - (b - x) = x
    OBVIOUS
  <2> QED BY <2>1, <2>2
<1>2. PICK n \in T : \A m \in T : n <= m
  <2> HIDE DEF T
  <2> QED BY <1>1, Least
<1>3. ASSUME NEW x \in S PROVE x <= b - n
  <2>1. b - x \in Nat /\ b - (b - x) = x
    BY <1>3
  <2>2. b - x \in T
    BY <2>1
  <2>3. n <= b - x
    BY <1>2, <2>2
  <2> QED BY <2>3
<1>4. \E x \in S : \A y \in S : x >= y
  BY <1>3
<1> QED BY <1>4 DEF Max

LEMMA Smallest ==
    ASSUME NEW S \in SUBSET Int, S # {}, NEW b \in Int, \A x \in S : b <= x
    PROVE  Min(S) \in S /\ \A x \in S : Min(S) <= x
<1> DEFINE T == {n \in Nat : b + n \in S}
<1>1. T # {} /\ T \in SUBSET Nat
  <2>1. PICK x \in S : TRUE
    OBVIOUS
  <2>2. x - b \in Nat /\ b + (x - b) = x
    OBVIOUS
  <2> QED BY <2>1, <2>2
<1>2. PICK n \in T : \A m \in T : n <= m
  <2> HIDE DEF T
  <2> QED BY <1>1, Least
<1>3. ASSUME NEW x \in S PROVE b + n <= x
  <2>1. x - b \in Nat /\ b + (x - b) = x
    BY <1>3
  <2>2. x - b \in T
    BY <2>1
  <2>3. n <= x - b
    BY <1>2, <2>2
  <2> QED BY <2>3
<1>4. \E x \in S : \A y \in S : x <= y
  BY <1>3
<1> QED BY <1>4 DEF Min

LEMMA LesserIs == \A a, b \in Int : Min({a, b}) = IF a <= b THEN a ELSE b
<1> TAKE a, b \in Int
<1>1. \E x \in {a, b} : \A y \in {a, b} : x <= y
  OBVIOUS
<1> QED BY <1>1 DEF Min

LEMMA GreaterIs == \A a, b \in Int : Max({a, b}) = IF a >= b THEN a ELSE b
<1> TAKE a, b \in Int
<1>1. \E x \in {a, b} : \A y \in {a, b} : x >= y
  OBVIOUS
<1> QED BY <1>1 DEF Max

LEMMA PositionsAre ==
    ASSUME NEW a \in Nat, NEW b \in Nat, a <= b
    PROVE  /\ Positions(a, b) \in Seq(a+1..b) /\ Len(Positions(a, b)) = b - a
           /\ \A i \in 1..b - a : Positions(a, b)[i] = a + i
           /\ \A p \in a+1..b : p - a \in 1..b - a /\ Positions(a, b)[p - a] = p
<1>1. Positions(a, b) = [i \in 1..b - a |-> a + i] /\ b - a \in Nat
  BY DEF Positions
<1>2. \A i \in 1..b - a : a + i \in a+1..b
  OBVIOUS
<1>3. Positions(a, b) \in [1..b - a -> a+1..b]
  BY <1>1, <1>2
<1>4. Positions(a, b) \in Seq(a+1..b) /\ Len(Positions(a, b)) = b - a
  BY <1>1, <1>3
<1>5. \A i \in 1..b - a : Positions(a, b)[i] = a + i
  BY <1>1
<1>6. \A p \in a+1..b : p - a \in 1..b - a /\ a + (p - a) = p
  OBVIOUS
<1> QED BY <1>4, <1>5, <1>6

LEMMA Joined ==
    ASSUME NEW S, NEW u \in Seq(S), NEW q \in Seq(S)
    PROVE  /\ u \o q \in Seq(S) /\ Len(u \o q) = Len(u) + Len(q) /\ Len(u) \in Nat /\ Len(q) \in Nat
           /\ \A i \in 1..Len(u) : i \in 1..Len(u \o q) /\ (u \o q)[i] = u[i]
           /\ \A i \in 1..Len(q) : Len(u) + i \in 1..Len(u \o q) /\ (u \o q)[Len(u) + i] = q[i]
<1> DEFINE s == u \o q
<1>1. /\ s \in Seq(S) /\ Len(s) = Len(u) + Len(q)
      /\ \A i \in 1..Len(u) + Len(q) : s[i] = IF i <= Len(u) THEN u[i] ELSE q[i - Len(u)]
  BY ConcatProperties
<1>2. Len(u) \in Nat /\ Len(q) \in Nat
  OBVIOUS
<1> HIDE DEF s
<1>3. ASSUME NEW i \in 1..Len(u) PROVE i \in 1..Len(s) /\ s[i] = u[i]
  <2>1. i \in 1..Len(u) + Len(q) /\ i <= Len(u)
    BY <1>2
  <2> QED BY <1>1, <2>1
<1>4. ASSUME NEW i \in 1..Len(q) PROVE Len(u) + i \in 1..Len(s) /\ s[Len(u) + i] = q[i]
  <2>1. Len(u) + i \in 1..Len(u) + Len(q) /\ ~(Len(u) + i <= Len(u)) /\ Len(u) + i - Len(u) = i
    BY <1>2
  <2> QED BY <1>1, <2>1
<1> QED BY <1>1, <1>2, <1>3, <1>4 DEF s

AllOf(r, s) == \A i \in 1..Len(r) : \E j \in 1..Len(s) : s[j] = r[i]

LEMMA Strung ==
    ASSUME NEW S, NEW r \in Seq(S), NEW z \in Seq(S), NEW q \in Seq(S)
    PROVE  (r \o z) \o q \in Seq(S) /\ AllOf(r, (r \o z) \o q) /\ AllOf(q, (r \o z) \o q)
<1>1. PICK u : u = r \o z
  OBVIOUS
<1>2. u \in Seq(S) /\ \A i \in 1..Len(r) : i \in 1..Len(u) /\ u[i] = r[i]
  BY <1>1, Joined
<1>3. PICK s : s = u \o q
  OBVIOUS
<1>4. /\ s \in Seq(S) /\ \A i \in 1..Len(u) : i \in 1..Len(s) /\ s[i] = u[i]
      /\ \A i \in 1..Len(q) : Len(u) + i \in 1..Len(s) /\ s[Len(u) + i] = q[i]
  BY <1>2, <1>3, Joined
<1>5. AllOf(r, s) /\ AllOf(q, s)
  BY <1>2, <1>4 DEF AllOf
<1> QED BY <1>1, <1>3, <1>4, <1>5, Zenon

LEMMA Wider == ASSUME NEW V, NEW U, V \subseteq U, NEW r \in Seq(V) PROVE r \in Seq(U)
OBVIOUS

LEMMA Placed ==
    ASSUME NEW V, NEW s \in Seq(V), NEW k \in 1..Len(s), NEW e \in V
    PROVE  /\ [s EXCEPT ![k] = e] \in Seq(V) /\ Len([s EXCEPT ![k] = e]) = Len(s)
           /\ [s EXCEPT ![k] = e][k] = e
           /\ \A i \in 1..Len(s) : i # k => [s EXCEPT ![k] = e][i] = s[i]
BY ExceptSeq

(* A sequence is told by its length and its elements.                      *)
LEMMA SameSeq ==
    ASSUME NEW S, NEW s \in Seq(S), NEW T, NEW t \in Seq(T), Len(s) = Len(t),
           \A i \in 1..Len(s) : s[i] = t[i]
    PROVE  s = t
<1>1. s = [i \in 1..Len(s) |-> s[i]] /\ t = [i \in 1..Len(t) |-> t[i]]
  OBVIOUS
<1> QED BY <1>1, Zenon

LEMMA TrimIs ==
    ASSUME NEW t, NEW S, NEW s \in Seq(S)
    PROVE  /\ Trim(t, s) \in Seq(S)
           /\ \A i \in 1..Len(s) : Ink(t, s[i]) => \E j \in 1..Len(Trim(t, s)) : Trim(t, s)[j] = s[i]
<1> DEFINE ink == {i \in DOMAIN s : Ink(t, s[i])}
<1>1. ink \in SUBSET Int /\ \A i \in ink : 1 <= i /\ i <= Len(s)
  OBVIOUS
<1>2. Trim(t, s) = IF ink = {} THEN <<>> ELSE SubSeq(s, Min(ink), Max(ink))
  BY DEF Trim
<1>3. \A i \in 1..Len(s) : Ink(t, s[i]) => i \in ink
  OBVIOUS
<1> HIDE DEF ink
<1>4. CASE ink = {}
  BY <1>2, <1>3, <1>4
<1>5. CASE ink # {}
  <2>1. /\ Min(ink) \in ink /\ Max(ink) \in ink /\ \A i \in ink : Min(ink) <= i /\ i <= Max(ink)
    <3>1. Min(ink) \in ink /\ \A i \in ink : Min(ink) <= i
      BY <1>1, <1>5, Smallest
    <3>2. Max(ink) \in ink /\ \A i \in ink : i <= Max(ink)
      <4>1. Len(s) \in Int
        OBVIOUS
      <4> QED BY <1>1, <1>5, <4>1, Greatest
    <3> QED BY <3>1, <3>2
  <2> DEFINE l == Min(ink)
  <2> DEFINE h == Max(ink)
  <2> HIDE DEF l, h
  <2>2. l \in Int /\ h \in Int /\ 1 <= l /\ l <= h /\ h <= Len(s) /\ \A i \in ink : l <= i /\ i <= h
    BY <1>1, <2>1 DEF l, h
  <2>3. \A i \in l..h : s[i] \in S
    BY <2>2
  <2>4. /\ SubSeq(s, l, h) \in Seq(S) /\ Len(SubSeq(s, l, h)) = h - l + 1
        /\ \A i \in 1..h - l + 1 : SubSeq(s, l, h)[i] = s[l + i - 1]
    BY <2>2, <2>3, SubSeqProperties
  <2> DEFINE r == SubSeq(s, l, h)
  <2>5. Trim(t, s) = r
    BY <1>2, <1>5 DEF l, h
  <2> HIDE DEF r
  <2>6. ASSUME NEW i \in 1..Len(s), Ink(t, s[i]) PROVE \E j \in 1..Len(r) : r[j] = s[i]
    <3>1. i \in ink
      BY <1>3, <2>6
    <3>2. i - l + 1 \in 1..h - l + 1 /\ l + (i - l + 1) - 1 = i
      BY <2>2, <3>1
    <3> QED BY <2>4, <3>2 DEF r
  <2> QED BY <2>4, <2>5, <2>6 DEF r
<1> QED BY <1>4, <1>5

(* Trimming positions in a row leaves positions in a row.                  *)
LEMMA TrimmedPositions ==
    ASSUME NEW t, NEW a \in Nat, NEW b \in Nat, a <= b, Trim(t, Positions(a, b)) # <<>>
    PROVE  \E l \in a+1..b, h \in a+1..b :
             l <= h /\ Trim(t, Positions(a, b)) = Positions(l - 1, h)
<1> DEFINE s == Positions(a, b)
<1> DEFINE ink == {i \in DOMAIN s : Ink(t, s[i])}
<1>1. s \in Seq(a+1..b) /\ Len(s) = b - a /\ \A i \in 1..b - a : s[i] = a + i
  BY PositionsAre
<1>2. Trim(t, s) = SubSeq(s, Min(ink), Max(ink)) /\ ink # {}
  BY DEF Trim
<1> HIDE DEF s
<1>3. ink \in SUBSET Int /\ \A i \in ink : 1 <= i /\ i <= b - a
  BY <1>1
<1> HIDE DEF ink
<1>4. /\ Min(ink) \in ink /\ Max(ink) \in ink /\ \A i \in ink : Min(ink) <= i /\ i <= Max(ink)
  <2>1. Min(ink) \in ink /\ \A i \in ink : Min(ink) <= i
    BY <1>2, <1>3, Smallest
  <2>2. Max(ink) \in ink /\ \A i \in ink : i <= Max(ink)
    <3>1. b - a \in Int
      OBVIOUS
    <3> QED BY <1>2, <1>3, <3>1, Greatest
  <2> QED BY <2>1, <2>2
<1> DEFINE l == Min(ink)
<1> DEFINE h == Max(ink)
<1> HIDE DEF l, h
<1>5. l \in Int /\ h \in Int /\ 1 <= l /\ l <= h /\ h <= b - a
  BY <1>3, <1>4 DEF l, h
<1>6. \A i \in l..h : s[i] \in Int
  BY <1>1, <1>5
<1> DEFINE r == SubSeq(s, l, h)
<1>7. /\ r \in Seq(Int) /\ Len(r) = h - l + 1 /\ \A i \in 1..h - l + 1 : r[i] = s[l + i - 1]
  BY <1>5, <1>6, SubSeqProperties
<1> HIDE DEF r
<1> DEFINE q == Positions(a + l - 1, a + h)
<1>8. q \in Seq(a+l-1+1..a+h) /\ Len(q) = h - l + 1 /\ \A i \in 1..h - l + 1 : q[i] = a + l - 1 + i
  <2>1. a + l - 1 \in Nat /\ a + h \in Nat /\ a + l - 1 <= a + h /\ a + h - (a + l - 1) = h - l + 1
    BY <1>5
  <2>4. PICK x : x = a + l - 1
    OBVIOUS
  <2>5. PICK y : y = a + h
    OBVIOUS
  <2>2. x \in Nat /\ y \in Nat /\ x = a + l - 1 /\ y = a + h /\ x <= y /\ y - x = h - l + 1
    BY <1>5, <2>1, <2>4, <2>5
  <2>3. /\ Positions(x, y) \in Seq(x+1..y) /\ Len(Positions(x, y)) = y - x
        /\ \A i \in 1..y - x : Positions(x, y)[i] = x + i
    BY <2>2, PositionsAre
  <2> QED BY <2>2, <2>3
<1> HIDE DEF q
<1>9. \A i \in 1..h - l + 1 : r[i] = q[i]
  <2> TAKE i \in 1..h - l + 1
  <2>1. l + i - 1 \in 1..b - a /\ a + (l + i - 1) = a + l - 1 + i
    BY <1>5
  <2> QED BY <1>1, <1>7, <1>8, <2>1
<1>10. r = q
  BY <1>7, <1>8, <1>9, SameSeq
<1>11. Trim(t, s) = r
  BY <1>2 DEF r, l, h
<1>12. a + l \in a+1..b /\ a + h \in a+1..b /\ a + l <= a + h /\ (a + l) - 1 = a + l - 1
  BY <1>5
<1>13. Trim(t, s) = Positions((a + l) - 1, a + h)
  BY <1>10, <1>11, <1>12 DEF q
<1> QED BY <1>12, <1>13 DEF s

-----------------------------------------------------------------------------
Piece1 == [content : Seq(0..N), index : Nat, first : Nat, last : Nat]
CutTypes ==
    /\ text \in Seq(Char) /\ sizing \in Sizings /\ start \in Nat
    /\ ~done => start < N
    /\ chunks \in Seq(Piece1)
    /\ \A i \in 1..Len(chunks) : chunks[i].index = i - 1

InChunk(p) == \E i \in 1..Len(chunks) : \E j \in 1..Len(chunks[i].content) : chunks[i].content[j] = p

(* What the loops have passed.                                             *)
Passed(p) == done \/ p <= start
WindowsHold == \A p \in 1..N : Ink(text, p) /\ Passed(p) => InChunk(p)
Run(a, n) == a \in 1..N - n + 1 /\ \A p \in a..a + n - 1 : Ink(text, p)
RunLength == Max({1, sizing.min})
MinesHold ==
    sizing.min <= sizing.overlap + 1 =>
      \A a \in 1..N - RunLength + 1 : Run(a, RunLength) /\ Passed(a) =>
          \A p \in a..a + RunLength - 1 : InChunk(p)
Newlines(n) == Cardinality({q \in 1..n : text[q] = "\n"})
InLines(c) ==
    /\ c.content = Positions(Head(c.content) - 1, Last(c.content))
    /\ c.first <= 1 + Newlines(Head(c.content) - 1)
    /\ c.last >= 1 + Newlines(Last(c.content))
MinesInLines == \A i \in 1..Len(chunks) : InLines(chunks[i])
Cuttings == [i \in DOMAIN chunks |-> chunks[i].content]
DiaryWhole == FlattenSeq(Cuttings) = Positions(0, IF done THEN N ELSE start)
CutInv ==
    /\ CutTypes
    /\ cutter = "window" => WindowsHold
    /\ cutter = "mine" => MinesHold /\ MinesInLines
    /\ cutter = "diary" => DiaryWhole

LEMMA HeldIs == ASSUME CutTypes PROVE \A p : p \in Held <=> InChunk(p)
<1>1. DOMAIN chunks = 1..Len(chunks) /\ \A i \in 1..Len(chunks) : chunks[i].content \in Seq(0..N)
  <2>1. DOMAIN chunks = 1..Len(chunks) /\ \A i \in 1..Len(chunks) : chunks[i] \in Piece1
    BY DEF CutTypes
  <2> QED BY <2>1 DEF Piece1
<1>2. \A i \in 1..Len(chunks) : DOMAIN chunks[i].content = 1..Len(chunks[i].content)
  BY <1>1
<1>3. \A p : p \in Held <=> \E i \in DOMAIN chunks : \E j \in DOMAIN chunks[i].content : chunks[i].content[j] = p
  <2>1. \A p : p \in Held <=> \E i \in DOMAIN chunks : p \in ToSet(chunks[i].content)
    BY DEF Held
  <2>2. \A c, p : p \in ToSet(c) <=> \E j \in DOMAIN c : c[j] = p
    BY DEF ToSet
  <2> QED BY <2>1, <2>2
<1>4. ASSUME NEW p PROVE p \in Held <=> InChunk(p)
  BY <1>1, <1>2, <1>3 DEF InChunk
<1> QED BY <1>4

(* What the invariant says when the text is cut.                           *)
LEMMA RunsAre ==
    ASSUME NEW n \in Nat, NEW p, N \in Nat, p \in InRun(n)
    PROVE  \E a \in 1..N - n + 1 : Run(a, n) /\ p \in a..a + n - 1
BY DEF InRun, Run

LEMMA CutHolds == ASSUME CutInv PROVE NothingLost
<1> SUFFICES ASSUME done PROVE
      /\ cutter = "window" => InRun(1) \subseteq Held
      /\ cutter = "mine" /\ sizing.min <= sizing.overlap + 1 => InRun(Max({1, sizing.min})) \subseteq Held
      /\ cutter = "diary" =>
            FlattenSeq([i \in DOMAIN chunks |-> chunks[i].content]) = Positions(0, N)
      /\ cutter = "mine" => \A i \in DOMAIN chunks :
            LET c == chunks[i] IN
            /\ c.content = Positions(Head(c.content) - 1, Last(c.content))
            /\ c.first <= 1 + Cardinality({q \in 1..(Head(c.content) - 1) : text[q] = "\n"})
            /\ c.last >= 1 + Cardinality({q \in 1..Last(c.content) : text[q] = "\n"})
  BY Zenon DEF NothingLost
<1>1. CutTypes /\ N \in Nat /\ DOMAIN chunks = 1..Len(chunks)
  BY DEF CutInv, CutTypes, N
<1>2. \A p : InChunk(p) => p \in Held
  BY <1>1, HeldIs
<1>3. ASSUME cutter = "window", NEW p \in InRun(1) PROVE p \in Held
  <2>1. PICK a \in 1..N - 1 + 1 : Run(a, 1) /\ p \in a..a + 1 - 1
    <3>1. 1 \in Nat
      OBVIOUS
    <3> QED BY <1>1, <1>3, <3>1, RunsAre
  <2>2. a = p /\ p \in 1..N
    BY <1>1, <2>1
  <2>3. Ink(text, p)
    BY <2>1, <2>2 DEF Run
  <2>4. InChunk(p)
    BY <1>3, <2>2, <2>3 DEF CutInv, WindowsHold, Passed
  <2> QED BY <1>2, <2>4
<1>4. ASSUME cutter = "mine", sizing.min <= sizing.overlap + 1, NEW p \in InRun(RunLength) PROVE p \in Held
  <2>1. RunLength \in Nat
    <3>1. sizing.min \in Nat
      BY <1>1, SizingsAssumption DEF CutTypes
    <3> QED BY <3>1, GreaterIs DEF RunLength
  <2>2. PICK a \in 1..N - RunLength + 1 : Run(a, RunLength) /\ p \in a..a + RunLength - 1
    BY <1>1, <1>4, <2>1, RunsAre
  <2>3. InChunk(p)
    BY <1>4, <2>2 DEF CutInv, MinesHold, Passed
  <2> QED BY <1>2, <2>3
<1>5. cutter = "diary" => FlattenSeq([i \in DOMAIN chunks |-> chunks[i].content]) = Positions(0, N)
  BY DEF CutInv, DiaryWhole, Cuttings
<1>6. ASSUME cutter = "mine", NEW i \in DOMAIN chunks PROVE InLines(chunks[i])
  BY <1>1, <1>6 DEF CutInv, MinesInLines
<1>7. cutter = "mine" /\ sizing.min <= sizing.overlap + 1 => InRun(Max({1, sizing.min})) \subseteq Held
  BY <1>4 DEF RunLength
<1> QED BY <1>3, <1>5, <1>6, <1>7, Zenon DEF InLines, Newlines

-----------------------------------------------------------------------------
(* FlattenSeq, a recursive function: it is there, and it grows with its    *)
(* sequence.                                                               *)
Flats(s, k, m) == k = [i \in 1..m |-> IF i = 1 THEN s[i] ELSE k[i-1] \o s[i]]

LEMMA FlatsExist == ASSUME NEW s PROVE \A m \in Nat : \E k : Flats(s, k, m)
<1> DEFINE P == {m \in Nat : \E k : Flats(s, k, m)}
<1>1. 0 \in P
  <2> DEFINE k == [i \in 1..0 |-> <<>>]
  <2>1. k = [i \in 1..0 |-> IF i = 1 THEN s[i] ELSE k[i-1] \o s[i]]
    OBVIOUS
  <2> QED BY <2>1 DEF Flats
<1>2. ASSUME NEW m \in P PROVE m + 1 \in P
  <2>1. PICK k : Flats(s, k, m)
    OBVIOUS
  <2> DEFINE e == IF m = 0 THEN s[m+1] ELSE k[m] \o s[m+1]
  <2> DEFINE j == [i \in 1..m+1 |-> IF i = m + 1 THEN e ELSE k[i]]
  <2>7. \A i \in 1..m : i \in 1..m+1 /\ i # m + 1
    OBVIOUS
  <2>8. m + 1 \in 1..m+1
    OBVIOUS
  <2>9. j = [i \in 1..m+1 |-> j[i]]
    BY Zenon
  <2>10. \A i \in 1..m : j[i] = k[i]
    BY <2>7, Zenon
  <2>11. j[m+1] = e
    BY <2>8, Zenon
  <2>2. (\A i \in 1..m : j[i] = k[i]) /\ j[m+1] = e /\ j = [i \in 1..m+1 |-> j[i]]
    BY <2>9, <2>10, <2>11
  <2>3. e = IF m + 1 = 1 THEN s[m+1] ELSE k[m] \o s[m+1]
    OBVIOUS
  <2> HIDE DEF e, j
  <2>4. \A i \in 1..m : k[i] = IF i = 1 THEN s[i] ELSE k[i-1] \o s[i]
    BY <2>1 DEF Flats
  <2>5. \A i \in 1..m+1 : j[i] = IF i = 1 THEN s[i] ELSE j[i-1] \o s[i]
    <3> TAKE i \in 1..m+1
    <3>1. CASE i = m + 1
      <4>1. m # 0 => m \in 1..m /\ i - 1 = m
        BY <3>1
      <4> QED BY <2>2, <2>3, <3>1, <4>1
    <3>2. CASE i \in 1..m
      <4>1. i # 1 => i - 1 \in 1..m
        BY <3>2
      <4> QED BY <2>2, <2>4, <3>2, <4>1
    <3> QED BY <3>1, <3>2
  <2>6. Flats(s, j, m + 1)
    BY <2>2, <2>5 DEF Flats
  <2> QED BY <2>6
<1> QED
  <2> HIDE DEF P
  <2>1. P = Nat
    BY <1>1, <1>2, Stepwise DEF P
  <2> QED BY <2>1 DEF P

Alike(s, t, m) == \A i \in 1..m : s[i] = t[i]

LEMMA FlatsAgree ==
    ASSUME NEW s, NEW t, NEW j, NEW k, NEW m \in Nat, NEW n \in Nat, m <= n,
           Alike(s, t, m), Flats(s, j, m), Flats(t, k, n)
    PROVE  Alike(j, k, m)
<1> DEFINE P == {i \in Nat : i \in 1..m => j[i] = k[i]}
<1>1. /\ \A i \in 1..m : j[i] = IF i = 1 THEN s[i] ELSE j[i-1] \o s[i]
      /\ \A i \in 1..m : k[i] = IF i = 1 THEN t[i] ELSE k[i-1] \o t[i]
  <2>1. \A i \in 1..m : j[i] = IF i = 1 THEN s[i] ELSE j[i-1] \o s[i]
    BY DEF Flats
  <2>2. \A i \in 1..n : k[i] = IF i = 1 THEN t[i] ELSE k[i-1] \o t[i]
    BY DEF Flats
  <2>3. \A i \in 1..m : i \in 1..n
    OBVIOUS
  <2> QED BY <2>1, <2>2, <2>3
<1>2. 0 \in P
  OBVIOUS
<1>3. ASSUME NEW i \in P PROVE i + 1 \in P
  <2> SUFFICES ASSUME i + 1 \in 1..m PROVE j[i+1] = k[i+1]
    OBVIOUS
  <2>1. i + 1 # 1 => i \in 1..m /\ i + 1 - 1 = i
    OBVIOUS
  <2> QED BY <1>1, <2>1 DEF Alike
<1> QED
  <2> HIDE DEF P
  <2>1. P = Nat
    BY <1>2, <1>3, Stepwise DEF P
  <2> QED BY <2>1 DEF P, Alike

LEMMA FlattenIs ==
    ASSUME NEW S, NEW s \in Seq(S), s # <<>>
    PROVE  \E k : Flats(s, k, Len(s)) /\ FlattenSeq(s) = k[Len(s)]
<1> DEFINE k == CHOOSE k : Flats(s, k, Len(s))
<1>1. Len(s) \in Nat /\ Len(s) # 0
  OBVIOUS
<1>2. Flats(s, k, Len(s))
  BY <1>1, FlatsExist
<1>3. FlattenSeq(s) = k[Len(s)]
  BY <1>1, Zenon DEF FlattenSeq, Flats
<1> QED BY <1>2, <1>3

LEMMA AppendIs ==
    ASSUME NEW V, NEW s \in Seq(V), NEW e \in V
    PROVE  /\ Append(s, e) \in Seq(V) /\ Len(Append(s, e)) = Len(s) + 1 /\ Append(s, e)[Len(s) + 1] = e
           /\ Len(s) \in Nat /\ Append(s, e) # <<>> /\ \A i \in 1..Len(s) : Append(s, e)[i] = s[i]
BY AppendProperties

LEMMA FlattenAppend ==
    ASSUME NEW S, NEW s \in Seq(Seq(S)), NEW e \in Seq(S)
    PROVE  FlattenSeq(Append(s, e)) = FlattenSeq(s) \o e
<1> DEFINE t == Append(s, e)
<1>1. /\ t \in Seq(Seq(S)) /\ Len(t) = Len(s) + 1 /\ t[Len(s) + 1] = e /\ Len(s) \in Nat /\ t # <<>>
      /\ \A i \in 1..Len(s) : s[i] = t[i]
  BY AppendIs
<1> HIDE DEF t
<1>2. PICK k : Flats(t, k, Len(t)) /\ FlattenSeq(t) = k[Len(t)]
  BY <1>1, FlattenIs
<1>3. k[Len(t)] = IF Len(t) = 1 THEN t[Len(t)] ELSE k[Len(t)-1] \o t[Len(t)]
  <2>1. Len(t) \in 1..Len(t)
    BY <1>1
  <2>2. \A i \in 1..Len(t) : k[i] = IF i = 1 THEN t[i] ELSE k[i-1] \o t[i]
    BY <1>2 DEF Flats
  <2> QED BY <2>1, <2>2
<1>4. CASE s = <<>>
  <2>1. FlattenSeq(s) = <<>>
    BY <1>4 DEF FlattenSeq
  <2>2. Len(t) = 1
    BY <1>1, <1>4
  <2>3. <<>> \o e = e
    OBVIOUS
  <2> QED BY <1>1, <1>2, <1>3, <2>1, <2>2, <2>3 DEF t
<1>5. CASE s # <<>>
  <2>1. PICK j : Flats(s, j, Len(s)) /\ FlattenSeq(s) = j[Len(s)]
    BY <1>5, FlattenIs
  <2>2. Len(s) \in 1..Len(s) /\ Len(t) - 1 = Len(s) /\ Len(t) # 1 /\ Len(s) <= Len(t) /\ Len(t) \in Nat
    BY <1>1, <1>5
  <2>3. j[Len(s)] = k[Len(s)]
    <3>1. Alike(s, t, Len(s))
      BY <1>1 DEF Alike
    <3>2. Alike(j, k, Len(s))
      BY <1>1, <1>2, <2>1, <2>2, <3>1, FlatsAgree
    <3> QED BY <2>2, <3>2 DEF Alike
  <2> QED BY <1>1, <1>2, <1>3, <2>1, <2>2, <2>3 DEF t
<1> QED BY <1>4, <1>5

-----------------------------------------------------------------------------
LEMMA NewlinesAre ==
    ASSUME NEW a \in Nat, NEW b \in Nat, a <= b
    PROVE  Newlines(a) \in Nat /\ Newlines(b) \in Nat /\ Newlines(a) <= Newlines(b)
<1> DEFINE A == {q \in 1..a : text[q] = "\n"}
<1> DEFINE B == {q \in 1..b : text[q] = "\n"}
<1>1. A \subseteq B /\ B \subseteq 1..b
  OBVIOUS
<1>2. IsFiniteSet(1..b)
  BY FS_Interval
<1>3. Newlines(a) = Cardinality(A) /\ Newlines(b) = Cardinality(B)
  BY DEF Newlines
<1> HIDE DEF A, B
<1>4. IsFiniteSet(B)
  BY <1>1, <1>2, FS_Subset
<1>5. IsFiniteSet(A) /\ Cardinality(A) <= Cardinality(B)
  BY <1>1, <1>4, FS_Subset
<1> QED BY <1>3, <1>4, <1>5, FS_CardinalityType

LEMMA NewlinesCounted == \A n \in Nat : Newlines(n) \in Nat
<1> TAKE n \in Nat
<1>1. n <= n
  OBVIOUS
<1> QED BY <1>1, NewlinesAre

LEMMA ChunkIs ==
    ASSUME CutTypes, NEW content \in Seq(0..N), NEW end \in Nat
    PROVE  /\ Chunk(content, end) \in Piece1 /\ Chunk(content, end).content = content
           /\ Chunk(content, end).index = Len(chunks)
           /\ Chunk(content, end).first = 1 + Newlines(start)
           /\ Chunk(content, end).last = 1 + Newlines(end)
<1>1. Chunk(content, end) = [content |-> content, index |-> Len(chunks), first |-> 1 + Newlines(start),
                             last |-> 1 + Newlines(end)]
  BY DEF Chunk, Newlines
<1>2. Newlines(start) \in Nat /\ Newlines(end) \in Nat /\ Len(chunks) \in Nat
  <2>1. start \in Nat /\ chunks \in Seq(Piece1)
    BY DEF CutTypes
  <2>2. Len(chunks) \in Nat
    BY <2>1
  <2> QED BY <2>1, <2>2, NewlinesCounted
<1>3. 1 + Newlines(start) \in Nat /\ 1 + Newlines(end) \in Nat
  BY <1>2
<1> QED BY <1>1, <1>2, <1>3 DEF Piece1

(* A chunk is added to a text that stays.                                  *)
Added(c) == chunks' = Append(chunks, c)
SameText == text' = text /\ cutter' = cutter /\ sizing' = sizing
ChunksKept ==
    /\ chunks' \in Seq(Piece1) /\ \A i \in 1..Len(chunks') : chunks'[i].index = i - 1
    /\ \A p : InChunk(p) => InChunk(p)'
Joins(c) ==
    /\ Len(chunks') = Len(chunks) + 1 /\ chunks'[Len(chunks) + 1] = c /\ Len(chunks) \in Nat
    /\ \A i \in 1..Len(chunks) : chunks'[i] = chunks[i]
    /\ \A j \in 1..Len(c.content) : InChunk(c.content[j])'
GoesOn == start' \in Nat /\ (~done' => start' < N)

LEMMA Appended ==
    ASSUME CutTypes, NEW c \in Piece1, c.index = Len(chunks), Added(c), SameText
    PROVE  ChunksKept /\ Cuttings' = Append(Cuttings, c.content) /\ Cuttings \in Seq(Seq(0..N)) /\ Joins(c)
<1>1. chunks \in Seq(Piece1) /\ Piece1' = Piece1 /\ chunks' = Append(chunks, c)
  BY DEF CutTypes, Piece1, N, SameText, Added
<1>2. /\ chunks' \in Seq(Piece1) /\ Len(chunks') = Len(chunks) + 1 /\ chunks'[Len(chunks) + 1] = c
      /\ \A i \in 1..Len(chunks) : chunks'[i] = chunks[i]
      /\ Len(chunks) \in Nat
  BY <1>1
<1>3. \A i \in 1..Len(chunks') : i \in 1..Len(chunks) \/ i = Len(chunks) + 1
  BY <1>2
<1>4. \A i \in 1..Len(chunks') : chunks'[i].index = i - 1
  BY <1>2, <1>3 DEF CutTypes
<1>5. \A p : InChunk(p) => InChunk(p)'
  <2>1. \A i \in 1..Len(chunks) : i \in 1..Len(chunks')
    BY <1>2
  <2> QED BY <1>2, <2>1 DEF InChunk
<1>6. \A j \in 1..Len(c.content) : InChunk(c.content[j])'
  <2>1. Len(chunks) + 1 \in 1..Len(chunks')
    BY <1>2
  <2> QED BY <1>2, <2>1 DEF InChunk
<1>7. Cuttings' = Append(Cuttings, c.content) /\ Cuttings \in Seq(Seq(0..N))
  <2>1. \A d \in Piece1 : d.content \in Seq(0..N)
    BY DEF Piece1
  <2>2. /\ Cuttings = [i \in 1..Len(chunks) |-> chunks[i].content]
        /\ Cuttings' = [i \in 1..Len(chunks) + 1 |-> chunks'[i].content]
    BY <1>1, <1>2 DEF Cuttings
  <2>3. \A i \in 1..Len(chunks) : chunks[i].content \in Seq(0..N)
    BY <1>1, <2>1
  <2>4. Cuttings \in Seq(Seq(0..N)) /\ Len(Cuttings) = Len(chunks)
    BY <1>2, <2>2, <2>3
  <2>5. /\ Append(Cuttings, c.content) = [i \in 1..Len(chunks) + 1 |->
              IF i = Len(chunks) + 1 THEN c.content ELSE Cuttings[i]]
    <3>1. c.content \in Seq(0..N)
      BY <2>1
    <3> DEFINE s == Append(Cuttings, c.content)
    <3>2. /\ s \in Seq(Seq(0..N)) /\ Len(s) = Len(chunks) + 1 /\ s[Len(chunks) + 1] = c.content
          /\ \A i \in 1..Len(chunks) : s[i] = Cuttings[i]
      BY <2>4, <3>1, AppendProperties
    <3> HIDE DEF s
    <3>3. \A i \in 1..Len(chunks) + 1 : s[i] = IF i = Len(chunks) + 1 THEN c.content ELSE Cuttings[i]
      <4> TAKE i \in 1..Len(chunks) + 1
      <4>1. i = Len(chunks) + 1 \/ (i \in 1..Len(chunks) /\ i # Len(chunks) + 1)
        BY <1>2
      <4> QED BY <3>2, <4>1
    <3>4. s = [i \in 1..Len(chunks) + 1 |-> s[i]]
      BY <3>2
    <3> QED BY <3>3, <3>4 DEF s
  <2>6. \A i \in 1..Len(chunks) + 1 : chunks'[i].content = IF i = Len(chunks) + 1 THEN c.content ELSE Cuttings[i]
    <3> TAKE i \in 1..Len(chunks) + 1
    <3>1. i = Len(chunks) + 1 \/ (i \in 1..Len(chunks) /\ i # Len(chunks) + 1)
      BY <1>2
    <3> QED BY <1>2, <2>2, <3>1
  <2> QED BY <2>2, <2>4, <2>5, <2>6
<1>8. ChunksKept
  BY <1>1, <1>2, <1>4, <1>5 DEF ChunksKept
<1>9. Joins(c)
  BY <1>2, <1>6 DEF Joins
<1> QED BY <1>7, <1>8, <1>9

LEMMA Sized ==
    ASSUME CutTypes, ~done
    PROVE  /\ N \in Nat /\ start \in Nat /\ start < N
           /\ sizing.size \in Nat /\ sizing.size > 0 /\ sizing.overlap \in Nat /\ sizing.min \in Nat /\ sizing.min > 0
           /\ 2 * sizing.overlap <= sizing.size
           /\ Window \in Nat /\ start < Window /\ Window <= N
           /\ Window # N => Window = start + sizing.size
           /\ Window <= start + sizing.size
<1>1. N \in Nat /\ start \in Nat /\ start < N
  BY DEF CutTypes, N
<1>2. /\ sizing.size \in Nat /\ sizing.size > 0 /\ sizing.overlap \in Nat /\ sizing.min \in Nat /\ sizing.min > 0
      /\ 2 * sizing.overlap <= sizing.size
  BY SizingsAssumption DEF CutTypes
<1>3. Window = IF start + sizing.size <= N THEN start + sizing.size ELSE N
  <2>1. start + sizing.size \in Int
    BY <1>1, <1>2
  <2> QED BY <1>1, <2>1, LesserIs DEF Window
<1> QED BY <1>1, <1>2, <1>3

LEMMA Pieced ==
    ASSUME CutTypes, NEW end \in Nat, start < end, end <= N
    PROVE  /\ Piece(end) \in Seq(0..N)
           /\ \A p \in start + 1..end : Ink(text, p) => \E j \in 1..Len(Piece(end)) : Piece(end)[j] = p
<1>1. start \in Nat /\ N \in Nat
  BY DEF CutTypes, N
<1> DEFINE s == Positions(start, end)
<1>2. /\ s \in Seq(start + 1..end) /\ Len(s) = end - start
      /\ \A p \in start + 1..end : p - start \in 1..end - start /\ s[p - start] = p
  BY <1>1, PositionsAre
<1>3. Piece(end) = Trim(text, s)
  BY DEF Piece
<1> HIDE DEF s
<1>4. /\ Trim(text, s) \in Seq(start + 1..end)
      /\ \A i \in 1..Len(s) : Ink(text, s[i]) => \E j \in 1..Len(Trim(text, s)) : Trim(text, s)[j] = s[i]
  BY <1>2, TrimIs
<1>5. start + 1..end \subseteq 0..N
  BY <1>1
<1>6. Trim(text, s) \in Seq(0..N)
  <2> DEFINE V == start + 1..end
  <2> DEFINE U == 0..N
  <2>1. V \subseteq U /\ Trim(text, s) \in Seq(V)
    BY <1>4, <1>5
  <2> HIDE DEF V, U
  <2>2. Trim(text, s) \in Seq(U)
    BY <2>1, Wider
  <2> QED BY <2>2 DEF U
<1>7. ASSUME NEW p \in start + 1..end, Ink(text, p) PROVE \E j \in 1..Len(Trim(text, s)) : Trim(text, s)[j] = p
  <2>1. p - start \in 1..Len(s) /\ s[p - start] = p
    BY <1>2
  <2> QED BY <1>4, <1>7, <2>1
<1> QED BY <1>3, <1>6, <1>7

(* A chunk is appended, and the loop goes on.                              *)
LEMMA CutsOn ==
    ASSUME CutTypes, NEW content \in Seq(0..N), NEW end \in Nat, Added(Chunk(content, end)), GoesOn, SameText
    PROVE  /\ CutTypes' /\ \A p : InChunk(p) => InChunk(p)'
           /\ \A j \in 1..Len(content) : InChunk(content[j])'
           /\ Cuttings' = Append(Cuttings, content) /\ Cuttings \in Seq(Seq(0..N)) /\ Joins(Chunk(content, end))
<1>1. PICK c : c = Chunk(content, end)
  OBVIOUS
<1>2. c \in Piece1 /\ c.index = Len(chunks) /\ c.content = content
  BY <1>1, ChunkIs
<1>3. Added(c)
  BY <1>1
<1>4. ChunksKept /\ Cuttings' = Append(Cuttings, c.content) /\ Cuttings \in Seq(Seq(0..N)) /\ Joins(c)
  BY <1>2, <1>3, Appended
<1>5. N' = N /\ Piece1' = Piece1
  BY DEF N, Piece1, SameText
<1>6. CutTypes'
  BY <1>4, <1>5 DEF CutTypes, GoesOn, SameText, ChunksKept
<1>7. \A j \in 1..Len(c.content) : InChunk(c.content[j])'
  BY <1>4 DEF Joins
<1>8. \A j \in 1..Len(content) : InChunk(content[j])'
  BY <1>2, <1>7, Zenon
<1> QED BY <1>1, <1>2, <1>4, <1>6, <1>8, Zenon DEF ChunksKept

(* A window without a chunk.                                               *)
LEMMA CutsNone ==
    ASSUME CutTypes, chunks' = chunks, GoesOn, SameText
    PROVE  CutTypes' /\ \A p : InChunk(p) <=> InChunk(p)'
<1>1. N' = N /\ Piece1' = Piece1
  BY DEF N, Piece1, SameText
<1> QED BY <1>1 DEF CutTypes, InChunk, GoesOn, SameText

(* A remnant is put to the chunk before it.                                *)
PutLast(k, x, y) == chunks' = [chunks EXCEPT ![k].content = x, ![k].last = y]

LEMMA Folded ==
    ASSUME CutTypes, NEW k \in 1..Len(chunks), NEW x \in Seq(0..N), NEW y \in Nat,
           PutLast(k, x, y),
           GoesOn, SameText
    PROVE  /\ CutTypes'
           /\ \A p : InChunk(p) => InChunk(p)' \/ \E j \in 1..Len(chunks[k].content) : chunks[k].content[j] = p
           /\ \A j \in 1..Len(x) : InChunk(x[j])'
<1>1. N' = N /\ Piece1' = Piece1 /\ chunks \in Seq(Piece1)
  BY DEF N, Piece1, CutTypes, SameText
<1>2. DOMAIN chunks = 1..Len(chunks) /\ Len(chunks) \in Nat
  BY <1>1
<1> DEFINE r == [chunks[k] EXCEPT !.content = x, !.last = y]
<1>3. r \in Piece1 /\ r.content = x /\ r.index = chunks[k].index
  <2>1. chunks[k] \in Piece1
    BY <1>1
  <2> QED BY <2>1 DEF Piece1
<1>4. chunks' = [chunks EXCEPT ![k] = r]
  BY <1>2, Zenon DEF PutLast
<1> HIDE DEF r
<1>5. /\ chunks' \in Seq(Piece1) /\ Len(chunks') = Len(chunks) /\ chunks'[k] = r
      /\ \A i \in 1..Len(chunks) : i # k => chunks'[i] = chunks[i]
  BY <1>1, <1>3, <1>4, Placed
<1>6. \A i \in 1..Len(chunks) : chunks'[i].index = i - 1
  BY <1>3, <1>5 DEF CutTypes
<1>7. CutTypes'
  BY <1>1, <1>5, <1>6 DEF CutTypes, GoesOn, SameText
<1>8. ASSUME NEW p, InChunk(p)
      PROVE  InChunk(p)' \/ \E j \in 1..Len(chunks[k].content) : chunks[k].content[j] = p
  BY <1>5, <1>8 DEF InChunk
<1>9. \A j \in 1..Len(x) : InChunk(x[j])'
  BY <1>3, <1>5 DEF InChunk
<1> QED BY <1>7, <1>8, <1>9

LEMMA LinesIn == ASSUME CutTypes PROVE Chunk(<<>>, N).last \in Nat
<1>1. N \in Nat
  BY DEF CutTypes, N
<1>2. Newlines(N) \in Nat
  BY <1>1, NewlinesCounted
<1> QED BY <1>2 DEF Chunk, Newlines

LEMMA WindowSteps == ASSUME CutInv, AddWindow PROVE CutInv'
<1>1. CutTypes /\ cutter = "window" /\ ~done /\ WindowsHold
  BY DEF CutInv, AddWindow
<1>2. /\ start' = start + sizing.size - sizing.overlap /\ (done' <=> Window = N)
      /\ SameText
  BY DEF AddWindow, SameText
<1>3. /\ N \in Nat /\ start \in Nat /\ start < N
      /\ sizing.size \in Nat /\ sizing.size > 0 /\ sizing.overlap \in Nat /\ 2 * sizing.overlap <= sizing.size
      /\ Window \in Nat /\ start < Window /\ Window <= N
      /\ (Window # N => Window = start + sizing.size)
  BY <1>1, Sized
<1>4. GoesOn /\ (~done' => start' <= Window)
  BY <1>2, <1>3 DEF GoesOn
<1>5. N' = N /\ \A p : Ink(text, p)' <=> Ink(text, p)
  BY <1>2 DEF N, Ink, SameText
<1>6. ASSUME CutTypes', \A p \in 1..N : Ink(text, p) /\ p <= Window => InChunk(p)' PROVE CutInv'
  <2>1. WindowsHold'
    <3> SUFFICES ASSUME NEW p \in 1..N, Ink(text, p), done' \/ p <= start' PROVE InChunk(p)'
      BY <1>5 DEF WindowsHold, Passed
    <3>1. p <= Window
      BY <1>2, <1>3, <1>4
    <3> QED BY <1>6, <3>1
  <2>2. cutter' = "window"
    BY <1>1, <1>2 DEF SameText
  <2> QED BY <1>6, <2>1, <2>2 DEF CutInv
<1>7. ASSUME NEW p \in 1..N, Ink(text, p), p <= start PROVE InChunk(p)
  BY <1>1, <1>7 DEF WindowsHold, Passed
<1>8. CASE N <= sizing.size
  <2>0. PICK s : s = Positions(0, N)
    OBVIOUS
  <2>1. /\ s \in Seq(1..N) /\ Len(s) = N /\ \A p \in 1..N : s[p] = p
    <3>1. 0 \in Nat /\ 0 <= N /\ 0 + 1 = 1 /\ N - 0 = N /\ \A i \in 1..N : 0 + i = i
      BY <1>3
    <3>2. /\ s \in Seq(0 + 1..N) /\ Len(s) = N - 0 /\ \A i \in 1..N - 0 : s[i] = 0 + i
      BY <1>3, <2>0, <3>1, PositionsAre
    <3> QED BY <3>1, <3>2
  <2>2. chunks' = IF s # <<>> THEN Append(chunks, Chunk(s, N)) ELSE chunks
    BY <1>8, <2>0 DEF AddWindow, Append1
  <2>3. s \in Seq(0..N) /\ s # <<>>
    <3>1. 1..N \subseteq 0..N
      BY <1>3
    <3> QED BY <1>3, <2>1, <3>1
  <2>4. Added(Chunk(s, N))
    BY <2>2, <2>3 DEF Added
  <2>5. CutTypes' /\ \A j \in 1..Len(s) : InChunk(s[j])'
    BY <1>1, <1>2, <1>3, <1>4, <2>3, <2>4, CutsOn
  <2> QED BY <1>6, <2>1, <2>5
<1>9. CASE ~(N <= sizing.size) /\ Folds
  <2>0. PICK k, q, o, x, y : /\ k = Len(chunks) /\ q = Piece(N) /\ o = chunks[k].content
                             /\ x = Trim(text, o \o <<0>> \o q) /\ y = Chunk(<<>>, N).last
    OBVIOUS
  <2>1. PutLast(k, x, y)
    <3>1. chunks' = [chunks EXCEPT ![Len(chunks)].content = Trim(text, @ \o <<0>> \o Piece(N)),
                                   ![Len(chunks)].last = Chunk(<<>>, N).last]
      BY <1>9 DEF AddWindow
    <3> QED BY <2>0, <3>1, Zenon DEF PutLast
  <2>2. Window = N /\ chunks # <<>>
    BY <1>9 DEF Folds
  <2>3. k \in 1..Len(chunks) /\ o \in Seq(0..N) /\ y \in Nat
    <3>1. chunks \in Seq(Piece1)
      BY <1>1 DEF CutTypes
    <3>2. k \in 1..Len(chunks)
      BY <2>0, <2>2, <3>1
    <3>3. chunks[k] \in Piece1
      BY <3>1, <3>2
    <3>4. y \in Nat
      BY <1>1, <2>0, LinesIn
    <3> QED BY <2>0, <3>2, <3>3, <3>4 DEF Piece1
  <2>4. /\ q \in Seq(0..N)
        /\ \A p \in start + 1..N : Ink(text, p) => \E j \in 1..Len(q) : q[j] = p
    <3>1. PICK e \in Nat : e = N
      BY <1>3
    <3>2. start < e /\ e <= N
      BY <1>3, <3>1
    <3>3. /\ Piece(e) \in Seq(0..N)
          /\ \A p \in start + 1..e : Ink(text, p) => \E j \in 1..Len(Piece(e)) : Piece(e)[j] = p
      BY <1>1, <3>2, Pieced
    <3> QED BY <2>0, <3>1, <3>3, Zenon
  <2>10. PICK z, s : z = <<0>> /\ s = (o \o z) \o q
    OBVIOUS
  <2>5. /\ s \in Seq(0..N)
        /\ \A i \in 1..Len(o) : \E j \in 1..Len(s) : s[j] = o[i]
        /\ \A i \in 1..Len(q) : \E j \in 1..Len(s) : s[j] = q[i]
    <3>1. z \in Seq(0..N)
      BY <1>3, <2>10
    <3>4. PICK U : U = 0..N
      OBVIOUS
    <3>2. o \in Seq(U) /\ z \in Seq(U) /\ q \in Seq(U)
      BY <2>3, <2>4, <3>1, <3>4
    <3>3. (o \o z) \o q \in Seq(U) /\ AllOf(o, (o \o z) \o q) /\ AllOf(q, (o \o z) \o q)
      BY <3>2, Strung
    <3> QED BY <2>10, <3>3, <3>4, Zenon DEF AllOf
  <2>6. x = Trim(text, s)
    BY <2>0, <2>10
  <2>7. /\ x \in Seq(0..N)
        /\ \A i \in 1..Len(s) : Ink(text, s[i]) => \E j \in 1..Len(x) : x[j] = s[i]
    BY <2>5, <2>6, TrimIs
  <2>8. /\ CutTypes'
        /\ \A p : InChunk(p) => InChunk(p)' \/ \E j \in 1..Len(o) : o[j] = p
        /\ \A j \in 1..Len(x) : InChunk(x[j])'
    BY <1>1, <1>2, <1>4, <2>0, <2>1, <2>3, <2>7, Folded
  <2>9. ASSUME NEW p \in 1..N, Ink(text, p) PROVE InChunk(p)'
    <3>1. CASE \E j \in 1..Len(x) : x[j] = p
      BY <2>8, <3>1
    <3>2. CASE p <= start
      <4>1. InChunk(p)
        BY <1>7, <2>9, <3>2
      <4>2. CASE \E j \in 1..Len(o) : o[j] = p
        BY <2>5, <2>7, <2>9, <3>1, <4>2
      <4> QED BY <2>8, <4>1, <4>2
    <3>3. CASE ~(p <= start)
      <4>1. p \in start + 1..N
        BY <1>3, <3>3
      <4>2. \E j \in 1..Len(q) : q[j] = p
        BY <2>4, <2>9, <4>1
      <4> QED BY <2>5, <2>7, <2>9, <3>1, <4>2
    <3> QED BY <3>2, <3>3
  <2> QED BY <1>6, <2>8, <2>9
<1>10. CASE ~(N <= sizing.size) /\ ~Folds
  <2>0. PICK q : q = Piece(Window)
    OBVIOUS
  <2>1. chunks' = IF q # <<>> THEN Append(chunks, Chunk(q, Window)) ELSE chunks
    BY <1>10, <2>0 DEF AddWindow, Append1
  <2>2. /\ q \in Seq(0..N)
        /\ \A p \in start + 1..Window : Ink(text, p) => \E j \in 1..Len(q) : q[j] = p
    BY <1>1, <1>3, <2>0, Pieced
  <2>3. /\ CutTypes' /\ \A p : InChunk(p) => InChunk(p)'
        /\ \A j \in 1..Len(q) : InChunk(q[j])'
    <3>1. CASE q = <<>>
      <4>1. CutTypes' /\ \A p : InChunk(p) <=> InChunk(p)'
        BY <1>1, <1>2, <1>4, <2>1, <3>1, CutsNone
      <4> QED BY <3>1, <4>1
    <3>2. CASE q # <<>>
      <4>1. Added(Chunk(q, Window))
        BY <2>1, <3>2 DEF Added
      <4> QED BY <1>1, <1>2, <1>3, <1>4, <2>2, <4>1, CutsOn
    <3> QED BY <3>1, <3>2
  <2>5. ASSUME NEW p \in 1..N, Ink(text, p), p <= Window PROVE InChunk(p)'
    <3>1. CASE p <= start
      BY <1>7, <2>3, <2>5, <3>1
    <3>2. CASE ~(p <= start)
      <4>1. p \in start + 1..Window
        BY <1>3, <2>5, <3>2
      <4> QED BY <2>2, <2>3, <2>5, <4>1
    <3> QED BY <3>1, <3>2
  <2> QED BY <1>6, <2>3, <2>5
<1> QED BY <1>8, <1>9, <1>10

LEMMA BreaksAre ==
    ASSUME CutTypes, ~done, NEW k \in {1, 2}, Breaks(k) # {}, Window # N
    PROVE  /\ Max(Breaks(k)) \in Nat /\ start < Max(Breaks(k)) /\ Max(Breaks(k)) < Window
           /\ start < Max(Breaks(k)) - sizing.overlap
<1>1. /\ start \in Nat /\ sizing.size \in Nat /\ sizing.size > 0 /\ sizing.overlap \in Nat /\ 2 * sizing.overlap <= sizing.size
      /\ Window \in Nat
  BY Sized
<1>2. PICK h : h = sizing.size \div 2
  OBVIOUS
<1>3. h \in Nat /\ sizing.overlap <= h
  BY <1>1, <1>2
<1>4. \A p \in Breaks(k) : p \in Int /\ start + h + 1 <= p /\ p <= Window - k
  BY <1>1, <1>2, <1>3 DEF Breaks
<1>5. PICK B : B = Breaks(k)
  OBVIOUS
<1>6. PICK b : b = Window - k
  OBVIOUS
<1>7. B \in SUBSET Int /\ B # {} /\ b \in Int /\ \A p \in B : p <= b
  BY <1>1, <1>4, <1>5, <1>6
<1>8. Max(B) \in B
  BY <1>7, Greatest
<1> QED BY <1>1, <1>3, <1>4, <1>5, <1>8

LEMMA MineEndIs ==
    ASSUME CutTypes, ~done
    PROVE  /\ MineEnd \in Nat /\ start < MineEnd /\ MineEnd <= N
           /\ MineEnd # N => start < MineEnd - sizing.overlap
<1>1. /\ N \in Nat /\ start \in Nat /\ start < N
      /\ sizing.size \in Nat /\ sizing.size > 0 /\ sizing.overlap \in Nat /\ 2 * sizing.overlap <= sizing.size
      /\ Window \in Nat /\ start < Window /\ Window <= N
      /\ (Window # N => Window = start + sizing.size)
  BY Sized
<1>2. CASE Window = N
  BY <1>1, <1>2 DEF MineEnd
<1>3. CASE Window # N /\ Breaks(2) # {}
  <2>1. MineEnd = Max(Breaks(2))
    BY <1>3 DEF MineEnd
  <2>2. 2 \in {1, 2}
    OBVIOUS
  <2> QED BY <1>1, <1>3, <2>1, <2>2, BreaksAre
<1>4. CASE Window # N /\ Breaks(2) = {} /\ Breaks(1) # {}
  <2>1. MineEnd = Max(Breaks(1))
    BY <1>4 DEF MineEnd
  <2>2. 1 \in {1, 2}
    OBVIOUS
  <2> QED BY <1>1, <1>4, <2>1, <2>2, BreaksAre
<1>5. CASE Window # N /\ Breaks(2) = {} /\ Breaks(1) = {}
  <2>1. MineEnd = Window
    BY <1>5 DEF MineEnd
  <2> QED BY <1>1, <1>5, <2>1
<1> QED BY <1>2, <1>3, <1>4, <1>5

LEMMA RunLengthIs == ASSUME CutTypes PROVE RunLength \in Nat /\ RunLength = sizing.min /\ RunLength > 0
<1>1. sizing.min \in Nat /\ sizing.min > 0
  BY SizingsAssumption DEF CutTypes
<1> QED BY <1>1, GreaterIs DEF RunLength

(* A piece with characters is positions in a row, in the lines it names.   *)
LEMMA PieceInRow ==
    ASSUME CutTypes, NEW end \in Nat, start < end, end <= N, Piece(end) # <<>>
    PROVE  \E l, h \in start + 1..end :
             /\ l <= h /\ Piece(end) = Positions(l - 1, h) /\ Len(Piece(end)) = h - l + 1
             /\ Head(Piece(end)) = l /\ Last(Piece(end)) = h
             /\ \A j \in 1..Len(Piece(end)) : Piece(end)[j] = l + j - 1
<1>1. start \in Nat /\ start <= end
  BY DEF CutTypes
<1>2. PICK l \in start + 1..end, h \in start + 1..end : l <= h /\ Trim(text, Positions(start, end)) = Positions(l - 1, h)
  <2>1. Trim(text, Positions(start, end)) # <<>>
    BY DEF Piece
  <2> QED BY <1>1, <2>1, TrimmedPositions
<1>3. PICK a : a = l - 1
  OBVIOUS
<1>4. a \in Nat /\ h \in Nat /\ a <= h /\ l = a + 1
  BY <1>1, <1>2, <1>3
<1>5. PICK s : s = Piece(end)
  OBVIOUS
<1>6. s = Positions(a, h)
  BY <1>2, <1>3, <1>5 DEF Piece
<1>7. s \in Seq(a + 1..h) /\ Len(s) = h - a /\ \A i \in 1..h - a : s[i] = a + i
  BY <1>4, <1>6, PositionsAre
<1>8. Head(s) = l /\ Last(s) = h
  <2>1. 1 \in 1..h - a /\ h - a \in 1..h - a /\ a + (h - a) = h
    BY <1>2, <1>4
  <2> QED BY <1>4, <1>7, <2>1 DEF Last
<1>9. /\ s = Positions(l - 1, h) /\ Len(s) = h - l + 1 /\ \A j \in 1..Len(s) : s[j] = l + j - 1
  BY <1>3, <1>4, <1>6, <1>7
<1> QED BY <1>2, <1>5, <1>8, <1>9

LEMMA MineSteps == ASSUME CutInv, MineWindow PROVE CutInv'
<1>1. CutTypes /\ cutter = "mine" /\ ~done /\ MinesHold /\ MinesInLines
  BY DEF CutInv, MineWindow
<1>2. start' = StepBack /\ (done' <=> MineEnd = N) /\ SameText
  BY DEF MineWindow, SameText
<1>3. /\ N \in Nat /\ start \in Nat /\ start < N
      /\ sizing.size \in Nat /\ sizing.overlap \in Nat /\ sizing.min \in Nat /\ sizing.min > 0
  BY <1>1, Sized
<1>4. /\ MineEnd \in Nat /\ start < MineEnd /\ MineEnd <= N
      /\ MineEnd # N => start < MineEnd - sizing.overlap
  BY <1>1, MineEndIs
<1>5. GoesOn /\ (~done' => start' = MineEnd - sizing.overlap)
  BY <1>2, <1>3, <1>4 DEF GoesOn, StepBack
<1>16. PICK end \in Nat : end = MineEnd
  BY <1>4
<1>17. PICK q : q = Piece(end)
  OBVIOUS
<1>6. end = MineEnd /\ q = Piece(end)
  BY <1>16, <1>17
<1>7. start < end /\ end <= N
  BY <1>4, <1>6
<1>8. /\ q \in Seq(0..N)
      /\ \A p \in start + 1..end : Ink(text, p) => \E j \in 1..Len(q) : q[j] = p
  BY <1>1, <1>6, <1>7, Pieced
<1>9. chunks' = IF Len(q) >= sizing.min THEN Append(chunks, Chunk(q, end)) ELSE chunks
  BY <1>6 DEF MineWindow
<1>10. q # <<>> => \E l, h \in start + 1..end :
             /\ l <= h /\ q = Positions(l - 1, h) /\ Len(q) = h - l + 1
             /\ Head(q) = l /\ Last(q) = h
             /\ \A j \in 1..Len(q) : q[j] = l + j - 1
  BY <1>1, <1>6, <1>7, PieceInRow
<1>11. /\ CutTypes' /\ \A p : InChunk(p) => InChunk(p)'
       /\ Len(q) >= sizing.min => (\A j \in 1..Len(q) : InChunk(q[j])') /\ Joins(Chunk(q, end))
       /\ ~(Len(q) >= sizing.min) => chunks' = chunks
  <2>1. CASE Len(q) >= sizing.min
    <3>1. Added(Chunk(q, end))
      BY <1>9, <2>1 DEF Added
    <3> QED BY <1>1, <1>2, <1>5, <1>8, <2>1, <3>1, CutsOn
  <2>2. CASE ~(Len(q) >= sizing.min)
    <3>1. chunks' = chunks
      BY <1>9, <2>2
    <3>2. CutTypes' /\ \A p : InChunk(p) <=> InChunk(p)'
      BY <1>1, <1>2, <1>5, <3>1, CutsNone
    <3> QED BY <2>2, <3>1, <3>2
  <2> QED BY <2>1, <2>2
<1>12. \A n : Newlines(n)' = Newlines(n)
  BY <1>2 DEF Newlines, SameText
<1>13. MinesInLines'
  <2>1. \A c : InLines(c)' <=> InLines(c)
    BY <1>12 DEF InLines, Positions
  <2>2. CASE Len(q) >= sizing.min
    <3>1. PICK c : c = Chunk(q, end)
      OBVIOUS
    <3>2. c.content = q /\ c.first = 1 + Newlines(start) /\ c.last = 1 + Newlines(end)
      BY <1>1, <1>8, <3>1, ChunkIs
    <3>3. q # <<>>
      BY <1>3, <2>2
    <3>4. PICK l \in start + 1..end, h \in start + 1..end : /\ l <= h /\ q = Positions(l - 1, h)
                                      /\ Head(q) = l /\ Last(q) = h
      BY <1>10, <3>3
    <3>5. /\ Newlines(start) \in Nat /\ Newlines(l - 1) \in Nat /\ Newlines(start) <= Newlines(l - 1)
          /\ Newlines(h) \in Nat /\ Newlines(end) \in Nat /\ Newlines(h) <= Newlines(end)
      <4>1. PICK a : a = l - 1
        OBVIOUS
      <4>2. a \in Nat /\ start <= a /\ h \in Nat /\ h <= end
        BY <1>3, <1>7, <4>1
      <4>3. Newlines(start) \in Nat /\ Newlines(a) \in Nat /\ Newlines(start) <= Newlines(a)
        BY <1>3, <4>2, NewlinesAre
      <4>4. Newlines(h) \in Nat /\ Newlines(end) \in Nat /\ Newlines(h) <= Newlines(end)
        BY <4>2, NewlinesAre
      <4> QED BY <4>1, <4>3, <4>4
    <3>6. InLines(c)
      BY <3>2, <3>4, <3>5 DEF InLines
    <3>7. /\ Len(chunks') = Len(chunks) + 1 /\ chunks'[Len(chunks) + 1] = c /\ Len(chunks) \in Nat
          /\ \A i \in 1..Len(chunks) : chunks'[i] = chunks[i]
      BY <1>11, <2>2, <3>1 DEF Joins
    <3>8. \A i \in 1..Len(chunks') : InLines(chunks'[i])
      <4> TAKE i \in 1..Len(chunks')
      <4>1. i \in 1..Len(chunks) \/ i = Len(chunks) + 1
        BY <3>7
      <4> QED BY <1>1, <3>6, <3>7, <4>1 DEF MinesInLines
    <3> QED BY <2>1, <3>8 DEF MinesInLines
  <2>3. CASE ~(Len(q) >= sizing.min)
    BY <1>1, <1>11, <2>1, <2>3 DEF MinesInLines
  <2> QED BY <2>2, <2>3
<1>14. MinesHold'
  <2>0. PICK m \in Nat : m = RunLength /\ m = sizing.min /\ m > 0
    BY <1>1, RunLengthIs
  <2>1. /\ RunLength' = RunLength /\ N' = N /\ sizing' = sizing
        /\ \A a : Run(a, m)' <=> Run(a, m)
    BY <1>2 DEF RunLength, N, Run, Ink, SameText
  <2> SUFFICES ASSUME m <= sizing.overlap + 1, NEW a \in 1..N - m + 1, Run(a, m), done' \/ a <= start',
                      NEW p \in a..a + m - 1
               PROVE  InChunk(p)'
    BY <2>0, <2>1 DEF MinesHold, Passed
  <2>2. a \in Int /\ p \in Int /\ a <= p /\ p <= a + m - 1 /\ 1 <= a /\ a + m - 1 <= N
    BY <1>3, <2>0
  <2>3. CASE a <= start
    <3>1. InChunk(p)
      BY <1>1, <2>0, <2>3 DEF MinesHold, Passed
    <3> QED BY <1>11, <3>1
  <2>4. CASE ~(a <= start)
    <3>1. start + 1 <= a /\ a + m - 1 <= end
      <4>1. CASE done'
        BY <1>2, <1>3, <1>6, <2>2, <2>4, <4>1
      <4>2. CASE ~done'
        BY <1>3, <1>5, <1>6, <2>0, <2>2, <2>4, <4>2
      <4> QED BY <4>1, <4>2
    <3>2. \A r \in a..a + m - 1 : r \in start + 1..end /\ Ink(text, r)
      BY <1>3, <2>0, <2>2, <3>1 DEF Run
    <3>3. \A r \in a..a + m - 1 : \E j \in 1..Len(q) : q[j] = r
      BY <1>8, <3>2
    <3>4. a \in a..a + m - 1 /\ a + m - 1 \in a..a + m - 1
      BY <2>0, <2>2
    <3>5. q # <<>>
      BY <3>3, <3>4
    <3>6. PICK l \in start + 1..end, h \in start + 1..end : /\ l <= h /\ Len(q) = h - l + 1
                                      /\ \A j \in 1..Len(q) : q[j] = l + j - 1
      BY <1>10, <3>5
    <3>7. l <= a
      <4>1. PICK j \in 1..Len(q) : q[j] = a
        BY <3>3, <3>4
      <4>2. a = l + j - 1
        BY <3>6, <4>1
      <4> QED BY <1>3, <3>6, <4>2
    <3>8. a + m - 1 <= h
      <4>1. PICK j \in 1..Len(q) : q[j] = a + m - 1
        BY <3>3, <3>4
      <4>2. a + m - 1 = l + j - 1
        BY <3>6, <4>1
      <4> QED BY <1>3, <3>6, <4>2
    <3>9. Len(q) >= sizing.min
      BY <1>3, <2>0, <2>2, <3>6, <3>7, <3>8
    <3>10. PICK j \in 1..Len(q) : q[j] = p
      BY <3>3
    <3> QED BY <1>11, <3>9, <3>10
  <2> QED BY <2>3, <2>4
<1>15. cutter' = "mine"
  BY <1>1, <1>2 DEF SameText
<1> QED BY <1>11, <1>13, <1>14, <1>15 DEF CutInv

LEMMA PositionsMeet ==
    ASSUME NEW a \in Nat, NEW b \in Nat, a <= b
    PROVE  Positions(0, a) \o Positions(a, b) = Positions(0, b)
<1>1. PICK s : s = Positions(0, a)
  OBVIOUS
<1>2. PICK q : q = Positions(a, b)
  OBVIOUS
<1>3. PICK r : r = Positions(0, b)
  OBVIOUS
<1>4. s \in Seq(1..a) /\ Len(s) = a /\ \A i \in 1..a : s[i] = i
  <2>1. 0 \in Nat /\ 0 <= a /\ 0 + 1 = 1 /\ a - 0 = a /\ \A i \in 1..a : 0 + i = i
    OBVIOUS
  <2>2. s \in Seq(0 + 1..a) /\ Len(s) = a - 0 /\ \A i \in 1..a - 0 : s[i] = 0 + i
    BY <1>1, <2>1, PositionsAre
  <2> QED BY <2>1, <2>2
<1>5. r \in Seq(1..b) /\ Len(r) = b /\ \A i \in 1..b : r[i] = i
  <2>1. 0 \in Nat /\ 0 <= b /\ 0 + 1 = 1 /\ b - 0 = b /\ \A i \in 1..b : 0 + i = i
    OBVIOUS
  <2>2. r \in Seq(0 + 1..b) /\ Len(r) = b - 0 /\ \A i \in 1..b - 0 : r[i] = 0 + i
    BY <1>3, <2>1, PositionsAre
  <2> QED BY <2>1, <2>2
<1>6. q \in Seq(a + 1..b) /\ Len(q) = b - a /\ \A i \in 1..b - a : q[i] = a + i
  BY <1>2, PositionsAre
<1>7. s \in Seq(Nat) /\ q \in Seq(Nat) /\ r \in Seq(Nat)
  <2>1. PICK V : V = 1..a
    OBVIOUS
  <2>2. PICK U : U = 1..b
    OBVIOUS
  <2>3. PICK W : W = a + 1..b
    OBVIOUS
  <2>4. V \subseteq Nat /\ U \subseteq Nat /\ W \subseteq Nat
    BY <2>1, <2>2, <2>3
  <2>5. s \in Seq(V) /\ r \in Seq(U) /\ q \in Seq(W)
    BY <1>4, <1>5, <1>6, <2>1, <2>2, <2>3
  <2> QED BY <2>4, <2>5, Wider
<1>8. PICK u : u = s \o q
  OBVIOUS
<1>9. /\ u \in Seq(Nat) /\ Len(u) = Len(s) + Len(q)
      /\ \A i \in 1..Len(s) : u[i] = s[i]
      /\ \A i \in 1..Len(q) : u[Len(s) + i] = q[i]
  BY <1>7, <1>8, Joined
<1>10. \A i \in 1..b : u[i] = r[i]
  <2> TAKE i \in 1..b
  <2>1. CASE i <= a
    <3>1. i \in 1..a
      BY <2>1
    <3> QED BY <1>4, <1>5, <1>9, <3>1
  <2>2. CASE ~(i <= a)
    <3>1. PICK j : j = i - a
      OBVIOUS
    <3>2. j \in 1..b - a /\ a + j = i
      BY <2>2, <3>1
    <3> QED BY <1>4, <1>5, <1>6, <1>9, <3>2
  <2> QED BY <2>1, <2>2
<1>11. Len(u) = b
  BY <1>4, <1>6, <1>9
<1>12. u = r
  BY <1>5, <1>7, <1>9, <1>10, <1>11, SameSeq
<1> QED BY <1>1, <1>2, <1>3, <1>8, <1>12

LEMMA DiarySteps == ASSUME CutInv, DiaryStride PROVE CutInv'
<1>1. CutTypes /\ cutter = "diary" /\ ~done /\ DiaryWhole
  BY DEF CutInv, DiaryStride
<1>2. start' = start + sizing.size /\ (done' <=> Window = N) /\ SameText
  BY DEF DiaryStride, SameText
<1>3. /\ N \in Nat /\ start \in Nat /\ start < N
      /\ sizing.size \in Nat /\ sizing.size > 0
      /\ Window \in Nat /\ start < Window /\ Window <= N
      /\ (Window # N => Window = start + sizing.size)
  BY <1>1, Sized
<1>4. GoesOn /\ (~done' => start' = Window)
  BY <1>2, <1>3 DEF GoesOn
<1>16. PICK end \in Nat : end = Window
  BY <1>3
<1>17. PICK s : s = Positions(start, end)
  OBVIOUS
<1>5. end = Window /\ s = Positions(start, end)
  BY <1>16, <1>17
<1>6. s \in Seq(0..N)
  <2>1. PICK V : V = start + 1..end
    OBVIOUS
  <2>2. PICK U : U = 0..N
    OBVIOUS
  <2>3. V \subseteq U
    BY <1>3, <1>5, <2>1, <2>2
  <2>4. start <= end
    BY <1>3, <1>5
  <2>5. s \in Seq(V)
    BY <1>3, <1>5, <2>1, <2>4, PositionsAre
  <2>6. s \in Seq(U)
    BY <2>3, <2>5, Wider
  <2> QED BY <2>2, <2>6
<1>7. Added(Chunk(s, end))
  BY <1>5 DEF DiaryStride, Added
<1>8. CutTypes' /\ Cuttings' = Append(Cuttings, s) /\ Cuttings \in Seq(Seq(0..N))
  BY <1>1, <1>2, <1>4, <1>6, <1>7, CutsOn
<1>9. FlattenSeq(Cuttings)' = FlattenSeq(Cuttings) \o s
  <2>1. PICK U : U = 0..N
    OBVIOUS
  <2>2. PICK c : c = Cuttings
    OBVIOUS
  <2>3. c \in Seq(Seq(U)) /\ s \in Seq(U)
    BY <1>6, <1>8, <2>1, <2>2
  <2>4. FlattenSeq(Append(c, s)) = FlattenSeq(c) \o s
    BY <2>3, FlattenAppend
  <2>5. FlattenSeq(Cuttings') = FlattenSeq(Append(c, s))
    BY <1>8, <2>2
  <2> QED BY <2>2, <2>4, <2>5
<1>10. FlattenSeq(Cuttings) = Positions(0, start)
  BY <1>1 DEF DiaryWhole
<1>11. Positions(0, start) \o s = Positions(0, end)
  <2>1. start <= end
    BY <1>3, <1>5
  <2> QED BY <1>3, <1>5, <2>1, PositionsMeet
<1>12. end = IF done' THEN N ELSE start'
  BY <1>2, <1>4, <1>5
<1>13. N' = N
  BY <1>2 DEF N, SameText
<1>14. DiaryWhole'
  BY <1>9, <1>10, <1>11, <1>12, <1>13 DEF DiaryWhole
<1>15. cutter' = "diary"
  BY <1>1, <1>2 DEF SameText
<1> QED BY <1>8, <1>14, <1>15 DEF CutInv

LEMMA StrippedIs == \A t \in Texts : t \in Seq(Char) /\ Stripped(t) \in Seq(Char)
<1> TAKE t \in Texts
<1>1. t \in Seq(Char) /\ Len(t) \in Nat /\ 0 \in Nat /\ 0 <= Len(t)
  BY TextsAssumption
<1>2. PICK n \in Nat : n = Len(t)
  BY <1>1
<1>3. Positions(0, n) \in Seq(0 + 1..n)
  BY <1>1, <1>2, PositionsAre
<1>4. PICK p, V : p = Positions(0, n) /\ V = 0 + 1..n
  OBVIOUS
<1>5. PICK s : s = Trim(t, p)
  OBVIOUS
<1>6. s \in Seq(V)
  BY <1>3, <1>4, <1>5, TrimIs
<1>7. Stripped(t) = [i \in DOMAIN s |-> t[s[i]]]
  BY <1>2, <1>4, <1>5 DEF Stripped
<1>8. \A i \in 1..Len(s) : t[s[i]] \in Char
  <2>1. \A i \in 1..Len(s) : s[i] \in V
    BY <1>6
  <2>2. \A v \in V : v \in 1..n
    BY <1>4
  <2>3. \A v \in 1..n : t[v] \in Char
    BY <1>1, <1>2
  <2> QED BY <2>1, <2>2, <2>3
<1>9. DOMAIN s = 1..Len(s) /\ Len(s) \in Nat
  BY <1>6
<1>10. [i \in 1..Len(s) |-> t[s[i]]] \in Seq(Char)
  BY <1>8, <1>9
<1> QED BY <1>1, <1>7, <1>9, <1>10

LEMMA CutBegins == ASSUME Init PROVE CutInv
<1>1. text \in Seq(Char)
  <2>1. PICK t \in Texts : text = IF cutter = "diary" THEN t ELSE Stripped(t)
    BY DEF Init
  <2> QED BY <2>1, StrippedIs
<1>2. start = 0 /\ chunks = <<>> /\ (done <=> text = <<>>) /\ sizing \in Sizings
  BY DEF Init
<1>3. N \in Nat /\ (done <=> N = 0)
  BY <1>1, <1>2 DEF N
<1>4. CutTypes
  <2>1. chunks \in Seq(Piece1) /\ Len(chunks) = 0
    BY <1>2
  <2> QED BY <1>1, <1>2, <1>3, <2>1 DEF CutTypes
<1>5. \A p \in 1..N : ~Passed(p)
  BY <1>2, <1>3 DEF Passed
<1>6. WindowsHold
  BY <1>5 DEF WindowsHold
<1>7. MinesHold
  <2>1. RunLength \in Nat /\ RunLength > 0
    BY <1>4, RunLengthIs
  <2>2. \A a \in 1..N - RunLength + 1 : a \in 1..N
    BY <1>3, <2>1
  <2> QED BY <1>5, <2>2 DEF MinesHold
<1>8. MinesInLines
  BY <1>2 DEF MinesInLines
<1>9. DiaryWhole
  <2>1. Cuttings = <<>>
    BY <1>2 DEF Cuttings
  <2>2. FlattenSeq(<<>>) = <<>>
    BY DEF FlattenSeq
  <2>3. Positions(0, 0) = <<>>
    BY DEF Positions
  <2>4. (IF done THEN N ELSE start) = 0
    BY <1>2, <1>3
  <2> QED BY <2>1, <2>2, <2>3, <2>4 DEF DiaryWhole
<1> QED BY <1>4, <1>6, <1>7, <1>8, <1>9 DEF CutInv

LEMMA CutRests == ASSUME CutInv, UNCHANGED vars PROVE CutInv'
<1>1. /\ text' = text /\ cutter' = cutter /\ sizing' = sizing /\ start' = start /\ chunks' = chunks
      /\ done' = done
  BY DEF vars
<1>2. N' = N /\ (Piece1 = Piece1') /\ RunLength' = RunLength /\ Cuttings' = Cuttings
  BY <1>1, Zenon DEF N, Piece1, RunLength, Cuttings
<1>3. \A p : /\ Ink(text, p)' = Ink(text, p) /\ Passed(p)' = Passed(p) /\ InChunk(p)' = InChunk(p)
             /\ Newlines(p)' = Newlines(p) /\ InLines(p)' = InLines(p)
  BY <1>1, Zenon DEF Ink, Passed, InChunk, Newlines, InLines, Positions
<1>4. CutTypes' = CutTypes
  BY <1>1, <1>2, Zenon DEF CutTypes
<1>5. WindowsHold' = WindowsHold /\ MinesInLines' = MinesInLines /\ DiaryWhole' = DiaryWhole
  BY <1>1, <1>2, <1>3, Zenon DEF WindowsHold, MinesInLines, DiaryWhole, Positions
<1>6. MinesHold' = MinesHold
  <2>1. \A a, n : Run(a, n)' = Run(a, n)
    BY <1>2, <1>3, Zenon DEF Run
  <2>2. MinesHold => MinesHold'
    BY <1>1, <1>2, <1>3, <2>1, Zenon DEF MinesHold
  <2>3. MinesHold' => MinesHold
    BY <1>1, <1>2, <1>3, <2>1, Zenon DEF MinesHold
  <2>4. MinesHold \in BOOLEAN /\ MinesHold' \in BOOLEAN
    BY DEF MinesHold
  <2> QED BY <2>2, <2>3, <2>4
<1> QED BY <1>1, <1>4, <1>5, <1>6 DEF CutInv

LEMMA CutSteps == ASSUME CutInv, Next PROVE CutInv' /\ start' > start
<1>1. CASE AddWindow
  <2>1. CutInv'
    BY <1>1, WindowSteps
  <2>2. /\ start \in Nat /\ sizing.size \in Nat /\ sizing.size > 0 /\ sizing.overlap \in Nat
        /\ 2 * sizing.overlap <= sizing.size
    BY <1>1, Sized DEF AddWindow, CutInv
  <2>3. start' = start + sizing.size - sizing.overlap
    BY <1>1 DEF AddWindow
  <2> QED BY <2>1, <2>2, <2>3
<1>2. CASE MineWindow
  <2>1. CutInv'
    BY <1>2, MineSteps
  <2>2. CutTypes /\ ~done
    BY <1>2 DEF MineWindow, CutInv
  <2>3. N \in Nat /\ start \in Nat /\ start < N /\ sizing.overlap \in Nat
    BY <2>2, Sized
  <2>4. /\ MineEnd \in Nat /\ start < MineEnd /\ MineEnd <= N
        /\ MineEnd # N => start < MineEnd - sizing.overlap
    BY <2>2, MineEndIs
  <2>5. start' = StepBack
    BY <1>2 DEF MineWindow
  <2> QED BY <2>1, <2>3, <2>4, <2>5 DEF StepBack
<1>3. CASE DiaryStride
  <2>1. CutInv'
    BY <1>3, DiarySteps
  <2>2. start \in Nat /\ sizing.size \in Nat /\ sizing.size > 0
    BY <1>3, Sized DEF DiaryStride, CutInv
  <2>3. start' = start + sizing.size
    BY <1>3 DEF DiaryStride
  <2> QED BY <2>1, <2>2, <2>3
<1> QED BY <1>1, <1>2, <1>3 DEF Next
-----------------------------------------------------------------------------
Line == DOMAIN LineLength
LEMMA LinesAre ==
    /\ LineLength \in [Line -> Nat] /\ PlainLine \in Line
    /\ \A t \in TopicLists : t \in Seq(Line)
    /\ \A q \in QuoteLists : q \in Seq(Line)
    /\ TopicLimit \in Nat /\ QuoteLimit \in Nat /\ ClosetLimit \in Nat
BY ClosetsAssumption DEF Closets!Assumptions, Closets!Line, Line

(* The functions the closets' operators are made of.                       *)
Sizes(s, f, m) == f = [n \in 0..m |-> IF n = 0 THEN 0 ELSE f[n - 1] + Closets!Width(s[n])]

LEMMA WidthIs == \A l \in Line : Closets!Width(l) \in Nat /\ Closets!Width(l) > 0
<1> TAKE l \in Line
<1>1. LineLength[l] \in Nat
  BY LinesAre
<1> QED BY <1>1 DEF Closets!Width

LEMMA SizesExist == ASSUME NEW s \in Seq(Line) PROVE \A m \in Nat : m <= Len(s) => \E f : Sizes(s, f, m) /\ \A n \in 0..m : f[n] \in Nat
<1> DEFINE P == {m \in Nat : m <= Len(s) => \E f : Sizes(s, f, m) /\ \A n \in 0..m : f[n] \in Nat}
<1>1. 0 \in P
  <2>0. PICK f : f = [n \in 0..0 |-> 0]
    OBVIOUS
  <2>1. f = [n \in 0..0 |-> IF n = 0 THEN 0 ELSE f[n - 1] + Closets!Width(s[n])] /\ \A n \in 0..0 : f[n] \in Nat
    BY <2>0
  <2>2. Sizes(s, f, 0) /\ \A n \in 0..0 : f[n] \in Nat
    BY <2>1 DEF Sizes
  <2> QED BY <2>2
<1>2. ASSUME NEW m \in P PROVE m + 1 \in P
  <2> SUFFICES ASSUME m + 1 <= Len(s) PROVE \E f : Sizes(s, f, m + 1) /\ \A n \in 0..m + 1 : f[n] \in Nat
    OBVIOUS
  <2>1. PICK g : Sizes(s, g, m) /\ \A n \in 0..m : g[n] \in Nat
    OBVIOUS
  <2>2. PICK w : w = Closets!Width(s[m + 1])
    OBVIOUS
  <2>3. w \in Nat
    <3>1. s[m + 1] \in Line
      OBVIOUS
    <3> QED BY <2>2, <3>1, WidthIs
  <2>4. PICK e : e = g[m] + w
    OBVIOUS
  <2>5. PICK f : f = [n \in 0..m + 1 |-> IF n = m + 1 THEN e ELSE g[n]]
    OBVIOUS
  <2>6. f[m + 1] = e /\ \A n \in 0..m : f[n] = g[n]
    BY <2>5
  <2>7. \A n \in 0..m : g[n] = IF n = 0 THEN 0 ELSE g[n - 1] + Closets!Width(s[n])
    BY <2>1 DEF Sizes
  <2>8. \A n \in 0..m + 1 : f[n] = IF n = 0 THEN 0 ELSE f[n - 1] + Closets!Width(s[n])
    <3> TAKE n \in 0..m + 1
    <3>1. CASE n = m + 1
      <4>1. n - 1 = m /\ m \in 0..m /\ n # 0
        BY <3>1
      <4> QED BY <2>2, <2>4, <2>6, <3>1, <4>1
    <3>2. CASE n \in 0..m
      <4>1. n # 0 => n - 1 \in 0..m
        BY <3>2
      <4> QED BY <2>6, <2>7, <3>2, <4>1
    <3> QED BY <3>1, <3>2
  <2>9. f = [n \in 0..m + 1 |-> f[n]]
    BY <2>5
  <2>10. Sizes(s, f, m + 1)
    BY <2>8, <2>9 DEF Sizes
  <2>11. \A n \in 0..m + 1 : f[n] \in Nat
    <3>1. e \in Nat
      <4>1. g[m] \in Nat
        BY <2>1
      <4> QED BY <2>3, <2>4, <4>1
    <3> QED BY <2>1, <2>6, <3>1
  <2> QED BY <2>10, <2>11
<1> HIDE DEF P
<1>3. P = Nat
  BY <1>1, <1>2, Stepwise DEF P
<1> QED BY <1>3 DEF P

LEMMA SizesAgree ==
    ASSUME NEW s, NEW t, NEW f, NEW g, NEW m \in Nat, NEW n \in Nat, m <= n,
           Alike(s, t, m), Sizes(s, f, m), Sizes(t, g, n)
    PROVE  f[m] = g[m]
<1> DEFINE P == {i \in Nat : i \in 0..m => f[i] = g[i]}
<1>1. /\ \A i \in 0..m : f[i] = IF i = 0 THEN 0 ELSE f[i - 1] + Closets!Width(s[i])
      /\ \A i \in 0..m : g[i] = IF i = 0 THEN 0 ELSE g[i - 1] + Closets!Width(t[i])
  <2>1. \A i \in 0..m : f[i] = IF i = 0 THEN 0 ELSE f[i - 1] + Closets!Width(s[i])
    BY DEF Sizes
  <2>2. \A i \in 0..n : g[i] = IF i = 0 THEN 0 ELSE g[i - 1] + Closets!Width(t[i])
    BY DEF Sizes
  <2>3. \A i \in 0..m : i \in 0..n
    OBVIOUS
  <2> QED BY <2>1, <2>2, <2>3
<1>2. 0 \in P
  BY <1>1
<1>3. ASSUME NEW i \in P PROVE i + 1 \in P
  <2> SUFFICES ASSUME i + 1 \in 0..m PROVE f[i + 1] = g[i + 1]
    OBVIOUS
  <2>1. i \in 0..m /\ i + 1 - 1 = i /\ i + 1 # 0 /\ i + 1 \in 1..m
    OBVIOUS
  <2>2. s[i + 1] = t[i + 1]
    BY <2>1 DEF Alike
  <2> QED BY <1>1, <2>1, <2>2
<1> HIDE DEF P
<1>4. P = Nat
  BY <1>2, <1>3, Stepwise DEF P
<1>5. m \in 0..m
  OBVIOUS
<1> QED BY <1>4, <1>5 DEF P

LEMMA SizeIs ==
    ASSUME NEW s \in Seq(Line)
    PROVE  \E f : Sizes(s, f, Len(s)) /\ Closets!Size(s) = f[Len(s)] /\ \A n \in 0..Len(s) : f[n] \in Nat
<1>1. Len(s) \in Nat /\ Len(s) <= Len(s)
  OBVIOUS
<1>2. PICK g : Sizes(s, g, Len(s)) /\ \A n \in 0..Len(s) : g[n] \in Nat
  BY <1>1, SizesExist
<1>3. PICK f : f = CHOOSE x : Sizes(s, x, Len(s))
  OBVIOUS
<1>4. Sizes(s, f, Len(s))
  BY <1>2, <1>3
<1>5. Closets!Size(s) = f[Len(s)]
  BY <1>3, Zenon DEF Closets!Size, Sizes
<1>6. \A n \in 0..Len(s) : f[n] = g[n]
  <2> TAKE n \in 0..Len(s)
  <2> DEFINE P == {i \in Nat : i \in 0..Len(s) => f[i] = g[i]}
  <2>1. /\ \A i \in 0..Len(s) : f[i] = IF i = 0 THEN 0 ELSE f[i - 1] + Closets!Width(s[i])
        /\ \A i \in 0..Len(s) : g[i] = IF i = 0 THEN 0 ELSE g[i - 1] + Closets!Width(s[i])
    BY <1>2, <1>4 DEF Sizes
  <2>2. 0 \in P
    BY <2>1
  <2>3. ASSUME NEW i \in P PROVE i + 1 \in P
    <3> SUFFICES ASSUME i + 1 \in 0..Len(s) PROVE f[i + 1] = g[i + 1]
      OBVIOUS
    <3>1. i \in 0..Len(s) /\ i + 1 - 1 = i /\ i + 1 # 0
      OBVIOUS
    <3> QED BY <2>1, <3>1
  <2> HIDE DEF P
  <2>4. P = Nat
    BY <2>2, <2>3, Stepwise DEF P
  <2> QED BY <1>1, <2>4 DEF P
<1> QED BY <1>2, <1>4, <1>5, <1>6

LEMMA SizeNat == \A s \in Seq(Line) : Closets!Size(s) \in Nat
<1> TAKE s \in Seq(Line)
<1>1. PICK f : Closets!Size(s) = f[Len(s)] /\ \A n \in 0..Len(s) : f[n] \in Nat
  BY SizeIs
<1>2. Len(s) \in 0..Len(s)
  OBVIOUS
<1> QED BY <1>1, <1>2

LEMMA SizeEmpty == Closets!Size(<<>>) = 0
<1>1. <<>> \in Seq(Line) /\ Len(<<>>) = 0
  OBVIOUS
<1>2. PICK f : Sizes(<<>>, f, 0) /\ Closets!Size(<<>>) = f[0]
  BY <1>1, SizeIs
<1>3. f[0] = 0
  <2>1. 0 \in 0..0
    OBVIOUS
  <2> QED BY <1>2, <2>1 DEF Sizes
<1> QED BY <1>2, <1>3

LEMMA SizeAppend ==
    ASSUME NEW s \in Seq(Line), NEW e \in Line
    PROVE  Closets!Size(Append(s, e)) = Closets!Size(s) + Closets!Width(e)
<1>1. PICK t : t = Append(s, e)
  OBVIOUS
<1>2. PICK m \in Nat : m = Len(s)
  OBVIOUS
<1>3. /\ t \in Seq(Line) /\ Len(t) = m + 1 /\ t[m + 1] = e /\ Alike(s, t, m)
  BY <1>1, <1>2, AppendIs DEF Alike
<1>4. PICK f : Sizes(s, f, m) /\ Closets!Size(s) = f[m]
  BY <1>2, SizeIs
<1>5. PICK g : Sizes(t, g, Len(t)) /\ Closets!Size(t) = g[Len(t)]
  BY <1>3, SizeIs
<1>6. m + 1 \in Nat /\ m <= m + 1 /\ m + 1 \in 0..m + 1 /\ m + 1 # 0 /\ m + 1 - 1 = m
  OBVIOUS
<1>7. Sizes(t, g, m + 1) /\ Closets!Size(t) = g[m + 1]
  BY <1>3, <1>5
<1>8. f[m] = g[m]
  <2>1. PICK n \in Nat : n = m + 1
    BY <1>6
  <2>2. m <= n /\ Sizes(t, g, n)
    BY <1>7, <2>1
  <2> QED BY <1>3, <1>4, <2>2, SizesAgree
<1>9. g[m + 1] = g[m] + Closets!Width(t[m + 1])
  BY <1>6, <1>7 DEF Sizes
<1> QED BY <1>1, <1>3, <1>4, <1>7, <1>8, <1>9

(* Lines kept once each are lines.                                         *)
Distincts(s, d, m) ==
    d = [n \in 0..m |-> IF n = 0 THEN <<>>
                        ELSE IF s[n] \in Closets!ToSet(d[n - 1]) THEN d[n - 1] ELSE Append(d[n - 1], s[n])]

LEMMA DistinctsExist ==
    ASSUME NEW s \in Seq(Line)
    PROVE  \A m \in Nat : m <= Len(s) => \E d : Distincts(s, d, m) /\ \A n \in 0..m : d[n] \in Seq(Line)
<1> DEFINE P == {m \in Nat : m <= Len(s) => \E d : Distincts(s, d, m) /\ \A n \in 0..m : d[n] \in Seq(Line)}
<1>1. 0 \in P
  <2>0. PICK d : d = [n \in 0..0 |-> <<>>]
    OBVIOUS
  <2>1. \A n \in 0..0 : n = 0 /\ d[n] = <<>>
    BY <2>0
  <2>2. d = [n \in 0..0 |-> IF n = 0 THEN <<>>
                 ELSE IF s[n] \in Closets!ToSet(d[n - 1]) THEN d[n - 1] ELSE Append(d[n - 1], s[n])]
    BY <2>0, <2>1
  <2>3. Distincts(s, d, 0) /\ \A n \in 0..0 : d[n] \in Seq(Line)
    BY <2>1, <2>2 DEF Distincts
  <2> QED BY <2>3
<1>2. ASSUME NEW m \in P PROVE m + 1 \in P
  <2> SUFFICES ASSUME m + 1 <= Len(s) PROVE \E d : Distincts(s, d, m + 1) /\ \A n \in 0..m + 1 : d[n] \in Seq(Line)
    OBVIOUS
  <2>1. PICK g : Distincts(s, g, m) /\ \A n \in 0..m : g[n] \in Seq(Line)
    OBVIOUS
  <2>2. PICK l, h : l = s[m + 1] /\ h = g[m]
    OBVIOUS
  <2>3. l \in Line /\ h \in Seq(Line)
    BY <2>1, <2>2
  <2>4. PICK e : e = IF l \in Closets!ToSet(h) THEN h ELSE Append(h, l)
    OBVIOUS
  <2>5. e \in Seq(Line)
    BY <2>3, <2>4
  <2>6. PICK d : d = [n \in 0..m + 1 |-> IF n = m + 1 THEN e ELSE g[n]]
    OBVIOUS
  <2>7. d[m + 1] = e /\ \A n \in 0..m : d[n] = g[n]
    BY <2>6
  <2>8. \A n \in 0..m : g[n] = IF n = 0 THEN <<>>
                 ELSE IF s[n] \in Closets!ToSet(g[n - 1]) THEN g[n - 1] ELSE Append(g[n - 1], s[n])
    BY <2>1 DEF Distincts
  <2>9. \A n \in 0..m + 1 : d[n] = IF n = 0 THEN <<>>
                 ELSE IF s[n] \in Closets!ToSet(d[n - 1]) THEN d[n - 1] ELSE Append(d[n - 1], s[n])
    <3> TAKE n \in 0..m + 1
    <3>1. CASE n = m + 1
      <4>1. n - 1 = m /\ m \in 0..m /\ n # 0
        BY <3>1
      <4> QED BY <2>2, <2>4, <2>7, <3>1, <4>1
    <3>2. CASE n \in 0..m
      <4>1. n # 0 => n - 1 \in 0..m
        BY <3>2
      <4> QED BY <2>7, <2>8, <3>2, <4>1
    <3> QED BY <3>1, <3>2
  <2>10. d = [n \in 0..m + 1 |-> d[n]]
    BY <2>6
  <2>11. Distincts(s, d, m + 1)
    BY <2>9, <2>10 DEF Distincts
  <2>12. \A n \in 0..m + 1 : d[n] \in Seq(Line)
    BY <2>1, <2>5, <2>7
  <2> QED BY <2>11, <2>12
<1> HIDE DEF P
<1>3. P = Nat
  BY <1>1, <1>2, Stepwise DEF P
<1> QED BY <1>3 DEF P

LEMMA DistinctIs == \A s \in Seq(Line) : Closets!Distinct(s) \in Seq(Line)
<1> TAKE s \in Seq(Line)
<1>1. Len(s) \in Nat /\ Len(s) <= Len(s) /\ Len(s) \in 0..Len(s)
  OBVIOUS
<1>2. PICK g : Distincts(s, g, Len(s))
  BY <1>1, DistinctsExist
<1>3. PICK d : d = CHOOSE x : Distincts(s, x, Len(s))
  OBVIOUS
<1>4. Distincts(s, d, Len(s))
  BY <1>2, <1>3
<1>5. Closets!Distinct(s) = d[Len(s)]
  BY <1>3, Zenon DEF Closets!Distinct, Distincts
<1> DEFINE P == {i \in Nat : i \in 0..Len(s) => d[i] \in Seq(Line)}
<1>6. \A n \in 0..Len(s) : d[n] = IF n = 0 THEN <<>>
                 ELSE IF s[n] \in Closets!ToSet(d[n - 1]) THEN d[n - 1] ELSE Append(d[n - 1], s[n])
  BY <1>4 DEF Distincts
<1>7. 0 \in P
  <2>1. 0 \in 0..Len(s)
    BY <1>1
  <2>2. d[0] = <<>>
    BY <1>6, <2>1
  <2>3. <<>> \in Seq(Line)
    OBVIOUS
  <2> QED BY <2>2, <2>3
<1>8. ASSUME NEW i \in P PROVE i + 1 \in P
  <2> SUFFICES ASSUME i + 1 \in 0..Len(s) PROVE d[i + 1] \in Seq(Line)
    OBVIOUS
  <2>1. i \in 0..Len(s) /\ i + 1 - 1 = i /\ i + 1 # 0 /\ i + 1 \in 1..Len(s)
    OBVIOUS
  <2>2. PICK l, h : l = s[i + 1] /\ h = d[i]
    OBVIOUS
  <2>3. l \in Line /\ h \in Seq(Line)
    BY <2>1, <2>2
  <2>4. d[i + 1] = IF l \in Closets!ToSet(h) THEN h ELSE Append(h, l)
    BY <1>6, <2>1, <2>2
  <2> QED BY <2>3, <2>4
<1> HIDE DEF P
<1>9. P = Nat
  BY <1>7, <1>8, Stepwise DEF P
<1> QED BY <1>1, <1>5, <1>9 DEF P

LEMMA ClosetLesserIs == \A a, b \in Int : Closets!Min({a, b}) = IF a <= b THEN a ELSE b
<1> TAKE a, b \in Int
<1>1. \E x \in {a, b} : \A y \in {a, b} : x <= y
  OBVIOUS
<1> QED BY <1>1 DEF Closets!Min

LEMMA FirstIs == ASSUME NEW s \in Seq(Line), NEW n \in Nat PROVE Closets!First(s, n) \in Seq(Line)
<1>1. PICK k \in Nat : k = Len(s)
  OBVIOUS
<1>2. PICK m : m = Closets!Min({n, k})
  OBVIOUS
<1>3. m \in Int /\ 1 \in Int /\ m <= k
  BY <1>2, ClosetLesserIs
<1>4. \A i \in 1..m : s[i] \in Line
  BY <1>1, <1>3
<1>5. SubSeq(s, 1, m) \in Seq(Line)
  BY <1>3, <1>4, SubSeqProperties
<1> QED BY <1>1, <1>2, <1>5 DEF Closets!First

LEMMA PointersAre ==
    ASSUME NEW t \in TopicLists, NEW q \in QuoteLists PROVE Closets!BuildClosetLines(t, q) \in Seq(Line)
<1>1. PICK d, e : d = Closets!First(Closets!Distinct(t), TopicLimit) /\ e = Closets!First(q, QuoteLimit)
  OBVIOUS
<1>2. d \in Seq(Line) /\ e \in Seq(Line)
  <2>1. PICK c : c = Closets!Distinct(t)
    OBVIOUS
  <2>2. c \in Seq(Line) /\ q \in Seq(Line) /\ TopicLimit \in Nat /\ QuoteLimit \in Nat
    BY <2>1, LinesAre, DistinctIs
  <2> QED BY <1>1, <2>1, <2>2, FirstIs
<1>3. d \o e \in Seq(Line) /\ <<PlainLine>> \in Seq(Line)
  BY <1>2, LinesAre
<1> QED BY <1>1, <1>3 DEF Closets!BuildClosetLines

-----------------------------------------------------------------------------
(* A closet that is begun is not yet in the row of the full ones.          *)
Fits(doc) == Closets!Size(doc) <= ClosetLimit \/ Len(doc) = 1
Over(doc, line) == Closets!Size(doc) + Closets!Width(line) > ClosetLimit
PackTypes ==
    /\ pointers \in Seq(Line) /\ nextLine \in 1..Len(pointers) + 1
    /\ docs \in Seq(Seq(Line)) /\ cur \in Seq(Line) /\ chars = Closets!Size(cur)
    /\ cur = <<>> => docs = <<>> \/ nextLine = Len(pointers) + 1
PackInv ==
    /\ PackTypes
    /\ FlattenSeq(docs) \o cur = SubSeq(pointers, 1, nextLine - 1)
    /\ \A i \in 1..Len(docs) : docs[i] # <<>> /\ Fits(docs[i])
    /\ cur # <<>> => Fits(cur)
    /\ \A i \in 1..Len(docs) - 1 : Over(docs[i], Head(docs[i + 1]))
    /\ docs # <<>> /\ cur # <<>> => Over(docs[Len(docs)], Head(cur))

LEMMA FlatTyped == ASSUME NEW S, NEW s \in Seq(Seq(S)) PROVE FlattenSeq(s) \in Seq(S)
<1>1. CASE s = <<>>
  <2>1. FlattenSeq(s) = <<>>
    BY <1>1 DEF FlattenSeq
  <2> QED BY <2>1
<1>2. CASE s # <<>>
  <2>1. PICK k : Flats(s, k, Len(s)) /\ FlattenSeq(s) = k[Len(s)]
    BY <1>2, FlattenIs
  <2>2. PICK L \in Nat : L = Len(s) /\ L # 0
    BY <1>2
  <2>3. \A i \in 1..L : k[i] = IF i = 1 THEN s[i] ELSE k[i-1] \o s[i]
    BY <2>1, <2>2 DEF Flats
  <2>4. \A i \in 1..L : s[i] \in Seq(S)
    BY <2>2
  <2> DEFINE P == {i \in Nat : i \in 1..L => k[i] \in Seq(S)}
  <2>5. 0 \in P
    OBVIOUS
  <2>6. ASSUME NEW i \in P PROVE i + 1 \in P
    <3> SUFFICES ASSUME i + 1 \in 1..L PROVE k[i + 1] \in Seq(S)
      OBVIOUS
    <3>1. s[i + 1] \in Seq(S)
      BY <2>4
    <3>2. CASE i = 0
      BY <2>3, <3>1, <3>2
    <3>3. CASE i # 0
      <4>1. i \in 1..L /\ i + 1 - 1 = i /\ i + 1 # 1
        BY <3>3
      <4>2. k[i] \in Seq(S)
        BY <4>1
      <4>3. k[i + 1] = k[i] \o s[i + 1]
        <5>1. PICK j : j = i + 1
          OBVIOUS
        <5>2. j \in 1..L /\ j # 1 /\ j - 1 = i
          BY <4>1, <5>1
        <5>3. k[j] = k[j - 1] \o s[j]
          BY <2>3, <5>2
        <5> QED BY <5>1, <5>2, <5>3
      <4> HIDE DEF P
      <4> QED BY <3>1, <4>2, <4>3
    <3> QED BY <3>2, <3>3
  <2> HIDE DEF P
  <2>7. P = Nat
    BY <2>5, <2>6, Stepwise DEF P
  <2>8. L \in 1..L
    BY <2>2
  <2> QED BY <2>1, <2>2, <2>7, <2>8 DEF P
<1> QED BY <1>1, <1>2

LEMMA PackBegins == ASSUME Closets!Init PROVE PackInv
<1>1. pointers \in Seq(Line)
  <2>1. PICK t \in TopicLists, q \in QuoteLists : pointers = Closets!BuildClosetLines(t, q)
    BY DEF Closets!Init
  <2> QED BY <2>1, PointersAre
<1>2. nextLine = 1 /\ docs = <<>> /\ cur = <<>> /\ chars = 0
  BY DEF Closets!Init
<1>3. PackTypes
  <2>1. docs \in Seq(Seq(Line)) /\ cur \in Seq(Line)
    BY <1>2
  <2>2. nextLine \in 1..Len(pointers) + 1
    BY <1>1, <1>2
  <2>3. chars = Closets!Size(cur)
    BY <1>2, SizeEmpty
  <2> QED BY <1>1, <1>2, <2>1, <2>2, <2>3 DEF PackTypes
<1>4. FlattenSeq(docs) \o cur = SubSeq(pointers, 1, nextLine - 1)
  <2>1. FlattenSeq(docs) = <<>>
    BY <1>2 DEF FlattenSeq
  <2>2. SubSeq(pointers, 1, 1 - 1) = <<>>
    OBVIOUS
  <2>3. <<>> \o <<>> = <<>>
    OBVIOUS
  <2> QED BY <1>2, <2>1, <2>2, <2>3
<1>5. Len(docs) = 0
  BY <1>2
<1> QED BY <1>2, <1>3, <1>4, <1>5 DEF PackInv

LEMMA OneLine == ASSUME NEW e \in Line PROVE <<e>> \in Seq(Line) /\ Len(<<e>>) = 1 /\ Head(<<e>>) = e /\ <<e>> # <<>>
                 /\ Closets!Size(<<e>>) = Closets!Width(e) /\ <<e>> = Append(<<>>, e)
<1>1. <<e>> = Append(<<>>, e) /\ <<>> \in Seq(Line)
  OBVIOUS
<1>2. Closets!Size(Append(<<>>, e)) = Closets!Size(<<>>) + Closets!Width(e)
  BY <1>1, SizeAppend
<1>3. Closets!Width(e) \in Nat
  BY WidthIs
<1> QED BY <1>1, <1>2, <1>3, SizeEmpty

LEMMA SizeZero == ASSUME NEW s \in Seq(Line), Closets!Size(s) = 0 PROVE s = <<>>
<1> SUFFICES ASSUME s # <<>> PROVE FALSE
  OBVIOUS
<1>1. PICK r \in Seq(Line), e \in Line : s = Append(r, e)
  BY SequenceEmptyOrAppend
<1>2. Closets!Size(s) = Closets!Size(r) + Closets!Width(e)
  BY <1>1, SizeAppend
<1> QED BY <1>2, SizeNat, WidthIs

(* Lines taken one by one are those taken so far.                          *)
LEMMA Regroup ==
    ASSUME NEW S PROVE \A a, b, c \in Seq(S) : (a \o b) \o c = a \o (b \o c)
<1> TAKE a, b, c \in Seq(S)
<1>1. PICK t : t = (a \o b) \o c
  OBVIOUS
<1>2. PICK r : r = a \o (b \o c)
  OBVIOUS
<1>3. t \in Seq(S) /\ r \in Seq(S) /\ Len(t) = Len(r)
  BY <1>1, <1>2
<1>4. \A i \in 1..Len(t) : t[i] = r[i]
  BY <1>1, <1>2
<1> QED BY <1>1, <1>2, <1>3, <1>4, SameSeq

Taken(f, c, p, n) == f \o c = SubSeq(p, 1, n - 1)

LEMMA OneMore ==
    ASSUME NEW S, NEW p \in Seq(S), NEW f \in Seq(S), NEW c \in Seq(S), NEW n \in 1..Len(p),
           Taken(f, c, p, n)
    PROVE  (f \o c) \o <<p[n]>> = SubSeq(p, 1, n) /\ f \o Append(c, p[n]) = SubSeq(p, 1, n)
<1>1. PICK e : e = p[n]
  OBVIOUS
<1>2. e \in S
  BY <1>1
<1>3. <<e>> \in Seq(S)
  BY <1>2
<1>4. 1 \in 1..Len(p) /\ n \in 1..Len(p)
  OBVIOUS
<1>5. SubSeq(p, 1, n) = SubSeq(p, 1, n - 1) \o <<p[n]>>
  BY <1>4, SubSeqRecursiveSecond
<1>6. Append(c, e) = c \o <<e>>
  BY <1>2, AppendIsConcat
<1>7. (f \o c) \o <<e>> = f \o (c \o <<e>>)
  BY <1>3, Regroup
<1> QED BY <1>1, <1>5, <1>6, <1>7 DEF Taken

LEMMA DocsAppend ==
    ASSUME NEW S, NEW d \in Seq(Seq(S)), NEW c \in Seq(S)
    PROVE  /\ Append(d, c) \in Seq(Seq(S)) /\ Len(Append(d, c)) = Len(d) + 1 /\ Append(d, c)[Len(d) + 1] = c
           /\ Len(d) \in Nat /\ Append(d, c) # <<>> /\ \A i \in 1..Len(d) : Append(d, c)[i] = d[i]
<1>1. PICK V : V = Seq(S)
  OBVIOUS
<1>2. d \in Seq(V) /\ c \in V
  BY <1>1
<1> QED BY <1>1, <1>2, AppendIs

(* A full closet is put aside.                                             *)
LEMMA DocsHold ==
    ASSUME PackInv, cur # <<>>, docs' = Append(docs, cur)
    PROVE  /\ docs' \in Seq(Seq(Line)) /\ docs' # <<>> /\ Len(docs') \in Nat /\ docs'[Len(docs')] = cur
           /\ \A i \in 1..Len(docs') : docs'[i] # <<>> /\ Fits(docs'[i])
           /\ \A i \in 1..Len(docs') - 1 : Over(docs'[i], Head(docs'[i + 1]))
           /\ FlattenSeq(docs') = FlattenSeq(docs) \o cur
<1>1. docs \in Seq(Seq(Line)) /\ cur \in Seq(Line)
  BY DEF PackInv, PackTypes
<1>2. PICK n \in Nat : n = Len(docs)
  BY <1>1
<1>3. /\ docs' \in Seq(Seq(Line)) /\ docs' # <<>> /\ Len(docs') = n + 1 /\ docs'[n + 1] = cur
      /\ \A i \in 1..n : docs'[i] = docs[i]
  BY <1>1, <1>2, DocsAppend
<1>4. \A i \in 1..Len(docs') : docs'[i] # <<>> /\ Fits(docs'[i])
  <2> TAKE i \in 1..Len(docs')
  <2>1. i \in 1..n \/ i = n + 1
    BY <1>2, <1>3
  <2> QED BY <1>2, <1>3, <2>1 DEF PackInv
<1>5. \A i \in 1..Len(docs') - 1 : Over(docs'[i], Head(docs'[i + 1]))
  <2> TAKE i \in 1..Len(docs') - 1
  <2>1. i \in 1..n /\ docs'[i] = docs[i]
    BY <1>2, <1>3
  <2>2. CASE i = n
    <3>1. docs # <<>>
      BY <1>1, <1>2, <2>1
    <3> QED BY <1>2, <1>3, <2>1, <2>2, <3>1 DEF PackInv
  <2>3. CASE i # n
    <3>1. i + 1 \in 1..n /\ i \in 1..n - 1
      BY <2>1, <2>3
    <3>2. docs'[i + 1] = docs[i + 1]
      BY <1>3, <3>1
    <3> QED BY <1>2, <2>1, <3>1, <3>2 DEF PackInv
  <2> QED BY <2>2, <2>3
<1>6. FlattenSeq(docs') = FlattenSeq(docs) \o cur
  BY <1>1, FlattenAppend
<1>7. Len(docs') \in Nat /\ docs'[Len(docs')] = cur
  BY <1>2, <1>3
<1> QED BY <1>3, <1>4, <1>5, <1>6, <1>7, Zenon

LEMMA PackSteps == ASSUME PackInv, Closets!PackLine PROVE PackInv'
<1>1. PackTypes
  BY DEF PackInv
<1>2. /\ pointers \in Seq(Line) /\ nextLine \in 1..Len(pointers) /\ docs \in Seq(Seq(Line)) /\ cur \in Seq(Line)
      /\ chars = Closets!Size(cur)
  BY <1>1 DEF PackTypes, Closets!PackLine
<1>3. PICK e \in Line : e = pointers[nextLine]
  BY <1>2
<1>4. nextLine' = nextLine + 1 /\ pointers' = pointers
  BY DEF Closets!PackLine
<1>5. nextLine' \in 1..Len(pointers') + 1 /\ nextLine' - 1 = nextLine
  BY <1>2, <1>4
<1>6. PICK f : f = FlattenSeq(docs)
  OBVIOUS
<1>7. f \in Seq(Line)
  BY <1>2, <1>6, FlatTyped
<1>8. (f \o cur) \o <<e>> = SubSeq(pointers, 1, nextLine) /\ f \o Append(cur, e) = SubSeq(pointers, 1, nextLine)
  <2>1. PICK c, p, n : c = cur /\ p = pointers /\ n = nextLine
    OBVIOUS
  <2>2. c \in Seq(Line) /\ p \in Seq(Line) /\ n \in 1..Len(p) /\ Taken(f, c, p, n)
    BY <1>2, <1>6, <2>1 DEF PackInv, Taken
  <2>3. (f \o c) \o <<p[n]>> = SubSeq(p, 1, n) /\ f \o Append(c, p[n]) = SubSeq(p, 1, n)
    BY <1>7, <2>2, OneMore
  <2> QED BY <1>3, <2>1, <2>3
<1>9. Closets!Size(cur) \in Nat /\ Closets!Width(e) \in Nat /\ Closets!Width(e) > 0 /\ ClosetLimit \in Nat
  BY <1>2, SizeNat, WidthIs, LinesAre
<1>10. CASE Closets!Full(e)
  <2>1. docs' = Append(docs, cur) /\ cur' = <<e>> /\ chars' = Closets!Width(e)
    BY <1>3, <1>10 DEF Closets!PackLine
  <2>2. chars > 0 /\ chars + Closets!Width(e) > ClosetLimit
    BY <1>10 DEF Closets!Full
  <2>3. cur # <<>>
    BY <1>2, <2>2, SizeEmpty
  <2>4. /\ docs' \in Seq(Seq(Line)) /\ docs' # <<>> /\ Len(docs') \in Nat /\ docs'[Len(docs')] = cur
        /\ \A i \in 1..Len(docs') : docs'[i] # <<>> /\ Fits(docs'[i])
        /\ \A i \in 1..Len(docs') - 1 : Over(docs'[i], Head(docs'[i + 1]))
        /\ FlattenSeq(docs') = FlattenSeq(docs) \o cur
    BY <2>1, <2>3, DocsHold
  <2>5. cur' \in Seq(Line) /\ Len(cur') = 1 /\ Head(cur') = e /\ cur' # <<>> /\ Closets!Size(cur') = chars'
    BY <2>1, OneLine
  <2>6. FlattenSeq(docs') \o cur' = SubSeq(pointers', 1, nextLine' - 1)
    BY <1>4, <1>5, <1>6, <1>8, <2>1, <2>4
  <2>7. PackTypes'
    BY <1>2, <1>4, <1>5, <2>4, <2>5 DEF PackTypes
  <2>8. Fits(cur')
    BY <2>5 DEF Fits
  <2>9. Over(docs'[Len(docs')], Head(cur'))
    BY <1>2, <2>2, <2>4, <2>5 DEF Over
  <2> QED BY <2>4, <2>6, <2>7, <2>8, <2>9 DEF PackInv, Fits, Over
<1>11. CASE ~Closets!Full(e)
  <2>1. docs' = docs /\ cur' = Append(cur, e) /\ chars' = chars + Closets!Width(e)
    BY <1>3, <1>11 DEF Closets!PackLine
  <2>2. cur' \in Seq(Line) /\ cur' # <<>> /\ Closets!Size(cur') = chars' /\ Len(cur') = Len(cur) + 1
    BY <1>2, <2>1, SizeAppend, AppendIs
  <2>3. Fits(cur')
    <3>1. CASE cur = <<>>
      BY <2>2, <3>1 DEF Fits
    <3>2. CASE cur # <<>>
      <4>1. chars # 0
        BY <1>2, <3>2, SizeZero
      <4>2. chars + Closets!Width(e) <= ClosetLimit
        BY <1>2, <1>9, <1>11, <4>1 DEF Closets!Full
      <4> QED BY <2>1, <2>2, <4>2 DEF Fits
    <3> QED BY <3>1, <3>2
  <2>4. docs # <<>> => cur # <<>> /\ Head(cur') = Head(cur)
    <3> SUFFICES ASSUME docs # <<>> PROVE cur # <<>> /\ Head(cur') = Head(cur)
      OBVIOUS
    <3>1. cur # <<>>
      BY <1>1, <1>2 DEF PackTypes
    <3> QED BY <1>2, <2>1, <3>1, HeadTailAppend
  <2>5. FlattenSeq(docs') \o cur' = SubSeq(pointers', 1, nextLine' - 1)
    BY <1>4, <1>5, <1>6, <1>8, <2>1
  <2>6. PackTypes'
    BY <1>2, <1>4, <1>5, <2>1, <2>2 DEF PackTypes
  <2> QED BY <2>1, <2>2, <2>3, <2>4, <2>5, <2>6 DEF PackInv, Fits, Over
<1> QED BY <1>10, <1>11

LEMMA FlushSteps == ASSUME PackInv, Closets!LastFlush PROVE PackInv'
<1>1. PackTypes
  BY DEF PackInv
<1>2. /\ nextLine = Len(pointers) + 1 /\ cur # <<>> /\ docs' = Append(docs, cur) /\ cur' = <<>> /\ chars' = 0
      /\ pointers' = pointers /\ nextLine' = nextLine
  BY DEF Closets!LastFlush
<1>3. /\ docs' \in Seq(Seq(Line)) /\ docs' # <<>> /\ Len(docs') \in Nat /\ docs'[Len(docs')] = cur
      /\ \A i \in 1..Len(docs') : docs'[i] # <<>> /\ Fits(docs'[i])
      /\ \A i \in 1..Len(docs') - 1 : Over(docs'[i], Head(docs'[i + 1]))
      /\ FlattenSeq(docs') = FlattenSeq(docs) \o cur
  BY <1>2, DocsHold
<1>4. FlattenSeq(docs') \o cur' = SubSeq(pointers', 1, nextLine' - 1)
  <2>1. FlattenSeq(docs') \in Seq(Line)
    BY <1>3, FlatTyped
  <2>2. FlattenSeq(docs') \o <<>> = FlattenSeq(docs')
    BY <2>1, ConcatEmptySeq
  <2> QED BY <1>2, <1>3, <2>2 DEF PackInv
<1>5. PackTypes'
  <2>1. cur' \in Seq(Line) /\ chars' = Closets!Size(cur')
    BY <1>2, SizeEmpty
  <2> QED BY <1>1, <1>2, <1>3, <2>1 DEF PackTypes
<1> QED BY <1>2, <1>3, <1>4, <1>5 DEF PackInv, Fits, Over

LEMMA PackRests ==
    ASSUME PackInv, pointers' = pointers, nextLine' = nextLine, docs' = docs, cur' = cur, chars' = chars
    PROVE  PackInv'
BY DEF PackInv, PackTypes, Fits, Over

LEMMA FlattensAlike == \A s : Closets!FlattenSeq(s) = FlattenSeq(s)
BY Zenon DEF Closets!FlattenSeq, FlattenSeq

LEMMA PackHolds == ASSUME PackInv PROVE Closets!PackedTightly
<1> SUFFICES ASSUME nextLine = Len(pointers) + 1, cur = <<>>
             PROVE  /\ Closets!FlattenSeq(docs) = pointers
                    /\ \A i \in DOMAIN docs : docs[i] # <<>> /\ (Closets!Size(docs[i]) <= ClosetLimit \/ Len(docs[i]) = 1)
                    /\ \A i \in 1..(Len(docs) - 1) : Closets!Size(docs[i]) + Closets!Width(Head(docs[i + 1])) > ClosetLimit
  BY Zenon DEF Closets!PackedTightly
<1>1. pointers \in Seq(Line) /\ docs \in Seq(Seq(Line)) /\ DOMAIN docs = 1..Len(docs) /\ Len(pointers) + 1 - 1 = Len(pointers)
  BY DEF PackInv, PackTypes
<1>2. FlattenSeq(docs) \o <<>> = SubSeq(pointers, 1, Len(pointers))
  BY <1>1 DEF PackInv
<1>3. SubSeq(pointers, 1, Len(pointers)) = pointers
  BY <1>1, SubSeqFull
<1>4. FlattenSeq(docs) \o <<>> = FlattenSeq(docs)
  <2>1. FlattenSeq(docs) \in Seq(Line)
    BY <1>1, FlatTyped
  <2> QED BY <2>1, ConcatEmptySeq
<1>5. Closets!FlattenSeq(docs) = pointers
  BY <1>2, <1>3, <1>4, FlattensAlike
<1>6. \A i \in 1..Len(docs) : docs[i] # <<>> /\ Fits(docs[i])
  BY DEF PackInv
<1>7. \A i \in 1..Len(docs) - 1 : Over(docs[i], Head(docs[i + 1]))
  BY DEF PackInv
<1> QED BY <1>1, <1>5, <1>6, <1>7 DEF Fits, Over

-----------------------------------------------------------------------------
LEMMA TextSteps ==
    ASSUME part = "chunking" => CutInv, part = "closets" => PackInv,
           [MCNext]_<<part, vars, closets, journal, searching, graph, walk, vectors>>
    PROVE  /\ part' = "chunking" => CutInv'
           /\ part' = "closets" => PackInv'
           /\ [start' > start]_vars
<1>1. part' = part
  BY DEF MCNext
<1>2. CASE part = "chunking" /\ Next
  BY <1>1, <1>2, CutSteps
<1>3. CASE part = "closets" /\ Closets!Next
  <2>1. UNCHANGED vars
    BY <1>3 DEF MCNext
  <2>2. PackInv'
    BY <1>3, PackSteps, FlushSteps DEF Closets!Next
  <2> QED BY <1>1, <1>3, <2>1, <2>2
<1>4. CASE UNCHANGED vars /\ UNCHANGED closets
  <2>1. part = "chunking" => CutInv'
    BY <1>4, CutRests
  <2>2. pointers' = pointers /\ nextLine' = nextLine /\ docs' = docs /\ cur' = cur /\ chars' = chars
    BY <1>4 DEF closets
  <2>3. part = "closets" => PackInv'
    BY <2>2, PackRests
  <2> QED BY <1>1, <1>4, <2>1, <2>3
<1>5. (part = "chunking" /\ Next) \/ (part = "closets" /\ Closets!Next) \/ (UNCHANGED vars /\ UNCHANGED closets)
  BY Zenon DEF MCNext
<1> QED BY <1>2, <1>3, <1>4, <1>5

(* Cutting loses nothing: of any text, in windows of any size with an      *)
(* overlap of up to half of one, every character that is no blank is in a  *)
(* chunk, every run of them that reaches the floor survives mining, a      *)
(* diary keeps every character in its order, and each turn of the loops    *)
(* gets on in the text; and closets hold every line once, in its order,    *)
(* packed as tightly as the limit allows (chunk.go, minechunk.go,          *)
(* closet.go).                                                             *)
THEOREM TextIsKept == MCSpec => TextKept
<1> DEFINE Inv == (part = "chunking" => CutInv) /\ (part = "closets" => PackInv)
<1>1. MCInit => Inv
  BY CutBegins, PackBegins DEF MCInit
<1>2. Inv /\ [MCNext]_<<part, vars, closets, journal, searching, graph, walk, vectors>> =>
        Inv' /\ [start' > start]_vars
  BY TextSteps
<1>3. Inv => /\ part = "chunking" => NothingLost
             /\ part = "closets" => Closets!PackedTightly
  BY CutHolds, PackHolds
<1> QED BY <1>1, <1>2, <1>3, PTL DEF MCSpec, TextKept, Advances

-----------------------------------------------------------------------------
LEMMA SearchCardinality == \A S : Search!Cardinality(S) = Cardinality(S)
BY Zenon DEF Search!Cardinality, Cardinality

LEMMA SearchLesserIs == \A a, b \in Int : Search!Min({a, b}) = IF a <= b THEN a ELSE b
<1> TAKE a, b \in Int
<1>1. \E x \in {a, b} : \A y \in {a, b} : x <= y
  OBVIOUS
<1> QED BY <1>1 DEF Search!Min

(* Ahead is a strict order of the positions.                               *)
LEMMA AheadOrders ==
    ASSUME NEW n \in Nat, NEW key \in [1..n -> Int]
    PROVE  /\ \A i \in 1..n : ~Search!Ahead(key, i, i)
           /\ \A i, j, k \in 1..n : Search!Ahead(key, i, j) /\ Search!Ahead(key, j, k) => Search!Ahead(key, i, k)
           /\ \A i, j \in 1..n : i # j => Search!Ahead(key, i, j) \/ Search!Ahead(key, j, i)
<1>1. \A i \in 1..n : key[i] \in Int
  OBVIOUS
<1> QED BY <1>1 DEF Search!Ahead

(* How many are ahead of a position tells its place, and no two have one.  *)
AheadOf(key, n, i) == {j \in 1..n : Search!Ahead(key, j, i)}

LEMMA PlacesAre ==
    ASSUME NEW n \in Nat, NEW key \in [1..n -> Int]
    PROVE  \E p \in [1..n -> 1..n] :
             /\ \A i \in 1..n : p[i] = 1 + Cardinality(AheadOf(key, n, i))
             /\ \A i, j \in 1..n : Search!Ahead(key, i, j) => p[i] < p[j]
             /\ \A i, j \in 1..n : p[i] = p[j] => i = j
             /\ \A k \in 1..n : \E i \in 1..n : p[i] = k
<1>1. IsFiniteSet(1..n) /\ Cardinality(1..n) = n
  <2>1. 1 \in Int /\ n \in Int
    OBVIOUS
  <2> QED BY <2>1, FS_Interval
<1>2. \A i \in 1..n : /\ IsFiniteSet(AheadOf(key, n, i)) /\ Cardinality(AheadOf(key, n, i)) \in Nat
                      /\ i \notin AheadOf(key, n, i) /\ AheadOf(key, n, i) \subseteq 1..n
  <2> TAKE i \in 1..n
  <2>1. AheadOf(key, n, i) \subseteq 1..n /\ i \notin AheadOf(key, n, i)
    BY AheadOrders DEF AheadOf
  <2>2. IsFiniteSet(AheadOf(key, n, i))
    BY <1>1, <2>1, FS_Subset
  <2> QED BY <2>1, <2>2, FS_CardinalityType
<1>3. \A i \in 1..n : /\ IsFiniteSet(AheadOf(key, n, i) \cup {i})
                      /\ Cardinality(AheadOf(key, n, i) \cup {i}) = Cardinality(AheadOf(key, n, i)) + 1
  BY <1>2, FS_AddElement
<1>4. \A i \in 1..n : 1 + Cardinality(AheadOf(key, n, i)) \in 1..n
  <2> TAKE i \in 1..n
  <2>1. AheadOf(key, n, i) \cup {i} \subseteq 1..n
    BY <1>2
  <2>2. Cardinality(AheadOf(key, n, i) \cup {i}) <= n
    BY <1>1, <2>1, FS_Subset
  <2>3. PICK c : c = Cardinality(AheadOf(key, n, i))
    OBVIOUS
  <2>4. c \in Nat /\ c + 1 <= n
    BY <1>2, <1>3, <2>2, <2>3, Zenon
  <2>5. 1 + c \in 1..n
    BY <2>4
  <2> QED BY <2>3, <2>5
<1>5. ASSUME NEW i \in 1..n, NEW j \in 1..n, Search!Ahead(key, i, j)
      PROVE  1 + Cardinality(AheadOf(key, n, i)) < 1 + Cardinality(AheadOf(key, n, j))
  <2>1. AheadOf(key, n, i) \cup {i} \subseteq AheadOf(key, n, j)
    BY <1>5, AheadOrders DEF AheadOf
  <2>2. Cardinality(AheadOf(key, n, i) \cup {i}) <= Cardinality(AheadOf(key, n, j))
    BY <1>2, <2>1, FS_Subset
  <2>3. PICK b, c : b = Cardinality(AheadOf(key, n, i)) /\ c = Cardinality(AheadOf(key, n, j))
    OBVIOUS
  <2>4. b \in Nat /\ c \in Nat /\ b + 1 <= c
    BY <1>2, <1>3, <2>2, <2>3, Zenon
  <2>5. 1 + b < 1 + c
    BY <2>4
  <2> QED BY <2>3, <2>5
<1>6. PICK p : p = [i \in 1..n |-> 1 + Cardinality(AheadOf(key, n, i))]
  OBVIOUS
<1>7. p \in [1..n -> 1..n] /\ \A i \in 1..n : p[i] = 1 + Cardinality(AheadOf(key, n, i))
  BY <1>4, <1>6
<1>8. \A i, j \in 1..n : Search!Ahead(key, i, j) => p[i] < p[j]
  BY <1>5, <1>7
<1>9. \A i, j \in 1..n : p[i] = p[j] => i = j
  <2> TAKE i, j \in 1..n
  <2>1. p[i] \in 1..n /\ p[j] \in 1..n
    BY <1>7
  <2>2. p[i] < p[j] => p[i] # p[j]
    BY <2>1
  <2>3. p[j] < p[i] => p[i] # p[j]
    BY <2>1
  <2> QED BY <1>8, <2>2, <2>3, AheadOrders
<1>10. p \in Surjection(1..n, 1..n)
  <2>1. p \in Injection(1..n, 1..n)
    BY <1>7, <1>9 DEF Injection, IsInjective
  <2> QED BY <1>1, <2>1, FS_Injection
<1>11. \A k \in 1..n : \E i \in 1..n : p[i] = k
  BY <1>10 DEF Surjection
<1> QED BY <1>7, <1>8, <1>9, <1>11

(* What was at i is at p[i] in another order of the same.                  *)
Reordered(from, to, p) ==
    /\ p \in [1..Len(from) -> 1..Len(from)]
    /\ \A k \in 1..Len(from) : \E i \in 1..Len(from) : p[i] = k
    /\ Len(to) = Len(from)
    /\ \A i \in 1..Len(from) : to[p[i]] = from[i]
InOrder(key, n, p) == \A i, j \in 1..n : Search!Ahead(key, i, j) => p[i] < p[j]

LEMMA SortedIs ==
    ASSUME NEW S, NEW seq \in Seq(S), NEW key \in [1..Len(seq) -> Int]
    PROVE  /\ Search!Sorted(seq, key) \in Seq(S)
           /\ \E p : Reordered(seq, Search!Sorted(seq, key), p) /\ InOrder(key, Len(seq), p)
<1>1. PICK n : n = Len(seq)
  OBVIOUS
<1>2. n \in Nat /\ DOMAIN seq = 1..n /\ key \in [1..n -> Int] /\ \A i \in 1..n : seq[i] \in S
  BY <1>1
<1>3. PICK p \in [1..n -> 1..n] :
             /\ \A i \in 1..n : p[i] = 1 + Cardinality(AheadOf(key, n, i))
             /\ \A i, j \in 1..n : Search!Ahead(key, i, j) => p[i] < p[j]
             /\ \A i, j \in 1..n : p[i] = p[j] => i = j
             /\ \A k \in 1..n : \E i \in 1..n : p[i] = k
  BY <1>2, PlacesAre
<1>4. \A i \in 1..n : 1 + Search!Cardinality({j \in 1..n : Search!Ahead(key, j, i)}) = p[i]
  <2> TAKE i \in 1..n
  <2>1. Search!Cardinality({j \in 1..n : Search!Ahead(key, j, i)}) = Cardinality(AheadOf(key, n, i))
    BY SearchCardinality, Zenon DEF AheadOf
  <2> QED BY <1>3, <2>1
<1>5. PICK to : to = Search!Sorted(seq, key)
  OBVIOUS
<1>6. to = [k \in 1..n |-> seq[CHOOSE i \in 1..n : 1 + Search!Cardinality({j \in 1..n : Search!Ahead(key, j, i)}) = k]]
  <2> DEFINE F(D) == [k \in D |-> seq[CHOOSE i \in D : 1 + Search!Cardinality({j \in D : Search!Ahead(key, j, i)}) = k]]
  <2>1. to = F(DOMAIN seq)
    BY <1>5, Zenon DEF Search!Sorted
  <2>2. F(DOMAIN seq) = F(1..n)
    <3> HIDE DEF F
    <3> QED BY <1>2
  <2> QED BY <2>1, <2>2, Zenon
<1>7. ASSUME NEW i \in 1..n PROVE to[p[i]] = seq[i]
  <2>1. PICK x : x = CHOOSE l \in 1..n : 1 + Search!Cardinality({j \in 1..n : Search!Ahead(key, j, l)}) = p[i]
    OBVIOUS
  <2>2. x \in 1..n /\ 1 + Search!Cardinality({j \in 1..n : Search!Ahead(key, j, x)}) = p[i]
    BY <1>4, <1>7, <2>1, Zenon
  <2>3. x = i
    BY <1>3, <1>4, <2>2
  <2>4. p[i] \in 1..n
    BY <1>3
  <2>5. to[p[i]] = seq[x]
    BY <1>6, <2>1, <2>4
  <2> QED BY <2>3, <2>5
<1>8. DOMAIN to = 1..n /\ \A k \in 1..n : to[k] \in S
  <2>1. DOMAIN to = 1..n
    BY <1>6
  <2>2. ASSUME NEW k \in 1..n PROVE to[k] \in S
    <3>1. PICK i \in 1..n : p[i] = k
      BY <1>3
    <3> QED BY <1>2, <1>7, <3>1
  <2> QED BY <2>1, <2>2
<1>9. to = [k \in 1..n |-> to[k]]
  BY <1>6
<1>10. to \in Seq(S) /\ Len(to) = n
  BY <1>2, <1>8, <1>9
<1>11. Reordered(seq, to, p) /\ InOrder(key, n, p)
  BY <1>1, <1>3, <1>7, <1>10 DEF Reordered, InOrder
<1> QED BY <1>1, <1>5, <1>10, <1>11

-----------------------------------------------------------------------------
(* A page of a sequence in another order.                                  *)
Distinctly(s) == \A i, j \in 1..Len(s) : s[i] = s[j] => i = j
PageOf(out, to, limit) == out = SubSeq(to, 1, Search!Min({limit, Len(to)}))
PageHolds(from, out, limit, p) ==
    /\ Len(out) = Search!Min({limit, Len(from)}) /\ Len(out) <= limit
    /\ Search!IsInjective(out)
    /\ \A i, j \in 1..Len(from) : p[i] < p[j] /\ from[j] \in Search!ToSet(out) =>
          from[i] \in Search!ToSet(out) /\ Search!Position(out, from[i]) < Search!Position(out, from[j])
    /\ \A i \in 1..Len(from) : from[i] \in Search!ToSet(out) \/ Len(out) = limit
    /\ \A x \in Search!ToSet(out) : \E i \in 1..Len(from) : from[i] = x

LEMMA PositionIs ==
    ASSUME NEW S, NEW s \in Seq(S), Distinctly(s), NEW k \in 1..Len(s)
    PROVE  Search!Position(s, s[k]) = k
<1>1. DOMAIN s = 1..Len(s)
  OBVIOUS
<1>2. PICK x : x = CHOOSE i \in DOMAIN s : s[i] = s[k]
  OBVIOUS
<1>3. k \in DOMAIN s /\ s[k] = s[k]
  BY <1>1
<1>4. x \in DOMAIN s /\ s[x] = s[k]
  BY <1>2, <1>3, Zenon
<1>5. x = k
  BY <1>1, <1>4 DEF Distinctly
<1>6. Search!Position(s, s[k]) = x
  BY <1>2, Zenon DEF Search!Position
<1> QED BY <1>5, <1>6

LEMMA PagesAre ==
    ASSUME NEW S, NEW to \in Seq(S), NEW m \in Nat, m <= Len(to)
    PROVE  /\ SubSeq(to, 1, m) \in Seq(S) /\ Len(SubSeq(to, 1, m)) = m
           /\ \A k \in 1..m : SubSeq(to, 1, m)[k] = to[k]
<1>1. 1 \in Int /\ m \in Int
  OBVIOUS
<1>2. SubSeq(to, 1, m) = [i \in 1..m |-> to[i]]
  <2>1. SubSeq(to, 1, m) = [i \in 1..(1 + m - 1) |-> to[1 + i - 1]]
    OBVIOUS
  <2>2. 1 + m - 1 = m
    OBVIOUS
  <2>3. \A i \in 1..m : 1 + i - 1 = i
    OBVIOUS
  <2> QED BY <2>1, <2>2, <2>3
<1>3. \A i \in 1..m : to[i] \in S
  OBVIOUS
<1> QED BY <1>2, <1>3

LEMMA PagesHold ==
    ASSUME NEW S, NEW from \in Seq(S), NEW to \in Seq(S), NEW p, Reordered(from, to, p),
           Distinctly(from), NEW limit \in Nat, NEW out, PageOf(out, to, limit)
    PROVE  out \in Seq(S) /\ PageHolds(from, out, limit, p)
<1>1. PICK n, m : n = Len(from) /\ m = Search!Min({limit, Len(to)})
  OBVIOUS
<1>2. /\ n \in Nat /\ Len(to) = n /\ p \in [1..n -> 1..n]
      /\ \A k \in 1..n : \E i \in 1..n : p[i] = k
      /\ \A i \in 1..n : to[p[i]] = from[i]
  BY <1>1 DEF Reordered
<1>3. m \in Nat /\ m <= n /\ m <= limit /\ (m = limit \/ m = n) /\ m = Search!Min({limit, n})
  BY <1>1, <1>2, SearchLesserIs
<1>4. out \in Seq(S) /\ Len(out) = m /\ DOMAIN out = 1..m /\ \A k \in 1..m : out[k] = to[k]
  <2>1. out = SubSeq(to, 1, m)
    BY <1>1 DEF PageOf
  <2>2. /\ SubSeq(to, 1, m) \in Seq(S) /\ Len(SubSeq(to, 1, m)) = m
        /\ \A k \in 1..m : SubSeq(to, 1, m)[k] = to[k]
    <3>1. m \in Nat /\ m <= Len(to)
      BY <1>2, <1>3
    <3> QED BY <3>1, PagesAre
  <2> QED BY <2>1, <2>2
<1>5. \A k \in 1..n, l \in 1..n : to[k] = to[l] => k = l
  <2> TAKE k \in 1..n, l \in 1..n
  <2> SUFFICES ASSUME to[k] = to[l] PROVE k = l
    OBVIOUS
  <2>1. PICK i \in 1..n : p[i] = k
    BY <1>2
  <2>2. PICK j \in 1..n : p[j] = l
    BY <1>2
  <2>3. from[i] = from[j]
    BY <1>2, <2>1, <2>2
  <2>4. i = j
    BY <1>1, <2>3 DEF Distinctly
  <2> QED BY <2>1, <2>2, <2>4
<1>6. \A k \in 1..m : k \in 1..n
  BY <1>2, <1>3
<1>7. Distinctly(out) /\ Search!IsInjective(out)
  BY <1>4, <1>5, <1>6 DEF Distinctly, Search!IsInjective
<1>8. \A x : x \in Search!ToSet(out) <=> \E k \in 1..m : out[k] = x
  BY <1>4 DEF Search!ToSet
<1>9. \A i \in 1..n : from[i] \in Search!ToSet(out) <=> p[i] <= m
  <2> TAKE i \in 1..n
  <2>1. p[i] \in 1..n
    BY <1>2
  <2>2. ASSUME p[i] <= m PROVE from[i] \in Search!ToSet(out)
    <3>1. p[i] \in 1..m
      BY <2>1, <2>2
    <3>2. out[p[i]] = from[i]
      BY <1>2, <1>4, <3>1
    <3> QED BY <1>8, <3>1, <3>2
  <2>3. ASSUME from[i] \in Search!ToSet(out) PROVE p[i] <= m
    <3>1. PICK k \in 1..m : out[k] = from[i]
      BY <1>8, <2>3
    <3>2. to[k] = to[p[i]] /\ k \in 1..n
      BY <1>2, <1>4, <1>6, <3>1
    <3>3. k = p[i]
      BY <1>5, <2>1, <3>2
    <3> QED BY <1>3, <3>3
  <2> QED BY <2>2, <2>3
<1>10. \A i \in 1..n : p[i] <= m => Search!Position(out, from[i]) = p[i]
  <2> TAKE i \in 1..n
  <2> SUFFICES ASSUME p[i] <= m PROVE Search!Position(out, from[i]) = p[i]
    OBVIOUS
  <2>1. PICK k : k = p[i]
    OBVIOUS
  <2>2. k \in 1..Len(out)
    <3>1. k \in 1..n
      BY <1>2, <2>1
    <3> QED BY <1>3, <1>4, <2>1, <3>1
  <2>3. Search!Position(out, out[k]) = k
    BY <1>4, <1>7, <2>2, PositionIs
  <2>4. out[k] = from[i]
    BY <1>2, <1>4, <2>1, <2>2
  <2> QED BY <2>1, <2>3, <2>4
<1>11. ASSUME NEW i \in 1..n, NEW j \in 1..n, p[i] < p[j], from[j] \in Search!ToSet(out)
       PROVE  from[i] \in Search!ToSet(out) /\ Search!Position(out, from[i]) < Search!Position(out, from[j])
  <2>1. p[i] \in 1..n /\ p[j] \in 1..n
    BY <1>2
  <2>2. p[j] <= m /\ p[i] <= m
    <3>1. p[j] <= m
      BY <1>9, <1>11, Zenon
    <3> QED BY <1>3, <1>11, <2>1, <3>1
  <2> QED BY <1>9, <1>10, <1>11, <2>2
<1>12. ASSUME NEW i \in 1..n PROVE from[i] \in Search!ToSet(out) \/ m = limit
  <2>1. p[i] \in 1..n
    BY <1>2
  <2>2. p[i] <= m \/ m = limit
    BY <1>3, <2>1
  <2> QED BY <1>9, <2>2, Zenon
<1>13. ASSUME NEW x \in Search!ToSet(out) PROVE \E i \in 1..n : from[i] = x
  <2>1. PICK k \in 1..m : out[k] = x
    BY <1>8
  <2>2. PICK i \in 1..n : p[i] = k
    BY <1>2, <1>6, <2>1
  <2> QED BY <1>2, <1>4, <2>1, <2>2
<1> QED BY <1>1, <1>3, <1>4, <1>7, <1>11, <1>12, <1>13 DEF PageHolds

(* A recursion over the first numbers has the value its equations say.     *)
Recursive(f, V, b, m, step) ==
    f \in [0..m -> V] /\ f[0] = b /\ \A n \in 1..m : f[n] = step[n][f[n - 1]]

LEMMA Recursion ==
    ASSUME NEW V, NEW b \in V, NEW m \in Nat, NEW step \in [1..m -> [V -> V]]
    PROVE  \E f : Recursive(f, V, b, m, step)
<1> DEFINE Q(k) == \E f \in [0..k -> V] : f[0] = b /\ \A n \in 1..k : f[n] = step[n][f[n - 1]]
           P == {k \in Nat : k <= m => Q(k)}
<1>1. 0 \in P
  <2>1. PICK f : f = [n \in 0..0 |-> b]
    OBVIOUS
  <2>2. f \in [0..0 -> V] /\ f[0] = b /\ \A n \in 1..0 : f[n] = step[n][f[n - 1]]
    BY <2>1
  <2> QED BY <2>2
<1>2. ASSUME NEW k \in P PROVE k + 1 \in P
  <2> SUFFICES ASSUME k + 1 <= m PROVE Q(k + 1)
    <3> HIDE DEF Q
    <3> QED OBVIOUS
  <2>0. Q(k) /\ k \in Nat /\ k + 1 \in 1..m
    <3> HIDE DEF Q
    <3> QED OBVIOUS
  <2>1. PICK g \in [0..k -> V] : g[0] = b /\ \A n \in 1..k : g[n] = step[n][g[n - 1]]
    BY <2>0
  <2>2. PICK e : e = step[k + 1][g[k]]
    OBVIOUS
  <2>3. e \in V
    <3>1. step[k + 1] \in [V -> V] /\ g[k] \in V
      BY <2>0
    <3> QED BY <2>2, <3>1
  <2>4. PICK f : f = [n \in 0..k + 1 |-> IF n = k + 1 THEN e ELSE g[n]]
    OBVIOUS
  <2>5. f \in [0..k + 1 -> V]
    BY <2>3, <2>4
  <2>6. f[k + 1] = e /\ \A n \in 0..k : f[n] = g[n]
    BY <2>4
  <2>7. f[0] = b
    BY <2>1, <2>6
  <2>8. \A n \in 1..k + 1 : f[n] = step[n][f[n - 1]]
    <3> TAKE n \in 1..k + 1
    <3>1. CASE n = k + 1
      <4>1. n - 1 = k /\ k \in 0..k
        BY <3>1
      <4> QED BY <2>2, <2>6, <3>1, <4>1
    <3>2. CASE n \in 1..k
      <4>1. n - 1 \in 0..k /\ n \in 0..k
        BY <3>2
      <4> QED BY <2>1, <2>6, <3>2, <4>1
    <3> QED BY <3>1, <3>2
  <2> QED BY <2>5, <2>7, <2>8
<1> HIDE DEF P
<1>3. P = Nat
  BY <1>1, <1>2, Stepwise DEF P
<1>4. m \in P
  BY <1>3
<1>5. PICK f \in [0..m -> V] : f[0] = b /\ \A n \in 1..m : f[n] = step[n][f[n - 1]]
  BY <1>4 DEF P
<1> QED BY <1>5 DEF Recursive

-----------------------------------------------------------------------------
(* What is left of a sequence when only members of a set are kept.         *)
Sieved(f, h, K) ==
    f = [n \in 0..Len(h) |-> IF n = 0 THEN <<>>
                             ELSE IF h[n] \in K THEN Append(f[n - 1], h[n]) ELSE f[n - 1]]
Sifted(s, h, n, K) ==
    /\ Distinctly(s)
    /\ \A x : (\E j \in 1..Len(s) : s[j] = x) <=> (\E i \in 1..n : h[i] = x /\ x \in K)

LEMMA SievesExist == ASSUME NEW V, NEW h \in Seq(V), NEW K PROVE \E f : Sieved(f, h, K)
<1>1. PICK m : m = Len(h)
  OBVIOUS
<1>2. m \in Nat /\ \A n \in 1..m : h[n] \in V
  BY <1>1
<1>3. PICK step : step = [n \in 1..m |-> [s \in Seq(V) |-> IF h[n] \in K THEN Append(s, h[n]) ELSE s]]
  OBVIOUS
<1>4. step \in [1..m -> [Seq(V) -> Seq(V)]]
  <2>1. \A n \in 1..m : \A s \in Seq(V) : (IF h[n] \in K THEN Append(s, h[n]) ELSE s) \in Seq(V)
    BY <1>2
  <2> QED BY <1>3, <2>1
<1>5. <<>> \in Seq(V)
  OBVIOUS
<1>5a. PICK f : Recursive(f, Seq(V), <<>>, m, step)
  BY <1>2, <1>4, <1>5, Recursion, Zenon
<1>6. f \in [0..m -> Seq(V)] /\ f[0] = <<>> /\ \A n \in 1..m : f[n] = step[n][f[n - 1]]
  BY <1>5a, Zenon DEF Recursive
<1>7. \A n \in 0..m : f[n] = IF n = 0 THEN <<>> ELSE IF h[n] \in K THEN Append(f[n - 1], h[n]) ELSE f[n - 1]
  <2> TAKE n \in 0..m
  <2>1. CASE n = 0
    BY <1>6, <2>1
  <2>2. CASE n \in 1..m
    <3>1. n - 1 \in 0..m /\ n # 0
      BY <1>2, <2>2
    <3>2. PICK q : q = f[n - 1]
      OBVIOUS
    <3>3. q \in Seq(V)
      BY <1>6, <3>1, <3>2
    <3>4. step[n][q] = IF h[n] \in K THEN Append(q, h[n]) ELSE q
      BY <1>3, <2>2, <3>3
    <3> QED BY <1>6, <2>2, <3>1, <3>2, <3>4
  <2>3. n = 0 \/ n \in 1..m
    BY <1>2
  <2> QED BY <2>1, <2>2, <2>3
<1>8. f = [n \in 0..m |-> f[n]]
  BY <1>6
<1>9. f = [n \in 0..m |-> IF n = 0 THEN <<>> ELSE IF h[n] \in K THEN Append(f[n - 1], h[n]) ELSE f[n - 1]]
  BY <1>7, <1>8
<1> QED BY <1>1, <1>9 DEF Sieved

LEMMA SiftsOn ==
    ASSUME NEW V, NEW h \in Seq(V), Distinctly(h), NEW K, NEW n \in Nat, n + 1 <= Len(h),
           NEW s \in Seq(V), Sifted(s, h, n, K)
    PROVE  Sifted(IF h[n + 1] \in K THEN Append(s, h[n + 1]) ELSE s, h, n + 1, K)
<1>1. PICK e : e = h[n + 1]
  OBVIOUS
<1>2. e \in V /\ n + 1 \in 1..Len(h) /\ \A i \in 1..n : i \in 1..Len(h) /\ i # n + 1
  BY <1>1
<1>3. Distinctly(s) /\ \A x : (\E j \in 1..Len(s) : s[j] = x) <=> (\E i \in 1..n : h[i] = x /\ x \in K)
  BY DEF Sifted
<1>4. \A i \in 1..n : h[i] # e
  BY <1>1, <1>2 DEF Distinctly
<1>5. \A x : (\E i \in 1..n + 1 : h[i] = x /\ x \in K) <=> (\E i \in 1..n : h[i] = x /\ x \in K) \/ (x = e /\ e \in K)
  <2>1. \A i : i \in 1..n + 1 <=> i \in 1..n \/ i = n + 1
    OBVIOUS
  <2> QED BY <1>1, <2>1, Zenon
<1>6. CASE e \notin K
  <2>1. Sifted(s, h, n + 1, K)
    BY <1>3, <1>5, <1>6, Zenon DEF Sifted
  <2> QED BY <1>1, <1>6, <2>1, Zenon
<1>7. CASE e \in K
  <2>1. PICK t : t = Append(s, e)
    OBVIOUS
  <2>2. PICK l : l = Len(s)
    OBVIOUS
  <2>3. l \in Nat /\ t \in Seq(V) /\ Len(t) = l + 1 /\ t[l + 1] = e /\ \A i \in 1..l : t[i] = s[i]
    BY <1>2, <2>1, <2>2, AppendIs
  <2>4. \A i : i \in 1..l + 1 <=> i \in 1..l \/ i = l + 1
    BY <2>3
  <2>5. \A x : (\E j \in 1..l + 1 : t[j] = x) <=> (\E j \in 1..l : s[j] = x) \/ x = e
    BY <2>3, <2>4, Zenon
  <2>6. \A j \in 1..l : s[j] # e
    BY <1>3, <1>4, <2>2, Zenon
  <2>7. Distinctly(t)
    <3> SUFFICES ASSUME NEW i \in 1..l + 1, NEW j \in 1..l + 1, t[i] = t[j] PROVE i = j
      BY <2>3 DEF Distinctly
    <3>1. CASE i \in 1..l /\ j \in 1..l
      BY <1>3, <2>2, <2>3, <3>1 DEF Distinctly
    <3>2. CASE i = l + 1 \/ j = l + 1
      BY <2>3, <2>4, <2>6, <3>2
    <3> QED BY <2>4, <3>1, <3>2
  <2>8. \A x : (\E j \in 1..Len(t) : t[j] = x) <=> (\E i \in 1..n + 1 : h[i] = x /\ x \in K)
    BY <1>3, <1>5, <1>7, <2>2, <2>3, <2>5, Zenon
  <2>9. Sifted(t, h, n + 1, K)
    BY <2>7, <2>8 DEF Sifted
  <2> QED BY <1>1, <1>7, <2>1, <2>9, Zenon
<1> QED BY <1>6, <1>7

LEMMA SieveIs ==
    ASSUME NEW V, NEW h \in Seq(V), Distinctly(h), NEW K, NEW f, Sieved(f, h, K)
    PROVE  f[Len(h)] \in Seq(V) /\ Sifted(f[Len(h)], h, Len(h), K)
<1>1. PICK m : m = Len(h)
  OBVIOUS
<1>2. m \in Nat /\ \A n \in 0..m : f[n] = IF n = 0 THEN <<>>
                              ELSE IF h[n] \in K THEN Append(f[n - 1], h[n]) ELSE f[n - 1]
  <2>1. Len(h) \in Nat
    OBVIOUS
  <2>2. \A n \in 0..Len(h) : f[n] = IF n = 0 THEN <<>>
                              ELSE IF h[n] \in K THEN Append(f[n - 1], h[n]) ELSE f[n - 1]
    BY Zenon DEF Sieved
  <2> QED BY <1>1, <2>1, <2>2, Zenon
<1> DEFINE P == {n \in Nat : n <= m => f[n] \in Seq(V) /\ Sifted(f[n], h, n, K)}
<1>3. 0 \in P
  <2>1. 0 \in 0..m
    BY <1>2
  <2>2. f[0] = <<>>
    BY <1>2, <2>1
  <2>3. <<>> \in Seq(V) /\ Sifted(<<>>, h, 0, K)
    BY DEF Sifted, Distinctly
  <2> QED BY <2>2, <2>3
<1>4. ASSUME NEW n \in P PROVE n + 1 \in P
  <2> SUFFICES ASSUME n + 1 <= m PROVE f[n + 1] \in Seq(V) /\ Sifted(f[n + 1], h, n + 1, K)
    OBVIOUS
  <2>1. n \in Nat /\ n <= m /\ n + 1 \in 0..m /\ n + 1 # 0 /\ n + 1 - 1 = n /\ n + 1 \in 1..Len(h)
    BY <1>1, <1>2
  <2>2. PICK s : s = f[n]
    OBVIOUS
  <2>3. s \in Seq(V) /\ Sifted(s, h, n, K)
    BY <2>1, <2>2
  <2>4. f[n + 1] = IF h[n + 1] \in K THEN Append(s, h[n + 1]) ELSE s
    BY <1>2, <2>1, <2>2
  <2>5. Sifted(IF h[n + 1] \in K THEN Append(s, h[n + 1]) ELSE s, h, n + 1, K)
    BY <1>1, <2>1, <2>3, SiftsOn
  <2>6. f[n + 1] \in Seq(V)
    <3>1. h[n + 1] \in V
      BY <2>1
    <3> QED BY <2>3, <2>4, <3>1
  <2> QED BY <2>4, <2>5, <2>6
<1> HIDE DEF P
<1>5. P = Nat
  BY <1>3, <1>4, Stepwise DEF P
<1>6. m \in P /\ m <= m
  BY <1>2, <1>5
<1>7. f[m] \in Seq(V) /\ Sifted(f[m], h, m, K)
  BY <1>6 DEF P
<1> QED BY <1>1, <1>7

-----------------------------------------------------------------------------
(* Sums of weights, the greater the weights are.                           *)
Summed(f, W, m) == f \in [0..m -> Nat] /\ f[0] = 0 /\ \A n \in 1..m : f[n] = f[n - 1] + W[n]

LEMMA SumsExist == ASSUME NEW m \in Nat, NEW W \in [1..m -> Nat] PROVE \E f : Summed(f, W, m)
<1>1. PICK step : step = [n \in 1..m |-> [v \in Nat |-> v + W[n]]]
  OBVIOUS
<1>2. step \in [1..m -> [Nat -> Nat]]
  BY <1>1
<1>3. 0 \in Nat
  OBVIOUS
<1>3a. PICK f : Recursive(f, Nat, 0, m, step)
  BY <1>2, <1>3, Recursion
<1>4. f \in [0..m -> Nat] /\ f[0] = 0 /\ \A n \in 1..m : f[n] = step[n][f[n - 1]]
  BY <1>3a DEF Recursive
<1>5. \A n \in 1..m : f[n] = f[n - 1] + W[n]
  <2> TAKE n \in 1..m
  <2>1. n - 1 \in 0..m
    OBVIOUS
  <2>2. f[n - 1] \in Nat
    BY <1>4, <2>1
  <2>3. step[n][f[n - 1]] = f[n - 1] + W[n]
    BY <1>1, <2>2
  <2> QED BY <1>4, <2>3
<1> QED BY <1>4, <1>5 DEF Summed

LEMMA SumsGrow ==
    ASSUME NEW m \in Nat, NEW V \in [1..m -> Nat], NEW W \in [1..m -> Nat], \A n \in 1..m : V[n] <= W[n],
           NEW f, NEW g, Summed(f, V, m), Summed(g, W, m)
    PROVE  f[m] <= g[m]
<1> DEFINE P == {k \in Nat : k <= m => f[k] <= g[k]}
<1>1. /\ f \in [0..m -> Nat] /\ f[0] = 0 /\ \A n \in 1..m : f[n] = f[n - 1] + V[n]
      /\ g \in [0..m -> Nat] /\ g[0] = 0 /\ \A n \in 1..m : g[n] = g[n - 1] + W[n]
  BY DEF Summed
<1>2. 0 \in P
  BY <1>1
<1>3. ASSUME NEW k \in P PROVE k + 1 \in P
  <2> SUFFICES ASSUME k + 1 <= m PROVE f[k + 1] <= g[k + 1]
    OBVIOUS
  <2>1. k \in Nat /\ k <= m /\ k \in 0..m /\ k + 1 \in 1..m /\ k + 1 - 1 = k
    OBVIOUS
  <2>2. f[k] <= g[k] /\ f[k] \in Nat /\ g[k] \in Nat
    BY <1>1, <2>1
  <2>3. V[k + 1] <= W[k + 1] /\ V[k + 1] \in Nat /\ W[k + 1] \in Nat
    BY <2>1
  <2>4. f[k + 1] = f[k] + V[k + 1] /\ g[k + 1] = g[k] + W[k + 1]
    BY <1>1, <2>1
  <2> QED BY <2>2, <2>3, <2>4
<1> HIDE DEF P
<1>4. P = Nat
  BY <1>2, <1>3, Stepwise DEF P
<1>5. m \in P
  BY <1>4
<1> QED BY <1>5 DEF P
-----------------------------------------------------------------------------
(* What is known of a search at its stages.  A wide one, whose pool is of  *)
(* all there is, has among its candidates all that nobody touched, and     *)
(* what is ranked is in the order of its blended scores.                   *)
SearchTypes ==
    /\ memory \in Memories
    /\ row \in [SearchedDrawer -> Wings \cup {Absent}]
    /\ vector \subseteq SearchedDrawer /\ touched \subseteq SearchedDrawer
    /\ ask \in [wing : Wings \cup {Absent}, limit : Nat, pool : Nat]
    /\ stage \in {"asked", "found", "resolved", "boosted", "ranked", "answered"}
    /\ hits \in Seq(SearchedDrawer) /\ Distinctly(hits)
    /\ survivors \in Seq(SearchedDrawer) /\ Distinctly(survivors)
    /\ ranked \in Seq(SearchedDrawer) /\ scores \in Seq(Int) /\ reranked \in BOOLEAN
    /\ boosts \in [Sources -> {0} \cup Search!ToSet(RankBoosts)]

Wide == ask.wing # Absent /\ FilterPool >= Cardinality(SearchedDrawer)
Wanted(d) == row[d] = ask.wing /\ Search!Near(d) >= Far
AllFound ==
    /\ stage = "asked" => \A d \in SearchedDrawer \ touched : d \in vector
    /\ stage = "found" /\ Wide => \A d \in SearchedDrawer \ touched : d \in Search!ToSet(hits)
    /\ stage \in {"resolved", "boosted", "ranked"} /\ Wide =>
         \A d \in SearchedDrawer \ touched : Wanted(d) => d \in Search!ToSet(survivors)

(* What survived was right when its row was loaded, and nothing is read or *)
(* changed afterwards.                                                     *)
AsLoaded ==
    stage \in {"resolved", "boosted", "ranked"} =>
       \A d \in Search!ToSet(survivors) : Search!Kept(d)

Blend == [i \in DOMAIN survivors |-> Search!Fused(survivors[i])]
Narrowing ==
    /\ stage \in {"asked", "found"} => survivors = <<>>
    /\ stage \in {"asked", "found", "resolved", "boosted"} => ranked = <<>> /\ scores = <<>>
    /\ stage # "answered" => reranked = FALSE /\ answer = <<>>
    /\ stage = "ranked" => ranked = Search!Sorted(survivors, Blend)
    /\ Search!ToSet(survivors) \subseteq Search!ToSet(hits)
    /\ Search!ToSet(ranked) \subseteq Search!ToSet(survivors)
    /\ Len(scores) <= Search!Pool /\ Len(answer) <= ask.limit

Fair == Search!RankingIsFair /\ Search!FilterFindsAll /\ Search!AnswersAsAsked
SearchInv == SearchTypes /\ AllFound /\ AsLoaded /\ Narrowing /\ Fair

LEMMA SearchGiven ==
    /\ IsFiniteSet(SearchedDrawer) /\ Absent \notin Wings
    /\ Query \in Seq(Word) /\ RankBoosts \in Seq(Nat)
    /\ \A m \in Memories : /\ m.count \in [SearchedDrawer -> [Word -> Nat]]
                           /\ m.length \in [SearchedDrawer -> Nat]
                           /\ m.source \in [SearchedDrawer -> Sources]
                           /\ m.near \in [SearchedDrawer -> Int]
    /\ \A list \in ClosetLists : list \in Seq([row : BOOLEAN, source : Sources, near : BOOLEAN])
    /\ Asked \subseteq Int /\ Rerankers \subseteq Nat
    /\ DefaultLimit \in Nat \ {0} /\ MaxLimit \in Nat \ {0} /\ Batch \in Nat \ {0}
    /\ Unit \in Nat /\ Multiplier \in Nat /\ FilterPool \in Nat /\ Far \in Int /\ MaxTouched \in Nat
<1>1. \A S : Search!IsFiniteSet(S) <=> IsFiniteSet(S)
  BY Zenon DEF Search!IsFiniteSet, IsFiniteSet
<1> QED BY SearchAssumption, <1>1 DEF Search!Assumptions

LEMMA GreaterOfThree ==
    \A a, b, c \in Nat : LET m == Search!Max({a, b, c}) IN m \in Nat /\ m >= a /\ m >= b /\ m >= c
<1> TAKE a, b, c \in Nat
<1>1. \E x \in {a, b, c} : \A y \in {a, b, c} : x >= y
  OBVIOUS
<1>2. PICK m : m = Search!Max({a, b, c})
  OBVIOUS
<1>3. m \in {a, b, c} /\ \A y \in {a, b, c} : m >= y
  BY <1>1, <1>2 DEF Search!Max
<1> QED BY <1>2, <1>3

LEMMA CandidatesAre ==
    ASSUME SearchTypes
    PROVE  /\ Search!CandidateK \in Nat
           /\ Wide => Search!CandidateK >= Cardinality(SearchedDrawer)
<1>1. ask.limit \in Nat /\ ask.pool \in Nat /\ Multiplier \in Nat /\ FilterPool \in Nat
  BY SearchGiven DEF SearchTypes
<1>2. PICK a, b, c : a = ask.limit * Multiplier /\ b = ask.pool /\ c = IF ask.wing # Absent THEN FilterPool ELSE 0
  OBVIOUS
<1>3. a \in Nat /\ b \in Nat /\ c \in Nat /\ (Wide => c = FilterPool)
  BY <1>1, <1>2 DEF Wide
<1>4. Search!CandidateK = Search!Max({a, b, c})
  BY <1>2, Zenon DEF Search!CandidateK
<1>5. Search!Max({a, b, c}) \in Nat /\ Search!Max({a, b, c}) >= c
  BY <1>3, GreaterOfThree
<1>6. Cardinality(SearchedDrawer) \in Nat
  BY SearchGiven, FS_CardinalityType
<1> QED BY <1>1, <1>3, <1>4, <1>5, <1>6 DEF Wide

LEMMA UpTo == ASSUME NEW n \in Nat PROVE IsFiniteSet(1..n) /\ Cardinality(1..n) = n
<1>1. 1 \in Int /\ n \in Int
  OBVIOUS
<1> QED BY <1>1, FS_Interval

LEMMA ListsAre ==
    ASSUME NEW S, NEW m \in Nat, NEW s \in [1..m -> S]
    PROVE  s \in Seq(S) /\ Len(s) = m /\ DOMAIN s = 1..m
OBVIOUS

(* With room for all vectors all are fetched.                              *)
LEMMA NearestAre ==
    ASSUME NEW V, V \subseteq SearchedDrawer, NEW k \in Nat, NEW s, NEW m,
           m = Search!Min({k, Search!Cardinality(V)}), s \in [1..m -> V], Search!IsInjective(s)
    PROVE  /\ s \in Seq(SearchedDrawer) /\ Distinctly(s)
           /\ k >= Cardinality(SearchedDrawer) => \A d \in V : d \in Search!ToSet(s)
<1>1. IsFiniteSet(V) /\ Cardinality(V) \in Nat /\ Cardinality(V) <= Cardinality(SearchedDrawer)
      /\ Cardinality(SearchedDrawer) \in Nat
  BY SearchGiven, FS_Subset, FS_CardinalityType
<1>2. PICK c : c = Cardinality(V)
  OBVIOUS
<1>3. Search!Cardinality(V) = c
  BY <1>2, SearchCardinality
<1>4. m = Search!Min({k, c}) /\ c \in Nat
  BY <1>1, <1>2, <1>3
<1>5. m \in Nat /\ (k >= c => m = c)
  BY <1>4, SearchLesserIs
<1>6. s \in Seq(SearchedDrawer) /\ Len(s) = m /\ DOMAIN s = 1..m
  <2>1. \A i \in 1..m : s[i] \in SearchedDrawer
    OBVIOUS
  <2>2. s = [i \in 1..m |-> s[i]]
    OBVIOUS
  <2>3. s \in [1..m -> SearchedDrawer]
    BY <2>1, <2>2
  <2>4. m \in Nat
    BY <1>5
  <2> QED BY <2>3, <2>4, ListsAre, Zenon
<1>7. \A i, j \in 1..m : s[i] = s[j] => i = j
  BY <1>6 DEF Search!IsInjective
<1>8. ASSUME k >= Cardinality(SearchedDrawer), NEW d \in V PROVE d \in Search!ToSet(s)
  <2>1. m = c
    BY <1>1, <1>2, <1>4, <1>5, <1>8
  <2>2. IsFiniteSet(1..m) /\ Cardinality(1..m) = m
    <3>1. 1 \in Int /\ m \in Int /\ (1 > m => m = 0)
      BY <1>5
    <3> QED BY <1>5, <3>1, FS_Interval
  <2>3. s \in Injection(1..m, V)
    BY <1>6, <1>7 DEF Injection, IsInjective
  <2>4. s \in Surjection(1..m, V)
    BY <1>1, <1>2, <2>1, <2>2, <2>3, FS_Injection
  <2>5. PICK i \in 1..m : s[i] = d
    BY <2>4 DEF Surjection
  <2> QED BY <1>6, <2>5 DEF Search!ToSet
<1>9. Distinctly(s)
  BY <1>6, <1>7 DEF Distinctly
<1> QED BY <1>6, <1>8, <1>9

LEMMA RetrieveKeeps == ASSUME SearchInv, Search!Retrieve PROVE SearchInv'
<1> USE DEF SearchInv
<1>1. stage = "asked" /\ stage' = "found" /\ hits' \in Search!Nearest(Search!CandidateK)
      /\ UNCHANGED <<memory, row, vector, touched, ask, survivors, boosts, ranked, scores, reranked, answer>>
  BY DEF Search!Retrieve
<1>2. PICK k, V, s : k = Search!CandidateK /\ V = vector /\ s = hits'
  OBVIOUS
<1>3. PICK m : m = Search!Min({k, Search!Cardinality(V)})
  OBVIOUS
<1>4. s \in [1..m -> V] /\ Search!IsInjective(s)
  BY <1>1, <1>2, <1>3 DEF Search!Nearest
<1>5. k \in Nat /\ V \subseteq SearchedDrawer /\ (Wide => k >= Cardinality(SearchedDrawer))
  BY <1>2, CandidatesAre DEF SearchTypes
<1>6. /\ s \in Seq(SearchedDrawer) /\ Distinctly(s)
      /\ k >= Cardinality(SearchedDrawer) => \A d \in V : d \in Search!ToSet(s)
  BY <1>3, <1>4, <1>5, NearestAre, Zenon
<1>7. SearchTypes'
  BY <1>1, <1>2, <1>6 DEF SearchTypes
<1>8. Wide' <=> Wide
  BY <1>1 DEF Wide
<1>9. AllFound'
  BY <1>1, <1>2, <1>5, <1>6, <1>8 DEF AllFound
<1>10. Narrowing'
  <2>1. survivors = <<>>
    BY <1>1 DEF Narrowing
  <2>2. Search!ToSet(survivors) = {}
    BY <2>1 DEF Search!ToSet
  <2>3. Search!Pool' = Search!Pool
    BY <1>1 DEF Search!Pool
  <2> QED BY <1>1, <2>1, <2>2, <2>3 DEF Narrowing, Search!ToSet
<1>11. Fair'
  BY <1>1 DEF Fair, Search!RankingIsFair, Search!FilterFindsAll, Search!AnswersAsAsked
<1>12. AsLoaded'
  BY <1>1 DEF AsLoaded
<1> QED BY <1>7, <1>9, <1>10, <1>11, <1>12

LEMMA SurvivorsAre ==
    ASSUME SearchTypes
    PROVE  /\ Search!Survivors \in Seq(SearchedDrawer) /\ Distinctly(Search!Survivors)
           /\ \A x : x \in Search!ToSet(Search!Survivors) <=> x \in Search!ToSet(hits) /\ x \in SearchedDrawer /\ Search!Kept(x)
<1>1. PICK h, K : h = hits /\ K = {d \in SearchedDrawer : Search!Kept(d)}
  OBVIOUS
<1>2. h \in Seq(SearchedDrawer) /\ Distinctly(h)
  BY <1>1 DEF SearchTypes
<1>3. \A n \in 0..Len(h) : n # 0 => h[n] \in SearchedDrawer /\ (h[n] \in K <=> Search!Kept(hits[n]))
  <2> TAKE n \in 0..Len(h)
  <2> HAVE n # 0
  <2>1. n \in 1..Len(h)
    OBVIOUS
  <2>2. h[n] \in SearchedDrawer
    BY <1>2, <2>1
  <2> QED BY <1>1, <2>2
<1> DEFINE G(f) == f = [n \in 0..Len(hits) |-> IF n = 0 THEN <<>>
                          ELSE IF Search!Kept(hits[n]) THEN Append(f[n - 1], hits[n]) ELSE f[n - 1]]
<1>4. \A f : G(f) <=> Sieved(f, h, K)
  <2> TAKE f
  <2>1. \A n \in 0..Len(h) : (IF n = 0 THEN <<>>
                          ELSE IF Search!Kept(hits[n]) THEN Append(f[n - 1], hits[n]) ELSE f[n - 1])
                    = (IF n = 0 THEN <<>> ELSE IF h[n] \in K THEN Append(f[n - 1], h[n]) ELSE f[n - 1])
    BY <1>1, <1>3, Zenon
  <2>2. [n \in 0..Len(h) |-> IF n = 0 THEN <<>>
                          ELSE IF Search!Kept(hits[n]) THEN Append(f[n - 1], hits[n]) ELSE f[n - 1]]
        = [n \in 0..Len(h) |-> IF n = 0 THEN <<>> ELSE IF h[n] \in K THEN Append(f[n - 1], h[n]) ELSE f[n - 1]]
    BY <2>1, Zenon
  <2> QED BY <1>1, <2>2, Zenon DEF Sieved
<1>5. PICK g : Sieved(g, h, K)
  BY <1>2, SievesExist
<1>6. PICK f : f = CHOOSE x : G(x)
  OBVIOUS
<1>7. Sieved(f, h, K)
  <2>1. G(g)
    BY <1>4, <1>5, Zenon
  <2>2. G(f)
    <3> HIDE DEF G
    <3> QED BY <1>6, <2>1, Zenon
  <2> QED BY <1>4, <2>2, Zenon
<1>8. Search!Survivors = f[Len(h)]
  BY <1>1, <1>6, Zenon DEF Search!Survivors
<1>9. PICK s : s = f[Len(h)]
  OBVIOUS
<1>10. s \in Seq(SearchedDrawer) /\ Sifted(s, h, Len(h), K)
  BY <1>2, <1>7, <1>9, SieveIs, Zenon
<1>11. Distinctly(s) /\ \A x : (\E j \in 1..Len(s) : s[j] = x) <=> (\E i \in 1..Len(h) : h[i] = x /\ x \in K)
  BY <1>10 DEF Sifted
<1>12. DOMAIN s = 1..Len(s) /\ DOMAIN h = 1..Len(h)
  BY <1>2, <1>10
<1>13. \A x : x \in Search!ToSet(s) <=> x \in Search!ToSet(h) /\ x \in K
  <2> TAKE x
  <2>1. x \in Search!ToSet(s) <=> \E j \in 1..Len(s) : s[j] = x
    BY <1>12 DEF Search!ToSet
  <2>2. x \in Search!ToSet(h) <=> \E i \in 1..Len(h) : h[i] = x
    BY <1>12 DEF Search!ToSet
  <2> QED BY <1>11, <2>1, <2>2, Zenon
<1>14. \A x : x \in K <=> x \in SearchedDrawer /\ Search!Kept(x)
  BY <1>1
<1>15. Search!Survivors = s
  BY <1>8, <1>9
<1> QED BY <1>1, <1>10, <1>11, <1>13, <1>14, <1>15, Zenon

LEMMA ResolveKeeps == ASSUME SearchInv, Search!Resolve PROVE SearchInv'
<1> USE DEF SearchInv
<1>1. stage = "found" /\ stage' = "resolved" /\ survivors' = Search!Survivors
      /\ UNCHANGED <<memory, row, vector, touched, ask, hits, boosts, ranked, scores, reranked, answer>>
  BY DEF Search!Resolve
<1>2. PICK s : s = Search!Survivors
  OBVIOUS
<1>3. s \in Seq(SearchedDrawer) /\ Distinctly(s)
      /\ \A x : x \in Search!ToSet(s) <=> x \in Search!ToSet(hits) /\ x \in SearchedDrawer /\ Search!Kept(x)
  BY <1>2, SurvivorsAre, Zenon
<1>4. SearchTypes'
  BY <1>1, <1>2, <1>3 DEF SearchTypes
<1>5. AllFound'
  <2>1. Wide' <=> Wide
    BY <1>1 DEF Wide
  <2>2. ASSUME Wide, NEW d \in SearchedDrawer, d \notin touched, Wanted(d)' PROVE d \in Search!ToSet(s)
    <3>1. d \in Search!ToSet(hits)
      BY <1>1, <2>2 DEF AllFound
    <3>2. Wanted(d) /\ ask.wing # Absent
      BY <1>1, <2>2 DEF Wanted, Wide, Search!Near
    <3>3. Search!Kept(d)
      BY <3>2 DEF Wanted, Search!Kept
    <3> QED BY <1>3, <3>1, <3>3
  <2> QED BY <1>1, <1>2, <2>1, <2>2 DEF AllFound
<1>6. Narrowing'
  <2>1. ranked = <<>>
    BY <1>1 DEF Narrowing
  <2>2. Search!ToSet(ranked) = {}
    BY <2>1 DEF Search!ToSet
  <2>3. Search!Pool' = Search!Pool
    BY <1>1 DEF Search!Pool
  <2> QED BY <1>1, <1>2, <1>3, <2>1, <2>2, <2>3 DEF Narrowing
<1>7. Fair'
  BY <1>1 DEF Fair, Search!RankingIsFair, Search!FilterFindsAll, Search!AnswersAsAsked
<1>8. AsLoaded'
  <2>1. \A x \in Search!ToSet(s) : Search!Kept(x)
    BY <1>3
  <2>2. \A x : Search!Kept(x)' <=> Search!Kept(x)
    BY <1>1 DEF Search!Kept, Search!Near
  <2>3. Search!ToSet(survivors)' = Search!ToSet(s)
    BY <1>1, <1>2 DEF Search!ToSet
  <2> QED BY <2>1, <2>2, <2>3 DEF AsLoaded
<1> QED BY <1>4, <1>5, <1>6, <1>7, <1>8

LEMMA BoostIs ==
    ASSUME NEW list \in ClosetLists, NEW s
    PROVE  Search!ClosetBoost(list, s) \in {0} \cup Search!ToSet(RankBoosts)
<1>1. PICK a, b, m : a = Len(list) /\ b = Len(RankBoosts) /\ m = Search!Min({a, b})
  OBVIOUS
<1>2. a \in Nat /\ b \in Nat
  BY <1>1, SearchGiven
<1>3. m \in Nat /\ m <= b
  BY <1>1, <1>2, SearchLesserIs
<1>4. PICK of : of = {i \in 1..m : list[i].row /\ list[i].source = s}
  OBVIOUS
<1>5. of \in SUBSET 1..m
  BY <1>4
<1>6. Search!ClosetBoost(list, s) =
        IF of # {} /\ list[Search!Min(of)].near THEN RankBoosts[Search!Min(of)] ELSE 0
  BY <1>1, <1>4, Zenon DEF Search!ClosetBoost
<1>7. CASE of # {}
  <2>1. of \in SUBSET Int /\ \A x \in of : 0 <= x
    BY <1>3, <1>5
  <2>2. 0 \in Int
    OBVIOUS
  <2>3. Min(of) \in of
    BY <1>7, <2>1, <2>2, Smallest
  <2>4. PICK n : n = Search!Min(of)
    OBVIOUS
  <2>5. n \in of
    BY <2>3, <2>4, Zenon DEF Search!Min, Min
  <2>6. n \in 1..b
    BY <1>2, <1>3, <1>5, <2>5
  <2>7. RankBoosts[n] \in Search!ToSet(RankBoosts)
    BY <1>1, <2>6, SearchGiven DEF Search!ToSet
  <2> QED BY <1>6, <2>4, <2>7, Zenon
<1>8. CASE of = {}
  BY <1>6, <1>8
<1> QED BY <1>7, <1>8

LEMMA BoostsKeep == ASSUME SearchInv, Search!BoostSources PROVE SearchInv'
<1> USE DEF SearchInv
<1>1. stage = "resolved" /\ stage' = "boosted"
      /\ UNCHANGED <<memory, row, vector, touched, ask, hits, survivors, ranked, scores, reranked, answer>>
  BY DEF Search!BoostSources
<1>2. boosts' \in [Sources -> {0} \cup Search!ToSet(RankBoosts)]
  BY BoostIs DEF Search!BoostSources
<1>3. SearchTypes'
  BY <1>1, <1>2 DEF SearchTypes
<1>4. AllFound'
  BY <1>1 DEF AllFound, Wide, Wanted, Search!Near
<1>5. Narrowing'
  BY <1>1 DEF Narrowing, Search!Pool
<1>6. Fair'
  BY <1>1 DEF Fair, Search!RankingIsFair, Search!FilterFindsAll, Search!AnswersAsAsked
<1>7. AsLoaded'
  BY <1>1 DEF AsLoaded, Search!Kept, Search!Near, Search!ToSet
<1> QED BY <1>3, <1>4, <1>5, <1>6, <1>7

-----------------------------------------------------------------------------
(* The weights of words are positive, whatever the candidates have.        *)
LEMMA IdfIs == ASSUME SearchTypes PROVE \A w : Search!Idf(w) \in 1..1 + Len(survivors)
<1> TAKE w
<1>1. PICK v, n : v = survivors /\ n = Len(survivors)
  OBVIOUS
<1>2. n \in Nat /\ v \in Seq(SearchedDrawer) /\ n = Len(v) /\ DOMAIN v = 1..n
  BY <1>1 DEF SearchTypes
<1>3. IsFiniteSet(1..n) /\ Cardinality(1..n) = n
  <2>1. n \in Nat
    BY <1>2
  <2> QED BY <2>1, UpTo, Zenon
<1>4. PICK T : T = {v[i] : i \in 1..n}
  OBVIOUS
<1>5. v \in Surjection(1..n, T)
  BY <1>2, <1>4 DEF Surjection
<1>6. IsFiniteSet(T) /\ Cardinality(T) <= n
  BY <1>3, <1>5, FS_Surjection
<1>7. PICK U : U = Search!Holding(w)
  OBVIOUS
<1>8. U \subseteq T
  BY <1>1, <1>2, <1>4, <1>7 DEF Search!Holding, Search!ToSet
<1>9. IsFiniteSet(U) /\ Cardinality(U) <= Cardinality(T) /\ Cardinality(U) \in Nat /\ Cardinality(T) \in Nat
  BY <1>6, <1>8, FS_Subset, FS_CardinalityType
<1>10. PICK c : c = Cardinality(U)
  OBVIOUS
<1>11. c \in Nat /\ c <= n
  BY <1>2, <1>6, <1>9, <1>10
<1>12. Search!Idf(w) = 1 + n - Search!Cardinality(U)
  BY <1>1, <1>7, Zenon DEF Search!Idf
<1>13. Search!Cardinality(U) = c
  BY <1>10, SearchCardinality
<1> QED BY <1>1, <1>2, <1>11, <1>12, <1>13

(* A total is the last of the sums of ever more.                           *)
LEMMA TotalIs ==
    ASSUME NEW m \in Nat, NEW W \in [1..m -> Nat]
    PROVE  \E f : Summed(f, W, m) /\ Search!Total(W) = f[m]
<1>1. Len(W) = m
  BY ListsAre
<1> DEFINE G(f) == f = [n \in 0..Len(W) |-> IF n = 0 THEN 0 ELSE f[n - 1] + W[n]]
<1>2. PICK g : Summed(g, W, m)
  BY SumsExist
<1>3. g \in [0..m -> Nat] /\ g[0] = 0 /\ \A n \in 1..m : g[n] = g[n - 1] + W[n]
  BY <1>2 DEF Summed
<1>4. G(g)
  <2>1. \A n \in 0..m : g[n] = IF n = 0 THEN 0 ELSE g[n - 1] + W[n]
    <3> TAKE n \in 0..m
    <3>1. CASE n = 0
      BY <1>3, <3>1
    <3>2. CASE n # 0
      <4>1. n \in 1..m
        BY <3>2
      <4> QED BY <1>3, <3>2, <4>1
    <3> QED BY <3>1, <3>2
  <2>2. g = [n \in 0..m |-> g[n]]
    BY <1>3
  <2>3. g = [n \in 0..m |-> IF n = 0 THEN 0 ELSE g[n - 1] + W[n]]
    BY <2>1, <2>2, Zenon
  <2> QED BY <1>1, <2>3, Zenon
<1>5. PICK f : f = CHOOSE x : G(x)
  OBVIOUS
<1>6. G(f)
  <2> HIDE DEF G
  <2> QED BY <1>4, <1>5, Zenon
<1>7. Summed(f, W, m)
  <2>1. f = [n \in 0..m |-> IF n = 0 THEN 0 ELSE f[n - 1] + W[n]]
    BY <1>1, <1>6, Zenon
  <2>2. f[0] = 0
    <3>1. 0 \in 0..m
      OBVIOUS
    <3> QED BY <2>1, <3>1, Zenon
  <2>3. ASSUME NEW n \in 1..m PROVE f[n] = f[n - 1] + W[n]
    <3>1. n \in 0..m /\ n # 0
      OBVIOUS
    <3> QED BY <2>1, <3>1, Zenon
  <2> DEFINE P == {n \in Nat : n <= m => f[n] \in Nat}
  <2>4. 0 \in P
    BY <2>2
  <2>5. ASSUME NEW n \in P PROVE n + 1 \in P
    <3> SUFFICES ASSUME n + 1 <= m PROVE f[n + 1] \in Nat
      OBVIOUS
    <3>1. n + 1 \in 1..m /\ n + 1 - 1 = n /\ n <= m /\ n \in Nat
      OBVIOUS
    <3>2. f[n] \in Nat /\ W[n + 1] \in Nat
      BY <3>1
    <3> QED BY <2>3, <3>1, <3>2
  <2> HIDE DEF P
  <2>6. P = Nat
    BY <2>4, <2>5, Stepwise DEF P
  <2>7. \A n \in 0..m : f[n] \in Nat
    <3> TAKE n \in 0..m
    <3>1. n \in Nat /\ n <= m
      OBVIOUS
    <3> QED BY <2>6, <3>1 DEF P
  <2>8. f = [n \in 0..m |-> f[n]]
    BY <2>1
  <2>9. f \in [0..m -> Nat]
    BY <2>7, <2>8
  <2> QED BY <2>2, <2>3, <2>9 DEF Summed
<1>8. Search!Total(W) = f[m]
  BY <1>1, <1>5, Zenon DEF Search!Total
<1> QED BY <1>7, <1>8

(* Products of ordered numbers are ordered.                                *)
LEMMA ProductsOf == \A a, b \in Nat : a * b \in Nat
OBVIOUS
LEMMA TimesGrows == \A a, b, c \in Nat : a <= b => c * a <= c * b
OBVIOUS

LEMMA SharesGrow ==
    ASSUME NEW n \in Nat, NEW d \in Nat, d > 0, NEW m \in Nat, NEW e \in Nat, e > 0, n * e <= m * d
    PROVE  n \div d \in Nat /\ n \div d <= m \div e
<1>1. PICK q, r : q = n \div d /\ r = m \div e
  OBVIOUS
<1>2. q \in Nat /\ q * d <= n
  BY <1>1
<1>3. r \in Nat /\ m < (r + 1) * e
  BY <1>1
<1>4. q <= r
  <2> SUFFICES ASSUME r + 1 <= q PROVE FALSE
    BY <1>2, <1>3
  <2>1. (r + 1) * e <= q * e
    BY <1>2, <1>3
  <2>2. m + 1 <= q * e
    <3>1. PICK u, v : u = (r + 1) * e /\ v = q * e
      OBVIOUS
    <3>2. u \in Nat /\ v \in Nat
      BY <1>2, <1>3, <3>1
    <3> QED BY <1>3, <2>1, <3>1, <3>2
  <2>3. (m + 1) * d <= (q * e) * d
    <3>1. PICK v : v = q * e
      OBVIOUS
    <3>2. v \in Nat
      BY <1>2, <3>1
    <3>3. d * (m + 1) <= d * v
      BY <2>2, <3>1, <3>2, TimesGrows
    <3> QED BY <3>1, <3>2, <3>3
  <2>4. (q * d) * e <= n * e
    <3>1. PICK v : v = q * d
      OBVIOUS
    <3>2. v \in Nat
      BY <1>2, <3>1
    <3>3. e * v <= e * n
      BY <1>2, <3>1, <3>2, TimesGrows
    <3> QED BY <3>1, <3>2, <3>3
  <2>5. (q * d) * e = (q * e) * d
    BY <1>2
  <2>6. (m + 1) * d = m * d + d
    OBVIOUS
  <2>7. PICK a, b, c, f, g : a = (q * d) * e /\ b = m * d /\ c = n * e /\ f = (q * e) * d /\ g = (m + 1) * d
    OBVIOUS
  <2>8. a \in Nat /\ b \in Nat /\ c \in Nat /\ f \in Nat /\ g \in Nat
    BY <1>2, <2>7
  <2> QED BY <2>3, <2>4, <2>5, <2>6, <2>7, <2>8
<1> QED BY <1>1, <1>2, <1>4

LEMMA SharesStay ==
    ASSUME NEW n \in Nat, NEW d \in Nat, d > 0, NEW l \in Nat, n < (l + 1) * d
    PROVE  n \div d \in 0..l
<1>1. PICK q : q = n \div d
  OBVIOUS
<1>2. q \in Nat /\ q * d <= n
  BY <1>1
<1>3. q <= l
  <2> SUFFICES ASSUME l + 1 <= q PROVE FALSE
    BY <1>2
  <2>1. d * (l + 1) <= d * q
    BY <1>2, TimesGrows
  <2> QED BY <1>2, <2>1
<1> QED BY <1>1, <1>2, <1>3

(* What a word counts grows with how often it is there and falls with the  *)
(* length of the text, and is at most what it tends to.                    *)
Share(u, o, a, b) == (20 * u * o * a) \div (8 * o * a + b)

LEMMA SharesAre ==
    ASSUME NEW u \in Nat, NEW o \in Nat, NEW a \in Nat, NEW b \in Nat, b > 0
    PROVE  Share(u, o, a, b) \in 0..3 * u
<1>1. PICK x : x = o * a
  OBVIOUS
<1>2. x \in Nat
  BY <1>1
<1>3. PICK n, d, l : n = 20 * u * o * a /\ d = 8 * o * a + b /\ l = 3 * u
  OBVIOUS
<1>4. n = 20 * (u * x) /\ d = 8 * x + b
  BY <1>1, <1>3
<1>5. PICK y, z : y = u * x /\ z = u * b
  OBVIOUS
<1>6. y \in Nat /\ z \in Nat /\ l \in Nat
  BY <1>2, <1>3, <1>5
<1>7. (l + 1) * d = 24 * y + 3 * z + 8 * x + b
  BY <1>2, <1>3, <1>4, <1>5
<1>8. n \in Nat /\ d \in Nat /\ d > 0 /\ n < (l + 1) * d
  BY <1>2, <1>4, <1>5, <1>6, <1>7
<1>9. n \div d \in 0..l
  BY <1>6, <1>8, SharesStay
<1> QED BY <1>3, <1>9 DEF Share

LEMMA SharesOrdered ==
    ASSUME NEW u \in Nat, NEW o \in Nat, NEW p \in Nat, NEW a \in Nat, NEW b \in Nat, NEW c \in Nat,
           c > 0, c <= b, o <= p
    PROVE  Share(u, o, a, b) <= Share(u, p, a, c)
<1>1. PICK n, d, m, e : n = 20 * u * o * a /\ d = 8 * o * a + b /\ m = 20 * u * p * a /\ e = 8 * p * a + c
  OBVIOUS
<1>2. PICK t, x, y : t = 20 * u * a /\ x = o * a /\ y = p * a
  OBVIOUS
<1>3. t \in Nat /\ x \in Nat /\ y \in Nat
  BY <1>2
<1>4. n = t * o /\ m = t * p /\ d = 8 * x + b /\ e = 8 * y + c
  BY <1>1, <1>2
<1>5. n \in Nat /\ m \in Nat /\ d \in Nat /\ e \in Nat /\ d > 0 /\ e > 0
  <2>1. n \in Nat /\ m \in Nat
    BY <1>3, <1>4
  <2> QED BY <1>3, <1>4, <2>1
<1>6. o * e = 8 * (o * y) + o * c /\ p * d = 8 * (p * x) + p * b
  BY <1>3, <1>4
<1>7. o * y = p * x
  BY <1>2
<1>8. o * c <= p * b
  <2>1. o * c <= p * c
    OBVIOUS
  <2>2. p * c <= p * b
    OBVIOUS
  <2>3. PICK f, g, h : f = o * c /\ g = p * c /\ h = p * b
    OBVIOUS
  <2>4. f \in Nat /\ g \in Nat /\ h \in Nat
    BY <2>3
  <2> QED BY <2>1, <2>2, <2>3, <2>4
<1>9. PICK v, w : v = o * e /\ w = p * d
  OBVIOUS
<1>10. v \in Nat /\ w \in Nat
  BY <1>5, <1>9
<1>11. v <= w
  <2>1. PICK f, g, h : f = o * c /\ g = p * b /\ h = o * y
    OBVIOUS
  <2>2. f \in Nat /\ g \in Nat /\ h \in Nat
    BY <1>3, <2>1
  <2> QED BY <1>6, <1>7, <1>8, <1>9, <2>1, <2>2
<1>12. t * v <= t * w
  BY <1>3, <1>10, <1>11, TimesGrows
<1>13. n * e = t * v /\ m * d = t * w
  BY <1>3, <1>4, <1>5, <1>9
<1>14. n * e <= m * d
  BY <1>12, <1>13
<1>15. n \div d <= m \div e
  BY <1>5, <1>14, SharesGrow
<1> QED BY <1>1, <1>15 DEF Share

LEMMA SearchedTexts ==
    ASSUME SearchTypes
    PROVE  /\ memory.count \in [SearchedDrawer -> [Word -> Nat]] /\ memory.length \in [SearchedDrawer -> Nat]
           /\ Unit \in Nat /\ Len(survivors) \in Nat /\ Len(Query) \in Nat
           /\ DOMAIN Query = 1..Len(Query) /\ \A n \in 1..Len(Query) : Query[n] \in Word
BY SearchGiven DEF SearchTypes

LEMMA WordsAre == ASSUME SearchTypes PROVE Search!Words \in Nat
<1>1. PICK v, m : v = survivors /\ m = Len(survivors)
  OBVIOUS
<1>2. m \in Nat /\ DOMAIN v = 1..m /\ \A i \in 1..m : v[i] \in SearchedDrawer
  BY <1>1 DEF SearchTypes
<1>3. PICK W : W = [i \in 1..m |-> memory.length[v[i]]]
  OBVIOUS
<1>4. W \in [1..m -> Nat]
  <2>1. \A i \in 1..m : memory.length[v[i]] \in Nat
    BY <1>2, SearchedTexts
  <2> QED BY <1>3, <2>1
<1>5. Search!Words = Search!Total(W)
  BY <1>1, <1>2, <1>3, Zenon DEF Search!Words
<1>6. PICK f : Summed(f, W, m) /\ Search!Total(W) = f[m]
  BY <1>2, <1>4, TotalIs
<1> QED BY <1>2, <1>5, <1>6 DEF Summed

(* What a word counts, as a share.                                         *)
LEMMA SaturationIs ==
    ASSUME SearchTypes, NEW often \in Nat, NEW length \in Nat, NEW all \in Nat, all # 0
    PROVE  /\ 3 * all + 9 * length * Len(survivors) \in Nat \ {0}
           /\ Search!Saturation(often, length, all)
                = Share(Unit, often, all, 3 * all + 9 * length * Len(survivors))
<1>1. PICK l, x, b : l = Len(survivors) /\ x = length * l /\ b = 3 * all + 9 * length * l
  OBVIOUS
<1>2. l \in Nat
  BY <1>1 DEF SearchTypes
<1>3. x \in Nat /\ b = 3 * all + 9 * x
  BY <1>1, <1>2
<1>4. b \in Nat \ {0}
  BY <1>3
<1>5. PICK y : y = 8 * often * all
  OBVIOUS
<1>6. y \in Nat
  BY <1>5
<1>7. y + 3 * all + 9 * length * l = y + b
  <2>1. 9 * length * l = 9 * x
    BY <1>1, <1>2
  <2> QED BY <1>3, <1>6, <2>1
<1>8. 8 * often * all + 3 * all + 9 * length * Len(survivors) = 8 * often * all + b
  BY <1>1, <1>5, <1>7, Zenon
<1>9. Search!Saturation(often, length, all)
        = (20 * Unit * often * all) \div (8 * often * all + 3 * all + 9 * length * Len(survivors))
  BY Zenon DEF Search!Saturation
<1>10. Search!Saturation(often, length, all) = Share(Unit, often, all, b)
  BY <1>8, <1>9, Zenon DEF Share
<1> QED BY <1>1, <1>4, <1>10, Zenon

LEMMA SaturationOrdered ==
    ASSUME SearchTypes, NEW often \in Nat, NEW more \in Nat, often <= more,
           NEW length \in Nat, NEW less \in Nat, less <= length, NEW all \in Nat
    PROVE  /\ Search!Saturation(often, length, all) \in 0..3 * Unit
           /\ Search!Saturation(often, length, all) <= Search!Saturation(more, less, all)
<1>1. Unit \in Nat
  BY SearchGiven
<1>2. CASE all = 0
  <2>1. Search!Saturation(often, length, all) = 0 /\ Search!Saturation(more, less, all) = 0
    BY <1>2, Zenon DEF Search!Saturation
  <2> QED BY <1>1, <2>1
<1>3. CASE all # 0
  <2>1. PICK l, b, c : /\ l = Len(survivors) /\ b = 3 * all + 9 * length * Len(survivors)
                       /\ c = 3 * all + 9 * less * Len(survivors)
    OBVIOUS
  <2>2. b \in Nat \ {0} /\ Search!Saturation(often, length, all) = Share(Unit, often, all, b)
    BY <1>3, <2>1, SaturationIs, Zenon
  <2>3. c \in Nat \ {0} /\ Search!Saturation(more, less, all) = Share(Unit, more, all, c)
    BY <1>3, <2>1, SaturationIs, Zenon
  <2>4. c <= b
    <3>1. l \in Nat
      BY <2>1 DEF SearchTypes
    <3>2. l * less <= l * length
      BY <3>1, TimesGrows
    <3>3. PICK x, y : x = l * less /\ y = l * length
      OBVIOUS
    <3>4. x \in Nat /\ y \in Nat /\ b = 3 * all + 9 * y /\ c = 3 * all + 9 * x
      BY <2>1, <3>1, <3>3
    <3> QED BY <3>2, <3>3, <3>4
  <2>5. Share(Unit, often, all, b) \in 0..3 * Unit
    BY <1>1, <2>2, SharesAre
  <2>6. Share(Unit, often, all, b) <= Share(Unit, more, all, c)
    BY <1>1, <2>2, <2>3, <2>4, SharesOrdered
  <2> QED BY <2>2, <2>3, <2>5, <2>6
<1> QED BY <1>2, <1>3

(* What a word adds to a drawer's score, bounded whatever the drawer.      *)
Adds(d, w) == Search!Idf(w) * Search!Saturation(memory.count[d][w], memory.length[d], Search!Words)

LEMMA AddsAre ==
    ASSUME SearchTypes
    PROVE  \E l \in Nat : \A d \in SearchedDrawer, w \in Word : Adds(d, w) \in Nat /\ Adds(d, w) <= l
<1>1. PICK m, u : m = 1 + Len(survivors) /\ u = 3 * Unit
  OBVIOUS
<1>2. m \in Nat /\ u \in Nat
  BY <1>1, SearchedTexts
<1>3. PICK l : l = m * u
  OBVIOUS
<1>4. l \in Nat
  BY <1>2, <1>3
<1>5. ASSUME NEW d \in SearchedDrawer, NEW w \in Word PROVE Adds(d, w) \in Nat /\ Adds(d, w) <= l
  <2>1. PICK o, e, a : o = memory.count[d][w] /\ e = memory.length[d] /\ a = Search!Words
    OBVIOUS
  <2>2. o \in Nat /\ e \in Nat /\ a \in Nat
    BY <2>1, SearchedTexts, WordsAre
  <2>3. o <= o /\ e <= e
    BY <2>2
  <2>4. Search!Saturation(o, e, a) \in 0..3 * Unit
    BY <2>2, <2>3, SaturationOrdered
  <2>5. PICK i, x : i = Search!Idf(w) /\ x = Search!Saturation(o, e, a)
    OBVIOUS
  <2>6. i \in Nat /\ i <= m
    <3>1. i \in 1..1 + Len(survivors)
      BY <2>5, IdfIs
    <3> QED BY <1>1, <1>2, <3>1
  <2>7. x \in Nat /\ x <= u
    BY <1>1, <1>2, <2>4, <2>5
  <2>8. i * x <= i * u /\ u * i <= u * m
    BY <1>2, <2>6, <2>7, TimesGrows
  <2>9. i * x \in Nat /\ i * u \in Nat /\ i * u = u * i /\ u * m = l
    BY <1>2, <1>3, <2>6, <2>7
  <2>10. PICK y, z : y = i * x /\ z = i * u
    OBVIOUS
  <2>11. Adds(d, w) = i * x
    BY <2>1, <2>5, Zenon DEF Adds
  <2> QED BY <1>4, <2>8, <2>9, <2>10, <2>11
<1> QED BY <1>4, <1>5

LEMMA AddsGrow ==
    ASSUME SearchTypes, NEW d \in SearchedDrawer, NEW e \in SearchedDrawer, NEW w \in Word,
           memory.count[d][w] >= memory.count[e][w], memory.length[d] <= memory.length[e]
    PROVE  Adds(e, w) <= Adds(d, w)
<1>1. PICK o, p, f, g, a : /\ o = memory.count[e][w] /\ p = memory.count[d][w]
                           /\ f = memory.length[e] /\ g = memory.length[d] /\ a = Search!Words
  OBVIOUS
<1>2. o \in Nat /\ p \in Nat /\ f \in Nat /\ g \in Nat /\ a \in Nat
  BY <1>1, SearchedTexts, WordsAre
<1>3. o <= p /\ g <= f
  BY <1>1, <1>2
<1>4. Search!Saturation(o, f, a) \in 0..3 * Unit /\ Search!Saturation(o, f, a) <= Search!Saturation(p, g, a)
  BY <1>2, <1>3, SaturationOrdered
<1>5. p <= p /\ g <= g
  BY <1>2
<1>6. Search!Saturation(p, g, a) \in 0..3 * Unit
  BY <1>2, <1>5, SaturationOrdered
<1>7. PICK i, x, y : i = Search!Idf(w) /\ x = Search!Saturation(o, f, a) /\ y = Search!Saturation(p, g, a)
  OBVIOUS
<1>8. i \in Nat
  <2>1. i \in 1..1 + Len(survivors)
    BY <1>7, IdfIs
  <2> QED BY <2>1, SearchedTexts
<1>9. x \in Nat /\ y \in Nat /\ x <= y
  BY <1>4, <1>6, <1>7, SearchedTexts
<1>10. i * x <= i * y
  BY <1>8, <1>9, TimesGrows
<1>11. Adds(e, w) = i * x /\ Adds(d, w) = i * y
  BY <1>1, <1>7, Zenon DEF Adds
<1> QED BY <1>10, <1>11

Weights(d) == [n \in 1..Len(Query) |-> Adds(d, Query[n])]

LEMMA RawIs ==
    ASSUME SearchTypes, NEW d \in SearchedDrawer
    PROVE  /\ Weights(d) \in [1..Len(Query) -> Nat] /\ Len(Query) \in Nat
           /\ \E f : Summed(f, Weights(d), Len(Query)) /\ Search!Raw(d) = f[Len(Query)]
<1>1. PICK m, W : m = Len(Query) /\ W = Weights(d)
  OBVIOUS
<1>2. m \in Nat /\ DOMAIN Query = 1..m /\ \A n \in 1..m : Query[n] \in Word
  BY <1>1, SearchedTexts
<1>3. W = [n \in 1..m |-> Adds(d, Query[n])]
  BY <1>1, Zenon DEF Weights
<1>4. W \in [1..m -> Nat]
  <2>1. \A n \in 1..m : Adds(d, Query[n]) \in Nat
    BY <1>2, AddsAre
  <2> QED BY <1>3, <2>1
<1>5. Search!Raw(d) = Search!Total(W)
  <2>1. Search!Raw(d) = Search!Total([i \in DOMAIN Query |-> Adds(d, Query[i])])
    BY Zenon DEF Search!Raw, Adds
  <2> QED BY <1>2, <1>3, <2>1, Zenon
<1>6. PICK f : Summed(f, W, m) /\ Search!Total(W) = f[m]
  BY <1>2, <1>4, TotalIs
<1> QED BY <1>1, <1>2, <1>4, <1>5, <1>6, Zenon

(* More of the words asked for, in no longer a text, weigh more, and no    *)
(* drawer more than the words can.                                         *)
LEMMA RawGrows ==
    ASSUME SearchTypes, NEW d \in SearchedDrawer, NEW e \in SearchedDrawer,
           \A w \in Search!ToSet(Query) : memory.count[d][w] >= memory.count[e][w],
           memory.length[d] <= memory.length[e]
    PROVE  Search!Raw(e) <= Search!Raw(d)
<1>1. PICK m, V, W : m = Len(Query) /\ V = Weights(e) /\ W = Weights(d)
  OBVIOUS
<1>2. PICK f : Summed(f, V, m) /\ Search!Raw(e) = f[m]
  BY <1>1, RawIs, Zenon
<1>3. PICK g : Summed(g, W, m) /\ Search!Raw(d) = g[m]
  BY <1>1, RawIs, Zenon
<1>4. m \in Nat /\ V \in [1..m -> Nat] /\ W \in [1..m -> Nat]
  BY <1>1, RawIs, Zenon
<1>5. ASSUME NEW n \in 1..m PROVE V[n] <= W[n]
  <2>1. V[n] = Adds(e, Query[n]) /\ W[n] = Adds(d, Query[n])
    BY <1>1, <1>5, Zenon DEF Weights
  <2>2. PICK w : w = Query[n]
    OBVIOUS
  <2>3. w \in Word /\ w \in Search!ToSet(Query)
    BY <1>1, <1>5, <2>2, SearchedTexts DEF Search!ToSet
  <2>4. memory.count[d][w] >= memory.count[e][w]
    BY <2>3
  <2>5. Adds(e, w) <= Adds(d, w)
    BY <2>3, <2>4, AddsGrow
  <2> QED BY <2>1, <2>2, <2>5
<1>6. f[m] <= g[m]
  BY <1>2, <1>3, <1>4, <1>5, SumsGrow
<1> QED BY <1>2, <1>3, <1>6

LEMMA RawBounded ==
    ASSUME SearchTypes
    PROVE  \E b \in Nat : \A d \in SearchedDrawer : Search!Raw(d) \in Nat /\ Search!Raw(d) <= b
<1>1. PICK l \in Nat : \A d \in SearchedDrawer, w \in Word : Adds(d, w) \in Nat /\ Adds(d, w) <= l
  BY AddsAre
<1>2. PICK m : m = Len(Query)
  OBVIOUS
<1>3. m \in Nat /\ \A n \in 1..m : Query[n] \in Word
  BY <1>2, SearchedTexts
<1>4. PICK W : W = [n \in 1..m |-> l]
  OBVIOUS
<1>5. W \in [1..m -> Nat]
  BY <1>4
<1>6. PICK g : Summed(g, W, m)
  BY <1>3, <1>5, SumsExist
<1>7. g[m] \in Nat
  BY <1>3, <1>6 DEF Summed
<1>8. ASSUME NEW d \in SearchedDrawer PROVE Search!Raw(d) \in Nat /\ Search!Raw(d) <= g[m]
  <2>1. PICK V : V = Weights(d)
    OBVIOUS
  <2>2. PICK f : Summed(f, V, m) /\ Search!Raw(d) = f[m]
    BY <1>2, <2>1, RawIs, Zenon
  <2>3. V \in [1..m -> Nat]
    BY <1>2, <2>1, RawIs, Zenon
  <2>4. ASSUME NEW n \in 1..m PROVE V[n] <= W[n]
    <3>1. V[n] = Adds(d, Query[n])
      BY <1>2, <2>1, <2>4, Zenon DEF Weights
    <3>2. W[n] = l
      BY <1>4
    <3> QED BY <1>1, <1>3, <3>1, <3>2
  <2>5. f[m] <= g[m]
    BY <1>3, <1>5, <1>6, <2>2, <2>3, <2>4, SumsGrow
  <2>6. f[m] \in Nat
    BY <1>3, <2>2 DEF Summed
  <2> QED BY <2>2, <2>5, <2>6
<1> QED BY <1>7, <1>8

LEMMA ScaleIs == ASSUME SearchTypes PROVE Search!MaxRaw \in Nat /\ Search!Scale \in Nat \ {0}
<1>1. PICK b \in Nat : \A d \in SearchedDrawer : Search!Raw(d) \in Nat /\ Search!Raw(d) <= b
  BY RawBounded
<1>2. PICK T : T = {0} \cup {Search!Raw(d) : d \in Search!ToSet(survivors)}
  OBVIOUS
<1>3. \A d \in Search!ToSet(survivors) : d \in SearchedDrawer
  BY DEF SearchTypes, Search!ToSet
<1>4. T \in SUBSET Int /\ T # {} /\ (\A x \in T : x <= b) /\ \A x \in T : x \in Nat
  BY <1>1, <1>2, <1>3
<1>5. Max(T) \in T
  BY <1>4, Greatest
<1>6. Search!Max(T) \in T
  BY <1>5, Zenon DEF Search!Max, Max
<1>7. Search!MaxRaw \in T
  BY <1>2, <1>6, Zenon DEF Search!MaxRaw
<1>8. Search!MaxRaw \in Nat
  BY <1>4, <1>7
<1> QED BY <1>8 DEF Search!Scale

LEMMA ProductsGrow == \A s, a, b \in Int : s >= 0 /\ a <= b => s * a \in Int /\ s * a <= s * b
OBVIOUS

(* What a drawer's score is made of.                                       *)
LEMMA FusedIs ==
    ASSUME SearchTypes, NEW d \in SearchedDrawer
    PROVE  /\ Search!Near(d) \in Int /\ Search!Similarity(d) \in Nat /\ boosts[Search!SourceOf(d)] \in Nat /\ Search!Raw(d) \in Nat
           /\ Search!Fused(d) \in Int
<1>1. memory.near \in [SearchedDrawer -> Int] /\ memory.source \in [SearchedDrawer -> Sources]
  BY SearchGiven DEF SearchTypes
<1>2. Search!Near(d) \in Int
  BY <1>1 DEF Search!Near
<1>8. Search!Similarity(d) \in Nat
  BY <1>2 DEF Search!Similarity
<1>3. boosts[Search!SourceOf(d)] \in Nat
  <2>1. memory.source[d] \in Sources
    BY <1>1
  <2>2. boosts[memory.source[d]] \in {0} \cup Search!ToSet(RankBoosts)
    BY <2>1 DEF SearchTypes
  <2>3. \A x \in Search!ToSet(RankBoosts) : x \in Nat
    BY SearchGiven DEF Search!ToSet
  <2> QED BY <2>2, <2>3 DEF Search!SourceOf
<1>4. Search!Raw(d) \in Nat
  BY RawBounded
<1>5. PICK s, a, b : s = Search!Scale /\ a = 6 * Search!Similarity(d) + boosts[Search!SourceOf(d)] /\ b = 40 * Search!Raw(d)
  OBVIOUS
<1>6. s \in Int /\ a \in Int /\ b \in Int
  BY <1>3, <1>4, <1>5, <1>8, ScaleIs
<1>7. Search!Fused(d) = s * a + (IF Search!MaxRaw > 0 THEN b ELSE 0)
  BY <1>5, Zenon DEF Search!Fused
<1> QED BY <1>2, <1>3, <1>4, <1>6, <1>7, <1>8

LEMMA FusedGrows ==
    ASSUME SearchTypes, NEW d \in SearchedDrawer, NEW e \in SearchedDrawer, Search!Dominates(d, e)
    PROVE  Search!Fused(e) <= Search!Fused(d)
<1>1. /\ Search!Similarity(e) <= Search!Similarity(d) /\ boosts[Search!SourceOf(e)] <= boosts[Search!SourceOf(d)]
      /\ \A w \in Search!ToSet(Query) : memory.count[d][w] >= memory.count[e][w]
      /\ memory.length[d] <= memory.length[e]
  <2>1. /\ Search!Near(d) >= Search!Near(e) /\ boosts[Search!SourceOf(d)] >= boosts[Search!SourceOf(e)]
        /\ \A w \in Search!ToSet(Query) : memory.count[d][w] >= memory.count[e][w]
        /\ memory.length[d] <= memory.length[e]
    BY Zenon DEF Search!Dominates
  <2>2. Search!Similarity(e) <= Search!Similarity(d)
    BY <2>1, FusedIs DEF Search!Similarity
  <2> QED BY <2>1, <2>2, FusedIs
<1>2. Search!Raw(e) <= Search!Raw(d)
  BY <1>1, RawGrows
<1>3. PICK s, a, b, x, y : /\ s = Search!Scale /\ a = 6 * Search!Similarity(d) + boosts[Search!SourceOf(d)]
                           /\ b = 40 * Search!Raw(d)
                           /\ x = 6 * Search!Similarity(e) + boosts[Search!SourceOf(e)] /\ y = 40 * Search!Raw(e)
  OBVIOUS
<1>4. s \in Int /\ s >= 0 /\ a \in Int /\ b \in Int /\ x \in Int /\ y \in Int /\ x <= a /\ y <= b
  BY <1>1, <1>2, <1>3, ScaleIs, FusedIs
<1>5. Search!Fused(d) = s * a + (IF Search!MaxRaw > 0 THEN b ELSE 0)
      /\ Search!Fused(e) = s * x + (IF Search!MaxRaw > 0 THEN y ELSE 0)
  BY <1>3, Zenon DEF Search!Fused
<1>6. s * x \in Int /\ s * a \in Int /\ s * x <= s * a
  BY <1>4, ProductsGrow
<1>7. PICK u, v : u = s * a /\ v = s * x
  OBVIOUS
<1> QED BY <1>4, <1>5, <1>6, <1>7

-----------------------------------------------------------------------------
LEMMA PoolIs ==
    ASSUME SearchTypes
    PROVE  Search!Pool \in Nat /\ Search!Pool <= Len(ranked) /\ Search!Pool <= ask.pool
<1>1. ask.pool \in Nat /\ Len(ranked) \in Nat
  BY DEF SearchTypes
<1>2. PICK a, b : a = ask.pool /\ b = Len(ranked)
  OBVIOUS
<1>3. Search!Min({a, b}) = IF a <= b THEN a ELSE b
  BY <1>1, <1>2, SearchLesserIs
<1>4. Search!Pool = Search!Min({a, b})
  BY <1>2, Zenon DEF Search!Pool
<1> QED BY <1>1, <1>2, <1>3, <1>4

(* The order is of rows, closets and texts that stay as they are.          *)
LEMMA BlendStays ==
    ASSUME UNCHANGED <<memory, survivors, boosts>>
    PROVE  Blend' = Blend
<1>1. memory' = memory /\ survivors' = survivors /\ boosts' = boosts
  OBVIOUS
<1>2. Search!Words' = Search!Words
  BY <1>1, Zenon DEF Search!Words, Search!Total
<1>3. ASSUME NEW d PROVE Search!Raw(d)' = Search!Raw(d)
  <2>1. ASSUME NEW w PROVE Search!Idf(w)' = Search!Idf(w)
    BY <1>1, Zenon DEF Search!Idf, Search!Holding
  <2>2. ASSUME NEW o, NEW l, NEW a PROVE Search!Saturation(o, l, a)' = Search!Saturation(o, l, a)
    BY <1>1, Zenon DEF Search!Saturation
  <2> DEFINE each == [i \in DOMAIN Query |->
           Search!Idf(Query[i]) * Search!Saturation(memory.count[d][Query[i]], memory.length[d], Search!Words)]
  <2>4. each' = each
    BY <1>1, <1>2, <2>1, <2>2
  <2>5. Search!Raw(d) = Search!Total(each) /\ Search!Raw(d)' = Search!Total(each')
    BY Zenon DEF Search!Raw, Search!Total
  <2> HIDE DEF each
  <2> QED BY <2>4, <2>5, Zenon
<1>4. Search!MaxRaw' = Search!MaxRaw
  BY <1>1, <1>3 DEF Search!MaxRaw
<1>5. ASSUME NEW d PROVE Search!Fused(d)' = Search!Fused(d)
  BY <1>1, <1>3, <1>4 DEF Search!Fused, Search!Scale, Search!Similarity, Search!Near, Search!SourceOf
<1> QED BY <1>1, <1>5 DEF Blend

LEMMA BlendIs ==
    ASSUME SearchTypes
    PROVE  Blend \in [1..Len(survivors) -> Int] /\ \A i \in 1..Len(survivors) : Blend[i] = Search!Fused(survivors[i])
<1>1. DOMAIN survivors = 1..Len(survivors) /\ \A i \in 1..Len(survivors) : survivors[i] \in SearchedDrawer
  BY DEF SearchTypes
<1>2. \A i \in DOMAIN survivors : Blend[i] = Search!Fused(survivors[i])
  BY Zenon DEF Blend
<1>3. \A i \in 1..Len(survivors) : Search!Fused(survivors[i]) \in Int
  BY <1>1, FusedIs
<1>4. Blend = [i \in 1..Len(survivors) |-> Blend[i]]
  <2>1. DOMAIN Blend = DOMAIN survivors
    BY Zenon DEF Blend
  <2>2. Blend = [i \in DOMAIN survivors |-> Blend[i]]
    BY <1>2, Zenon DEF Blend
  <2> HIDE DEF Blend
  <2> QED BY <1>1, <2>2
<1> HIDE DEF Blend
<1> QED BY <1>1, <1>2, <1>3, <1>4

(* The ranking puts the candidates in the order of their blended scores.   *)
LEMMA RankedIs ==
    ASSUME SearchTypes
    PROVE  /\ Search!Sorted(survivors, Blend) \in Seq(SearchedDrawer)
           /\ \E p : /\ Reordered(survivors, Search!Sorted(survivors, Blend), p)
                     /\ InOrder(Blend, Len(survivors), p)
<1>1. PICK v, k : v = survivors /\ k = Blend
  OBVIOUS
<1>2. v \in Seq(SearchedDrawer) /\ k \in [1..Len(v) -> Int]
  BY <1>1, BlendIs DEF SearchTypes
<1>3. /\ Search!Sorted(v, k) \in Seq(SearchedDrawer)
      /\ \E p : Reordered(v, Search!Sorted(v, k), p) /\ InOrder(k, Len(v), p)
  BY <1>2, SortedIs, Zenon
<1> QED BY <1>1, <1>3, Zenon

LEMMA SameMembers ==
    ASSUME NEW S, NEW from \in Seq(S), NEW to \in Seq(S), NEW p, Reordered(from, to, p)
    PROVE  /\ Search!ToSet(to) = Search!ToSet(from) /\ Len(to) = Len(from)
           /\ Distinctly(from) => Distinctly(to)
<1>1. PICK n : n = Len(from)
  OBVIOUS
<1>2. /\ n \in Nat /\ Len(to) = n /\ p \in [1..n -> 1..n]
      /\ \A k \in 1..n : \E i \in 1..n : p[i] = k
      /\ \A i \in 1..n : to[p[i]] = from[i]
  BY <1>1 DEF Reordered
<1>3. DOMAIN to = 1..n /\ DOMAIN from = 1..n
  BY <1>1, <1>2
<1>4. ASSUME NEW x \in Search!ToSet(to) PROVE x \in Search!ToSet(from)
  <2>1. PICK k \in 1..n : to[k] = x
    BY <1>3, <1>4 DEF Search!ToSet
  <2>2. PICK i \in 1..n : p[i] = k
    BY <1>2
  <2>3. from[i] = x
    BY <1>2, <2>1, <2>2
  <2> QED BY <1>3, <2>3 DEF Search!ToSet
<1>5. ASSUME NEW x \in Search!ToSet(from) PROVE x \in Search!ToSet(to)
  <2>1. PICK i \in 1..n : from[i] = x
    BY <1>3, <1>5 DEF Search!ToSet
  <2>2. to[p[i]] = x /\ p[i] \in 1..n
    BY <1>2, <2>1
  <2> QED BY <1>3, <2>2 DEF Search!ToSet
<1>6. ASSUME Distinctly(from), NEW k \in 1..n, NEW l \in 1..n, to[k] = to[l] PROVE k = l
  <2>1. PICK i \in 1..n : p[i] = k
    BY <1>2
  <2>2. PICK j \in 1..n : p[j] = l
    BY <1>2
  <2>3. from[i] = from[j]
    BY <1>2, <1>6, <2>1, <2>2
  <2>4. i = j
    BY <1>1, <1>6, <2>3 DEF Distinctly
  <2> QED BY <2>1, <2>2, <2>4
<1>7. Distinctly(from) => Distinctly(to)
  BY <1>2, <1>6 DEF Distinctly
<1> QED BY <1>1, <1>2, <1>4, <1>5, <1>7

LEMMA RankKeeps == ASSUME SearchInv, Search!RankHybrid PROVE SearchInv'
<1> USE DEF SearchInv
<1>1. stage = "boosted" /\ stage' = "ranked" /\ ranked' = Search!Sorted(survivors, Blend)
      /\ UNCHANGED <<memory, row, vector, touched, ask, hits, survivors, boosts, scores, reranked, answer>>
  BY Zenon DEF Search!RankHybrid, Blend
<1>2. PICK v, r : v = survivors /\ r = Search!Sorted(survivors, Blend)
  OBVIOUS
<1>3. r \in Seq(SearchedDrawer) /\ v \in Seq(SearchedDrawer)
  BY <1>2, RankedIs DEF SearchTypes
<1>4. PICK p : Reordered(v, r, p)
  BY <1>2, RankedIs, Zenon
<1>5. Search!ToSet(r) = Search!ToSet(v)
  BY <1>3, <1>4, SameMembers
<1>6. SearchTypes'
  BY <1>1, <1>2, <1>3 DEF SearchTypes
<1>7. AllFound'
  BY <1>1 DEF AllFound, Wide, Wanted, Search!Near
<1>8. Narrowing'
  <2>1. scores = <<>>
    BY <1>1 DEF Narrowing
  <2>2. Len(scores) = 0 /\ (Search!Pool \in Nat)'
    <3>1. PICK a, b : a = ask.pool /\ b = Len(r)
      OBVIOUS
    <3>2. a \in Nat /\ b \in Nat
      BY <1>3, <3>1 DEF SearchTypes
    <3>3. Search!Min({a, b}) \in Nat
      BY <3>2, SearchLesserIs
    <3>4. Search!Pool' = Search!Min({a, b})
      BY <1>1, <1>2, <3>1, Zenon DEF Search!Pool
    <3> QED BY <2>1, <3>3, <3>4
  <2>3. (Len(scores) <= Search!Pool)'
    BY <1>1, <2>2
  <2>4. Blend' = Blend
    BY <1>1, BlendStays
  <2>5. ranked' = Search!Sorted(survivors, Blend)'
    BY <1>1, <2>4 DEF Search!Sorted
  <2>6. Search!ToSet(ranked)' \subseteq Search!ToSet(survivors)'
    BY <1>1, <1>2, <1>5
  <2> QED BY <1>1, <2>3, <2>5, <2>6 DEF Narrowing
<1>9. Fair'
  BY <1>1 DEF Fair, Search!RankingIsFair, Search!FilterFindsAll, Search!AnswersAsAsked
<1>10. AsLoaded'
  BY <1>1 DEF AsLoaded, Search!Kept, Search!Near, Search!ToSet
<1> QED BY <1>6, <1>7, <1>8, <1>9, <1>10

LEMMA BatchKeeps == ASSUME SearchInv, Search!RerankBatch PROVE SearchInv'
<1> USE DEF SearchInv
<1>1. stage = "ranked" /\ Len(scores) < Search!Pool
      /\ UNCHANGED <<memory, row, vector, touched, ask, stage, hits, survivors, boosts, ranked, reranked, answer>>
  BY DEF Search!RerankBatch
<1>2. PICK batch \in [1..Search!Min({Batch, Search!Pool - Len(scores)}) -> 1..2] : scores' = scores \o batch
  BY DEF Search!RerankBatch
<1>3. PICK b, s, m, n : b = Batch /\ s = scores /\ n = Search!Pool - Len(scores) /\ m = Search!Min({b, n})
  OBVIOUS
<1>4. b \in Nat /\ n \in Nat /\ s \in Seq(Int) /\ Len(s) \in Nat /\ Search!Pool \in Nat
  BY <1>1, <1>3, PoolIs, SearchGiven DEF SearchTypes
<1>5. m \in Nat /\ m <= n
  BY <1>3, <1>4, SearchLesserIs
<1>6. batch \in [1..m -> Int]
  <2>1. batch \in [1..m -> 1..2]
    BY <1>2, <1>3, Zenon
  <2> QED BY <2>1
<1>7. batch \in Seq(Int) /\ Len(batch) = m
  BY <1>5, <1>6, ListsAre
<1>8. s \o batch \in Seq(Int) /\ Len(s \o batch) = Len(s) + m
  BY <1>4, <1>7, Joined
<1>9. PICK q : q = s \o batch
  OBVIOUS
<1>10. q \in Seq(Int) /\ Len(q) <= Search!Pool /\ scores' = q
  BY <1>2, <1>3, <1>4, <1>5, <1>8, <1>9
<1>11. SearchTypes'
  BY <1>1, <1>10 DEF SearchTypes
<1>12. AllFound'
  BY <1>1 DEF AllFound, Wide, Wanted, Search!Near
<1>13. Narrowing'
  <2>1. Search!Pool' = Search!Pool
    BY <1>1 DEF Search!Pool
  <2>2. Blend' = Blend
    BY <1>1, BlendStays
  <2>3. (ranked = Search!Sorted(survivors, Blend))'
    <3>1. Search!Sorted(survivors, Blend)' = Search!Sorted(survivors, Blend)
      BY <1>1, <2>2 DEF Search!Sorted
    <3>2. ranked = Search!Sorted(survivors, Blend) /\ ranked' = ranked
      BY <1>1, Zenon DEF Narrowing
    <3> QED BY <3>1, <3>2, Zenon
  <2> QED BY <1>1, <1>10, <2>1, <2>3 DEF Narrowing
<1>14. Fair'
  BY <1>1 DEF Fair, Search!RankingIsFair, Search!FilterFindsAll, Search!AnswersAsAsked
<1>15. AsLoaded'
  BY <1>1 DEF AsLoaded, Search!Kept, Search!Near, Search!ToSet
<1> QED BY <1>11, <1>12, <1>13, <1>14, <1>15

-----------------------------------------------------------------------------
(* What a page of a ranking has to be, with and without a reranking.       *)
Complete(out) ==
    /\ Len(out) = Search!Min({ask.limit, Len(survivors)}) /\ Len(out) <= ask.limit
    /\ Search!IsInjective(out)
    /\ ask.wing # Absent /\ FilterPool >= Search!Cardinality(SearchedDrawer) =>
         \A d \in SearchedDrawer \ touched :
            row[d] = ask.wing /\ Search!Near(d) >= Far =>
               d \in Search!ToSet(survivors) /\ (d \in Search!ToSet(out) \/ Len(out) = ask.limit)
    /\ \A d \in Search!ToSet(out) : Search!Kept(d)
FairlyBlended(out) ==
    \A d, e \in Search!ToSet(survivors) :
       Search!Dominates(d, e) /\ e \in Search!ToSet(out) =>
          d \in Search!ToSet(out) /\ Search!Position(out, d) < Search!Position(out, e)
FairlyReranked(out) ==
    \A i, j \in DOMAIN ranked :
       /\ ranked[j] \in Search!ToSet(out) /\ i <= Search!Pool
       /\ j > Search!Pool \/ Search!Ahead(scores, i, j)
       => ranked[i] \in Search!ToSet(out)
          /\ Search!Position(out, ranked[i]) < Search!Position(out, ranked[j])

(* A page of what is ranked, in whatever order, is complete.               *)
LEMMA PagesComplete ==
    ASSUME SearchInv, stage = "ranked", NEW to \in Seq(SearchedDrawer), NEW p, NEW limit, limit = ask.limit,
           NEW from \in Seq(SearchedDrawer), Len(from) = Len(survivors),
           Search!ToSet(from) = Search!ToSet(survivors), NEW out, PageHolds(from, out, limit, p)
    PROVE  Complete(out)
<1>1. Len(out) = Search!Min({ask.limit, Len(survivors)}) /\ Len(out) <= ask.limit /\ Search!IsInjective(out)
  BY DEF PageHolds
<1>2. ASSUME ask.wing # Absent, FilterPool >= Search!Cardinality(SearchedDrawer),
             NEW d \in SearchedDrawer \ touched, row[d] = ask.wing, Search!Near(d) >= Far
      PROVE  d \in Search!ToSet(survivors) /\ (d \in Search!ToSet(out) \/ Len(out) = ask.limit)
  <2>1. Wide /\ Wanted(d)
    BY <1>2, SearchCardinality DEF Wide, Wanted
  <2>2. d \in Search!ToSet(survivors)
    BY <2>1 DEF SearchInv, AllFound
  <2>3. PICK i \in 1..Len(from) : from[i] = d
    BY <2>2 DEF Search!ToSet
  <2>4. from[i] \in Search!ToSet(out) \/ Len(out) = limit
    BY <2>3 DEF PageHolds
  <2> QED BY <2>2, <2>3, <2>4
<1>3. ASSUME NEW d \in Search!ToSet(out) PROVE Search!Kept(d)
  <2>1. PICK i \in 1..Len(from) : from[i] = d
    BY <1>3 DEF PageHolds
  <2>2. d \in Search!ToSet(survivors)
    BY <2>1 DEF Search!ToSet
  <2> QED BY <2>2 DEF SearchInv, AsLoaded
<1> QED BY <1>1, <1>2, <1>3 DEF Complete

LEMMA HybridAnswers ==
    ASSUME SearchInv, stage = "ranked"
    PROVE  Complete(Search!Page(ranked)) /\ FairlyBlended(Search!Page(ranked))
<1> USE DEF SearchInv
<1>1. PICK v, r, k, n : v = survivors /\ r = ranked /\ k = Blend /\ n = Len(survivors)
  OBVIOUS
<1>2. PICK limit, out : limit = ask.limit /\ out = Search!Page(ranked)
  OBVIOUS
<1>3. v \in Seq(SearchedDrawer) /\ r \in Seq(SearchedDrawer) /\ Distinctly(v) /\ limit \in Nat /\ n = Len(v) /\ n \in Nat
  BY <1>1, <1>2 DEF SearchTypes
<1>4. r = Search!Sorted(survivors, Blend)
  BY <1>1 DEF Narrowing
<1>5. PICK p : Reordered(v, r, p) /\ InOrder(k, n, p)
  BY <1>1, <1>4, RankedIs, Zenon
<1>6. PageOf(out, r, limit)
  BY <1>1, <1>2, Zenon DEF PageOf, Search!Page
<1>7. PageHolds(v, out, limit, p)
  BY <1>3, <1>5, <1>6, PagesHold
<1>8. Complete(out)
  BY <1>1, <1>2, <1>3, <1>7, PagesComplete
<1>9. ASSUME NEW d \in Search!ToSet(survivors), NEW e \in Search!ToSet(survivors),
             Search!Dominates(d, e), e \in Search!ToSet(out)
      PROVE  d \in Search!ToSet(out) /\ Search!Position(out, d) < Search!Position(out, e)
  <2>1. PICK i \in 1..n : v[i] = d
    BY <1>1, <1>3, <1>9 DEF Search!ToSet
  <2>2. PICK j \in 1..n : v[j] = e
    BY <1>1, <1>3, <1>9 DEF Search!ToSet
  <2>3. d \in SearchedDrawer /\ e \in SearchedDrawer
    BY <1>3, <2>1, <2>2
  <2>4. i < j
    <3>1. Search!Position(v, d) < Search!Position(v, e)
      BY <1>1, <1>9, Zenon DEF Search!Dominates
    <3>2. Search!Position(v, v[i]) = i /\ Search!Position(v, v[j]) = j
      BY <1>3, PositionIs
    <3> QED BY <2>1, <2>2, <3>1, <3>2
  <2>5. k[i] = Search!Fused(d) /\ k[j] = Search!Fused(e)
    BY <1>1, <2>1, <2>2, BlendIs
  <2>6. Search!Fused(e) <= Search!Fused(d) /\ Search!Fused(e) \in Int /\ Search!Fused(d) \in Int
    BY <1>9, <2>3, FusedGrows, FusedIs
  <2>7. Search!Ahead(k, i, j)
    BY <2>4, <2>5, <2>6 DEF Search!Ahead
  <2>8. p[i] < p[j]
    BY <1>5, <2>7 DEF InOrder
  <2>9. v[i] \in Search!ToSet(out) /\ Search!Position(out, v[i]) < Search!Position(out, v[j])
    BY <1>3, <1>7, <1>9, <2>1, <2>2, <2>8, Zenon DEF PageHolds
  <2> QED BY <2>1, <2>2, <2>9
<1>10. FairlyBlended(out)
  BY <1>9 DEF FairlyBlended
<1> QED BY <1>2, <1>8, <1>10, Zenon

LEMMA TailsAre ==
    ASSUME NEW S, NEW r \in Seq(S), NEW n \in Nat, n <= Len(r)
    PROVE  /\ SubSeq(r, n + 1, Len(r)) \in Seq(S) /\ Len(SubSeq(r, n + 1, Len(r))) = Len(r) - n
           /\ \A k \in 1..Len(r) - n : SubSeq(r, n + 1, Len(r))[k] = r[n + k]
<1>1. PICK l, t : l = Len(r) /\ t = SubSeq(r, n + 1, Len(r))
  OBVIOUS
<1>2. l \in Nat /\ l - n \in Nat /\ l - (n + 1) + 1 = l - n
  BY <1>1
<1>3. t = [i \in 1..(l - (n + 1) + 1) |-> r[i + (n + 1) - 1]]
  BY <1>1
<1>4. \A i \in 1..l - n : i + (n + 1) - 1 = n + i /\ n + i \in 1..l
  BY <1>2
<1>5. \A i \in 1..l - n : r[n + i] \in S
  BY <1>1, <1>4
<1>6. DOMAIN t = 1..l - n /\ \A i \in 1..l - n : t[i] = r[n + i]
  BY <1>2, <1>3, <1>4
<1>7. t = [i \in 1..l - n |-> t[i]]
  BY <1>3, <1>6
<1>8. t \in [1..l - n -> S]
  BY <1>5, <1>6, <1>7
<1>9. t \in Seq(S) /\ Len(t) = l - n
  BY <1>2, <1>8, ListsAre
<1> QED BY <1>1, <1>6, <1>9

BothIn(o, u, q) ==
    /\ Len(o) = Len(u) + Len(q)
    /\ \A i \in 1..Len(u) : o[i] = u[i]
    /\ \A i \in 1..Len(q) : o[Len(u) + i] = q[i]

LEMMA JoinedAs ==
    ASSUME NEW S, NEW u \in Seq(S), NEW q \in Seq(S)
    PROVE  u \o q \in Seq(S) /\ BothIn(u \o q, u, q)
BY Joined DEF BothIn

(* Reordering the head by its scores leaves the tail where it is.          *)
HeadSorted(out, r, s, n) == out = Search!Sorted(SubSeq(r, 1, n), s) \o SubSeq(r, n + 1, Len(r))
HeadInOrder(r, s, n, q) ==
    \A i, j \in 1..Len(r) : i <= n /\ (j > n \/ Search!Ahead(s, i, j)) => q[i] < q[j]

LEMMA HeadsReorder ==
    ASSUME NEW S, NEW r \in Seq(S), NEW s \in Seq(Int), Len(s) <= Len(r),
           NEW out, HeadSorted(out, r, s, Len(s))
    PROVE  out \in Seq(S) /\ \E q : Reordered(r, out, q) /\ HeadInOrder(r, s, Len(s), q)
<1>1. PICK n, l, a, t : n = Len(s) /\ l = Len(r) /\ a = SubSeq(r, 1, n) /\ t = SubSeq(r, n + 1, Len(r))
  OBVIOUS
<1>2. n \in Nat /\ l \in Nat /\ n <= l
  BY <1>1
<1>3. a \in Seq(S) /\ Len(a) = n /\ \A k \in 1..n : a[k] = r[k]
  BY <1>1, <1>2, PagesAre
<1>4. t \in Seq(S) /\ Len(t) = l - n /\ \A k \in 1..l - n : t[k] = r[n + k]
  BY <1>1, <1>2, TailsAre
<1>5. PICK h : h = Search!Sorted(a, s)
  OBVIOUS
<1>6. s \in [1..Len(a) -> Int]
  BY <1>1, <1>3
<1>7. h \in Seq(S) /\ \E p : Reordered(a, h, p) /\ InOrder(s, Len(a), p)
  BY <1>3, <1>5, <1>6, SortedIs, Zenon
<1>8. PICK p : Reordered(a, h, p) /\ InOrder(s, Len(a), p)
  BY <1>7
<1>9. /\ Len(h) = n /\ p \in [1..n -> 1..n]
      /\ \A k \in 1..n : \E i \in 1..n : p[i] = k
      /\ \A i \in 1..n : h[p[i]] = a[i]
      /\ \A i, j \in 1..n : Search!Ahead(s, i, j) => p[i] < p[j]
  BY <1>3, <1>8 DEF Reordered, InOrder
<1>10. out = h \o t
  BY <1>1, <1>5, Zenon DEF HeadSorted
<1>11. /\ out \in Seq(S) /\ Len(out) = l
       /\ \A i \in 1..n : out[i] = h[i]
       /\ \A i \in 1..l - n : out[n + i] = t[i]
  <2>1. PICK o : o = h \o t
    OBVIOUS
  <2>2. /\ o \in Seq(S) /\ Len(o) = Len(h) + Len(t)
        /\ \A i \in 1..Len(h) : o[i] = h[i]
        /\ \A i \in 1..Len(t) : o[Len(h) + i] = t[i]
    <3>1. h \o t \in Seq(S) /\ BothIn(h \o t, h, t)
      BY <1>4, <1>7, JoinedAs, Zenon
    <3> QED BY <2>1, <3>1, Zenon DEF BothIn
  <2> QED BY <1>2, <1>4, <1>9, <1>10, <2>1, <2>2
<1>12. PICK q : q = [i \in 1..l |-> IF i <= n THEN p[i] ELSE i]
  OBVIOUS
<1>13. \A i \in 1..l : /\ (i \in 1..n \/ (i - n \in 1..l - n /\ i > n))
                       /\ i \in 1..n => q[i] = p[i] /\ q[i] \in 1..n
                       /\ i > n => q[i] = i
  <2> TAKE i \in 1..l
  <2>1. q[i] = IF i <= n THEN p[i] ELSE i
    BY <1>12
  <2>2. i \in 1..n \/ (i - n \in 1..l - n /\ i > n)
    BY <1>2
  <2>3. ASSUME i \in 1..n PROVE q[i] = p[i] /\ q[i] \in 1..n
    BY <1>2, <1>9, <2>1, <2>3
  <2>4. ASSUME i > n PROVE q[i] = i
    BY <1>2, <2>1, <2>4
  <2> QED BY <2>2, <2>3, <2>4
<1>14. q \in [1..l -> 1..l]
  <2>1. \A i \in 1..l : q[i] \in 1..l
    BY <1>2, <1>13
  <2> QED BY <1>12, <2>1
<1>15. ASSUME NEW k \in 1..l PROVE \E i \in 1..l : q[i] = k
  <2>1. CASE k \in 1..n
    <3>1. PICK i \in 1..n : p[i] = k
      BY <1>9, <2>1
    <3>2. i \in 1..l
      BY <1>2
    <3> QED BY <1>13, <3>1, <3>2
  <2>2. CASE k > n
    BY <1>13, <2>2
  <2> QED BY <1>2, <2>1, <2>2
<1>16. ASSUME NEW i \in 1..l PROVE out[q[i]] = r[i]
  <2>1. CASE i \in 1..n
    <3>1. q[i] = p[i] /\ p[i] \in 1..n
      BY <1>9, <1>13, <2>1
    <3>2. out[p[i]] = h[p[i]]
      BY <1>11, <3>1
    <3> QED BY <1>3, <1>9, <2>1, <3>1, <3>2
  <2>2. CASE i > n /\ i - n \in 1..l - n
    <3>1. q[i] = i /\ n + (i - n) = i
      BY <1>2, <1>13, <2>2
    <3>2. out[n + (i - n)] = t[i - n] /\ t[i - n] = r[n + (i - n)]
      BY <1>4, <1>11, <2>2
    <3> QED BY <3>1, <3>2
  <2> QED BY <1>13, <2>1, <2>2
<1>17. Reordered(r, out, q)
  BY <1>1, <1>11, <1>14, <1>15, <1>16 DEF Reordered
<1>18. ASSUME NEW i \in 1..l, NEW j \in 1..l, i <= n, j > n \/ Search!Ahead(s, i, j) PROVE q[i] < q[j]
  <2>1. i \in 1..n
    BY <1>2, <1>18
  <2>2. CASE j > n
    BY <1>2, <1>13, <2>1, <2>2
  <2>3. CASE j \in 1..n
    <3>1. Search!Ahead(s, i, j)
      BY <1>2, <1>18, <2>3
    <3> QED BY <1>9, <1>13, <2>1, <2>3, <3>1
  <2> QED BY <1>13, <2>2, <2>3
<1>19. HeadInOrder(r, s, n, q)
  BY <1>1, <1>18 DEF HeadInOrder
<1> QED BY <1>1, <1>11, <1>17, <1>19

LEMMA RerankAnswers ==
    ASSUME SearchInv, stage = "ranked", Len(scores) = Search!Pool
    PROVE  Complete(Search!Page(Search!Reorder(Search!Pool))) /\ FairlyReranked(Search!Page(Search!Reorder(Search!Pool)))
<1> USE DEF SearchInv
<1>1. PICK v, r, s, to : v = survivors /\ r = ranked /\ s = scores /\ to = Search!Reorder(Search!Pool)
  OBVIOUS
<1>2. PICK limit, out : limit = ask.limit /\ out = Search!Page(to)
  OBVIOUS
<1>3. v \in Seq(SearchedDrawer) /\ r \in Seq(SearchedDrawer) /\ Distinctly(v) /\ limit \in Nat /\ s \in Seq(Int)
      /\ Len(s) <= Len(r) /\ Search!Pool = Len(s)
  BY <1>1, <1>2, PoolIs DEF SearchTypes
<1>4. r = Search!Sorted(survivors, Blend)
  BY <1>1 DEF Narrowing
<1>5. PICK p : Reordered(v, r, p)
  BY <1>1, <1>4, RankedIs, Zenon
<1>6. Search!ToSet(r) = Search!ToSet(v) /\ Len(r) = Len(v) /\ Distinctly(r)
  BY <1>3, <1>5, SameMembers
<1>7. HeadSorted(to, r, s, Len(s))
  BY <1>1, <1>3, Zenon DEF HeadSorted, Search!Reorder
<1>8. to \in Seq(SearchedDrawer) /\ \E q : Reordered(r, to, q) /\ HeadInOrder(r, s, Len(s), q)
  BY <1>3, <1>7, HeadsReorder
<1>9. PICK q : Reordered(r, to, q) /\ HeadInOrder(r, s, Len(s), q)
  BY <1>8
<1>10. PageOf(out, to, limit)
  BY <1>2, Zenon DEF PageOf, Search!Page
<1>11. PageHolds(r, out, limit, q)
  BY <1>3, <1>6, <1>8, <1>9, <1>10, PagesHold
<1>12. Complete(out)
  BY <1>1, <1>2, <1>3, <1>6, <1>8, <1>11, PagesComplete
<1>13. ASSUME NEW i \in DOMAIN ranked, NEW j \in DOMAIN ranked, ranked[j] \in Search!ToSet(out), i <= Search!Pool,
              j > Search!Pool \/ Search!Ahead(scores, i, j)
       PROVE  ranked[i] \in Search!ToSet(out) /\ Search!Position(out, ranked[i]) < Search!Position(out, ranked[j])
  <2>1. i \in 1..Len(r) /\ j \in 1..Len(r)
    BY <1>1, <1>3, <1>13
  <2>2. q[i] < q[j]
    BY <1>1, <1>3, <1>9, <1>13, <2>1 DEF HeadInOrder
  <2> QED BY <1>1, <1>11, <1>13, <2>1, <2>2, Zenon DEF PageHolds
<1>14. FairlyReranked(out)
  BY <1>13 DEF FairlyReranked
<1> QED BY <1>1, <1>2, <1>12, <1>14, Zenon

(* Nothing a page is held against changes when it is answered.             *)
LEMMA AnswerKeeps ==
    ASSUME SearchInv, stage = "ranked", stage' = "answered", Complete(answer'), reranked' \in BOOLEAN,
           UNCHANGED <<memory, row, vector, touched, ask, hits, survivors, boosts, ranked, scores>>,
           ~reranked' => FairlyBlended(answer'), reranked' => FairlyReranked(answer')
    PROVE  SearchInv'
<1> USE DEF SearchInv
<1>1. SearchTypes'
  BY DEF SearchTypes
<1>2. AllFound'
  BY DEF AllFound
<1>3. Search!Pool' = Search!Pool
  BY DEF Search!Pool
<1>4. Narrowing'
  BY <1>3 DEF Narrowing, Complete
<1>5. Search!FilterFindsAll'
  BY DEF Search!FilterFindsAll, Complete, Search!Near
<1>6. Search!RankingIsFair'
  <2>1. ASSUME ~reranked', NEW d \in Search!ToSet(survivors), NEW e \in Search!ToSet(survivors),
               Search!Dominates(d, e)', e \in Search!ToSet(answer')
        PROVE  d \in Search!ToSet(answer') /\ Search!Position(answer', d) < Search!Position(answer', e)
    <3>1. Search!Dominates(d, e)
      BY <2>1 DEF Search!Dominates, Search!Near, Search!SourceOf
    <3> QED BY <2>1, <3>1, Zenon DEF FairlyBlended
  <2>2. reranked' => \A i, j \in DOMAIN ranked :
            /\ ranked[j] \in Search!ToSet(answer') /\ i <= Search!Pool
            /\ j > Search!Pool \/ Search!Ahead(scores, i, j)
            => ranked[i] \in Search!ToSet(answer')
               /\ Search!Position(answer', ranked[i]) < Search!Position(answer', ranked[j])
    BY Zenon DEF FairlyReranked
  <2>3. Len(answer') = Search!Min({ask.limit, Len(survivors)}) /\ Search!IsInjective(answer')
    BY DEF Complete
  <2> QED BY <1>3, <2>1, <2>2, <2>3 DEF Search!RankingIsFair
<1>7. AsLoaded'
  BY DEF AsLoaded
<1>8. Search!AnswersAsAsked'
  <2>1. \A d \in Search!ToSet(answer') : Search!Kept(d)
    BY DEF Complete
  <2>2. \A d : Search!Kept(d)' <=> Search!Kept(d)
    BY DEF Search!Kept, Search!Near
  <2>3. Search!ToSet(answer)' = Search!ToSet(answer')
    BY DEF Search!ToSet
  <2> QED BY <2>1, <2>2, <2>3 DEF Search!AnswersAsAsked
<1> QED BY <1>1, <1>2, <1>4, <1>5, <1>6, <1>7, <1>8 DEF Fair

LEMMA ApplyKeeps == ASSUME SearchInv, Search!ApplyRerank PROVE SearchInv'
<1>1. /\ stage = "ranked" /\ Len(scores) = Search!Pool /\ reranked' = TRUE /\ stage' = "answered"
      /\ answer' = Search!Page(Search!Reorder(Search!Pool))
      /\ UNCHANGED <<memory, row, vector, touched, ask, hits, survivors, boosts, ranked, scores>>
  BY Zenon DEF Search!ApplyRerank
<1>2. Complete(answer') /\ FairlyReranked(answer')
  BY <1>1, RerankAnswers, Zenon
<1> QED BY <1>1, <1>2, AnswerKeeps

LEMMA FailKeepsOrder == ASSUME SearchInv, Search!FailOpen PROVE SearchInv'
<1>1. /\ stage = "ranked" /\ stage' = "answered" /\ answer' = Search!Page(ranked)
      /\ UNCHANGED <<memory, row, vector, touched, ask, hits, survivors, boosts, ranked, scores, reranked>>
  BY Zenon DEF Search!FailOpen
<1>2. reranked = FALSE
  BY <1>1 DEF SearchInv, Narrowing
<1>3. Complete(answer') /\ FairlyBlended(answer')
  BY <1>1, HybridAnswers, Zenon
<1> QED BY <1>1, <1>2, <1>3, AnswerKeeps

LEMMA OthersKeep == ASSUME SearchInv, NEW d \in SearchedDrawer, Search!Other(d) PROVE SearchInv'
<1> USE DEF SearchInv
<1>1. /\ stage \in {"asked", "found"} /\ touched' = touched \cup {d}
      /\ UNCHANGED <<memory, ask, stage, hits, survivors, boosts, ranked, scores, reranked, answer>>
      /\ Search!Move(d) \/ Search!DeleteRow(d) \/ Search!DeleteVector(d)
  BY DEF Search!Other, Search!search
<1>2. /\ row' \in [SearchedDrawer -> Wings \cup {Absent}] /\ vector' \subseteq SearchedDrawer
      /\ \A e \in vector : e = d \/ e \in vector'
  BY <1>1 DEF SearchTypes, Search!Move, Search!DeleteRow, Search!DeleteVector
<1>3. SearchTypes'
  BY <1>1, <1>2 DEF SearchTypes
<1>4. AllFound'
  BY <1>1, <1>2 DEF AllFound, Wide
<1>5. Narrowing'
  <2>1. Search!Pool' = Search!Pool
    BY <1>1 DEF Search!Pool
  <2> QED BY <1>1, <2>1 DEF Narrowing
<1>6. Fair'
  BY <1>1 DEF Fair, Search!RankingIsFair, Search!FilterFindsAll, Search!AnswersAsAsked
<1>7. AsLoaded'
  BY <1>1 DEF AsLoaded
<1> QED BY <1>3, <1>4, <1>5, <1>6, <1>7

LEMMA SearchStarts == ASSUME Search!Init PROVE SearchInv
<1> USE DEF Search!Init
<1>1. ask.limit \in Nat /\ ask \in [wing : Wings \cup {Absent}, limit : Nat, pool : Nat]
  <2>1. \A n \in Asked : Search!Clamp(n) \in Nat
    <3> TAKE n \in Asked
    <3>1. n \in Int /\ DefaultLimit \in Nat /\ MaxLimit \in Nat
      BY SearchGiven
    <3>2. Search!Min({n, MaxLimit}) = IF n <= MaxLimit THEN n ELSE MaxLimit
      BY <3>1, SearchLesserIs
    <3> QED BY <3>1, <3>2 DEF Search!Clamp
  <2>2. ask.limit \in {Search!Clamp(n) : n \in Asked} /\ ask.pool \in Rerankers /\ ask.wing \in Wings \cup {Absent}
        /\ ask = [wing |-> ask.wing, limit |-> ask.limit, pool |-> ask.pool]
    OBVIOUS
  <2> QED BY <2>1, <2>2, SearchGiven
<1>2. SearchTypes
  <2>1. <<>> \in Seq(SearchedDrawer) /\ <<>> \in Seq(Int) /\ Distinctly(<<>>)
    BY DEF Distinctly
  <2>2. boosts \in [Sources -> {0} \cup Search!ToSet(RankBoosts)]
    OBVIOUS
  <2>3. hits = <<>> /\ survivors = <<>> /\ ranked = <<>> /\ scores = <<>>
    OBVIOUS
  <2> QED BY <1>1, <2>1, <2>2, <2>3 DEF SearchTypes
<1>3. AllFound
  BY DEF AllFound
<1>4. Narrowing
  <2>1. Search!ToSet(<<>>) = {}
    BY DEF Search!ToSet
  <2>2. Search!Pool \in Nat
    BY <1>2, PoolIs
  <2> QED BY <1>1, <2>1, <2>2 DEF Narrowing
<1>5. Fair
  BY DEF Fair, Search!RankingIsFair, Search!FilterFindsAll, Search!AnswersAsAsked
<1>6. AsLoaded
  BY DEF AsLoaded
<1> QED BY <1>2, <1>3, <1>4, <1>5, <1>6 DEF SearchInv

LEMMA SearchMoves == ASSUME SearchInv, Search!Next PROVE SearchInv'
BY RetrieveKeeps, ResolveKeeps, BoostsKeep, RankKeeps, BatchKeeps, ApplyKeeps, FailKeepsOrder, OthersKeep
   DEF Search!Next

LEMMA SearchRests == ASSUME SearchInv, UNCHANGED searching PROVE SearchInv'
<1>1. UNCHANGED <<memory, row, vector, touched, ask, stage, hits, survivors, boosts, ranked, scores, reranked, answer>>
  BY DEF searching
<1>2. SearchTypes'
  BY <1>1 DEF SearchInv, SearchTypes
<1>3. AllFound'
  BY <1>1 DEF SearchInv, AllFound, Wide, Wanted, Search!Near
<1>4. Narrowing'
  <2>1. Search!Pool' = Search!Pool
    BY <1>1 DEF Search!Pool
  <2>2. Blend' = Blend
    BY <1>1, BlendStays
  <2>3. Search!Sorted(survivors, Blend)' = Search!Sorted(survivors, Blend)
    BY <1>1, <2>2 DEF Search!Sorted
  <2>4. stage = "ranked" => ranked = Search!Sorted(survivors, Blend)
    BY DEF SearchInv, Narrowing
  <2> QED BY <1>1, <2>1, <2>3, <2>4 DEF SearchInv, Narrowing
<1>5. Fair'
  BY <1>1 DEF SearchInv, Fair, Search!RankingIsFair, Search!FilterFindsAll, Search!Dominates, Search!Near,
              Search!SourceOf, Search!Pool, Search!AnswersAsAsked, Search!Kept
<1>6. AsLoaded'
  BY <1>1 DEF SearchInv, AsLoaded, Search!Kept, Search!Near, Search!ToSet
<1> QED BY <1>2, <1>3, <1>4, <1>5, <1>6 DEF SearchInv

(* A search ranks what it found by its blend of scores or by a reranker's, *)
(* ties in the order they came in; with a pool of all there is it misses   *)
(* nothing of the wing that nobody touched meanwhile, and it answers only  *)
(* rows of the wing asked for and near enough, whatever was moved before   *)
(* they were loaded (palace.Service.Search, rankHybrid).                   *)
THEOREM SearchesAreFair == MCSpec => []SearchIsFair
<1> DEFINE Inv == part = "search" => SearchInv
<1>1. MCInit => Inv
  BY SearchStarts DEF MCInit
<1>2. Inv /\ [MCNext]_<<part, vars, closets, journal, searching, graph, walk, vectors>> => Inv'
  <2> SUFFICES ASSUME Inv, [MCNext]_<<part, vars, closets, journal, searching, graph, walk, vectors>>,
                      part' = "search"
               PROVE  SearchInv'
    OBVIOUS
  <2>1. part = "search" /\ (Search!Next \/ UNCHANGED searching)
    BY Zenon DEF MCNext
  <2> QED BY <2>1, SearchMoves, SearchRests
<1>3. Inv => SearchIsFair
  BY DEF SearchInv, Fair, SearchIsFair
<1> QED BY <1>1, <1>2, <1>3, PTL DEF MCSpec
==============================================================================
