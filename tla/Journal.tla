-------------------------------- MODULE Journal --------------------------------
(***************************************************************************)
(* The diaries of agents.  An entry is stored in chunks under ids made of  *)
(* all there is to know of it and a seed of its own, so that the same      *)
(* words written twice are two entries; a reading takes the newest rows    *)
(* and then, in a query of its own, their number.                          *)
(***************************************************************************)
EXTENDS Integers, FiniteSets, Sequences, SequencesExt, FiniteSetsExt

CONSTANTS
    Agent,           \* names as spelled by callers
    Lower,           \* Lower[a]: the name in lower case
    Wings, NoWing,
    Entry,           \* texts: sequences of the chunks they are cut into
    Asked, DefaultN, MaxN,
    MaxTime, MaxWrites

VARIABLES
    rows,            \* rows of the room "diary"
    now, nonces,     \* the clock, and the nonces drawn
    written,         \* entries acknowledged: a history
    reading          \* a diary_read between its queries, or its result

vars == <<rows, now, nonces, written, reading>>

Idle == [stage |-> "idle", agent |-> "none", wing |-> NoWing, page |-> <<>>, total |-> 0]

Init == rows = {} /\ now = 0 /\ nonces = 0 /\ written = {} /\ reading = Idle

WingOf(agent, wing) == IF wing = NoWing THEN <<"wing", agent>> ELSE wing

(* Timestamp and nonce; when there are no random bytes, the timestamp.     *)
DiarySeed == {<<now, nonces + 1>>, <<now, 0>>}

EntryIdByText(agent, wing, index, chunk, seed) == <<agent, wing, index, chunk>>
DiaryEntryId(agent, wing, index, chunk, seed) == <<agent, wing, index, chunk, seed>>

Row(agent, wing, entry, i, seed) ==
    [id |-> DiaryEntryId(agent, wing, i, entry[i], seed), agent |-> agent, wing |-> wing,
     index |-> i, chunk |-> entry[i], filedAt |-> seed[1]]

(* Storing replaces rows of the same id.                                   *)
Store(new) == {r \in rows : \A n \in new : n.id # r.id} \cup new

WriteDiary(name, wing, entry) ==
    /\ Cardinality(written) < MaxWrites
    /\ \E seed \in DiarySeed :
       LET new == {Row(Lower[name], WingOf(Lower[name], wing), entry, i, seed) : i \in DOMAIN entry} IN
       /\ rows' = Store(new)
       /\ written' = written \cup {[number |-> Cardinality(written), random |-> seed[2] # 0,
                                    rows |-> {r.id : r \in new}]}
       /\ nonces' = nonces + 1
    /\ UNCHANGED <<now, reading>>

Tick == now < MaxTime /\ now' = now + 1 /\ UNCHANGED <<rows, nonces, written, reading>>

Scope(agent, wing) == {r \in rows : r.agent = agent /\ wing \in {NoWing, r.wing}}

Clamp(n) == IF n <= 0 THEN DefaultN ELSE Min({n, MaxN})

(* Newest first; rows of one moment come in the order of their hashes.     *)
ReadPage(name, wing, n) ==
    /\ reading.stage = "idle"
    /\ \E page \in SetToAllKPermutations(Scope(Lower[name], wing)) :
       /\ Len(page) = Min({Clamp(n), Cardinality(Scope(Lower[name], wing))})
       /\ \A i \in DOMAIN page : \A r \in Scope(Lower[name], wing) \ {page[j] : j \in 1..i} :
             page[i].filedAt >= r.filedAt
       /\ reading' = [stage |-> "counting", agent |-> Lower[name], wing |-> wing,
                      page |-> page, total |-> 0]
    /\ UNCHANGED <<rows, now, nonces, written>>

DiaryCount(agent, wing) == Cardinality(Scope(agent, wing))

Count ==
    /\ reading.stage = "counting"
    /\ reading' = [reading EXCEPT !.stage = "read", !.total = DiaryCount(reading.agent, reading.wing)]
    /\ UNCHANGED <<rows, now, nonces, written>>

Reply ==
    /\ reading.stage = "read" /\ reading' = Idle
    /\ UNCHANGED <<rows, now, nonces, written>>

Next ==
    \/ \E a \in Agent, w \in Wings \cup {NoWing}, e \in Entry : WriteDiary(a, w, e)
    \/ \E a \in Agent, w \in Wings \cup {NoWing}, n \in Asked : ReadPage(a, w, n)
    \/ Count \/ Reply \/ Tick

Spec == Init /\ [][Next]_vars

-----------------------------------------------------------------------------
TypeOK ==
    /\ now \in 0..MaxTime /\ nonces \in 0..MaxWrites
    /\ \A r, s \in rows : r.id = s.id => r = s
    /\ reading.stage \in {"idle", "counting", "read"} /\ Len(reading.page) <= MaxN

(* Nothing written is lost to a later entry, be it word for word the same  *)
(* and of the same moment: all chunks of an entry that drew a nonce are    *)
(* there and are no other's (service.go:743-748, 785-790).                 *)
JournalAppends ==
    \A e \in written :
       /\ e.rows \subseteq {r.id : r \in rows}
       /\ e.random => \A f \in written \ {e} : e.rows \cap f.rows = {}
=============================================================================
