------------------------------ MODULE JobsProofs ------------------------------
(***************************************************************************)
(* Proofs about the three processes MCJobs runs, for every value of its    *)
(* constants.  A mine under the source's lock leaves exactly its own       *)
(* drawers and closets (FilingInv says how far it has come); a team is     *)
(* overtaken by the turns of two rounds at most (RoundOK counts those      *)
(* still to come); in order and one at a time, Stripe's events leave the   *)
(* workspace on the plan it paid for (BillingInv: what is answered, owed   *)
(* and recorded, event by event), and in any order on none it did not buy  *)
(* (OwedInv: what is told and handled has happened).                       *)
(***************************************************************************)
EXTENDS MCJobs, Sequences, FiniteSetTheorems, TLAPS

-----------------------------------------------------------------------------
(* Filing a source.  A call past its beginnings holds the ids of its own   *)
(* place alone; a mine past "lock" holds the lock.                         *)
Places == Mined \cup Added
CallOrIdle == {Filing!Idle} \cup Filing!Call
Past(h) == call[h] # Filing!Idle /\ call[h].kind = "mine" /\ call[h].step # "lock"
OfAdd == {"list", "vectors", "rows", "write vectors", "write rows"}
Purged == {"closets", "closet vectors", "closet rows", "write vectors", "write rows"}
Written == {"write closet vectors", "write closet rows"}
Writing == {"write vectors", "write rows"} \cup Written
RowsAt(p) == {r \in rows : r[1] = p}
New(c) == {<<c.place, k>> : k \in Cut[c.doc]}
Packs(c) == {<<c.place, s, c.doc>> : s \in Packed[c.doc]}

(* How far a mine of a place nobody adds to has come with its drawers, ... *)
DrawersOK(c) ==
    /\ c.step \in Purged => RowsAt(c.place) = {}
    /\ c.step = "write rows" => New(c) \subseteq vectors
    /\ c.step \in Written => RowsAt(c.place) = New(c) /\ New(c) \subseteq vectors
(* ... and any mine with the closets of the source, which no add touches.  *)
ClosetsOK(c) ==
    /\ c.step \in Writing => sourceClosets = {} /\ Cut[c.doc] # {}
    /\ c.step = "write closet rows" => Packs(c) \subseteq closetVecs
CallOK(c) ==
    /\ c.kind \in Calls[c.place]
    /\ \A id \in c.old : id[1] = c.place
    /\ c.kind = "add" => c.step \in OfAdd
    /\ Filing!OnlyMined(c.place) => DrawersOK(c)
    /\ c.kind = "mine" => ClosetsOK(c)

ClosetsTyped(set) ==
    /\ set \subseteq Places \X Slots \X Docs
    /\ \A c, d \in set : Filing!Key(c) = Filing!Key(d) => c = d
FilingTypes ==
    /\ rows \subseteq Filing!DrawerId /\ vectors \subseteq Filing!DrawerId
    /\ call \in [Handler -> CallOrIdle]
    /\ lock \in Handler \cup {Filing!NoOne}
    /\ calls \in 0..MaxCalls /\ filingFaults \in 0..FilingFaults
    /\ ClosetsTyped(sourceClosets) /\ ClosetsTyped(closetVecs)
Locked == \A h \in Handler : Past(h) => lock = h
CallsOK == \A h \in Handler : call[h] # Filing!Idle => CallOK(call[h])
(* Where a place is only mined, a row without vector is one its miner has  *)
(* just to drop, unless something failed.                                  *)
Vectored ==
    filingFaults = 0 => \A r \in rows : Filing!OnlyMined(r[1]) =>
        \/ r \in vectors
        \/ \E h \in Handler : call[h] # Filing!Idle /\ call[h].step = "rows" /\ call[h].place = r[1]
FilingInv == FilingTypes /\ Locked /\ CallsOK /\ Vectored

-----------------------------------------------------------------------------
(* The record of a call.                                                   *)
LEMMA CallFields ==
    ASSUME NEW c \in Filing!Call
    PROVE  /\ c.kind \in {"add", "mine"} /\ c.place \in Places /\ c.doc \in Docs
           /\ c.step \in Filing!Steps /\ c.old \subseteq Filing!DrawerId
           /\ c # Filing!Idle
BY DEF Filing!Call, Filing!Idle, Places

LEMMA CallAt ==
    ASSUME FilingTypes, NEW h \in Handler, call[h] # Filing!Idle
    PROVE  call[h] \in Filing!Call
BY DEF FilingTypes, CallOrIdle

LEMMA ReStep ==
    ASSUME NEW c \in Filing!Call, NEW s \in Filing!Steps
    PROVE  /\ [c EXCEPT !.step = s] \in Filing!Call
           /\ [c EXCEPT !.step = s].kind = c.kind
           /\ [c EXCEPT !.step = s].place = c.place
           /\ [c EXCEPT !.step = s].doc = c.doc
           /\ [c EXCEPT !.step = s].old = c.old
           /\ [c EXCEPT !.step = s].oldClosets = c.oldClosets
           /\ [c EXCEPT !.step = s].step = s
BY DEF Filing!Call

(* What a call is after a step of it.                                      *)
Stepped(h, s) ==
    /\ call' \in [Handler -> CallOrIdle] /\ call'[h] \in Filing!Call
    /\ call'[h].kind = call[h].kind /\ call'[h].place = call[h].place
    /\ call'[h].doc = call[h].doc /\ call'[h].step = s
    /\ \A g \in Handler : g # h => call'[g] = call[g]
Ended(h) ==
    /\ call' \in [Handler -> CallOrIdle] /\ call'[h] = Filing!Idle
    /\ \A g \in Handler : g # h => call'[g] = call[g]

LEMMA GoToIs ==
    ASSUME FilingTypes, NEW h \in Handler, call[h] # Filing!Idle,
           NEW s \in Filing!Steps, Filing!GoTo(h, s)
    PROVE  Stepped(h, s) /\ call'[h].old = call[h].old
<1>1. call[h] \in Filing!Call
  BY CallAt
<1>2. call' = [call EXCEPT ![h] = [call[h] EXCEPT !.step = s]]
  BY DEF Filing!GoTo
<1>3. [call[h] EXCEPT !.step = s] \in CallOrIdle
  BY <1>1, ReStep DEF CallOrIdle
<1> QED
  BY <1>1, <1>2, <1>3, ReStep DEF FilingTypes, Stepped

LEMMA FinishIs ==
    ASSUME FilingTypes, NEW h \in Handler, Filing!Finish(h)
    PROVE  Ended(h) /\ lock' = IF lock = h THEN Filing!NoOne ELSE lock
BY DEF Filing!Finish, FilingTypes, Ended, CallOrIdle

-----------------------------------------------------------------------------
(* What a step of a call past its lock does: it keeps to its place, and    *)
(* touches closets only as a mine.                                         *)
KeepsElsewhere(h) ==
    /\ \A id : id[1] # call[h].place => /\ id \in rows' <=> id \in rows
                                        /\ id \in vectors => id \in vectors'
    /\ call[h].kind = "add" => UNCHANGED <<sourceClosets, closetVecs>>
Moved(h) ==
    /\ call' \in [Handler -> CallOrIdle]
    /\ \A g \in Handler : g # h => call'[g] = call[g]
    /\ \/ /\ call'[h] = Filing!Idle
          /\ lock' = IF lock = h THEN Filing!NoOne ELSE lock
       \/ /\ call'[h] \in Filing!Call /\ call'[h].step # "lock"
          /\ call'[h].kind = call[h].kind /\ call'[h].place = call[h].place
          /\ CallOK(call[h])'
          /\ lock' = lock
StepOf(h) ==
    /\ call[h] # Filing!Idle /\ call[h].step # "lock"
    /\ KeepsElsewhere(h) /\ Moved(h)
    /\ rows' \subseteq Filing!DrawerId /\ vectors' \subseteq Filing!DrawerId
    /\ ClosetsTyped(sourceClosets') /\ ClosetsTyped(closetVecs')
    /\ UNCHANGED <<calls, filingFaults>>
    /\ filingFaults = 0 => \A r \in rows' : r[1] = call[h].place /\ Filing!OnlyMined(r[1]) =>
         \/ r \in vectors'
         \/ call'[h] # Filing!Idle /\ call'[h].step = "rows"

(* A mine in the middle is not disturbed: it has the lock, and nobody else *)
(* is at its place.                                                        *)
LEMMA OthersKeep ==
    ASSUME FilingInv, NEW h \in Handler, NEW g \in Handler, g # h,
           call[g] # Filing!Idle, call'[g] = call[g],
           \/ UNCHANGED <<rows, vectors, sourceClosets, closetVecs>>
           \/ call[h] # Filing!Idle /\ call[h].step # "lock" /\ KeepsElsewhere(h)
    PROVE  CallOK(call[g])'
<1> DEFINE c == call[g]
<1>1. CallOK(c) /\ c \in Filing!Call /\ c.kind \in {"add", "mine"}
  BY CallAt, CallFields DEF FilingInv, CallsOK
<1>2. CASE UNCHANGED <<rows, vectors, sourceClosets, closetVecs>>
  BY <1>1, <1>2 DEF CallOK, DrawersOK, ClosetsOK, RowsAt
<1>3. ASSUME call[h] # Filing!Idle, call[h].step # "lock", KeepsElsewhere(h)
      PROVE  CallOK(call[g])'
  <2>1. CallOK(call[h]) /\ call[h].kind \in {"add", "mine"}
    BY <1>3, CallAt, CallFields DEF FilingInv, CallsOK
  <2>2. CASE c.kind = "mine" /\ c.step \in Purged \cup Writing
    <3>1. Past(g)
      BY <2>2 DEF Past, Purged, Writing, Written
    <3>2. call[h].kind = "add"
      BY <3>1, <2>1, <1>3 DEF FilingInv, Locked, Past
    <3>3. Filing!OnlyMined(c.place) => c.place # call[h].place
      BY <3>2, <2>1 DEF Filing!OnlyMined, CallOK
    <3>4. UNCHANGED <<sourceClosets, closetVecs>>
      BY <3>2, <1>3 DEF KeepsElsewhere
    <3>5. ASSUME Filing!OnlyMined(c.place)
          PROVE  /\ RowsAt(c.place) = {r \in rows' : r[1] = c.place}
                 /\ New(c) \subseteq vectors => New(c) \subseteq vectors'
      BY <3>5, <3>3, <1>3 DEF KeepsElsewhere, RowsAt, New
    <3> QED
      BY <1>1, <3>4, <3>5 DEF CallOK, DrawersOK, ClosetsOK, RowsAt
  <2>3. CASE ~(c.kind = "mine" /\ c.step \in Purged \cup Writing)
    <3>1. Filing!OnlyMined(c.place) => c.kind = "mine"
      BY <1>1 DEF Filing!OnlyMined, CallOK
    <3>2. "write rows" \in Purged /\ "write closet rows" \in Writing /\ Written \subseteq Writing
      BY DEF Purged, Writing, Written
    <3> QED
      BY <1>1, <2>3, <3>1, <3>2 DEF CallOK, DrawersOK, ClosetsOK
  <2> QED BY <2>2, <2>3
<1> QED BY <1>2, <1>3

LEMMA StepKeeps ==
    ASSUME JobsAssumption, FilingInv, NEW h \in Handler, StepOf(h)
    PROVE  FilingInv'
<1>0. Filing!NoOne \notin Handler
  BY DEF JobsAssumption, Filing!Assumptions
<1>1. FilingTypes'
  BY DEF StepOf, Moved, FilingInv, FilingTypes
<1>2. Locked'
  <2> SUFFICES ASSUME NEW g \in Handler, Past(g)' PROVE lock' = g
    BY DEF Locked
  <2>1. CASE g = h
    <3>1. lock = h
      BY <2>1 DEF StepOf, Moved, FilingInv, Locked, Past
    <3> QED BY <2>1, <3>1 DEF StepOf, Moved, Past
  <2>2. CASE g # h
    <3>1. Past(g)
      BY <2>2 DEF StepOf, Moved, Past
    <3>2. lock = g
      BY <3>1 DEF FilingInv, Locked
    <3> QED BY <2>2, <3>2 DEF StepOf, Moved
  <2> QED BY <2>1, <2>2
<1>3. CallsOK'
  <2> SUFFICES ASSUME NEW g \in Handler, call'[g] # Filing!Idle PROVE CallOK(call[g])'
    BY DEF CallsOK
  <2>1. CASE g = h
    BY <2>1 DEF StepOf, Moved
  <2>2. CASE g # h
    <3>1. call'[g] = call[g] /\ call[h] # Filing!Idle /\ call[h].step # "lock" /\ KeepsElsewhere(h)
      BY <2>2 DEF StepOf, Moved
    <3> QED BY <2>2, <3>1, OthersKeep
  <2> QED BY <2>1, <2>2
<1>4. Vectored'
  <2> SUFFICES ASSUME filingFaults = 0, NEW r \in rows', Filing!OnlyMined(r[1])
               PROVE  \/ r \in vectors'
                      \/ \E g \in Handler : /\ call'[g] # Filing!Idle /\ call'[g].step = "rows"
                                            /\ call'[g].place = r[1]
    BY DEF Vectored, StepOf
  <2>1. CASE r[1] = call[h].place
    BY <2>1 DEF StepOf, Moved
  <2>2. CASE r[1] # call[h].place
    <3>1. r \in rows /\ (r \in vectors => r \in vectors')
      BY <2>2 DEF StepOf, KeepsElsewhere
    <3>2. CASE r \in vectors
      BY <3>1, <3>2
    <3>3. ASSUME NEW g \in Handler, call[g] # Filing!Idle, call[g].step = "rows", call[g].place = r[1]
          PROVE  /\ call'[g] # Filing!Idle /\ call'[g].step = "rows"
                 /\ call'[g].place = r[1]
      BY <3>3, <2>2 DEF StepOf, Moved
    <3> QED BY <3>1, <3>2, <3>3 DEF FilingInv, Vectored
  <2> QED BY <2>1, <2>2
<1> QED BY <1>1, <1>2, <1>3, <1>4 DEF FilingInv

-----------------------------------------------------------------------------
(* Each step.  A mine that ends by one has replaced what it was to replace. *)
Replaced(h) ==
    /\ Filing!OnlyMined(call[h].place) =>
         /\ {r \in rows' : r[1] = call[h].place} = New(call[h])
         /\ New(call[h]) \subseteq vectors'
    /\ Cut[call[h].doc] # {} => sourceClosets' = Packs(call[h]) /\ sourceClosets' \subseteq closetVecs'
    /\ Cut[call[h].doc] = {} => sourceClosets' = {}
Kept(h) == StepOf(h) /\ (call[h].kind = "mine" /\ call'[h] = Filing!Idle => Replaced(h))

LEMMA Named ==
    ASSUME NEW h
    PROVE  /\ Filing!NewRows(h) = New(call[h]) /\ Filing!NewClosets(h) = Packs(call[h])
BY DEF Filing!NewRows, Filing!NewClosets, New, Packs

LEMMA NewTyped ==
    ASSUME JobsAssumption, NEW c \in Filing!Call
    PROVE  /\ New(c) \subseteq Filing!DrawerId /\ \A id \in New(c) : id[1] = c.place
           /\ Cut[c.doc] \subseteq Chunks /\ Packed[c.doc] \subseteq Slots
<1>1. c.place \in Places /\ c.doc \in Docs
  BY CallFields
<1>2. Cut[c.doc] \subseteq Chunks /\ Packed[c.doc] \subseteq Slots
  BY <1>1 DEF JobsAssumption, Filing!Assumptions
<1> QED BY <1>1, <1>2 DEF New, Filing!DrawerId, Places

LEMMA SteppedMoves ==
    ASSUME NEW h \in Handler, NEW s, Stepped(h, s), s # "lock", CallOK(call[h])', lock' = lock
    PROVE  Moved(h) /\ call'[h] # Filing!Idle /\ call'[h].step = s
BY CallFields DEF Stepped, Moved

LEMMA GoesOnOK ==
    ASSUME NEW h \in Handler, NEW s, Stepped(h, s), call'[h].old = call[h].old,
           call[h] \in Filing!Call, CallOK(call[h]),
           call[h].kind = "add" => s \in OfAdd,
           Filing!OnlyMined(call[h].place) =>
             LET R == {r \in rows' : r[1] = call[h].place} IN
             /\ s \in Purged => R = {}
             /\ s = "write rows" => New(call[h]) \subseteq vectors'
             /\ s \in Written => R = New(call[h]) /\ New(call[h]) \subseteq vectors',
           call[h].kind = "mine" =>
             /\ s \in Writing => sourceClosets' = {} /\ Cut[call[h].doc] # {}
             /\ s = "write closet rows" => Packs(call[h]) \subseteq closetVecs'
    PROVE  CallOK(call[h])'
<1> DEFINE e == call'[h]
<1>1. e.kind = call[h].kind /\ e.place = call[h].place /\ e.doc = call[h].doc /\ e.step = s
  BY DEF Stepped
<1>2. New(e) = New(call[h]) /\ Packs(e) = Packs(call[h])
  BY <1>1 DEF New, Packs
<1>3. Filing!OnlyMined(e.place) => DrawersOK(call[h])'
  BY <1>1, <1>2 DEF DrawersOK, RowsAt
<1>4. e.kind = "mine" => ClosetsOK(call[h])'
  BY <1>1, <1>2 DEF ClosetsOK
<1> QED
  BY <1>1, <1>3, <1>4 DEF CallOK

LEMMA AtListing ==
    ASSUME FilingInv, NEW h \in Handler, call[h] # Filing!Idle, call[h].step = "list",
           filingFaults = 0, NEW r \in rows, r[1] = call[h].place, Filing!OnlyMined(r[1])
    PROVE  r \in vectors
<1> SUFFICES ASSUME NEW g \in Handler, call[g] # Filing!Idle, call[g].step = "rows",
                    call[g].place = r[1]
             PROVE  FALSE
  BY DEF FilingInv, Vectored
<1>1. call[g].kind = "mine" /\ call[h].kind = "mine"
  BY DEF FilingInv, CallsOK, CallOK, Filing!OnlyMined
<1>2. Past(g) /\ Past(h)
  BY <1>1 DEF Past
<1> QED
  BY <1>2 DEF FilingInv, Locked

LEMMA ListOldKeeps ==
    ASSUME JobsAssumption, FilingInv, NEW h \in Handler, Filing!ListOld(h)
    PROVE  Kept(h)
<1> DEFINE ids == {r \in rows : r[1] = call[h].place}
           s == IF ids = {} THEN Filing!AfterPurge(h) ELSE "vectors"
           d == [call[h] EXCEPT !.old = ids, !.step = s]
<1>1. /\ call[h] # Filing!Idle /\ call[h].step = "list"
      /\ call' = [call EXCEPT ![h] = d]
      /\ UNCHANGED <<rows, vectors, sourceClosets, closetVecs, lock, calls, filingFaults>>
  BY Zenon DEF Filing!ListOld, Filing!At
<1>2. call[h] \in Filing!Call /\ CallOK(call[h])
  BY <1>1, CallAt DEF FilingInv, CallsOK
<1>3. s \in Filing!Steps /\ (s # "vectors" => ids = {})
         /\ s \in {"vectors", "closets", "write vectors"}
         /\ (call[h].kind = "add" => s # "closets")
         /\ (call[h].kind = "mine" => s # "write vectors")
  BY DEF Filing!Steps, Filing!AfterPurge
<1>4. /\ d \in Filing!Call /\ d.kind = call[h].kind /\ d.place = call[h].place
      /\ d.doc = call[h].doc /\ d.step = s /\ d.old = ids
  <2>1. ids \in SUBSET Filing!DrawerId
    BY DEF FilingInv, FilingTypes
  <2> HIDE DEF ids, s
  <2> QED BY <1>2, <1>3, <2>1 DEF Filing!Call
<1> HIDE DEF s, d
<1>5. Stepped(h, s) /\ call'[h].old = ids
  BY <1>1, <1>4 DEF Stepped, FilingInv, FilingTypes, CallOrIdle
<1>i. \A id \in ids : id[1] = call[h].place
  OBVIOUS
<1>j. ids = {} => RowsAt(call[h].place) = {}
  BY DEF RowsAt
<1> HIDE DEF ids
<1>6. CallOK(call[h])'
  <2> DEFINE e == call'[h]
  <2>1. /\ e.kind = call[h].kind /\ e.place = call[h].place /\ e.step = s /\ e.old = ids
        /\ e.kind \in {"add", "mine"}
    BY <1>2, <1>5, CallFields DEF Stepped
  <2>2. e.kind \in Calls[e.place] /\ \A id \in e.old : id[1] = e.place
    BY <1>2, <1>i, <2>1 DEF CallOK
  <2>3. e.kind = "add" => e.step \in OfAdd
    BY <1>3, <2>1 DEF OfAdd
  <2>4. s \in Purged => {r \in rows' : r[1] = e.place} = {}
    BY <1>1, <1>3, <1>j, <2>1 DEF Purged, RowsAt
  <2>5. e.step # "write rows" /\ e.step \notin Written
    BY <1>3, <2>1 DEF Written
  <2>6. e.kind = "mine" => e.step \notin Writing
    BY <1>3, <2>1 DEF Writing, Written
  <2> QED
    BY <2>1, <2>2, <2>3, <2>4, <2>5, <2>6 DEF CallOK, DrawersOK, ClosetsOK, RowsAt, Writing, Written
<1>7. Moved(h) /\ call'[h] # Filing!Idle /\ KeepsElsewhere(h)
  BY <1>1, <1>3, <1>5, <1>6, SteppedMoves DEF KeepsElsewhere
<1>8. ASSUME filingFaults = 0, NEW r \in rows', r[1] = call[h].place, Filing!OnlyMined(r[1])
      PROVE  r \in vectors'
  BY <1>1, <1>2, <1>8, AtListing
<1> QED
  BY <1>1, <1>7, <1>8 DEF Kept, StepOf, FilingInv, FilingTypes

LEMMA DropVectorsKeeps ==
    ASSUME JobsAssumption, FilingInv, NEW h \in Handler, Filing!DropVectors(h)
    PROVE  Kept(h)
<1>1. /\ call[h] # Filing!Idle /\ call[h].step = "vectors" /\ Filing!GoTo(h, "rows")
      /\ vectors' = vectors \ call[h].old
      /\ UNCHANGED <<rows, sourceClosets, closetVecs, lock, calls, filingFaults>>
  BY DEF Filing!DropVectors, Filing!At
<1>2. call[h] \in Filing!Call /\ CallOK(call[h])
  BY <1>1, CallAt DEF FilingInv, CallsOK
<1>3. Stepped(h, "rows") /\ call'[h].old = call[h].old
  BY <1>1, GoToIs DEF Filing!Steps, FilingInv
<1>4. CallOK(call[h])'
  BY <1>2, <1>3 DEF Stepped, CallOK, DrawersOK, ClosetsOK, Purged, Writing, Written, OfAdd
<1>5. Moved(h) /\ call'[h] # Filing!Idle /\ call'[h].step = "rows"
  BY <1>1, <1>3, <1>4, SteppedMoves
<1>6. KeepsElsewhere(h)
  BY <1>1, <1>2 DEF KeepsElsewhere, CallOK
<1> QED
  BY <1>1, <1>5, <1>6 DEF Kept, StepOf, FilingInv, FilingTypes

LEMMA DropRowsKeeps ==
    ASSUME JobsAssumption, FilingInv, NEW h \in Handler, Filing!DropRows(h)
    PROVE  Kept(h)
<1> DEFINE s == Filing!AfterPurge(h)
<1>1. /\ call[h] # Filing!Idle /\ call[h].step = "rows" /\ Filing!GoTo(h, s)
      /\ rows' = {r \in rows : r[1] # call[h].place}
      /\ UNCHANGED <<vectors, sourceClosets, closetVecs, lock, calls, filingFaults>>
  BY DEF Filing!DropRows, Filing!At
<1>2. call[h] \in Filing!Call /\ CallOK(call[h])
  BY <1>1, CallAt DEF FilingInv, CallsOK
<1>3. s = IF call[h].kind = "mine" THEN "closets" ELSE "write vectors"
  BY DEF Filing!AfterPurge
<1> HIDE DEF s
<1>4. Stepped(h, s)
  BY <1>1, <1>3, GoToIs DEF Filing!Steps, FilingInv
<1>o. call'[h].old = call[h].old
  BY <1>1, <1>3, GoToIs DEF Filing!Steps, FilingInv
<1>5. CallOK(call[h])'
  BY <1>1, <1>2, <1>3, <1>4, <1>o, CallFields
  DEF Stepped, CallOK, DrawersOK, ClosetsOK, RowsAt, Purged, Writing, Written, OfAdd, Filing!OnlyMined
<1>6. Moved(h) /\ call'[h] # Filing!Idle
  BY <1>1, <1>3, <1>4, <1>5, SteppedMoves
<1>7. KeepsElsewhere(h)
  BY <1>1 DEF KeepsElsewhere
<1> QED
  BY <1>1, <1>6, <1>7 DEF Kept, StepOf, FilingInv, FilingTypes

LEMMA FinishMoves ==
    ASSUME FilingInv, NEW h \in Handler, Filing!Finish(h)
    PROVE  Moved(h) /\ call'[h] = Filing!Idle
BY FinishIs DEF FilingInv, Ended, Moved

(* Closets are a mine's: it has purged its place by then.                  *)
LEMMA AtClosets ==
    ASSUME FilingInv, NEW h \in Handler, call[h] # Filing!Idle,
           call[h].step \in {"closets", "closet vectors", "closet rows"} \cup Written
    PROVE  call[h] \in Filing!Call /\ CallOK(call[h]) /\ call[h].kind = "mine"
<1>1. call[h] \in Filing!Call /\ CallOK(call[h])
  BY CallAt DEF FilingInv, CallsOK
<1> QED
  BY <1>1, CallFields DEF CallOK, OfAdd, Written

(* The end of the purge: on to the writing, or done where the text has no  *)
(* chunk.                                                                  *)
LEMMA PurgeEnds ==
    ASSUME JobsAssumption, FilingInv, NEW h \in Handler, call[h] # Filing!Idle,
           call[h].step \in {"closets", "closet rows"},
           Filing!GoOn(h, Filing!AfterClosetPurge(h)), sourceClosets' = {},
           UNCHANGED <<rows, vectors, closetVecs, calls, filingFaults>>
    PROVE  Kept(h)
<1> DEFINE s == Filing!AfterClosetPurge(h)
<1>1. call[h] \in Filing!Call /\ CallOK(call[h]) /\ call[h].kind = "mine"
  BY AtClosets
<1>2. KeepsElsewhere(h)
  BY <1>1 DEF KeepsElsewhere
<1>3. Filing!OnlyMined(call[h].place) => RowsAt(call[h].place) = {}
  BY <1>1 DEF CallOK, DrawersOK, Purged
<1>4. CASE Cut[call[h].doc] = {}
  <2>1. Filing!Finish(h)
    BY <1>4 DEF Filing!GoOn, Filing!AfterClosetPurge
  <2>2. Moved(h) /\ call'[h] = Filing!Idle
    BY <2>1, FinishMoves
  <2>3. Replaced(h)
    BY <1>3, <1>4 DEF Replaced, New, RowsAt
  <2>4. \A r \in rows' : r[1] = call[h].place => ~Filing!OnlyMined(r[1])
    BY <1>3 DEF RowsAt
  <2> QED
    BY <1>2, <2>2, <2>3, <2>4 DEF Kept, StepOf, FilingInv, FilingTypes, ClosetsTyped
<1>5. CASE Cut[call[h].doc] # {}
  <2>1. Filing!GoTo(h, "write vectors") /\ lock' = lock
    BY <1>5 DEF Filing!GoOn, Filing!AfterClosetPurge
  <2>2. Stepped(h, "write vectors") /\ call'[h].old = call[h].old
    BY <2>1, GoToIs DEF Filing!Steps, FilingInv
  <2>3. CallOK(call[h])'
    BY <1>1, <1>3, <1>5, <2>2, GoesOnOK DEF RowsAt, Purged, Writing, Written, OfAdd
  <2>4. Moved(h) /\ call'[h] # Filing!Idle
    BY <2>1, <2>2, <2>3, SteppedMoves
  <2>5. \A r \in rows' : r[1] = call[h].place => ~Filing!OnlyMined(r[1])
    BY <1>3 DEF RowsAt
  <2> QED
    BY <1>2, <2>4, <2>5 DEF Kept, StepOf, FilingInv, FilingTypes, ClosetsTyped
<1> QED BY <1>4, <1>5

(* A step of the purge of closets that goes on to the next.                *)
LEMMA PurgeGoesOn ==
    ASSUME JobsAssumption, FilingInv, NEW h \in Handler, call[h] # Filing!Idle,
           call[h].step \in {"closets", "closet vectors"},
           NEW s \in {"closet vectors", "closet rows"}, Stepped(h, s),
           call'[h].old = call[h].old,
           ClosetsTyped(closetVecs'),
           UNCHANGED <<rows, vectors, sourceClosets, lock, calls, filingFaults>>
    PROVE  Kept(h)
<1>1. call[h] \in Filing!Call /\ CallOK(call[h]) /\ call[h].kind = "mine"
  BY AtClosets
<1>2. Filing!OnlyMined(call[h].place) => RowsAt(call[h].place) = {}
  BY <1>1 DEF CallOK, DrawersOK, Purged
<1>3. CallOK(call[h])'
  BY <1>1, <1>2, GoesOnOK DEF RowsAt, Purged, Writing, Written, OfAdd
<1>4. Moved(h) /\ call'[h] # Filing!Idle /\ KeepsElsewhere(h)
  BY <1>1, <1>3, SteppedMoves DEF KeepsElsewhere
<1>5. \A r \in rows' : r[1] = call[h].place => ~Filing!OnlyMined(r[1])
  BY <1>2 DEF RowsAt
<1> QED
  BY <1>4, <1>5 DEF Kept, StepOf, FilingInv, FilingTypes, ClosetsTyped

LEMMA ClosetPurgeKeeps ==
    ASSUME JobsAssumption, FilingInv, NEW h \in Handler,
           Filing!ListClosets(h) \/ Filing!DropClosetVectors(h) \/ Filing!DropClosetRows(h)
    PROVE  Kept(h)
<1>1. CASE Filing!ListClosets(h) /\ sourceClosets = {}
  BY <1>1, PurgeEnds DEF Filing!ListClosets, Filing!At
<1>2. CASE Filing!ListClosets(h) /\ sourceClosets # {}
  <2> DEFINE e == [call[h] EXCEPT !.step = "closet vectors",
                                  !.oldClosets = {Filing!Key(c) : c \in sourceClosets}]
  <2>1. /\ call[h] # Filing!Idle /\ call[h].step = "closets" /\ call' = [call EXCEPT ![h] = e]
        /\ UNCHANGED <<rows, vectors, sourceClosets, closetVecs, lock, calls, filingFaults>>
    BY <1>2, Zenon DEF Filing!ListClosets, Filing!At
  <2>2. call[h] \in Filing!Call
    BY <2>1, CallAt DEF FilingInv
  <2>3. {Filing!Key(c) : c \in sourceClosets} \in SUBSET Filing!ClosetKey
    BY DEF FilingInv, FilingTypes, ClosetsTyped, Filing!ClosetKey, Filing!Key, Places
  <2>4. /\ e \in Filing!Call /\ e.kind = call[h].kind /\ e.place = call[h].place
        /\ e.doc = call[h].doc /\ e.step = "closet vectors" /\ e.old = call[h].old
    BY <2>2, <2>3 DEF Filing!Call, Filing!Steps
  <2> HIDE DEF e
  <2>5. Stepped(h, "closet vectors") /\ call'[h].old = call[h].old
    BY <2>1, <2>4 DEF Stepped, FilingInv, FilingTypes, CallOrIdle
  <2>6. ClosetsTyped(closetVecs')
    BY <2>1 DEF FilingInv, FilingTypes, ClosetsTyped
  <2> QED BY <2>1, <2>5, <2>6, PurgeGoesOn
<1>3. CASE Filing!DropClosetVectors(h)
  <2>1. /\ call[h] # Filing!Idle /\ call[h].step = "closet vectors" /\ Filing!GoTo(h, "closet rows")
        /\ UNCHANGED <<rows, vectors, sourceClosets, lock, calls, filingFaults>>
    BY <1>3 DEF Filing!DropClosetVectors, Filing!At
  <2>2. Stepped(h, "closet rows") /\ call'[h].old = call[h].old
    BY <2>1, GoToIs DEF Filing!Steps, FilingInv
  <2>3. closetVecs' \subseteq closetVecs
    BY <1>3 DEF Filing!DropClosetVectors, Filing!Drop
  <2>4. ClosetsTyped(closetVecs')
    BY <2>3 DEF FilingInv, FilingTypes, ClosetsTyped
  <2> QED BY <2>1, <2>2, <2>4, PurgeGoesOn
<1>4. CASE Filing!DropClosetRows(h)
  BY <1>4, PurgeEnds DEF Filing!DropClosetRows, Filing!At
<1> QED BY <1>1, <1>2, <1>3, <1>4

(* The writing: its vectors before its rows, drawers before closets.       *)
LEMMA WriteVectorsKeeps ==
    ASSUME JobsAssumption, FilingInv, NEW h \in Handler, Filing!WriteVectors(h)
    PROVE  Kept(h)
<1>1. /\ call[h] # Filing!Idle /\ call[h].step = "write vectors"
      /\ vectors' = vectors \cup New(call[h]) /\ Filing!GoTo(h, "write rows")
      /\ UNCHANGED <<rows, sourceClosets, closetVecs, lock, calls, filingFaults>>
  BY Named DEF Filing!WriteVectors, Filing!At
<1>2. call[h] \in Filing!Call /\ CallOK(call[h])
  BY <1>1, CallAt DEF FilingInv, CallsOK
<1>3. Stepped(h, "write rows") /\ call'[h].old = call[h].old
  BY <1>1, GoToIs DEF Filing!Steps, FilingInv
<1>4. Filing!OnlyMined(call[h].place) => RowsAt(call[h].place) = {}
  BY <1>1, <1>2 DEF CallOK, DrawersOK, Purged
<1>5. call[h].kind = "mine" => sourceClosets = {} /\ Cut[call[h].doc] # {}
  BY <1>1, <1>2 DEF CallOK, ClosetsOK, Writing
<1>6. CallOK(call[h])'
  BY <1>1, <1>2, <1>3, <1>4, <1>5, GoesOnOK DEF RowsAt, OfAdd, Written
<1>7. Moved(h) /\ call'[h] # Filing!Idle /\ KeepsElsewhere(h)
  BY <1>1, <1>2, <1>3, <1>6, SteppedMoves, NewTyped DEF KeepsElsewhere
<1>8. \A r \in rows' : r[1] = call[h].place => ~Filing!OnlyMined(r[1])
  BY <1>1, <1>4 DEF RowsAt
<1>9. vectors' \subseteq Filing!DrawerId
  BY <1>1, <1>2, NewTyped DEF FilingInv, FilingTypes
<1> QED
  BY <1>1, <1>7, <1>8, <1>9 DEF Kept, StepOf, FilingInv, FilingTypes

LEMMA WriteRowsKeeps ==
    ASSUME JobsAssumption, FilingInv, NEW h \in Handler, Filing!WriteRows(h)
    PROVE  Kept(h)
<1>1. /\ call[h] # Filing!Idle /\ call[h].step = "write rows"
      /\ rows' = rows \cup New(call[h]) /\ Filing!GoOn(h, Filing!AfterRows(h))
      /\ UNCHANGED <<vectors, sourceClosets, closetVecs, calls, filingFaults>>
  BY Named DEF Filing!WriteRows, Filing!At
<1>2. call[h] \in Filing!Call /\ CallOK(call[h])
  BY <1>1, CallAt DEF FilingInv, CallsOK
<1>n. New(call[h]) \subseteq Filing!DrawerId /\ \A id \in New(call[h]) : id[1] = call[h].place
  BY <1>2, NewTyped
<1>3. KeepsElsewhere(h) /\ rows' \subseteq Filing!DrawerId
  BY <1>1, <1>n DEF KeepsElsewhere, FilingInv, FilingTypes
<1>4. Filing!OnlyMined(call[h].place) =>
        /\ {r \in rows' : r[1] = call[h].place} = New(call[h])
        /\ New(call[h]) \subseteq vectors'
  <2>1. Filing!OnlyMined(call[h].place) => RowsAt(call[h].place) = {} /\ New(call[h]) \subseteq vectors
    BY <1>1, <1>2 DEF CallOK, DrawersOK, Purged
  <2> QED BY <1>1, <1>n, <2>1 DEF RowsAt
<1>5. call[h].kind = "mine" => sourceClosets' = {} /\ Cut[call[h].doc] # {}
  BY <1>1, <1>2 DEF CallOK, ClosetsOK, Writing
<1>6. filingFaults = 0 => \A r \in rows' : r[1] = call[h].place /\ Filing!OnlyMined(r[1]) => r \in vectors'
  BY <1>4
<1>7. CASE call[h].kind = "mine" /\ Packed[call[h].doc] # {}
  <2>1. Filing!GoTo(h, "write closet vectors") /\ lock' = lock
    BY <1>1, <1>7 DEF Filing!GoOn, Filing!AfterRows
  <2>2. Stepped(h, "write closet vectors") /\ call'[h].old = call[h].old
    BY <1>1, <2>1, GoToIs DEF Filing!Steps, FilingInv
  <2>3. CallOK(call[h])'
    BY <1>2, <1>4, <1>5, <1>7, <2>2, GoesOnOK DEF Purged
  <2>4. Moved(h) /\ call'[h] # Filing!Idle
    BY <2>1, <2>2, <2>3, SteppedMoves
  <2> QED
    BY <1>1, <1>3, <1>6, <2>4 DEF Kept, StepOf, FilingInv, FilingTypes
<1>8. CASE ~(call[h].kind = "mine" /\ Packed[call[h].doc] # {})
  <2>1. Filing!Finish(h)
    BY <1>1, <1>8 DEF Filing!GoOn, Filing!AfterRows
  <2>2. Moved(h) /\ call'[h] = Filing!Idle
    BY <2>1, FinishMoves
  <2>3. call[h].kind = "mine" => Replaced(h)
    <3>1. Packed[call[h].doc] = {} => Packs(call[h]) = {}
      BY DEF Packs
    <3> QED BY <1>4, <1>5, <1>8, <3>1 DEF Replaced
  <2> QED
    BY <1>1, <1>3, <1>6, <2>2, <2>3 DEF Kept, StepOf, FilingInv, FilingTypes
<1> QED BY <1>7, <1>8

LEMMA PacksTyped ==
    ASSUME JobsAssumption, NEW c \in Filing!Call
    PROVE  ClosetsTyped(Packs(c))
<1>1. \A d \in Packs(c) : \E s \in Packed[c.doc] : d = <<c.place, s, c.doc>>
  BY DEF Packs
<1> QED
  BY <1>1, NewTyped, CallFields DEF ClosetsTyped, Filing!Key

LEMMA PutTyped ==
    ASSUME NEW set, NEW more, ClosetsTyped(set), ClosetsTyped(more)
    PROVE  /\ ClosetsTyped(Filing!Put(set, more)) /\ more \subseteq Filing!Put(set, more)
           /\ (set = {} => Filing!Put(set, more) = more)
BY DEF ClosetsTyped, Filing!Put, Filing!Drop

LEMMA WriteClosetsKeeps ==
    ASSUME JobsAssumption, FilingInv, NEW h \in Handler,
           Filing!WriteClosetVectors(h) \/ Filing!WriteClosetRows(h)
    PROVE  Kept(h)
<1>1. call[h] # Filing!Idle /\ call[h].step \in Written
  BY DEF Filing!WriteClosetVectors, Filing!WriteClosetRows, Filing!At, Written
<1>2. call[h] \in Filing!Call /\ CallOK(call[h]) /\ call[h].kind = "mine"
  BY <1>1, AtClosets
<1>3. sourceClosets = {} /\ Cut[call[h].doc] # {}
  BY <1>1, <1>2 DEF CallOK, ClosetsOK, Writing
<1>4. Filing!OnlyMined(call[h].place) => RowsAt(call[h].place) = New(call[h]) /\ New(call[h]) \subseteq vectors
  BY <1>1, <1>2 DEF CallOK, DrawersOK
<1>5. ClosetsTyped(Packs(call[h])) /\ ClosetsTyped(sourceClosets) /\ ClosetsTyped(closetVecs)
  BY <1>2, PacksTyped DEF FilingInv, FilingTypes
<1>6. UNCHANGED <<rows, vectors, calls, filingFaults>> /\ KeepsElsewhere(h)
  BY <1>2 DEF Filing!WriteClosetVectors, Filing!WriteClosetRows, KeepsElsewhere
<1>7. \A r \in rows' : r[1] = call[h].place /\ Filing!OnlyMined(r[1]) => r \in vectors'
  BY <1>4, <1>6 DEF RowsAt
<1>8. CASE Filing!WriteClosetVectors(h)
  <2>1. /\ closetVecs' = Filing!Put(closetVecs, Packs(call[h]))
        /\ Filing!GoTo(h, "write closet rows") /\ UNCHANGED <<sourceClosets, lock>>
    BY <1>8, Named DEF Filing!WriteClosetVectors
  <2>2. Stepped(h, "write closet rows") /\ call'[h].old = call[h].old
    BY <1>1, <2>1, GoToIs DEF Filing!Steps, FilingInv
  <2>3. Packs(call[h]) \subseteq closetVecs' /\ ClosetsTyped(closetVecs') /\ ClosetsTyped(sourceClosets')
    BY <1>5, <2>1, PutTyped
  <2>4. CallOK(call[h])'
    BY <1>2, <1>3, <1>4, <1>6, <2>1, <2>2, <2>3, GoesOnOK DEF Purged, RowsAt
  <2>5. Moved(h) /\ call'[h] # Filing!Idle
    BY <2>1, <2>2, <2>4, SteppedMoves
  <2> QED
    BY <1>1, <1>6, <1>7, <2>3, <2>5 DEF Kept, StepOf, FilingInv, FilingTypes, Written
<1>9. CASE Filing!WriteClosetRows(h)
  <2>1. /\ sourceClosets' = Filing!Put(sourceClosets, Packs(call[h]))
        /\ Filing!Finish(h) /\ UNCHANGED closetVecs /\ call[h].step = "write closet rows"
    BY <1>9, Named DEF Filing!WriteClosetRows, Filing!At
  <2>2. Moved(h) /\ call'[h] = Filing!Idle
    BY <2>1, FinishMoves
  <2>3. sourceClosets' = Packs(call[h]) /\ ClosetsTyped(sourceClosets') /\ ClosetsTyped(closetVecs')
    BY <1>3, <1>5, <2>1, PutTyped
  <2>4. Packs(call[h]) \subseteq closetVecs'
    BY <1>2, <2>1 DEF CallOK, ClosetsOK
  <2>5. Replaced(h)
    BY <1>3, <1>4, <1>6, <2>3, <2>4 DEF Replaced, RowsAt
  <2> QED
    BY <1>1, <1>6, <1>7, <2>2, <2>3, <2>5 DEF Kept, StepOf, FilingInv, FilingTypes, Written
<1> QED BY <1>8, <1>9

-----------------------------------------------------------------------------
(* The beginnings of a call, and its failing.                              *)
LEMMA BeginKeeps ==
    ASSUME JobsAssumption, FilingInv, NEW h \in Handler, NEW p \in Places, NEW d \in Docs,
           Filing!BeginAdd(h, p, d) \/ Filing!BeginMine(h, p, d)
    PROVE  FilingInv' /\ call'[h] # Filing!Idle
<1>1. PICK k \in {"add", "mine"}, s \in {"list", "lock"} :
        /\ k \in Calls[p] /\ (k = "add" => s = "list") /\ (k = "mine" => s = "lock")
        /\ call[h] = Filing!Idle /\ calls < MaxCalls /\ calls' = calls + 1
        /\ call' = [call EXCEPT ![h] = [kind |-> k, place |-> p, doc |-> d, step |-> s,
                                        old |-> {}, oldClosets |-> {}]]
        /\ UNCHANGED <<rows, vectors, sourceClosets, closetVecs, lock, filingFaults>>
  BY DEF Filing!BeginAdd, Filing!BeginMine
<1> DEFINE e == [kind |-> k, place |-> p, doc |-> d, step |-> s, old |-> {}, oldClosets |-> {}]
<1>2. e \in Filing!Call
  BY DEF Filing!Call, Filing!Steps, Places
<1>3. /\ e.kind = k /\ e.place = p /\ e.step = s /\ e.old = {}
      /\ call' = [call EXCEPT ![h] = e]
  BY <1>1
<1> HIDE DEF e
<1>4. /\ call' \in [Handler -> CallOrIdle] /\ call'[h] = e /\ e # Filing!Idle
      /\ \A g \in Handler : g # h => call'[g] = call[g]
  BY <1>2, <1>3, CallFields DEF FilingInv, FilingTypes, CallOrIdle
<1>5. FilingTypes'
  BY <1>1, <1>4 DEF JobsAssumption, Filing!Assumptions, FilingInv, FilingTypes, ClosetsTyped
<1>6. Locked'
  BY <1>1, <1>3, <1>4 DEF FilingInv, Locked, Past
<1>7. CallsOK'
  <2> SUFFICES ASSUME NEW g \in Handler, call'[g] # Filing!Idle PROVE CallOK(call[g])'
    BY DEF CallsOK
  <2>1. CASE g = h
    BY <1>1, <1>3, <1>4, <2>1
    DEF CallOK, DrawersOK, ClosetsOK, Purged, Writing, Written, OfAdd
  <2>2. CASE g # h
    BY <1>1, <1>4, <2>2, OthersKeep
  <2> QED BY <2>1, <2>2
<1>8. Vectored'
  BY <1>1, <1>4 DEF FilingInv, Vectored
<1> QED BY <1>4, <1>5, <1>6, <1>7, <1>8 DEF FilingInv

LEMMA AcquireKeeps ==
    ASSUME JobsAssumption, FilingInv, NEW h \in Handler, Filing!Acquire(h)
    PROVE  FilingInv' /\ call'[h] # Filing!Idle
<1>1. /\ call[h] # Filing!Idle /\ call[h].step = "lock" /\ Filing!GoTo(h, "list")
      /\ lock = Filing!NoOne /\ lock' = h
      /\ UNCHANGED <<rows, vectors, sourceClosets, closetVecs, calls, filingFaults>>
  BY DEF Filing!Acquire, Filing!At
<1>2. call[h] \in Filing!Call /\ CallOK(call[h])
  BY <1>1, CallAt DEF FilingInv, CallsOK
<1>3. Stepped(h, "list") /\ call'[h].old = call[h].old
  BY <1>1, GoToIs DEF Filing!Steps, FilingInv
<1>4. CallOK(call[h])'
  BY <1>2, <1>3, GoesOnOK DEF OfAdd, Purged, Writing, Written
<1>5. call'[h] # Filing!Idle
  BY <1>3, CallFields DEF Stepped
<1>6. FilingTypes'
  BY <1>1, <1>3 DEF Stepped, FilingInv, FilingTypes, ClosetsTyped
<1>7. Locked'
  <2> SUFFICES ASSUME NEW g \in Handler, g # h, Past(g)' PROVE FALSE
    BY <1>1 DEF Locked
  <2>1. Past(g)
    BY <1>3 DEF Stepped, Past
  <2> QED BY <2>1, <1>1 DEF FilingInv, Locked, JobsAssumption, Filing!Assumptions
<1>8. CallsOK'
  <2> SUFFICES ASSUME NEW g \in Handler, call'[g] # Filing!Idle PROVE CallOK(call[g])'
    BY DEF CallsOK
  <2>1. CASE g = h
    BY <1>4, <2>1
  <2>2. CASE g # h
    BY <1>1, <1>3, <2>2, OthersKeep DEF Stepped
  <2> QED BY <2>1, <2>2
<1>9. Vectored'
  <2>1. \A g \in Handler : call[g] # Filing!Idle /\ call[g].step = "rows" => call'[g] = call[g]
    BY <1>1, <1>3 DEF Stepped
  <2> QED BY <1>1, <2>1 DEF FilingInv, Vectored
<1> QED BY <1>5, <1>6, <1>7, <1>8, <1>9 DEF FilingInv

LEMMA FailKeeps ==
    ASSUME JobsAssumption, FilingInv, NEW h \in Handler, Filing!Fail(h)
    PROVE  FilingInv' /\ filingFaults' # filingFaults
<1>1. /\ call[h] # Filing!Idle /\ Filing!Finish(h)
      /\ filingFaults < FilingFaults /\ filingFaults' = filingFaults + 1
      /\ UNCHANGED <<rows, vectors, sourceClosets, closetVecs, calls>>
  BY DEF Filing!Fail
<1>2. Ended(h) /\ lock' = IF lock = h THEN Filing!NoOne ELSE lock
  BY <1>1, FinishIs DEF FilingInv
<1>3. filingFaults \in Nat /\ filingFaults' # 0 /\ filingFaults' # filingFaults
  BY <1>1 DEF FilingInv, FilingTypes
<1>4. FilingTypes'
  BY <1>1, <1>2 DEF Ended, FilingInv, FilingTypes, ClosetsTyped, JobsAssumption, Filing!Assumptions
<1>5. Locked'
  <2> SUFFICES ASSUME NEW g \in Handler, Past(g)' PROVE lock' = g
    BY DEF Locked
  <2>1. g # h /\ Past(g)
    BY <1>2 DEF Ended, Past
  <2> QED BY <1>2, <2>1 DEF FilingInv, Locked
<1>6. CallsOK'
  <2> SUFFICES ASSUME NEW g \in Handler, call'[g] # Filing!Idle PROVE CallOK(call[g])'
    BY DEF CallsOK
  <2>1. g # h
    BY <1>2 DEF Ended
  <2> QED BY <1>1, <1>2, <2>1, OthersKeep DEF Ended
<1>7. Vectored'
  BY <1>3 DEF Vectored
<1> QED BY <1>3, <1>4, <1>5, <1>6, <1>7 DEF FilingInv

LEMMA StepIs ==
    ASSUME JobsAssumption, FilingInv, NEW h \in Handler, Filing!Purge(h) \/ Filing!Store(h)
    PROVE  Kept(h)
BY ListOldKeeps, DropVectorsKeeps, DropRowsKeeps, ClosetPurgeKeeps, WriteVectorsKeeps,
   WriteRowsKeeps, WriteClosetsKeeps
DEF Filing!Purge, Filing!Store

LEMMA FilingStarts ==
    ASSUME JobsAssumption, Filing!Init
    PROVE  FilingInv
BY DEF Filing!Init, JobsAssumption, Filing!Assumptions, FilingInv, FilingTypes, ClosetsTyped,
       CallOrIdle, Locked, Past, CallsOK, Vectored

(* Every step of a handler, and what the call that ends by it has done.    *)
LEMMA HandlerSteps ==
    ASSUME JobsAssumption, FilingInv, NEW h \in Handler,
           \/ \E p \in Places, d \in Docs : Filing!BeginAdd(h, p, d) \/ Filing!BeginMine(h, p, d)
           \/ Filing!Step(h)
           \/ Filing!Fail(h)
    PROVE  /\ FilingInv' /\ \A g \in Handler : g # h => call'[g] = call[g]
           /\ call[h] # Filing!Idle /\ call[h].kind = "mine" /\ call'[h] = Filing!Idle
                /\ filingFaults' = filingFaults => Replaced(h)
<1>0. ASSUME NEW e, call' = [call EXCEPT ![h] = e]
      PROVE  \A g \in Handler : g # h => call'[g] = call[g]
  BY <1>0 DEF FilingInv, FilingTypes
<1>1. ASSUME NEW p \in Places, NEW d \in Docs, Filing!BeginAdd(h, p, d) \/ Filing!BeginMine(h, p, d)
      PROVE  FilingInv' /\ call'[h] # Filing!Idle /\ \A g \in Handler : g # h => call'[g] = call[g]
  <2>1. \E e : call' = [call EXCEPT ![h] = e]
    BY <1>1 DEF Filing!BeginAdd, Filing!BeginMine
  <2> QED BY <1>0, <1>1, <2>1, BeginKeeps
<1>2. CASE Filing!Acquire(h)
  <2>1. \E e : call' = [call EXCEPT ![h] = e]
    BY <1>2, Zenon DEF Filing!Acquire, Filing!GoTo
  <2> QED BY <1>0, <1>2, <2>1, AcquireKeeps
<1>3. CASE Filing!Purge(h) \/ Filing!Store(h)
  BY <1>3, StepIs, StepKeeps DEF Kept, StepOf, Moved
<1>4. CASE Filing!Fail(h)
  BY <1>4, FailKeeps, FinishIs DEF Filing!Fail, FilingInv, Ended
<1> QED
  BY <1>1, <1>2, <1>3, <1>4 DEF Filing!Step

LEMMA FilingSteps ==
    ASSUME JobsAssumption, FilingInv, [Filing!Next]_(Filing!vars)
    PROVE  /\ FilingInv'
           /\ \A h \in Handler :
                call[h] # Filing!Idle /\ call[h].kind = "mine" /\ call'[h] = Filing!Idle
                  /\ filingFaults' = filingFaults => Replaced(h)
<1>1. CASE Filing!Next
  <2> PICK h \in Handler :
           \/ \E p \in Places, d \in Docs : Filing!BeginAdd(h, p, d) \/ Filing!BeginMine(h, p, d)
           \/ Filing!Step(h)
           \/ Filing!Fail(h)
    BY <1>1 DEF Filing!Next, Places
  <2> QED BY HandlerSteps
<1>2. CASE UNCHANGED Filing!vars
  <2> USE <1>2 DEF Filing!vars
  <2>1. FilingTypes' /\ Locked' /\ Vectored'
    BY DEF FilingInv, FilingTypes, Locked, Past, Vectored, ClosetsTyped
  <2>2. CallsOK'
    BY DEF FilingInv, CallsOK, CallOK, DrawersOK, ClosetsOK, RowsAt
  <2> QED BY <2>1, <2>2 DEF FilingInv
<1> QED BY <1>1, <1>2

LEMMA FilingRuns ==
    ASSUME [MCNext]_<<service, vars, filing, billing>>
    PROVE  [Filing!Next]_(Filing!vars)
BY DEF MCNext, filing, Filing!vars

(* Where a source is only mined, a mine that returns success has replaced  *)
(* its drawers in the wing and room, and everywhere its closets, and rows  *)
(* can be searched between calls that did not fail: however many handlers, *)
(* places, versions, chunks, calls and failures (Service.Mine under        *)
(* mineLocks, palace/mine.go; storeDrawers, palace/service.go).            *)
THEOREM SourcesReplaced == MCSpec => SourceReplaced
<1> USE JobsAssumption
<1>1. MCInit => FilingInv
  BY FilingStarts DEF MCInit
<1>2. FilingInv /\ [MCNext]_<<service, vars, filing, billing>> => FilingInv'
  BY FilingRuns, FilingSteps
<1>3. FilingInv => Filing!MinedRowsSearchable
  BY DEF FilingInv, Vectored, Filing!MinedRowsSearchable, Filing!Quiet
<1>4. ASSUME FilingInv, [MCNext]_<<service, vars, filing, billing>>
      PROVE  [\A h \in Handler : Filing!MineCompletes(h) =>
                /\ Filing!OnlyMined(call[h].place) =>
                      /\ {r \in rows' : r[1] = call[h].place} = Filing!NewRows(h)
                      /\ Filing!NewRows(h) \subseteq vectors'
                /\ Cut[call[h].doc] # {} =>
                      sourceClosets' = Filing!NewClosets(h) /\ sourceClosets' \subseteq closetVecs'
                /\ Cut[call[h].doc] = {} => sourceClosets' = {}]_(Filing!vars)
  BY <1>4, FilingRuns, FilingSteps, Named DEF Filing!MineCompletes, Replaced
<1> QED
  BY <1>1, <1>2, <1>3, <1>4, PTL DEF MCSpec, SourceReplaced, Filing!MineReplaces

-----------------------------------------------------------------------------
(* The embed worker.  A team that is not in the round is overtaken by the  *)
(* teams that still are, and one that is in it by those still before it;   *)
(* each restart starts a round anew.                                       *)
Others == Cardinality(Team) - 1
Round == first \cup rest
Overtakers(t) == Cardinality(Round \ {t})
RoundOK ==
    /\ phase \in {"list", "sleep"} => Round = {}
    /\ phase = "closets" => overtaken[turn] = 0
    /\ \A t \in Team : drawers[t] + closets[t] = 0 => overtaken[t] = 0
    /\ \A t \in Round : overtaken[t] + Overtakers(t) <= (1 + faults) * Others + Others
    /\ \A t \in Team \ Round : overtaken[t] + Overtakers(t) <= (1 + faults) * Others
WorkerInv == TypeOK /\ RoundOK

(* Counting the other teams.                                               *)
LEMMA OthersCount ==
    ASSUME TeamAssumption, NEW set \in SUBSET Team, NEW t \in Team
    PROVE  /\ Cardinality(set \ {t}) \in 0..Others /\ Others \in Nat
           /\ \A u \in set : u # t =>
                Cardinality((set \ {u}) \ {t}) = Cardinality(set \ {t}) - 1
<1>1. IsFiniteSet(Team) /\ IsFiniteSet(set \ {t}) /\ IsFiniteSet(Team \ {t})
  BY FS_Subset DEF TeamAssumption
<1>2. Cardinality(Team) \in Nat /\ Cardinality(set \ {t}) \in Nat
  BY <1>1, FS_CardinalityType
<1>3. Cardinality(Team \ {t}) = Others
  BY <1>1, <1>2, FS_RemoveElement DEF Others
<1>4. Cardinality(set \ {t}) <= Cardinality(Team \ {t})
  <2>1. set \ {t} \in SUBSET (Team \ {t})
    OBVIOUS
  <2> QED BY <1>1, <2>1, FS_Subset
<1>5. Cardinality(Team \ {t}) \in Nat
  BY <1>1, FS_CardinalityType
<1>6. ASSUME NEW u \in set, u # t
      PROVE  Cardinality((set \ {u}) \ {t}) = Cardinality(set \ {t}) - 1
  <2>1. (set \ {u}) \ {t} = (set \ {t}) \ {u} /\ u \in set \ {t}
    BY <1>6
  <2> DEFINE x == set \ {t}
  <2>2. Cardinality(x \ {u}) = Cardinality(x) - 1
    <3>1. IsFiniteSet(x) /\ u \in x
      BY <1>1, <2>1
    <3> HIDE DEF x
    <3> QED BY <3>1, FS_RemoveElement
  <2> QED BY <2>1, <2>2
<1> QED BY <1>2, <1>3, <1>4, <1>5, <1>6

LEMMA RoundsAdd ==
    ASSUME NEW f \in Nat, NEW m \in Nat
    PROVE  /\ (1 + (f + 1)) * m = (1 + f) * m + m /\ (2 + f) * m = (1 + f) * m + m
           /\ (1 + f) * m \in Nat /\ m <= (1 + f) * m
<1>1. (1 + f) * m = m + f * m /\ (2 + f) * m = m + m + f * m /\ f * m \in Nat
  OBVIOUS
<1>2. (1 + (f + 1)) * m = (2 + f) * m
  <2>1. 1 + (f + 1) = 2 + f
    OBVIOUS
  <2> QED BY <2>1
<1> QED BY <1>1, <1>2

LEMMA Grow ==
    ASSUME NEW f \in Nat, NEW g \in Nat, NEW m \in Nat, f <= g
    PROVE  (1 + f) * m <= (1 + g) * m
<1>1. PICK d \in Nat : g = f + d
  <2>1. g - f \in Nat /\ g = f + (g - f)
    OBVIOUS
  <2> QED BY <2>1
<1>2. (1 + g) * m = (1 + f) * m + d * m
  <2>1. (1 + (f + d)) * m = (1 + f) * m + d * m
    OBVIOUS
  <2> QED BY <1>1, <2>1
<1>3. (1 + f) * m \in Nat /\ d * m \in Nat
  OBVIOUS
<1> QED BY <1>2, <1>3

LEMMA WorkerStarts == ASSUME TeamAssumption, BoundsAssumption, Init PROVE WorkerInv
<1>1. drawers \in [Team -> 0..MaxRows] /\ closets \in [Team -> 0..MaxRows]
  BY DEF Init, BoundsAssumption
<1>2. TypeOK
  <2>1. overtaken \in [Team -> Nat] /\ absorbs \in 0..MaxAbsorbs /\ faults \in 0..MaxFaults
    BY DEF Init, BoundsAssumption
  <2>2. did \in BOOLEAN /\ first = {} /\ rest = {} /\ turn = NoTeam /\ phase = "list"
    BY DEF Init
  <2> QED BY <1>1, <2>1, <2>2 DEF TypeOK
<1>3. Round = {}
  BY DEF Round, Init
<1>4. \A t \in Team : overtaken[t] + Overtakers(t) <= (1 + faults) * Others
  <2> TAKE t \in Team
  <2>1. Overtakers(t) = 0
    BY <1>3, FS_EmptySet DEF Overtakers
  <2>2. (1 + 0) * Others \in Nat
    BY OthersCount, RoundsAdd
  <2> QED BY <2>1, <2>2 DEF Init
<1> QED BY <1>2, <1>3, <1>4 DEF WorkerInv, RoundOK, Init

(* A team served, as Served says.                                          *)
LEMMA ServedKeeps ==
    ASSUME TeamAssumption, BoundsAssumption, WorkerInv, NEW t \in Team,
           phase = "round", t \in Round, Served(t),
           drawers' \in [Team -> 0..MaxRows],
           \A u \in Team : u # t => drawers'[u] = drawers[u],
           closets' = closets, faults' \in 0..MaxFaults, faults <= faults'
    PROVE  /\ first' \subseteq Team /\ rest' \subseteq Team \ first'
           /\ overtaken' \in [Team -> Nat] /\ overtaken'[t] = 0
           /\ \A u \in Team : drawers'[u] + closets'[u] = 0 => overtaken'[u] = 0
           /\ \A u \in Round' : overtaken'[u] + Overtakers(u)' <= (1 + faults') * Others + Others
           /\ \A u \in Team \ Round' : overtaken'[u] + Overtakers(u)' <= (1 + faults') * Others
<1>1. first \subseteq Team /\ rest \subseteq Team \ first /\ overtaken \in [Team -> Nat]
      /\ drawers \in [Team -> 0..MaxRows] /\ closets \in [Team -> 0..MaxRows] /\ faults \in 0..MaxFaults
  BY DEF WorkerInv, TypeOK
<1>2. Round' = Round \ {t} /\ t \in Team /\ Round \in SUBSET Team
  BY <1>1 DEF Served, Round
<1>3. ASSUME NEW u \in Team
      PROVE  overtaken'[u] = IF u = t \/ ~ Waiting(u) THEN 0 ELSE overtaken[u] + 1
  BY DEF Served
<1>4. ASSUME NEW u \in Team, drawers[u] + closets[u] = 0
      PROVE  ~ Waiting(u)
  BY <1>4 DEF Waiting
<1>5. ASSUME NEW u \in Team, u # t, drawers'[u] + closets'[u] = 0
      PROVE  overtaken'[u] = 0
  BY <1>3, <1>4, <1>5
<1>6. (1 + faults) * Others <= (1 + faults') * Others /\ Others <= (1 + faults') * Others
      /\ (1 + faults) * Others \in Nat /\ (1 + faults') * Others \in Nat /\ Others \in Nat
  <2>1. Others \in Nat
    BY <1>2, OthersCount
  <2>2. faults \in Nat /\ faults' \in Nat
    BY <1>1 DEF BoundsAssumption
  <2>3. (1 + faults) * Others <= (1 + faults') * Others
    BY <2>1, <2>2, Grow
  <2>4. Others <= (1 + faults') * Others /\ (1 + faults) * Others \in Nat /\ (1 + faults') * Others \in Nat
    BY <2>1, <2>2, RoundsAdd
  <2> QED BY <2>1, <2>3, <2>4
<1>7. ASSUME NEW u \in Team, u \in Round \ {t}
      PROVE  overtaken'[u] + Overtakers(u)' <= (1 + faults') * Others + Others
  <2>1. Cardinality((Round \ {t}) \ {u}) = Cardinality(Round \ {u}) - 1
        /\ Cardinality(Round \ {u}) \in 0..Others
    BY <1>2, <1>7, OthersCount
  <2>2. overtaken[u] + Cardinality(Round \ {u}) <= (1 + faults) * Others + Others
    BY <1>7 DEF WorkerInv, RoundOK, Overtakers
  <2>3. Overtakers(u)' = Cardinality((Round \ {t}) \ {u})
    BY <1>2 DEF Overtakers
  <2>4. overtaken'[u] <= overtaken[u] + 1 /\ overtaken[u] \in Nat /\ overtaken'[u] \in Nat
    BY <1>1, <1>3
  <2> HIDE DEF Others
  <2> QED BY <2>1, <2>2, <2>3, <2>4, <1>6
<1>8. ASSUME NEW u \in Team, u \notin Round \ {t}
      PROVE  overtaken'[u] + Overtakers(u)' <= (1 + faults') * Others
  <2>1. CASE u = t
    <3>1. overtaken'[u] = 0 /\ Overtakers(u)' = Cardinality((Round \ {t}) \ {u})
      BY <1>2, <1>3, <2>1 DEF Overtakers
    <3>2. Cardinality((Round \ {t}) \ {u}) \in 0..Others
      BY <1>2, OthersCount
    <3> QED BY <3>1, <3>2, <1>6
  <2>2. CASE u # t
    <3>1. Cardinality((Round \ {t}) \ {u}) = Cardinality(Round \ {u}) - 1
          /\ Cardinality(Round \ {u}) \in 0..Others
      BY <1>2, <1>8, <2>2, OthersCount
    <3>2. overtaken[u] + Cardinality(Round \ {u}) <= (1 + faults) * Others
      BY <1>8, <2>2 DEF WorkerInv, RoundOK, Overtakers
    <3>3. Overtakers(u)' = Cardinality((Round \ {t}) \ {u})
      BY <1>2 DEF Overtakers
    <3>4. overtaken'[u] <= overtaken[u] + 1 /\ overtaken[u] \in Nat /\ overtaken'[u] \in Nat
      BY <1>1, <1>3
    <3> HIDE DEF Others
    <3> QED BY <3>1, <3>2, <3>3, <3>4, <1>6
  <2> QED BY <2>1, <2>2
<1>9. first' \subseteq Team /\ rest' \subseteq Team \ first' /\ overtaken' \in [Team -> Nat] /\ overtaken'[t] = 0
  <2>1. overtaken' = [u \in Team |-> IF u = t \/ ~ Waiting(u) THEN 0 ELSE overtaken[u] + 1]
    BY DEF Served
  <2>2. \A u \in Team : overtaken[u] + 1 \in Nat
    BY <1>1
  <2> QED BY <1>1, <1>2, <2>1, <2>2 DEF Served
<1> QED BY <1>2, <1>5, <1>7, <1>8, <1>9

LEMMA WorkerSteps ==
    ASSUME TeamAssumption, BoundsAssumption, WorkerInv, [Next]_vars
    PROVE  WorkerInv'
<1>1. /\ drawers \in [Team -> 0..MaxRows] /\ closets \in [Team -> 0..MaxRows]
      /\ phase \in {"list", "round", "closets", "sleep"}
      /\ first \subseteq Team /\ rest \subseteq Team \ first
      /\ turn \in Team \cup {NoTeam} /\ (turn = NoTeam <=> phase # "closets")
      /\ did \in BOOLEAN /\ absorbs \in 0..MaxAbsorbs /\ faults \in 0..MaxFaults
      /\ overtaken \in [Team -> Nat]
  BY DEF WorkerInv, TypeOK
<1>2. Round \in SUBSET Team /\ \A t \in Team : Overtakers(t) \in 0..Others /\ Others \in Nat
  <2>1. Round \in SUBSET Team
    BY <1>1 DEF Round
  <2> QED BY <2>1, OthersCount DEF Overtakers
<1>3. /\ phase \in {"list", "sleep"} => Round = {}
      /\ phase = "closets" => overtaken[turn] = 0
      /\ \A t \in Team : drawers[t] + closets[t] = 0 => overtaken[t] = 0
      /\ \A t \in Round : overtaken[t] + Overtakers(t) <= (1 + faults) * Others + Others
      /\ \A t \in Team \ Round : overtaken[t] + Overtakers(t) <= (1 + faults) * Others
  BY DEF WorkerInv, RoundOK
<1>4. CASE \E t \in Team, d, c \in 0..MaxRows : Absorb(t, d, c)
  <2> PICK t \in Team, d \in 0..MaxRows, c \in 0..MaxRows : Absorb(t, d, c)
    BY <1>4
  <2>1. TypeOK'
    <3>1. drawers[t] + d \in 0..MaxRows /\ closets[t] + c \in 0..MaxRows /\ absorbs + 1 \in 0..MaxAbsorbs
      BY <1>1 DEF Absorb, BoundsAssumption
    <3>2. drawers' \in [Team -> 0..MaxRows] /\ closets' \in [Team -> 0..MaxRows] /\ absorbs' \in 0..MaxAbsorbs
      BY <1>1, <3>1 DEF Absorb
    <3> QED BY <1>1, <3>2 DEF Absorb, TypeOK
  <2>2. \A u \in Team : drawers'[u] + closets'[u] = 0 => overtaken'[u] = 0
    BY <1>1, <1>3 DEF Absorb, BoundsAssumption
  <2>3. Round' = Round /\ overtaken' = overtaken /\ faults' = faults /\ phase' = phase /\ turn' = turn
    BY DEF Absorb, Round
  <2> QED BY <1>3, <2>1, <2>2, <2>3 DEF WorkerInv, RoundOK, Overtakers
<1>5. CASE ListTeams
  <2>1. TypeOK'
    BY <1>1, <1>5 DEF ListTeams, TypeOK
  <2>2. Round' = {t \in Team : drawers[t] > 0 \/ closets[t] > 0} /\ Round = {}
    BY <1>3, <1>5 DEF ListTeams, Round
  <2>3. phase' \in {"list", "sleep"} => Round' = {}
    BY <1>5, <2>2 DEF ListTeams, Round
  <2>4. overtaken' = overtaken /\ drawers' = drawers /\ closets' = closets /\ faults' = faults
    BY <1>5 DEF ListTeams
  <2>5. ASSUME NEW t \in Team
        PROVE  /\ Overtakers(t)' \in 0..Others
               /\ overtaken'[t] <= (1 + faults) * Others
               /\ t \notin Round' => overtaken'[t] = 0
    <3>1. Overtakers(t)' \in 0..Others
      <4>1. Round' \in SUBSET Team
        BY <2>2
      <4> HIDE DEF Round
      <4>2. Cardinality(Round' \ {t}) \in 0..Others
        BY <4>1, OthersCount
      <4> QED BY <4>2 DEF Overtakers
    <3>2. overtaken[t] <= (1 + faults) * Others
      <4>1. overtaken[t] + Overtakers(t) <= (1 + faults) * Others
        BY <1>3, <2>2
      <4>2. (1 + faults) * Others \in Nat
        BY <1>1, <1>2, RoundsAdd DEF BoundsAssumption
      <4> HIDE DEF Others
      <4> QED BY <1>1, <1>2, <4>1, <4>2
    <3>3. t \notin Round' => overtaken'[t] = 0
      BY <1>1, <1>3, <2>2, <2>4
    <3> QED BY <2>4, <3>1, <3>2, <3>3
  <2>6. ASSUME NEW t \in Team
        PROVE  (1 + faults) * Others \in Nat /\ Others <= (1 + faults) * Others
    BY <1>1, <1>2, RoundsAdd DEF BoundsAssumption
  <2>7. \A t \in Round' : overtaken'[t] + Overtakers(t)' <= (1 + faults') * Others + Others
    <3> TAKE t \in Round'
    <3>1. t \in Team /\ overtaken'[t] \in Nat
      BY <1>1, <2>2, <2>4
    <3>2. Others \in Nat
      BY <1>2, <3>1
    <3> HIDE DEF Others
    <3> QED BY <2>4, <2>5, <2>6, <3>1, <3>2
  <2>8. \A t \in Team \ Round' : overtaken'[t] + Overtakers(t)' <= (1 + faults') * Others
    <3> TAKE t \in Team \ Round'
    <3>1. Others \in Nat /\ overtaken'[t] = 0
      BY <1>2, <2>5
    <3> HIDE DEF Others
    <3> QED BY <2>4, <2>5, <2>6, <3>1
  <2>9. phase' # "closets"
    BY <1>5 DEF ListTeams
  <2>10. \A t \in Team : drawers'[t] + closets'[t] = 0 => overtaken'[t] = 0
    BY <1>3, <2>4
  <2> QED BY <2>1, <2>3, <2>7, <2>8, <2>9, <2>10 DEF WorkerInv, RoundOK
<1>6. CASE \E t \in Team : EmbedDrawers(t) \/ DrawersFail(t)
  <2> PICK t \in Team : EmbedDrawers(t) \/ DrawersFail(t)
    BY <1>6
  <2>1. /\ phase = "round" /\ t \in Round /\ Served(t) /\ closets' = closets /\ absorbs' = absorbs
        /\ \/ faults' = faults
           \/ faults < MaxFaults /\ faults' = faults + 1
        /\ \/ phase' = "closets" /\ turn' = t
           \/ phase' = phase /\ turn' = turn
        /\ \/ drawers' = drawers
           \/ drawers' = [drawers EXCEPT ![t] = @ - LeastOf(@, Batch)]
        /\ did' = did \/ did' = (did \/ drawers[t] > 0)
    BY DEF EmbedDrawers, DrawersFail, Next1, Round
  <2>2. faults' \in 0..MaxFaults /\ faults <= faults'
    BY <1>1, <2>1 DEF BoundsAssumption
  <2>3. drawers' \in [Team -> 0..MaxRows] /\ \A u \in Team : u # t => drawers'[u] = drawers[u]
    <3>1. drawers[t] - LeastOf(drawers[t], Batch) \in 0..MaxRows
      BY <1>1 DEF LeastOf, BoundsAssumption
    <3> QED BY <1>1, <2>1, <3>1
  <2>4. /\ first' \subseteq Team /\ rest' \subseteq Team \ first'
        /\ overtaken' \in [Team -> Nat] /\ overtaken'[t] = 0
        /\ \A u \in Team : drawers'[u] + closets'[u] = 0 => overtaken'[u] = 0
        /\ \A u \in Round' : overtaken'[u] + Overtakers(u)' <= (1 + faults') * Others + Others
        /\ \A u \in Team \ Round' : overtaken'[u] + Overtakers(u)' <= (1 + faults') * Others
    BY <2>1, <2>2, <2>3, ServedKeeps
  <2>5. did' \in BOOLEAN
    BY <1>1, <2>1
  <2>6. TypeOK'
    BY <1>1, <2>1, <2>2, <2>3, <2>4, <2>5 DEF TypeOK, TeamAssumption
  <2> QED BY <2>1, <2>4, <2>6 DEF WorkerInv, RoundOK
<1>7. CASE EmbedClosets \/ ClosetsFail
  <2>1. /\ phase = "closets" /\ phase' = "round" /\ turn' = NoTeam /\ drawers' = drawers
        /\ first' = first /\ rest' = rest /\ absorbs' = absorbs /\ overtaken' = overtaken
        /\ \/ faults' = faults
           \/ faults < MaxFaults /\ faults' = faults + 1
        /\ \/ closets' = closets
           \/ closets' = [closets EXCEPT ![turn] = @ - LeastOf(@, Batch)]
        /\ did' = did \/ did' = (did \/ closets[turn] > 0)
    BY <1>7 DEF EmbedClosets, ClosetsFail
  <2>2. faults' \in 0..MaxFaults /\ faults <= faults' /\ turn \in Team
    BY <1>1, <2>1 DEF BoundsAssumption
  <2>3. closets' \in [Team -> 0..MaxRows] /\ \A u \in Team : u # turn => closets'[u] = closets[u]
    <3>1. closets[turn] - LeastOf(closets[turn], Batch) \in 0..MaxRows
      BY <1>1, <2>2 DEF LeastOf, BoundsAssumption
    <3> QED BY <1>1, <2>1, <3>1
  <2>4. did' \in BOOLEAN
    BY <1>1, <2>1
  <2>5. TypeOK'
    BY <1>1, <2>1, <2>2, <2>3, <2>4 DEF TypeOK
  <2>6. \A u \in Team : drawers'[u] + closets'[u] = 0 => overtaken'[u] = 0
    BY <1>3, <2>1, <2>3
  <2>7. (1 + faults) * Others <= (1 + faults') * Others
    <3>1. faults \in Nat /\ faults' \in Nat
      BY <1>1, <2>2 DEF BoundsAssumption
    <3> QED BY <1>2, <2>2, <3>1, Grow
  <2>8. ASSUME NEW u \in Team
        PROVE  /\ u \in Round' => overtaken'[u] + Overtakers(u)' <= (1 + faults') * Others + Others
               /\ u \notin Round' => overtaken'[u] + Overtakers(u)' <= (1 + faults') * Others
    <3>1. Round' = Round /\ Overtakers(u)' = Overtakers(u) /\ overtaken'[u] = overtaken[u]
      BY <2>1 DEF Round, Overtakers
    <3>2. /\ u \in Round => overtaken[u] + Overtakers(u) <= (1 + faults) * Others + Others
          /\ u \notin Round => overtaken[u] + Overtakers(u) <= (1 + faults) * Others
      BY <1>3
    <3>3. faults \in Nat /\ faults' \in Nat
      BY <1>1, <2>2 DEF BoundsAssumption
    <3>4. (1 + faults) * Others \in Nat /\ (1 + faults') * Others \in Nat
      BY <1>2, <3>3, RoundsAdd
    <3> QED BY <1>1, <1>2, <2>7, <3>1, <3>2, <3>4
  <2>9. Round' \in SUBSET Team
    BY <1>1, <2>1 DEF Round
  <2> QED BY <2>1, <2>5, <2>6, <2>8, <2>9 DEF WorkerInv, RoundOK
<1>8. CASE EndRound \/ Wake \/ ListFails \/ Restart
  <2>1. /\ UNCHANGED <<drawers, closets, did, absorbs, overtaken>>
        /\ phase' \in {"list", "sleep"} /\ Round' = {}
        /\ first' = {} /\ rest' = {} /\ turn' = NoTeam
        /\ \/ faults' = faults /\ Round = {}
           \/ faults < MaxFaults /\ faults' = faults + 1
    BY <1>1, <1>3, <1>8 DEF EndRound, Wake, ListFails, Restart, Round
  <2>2. TypeOK'
    BY <1>1, <2>1 DEF TypeOK, BoundsAssumption
  <2>3. ASSUME NEW u \in Team
        PROVE  overtaken'[u] + Overtakers(u)' <= (1 + faults') * Others
    <3>1. Overtakers(u)' = 0
      BY <2>1, FS_EmptySet DEF Overtakers
    <3>2. CASE faults' = faults /\ Round = {}
      <4>1. overtaken[u] + Overtakers(u) <= (1 + faults) * Others
        BY <1>3, <3>2
      <4>2. (1 + faults) * Others \in Nat
        BY <1>1, <1>2, RoundsAdd DEF BoundsAssumption
      <4> HIDE DEF Others
      <4> QED BY <1>1, <1>2, <2>1, <3>1, <3>2, <4>1, <4>2
    <3>3. CASE faults < MaxFaults /\ faults' = faults + 1
      <4>1. /\ u \in Round => overtaken[u] + Overtakers(u) <= (1 + faults) * Others + Others
            /\ u \notin Round => overtaken[u] + Overtakers(u) <= (1 + faults) * Others
        BY <1>3
      <4>2. (1 + (faults + 1)) * Others = (1 + faults) * Others + Others /\ (1 + faults) * Others \in Nat
        BY <1>1, <1>2, RoundsAdd DEF BoundsAssumption
      <4> HIDE DEF Others
      <4> QED BY <1>1, <1>2, <2>1, <3>1, <3>3, <4>1, <4>2
    <3> QED BY <2>1, <3>2, <3>3
  <2>4. \A u \in Team : drawers'[u] + closets'[u] = 0 => overtaken'[u] = 0
    BY <1>3, <2>1
  <2> QED BY <2>1, <2>2, <2>3, <2>4 DEF WorkerInv, RoundOK
<1>9. CASE UNCHANGED vars
  BY <1>9 DEF vars, WorkerInv, TypeOK, RoundOK, Round, Overtakers
<1> QED BY <1>4, <1>5, <1>6, <1>7, <1>8, <1>9 DEF Next, Run

LEMMA WorkerRuns ==
    ASSUME [MCNext]_<<service, vars, filing, billing>>
    PROVE  [Next]_vars
BY DEF MCNext, filing, vars

(* A waiting team is overtaken by no more than the turns of a round and of *)
(* the one under way, and as many again for each failure or restart: for   *)
(* any finite set of teams, any batch, queues and failures                 *)
(* (embedworker/worker.go, Run).                                           *)
THEOREM TeamsOvertakenBoundedly == MCSpec => []BoundedOvertaking
<1> USE TeamAssumption, BoundsAssumption
<1>1. MCInit => WorkerInv
  BY WorkerStarts DEF MCInit
<1>2. WorkerInv /\ [MCNext]_<<service, vars, filing, billing>> => WorkerInv'
  BY WorkerRuns, WorkerSteps
<1>3. WorkerInv => BoundedOvertaking
  <2> SUFFICES ASSUME WorkerInv, NEW t \in Team
               PROVE  overtaken[t] <= (2 + faults) * Others
    BY DEF BoundedOvertaking, Others
  <2>1. Round \in SUBSET Team /\ faults \in Nat /\ overtaken[t] \in Nat
    BY DEF WorkerInv, TypeOK, Round
  <2>2. Overtakers(t) \in 0..Others /\ Others \in Nat
    BY <2>1, OthersCount DEF Overtakers
  <2>3. (2 + faults) * Others = (1 + faults) * Others + Others /\ (1 + faults) * Others \in Nat
    BY <2>1, <2>2, RoundsAdd
  <2>4. /\ t \in Round => overtaken[t] + Overtakers(t) <= (1 + faults) * Others + Others
        /\ t \notin Round => overtaken[t] + Overtakers(t) <= (1 + faults) * Others
    BY DEF WorkerInv, RoundOK
  <2> HIDE DEF Others
  <2> QED BY <2>1, <2>2, <2>3, <2>4
<1> QED
  BY <1>1, <1>2, <1>3, PTL DEF MCSpec

-----------------------------------------------------------------------------
(* Billing, where Stripe delivers in order and one webhook runs at a time. *)
(* An event is owed until it is answered, a subscription's end is emitted  *)
(* and answered after its start, and of what is owed the last start is the *)
(* last checkout's.                                                        *)
Act(s) == Billing!Activated(s)
Can(s) == Billing!Canceled(s)
List == owed["team"]
Last == latest["team"]
Owes(e) == \E i \in 1 .. Len(List) : List[i] = e
Busy(h) == handler[h] # Billing!Idle

BillingTypes ==
    /\ stripe \in [Subs -> {"none", "active", "ended"}]
    /\ owed \in [{"team"} -> Seq(Billing!Events)]
    /\ answered \subseteq Billing!Events
    /\ plan \in [{"team"} -> Billing!Plans]
    /\ row \in [{"team"} -> {Billing!NoRow} \cup Billing!Row]
    /\ handler \in [Webhook -> {Billing!Idle} \cup Billing!Handling]
    /\ latest \in [{"team"} -> Subs \cup {Billing!NoSub}]
    /\ repeats \in 0..MaxRepeats /\ webhookFaults \in 0..WebhookFaults

Unrepeated ==
    /\ \A i, j \in 1 .. Len(List) : List[i] = List[j] => i = j
    /\ \A i \in 1 .. Len(List) : List[i] \notin answered
Emitted ==
    \A s \in Subs : /\ Owes(Act(s)) \/ Act(s) \in answered <=> stripe[s] # "none"
                    /\ Owes(Can(s)) \/ Can(s) \in answered <=> stripe[s] = "ended"
EndsLater ==
    \A s \in Subs :
        /\ Can(s) \in answered => Act(s) \in answered
        /\ \A i, j \in 1 .. Len(List) : List[i] = Can(s) /\ List[j] = Act(s) => j < i
LastStart ==
    \A s \in Subs : \A i \in 1 .. Len(List) :
        List[i] = Act(s) /\ s # Last => \E j \in 1 .. Len(List) : i < j /\ List[j] = Act(Last)
NothingYet ==
    /\ Last = Billing!NoSub => /\ \A s \in Subs : stripe[s] = "none"
                               /\ row["team"] = Billing!NoRow /\ plan["team"] = "free"
    /\ Last \in Subs => stripe[Last] # "none"

(* A webhook handles the oldest event owed or an answered one, and what it *)
(* has read and written is what stands.                                    *)
Handled ==
    \A h \in Webhook : Busy(h) =>
        LET e == handler[h].event
            step == handler[h].step
        IN /\ e \in answered \/ (List # <<>> /\ List[1] = e)
           /\ step = "guard" => e = Act(e.sub)
           /\ step = "lookup" => e = Can(e.sub)
           /\ step \in {"plan", "upsert"} /\ e = Can(e.sub) =>
                 handler[h].row = row["team"] /\ row["team"] # Billing!NoRow /\ row["team"].sub = e.sub
           /\ step = "upsert" => plan["team"] = IF e = Act(e.sub) THEN Bought[e.sub] ELSE "free"
           /\ Act(Last) \in answered /\ step # "lookup" =>
                 e.sub = Last /\ (step # "guard" /\ e = Act(Last) => Can(Last) \notin answered)

(* Once the last checkout is answered, the row records it, and the plan is *)
(* its own until its end is handled.                                       *)
RowRecords ==
    /\ row["team"] # Billing!NoRow => Act(row["team"].sub) \in answered
    /\ Act(Last) \in answered =>
         row["team"] = [sub |-> Last,
                        plan |-> IF Can(Last) \in answered THEN "free" ELSE Bought[Last],
                        status |-> IF Can(Last) \in answered THEN "canceled" ELSE "active"]
PlanFollows ==
    Act(Last) \in answered =>
        /\ Can(Last) \in answered => plan["team"] = "free"
        /\ stripe[Last] = "active" => plan["team"] = Bought[Last]
QueueOK == Unrepeated /\ Emitted /\ EndsLater /\ LastStart
BillingInv == BillingTypes /\ QueueOK /\ NothingYet /\ Handled /\ RowRecords /\ PlanFollows

-----------------------------------------------------------------------------
(* Events and plans.                                                       *)
LEMMA EventIs ==
    ASSUME NEW e \in Billing!Events
    PROVE  /\ e.sub \in Subs /\ (e = Act(e.sub) \/ e = Can(e.sub))
           /\ e.kind = "activated" <=> e = Act(e.sub)
BY DEF Billing!Events, Act, Can, Billing!Activated, Billing!Canceled

LEMMA ActCan ==
    ASSUME NEW s, NEW t
    PROVE  /\ Act(s) # Can(t) /\ (Act(s) = Act(t) => s = t) /\ (Can(s) = Can(t) => s = t)
           /\ Act(s).sub = s /\ Can(s).sub = s /\ Act(s).kind = "activated" /\ Can(s).kind = "canceled"
           /\ s \in Subs => Act(s) \in Billing!Events /\ Can(s) \in Billing!Events
BY DEF Billing!Events, Act, Can, Billing!Activated, Billing!Canceled

LEMMA PlanIs ==
    ASSUME JobsAssumption
    PROVE  /\ \A s \in Subs : Bought[s] \in Billing!Plans /\ Bought[s] # "free" /\ OneTeam[s] = "team"
           /\ "free" \in Billing!Plans /\ Billing!NoSub \notin Subs
BY DEF JobsAssumption, Billing!Assumptions, Billing!Plans, Bought, OneTeam

LEMMA HandlingIs ==
    ASSUME BillingTypes, NEW h \in Webhook, Busy(h)
    PROVE  /\ handler[h] \in Billing!Handling /\ handler[h].event \in Billing!Events
           /\ handler[h].step \in {"guard", "lookup", "plan", "upsert"}
           /\ handler[h].row \in {Billing!NoRow} \cup Billing!Row
BY DEF BillingTypes, Busy, Billing!Handling

LEMMA RowIs ==
    ASSUME NEW r \in Billing!Row
    PROVE  /\ r.sub \in Subs /\ r.plan \in Billing!Plans /\ r.status \in {"active", "canceled"}
           /\ r # Billing!NoRow
           /\ [r EXCEPT !.plan = "free", !.status = "canceled"]
                = [sub |-> r.sub, plan |-> "free", status |-> "canceled"]
<1>1. /\ r.sub \in Subs /\ r.plan \in Billing!Plans /\ r.status \in {"active", "canceled"}
      /\ r # Billing!NoRow
      /\ r = [sub |-> r.sub, plan |-> r.plan, status |-> r.status]
  BY DEF Billing!Row, Billing!NoRow
<1> DEFINE x == [r EXCEPT !.plan = "free", !.status = "canceled"]
<1>2. x \in Billing!Row /\ x.sub = r.sub /\ x.plan = "free" /\ x.status = "canceled"
  <2>1. "free" \in Billing!Plans
    BY DEF Billing!Plans
  <2> QED BY <2>1 DEF Billing!Row
<1>3. x = [sub |-> x.sub, plan |-> "free", status |-> "canceled"]
  <2> HIDE DEF x
  <2> QED BY <1>2 DEF Billing!Row
<1> QED BY <1>1, <1>2, <1>3

(* The queue without its oldest event, or without one it does not hold.    *)
LEMMA WithoutIs ==
    ASSUME NEW list \in Seq(Billing!Events), NEW e,
           \A i, j \in 1 .. Len(list) : list[i] = list[j] => i = j,
           list # <<>> /\ list[1] = e
    PROVE  /\ Billing!Without(list, e) \in Seq(Billing!Events)
           /\ Len(Billing!Without(list, e)) = Len(list) - 1
           /\ \A i \in 1 .. Len(list) - 1 : Billing!Without(list, e)[i] = list[i + 1]
<1>1. DOMAIN list = 1 .. Len(list) /\ Len(list) \in Nat /\ 1 \in 1 .. Len(list)
  OBVIOUS
<1>2. (CHOOSE i \in DOMAIN list : list[i] = e) = 1
  BY <1>1
<1>3. Billing!InList(e, list)
  BY <1>1 DEF Billing!InList
<1>4. Billing!Without(list, e) = [i \in 1 .. Len(list) - 1 |-> IF i < 1 THEN list[i] ELSE list[i + 1]]
  BY <1>2, <1>3 DEF Billing!Without
<1>5. \A i \in 1 .. Len(list) - 1 : i + 1 \in 1 .. Len(list) /\ ~ i < 1
  BY <1>1
<1>6. \A i \in 1 .. Len(list) - 1 : list[i + 1] \in Billing!Events
  BY <1>5
<1>7. Billing!Without(list, e) = [i \in 1 .. Len(list) - 1 |-> list[i + 1]]
  BY <1>4, <1>5
<1> DEFINE new == [i \in 1 .. Len(list) - 1 |-> list[i + 1]]
<1>8. new \in Seq(Billing!Events) /\ Len(new) = Len(list) - 1
  <2>1. new \in [1 .. Len(list) - 1 -> Billing!Events] /\ Len(list) - 1 \in Nat
    BY <1>1, <1>6
  <2> HIDE DEF new
  <2> QED BY <2>1
<1> QED BY <1>7, <1>8

LEMMA WithoutOther ==
    ASSUME NEW list \in Seq(Billing!Events), NEW e, \A i \in 1 .. Len(list) : list[i] # e
    PROVE  Billing!Without(list, e) = list
BY DEF Billing!Without, Billing!InList

(* What answering an event does to the queue.                              *)
Answers(e) ==
    /\ owed' \in [{"team"} -> Seq(Billing!Events)]
    /\ answered' = answered \cup {e}
    /\ \/ e \in answered /\ List' = List
       \/ /\ List # <<>> /\ List[1] = e
          /\ Len(List') = Len(List) - 1
          /\ \A i \in 1 .. Len(List) - 1 : List'[i] = List[i + 1]

LEMMA AnswersIs ==
    ASSUME JobsAssumption, BillingTypes, Unrepeated, Handled, NEW h \in Webhook, Busy(h),
           Billing!Succeed(h)
    PROVE  Answers(handler[h].event)
<1> DEFINE e == handler[h].event
<1>1. e \in Billing!Events /\ e.sub \in Subs /\ OneTeam[e.sub] = "team"
  BY HandlingIs, EventIs, PlanIs
<1>2. owed \in [{"team"} -> Seq(Billing!Events)] /\ List \in Seq(Billing!Events)
  BY DEF BillingTypes, List
<1>3. owed' = [owed EXCEPT !["team"] = Billing!Without(owed["team"], e)] /\ answered' = answered \cup {e}
  BY <1>1 DEF Billing!Succeed, Billing!Event, Billing!SubOf
<1>4. List' = Billing!Without(List, e)
  BY <1>2, <1>3 DEF List
<1>5. e \in answered \/ (List # <<>> /\ List[1] = e)
  BY DEF Handled
<1>6. CASE e \in answered
  <2>1. \A i \in 1 .. Len(List) : List[i] # e
    BY <1>6 DEF Unrepeated
  <2>2. List' = List
    BY <1>2, <1>4, <2>1, WithoutOther
  <2> QED BY <1>2, <1>3, <1>6, <2>2 DEF Answers, List
<1>7. CASE List # <<>> /\ List[1] = e
  <2>1. /\ List' \in Seq(Billing!Events) /\ Len(List') = Len(List) - 1
        /\ \A i \in 1 .. Len(List) - 1 : List'[i] = List[i + 1]
    BY <1>2, <1>4, <1>7, WithoutIs DEF Unrepeated
  <2>2. owed' \in [{"team"} -> Seq(Billing!Events)]
    BY <1>2, <1>3, <1>4, <2>1 DEF List
  <2> QED BY <1>3, <1>7, <2>1, <2>2 DEF Answers
<1> QED BY <1>5, <1>6, <1>7

LEMMA AnswersQueue ==
    ASSUME BillingTypes, QueueOK, NEW e \in Billing!Events, Answers(e),
           stripe' = stripe, latest' = latest
    PROVE  QueueOK' /\ \A x \in Billing!Events : x \in answered' <=> x \in answered \/ x = e
<1>1. Len(List) \in Nat /\ Len(List') \in Nat /\ (List # <<>> => Len(List) > 0)
  BY DEF Answers, BillingTypes, List
<1>2. \A x \in Billing!Events : x \in answered' <=> x \in answered \/ x = e
  BY DEF Answers
<1>3. Last' = Last
  BY DEF Last
<1>4. CASE e \in answered /\ List' = List
  <2>1. answered' = answered
    BY <1>4 DEF Answers
  <2>2. Unrepeated'
    BY <1>4, <2>1 DEF QueueOK, Unrepeated
  <2>3. Emitted'
    BY <1>4, <2>1 DEF QueueOK, Emitted, Owes
  <2>4. EndsLater' /\ LastStart'
    BY <1>3, <1>4, <2>1 DEF QueueOK, EndsLater, LastStart
  <2> QED BY <1>2, <2>2, <2>3, <2>4 DEF QueueOK
<1>5. CASE /\ List # <<>> /\ List[1] = e
           /\ Len(List') = Len(List) - 1
           /\ \A i \in 1 .. Len(List) - 1 : List'[i] = List[i + 1]
  <2>1. \A i \in 1 .. Len(List') : i + 1 \in 1 .. Len(List) /\ List'[i] = List[i + 1]
    BY <1>1, <1>5
  <2>2. \A i \in 1 .. Len(List) : i = 1 \/ (i - 1 \in 1 .. Len(List') /\ List'[i - 1] = List[i])
    <3> SUFFICES ASSUME NEW i \in 1 .. Len(List), i # 1
                 PROVE  i - 1 \in 1 .. Len(List') /\ List'[i - 1] = List[i]
      OBVIOUS
    <3>1. i - 1 \in 1 .. Len(List') /\ (i - 1) + 1 = i
      BY <1>1, <1>5
    <3> QED BY <2>1, <3>1
  <2>3. 1 \in 1 .. Len(List)
    BY <1>1, <1>5
  <2>4. Unrepeated'
    <3>1. \A i, j \in 1 .. Len(List) : List[i] = List[j] => i = j
      BY DEF QueueOK, Unrepeated
    <3>2. ASSUME NEW i \in 1 .. Len(List'), NEW j \in 1 .. Len(List'), List'[i] = List'[j]
          PROVE  i = j
      <4>1. i + 1 = j + 1
        BY <2>1, <3>1, <3>2
      <4> QED BY <4>1, <1>1
    <3>3. ASSUME NEW i \in 1 .. Len(List')
          PROVE  List'[i] \notin answered'
      <4>1. List[i + 1] \notin answered
        BY <2>1 DEF QueueOK, Unrepeated
      <4>2. List[i + 1] # List[1]
        <5>1. i + 1 # 1
          BY <1>1
        <5> QED BY <2>1, <2>3, <3>1, <5>1
      <4> QED BY <1>5, <2>1, <4>1, <4>2 DEF Answers
    <3> QED BY <3>2, <3>3 DEF Unrepeated
  <2>5. \A x : (Owes(x) \/ x \in answered) <=> (Owes(x)' \/ x \in answered')
    <3> TAKE x
    <3>1. ASSUME Owes(x)
          PROVE  Owes(x)' \/ x = e
      <4> PICK i \in 1 .. Len(List) : List[i] = x
        BY <3>1 DEF Owes
      <4>1. CASE i = 1
        BY <1>5, <4>1
      <4>2. CASE i # 1
        BY <2>2, <4>2 DEF Owes
      <4> QED BY <4>1, <4>2
    <3>2. ASSUME Owes(x)'
          PROVE  Owes(x)
      <4> PICK i \in 1 .. Len(List') : List'[i] = x
        BY <3>2 DEF Owes
      <4> QED BY <2>1 DEF Owes
    <3>3. Owes(e)
      BY <1>5, <2>3 DEF Owes
    <3>4. answered' = answered \cup {e}
      BY DEF Answers
    <3> QED BY <3>1, <3>2, <3>3, <3>4
  <2>6. Emitted'
    BY <2>5 DEF QueueOK, Emitted
  <2>7. EndsLater'
    <3>1. ASSUME NEW s \in Subs, Can(s) = e
          PROVE  Act(s) \in answered
      <4>1. stripe[s] = "ended"
        BY <2>3, <1>5, <3>1 DEF QueueOK, Emitted, Owes
      <4>2. Owes(Act(s)) \/ Act(s) \in answered
        BY <4>1 DEF QueueOK, Emitted
      <4>3. ~ Owes(Act(s))
        <5> SUFFICES ASSUME NEW j \in 1 .. Len(List), List[j] = Act(s)
                     PROVE  FALSE
          BY DEF Owes
        <5>1. j < 1
          BY <2>3, <1>5, <3>1 DEF QueueOK, EndsLater
        <5> QED BY <5>1
      <4> QED BY <4>2, <4>3
    <3>2. \A s \in Subs : Can(s) \in answered' => Act(s) \in answered'
      BY <3>1 DEF Answers, QueueOK, EndsLater
    <3>3. ASSUME NEW s \in Subs, NEW i \in 1 .. Len(List'), NEW j \in 1 .. Len(List'),
                 List'[i] = Can(s), List'[j] = Act(s)
          PROVE  j < i
      <4>1. j + 1 < i + 1
        BY <2>1, <3>3 DEF QueueOK, EndsLater
      <4> QED BY <4>1
    <3> QED BY <3>2, <3>3 DEF EndsLater
  <2>8. LastStart'
    <3> SUFFICES ASSUME NEW s \in Subs, NEW i \in 1 .. Len(List'), List'[i] = Act(s), s # Last
                 PROVE  \E j \in 1 .. Len(List') : i < j /\ List'[j] = Act(Last)
      BY <1>3 DEF LastStart
    <3>1. PICK j \in 1 .. Len(List) : i + 1 < j /\ List[j] = Act(Last)
      BY <2>1 DEF QueueOK, LastStart
    <3>2. j - 1 \in 1 .. Len(List') /\ List'[j - 1] = Act(Last) /\ i < j - 1
      BY <2>2, <3>1
    <3> QED BY <3>2
  <2> QED BY <1>2, <2>4, <2>6, <2>7, <2>8 DEF QueueOK
<1> QED BY <1>4, <1>5 DEF Answers

(* What emitting a new event does to it.                                   *)
Emits(e) ==
    /\ owed' \in [{"team"} -> Seq(Billing!Events)] /\ answered' = answered
    /\ Len(List') = Len(List) + 1 /\ List'[Len(List) + 1] = e
    /\ \A i \in 1 .. Len(List) : List'[i] = List[i]

LEMMA EmitsIs ==
    ASSUME JobsAssumption, BillingTypes, NEW e \in Billing!Events, Billing!Emit(e), answered' = answered
    PROVE  Emits(e)
<1>1. owed \in [{"team"} -> Seq(Billing!Events)] /\ List \in Seq(Billing!Events) /\ OneTeam[e.sub] = "team"
  BY EventIs, PlanIs DEF BillingTypes, List
<1>2. owed' = [owed EXCEPT !["team"] = Append(owed["team"], e)] /\ List' = Append(List, e)
  BY <1>1 DEF Billing!Emit, List
<1>3. /\ Append(List, e) \in Seq(Billing!Events) /\ Len(Append(List, e)) = Len(List) + 1
      /\ Append(List, e)[Len(List) + 1] = e /\ \A i \in 1 .. Len(List) : Append(List, e)[i] = List[i]
  BY <1>1
<1>4. owed' \in [{"team"} -> Seq(Billing!Events)]
  BY <1>1, <1>2, <1>3 DEF List
<1> QED BY <1>2, <1>3, <1>4 DEF Emits

LEMMA EmitsQueue ==
    ASSUME BillingTypes, QueueOK, NEW e \in Billing!Events, Emits(e), ~ Owes(e), e \notin answered
    PROVE  Unrepeated' /\ \A x : Owes(x)' <=> Owes(x) \/ x = e
<1>1. Len(List) \in Nat
  BY DEF BillingTypes, List
<1>2. \A i \in 1 .. Len(List') : i \in 1 .. Len(List) \/ i = Len(List) + 1
  BY <1>1 DEF Emits
<1>3. \A i \in 1 .. Len(List) : i \in 1 .. Len(List') /\ List'[i] = List[i] /\ List[i] # e
  BY <1>1 DEF Emits, Owes
<1>4. Len(List) + 1 \in 1 .. Len(List') /\ List'[Len(List) + 1] = e
  BY <1>1 DEF Emits
<1>5. Unrepeated'
  <2>1. ASSUME NEW i \in 1 .. Len(List'), NEW j \in 1 .. Len(List'), List'[i] = List'[j]
        PROVE  i = j
    BY <1>2, <1>3, <1>4, <2>1 DEF QueueOK, Unrepeated
  <2>2. ASSUME NEW i \in 1 .. Len(List')
        PROVE  List'[i] \notin answered'
    BY <1>2, <1>3, <1>4 DEF QueueOK, Unrepeated, Emits
  <2> QED BY <2>1, <2>2 DEF Unrepeated
<1>6. ASSUME NEW x
      PROVE  Owes(x)' <=> Owes(x) \/ x = e
  BY <1>2, <1>3, <1>4 DEF Owes
<1> QED BY <1>5, <1>6

-----------------------------------------------------------------------------
(* Stripe's own steps.                                                     *)
LEMMA CheckoutKeeps ==
    ASSUME JobsAssumption, BillingInv, NEW s \in Subs, Billing!Checkout(s)
    PROVE  BillingInv'
<1>1. /\ stripe[s] = "none" /\ stripe' = [stripe EXCEPT ![s] = "active"]
      /\ latest' = [latest EXCEPT !["team"] = s] /\ Billing!Emit(Act(s))
      /\ UNCHANGED <<plan, row, handler, answered, repeats, webhookFaults>>
  BY PlanIs DEF Billing!Checkout, Billing!local, Act
<1>2. BillingTypes
  BY DEF BillingInv
<1>3. Act(s) \in Billing!Events /\ Can(s) \in Billing!Events /\ ~ Owes(Act(s)) /\ Act(s) \notin answered
      /\ ~ Owes(Can(s)) /\ Can(s) \notin answered
  BY <1>1, ActCan DEF BillingInv, QueueOK, Emitted
<1>4. Emits(Act(s)) /\ Unrepeated' /\ \A x : Owes(x)' <=> Owes(x) \/ x = Act(s)
  BY <1>1, <1>2, <1>3, EmitsIs, EmitsQueue DEF BillingInv
<1>5. Last' = s /\ s # Billing!NoSub /\ answered' = answered
  BY <1>1, <1>2, PlanIs DEF Last, BillingTypes
<1>6. Len(List) \in Nat
  BY <1>2 DEF BillingTypes, List
<1>7. BillingTypes'
  <2>1. stripe' \in [Subs -> {"none", "active", "ended"}] /\ latest' \in [{"team"} -> Subs \cup {Billing!NoSub}]
    BY <1>1, <1>2 DEF BillingTypes
  <2> QED BY <1>1, <1>2, <1>4, <2>1 DEF BillingTypes, Emits
<1>8. Emitted'
  <2>1. \A t \in Subs : stripe'[t] = IF t = s THEN "active" ELSE stripe[t]
    BY <1>1, <1>2 DEF BillingTypes
  <2> SUFFICES ASSUME NEW t \in Subs
               PROVE  /\ Owes(Act(t))' \/ Act(t) \in answered' <=> stripe'[t] # "none"
                      /\ Owes(Can(t))' \/ Can(t) \in answered' <=> stripe'[t] = "ended"
    BY DEF Emitted
  <2>2. /\ Owes(Act(t)) \/ Act(t) \in answered <=> stripe[t] # "none"
        /\ Owes(Can(t)) \/ Can(t) \in answered <=> stripe[t] = "ended"
    BY DEF BillingInv, QueueOK, Emitted
  <2>3. Act(t) = Act(s) <=> t = s
    BY ActCan
  <2>4. Can(t) # Act(s)
    BY ActCan
  <2> QED BY <1>1, <1>4, <1>5, <2>1, <2>2, <2>3, <2>4
<1>9. EndsLater'
  <2> SUFFICES ASSUME NEW t \in Subs, NEW i \in 1 .. Len(List'), NEW j \in 1 .. Len(List'),
                      List'[i] = Can(t), List'[j] = Act(t)
               PROVE  j < i
    BY <1>5 DEF EndsLater, BillingInv, QueueOK
  <2>1. i # Len(List) + 1
    BY <1>4, ActCan DEF Emits
  <2>2. i \in 1 .. Len(List) /\ List[i] = Can(t)
    BY <1>4, <1>6, <2>1 DEF Emits
  <2>3. t # s
    BY <1>3, <2>2 DEF Owes
  <2>4. j # Len(List) + 1
    BY <1>4, <2>3, ActCan DEF Emits
  <2>5. j \in 1 .. Len(List) /\ List[j] = Act(t)
    BY <1>4, <1>6, <2>4 DEF Emits
  <2> QED BY <2>2, <2>5 DEF BillingInv, QueueOK, EndsLater
<1>10. LastStart'
  <2> SUFFICES ASSUME NEW t \in Subs, NEW i \in 1 .. Len(List'), List'[i] = Act(t), t # s
               PROVE  \E j \in 1 .. Len(List') : i < j /\ List'[j] = Act(s)
    BY <1>5 DEF LastStart
  <2>1. i # Len(List) + 1
    BY <1>4, ActCan DEF Emits
  <2>2. Len(List) + 1 \in 1 .. Len(List') /\ i < Len(List) + 1
    BY <1>4, <1>6, <2>1 DEF Emits
  <2> QED BY <1>4, <2>2 DEF Emits
<1>11. Handled'
  <2> SUFFICES ASSUME NEW h \in Webhook, Busy(h)
               PROVE  handler[h].event \in answered \/ (List' # <<>> /\ List'[1] = handler[h].event)
    BY <1>1, <1>3, <1>5 DEF Handled, Busy, BillingInv
  <2>1. handler[h].event \in answered \/ (List # <<>> /\ List[1] = handler[h].event)
    BY DEF BillingInv, Handled
  <2>2. List # <<>> => Len(List) >= 1
    BY <1>2 DEF BillingTypes, List
  <2>3. Len(List') > 0 => List' # <<>>
    OBVIOUS
  <2> QED BY <1>4, <1>6, <2>1, <2>2, <2>3 DEF Emits
<1>12. NothingYet' /\ RowRecords' /\ PlanFollows'
  <2>1. stripe'[s] = "active"
    BY <1>1, <1>2 DEF BillingTypes
  <2> QED BY <1>1, <1>3, <1>5, <2>1 DEF BillingInv, NothingYet, RowRecords, PlanFollows
<1> QED BY <1>4, <1>7, <1>8, <1>9, <1>10, <1>11, <1>12 DEF BillingInv, QueueOK

LEMMA EndKeeps ==
    ASSUME JobsAssumption, BillingInv, NEW s \in Subs, Billing!End(s)
    PROVE  BillingInv'
<1>1. /\ stripe[s] = "active" /\ stripe' = [stripe EXCEPT ![s] = "ended"]
      /\ latest' = latest /\ Billing!Emit(Can(s))
      /\ UNCHANGED <<plan, row, handler, answered, repeats, webhookFaults>>
  BY DEF Billing!End, Billing!local, Can
<1>2. BillingTypes
  BY DEF BillingInv
<1>3. Can(s) \in Billing!Events /\ ~ Owes(Can(s)) /\ Can(s) \notin answered
  BY <1>1, ActCan DEF BillingInv, QueueOK, Emitted
<1>4. Emits(Can(s)) /\ Unrepeated' /\ \A x : Owes(x)' <=> Owes(x) \/ x = Can(s)
  BY <1>1, <1>2, <1>3, EmitsIs, EmitsQueue DEF BillingInv
<1>5. Last' = Last /\ answered' = answered
  BY <1>1 DEF Last
<1>6. Len(List) \in Nat
  BY <1>2 DEF BillingTypes, List
<1>7. BillingTypes'
  <2>1. stripe' \in [Subs -> {"none", "active", "ended"}]
    BY <1>1, <1>2 DEF BillingTypes
  <2> QED BY <1>1, <1>2, <1>4, <2>1 DEF BillingTypes, Emits
<1>8. \A t \in Subs : stripe'[t] = IF t = s THEN "ended" ELSE stripe[t]
  BY <1>1, <1>2 DEF BillingTypes
<1>9. Emitted'
  <2> SUFFICES ASSUME NEW t \in Subs
               PROVE  /\ Owes(Act(t))' \/ Act(t) \in answered' <=> stripe'[t] # "none"
                      /\ Owes(Can(t))' \/ Can(t) \in answered' <=> stripe'[t] = "ended"
    BY DEF Emitted
  <2>1. /\ Owes(Act(t)) \/ Act(t) \in answered <=> stripe[t] # "none"
        /\ Owes(Can(t)) \/ Can(t) \in answered <=> stripe[t] = "ended"
    BY DEF BillingInv, QueueOK, Emitted
  <2>2. (Can(t) = Can(s) <=> t = s) /\ Act(t) # Can(s)
    BY ActCan
  <2> QED BY <1>1, <1>4, <1>5, <1>8, <2>1, <2>2
<1>10. EndsLater'
  <2> SUFFICES ASSUME NEW t \in Subs, NEW i \in 1 .. Len(List'), NEW j \in 1 .. Len(List'),
                      List'[i] = Can(t), List'[j] = Act(t)
               PROVE  j < i
    BY <1>5 DEF EndsLater, BillingInv, QueueOK
  <2>1. j # Len(List) + 1
    BY <1>4, ActCan DEF Emits
  <2>2. j \in 1 .. Len(List) /\ List[j] = Act(t)
    BY <1>4, <1>6, <2>1 DEF Emits
  <2>3. CASE i = Len(List) + 1
    BY <1>6, <2>2, <2>3
  <2>4. CASE i # Len(List) + 1
    <3>1. i \in 1 .. Len(List) /\ List[i] = Can(t)
      BY <1>4, <1>6, <2>4 DEF Emits
    <3> QED BY <2>2, <3>1 DEF BillingInv, QueueOK, EndsLater
  <2> QED BY <2>3, <2>4
<1>11. LastStart'
  <2> SUFFICES ASSUME NEW t \in Subs, NEW i \in 1 .. Len(List'), List'[i] = Act(t), t # Last
               PROVE  \E j \in 1 .. Len(List') : i < j /\ List'[j] = Act(Last)
    BY <1>5 DEF LastStart
  <2>1. i # Len(List) + 1
    BY <1>4, ActCan DEF Emits
  <2>2. i \in 1 .. Len(List) /\ List[i] = Act(t)
    BY <1>4, <1>6, <2>1 DEF Emits
  <2>3. PICK j \in 1 .. Len(List) : i < j /\ List[j] = Act(Last)
    BY <2>2 DEF BillingInv, QueueOK, LastStart
  <2>4. j \in 1 .. Len(List') /\ List'[j] = Act(Last)
    BY <1>4, <1>6, <2>3 DEF Emits
  <2> QED BY <2>3, <2>4
<1>12. Handled'
  <2> SUFFICES ASSUME NEW h \in Webhook, Busy(h)
               PROVE  handler[h].event \in answered \/ (List' # <<>> /\ List'[1] = handler[h].event)
    BY <1>1, <1>5 DEF Handled, Busy, BillingInv
  <2>1. handler[h].event \in answered \/ (List # <<>> /\ List[1] = handler[h].event)
    BY DEF BillingInv, Handled
  <2>2. List # <<>> => Len(List) >= 1
    BY <1>2 DEF BillingTypes, List
  <2>3. Len(List') > 0 => List' # <<>>
    OBVIOUS
  <2> QED BY <1>4, <1>6, <2>1, <2>2, <2>3 DEF Emits
<1>13. NothingYet' /\ RowRecords' /\ PlanFollows'
  <2>1. Last = Billing!NoSub => stripe[s] = "none"
    BY DEF BillingInv, NothingYet
  <2>2. Act(Last) \in answered => Last \in Subs
    <3>1. Act(Last) \in answered => Act(Last) \in Billing!Events
      BY <1>2 DEF BillingTypes
    <3> QED BY <3>1, EventIs, ActCan
  <2> QED BY <1>1, <1>5, <1>8, <2>1, <2>2 DEF BillingInv, NothingYet, RowRecords, PlanFollows
<1> QED BY <1>4, <1>7, <1>9, <1>10, <1>11, <1>12, <1>13 DEF BillingInv, QueueOK

-----------------------------------------------------------------------------
(* A delivery, and the steps of HandleWebhook.                             *)
Single == \A g, h \in Webhook : g = h

LEMMA OnlyHandler ==
    ASSUME BillingInv, UNCHANGED <<stripe, owed, answered, plan, row, latest>>,
           handler' \in [Webhook -> {Billing!Idle} \cup Billing!Handling],
           repeats' \in 0..MaxRepeats, webhookFaults' \in 0..WebhookFaults, Handled'
    PROVE  BillingInv'
<1>1. BillingTypes' /\ List' = List /\ Last' = Last
  BY DEF BillingInv, BillingTypes, List, Last
<1>2. Unrepeated'
  BY <1>1 DEF BillingInv, QueueOK, Unrepeated
<1>3. Emitted'
  BY <1>1 DEF BillingInv, QueueOK, Emitted, Owes
<1>4. EndsLater' /\ LastStart'
  BY <1>1 DEF BillingInv, QueueOK, EndsLater, LastStart
<1>5. NothingYet' /\ RowRecords' /\ PlanFollows'
  BY <1>1 DEF BillingInv, NothingYet, RowRecords, PlanFollows
<1> QED BY <1>1, <1>2, <1>3, <1>4, <1>5 DEF BillingInv, QueueOK

LEMMA IdleIs ==
    ASSUME BillingTypes, NEW h \in Webhook, handler' = [handler EXCEPT ![h] = Billing!Idle], Single
    PROVE  handler' \in [Webhook -> {Billing!Idle} \cup Billing!Handling] /\ Handled'
BY DEF BillingTypes, Handled, Busy, Single

LEMMA ReceiveIs ==
    ASSUME BillingTypes, NEW h \in Webhook, NEW e \in Billing!Events, Billing!Receive(h, e)
    PROVE  /\ handler' \in [Webhook -> {Billing!Idle} \cup Billing!Handling]
           /\ handler'[h].event = e
           /\ handler'[h].step = IF e.kind = "activated" THEN "guard" ELSE "lookup"
           /\ \A g \in Webhook : g # h => handler'[g] = handler[g]
<1> DEFINE step == IF e.kind = "activated" THEN "guard" ELSE "lookup"
<1> DEFINE new == [step |-> step, event |-> e, row |-> Billing!NoRow]
<1>1. step \in {"guard", "lookup", "plan", "upsert"}
  OBVIOUS
<1>2. new \in Billing!Handling /\ new.event = e /\ new.step = step
  <2> HIDE DEF step
  <2> QED BY <1>1 DEF Billing!Handling
<1>3. handler' = [handler EXCEPT ![h] = new]
  BY DEF Billing!Receive
<1> HIDE DEF new
<1> QED BY <1>2, <1>3 DEF BillingTypes

LEMMA DeliverKeeps ==
    ASSUME JobsAssumption, BillingInv, Single, InOrder = TRUE, OldRepeats = FALSE,
           NEW h \in Webhook, NEW e \in Billing!Events, Billing!Deliver(h, e) \/ Billing!Repeat(h, e)
    PROVE  BillingInv'
<1>1. /\ Billing!Receive(h, e) /\ UNCHANGED <<stripe, owed, answered, plan, row, latest>>
      /\ repeats' \in 0..MaxRepeats /\ webhookFaults' \in 0..WebhookFaults
  <2>1. repeats \in 0..MaxRepeats /\ webhookFaults \in 0..WebhookFaults /\ MaxRepeats \in Nat
    BY DEF BillingInv, BillingTypes, JobsAssumption, Billing!Assumptions
  <2> QED BY <2>1 DEF Billing!Deliver, Billing!Repeat
<1>2. /\ handler' \in [Webhook -> {Billing!Idle} \cup Billing!Handling] /\ handler'[h].event = e
      /\ handler'[h].step = IF e.kind = "activated" THEN "guard" ELSE "lookup"
  BY <1>1, ReceiveIs DEF BillingInv
<1>3. e.sub \in Subs /\ (e = Act(e.sub) \/ e = Can(e.sub)) /\ (e.kind = "activated" <=> e = Act(e.sub))
      /\ Act(e.sub) # Can(e.sub) /\ OneTeam[e.sub] = "team"
  BY EventIs, ActCan, PlanIs
<1>4. CASE Billing!Deliver(h, e)
  <2>1. List # <<>> /\ List[1] = e /\ 1 \in 1 .. Len(List)
    <3>1. List # <<>> /\ Head(List) = e /\ List \in Seq(Billing!Events)
      BY <1>3, <1>4 DEF Billing!Deliver, List, BillingInv, BillingTypes
    <3> QED BY <3>1
  <2>2. e \notin answered
    BY <2>1 DEF BillingInv, QueueOK, Unrepeated
  <2>3. e = Act(e.sub) => Act(Last) \notin answered
    <3> SUFFICES ASSUME e = Act(e.sub), e.sub # Last, Act(Last) \in answered
                 PROVE  FALSE
      BY <2>2
    <3> PICK j \in 1 .. Len(List) : List[j] = Act(Last)
      BY <1>3, <2>1 DEF BillingInv, QueueOK, LastStart
    <3> QED BY DEF BillingInv, QueueOK, Unrepeated
  <2>4. Handled'
    BY <1>1, <1>2, <1>3, <2>1, <2>3 DEF Handled, Single, List, Last
  <2> QED BY <1>1, <1>2, <2>4, OnlyHandler
<1>5. CASE Billing!Repeat(h, e)
  <2>1. e \in answered /\ Last = e.sub
    BY <1>3, <1>5 DEF Billing!Repeat, Last
  <2>2. Handled'
    BY <1>1, <1>2, <1>3, <2>1 DEF Handled, Single, List, Last
  <2> QED BY <1>1, <1>2, <2>2, OnlyHandler
<1> QED BY <1>4, <1>5

LEMMA ToPlanIs ==
    ASSUME BillingTypes, NEW h \in Webhook, Busy(h), NEW r \in {Billing!NoRow} \cup Billing!Row,
           Billing!ToPlan(h, r)
    PROVE  /\ handler' \in [Webhook -> {Billing!Idle} \cup Billing!Handling]
           /\ handler'[h].event = handler[h].event /\ handler'[h].step = "plan" /\ handler'[h].row = r
           /\ \A g \in Webhook : g # h => handler'[g] = handler[g]
<1> DEFINE new == [handler[h] EXCEPT !.step = "plan", !.row = r]
<1>1. handler[h] \in Billing!Handling
  BY HandlingIs
<1>2. new \in Billing!Handling /\ new.event = handler[h].event /\ new.step = "plan" /\ new.row = r
  BY <1>1 DEF Billing!Handling
<1>3. handler' = [handler EXCEPT ![h] = new]
  BY Zenon DEF Billing!ToPlan
<1> HIDE DEF new
<1> QED BY <1>2, <1>3 DEF BillingTypes

LEMMA ToUpsertIs ==
    ASSUME BillingTypes, NEW h \in Webhook, Busy(h),
           handler' = [handler EXCEPT ![h].step = "upsert"]
    PROVE  /\ handler' \in [Webhook -> {Billing!Idle} \cup Billing!Handling]
           /\ handler'[h].event = handler[h].event /\ handler'[h].step = "upsert"
           /\ handler'[h].row = handler[h].row
           /\ \A g \in Webhook : g # h => handler'[g] = handler[g]
<1> DEFINE new == [handler[h] EXCEPT !.step = "upsert"]
<1>1. handler[h] \in Billing!Handling
  BY HandlingIs
<1>2. new \in Billing!Handling /\ new.event = handler[h].event /\ new.step = "upsert" /\ new.row = handler[h].row
  BY <1>1 DEF Billing!Handling
<1>3. handler' = [handler EXCEPT ![h] = new]
  BY Zenon
<1> HIDE DEF new
<1> QED BY <1>2, <1>3 DEF BillingTypes

(* What an event means for its team.                                       *)
EventFacts(e) ==
    /\ e \in Billing!Events /\ e.sub \in Subs /\ (e = Act(e.sub) \/ e = Can(e.sub))
    /\ Act(e.sub) # Can(e.sub) /\ (e.kind = "activated" <=> e = Act(e.sub))
    /\ OneTeam[e.sub] = "team" /\ Bought[e.sub] # "free" /\ Bought[e.sub] \in Billing!Plans

LEMMA EventAt ==
    ASSUME JobsAssumption, BillingTypes, NEW h \in Webhook, Busy(h)
    PROVE  /\ EventFacts(handler[h].event) /\ Billing!Event(h) = handler[h].event
           /\ Billing!SubOf(h) = handler[h].event.sub
           /\ OneTeam[Billing!SubOf(h)] = "team"
<1>1. handler[h].event \in Billing!Events
  BY HandlingIs
<1>2. \A e \in Billing!Events : EventFacts(e)
  BY EventIs, ActCan, PlanIs DEF EventFacts
<1> QED BY <1>1, <1>2 DEF Billing!Event, Billing!SubOf, EventFacts

LEMMA GuardGoesOn ==
    ASSUME JobsAssumption, BillingInv, Single, NEW h \in Webhook, Busy(h), handler[h].step = "guard",
           Billing!ToPlan(h, Billing!NoRow),
           UNCHANGED <<stripe, owed, answered, plan, row, latest>>,
           repeats' \in 0..MaxRepeats, webhookFaults' \in 0..WebhookFaults,
           handler[h].event \in answered => row["team"].status # "canceled" \/ row["team"].sub # handler[h].event.sub
    PROVE  BillingInv'
<1> DEFINE e == handler[h].event
<1>1. EventFacts(e) /\ e = Act(e.sub)
  BY EventAt DEF BillingInv, Handled
<1>2. /\ handler' \in [Webhook -> {Billing!Idle} \cup Billing!Handling]
      /\ handler'[h].event = e /\ handler'[h].step = "plan"
  BY ToPlanIs DEF BillingInv
<1>3. e \in answered \/ (List # <<>> /\ List[1] = e)
  BY DEF BillingInv, Handled
<1>4. Act(Last) \in answered => e.sub = Last
  BY DEF BillingInv, Handled
<1>5. Act(Last) \in answered => Can(Last) \notin answered
  <2> SUFFICES ASSUME Act(Last) \in answered, Can(Last) \in answered
               PROVE  FALSE
    OBVIOUS
  <2>1. row["team"] = [sub |-> Last, plan |-> "free", status |-> "canceled"]
    BY DEF BillingInv, RowRecords
  <2>2. row["team"].status = "canceled" /\ row["team"].sub = Last
    BY <2>1
  <2> QED BY <1>1, <1>4, <2>2
<1>6. Handled'
  BY <1>1, <1>2, <1>3, <1>4, <1>5 DEF Handled, Single, List, Last, EventFacts
<1> QED BY <1>2, <1>6, OnlyHandler

(* An event answered without a change of the rows.                         *)
LEMMA Answered ==
    ASSUME JobsAssumption, BillingInv, Single, NEW h \in Webhook, Busy(h), Billing!Succeed(h),
           UNCHANGED <<stripe, plan, row, latest, repeats, webhookFaults>>,
           \/ Act(handler[h].event.sub) \in answered /\ handler[h].event = Act(handler[h].event.sub)
           \/ handler[h].event = Can(handler[h].event.sub) /\
              (handler[h].event.sub = Last => Act(Last) \notin answered)
    PROVE  BillingInv'
<1> DEFINE e == handler[h].event
<1>1. EventFacts(e)
  BY EventAt DEF BillingInv
<1>2. Answers(e) /\ handler' = [handler EXCEPT ![h] = Billing!Idle]
  BY AnswersIs DEF BillingInv, QueueOK, Billing!Succeed
<1>3. QueueOK' /\ \A x \in Billing!Events : x \in answered' <=> x \in answered \/ x = e
  BY <1>1, <1>2, AnswersQueue DEF BillingInv, EventFacts
<1>4. handler' \in [Webhook -> {Billing!Idle} \cup Billing!Handling] /\ Handled'
  BY <1>2, IdleIs DEF BillingInv
<1>5. BillingTypes'
  BY <1>1, <1>2, <1>4 DEF BillingInv, BillingTypes, Answers, EventFacts
<1>6. Last' = Last /\ (Last \in Subs => Act(Last) \in Billing!Events /\ Can(Last) \in Billing!Events)
  BY ActCan DEF Last
<1>7. Act(Last) \in answered' \/ Act(Last) \in answered => Last \in Subs
  <2>1. Act(Last) \in answered' \/ Act(Last) \in answered => Act(Last) \in Billing!Events
    BY <1>5 DEF BillingInv, BillingTypes
  <2> QED BY <2>1, EventIs, ActCan
<1>8. Act(Last) \in answered' => Act(Last) \in answered
  BY <1>1, <1>3, <1>6, <1>7, ActCan
<1>9. Act(Last) \in answered => (Can(Last) \in answered' <=> Can(Last) \in answered)
  BY <1>3, <1>6, <1>7, ActCan
<1>10. RowRecords'
  BY <1>2, <1>6, <1>8, <1>9 DEF BillingInv, RowRecords, Answers
<1>11. PlanFollows' /\ NothingYet'
  BY <1>6, <1>8, <1>9 DEF BillingInv, PlanFollows, NothingYet
<1> QED BY <1>3, <1>4, <1>5, <1>10, <1>11 DEF BillingInv

LEMMA RowAt ==
    ASSUME BillingTypes, row["team"] # Billing!NoRow
    PROVE  row["team"] \in Billing!Row /\ row["team"].sub \in Subs
BY RowIs DEF BillingTypes

LEMMA GuardKeeps ==
    ASSUME JobsAssumption, BillingInv, Single, GuardErrs = FALSE, NEW h \in Webhook,
           Billing!Guard(h) \/ Billing!GuardFails(h)
    PROVE  BillingInv'
<1> DEFINE e == handler[h].event
<1>1. Busy(h) /\ handler[h].step = "guard"
  BY DEF Billing!Guard, Billing!GuardFails, Billing!At, Busy
<1>2. /\ EventFacts(e) /\ Billing!Event(h) = e /\ Billing!SubOf(h) = e.sub
      /\ OneTeam[Billing!SubOf(h)] = "team" /\ e = Act(e.sub)
  BY <1>1, EventAt DEF BillingInv, Handled
<1>3. repeats \in 0..MaxRepeats /\ webhookFaults \in 0..WebhookFaults /\ WebhookFaults \in Nat
  BY DEF BillingInv, BillingTypes, JobsAssumption, Billing!Assumptions
<1>4. CASE Billing!Guard(h)
  <2>1. UNCHANGED <<stripe, plan, row, latest, repeats, webhookFaults>>
    BY <1>4 DEF Billing!Guard
  <2>2. CASE row["team"] # Billing!NoRow /\ row["team"].sub = e.sub /\ row["team"].status = "canceled"
    <3>1. Billing!Succeed(h)
      BY <1>2, <1>4, <2>2 DEF Billing!Guard
    <3>2. Act(e.sub) \in answered
      BY <2>2 DEF BillingInv, RowRecords
    <3> QED BY <1>1, <1>2, <2>1, <3>1, <3>2, Answered
  <2>3. CASE ~ (row["team"] # Billing!NoRow /\ row["team"].sub = e.sub /\ row["team"].status = "canceled")
    <3>1. Billing!ToPlan(h, Billing!NoRow) /\ UNCHANGED <<owed, answered>>
      BY <1>2, <1>4, <2>3 DEF Billing!Guard
    <3>2. row["team"] = Billing!NoRow => row["team"].status # "canceled"
      BY DEF Billing!NoRow
    <3>3. row["team"].status # "canceled" \/ row["team"].sub # e.sub
      BY <2>3, <3>2
    <3> QED BY <1>1, <1>3, <2>1, <3>1, <3>3, GuardGoesOn
  <2> QED BY <2>2, <2>3
<1>5. CASE Billing!GuardFails(h)
  <2>1. /\ Billing!ToPlan(h, Billing!NoRow) /\ e \notin answered
        /\ UNCHANGED <<stripe, owed, answered, plan, row, latest, repeats>>
        /\ webhookFaults' \in 0..WebhookFaults
    BY <1>2, <1>3, <1>5 DEF Billing!GuardFails
  <2> QED BY <1>1, <1>3, <2>1, GuardGoesOn
<1> QED BY <1>4, <1>5

LEMMA LookupKeeps ==
    ASSUME JobsAssumption, BillingInv, Single, NEW h \in Webhook, Billing!Lookup(h)
    PROVE  BillingInv'
<1> DEFINE e == handler[h].event
<1>1. Busy(h) /\ handler[h].step = "lookup"
  BY DEF Billing!Lookup, Billing!At, Busy
<1>2. /\ EventFacts(e) /\ Billing!Event(h) = e /\ Billing!SubOf(h) = e.sub
      /\ OneTeam[Billing!SubOf(h)] = "team" /\ e = Can(e.sub)
  BY <1>1, EventAt DEF BillingInv, Handled
<1>3. repeats \in 0..MaxRepeats /\ webhookFaults \in 0..WebhookFaults
      /\ UNCHANGED <<stripe, plan, row, latest, repeats, webhookFaults>>
  BY DEF BillingInv, BillingTypes, Billing!Lookup
<1>4. Act(Last) \in answered => row["team"] # Billing!NoRow /\ row["team"].sub = Last
  <2> SUFFICES ASSUME Act(Last) \in answered
               PROVE  row["team"] # Billing!NoRow /\ row["team"].sub = Last
    OBVIOUS
  <2>1. row["team"].sub = Last /\ row["team"].status \in {"active", "canceled"}
    BY DEF BillingInv, RowRecords
  <2> QED BY <2>1 DEF Billing!NoRow
<1>5. CASE row["team"] # Billing!NoRow /\ row["team"].sub = e.sub
  <2>1. Billing!ToPlan(h, row["team"]) /\ UNCHANGED <<owed, answered>>
    BY <1>2, <1>5 DEF Billing!Lookup
  <2>2. row["team"] \in {Billing!NoRow} \cup Billing!Row
    BY DEF BillingInv, BillingTypes
  <2>3. /\ handler' \in [Webhook -> {Billing!Idle} \cup Billing!Handling]
        /\ handler'[h].event = e /\ handler'[h].step = "plan" /\ handler'[h].row = row["team"]
    BY <1>1, <2>1, <2>2, ToPlanIs DEF BillingInv
  <2>4. e \in answered \/ (List # <<>> /\ List[1] = e)
    BY <1>1 DEF BillingInv, Handled
  <2>5. Handled'
    BY <1>2, <1>3, <1>4, <1>5, <2>1, <2>3, <2>4 DEF Handled, Single, List, Last, EventFacts
  <2> QED BY <1>3, <2>1, <2>3, <2>5, OnlyHandler
<1>6. CASE ~ (row["team"] # Billing!NoRow /\ row["team"].sub = e.sub)
  <2>1. Billing!Succeed(h)
    BY <1>2, <1>6 DEF Billing!Lookup
  <2>2. e.sub = Last => Act(Last) \notin answered
    BY <1>4, <1>6
  <2> QED BY <1>1, <1>2, <1>3, <2>1, <2>2, Answered
<1> QED BY <1>5, <1>6

LEMMA SetPlanKeeps ==
    ASSUME JobsAssumption, BillingInv, Single, NEW h \in Webhook, Billing!SetTeamPlan(h)
    PROVE  BillingInv'
<1> DEFINE e == handler[h].event
<1> DEFINE new == IF e = Act(e.sub) THEN Bought[e.sub] ELSE "free"
<1>1. Busy(h) /\ handler[h].step = "plan"
  BY DEF Billing!SetTeamPlan, Billing!At, Busy
<1>2. /\ EventFacts(e) /\ Billing!Event(h) = e /\ Billing!SubOf(h) = e.sub
      /\ OneTeam[Billing!SubOf(h)] = "team" /\ Billing!NewPlan(h) = new
  BY <1>1, EventAt DEF BillingInv, Billing!NewPlan, EventFacts
<1>3. new \in Billing!Plans
  BY <1>2, PlanIs DEF EventFacts
<1>4. /\ plan' = [plan EXCEPT !["team"] = new] /\ handler' = [handler EXCEPT ![h].step = "upsert"]
      /\ UNCHANGED <<stripe, owed, answered, row, latest, repeats, webhookFaults>>
  <2> HIDE DEF new
  <2> QED BY <1>2 DEF Billing!SetTeamPlan
<1>5. plan' \in [{"team"} -> Billing!Plans] /\ plan'["team"] = new
  <2> HIDE DEF new
  <2> QED BY <1>3, <1>4 DEF BillingInv, BillingTypes
<1>6. /\ handler' \in [Webhook -> {Billing!Idle} \cup Billing!Handling] /\ handler'[h].event = e
      /\ handler'[h].step = "upsert" /\ handler'[h].row = handler[h].row
  BY <1>1, <1>4, ToUpsertIs DEF BillingInv
<1>7. BillingTypes' /\ List' = List /\ Last' = Last
  BY <1>4, <1>5, <1>6 DEF BillingInv, BillingTypes, List, Last
<1>8. QueueOK'
  BY <1>4, <1>7 DEF BillingInv, QueueOK, Unrepeated, Emitted, Owes, EndsLater, LastStart
<1>9. /\ e \in answered \/ (List # <<>> /\ List[1] = e)
      /\ e = Can(e.sub) => handler[h].row = row["team"] /\ row["team"] # Billing!NoRow /\ row["team"].sub = e.sub
      /\ Act(Last) \in answered => e.sub = Last /\ (e = Act(Last) => Can(Last) \notin answered)
  BY <1>1 DEF BillingInv, Handled
<1>10. Handled'
  <2> HIDE DEF new
  <2>1. plan'["team"] = IF e = Act(e.sub) THEN Bought[e.sub] ELSE "free"
    BY <1>5 DEF new
  <2> QED BY <1>4, <1>6, <1>7, <1>9, <2>1 DEF Handled, Single
<1>11. e = Can(e.sub) => stripe[e.sub] = "ended"
  <2>1. List # <<>> => 1 \in 1 .. Len(List)
    BY DEF BillingInv, BillingTypes, List
  <2>2. e \in answered \/ Owes(e)
    BY <1>9, <2>1 DEF Owes
  <2> QED BY <1>2, <2>2 DEF BillingInv, QueueOK, Emitted, EventFacts
<1>12. PlanFollows'
  BY <1>2, <1>4, <1>5, <1>7, <1>9, <1>11 DEF PlanFollows, EventFacts
<1>13. Last # Billing!NoSub
  <2> SUFFICES ASSUME Last = Billing!NoSub
               PROVE  FALSE
    OBVIOUS
  <2>1. stripe[e.sub] = "none"
    BY <1>2 DEF BillingInv, NothingYet, EventFacts
  <2>2. List # <<>> => 1 \in 1 .. Len(List)
    BY DEF BillingInv, BillingTypes, List
  <2>3. e \in answered \/ Owes(e)
    BY <1>9, <2>2 DEF Owes
  <2> QED BY <1>2, <2>1, <2>3 DEF BillingInv, QueueOK, Emitted, EventFacts
<1>14. NothingYet' /\ RowRecords'
  BY <1>4, <1>7, <1>13 DEF BillingInv, NothingYet, RowRecords
<1> QED BY <1>7, <1>8, <1>10, <1>12, <1>14 DEF BillingInv

LEMMA UpsertKeeps ==
    ASSUME JobsAssumption, BillingInv, Single, NEW h \in Webhook, Billing!Upsert(h)
    PROVE  BillingInv'
<1> DEFINE e == handler[h].event
<1>1. Busy(h) /\ handler[h].step = "upsert" /\ Billing!Succeed(h)
      /\ UNCHANGED <<stripe, plan, latest, repeats, webhookFaults>>
  BY DEF Billing!Upsert, Billing!At, Busy
<1>2. /\ EventFacts(e) /\ Billing!Event(h) = e /\ Billing!SubOf(h) = e.sub
      /\ OneTeam[Billing!SubOf(h)] = "team" /\ Billing!NewPlan(h) = IF e = Act(e.sub) THEN Bought[e.sub] ELSE "free"
  BY <1>1, EventAt DEF BillingInv, Billing!NewPlan, EventFacts
<1>3. /\ e \in answered \/ (List # <<>> /\ List[1] = e)
      /\ e = Can(e.sub) => handler[h].row = row["team"] /\ row["team"] # Billing!NoRow /\ row["team"].sub = e.sub
      /\ plan["team"] = IF e = Act(e.sub) THEN Bought[e.sub] ELSE "free"
      /\ Act(Last) \in answered => e.sub = Last /\ (e = Act(Last) => Can(Last) \notin answered)
  BY <1>1 DEF BillingInv, Handled
<1> DEFINE new == IF e = Act(e.sub) THEN [sub |-> e.sub, plan |-> Bought[e.sub], status |-> "active"]
                  ELSE [sub |-> e.sub, plan |-> "free", status |-> "canceled"]
<1>4. row' = [row EXCEPT !["team"] = new]
  <2>1. CASE e = Act(e.sub)
    <3>1. row' = [row EXCEPT !["team"] = [sub |-> e.sub, plan |-> Bought[e.sub], status |-> "active"]]
      BY <1>2, <2>1 DEF Billing!Upsert, EventFacts
    <3> QED BY <2>1, <3>1
  <2>2. CASE e # Act(e.sub)
    <3>1. row' = [row EXCEPT !["team"] = [handler[h].row EXCEPT !.plan = "free", !.status = "canceled"]]
      BY <1>2, <2>2 DEF Billing!Upsert, EventFacts
    <3>2. handler[h].row \in Billing!Row /\ handler[h].row.sub = e.sub
      BY <1>2, <1>3, <2>2, RowAt DEF BillingInv, EventFacts
    <3>3. [handler[h].row EXCEPT !.plan = "free", !.status = "canceled"]
             = [sub |-> e.sub, plan |-> "free", status |-> "canceled"]
      BY <3>2, RowIs
    <3> QED BY <2>2, <3>1, <3>3
  <2> QED BY <2>1, <2>2
<1>5. new \in Billing!Row /\ new.sub = e.sub
  BY <1>2, PlanIs DEF EventFacts, Billing!Row
<1>6. row' \in [{"team"} -> {Billing!NoRow} \cup Billing!Row] /\ row'["team"] = new
  <2> HIDE DEF new
  <2> QED BY <1>4, <1>5 DEF BillingInv, BillingTypes
<1>7. Answers(e) /\ handler' = [handler EXCEPT ![h] = Billing!Idle]
  BY <1>1, AnswersIs DEF BillingInv, QueueOK, Billing!Succeed
<1>8. QueueOK' /\ \A x \in Billing!Events : x \in answered' <=> x \in answered \/ x = e
  BY <1>1, <1>2, <1>7, AnswersQueue DEF BillingInv, EventFacts
<1>9. handler' \in [Webhook -> {Billing!Idle} \cup Billing!Handling] /\ Handled'
  BY <1>7, IdleIs DEF BillingInv
<1>10. BillingTypes'
  BY <1>1, <1>2, <1>6, <1>7, <1>9 DEF BillingInv, BillingTypes, Answers, EventFacts
<1>11. Last' = Last /\ Last \in Subs
  <2>1. Last' = Last /\ Last \in Subs \cup {Billing!NoSub}
    BY <1>1 DEF Last, BillingInv, BillingTypes
  <2> SUFFICES ASSUME Last = Billing!NoSub
               PROVE  FALSE
    BY <2>1
  <2>2. stripe[e.sub] = "none"
    BY <1>2 DEF BillingInv, NothingYet, EventFacts
  <2>3. List # <<>> => 1 \in 1 .. Len(List)
    BY DEF BillingInv, BillingTypes, List
  <2>4. e \in answered \/ Owes(e)
    BY <1>3, <2>3 DEF Owes
  <2> QED BY <1>2, <2>2, <2>4 DEF BillingInv, QueueOK, Emitted, EventFacts
<1>12. /\ Act(Last) \in Billing!Events /\ Can(Last) \in Billing!Events
       /\ (e = Act(Last) <=> e = Act(e.sub) /\ e.sub = Last) /\ (e = Can(Last) <=> e = Can(e.sub) /\ e.sub = Last)
       /\ Act(Last) # Can(Last)
  BY <1>2, <1>11, ActCan DEF EventFacts
<1>13. Can(Last) \in answered => Act(Last) \in answered
  BY <1>11 DEF BillingInv, QueueOK, EndsLater
<1>14. e = Can(Last) => Act(Last) \in answered
  <2>1. e = Can(Last) => row["team"] # Billing!NoRow /\ row["team"].sub = Last
    BY <1>3, <1>12
  <2> QED BY <2>1 DEF BillingInv, RowRecords
<1>15. Act(Last) \in answered' =>
          /\ e.sub = Last
          /\ Can(Last) \in answered' => e = Can(Last)
          /\ Can(Last) \notin answered' => e = Act(Last)
  <2>1. CASE e = Act(e.sub)
    BY <1>2, <1>3, <1>8, <1>12, <1>13, <2>1 DEF EventFacts
  <2>2. CASE e = Can(e.sub)
    BY <1>2, <1>3, <1>8, <1>12, <1>14, <2>2 DEF EventFacts
  <2> QED BY <1>2, <2>1, <2>2 DEF EventFacts
<1>16. Act(e.sub) \in answered'
  <2>1. e = Can(e.sub) => Act(e.sub) \in answered
    BY <1>3 DEF BillingInv, RowRecords
  <2> QED BY <1>2, <1>7, <2>1 DEF EventFacts, Answers
<1>17. RowRecords'
  <2>1. row'["team"].sub = e.sub
    BY <1>5, <1>6
  <2>2. Act(Last) \in answered' =>
         row'["team"] = [sub |-> Last,
                         plan |-> IF Can(Last) \in answered' THEN "free" ELSE Bought[Last],
                         status |-> IF Can(Last) \in answered' THEN "canceled" ELSE "active"]
    <3> SUFFICES ASSUME Act(Last) \in answered'
                 PROVE  row'["team"] = [sub |-> Last,
                         plan |-> IF Can(Last) \in answered' THEN "free" ELSE Bought[Last],
                         status |-> IF Can(Last) \in answered' THEN "canceled" ELSE "active"]
      OBVIOUS
    <3>1. CASE Can(Last) \in answered'
      BY <1>6, <1>12, <1>15, <3>1
    <3>2. CASE Can(Last) \notin answered'
      BY <1>6, <1>12, <1>15, <3>2
    <3> QED BY <3>1, <3>2
  <2> QED BY <1>11, <1>16, <2>1, <2>2 DEF RowRecords
<1>18. PlanFollows'
  <2>1. e = Can(e.sub) => stripe[e.sub] = "ended"
    <3>1. List # <<>> => 1 \in 1 .. Len(List)
      BY DEF BillingInv, BillingTypes, List
    <3>2. e \in answered \/ Owes(e)
      BY <1>3, <3>1 DEF Owes
    <3> QED BY <1>2, <3>2 DEF BillingInv, QueueOK, Emitted, EventFacts
  <2> QED BY <1>1, <1>3, <1>11, <1>12, <1>15, <2>1 DEF PlanFollows
<1>19. NothingYet'
  BY <1>1, <1>11, PlanIs DEF NothingYet, BillingInv
<1> QED BY <1>8, <1>9, <1>10, <1>17, <1>18, <1>19 DEF BillingInv

LEMMA FailLeaves ==
    ASSUME JobsAssumption, BillingInv, Single, NEW h \in Webhook, Billing!Fail(h)
    PROVE  BillingInv'
<1>1. /\ handler' = [handler EXCEPT ![h] = Billing!Idle]
      /\ UNCHANGED <<stripe, owed, answered, plan, row, latest, repeats>>
      /\ webhookFaults' \in 0..WebhookFaults /\ repeats \in 0..MaxRepeats
  BY DEF Billing!Fail, BillingInv, BillingTypes, JobsAssumption, Billing!Assumptions
<1> QED BY <1>1, IdleIs, OnlyHandler DEF BillingInv

LEMMA BillingStarts ==
    ASSUME JobsAssumption, Billing!Init
    PROVE  BillingInv
<1>1. /\ List = <<>> /\ Len(List) = 0 /\ answered = {} /\ Last = Billing!NoSub
      /\ \A s \in Subs : stripe[s] = "none"
      /\ \A h \in Webhook : ~ Busy(h)
      /\ row["team"] = Billing!NoRow /\ plan["team"] = "free"
  BY DEF Billing!Init, List, Last, Busy
<1>2. BillingTypes
  BY PlanIs DEF Billing!Init, BillingTypes, JobsAssumption, Billing!Assumptions
<1>3. QueueOK
  BY <1>1 DEF QueueOK, Unrepeated, Emitted, Owes, EndsLater, LastStart
<1>4. NothingYet
  BY <1>1, PlanIs DEF NothingYet
<1> QED BY <1>1, <1>2, <1>3, <1>4 DEF BillingInv, Handled, RowRecords, PlanFollows

LEMMA BillingSteps ==
    ASSUME JobsAssumption, Single, InOrder = TRUE, GuardErrs = FALSE, OldRepeats = FALSE,
           BillingInv, [Billing!Next]_(Billing!vars)
    PROVE  BillingInv'
<1>1. CASE \E s \in Subs : Billing!Checkout(s) \/ Billing!End(s)
  BY <1>1, CheckoutKeeps, EndKeeps
<1>2. CASE \E h \in Webhook :
              \/ Billing!Handle(h)
              \/ \E e \in Billing!Events : Billing!Deliver(h, e) \/ Billing!Repeat(h, e)
              \/ Billing!GuardFails(h) \/ Billing!Fail(h)
  BY <1>2, DeliverKeeps, GuardKeeps, LookupKeeps, SetPlanKeeps, UpsertKeeps, FailLeaves DEF Billing!Handle
<1>3. CASE UNCHANGED Billing!vars
  <2>1. /\ UNCHANGED <<stripe, owed, answered, plan, row, latest>>
        /\ handler' \in [Webhook -> {Billing!Idle} \cup Billing!Handling]
        /\ repeats' \in 0..MaxRepeats /\ webhookFaults' \in 0..WebhookFaults
        /\ handler' = handler
    BY <1>3 DEF Billing!vars, BillingInv, BillingTypes
  <2>2. Handled'
    BY <2>1 DEF BillingInv, Handled, Busy, List, Last
  <2> QED BY <2>1, <2>2, OnlyHandler
<1> QED BY <1>1, <1>2, <1>3 DEF Billing!Next

LEMMA BillingRuns ==
    ASSUME [MCNext]_<<service, vars, filing, billing>>
    PROVE  [Billing!Next]_(Billing!vars)
BY DEF MCNext, billing, Billing!vars

(* Under four hypotheses, none of which Stripe or the code guarantees: a   *)
(* team's events are first delivered in order, one webhook is handled at a *)
(* time, only events of the last checkout are repeated, and the guard's    *)
(* read does not fail on a repeated event.  Then once all is answered the  *)
(* workspace is on the plan it last paid for and its subscription row says *)
(* so, whatever else fails or dies in between (billing/billing.go,         *)
(* HandleWebhook).  Out of order it is not so: run billing_reordered.      *)
THEOREM InOrderPaymentsConverge ==
    ASSUME InOrder = TRUE, \A g, h \in Webhook : g = h, GuardErrs = FALSE, OldRepeats = FALSE
    PROVE  MCSpec => [](Billing!Converges /\ Billing!RowTellsPlan)
<1> USE JobsAssumption
<1>0. Single
  BY DEF Single
<1>1. MCInit => BillingInv
  BY BillingStarts DEF MCInit
<1>2. BillingInv /\ [MCNext]_<<service, vars, filing, billing>> => BillingInv'
  BY <1>0, BillingRuns, BillingSteps
<1>3. BillingInv => Billing!Converges /\ Billing!RowTellsPlan
  <2> SUFFICES ASSUME BillingInv, Billing!Settled
               PROVE  /\ plan["team"] = IF Billing!Paid("team") THEN Bought[Last] ELSE "free"
                      /\ row["team"] # Billing!NoRow =>
                           /\ plan["team"] = row["team"].plan
                           /\ row["team"].status = "canceled" <=> plan["team"] = "free"
    BY DEF Billing!Converges, Billing!RowTellsPlan, Last
  <2>1. \A x : ~ Owes(x)
    BY DEF Billing!Settled, List, Owes
  <2>2. CASE Last = Billing!NoSub
    BY <2>2 DEF BillingInv, NothingYet, Billing!Paid, Last
  <2>3. CASE Last # Billing!NoSub
    <3>1. Last \in Subs
      BY <2>3 DEF BillingInv, BillingTypes, Last
    <3>2. stripe[Last] # "none"
      BY <3>1 DEF BillingInv, NothingYet
    <3>3. Act(Last) \in answered /\ (Can(Last) \in answered <=> stripe[Last] = "ended")
      BY <2>1, <3>1, <3>2 DEF BillingInv, QueueOK, Emitted
    <3>4. stripe[Last] \in {"active", "ended"} /\ Bought[Last] # "free"
      BY <3>1, <3>2, PlanIs DEF BillingInv, BillingTypes
    <3>5. plan["team"] = IF stripe[Last] = "active" THEN Bought[Last] ELSE "free"
      BY <3>3, <3>4 DEF BillingInv, PlanFollows
    <3>6. row["team"].plan = (IF Can(Last) \in answered THEN "free" ELSE Bought[Last])
          /\ row["team"].status = IF Can(Last) \in answered THEN "canceled" ELSE "active"
      BY <3>3 DEF BillingInv, RowRecords
    <3>7. Billing!Paid("team") <=> stripe[Last] = "active"
      BY <2>3 DEF Billing!Paid, Last
    <3> QED BY <3>3, <3>4, <3>5, <3>6, <3>7
  <2> QED BY <2>2, <2>3
<1> QED
  BY <1>1, <1>2, <1>3, PTL DEF MCSpec

-----------------------------------------------------------------------------
(* Types of billing, also where webhooks run side by side.  A cancellation *)
(* that goes on has read a row, and that row is of its subscription.       *)
Attributed ==
    \A h \in Webhook :
        /\ Busy(h) /\ handler[h].step = "guard" => handler[h].event.kind = "activated"
        /\ Busy(h) /\ handler[h].step \in {"plan", "upsert"} /\ handler[h].event.kind = "canceled" =>
              handler[h].row # Billing!NoRow /\ handler[h].row.sub = handler[h].event.sub
BillingTyped == BillingTypes /\ Attributed

LEMMA WithoutTyped ==
    ASSUME NEW S, NEW list \in Seq(S), NEW e
    PROVE  Billing!Without(list, e) \in Seq(S)
<1>1. DOMAIN list = 1 .. Len(list) /\ Len(list) \in Nat
  OBVIOUS
<1>2. CASE ~ Billing!InList(e, list)
  BY <1>2 DEF Billing!Without
<1>3. CASE Billing!InList(e, list)
  <2> DEFINE at == CHOOSE i \in DOMAIN list : list[i] = e
  <2> DEFINE new == [i \in 1 .. Len(list) - 1 |-> IF i < at THEN list[i] ELSE list[i + 1]]
  <2>1. PICK k \in DOMAIN list : list[k] = e
    BY <1>3 DEF Billing!InList
  <2>2. Len(list) - 1 \in Nat
    BY <1>1, <2>1
  <2>3. \A i \in 1 .. Len(list) - 1 : list[i] \in S /\ list[i + 1] \in S
    BY <1>1
  <2>4. new \in Seq(S)
    <3> HIDE DEF at
    <3>1. new \in [1 .. Len(list) - 1 -> S]
      BY <2>3
    <3> HIDE DEF new
    <3> QED BY <2>2, <3>1
  <2>5. Billing!Without(list, e) = new
    BY <1>3 DEF Billing!Without
  <2> HIDE DEF new
  <2> QED BY <2>4, <2>5
<1> QED BY <1>2, <1>3

LEMMA OwedTyped ==
    ASSUME JobsAssumption, BillingTypes, NEW h \in Webhook, Busy(h),
           Billing!Succeed(h) \/ UNCHANGED <<owed, answered, handler>>
    PROVE  /\ owed' \in [{"team"} -> Seq(Billing!Events)] /\ answered' \subseteq Billing!Events
           /\ handler' \in [Webhook -> {Billing!Idle} \cup Billing!Handling]
           /\ Billing!Succeed(h) => handler'[h] = Billing!Idle /\ \A g \in Webhook : g # h => handler'[g] = handler[g]
<1> DEFINE e == handler[h].event
<1>1. e \in Billing!Events /\ OneTeam[e.sub] = "team" /\ Billing!Event(h) = e /\ Billing!SubOf(h) = e.sub
  BY EventAt DEF EventFacts
<1>2. owed \in [{"team"} -> Seq(Billing!Events)] /\ owed["team"] \in Seq(Billing!Events)
      /\ answered \subseteq Billing!Events /\ handler \in [Webhook -> {Billing!Idle} \cup Billing!Handling]
  BY DEF BillingTypes
<1>3. CASE Billing!Succeed(h)
  <2>1. /\ owed' = [owed EXCEPT !["team"] = Billing!Without(owed["team"], e)]
        /\ answered' = answered \cup {e} /\ handler' = [handler EXCEPT ![h] = Billing!Idle]
    BY <1>1, <1>3 DEF Billing!Succeed
  <2>2. Billing!Without(owed["team"], e) \in Seq(Billing!Events)
    BY <1>2, WithoutTyped
  <2> QED BY <1>1, <1>2, <2>1, <2>2
<1>4. CASE ~ Billing!Succeed(h)
  BY <1>2, <1>4
<1> QED BY <1>3, <1>4

LEMMA TypedByStep ==
    ASSUME JobsAssumption, BillingTyped, NEW h \in Webhook, Busy(h),
           UNCHANGED <<stripe, latest>>,
           plan' \in [{"team"} -> Billing!Plans], row' \in [{"team"} -> {Billing!NoRow} \cup Billing!Row],
           repeats' \in 0..MaxRepeats, webhookFaults' \in 0..WebhookFaults,
           \/ Billing!Succeed(h)
           \/ /\ UNCHANGED <<owed, answered>>
              /\ handler' \in [Webhook -> {Billing!Idle} \cup Billing!Handling]
              /\ \A g \in Webhook : g # h => handler'[g] = handler[g]
              /\ handler'[h] # Billing!Idle => handler'[h].step # "guard"
              /\ handler'[h] # Billing!Idle /\ handler'[h].event.kind = "canceled" =>
                    handler'[h].row # Billing!NoRow /\ handler'[h].row.sub = handler'[h].event.sub
    PROVE  BillingTyped'
<1>1. CASE Billing!Succeed(h)
  <2>1. BillingTypes'
    BY <1>1, OwedTyped DEF BillingTyped, BillingTypes
  <2>2. Attributed'
    BY <1>1, OwedTyped DEF BillingTyped, Attributed, Busy
  <2> QED BY <2>1, <2>2 DEF BillingTyped
<1>2. CASE /\ UNCHANGED <<owed, answered>>
           /\ handler' \in [Webhook -> {Billing!Idle} \cup Billing!Handling]
           /\ \A g \in Webhook : g # h => handler'[g] = handler[g]
           /\ handler'[h] # Billing!Idle => handler'[h].step # "guard"
           /\ handler'[h] # Billing!Idle /\ handler'[h].event.kind = "canceled" =>
                 handler'[h].row # Billing!NoRow /\ handler'[h].row.sub = handler'[h].event.sub
  <2>1. BillingTypes'
    BY <1>2 DEF BillingTyped, BillingTypes
  <2>2. Attributed'
    BY <1>2 DEF BillingTyped, Attributed, Busy
  <2> QED BY <2>1, <2>2 DEF BillingTyped
<1> QED BY <1>1, <1>2

LEMMA HandlingTyped ==
    ASSUME JobsAssumption, BillingTyped, NEW h \in Webhook,
           Billing!Handle(h) \/ Billing!GuardFails(h) \/ Billing!Fail(h)
    PROVE  BillingTyped'
<1> DEFINE e == handler[h].event
<1>1. Busy(h) /\ BillingTypes
  BY DEF Billing!Handle, Billing!Guard, Billing!Lookup, Billing!SetTeamPlan, Billing!Upsert,
         Billing!GuardFails, Billing!Fail, Billing!At, Busy, BillingTyped
<1>2. /\ EventFacts(e) /\ Billing!Event(h) = e /\ Billing!SubOf(h) = e.sub
      /\ OneTeam[Billing!SubOf(h)] = "team"
  BY <1>1, EventAt
<1>3. /\ plan \in [{"team"} -> Billing!Plans] /\ row \in [{"team"} -> {Billing!NoRow} \cup Billing!Row]
      /\ row["team"] \in {Billing!NoRow} \cup Billing!Row
      /\ repeats \in 0..MaxRepeats /\ webhookFaults \in 0..WebhookFaults /\ WebhookFaults \in Nat
  BY <1>1 DEF BillingTypes, JobsAssumption, Billing!Assumptions
<1>4. CASE Billing!Guard(h) \/ Billing!GuardFails(h) \/ Billing!Lookup(h)
  <2>1. /\ UNCHANGED <<stripe, latest, plan, row, repeats>> /\ webhookFaults' \in 0..WebhookFaults
    BY <1>3, <1>4 DEF Billing!Guard, Billing!GuardFails, Billing!Lookup
  <2>2. CASE Billing!Succeed(h)
    BY <1>1, <1>3, <2>1, <2>2, TypedByStep
  <2>3. CASE ~ Billing!Succeed(h)
    <3>1. PICK r \in {Billing!NoRow, row["team"]} :
             /\ Billing!ToPlan(h, r) /\ UNCHANGED <<owed, answered>>
             /\ handler[h].step = "guard" \/ (r # Billing!NoRow /\ r.sub = e.sub)
      <4>1. CASE Billing!Guard(h) \/ Billing!GuardFails(h)
        BY <1>2, <2>3, <4>1 DEF Billing!Guard, Billing!GuardFails, Billing!At
      <4>2. CASE Billing!Lookup(h)
        BY <1>2, <2>3, <4>2 DEF Billing!Lookup
      <4> QED BY <1>4, <4>1, <4>2
    <3>2. /\ handler' \in [Webhook -> {Billing!Idle} \cup Billing!Handling] /\ handler'[h].event = e
          /\ handler'[h].step = "plan" /\ handler'[h].row = r /\ \A g \in Webhook : g # h => handler'[g] = handler[g]
      BY <1>1, <1>3, <3>1, ToPlanIs
    <3>3. handler[h].step = "guard" => e.kind = "activated"
      BY <1>1 DEF BillingTyped, Attributed
    <3> QED BY <1>1, <1>3, <2>1, <3>1, <3>2, <3>3, TypedByStep
  <2> QED BY <2>2, <2>3
<1>5. CASE Billing!SetTeamPlan(h)
  <2>1. Billing!NewPlan(h) \in Billing!Plans
    BY <1>2, PlanIs DEF Billing!NewPlan, EventFacts
  <2>2. /\ plan' = [plan EXCEPT !["team"] = Billing!NewPlan(h)] /\ handler' = [handler EXCEPT ![h].step = "upsert"]
        /\ UNCHANGED <<stripe, owed, answered, row, latest, repeats, webhookFaults>>
        /\ handler[h].step = "plan"
    BY <1>2, <1>5 DEF Billing!SetTeamPlan, Billing!At
  <2>3. plan' \in [{"team"} -> Billing!Plans]
    BY <1>3, <2>1, <2>2
  <2>4. /\ handler' \in [Webhook -> {Billing!Idle} \cup Billing!Handling] /\ handler'[h].event = e
        /\ handler'[h].step = "upsert" /\ handler'[h].row = handler[h].row /\ \A g \in Webhook : g # h => handler'[g] = handler[g]
    BY <1>1, <2>2, ToUpsertIs
  <2>5. e.kind = "canceled" => handler[h].row # Billing!NoRow /\ handler[h].row.sub = e.sub
    BY <1>1, <2>2 DEF BillingTyped, Attributed
  <2> QED BY <1>1, <1>3, <2>2, <2>3, <2>4, <2>5, TypedByStep
<1>6. CASE Billing!Upsert(h)
  <2>1. /\ Billing!Succeed(h) /\ handler[h].step = "upsert"
        /\ UNCHANGED <<stripe, plan, latest, repeats, webhookFaults>>
    BY <1>6 DEF Billing!Upsert, Billing!At
  <2>2. PICK r \in Billing!Row : row' = [row EXCEPT !["team"] = r]
    <3>1. CASE e.kind = "activated"
      <4>1. row' = [row EXCEPT !["team"] = [sub |-> e.sub, plan |-> Bought[e.sub], status |-> "active"]]
        BY <1>2, <1>6, <3>1 DEF Billing!Upsert, Billing!NewPlan
      <4>2. [sub |-> e.sub, plan |-> Bought[e.sub], status |-> "active"] \in Billing!Row
        BY <1>2 DEF EventFacts, Billing!Row
      <4> QED BY <4>1, <4>2
    <3>2. CASE e.kind # "activated"
      <4>1. row' = [row EXCEPT !["team"] = [handler[h].row EXCEPT !.plan = "free", !.status = "canceled"]]
        BY <1>2, <1>6, <3>2 DEF Billing!Upsert
      <4>2. e.kind = "canceled"
        BY <1>2, <3>2 DEF EventFacts, Billing!Events
      <4>3. handler[h].row \in Billing!Row
        BY <1>1, <2>1, <4>2, HandlingIs DEF BillingTyped, Attributed
      <4>4. [handler[h].row EXCEPT !.plan = "free", !.status = "canceled"] \in Billing!Row
        BY <4>3, PlanIs DEF Billing!Row
      <4> QED BY <4>1, <4>4
    <3> QED BY <3>1, <3>2
  <2>3. row' \in [{"team"} -> {Billing!NoRow} \cup Billing!Row]
    BY <1>3, <2>2
  <2> QED BY <1>1, <1>3, <2>1, <2>3, TypedByStep
<1>7. CASE Billing!Fail(h)
  <2>1. /\ handler' = [handler EXCEPT ![h] = Billing!Idle] /\ webhookFaults' \in 0..WebhookFaults
        /\ UNCHANGED <<stripe, owed, answered, plan, row, latest, repeats>>
    BY <1>3, <1>7 DEF Billing!Fail
  <2>2. /\ handler' \in [Webhook -> {Billing!Idle} \cup Billing!Handling] /\ handler'[h] = Billing!Idle
        /\ \A g \in Webhook : g # h => handler'[g] = handler[g]
    BY <1>1, <2>1 DEF BillingTypes
  <2> QED BY <1>1, <1>3, <2>1, <2>2, TypedByStep
<1> QED BY <1>4, <1>5, <1>6, <1>7 DEF Billing!Handle

LEMMA BillingTypeSteps ==
    ASSUME JobsAssumption, BillingTyped, [Billing!Next]_(Billing!vars)
    PROVE  BillingTyped'
<1>1. BillingTypes
  BY DEF BillingTyped
<1>2. ASSUME NEW s \in Subs, Billing!Checkout(s) \/ Billing!End(s)
      PROVE  BillingTyped'
  <2>1. PICK e \in Billing!Events : Billing!Emit(e)
    BY <1>2, ActCan DEF Billing!Checkout, Billing!End, Act, Can
  <2>2. UNCHANGED <<plan, row, handler, answered, repeats, webhookFaults>>
    BY <1>2 DEF Billing!Checkout, Billing!End, Billing!local
  <2>3. Emits(e)
    BY <1>1, <2>1, <2>2, EmitsIs
  <2>4. stripe' \in [Subs -> {"none", "active", "ended"}] /\ latest' \in [{"team"} -> Subs \cup {Billing!NoSub}]
    BY <1>1, <1>2, PlanIs DEF Billing!Checkout, Billing!End, BillingTypes
  <2>5. BillingTypes'
    BY <1>1, <2>2, <2>3, <2>4 DEF BillingTypes, Emits
  <2> QED BY <2>2, <2>5 DEF BillingTyped, Attributed, Busy
<1>3. ASSUME NEW h \in Webhook, NEW e \in Billing!Events, Billing!Deliver(h, e) \/ Billing!Repeat(h, e)
      PROVE  BillingTyped'
  <2>1. /\ Billing!Receive(h, e) /\ UNCHANGED <<stripe, owed, answered, plan, row, latest>>
        /\ repeats' \in 0..MaxRepeats /\ webhookFaults' \in 0..WebhookFaults
    <3>1. repeats \in 0..MaxRepeats /\ webhookFaults \in 0..WebhookFaults /\ MaxRepeats \in Nat
      BY <1>1 DEF BillingTypes, JobsAssumption, Billing!Assumptions
    <3> QED BY <1>3, <3>1 DEF Billing!Deliver, Billing!Repeat
  <2>2. BillingTypes'
    BY <1>1, <2>1, ReceiveIs DEF BillingTypes
  <2>3. Attributed'
    BY <1>1, <2>1, ReceiveIs DEF BillingTyped, Attributed, Busy
  <2> QED BY <2>2, <2>3 DEF BillingTyped
<1>4. CASE UNCHANGED Billing!vars
  BY <1>4 DEF Billing!vars, BillingTyped, BillingTypes, Attributed, Busy
<1> QED BY <1>2, <1>3, <1>4, HandlingTyped DEF Billing!Next

LEMMA BillingIsTyped ==
    ASSUME BillingTyped
    PROVE  Billing!TypeOK
<1>1. owed["team"] \in Seq(Billing!Events)
  BY DEF BillingTyped, BillingTypes
<1>2. \A i \in DOMAIN owed["team"] : owed["team"][i] \in Billing!Events
  BY <1>1
<1> QED BY <1>2 DEF BillingTyped, BillingTypes, Attributed, Busy, Billing!TypeOK

LEMMA FilingIsTyped ==
    ASSUME FilingInv
    PROVE  Filing!TypeOK
BY DEF FilingInv, FilingTypes, ClosetsTyped, CallOrIdle, Places, Filing!TypeOK

(* Every reachable state of the embed worker, of the calls that file a     *)
(* source and of billing has its declared shape: a turn is under way       *)
(* between its two batches, a closet id has one row and one vector, and a  *)
(* cancellation is carried out on a row it was attributed to               *)
(* (embedworker/worker.go, palace/mine.go, billing/billing.go).            *)
THEOREM JobsTypeCorrect == MCSpec => []JobsTypeOK
<1> USE JobsAssumption, TeamAssumption, BoundsAssumption
<1>1. MCInit => WorkerInv /\ FilingInv /\ BillingTyped
  <2>1. Billing!Init => BillingTyped
    BY BillingStarts DEF BillingInv, BillingTyped, Attributed, Busy, Billing!Init
  <2> QED BY <2>1, WorkerStarts, FilingStarts DEF MCInit
<1>2. WorkerInv /\ FilingInv /\ BillingTyped /\ [MCNext]_<<service, vars, filing, billing>>
         => WorkerInv' /\ FilingInv' /\ BillingTyped'
  BY WorkerRuns, WorkerSteps, FilingRuns, FilingSteps, BillingRuns, BillingTypeSteps
<1>3. WorkerInv /\ FilingInv /\ BillingTyped => JobsTypeOK
  BY FilingIsTyped, BillingIsTyped DEF WorkerInv, JobsTypeOK
<1> QED
  BY <1>1, <1>2, <1>3, PTL DEF MCSpec

-----------------------------------------------------------------------------
(* Plans and rows in any order of events.  Happening: the events Stripe    *)
(* has had occasion for so far, of which all are that are told or handled. *)
Happening == {e \in Billing!Events : /\ stripe[e.sub] # "none"
                                     /\ e.kind = "canceled" => stripe[e.sub] = "ended"}
SomeEnded == \E s \in Subs : stripe[s] = "ended"
Told ==
    /\ owed["team"] \in Seq(Happening) /\ answered \subseteq Happening
    /\ \A h \in Webhook : Busy(h) => handler[h].event \in Happening
PlanBought == plan["team"] # "free" => \E s \in Subs : stripe[s] # "none" /\ plan["team"] = Bought[s]
RowOf(r) == r # Billing!NoRow => /\ stripe[r.sub] # "none"
                                 /\ r.status = "canceled" => stripe[r.sub] = "ended"
Activating(h) == Busy(h) /\ handler[h].step = "upsert" /\ handler[h].event.kind = "activated"
NotTaken ==
    row["team"] # Billing!NoRow \/ (\E h \in Webhook : Activating(h)) =>
        plan["team"] # "free" \/ SomeEnded
OwedInv == BillingTyped /\ Told /\ PlanBought /\ RowOf(row["team"]) /\ NotTaken

LEMMA SeqsGrow ==
    ASSUME NEW S, NEW T, S \subseteq T, NEW list \in Seq(S)
    PROVE  list \in Seq(T)
<1>1. list \in [1 .. Len(list) -> S] /\ Len(list) \in Nat
  OBVIOUS
<1>2. list \in [1 .. Len(list) -> T]
  BY <1>1
<1> QED BY <1>1, <1>2

LEMMA StripeMoves ==
    ASSUME JobsAssumption, OwedInv, NEW s \in Subs, Billing!Checkout(s) \/ Billing!End(s)
    PROVE  OwedInv'
<1>1. BillingTypes /\ BillingTyped'
  BY BillingTypeSteps DEF OwedInv, BillingTyped, Billing!Next
<1>2. /\ UNCHANGED <<plan, row, handler, answered>>
      /\ \A x \in Subs : /\ stripe[x] # "none" => stripe'[x] # "none"
                         /\ stripe[x] = "ended" => stripe'[x] = "ended"
  BY <1>1 DEF Billing!Checkout, Billing!End, Billing!local, BillingTypes
<1>3. Happening \subseteq Happening'
  BY <1>2, EventIs DEF Happening
<1>4. PICK e \in Happening' : Billing!Emit(e)
  <2>1. CASE Billing!Checkout(s)
    BY <1>1, <2>1, ActCan DEF Billing!Checkout, Act, Happening, BillingTypes
  <2>2. CASE Billing!End(s)
    BY <1>1, <2>2, ActCan DEF Billing!End, Can, Happening, BillingTypes
  <2> QED BY <2>1, <2>2
<1>5. e \in Billing!Events /\ e.sub \in Subs /\ OneTeam[e.sub] = "team"
  BY <1>4, EventIs, PlanIs DEF Happening
<1>6. owed["team"]' \in Seq(Happening')
  <2>1. owed' = [owed EXCEPT !["team"] = Append(owed["team"], e)]
    BY <1>4, <1>5 DEF Billing!Emit
  <2>2. owed["team"]' = Append(owed["team"], e)
    BY <1>1, <2>1 DEF BillingTypes
  <2>3. owed["team"] \in Seq(Happening')
    BY <1>3, SeqsGrow DEF OwedInv, Told
  <2> QED BY <1>4, <2>2, <2>3
<1>7. Told'
  BY <1>2, <1>3, <1>6 DEF OwedInv, Told, Busy
<1>8. PlanBought'
  BY <1>2 DEF OwedInv, PlanBought
<1>9. RowOf(row["team"])'
  <2>1. row["team"] # Billing!NoRow => row["team"].sub \in Subs
    BY <1>1, RowIs DEF BillingTypes
  <2> QED BY <1>2, <2>1 DEF OwedInv, RowOf
<1>10. NotTaken'
  BY <1>2 DEF OwedInv, NotTaken, Activating, Busy, SomeEnded
<1> QED BY <1>1, <1>7, <1>8, <1>9, <1>10 DEF OwedInv

LEMMA EventsCome ==
    ASSUME JobsAssumption, OwedInv, NEW h \in Webhook, NEW e \in Billing!Events,
           Billing!Deliver(h, e) \/ Billing!Repeat(h, e)
    PROVE  OwedInv'
<1>1. BillingTypes /\ BillingTyped'
  BY BillingTypeSteps DEF OwedInv, BillingTyped, Billing!Next
<1>2. Billing!Receive(h, e) /\ UNCHANGED <<stripe, owed, answered, plan, row>>
  BY DEF Billing!Deliver, Billing!Repeat
<1>3. e \in Happening
  <2>1. CASE Billing!Deliver(h, e)
    <3>1. OneTeam[e.sub] = "team" /\ owed["team"] \in Seq(Happening)
      BY EventIs, PlanIs DEF OwedInv, Told
    <3>2. CASE InOrder
      <4>1. owed["team"] # <<>> /\ Head(owed["team"]) = e
        BY <2>1, <3>1, <3>2 DEF Billing!Deliver
      <4> QED BY <3>1, <4>1
    <3>3. CASE ~ InOrder
      <4>1. PICK i \in DOMAIN owed["team"] : owed["team"][i] = e
        BY <2>1, <3>1, <3>3 DEF Billing!Deliver, Billing!InList
      <4> QED BY <3>1, <4>1
    <3> QED BY <3>2, <3>3
  <2>2. CASE Billing!Repeat(h, e)
    BY <2>2 DEF Billing!Repeat, OwedInv, Told
  <2> QED BY <2>1, <2>2
<1>4. /\ handler'[h].event = e /\ handler'[h].step # "upsert"
      /\ \A g \in Webhook : g # h => handler'[g] = handler[g]
  BY <1>1, <1>2, ReceiveIs
<1>5. Happening' = Happening
  BY <1>2 DEF Happening
<1>6. Told'
  BY <1>2, <1>3, <1>4, <1>5 DEF OwedInv, Told, Busy
<1>7. PlanBought' /\ RowOf(row["team"])'
  BY <1>2 DEF OwedInv, PlanBought, RowOf
<1>8. NotTaken'
  BY <1>2, <1>4 DEF OwedInv, NotTaken, Activating, Busy, SomeEnded
<1> QED BY <1>1, <1>6, <1>7, <1>8 DEF OwedInv

(* Of a handler's step: only its own event is answered, and by then what   *)
(* is written holds.                                                       *)
LEMMA AnswersStand ==
    ASSUME JobsAssumption, OwedInv, NEW h \in Webhook, Busy(h), stripe' = stripe,
           \/ Billing!Succeed(h)
           \/ /\ UNCHANGED <<owed, answered>>
              /\ \A g \in Webhook : g # h => handler'[g] = handler[g]
              /\ handler'[h] # Billing!Idle => handler'[h].event = handler[h].event
    PROVE  Told' /\ Happening' = Happening
<1> DEFINE e == handler[h].event
<1>1. BillingTypes /\ e \in Happening /\ OneTeam[e.sub] = "team" /\ Billing!Event(h) = e /\ Billing!SubOf(h) = e.sub
  BY EventAt DEF OwedInv, BillingTyped, Told, EventFacts
<1>2. Happening' = Happening
  BY DEF Happening
<1>3. CASE Billing!Succeed(h)
  <2>1. /\ owed' = [owed EXCEPT !["team"] = Billing!Without(owed["team"], e)]
        /\ answered' = answered \cup {e} /\ handler' = [handler EXCEPT ![h] = Billing!Idle]
    BY <1>1, <1>3 DEF Billing!Succeed
  <2>2. Billing!Without(owed["team"], e) \in Seq(Happening)
    BY WithoutTyped DEF OwedInv, Told
  <2>3. owed["team"]' \in Seq(Happening)
    BY <1>1, <2>1, <2>2 DEF BillingTypes
  <2>4. \A g \in Webhook : Busy(g)' => handler'[g] = handler[g] /\ Busy(g)
    BY <1>1, <2>1 DEF BillingTypes, Busy
  <2> QED BY <1>1, <1>2, <2>1, <2>3, <2>4 DEF OwedInv, Told
<1>4. CASE ~ Billing!Succeed(h)
  BY <1>1, <1>2, <1>4 DEF OwedInv, Told, Busy
<1> QED BY <1>2, <1>3, <1>4

LEMMA HandlersOwe ==
    ASSUME JobsAssumption, OwedInv, NEW h \in Webhook,
           Billing!Handle(h) \/ Billing!GuardFails(h) \/ Billing!Fail(h)
    PROVE  OwedInv'
<1> DEFINE e == handler[h].event
<1>1. Busy(h) /\ BillingTypes /\ BillingTyped' /\ stripe' = stripe
  <2>1. BillingTyped'
    BY HandlingTyped DEF OwedInv
  <2> QED BY <2>1 DEF Billing!Handle, Billing!Guard, Billing!Lookup, Billing!SetTeamPlan, Billing!Upsert,
         Billing!GuardFails, Billing!Fail, Billing!At, Busy, OwedInv, BillingTyped
<1>2. /\ EventFacts(e) /\ Billing!Event(h) = e /\ Billing!SubOf(h) = e.sub
      /\ OneTeam[Billing!SubOf(h)] = "team" /\ e \in Happening
  BY <1>1, EventAt DEF OwedInv, Told
<1>3. CASE Billing!Guard(h) \/ Billing!GuardFails(h) \/ Billing!Lookup(h) \/ Billing!Fail(h)
  <2>1. UNCHANGED <<plan, row>>
    BY <1>3 DEF Billing!Guard, Billing!GuardFails, Billing!Lookup, Billing!Fail
  <2>2. /\ \/ Billing!Succeed(h)
           \/ /\ UNCHANGED <<owed, answered>>
              /\ \A g \in Webhook : g # h => handler'[g] = handler[g]
              /\ handler'[h] # Billing!Idle => handler'[h].event = handler[h].event
        /\ handler'[h] = Billing!Idle \/ handler'[h].step = "plan"
        /\ \A g \in Webhook : g # h => handler'[g] = handler[g]
    <3>1. CASE Billing!Succeed(h)
      BY <1>1, <3>1, OwedTyped
    <3>2. CASE Billing!Fail(h)
      BY <1>1, <3>2 DEF Billing!Fail, BillingTypes
    <3>3. CASE ~ Billing!Succeed(h) /\ ~ Billing!Fail(h)
      <4>1. PICK r \in {Billing!NoRow, row["team"]} : Billing!ToPlan(h, r) /\ UNCHANGED <<owed, answered>>
        BY <1>2, <1>3, <3>3 DEF Billing!Guard, Billing!GuardFails, Billing!Lookup
      <4>2. r \in {Billing!NoRow} \cup Billing!Row
        BY <1>1 DEF BillingTypes
      <4> QED BY <1>1, <4>1, <4>2, ToPlanIs
    <3> QED BY <3>1, <3>2, <3>3
  <2>3. Told'
    BY <1>1, <2>2, AnswersStand
  <2>4. PlanBought' /\ RowOf(row["team"])'
    BY <1>1, <2>1 DEF OwedInv, PlanBought, RowOf
  <2>5. NotTaken'
    BY <1>1, <2>1, <2>2 DEF OwedInv, NotTaken, Activating, Busy, SomeEnded
  <2> QED BY <1>1, <2>3, <2>4, <2>5 DEF OwedInv
<1>4. CASE Billing!SetTeamPlan(h)
  <2>1. /\ plan' = [plan EXCEPT !["team"] = Billing!NewPlan(h)] /\ handler' = [handler EXCEPT ![h].step = "upsert"]
        /\ UNCHANGED <<owed, answered, row>>
    BY <1>2, <1>4 DEF Billing!SetTeamPlan
  <2>2. /\ handler'[h].event = e /\ \A g \in Webhook : g # h => handler'[g] = handler[g]
    BY <1>1, <2>1, ToUpsertIs
  <2>3. Told'
    BY <1>1, <2>1, <2>2, AnswersStand
  <2>4. plan'["team"] = IF e.kind = "activated" THEN Bought[e.sub] ELSE "free"
    BY <1>1, <1>2, <2>1 DEF Billing!NewPlan, BillingTypes
  <2>5. PlanBought'
    BY <1>1, <1>2, <2>4 DEF PlanBought, Happening, EventFacts
  <2>6. plan'["team"] # "free" \/ SomeEnded'
    BY <1>1, <1>2, <2>4 DEF SomeEnded, Happening, EventFacts, Billing!Events
  <2>7. RowOf(row["team"])'
    BY <1>1, <2>1 DEF OwedInv, RowOf
  <2> QED BY <1>1, <2>3, <2>5, <2>6, <2>7 DEF OwedInv, NotTaken
<1>5. CASE Billing!Upsert(h)
  <2>1. Billing!Succeed(h) /\ plan' = plan /\ handler[h].step = "upsert"
    BY <1>5 DEF Billing!Upsert, Billing!At
  <2>2. Told' /\ \A g \in Webhook : Busy(g)' => handler'[g] = handler[g] /\ Busy(g)
    BY <1>1, <2>1, AnswersStand, OwedTyped DEF Busy
  <2>3. PlanBought'
    BY <1>1, <2>1 DEF OwedInv, PlanBought
  <2>4. CASE e.kind = "activated"
    <3>1. row' = [row EXCEPT !["team"] = [sub |-> e.sub, plan |-> Billing!NewPlan(h), status |-> "active"]]
      BY <1>2, <1>5, <2>4 DEF Billing!Upsert
    <3>2. row["team"]' = [sub |-> e.sub, plan |-> Billing!NewPlan(h), status |-> "active"]
      BY <1>1, <3>1 DEF BillingTypes
    <3>3. RowOf(row["team"])'
      BY <1>1, <1>2, <3>2 DEF RowOf, Happening
    <3>4. plan["team"] # "free" \/ SomeEnded
      BY <1>1, <2>1, <2>4 DEF OwedInv, NotTaken, Activating
    <3>5. NotTaken'
      BY <1>1, <2>1, <3>4 DEF NotTaken, SomeEnded
    <3> QED BY <1>1, <2>2, <2>3, <3>3, <3>5 DEF OwedInv
  <2>5. CASE e.kind # "activated"
    <3> DEFINE r == handler[h].row
    <3>1. e.kind = "canceled"
      BY <1>2, <2>5 DEF EventFacts, Billing!Events
    <3>2. r \in Billing!Row /\ r.sub = e.sub
      BY <1>1, <2>1, <3>1, HandlingIs DEF OwedInv, BillingTyped, Attributed
    <3>3. row' = [row EXCEPT !["team"] = [handler[h].row EXCEPT !.plan = "free", !.status = "canceled"]]
      BY <1>2, <1>5, <2>5 DEF Billing!Upsert
    <3>4. row["team"]' = [sub |-> e.sub, plan |-> "free", status |-> "canceled"]
      BY <1>1, <3>2, <3>3, RowIs DEF BillingTypes
    <3>5. stripe[e.sub] = "ended" /\ e.sub \in Subs
      BY <1>2, <3>1 DEF Happening, EventFacts
    <3>6. RowOf(row["team"])'
      BY <1>1, <3>4, <3>5 DEF RowOf
    <3>7. NotTaken'
      BY <1>1, <3>5 DEF NotTaken, SomeEnded
    <3> QED BY <1>1, <2>2, <2>3, <3>6, <3>7 DEF OwedInv
  <2> QED BY <2>4, <2>5
<1> QED BY <1>3, <1>4, <1>5 DEF Billing!Handle

LEMMA OwedSteps ==
    ASSUME JobsAssumption, OwedInv, [Billing!Next]_(Billing!vars)
    PROVE  OwedInv'
<1>1. CASE UNCHANGED Billing!vars
  <2>1. BillingTyped'
    BY <1>1, BillingTypeSteps DEF OwedInv
  <2>2. Told' /\ PlanBought' /\ RowOf(row["team"])' /\ NotTaken'
    BY <1>1 DEF Billing!vars, OwedInv, Told, Happening, PlanBought, RowOf, NotTaken, Activating, Busy, SomeEnded
  <2> QED BY <2>1, <2>2 DEF OwedInv
<1> QED BY <1>1, StripeMoves, EventsCome, HandlersOwe DEF Billing!Next

(* In whatever order and however many at a time Stripe's events are        *)
(* handled, repeated and failed, a workspace is on no plan that none of    *)
(* its checkouts bought, a subscription is recorded as canceled only when  *)
(* it has ended, and no recorded workspace is put back on the free plan    *)
(* before one of its subscriptions has (billing/billing.go,                *)
(* applyActivated, applyCanceled).                                         *)
THEOREM PlansAreOwed == MCSpec => []Billing!PlanIsOwed
<1> USE JobsAssumption
<1>1. MCInit => OwedInv
  <2> SUFFICES ASSUME Billing!Init PROVE OwedInv
    BY DEF MCInit
  <2>1. BillingTyped
    BY BillingStarts DEF BillingInv, BillingTyped, Attributed, Busy, Billing!Init
  <2>2. /\ owed["team"] = <<>> /\ answered = {} /\ plan["team"] = "free" /\ row["team"] = Billing!NoRow
        /\ \A h \in Webhook : ~ Busy(h)
    BY DEF Billing!Init, Busy
  <2>3. Told /\ PlanBought /\ RowOf(row["team"]) /\ NotTaken
    BY <2>2 DEF Told, PlanBought, RowOf, NotTaken, Activating
  <2> QED BY <2>1, <2>3 DEF OwedInv
<1>2. OwedInv /\ [MCNext]_<<service, vars, filing, billing>> => OwedInv'
  BY BillingRuns, OwedSteps
<1>3. OwedInv => Billing!PlanIsOwed
  <2>1. \A s \in Subs : OneTeam[s] = "team"
    BY PlanIs
  <2> QED BY <2>1 DEF OwedInv, PlanBought, RowOf, NotTaken, SomeEnded, Billing!PlanIsOwed
<1> QED
  BY <1>1, <1>2, <1>3, PTL DEF MCSpec
=============================================================================
