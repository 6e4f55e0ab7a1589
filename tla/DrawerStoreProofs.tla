-------------------------- MODULE DrawerStoreProofs --------------------------
(***************************************************************************)
(* What DrawerStore keeps for every number of drawers, handlers, edits and *)
(* faults.                                                                 *)
(***************************************************************************)
EXTENDS DrawerStore, TLAPS

(* Whoever is past its SoT write has a vector there, and every unfinished  *)
(* delete is on record: only an id that was erased can lose its vector.    *)
InFlightHasVector ==
    /\ \A h \in Handler :
          op[h].kind \in Writes /\ op[h].step \in {"index", "row"} =>
             (sot[op[h].id] = None => op[h].id \in erased)
    /\ \A h \in Handler : op[h].kind = "delete" => op[h].id \in erased
    /\ worker.step \in {"index", "mark"} =>
          \A i \in InBatch : sot[i] = None => i \in erased

IndInv == /\ TypeOK
          /\ VectorlessOnlyAfterErase
          /\ IndexOnlyAfterSoT
          /\ InFlightHasVector

(* Every bound, text and sentinel is of the kind its name says.            *)
LEMMA ConstantFacts == /\ Original \in Text /\ None \notin Text
                       /\ \A t \in Text : t # None
  BY BoundsAssumption DEF Original, Text, None

-----------------------------------------------------------------------------
(* Type correctness, the base case: an empty database is well formed.      *)
LEMMA TypeInit == Init => TypeOK
  BY BoundsAssumption, ConstantFacts
     DEF Init, TypeOK, WorkerIdle, NoBatch, Rows

(* Type correctness, the step: one step per action of the code.            *)
LEMMA TypeStep == TypeOK /\ [Next]_vars => TypeOK'
<1> SUFFICES ASSUME TypeOK, [Next]_vars PROVE TypeOK'
  OBVIOUS
<1> USE ConstantFacts DEF TypeOK, Rows, Writes
<1>1. ASSUME NEW h \in Handler, NEW i \in Id, BeginFile(h, i) PROVE TypeOK'
  BY <1>1 DEF BeginFile, Begin, Busy
<1>2. ASSUME NEW h \in Handler, NEW i \in Id, BeginUpdate(h, i) PROVE TypeOK'
  <2>1. edits + 1 \in Text /\ edits + 1 \in 0..MaxEdits
    BY <1>2, BoundsAssumption DEF BeginUpdate, Text
  <2>2. QED BY <1>2, <2>1 DEF BeginUpdate, Begin, Busy
<1>2m. ASSUME NEW h \in Handler, NEW i \in Id, BeginMove(h, i) PROVE TypeOK'
  BY <1>2m DEF BeginMove, Begin, Busy
<1>3. ASSUME NEW h \in Handler, NEW i \in Id, BeginDelete(h, i) PROVE TypeOK'
  BY <1>3 DEF BeginDelete, Begin, Busy
<1>4. ASSUME NEW h \in Handler, WriteSoT(h) PROVE TypeOK'
  <2>1. op[h] \in Busy
    BY <1>4 DEF WriteSoT, Idle
  <2>2. op'[h] \in Busy
    BY <1>4, <2>1 DEF WriteSoT, Busy
  <2>3. op' \in [Handler -> {Idle} \cup Busy]
    BY <1>4, <2>2 DEF WriteSoT
  <2>4. VectorAfter(h) \in Text \cup {None}
    BY <2>1 DEF VectorAfter, Busy
  <2>5. QED BY <1>4, <2>3, <2>4 DEF WriteSoT
<1>5. ASSUME NEW h \in Handler, WriteIndex(h) PROVE TypeOK'
  <2>1. op[h] \in Busy
    BY <1>5 DEF WriteIndex, Idle
  <2>2. op'[h] \in {Idle} \cup Busy
    BY <1>5, <2>1 DEF WriteIndex, Busy
  <2>3. op' \in [Handler -> {Idle} \cup Busy]
    BY <1>5, <2>2 DEF WriteIndex
  <2>4. VectorAfter(h) \in Text \cup {None}
    BY <2>1 DEF VectorAfter, Busy
  <2>5. QED BY <1>5, <2>3, <2>4 DEF WriteIndex
<1>6. ASSUME NEW h \in Handler, SaveRow(h) PROVE TypeOK'
  <2>1. op[h] \in Busy
    BY <1>6 DEF SaveRow, Idle
  <2>2. op[h].id \in Id /\ op[h].text \in Text
    BY <2>1 DEF Busy
  <2>3. QED BY <1>6, <2>2 DEF SaveRow
<1>7. ASSUME NEW h \in Handler, UpdateRow(h) PROVE TypeOK'
  <2>1. op[h] \in Busy
    BY <1>7 DEF UpdateRow, Idle
  <2>2. op[h].id \in Id /\ op[h].text \in Text
    BY <2>1 DEF Busy
  <2>3. QED BY <1>7, <2>2 DEF UpdateRow
<1>8. ASSUME NEW h \in Handler, HandlerFails(h) PROVE TypeOK'
  BY <1>8, BoundsAssumption DEF HandlerFails
<1>9. ASSUME NEW batch \in SUBSET Id, Absorb(batch) PROVE TypeOK'
  BY <1>9 DEF Absorb
<1>10. ASSUME ReadPending PROVE TypeOK'
  BY <1>10 DEF ReadPending
<1>11. ASSUME IndexSoT PROVE TypeOK'
  BY <1>11 DEF IndexSoT, WithBatch, InBatch
<1>12. ASSUME IndexSearch PROVE TypeOK'
  BY <1>12 DEF IndexSearch, WithBatch, InBatch
<1>13. ASSUME MarkEmbedded PROVE TypeOK'
  BY <1>13 DEF MarkEmbedded, WorkerIdle, NoBatch, InBatch
<1>14. ASSUME WorkerFails PROVE TypeOK'
  BY <1>14, BoundsAssumption DEF WorkerFails, WorkerIdle, NoBatch
<1>15. ASSUME Crash PROVE TypeOK'
  BY <1>15, BoundsAssumption DEF Crash, WorkerIdle, NoBatch
<1>16. CASE UNCHANGED vars
  BY <1>16 DEF vars
<1>17. QED
  BY <1>1, <1>2, <1>3, <1>4, <1>5, <1>6, <1>7, <1>8, <1>9, <1>10, <1>11,
     <1>12, <1>13, <1>14, <1>15, <1>16, <1>2m DEF Next, HandlerStep, WorkerStep

(* Type correctness: every reachable state has its declared shape, and     *)
(* only an existing row is stamped as embedded.                            *)
THEOREM TypeCorrect == Spec => []TypeOK
  BY TypeInit, TypeStep, PTL DEF Spec

-----------------------------------------------------------------------------
(* The base case: nothing is stamped, indexed or in flight.                *)
LEMMA IndInvInit == Init => IndInv
  BY TypeInit DEF Init, IndInv, VectorlessOnlyAfterErase, IndexOnlyAfterSoT,
     InFlightHasVector, Writes, Idle, WorkerIdle, InBatch, NoBatch

(* The step: only an unfinished delete removes a vector, and it is on      *)
(* record in erased before it does.                                        *)
LEMMA IndInvStep == IndInv /\ [Next]_vars => IndInv'
<1> SUFFICES ASSUME IndInv, [Next]_vars PROVE IndInv'
  OBVIOUS
<1> DEFINE Vectors == /\ VectorlessOnlyAfterErase
                      /\ IndexOnlyAfterSoT
                      /\ InFlightHasVector
<1>0. TypeOK /\ TypeOK'
  BY TypeStep DEF IndInv
<1>1. SUFFICES Vectors'
  BY <1>0 DEF IndInv
<1> USE <1>0, ConstantFacts
    DEF IndInv, VectorlessOnlyAfterErase, IndexOnlyAfterSoT, InFlightHasVector,
        TypeOK, InBatch, Writes
<1>2. ASSUME NEW h \in Handler, NEW i \in Id, BeginFile(h, i) PROVE Vectors'
  BY <1>2 DEF BeginFile, Begin
<1>3. ASSUME NEW h \in Handler, NEW i \in Id, BeginUpdate(h, i) PROVE Vectors'
  BY <1>3 DEF BeginUpdate, Begin
<1>19. ASSUME NEW h \in Handler, NEW i \in Id, BeginMove(h, i) PROVE Vectors'
  BY <1>19 DEF BeginMove, Begin
<1>4. ASSUME NEW h \in Handler, NEW i \in Id, BeginDelete(h, i) PROVE Vectors'
  BY <1>4 DEF BeginDelete, Begin
<1>5. ASSUME NEW h \in Handler, WriteSoT(h) PROVE Vectors'
  <2>1. op[h] \in Busy
    BY <1>5 DEF WriteSoT, Idle
  <2>2. \A i \in Id : sot'[i] = None => sot[i] = None \/ i \in erased
    BY <1>5, <2>1 DEF WriteSoT, VectorAfter, Busy
  <2>3. op[h].kind # "delete" => sot'[op[h].id] # None
    BY <1>5, <2>1 DEF WriteSoT, VectorAfter, Busy
  <2>4. /\ op'[h].kind = op[h].kind /\ op'[h].id = op[h].id
        /\ \A g \in Handler \ {h} : op'[g] = op[g]
    BY <1>5 DEF WriteSoT
  <2>5. VectorlessOnlyAfterErase' /\ IndexOnlyAfterSoT'
    BY <1>5, <2>2 DEF WriteSoT, Rows
  <2>6. InFlightHasVector'
    <3>1. ASSUME NEW g \in Handler, op'[g].kind \in Writes,
                 op'[g].step \in {"index", "row"}, sot'[op'[g].id] = None
          PROVE op'[g].id \in erased
      <4>1. CASE g = h
        BY <2>3, <2>4, <3>1, <4>1
      <4>2. CASE g # h
        <5>1. op[g] = op'[g] /\ op[g] \in Busy
          BY <2>4, <3>1, <4>2 DEF Idle
        <5>2. QED BY <2>2, <3>1, <5>1 DEF Busy
      <4>3. QED BY <4>1, <4>2
    <3>2. \A g \in Handler : op'[g].kind = "delete" => op'[g].id \in erased
      BY <2>4
    <3>3. worker.step \in {"index", "mark"} =>
             \A i \in InBatch : sot'[i] = None => i \in erased
      BY <2>2
    <3>4. QED BY <1>5, <3>1, <3>2, <3>3 DEF WriteSoT
  <2>7. QED BY <2>5, <2>6
<1>6. ASSUME NEW h \in Handler, WriteIndex(h) PROVE Vectors'
  <2>1. op[h] \in Busy
    BY <1>6 DEF WriteIndex, Idle
  <2>2. \A i \in Id : index'[i] # None /\ sot[i] = None => i \in erased
    BY <1>6, <2>1 DEF WriteIndex, VectorAfter, Busy
  <2>3. QED BY <1>6, <2>1, <2>2 DEF WriteIndex, Idle, Busy, Rows
<1>7. ASSUME NEW h \in Handler, SaveRow(h) PROVE Vectors'
  BY <1>7 DEF SaveRow, Idle
<1>8. ASSUME NEW h \in Handler, UpdateRow(h) PROVE Vectors'
  BY <1>8 DEF UpdateRow, Idle
<1>9. ASSUME NEW h \in Handler, HandlerFails(h) PROVE Vectors'
  BY <1>9 DEF HandlerFails, Idle
<1>10. ASSUME NEW batch \in SUBSET Id, Absorb(batch) PROVE Vectors'
  BY <1>10 DEF Absorb
<1>11. ASSUME ReadPending PROVE Vectors'
  BY <1>11 DEF ReadPending
<1>12. ASSUME IndexSoT PROVE Vectors'
  <2>1. \A i \in Id : sot'[i] = IF i \in InBatch THEN worker.batch[i] ELSE sot[i]
    BY <1>12 DEF IndexSoT, WithBatch
  <2>2. worker'.batch = worker.batch
    BY <1>12 DEF IndexSoT
  <2>3. \A i \in Id : sot'[i] = None => sot[i] = None /\ i \notin InBatch
    BY <2>1
  <2>4. VectorlessOnlyAfterErase' /\ IndexOnlyAfterSoT'
    BY <1>12, <2>3 DEF IndexSoT, Rows
  <2>5. \A h \in Handler : op[h] # Idle => op[h].id \in Id
    BY DEF Busy
  <2>6. \A h \in Handler :
          op[h].kind \in Writes /\ op[h].step \in {"index", "row"} =>
             (sot'[op[h].id] = None => op[h].id \in erased)
    BY <2>3, <2>5 DEF Idle
  <2>7. InFlightHasVector'
    BY <1>12, <2>2, <2>3, <2>6 DEF IndexSoT
  <2>8. QED BY <2>4, <2>7
<1>13. ASSUME IndexSearch PROVE Vectors'
  BY <1>13 DEF IndexSearch, WithBatch
<1>14. ASSUME MarkEmbedded PROVE Vectors'
  BY <1>14 DEF MarkEmbedded, WorkerIdle
<1>15. ASSUME WorkerFails PROVE Vectors'
  BY <1>15 DEF WorkerFails, WorkerIdle
<1>16. ASSUME Crash PROVE Vectors'
  BY <1>16 DEF Crash, WorkerIdle, Idle
<1>17. CASE UNCHANGED vars
  BY <1>17 DEF vars
<1>20. QED
  BY <1>2, <1>3, <1>4, <1>5, <1>6, <1>7, <1>8, <1>9, <1>10, <1>11, <1>12,
     <1>13, <1>14, <1>15, <1>16, <1>17, <1>19 DEF Next, HandlerStep, WorkerStep

(* Vectors survive: whatever handlers, the embed worker, errors and        *)
(* crashes do, a stamped row has its vector unless its id was erased.      *)
THEOREM VectorsSurvive == Spec => []VectorlessOnlyAfterErase
  BY IndInvInit, IndInvStep, PTL DEF Spec, IndInv

(* Durable first: the search index holds no vector the source of truth     *)
(* never had, unless its id was erased.                                    *)
THEOREM DurableFirst == Spec => []IndexOnlyAfterSoT
  BY IndInvInit, IndInvStep, PTL DEF Spec, IndInv

-----------------------------------------------------------------------------
(* The life cycle.  A stamped row that was not erased always has its       *)
(* vector, so Stage is never "lost".                                       *)
StageOf == [i \in Id |-> Stage(i)]

(* Stage reads four sets: what has a row, what is stamped, what has a      *)
(* vector, what was erased.  A step that keeps rows, stamps and erasures   *)
(* is a stutter of the life cycle, whatever it does to the vectors.        *)
LEMMA StageKept ==
  ASSUME VectorlessOnlyAfterErase, VectorlessOnlyAfterErase',
         Rows' = Rows, stamped' = stamped, erased' = erased
  PROVE  StageOf' = StageOf
<1>1. \A i \in stamped \ erased : sot[i] # None /\ sot'[i] # None
  BY DEF VectorlessOnlyAfterErase
<1>2. \A i \in Id : Stage(i)' = Stage(i)
  BY <1>1 DEF Stage
<1>3. QED BY <1>2 DEF StageOf

(* Every step of the store is a step of the life cycle or a stutter.       *)
LEMMA LifecycleStep ==
  ASSUME IndInv, IndInv', [Next]_vars
  PROVE  [Lifecycle!Next]_StageOf
<1> USE DEF IndInv, Writes
<1>1. \A i \in stamped \ erased : sot[i] # None
  BY DEF VectorlessOnlyAfterErase
<1>2. \A i \in stamped' \ erased' : sot'[i] # None
  BY DEF VectorlessOnlyAfterErase
<1>3. ASSUME row' = row, stamped' = stamped, erased' = erased
      PROVE  StageOf' = StageOf
  BY <1>3, StageKept DEF Rows
<1>4. ASSUME NEW h \in Handler, NEW i \in Id,
             BeginFile(h, i) \/ BeginUpdate(h, i) \/ BeginMove(h, i)
      PROVE  StageOf' = StageOf
  BY <1>3, <1>4 DEF BeginFile, BeginUpdate, BeginMove
<1>41. ASSUME NEW h \in Handler, NEW i \in Id, BeginDelete(h, i)
       PROVE  Lifecycle!Erase(i)
  <2>1. Rows' = Rows \ {i} /\ stamped' = stamped \ {i} /\ sot' = sot
        /\ erased' = erased \cup {i}
    BY <1>41, ConstantFacts DEF BeginDelete, Rows, TypeOK
  <2>2. Stage(i)' = "erased"
    BY <2>1 DEF Stage
  <2>3. \A j \in Id \ {i} : Stage(j)' = Stage(j)
    BY <2>1 DEF Stage
  <2>4. QED BY <2>2, <2>3 DEF Lifecycle!Erase, StageOf
<1>5. ASSUME NEW h \in Handler, WriteSoT(h) \/ WriteIndex(h) \/ HandlerFails(h)
      PROVE  StageOf' = StageOf
  BY <1>3, <1>5 DEF WriteSoT, WriteIndex, HandlerFails
<1>6. ASSUME NEW h \in Handler, UpdateRow(h) PROVE StageOf' = StageOf
  <2>1. op[h] \in Busy
    BY <1>6 DEF UpdateRow, TypeOK, Idle
  <2>2. Rows' = Rows /\ stamped' = stamped /\ erased' = erased
    BY <1>6, <2>1, ConstantFacts DEF UpdateRow, Rows, TypeOK, Busy
  <2>3. QED BY <2>2, StageKept
<1>7. ASSUME NEW h \in Handler, SaveRow(h)
      PROVE  StageOf' = StageOf \/ \E i \in Id : Lifecycle!File(i)
  <2>1. op[h] \in Busy
    BY <1>7 DEF SaveRow, TypeOK, Idle
  <2>0. PICK d \in Id : d = op[h].id
    BY <2>1 DEF Busy
  <2>2. /\ Rows' = Rows \cup {d} /\ stamped' = stamped \cup {d}
        /\ sot' = sot /\ erased' = erased
    BY <1>7, <2>0, <2>1, ConstantFacts DEF SaveRow, Rows, TypeOK, Busy
  <2>4. \A i \in Id \ {d} : Stage(i)' = Stage(i)
    BY <2>2 DEF Stage
  <2>5. CASE d \in erased
    <3>1. Stage(d)' = Stage(d)
      BY <2>2, <2>5 DEF Stage
    <3>2. QED BY <2>4, <3>1 DEF StageOf
  <2>6. CASE d \notin erased
    <3>1. Stage(d) # "erased" /\ Stage(d)' = "indexed"
      BY <1>2, <2>2, <2>6 DEF Stage
    <3>2. StageOf' = [StageOf EXCEPT ![d] = "indexed"]
      BY <2>4, <3>1 DEF StageOf
    <3>3. QED BY <3>1, <3>2 DEF Lifecycle!File, StageOf
  <2>7. QED BY <2>5, <2>6
<1>8. ASSUME NEW batch \in SUBSET Id, Absorb(batch) PROVE Lifecycle!Absorb(batch)
  <2>1. /\ Rows' = Rows \cup batch /\ stamped' = stamped
        /\ sot' = sot /\ erased' = erased
    BY <1>8, ConstantFacts DEF Absorb, Rows, TypeOK
  <2>2. \A i \in Id : Stage(i) = "absent" <=> i \notin Rows /\ i \notin erased
    BY DEF Stage
  <2>3. \A i \in batch : i \notin Rows /\ i \notin erased => Stage(i)' = "pending"
    BY <2>1 DEF Stage, TypeOK
  <2>4. \A i \in Id : i \notin batch \/ i \in Rows \/ i \in erased
                         => Stage(i)' = Stage(i)
    BY <2>1 DEF Stage
  <2>5. QED BY <2>2, <2>3, <2>4 DEF Lifecycle!Absorb, StageOf
<1>9. ASSUME MarkEmbedded PROVE Lifecycle!Embed(InBatch)
  <2>1. /\ Rows' = Rows /\ stamped' = stamped \cup (InBatch \cap Rows)
        /\ sot' = sot /\ erased' = erased
    BY <1>9 DEF MarkEmbedded, Rows
  <2>2. \A i \in Id : Stage(i) = "pending" <=> i \in Rows \ (stamped \cup erased)
    BY DEF Stage
  <2>3. \A i \in InBatch : i \in Pending \ erased => Stage(i)' = "indexed"
    BY <1>2, <2>1 DEF Stage, Pending
  <2>4. \A i \in Id : i \notin InBatch \/ i \notin Pending \ erased
                         => Stage(i)' = Stage(i)
    BY <2>1 DEF Stage, Pending
  <2>5. QED BY <2>2, <2>3, <2>4 DEF Lifecycle!Embed, StageOf, Pending
<1>10. ASSUME ReadPending \/ IndexSoT \/ IndexSearch \/ WorkerFails \/ Crash
               \/ UNCHANGED vars
       PROVE  StageOf' = StageOf
  BY <1>3, <1>10 DEF ReadPending, IndexSoT, IndexSearch, WorkerFails, Crash, vars
<1>11. InBatch \in SUBSET Id
  BY DEF InBatch
<1>12. QED
  BY <1>4, <1>41, <1>5, <1>6, <1>7, <1>8, <1>9, <1>10, <1>11
     DEF Next, HandlerStep, WorkerStep, Lifecycle!Next

(* Refinement: the store of rows, two vector stores, handlers, worker,     *)
(* errors and crashes implements the life cycle absent -> pending ->       *)
(* indexed that add_drawer and import promise until a drawer is erased.    *)
THEOREM Refinement == Spec => ImplementsLifecycle
<1>1. Init => IndInv /\ Lifecycle!Init
  <2>1. Init => StageOf = [i \in Id |-> "absent"]
    BY DEF Init, StageOf, Stage, Rows
  <2>2. QED BY <2>1, IndInvInit DEF Lifecycle!Init, StageOf
<1>2. IndInv /\ [Next]_vars => IndInv' /\ [Lifecycle!Next]_StageOf
  BY IndInvStep, LifecycleStep
<1>3. QED
  BY <1>1, <1>2, PTL DEF Spec, ImplementsLifecycle, Lifecycle!Spec, StageOf
-----------------------------------------------------------------------------
(* One request at a time and no import: the worker finds nothing to embed, *)
(* and what a call has written so far is what it writes next.              *)
OneAtATime == (\A g, h \in Handler : g = h) /\ "absorb" \notin Ops

InStep(h) ==
    /\ op[h].kind = "delete" => row[op[h].id] = None
    /\ op[h].kind \in {"update", "move"} => row[op[h].id] # None
    /\ op[h].kind = "move" => row[op[h].id] = op[h].text
    /\ op[h].step = "index" => sot[op[h].id] = VectorAfter(h)
    /\ op[h].step = "row" => sot[op[h].id] = op[h].text /\ index[op[h].id] = op[h].text
RepairInv == /\ TypeOK /\ Pending = {} /\ worker.step = "idle"
             /\ \A h \in Handler : InStep(h)

LEMMA RepairInit == Init => RepairInv
  BY TypeInit DEF Init, RepairInv, Pending, Rows, WorkerIdle, InStep, Idle

LEMMA OpFacts ==
    ASSUME TypeOK, NEW h \in Handler, op[h] # Idle
    PROVE  /\ op[h].id \in Id /\ op[h].text \in Text /\ op[h].step \in {"sot", "index", "row"}
           /\ op[h].kind \in {"file", "update", "move", "delete"}
           /\ op[h].kind = "delete" => op[h].step # "row"
           /\ [op[h] EXCEPT !.step = "index"].kind = op[h].kind
           /\ [op[h] EXCEPT !.step = "index"].id = op[h].id
           /\ [op[h] EXCEPT !.step = "index"].text = op[h].text
           /\ [op[h] EXCEPT !.step = "index"].step = "index"
           /\ [op[h] EXCEPT !.step = "row"].kind = op[h].kind
           /\ [op[h] EXCEPT !.step = "row"].id = op[h].id
           /\ [op[h] EXCEPT !.step = "row"].text = op[h].text
           /\ [op[h] EXCEPT !.step = "row"].step = "row"
<1>1. op[h] \in Busy
  BY DEF TypeOK
<1>2. QED
  BY <1>1 DEF Busy, Writes

(* One operation goes on: nobody else is under way.                        *)
LEMMA OnlyOne ==
    ASSUME OneAtATime, TypeOK', NEW h \in Handler, InStep(h)',
           Pending' = {}, worker' = worker, worker.step = "idle"
    PROVE  RepairInv'
BY DEF OneAtATime, RepairInv

LEMMA RepairStep == OneAtATime /\ RepairInv /\ [Next]_vars => RepairInv'
<1> SUFFICES ASSUME OneAtATime, RepairInv, [Next]_vars PROVE RepairInv'
  OBVIOUS
<1>0. TypeOK /\ TypeOK' /\ Pending = {} /\ worker.step = "idle"
  BY TypeStep DEF RepairInv
<1>1. ASSUME NEW h \in Handler, NEW i \in Id, BeginFile(h, i) PROVE RepairInv'
  <2>1. op'[h] = [kind |-> "file", id |-> i, text |-> Original, step |-> "sot"]
    BY <1>0, <1>1 DEF BeginFile, Begin, TypeOK
  <2>2. InStep(h)' /\ Pending' = {} /\ worker' = worker
    BY <1>0, <1>1, <2>1 DEF BeginFile, InStep, Pending, Rows
  <2>3. QED BY <1>0, <2>2, OnlyOne
<1>2. ASSUME NEW h \in Handler, NEW i \in Id, BeginUpdate(h, i) PROVE RepairInv'
  <2>1. op'[h] = [kind |-> "update", id |-> i, text |-> edits + 1, step |-> "sot"]
    BY <1>0, <1>2 DEF BeginUpdate, Begin, TypeOK
  <2>2. InStep(h)' /\ Pending' = {} /\ worker' = worker
    BY <1>0, <1>2, <2>1 DEF BeginUpdate, InStep, Pending, Rows
  <2>3. QED BY <1>0, <2>2, OnlyOne
<1>3. ASSUME NEW h \in Handler, NEW i \in Id, BeginMove(h, i) PROVE RepairInv'
  <2>1. op'[h] = [kind |-> "move", id |-> i, text |-> row[i], step |-> "sot"]
    BY <1>0, <1>3 DEF BeginMove, Begin, TypeOK
  <2>2. InStep(h)' /\ Pending' = {} /\ worker' = worker
    BY <1>0, <1>3, <2>1 DEF BeginMove, InStep, Pending, Rows
  <2>3. QED BY <1>0, <2>2, OnlyOne
<1>4. ASSUME NEW h \in Handler, NEW i \in Id, BeginDelete(h, i) PROVE RepairInv'
  <2>1. op'[h] = [kind |-> "delete", id |-> i, text |-> Original, step |-> "sot"]
    BY <1>0, <1>4 DEF BeginDelete, Begin, TypeOK
  <2>2. InStep(h)' /\ Pending' = {} /\ worker' = worker
    BY <1>0, <1>4, <2>1 DEF BeginDelete, InStep, Pending, Rows, TypeOK
  <2>3. QED BY <1>0, <2>2, OnlyOne
<1>5. ASSUME NEW h \in Handler, WriteSoT(h) PROVE RepairInv'
  <2>1. op[h] # Idle /\ op'[h] = [op[h] EXCEPT !.step = "index"] /\ InStep(h)
    BY <1>0, <1>5 DEF WriteSoT, Idle, TypeOK, RepairInv
  <2>2. sot'[op[h].id] = VectorAfter(h) /\ row' = row
    BY <1>0, <1>5, <2>1, OpFacts DEF WriteSoT, TypeOK
  <2>3. InStep(h)'
    BY <1>0, <2>1, <2>2, OpFacts DEF InStep, VectorAfter
  <2>4. Pending' = {} /\ worker' = worker
    BY <1>0, <1>5 DEF WriteSoT, Pending, Rows
  <2>5. QED BY <1>0, <2>3, <2>4, OnlyOne
<1>6. ASSUME NEW h \in Handler, WriteIndex(h) PROVE RepairInv'
  <2>1. op[h] # Idle /\ InStep(h) /\ row' = row /\ sot' = sot
    BY <1>6 DEF WriteIndex, Idle, RepairInv
  <2>2. Pending' = {} /\ worker' = worker
    BY <1>0, <1>6 DEF WriteIndex, Pending, Rows
  <2>3. InStep(h)'
    <3>1. CASE op[h].kind = "delete"
      <4>1. op'[h] = Idle
        BY <1>0, <1>6, <3>1 DEF WriteIndex, TypeOK
      <4>2. QED BY <4>1 DEF InStep, Idle
    <3>2. CASE op[h].kind # "delete"
      <4>1. op'[h] = [op[h] EXCEPT !.step = "row"] /\ index'[op[h].id] = op[h].text
        BY <1>0, <1>6, <2>1, <3>2, OpFacts DEF WriteIndex, VectorAfter, TypeOK
      <4>2. sot[op[h].id] = op[h].text
        BY <1>6, <2>1, <3>2 DEF WriteIndex, InStep, VectorAfter
      <4>3. QED BY <1>0, <2>1, <3>2, <4>1, <4>2, OpFacts DEF InStep
    <3>3. QED BY <3>1, <3>2
  <2>4. QED BY <1>0, <2>2, <2>3, OnlyOne
<1>7. ASSUME NEW h \in Handler, SaveRow(h) PROVE RepairInv'
  <2>1. op'[h] = Idle /\ worker' = worker
    BY <1>0, <1>7 DEF SaveRow, TypeOK
  <2>2. Pending' = {}
    BY <1>0, <1>7 DEF SaveRow, Pending, Rows, TypeOK
  <2>3. QED BY <1>0, <2>1, <2>2, OnlyOne DEF InStep, Idle
<1>8. ASSUME NEW h \in Handler, UpdateRow(h) PROVE RepairInv'
  <2>1. op'[h] = Idle /\ worker' = worker
    BY <1>0, <1>8 DEF UpdateRow, TypeOK
  <2>2. Pending' = {}
    BY <1>0, <1>8 DEF UpdateRow, Pending, Rows, TypeOK
  <2>3. QED BY <1>0, <2>1, <2>2, OnlyOne DEF InStep, Idle
<1>9. ASSUME NEW h \in Handler, HandlerFails(h) PROVE RepairInv'
  <2>1. op'[h] = Idle /\ worker' = worker
    BY <1>0, <1>9 DEF HandlerFails, TypeOK
  <2>2. Pending' = {}
    BY <1>0, <1>9 DEF HandlerFails, Pending, Rows
  <2>3. QED BY <1>0, <2>1, <2>2, OnlyOne DEF InStep, Idle
<1>10. ASSUME NEW batch, Absorb(batch) PROVE RepairInv'
  BY <1>10 DEF Absorb, OneAtATime
<1>11. ~ WorkerStep /\ ~ WorkerFails
  BY <1>0 DEF WorkerStep, ReadPending, OldestPending, IndexSoT, IndexSearch, MarkEmbedded, WorkerFails
<1>12. CASE Crash
  <2>1. \A h \in Handler : op'[h] = Idle
    BY <1>12 DEF Crash
  <2>2. Pending' = {} /\ worker'.step = "idle"
    BY <1>0, <1>12 DEF Crash, Pending, Rows, WorkerIdle
  <2>3. QED BY <1>0, <2>1, <2>2 DEF RepairInv, InStep, Idle
<1>13. CASE UNCHANGED vars
  BY <1>0, <1>13 DEF vars, RepairInv, Pending, Rows, InStep, VectorAfter
<1>14. QED
  BY <1>1, <1>2, <1>3, <1>4, <1>5, <1>6, <1>7, <1>8, <1>9, <1>10, <1>11, <1>12, <1>13
     DEF Next, HandlerStep

(* The operation that ends without a fault.                                *)
EndsAgreeing == \A h \in Handler :
    (op[h] # Idle /\ op'[h] = Idle /\ faults' = faults) =>
        LET i == op[h].id IN row'[i] = sot'[i] /\ sot'[i] = index'[i]

LEMMA EndStep == RepairInv /\ Next => EndsAgreeing
<1> SUFFICES ASSUME RepairInv, Next, NEW h \in Handler,
                    op[h] # Idle, op'[h] = Idle, faults' = faults
             PROVE  row'[op[h].id] = sot'[op[h].id] /\ sot'[op[h].id] = index'[op[h].id]
  BY DEF EndsAgreeing
<1>0. /\ TypeOK /\ InStep(h) /\ faults \in Nat
      /\ op[h].id \in Id /\ op[h].kind \in {"file", "update", "move", "delete"}
  BY OpFacts, BoundsAssumption DEF RepairInv, TypeOK
<1>1. ASSUME NEW g \in Handler, NEW i \in Id,
             BeginFile(g, i) \/ BeginUpdate(g, i) \/ BeginMove(g, i) \/ BeginDelete(g, i)
      PROVE  FALSE
  BY <1>0, <1>1 DEF BeginFile, BeginUpdate, BeginMove, BeginDelete, Begin, TypeOK, Idle
<1>2. ASSUME NEW g \in Handler, HandlerStep(g) PROVE g = h
  BY <1>0, <1>2 DEF HandlerStep, WriteSoT, WriteIndex, SaveRow, UpdateRow, TypeOK
<1>3. ~ WriteSoT(h)
  <2>1. ASSUME WriteSoT(h) PROVE op'[h].step = "index"
    BY <1>0, <2>1, OpFacts DEF WriteSoT, TypeOK
  <2>2. QED BY <2>1 DEF Idle
<1>4. CASE WriteIndex(h)
  <2>1. op[h].kind = "delete"
    <3>1. ASSUME op[h].kind # "delete" PROVE op'[h].step = "row"
      BY <1>0, <1>4, <3>1, OpFacts DEF WriteIndex, TypeOK
    <3>2. QED BY <3>1 DEF Idle
  <2>2. index'[op[h].id] = None /\ row[op[h].id] = None /\ sot[op[h].id] = None
    BY <1>0, <1>4, <2>1 DEF WriteIndex, InStep, VectorAfter, TypeOK
  <2>3. QED BY <1>4, <2>2 DEF WriteIndex
<1>5. CASE SaveRow(h)
  BY <1>0, <1>5 DEF SaveRow, InStep, TypeOK
<1>6. CASE UpdateRow(h)
  <2>1. sot'[op[h].id] = op[h].text /\ index'[op[h].id] = op[h].text
    BY <1>0, <1>6 DEF UpdateRow, InStep
  <2>2. row'[op[h].id] = op[h].text
    BY <1>0, <1>6 DEF UpdateRow, InStep, TypeOK, Rows
  <2>3. QED BY <2>1, <2>2
<1>7. ~ HandlerStep(h) => ~ (\E g \in Handler : HandlerFails(g)) /\ ~ Crash
  BY <1>0 DEF HandlerFails, Crash
<1>8. ~ (\E batch : Absorb(batch)) /\ ~ WorkerStep /\ ~ WorkerFails
  BY <1>0 DEF Absorb, WorkerStep, ReadPending, IndexSoT, IndexSearch, MarkEmbedded, WorkerFails
<1>9. QED
  BY <1>1, <1>2, <1>3, <1>4, <1>5, <1>6, <1>7, <1>8 DEF Next, HandlerStep

(* Repair: where one request is served at a time and nothing is absorbed,  *)
(* an operation that runs to its end leaves row, source of truth and index *)
(* agreeing on its drawer, whatever failed calls and crashes left behind.  *)
THEOREM CompletionRepairs == OneAtATime => (Spec => CompletionAgrees)
<1>1. OneAtATime /\ RepairInv /\ [Next]_vars => RepairInv' /\ [EndsAgreeing]_vars
  BY RepairStep, EndStep
<1>2. ASSUME OneAtATime PROVE Spec => CompletionAgrees
  <2>1. RepairInv /\ [Next]_vars => RepairInv' /\ [EndsAgreeing]_vars
    BY <1>1, <1>2
  <2>2. QED BY <2>1, RepairInit, PTL DEF Spec, CompletionAgrees, EndsAgreeing
<1>3. QED
  BY <1>2
=============================================================================
