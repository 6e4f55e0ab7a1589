---------------------------- MODULE MCDrawerStore ----------------------------
(* DrawerStore for TLC: ids are 1..NumIds and were filed in that order.  A *)
(* behaviour has several handlers that file, absorb and delete; or one that*)
(* also edits and moves drawer 1; or one that files, absorbs and deletes   *)
(* beside a worker whose batch is smaller than the queue.  Failures and    *)
(* crashes come to the first and the last; MCServices has them beside      *)
(* edits.                                                                  *)
EXTENDS DrawerStore

CONSTANTS NumIds,
          Single        \* the only handler of the behaviours with one

ASSUME SingleAssumption == Single \in Handler

Ids == 1..NumIds
FiledInOrder == [i \in Ids |-> i]

(* The same store with a worker that embeds row by row.                    *)
RowByRow == INSTANCE DrawerStore WITH Batch <- 1

VARIABLE kind

OneHandler == \A h \in Handler : op'[h] = Idle \/ h = Single
NoEdits == \A h \in Handler : op'[h].kind \notin {"update", "move"}
Drawer1Only == \A h \in Handler : op'[h] = Idle \/ op'[h].id = 1

MCInit == Init /\ kind \in {"handlers", "edits", "queue"}
MCNext ==
    /\ UNCHANGED kind
    /\ \/ kind = "handlers" /\ Next /\ NoEdits
       \/ kind = "edits" /\ Next /\ OneHandler /\ Drawer1Only /\ faults' = 0
       \/ kind = "queue" /\ RowByRow!Next /\ OneHandler /\ NoEdits
MCFairSpec ==
    /\ MCInit /\ [][MCNext]_<<vars, kind>>
    /\ WF_vars(kind # "queue" /\ WorkerStep)
    /\ WF_vars(kind = "queue" /\ RowByRow!WorkerStep)
=============================================================================
