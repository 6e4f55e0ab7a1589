-------------------------------- MODULE Import --------------------------------
(***************************************************************************)
(* The filing of a streamed export.  Records are decoded one by one,       *)
(* drawers and closets are stored in batches as rows still to be embedded, *)
(* facts as they come, tunnels last, because their rooms have to be there. *)
(* A stream may be cut or a batch fail; the sender then repeats the whole. *)
(***************************************************************************)
EXTENDS Integers, FiniteSets, Sequences

CONSTANTS
    Streams,         \* exports to be sent: sequences of records
    BatchSize, MaxPendingTunnels,
    Cap,             \* requests the team may make
    MaxRuns          \* bound on the requests of a behaviour

(* A record has a kind, a key and, for a tunnel, the rooms it needs, for a *)
(* fact whether it has ended.  A blank one lacks a wing, a room or text.   *)
Kinds == {"manifest", "drawer", "diary", "closet", "kg", "tunnel", "other"}

VARIABLES
    stream, recompute,
    stage, pos,
    pendingDrawers, pendingClosets, pendingTunnels,
    result,          \* the counters of the response
    drawers, closets, facts, tunnels,   \* what is stored
    graph,           \* the rows the derived graph was last computed from
    missed,          \* facts and tunnels of this run the store refused: a history
    runs, used       \* requests and metered requests

pending == <<pendingDrawers, pendingClosets, pendingTunnels>>
stored == <<drawers, closets, facts, tunnels, graph>>
vars == <<stream, recompute, stage, pos, pending, result, stored, missed, runs, used>>

Nothing == [drawers |-> 0, closets |-> 0, facts |-> 0, tunnels |-> 0, skipped |-> 0,
            total |-> 0, error |-> FALSE]

Init ==
    /\ stream \in Streams /\ recompute = FALSE
    /\ stage = "idle" /\ pos = 0
    /\ pendingDrawers = <<>> /\ pendingClosets = <<>> /\ pendingTunnels = <<>>
    /\ result = Nothing
    /\ drawers = {} /\ closets = {} /\ facts = <<>> /\ tunnels = {} /\ graph = {}
    /\ missed = {} /\ runs = 0 /\ used = 0

(* Tenant, meter and target wing, before a byte of the body is read.       *)
Serve ==
    /\ stage = "idle" /\ runs < MaxRuns /\ used < Cap
    /\ recompute' \in BOOLEAN
    /\ stage' = "reading" /\ pos' = 0 /\ result' = Nothing
    /\ missed' = {} /\ runs' = runs + 1 /\ used' = used + 1
    /\ UNCHANGED <<stream, pending, stored>>

Valid(batch) == {i \in DOMAIN batch : ~batch[i].blank}

(* Rows are made under ids of their own contents, so a row that is there   *)
(* stays the one row it is.  The whole batch is stored or none of it.      *)
AbsorbDrawers(batch, ok) ==
    /\ drawers' = IF ok THEN drawers \cup {batch[i].key : i \in Valid(batch)} ELSE drawers
    /\ pendingDrawers' = <<>>
AbsorbClosets(batch, ok) ==
    /\ closets' = IF ok THEN closets \cup {batch[i].key : i \in Valid(batch)} ELSE closets
    /\ pendingClosets' = <<>>

Counted(ok, batch) == IF ok THEN Cardinality(Valid(batch)) ELSE 0

FlushDrawers(batch, ok, res) ==
    [res EXCEPT !.drawers = @ + Counted(ok, batch),
                !.skipped = @ + Len(batch) - Counted(ok, batch),
                !.error = @ \/ (~ok /\ Valid(batch) # {})]
FlushClosets(batch, ok, res) ==
    [res EXCEPT !.closets = @ + Counted(ok, batch),
                !.skipped = @ + Len(batch) - Counted(ok, batch),
                !.error = @ \/ (~ok /\ Valid(batch) # {})]

Takes(kinds) == stage = "reading" /\ pos < Len(stream) /\ stream[pos + 1].kind \in kinds
Record == stream[pos + 1]
Read == pos' = pos + 1 /\ UNCHANGED <<stream, recompute, stage, runs, used>>

ReadManifest ==
    /\ Takes({"manifest"}) /\ Read
    /\ result' = [result EXCEPT !.total = Record.total]
    /\ UNCHANGED <<pending, stored, missed>>

ReadDrawer ==
    /\ Takes({"drawer", "diary"}) /\ Read
    /\ LET batch == Append(pendingDrawers, Record) IN
       IF Len(batch) < BatchSize
       THEN pendingDrawers' = batch /\ UNCHANGED <<result, drawers>>
       ELSE \E ok \in BOOLEAN :
              AbsorbDrawers(batch, ok) /\ result' = FlushDrawers(batch, ok, result)
    /\ UNCHANGED <<pendingClosets, pendingTunnels, closets, facts, tunnels, graph, missed>>

ReadCloset ==
    /\ Takes({"closet"}) /\ Read
    /\ LET batch == Append(pendingClosets, Record) IN
       IF Len(batch) < BatchSize
       THEN pendingClosets' = batch /\ UNCHANGED <<result, closets>>
       ELSE \E ok \in BOOLEAN :
              AbsorbClosets(batch, ok) /\ result' = FlushClosets(batch, ok, result)
    /\ UNCHANGED <<pendingDrawers, pendingTunnels, drawers, facts, tunnels, graph, missed>>

(* A fact that is current is left alone; any other is added under an id of *)
(* this moment (the second: no stream here has an ended fact twice).       *)
KGAdd(fact) ==
    IF \E i \in DOMAIN facts : facts[i].key = fact.key /\ ~facts[i].ended
    THEN facts ELSE Append(facts, [key |-> fact.key, ended |-> fact.ended])

(* Whatever keeps a fact from being added, a blank part or the store, it is *)
(* skipped and the stream read on, with no error.                          *)
ReadFact ==
    /\ Takes({"kg"}) /\ Read
    /\ \/ /\ ~Record.blank
          /\ facts' = KGAdd(Record) /\ result' = [result EXCEPT !.facts = @ + 1]
          /\ UNCHANGED missed
       \/ /\ facts' = facts /\ result' = [result EXCEPT !.skipped = @ + 1]
          /\ missed' = IF Record.blank THEN missed ELSE missed \cup {Record}
    /\ UNCHANGED <<pending, drawers, closets, tunnels, graph>>

Unknown ==
    /\ Takes({"other"}) /\ Read
    /\ result' = [result EXCEPT !.skipped = @ + 1]
    /\ UNCHANGED <<pending, stored, missed>>

(* A tunnel is made if there are drawers in both its rooms, unless the      *)
(* store refuses it: then too it is skipped, with no error.  Made again it  *)
(* is the same tunnel.                                                     *)
Made(batch, rows) == {i \in DOMAIN batch : batch[i].rooms \subseteq {d[1] : d \in rows}}

ApplyTunnels(batch, rows, res) ==
    \E refused \in SUBSET Made(batch, rows) :
       LET filed == Made(batch, rows) \ refused IN
       /\ tunnels' = tunnels \cup {batch[i].key : i \in filed}
       /\ missed' = missed \cup {batch[i] : i \in refused}
       /\ pendingTunnels' = <<>>
       /\ result' = [res EXCEPT !.tunnels = @ + Cardinality(filed),
                                !.skipped = @ + Len(batch) - Cardinality(filed)]

DrainTunnelsFirst(batch) ==
    \E okD, okC \in BOOLEAN :
       /\ AbsorbDrawers(pendingDrawers, okD) /\ AbsorbClosets(pendingClosets, okC)
       /\ ApplyTunnels(batch, drawers,
             FlushClosets(pendingClosets, okC, FlushDrawers(pendingDrawers, okD, result)))

(* What waits is stored, and then the tunnels made.                        *)
Flush(batch) ==
    \E okD, okC \in BOOLEAN :
       /\ AbsorbDrawers(pendingDrawers, okD) /\ AbsorbClosets(pendingClosets, okC)
       /\ ApplyTunnels(batch, drawers',
             FlushClosets(pendingClosets, okC, FlushDrawers(pendingDrawers, okD, result)))

ReadTunnel ==
    /\ Takes({"tunnel"}) /\ Read
    /\ LET batch == Append(pendingTunnels, Record) IN
       IF Len(batch) < MaxPendingTunnels
       THEN pendingTunnels' = batch /\ UNCHANGED <<pendingDrawers, pendingClosets, result, drawers, closets, tunnels, missed>>
       ELSE Flush(batch)
    /\ UNCHANGED <<facts, graph>>

(* The end of the stream, or its cutting off: what was read is kept, the   *)
(* graph is computed again if that was asked for: if that fails, the graph  *)
(* of before stands and the response does not say so.                      *)
Finish ==
    /\ stage = "reading"
    /\ Flush(pendingTunnels)
    /\ stage' = IF pos = Len(stream) THEN "finished" ELSE "broken"
    /\ graph' \in IF recompute THEN {drawers', graph} ELSE {graph}
    /\ UNCHANGED <<stream, recompute, pos, facts, runs, used>>

(* The client is gone: nothing more can be stored.                         *)
Disconnect ==
    /\ stage = "reading"
    /\ stage' = "broken"
    /\ pendingDrawers' = <<>> /\ pendingClosets' = <<>> /\ pendingTunnels' = <<>>
    /\ UNCHANGED <<stream, recompute, pos, result, stored, missed, runs, used>>

Again ==
    /\ stage \in {"finished", "broken"} /\ stage' = "idle"
    /\ UNCHANGED <<stream, recompute, pos, pending, result, stored, missed, runs, used>>

Next ==
    \/ Serve \/ ReadManifest \/ ReadDrawer \/ ReadCloset \/ ReadFact \/ ReadTunnel
    \/ Unknown \/ Finish \/ Disconnect \/ Again

Spec == Init /\ [][Next]_vars

-----------------------------------------------------------------------------
Sent(kinds) == {i \in DOMAIN stream : stream[i].kind \in kinds}
Keys(kinds) == {stream[i].key : i \in {j \in Sent(kinds) : ~stream[j].blank}}

TypeOK ==
    /\ stage \in {"idle", "reading", "finished", "broken"} /\ pos \in 0..Len(stream)
    /\ Len(pendingDrawers) < BatchSize /\ Len(pendingClosets) < BatchSize
    /\ Len(pendingTunnels) < MaxPendingTunnels
    /\ drawers \subseteq Keys({"drawer", "diary"}) /\ closets \subseteq Keys({"closet"})

(* A run to the end without an error has filed every drawer and closet     *)
(* there was to file, what earlier runs were cut off at included, however   *)
(* often it was sent none of them and no tunnel twice, and every record is  *)
(* counted once, filed or skipped.  A fact or a tunnel that could be filed  *)
(* is missing only if the store refused it in this run, and then the number *)
(* skipped tells (importer.go:21-23, 259-260, 319-323, 389-398).           *)
Fit == {i \in Sent({"tunnel"}) : stream[i].rooms \subseteq {d[1] : d \in drawers}}
ImportFilesAll ==
    stage = "finished" =>
      /\ result.drawers + result.closets + result.facts + result.tunnels + result.skipped
           = Cardinality(DOMAIN stream \ Sent({"manifest"}))
      /\ Cardinality(missed) <= result.skipped
      /\ ~result.error =>
           /\ drawers = Keys({"drawer", "diary"}) /\ closets = Keys({"closet"})
           /\ \A i \in Sent({"kg"}) : ~stream[i].blank /\ stream[i] \notin missed =>
                \E f \in DOMAIN facts : facts[f].key = stream[i].key
           /\ \A i \in Fit : stream[i] \notin missed => stream[i].key \in tunnels
           /\ tunnels \subseteq {stream[i].key : i \in Fit}
=============================================================================
