----------------------------- MODULE WingTransfer -----------------------------
(***************************************************************************)
(* A wing is read page by page while it is written to: to be copied into   *)
(* the palace of another team, rows with their vectors, or to be exported  *)
(* as a bundle of records after a manifest that counts them.  Pages are of *)
(* a listing by offset, newest first.                                      *)
(***************************************************************************)
EXTENDS Integers, FiniteSets, Sequences, SequencesExt, FiniteSetsExt

CONSTANTS
    Drawer,          \* drawers of the wing, now or later
    ContentOf,       \* what a drawer says: twins are two entries of one text
    FiledAt,         \* when a drawer was filed, a number
    Closet,
    PageSize, Batch, \* pageSize or copyBatch
    MaxChanges       \* bound on the changes others make meanwhile

VARIABLES
    way,             \* "copy" or "export"
    rows, vectors,   \* drawers of the wing, and those embedded
    closets, closetVectors,
    stage, offset, next,
    listed,          \* closets as they were listed
    manifest,        \* the number promised
    out,             \* drawers carried, in order
    dest,            \* what the other team has by then
    skipped, changes,
    gone, new        \* drawers deleted, and added, meanwhile: histories

vars == <<way, rows, vectors, closets, closetVectors, stage, offset, next, listed,
          manifest, out, dest, skipped, changes, gone, new>>
wing == <<rows, vectors, closets, closetVectors, changes, gone, new>>

Init ==
    /\ way \in {"copy", "export"}
    /\ rows \in SUBSET Drawer /\ rows # {} /\ vectors \in SUBSET rows
    /\ closets \in SUBSET Closet /\ closetVectors \in SUBSET closets
    /\ stage = "begin" /\ offset = 0 /\ next = 1 /\ listed = <<>> /\ manifest = 0
    /\ out = <<>> /\ dest = [drawers |-> {}, closets |-> {}, graph |-> {}]
    /\ skipped = 0 /\ changes = 0 /\ gone = {} /\ new = {}

(* countDrawers, then the closets and tunnels, before the manifest; a wing *)
(* without drawers is unknown.                                             *)
Promise ==
    /\ way = "export" /\ stage = "begin"
    /\ IF rows = {} THEN stage' = "failed" /\ UNCHANGED <<listed, manifest>>
       ELSE /\ stage' = "paging"
            /\ listed' = SetToSeq(closets)
            /\ manifest' = Cardinality(rows) + Cardinality(closets)
    /\ UNCHANGED <<way, wing, offset, next, out, dest, skipped>>

BeginCopy ==
    /\ way = "copy" /\ stage = "begin" /\ stage' = "paging"
    /\ UNCHANGED <<way, wing, offset, next, listed, manifest, out, dest, skipped>>

ListByTimeOnly == {s \in SetToSeqs(rows) :
                     \A i, j \in DOMAIN s : i < j => FiledAt[s[i]] >= FiledAt[s[j]]}

(* filed_at descending, then the id: an order that is total.               *)
Newer(a, b) == FiledAt[a] > FiledAt[b] \/ (FiledAt[a] = FiledAt[b] /\ a < b)
List == {s \in SetToSeqs(rows) : \A i, j \in DOMAIN s : i < j => Newer(s[i], s[j])}

(* What of a sequence is among some values: SelectSeq, as a function.      *)
Kept(s, those) ==
    LET kept[n \in 0..Len(s)] ==
            IF n = 0 THEN <<>>
            ELSE IF s[n] \in those THEN Append(kept[n - 1], s[n]) ELSE kept[n - 1]
    IN  kept[Len(s)]

Page(all) == SubSeq(all, offset + 1, Min({offset + PageSize, Len(all)}))

(* A page is exported as it is; of a copy, rows whose vectors are not      *)
(* there yet are skipped, the others filed under the ids the other team    *)
(* would give them.                                                        *)
NextPage ==
    /\ stage = "paging"
    /\ \E all \in List :
       LET page == Page(all)
           carried == Kept(page, IF way = "export" THEN Drawer ELSE vectors) IN
       /\ out' = out \o carried
       /\ dest' = IF way = "copy"
                  THEN [dest EXCEPT !.drawers = @ \cup {ContentOf[d] : d \in ToSet(carried)}] ELSE dest
       /\ skipped' = skipped + Len(page) - Len(carried)
       /\ IF Len(page) < PageSize
          THEN stage' = "paged" /\ UNCHANGED offset
          ELSE offset' = offset + PageSize /\ UNCHANGED stage
    /\ UNCHANGED <<way, wing, next, listed, manifest>>

(* The closets of a copy are listed when its drawers are there.            *)
ListClosets ==
    /\ stage = "paged"
    /\ listed' = IF way = "copy" THEN SetToSeq(closets) ELSE listed
    /\ stage' = "closets"
    /\ UNCHANGED <<way, wing, offset, next, manifest, out, dest, skipped>>

CopyClosets ==
    /\ stage = "closets" /\ next <= Len(listed)
    /\ LET batch == ToSet(SubSeq(listed, next, Min({next + Batch - 1, Len(listed)})))
           carried == IF way = "copy" THEN batch \cap closetVectors ELSE batch IN
       /\ dest' = IF way = "copy" THEN [dest EXCEPT !.closets = @ \cup carried] ELSE dest
       /\ skipped' = skipped + Cardinality(batch \ carried)
    /\ next' = next + Batch
    /\ UNCHANGED <<way, wing, stage, offset, listed, manifest, out>>

(* The graph of the other team is computed anew.                           *)
Done ==
    /\ stage = "closets" /\ next > Len(listed)
    /\ stage' = "done"
    /\ dest' = IF way = "copy" THEN [dest EXCEPT !.graph = dest.drawers] ELSE dest
    /\ UNCHANGED <<way, wing, offset, next, listed, manifest, out, skipped>>

Fail ==
    /\ stage \in {"paging", "closets"} /\ stage' = "failed"
    /\ UNCHANGED <<way, wing, offset, next, listed, manifest, out, dest, skipped>>

(* What others do to the wing between two queries.                         *)
Change ==
    /\ stage \in {"paging", "paged"} /\ changes < MaxChanges /\ changes' = changes + 1
    /\ \/ \E d \in Drawer \ (rows \cup gone) :
            rows' = rows \cup {d} /\ new' = new \cup {d} /\ UNCHANGED <<vectors, gone>>
       \/ \E d \in rows : /\ rows' = rows \ {d} /\ vectors' = vectors \ {d}
                          /\ gone' = gone \cup {d} /\ UNCHANGED new
       \/ \E d \in rows \ vectors : vectors' = vectors \cup {d} /\ UNCHANGED <<rows, gone, new>>
    /\ UNCHANGED <<way, closets, closetVectors, stage, offset, next, listed, manifest,
                   out, dest, skipped>>

Next == Promise \/ BeginCopy \/ NextPage \/ ListClosets \/ CopyClosets \/ Done \/ Fail \/ Change

Spec == Init /\ [][Next]_vars

-----------------------------------------------------------------------------
TypeOK ==
    /\ stage \in {"begin", "paging", "paged", "closets", "done", "failed"}
    /\ vectors \subseteq rows /\ rows \subseteq Drawer /\ closetVectors \subseteq closets
    /\ ToSet(out) \subseteq Drawer /\ dest.closets \subseteq ToSet(listed)

(* Unless something of the wing was deleted meanwhile, no drawer that was  *)
(* there throughout is missed: pages repeat, they do not skip.  In a wing  *)
(* nobody wrote to each comes once, and there are as many records as the   *)
(* manifest promised.  A copy that skipped nothing has what every drawer   *)
(* says, and a graph of all of it (repo.go:309-310, wingbundle.go:98-99,   *)
(* copywing.go:40-43).                                                     *)
TransferIsWhole ==
    stage = "done" =>
      /\ gone = {} => \A d \in rows \ new :
            d \in ToSet(out) \/ (way = "copy" /\ (d \notin vectors \/ skipped > 0))
      /\ changes = 0 /\ way = "export" =>
            IsInjective(out) /\ manifest = Len(out) + Len(listed)
      /\ way = "copy" /\ gone = {} /\ skipped = 0 =>
            /\ {ContentOf[d] : d \in rows \ new} \subseteq dest.drawers
            /\ dest.closets = ToSet(listed) /\ dest.graph = dest.drawers
=============================================================================
