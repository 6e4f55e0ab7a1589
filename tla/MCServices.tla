------------------------------ MODULE MCServices ------------------------------
(* Services that, in these models, share no state with each other: a       *)
(* behaviour runs one of them, the others stay as they started.  This      *)
(* module is Metering with the others beside it: a workspace, facts, the   *)
(* second factor, documents, the sharing of a wing, and the drawer store   *)
(* serving one request at a time.                                          *)
EXTENDS Metering, Sequences, TLC

CONSTANTS User, Creator, Roles, MaxKeys,
          Fact, Endpoints, Temporal, MaxRows,
          SetSize, MaxSecrets, MaxSets,
          MaxEdits,
          ShareRequest, Actor, PageOf, Pages, FaultKinds, MaxShareFaults,
          NumIds, DrawerEdits, DrawerFaults

PlanIds == {"free", "pro", "unlimited"}
Caps == [p \in PlanIds |->
           CASE p = "free" -> 1 [] p = "pro" -> 2 [] p = "unlimited" -> -1]

(* The first day, of two moments, and the moment after it.                 *)
Moments == {[start |-> 0, end |-> 1], [start |-> 2, end |-> 2]}
EntityIds == [f \in Fact |-> {"subject", "object"}]

(* A wing of two drawers, each on a page of the listing of its own.        *)
OnePerPage == [d \in 1..2 |-> d]

FiledInOrder == [i \in 1..NumIds |-> i]

VARIABLES
    service,
    role, keys, act, cut,
    rows, entities, call, unseen,
    secret, enabled, codes, minted, sets, form, confirmed, spent, raced,
    row, edits, edit, published, overwritten,
    status, indexed, copied, actor, consent, shareFaults,
    drawer, stamped, sot, index, op, worker, drawerEdits, drawerFaults, erased

workspace == <<role, keys, act, cut>>
graph == <<rows, entities, call, unseen>>
account == <<secret, enabled, codes, minted, sets, form, confirmed, spent, raced>>
document == <<row, edits, edit, published, overwritten>>
sharing == <<status, indexed, copied, actor, consent, shareFaults>>
drawers == <<drawer, stamped, sot, index, op, worker, drawerEdits, drawerFaults, erased>>

Workspace == INSTANCE Workspace WITH request <- act
Facts == INSTANCE Facts WITH request <- call
SecondFactor == INSTANCE SecondFactor WITH request <- form
Revisions == INSTANCE Revisions WITH request <- edit, raced <- overwritten
Sharing == INSTANCE ShareHandshake WITH
    Request <- ShareRequest, Drawer <- DOMAIN PageOf,
    MaxFaults <- MaxShareFaults, faults <- shareFaults
Drawers == INSTANCE DrawerStore WITH
    Id <- DOMAIN FiledInOrder, FiledAt <- FiledInOrder, Handler <- {"request"},
    Ops <- {"file", "update", "move", "delete"}, Batch <- 1,
    MaxEdits <- DrawerEdits, MaxFaults <- DrawerFaults,
    row <- drawer, edits <- drawerEdits, faults <- drawerFaults

ASSUME WorkspaceAssumption ==
    Creator \in User /\ {"member", "admin"} \subseteq Roles /\ MaxKeys \in Nat \ {0}
ASSUME FactsAssumption == Facts!Assumptions
ASSUME AccountAssumption == SecondFactor!Assumptions
ASSUME DocumentAssumption == Revisions!Assumptions
ASSUME SharingAssumption == Sharing!Assumptions
ASSUME DrawersAssumption == {NumIds, DrawerEdits, DrawerFaults} \subseteq Nat

MCInit ==
    /\ service \in {"metering", "workspace", "facts", "second factor", "revisions",
                  "sharing", "drawers"}
    /\ Init /\ (service # "metering" => plan = "free")
    /\ Workspace!Init /\ Facts!Init /\ SecondFactor!Init /\ Revisions!Init
    /\ Sharing!Init /\ (service # "sharing" => indexed = {})
    /\ Drawers!Init

MCNext ==
    /\ UNCHANGED service
    /\ \/ /\ service = "metering" /\ Next
          /\ UNCHANGED <<workspace, graph, account, document, sharing, drawers>>
       \/ /\ service = "workspace" /\ Workspace!Next
          /\ UNCHANGED <<vars, graph, account, document, sharing, drawers>>
       \/ /\ service = "facts" /\ Facts!Next
          /\ UNCHANGED <<vars, workspace, account, document, sharing, drawers>>
       \/ /\ service = "second factor" /\ SecondFactor!Next
          /\ UNCHANGED <<vars, workspace, graph, document, sharing, drawers>>
       \/ /\ service = "revisions" /\ Revisions!Next
          /\ UNCHANGED <<vars, workspace, graph, account, sharing, drawers>>
       \/ /\ service = "sharing" /\ Sharing!Next
          /\ UNCHANGED <<vars, workspace, graph, account, document, drawers>>
       \/ /\ service = "drawers" /\ Drawers!Next
          /\ UNCHANGED <<vars, workspace, graph, account, document, sharing>>

MCSpec == MCInit /\ [][MCNext]_<<service, vars, workspace, graph, account, document, sharing, drawers>>

RequestSymmetry == Permutations(Request) \cup Permutations(ShareRequest) \cup Permutations(Actor)

(* Types of the service that runs; a member's keys are rows for ever, a    *)
(* triple has its endpoints named, a code is only confirmed for a pending  *)
(* secret, one share request of a wing is open at a time.                  *)
ServicesTypeOK == CASE service = "metering"      -> TypeOK
                    [] service = "workspace"     -> Workspace!TypeOK
                    [] service = "facts"         -> Facts!TypeOK
                    [] service = "second factor" -> SecondFactor!TypeOK
                    [] service = "revisions"     -> Revisions!TypeOK
                    [] service = "sharing"       -> Sharing!TypeOK
                    [] service = "drawers"       -> Drawers!TypeOK

(* A workspace can always be managed by somebody, its members can connect, *)
(* and keys held at a removal stay dead, whatever admins do to each other   *)
(* side by side (tenant.Repo).                                             *)
WorkspaceHolds == service = "workspace" =>
    Workspace!SomeAdmin /\ Workspace!MembersCanConnect /\ Workspace!RemovalRevokes

(* Facts of the knowledge graph: duplicates are bounded by the calls at a  *)
(* time, windows are upright, and history stands: what was answered for a   *)
(* past day keeps being answered (palace/kg.go).                           *)
FactsStand ==
    /\ [](service = "facts" => Facts!BoundedDuplicates /\ Facts!UprightUnlessUnseen)
    /\ Facts!HistoryStands

(* The second factor: recovery codes work once and are of the newest set,  *)
(* and no code of an unconfirmed secret is demanded (tenant/totp.go).      *)
CodesWork == service = "second factor" =>
    SecondFactor!SpentOnce /\ SecondFactor!CodesAccounted /\ SecondFactor!SeededUnlessRaced

(* Skills and the playbook: a version stands for one text, unless edits of  *)
(* one version raced (skill.Repo.Upsert, skillset.Repo.Set).               *)
VersionTellsTextUnlessRaced == service = "revisions" => Revisions!VersionTellsTextUnlessRaced

(* Sharing: while somebody copies the request is accepted and nobody else  *)
(* copies for it, a decline is final, and an accept that succeeds has      *)
(* copied the whole wing (share.Service).                                  *)
ConsentDecides == /\ [](service = "sharing" => Sharing!CopyOnlyWhileAccepted)
                  /\ Sharing!DeclineIsFinal /\ Sharing!AcceptCopiesWing

(* Drawers, one request at a time: a call that completes repairs whatever  *)
(* failed calls and crashes left behind on its drawer (palace.Service).    *)
CompletionAgrees == Drawers!CompletionAgrees
=============================================================================
