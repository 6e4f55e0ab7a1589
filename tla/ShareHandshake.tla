---------------------------- MODULE ShareHandshake ----------------------------
(***************************************************************************)
(* Sharing a wing with another workspace from the dashboard: a writer of   *)
(* the source files a request, an admin of the destination accepts or      *)
(* declines it, and only an accept copies (share.Service, palace.CopyWing).*)
(* One (source, destination, wing) triple is modelled; triples share       *)
(* nothing.  Every repo call is a step of its own, no transaction spans    *)
(* them; an actor is one HTTP request being served.                        *)
(*                                                                         *)
(* Role and slug checks reject a call before it changes anything, so       *)
(* actors here have passed them.                                           *)
(***************************************************************************)
EXTENDS Integers, FiniteSets

CONSTANTS
    Request,    \* ids of share requests, used at most once each
    Actor,      \* HTTP requests being served at a time
    Drawer,     \* drawers of the wing in the source workspace
    PageOf,     \* PageOf[d]: the page of the listing d is on
    Pages,      \* pages of the listing (copyBatch drawers each)
    FaultKinds, \* what may go wrong: "copy", "reopen", "disconnect", "crash"
    MaxFaults   \* bound: how often

(* What is assumed of the constants; MC modules assume it of theirs.       *)
Assumptions == /\ Pages \in Nat \ {0} /\ PageOf \in [Drawer -> 1..Pages]
               /\ FaultKinds \subseteq {"copy", "reopen", "disconnect", "crash"}
               /\ MaxFaults \in Nat

VARIABLES
    status,     \* status[r] of the share_requests row
    indexed,    \* source drawers whose vector has been built
    copied,     \* drawers of the wing present in the destination
    actor,      \* actor[a]: the call a is serving
    consent,    \* history: requests an admin has ever accepted
    faults      \* failures so far

vars == <<status, indexed, copied, actor, consent, faults>>

Idle == [step |-> "idle"]
Serving == [step : {"create", "claim", "copy", "graph", "reopen"}, req : Request,
            verdict : {"accepted", "declined"}, page : 1..Pages,
            due : SUBSET Drawer]

Pending == {r \in Request : status[r] = "pending"}
At(a, step) == actor[a] # Idle /\ actor[a].step = step

(* Types; ux_share_requests_pending allows one open request per triple.    *)
TypeOK ==
    /\ status \in [Request -> {"none", "pending", "accepted", "declined"}]
    /\ indexed \subseteq Drawer /\ copied \subseteq Drawer
    /\ actor \in [Actor -> {Idle} \cup Serving]
    /\ consent \subseteq Request
    /\ faults \in 0..MaxFaults
    /\ Cardinality(Pending) <= 1

Init ==
    /\ status = [r \in Request |-> "none"]
    /\ indexed \in SUBSET Drawer /\ copied = {}
    /\ actor = [a \in Actor |-> Idle]
    /\ consent = {} /\ faults = 0

-----------------------------------------------------------------------------
Serve(a, step, r, verdict) ==
    actor' = [actor EXCEPT ![a] = [step |-> step, req |-> r,
                 verdict |-> verdict, page |-> 1, due |-> indexed]]
Return(a) == actor' = [actor EXCEPT ![a] = Idle]

(* The source's embed worker catches up.                                   *)
Index(d) ==
    /\ d \notin indexed
    /\ indexed' = indexed \cup {d}
    /\ UNCHANGED <<status, copied, actor, consent, faults>>

(* Service.Request: an open request for the triple is reused ...           *)
BeginRequest(a, r) ==
    /\ actor[a] = Idle
    /\ status[r] = "none" /\ \A b \in Actor : At(b, "create") => actor[b].req # r
    /\ Pending = {}
    /\ Serve(a, "create", r, "accepted")
    /\ UNCHANGED <<status, indexed, copied, consent, faults>>

CreateUnindexed(a) ==
    /\ At(a, "create")
    /\ status' = [status EXCEPT ![actor[a].req] = "pending"]
    /\ Return(a)
    /\ UNCHANGED <<indexed, copied, consent, faults>>

(* ... and one that was filed since then makes the insert fail on the      *)
(* partial unique index, which is answered the same way.                   *)
Create(a) ==
    /\ At(a, "create")
    /\ status' = IF Pending = {} THEN [status EXCEPT ![actor[a].req] = "pending"]
                                 ELSE status
    /\ Return(a)
    /\ UNCHANGED <<indexed, copied, consent, faults>>

(* Accept and Decline load the row, whatever its status.                   *)
BeginResolve(a, r, verdict) ==
    /\ actor[a] = Idle
    /\ status[r] # "none"
    /\ Serve(a, "claim", r, verdict)
    /\ UNCHANGED <<status, indexed, copied, consent, faults>>

ClaimUnguarded(a) ==
    /\ At(a, "claim")
    /\ LET r == actor[a].req  verdict == actor[a].verdict IN
       /\ status' = [status EXCEPT ![r] = verdict]
       /\ consent' = IF verdict = "accepted" THEN consent \cup {r} ELSE consent
       /\ IF verdict = "accepted" THEN Serve(a, "copy", r, verdict)
                                  ELSE Return(a)
    /\ UNCHANGED <<indexed, copied, faults>>

(* Repo.Claim: update where still pending; no row is ErrNotPending.  due   *)
(* remembers what the source held then.                                    *)
Claim(a) ==
    /\ At(a, "claim")
    /\ LET r == actor[a].req  verdict == actor[a].verdict  won == r \in Pending IN
       /\ status' = IF won THEN [status EXCEPT ![r] = verdict] ELSE status
       /\ consent' = IF won /\ verdict = "accepted" THEN consent \cup {r} ELSE consent
       /\ IF won /\ verdict = "accepted" THEN Serve(a, "copy", r, verdict)
                                         ELSE Return(a)
    /\ UNCHANGED <<indexed, copied, faults>>

Page(a) == {d \in Drawer : PageOf[d] = actor[a].page}

NextPage(a) == actor' = IF actor[a].page = Pages
                        THEN [actor EXCEPT ![a].step = "graph"]
                        ELSE [actor EXCEPT ![a].page = @ + 1]

CopyFullPagesOnly(a) ==
    /\ At(a, "copy")
    /\ copied' = IF actor[a].page = Pages THEN copied
                 ELSE copied \cup (Page(a) \cap indexed)
    /\ NextPage(a)
    /\ UNCHANGED <<status, indexed, consent, faults>>

(* CopyWing, page by page; a drawer without a vector is skipped.           *)
CopyPage(a) ==
    /\ At(a, "copy")
    /\ copied' = copied \cup (Page(a) \cap indexed)
    /\ NextPage(a)
    /\ UNCHANGED <<status, indexed, consent, faults>>

(* The destination's graph is rebuilt last; the accept returns.            *)
RebuildGraph(a) ==
    /\ At(a, "graph")
    /\ Return(a)
    /\ UNCHANGED <<status, indexed, copied, consent, faults>>

Fault(kind) ==
    /\ kind \in FaultKinds
    /\ faults < MaxFaults /\ faults' = faults + 1

CopyFails(a) ==
    /\ At(a, "copy") \/ At(a, "graph")
    /\ Fault("copy")
    /\ actor' = [actor EXCEPT ![a].step = "reopen"]
    /\ UNCHANGED <<status, indexed, copied, consent>>

(* Repo.Reopen is not guarded by the status; the partial unique index      *)
(* rejects it while another request of the triple is open, and the error   *)
(* is dropped.                                                             *)
Reopen(a) ==
    /\ At(a, "reopen")
    /\ status' = IF Pending \subseteq {actor[a].req}
                 THEN [status EXCEPT ![actor[a].req] = "pending"] ELSE status
    /\ Return(a)
    /\ UNCHANGED <<indexed, copied, consent, faults>>

ReopenFails(a) ==
    /\ At(a, "reopen")
    /\ Fault("reopen")
    /\ Return(a)
    /\ UNCHANGED <<status, indexed, copied, consent>>

(* The admin's browser goes away: the request context is cancelled for the *)
(* copy and for the Reopen that would undo the claim.                      *)
Disconnect(a) ==
    /\ At(a, "copy") \/ At(a, "graph") \/ At(a, "reopen")
    /\ Fault("disconnect")
    /\ Return(a)
    /\ UNCHANGED <<status, indexed, copied, consent>>

Crash ==
    /\ Fault("crash")
    /\ actor' = [a \in Actor |-> Idle]
    /\ UNCHANGED <<status, indexed, copied, consent>>

Step(a) == Create(a) \/ Claim(a) \/ CopyPage(a) \/ RebuildGraph(a) \/ Reopen(a)

Next ==
    \/ \E a \in Actor, r \in Request :
          \/ BeginRequest(a, r)
          \/ \E verdict \in {"accepted", "declined"} : BeginResolve(a, r, verdict)
    \/ \E a \in Actor : Step(a) \/ CopyFails(a) \/ ReopenFails(a) \/ Disconnect(a)
    \/ \E d \in Drawer : Index(d)
    \/ Crash

Spec == Init /\ [][Next]_vars

-----------------------------------------------------------------------------
Resolving(a, r) ==
    (At(a, "copy") \/ At(a, "graph") \/ At(a, "reopen")) /\ actor[a].req = r

(* Accept and decline exclude each other (repo.go:87-94): while one admin  *)
(* copies, the request is accepted and nobody else copies for it, and a    *)
(* declined request stays declined, whoever still answers it.              *)
CopyOnlyWhileAccepted ==
    \A a \in Actor, r \in Request : Resolving(a, r) =>
        status[r] = "accepted" /\ \A b \in Actor : Resolving(b, r) => b = a

DeclineIsFinal ==
    [][\A r \in Request : status[r] = "declined" => status'[r] = "declined"]_vars

(* Nothing of a wing reaches the destination before one of its admins has  *)
(* accepted; and an accept that returns without an error has brought over  *)
(* all that was searchable in the source when it claimed the request,      *)
(* page by page, whatever other accepts of the wing did or left undone.    *)
AcceptCopiesWing ==
    [][/\ copied' # copied => consent # {}
       /\ \A a \in Actor : RebuildGraph(a) => actor[a].due \subseteq copied]_vars

(* repo.go:110-112 "a transient copy error leaves the request retryable    *)
(* rather than stuck as accepted-but-empty".                               *)
NotAcceptedButEmpty ==
    (\A a \in Actor : actor[a] = Idle) /\ indexed = Drawer =>
        \A r \in Request : status[r] = "accepted" => copied # {}
=============================================================================
