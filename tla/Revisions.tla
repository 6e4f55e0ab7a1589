------------------------------ MODULE Revisions ------------------------------
(***************************************************************************)
(* A named skill of a team, or the one playbook of the platform: a single  *)
(* row with a text and a version (skill.Repo.Upsert, skillset.Repo.Set).   *)
(* An edit reads the row and writes it back in a later statement.          *)
(***************************************************************************)
EXTENDS Integers

CONSTANTS
    Request,    \* edits served at a time
    MaxEdits    \* bound: texts submitted

(* What is assumed of the constants; MC modules assume it of theirs.       *)
Assumptions == MaxEdits \in Nat

VARIABLES
    row,        \* the row, NoRow before the first edit
    edits,      \* texts submitted so far; the n-th text is n
    request,    \* request[r]: the version r has read and its text
    published,  \* history: what the row has been, for agents to load
    raced       \* history: an edit overwrote one it had not read

vars == <<row, edits, request, published, raced>>

NoRow == [version |-> 0, text |-> 0]
Row == [version : 1..MaxEdits, text : 1..MaxEdits]
Idle == [read |-> -1, text |-> 0]
Editing == [read : 0..MaxEdits, text : 1..MaxEdits]

TypeOK ==
    /\ row \in {NoRow} \cup Row
    /\ edits \in 0..MaxEdits
    /\ request \in [Request -> {Idle} \cup Editing]
    /\ published \subseteq Row /\ (row # NoRow <=> row \in published)
    /\ raced \in BOOLEAN

Init ==
    /\ row = NoRow
    /\ edits = 0
    /\ request = [r \in Request |-> Idle]
    /\ published = {}
    /\ raced = FALSE

-----------------------------------------------------------------------------
(* GetByName (Get): what the edit starts from, perhaps nothing.            *)
BeginEdit(r) ==
    /\ request[r] = Idle
    /\ edits < MaxEdits /\ edits' = edits + 1
    /\ request' = [request EXCEPT ![r] = [read |-> row.version, text |-> edits + 1]]
    /\ UNCHANGED <<row, published, raced>>

Done(r) == request' = [request EXCEPT ![r] = Idle]
Publish(r, version) ==
    /\ row' = [version |-> version, text |-> request[r].text]
    /\ published' = published \cup {row'}

(* Create: the unique name (primary key) keeps a second row out.           *)
Create(r) ==
    /\ request[r] # Idle /\ request[r].read = 0 /\ Done(r)
    /\ IF row = NoRow THEN Publish(r, 1) ELSE UNCHANGED <<row, published>>
    /\ UNCHANGED <<edits, raced>>

SaveAsRead(r) ==
    /\ request[r] # Idle /\ request[r].read > 0 /\ Done(r)
    /\ Publish(r, request[r].read)
    /\ raced' = (raced \/ row.version # request[r].read)
    /\ UNCHANGED edits

(* Save: every column of the row as read, one version on.                  *)
Save(r) ==
    /\ request[r] # Idle /\ request[r].read > 0 /\ Done(r)
    /\ Publish(r, request[r].read + 1)
    /\ raced' = (raced \/ row.version # request[r].read)
    /\ UNCHANGED edits

(* The write fails.                                                        *)
Fail(r) == request[r] # Idle /\ Done(r) /\ UNCHANGED <<row, edits, published, raced>>

Next == \E r \in Request : BeginEdit(r) \/ Create(r) \/ Save(r) \/ Fail(r)

Spec == Init /\ [][Next]_vars

-----------------------------------------------------------------------------
(* A version stands for one text: an agent that holds a text and its       *)
(* version can tell whether it is stale (skillset.go:53-55, "version is    *)
(* bumped on every edit so ... a stale cache can be detected").            *)
VersionTellsText ==
    \A p, q \in published : p.version = q.version => p.text = q.text

(* The same, as long as no edit overwrites one it has not read.            *)
VersionTellsTextUnlessRaced == ~ raced => VersionTellsText
=============================================================================
