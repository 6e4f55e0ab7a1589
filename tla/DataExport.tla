----------------------------- MODULE DataExport -----------------------------
(* The download of a workspace's data (web/export.go, dataexport): an       *)
(* archive built table by table from the live database while the server     *)
(* goes on, streamed once it is whole, removed whatever happened.           *)
EXTENDS Naturals, Sequences

CONSTANTS
    Team, User,
    Rows,           \* rows the tables may hold: [table, team, user, other]
    Initial,        \* bound: the rows there at first
    Requester,      \* the member who asks, of the team Asked
    Asked,
    MaxChanges,     \* bound: rows inserted or deleted meanwhile
    MaxExports      \* bound

VARIABLES
    live,           \* the database
    changes,
    phase,          \* "idle", "copying", "built", "streaming"
    at,             \* the next table of the manifest
    archive,        \* the rows copied, as they were copied
    file,           \* the temporary directory exists
    sent,           \* the rows of the last download, or "error"
    stood,          \* rows live ever since the export began
    seen,           \* rows live at some time since then
    exports

vars == <<live, changes, phase, at, archive, file, sent, stood, seen, exports>>

(* How each table is partitioned, parents first.                           *)
Manifest == <<
    [table |-> "plans", scope |-> "all"],
    [table |-> "users", scope |-> "user"],
    [table |-> "teams", scope |-> "team"],
    [table |-> "memberships", scope |-> "team user"],
    [table |-> "api_keys", scope |-> "team user"],
    [table |-> "skills", scope |-> "team"],
    [table |-> "usage_counters", scope |-> "team"],
    [table |-> "subscriptions", scope |-> "team"],
    [table |-> "vectors", scope |-> "namespace"],
    [table |-> "drawers", scope |-> "team"],
    [table |-> "closets", scope |-> "team"],
    [table |-> "hallways", scope |-> "team"],
    [table |-> "tunnels", scope |-> "team"],
    [table |-> "kg_entities", scope |-> "team"],
    [table |-> "kg_triples", scope |-> "team"],
    [table |-> "share_requests", scope |-> "share"],
    [table |-> "merge_jobs", scope |-> "team"] >>
Exported == {Manifest[i].table : i \in DOMAIN Manifest}

(* The rows of a table a scope confines to the requester.  A vector is of   *)
(* the team's namespace, or of a namespace below it ("other").             *)
WhereBase(scope, row) ==
    CASE scope = "team" -> row.team = Asked
      [] scope = "user" -> row.user = Requester
      [] scope = "team user" -> row.team = Asked /\ row.user = Requester
      [] scope = "share" -> row.team = Asked \/ row.other = Asked
      [] scope = "namespace" -> row.team = Asked /\ row.other = "base"
      [] scope = "all" -> TRUE
      [] OTHER -> FALSE
Where(scope, row) ==
    CASE scope = "team" -> row.team = Asked
      [] scope = "user" -> row.user = Requester
      [] scope = "team user" -> row.team = Asked /\ row.user = Requester
      [] scope = "share" -> row.team = Asked \/ row.other = Asked
      [] scope = "namespace" -> row.team = Asked
      [] scope = "all" -> TRUE
      [] OTHER -> FALSE

(* The columns that hold a credential, and those a redactor rewrites as the *)
(* row is copied: the secret of a second factor (00017_totp.sql) has none. *)
Credentials(name) ==
    CASE name = "users" -> {"password_hash", "totp_secret"}
      [] name = "api_keys" -> {"token_hash", "token_enc"}
      [] OTHER -> {}
Redactors(name) ==
    CASE name = "users" -> {"password_hash"}
      [] name = "api_keys" -> {"token_hash", "token_enc"}
      [] OTHER -> {}
Redact(row) == [row |-> row, carries |-> Credentials(row.table) \ Redactors(row.table)]

TypeOK ==
    /\ live \subseteq Rows /\ stood \subseteq seen /\ seen \subseteq Rows
    /\ changes \in 0..MaxChanges /\ exports \in 0..MaxExports
    /\ phase \in {"idle", "copying", "built", "streaming"}
    /\ at \in 1..Len(Manifest) + 1
    /\ file = (phase # "idle")
    /\ \A copy \in archive : copy.row \in seen

(* Only a member may ask; the archive begins with the live schema.         *)
BeginExport ==
    /\ phase = "idle" /\ exports < MaxExports
    /\ \E row \in live : row.table = "memberships" /\ row.team = Asked /\ row.user = Requester
    /\ phase' = "copying" /\ at' = 1 /\ archive' = {} /\ file' = TRUE
    /\ stood' = live /\ seen' = live /\ exports' = exports + 1
    /\ UNCHANGED <<live, changes, sent>>

(* One statement reads a table; nothing holds the database between two.    *)
CopyTable ==
    /\ phase = "copying" /\ at <= Len(Manifest)
    /\ archive' = archive \union
           {Redact(row) : row \in {r \in live : /\ r.table = Manifest[at].table
                                                /\ Where(Manifest[at].scope, r)}}
    /\ at' = at + 1
    /\ UNCHANGED <<live, changes, phase, file, sent, stood, seen, exports>>

Commit ==
    /\ phase = "copying" /\ at > Len(Manifest)
    /\ phase' = "built"
    /\ UNCHANGED <<live, changes, at, archive, file, sent, stood, seen, exports>>

(* A failed build leaves nothing and answers with an error.                *)
Fail ==
    /\ phase \in {"copying", "built"}
    /\ phase' = "idle" /\ file' = FALSE /\ archive' = {} /\ sent' = "error"
    /\ at' = 1
    /\ UNCHANGED <<live, changes, stood, seen, exports>>

Stream ==
    /\ phase = "built"
    /\ phase' = "streaming"
    /\ UNCHANGED <<live, changes, at, archive, file, sent, stood, seen, exports>>

(* The client gets all of it, or goes away; the file is removed.           *)
Done(whole) ==
    /\ phase = "streaming"
    /\ phase' = "idle" /\ file' = FALSE /\ at' = 1
    /\ sent' = IF whole THEN archive ELSE "error"
    /\ archive' = {}
    /\ UNCHANGED <<live, changes, stood, seen, exports>>

(* The rest of the server; teams, their members and the plans stay.        *)
Insert(row) ==
    /\ changes < MaxChanges /\ row \notin live
    /\ live' = live \union {row} /\ seen' = seen \union {row}
    /\ changes' = changes + 1
    /\ UNCHANGED <<phase, at, archive, file, sent, stood, exports>>

Delete(row) ==
    /\ changes < MaxChanges /\ row \in live
    /\ row.table \notin {"plans", "users", "teams"}
    /\ live' = live \ {row} /\ stood' = stood \ {row}
    /\ changes' = changes + 1
    /\ UNCHANGED <<phase, at, archive, file, sent, seen, exports>>

Init ==
    /\ live = Initial /\ changes = 0 /\ exports = 0
    /\ phase = "idle" /\ at = 1 /\ archive = {} /\ file = FALSE
    /\ sent = "error" /\ stood = {} /\ seen = {}

Next ==
    \/ BeginExport \/ CopyTable \/ Commit \/ Fail \/ Stream
    \/ \E whole \in BOOLEAN : Done(whole)
    \/ \E row \in Rows : Insert(row) \/ Delete(row)

Spec == Init /\ [][Next]_vars

(* What a row's foreign keys refer to: the plan of a subscription is of the *)
(* catalogue, which is copied whole.                                       *)
ParentsOf(row) ==
    CASE row.table \in {"memberships", "api_keys"} ->
            {[table |-> "users", field |-> "user"], [table |-> "teams", field |-> "team"]}
      [] row.table \in {"skills", "usage_counters", "subscriptions"} ->
            {[table |-> "teams", field |-> "team"]}
      [] OTHER -> {}

(* The archive streamed to a member is whole, and theirs alone: whatever   *)
(* was inserted or deleted while it was built, it holds each row of the     *)
(* workspace and of their own identity that stood all the while, none of    *)
(* another workspace or person (the catalogue aside), and the parent of     *)
(* every row that refers to one.  No password hash and nothing of a key's   *)
(* token leaves with it; the secret of a second factor does, unredacted,    *)
(* and then it is the requester's own.                                     *)
Of(row) == CASE row.table = "plans" -> TRUE
             [] row.table = "users" -> row.user = Requester
             [] row.table \in {"memberships", "api_keys"} ->
                  row.user = Requester /\ row.team = Asked
             [] OTHER -> Asked \in {row.team, row.other}
ArchiveIsTheirs ==
    phase \in {"built", "streaming"} =>
        LET copied == {copy.row : copy \in archive} IN
        /\ \A row \in stood : row.table \in Exported /\ Of(row) => row \in copied
        /\ \A row \in copied : Of(row) /\ row.table \in Exported
        /\ \A copy \in archive : /\ copy.carries \subseteq {"totp_secret"}
                                 /\ copy.carries # {} => copy.row.user = Requester
        /\ \A row \in copied : \A parent \in ParentsOf(row) :
             \E other \in copied : /\ other.table = parent.table
                                   /\ other[parent.field] = row[parent.field]
==============================================================================
