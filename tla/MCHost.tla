--------------------------------- MODULE MCHost ---------------------------------
(* What surrounds the palace: server processes (extended here) and the     *)
(* tools they offer, the ways memories leave and enter (the archive of a   *)
(* workspace, a wing copied or exported, an import), and on the users'     *)
(* machines the stdio proxy, the installer, the launcher and the           *)
(* self-update.  In these models the parts share no state: a behaviour     *)
(* runs one of them, the others stay as they started.                      *)
EXTENDS Server, Integers, Sequences, TLC

CONSTANTS Parts,            \* which of them the behaviours run
          Cap, MaxToolCalls,
          Workspaces, People,
          Requester, Asked, \* who exports, and which workspace
          MaxRowChanges,
          Messages, MaxEvents,
          Asks,             \* the installs tried
          EditedFiles,      \* the files of a sandbox the user edits
          Unreadable,       \* those --copy may fail to read
          Earlier, MaxRuns, MaxEdits,
          Terminal, MaxCommands, MaxChanges,
          Updater, Tag, MaxUpdates,
          PageRows, ClosetBatch,
          ImportBatch, TunnelsHeld, ImportsPaid, MaxImports,
          Absent, Damaged, Link

(* Rows of the workspaces and of people who are members of them, in the    *)
(* exported tables that differ in how a row belongs to a workspace.        *)
Row(table, team, user, other) == [table |-> table, team |-> team, user |-> user, other |-> other]
MemberRows(kind) == {Row(kind, p[1], p[2], "") : p \in Workspaces \X People}
AccountRows ==
    {Row("plans", "", "", "")} \cup {Row("users", "", u, "") : u \in People}
    \cup {Row("teams", m, "", "") : m \in Workspaces}
    \cup MemberRows("memberships") \cup MemberRows("api_keys")
SharedRows == {Row("share_requests", p[1], "", p[2]) : p \in Workspaces \X Workspaces}
VectorRows == {Row("vectors", m, "", "base") : m \in Workspaces}
                  \cup {Row("vectors", m, "", "closets") : m \in Workspaces}

FirstRows == AccountRows \cup VectorRows
AllRows == FirstRows \cup SharedRows

(* Commands of an agent's user: installs with and without sharing, into a  *)
(* sandbox and globally, with a token, a local server or a socket; and a   *)
(* refresh of all agents.                                                  *)
Install == [verb |-> "install", agent |-> "both", into |-> "sandbox", copy |-> FALSE,
            share |-> FALSE, token |-> "t", local |-> FALSE, socket |-> FALSE,
            recommended |-> FALSE, release |-> "v2"]
Commands ==
    [copy    |-> [Install EXCEPT !.agent = "claude", !.copy = TRUE],
     global  |-> [Install EXCEPT !.agent = "codex", !.into = "global", !.token = Absent, !.recommended = TRUE],
     socket  |-> [Install EXCEPT !.agent = "claude", !.share = TRUE, !.local = TRUE, !.socket = TRUE, !.token = Absent],
     all     |-> [Install EXCEPT !.agent = "all"],
     refresh |-> [Install EXCEPT !.verb = "refresh", !.agent = "all"],
     shared  |-> [Install EXCEPT !.share = TRUE]]
Installs == {Commands[c] : c \in Asks}

Kits == {"claude", "codex", "pi"}
EditedByHand == {"sandbox"}

(* A project below the home directory; a recording with blanks, an empty   *)
(* argument and a backslash; and one load that overrides what is recorded. *)
HomeIsRoot == [d \in {"home", "repo"} |-> "home"]
NoOverride == [flag |-> Absent, env |-> Absent, agent |-> Absent, extra |-> <<>>]
OverridesTried == {NoOverride, [flag |-> "b2", env |-> "b1", agent |-> "pi", extra |-> << <<"a">> >>]}
RecordingsTried == {[agent |-> Absent, args |-> <<>>],
                    [agent |-> "codex", args |-> << <<"a", " ", "q">>, <<>>, <<"\\">> >>]}
Folders == DOMAIN HomeIsRoot
Boxes == {"b1", "b2"}
StoredTokens == {[a \in Kits |-> IF a = "codex" THEN "t1" ELSE Absent]}
NewTokens == {"t2"}
ToolsOffered == {[listed |-> TRUE, prefixed |-> FALSE, writes |-> FALSE],
                 [listed |-> FALSE, prefixed |-> FALSE, writes |-> TRUE]}

(* Four drawers in order of their ids, two of one text and two of one time. *)
TextOf == <<"x", "x", "y", "z">>
FiledWhen == <<2, 1, 1, 2>>
DrawerIds == DOMAIN TextOf

(* Streams to import: with all kinds of records, with a repeated drawer, a *)
(* blank one, facts current and ended, and tunnels whose rooms come to be  *)
(* in the stream, or never.                                                *)
Rec(kind, key) == [kind |-> kind, key |-> key, blank |-> FALSE, rooms |-> {},
                   ended |-> FALSE, total |-> 0]
Said(room, n) == Rec("drawer", <<room, n>>)
Tunnel(n, rooms) == [Rec("tunnel", <<n>>) EXCEPT !.rooms = rooms]
Ended(n) == [Rec("kg", <<n>>) EXCEPT !.ended = TRUE]
Blank(record) == [record EXCEPT !.blank = TRUE]
StreamsSent ==
    {<<[Rec("manifest", <<>>) EXCEPT !.total = 7], Said("r", 1), Rec("diary", <<"diary", 1>>),
       Said("s", 1), Rec("closet", <<1>>), Rec("closet", <<2>>),
       Tunnel(1, {"r", "s"}), Tunnel(2, {"r", "q"})>>,
     <<Said("r", 1), Blank(Said("r", 2)), Said("r", 1), Rec("other", <<>>),
       Rec("kg", <<1>>), Rec("kg", <<1>>), Tunnel(1, {"r"})>>,
     <<Ended(1), Rec("kg", <<1>>), Blank(Rec("kg", <<2>>)), Said("r", 1), Ended(3)>>}

VARIABLES
    part,
    call, stage, used, answers, calls, args, written,
    live, rowChanges, phase, table, archive, file, sent, stood, seen, exports,
    stdin, message, reading, events, eventsSeen, stdout, silent,
    files, run, todo, copying, writing, backups, clean, alone, mine, torn, overtaken, settled,
    runs, edits,
    registry, project, boxes, tokens, shell, last, commands, changes, pinned, recorded, raced,
    target, staged, step, wanted, latest, updates, stray,
    way, wing, vectors, closets, closetVectors, carrying, offset, next, listed, manifest,
    out, dest, skipped, wingChanges, gone, new,
    stream, recompute, reads, pos, pendingDrawers, pendingClosets, pendingTunnels, counts,
    drawers, stored, facts, tunnels, graph, missed, imports, metered

calling == <<call, stage, used, answers, calls, args, written>>
exporting == <<live, rowChanges, phase, table, archive, file, sent, stood, seen, exports>>
proxying == <<stdin, message, reading, events, eventsSeen, stdout, silent>>
installing == <<files, run, todo, copying, writing, backups, clean, alone, mine, torn, overtaken,
                settled, runs, edits>>
launching == <<registry, project, boxes, tokens, shell, last, commands, changes, pinned, recorded, raced>>
updating == <<target, staged, step, wanted, latest, updates, stray>>
transferring == <<way, wing, vectors, closets, closetVectors, carrying, offset, next, listed,
                  manifest, out, dest, skipped, wingChanges, gone, new>>
importing == <<stream, recompute, reads, pos, pendingDrawers, pendingClosets, pendingTunnels,
               counts, drawers, stored, facts, tunnels, graph, missed, imports, metered>>

hostVars == <<part, vars, calling, exporting, proxying, installing,
              launching, updating, transferring, importing>>

Tools == INSTANCE Tools WITH MaxCalls <- MaxToolCalls, touched <- written
Export == INSTANCE DataExport WITH
    Team <- Workspaces, User <- People, Rows <- AllRows, Initial <- FirstRows,
    MaxChanges <- MaxRowChanges, MaxExports <- 1, changes <- rowChanges, at <- table
Proxy == INSTANCE StdioProxy WITH
    Kinds <- {"request", "notification", "garbage"},
    at <- message, step <- reading, seen <- eventsSeen
Installer == INSTANCE Installer WITH
    Kit <- Kits, Requests <- Installs, Edited <- EditedByHand,
    None <- Absent
Launcher == INSTANCE Launcher WITH
    Shell <- Terminal, Folder <- Folders, Parent <- HomeIsRoot, Box <- Boxes,
    Recordings <- RecordingsTried, Overrides <- OverridesTried,
    Stored <- StoredTokens, Token <- NewTokens, Tool <- ToolsOffered, None <- Absent
Update == INSTANCE SelfUpdate WITH None <- Absent
Transfer == INSTANCE WingTransfer WITH
    Drawer <- DrawerIds, ContentOf <- TextOf, FiledAt <- FiledWhen, Closet <- {11},
    PageSize <- PageRows, Batch <- ClosetBatch, rows <- wing, stage <- carrying, changes <- wingChanges
Import == INSTANCE Import WITH
    Streams <- StreamsSent, BatchSize <- ImportBatch, MaxPendingTunnels <- TunnelsHeld,
    Cap <- ImportsPaid, MaxRuns <- MaxImports, stage <- reads, result <- counts, closets <- stored,
    runs <- imports, used <- metered

HostBounded ==
    /\ Parts \subseteq {"server", "tools", "export", "proxy", "installer", "launcher",
                        "update", "transfer", "import"}
    /\ Asks \subseteq DOMAIN Commands
    /\ PageRows \in Nat \ {0} /\ ClosetBatch \in Nat \ {0}
    /\ ImportBatch \in Nat \ {0} /\ TunnelsHeld \in Nat \ {0}
    /\ {Cap, MaxBoots, MaxToolCalls, MaxRowChanges, Messages, MaxEvents, MaxRuns, MaxEdits,
        MaxCommands, MaxChanges, MaxUpdates, ImportsPaid, MaxImports} \subseteq Nat
ASSUME HostAssumption == HostBounded

(* Strings that mark what a row does not have are no names.                *)
NamesApart ==
    /\ Requester \in People /\ Asked \in Workspaces
    /\ {"", "base", "closets"} \cap (Workspaces \cup People) = {}
ASSUME NamesAssumption == NamesApart

(* The marks for a file that is not there, damaged or a link, and for no   *)
(* command, are nothing a file holds.                                      *)
Written == {"words", "begin", "end", "import", "v1", "v2", "login", "registered"}
             \cup Installer!Dir \cup Nat
             \cup (({"user"} \cup Installer!Dir) \X {"hook", "script", "hooks/script"})
MarksApart ==
    /\ Absent # Damaged /\ Absent # Link /\ Damaged # Link
    /\ \A m \in {Absent, Damaged, Link} : m \notin Written /\ m \notin Seq(Written)
    /\ Absent \notin Installs
    /\ Absent \notin [dir : Installer!Dir, file : Installer!Theirs, seen : Seq(Written) \cup {Absent},
                      content : Seq(Written), stage : {"read", "saved", "open"}, edited : BOOLEAN]
ASSUME MarksAssumption == MarksApart

(* A part that does not run has nothing to remember.                       *)
Rest == "at rest"
MCInit ==
    /\ part \in Parts
    /\ IF part = "server" THEN Init
       ELSE /\ proc = Rest /\ inode = Rest /\ held = Rest /\ data = Rest
            /\ socket = Rest /\ port = Rest /\ boots = Rest /\ crossed = Rest
    /\ IF part = "tools" THEN Tools!Init
       ELSE /\ call = Rest /\ stage = Rest /\ used = Rest /\ answers = Rest
            /\ calls = Rest /\ args = Rest /\ written = Rest
    /\ IF part = "export" THEN Export!Init
       ELSE /\ live = Rest /\ rowChanges = Rest /\ phase = Rest /\ table = Rest
            /\ archive = Rest /\ file = Rest /\ sent = Rest /\ stood = Rest
            /\ seen = Rest /\ exports = Rest
    /\ IF part = "proxy" THEN Proxy!Init
       ELSE /\ stdin = Rest /\ message = Rest /\ reading = Rest /\ events = Rest
            /\ eventsSeen = Rest /\ stdout = Rest /\ silent = Rest
    /\ IF part = "installer" THEN Installer!Init
       ELSE /\ files = Rest /\ run = Rest /\ todo = Rest /\ copying = Rest
            /\ writing = Rest /\ backups = Rest /\ clean = Rest /\ alone = Rest
            /\ mine = Rest /\ torn = Rest /\ overtaken = Rest /\ settled = Rest
            /\ runs = Rest /\ edits = Rest
    /\ IF part = "update" THEN Update!Init
       ELSE /\ target = Rest /\ staged = Rest /\ step = Rest /\ wanted = Rest
            /\ latest = Rest /\ updates = Rest /\ stray = Rest
    /\ IF part = "transfer" THEN Transfer!Init
       ELSE /\ way = Rest /\ wing = Rest /\ vectors = Rest /\ closets = Rest
            /\ closetVectors = Rest /\ carrying = Rest /\ offset = Rest /\ next = Rest
            /\ listed = Rest /\ manifest = Rest /\ out = Rest /\ dest = Rest
            /\ skipped = Rest /\ wingChanges = Rest /\ gone = Rest /\ new = Rest
    /\ IF part = "import" THEN Import!Init
       ELSE /\ stream = Rest /\ recompute = Rest /\ reads = Rest /\ pos = Rest
            /\ pendingDrawers = Rest /\ pendingClosets = Rest /\ pendingTunnels = Rest
            /\ counts = Rest /\ drawers = Rest /\ stored = Rest /\ facts = Rest
            /\ tunnels = Rest /\ graph = Rest /\ missed = Rest
            /\ imports = Rest /\ metered = Rest
    /\ Launcher!Init

MCNext ==
    /\ UNCHANGED part
    /\ \/ /\ part = "server" /\ Next
          /\ UNCHANGED <<calling, exporting, proxying, installing, launching,
                         updating, transferring, importing>>
       \/ /\ part = "tools" /\ Tools!Next
          /\ UNCHANGED <<vars, exporting, proxying, installing, launching,
                         updating, transferring, importing>>
       \/ /\ part = "export" /\ Export!Next
          /\ UNCHANGED <<vars, calling, proxying, installing, launching,
                         updating, transferring, importing>>
       \/ /\ part = "proxy" /\ Proxy!Next
          /\ UNCHANGED <<vars, calling, exporting, installing, launching,
                         updating, transferring, importing>>
       \/ /\ part = "installer" /\ Installer!Next
          /\ UNCHANGED <<vars, calling, exporting, proxying, launching,
                         updating, transferring, importing>>
       \/ /\ part = "launcher" /\ Launcher!Next
          /\ UNCHANGED <<vars, calling, exporting, proxying, installing,
                         updating, transferring, importing>>
       \/ /\ part = "update" /\ Update!Next
          /\ UNCHANGED <<vars, calling, exporting, proxying, installing,
                         launching, transferring, importing>>
       \/ /\ part = "transfer" /\ Transfer!Next
          /\ UNCHANGED <<vars, calling, exporting, proxying, installing,
                         launching, updating, importing>>
       \/ /\ part = "import" /\ Import!Next
          /\ UNCHANGED <<vars, calling, exporting, proxying, installing,
                         launching, updating, transferring>>

MCSpec == MCInit /\ [][MCNext]_hostVars

HostSymmetry == Permutations(Process) \cup Permutations(Database) \cup Permutations(Terminal)

(* Types of the part that runs.                                            *)
HostTypeOK == CASE part = "server"    -> TypeOK
                [] part = "tools"     -> Tools!TypeOK
                [] part = "export"    -> Export!TypeOK
                [] part = "proxy"     -> Proxy!TypeOK
                [] part = "installer" -> Installer!TypeOK
                [] part = "launcher"  -> Launcher!TypeOK
                [] part = "update"    -> Update!TypeOK
                [] part = "transfer"  -> Transfer!TypeOK
                [] part = "import"    -> Import!TypeOK

(* One server at a time has a database in use, through crashes and left    *)
(* lock files; one that asks for no key serves only what is its own        *)
(* (cmd/server/lock.go, listen.go; tenant.EnsureLocalTeam).                *)
DatabasesApart == part = "server" => ServersKeepApart /\ LocalServesItsOwn

(* A tool writes only what it is for, after it was admitted and metered    *)
(* (internal/mcpserver, cmd/server/mcp.go).                                *)
CallsPaidAndBounded == part = "tools" => Tools!CallsPaidAndBounded

(* An archive holds all of its workspace and nothing of others             *)
(* (internal/dataexport).                                                  *)
ArchiveIsTheirs == part = "export" => Export!ArchiveIsTheirs

(* A wing read while it is written to misses nothing that stood; an import *)
(* that ran to its end has filed once all that the store did not refuse    *)
(* and skipped no less than it refused, what earlier ones were cut off at  *)
(* included (palace/copywing.go, wingbundle, importer).                    *)
WingMovesWhole == /\ part = "transfer" => Transfer!TransferIsWhole
                  /\ part = "import" => Import!ImportFilesAll

(* Each request is answered once and in order (cmd/server/stdio.go).       *)
RepliesInOrder == part = "proxy" => Proxy!RepliesInOrder

(* What the user wrote stays theirs, an install that completes is settled:  *)
(* doing it again changes nothing; and whatever updates race, fail or are  *)
(* killed, a binary that runs stays in place (clients/claude-code).        *)
ClientsStayWhole ==
    /\ part = "installer" => Installer!UserKept /\ Installer!InstallsSettle
    /\ part = "update" => Update!BinaryAlwaysRuns

(* What the marker is for (sharedauth.go:12-16): it names every credential *)
(* the installs shared.                                                    *)
MarkerTellsShared == part = "installer" => Installer!MarkerTellsShared

(* What a folder's init recorded is what load starts, and a remote call    *)
(* reads or writes as its tool is named (clients/claude-code).             *)
LaunchesAsRecorded == Launcher!LoadsAsRecorded /\ Launcher!CallsAsNamed
=============================================================================
