--------------------------------- MODULE Tools ---------------------------------
(***************************************************************************)
(* The tools of the server and of its command line: what a tool demands,   *)
(* what it accepts, the operation behind it and what that may write.  A    *)
(* call over HTTP is admitted, and paid for, before its arguments are read;*)
(* the command line knows the reading tools alone and pays with a token    *)
(* only.                                                                   *)
(***************************************************************************)
EXTENDS Integers, FiniteSets, Sequences, Functions

CONSTANTS
    Cap,             \* requests a month
    MaxCalls         \* bound on the calls of a behaviour

Tool(name, needs, takes, writes) ==
    [name |-> name, needs |-> needs, takes |-> takes, writes |-> writes]

Status == Tool("status", {}, {}, {})
LoadSkill == Tool("load_skill", {"name"}, {}, {})
ListSkills == Tool("list_skills", {}, {}, {})
UpdateSkill == Tool("update_skill", {"name", "content"}, {"description"}, {"skills"})
AddDrawer == Tool("add_drawer", {"wing", "room", "content"},
                  {"source_file", "content_date"}, {"drawers", "vectors"})
GetDrawer == Tool("get_drawer", {"id"}, {}, {})
UpdateDrawer == Tool("update_drawer", {"id"}, {"content", "wing", "room"},
                     {"content", "wing", "room", "vectors"})
DeleteDrawer == Tool("delete_drawer", {"id"}, {}, {"drawers", "vectors"})
ListDrawers == Tool("list_drawers", {}, {"wing", "room", "limit", "offset"}, {})
SearchTool == Tool("search", {"query"}, {"limit", "wing", "room", "max_distance", "context"}, {})
CheckDuplicate == Tool("check_duplicate", {"content"}, {"threshold"}, {})
ListWings == Tool("list_wings", {}, {}, {})
ListRooms == Tool("list_rooms", {}, {"wing"}, {})
GetTaxonomy == Tool("get_taxonomy", {}, {}, {})
GetAAAKSpec == Tool("get_aaak_spec", {}, {}, {})
Reconnect == Tool("reconnect", {}, {}, {"namespace"})
Drawers == <<AddDrawer, GetDrawer, UpdateDrawer, DeleteDrawer, ListDrawers, SearchTool,
             CheckDuplicate, ListWings, ListRooms, GetTaxonomy, GetAAAKSpec, Reconnect>>

DiaryWrite == Tool("diary_write", {"agent_name"}, {"entry", "content", "topic", "wing"},
                   {"drawers", "vectors"})
DiaryRead == Tool("diary_read", {"agent_name"}, {"last_n", "wing"}, {})
Mine == Tool("mine", {"content", "wing", "source"}, {"room", "agent"},
             {"drawers", "vectors", "closets"})

CreateTunnel == Tool("create_tunnel", {"source_wing", "source_room", "target_wing", "target_room"},
                     {"label", "source_drawer_id", "target_drawer_id"}, {"tunnels"})
DeleteTunnel == Tool("delete_tunnel", {"tunnel_id"}, {}, {"tunnels"})
ListTunnels == Tool("list_tunnels", {}, {"wing"}, {})
FindTunnels == Tool("find_tunnels", {}, {"wing_a", "wing_b"}, {})
FollowTunnels == Tool("follow_tunnels", {"wing", "room"}, {}, {})
ListHallways == Tool("list_hallways", {}, {"wing"}, {})
DeleteHallway == Tool("delete_hallway", {"hallway_id"}, {}, {"hallways"})
Traverse == Tool("traverse", {"start_room"}, {"max_hops"}, {})
GraphStats == Tool("graph_stats", {}, {}, {})
RecomputeGraph == Tool("recompute_graph", {}, {"wing", "prune_orphans"}, {"hallways", "tunnels"})
Graph == <<CreateTunnel, DeleteTunnel, ListTunnels, FindTunnels, FollowTunnels, ListHallways,
           DeleteHallway, Traverse, GraphStats, RecomputeGraph>>

KGAdd == Tool("kg_add", {"subject", "predicate", "object"},
              {"valid_from", "valid_to", "source_closet", "source_file", "source_drawer_id"}, {"facts"})
KGInvalidate == Tool("kg_invalidate", {"subject", "predicate", "object"}, {"ended"}, {"facts"})
KGQuery == Tool("kg_query", {"entity"}, {"as_of", "direction"}, {})
KGStats == Tool("kg_stats", {}, {}, {})
KGTimeline == Tool("kg_timeline", {}, {"entity"}, {})
KG == <<KGAdd, KGInvalidate, KGQuery, KGStats, KGTimeline>>

MergeWing == Tool("merge_wing", {"sources", "target"}, {}, {"drawers", "closets"})
MemoriesFiledAway == Tool("memories_filed_away", {}, {}, {})
Skillset == Tool("skillset", {}, {}, {})

(* The order of registration; the playbook is last, to advertise them all. *)
Catalog ==
    <<Status, LoadSkill, ListSkills, UpdateSkill>> \o Drawers \o <<DiaryWrite, DiaryRead, Mine>>
    \o Graph \o KG \o <<MergeWing, MemoriesFiledAway, Skillset>>

(* The tools of the command line, and the argument a bare word stands for. *)
Primary ==
    {<<SearchTool, "query">>, <<GetDrawer, "id">>, <<ListDrawers, "wing">>,
     <<CheckDuplicate, "content">>, <<ListRooms, "wing">>, <<LoadSkill, "name">>,
     <<DiaryRead, "agent_name">>, <<ListTunnels, "wing">>, <<FindTunnels, "wing_a">>,
     <<FollowTunnels, "wing">>, <<ListHallways, "wing">>, <<Traverse, "start_room">>,
     <<KGQuery, "entity">>, <<KGTimeline, "entity">>}
ReadOnlyTools ==
    {Status, ListSkills, ListWings, GetTaxonomy, GetAAAKSpec, Skillset, GraphStats,
     KGStats, MemoriesFiledAway} \cup {p[1] : p \in Primary}

VARIABLES
    call,            \* the call: way, tool, arguments given and which of a
                     \* patch are blank, caller, word
    stage,
    used,            \* requests metered this month
    answers, calls,  \* metered calls that were answered, and calls made: histories
    args,            \* arguments the operation is given
    touched          \* what the call has written

vars == <<call, stage, used, answers, calls, args, touched>>

Given(tool) ==
    {g \in SUBSET (tool.needs \cup tool.takes) :
        Cardinality(tool.needs \ g) <= 1 /\ Cardinality(g \cap tool.takes) <= 2}

BlankIn(tool) == IF tool = UpdateDrawer THEN SUBSET tool.takes ELSE {{}}

Calls(way, tools, callers, words) ==
    UNION {[way : {way}, tool : {t}, given : Given(t), blank : BlankIn(t), caller : callers,
            word : words] : t \in tools}

None == [way |-> "none", tool |-> Status, given |-> {}, blank |-> {}, caller |-> "none",
         word |-> FALSE]

Init ==
    /\ call = None /\ stage = "idle"
    /\ used = 0 /\ answers = 0 /\ calls = 0 /\ args = {} /\ touched = {}

Request ==
    /\ stage = "idle" /\ calls < MaxCalls
    /\ \/ call' \in Calls("http", Range(Catalog), {"none", "reader", "writer"}, {FALSE})
       \/ call' \in Calls("cli", Range(Catalog), {"none", "token", "team"}, {TRUE, FALSE})
    /\ call'.blank \subseteq call'.given
    /\ stage' = "called" /\ calls' = calls + 1
    /\ args' = {} /\ touched' = {}
    /\ UNCHANGED <<used, answers>>

Refuse ==
    /\ stage' = "refused"
    /\ UNCHANGED <<call, used, answers, calls, args, touched>>

Known == call.way = "cli" => call.tool \in ReadOnlyTools

(* The operator's own reads are not metered.                               *)
Metered == call.way = "http" \/ call.caller = "token"

Admit ==
    /\ stage = "called" /\ Known /\ call.caller # "none"
    /\ Metered => used < Cap
    /\ used' = IF Metered THEN used + 1 ELSE used
    /\ stage' = "admitted"
    /\ UNCHANGED <<call, answers, calls, args, touched>>

(* No tenant, no such tool, a meter that fails or a cap that is reached.   *)
NotAdmitted == stage = "called" /\ Refuse

(* The bare word is the tool's primary argument, unless it is named too.   *)
ParseArgs ==
    IF call.way = "cli" /\ call.word
    THEN call.given \cup {p[2] : p \in {q \in Primary : q[1] = call.tool}} ELSE call.given

(* Entry wins over content when it is there, even when it is empty.        *)
EntryOf(given) ==
    IF call.tool = DiaryWrite /\ "entry" \in given THEN given \ {"content"} ELSE given

(* Over HTTP what is needed has to be there; a presence, not a value.      *)
ReadArguments ==
    /\ stage = "admitted"
    /\ call.way = "http" => call.tool.needs \subseteq call.given
    /\ args' = EntryOf(ParseArgs)
    /\ stage' = "running"
    /\ UNCHANGED <<call, used, answers, calls, touched>>

MissingArgument ==
    /\ stage = "admitted" /\ call.way = "http" /\ ~(call.tool.needs \subseteq call.given)
    /\ Refuse

CanWrite == call.caller = "writer"

PatchAll == call.tool.writes

(* What an operation writes.  An update writes the fields that were sent,  *)
(* and with any of them, not with the text alone, the vector anew.         *)
Patch ==
    LET sent == args \cap UpdateDrawer.takes IN
    IF call.tool # UpdateDrawer THEN call.tool.writes
    ELSE sent \cup (IF sent = {} THEN {} ELSE {"vectors"})

(* What a call may leave written when it ends early.  What files or        *)
(* updates drawers writes vectors first, a deletion takes the row first;   *)
(* an update changes its row in one statement, which is its last.          *)
FirstWrite == IF call.tool = DeleteDrawer THEN "drawers" ELSE "vectors"
Partly ==
    {p \in SUBSET Patch :
        /\ p # {} /\ "vectors" \in Patch => FirstWrite \in p
        /\ call.tool = UpdateDrawer => p \subseteq {"vectors"} \/ p = Patch}

(* What the operation's own checks refuse: a reader's skill, a patch with  *)
(* a field that is blank.                                                  *)
Acceptable ==
    /\ call.tool = UpdateSkill => CanWrite
    /\ call.tool = UpdateDrawer => call.blank = {}

(* The operation: answered, with nothing to do for some, or refused by     *)
(* other checks or failed on the way.                                      *)
Run ==
    /\ stage = "running" /\ Acceptable
    /\ stage' \in {"answered", "refused"}
    /\ touched' \in Partly
    /\ stage' = "answered" /\ call.tool = UpdateDrawer => touched' = Patch
    /\ UNCHANGED <<call, used, answers, calls, args>>

NotAccepted ==
    /\ stage = "running" /\ ~ Acceptable
    /\ Refuse

Reply ==
    /\ stage \in {"answered", "refused"}
    /\ answers' = IF stage = "answered" /\ Metered THEN answers + 1 ELSE answers
    /\ stage' = "idle" /\ call' = None /\ args' = {} /\ touched' = {}
    /\ UNCHANGED <<used, calls>>

Next ==
    \/ Request \/ Admit \/ NotAdmitted \/ ReadArguments \/ MissingArgument
    \/ Run \/ NotAccepted \/ Reply

Spec == Init /\ [][Next]_vars

-----------------------------------------------------------------------------
TypeOK ==
    /\ stage \in {"idle", "called", "admitted", "running", "answered", "refused"}
    /\ used \in 0..Cap /\ answers \in Nat /\ calls \in 0..MaxCalls
    /\ args \subseteq call.tool.needs \cup call.tool.takes

(* Each metered call that is answered, or has written anything before it   *)
(* failed, is paid for by a request of its own; the command line writes    *)
(* nothing (server.go:113-116, mcp.go:225-227).  An update leaves alone    *)
(* what its caller did not send, all when a field sent is blank, and no    *)
(* row is filed or changed, by a call that fails half-way either, without  *)
(* a vector written before it (drawers.go:144-145, service.go:179-180,     *)
(* 335-341).  No skill is written by a reader.                             *)
Owing == (stage = "answered" /\ Metered) \/ touched # {}
CallsPaidAndBounded ==
    /\ answers + (IF Owing THEN 1 ELSE 0) <= used
    /\ touched # {} => call.way = "http"
    /\ call.tool = UpdateDrawer =>
          /\ touched \ {"vectors"} \subseteq call.given
          /\ touched # {} => call.blank = {}
    /\ touched \cap {"content", "wing", "room"} # {} => "vectors" \in touched
    /\ call.tool \in {AddDrawer, DiaryWrite, Mine} /\ "drawers" \in touched => "vectors" \in touched
    /\ "skills" \in touched => call.caller = "writer"
=============================================================================
