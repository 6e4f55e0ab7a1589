------------------------------- MODULE Launcher --------------------------------
(***************************************************************************)
(* The client's launcher (clients/claude-code): init records how a project *)
(* is launched, in a committed file and in a registry of this machine;     *)
(* load, run and wrap start an agent; mcp calls a tool of the server from  *)
(* the shell.  Shells run side by side on one machine.                     *)
(***************************************************************************)
EXTENDS Naturals, SequencesExt

CONSTANTS Shell,
          Folder, Parent,   \* the tree; the root is its own parent
          Box,              \* sandbox names
          Recordings,       \* what init may record: agent, arguments (sequences of characters)
          Overrides,        \* what load may be given: sandbox, environment, agent, arguments
          Stored,           \* the tokens global installs may have left
          Token,
          Tool,             \* tools offered by the endpoint: name and whether it writes
          MaxCommands,      \* bound: init, load, run, wrap and mcp commands
          MaxChanges,       \* bound: edits of files and sandboxes by hand
          None

VARIABLES registry,   \* lines <<folder, box>> of ~/.sandboxes/agents
          project,    \* folder -> its two .aiagentmemory files
          boxes,      \* sandboxes that exist
          tokens,     \* configuration directory -> the token stored there
          shell,      \* what each shell's init has still to do
          last,       \* the last command that ran to its end
          commands, changes,
          pinned,     \* folder -> the sandbox its last init recorded
          recorded,   \* folder -> the agent and arguments of its last init, if its files are its own
          raced       \* a registry was written over lines it had not read

vars == <<registry, project, boxes, tokens, shell, last, commands, changes, pinned, recorded, raced>>

Agent == {"claude", "codex", "pi"}
NoConfig == [agent |-> None, text |-> <<>>, box |-> None]
NoFiles == [shared |-> None, local |-> None]
Idle == [step |-> "idle"]

(* A folder and the folders above it, nearest first.                       *)
Path[d \in Folder] == IF Parent[d] = d THEN <<d>> ELSE <<d>> \o Path[Parent[d]]
Nearest(d, Has(_)) ==
    LET i == SelectInSeq(Path[d], Has) IN IF i = 0 THEN None ELSE Path[d][i]
FirstOf(s) ==
    LET i == SelectInSeq(s, LAMBDA x : x # None) IN IF i = 0 THEN None ELSE s[i]

-----------------------------------------------------------------------------
(* Arguments are kept on one line of the file: quoted where they would be  *)
(* split or mangled, and split again when the file is read.                *)

Special == {" ", "q", "\\"}                 \* "q" is the double quote
QuotedBlanksOnly(a) ==
    IF \E i \in DOMAIN a : a[i] \in Special THEN <<"q">> \o a \o <<"q">> ELSE a
Quoted(a) ==
    IF a = <<>> \/ \E i \in DOMAIN a : a[i] \in Special
      THEN <<"q">> \o FoldLeft(LAMBDA r, c : r \o IF c \in {"q", "\\"} THEN <<"\\", c>> ELSE <<c>>,
                               <<>>, a) \o <<"q">>
      ELSE a
FormatArgs(args) ==
    FoldLeft(LAMBDA r, a : IF r = <<"first">> THEN Quoted(a) ELSE r \o <<" ">> \o Quoted(a),
             <<"first">>, args)
Line(args) == IF args = <<>> THEN <<>> ELSE FormatArgs(args)

(* The rest of an argument with a line break is on another line.           *)
FirstLine(t) == LET i == SelectInSeq(t, LAMBDA c : c = "\n") IN IF i = 0 THEN t ELSE SubSeq(t, 1, i - 1)

SplitArgs(line) ==
    LET Start == [args |-> <<>>, cur |-> <<>>, quote |-> FALSE, open |-> FALSE, skip |-> FALSE]
        Char(s, i) ==
            LET c == line[i]
                escapes == c = "\\" /\ i < Len(line) IN
            CASE s.skip -> [s EXCEPT !.cur = Append(@, c), !.skip = FALSE]
              [] escapes -> [s EXCEPT !.skip = TRUE, !.open = TRUE]
              [] c = "q" -> [s EXCEPT !.quote = ~@, !.open = TRUE]
              [] c = " " /\ ~s.quote ->
                   IF s.cur # <<>> \/ s.open
                     THEN [s EXCEPT !.args = Append(@, s.cur), !.cur = <<>>, !.open = FALSE]
                     ELSE s
              [] OTHER -> [s EXCEPT !.cur = Append(@, c)]
        end == FoldLeftDomain(Char, Start, line)
    IN  IF end.cur # <<>> \/ end.open THEN Append(end.args, end.cur) ELSE end.args

ArgsOf(cfg) == IF cfg = None THEN <<>> ELSE SplitArgs(FirstLine(cfg.text))

-----------------------------------------------------------------------------
(* The registry: the first line of a folder that names a sandbox is its    *)
(* entry, and the nearest folder with an entry decides.                    *)

Entry(reg, d) == FirstOf([i \in DOMAIN reg |-> IF reg[i][1] = d THEN reg[i][2] ELSE None])
LookupRegistry(reg, d) ==
    LET n == Nearest(d, LAMBDA f : Entry(reg, f) # None) IN
    IF n = None THEN None ELSE Entry(reg, n)

(* As if a line were only ever added.                                     *)
AppendRegistry(reg, d, b) == Append(reg, <<d, b>>)
UpsertRegistry(reg, d, b) ==
    LET i == SelectInSeq(reg, LAMBDA l : l[1] = d) IN
    IF i = 0 THEN Append(reg, <<d, b>>) ELSE [reg EXCEPT ![i] = <<d, b>>]

-----------------------------------------------------------------------------
Init ==
    /\ registry = <<>> /\ project = [d \in Folder |-> NoFiles]
    /\ boxes = {} /\ tokens \in Stored
    /\ shell = [s \in Shell |-> Idle] /\ last = None
    /\ commands = 0 /\ changes = 0
    /\ pinned = [d \in Folder |-> None] /\ recorded = pinned /\ raced = FALSE

Command == commands < MaxCommands /\ commands' = commands + 1

(* init: the committed file is replaced, then the registry is read and     *)
(* written back with this folder's line.                                   *)
InitCommand(s, d, agent, args, b) ==
    /\ Command /\ shell[s] = Idle
    /\ project' = [project EXCEPT ![d].shared =
                     [agent |-> agent, text |-> Line(args), box |-> None]]
    /\ shell' = [shell EXCEPT ![s] =
                   IF b = None THEN Idle
                   ELSE [step |-> "read", dir |-> d, box |-> b]]
    /\ recorded' = [recorded EXCEPT ![d] = [agent |-> agent, args |-> args]]
    /\ last' = None
    /\ UNCHANGED <<registry, boxes, tokens, changes, pinned, raced>>

ReadRegistry(s) ==
    /\ shell[s].step = "read"
    /\ shell' = [shell EXCEPT ![s] =
                   [step |-> "write", dir |-> @.dir, box |-> @.box, seen |-> registry]]
    /\ last' = None
    /\ UNCHANGED <<registry, project, boxes, tokens, commands, changes, pinned, recorded, raced>>

WriteRegistry(s) ==
    LET w == shell[s] IN
    /\ w.step = "write"
    /\ registry' = UpsertRegistry(w.seen, w.dir, w.box)
    /\ raced' = (raced \/ w.seen # registry)
    /\ pinned' = [pinned EXCEPT ![w.dir] = w.box]
    /\ shell' = [shell EXCEPT ![s] = Idle]
    /\ last' = None
    /\ UNCHANGED <<project, boxes, tokens, commands, changes, recorded>>

(* load: each layer in turn, most specific first.                          *)
Layers(d) ==
    LET n == Nearest(d, LAMBDA f : project[f] # NoFiles) IN
    IF n = None THEN [shared |-> NoConfig, local |-> NoConfig]
    ELSE [shared |-> IF project[n].shared = None THEN NoConfig ELSE project[n].shared,
          local |-> IF project[n].local = None THEN NoConfig ELSE project[n].local]

FirstSandbox(d, flag, env) ==
    FirstOf(<<flag, env, LookupRegistry(registry, d), Layers(d).local.box, Layers(d).shared.box>>)

ResolveLaunch(d, flag, env, agent, extra) ==
    LET l == Layers(d)
        own == ArgsOf(l.local)
        a == FirstOf(<<agent, l.local.agent, l.shared.agent>>)
    IN  [box |-> FirstSandbox(d, flag, env),
         agent |-> IF a = None THEN "claude" ELSE a,
         args |-> (IF own = <<>> THEN ArgsOf(l.shared) ELSE own) \o extra]

PlanRun(name) == IF name \in boxes THEN name ELSE None

Ended(verb, d, what) == last' = [verb |-> verb, dir |-> d, what |-> what]

LoadCommand(s, d, flag, env, agent, extra) ==
    LET r == ResolveLaunch(d, flag, env, agent, extra) IN
    /\ Command /\ shell[s] = Idle
    /\ Ended(IF flag = None /\ env = None /\ agent = None /\ extra = <<>> THEN "load" ELSE "override",
             d, IF PlanRun(r.box) = None THEN None ELSE r)
    /\ UNCHANGED <<registry, project, boxes, tokens, shell, changes, pinned, recorded, raced>>

(* run: a sandbox first, else an agent of that name with its own           *)
(* configuration; wrap: always the latter.                                 *)
RunCommand(s, name) ==
    /\ Command /\ shell[s] = Idle
    /\ Ended("run", None, IF PlanRun(name) # None \/ name \in Agent THEN name ELSE None)
    /\ UNCHANGED <<registry, project, boxes, tokens, shell, changes, pinned, recorded, raced>>

WrapCommand(s, agent) ==
    /\ Command /\ shell[s] = Idle
    /\ Ended("wrap", None, agent)
    /\ UNCHANGED <<registry, project, boxes, tokens, shell, changes, pinned, recorded, raced>>

(* mcp: the token of the directory that is named, else the first found;    *)
(* only a tool of the allowlist, or with a prefix of the reads, is called. *)
TokenSearchDirs(named) == IF named # None THEN <<named>> ELSE <<"claude", "codex", "pi">>
TokenOf(d) == IF d \in DOMAIN tokens THEN tokens[d] ELSE None
ResolveToken(flag, named) ==
    FirstOf(<<flag>> \o [i \in DOMAIN TokenSearchDirs(named) |-> TokenOf(TokenSearchDirs(named)[i])])
AnyTool(t) == TRUE
IsReadOnlyTool(t) == t.listed \/ t.prefixed

RunRemoteMCP(s, flag, named, t) ==
    LET token == ResolveToken(flag, named) IN
    /\ Command /\ shell[s] = Idle
    /\ Ended("mcp", named, IF token = None \/ ~IsReadOnlyTool(t) THEN None
                           ELSE [token |-> token, flag |-> flag, tool |-> t])
    /\ UNCHANGED <<registry, project, boxes, tokens, shell, changes, pinned, recorded, raced>>

(* By hand: sandboxes come and go, a pull brings a teammate's file, the    *)
(* personal file is edited, an entry is put into the registry or emptied.  *)
Change == changes < MaxChanges /\ changes' = changes + 1

Sandbox(b, t) ==
    /\ Change
    /\ boxes' = IF b \in boxes THEN boxes \ {b} ELSE boxes \cup {b}
    /\ tokens' = IF b \in boxes THEN [x \in DOMAIN tokens \ {b} |-> tokens[x]]
                 ELSE [x \in DOMAIN tokens \cup {b} |-> IF x = b THEN t ELSE tokens[x]]
    /\ last' = None
    /\ UNCHANGED <<registry, project, shell, commands, pinned, recorded, raced>>

ProjectFile(d, which, agent, b) ==
    /\ Change
    /\ project' = [project EXCEPT ![d][which] = [agent |-> agent, text |-> <<>>, box |-> b]]
    /\ recorded' = [recorded EXCEPT ![d] = None]
    /\ last' = None
    /\ UNCHANGED <<registry, boxes, tokens, shell, commands, pinned, raced>>

EmptyEntry(d) ==
    /\ Change /\ Entry(registry, d) = None
    /\ registry' = <<<<d, None>>>> \o registry
    /\ last' = None
    /\ UNCHANGED <<project, boxes, tokens, shell, commands, pinned, recorded, raced>>

Next ==
    \/ \E s \in Shell :
         \/ ReadRegistry(s) \/ WriteRegistry(s)
         \/ \E d \in Folder :
              \/ \E r \in Recordings, b \in Box \cup {None} :
                    InitCommand(s, d, r.agent, r.args, b)
              \/ \E o \in Overrides : LoadCommand(s, d, o.flag, o.env, o.agent, o.extra)
         \/ \E name \in Box \cup {"claude"} : RunCommand(s, name)
         \/ WrapCommand(s, "claude")
         \/ \E flag \in Token \cup {None}, named \in Box \cup {None}, t \in Tool :
              RunRemoteMCP(s, flag, named, t)
    \/ \E b \in Box, t \in Token \cup {None} : Sandbox(b, t)
    \/ \E d \in Folder :
         \/ EmptyEntry(d)
         \/ \E which \in {"shared", "local"}, b \in Box \cup {None} : ProjectFile(d, which, "codex", b)

Spec == Init /\ [][Next]_vars

-----------------------------------------------------------------------------
TypeOK ==
    /\ registry \in Seq(Folder \X (Box \cup {None}))
    /\ boxes \subseteq Box
    /\ DOMAIN tokens = Agent \cup boxes
    /\ \A s \in Shell : shell[s].step \in {"idle", "read", "write"}
    /\ commands \in 0..MaxCommands /\ changes \in 0..MaxChanges

(* A load without overrides starts the sandbox the nearest init recorded,  *)
(* whatever teammates commit and whatever is written by hand around it, or *)
(* nothing, never the global configuration; and with the agent and the     *)
(* arguments that init was given, unless a nearer or newer file says       *)
(* otherwise (main.go:203-212, projectconfig.go:165-168, 215-227).         *)
Pin(d) == Nearest(d, LAMBDA f : pinned[f] # None)
Filed(d) == Nearest(d, LAMBDA f : project[f] # NoFiles)
LoadsAsRecorded ==
    [][ (commands' # commands /\ last' # None /\ last'.verb = "load" /\ ~raced) =>
          LET d == last'.dir
              r == last'.what IN
          r # None =>
            /\ r.box \in boxes
            /\ (Pin(d) # None /\ Entry(registry, Pin(d)) # None) => r.box = pinned[Pin(d)]
            /\ (Filed(d) # None /\ recorded[Filed(d)] # None) =>
                 /\ r.agent = IF recorded[Filed(d)].agent = None THEN "claude"
                              ELSE recorded[Filed(d)].agent
                 /\ r.args = recorded[Filed(d)].args ]_<<commands, last>>

(* A call from the shell never writes to the palace, and a sandbox that is *)
(* named is never passed over for another's token (mcpcall.go:35-42,       *)
(* 453-456).                                                               *)
CallsAsNamed ==
    [][ (commands' # commands /\ last' # None /\ last'.verb = "mcp" /\ last'.what # None) =>
          /\ ~last'.what.tool.writes
          /\ (last'.what.flag = None /\ last'.dir # None) =>
               last'.dir \in boxes /\ last'.what.token = tokens[last'.dir] ]_<<commands, last>>

=============================================================================
