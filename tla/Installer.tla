------------------------------- MODULE Installer -------------------------------
(***************************************************************************)
(* The client installer (clients/claude-code): what install and            *)
(* update-skill do to an agent's configuration directory, step by step,    *)
(* while the user and the agents edit the same files, a step fails or the  *)
(* installer is killed.  A sandbox directory is shared by every agent      *)
(* installed into it; each agent also has a global directory of its own,   *)
(* which --copy reads and --shared-auth links to.                          *)
(***************************************************************************)
EXTENDS Naturals, Sequences, FiniteSetsExt

CONSTANTS Kit,          \* the agents, among "claude", "codex" and "pi"
          Requests,     \* the command lines given
          MaxRuns,      \* bound: commands started
          Earlier,      \* the sets of directories an older release may be in
          Edited,       \* bound: the directories edited meanwhile,
          EditedFiles,  \* and the files of them
          Unreadable,   \* bound: the files that --copy may fail to read
          MaxEdits,     \* bound: edits by the user and by the agents
          None, Damaged, Link

VARIABLES files,     \* directory -> file name -> content, None if absent
          run,       \* the command running, or None
          todo,      \* its remaining steps, <<step, agent>>
          copying,   \* files --copy has still to visit
          writing,   \* the file of the user's being replaced or copied, or None
          backups,   \* what was put aside before being replaced
          clean,     \* this run skipped nothing: no step with a warning, and
                     \* no file to copy that could not be read, silently
          alone,     \* nobody else wrote since this run began
          mine,      \* what the user or an agent last had in a file of theirs
          torn,      \* files left truncated by a kill
          overtaken, \* files whose last edit fell between the installer's
                     \* read and write of them, and was written over
          settled,   \* the last run that completed, and what it left
          runs, edits

vars == <<files, run, todo, copying, writing, backups, clean, alone, mine,
          torn, overtaken, settled, runs, edits>>

-----------------------------------------------------------------------------
(* The layout of an agent's directory.                                     *)

HasHooks(k) == k # "pi"
CommandsDir(k) == IF k = "claude" THEN "commands" ELSE "prompts"
MemoryFile(k) == IF k = "claude" THEN "CLAUDE.md" ELSE "AGENTS.md"
HooksFile(k) == IF k = "claude" THEN "settings.json" ELSE "hooks.json"
AuthFile(k) == IF k = "claude" THEN ".credentials.json" ELSE "auth.json"
ServerFile(k) == CASE k = "claude" -> ".claude.json" [] k = "codex" -> "config.toml"
                    [] OTHER -> "extension"

Dir == Kit \cup {"sandbox"}
Memories == {MemoryFile(k) : k \in Kit}
Hooks == {HooksFile(k) : k \in {j \in Kit : HasHooks(j)}}
Auths == {AuthFile(k) : k \in Kit}
File == Memories \cup Hooks \cup Auths \cup {CommandsDir(k) : k \in Kit}
          \cup {ServerFile(k) : k \in Kit}
          \cup {"protocol", "script", "hooks/script", "env", "marker", "companion"}
(* The order a directory is walked in.                                     *)
Walk == <<".claude.json", ".credentials.json", "AGENTS.md", "CLAUDE.md", "auth.json",
          "commands", "companion", "config.toml", "env", "extension", "hooks/script",
          "hooks.json", "prompts", "protocol", "script", "settings.json">>
Theirs == Memories \cup Hooks \cup Auths

Script(d) == <<d, "script">>           \* the command "bash <dir>/script"
Legacy(d) == <<d, "hooks/script">>     \* the one older installs registered
Own == <<"user", "hook">>

(* What of a sequence is among some values: SelectSeq, as a function.      *)
Kept(s, those) ==
    LET kept[n \in 0..Len(s)] ==
            IF n = 0 THEN <<>>
            ELSE IF s[n] \in those THEN Append(kept[n - 1], s[n]) ELSE kept[n - 1]
    IN  kept[Len(s)]

(* What a file holds that is not the installer's.                          *)
UserPart(f, c) ==
    IF c \in {None, Link, Damaged} THEN <<>>
    ELSE CASE f \in Memories -> Kept(c, {"words"})
           [] f \in Hooks -> Kept(c, {Own})
           [] OTHER -> c

-----------------------------------------------------------------------------
(* What a command line asks for, and its steps for each agent in turn.     *)

Target(r, k) == IF r.into = "global" THEN k ELSE r.into

Agents(r) == CASE r.agent = "both" -> <<"claude", "codex">>
               [] r.agent = "all" -> <<"claude", "codex", "pi">>
               [] OTHER -> <<r.agent>>

Install(k) == <<"seed", "share", "commands">>
                \o (IF HasHooks(k) THEN <<"script", "clear", "stop">> ELSE <<>>)
                \o <<"protocol", "memory", "register", "recommended">>
Refresh == <<"commands", "protocol", "memory">>

StepsOf(r, i) ==
    IF i > Len(Agents(r)) THEN <<>>
    ELSE LET k == Agents(r)[i]
             s == IF r.verb = "install" THEN Install(k) ELSE Refresh
         IN  [j \in 1..Len(s) |-> <<s[j], k>>]
Steps(r) == StepsOf(r, 1) \o StepsOf(r, 2) \o StepsOf(r, 3)

Admitted(r) == r.verb = "install" => (r.socket => r.local)

At(step, k) == run # None /\ todo # <<>> /\ Head(todo) = <<step, k>>
Proceed == todo' = Tail(todo)
BeingWritten(d, f) ==
    writing # None /\ writing.dir = d /\ writing.file = f /\ writing.stage = "open"
Quit == /\ run' = None /\ todo' = <<>> /\ copying' = <<>> /\ writing' = None
        /\ settled' = None
        /\ torn' = IF writing # None /\ writing.stage = "open"
                     THEN torn \cup {<<writing.dir, writing.file>>} ELSE torn
Put(d, f, c) == files' = [files EXCEPT ![d][f] = c]
Here(k) == Target(run, k)

(* A step that wrote nothing the user owns.                                *)
Others == UNCHANGED <<run, alone, mine, torn, overtaken, settled, runs, edits>>
Plain == Others /\ UNCHANGED <<copying, writing, backups>>

-----------------------------------------------------------------------------
Fresh == [f \in File |-> None]

(* A directory an older release installed into, beside the user's own: an  *)
(* agent's has its files, and the sandbox everyone's.                      *)
Of(d) == {f \in Theirs : \E k \in Kit : /\ d \in {k, "sandbox"}
                                       /\ f \in {MemoryFile(k), HooksFile(k), AuthFile(k)}}
Older(d) ==
    [f \in File |->
        CASE f = "hooks/script" -> "v1"
          [] f \in Of(d) \cap Hooks -> <<Own, Legacy(d)>>
          [] f \in Of(d) \cap Memories -> <<"words", "begin", "v1", "end">>
          [] f \in Of(d) \cap Auths -> <<"login", d>>
          [] OTHER -> None]

Init ==
    /\ \E old \in Earlier :
         files = [d \in Dir |-> IF d \in old THEN Older(d) ELSE Fresh]
    /\ run = None /\ todo = <<>> /\ copying = <<>> /\ writing = None
    /\ backups = {} /\ clean = TRUE /\ alone = TRUE /\ torn = {} /\ overtaken = {}
    /\ settled = None
    /\ mine = [d \in Dir |-> [f \in Theirs |-> UserPart(f, files[d][f])]]
    /\ runs = 0 /\ edits = 0

(* A refresh wants a directory that was installed into.                    *)
Begin(r) ==
    /\ run = None /\ runs < MaxRuns /\ Admitted(r)
    /\ r.verb = "refresh" => files[Target(r, Agents(r)[1])] # Fresh
    /\ run' = r /\ todo' = Steps(r) /\ clean' = TRUE /\ alone' = TRUE /\ runs' = runs + 1
    /\ UNCHANGED <<files, copying, writing, backups, mine, torn, overtaken, settled, edits>>

Done ==
    /\ run # None /\ todo = <<>>
    /\ settled' = IF clean /\ alone THEN [request |-> run, files |-> files, backups |-> backups]
                  ELSE None
    /\ run' = None
    /\ UNCHANGED <<files, todo, copying, writing, backups, clean, alone, mine, torn,
                   overtaken, runs, edits>>

(* A kill, or a write of the core that failed: the rest is not done.       *)
Stop ==
    /\ run # None /\ todo # <<>>
    /\ Quit
    /\ UNCHANGED <<files, backups, clean, alone, mine, overtaken, runs, edits>>

(* --copy: every file of the agent's global directory the target lacks.    *)
Seed(k) ==
    /\ At("seed", k) /\ copying = <<>> /\ writing = None
    /\ IF run.copy /\ Here(k) # k /\ files[k] # Fresh
         THEN /\ copying' = Kept(Walk, {f \in File : files[k][f] # None})
              /\ UNCHANGED todo
         ELSE Proceed /\ UNCHANGED copying
    /\ run.copy => Here(k) # k
    /\ Others /\ UNCHANGED <<files, writing, backups, clean>>

(* A file that is there is left alone, one that cannot be read is skipped   *)
(* without a word; any other is created, and then filled (WriteOut).  What *)
(* breaks off between the two leaves a file no later run completes.        *)
Visited == /\ copying' = Tail(copying)
           /\ IF Tail(copying) = <<>> THEN Proceed ELSE UNCHANGED todo
CopyRegular(k) ==
    LET d == Here(k)
        f == Head(copying) IN
    /\ At("seed", k) /\ copying # <<>> /\ writing = None
    /\ \/ files[d][f] # None /\ Visited /\ UNCHANGED <<files, writing, clean>>
       \/ /\ files[d][f] = None /\ f \in Unreadable
          /\ clean' = FALSE /\ Visited /\ UNCHANGED <<files, writing>>
       \/ /\ files[d][f] = None
          /\ Put(d, f, <<>>)
          /\ writing' = [dir |-> d, file |-> f, seen |-> None, content |-> files[k][f],
                         stage |-> "copy", edited |-> FALSE]
          /\ UNCHANGED <<todo, copying, clean>>
    /\ Others /\ UNCHANGED backups

SeedBreaksOff(k) ==
    /\ At("seed", k) /\ copying # <<>>
    /\ copying' = <<>> /\ writing' = None /\ clean' = FALSE /\ Proceed
    /\ Others /\ UNCHANGED <<files, backups>>

(* --shared-auth: a regular credential file is moved aside before the link *)
(* is made, and the marker says which files are shared.                    *)
NothingToShare(k) ==
    /\ At("share", k)
    /\ ~run.share \/ files[k][AuthFile(k)] = None
    /\ run.share => Here(k) # k
    /\ Proceed /\ Plain /\ UNCHANGED <<files, clean>>

MoveAside(k) ==
    LET d == Here(k)
        c == files[d][AuthFile(k)] IN
    /\ At("share", k) /\ run.share /\ d # k /\ files[k][AuthFile(k)] # None
    /\ c \notin {None, Link}
    /\ backups' = backups \cup {[dir |-> d, file |-> AuthFile(k), content |-> c]}
    /\ Put(d, AuthFile(k), None)
    /\ todo' = [todo EXCEPT ![1] = <<"link", k>>]
    /\ Others /\ UNCHANGED <<copying, writing, clean>>

(* The marker is written after the links; that it could not be is a warning. *)
LinkSharedAuth(k) ==
    LET d == Here(k) IN
    /\ \/ /\ At("share", k) /\ run.share /\ d # k /\ files[k][AuthFile(k)] # None
          /\ files[d][AuthFile(k)] \in {None, Link}
       \/ At("link", k) /\ files[d][AuthFile(k)] = None
    /\ \/ /\ files' = [files EXCEPT ![d][AuthFile(k)] = Link, ![d]["marker"] = {AuthFile(k)}]
          /\ UNCHANGED clean
       \/ Put(d, AuthFile(k), Link) /\ clean' = FALSE
    /\ Proceed /\ Plain

(* Moving the file aside or linking fails, or an agent that logged in       *)
(* between the two has left a file where the link goes.                    *)
LinkFails(k) ==
    /\ \/ /\ At("share", k) /\ run.share /\ Here(k) # k
          /\ files[k][AuthFile(k)] # None
       \/ At("link", k)
    /\ files[Here(k)][AuthFile(k)] # Link
    /\ clean' = FALSE /\ Proceed /\ Plain /\ UNCHANGED files

(* The kit's own files, overwritten without ceremony.                      *)
WriteCommands(k) ==
    /\ At("commands", k)
    /\ Put(Here(k), CommandsDir(k), run.release)
    /\ Proceed /\ Plain /\ UNCHANGED clean

WriteHook(k) ==
    /\ At("script", k)
    /\ Put(Here(k), "script", run.release)
    /\ Proceed /\ Plain /\ UNCHANGED clean

ClearLegacyHook(k) ==
    /\ At("clear", k)
    /\ \/ Put(Here(k), "hooks/script", None) /\ UNCHANGED clean
       \/ files[Here(k)]["hooks/script"] # None /\ clean' = FALSE /\ UNCHANGED files
    /\ Proceed /\ Plain

WriteProtocol(k) ==
    /\ At("protocol", k)
    /\ Put(Here(k), "protocol", run.release)
    /\ Proceed /\ Plain /\ UNCHANGED clean

(* The user's files: read, parsed and merged; then what was read is put    *)
(* aside, the file truncated, and written.  One that is already right is   *)
(* not touched, and an edit made since the read is not noticed.            *)
Rewrite(d, f, next) ==
    LET c == files[d][f] IN
    IF next = c
      THEN Proceed /\ UNCHANGED writing
      ELSE /\ writing' = [dir |-> d, file |-> f, seen |-> c, content |-> next,
                          stage |-> "read", edited |-> FALSE]
           /\ UNCHANGED todo

BackUp ==
    /\ writing # None /\ writing.stage = "read"
    /\ writing' = [writing EXCEPT !.stage = "saved"]
    /\ backups' = IF writing.seen \in {None, <<>>} THEN backups
                  ELSE backups \cup {[dir |-> writing.dir, file |-> writing.file,
                                     content |-> writing.seen]}
    /\ Others /\ UNCHANGED <<files, todo, copying, clean>>

Overtaken == IF writing.edited THEN overtaken \cup {<<writing.dir, writing.file>>}
             ELSE overtaken

Truncate ==
    /\ writing # None /\ writing.stage = "saved"
    /\ Put(writing.dir, writing.file, <<>>)
    /\ writing' = [writing EXCEPT !.stage = "open", !.edited = FALSE]
    /\ overtaken' = Overtaken
    /\ UNCHANGED <<run, todo, copying, backups, clean, alone, mine, torn, settled, runs, edits>>

(* An edit since the file was opened is written over, or has replaced the  *)
(* file, and then it is the installer's that is gone.                      *)
WriteOut ==
    LET d == writing.dir
        f == writing.file IN
    /\ writing # None /\ writing.stage \in {"open", "copy"}
    /\ writing' = None
    /\ IF writing.stage = "copy" THEN Visited ELSE Proceed /\ UNCHANGED copying
    /\ \/ /\ Put(d, f, writing.content)
          /\ overtaken' = Overtaken
          /\ mine' = IF writing.stage = "copy" /\ f \in Theirs /\ ~writing.edited
                       THEN [mine EXCEPT ![d][f] = UserPart(f, writing.content)]
                       ELSE mine
       \/ writing.edited /\ UNCHANGED <<files, overtaken, mine>>
    /\ UNCHANGED <<run, backups, clean, alone, torn, settled, runs, edits>>

(* Every other registration of the script is foreign: an older install's,  *)
(* or another directory's that --copy brought along.                       *)
Spared(d) == {Own, Script(d)}
(* As if nothing were superseded, and as if our block ran to the end.      *)
DropNothing(d, stop) == stop
DropStopHook(d, stop) == Kept(stop, Spared(d))
EnsureStopHook(d, stop) ==
    LET pruned == DropStopHook(d, stop) IN
    IF Script(d) \in Range(pruned) THEN pruned ELSE Append(pruned, Script(d))

RegisterStopHook(k) ==
    LET d == Here(k)
        c == files[d][HooksFile(k)] IN
    /\ At("stop", k) /\ writing = None
    /\ c # Damaged
    /\ Rewrite(d, HooksFile(k), EnsureStopHook(d, IF c = None THEN <<>> ELSE c))
    /\ Others /\ UNCHANGED <<files, copying, backups, clean>>

(* The managed block: replaced in place, or appended; refused when the     *)
(* markers do not pair.                                                    *)
Index(m, t) ==
    LET those == {i \in 1..Len(m) : m[i] = t} IN IF those = {} THEN 0 ELSE Min(those)
Balanced(m) == \/ Index(m, "begin") = 0 /\ Index(m, "end") = 0
               \/ Index(m, "begin") > 0 /\ Index(m, "end") > Index(m, "begin")
ManagedToTheEnd(m, body) ==
    LET b == Index(m, "begin") IN
    IF b = 0 THEN m \o <<"begin", body, "end">>
    ELSE SubSeq(m, 1, b - 1) \o <<"begin", body, "end">>
ManagedBlock(m, body) ==
    LET block == <<"begin", body, "end">>
        b == Index(m, "begin")
        e == Index(m, "end")
    IN  IF b = 0 THEN m \o block
        ELSE SubSeq(m, 1, b - 1) \o block \o SubSeq(m, e + 1, Len(m))

RegisterMemoryBootstrap(k) ==
    LET d == Here(k)
        m == IF files[d][MemoryFile(k)] = None THEN <<>> ELSE files[d][MemoryFile(k)]
        body == IF k = "claude" THEN "import" ELSE run.release IN
    /\ At("memory", k) /\ writing = None
    /\ Balanced(m)
    /\ Rewrite(d, MemoryFile(k), ManagedBlock(m, body))
    /\ Others /\ UNCHANGED <<files, copying, backups, clean>>

(* The memory server.  claude and codex take it by remove-then-add through *)
(* their own command; pi by an extension and the env file.                 *)
Offered == run.token # None \/ run.local
SkipServer(k) ==
    /\ At("register", k) /\ ~Offered
    /\ Proceed /\ Plain /\ UNCHANGED <<files, clean>>

Unregister(k) ==
    /\ At("register", k) /\ Offered /\ k # "pi"
    /\ files[Here(k)][ServerFile(k)] # None
    /\ files' = [files EXCEPT
                   ![Here(k)][ServerFile(k)] = None,
                   ![Here(k)]["env"] = IF k = "codex" /\ run.token # None /\ ~run.socket
                                         THEN [token |-> run.token, url |-> FALSE] ELSE @]
    /\ Plain /\ UNCHANGED <<todo, clean>>

Register(k) ==
    /\ At("register", k) /\ Offered /\ k # "pi"
    /\ files[Here(k)][ServerFile(k)] = None
    /\ files' = [files EXCEPT
                   ![Here(k)][ServerFile(k)] =
                       [token |-> IF run.socket THEN None ELSE run.token, socket |-> run.socket],
                   ![Here(k)]["env"] = IF k = "codex" /\ run.token # None /\ ~run.socket
                                         THEN [token |-> run.token, url |-> FALSE] ELSE @]
    /\ Proceed /\ Plain /\ UNCHANGED clean

RegisterPi(k) ==
    /\ At("register", k) /\ Offered /\ k = "pi" /\ ~run.socket
    /\ files' = [files EXCEPT ![Here(k)]["extension"] = run.release,
                              ![Here(k)]["env"] = [token |-> run.token, url |-> TRUE]]
    /\ Proceed /\ Plain /\ UNCHANGED clean

RegisterFails(k) ==
    /\ At("register", k) /\ Offered
    /\ k # "pi" => files[Here(k)][ServerFile(k)] = None
    /\ clean' = FALSE
    /\ Proceed /\ Plain /\ UNCHANGED files

(* The companion server is registered only if its own installer landed.    *)
Recommended(k, landed) ==
    /\ At("recommended", k)
    /\ IF run.recommended /\ k # "pi" /\ landed
         THEN Put(Here(k), "companion", "registered") /\ UNCHANGED clean
         ELSE /\ UNCHANGED files
              /\ clean' = (clean /\ (run.recommended /\ k # "pi" => landed))
    /\ Proceed /\ Plain

-----------------------------------------------------------------------------
(* The user and the agents, on the same files, between or during runs.     *)

Edit(d, f, c) ==
    /\ edits < MaxEdits
    /\ Put(d, f, c)
    /\ mine' = [mine EXCEPT ![d][f] = UserPart(f, c)]
    /\ torn' = torn \ {<<d, f>>} /\ overtaken' = overtaken \ {<<d, f>>}
    /\ writing' = IF writing # None /\ writing.dir = d /\ writing.file = f
                    THEN [writing EXCEPT !.edited = TRUE] ELSE writing
    /\ edits' = edits + 1 /\ settled' = None /\ alone' = FALSE
    /\ UNCHANGED <<run, todo, copying, backups, clean, runs>>

Content(d, f) == IF files[d][f] \in {None, Damaged} THEN <<>> ELSE files[d][f]

WriteWords(d, f) == Edit(d, f, Append(Content(d, f), "words"))
LoseMarker(d, f) ==
    /\ Index(Content(d, f), "end") > 0
    /\ Edit(d, f, Kept(Content(d, f), Range(Content(d, f)) \ {"end"}))
AddHook(d, f) == Edit(d, f, Append(Content(d, f), Own))
Damage(d, f) == Edit(d, f, Damaged)
(* An agent that logs in replaces the file, and with it a link.            *)
Login(d, f) == Edit(d, f, <<"login", d, edits>>)

Next ==
    \/ \E r \in Requests : Begin(r)
    \/ Done \/ Stop \/ BackUp \/ Truncate \/ WriteOut
    \/ \E k \in Kit :
         \/ Seed(k) \/ SeedBreaksOff(k) \/ CopyRegular(k)
         \/ NothingToShare(k) \/ MoveAside(k) \/ LinkSharedAuth(k) \/ LinkFails(k)
         \/ WriteCommands(k) \/ WriteHook(k) \/ ClearLegacyHook(k) \/ RegisterStopHook(k)
         \/ WriteProtocol(k) \/ RegisterMemoryBootstrap(k)
         \/ SkipServer(k) \/ Unregister(k) \/ Register(k) \/ RegisterPi(k) \/ RegisterFails(k)
         \/ \E landed \in BOOLEAN : Recommended(k, landed)
    \/ \E d \in Edited :
         \/ \E f \in Memories \cap EditedFiles : WriteWords(d, f) \/ LoseMarker(d, f)
         \/ \E f \in Hooks \cap EditedFiles : AddHook(d, f) \/ Damage(d, f)
         \/ \E f \in Auths \cap EditedFiles : Login(d, f)

Spec == Init /\ [][Next]_vars

-----------------------------------------------------------------------------
TypeOK ==
    /\ DOMAIN files = Dir /\ \A d \in Dir : DOMAIN files[d] = File
    /\ run \in Requests \cup {None}
    /\ copying \in Seq(File)
    /\ torn \subseteq Dir \X Theirs /\ alone \in BOOLEAN
    /\ runs \in 0..MaxRuns /\ edits \in 0..MaxEdits

(* Whatever the installer does, in whatever order and wherever it is       *)
(* killed, the user's own text and hooks are in the file as the user left  *)
(* them, and if a kill cut the file off they are in a backup; a login that *)
(* was replaced by a link is in a backup (settings.go:15-17, memory.go:22, *)
(* sharedauth.go:51-52).  Only an edit that fell between the installer's   *)
(* read of the file and its write is lost (memory.go:40-102).              *)
Saved(d, f) == \E b \in backups : b.dir = d /\ b.file = f /\ UserPart(f, b.content) = mine[d][f]
UserKept ==
    \A d \in Dir, f \in Theirs :
        \/ UserPart(f, files[d][f]) = mine[d][f]
        \/ /\ f \in Auths \/ <<d, f>> \in torn \/ BeingWritten(d, f)
           /\ mine[d][f] = <<>> \/ Saved(d, f)
        \/ <<d, f>> \in overtaken

OneCheckpoint(d, stop) ==
    \E i \in DOMAIN stop : /\ stop[i] = Script(d)
                           /\ \A j \in DOMAIN stop \ {i} : stop[j] = Own

(* A completed run repeated changes nothing and makes no further backup;   *)
(* after an install each agent of it that has hooks has its script, and if *)
(* nobody else wrote meanwhile exactly one checkpoint registered.          *)
InstallsSettle ==
    run # None /\ todo = <<>> =>
        /\ (clean /\ settled # None /\ settled.request = run) =>
             files = settled.files /\ backups = settled.backups
        /\ (run.verb = "install") =>
             \A k \in {j \in Range(Agents(run)) : HasHooks(j)} :
                LET d == Here(k) IN
                /\ files[d]["script"] # None
                /\ alone => OneCheckpoint(d, files[d][HooksFile(k)])

(* The marker names every credential the completed run shared: what makes  *)
(* a link an agent replaces noticeable (sharedauth.go:12-16).              *)
MarkerTellsShared ==
    run # None /\ todo = <<>> /\ run.verb = "install" /\ clean /\ run.share =>
        \A k \in Range(Agents(run)) :
            files[Here(k)][AuthFile(k)] = Link => AuthFile(k) \in files[Here(k)]["marker"]

=============================================================================
