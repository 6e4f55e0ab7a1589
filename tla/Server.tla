------------------------------- MODULE Server -------------------------------
(* Server processes (cmd/server): the lock that lets one of them serve a    *)
(* database, the boot that migrates and seeds it, in self-hosted or hosted  *)
(* mode, the Unix socket or the port they listen on, and how they end.      *)
EXTENDS Naturals

CONSTANTS
    Process, Database,
    MaxBoots        \* bound: processes started

VARIABLES
    proc,           \* each process: its configuration and the step it is in
    inode,          \* the file at the lock path of a database, 0 for none
    held,           \* pairs of a locked file and the process that holds it
    data,           \* schema, users, workspaces, example skill, playbook
    socket,         \* the file at the socket path
    port,           \* processes that listen on the TCP address
    boots,
    crossed         \* servers of two databases were pointed at the socket path

vars == <<proc, inode, held, data, socket, port, boots, crossed>>

None == "none"
Off == [step |-> "off", local |-> FALSE, db |-> None, unix |-> FALSE, file |-> 0]
Booting == {"open", "lock", "migrate", "user", "team", "example", "playbook",
            "clear", "bind", "secure"}
NoFile == [kind |-> None, owner |-> None, private |-> FALSE]
Fresh == [schema |-> FALSE, users |-> {}, teams |-> {}, example |-> FALSE, playbook |-> FALSE]
Config == [local : BOOLEAN, db : Database, unix : BOOLEAN]
At(p, step) == proc[p].step = step
Db(p) == data[proc[p].db]
Using(p) == proc[p].step \notin {"off", "open", "lock"}
Holds(p) == \E f \in held : f[2] = p
Go(p, step) == proc' = [proc EXCEPT ![p].step = step]

TypeOK ==
    /\ boots \in 0..MaxBoots
    /\ \A p \in Process : proc[p].step \in Booting \union {"off", "serve", "close", "unlock"}
    /\ inode \in [Database -> 0..MaxBoots + 1]
    /\ \A d \in Database : data[d].teams \subseteq {"local", "demo", "registered"}
    /\ socket.kind \in {None, "file", "socket"}
    /\ port \subseteq Process
    /\ \A p \in Process : proc[p].step \in {"serve", "secure"} => Holds(p)

Start(p, cfg) ==
    /\ At(p, "off") /\ boots < MaxBoots
    /\ boots' = boots + 1
    /\ proc' = [proc EXCEPT ![p] =
           [step |-> "open", local |-> cfg.local, db |-> cfg.db,
            unix |-> cfg.unix, file |-> 0]]
    /\ UNCHANGED <<inode, held, data, socket, port, crossed>>

(* The lock file is opened, made if it is not there, and then locked: what  *)
(* counts is the lock on the file, never that the file exists.             *)
OpenLock(p) ==
    /\ At(p, "open")
    /\ inode' = [inode EXCEPT ![proc[p].db] = IF @ = 0 THEN boots + 1 ELSE @]
    /\ proc' = [proc EXCEPT ![p].step = "lock", ![p].file = inode'[proc[p].db]]
    /\ UNCHANGED <<held, data, socket, port, boots, crossed>>

TryLockAnyway(p) ==
    /\ At(p, "lock")
    /\ LET file == <<proc[p].db, proc[p].file>> IN
       /\ Go(p, "migrate")
       /\ held' = IF \E f \in held : f[1] = file THEN held ELSE held \union {<<file, p>>}
    /\ UNCHANGED <<inode, data, socket, port, boots, crossed>>
TryLock(p) ==
    /\ At(p, "lock")
    /\ LET file == <<proc[p].db, proc[p].file>> IN
       IF \E f \in held : f[1] = file
       THEN proc' = [proc EXCEPT ![p] = Off] /\ UNCHANGED held
       ELSE Go(p, "migrate") /\ held' = held \union {<<file, p>>}
    /\ UNCHANGED <<inode, data, socket, port, boots, crossed>>

(* Migrations, services and workers; then the modes part.  A self-hosted    *)
(* server refuses a database with a workspace that is not its own.         *)
ForeignUnlessOwn(d) == "local" \notin data[d].teams /\ data[d].teams # {}
Foreign(d) == data[d].teams \ {"local"} # {}
Migrate(p) ==
    /\ At(p, "migrate")
    /\ data' = [data EXCEPT ![proc[p].db].schema = TRUE]
    /\ IF proc[p].local
       THEN Go(p, IF Foreign(proc[p].db) THEN "unlock" ELSE "team")
       ELSE Go(p, IF Db(p).teams = {} THEN "user" ELSE "clear")
    /\ UNCHANGED <<inode, held, socket, port, boots, crossed>>

(* The demo owner is a statement of its own, the workspace with its member  *)
(* and key a transaction; the local workspace is one with its owner.        *)
SeedUser(p) ==
    /\ At(p, "user")
    /\ IF "demo owner" \in Db(p).users
       THEN Go(p, "unlock") /\ UNCHANGED data
       ELSE /\ data' = [data EXCEPT ![proc[p].db].users = @ \union {"demo owner"}]
            /\ Go(p, "team")
    /\ UNCHANGED <<inode, held, socket, port, boots, crossed>>

SeedTeam(p) ==
    /\ At(p, "team")
    /\ data' = [data EXCEPT
           ![proc[p].db].teams = @ \union {IF proc[p].local THEN "local" ELSE "demo"},
           ![proc[p].db].users = @ \union (IF proc[p].local THEN {"local owner"} ELSE {})]
    /\ Go(p, IF proc[p].local THEN "playbook" ELSE "example")
    /\ UNCHANGED <<inode, held, socket, port, boots, crossed>>

SeedExample(p) ==
    /\ At(p, "example")
    /\ data' = [data EXCEPT ![proc[p].db].example = TRUE]
    /\ Go(p, "playbook")
    /\ UNCHANGED <<inode, held, socket, port, boots, crossed>>

SeedPlaybook(p) ==
    /\ At(p, "playbook")
    /\ data' = [data EXCEPT ![proc[p].db].playbook = TRUE]
    /\ Go(p, "clear")
    /\ UNCHANGED <<inode, held, socket, port, boots, crossed>>

(* A socket left at the path is removed, anything else there is refused;    *)
(* the new one is made with the umask's mode and narrowed after.           *)
ClearStale(p) ==
    /\ At(p, "clear")
    /\ IF proc[p].unix /\ socket.kind = "file"
       THEN Go(p, "unlock") /\ UNCHANGED socket
       ELSE /\ Go(p, "bind")
            /\ socket' = IF proc[p].unix THEN NoFile ELSE socket
    /\ crossed' = (crossed \/ \E q \in Process :
           Using(q) /\ proc[q].unix /\ proc[p].unix /\ proc[q].db # proc[p].db)
    /\ UNCHANGED <<inode, held, data, port, boots>>

Bind(p) ==
    /\ At(p, "bind")
    /\ IF proc[p].unix
       THEN /\ UNCHANGED port
            /\ IF socket.kind # None
               THEN Go(p, "unlock") /\ UNCHANGED socket
               ELSE /\ socket' = [kind |-> "socket", owner |-> p, private |-> FALSE]
                    /\ Go(p, "secure")
       ELSE /\ UNCHANGED socket
            /\ IF port # {} THEN Go(p, "unlock") /\ UNCHANGED port
               ELSE port' = {p} /\ Go(p, "serve")
    /\ UNCHANGED <<inode, held, data, boots, crossed>>

(* The mode is set by path, whoever's socket is there by now.              *)
Secure(p) ==
    /\ At(p, "secure")
    /\ IF socket.kind = None
       THEN Go(p, "close") /\ UNCHANGED socket
       ELSE Go(p, "serve") /\ socket' = [socket EXCEPT !.private = TRUE]
    /\ UNCHANGED <<inode, held, data, port, boots, crossed>>

(* Any step before the serving one may fail, and serving may.              *)
Fails(p) ==
    /\ proc[p].step \in {"migrate", "user", "team", "example", "playbook", "secure", "serve"}
    /\ Go(p, IF proc[p].step \in {"secure", "serve"} THEN "close" ELSE "unlock")
    /\ UNCHANGED <<inode, held, data, socket, port, boots, crossed>>

(* Returning closes the listener first, which unlinks the socket path, and  *)
(* releases the lock last; the lock file stays.                            *)
CloseListener(p) ==
    /\ At(p, "close")
    /\ socket' = IF proc[p].unix THEN NoFile ELSE socket
    /\ port' = port \ {p}
    /\ Go(p, "unlock")
    /\ UNCHANGED <<inode, held, data, boots, crossed>>

UnlockAndUnlink(p) ==
    /\ At(p, "unlock")
    /\ held' = {f \in held : f[2] # p}
    /\ inode' = [inode EXCEPT ![proc[p].db] = 0]
    /\ proc' = [proc EXCEPT ![p] = Off]
    /\ UNCHANGED <<data, socket, port, boots, crossed>>
Unlock(p) ==
    /\ At(p, "unlock")
    /\ held' = {f \in held : f[2] # p}
    /\ proc' = [proc EXCEPT ![p] = Off]
    /\ UNCHANGED <<inode, data, socket, port, boots, crossed>>

(* A signal ends the process where it stands: the kernel gives back lock    *)
(* and port, the socket file stays.                                        *)
Kill(p) ==
    /\ ~At(p, "off")
    /\ held' = {f \in held : f[2] # p} /\ port' = port \ {p}
    /\ proc' = [proc EXCEPT ![p] = Off]
    /\ UNCHANGED <<inode, data, socket, boots, crossed>>

(* A hosted server lets people register workspaces.                        *)
Register(p) ==
    /\ At(p, "serve") /\ ~proc[p].local
    /\ data' = [data EXCEPT ![proc[p].db].teams = @ \union {"registered"}]
    /\ UNCHANGED <<proc, inode, held, socket, port, boots, crossed>>

Init ==
    /\ proc = [p \in Process |-> Off]
    /\ inode = [d \in Database |-> 0] /\ held = {}
    /\ data = [d \in Database |-> Fresh]
    /\ socket \in [kind : {None, "file"}, owner : {None}, private : {FALSE}]
    /\ port = {} /\ boots = 0 /\ crossed = FALSE

Next == \E p \in Process :
    \/ \E cfg \in Config : Start(p, cfg)
    \/ OpenLock(p) \/ TryLock(p) \/ Migrate(p)
    \/ SeedUser(p) \/ SeedTeam(p) \/ SeedExample(p) \/ SeedPlaybook(p)
    \/ ClearStale(p) \/ Bind(p) \/ Secure(p)
    \/ Fails(p) \/ CloseListener(p) \/ Unlock(p) \/ Kill(p) \/ Register(p)

Spec == Init /\ [][Next]_vars

(* One server at a time has a database in use, from its migrations to its  *)
(* last step, through crashes and left lock files; and a socket server that *)
(* is up is reached at its path, at owner-only mode, unless a server of     *)
(* another database was pointed at the same path.                          *)
ServersKeepApart ==
    /\ \A p, q \in Process :
         p # q /\ Using(p) /\ Using(q) => proc[p].db # proc[q].db
    /\ \A p \in Process : At(p, "serve") /\ proc[p].unix /\ ~crossed =>
         socket.owner = p /\ socket.private

(* A self-hosted server, which asks for no key, never serves a database     *)
(* that holds a workspace of somebody else, whatever servers ran on it      *)
(* before, and it has its playbook to hand out.                            *)
LocalServesItsOwn == \A p \in Process :
    At(p, "serve") /\ proc[p].local =>
        /\ Db(p).teams = {"local"} /\ Db(p).playbook

(* "Creates a team, an owner user (admin), and one API key in a single      *)
(* transaction": no server is between the two, so neither is there without  *)
(* the other.                                                              *)
SeededTogether == \A d \in Database :
    (\A p \in Process : At(p, "off")) => ("demo owner" \in data[d].users => "demo" \in data[d].teams)
==============================================================================
