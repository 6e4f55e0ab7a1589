------------------------------ MODULE HostProofs ------------------------------
(***************************************************************************)
(* Of what surrounds the palace, for any processes, databases, workspaces, *)
(* people and updaters and any bounds: servers keep apart, and a           *)
(* self-hosted one serves its own database; a tool call is paid for and    *)
(* writes what it is for; the proxy answers in order; an archive is of one *)
(* workspace and whole; an import accounts for its stream; a binary that   *)
(* is replaced is replaced by one that runs; and a call over MCP reads or  *)
(* writes only as its tool is named.                                       *)
(***************************************************************************)
EXTENDS MCHost, FiniteSetTheorems, SequenceTheorems, TLAPS

Steps == Booting \cup {"serve", "close", "unlock"}
Processes == [step : Steps \cup {"off"}, local : BOOLEAN, db : Database \cup {None},
              unix : BOOLEAN, file : Nat]
Contents == [schema : BOOLEAN, users : SUBSET {"local owner", "demo owner"},
             teams : SUBSET {"local", "demo", "registered"},
             example : BOOLEAN, playbook : BOOLEAN]

Types ==
    /\ proc \in [Process -> Processes]
    /\ \A p \in Process : ~At(p, "off") => proc[p].db \in Database
    /\ inode \in [Database -> Nat]
    /\ held \subseteq (Database \X Nat) \X Process
    /\ data \in [Database -> Contents]
    /\ socket \in [kind : {None, "file", "socket"}, owner : Process \cup {None}, private : BOOLEAN]
    /\ boots \in Nat
    /\ crossed \in BOOLEAN

(* The lock file of a database is made once and keeps its name, so whoever *)
(* has opened it has the one there is; whoever uses a database has locked  *)
(* it, and a file is locked by one process.                                *)
Opened(p) == proc[p].step \notin {"off", "open"}
FileIsCurrent == \A p \in Process : Opened(p) =>
    inode[proc[p].db] # 0 /\ proc[p].file = inode[proc[p].db]
UsersHold == \A p \in Process : Using(p) =>
    << <<proc[p].db, proc[p].file>>, p>> \in held
OneHolder == \A f, g \in held : f[1] = g[1] => f[2] = g[2]
Locks == FileIsCurrent /\ UsersHold /\ OneHolder

(* What a self-hosted server has found or made by the step it is at.       *)
Owns(p) == Using(p) /\ proc[p].local =>
    /\ proc[p].step \notin {"user", "example"}
    /\ proc[p].step \notin {"migrate", "unlock", "close"} => Db(p).teams \subseteq {"local"}
    /\ proc[p].step \in {"playbook", "clear", "bind", "secure", "serve"} => "local" \in Db(p).teams
    /\ proc[p].step \in {"clear", "bind", "secure", "serve"} => Db(p).playbook
LocalOwns == \A p \in Process : Owns(p)

(* Unless servers of two databases met at the socket path, one process at  *)
(* a time is past clearing it, and finds there what it has bound.          *)
PastClear(p) == proc[p].step \in {"bind", "secure", "serve", "close"}
AtSocket(p) == PastClear(p) /\ proc[p].unix
AloneAtSocket == ~crossed => \A p, q \in Process : AtSocket(p) /\ AtSocket(q) => p = q
SocketIsOwn == ~crossed => \A p \in Process :
    AtSocket(p) =>
        /\ proc[p].step \in {"secure", "serve"} => socket.owner = p
        /\ proc[p].step = "serve" => socket.private

IndInv == Types /\ Locks /\ LocalOwns /\ AloneAtSocket /\ SocketIsOwn

-----------------------------------------------------------------------------
(* At the start no process runs and nothing is made.                       *)
LEMMA InitInv == Init => IndInv
<1> SUFFICES ASSUME Init PROVE IndInv
  OBVIOUS
<1> USE DEF Init, Off, Fresh, None
<1>1. Types
  <2>1. proc \in [Process -> Processes]
    BY DEF Processes
  <2>2. data \in [Database -> Contents]
    BY DEF Contents
  <2>3. socket \in [kind : {None, "file", "socket"}, owner : Process \cup {None}, private : BOOLEAN]
    OBVIOUS
  <2>4. QED
    BY <2>1, <2>2, <2>3 DEF Types, At
<1>2. Locks
  BY DEF Locks, FileIsCurrent, Opened, UsersHold, OneHolder, Using
<1>3. LocalOwns /\ AloneAtSocket /\ SocketIsOwn
  BY DEF LocalOwns, Owns, AloneAtSocket, SocketIsOwn, AtSocket, PastClear, Using
<1>4. QED
  BY <1>1, <1>2, <1>3 DEF IndInv

(* A process that goes on keeps all but its step, and so do the others.    *)
LEMMA Goes ==
    ASSUME NEW p \in Process, NEW s \in Steps \cup {"off"}, Types, Go(p, s)
    PROVE  /\ proc' \in [Process -> Processes]
           /\ proc'[p].step = s /\ proc'[p].local = proc[p].local
           /\ proc'[p].db = proc[p].db /\ proc'[p].unix = proc[p].unix
           /\ proc'[p].file = proc[p].file
           /\ \A q \in Process \ {p} : proc'[q] = proc[q]
<1>1. proc \in [Process -> Processes] /\ proc[p] \in Processes
  BY DEF Types
<1>2. [proc[p] EXCEPT !.step = s] \in Processes
  BY <1>1 DEF Processes
<1>3. proc'[p] = [proc[p] EXCEPT !.step = s]
  BY <1>1 DEF Go
<1>4. \A q \in Process \ {p} : proc'[q] = proc[q]
  BY <1>1 DEF Go
<1>5. proc' \in [Process -> Processes]
  BY <1>1, <1>2 DEF Go
<1>6. QED
  BY <1>1, <1>2, <1>3, <1>4, <1>5 DEF Processes
(* A process that ends leaves the others alone.                            *)
LEMMA Stops ==
    ASSUME NEW p \in Process, Types, proc' = [proc EXCEPT ![p] = Off]
    PROVE  /\ proc' \in [Process -> Processes]
           /\ proc'[p].step = "off"
           /\ \A q \in Process \ {p} : proc'[q] = proc[q]
<1>1. Off \in Processes /\ Off.step = "off"
  BY DEF Off, Processes
<1>2. QED
  BY <1>1 DEF Types

(* The steps of a process that has its lock, up to the listener's end.     *)
Works(p) == \/ Migrate(p) \/ SeedUser(p) \/ SeedTeam(p) \/ SeedExample(p)
            \/ SeedPlaybook(p) \/ ClearStale(p) \/ Bind(p) \/ Secure(p)
            \/ Fails(p) \/ CloseListener(p)
WorkSteps == Steps \ {"open", "lock", "migrate"}

LEMMA WorksGoOn ==
    ASSUME NEW p \in Process, Works(p)
    PROVE  /\ Using(p) /\ ~At(p, "unlock")
           /\ UNCHANGED <<inode, held, boots>>
           /\ \E s \in WorkSteps : Go(p, s)
<1> USE DEF Using, At, WorkSteps, Steps, Booting
<1>1. CASE Migrate(p)
  BY <1>1 DEF Migrate
<1>2. CASE SeedUser(p)
  BY <1>2 DEF SeedUser
<1>3. CASE SeedTeam(p)
  BY <1>3 DEF SeedTeam
<1>4. CASE SeedExample(p) \/ SeedPlaybook(p)
  BY <1>4 DEF SeedExample, SeedPlaybook
<1>5. CASE ClearStale(p)
  BY <1>5 DEF ClearStale
<1>6. CASE Bind(p)
  BY <1>6 DEF Bind
<1>7. CASE Secure(p)
  BY <1>7 DEF Secure
<1>8. CASE Fails(p) \/ CloseListener(p)
  BY <1>8 DEF Fails, CloseListener
<1>9. QED
  BY <1>1, <1>2, <1>3, <1>4, <1>5, <1>6, <1>7, <1>8 DEF Works

(* So it keeps its lock, and the others keep all.                          *)
LEMMA WorksKeep ==
    ASSUME NEW p \in Process, Types, Works(p)
    PROVE  /\ proc' \in [Process -> Processes]
           /\ proc'[p].step \in WorkSteps /\ proc'[p].local = proc[p].local
           /\ proc'[p].db = proc[p].db /\ proc'[p].unix = proc[p].unix
           /\ proc'[p].file = proc[p].file
           /\ \A q \in Process \ {p} : proc'[q] = proc[q]
<1>1. PICK s \in WorkSteps : Go(p, s)
  BY WorksGoOn
<1>2. s \in Steps \cup {"off"}
  BY DEF WorkSteps
<1>3. QED
  BY <1>1, <1>2, Goes

(* What a step of any kind does to the table of processes: the two that    *)
(* open and lock the file go on, as do those that work; a start is new; the *)
(* rest end, or change no process.                                         *)
LEMMA StartsNew ==
    ASSUME NEW p \in Process, NEW cfg \in Config, Types, Start(p, cfg)
    PROVE  /\ proc' \in [Process -> Processes]
           /\ proc'[p].step = "open" /\ proc'[p].db \in Database
           /\ \A q \in Process \ {p} : proc'[q] = proc[q]
<1> DEFINE entry == [step |-> "open", local |-> cfg.local, db |-> cfg.db,
                   unix |-> cfg.unix, file |-> 0]
<1>1. entry \in Processes /\ entry.step = "open" /\ entry.db \in Database
  BY DEF Config, Processes, Steps, Booting
<1>2. proc' = [proc EXCEPT ![p] = entry]
  BY DEF Start
<1> HIDE DEF entry
<1>3. QED
  BY <1>1, <1>2 DEF Types

LEMMA OpensFile ==
    ASSUME NEW p \in Process, Types, OpenLock(p)
    PROVE  /\ proc' \in [Process -> Processes]
           /\ proc'[p].step = "lock" /\ proc'[p].db = proc[p].db
           /\ proc[p].db \in Database
           /\ inode' \in [Database -> Nat]
           /\ inode'[proc[p].db] # 0
           /\ \A d \in Database : inode[d] # 0 => inode'[d] = inode[d]
           /\ proc'[p].file = inode'[proc[p].db]
           /\ \A q \in Process \ {p} : proc'[q] = proc[q]
<1>1. proc \in [Process -> Processes] /\ proc[p] \in Processes /\ proc[p].db \in Database
  BY DEF Types, OpenLock, At
<1>2. /\ inode' \in [Database -> Nat]
      /\ inode'[proc[p].db] # 0
      /\ \A d \in Database : inode[d] # 0 => inode'[d] = inode[d]
  BY <1>1 DEF Types, OpenLock
<1> DEFINE locked == inode'[proc[p].db]
<1>3. locked \in Nat
  BY <1>1, <1>2
<1>4. proc' = [proc EXCEPT ![p].step = "lock", ![p].file = locked]
  BY DEF OpenLock
<1> HIDE DEF locked
<1> DEFINE entry == [proc[p] EXCEPT !.step = "lock", !.file = locked]
<1>5. /\ entry \in Processes /\ entry.step = "lock" /\ entry.db = proc[p].db
      /\ entry.file = locked
  BY <1>1, <1>3 DEF Processes, Steps, Booting
<1>6. proc' = [proc EXCEPT ![p] = entry]
  BY <1>4, <1>1
<1> HIDE DEF entry
<1>7. QED
  BY <1>1, <1>2, <1>5, <1>6 DEF locked

LEMMA TriesLock ==
    ASSUME NEW p \in Process, Types, TryLock(p)
    PROVE  /\ proc' \in [Process -> Processes]
           /\ proc[p].db \in Database
           /\ \A q \in Process \ {p} : proc'[q] = proc[q]
           /\ \/ proc'[p].step = "off" /\ held' = held
              \/ /\ proc'[p].step = "migrate" /\ proc'[p].db = proc[p].db
                 /\ proc'[p].file = proc[p].file
                 /\ \A f \in held : f[1] # <<proc[p].db, proc[p].file>>
                 /\ held' = held \cup {<< <<proc[p].db, proc[p].file>>, p>>}
<1>1. proc[p].db \in Database
  BY DEF Types, TryLock, At
<1>2. CASE \E f \in held : f[1] = <<proc[p].db, proc[p].file>>
  BY <1>1, <1>2, Stops DEF TryLock
<1>3. CASE ~\E f \in held : f[1] = <<proc[p].db, proc[p].file>>
  <2>1. Go(p, "migrate") /\ held' = held \cup {<< <<proc[p].db, proc[p].file>>, p>>}
    BY <1>3 DEF TryLock
  <2>2. "migrate" \in Steps \cup {"off"}
    BY DEF Steps, Booting
  <2>3. QED
    BY <1>1, <1>3, <2>1, <2>2, Goes
<1>4. QED
  BY <1>2, <1>3

LEMMA Ends ==
    ASSUME NEW p \in Process, Types, Unlock(p) \/ Kill(p)
    PROVE  /\ proc' \in [Process -> Processes]
           /\ proc'[p].step = "off"
           /\ \A q \in Process \ {p} : proc'[q] = proc[q]
           /\ held' = {f \in held : f[2] # p}
  BY Stops DEF Unlock, Kill

-----------------------------------------------------------------------------
(* Types are kept.                                                         *)
LEMMA ProcTypesStep ==
    ASSUME Types, NEW p \in Process,
           \/ \E cfg \in Config : Start(p, cfg)
           \/ OpenLock(p) \/ TryLock(p) \/ Works(p) \/ Unlock(p) \/ Kill(p) \/ Register(p)
    PROVE  /\ proc' \in [Process -> Processes]
           /\ \A q \in Process : proc'[q].step # "off" => proc'[q].db \in Database
           /\ \A q \in Process \ {p} : proc'[q] = proc[q]
<1> USE DEF Types, At
<1>1. CASE \E cfg \in Config : Start(p, cfg)
  BY <1>1, StartsNew
<1>2. CASE OpenLock(p)
  BY <1>2, OpensFile
<1>3. CASE TryLock(p)
  BY <1>3, TriesLock
<1>4. CASE Works(p)
  <2>1. proc[p].db \in Database
    BY <1>4, WorksGoOn DEF Using
  <2>2. QED
    BY <1>4, <2>1, WorksKeep
<1>5. CASE Unlock(p) \/ Kill(p)
  BY <1>5, Ends
<1>6. CASE Register(p)
  BY <1>6 DEF Register
<1>7. QED
  BY <1>1, <1>2, <1>3, <1>4, <1>5, <1>6

LEMMA DataTypesStep ==
    ASSUME Types, NEW p \in Process, Works(p) \/ Register(p)
    PROVE  /\ data' \in [Database -> Contents]
           /\ proc[p].db \in Database
           /\ \A d \in Database \ {proc[p].db} : data'[d] = data[d]
<1>1. proc[p].db \in Database
  BY WorksGoOn DEF Types, Register, At, Using
<1>2. data[proc[p].db] \in Contents /\ data \in [Database -> Contents]
  BY <1>1 DEF Types
<1>3. CASE UNCHANGED data
  BY <1>1, <1>2, <1>3
<1>4. ASSUME NEW c \in Contents, data' = [data EXCEPT ![proc[p].db] = c]
      PROVE  /\ data' \in [Database -> Contents]
             /\ \A d \in Database \ {proc[p].db} : data'[d] = data[d]
  BY <1>1, <1>2, <1>4
<1>5. \/ UNCHANGED data
      \/ \E c \in Contents : data' = [data EXCEPT ![proc[p].db] = c]
  <2>1. CASE Migrate(p)
    <3>1. data' = [data EXCEPT ![proc[p].db] = [data[proc[p].db] EXCEPT !.schema = TRUE]]
      BY <2>1, <1>1, <1>2 DEF Migrate
    <3>2. [data[proc[p].db] EXCEPT !.schema = TRUE] \in Contents
      BY <1>2 DEF Contents
    <3>3. QED BY <3>1, <3>2
  <2>2. CASE SeedUser(p)
    <3>1. \/ UNCHANGED data
          \/ data' = [data EXCEPT ![proc[p].db] =
                [data[proc[p].db] EXCEPT !.users = data[proc[p].db].users \cup {"demo owner"}]]
      BY <2>2, <1>1, <1>2 DEF SeedUser
    <3>2. [data[proc[p].db] EXCEPT !.users = data[proc[p].db].users \cup {"demo owner"}]
             \in Contents
      BY <1>2 DEF Contents
    <3>3. QED BY <3>1, <3>2
  <2>3. CASE SeedTeam(p)
    <3> DEFINE t == data[proc[p].db].teams \cup {IF proc[p].local THEN "local" ELSE "demo"}
               u == data[proc[p].db].users \cup (IF proc[p].local THEN {"local owner"} ELSE {})
    <3>1. data' = [data EXCEPT ![proc[p].db] =
             [data[proc[p].db] EXCEPT !.teams = t, !.users = u]]
      BY <2>3, <1>1, <1>2 DEF SeedTeam
    <3>2. /\ t \in SUBSET {"local", "demo", "registered"}
          /\ u \in SUBSET {"local owner", "demo owner"}
      BY <1>2 DEF Contents
    <3> HIDE DEF t, u
    <3>3. [data[proc[p].db] EXCEPT !.teams = t, !.users = u] \in Contents
      BY <1>2, <3>2 DEF Contents
    <3>4. QED BY <3>1, <3>3
  <2>4. CASE SeedExample(p)
    <3>1. data' = [data EXCEPT ![proc[p].db] = [data[proc[p].db] EXCEPT !.example = TRUE]]
      BY <2>4, <1>1, <1>2 DEF SeedExample
    <3>2. [data[proc[p].db] EXCEPT !.example = TRUE] \in Contents
      BY <1>2 DEF Contents
    <3>3. QED BY <3>1, <3>2
  <2>5. CASE SeedPlaybook(p)
    <3>1. data' = [data EXCEPT ![proc[p].db] = [data[proc[p].db] EXCEPT !.playbook = TRUE]]
      BY <2>5, <1>1, <1>2 DEF SeedPlaybook
    <3>2. [data[proc[p].db] EXCEPT !.playbook = TRUE] \in Contents
      BY <1>2 DEF Contents
    <3>3. QED BY <3>1, <3>2
  <2>6. CASE Register(p)
    <3>1. data' = [data EXCEPT ![proc[p].db] =
             [data[proc[p].db] EXCEPT !.teams = data[proc[p].db].teams \cup {"registered"}]]
      BY <2>6, <1>1, <1>2 DEF Register
    <3>2. [data[proc[p].db] EXCEPT !.teams = data[proc[p].db].teams \cup {"registered"}]
             \in Contents
      BY <1>2 DEF Contents
    <3>3. QED BY <3>1, <3>2
  <2>7. CASE ClearStale(p) \/ Bind(p) \/ Secure(p) \/ Fails(p) \/ CloseListener(p)
    BY <2>7 DEF ClearStale, Bind, Secure, Fails, CloseListener
  <2>8. QED
    BY <2>1, <2>2, <2>3, <2>4, <2>5, <2>6, <2>7 DEF Works
<1>6. QED
  BY <1>1, <1>2, <1>3, <1>4, <1>5

LEMMA TypesStep == Types /\ [Next]_vars => Types'
<1> SUFFICES ASSUME Types, [Next]_vars PROVE Types'
  OBVIOUS
<1>1. CASE UNCHANGED vars
  BY <1>1 DEF Types, vars, At, Contents
<1>2. CASE Next
  <2>1. PICK p \in Process :
           \/ \E cfg \in Config : Start(p, cfg)
           \/ OpenLock(p) \/ TryLock(p) \/ Works(p) \/ Unlock(p) \/ Kill(p) \/ Register(p)
    BY <1>2 DEF Next, Works
  <2>2. /\ proc' \in [Process -> Processes]
        /\ \A q \in Process : proc'[q].step # "off" => proc'[q].db \in Database
    BY <2>1, ProcTypesStep
  <2>3. inode' \in [Database -> Nat]
    <3>1. CASE OpenLock(p)
      BY <3>1, OpensFile
    <3>2. CASE ~OpenLock(p)
      BY <2>1, <3>2, WorksGoOn DEF Types, Start, TryLock, Unlock, Kill, Register
    <3>3. QED BY <3>1, <3>2
  <2>4. held' \subseteq (Database \X Nat) \X Process
    <3>1. CASE TryLock(p)
      <4>1. proc[p].db \in Database /\ proc[p].file \in Nat
        BY <3>1, TriesLock DEF Types, Processes
      <4>2. QED BY <3>1, <4>1, TriesLock DEF Types
    <3>2. CASE Unlock(p) \/ Kill(p)
      BY <3>2, Ends DEF Types
    <3>3. CASE ~(TryLock(p) \/ Unlock(p) \/ Kill(p))
      BY <2>1, <3>3, WorksGoOn DEF Types, Start, OpenLock, Register
    <3>4. QED BY <3>1, <3>2, <3>3
  <2>5. data' \in [Database -> Contents]
    <3>1. CASE Works(p) \/ Register(p)
      BY <3>1, DataTypesStep
    <3>2. CASE ~(Works(p) \/ Register(p))
      BY <2>1, <3>2 DEF Types, Start, OpenLock, TryLock, Unlock, Kill
    <3>3. QED BY <3>1, <3>2
  <2>6. socket' \in [kind : {None, "file", "socket"}, owner : Process \cup {None},
                     private : BOOLEAN]
    <3>1. NoFile \in [kind : {None, "file", "socket"}, owner : Process \cup {None},
                      private : BOOLEAN]
      BY DEF NoFile
    <3>2. CASE Bind(p)
      <4>1. \/ UNCHANGED socket
            \/ socket' = [kind |-> "socket", owner |-> p, private |-> FALSE]
        BY <3>2 DEF Bind
      <4>2. [kind |-> "socket", owner |-> p, private |-> FALSE]
               \in [kind : {None, "file", "socket"}, owner : Process \cup {None},
                    private : BOOLEAN]
        OBVIOUS
      <4>3. QED BY <4>1, <4>2 DEF Types
    <3>3. CASE Secure(p)
      BY <3>3 DEF Types, Secure
    <3>4. CASE ~(Bind(p) \/ Secure(p))
      BY <2>1, <3>1, <3>4 DEF Types, Works, Start, OpenLock, TryLock, Migrate, SeedUser,
           SeedTeam, SeedExample, SeedPlaybook, ClearStale, Fails, CloseListener, Unlock,
           Kill, Register
    <3>5. QED BY <3>2, <3>3, <3>4
  <2>7. boots' \in Nat
    BY <2>1, WorksGoOn DEF Types, Start, OpenLock, TryLock, Unlock, Kill, Register
  <2>8. crossed' \in BOOLEAN
    BY <2>1 DEF Types, Works, Start, OpenLock, TryLock, Migrate, SeedUser,
         SeedTeam, SeedExample, SeedPlaybook, ClearStale, Bind, Secure, Fails, CloseListener,
         Unlock, Kill, Register
  <2>9. QED
    BY <2>2, <2>3, <2>4, <2>5, <2>6, <2>7, <2>8 DEF Types, At
<1>3. QED
  BY <1>1, <1>2

-----------------------------------------------------------------------------
(* Locks are kept: what the file is called does not change once it is made,*)
(* a lock is only taken on a file nobody holds, and given up at the end.   *)
LEMMA LocksStep == Types /\ Locks /\ [Next]_vars => Locks'
<1> SUFFICES ASSUME Types, Locks, [Next]_vars PROVE Locks'
  OBVIOUS
<1> USE DEF Locks, FileIsCurrent, UsersHold, OneHolder, Opened, Using
<1>1. CASE UNCHANGED vars
  BY <1>1 DEF vars
<1>2. ASSUME NEW p \in Process, NEW cfg \in Config, Start(p, cfg) PROVE Locks'
  <2>1. inode' = inode /\ held' = held
    BY <1>2 DEF Start
  <2>2. QED
    BY <1>2, <2>1, StartsNew
<1>3. ASSUME NEW p \in Process, OpenLock(p) PROVE Locks'
  <2>1. held' = held
    BY <1>3 DEF OpenLock
  <2>2. FileIsCurrent'
    <3>1. \A q \in Process \ {p} : Opened(q) =>
             inode'[proc[q].db] # 0 /\ proc[q].file = inode'[proc[q].db]
      BY <1>3, OpensFile DEF Types, At
    <3>2. QED
      BY <1>3, <3>1, OpensFile
  <2>3. QED
    BY <1>3, <2>1, <2>2, OpensFile
<1>4. ASSUME NEW p \in Process, TryLock(p) PROVE Locks'
  <2>1. inode' = inode /\ proc[p].step = "lock"
    BY <1>4 DEF TryLock, At
  <2>2. QED
    BY <1>4, <2>1, TriesLock
<1>5. ASSUME NEW p \in Process, Works(p) PROVE Locks'
  <2>1. proc'[p].step \notin {"off", "open", "lock"}
    BY <1>5, WorksKeep DEF WorkSteps, Steps, Booting
  <2>2. QED
    BY <1>5, WorksKeep, WorksGoOn
<1>6. ASSUME NEW p \in Process, Unlock(p) \/ Kill(p) PROVE Locks'
  <2>1. inode' = inode
    BY <1>6 DEF Unlock, Kill
  <2>2. UsersHold'
    <3>1. SUFFICES ASSUME NEW q \in Process, Using(q)'
                   PROVE  << <<proc'[q].db, proc'[q].file>>, q>> \in held'
      OBVIOUS
    <3>2. q # p /\ proc'[q] = proc[q]
      BY <1>6, <3>1, Ends
    <3>3. << <<proc[q].db, proc[q].file>>, q>> \in held
      BY <3>1, <3>2
    <3>4. QED
      BY <1>6, <3>2, <3>3, Ends
  <2>3. QED
    BY <1>6, <2>1, <2>2, Ends
<1>7. ASSUME NEW p \in Process, Register(p) PROVE Locks'
  BY <1>7 DEF Register
<1>8. QED
  BY <1>1, <1>2, <1>3, <1>4, <1>5, <1>6, <1>7 DEF Next, Works

(* Two processes do not use one database: each would hold the one lock of  *)
(* the one file.                                                           *)
OneServer == \A p, q \in Process : p # q /\ Using(p) /\ Using(q) => proc[p].db # proc[q].db

LEMMA Apart == Types /\ Locks => OneServer
<1> SUFFICES ASSUME Locks, NEW p \in Process, NEW q \in Process,
                    Using(p), Using(q), proc[p].db = proc[q].db
             PROVE  p = q
  BY DEF OneServer
<1>1. proc[p].file = proc[q].file
  BY DEF Locks, FileIsCurrent, Opened, Using
<1>2. /\ << <<proc[p].db, proc[p].file>>, p>> \in held
      /\ << <<proc[p].db, proc[p].file>>, q>> \in held
  BY <1>1 DEF Locks, UsersHold
<1>3. QED
  BY <1>2 DEF Locks, OneHolder

-----------------------------------------------------------------------------
(* What self-hosted servers own stays: nobody else is at their database.   *)
LEMMA OthersOwn ==
    ASSUME Types, Locks, LocalOwns, NEW p \in Process,
           \A q \in Process \ {p} : proc'[q] = proc[q],
           \A d \in Database : data'[d] = data[d] \/ (Using(p) /\ d = proc[p].db)
    PROVE  \A q \in Process \ {p} : Owns(q)'
<1> SUFFICES ASSUME NEW q \in Process \ {p}, Using(q)' PROVE Owns(q)'
  BY DEF Owns
<1>1. Using(q) /\ proc'[q] = proc[q] /\ proc[q].db \in Database
  BY DEF Using, Types, At
<1>2. data'[proc[q].db] = data[proc[q].db]
  BY <1>1, Apart DEF OneServer
<1>3. QED
  BY <1>1, <1>2 DEF LocalOwns, Owns, Db, Using

LEMMA OwnsStep == Types /\ Locks /\ LocalOwns /\ [Next]_vars => LocalOwns'
<1> SUFFICES ASSUME Types, Locks, LocalOwns, [Next]_vars PROVE LocalOwns'
  OBVIOUS
<1>1. CASE UNCHANGED vars
  BY <1>1 DEF vars, LocalOwns, Owns, Using, Db
<1>2. ASSUME NEW p \in Process,
             \/ \E cfg \in Config : Start(p, cfg)
             \/ OpenLock(p) \/ TryLock(p) \/ Unlock(p) \/ Kill(p)
      PROVE  LocalOwns'
  <2>1. data' = data /\ proc'[p].step \in {"open", "lock", "migrate", "off"}
    BY <1>2, StartsNew, OpensFile, TriesLock, Ends
       DEF Start, OpenLock, TryLock, Unlock, Kill
  <2>2. Owns(p)'
    BY <2>1 DEF Owns, Using
  <2>3. QED
    BY <1>2, <2>1, <2>2, ProcTypesStep, OthersOwn DEF LocalOwns
<1>3. ASSUME NEW p \in Process, Register(p) PROVE LocalOwns'
  <2>1. Using(p) /\ proc' = proc /\ ~proc[p].local
    BY <1>3 DEF Register, Using, At
  <2>2. Owns(p)'
    BY <2>1 DEF Owns
  <2>3. QED
    BY <1>3, <2>1, <2>2, DataTypesStep, OthersOwn DEF LocalOwns
<1>4. ASSUME NEW p \in Process, Works(p) PROVE LocalOwns'
  <2> DEFINE d == proc[p].db
  <2>1. /\ Using(p) /\ d \in Database /\ proc[p] \in Processes /\ data[d] \in Contents
        /\ proc'[p].db = d /\ proc'[p].local = proc[p].local
    BY <1>4, WorksGoOn, WorksKeep DEF Types, Using, At
  <2>2. Owns(p)
    BY DEF LocalOwns
  <2>3. Owns(p)'
    <3> SUFFICES ASSUME proc[p].local PROVE Owns(p)'
      BY <2>1 DEF Owns
    <3>1. CASE Migrate(p)
      <4>1. /\ proc'[p].step = IF Foreign(d) THEN "unlock" ELSE "team"
            /\ data'[d].teams = data[d].teams
        <5> DEFINE s == IF Foreign(d) THEN "unlock" ELSE "team"
        <5>1. Go(p, s) /\ s \in Steps \cup {"off"}
          BY <3>1 DEF Migrate, Steps, Booting
        <5>2. proc'[p].step = s
          <6> HIDE DEF s
          <6> QED BY <5>1, Goes
        <5>3. data' = [data EXCEPT ![d] = [data[d] EXCEPT !.schema = TRUE]]
          BY <3>1, <2>1 DEF Migrate, Types
        <5>4. data'[d] = [data[d] EXCEPT !.schema = TRUE]
          BY <5>3, <2>1 DEF Types
        <5>5. QED
          BY <5>2, <5>4, <2>1 DEF Contents
      <4>2. QED
        BY <2>1, <4>1 DEF Owns, Db, Foreign
    <3>2. CASE SeedUser(p) \/ SeedExample(p)
      BY <3>2, <2>1, <2>2 DEF SeedUser, SeedExample, At, Owns
    <3>3. CASE SeedTeam(p)
      <4>1. /\ proc[p].step = "team" /\ proc'[p].step = "playbook"
            /\ data'[d].teams = data[d].teams \cup {"local"}
        <5>1. Go(p, "playbook") /\ "playbook" \in Steps \cup {"off"} /\ proc[p].step = "team"
          BY <3>3 DEF SeedTeam, At, Steps, Booting
        <5>2. PICK u \in SUBSET {"local owner", "demo owner"} :
                 data' = [data EXCEPT ![d] =
                    [data[d] EXCEPT !.teams = data[d].teams \cup {"local"}, !.users = u]]
          <6>1. data[d].users \cup {"local owner"} \in SUBSET {"local owner", "demo owner"}
            BY <2>1 DEF Contents
          <6>2. data' = [data EXCEPT ![d] =
                    [data[d] EXCEPT !.teams = data[d].teams \cup {"local"},
                                    !.users = data[d].users \cup {"local owner"}]]
            BY <3>3, <2>1 DEF SeedTeam, Types
          <6>3. QED BY <6>1, <6>2
        <5>3. data'[d] = [data[d] EXCEPT !.teams = data[d].teams \cup {"local"}, !.users = u]
          BY <5>2, <2>1 DEF Types
        <5>4. data'[d].teams = data[d].teams \cup {"local"}
          BY <5>3, <2>1 DEF Contents
        <5>5. QED
          BY <5>1, <5>4, Goes
      <4>2. QED
        BY <2>1, <2>2, <4>1 DEF Owns, Db
    <3>4. CASE SeedPlaybook(p)
      <4>1. /\ proc[p].step = "playbook" /\ proc'[p].step = "clear"
            /\ data'[d].teams = data[d].teams /\ data'[d].playbook
        <5>1. Go(p, "clear") /\ "clear" \in Steps \cup {"off"} /\ proc[p].step = "playbook"
          BY <3>4 DEF SeedPlaybook, At, Steps, Booting
        <5>2. data'[d] = [data[d] EXCEPT !.playbook = TRUE]
          BY <3>4, <2>1 DEF SeedPlaybook, Types
        <5>3. data'[d].teams = data[d].teams /\ data'[d].playbook
          BY <5>2, <2>1 DEF Contents
        <5>4. QED
          BY <5>1, <5>3, Goes
      <4>2. QED
        BY <2>1, <2>2, <4>1 DEF Owns, Db
    <3>5. CASE ClearStale(p) \/ Bind(p) \/ Secure(p) \/ Fails(p) \/ CloseListener(p)
      <4>1. data' = data
        BY <3>5 DEF ClearStale, Bind, Secure, Fails, CloseListener
      <4>2. \/ proc'[p].step \in {"unlock", "close"}
            \/ /\ proc[p].step \in {"clear", "bind", "secure"}
               /\ proc'[p].step \in {"bind", "secure", "serve"}
        <5>1. PICK s \in WorkSteps :
                /\ Go(p, s)
                /\ \/ s \in {"unlock", "close"}
                   \/ /\ proc[p].step \in {"clear", "bind", "secure"}
                      /\ s \in {"bind", "secure", "serve"}
          BY <3>5 DEF ClearStale, Bind, Secure, Fails, CloseListener, At, WorkSteps, Steps,
               Booting
        <5>2. s \in Steps \cup {"off"}
          BY DEF WorkSteps
        <5>3. QED
          BY <5>1, <5>2, Goes
      <4>3. QED
        BY <2>1, <2>2, <4>1, <4>2 DEF Owns, Db
    <3>6. QED
      BY <1>4, <3>1, <3>2, <3>3, <3>4, <3>5 DEF Works
  <2>4. QED
    BY <1>4, <2>1, <2>3, WorksKeep, DataTypesStep, OthersOwn DEF LocalOwns
<1>5. QED
  BY <1>1, <1>2, <1>3, <1>4 DEF Next, Works

-----------------------------------------------------------------------------
(* What the working steps do to the socket path: nothing, without getting  *)
(* nearer to it; clear it; bind; serve on a port; narrow the mode; unlink.  *)
Aside(p, s) == /\ UNCHANGED <<socket, crossed>>
               /\ s \notin {"bind", "secure", "serve"}
               /\ s = "close" => proc[p].step \in {"secure", "serve"}
Clears(p, s) == ClearStale(p) /\ (s = "bind" \/ (s = "unlock" /\ UNCHANGED socket))
Binds(p, s) == /\ proc[p].step = "bind" /\ proc[p].unix /\ s = "secure"
               /\ socket' = [kind |-> "socket", owner |-> p, private |-> FALSE]
               /\ UNCHANGED crossed
Listens(p) == ~proc[p].unix /\ UNCHANGED <<socket, crossed>>
Secures(p, s) == /\ proc[p].step = "secure" /\ s = "serve"
                 /\ socket' = [socket EXCEPT !.private = TRUE] /\ UNCHANGED crossed
Unlinks(p, s) == /\ proc[p].step = "close" /\ s = "unlock"
                 /\ proc[p].unix \/ UNCHANGED socket
                 /\ UNCHANGED crossed

LEMMA WorksAtSocket ==
    ASSUME NEW p \in Process, Works(p)
    PROVE  \E s \in WorkSteps :
             /\ Go(p, s)
             /\ \/ Aside(p, s) \/ Clears(p, s) \/ Binds(p, s)
                \/ Listens(p) \/ Secures(p, s) \/ Unlinks(p, s)
<1> USE DEF At, WorkSteps, Steps, Booting
<1>1. CASE Migrate(p)
  <2>1. UNCHANGED <<socket, crossed>>
    BY <1>1 DEF Migrate
  <2>2. \/ Go(p, "unlock") \/ Go(p, "team") \/ Go(p, "user") \/ Go(p, "clear")
    BY <1>1 DEF Migrate
  <2>3. \A s \in {"unlock", "team", "user", "clear"} : s \in WorkSteps /\ Aside(p, s)
    BY <2>1 DEF Aside
  <2>4. QED
    BY <2>2, <2>3
<1>2. CASE SeedUser(p) \/ SeedTeam(p)
  <2>1. UNCHANGED <<socket, crossed>>
    BY <1>2 DEF SeedUser, SeedTeam
  <2>2. \/ Go(p, "unlock") \/ Go(p, "team") \/ Go(p, "playbook") \/ Go(p, "example")
    BY <1>2 DEF SeedUser, SeedTeam
  <2>3. \A s \in {"unlock", "team", "playbook", "example"} : s \in WorkSteps /\ Aside(p, s)
    BY <2>1 DEF Aside
  <2>4. QED
    BY <2>2, <2>3
<1>3. CASE SeedExample(p) \/ SeedPlaybook(p)
  BY <1>3 DEF SeedExample, SeedPlaybook, Aside
<1>4. CASE ClearStale(p)
  <2>1. \/ Go(p, "unlock") /\ UNCHANGED socket
        \/ Go(p, "bind")
    BY <1>4 DEF ClearStale
  <2>2. "bind" \in WorkSteps /\ "unlock" \in WorkSteps
    OBVIOUS
  <2>3. Clears(p, "bind")
    BY <1>4 DEF Clears
  <2>4. UNCHANGED socket => Clears(p, "unlock")
    BY <1>4 DEF Clears
  <2>5. QED
    BY <2>1, <2>2, <2>3, <2>4
<1>5. CASE Bind(p)
  <2>1. /\ proc[p].step = "bind" /\ UNCHANGED crossed
        /\ \/ Go(p, "unlock") /\ UNCHANGED socket
           \/ /\ Go(p, "secure") /\ proc[p].unix
              /\ socket' = [kind |-> "socket", owner |-> p, private |-> FALSE]
           \/ Go(p, "serve") /\ ~proc[p].unix /\ UNCHANGED socket
    BY <1>5 DEF Bind
  <2>2. QED
    BY <2>1 DEF Aside, Binds, Listens
<1>6. CASE Secure(p)
  <2>1. /\ proc[p].step = "secure" /\ UNCHANGED crossed
        /\ \/ Go(p, "close") /\ UNCHANGED socket
           \/ Go(p, "serve") /\ socket' = [socket EXCEPT !.private = TRUE]
    BY <1>6 DEF Secure
  <2>2. QED
    BY <2>1 DEF Aside, Secures
<1>7. CASE Fails(p)
  BY <1>7 DEF Fails, Aside
<1>8. CASE CloseListener(p)
  BY <1>8 DEF CloseListener, Unlinks
<1>9. QED
  BY <1>1, <1>2, <1>3, <1>4, <1>5, <1>6, <1>7, <1>8 DEF Works

(* Unless two met there, the socket path stays with whoever cleared it: a  *)
(* second would use the same database, or have been seen when it cleared.  *)
LEMMA SocketStep ==
    Types /\ Locks /\ AloneAtSocket /\ SocketIsOwn /\ [Next]_vars
        => AloneAtSocket' /\ SocketIsOwn'
<1> SUFFICES ASSUME Types, Locks, AloneAtSocket, SocketIsOwn, [Next]_vars, ~crossed'
             PROVE  AloneAtSocket' /\ SocketIsOwn'
  BY DEF AloneAtSocket, SocketIsOwn
<1>1. CASE UNCHANGED vars
  BY <1>1 DEF vars, AloneAtSocket, SocketIsOwn, AtSocket, PastClear
<1>2. ASSUME NEW p \in Process,
             \/ \E cfg \in Config : Start(p, cfg)
             \/ OpenLock(p) \/ TryLock(p) \/ Unlock(p) \/ Kill(p)
      PROVE  AloneAtSocket' /\ SocketIsOwn'
  <2>1. UNCHANGED <<socket, crossed>>
    BY <1>2 DEF Start, OpenLock, TryLock, Unlock, Kill
  <2>2. proc'[p].step \in {"open", "lock", "migrate", "off"}
    BY <1>2, StartsNew, OpensFile, TriesLock, Ends
  <2>3. \A q \in Process \ {p} : proc'[q] = proc[q]
    BY <1>2, ProcTypesStep
  <2>4. QED
    BY <2>1, <2>2, <2>3 DEF AloneAtSocket, SocketIsOwn, AtSocket, PastClear
<1>3. ASSUME NEW p \in Process, Register(p) PROVE AloneAtSocket' /\ SocketIsOwn'
  BY <1>3 DEF Register, AloneAtSocket, SocketIsOwn, AtSocket, PastClear
<1>4. ASSUME NEW p \in Process, Works(p) PROVE AloneAtSocket' /\ SocketIsOwn'
  <2>1. PICK s \in WorkSteps :
          /\ Go(p, s)
          /\ \/ Aside(p, s) \/ Clears(p, s) \/ Binds(p, s)
             \/ Listens(p) \/ Secures(p, s) \/ Unlinks(p, s)
    BY <1>4, WorksAtSocket
  <2>2. /\ proc'[p].step = s /\ proc'[p].unix = proc[p].unix
        /\ \A q \in Process \ {p} : proc'[q] = proc[q]
    BY <2>1, Goes DEF WorkSteps
  <2>3. ~crossed
    BY <2>1 DEF Aside, Clears, ClearStale, Binds, Listens, Secures, Unlinks
  <2> USE DEF AtSocket, PastClear
  <2>4. CASE Aside(p, s) \/ Listens(p)
    <3>1. UNCHANGED socket /\ (AtSocket(p)' => AtSocket(p) \/ Listens(p))
      BY <2>2, <2>4 DEF Aside, Listens
    <3>2. AtSocket(p)' => s \notin {"secure", "serve"} /\ AtSocket(p)
      BY <2>2, <2>4 DEF Aside, Listens
    <3>3. QED
      BY <2>2, <2>3, <3>1, <3>2 DEF AloneAtSocket, SocketIsOwn
  <2>5. CASE Clears(p, s) /\ s = "unlock"
    BY <2>2, <2>3, <2>5 DEF Clears, AloneAtSocket, SocketIsOwn
  <2>6. CASE Clears(p, s) /\ s = "bind"
    <3>1. ASSUME proc[p].unix, NEW q \in Process \ {p}, AtSocket(q) PROVE FALSE
      <4>1. Using(p) /\ Using(q) /\ proc[q].unix
        BY <1>4, <3>1, WorksGoOn DEF Using
      <4>2. proc[q].db # proc[p].db
        BY <4>1, Apart DEF OneServer
      <4>3. QED
        BY <2>6, <3>1, <4>1, <4>2 DEF Clears, ClearStale
    <3>2. ~proc[p].unix => UNCHANGED socket
      BY <2>6 DEF Clears, ClearStale
    <3>3. QED
      BY <2>2, <2>3, <2>6, <3>1, <3>2 DEF AloneAtSocket, SocketIsOwn
  <2>7. CASE Binds(p, s)
    <3>1. \A q \in Process \ {p} : ~AtSocket(q)
      BY <2>3, <2>7 DEF Binds, AloneAtSocket
    <3>2. socket'.owner = p
      BY <2>7 DEF Binds
    <3>3. QED
      BY <2>2, <2>7, <3>1, <3>2 DEF Binds, AloneAtSocket, SocketIsOwn
  <2>8. CASE Secures(p, s)
    <3>1. socket'.owner = socket.owner /\ socket'.private
      BY <2>8 DEF Secures, Types
    <3>2. QED
      BY <2>2, <2>3, <2>8, <3>1 DEF Secures, AloneAtSocket, SocketIsOwn
  <2>9. CASE Unlinks(p, s)
    <3>1. proc[p].unix => \A q \in Process \ {p} : ~AtSocket(q)
      BY <2>3, <2>9 DEF Unlinks, AloneAtSocket
    <3>2. QED
      BY <2>2, <2>3, <2>9, <3>1 DEF Unlinks, AloneAtSocket, SocketIsOwn
  <2>10. QED
    BY <2>1, <2>4, <2>5, <2>6, <2>7, <2>8, <2>9 DEF Clears
<1>5. QED
  BY <1>1, <1>2, <1>3, <1>4 DEF Next, Works

-----------------------------------------------------------------------------
LEMMA IndInvStep == IndInv /\ [Next]_vars => IndInv'
  BY TypesStep, LocksStep, OwnsStep, SocketStep DEF IndInv

(* One server at a time has a database in use, from its migrations to its  *)
(* last step, whatever is killed and whatever lock file is left; and a     *)
(* socket server that is up is the one its path leads to, at owner-only    *)
(* mode, unless servers of two databases were pointed at one path          *)
(* (cmd/server/lock.go, listen.go).                                        *)
THEOREM OneServerEach == Spec => []ServersKeepApart
<1>1. IndInv => ServersKeepApart
  BY Apart DEF IndInv, OneServer, ServersKeepApart, SocketIsOwn, AtSocket, PastClear, At
<1>2. QED
  BY InitInv, IndInvStep, <1>1, PTL DEF Spec

(* A self-hosted server, which asks for no key, never serves a database    *)
(* that holds a workspace of somebody else, whatever servers ran on it     *)
(* before, and it has its playbook (tenant.EnsureLocalTeam).               *)
THEOREM LocalServesOnlyItsOwn == Spec => []LocalServesItsOwn
<1>1. IndInv => LocalServesItsOwn
  BY DEF IndInv, LocalOwns, Owns, LocalServesItsOwn, At, Using
<1>2. QED
  BY InitInv, IndInvStep, <1>1, PTL DEF Spec

-----------------------------------------------------------------------------
(* Beside the other parts: what a part that runs does, and what becomes of *)
(* the others.                                                             *)
LEMMA ServerRuns ==
    ASSUME part = "server", [MCNext]_hostVars PROVE part' = part /\ [Next]_vars
BY DEF MCNext, hostVars

(* One server at a time has a database in use, through crashes and left    *)
(* lock files; one that asks for no key serves only what is its own        *)
(* (cmd/server/lock.go, listen.go; tenant.EnsureLocalTeam).                *)
THEOREM ServersApart == MCSpec => []DatabasesApart
<1> DEFINE Inv == part = "server" => IndInv
<1>1. MCInit => Inv
  BY InitInv DEF MCInit
<1>2. Inv /\ [MCNext]_hostVars => Inv'
  <2> SUFFICES ASSUME Inv, [MCNext]_hostVars, part' = "server" PROVE IndInv'
    BY DEF Inv
  <2>1. part = "server"
    BY DEF MCNext, hostVars
  <2>2. QED
    BY <2>1, ServerRuns, IndInvStep
<1>3. Inv => DatabasesApart
  <2> SUFFICES ASSUME IndInv PROVE ServersKeepApart /\ LocalServesItsOwn
    BY DEF DatabasesApart
  <2>1. ServersKeepApart
    BY Apart DEF IndInv, OneServer, ServersKeepApart, SocketIsOwn, AtSocket, PastClear, At
  <2>2. LocalServesItsOwn
    BY DEF IndInv, LocalOwns, Owns, LocalServesItsOwn, At, Using
  <2>3. QED BY <2>1, <2>2
<1> HIDE DEF Inv
<1>4. QED
  BY <1>1, <1>2, <1>3, PTL DEF MCSpec

-----------------------------------------------------------------------------
(* The tools.  What is offered: one tool writes skills.                    *)
OnSkills == {Tools!Status, Tools!LoadSkill, Tools!ListSkills}
OnDrawers == {Tools!AddDrawer, Tools!GetDrawer, Tools!UpdateDrawer,
              Tools!DeleteDrawer, Tools!ListDrawers, Tools!SearchTool,
              Tools!CheckDuplicate, Tools!ListWings, Tools!ListRooms,
              Tools!GetTaxonomy, Tools!GetAAAKSpec, Tools!Reconnect}
OnText == {Tools!DiaryWrite, Tools!DiaryRead, Tools!Mine}
OnGraph == {Tools!CreateTunnel, Tools!DeleteTunnel, Tools!ListTunnels,
            Tools!FindTunnels, Tools!FollowTunnels, Tools!ListHallways,
            Tools!DeleteHallway, Tools!Traverse, Tools!GraphStats,
            Tools!RecomputeGraph}
OnFacts == {Tools!KGAdd, Tools!KGInvalidate, Tools!KGQuery, Tools!KGStats,
            Tools!KGTimeline}
Others == {Tools!MergeWing, Tools!MemoriesFiledAway, Tools!Skillset}
Offered == {Tools!UpdateSkill} \cup OnSkills \cup OnDrawers \cup OnText \cup OnGraph
               \cup OnFacts \cup Others

LEMMA CatalogOffered == ASSUME NEW t \in Tools!Range(Tools!Catalog) PROVE t \in Offered
<1>1. /\ <<Tools!Status, Tools!LoadSkill, Tools!ListSkills, Tools!UpdateSkill>> \in Seq(Offered)
      /\ <<Tools!DiaryWrite, Tools!DiaryRead, Tools!Mine>> \in Seq(Offered)
      /\ <<Tools!MergeWing, Tools!MemoriesFiledAway, Tools!Skillset>> \in Seq(Offered)
  BY DEF Offered, OnSkills, OnText, Others
<1>2. Tools!Drawers \in Seq(Offered)
  BY DEF Offered, OnDrawers, Tools!Drawers
<1>3. Tools!Graph \in Seq(Offered)
  BY DEF Offered, OnGraph, Tools!Graph
<1>4. Tools!KG \in Seq(Offered)
  BY DEF Offered, OnFacts, Tools!KG
<1>5. Tools!Catalog \in Seq(Offered)
  BY <1>1, <1>2, <1>3, <1>4 DEF Tools!Catalog
<1>6. QED BY <1>5 DEF Tools!Range

LEMMA OneWritesSkills ==
    ASSUME NEW t \in Offered, "skills" \in t.writes PROVE t = Tools!UpdateSkill
<1> USE DEF Tools!Tool
<1>1. t \notin OnSkills
  BY DEF OnSkills, Tools!Status, Tools!LoadSkill, Tools!ListSkills
<1>2. t \notin OnDrawers
  BY DEF OnDrawers, Tools!AddDrawer, Tools!GetDrawer, Tools!UpdateDrawer, Tools!DeleteDrawer,
         Tools!ListDrawers, Tools!SearchTool, Tools!CheckDuplicate,
         Tools!ListWings, Tools!ListRooms, Tools!GetTaxonomy,
         Tools!GetAAAKSpec, Tools!Reconnect
<1>3. t \notin OnText
  BY DEF OnText, Tools!DiaryWrite, Tools!DiaryRead, Tools!Mine
<1>4. t \notin OnGraph
  BY DEF OnGraph, Tools!CreateTunnel, Tools!DeleteTunnel, Tools!ListTunnels,
         Tools!FindTunnels, Tools!FollowTunnels, Tools!ListHallways,
         Tools!DeleteHallway, Tools!Traverse, Tools!GraphStats,
         Tools!RecomputeGraph
<1>5. t \notin OnFacts
  BY DEF OnFacts, Tools!KGAdd, Tools!KGInvalidate, Tools!KGQuery, Tools!KGStats,
         Tools!KGTimeline
<1>6. t \notin Others
  BY DEF Others, Tools!MergeWing, Tools!MemoriesFiledAway, Tools!Skillset
<1>7. QED BY <1>1, <1>2, <1>3, <1>4, <1>5, <1>6 DEF Offered

LEMMA ReadOnlyTakesNone == ASSUME NEW t \in Tools!ReadOnlyTools PROVE t.writes = {}
<1>1. CASE t \in {Tools!Status, Tools!ListSkills, Tools!ListWings, Tools!GetTaxonomy,
                  Tools!GetAAAKSpec, Tools!Skillset, Tools!GraphStats, Tools!KGStats,
                  Tools!MemoriesFiledAway}
  BY <1>1 DEF Tools!Tool, Tools!Status, Tools!ListSkills, Tools!ListWings, Tools!GetTaxonomy,
              Tools!GetAAAKSpec, Tools!Skillset, Tools!GraphStats, Tools!KGStats,
              Tools!MemoriesFiledAway
<1>2. CASE t \in {p[1] : p \in Tools!Primary}
  <2>1. t \in {Tools!SearchTool, Tools!GetDrawer, Tools!ListDrawers, Tools!CheckDuplicate,
               Tools!ListRooms, Tools!LoadSkill, Tools!DiaryRead, Tools!ListTunnels,
               Tools!FindTunnels, Tools!FollowTunnels, Tools!ListHallways, Tools!Traverse,
               Tools!KGQuery, Tools!KGTimeline}
    BY <1>2 DEF Tools!Primary
  <2>2. QED
    BY <2>1 DEF Tools!Tool, Tools!SearchTool, Tools!GetDrawer, Tools!ListDrawers,
               Tools!CheckDuplicate, Tools!ListRooms, Tools!LoadSkill, Tools!DiaryRead,
               Tools!ListTunnels, Tools!FindTunnels, Tools!FollowTunnels, Tools!ListHallways,
               Tools!Traverse, Tools!KGQuery, Tools!KGTimeline
<1>3. QED BY <1>1, <1>2 DEF Tools!ReadOnlyTools

(* A call that was admitted over HTTP has been paid for and not counted     *)
(* among the answers, one of the command line is of a tool that only reads; *)
(* an update is given only what its caller sent; what is written is what    *)
(* the operation may leave; nothing is written before it has run.           *)
Called == stage = "called" => call.way \in {"http", "cli"}
Paid ==
    /\ answers <= used
    /\ stage \in {"admitted", "running", "answered"} =>
          /\ Tools!Metered => answers < used
          /\ call.way \in {"http", "cli"}
          /\ call.way = "cli" => call.tool \in Tools!ReadOnlyTools
Armed == stage = "running" /\ call.way = "http" => args \subseteq call.given
Unwritten == stage \notin {"answered", "refused"} => written = {}

(* What the operation of a call may leave written.                          *)
Leavings(w) ==
    /\ w # {} => call.way = "http" /\ answers < used
    /\ call.tool = Tools!UpdateDrawer =>
          /\ w \ {"vectors"} \subseteq call.given
          /\ w # {} => call.blank = {}
    /\ w \cap {"content", "wing", "room"} # {} => "vectors" \in w
    /\ call.tool \in {Tools!AddDrawer, Tools!DiaryWrite, Tools!Mine} /\ "drawers" \in w =>
          "vectors" \in w
    /\ "skills" \in w => call.caller = "writer"

ToolsInv ==
    /\ used \in Nat /\ answers \in Nat /\ call.tool \in Offered
    /\ Called /\ Paid /\ Armed /\ Unwritten /\ Leavings(written)

LEMMA NothingLeft == Leavings({})
BY DEF Leavings

LEMMA ToolsInit == Tools!Init => ToolsInv
<1> SUFFICES ASSUME Tools!Init PROVE ToolsInv
  OBVIOUS
<1> USE DEF Tools!Init, Tools!None
<1>1. call.tool \in Offered
  BY DEF Offered, OnSkills
<1>2. Called /\ Paid /\ Armed /\ Unwritten
  BY DEF Called, Paid, Armed, Unwritten
<1>3. Leavings(written)
  BY NothingLeft
<1>4. QED BY <1>1, <1>2, <1>3 DEF ToolsInv

LEMMA UpdateIs ==
    /\ Tools!UpdateDrawer.writes = {"content", "wing", "room", "vectors"}
    /\ Tools!UpdateDrawer.takes = {"content", "wing", "room"}
BY DEF Tools!UpdateDrawer, Tools!Tool

(* The fields of a drawer are written by updates alone.                     *)
LEMMA OneWritesFields ==
    ASSUME NEW t \in Offered, t.writes \cap {"content", "wing", "room"} # {}
    PROVE  t = Tools!UpdateDrawer
<1> USE DEF Tools!Tool
<1>1. CASE t \in OnSkills \cup {Tools!UpdateSkill}
  BY <1>1 DEF OnSkills, Tools!Status, Tools!LoadSkill, Tools!ListSkills, Tools!UpdateSkill
<1>2. CASE t \in OnDrawers
  BY <1>2 DEF OnDrawers, Tools!AddDrawer, Tools!GetDrawer, Tools!UpdateDrawer, Tools!DeleteDrawer,
              Tools!ListDrawers, Tools!SearchTool, Tools!CheckDuplicate,
              Tools!ListWings, Tools!ListRooms, Tools!GetTaxonomy,
              Tools!GetAAAKSpec, Tools!Reconnect
<1>3. CASE t \in OnText
  BY <1>3 DEF OnText, Tools!DiaryWrite, Tools!DiaryRead, Tools!Mine
<1>4. CASE t \in OnGraph
  BY <1>4 DEF OnGraph, Tools!CreateTunnel, Tools!DeleteTunnel, Tools!ListTunnels,
              Tools!FindTunnels, Tools!FollowTunnels, Tools!ListHallways,
              Tools!DeleteHallway, Tools!Traverse, Tools!GraphStats,
              Tools!RecomputeGraph
<1>5. CASE t \in OnFacts
  BY <1>5 DEF OnFacts, Tools!KGAdd, Tools!KGInvalidate, Tools!KGQuery, Tools!KGStats,
              Tools!KGTimeline
<1>6. CASE t \in Others
  BY <1>6 DEF Others, Tools!MergeWing, Tools!MemoriesFiledAway, Tools!Skillset
<1>7. QED BY <1>1, <1>2, <1>3, <1>4, <1>5, <1>6 DEF Offered

LEMMA FilersAre ==
    ASSUME NEW t \in {Tools!AddDrawer, Tools!DiaryWrite, Tools!Mine}
    PROVE  "vectors" \in t.writes /\ t # Tools!UpdateDrawer /\ t # Tools!DeleteDrawer
BY DEF Tools!Tool, Tools!AddDrawer, Tools!DiaryWrite, Tools!Mine, Tools!UpdateDrawer,
       Tools!DeleteDrawer

(* What an operation writes: nothing for the command line, of a drawer only *)
(* the fields sent and the vector first, and skills if that is what its     *)
(* tool is for.                                                             *)
LEMMA PartlyLeft ==
    ASSUME ToolsInv, stage = "running", Tools!Acceptable, NEW w \in Tools!Partly
    PROVE  Leavings(w)
<1>1. w \subseteq Tools!Patch
  BY DEF Tools!Partly
<1>2. CASE call.tool = Tools!UpdateDrawer
  <2>1. /\ w \subseteq {"vectors"} \/ w = Tools!Patch
        /\ call.blank = {}
    BY <1>2 DEF Tools!Partly, Tools!Acceptable
  <2>2. call.tool \notin Tools!ReadOnlyTools
    BY <1>2, ReadOnlyTakesNone, UpdateIs
  <2>3. call.way = "http" /\ answers < used
    BY <2>2 DEF ToolsInv, Paid, Tools!Metered
  <2>4. PICK fields : fields = args \cap {"content", "wing", "room"}
    OBVIOUS
  <2>5. fields \subseteq call.given
    BY <2>3, <2>4 DEF ToolsInv, Armed
  <2>6. Tools!Patch = fields \cup (IF fields = {} THEN {} ELSE {"vectors"})
    BY <1>2, <2>4, UpdateIs DEF Tools!Patch
  <2>7. call.tool \notin {Tools!AddDrawer, Tools!DiaryWrite, Tools!Mine}
    BY <1>2, FilersAre
  <2>8. "skills" \notin w
    BY <1>1, <2>4, <2>6
  <2>9. w \cap {"content", "wing", "room"} # {} => "vectors" \in w
    BY <2>1, <2>4, <2>6
  <2>10. w \ {"vectors"} \subseteq call.given
    BY <1>1, <2>5, <2>6
  <2>11. QED BY <2>1, <2>3, <2>7, <2>8, <2>9, <2>10 DEF Leavings
<1>3. CASE call.tool # Tools!UpdateDrawer
  <2>1. Tools!Patch = call.tool.writes
    BY <1>3 DEF Tools!Patch
  <2>2. w # {} => call.way = "http" /\ answers < used
    <3>1. call.way = "cli" => w = {}
      BY <1>1, <2>1, ReadOnlyTakesNone DEF ToolsInv, Paid
    <3>2. QED BY <3>1 DEF ToolsInv, Paid, Tools!Metered
  <2>3. w \cap {"content", "wing", "room"} = {}
    BY <1>1, <1>3, <2>1, OneWritesFields DEF ToolsInv
  <2>4. ASSUME call.tool \in {Tools!AddDrawer, Tools!DiaryWrite, Tools!Mine}, "drawers" \in w
        PROVE  "vectors" \in w
    <3>1. "vectors" \in call.tool.writes /\ call.tool # Tools!DeleteDrawer
      BY <2>4, FilersAre
    <3>2. QED BY <2>1, <2>4, <3>1 DEF Tools!Partly, Tools!FirstWrite
  <2>5. ASSUME "skills" \in w PROVE call.caller = "writer"
    <3>1. call.tool = Tools!UpdateSkill
      BY <1>1, <2>1, <2>5, OneWritesSkills DEF ToolsInv
    <3>2. QED BY <3>1 DEF Tools!Acceptable, Tools!CanWrite
  <2>6. QED BY <1>3, <2>2, <2>3, <2>4, <2>5 DEF Leavings
<1>4. QED BY <1>2, <1>3

LEMMA CallFacts ==
    ASSUME NEW w, NEW tools, NEW callers, NEW words,
           NEW c \in Tools!Calls(w, tools, callers, words)
    PROVE  c.way = w /\ c.tool \in tools
<1>1. PICK t \in tools :
        c \in [way : {w}, tool : {t}, given : Tools!Given(t), blank : Tools!BlankIn(t),
               caller : callers, word : words]
  BY DEF Tools!Calls
<1>2. QED BY <1>1

LEMMA ToolsStep == ToolsInv /\ [Tools!Next]_(Tools!vars) => ToolsInv'
<1> SUFFICES ASSUME ToolsInv, [Tools!Next]_(Tools!vars) PROVE ToolsInv'
  OBVIOUS
<1>u. CASE UNCHANGED Tools!vars
  BY <1>u DEF Tools!vars, Tools!Metered, ToolsInv, Called, Paid, Armed, Unwritten, Leavings
<1>1. CASE Tools!Request
  <2>1. \/ call' \in Tools!Calls("http", Tools!Range(Tools!Catalog), {"none", "reader", "writer"}, {FALSE})
        \/ call' \in Tools!Calls("cli", Tools!Range(Tools!Catalog), {"none", "token", "team"}, {TRUE, FALSE})
    BY <1>1 DEF Tools!Request
  <2>2. call'.tool \in Tools!Range(Tools!Catalog) /\ call'.way \in {"http", "cli"}
    BY <2>1, CallFacts
  <2>3. call'.tool \in Offered
    BY <2>2, CatalogOffered
  <2>4. stage' = "called" /\ written' = {} /\ UNCHANGED <<used, answers>>
    BY <1>1 DEF Tools!Request
  <2>5. Leavings(written)'
    BY <2>4 DEF Leavings
  <2>6. QED
    BY <2>2, <2>3, <2>4, <2>5 DEF ToolsInv, Called, Paid, Armed, Unwritten
<1>2. CASE Tools!Admit
  <2>1. /\ stage = "called" /\ stage' = "admitted" /\ UNCHANGED <<call, answers, written>>
        /\ used' = IF Tools!Metered THEN used + 1 ELSE used
        /\ call.way = "cli" => call.tool \in Tools!ReadOnlyTools
    BY <1>2 DEF Tools!Admit, Tools!Known
  <2>2. Tools!Metered' <=> Tools!Metered
    BY <2>1 DEF Tools!Metered
  <2>3. Paid'
    BY <2>1, <2>2 DEF Paid, ToolsInv, Called
  <2>4. used' \in Nat
    BY <2>1 DEF ToolsInv
  <2>5. Leavings(written)'
    BY <2>1 DEF Leavings, ToolsInv, Unwritten
  <2>6. QED BY <2>1, <2>3, <2>4, <2>5 DEF ToolsInv, Called, Armed, Unwritten
<1>3. CASE Tools!NotAdmitted \/ Tools!MissingArgument \/ Tools!NotAccepted
  <2>1. /\ stage \in {"called", "admitted", "running"} /\ stage' = "refused"
        /\ UNCHANGED <<call, used, answers, written>>
    BY <1>3 DEF Tools!NotAdmitted, Tools!MissingArgument, Tools!NotAccepted, Tools!Refuse
  <2>2. Leavings(written)'
    BY <2>1 DEF Leavings, ToolsInv
  <2>3. QED
    BY <2>1, <2>2 DEF ToolsInv, Called, Paid, Armed, Unwritten
<1>4. CASE Tools!ReadArguments
  <2>1. call.way = "http" => args' = Tools!EntryOf(call.given)
    BY <1>4 DEF Tools!ReadArguments, Tools!ParseArgs
  <2>2. call.way = "http" => args' \subseteq call.given
    BY <2>1 DEF Tools!EntryOf
  <2>3. stage = "admitted" /\ stage' = "running" /\ UNCHANGED <<call, used, answers, written>>
    BY <1>4 DEF Tools!ReadArguments
  <2>4. Leavings(written)' /\ (Tools!Metered' <=> Tools!Metered)
    BY <2>3 DEF Leavings, ToolsInv, Tools!Metered
  <2>5. QED
    BY <2>2, <2>3, <2>4 DEF ToolsInv, Called, Paid, Armed, Unwritten
<1>5. CASE Tools!Run
  <2>1. /\ stage = "running" /\ stage' \in {"answered", "refused"} /\ Tools!Acceptable
        /\ written' \in Tools!Partly /\ UNCHANGED <<call, used, answers, args>>
    BY <1>5 DEF Tools!Run
  <2>2. PICK w : w = written'
    OBVIOUS
  <2>3. Leavings(w)
    BY <2>1, <2>2, PartlyLeft
  <2>4. Leavings(written)' /\ (Tools!Metered' <=> Tools!Metered)
    BY <2>1, <2>2, <2>3 DEF Leavings, Tools!Metered
  <2>5. QED
    BY <2>1, <2>4 DEF ToolsInv, Called, Paid, Armed, Unwritten
<1>6. CASE Tools!Reply
  <2>1. /\ call' = Tools!None /\ stage' = "idle" /\ written' = {} /\ UNCHANGED used
        /\ answers' = IF stage = "answered" /\ Tools!Metered THEN answers + 1 ELSE answers
    BY <1>6 DEF Tools!Reply
  <2>2. call'.tool \in Offered
    BY <2>1 DEF Tools!None, Offered, OnSkills
  <2>3. answers' \in Nat /\ answers' <= used'
    BY <2>1 DEF ToolsInv, Paid
  <2>4. Leavings(written)'
    BY <2>1 DEF Leavings
  <2>5. QED
    BY <2>1, <2>2, <2>3, <2>4 DEF ToolsInv, Called, Paid, Armed, Unwritten
<1>7. QED
  BY <1>u, <1>1, <1>2, <1>3, <1>4, <1>5, <1>6 DEF Tools!Next

LEMMA ToolsHold == ASSUME ToolsInv PROVE Tools!CallsPaidAndBounded
<1>1. Tools!Owing => answers < used
  BY DEF Tools!Owing, ToolsInv, Paid, Leavings
<1>2. answers + (IF Tools!Owing THEN 1 ELSE 0) <= used
  BY <1>1 DEF ToolsInv, Paid
<1>3. QED BY <1>2 DEF Tools!CallsPaidAndBounded, ToolsInv, Leavings

LEMMA ToolsRun ==
    ASSUME part = "tools", [MCNext]_hostVars PROVE part' = part /\ [Tools!Next]_(Tools!vars)
BY DEF MCNext, hostVars, calling, Tools!vars

(* What is answered, or left written by a failed call, was paid for; the   *)
(* command line writes nothing, an update only fields its caller sent, all *)
(* of them fit, after the vector, and no skill is written by a reader      *)
(* (server.go:113-116, mcp.go:225-227, drawers.go:144-145, service.go:335).*)
THEOREM CallsArePaid == MCSpec => []CallsPaidAndBounded
<1> DEFINE Inv == part = "tools" => ToolsInv
<1>1. MCInit => Inv
  BY ToolsInit DEF MCInit
<1>2. Inv /\ [MCNext]_hostVars => Inv'
  <2> SUFFICES ASSUME Inv, [MCNext]_hostVars, part' = "tools" PROVE ToolsInv'
    BY DEF Inv
  <2>1. part = "tools"
    BY DEF MCNext, hostVars
  <2>2. QED
    BY <2>1, ToolsRun, ToolsStep
<1>3. Inv => CallsPaidAndBounded
  BY ToolsHold DEF CallsPaidAndBounded
<1> HIDE DEF Inv
<1>4. QED
  BY <1>1, <1>2, <1>3, PTL DEF MCSpec

-----------------------------------------------------------------------------
(* The proxy.  Until a message is answered or streamed, all that is written *)
(* is about earlier ones; what a stream has written about its message are   *)
(* events, then a result after which nothing more waits to be written.      *)
Lines == [about : Nat, what : {"event", "result", "refusal", "error"}]

AboutEarlier ==
    reading \in {"read", "posted"} => \A i \in DOMAIN stdout : stdout[i].about < message
StreamsRequest ==
    reading = "streaming" =>
        /\ Proxy!Request(message)
        /\ \A i \in DOMAIN stdout :
             /\ stdout[i].about <= message
             /\ stdout[i].about = message /\ stdout[i].what # "event" =>
                  stdout[i].what = "result" /\ events = <<>>
ProxyInv ==
    /\ message \in Nat \ {0} /\ stdout \in Seq(Lines)
    /\ events \in {<<>>, <<"event">>, <<"result">>}
    /\ AboutEarlier /\ StreamsRequest /\ Proxy!RepliesInOrder

LEMMA ProxyInit == Proxy!Init => ProxyInv
BY DEF Proxy!Init, ProxyInv, AboutEarlier, StreamsRequest, Proxy!RepliesInOrder

LEMMA AppendsLine ==
    ASSUME stdout \in Seq(Lines), NEW w \in {"event", "result", "refusal", "error"},
           message \in Nat \ {0}, stdout' = Append(stdout, Proxy!Line(w))
    PROVE  /\ stdout' \in Seq(Lines)
           /\ DOMAIN stdout = 1..Len(stdout) /\ Len(stdout) \in Nat
           /\ DOMAIN stdout' = 1..Len(stdout) + 1
           /\ \A i \in DOMAIN stdout : stdout'[i] = stdout[i]
           /\ stdout'[Len(stdout) + 1] = [about |-> message, what |-> w]
           /\ \A i \in DOMAIN stdout : stdout[i].about \in Nat
<1>1. Proxy!Line(w) = [about |-> message, what |-> w] /\ Proxy!Line(w) \in Lines
  BY DEF Lines, Proxy!Line
<1>2. DOMAIN stdout = 1..Len(stdout) /\ Len(stdout) \in Nat
  BY LenProperties
<1>3. /\ stdout' \in Seq(Lines) /\ Len(stdout') = Len(stdout) + 1
      /\ \A i \in 1..Len(stdout) : stdout'[i] = stdout[i]
      /\ stdout'[Len(stdout) + 1] = Proxy!Line(w)
  BY <1>1, AppendProperties
<1>4. DOMAIN stdout' = 1..Len(stdout) + 1
  BY <1>3, LenProperties
<1>5. \A i \in DOMAIN stdout : stdout[i] \in Lines
  BY <1>2
<1>6. \A i \in DOMAIN stdout : stdout[i].about \in Nat
  BY <1>5 DEF Lines
<1>7. QED BY <1>1, <1>2, <1>3, <1>4, <1>6

(* A line of another kind than an event closes its message.                *)
LEMMA AnsweredOnce ==
    ASSUME ProxyInv, NEW w \in {"result", "refusal", "error"},
           reading = "posted",
           Proxy!Request(message) \/ w = "refusal",
           stdout' = Append(stdout, Proxy!Line(w)), message' = message + 1,
           reading' = "read", events' = <<>>, UNCHANGED <<stdin, silent>>
    PROVE  ProxyInv'
<1>1. /\ stdout' \in Seq(Lines)
      /\ DOMAIN stdout = 1..Len(stdout) /\ Len(stdout) \in Nat
      /\ DOMAIN stdout' = 1..Len(stdout) + 1
      /\ \A i \in DOMAIN stdout : stdout'[i] = stdout[i]
      /\ stdout'[Len(stdout) + 1] = [about |-> message, what |-> w]
      /\ \A i \in DOMAIN stdout : stdout[i].about \in Nat
  BY AppendsLine DEF ProxyInv
<1>2. \A i \in DOMAIN stdout : stdout[i].about < message
  BY DEF ProxyInv, AboutEarlier
<1>3. \A i \in DOMAIN stdout' : stdout'[i].about < message'
  BY <1>1, <1>2 DEF ProxyInv
<1>4. Proxy!RepliesInOrder'
  <2>1. \A i, j \in DOMAIN stdout' : i < j =>
          /\ stdout'[i].about <= stdout'[j].about
          /\ stdout'[i].what # "event" => stdout'[i].about < stdout'[j].about
    BY <1>1, <1>2 DEF ProxyInv, Proxy!RepliesInOrder
  <2>2. \A i \in DOMAIN stdout' :
          stdin'[stdout'[i].about] = "request" \/ stdout'[i].what = "refusal"
    BY <1>1 DEF ProxyInv, Proxy!RepliesInOrder, Proxy!Request
  <2>3. \A m \in 1..message' - 1 : stdin'[m] = "request" /\ m \notin silent' =>
          \E i \in DOMAIN stdout' : stdout'[i].about = m /\ stdout'[i].what # "event"
    <3> SUFFICES ASSUME NEW m \in 1..message' - 1, stdin'[m] = "request", m \notin silent'
                 PROVE  \E i \in DOMAIN stdout' : stdout'[i].about = m /\ stdout'[i].what # "event"
      OBVIOUS
    <3>1. CASE m = message
      BY <1>1, <3>1
    <3>2. CASE m # message
      <4>1. m \in 1..message - 1
        BY <3>2 DEF ProxyInv
      <4>2. \E i \in DOMAIN stdout : stdout[i].about = m /\ stdout[i].what # "event"
        BY <4>1 DEF ProxyInv, Proxy!RepliesInOrder, Proxy!Request
      <4>3. QED BY <4>2, <1>1
    <3>3. QED BY <3>1, <3>2
  <2>4. QED BY <2>1, <2>2, <2>3 DEF Proxy!RepliesInOrder, Proxy!Request
<1>5. QED
  BY <1>1, <1>3, <1>4 DEF ProxyInv, AboutEarlier, StreamsRequest

(* A message that owes nothing, was given no usable answer or has had its   *)
(* result is left behind.                                                  *)
LEMMA LeavesMessage ==
    ASSUME ProxyInv, reading \in {"posted", "streaming"},
           UNCHANGED <<stdin, stdout>>, message' = message + 1,
           reading' = "read", events' = <<>>, silent \subseteq silent',
           \/ ~Proxy!Request(message) \/ message \in silent'
           \/ \E i \in DOMAIN stdout : stdout[i].about = message /\ stdout[i].what # "event"
    PROVE  ProxyInv'
<1>0. \A i \in DOMAIN stdout : stdout[i] \in Lines
  BY LenProperties DEF ProxyInv
<1>1. \A i \in DOMAIN stdout : stdout[i].about \in Nat /\ stdout[i].about <= message
  BY <1>0 DEF ProxyInv, AboutEarlier, StreamsRequest, Lines
<1>2. \A i \in DOMAIN stdout' : stdout'[i].about < message'
  BY <1>1 DEF ProxyInv
<1>3. \A m \in 1..message' - 1 : stdin'[m] = "request" /\ m \notin silent' =>
          \E i \in DOMAIN stdout' : stdout'[i].about = m /\ stdout'[i].what # "event"
  <2> SUFFICES ASSUME NEW m \in 1..message' - 1, stdin'[m] = "request", m \notin silent'
               PROVE  \E i \in DOMAIN stdout : stdout[i].about = m /\ stdout[i].what # "event"
    OBVIOUS
  <2>1. CASE m = message
    BY <2>1 DEF Proxy!Request
  <2>2. CASE m # message
    <3>1. m \in 1..message - 1
      BY <2>2 DEF ProxyInv
    <3>2. QED BY <3>1 DEF ProxyInv, Proxy!RepliesInOrder, Proxy!Request
  <2>3. QED BY <2>1, <2>2
<1>4. Proxy!RepliesInOrder'
  BY <1>3 DEF ProxyInv, Proxy!RepliesInOrder, Proxy!Request
<1>5. QED
  BY <1>2, <1>4 DEF ProxyInv, AboutEarlier, StreamsRequest

LEMMA Finishes ==
    ASSUME ProxyInv, Proxy!Finished
    PROVE  \E i \in DOMAIN stdout : stdout[i].about = message /\ stdout[i].what # "event"
BY DEF Proxy!Finished, Proxy!Line

LEMMA NotFinished ==
    ASSUME ProxyInv, reading = "streaming", ~Proxy!Finished
    PROVE  \A i \in DOMAIN stdout : stdout[i].about = message => stdout[i].what = "event"
<1> SUFFICES ASSUME NEW i \in DOMAIN stdout, stdout[i].about = message, stdout[i].what # "event"
             PROVE  FALSE
  OBVIOUS
<1>1. stdout[i] \in Lines /\ stdout[i].what = "result"
  BY LenProperties DEF ProxyInv, StreamsRequest
<1>2. stdout[i] = [about |-> message, what |-> "result"]
  BY <1>1 DEF Lines
<1>3. QED BY <1>2 DEF Proxy!Finished, Proxy!Line

(* A proxy that ends writes nothing more.                                  *)
LEMMA EndKeeps ==
    ASSUME ProxyInv, reading' = "ended", UNCHANGED <<stdin, message, events, stdout, silent>>
    PROVE  ProxyInv'
BY DEF ProxyInv, AboutEarlier, StreamsRequest, Proxy!RepliesInOrder, Proxy!Request

(* What a stream says of its message comes in order, a result last.        *)
LEMMA FlushKeeps ==
    ASSUME ProxyInv, Proxy!Flush PROVE ProxyInv'
<1>1. CASE reading' = "ended" /\ UNCHANGED <<stdin, message, events, stdout, silent>>
  BY <1>1, EndKeeps
<1>2. CASE /\ stdout' = Append(stdout, Proxy!Line(events[1])) /\ events' = <<>>
           /\ UNCHANGED <<stdin, message, reading, silent>>
  <2>1. reading = "streaming" /\ events[1] \in {"event", "result"} /\ events # <<>>
    BY DEF Proxy!Flush, ProxyInv
  <2>2. /\ stdout' \in Seq(Lines)
        /\ DOMAIN stdout = 1..Len(stdout) /\ Len(stdout) \in Nat
        /\ DOMAIN stdout' = 1..Len(stdout) + 1
        /\ \A i \in DOMAIN stdout : stdout'[i] = stdout[i]
        /\ stdout'[Len(stdout) + 1] = [about |-> message, what |-> events[1]]
        /\ \A i \in DOMAIN stdout : stdout[i].about \in Nat
    BY <1>2, <2>1, AppendsLine DEF ProxyInv
  <2>3. \A i \in DOMAIN stdout : stdout[i].about <= message
                             /\ (stdout[i].about = message => stdout[i].what = "event")
    BY <2>1 DEF ProxyInv, StreamsRequest
  <2>4. Proxy!Request(message) /\ message \in Nat
    BY <2>1 DEF ProxyInv, StreamsRequest
  <2>5. \A i, j \in DOMAIN stdout' : i < j =>
          /\ stdout'[i].about <= stdout'[j].about
          /\ stdout'[i].what # "event" => stdout'[i].about < stdout'[j].about
    BY <2>2, <2>3, <2>4 DEF ProxyInv, Proxy!RepliesInOrder
  <2>6. \A i \in DOMAIN stdout' :
          stdin'[stdout'[i].about] = "request" \/ stdout'[i].what = "refusal"
    BY <1>2, <2>2, <2>4 DEF ProxyInv, Proxy!RepliesInOrder, Proxy!Request
  <2>7. \A m \in 1..message' - 1 : stdin'[m] = "request" /\ m \notin silent' =>
          \E i \in DOMAIN stdout' : stdout'[i].about = m /\ stdout'[i].what # "event"
    <3> SUFFICES ASSUME NEW m \in 1..message - 1, stdin[m] = "request", m \notin silent
                 PROVE  \E i \in DOMAIN stdout' : stdout'[i].about = m /\ stdout'[i].what # "event"
      BY <1>2
    <3>1. PICK i \in DOMAIN stdout : stdout[i].about = m /\ stdout[i].what # "event"
      BY DEF ProxyInv, Proxy!RepliesInOrder, Proxy!Request
    <3>2. QED BY <3>1, <2>2
  <2>8. Proxy!RepliesInOrder'
    BY <2>5, <2>6, <2>7 DEF Proxy!RepliesInOrder, Proxy!Request
  <2>9. StreamsRequest'
    <3>1. \A i \in DOMAIN stdout' :
             /\ stdout'[i].about <= message
             /\ stdout'[i].about = message /\ stdout'[i].what # "event" => stdout'[i].what = "result"
      BY <2>1, <2>2, <2>3, <2>4
    <3>2. QED BY <1>2, <3>1, <2>4 DEF StreamsRequest, Proxy!Request
  <2>10. QED
    BY <1>2, <2>1, <2>2, <2>8, <2>9 DEF ProxyInv, AboutEarlier
<1>3. QED BY <1>1, <1>2 DEF Proxy!Flush, Proxy!End

LEMMA WriteKeeps ==
    ASSUME ProxyInv, NEW w \in {"result", "refusal", "error"}, reading = "posted",
           Proxy!Request(message) \/ w = "refusal", Proxy!Write(w), UNCHANGED silent
    PROVE  ProxyInv'
BY AnsweredOnce, EndKeeps DEF Proxy!Write, Proxy!End, Proxy!NextMessage

LEMMA ProxyStep == ProxyInv /\ [Proxy!Next]_(Proxy!vars) => ProxyInv'
<1> SUFFICES ASSUME ProxyInv, [Proxy!Next]_(Proxy!vars) PROVE ProxyInv'
  OBVIOUS
<1>u. CASE UNCHANGED Proxy!vars
  BY <1>u DEF Proxy!vars, ProxyInv, AboutEarlier, StreamsRequest, Proxy!RepliesInOrder, Proxy!Request
<1>1. CASE Proxy!ReadFails \/ Proxy!StreamBreaks
  BY <1>1, EndKeeps DEF Proxy!ReadFails, Proxy!StreamBreaks, Proxy!End
<1>2. CASE Proxy!Read
  <2>1. CASE reading' = "ended"
    BY <1>2, <2>1, EndKeeps DEF Proxy!Read
  <2>2. CASE reading' = "posted"
    BY <1>2, <2>2 DEF Proxy!Read, ProxyInv, AboutEarlier, StreamsRequest, Proxy!RepliesInOrder,
                      Proxy!Request
  <2>3. QED BY <1>2, <2>1, <2>2 DEF Proxy!Read, Proxy!End
<1>3. CASE Proxy!TransportFails
  <2>1. reading = "posted" /\ UNCHANGED silent
    BY <1>3 DEF Proxy!TransportFails
  <2>2. CASE Proxy!Answers(message)
    <3>1. Proxy!Request(message) /\ Proxy!Write("error")
      BY <1>3, <2>2 DEF Proxy!TransportFails, Proxy!Answers, Proxy!Request
    <3>2. QED BY <2>1, <3>1, WriteKeeps
  <2>3. CASE ~Proxy!Answers(message)
    <3>1. ~Proxy!Request(message) /\ Proxy!NextMessage /\ UNCHANGED stdout
      BY <1>3, <2>3 DEF Proxy!TransportFails, Proxy!Answers, Proxy!Request
    <3>2. QED BY <2>1, <3>1, LeavesMessage DEF Proxy!NextMessage
  <2>4. QED BY <2>2, <2>3
<1>4. CASE Proxy!Accepted
  BY <1>4, LeavesMessage DEF Proxy!Accepted, Proxy!NextMessage
<1>5. CASE Proxy!Refused
  BY <1>5, WriteKeeps DEF Proxy!Refused
<1>6. CASE Proxy!Answered
  <2>1. reading = "posted" /\ Proxy!Request(message)
    BY <1>6 DEF Proxy!Answered
  <2>2. CASE Proxy!Write("result") /\ UNCHANGED silent
    BY <2>1, <2>2, WriteKeeps
  <2>3. CASE Proxy!NextMessage /\ silent' = silent \union {message} /\ UNCHANGED stdout
    BY <2>1, <2>3, LeavesMessage DEF Proxy!NextMessage
  <2>4. QED BY <1>6, <2>2, <2>3 DEF Proxy!Answered
<1>7. CASE Proxy!OpenStream
  <2>1. \A i \in DOMAIN stdout : stdout[i] \in Lines
    BY LenProperties DEF ProxyInv
  <2>2. \A i \in DOMAIN stdout : stdout[i].about \in Nat
    BY <2>1 DEF Lines
  <2>3. /\ reading = "posted" /\ reading' = "streaming" /\ Proxy!Request(message)
        /\ UNCHANGED <<stdin, message, stdout, silent>> /\ events' = <<>>
    BY <1>7 DEF Proxy!OpenStream
  <2>4. QED
    BY <2>2, <2>3 DEF ProxyInv, AboutEarlier, StreamsRequest, Proxy!RepliesInOrder, Proxy!Request
<1>8. CASE Proxy!Event
  <2>1. /\ reading = "streaming" /\ ~Proxy!Finished
        /\ events' \in {<<"event">>, <<"result">>}
        /\ UNCHANGED <<stdin, message, reading, stdout, silent>>
    BY <1>8 DEF Proxy!Event
  <2>2. \A i \in DOMAIN stdout : stdout[i].about = message => stdout[i].what = "event"
    BY <2>1, NotFinished
  <2>3. QED
    BY <2>1, <2>2 DEF ProxyInv, AboutEarlier, StreamsRequest, Proxy!RepliesInOrder, Proxy!Request
<1>9. CASE Proxy!Flush
  BY <1>9, FlushKeeps
<1>10. CASE Proxy!EndStream
  <2>1. /\ reading = "streaming" /\ Proxy!NextMessage /\ UNCHANGED stdout
        /\ silent' = IF Proxy!Finished THEN silent ELSE silent \union {message}
    BY <1>10 DEF Proxy!EndStream
  <2>2. QED BY <2>1, Finishes, LeavesMessage DEF Proxy!NextMessage
<1>11. QED
  BY <1>u, <1>1, <1>2, <1>3, <1>4, <1>5, <1>6, <1>7, <1>8, <1>9, <1>10 DEF Proxy!Next

LEMMA ProxyRuns ==
    ASSUME part = "proxy", [MCNext]_hostVars PROVE part' = part /\ [Proxy!Next]_(Proxy!vars)
BY DEF MCNext, hostVars, proxying, Proxy!vars

(* For any number of messages and of events in a stream: each request is    *)
(* answered once and in order, unless the server itself gave no answer; a   *)
(* stream's reports come before its result; and nothing but a refusal is    *)
(* written about a notification (cmd/server/stdio.go).                     *)
THEOREM RepliesAreInOrder == MCSpec => []RepliesInOrder
<1> DEFINE Inv == part = "proxy" => ProxyInv
<1>1. MCInit => Inv
  BY ProxyInit DEF MCInit
<1>2. Inv /\ [MCNext]_hostVars => Inv'
  <2> SUFFICES ASSUME Inv, [MCNext]_hostVars, part' = "proxy" PROVE ProxyInv'
    BY DEF Inv
  <2>1. part = "proxy"
    BY DEF MCNext, hostVars
  <2>2. QED
    BY <2>1, ProxyRuns, ProxyStep
<1>3. Inv => RepliesInOrder
  BY DEF ProxyInv, RepliesInOrder
<1> HIDE DEF Inv
<1>4. QED
  BY <1>1, <1>2, <1>3, PTL DEF MCSpec

-----------------------------------------------------------------------------
(* The archive of a workspace.  The rows there may be, ...                 *)
Me == Row("users", "", Requester, "")
Home == Row("teams", Asked, "", "")

RowIs(r) ==
    \/ r.table = "plans"
    \/ r.table = "users"
    \/ r.table = "teams" /\ r.other = ""
    \/ r.table \in {"memberships", "api_keys"} /\ r.team \in Workspaces /\ r.user \in People
    \/ r.table = "share_requests" /\ r.team \in Workspaces /\ r.other \in Workspaces
    \/ r.table = "vectors" /\ r.team \in Workspaces /\ r.other \in {"base", "closets"}

LEMMA RowsAre == ASSUME NEW r \in AllRows PROVE RowIs(r)
<1>1. ASSUME NEW n \in {"base", "closets"}, r \in {Row("vectors", m, "", n) : m \in Workspaces}
      PROVE  RowIs(r)
  <2> PICK m \in Workspaces : r = Row("vectors", m, "", n)
    BY <1>1
  <2> QED BY DEF Row, RowIs
<1>2. CASE r \in SharedRows
  <2> PICK p \in Workspaces \X Workspaces : r = Row("share_requests", p[1], "", p[2])
    BY <1>2 DEF SharedRows
  <2> QED BY DEF Row, RowIs
<1>3. CASE r = Row("plans", "", "", "")
  BY <1>3 DEF Row, RowIs
<1>4. CASE r \in {Row("users", "", u, "") : u \in People}
  <2> PICK u \in People : r = Row("users", "", u, "")
    BY <1>4
  <2> QED BY DEF Row, RowIs
<1>5. CASE r \in {Row("teams", m, "", "") : m \in Workspaces}
  <2> PICK m \in Workspaces : r = Row("teams", m, "", "")
    BY <1>5
  <2> QED BY DEF Row, RowIs
<1>6. ASSUME NEW t \in {"memberships", "api_keys"}, r \in MemberRows(t)
      PROVE  RowIs(r)
  <2> PICK p \in Workspaces \X People : r = Row(t, p[1], p[2], "")
    BY <1>6 DEF MemberRows
  <2> QED BY DEF Row, RowIs
<1> QED
  BY <1>1, <1>2, <1>3, <1>4, <1>5, <1>6 DEF AllRows, FirstRows, AccountRows, VectorRows

LEMMA FirstAreRows == FirstRows \subseteq AllRows /\ Me \in FirstRows /\ Home \in FirstRows
<1>1. Me \in {Row("users", "", u, "") : u \in People}
  BY NamesAssumption DEF NamesApart, Me
<1>2. Home \in {Row("teams", m, "", "") : m \in Workspaces}
  BY NamesAssumption DEF NamesApart, Home
<1> QED
  BY <1>1, <1>2 DEF FirstRows, AllRows, AccountRows

LEMMA MeAndHome ==
    /\ Me.table = "users" /\ Me.user = Requester
    /\ Home.table = "teams" /\ Home.team = Asked /\ Home.other = ""
BY DEF Me, Home, Row

(* ... which table of the manifest takes them, and as whose.               *)
Tables == 1..17
Takes(i, r) == Export!Manifest[i].table = r.table /\ Export!Where(Export!Manifest[i].scope, r)
Whole == {"plans", "users", "memberships", "api_keys"}
EntryIs(e) ==
    \/ e.table = "plans" /\ e.scope = "all"
    \/ e.table = "users" /\ e.scope = "user"
    \/ e.table \in {"memberships", "api_keys"} /\ e.scope = "team user"
    \/ e.table \notin Whole /\ e.scope \in {"team", "namespace", "share"}

LEMMA ManifestLong == Len(Export!Manifest) = 17 /\ DOMAIN Export!Manifest = Tables
BY DEF Export!Manifest, Tables

LEMMA ManifestIs ==
    /\ Export!Manifest[1].table = "plans" /\ Export!Manifest[1].scope = "all"
    /\ Export!Manifest[2].table = "users" /\ Export!Manifest[2].scope = "user"
    /\ Export!Manifest[3].table = "teams" /\ Export!Manifest[3].scope = "team"
    /\ Export!Manifest[4].table = "memberships" /\ Export!Manifest[4].scope = "team user"
    /\ Export!Manifest[5].table = "api_keys" /\ Export!Manifest[5].scope = "team user"
    /\ Export!Manifest[6].table = "skills" /\ Export!Manifest[6].scope = "team"
    /\ Export!Manifest[7].table = "usage_counters" /\ Export!Manifest[7].scope = "team"
    /\ Export!Manifest[8].table = "subscriptions" /\ Export!Manifest[8].scope = "team"
    /\ Export!Manifest[9].table = "vectors" /\ Export!Manifest[9].scope = "namespace"
    /\ Export!Manifest[10].table = "drawers" /\ Export!Manifest[10].scope = "team"
    /\ Export!Manifest[11].table = "closets" /\ Export!Manifest[11].scope = "team"
    /\ Export!Manifest[12].table = "hallways" /\ Export!Manifest[12].scope = "team"
    /\ Export!Manifest[13].table = "tunnels" /\ Export!Manifest[13].scope = "team"
    /\ Export!Manifest[14].table = "kg_entities" /\ Export!Manifest[14].scope = "team"
    /\ Export!Manifest[15].table = "kg_triples" /\ Export!Manifest[15].scope = "team"
    /\ Export!Manifest[16].table = "share_requests" /\ Export!Manifest[16].scope = "share"
    /\ Export!Manifest[17].table = "merge_jobs" /\ Export!Manifest[17].scope = "team"
<1> USE DEF Export!Manifest
<1>1. /\ Export!Manifest[1].table = "plans" /\ Export!Manifest[1].scope = "all"
      /\ Export!Manifest[2].table = "users" /\ Export!Manifest[2].scope = "user"
      /\ Export!Manifest[3].table = "teams" /\ Export!Manifest[3].scope = "team"
  OBVIOUS
<1>2. /\ Export!Manifest[4].table = "memberships" /\ Export!Manifest[4].scope = "team user"
      /\ Export!Manifest[5].table = "api_keys" /\ Export!Manifest[5].scope = "team user"
      /\ Export!Manifest[6].table = "skills" /\ Export!Manifest[6].scope = "team"
  OBVIOUS
<1>3. /\ Export!Manifest[7].table = "usage_counters" /\ Export!Manifest[7].scope = "team"
      /\ Export!Manifest[8].table = "subscriptions" /\ Export!Manifest[8].scope = "team"
      /\ Export!Manifest[9].table = "vectors" /\ Export!Manifest[9].scope = "namespace"
  OBVIOUS
<1>4. /\ Export!Manifest[10].table = "drawers" /\ Export!Manifest[10].scope = "team"
      /\ Export!Manifest[11].table = "closets" /\ Export!Manifest[11].scope = "team"
      /\ Export!Manifest[12].table = "hallways" /\ Export!Manifest[12].scope = "team"
  OBVIOUS
<1>5. /\ Export!Manifest[13].table = "tunnels" /\ Export!Manifest[13].scope = "team"
      /\ Export!Manifest[14].table = "kg_entities" /\ Export!Manifest[14].scope = "team"
      /\ Export!Manifest[15].table = "kg_triples" /\ Export!Manifest[15].scope = "team"
  OBVIOUS
<1>6. /\ Export!Manifest[16].table = "share_requests" /\ Export!Manifest[16].scope = "share"
      /\ Export!Manifest[17].table = "merge_jobs" /\ Export!Manifest[17].scope = "team"
  OBVIOUS
<1> HIDE DEF Export!Manifest
<1> QED
  BY <1>1, <1>2, <1>3, <1>4, <1>5, <1>6

LEMMA EntriesAre == ASSUME NEW i \in Tables PROVE EntryIs(Export!Manifest[i])
<1> DEFINE E(k) == EntryIs(Export!Manifest[k])
<1>1. E(1) /\ E(2) /\ E(3) /\ E(4) /\ E(5)
  BY ManifestIs DEF EntryIs, Whole
<1>2. E(6) /\ E(7) /\ E(8) /\ E(9) /\ E(10) /\ E(11)
  BY ManifestIs DEF EntryIs, Whole
<1>3. E(12) /\ E(13) /\ E(14) /\ E(15) /\ E(16) /\ E(17)
  BY ManifestIs DEF EntryIs, Whole
<1> HIDE DEF E
<1>4. E(i)
  BY <1>1, <1>2, <1>3 DEF Tables
<1> QED
  BY <1>4 DEF E

LEMMA WhereIs ==
    ASSUME NEW r
    PROVE  /\ Export!Where("all", r)
           /\ (Export!Where("user", r) <=> r.user = Requester)
           /\ (Export!Where("team user", r) <=> r.team = Asked /\ r.user = Requester)
           /\ (Export!Where("team", r) <=> r.team = Asked)
           /\ (Export!Where("namespace", r) <=> r.team = Asked)
           /\ (Export!Where("share", r) <=> r.team = Asked \/ r.other = Asked)
BY Zenon DEF Export!Where

LEMMA OfIs ==
    ASSUME NEW r
    PROVE  /\ r.table = "plans" => Export!Of(r)
           /\ r.table = "users" => (Export!Of(r) <=> r.user = Requester)
           /\ r.table \in {"memberships", "api_keys"} =>
                (Export!Of(r) <=> r.user = Requester /\ r.team = Asked)
           /\ r.table \notin Whole => (Export!Of(r) <=> r.team = Asked \/ r.other = Asked)
BY Zenon DEF Export!Of, Whole

(* An entry takes only what is of the workspace or of the requester, ...   *)
LEMMA TakenIsTheirs ==
    ASSUME NEW i \in Tables, NEW r, Takes(i, r)
    PROVE  Export!Of(r) /\ r.table \in Export!Exported
<1>1. Export!Of(r)
  BY EntriesAre, WhereIs, OfIs DEF Takes, EntryIs, Whole
<1>2. r.table \in Export!Exported
  BY ManifestLong DEF Takes, Export!Exported
<1> QED
  BY <1>1, <1>2

(* ... and some entry takes each row that is.                              *)
LEMMA TheirsIsTaken ==
    ASSUME NEW r \in AllRows, Export!Of(r)
    PROVE  \E i \in Tables : Takes(i, r)
<1>0. 1 \in Tables /\ 2 \in Tables /\ 3 \in Tables /\ 4 \in Tables
         /\ 5 \in Tables /\ 9 \in Tables /\ 16 \in Tables
  BY DEF Tables
<1>1. CASE r.table = "plans"
  <2>1. Takes(1, r)
    BY <1>1, ManifestIs, WhereIs DEF Takes
  <2> QED BY <1>0, <2>1
<1>2. CASE r.table = "users"
  <2>1. Takes(2, r)
    BY <1>2, ManifestIs, WhereIs, OfIs DEF Takes
  <2> QED BY <1>0, <2>1
<1>3. CASE r.table = "teams" /\ r.other = ""
  <2>1. r.other # Asked
    BY <1>3, NamesAssumption DEF NamesApart
  <2>0. r.table \notin Whole
    BY <1>3 DEF Whole
  <2>2. r.team = Asked
    BY <2>0, <2>1, OfIs
  <2>3. Takes(3, r)
    BY <1>3, <2>2, ManifestIs, WhereIs DEF Takes
  <2> QED BY <1>0, <2>3
<1>4. CASE r.table \in {"memberships", "api_keys"}
  <2>1. Takes(4, r) \/ Takes(5, r)
    BY <1>4, ManifestIs, WhereIs, OfIs DEF Takes
  <2> QED BY <1>0, <2>1
<1>5. CASE r.table = "vectors" /\ r.other \in {"base", "closets"}
  <2>1. r.table \notin Whole /\ r.other # Asked
    BY <1>5, NamesAssumption DEF NamesApart, Whole
  <2>2. r.team = Asked
    BY <2>1, OfIs
  <2>3. Takes(9, r)
    BY <1>5, <2>2, ManifestIs, WhereIs DEF Takes
  <2> QED BY <1>0, <2>3
<1>6. CASE r.table = "share_requests"
  <2>0. r.table \notin Whole
    BY <1>6 DEF Whole
  <2>1. r.team = Asked \/ r.other = Asked
    BY <2>0, OfIs
  <2>2. Takes(16, r)
    BY <1>6, <2>1, ManifestIs, WhereIs DEF Takes
  <2> QED BY <1>0, <2>2
<1> QED
  BY RowsAre, <1>1, <1>2, <1>3, <1>4, <1>5, <1>6 DEF RowIs

LEMMA RedactIs ==
    ASSUME NEW r
    PROVE  /\ Export!Redact(r).row = r /\ Export!Redact(r).carries \subseteq {"totp_secret"}
           /\ Export!Redact(r).carries # {} => r.table = "users"
<1>1. /\ Export!Credentials(r.table) \ Export!Redactors(r.table) \subseteq {"totp_secret"}
      /\ Export!Credentials(r.table) \ Export!Redactors(r.table) # {} => r.table = "users"
  BY DEF Export!Credentials, Export!Redactors
<1> QED BY <1>1 DEF Export!Redact

(* While tables are copied, rows that stood since the export began and are *)
(* taken by an entry behind it are in the archive, and the archive has     *)
(* nothing but what entries take.                                          *)
Copied(r, i) == Takes(i, r) => Export!Redact(r) \in archive
TakenCopy(copy) == \E i \in Tables, r \in AllRows : Takes(i, r) /\ copy = Export!Redact(r)
ExportInv ==
    /\ live \subseteq AllRows /\ Me \in live /\ Home \in live
    /\ phase \in {"idle", "copying", "built", "streaming"}
    /\ table \in Nat /\ 1 <= table /\ table <= 18
    /\ phase \in {"built", "streaming"} => table = 18
    /\ phase # "idle" =>
         /\ stood \subseteq live /\ Me \in stood /\ Home \in stood
         /\ \A r \in stood : \A i \in Tables : i < table => Copied(r, i)
    /\ \A copy \in archive : TakenCopy(copy)

LEMMA ExportRuns ==
    ASSUME part = "export", [MCNext]_hostVars
    PROVE  part' = part /\ [Export!Next]_(Export!vars)
BY DEF MCNext, hostVars, exporting, Export!vars

LEMMA ExportStarts ==
    ASSUME Export!Init
    PROVE  ExportInv
BY FirstAreRows DEF Export!Init, ExportInv

LEMMA ExportSteps ==
    ASSUME ExportInv, [Export!Next]_(Export!vars)
    PROVE  ExportInv'
<1> USE DEF ExportInv
<1>1. CASE Export!BeginExport
  BY <1>1 DEF Export!BeginExport, Tables
<1>2. CASE Export!CopyTable
  <2> DEFINE Now == {r \in live : /\ r.table = Export!Manifest[table].table
                                  /\ Export!Where(Export!Manifest[table].scope, r)}
  <2>1. /\ phase = "copying" /\ table <= 17 /\ table \in Tables
        /\ archive' = archive \cup {Export!Redact(r) : r \in Now}
        /\ table' = table + 1 /\ UNCHANGED <<live, phase, stood>>
    BY <1>2, ManifestLong DEF Export!CopyTable, Tables
  <2>2. \A r : r \in Now <=> r \in live /\ Takes(table, r)
    BY DEF Takes
  <2> HIDE DEF Now
  <2>3. \A copy \in archive' : TakenCopy(copy)
    <3> SUFFICES ASSUME NEW copy \in archive', copy \notin archive PROVE TakenCopy(copy)
      OBVIOUS
    <3>1. PICK r \in Now : copy = Export!Redact(r)
      BY <2>1
    <3> QED BY <3>1, <2>1, <2>2 DEF TakenCopy
  <2>4. ASSUME NEW r \in stood, NEW i \in Tables, i < table + 1
        PROVE  Takes(i, r) => Export!Redact(r) \in archive'
    <3>1. CASE i < table
      BY <3>1, <2>1 DEF Copied
    <3>2. CASE i = table
      BY <3>2, <2>1, <2>2
    <3> QED BY <3>1, <3>2, <2>4 DEF Tables
  <2> QED
    BY <2>1, <2>3, <2>4 DEF Copied
<1>3. CASE Export!Commit
  BY <1>3, ManifestLong DEF Export!Commit, Copied
<1>4. CASE Export!Fail
  BY <1>4 DEF Export!Fail
<1>5. CASE Export!Stream
  BY <1>5 DEF Export!Stream, Copied
<1>6. ASSUME NEW w \in BOOLEAN, Export!Done(w)
      PROVE  ExportInv'
  BY <1>6 DEF Export!Done
<1>7. ASSUME NEW r \in AllRows, Export!Insert(r)
      PROVE  ExportInv'
  BY <1>7 DEF Export!Insert, Copied
<1>8. ASSUME NEW r \in AllRows, Export!Delete(r)
      PROVE  ExportInv'
  BY <1>8, MeAndHome DEF Export!Delete, Copied
<1>9. CASE UNCHANGED Export!vars
  BY <1>9 DEF Export!vars, Copied
<1> HIDE DEF ExportInv
<1> QED
  BY <1>1, <1>2, <1>3, <1>4, <1>5, <1>6, <1>7, <1>8, <1>9 DEF Export!Next

LEMMA ParentsAre ==
    ASSUME NEW r \in AllRows, Export!Of(r), NEW parent \in Export!ParentsOf(r)
    PROVE  /\ r.table \in {"memberships", "api_keys"} /\ r.user = Requester /\ r.team = Asked
           /\ \/ parent.table = "users" /\ parent.field = "user"
              \/ parent.table = "teams" /\ parent.field = "team"
<1>1. r.table \notin {"skills", "usage_counters", "subscriptions"}
  BY RowsAre DEF RowIs
<1>2. CASE r.table \in {"memberships", "api_keys"}
  <2>1. Export!ParentsOf(r) = {[table |-> "users", field |-> "user"],
                               [table |-> "teams", field |-> "team"]}
    BY <1>2, Zenon DEF Export!ParentsOf
  <2> QED BY <1>2, <2>1, OfIs
<1>3. CASE r.table \notin {"memberships", "api_keys"}
  <2>1. Export!ParentsOf(r) = {}
    BY <1>1, <1>3, Zenon DEF Export!ParentsOf
  <2> QED BY <2>1
<1> QED BY <1>2, <1>3

LEMMA ExportHolds ==
    ASSUME ExportInv
    PROVE  Export!ArchiveIsTheirs
<1> SUFFICES ASSUME phase \in {"built", "streaming"}
             PROVE  LET copied == {copy.row : copy \in archive} IN
                    /\ \A r \in stood : r.table \in Export!Exported /\ Export!Of(r) => r \in copied
                    /\ \A r \in copied : Export!Of(r) /\ r.table \in Export!Exported
                    /\ \A copy \in archive : /\ copy.carries \subseteq {"totp_secret"}
                                             /\ copy.carries # {} => copy.row.user = Requester
                    /\ \A r \in copied : \A parent \in Export!ParentsOf(r) :
                         \E other \in copied : /\ other.table = parent.table
                                               /\ other[parent.field] = r[parent.field]
  BY Zenon DEF Export!ArchiveIsTheirs
<1> DEFINE copied == {copy.row : copy \in archive}
<1>1. \A r : Export!Redact(r) \in archive => r \in copied
  BY RedactIs
<1>2. ASSUME NEW r \in stood, Export!Of(r)
      PROVE  r \in copied
  <2>1. PICK i \in Tables : Takes(i, r)
    BY <1>2, TheirsIsTaken DEF ExportInv
  <2>2. i < table
    BY DEF ExportInv, Tables
  <2> QED BY <1>1, <2>1, <2>2 DEF ExportInv, Copied
<1>3. ASSUME NEW copy \in archive
      PROVE  /\ copy.row \in AllRows /\ Export!Of(copy.row)
             /\ copy.row.table \in Export!Exported
             /\ copy.carries \subseteq {"totp_secret"}
             /\ copy.carries # {} => copy.row.user = Requester
  <2>1. PICK i \in Tables, r \in AllRows : Takes(i, r) /\ copy = Export!Redact(r)
    BY DEF ExportInv, TakenCopy
  <2>2. /\ r \in AllRows /\ Export!Of(r) /\ r.table \in Export!Exported
    BY <2>1, TakenIsTheirs
  <2>3. r.table = "users" => r.user = Requester
    BY <2>2, OfIs
  <2> QED BY <2>1, <2>2, <2>3, RedactIs
<1>4. Me \in copied /\ Home \in copied
  <2>1. Export!Of(Me) /\ Export!Of(Home)
    BY MeAndHome, OfIs DEF Whole
  <2> QED BY <1>2, <2>1 DEF ExportInv
<1>5. \A r \in copied : r \in AllRows /\ Export!Of(r) /\ r.table \in Export!Exported
  BY <1>3
<1> HIDE DEF copied
<1>6. ASSUME NEW r \in copied, NEW parent \in Export!ParentsOf(r)
      PROVE  \E other \in copied : /\ other.table = parent.table
                                   /\ other[parent.field] = r[parent.field]
  <2>1. /\ r.user = Requester /\ r.team = Asked
        /\ \/ parent.table = "users" /\ parent.field = "user"
           \/ parent.table = "teams" /\ parent.field = "team"
    BY <1>5, ParentsAre
  <2>2. CASE parent.table = "users" /\ parent.field = "user"
    <3>1. Me.table = parent.table /\ Me[parent.field] = r[parent.field]
      BY <2>1, <2>2, MeAndHome
    <3> QED BY <3>1, <1>4
  <2>3. CASE parent.table = "teams" /\ parent.field = "team"
    <3>1. Home.table = parent.table /\ Home[parent.field] = r[parent.field]
      BY <2>1, <2>3, MeAndHome
    <3> QED BY <3>1, <1>4
  <2> QED BY <2>1, <2>2, <2>3
<1> QED
  BY <1>2, <1>3, <1>5, <1>6 DEF copied

(* The archive streamed to a member holds each row of the workspace and of *)
(* their own identity that stood while it was built, none of another and   *)
(* no row without its parents, whatever was inserted or deleted meanwhile; *)
(* of the credentials it carries only the requester's own second-factor    *)
(* secret (BuildTeamArchive, copyTable and the manifest, dataexport.go).   *)
THEOREM ArchivesAreTheirs == MCSpec => []ArchiveIsTheirs
<1> DEFINE Inv == part = "export" => ExportInv
<1>1. MCInit => Inv
  BY ExportStarts DEF MCInit
<1>2. Inv /\ [MCNext]_hostVars => Inv'
  <2> SUFFICES ASSUME Inv, [MCNext]_hostVars, part' = "export" PROVE ExportInv'
    BY DEF Inv
  <2>1. part = "export"
    BY DEF MCNext, hostVars
  <2> QED
    BY <2>1, ExportRuns, ExportSteps
<1>3. Inv => ArchiveIsTheirs
  BY ExportHolds DEF ArchiveIsTheirs
<1> HIDE DEF Inv
<1> QED
  BY <1>1, <1>2, <1>3, PTL DEF MCSpec

-----------------------------------------------------------------------------
(* The self-update.  What is about to replace the binary has been run.     *)
UpdateInv ==
    /\ DOMAIN step = Updater /\ DOMAIN staged = Updater
    /\ target.whole
    /\ \A u \in Updater : step[u] = "replace" => staged[u].whole
UpdateAt == part = "update" => UpdateInv

LEMMA UpdateRuns ==
    ASSUME part = "update", [MCNext]_hostVars
    PROVE  part' = part /\ [Update!Next]_(Update!vars)
BY DEF MCNext, hostVars, updating, Update!vars

LEMMA UpdateStarts ==
    ASSUME Update!Init
    PROVE  UpdateInv
BY DEF Update!Init, Update!File, UpdateInv

LEMMA UpdateSteps ==
    ASSUME UpdateInv, [Update!Next]_(Update!vars)
    PROVE  UpdateInv'
<1> USE DEF UpdateInv
<1>1. ASSUME NEW u \in Updater, NEW pin, NEW running, Update!Resolve(u, pin, running)
      PROVE  UpdateInv'
  BY <1>1 DEF Update!Resolve
<1>2. ASSUME NEW u \in Updater, NEW w \in BOOLEAN, Update!DownloadBinary(u, w)
      PROVE  UpdateInv'
  BY <1>2 DEF Update!DownloadBinary
<1>3. ASSUME NEW u \in Updater, Update!VerifyBinary(u)
      PROVE  UpdateInv'
  BY <1>3 DEF Update!VerifyBinary, Update!Runs
<1>4. ASSUME NEW u \in Updater, Update!ReplaceBinary(u)
      PROVE  UpdateInv'
  BY <1>4 DEF Update!ReplaceBinary
<1>5. ASSUME NEW u \in Updater, Update!GiveUp(u) \/ Update!Kill(u)
      PROVE  UpdateInv'
  BY <1>5 DEF Update!GiveUp, Update!Kill
<1>6. ASSUME NEW t \in Tag, Update!Release(t)
      PROVE  UpdateInv'
  BY <1>6 DEF Update!Release
<1>7. CASE UNCHANGED Update!vars
  BY <1>7 DEF Update!vars
<1> HIDE DEF UpdateInv
<1> QED
  BY <1>1, <1>2, <1>3, <1>4, <1>5, <1>6, <1>7 DEF Update!Next

(* Whatever the downloads gave, wherever updates stopped and however many  *)
(* of them raced, the binary in place is one that runs: half of what       *)
(* ClientsStayWhole says (verifyBinary before replaceBinary, update.go).   *)
THEOREM BinariesRun == MCSpec => [](part = "update" => Update!BinaryAlwaysRuns)
<1>1. MCInit => UpdateAt
  BY UpdateStarts DEF MCInit, UpdateAt
<1>2. UpdateAt /\ [MCNext]_hostVars => UpdateAt'
  <2> SUFFICES ASSUME UpdateAt, [MCNext]_hostVars, part' = "update" PROVE UpdateInv'
    BY DEF UpdateAt
  <2>1. part = "update"
    BY DEF MCNext, hostVars
  <2> QED
    BY <2>1, UpdateRuns, UpdateSteps DEF UpdateAt
<1>3. UpdateAt => (part = "update" => Update!BinaryAlwaysRuns)
  BY DEF UpdateAt, UpdateInv, Update!BinaryAlwaysRuns
<1> HIDE DEF UpdateAt
<1> QED
  BY <1>1, <1>2, <1>3, PTL DEF MCSpec

-----------------------------------------------------------------------------
(* The import.  What has been read is stored, or waits to be, or an error  *)
(* says that it is not; every record read is counted, or waits.            *)
Recs == UNION {{s[i] : i \in DOMAIN s} : s \in StreamsSent}
Drawn == {"drawer", "diary"}
Rooms(rows) == {d[1] : d \in rows}
TunnelsLast(s) == \A i, j \in DOMAIN s :
    i < j /\ s[i].kind = "tunnel" => s[j].kind \notin Drawn

(* What of a record the filing goes by.                                    *)
IsOf(r, kind) ==
    r.kind = kind /\ r.total \in Nat /\ r.blank \in BOOLEAN /\ r.ended \in BOOLEAN

LEMMA RecordsAre ==
    /\ \A kind, key : IsOf(Rec(kind, key), kind) /\ IsOf(Blank(Rec(kind, key)), kind)
    /\ \A room, n : IsOf(Said(room, n), "drawer") /\ IsOf(Blank(Said(room, n)), "drawer")
    /\ \A n, rooms : IsOf(Tunnel(n, rooms), "tunnel")
    /\ \A n : IsOf(Ended(n), "kg")
    /\ IsOf([Rec("manifest", <<>>) EXCEPT !.total = 7], "manifest")
BY DEF Rec, Blank, Said, Tunnel, Ended, IsOf

LEMMA StreamsAre ==
    ASSUME NEW s \in StreamsSent
    PROVE  /\ s \in Seq(Recs) /\ TunnelsLast(s)
           /\ \A i \in DOMAIN s : IsOf(s[i], s[i].kind)
<1>1. \A t \in StreamsSent : \A i \in DOMAIN t : t[i] \in Recs
  BY DEF Recs
<1>2. ASSUME s = <<[Rec("manifest", <<>>) EXCEPT !.total = 7],
         Said("r", 1),
         Rec("diary", <<"diary", 1>>),
         Said("s", 1),
         Rec("closet", << 1 >>),
         Rec("closet", << 2 >>),
         Tunnel(1, {"r", "s"}),
         Tunnel(2, {"r", "q"})>>
      PROVE  /\ s \in Seq(Recs) /\ TunnelsLast(s)
             /\ \A i \in DOMAIN s : IsOf(s[i], s[i].kind)
  <2>1. DOMAIN s = 1..8 /\ Len(s) = 8 /\ s = [i \in 1..8 |-> s[i]]
    BY <1>2
  <2>2. s \in Seq(Recs)
    BY <1>1, <2>1
  <2>3. IsOf(s[1], "manifest")
    <3>1. s[1] = [Rec("manifest", <<>>) EXCEPT !.total = 7]
      BY <1>2
    <3> QED BY <3>1, RecordsAre, Zenon
  <2>4. IsOf(s[2], "drawer")
    <3>1. s[2] = Said("r", 1)
      BY <1>2
    <3> QED BY <3>1, RecordsAre, Zenon
  <2>5. IsOf(s[3], "diary")
    <3>1. s[3] = Rec("diary", <<"diary", 1>>)
      BY <1>2
    <3> QED BY <3>1, RecordsAre, Zenon
  <2>6. IsOf(s[4], "drawer")
    <3>1. s[4] = Said("s", 1)
      BY <1>2
    <3> QED BY <3>1, RecordsAre, Zenon
  <2>7. IsOf(s[5], "closet")
    <3>1. s[5] = Rec("closet", <<1>>)
      BY <1>2
    <3> QED BY <3>1, RecordsAre, Zenon
  <2>8. IsOf(s[6], "closet")
    <3>1. s[6] = Rec("closet", <<2>>)
      BY <1>2
    <3> QED BY <3>1, RecordsAre, Zenon
  <2>9. IsOf(s[7], "tunnel")
    <3>1. s[7] = Tunnel(1, {"r", "s"})
      BY <1>2
    <3> QED BY <3>1, RecordsAre, Zenon
  <2>10. IsOf(s[8], "tunnel")
    <3>1. s[8] = Tunnel(2, {"r", "q"})
      BY <1>2
    <3> QED BY <3>1, RecordsAre, Zenon
  <2> QED BY <2>1, <2>2, <2>3, <2>4, <2>5, <2>6, <2>7, <2>8, <2>9, <2>10 DEF IsOf, TunnelsLast, Drawn
<1>3. ASSUME s = <<Said("r", 1),
         Blank(Said("r", 2)),
         Said("r", 1),
         Rec("other", <<>>),
         Rec("kg", << 1 >>),
         Rec("kg", << 1 >>),
         Tunnel(1, {"r"})>>
      PROVE  /\ s \in Seq(Recs) /\ TunnelsLast(s)
             /\ \A i \in DOMAIN s : IsOf(s[i], s[i].kind)
  <2>1. DOMAIN s = 1..7 /\ Len(s) = 7 /\ s = [i \in 1..7 |-> s[i]]
    BY <1>3
  <2>2. s \in Seq(Recs)
    BY <1>1, <2>1
  <2>3. IsOf(s[1], "drawer")
    <3>1. s[1] = Said("r", 1)
      BY <1>3
    <3> QED BY <3>1, RecordsAre, Zenon
  <2>4. IsOf(s[2], "drawer")
    <3>1. s[2] = Blank(Said("r", 2))
      BY <1>3
    <3> QED BY <3>1, RecordsAre, Zenon
  <2>5. IsOf(s[3], "drawer")
    <3>1. s[3] = Said("r", 1)
      BY <1>3
    <3> QED BY <3>1, RecordsAre, Zenon
  <2>6. IsOf(s[4], "other")
    <3>1. s[4] = Rec("other", <<>>)
      BY <1>3
    <3> QED BY <3>1, RecordsAre, Zenon
  <2>7. IsOf(s[5], "kg")
    <3>1. s[5] = Rec("kg", <<1>>)
      BY <1>3
    <3> QED BY <3>1, RecordsAre, Zenon
  <2>8. IsOf(s[6], "kg")
    <3>1. s[6] = Rec("kg", <<1>>)
      BY <1>3
    <3> QED BY <3>1, RecordsAre, Zenon
  <2>9. IsOf(s[7], "tunnel")
    <3>1. s[7] = Tunnel(1, {"r"})
      BY <1>3
    <3> QED BY <3>1, RecordsAre, Zenon
  <2> QED BY <2>1, <2>2, <2>3, <2>4, <2>5, <2>6, <2>7, <2>8, <2>9 DEF IsOf, TunnelsLast, Drawn
<1>4. ASSUME s = <<Ended(1),
         Rec("kg", << 1 >>),
         Blank(Rec("kg", << 2 >>)),
         Said("r", 1),
         Ended(3)>>
      PROVE  /\ s \in Seq(Recs) /\ TunnelsLast(s)
             /\ \A i \in DOMAIN s : IsOf(s[i], s[i].kind)
  <2>1. DOMAIN s = 1..5 /\ Len(s) = 5 /\ s = [i \in 1..5 |-> s[i]]
    BY <1>4
  <2>2. s \in Seq(Recs)
    BY <1>1, <2>1
  <2>3. IsOf(s[1], "kg")
    <3>1. s[1] = Ended(1)
      BY <1>4
    <3> QED BY <3>1, RecordsAre, Zenon
  <2>4. IsOf(s[2], "kg")
    <3>1. s[2] = Rec("kg", <<1>>)
      BY <1>4
    <3> QED BY <3>1, RecordsAre, Zenon
  <2>5. IsOf(s[3], "kg")
    <3>1. s[3] = Blank(Rec("kg", <<2>>))
      BY <1>4
    <3> QED BY <3>1, RecordsAre, Zenon
  <2>6. IsOf(s[4], "drawer")
    <3>1. s[4] = Said("r", 1)
      BY <1>4
    <3> QED BY <3>1, RecordsAre, Zenon
  <2>7. IsOf(s[5], "kg")
    <3>1. s[5] = Ended(3)
      BY <1>4
    <3> QED BY <3>1, RecordsAre, Zenon
  <2> QED BY <2>1, <2>2, <2>3, <2>4, <2>5, <2>6, <2>7 DEF IsOf, TunnelsLast, Drawn
<1>5. QED
  BY <1>2, <1>3, <1>4, Zenon DEF StreamsSent

-----------------------------------------------------------------------------
Counts == [drawers : Nat, closets : Nat, facts : Nat, tunnels : Nat, skipped : Nat,
           total : Nat, error : BOOLEAN]
Sum(c) == c.drawers + c.closets + c.facts + c.tunnels + c.skipped
KeysIn(batch) == {batch[i].key : i \in Import!Valid(batch)}
FactsOf == {[key |-> r.key, ended |-> r.ended] : r \in Recs}

(* A batch is of records that have been read.                              *)
Behind(kinds) == {i \in 1..pos : stream[i].kind \in kinds}
Waits(batch, kinds) ==
    /\ batch \in Seq(Recs)
    /\ \A j \in DOMAIN batch : \E i \in Behind(kinds) : batch[j] = stream[i]
TunnelKeys(rows) ==
    {stream[i].key : i \in {j \in Import!Sent({"tunnel"}) : stream[j].rooms \subseteq Rooms(rows)}}

ImportTypes ==
    /\ stream \in StreamsSent
    /\ reads \in {"idle", "reading", "finished", "broken"} /\ pos \in 0..Len(stream)
    /\ counts \in Counts
    /\ Waits(pendingDrawers, Drawn) /\ Len(pendingDrawers) < ImportBatch
    /\ Waits(pendingClosets, {"closet"}) /\ Len(pendingClosets) < ImportBatch
    /\ Waits(pendingTunnels, {"tunnel"}) /\ Len(pendingTunnels) < TunnelsHeld
    /\ reads # "reading" =>
         pendingDrawers = <<>> /\ pendingClosets = <<>> /\ pendingTunnels = <<>>
    /\ drawers \subseteq Import!Keys(Drawn) /\ stored \subseteq Import!Keys({"closet"})
    /\ facts \in Seq(FactsOf)
    /\ tunnels \subseteq TunnelKeys(drawers)

(* What has been read is accounted for.                                    *)
Read == {i \in 1..pos : stream[i].kind # "manifest"}
AllCounted ==
    Sum(counts) + Len(pendingDrawers) + Len(pendingClosets) + Len(pendingTunnels)
        = Cardinality(Read)
AllDrawn == ~counts.error => \A i \in Behind(Drawn) :
    ~stream[i].blank => stream[i].key \in drawers \cup KeysIn(pendingDrawers)
AllClosed == ~counts.error => \A i \in Behind({"closet"}) :
    ~stream[i].blank => stream[i].key \in stored \cup KeysIn(pendingClosets)
AllTold == \A i \in Behind({"kg"}) :
    ~stream[i].blank =>
        \/ \E f \in DOMAIN facts : facts[f].key = stream[i].key
        \/ stream[i] \in missed
AllDug == ~counts.error => \A i \in Behind({"tunnel"}) :
    stream[i].rooms \subseteq Rooms(Import!Keys(Drawn)) =>
        \/ stream[i].key \in tunnels \/ stream[i] \in missed
        \/ \E j \in DOMAIN pendingTunnels : pendingTunnels[j] = stream[i]
AllOwned == IsFiniteSet(missed) /\ Cardinality(missed) <= counts.skipped
Accounted == AllCounted /\ AllDrawn /\ AllClosed /\ AllTold /\ AllDug /\ AllOwned

ImportInv ==
    /\ ImportTypes
    /\ reads \in {"reading", "finished"} => Accounted
    /\ reads = "finished" => pos = Len(stream)

LEMMA BatchesAre == ImportBatch \in Nat \ {0} /\ TunnelsHeld \in Nat \ {0}
BY HostAssumption DEF HostBounded

LEMMA ImportRuns ==
    ASSUME part = "import", [MCNext]_hostVars
    PROVE  part' = part /\ [Import!Next]_(Import!vars)
BY DEF MCNext, hostVars, importing, Import!vars, Import!pending, Import!stored

(* In a run that is over nothing waits, so all is filed.                   *)
LEMMA ImportHolds == ImportInv => Import!ImportFilesAll
<1> SUFFICES ASSUME ImportInv, reads = "finished" PROVE Import!ImportFilesAll
  BY DEF Import!ImportFilesAll
<1>1. /\ pos = Len(stream) /\ stream \in Seq(Recs) /\ DOMAIN stream = 1..Len(stream)
      /\ pendingDrawers = <<>> /\ pendingClosets = <<>> /\ pendingTunnels = <<>>
      /\ counts \in Counts /\ Accounted
  BY StreamsAre DEF ImportInv, ImportTypes
<1>2. \A kinds : Behind(kinds) = Import!Sent(kinds)
  BY <1>1 DEF Behind, Import!Sent
<1>3. Read = DOMAIN stream \ Import!Sent({"manifest"})
  BY <1>1 DEF Read, Import!Sent
<1>4. Import!Cardinality(DOMAIN stream \ Import!Sent({"manifest"})) = Sum(counts)
  <2>1. Import!Cardinality(DOMAIN stream \ Import!Sent({"manifest"})) = Cardinality(Read)
    BY <1>3, Zenon DEF Import!Cardinality, Cardinality
  <2>2. Sum(counts) \in Nat
    BY <1>1 DEF Counts, Sum
  <2> QED BY <1>1, <2>1, <2>2 DEF Accounted, AllCounted
<1>5. KeysIn(<<>>) = {}
  BY DEF KeysIn, Import!Valid
<1>6. ASSUME ~counts.error
      PROVE  /\ drawers = Import!Keys(Drawn) /\ stored = Import!Keys({"closet"})
             /\ \A i \in Import!Fit : stream[i] \notin missed => stream[i].key \in tunnels
  <2>1. drawers = Import!Keys(Drawn)
    BY <1>1, <1>2, <1>5, <1>6 DEF ImportInv, ImportTypes, Accounted, AllDrawn, Import!Keys
  <2>2. stored = Import!Keys({"closet"})
    BY <1>1, <1>2, <1>5, <1>6 DEF ImportInv, ImportTypes, Accounted, AllClosed, Import!Keys
  <2>3. ASSUME NEW i \in Import!Fit, stream[i] \notin missed PROVE stream[i].key \in tunnels
    <3>1. i \in Behind({"tunnel"}) /\ stream[i].rooms \subseteq Rooms(Import!Keys(Drawn))
      BY <1>2, <2>1 DEF Import!Fit, Rooms
    <3> QED BY <1>1, <1>6, <2>3, <3>1 DEF Accounted, AllDug
  <2> QED BY <2>1, <2>2, <2>3
<1>7. \A i \in Import!Sent({"kg"}) : ~stream[i].blank /\ stream[i] \notin missed =>
        \E f \in DOMAIN facts : facts[f].key = stream[i].key
  BY <1>1, <1>2 DEF Accounted, AllTold
<1>8. tunnels \subseteq {stream[i].key : i \in Import!Fit}
  BY DEF ImportInv, ImportTypes, TunnelKeys, Rooms, Import!Fit
<1>9. Import!Cardinality(missed) <= counts.skipped
  <2>1. Import!Cardinality(missed) = Cardinality(missed)
    BY Zenon DEF Import!Cardinality, Cardinality
  <2> QED BY <1>1, <2>1 DEF Accounted, AllOwned
<1>10. QED
  BY <1>1, <1>4, <1>6, <1>7, <1>8, <1>9 DEF Import!ImportFilesAll, Sum, Drawn

LEMMA ImportStarts ==
    ASSUME Import!Init
    PROVE  ImportInv
<1>1. stream \in Seq(Recs)
  BY StreamsAre DEF Import!Init
<1>2. counts \in Counts
  BY DEF Import!Init, Import!Nothing, Counts
<1>3. <<>> \in Seq(Recs) /\ <<>> \in Seq(FactsOf) /\ Len(stream) \in Nat
  BY <1>1
<1> QED
  BY <1>1, <1>2, <1>3, BatchesAre DEF Import!Init, ImportInv, ImportTypes, Waits

(* What holds of the records when one more of them has been read.          *)
LEMMA ReadsOn ==
    ASSUME ImportTypes, Import!Takes(Import!Kinds), Import!Read
    PROVE  /\ pos' = pos + 1 /\ pos' \in 0..Len(stream') /\ stream' = stream
           /\ Import!Record \in Recs /\ IsOf(Import!Record, Import!Record.kind)
           /\ Import!Record = stream[pos']
           /\ \A kinds : Behind(kinds)' =
                IF Import!Record.kind \in kinds THEN Behind(kinds) \cup {pos'} ELSE Behind(kinds)
           /\ Cardinality(Read)' =
                IF Import!Record.kind = "manifest" THEN Cardinality(Read) ELSE Cardinality(Read) + 1
           /\ Cardinality(Read) \in Nat
           /\ Import!Record.kind \in Drawn => Behind({"tunnel"}) = {}
           /\ reads' = reads /\ recompute' = recompute
<1>1. /\ pos' = pos + 1 /\ pos < Len(stream) /\ stream' = stream
      /\ stream \in Seq(Recs) /\ TunnelsLast(stream) /\ Len(stream) \in Nat /\ pos \in Nat
      /\ DOMAIN stream = 1..Len(stream)
      /\ \A i \in DOMAIN stream : IsOf(stream[i], stream[i].kind)
      /\ Import!Record = stream[pos'] /\ pos' \in DOMAIN stream
  BY StreamsAre DEF ImportTypes, Import!Takes, Import!Read, Import!Record
<1>2. \A kinds : Behind(kinds)' =
        IF Import!Record.kind \in kinds THEN Behind(kinds) \cup {pos'} ELSE Behind(kinds)
  BY <1>1 DEF Behind
<1>3. Read' = IF Import!Record.kind = "manifest" THEN Read ELSE Read \cup {pos'}
  BY <1>1 DEF Read
<1>4. IsFiniteSet(Read) /\ Cardinality(Read) \in Nat
  <2>1. IsFiniteSet(1..pos)
    BY <1>1, FS_Interval
  <2>2. Read \subseteq 1..pos
    BY DEF Read
  <2> QED BY <2>1, <2>2, FS_Subset, FS_CardinalityType
<1>5. pos' \notin Read
  BY <1>1 DEF Read
<1>6. Cardinality(Read)' =
        IF Import!Record.kind = "manifest" THEN Cardinality(Read) ELSE Cardinality(Read) + 1
  BY <1>3, <1>4, <1>5, FS_AddElement
<1>7. Import!Record.kind \in Drawn => Behind({"tunnel"}) = {}
  <2> SUFFICES ASSUME NEW i \in Behind({"tunnel"}), Import!Record.kind \in Drawn PROVE FALSE
    OBVIOUS
  <2>1. i \in DOMAIN stream /\ i < pos' /\ stream[i].kind = "tunnel"
    BY <1>1 DEF Behind
  <2> QED BY <1>1, <2>1 DEF TunnelsLast
<1>8. QED
  BY <1>1, <1>2, <1>4, <1>6, <1>7 DEF Import!Read

(* A batch that grows by what has been read.                               *)
LEMMA BatchGrows ==
    ASSUME ImportTypes, Import!Takes(Import!Kinds), Import!Read,
           NEW batch, NEW kinds, Waits(batch, kinds), Import!Record.kind \in kinds
    PROVE  LET longer == Append(batch, Import!Record) IN
           /\ \A b : b = longer => Waits(b, kinds)'
           /\ Len(longer) = Len(batch) + 1
           /\ KeysIn(longer) = KeysIn(batch) \cup (IF Import!Record.blank THEN {} ELSE {Import!Record.key})
           /\ DOMAIN longer = (DOMAIN batch) \cup {Len(batch) + 1}
           /\ \A i \in DOMAIN batch : longer[i] = batch[i]
           /\ longer[Len(batch) + 1] = Import!Record
           /\ batch \in Seq(Recs) /\ longer \in Seq(Recs) /\ Len(batch) \in Nat
<1> DEFINE longer == Append(batch, Import!Record)
<1>1. /\ batch \in Seq(Recs) /\ Import!Record \in Recs /\ stream' = stream
      /\ Import!Record = stream[pos']
      /\ Behind(kinds)' = Behind(kinds) \cup {pos'}
      /\ IsOf(Import!Record, Import!Record.kind)
  BY ReadsOn DEF Waits
<1>2. /\ longer \in Seq(Recs) /\ Len(longer) = Len(batch) + 1 /\ Len(batch) \in Nat
      /\ DOMAIN longer = 1..Len(batch) + 1 /\ DOMAIN batch = 1..Len(batch)
      /\ \A i \in 1..Len(batch) : longer[i] = batch[i]
      /\ longer[Len(batch) + 1] = Import!Record
  BY <1>1, AppendProperties
<1> HIDE DEF longer
<1>3. \A j \in DOMAIN longer : \E i \in Behind(kinds)' : longer[j] = stream'[i]
  <2> SUFFICES ASSUME NEW j \in DOMAIN longer PROVE \E i \in Behind(kinds)' : longer[j] = stream'[i]
    OBVIOUS
  <2>1. CASE j = Len(batch) + 1
    BY <1>1, <1>2, <2>1
  <2>2. CASE j \in DOMAIN batch
    <3>1. \E i \in Behind(kinds) : batch[j] = stream[i]
      BY <2>2 DEF Waits
    <3> QED BY <1>1, <1>2, <2>2, <3>1
  <2> QED BY <1>2, <2>1, <2>2
<1>4. \A b : b = longer => Waits(b, kinds)'
  BY <1>2, <1>3 DEF Waits
<1>5. KeysIn(longer) = KeysIn(batch) \cup (IF Import!Record.blank THEN {} ELSE {Import!Record.key})
  <2>1. Import!Valid(longer) = Import!Valid(batch) \cup (IF Import!Record.blank THEN {} ELSE {Len(batch) + 1})
    BY <1>1, <1>2 DEF Import!Valid, IsOf
  <2> QED BY <1>1, <1>2, <2>1 DEF KeysIn, Import!Valid, IsOf
<1>6. QED
  BY <1>1, <1>2, <1>4, <1>5 DEF longer

LEMMA ValidAre ==
    ASSUME NEW batch \in Seq(Recs)
    PROVE  /\ Import!Cardinality(Import!Valid(batch)) \in 0..Len(batch)
           /\ \A rows : Import!Cardinality(Import!Made(batch, rows)) \in 0..Len(batch)
<1>0. DOMAIN batch = 1..Len(batch) /\ Len(batch) \in Nat
  OBVIOUS
<1>1. IsFiniteSet(1..Len(batch)) /\ Cardinality(1..Len(batch)) = Len(batch)
  BY <1>0, FS_Interval
<1>2. \A S : S \subseteq DOMAIN batch => Cardinality(S) \in 0..Len(batch)
  <2> SUFFICES ASSUME NEW S, S \subseteq DOMAIN batch PROVE Cardinality(S) \in 0..Len(batch)
    OBVIOUS
  <2>1. IsFiniteSet(S) /\ Cardinality(S) <= Cardinality(1..Len(batch))
    BY <1>0, <1>1, FS_Subset
  <2> QED BY <1>0, <1>1, <2>1, FS_CardinalityType
<1>3. \A S : Import!Cardinality(S) = Cardinality(S)
  BY Zenon DEF Import!Cardinality, Cardinality
<1> QED BY <1>2, <1>3 DEF Import!Valid, Import!Made

(* Every record of a batch is counted, filed or not; and a batch that was  *)
(* to be stored and was not leaves an error.                               *)
LEMMA DrawersCounted ==
    ASSUME NEW batch \in Seq(Recs), NEW ok \in BOOLEAN, NEW c \in Counts
    PROVE  /\ Import!FlushDrawers(batch, ok, c) \in Counts
           /\ Sum(Import!FlushDrawers(batch, ok, c)) = Sum(c) + Len(batch)
           /\ ~Import!FlushDrawers(batch, ok, c).error => ~c.error /\ (ok \/ Import!Valid(batch) = {})
           /\ c.skipped <= Import!FlushDrawers(batch, ok, c).skipped
<1>1. PICK n \in 0..Len(batch) : n = Import!Counted(ok, batch)
  BY ValidAre DEF Import!Counted
<1>2. PICK e \in BOOLEAN : e = (c.error \/ (~ok /\ Import!Valid(batch) # {}))
  OBVIOUS
<1>3. PICK r : r = Import!FlushDrawers(batch, ok, c)
  OBVIOUS
<1>4. r = [c EXCEPT !.drawers = @ + n, !.skipped = @ + Len(batch) - n, !.error = e]
  BY <1>1, <1>2, <1>3, Zenon DEF Import!FlushDrawers
<1>5. r = [drawers |-> c.drawers + n,
         closets |-> c.closets,
         facts |-> c.facts,
         tunnels |-> c.tunnels,
         skipped |-> c.skipped + Len(batch) - n,
         total |-> c.total, error |-> e]
  BY <1>4 DEF Counts
<1>6. Len(batch) \in Nat /\ n \in 0..Len(batch)
  OBVIOUS
<1>7. r \in Counts
  BY <1>5, <1>6 DEF Counts
<1>8. Sum(r) = Sum(c) + Len(batch)
  BY <1>5, <1>6 DEF Counts, Sum
<1>9. ~r.error => ~c.error /\ (ok \/ Import!Valid(batch) = {})
  BY <1>2, <1>5
<1>10. c.skipped <= r.skipped
  <2>1. r.skipped = c.skipped + Len(batch) - n
    BY <1>5
  <2> QED BY <1>6, <2>1 DEF Counts
<1> QED
  BY <1>3, <1>7, <1>8, <1>9, <1>10, Zenon

LEMMA ClosetsCounted ==
    ASSUME NEW batch \in Seq(Recs), NEW ok \in BOOLEAN, NEW c \in Counts
    PROVE  /\ Import!FlushClosets(batch, ok, c) \in Counts
           /\ Sum(Import!FlushClosets(batch, ok, c)) = Sum(c) + Len(batch)
           /\ ~Import!FlushClosets(batch, ok, c).error => ~c.error /\ (ok \/ Import!Valid(batch) = {})
           /\ c.skipped <= Import!FlushClosets(batch, ok, c).skipped
<1>1. PICK n \in 0..Len(batch) : n = Import!Counted(ok, batch)
  BY ValidAre DEF Import!Counted
<1>2. PICK e \in BOOLEAN : e = (c.error \/ (~ok /\ Import!Valid(batch) # {}))
  OBVIOUS
<1>3. PICK r : r = Import!FlushClosets(batch, ok, c)
  OBVIOUS
<1>4. r = [c EXCEPT !.closets = @ + n, !.skipped = @ + Len(batch) - n, !.error = e]
  BY <1>1, <1>2, <1>3, Zenon DEF Import!FlushClosets
<1>5. r = [drawers |-> c.drawers,
         closets |-> c.closets + n,
         facts |-> c.facts,
         tunnels |-> c.tunnels,
         skipped |-> c.skipped + Len(batch) - n,
         total |-> c.total, error |-> e]
  BY <1>4 DEF Counts
<1>6. Len(batch) \in Nat /\ n \in 0..Len(batch)
  OBVIOUS
<1>7. r \in Counts
  BY <1>5, <1>6 DEF Counts
<1>8. Sum(r) = Sum(c) + Len(batch)
  BY <1>5, <1>6 DEF Counts, Sum
<1>9. ~r.error => ~c.error /\ (ok \/ Import!Valid(batch) = {})
  BY <1>2, <1>5
<1>10. c.skipped <= r.skipped
  <2>1. r.skipped = c.skipped + Len(batch) - n
    BY <1>5
  <2> QED BY <1>6, <2>1 DEF Counts
<1> QED
  BY <1>3, <1>7, <1>8, <1>9, <1>10, Zenon

(* What is absorbed is stored, all of it unless there is an error.         *)
LEMMA DrawersAbsorbed ==
    ASSUME ImportTypes, NEW batch, Waits(batch, Drawn), NEW ok \in BOOLEAN,
           Import!AbsorbDrawers(batch, ok)
    PROVE  /\ pendingDrawers' = <<>> /\ drawers \subseteq drawers'
           /\ drawers' \subseteq drawers \cup KeysIn(batch)
           /\ drawers' \subseteq Import!Keys(Drawn)
           /\ (ok \/ Import!Valid(batch) = {}) => drawers' = drawers \cup KeysIn(batch)
<1>1. /\ pendingDrawers' = <<>> /\ drawers' = IF ok THEN drawers \cup KeysIn(batch) ELSE drawers
  BY DEF Import!AbsorbDrawers, KeysIn
<1>2. KeysIn(batch) \subseteq Import!Keys(Drawn)
  BY StreamsAre DEF KeysIn, Import!Keys, Import!Sent, Import!Valid, Waits, Behind, ImportTypes
<1> QED
  BY <1>1, <1>2 DEF ImportTypes, KeysIn

LEMMA ClosetsAbsorbed ==
    ASSUME ImportTypes, NEW batch, Waits(batch, {"closet"}), NEW ok \in BOOLEAN,
           Import!AbsorbClosets(batch, ok)
    PROVE  /\ pendingClosets' = <<>> /\ stored \subseteq stored'
           /\ stored' \subseteq stored \cup KeysIn(batch)
           /\ stored' \subseteq Import!Keys({"closet"})
           /\ (ok \/ Import!Valid(batch) = {}) => stored' = stored \cup KeysIn(batch)
<1>1. /\ pendingClosets' = <<>> /\ stored' = IF ok THEN stored \cup KeysIn(batch) ELSE stored
  BY DEF Import!AbsorbClosets, KeysIn
<1>2. KeysIn(batch) \subseteq Import!Keys({"closet"})
  BY StreamsAre DEF KeysIn, Import!Keys, Import!Sent, Import!Valid, Waits, Behind, ImportTypes
<1> QED
  BY <1>1, <1>2 DEF ImportTypes, KeysIn

LEMMA Flushed ==
    ASSUME ImportTypes, NEW batch, batch \in Seq(Recs), Import!Flush(batch)
    PROVE  /\ pendingDrawers' = <<>> /\ pendingClosets' = <<>> /\ pendingTunnels' = <<>>
           /\ counts' \in Counts
           /\ Sum(counts') = Sum(counts) + Len(pendingDrawers) + Len(pendingClosets) + Len(batch)
           /\ drawers \subseteq drawers' /\ drawers' \subseteq Import!Keys(Drawn)
           /\ stored \subseteq stored' /\ stored' \subseteq Import!Keys({"closet"})
           /\ tunnels \subseteq tunnels' /\ missed \subseteq missed'
           /\ tunnels' \subseteq tunnels \cup {batch[i].key : i \in Import!Made(batch, drawers')}
           /\ \A i \in Import!Made(batch, drawers') : batch[i].key \in tunnels' \/ batch[i] \in missed'
           /\ AllOwned => AllOwned'
           /\ ~counts'.error =>
                /\ ~counts.error
                /\ drawers' = drawers \cup KeysIn(pendingDrawers)
                /\ stored' = stored \cup KeysIn(pendingClosets)
<1>1. PICK okD \in BOOLEAN, okC \in BOOLEAN :
        /\ Import!AbsorbDrawers(pendingDrawers, okD) /\ Import!AbsorbClosets(pendingClosets, okC)
        /\ Import!ApplyTunnels(batch, drawers', Import!FlushClosets(pendingClosets, okC,
             Import!FlushDrawers(pendingDrawers, okD, counts)))
  BY DEF Import!Flush
<1>2. PICK c : c = Import!FlushDrawers(pendingDrawers, okD, counts)
  OBVIOUS
<1>3. PICK d : d = Import!FlushClosets(pendingClosets, okC, c)
  OBVIOUS
<1>4. /\ pendingDrawers \in Seq(Recs) /\ pendingClosets \in Seq(Recs) /\ counts \in Counts
      /\ Waits(pendingDrawers, Drawn) /\ Waits(pendingClosets, {"closet"})
      /\ Len(pendingDrawers) \in Nat /\ Len(pendingClosets) \in Nat /\ Len(batch) \in Nat
      /\ Sum(counts) \in Nat
  <2>1. /\ pendingDrawers \in Seq(Recs) /\ pendingClosets \in Seq(Recs) /\ counts \in Counts
        /\ Waits(pendingDrawers, Drawn) /\ Waits(pendingClosets, {"closet"})
    BY DEF ImportTypes, Waits
  <2>2. Sum(counts) \in Nat
    BY <2>1 DEF Counts, Sum
  <2> QED BY <2>1, <2>2, LenProperties
<1>5. /\ c \in Counts /\ Sum(c) = Sum(counts) + Len(pendingDrawers)
      /\ ~c.error => ~counts.error /\ (okD \/ Import!Valid(pendingDrawers) = {})
      /\ counts.skipped <= c.skipped
  BY <1>2, <1>4, DrawersCounted
<1>6. /\ d \in Counts /\ Sum(d) = Sum(c) + Len(pendingClosets)
      /\ ~d.error => ~c.error /\ (okC \/ Import!Valid(pendingClosets) = {})
      /\ c.skipped <= d.skipped
  BY <1>3, <1>4, <1>5, ClosetsCounted
<1>0. PICK made : made = Import!Made(batch, drawers')
  OBVIOUS
<1>7. PICK refused \in SUBSET made :
        /\ pendingTunnels' = <<>>
        /\ tunnels' = tunnels \cup {batch[i].key : i \in made \ refused}
        /\ missed' = missed \cup {batch[i] : i \in refused}
        /\ counts' = [d EXCEPT !.tunnels = @ + Import!Cardinality(made \ refused),
                               !.skipped = @ + Len(batch) - Import!Cardinality(made \ refused)]
  BY <1>0, <1>1, <1>2, <1>3, Zenon DEF Import!ApplyTunnels
<1>16. PICK n : n = Import!Cardinality(made \ refused)
  OBVIOUS
<1>21. PICK l \in Nat : l = Len(batch)
  BY <1>4
<1>17. made \subseteq 1..l /\ IsFiniteSet(1..l) /\ Cardinality(1..l) = l
  <2>1. DOMAIN batch = 1..l
    BY <1>21
  <2>2. IsFiniteSet(1..l) /\ Cardinality(1..l) = l
    BY FS_Interval
  <2> QED BY <1>0, <2>1, <2>2 DEF Import!Made
<1>18. /\ n = Cardinality(made \ refused) /\ IsFiniteSet(made) /\ IsFiniteSet(refused)
       /\ Cardinality(refused) \in Nat /\ n \in Nat /\ Cardinality(refused) + n <= l
  <2>1. Import!Cardinality(made \ refused) = Cardinality(made \ refused)
    BY Zenon DEF Import!Cardinality, Cardinality
  <2>2. IsFiniteSet(made) /\ Cardinality(made) <= l /\ Cardinality(made) \in Nat
    BY <1>17, FS_Subset, FS_CardinalityType
  <2>3. /\ IsFiniteSet(refused) /\ Cardinality(refused) \in Nat
        /\ IsFiniteSet(made \ refused) /\ Cardinality(made \ refused) \in Nat
    BY <2>2, FS_Subset, FS_CardinalityType
  <2>4. Cardinality(made \ refused) = Cardinality(made) - Cardinality(made \cap refused)
    BY <2>2, FS_Difference
  <2>5. made \cap refused = refused
    OBVIOUS
  <2>6. Cardinality(made \ refused) = Cardinality(made) - Cardinality(refused)
    BY <2>4, <2>5
  <2>7. Cardinality(refused) + Cardinality(made \ refused) <= l
    BY ONLY <2>2, <2>3, <2>6, l \in Nat
  <2>8. n = Cardinality(made \ refused)
    BY <1>16, <2>1
  <2> QED BY <2>2, <2>3, <2>7, <2>8
<1>8. n \in 0..Len(batch)
  BY <1>18, <1>21
<1>9. /\ pendingTunnels' = <<>>
      /\ counts' = [d EXCEPT !.tunnels = @ + n, !.skipped = @ + Len(batch) - n]
  BY <1>7, <1>16, Zenon
<1>19. /\ tunnels \subseteq tunnels' /\ missed \subseteq missed'
       /\ tunnels' \subseteq tunnels \cup {batch[i].key : i \in Import!Made(batch, drawers')}
       /\ \A i \in Import!Made(batch, drawers') : batch[i].key \in tunnels' \/ batch[i] \in missed'
  BY <1>0, <1>7
<1>10. counts' = [drawers |-> d.drawers, closets |-> d.closets, facts |-> d.facts,
                  tunnels |-> d.tunnels + n, skipped |-> d.skipped + Len(batch) - n,
                  total |-> d.total, error |-> d.error]
  BY <1>6, <1>9 DEF Counts
<1>11. counts' \in Counts /\ Sum(counts') = Sum(d) + Len(batch) /\ counts'.error = d.error
  <2>0. /\ d.drawers \in Nat /\ d.closets \in Nat /\ d.facts \in Nat /\ d.tunnels \in Nat
        /\ d.skipped \in Nat /\ d.total \in Nat /\ d.error \in BOOLEAN
    BY <1>6 DEF Counts
  <2>4. Len(batch) \in Nat
    BY <1>4
  <2>5. d.tunnels + n \in Nat /\ d.skipped + Len(batch) - n \in Nat
    BY <2>0, <2>4, <1>8
  <2>1. counts' \in Counts
    BY <2>0, <2>5, <1>10 DEF Counts
  <2>2. Sum(counts') = Sum(d) + Len(batch)
    <3>1. Sum(counts') = d.drawers + d.closets + d.facts + (d.tunnels + n) + (d.skipped + Len(batch) - n)
      BY <1>10 DEF Sum
    <3> QED BY <3>1, <2>0, <2>4, <1>8 DEF Sum
  <2>3. counts'.error = d.error
    BY <1>10
  <2> QED BY <2>1, <2>2, <2>3
<1> HIDE DEF Counts, Sum, KeysIn
<1>12. /\ pendingDrawers' = <<>> /\ drawers \subseteq drawers' /\ drawers' \subseteq Import!Keys(Drawn)
       /\ (okD \/ Import!Valid(pendingDrawers) = {}) => drawers' = drawers \cup KeysIn(pendingDrawers)
  BY <1>1, <1>4, DrawersAbsorbed, Zenon
<1>13. /\ pendingClosets' = <<>> /\ stored \subseteq stored' /\ stored' \subseteq Import!Keys({"closet"})
       /\ (okC \/ Import!Valid(pendingClosets) = {}) => stored' = stored \cup KeysIn(pendingClosets)
  BY <1>1, <1>4, ClosetsAbsorbed, Zenon
<1>20. AllOwned => AllOwned'
  <2> SUFFICES ASSUME AllOwned PROVE AllOwned'
    OBVIOUS
  <2> DEFINE R == {batch[i] : i \in refused}
  <2> DEFINE g == [i \in refused |-> batch[i]]
  <2>1. g \in Surjection(refused, R)
    BY DEF Surjection
  <2>2. IsFiniteSet(R) /\ Cardinality(R) <= Cardinality(refused)
    <3> HIDE DEF g, R
    <3> QED BY <1>18, <2>1, FS_Surjection
  <2>3. missed' = missed \cup R
    BY <1>7
  <2> HIDE DEF R, g
  <2>4. IsFiniteSet(missed') /\ Cardinality(missed') <= Cardinality(missed) + Cardinality(refused)
    <3>1. /\ IsFiniteSet(missed \cup R)
          /\ Cardinality(missed \cup R) = Cardinality(missed) + Cardinality(R) - Cardinality(missed \cap R)
      BY <2>2, FS_Union DEF AllOwned
    <3>2. IsFiniteSet(missed \cap R)
      BY <2>2, FS_Subset
    <3>3. /\ Cardinality(missed) \in Nat /\ Cardinality(R) \in Nat /\ Cardinality(missed \cap R) \in Nat
      BY <2>2, <3>2, FS_CardinalityType DEF AllOwned
    <3> QED BY <1>18, <2>2, <2>3, <3>1, <3>3
  <2>5. counts'.skipped = d.skipped + l - n
    BY <1>10, <1>21
  <2>6. counts.skipped \in Nat /\ c.skipped \in Nat /\ d.skipped \in Nat
    BY <1>4, <1>5, <1>6 DEF Counts
  <2>7. counts.skipped <= c.skipped /\ c.skipped <= d.skipped
    BY <1>5, <1>6
  <2>8. Cardinality(missed) \in Nat /\ Cardinality(missed) <= counts.skipped /\ Cardinality(missed') \in Nat
    BY <2>4, FS_CardinalityType DEF AllOwned
  <2>9. Cardinality(missed') <= counts'.skipped
    <3>1. Cardinality(refused) \in Nat /\ n \in Nat /\ Cardinality(refused) + n <= l
      BY <1>18
    <3>2. Cardinality(missed') <= Cardinality(missed) + Cardinality(refused)
      BY <2>4
    <3> QED BY ONLY <2>5, <2>6, <2>7, <2>8, <3>1, <3>2, l \in Nat
  <2> QED BY <2>4, <2>9 DEF AllOwned
<1>14. Sum(counts') = Sum(counts) + Len(pendingDrawers) + Len(pendingClosets) + Len(batch)
  BY <1>4, <1>5, <1>6, <1>11
<1>15. QED
  BY <1>5, <1>6, <1>9, <1>11, <1>12, <1>13, <1>14, <1>19, <1>20

LEMMA OneMore ==
    ASSUME NEW c \in Counts, NEW d,
           d = [c EXCEPT !.skipped = @ + 1] \/ d = [c EXCEPT !.facts = @ + 1]
    PROVE  /\ d \in Counts /\ Sum(d) = Sum(c) + 1 /\ d.error = c.error
           /\ c.skipped <= d.skipped
<1>0. /\ c.drawers \in Nat /\ c.closets \in Nat /\ c.facts \in Nat /\ c.tunnels \in Nat
      /\ c.skipped \in Nat /\ c.total \in Nat /\ c.error \in BOOLEAN
  BY DEF Counts
<1>1. CASE d = [c EXCEPT !.skipped = @ + 1]
  <2>1. d = [drawers |-> c.drawers,
         closets |-> c.closets,
         facts |-> c.facts,
         tunnels |-> c.tunnels,
         skipped |-> c.skipped + 1,
         total |-> c.total,
         error |-> c.error]
    BY <1>1 DEF Counts
  <2>2. d \in Counts
    BY <1>0, <2>1 DEF Counts
  <2>3. Sum(d) = Sum(c) + 1
    BY <1>0, <2>1 DEF Sum
  <2>4. c.skipped <= d.skipped /\ d.error = c.error
    BY <1>0, <2>1
  <2> QED BY <2>2, <2>3, <2>4
<1>2. CASE d = [c EXCEPT !.facts = @ + 1]
  <2>1. d = [drawers |-> c.drawers,
         closets |-> c.closets,
         facts |-> c.facts + 1,
         tunnels |-> c.tunnels,
         skipped |-> c.skipped,
         total |-> c.total,
         error |-> c.error]
    BY <1>2 DEF Counts
  <2>2. d \in Counts
    BY <1>0, <2>1 DEF Counts
  <2>3. Sum(d) = Sum(c) + 1
    BY <1>0, <2>1 DEF Sum
  <2>4. c.skipped <= d.skipped /\ d.error = c.error
    BY <1>0, <2>1
  <2> QED BY <2>2, <2>3, <2>4
<1> QED BY <1>1, <1>2

(* What does not move while a record is read.                              *)
LEMMA TypesReading ==
    ASSUME ImportTypes, Import!Takes(Import!Kinds), Import!Read
    PROVE  /\ stream' \in StreamsSent /\ stream' = stream
           /\ reads' = "reading" /\ reads = "reading" /\ pos' \in 0..Len(stream')
           /\ \A batch, kinds : Waits(batch, kinds) => \A b : b = batch => Waits(b, kinds)'
           /\ \A kinds : Import!Keys(kinds)' = Import!Keys(kinds)
           /\ \A rows : \A r : r = rows => TunnelKeys(r)' = TunnelKeys(rows)
<1>1. /\ pos' = pos + 1 /\ pos' \in 0..Len(stream') /\ stream' = stream
      /\ \A kinds : Behind(kinds) \subseteq Behind(kinds)'
  BY ReadsOn
<1>2. /\ stream' \in StreamsSent /\ reads' = "reading" /\ reads = "reading"
  BY <1>1 DEF ImportTypes, Import!Read, Import!Takes
<1>3. \A batch, kinds : Waits(batch, kinds) => \A b : b = batch => Waits(b, kinds)'
  BY <1>1 DEF Waits
<1>4. \A kinds : Import!Keys(kinds)' = Import!Keys(kinds)
  BY <1>1 DEF Import!Keys, Import!Sent
<1>5. \A rows : \A r : r = rows => TunnelKeys(r)' = TunnelKeys(rows)
  BY <1>1 DEF TunnelKeys, Import!Sent, Rooms
<1> QED BY <1>1, <1>2, <1>3, <1>4, <1>5

LEMMA OwnedStays ==
    ASSUME AllOwned, missed' = missed, counts \in Counts, counts' \in Counts,
           counts.skipped <= counts'.skipped
    PROVE  AllOwned'
<1>1. Cardinality(missed) \in Nat /\ counts.skipped \in Nat /\ counts'.skipped \in Nat
  BY FS_CardinalityType DEF AllOwned, Counts
<1> QED BY <1>1 DEF AllOwned

LEMMA ServeKeeps ==
    ASSUME ImportInv, Import!Serve
    PROVE  ImportInv'
<1>1. /\ pos' = 0 /\ stream' = stream /\ reads' = "reading"
      /\ counts' = Import!Nothing /\ reads = "idle" /\ missed' = {}
      /\ UNCHANGED <<pendingDrawers, pendingClosets, pendingTunnels, drawers, stored, facts, tunnels, graph>>
  BY DEF Import!Serve, Import!pending, Import!stored
<1>2. /\ pendingDrawers' = <<>> /\ pendingClosets' = <<>> /\ pendingTunnels' = <<>>
      /\ stream \in Seq(Recs) /\ Len(stream) \in Nat
  BY <1>1, StreamsAre DEF ImportInv, ImportTypes
<1>3. counts' \in Counts /\ Sum(counts') = 0
  BY <1>1 DEF Import!Nothing, Counts, Sum
<1>4. /\ \A kinds : Behind(kinds)' = {} /\ Import!Keys(kinds)' = Import!Keys(kinds)
      /\ Read' = {}
  BY <1>1 DEF Behind, Read, Import!Keys, Import!Sent
<1>5. ImportTypes'
  <2>1. \A kinds : Waits(<<>>, kinds)'
    BY DEF Waits
  <2>2. TunnelKeys(drawers)' = TunnelKeys(drawers)
    BY <1>1 DEF TunnelKeys, Rooms, Import!Sent
  <2>3. pos' \in 0..Len(stream') /\ stream' \in StreamsSent
    BY <1>1, <1>2 DEF ImportInv, ImportTypes
  <2>4. Len(pendingDrawers') = 0 /\ Len(pendingClosets') = 0 /\ Len(pendingTunnels') = 0
    BY <1>2
  <2> QED BY <1>1, <1>2, <1>3, <1>4, <2>1, <2>2, <2>3, <2>4, BatchesAre DEF ImportInv, ImportTypes
<1>6. Cardinality(Read)' = 0
  BY <1>4, FS_EmptySet
<1>8. AllOwned'
  BY <1>1, FS_EmptySet DEF AllOwned, Import!Nothing
<1>7. Accounted'
  BY <1>2, <1>3, <1>4, <1>6, <1>8 DEF Accounted, AllCounted, AllDrawn, AllClosed, AllTold, AllDug
<1> QED
  BY <1>1, <1>5, <1>7 DEF ImportInv

LEMMA ManifestKeeps ==
    ASSUME ImportInv, Import!ReadManifest
    PROVE  ImportInv'
<1> USE DEF Import!Kinds
<1>1. /\ ImportTypes /\ Accounted /\ Import!Takes(Import!Kinds) /\ Import!Read
      /\ Import!Record.kind = "manifest"
      /\ counts' = [counts EXCEPT !.total = Import!Record.total]
      /\ UNCHANGED <<pendingDrawers, pendingClosets, pendingTunnels, drawers, stored, facts, tunnels, graph, missed>>
  BY DEF ImportInv, Import!ReadManifest, Import!Takes, Import!Record, Import!pending, Import!stored
<1>2. /\ counts' \in Counts /\ Sum(counts') = Sum(counts) /\ counts'.error = counts.error
      /\ counts'.skipped = counts.skipped
  <2>1. Import!Record.total \in Nat
    BY <1>1, ReadsOn DEF IsOf
  <2> QED BY <1>1, <2>1 DEF ImportTypes, Counts, Sum
<1>3. ImportTypes'
  BY <1>1, <1>2, TypesReading DEF ImportTypes
<1>4. /\ \A kinds : "manifest" \notin kinds => Behind(kinds)' = Behind(kinds)
      /\ Cardinality(Read)' = Cardinality(Read) /\ stream' = stream
      /\ \A kinds : Import!Keys(kinds)' = Import!Keys(kinds)
  BY <1>1, ReadsOn, TypesReading
<1>6. AllOwned'
  BY <1>1, <1>2 DEF Accounted, AllOwned
<1>5. Accounted'
  BY <1>1, <1>2, <1>4, <1>6
     DEF Accounted, AllCounted, AllDrawn, AllClosed, AllTold, AllDug, Drawn, KeysIn, Import!Valid
<1> QED
  BY <1>1, <1>3, <1>5, TypesReading DEF ImportInv

LEMMA UnknownKeeps ==
    ASSUME ImportInv, Import!Unknown
    PROVE  ImportInv'
<1> USE DEF Import!Kinds
<1>1. /\ ImportTypes /\ Accounted /\ Import!Takes(Import!Kinds) /\ Import!Read
      /\ Import!Record.kind = "other"
      /\ counts' = [counts EXCEPT !.skipped = @ + 1]
      /\ UNCHANGED <<pendingDrawers, pendingClosets, pendingTunnels, drawers, stored, facts, tunnels, graph, missed>>
  BY DEF ImportInv, Import!Unknown, Import!Takes, Import!Record, Import!pending, Import!stored
<1>2. /\ counts \in Counts /\ counts' \in Counts /\ Sum(counts') = Sum(counts) + 1
      /\ counts'.error = counts.error /\ counts.skipped <= counts'.skipped
  BY <1>1, OneMore DEF ImportTypes
<1>8. AllOwned'
  BY <1>1, <1>2, OwnedStays DEF Accounted
<1>3. ImportTypes'
  BY <1>1, <1>2, TypesReading DEF ImportTypes
<1>4. /\ \A kinds : "other" \notin kinds => Behind(kinds)' = Behind(kinds)
      /\ Cardinality(Read)' = Cardinality(Read) + 1 /\ Cardinality(Read) \in Nat /\ stream' = stream
      /\ \A kinds : Import!Keys(kinds)' = Import!Keys(kinds)
  BY <1>1, ReadsOn, TypesReading
<1>6. Sum(counts) \in Nat /\ Len(pendingDrawers) \in Nat /\ Len(pendingClosets) \in Nat /\ Len(pendingTunnels) \in Nat
  BY <1>1 DEF ImportTypes, Waits, Counts, Sum
<1>7. AllCounted'
  BY <1>1, <1>2, <1>4, <1>6 DEF Accounted, AllCounted
<1>5. Accounted'
  BY <1>1, <1>2, <1>4, <1>7, <1>8
     DEF Accounted, AllDrawn, AllClosed, AllTold, AllDug, Drawn, KeysIn, Import!Valid
<1> QED
  BY <1>1, <1>3, <1>5, TypesReading DEF ImportInv

LEMMA FactKeeps ==
    ASSUME ImportInv, Import!ReadFact
    PROVE  ImportInv'
<1> USE DEF Import!Kinds
<1>1. /\ ImportTypes /\ Accounted /\ Import!Takes(Import!Kinds) /\ Import!Read
      /\ Import!Record.kind = "kg"
      /\ \/ /\ counts' = [counts EXCEPT !.facts = @ + 1] /\ missed' = missed
            /\ facts' = Import!KGAdd(Import!Record)
         \/ /\ counts' = [counts EXCEPT !.skipped = @ + 1] /\ facts' = facts
            /\ missed' = IF Import!Record.blank THEN missed ELSE missed \cup {Import!Record}
      /\ UNCHANGED <<pendingDrawers, pendingClosets, pendingTunnels, drawers, stored, tunnels, graph>>
  BY DEF ImportInv, Import!ReadFact, Import!Takes, Import!Record, Import!pending, Import!stored
<1>2. /\ counts \in Counts /\ counts' \in Counts /\ Sum(counts') = Sum(counts) + 1
      /\ counts'.error = counts.error /\ counts.skipped <= counts'.skipped
  BY <1>1, OneMore DEF ImportTypes
<1>10. AllOwned'
  <2>1. CASE missed' = missed
    BY <1>1, <1>2, <2>1, OwnedStays DEF Accounted
  <2>2. CASE missed' # missed
    <3>1. /\ missed' = missed \cup {Import!Record} /\ Import!Record \notin missed
          /\ counts' = [counts EXCEPT !.skipped = @ + 1]
      BY <1>1, <2>2
    <3>2. /\ IsFiniteSet(missed) /\ Cardinality(missed) \in Nat /\ Cardinality(missed) <= counts.skipped
      BY <1>1, FS_CardinalityType DEF Accounted, AllOwned
    <3>3. IsFiniteSet(missed') /\ Cardinality(missed') = Cardinality(missed) + 1
      BY <3>1, <3>2, FS_AddElement
    <3>4. counts.skipped \in Nat /\ counts'.skipped = counts.skipped + 1
      BY <1>2, <3>1 DEF Counts
    <3> QED BY <3>2, <3>3, <3>4 DEF AllOwned
  <2> QED BY <2>1, <2>2
<1>3. /\ Behind({"kg"})' = Behind({"kg"}) \cup {pos'}
      /\ \A kinds : "kg" \notin kinds => Behind(kinds)' = Behind(kinds)
      /\ Cardinality(Read)' = Cardinality(Read) + 1 /\ Cardinality(Read) \in Nat
      /\ stream' = stream /\ Import!Record \in Recs /\ Import!Record = stream[pos']
      /\ \A kinds : Import!Keys(kinds)' = Import!Keys(kinds)
  BY <1>1, ReadsOn, TypesReading
<1>4. /\ facts' \in Seq(FactsOf)
      /\ \A f \in DOMAIN facts : \E g \in DOMAIN facts' : facts'[g].key = facts[f].key
      /\ ~Import!Record.blank => \/ \E g \in DOMAIN facts' : facts'[g].key = Import!Record.key
                                \/ Import!Record \in missed'
      /\ missed \subseteq missed'
  <2>1. CASE facts' = facts
    BY <1>1, <2>1, AppendProperties DEF ImportTypes, Import!KGAdd
  <2>2. CASE facts' # facts
    <3> DEFINE fact == [key |-> Import!Record.key, ended |-> Import!Record.ended]
    <3>1. facts' = Append(facts, fact) /\ fact \in FactsOf /\ facts \in Seq(FactsOf)
      BY <1>1, <1>3, <2>2 DEF Import!KGAdd, ImportTypes, FactsOf
    <3>2. fact.key = Import!Record.key
      OBVIOUS
    <3> HIDE DEF fact
    <3>3. /\ facts' \in Seq(FactsOf) /\ Len(facts') = Len(facts) + 1 /\ Len(facts) \in Nat
          /\ DOMAIN facts = 1..Len(facts) /\ DOMAIN facts' = 1..Len(facts) + 1
          /\ \A i \in 1..Len(facts) : facts'[i] = facts[i]
          /\ facts'[Len(facts) + 1] = fact
      BY <3>1, AppendProperties
    <3>4. missed' = missed
      BY <1>1, <2>2
    <3> QED BY <3>2, <3>3, <3>4
  <2> QED BY <1>1, <2>1, <2>2
<1>5. ImportTypes'
  BY <1>1, <1>2, <1>4, TypesReading DEF ImportTypes
<1>6. Sum(counts) \in Nat /\ Len(pendingDrawers) \in Nat /\ Len(pendingClosets) \in Nat /\ Len(pendingTunnels) \in Nat
  BY <1>1 DEF ImportTypes, Waits, Counts, Sum
<1>7. AllCounted'
  BY <1>1, <1>2, <1>3, <1>6 DEF Accounted, AllCounted
<1>8. AllTold'
  BY <1>1, <1>3, <1>4 DEF Accounted, AllTold
<1>11. AllDug'
  BY <1>1, <1>2, <1>3, <1>4 DEF Accounted, AllDug, Drawn
<1>9. Accounted'
  BY <1>1, <1>2, <1>3, <1>7, <1>8, <1>10, <1>11
     DEF Accounted, AllDrawn, AllClosed, Drawn, KeysIn, Import!Valid
<1> QED
  BY <1>1, <1>5, <1>9, TypesReading DEF ImportInv

(* A drawer or a diary entry: it waits for its batch to be full.           *)
LEMMA DrawerKeeps ==
    ASSUME ImportInv, Import!ReadDrawer
    PROVE  ImportInv'
<1> USE DEF Import!Kinds
<1> DEFINE batch == Append(pendingDrawers, Import!Record)
<1>1. /\ ImportTypes /\ Accounted /\ Import!Takes(Import!Kinds) /\ Import!Read
      /\ Import!Record.kind \in Drawn
      /\ UNCHANGED <<pendingClosets, pendingTunnels, stored, facts, tunnels, graph, missed>>
      /\ IF Len(batch) < ImportBatch
         THEN pendingDrawers' = batch /\ UNCHANGED <<counts, drawers>>
         ELSE \E ok \in BOOLEAN : Import!AbsorbDrawers(batch, ok)
                /\ counts' = Import!FlushDrawers(batch, ok, counts)
  BY DEF ImportInv, Import!ReadDrawer, Import!Takes, Import!Record, Drawn
<1>2. /\ Behind(Drawn)' = Behind(Drawn) \cup {pos'}
      /\ \A kinds : Import!Record.kind \notin kinds => Behind(kinds)' = Behind(kinds)
      /\ Cardinality(Read)' = Cardinality(Read) + 1 /\ Cardinality(Read) \in Nat
      /\ stream' = stream /\ Import!Record \in Recs /\ Import!Record = stream[pos']
      /\ Behind({"tunnel"}) = {}
      /\ \A kinds : Import!Keys(kinds)' = Import!Keys(kinds)
  BY <1>1, ReadsOn, TypesReading DEF Drawn
<1>3. /\ \A b : b = batch => Waits(b, Drawn)'
      /\ batch \in Seq(Recs) /\ pendingDrawers \in Seq(Recs)
      /\ Len(batch) = Len(pendingDrawers) + 1 /\ Len(pendingDrawers) \in Nat
      /\ KeysIn(batch) = KeysIn(pendingDrawers) \cup (IF Import!Record.blank THEN {} ELSE {Import!Record.key})
  BY <1>1, BatchGrows DEF ImportTypes
<1>4. /\ pendingDrawers' = batch \/ pendingDrawers' = <<>>
      /\ Len(pendingDrawers') < ImportBatch /\ Waits(pendingDrawers, Drawn)'
      /\ counts' \in Counts
      /\ Sum(counts') + Len(pendingDrawers') = Sum(counts) + Len(pendingDrawers) + 1
      /\ drawers \subseteq drawers' /\ drawers' \subseteq Import!Keys(Drawn)
      /\ ~counts'.error => ~counts.error /\ drawers' \cup KeysIn(pendingDrawers') = drawers \cup KeysIn(batch)
      /\ counts \in Counts /\ counts.skipped <= counts'.skipped
  <2>0. Sum(counts) \in Nat /\ counts \in Counts /\ drawers \subseteq Import!Keys(Drawn)
    BY <1>1 DEF ImportTypes, Counts, Sum
  <2>1. CASE Len(batch) < ImportBatch
    <3>1. pendingDrawers' = batch /\ counts' = counts /\ drawers' = drawers
      BY <1>1, <2>1
    <3>2. Waits(pendingDrawers, Drawn)'
      BY <1>3, <3>1 DEF Waits
    <3>3. counts.skipped <= counts'.skipped
      BY <2>0, <3>1 DEF Counts
    <3> QED BY <1>3, <2>0, <2>1, <3>1, <3>2, <3>3
  <2>2. CASE ~(Len(batch) < ImportBatch)
    <3>1. PICK ok \in BOOLEAN : Import!AbsorbDrawers(batch, ok) /\ counts' = Import!FlushDrawers(batch, ok, counts)
      BY <1>1, <2>2
    <3>2. /\ counts' \in Counts /\ Sum(counts') = Sum(counts) + Len(batch)
          /\ ~counts'.error => ~counts.error /\ (ok \/ Import!Valid(batch) = {})
          /\ counts.skipped <= counts'.skipped
      BY <3>1, <2>0, <1>3, DrawersCounted
    <3>3. pendingDrawers' = <<>> /\ drawers' = IF ok THEN drawers \cup KeysIn(batch) ELSE drawers
      BY <3>1 DEF Import!AbsorbDrawers, KeysIn
    <3>4. KeysIn(batch) \subseteq Import!Keys(Drawn)'
      <4> SUFFICES ASSUME NEW i \in Import!Valid(batch) PROVE batch[i].key \in Import!Keys(Drawn)'
        BY DEF KeysIn
      <4>1. PICK j \in Behind(Drawn)' : batch[i] = stream'[j]
        <5>1. \A b : b = batch => \A k \in DOMAIN b : \E j \in Behind(Drawn)' : b[k] = stream'[j]
          BY <1>3 DEF Waits
        <5> QED BY <5>1 DEF Import!Valid
      <4>2. j \in DOMAIN stream' /\ stream'[j].kind \in Drawn
        BY <1>1, <4>1, TypesReading, StreamsAre DEF Behind
      <4> QED BY <4>1, <4>2 DEF Import!Keys, Import!Sent, Import!Valid
    <3>5. KeysIn(<<>>) = {} /\ (Import!Valid(batch) = {} => KeysIn(batch) = {})
      BY DEF KeysIn, Import!Valid
    <3>6. Waits(pendingDrawers, Drawn)' /\ Len(pendingDrawers') = 0
      BY <3>3 DEF Waits
    <3>7. 0 < ImportBatch
      BY BatchesAre
    <3>8. Sum(counts') + Len(pendingDrawers') = Sum(counts) + Len(pendingDrawers) + 1
      BY <1>3, <2>0, <3>2, <3>6
    <3>9. drawers' \subseteq Import!Keys(Drawn)
      BY <1>2, <2>0, <3>3, <3>4
    <3>10. ~counts'.error => ~counts.error /\ drawers' \cup KeysIn(pendingDrawers') = drawers \cup KeysIn(batch)
      BY <3>2, <3>3, <3>5
    <3> QED BY <2>0, <3>2, <3>3, <3>6, <3>7, <3>8, <3>9, <3>10
  <2> QED BY <2>1, <2>2
<1> HIDE DEF batch
<1>5. TunnelKeys(drawers) \subseteq TunnelKeys(drawers)'
  BY <1>2, <1>4 DEF TunnelKeys, Rooms, Import!Sent
<1>6. ImportTypes'
  BY <1>1, <1>2, <1>4, <1>5, TypesReading DEF ImportTypes
<1>7. Sum(counts) \in Nat /\ Sum(counts') \in Nat /\ Len(pendingClosets) \in Nat /\ Len(pendingTunnels) \in Nat
      /\ Len(pendingDrawers') \in Nat
  <2>1. counts \in Counts /\ counts' \in Counts
    BY <1>1, <1>4 DEF ImportTypes
  <2>2. \A c \in Counts : Sum(c) \in Nat
    BY DEF Counts, Sum
  <2>3. pendingDrawers' \in Seq(Recs) /\ pendingClosets \in Seq(Recs) /\ pendingTunnels \in Seq(Recs)
    BY <1>1, <1>4 DEF ImportTypes, Waits
  <2> QED BY <2>1, <2>2, <2>3
<1>8. AllCounted'
  BY <1>1, <1>2, <1>3, <1>4, <1>7 DEF Accounted, AllCounted
<1>9. AllDrawn'
  BY <1>1, <1>2, <1>3, <1>4 DEF Accounted, AllDrawn
<1>10. AllClosed' /\ AllTold'
  BY <1>1, <1>2, <1>4 DEF Accounted, AllClosed, AllTold, Drawn, KeysIn, Import!Valid
<1>11. AllDug'
  BY <1>1, <1>2 DEF AllDug, Drawn
<1>12. AllOwned'
  BY <1>1, <1>4, OwnedStays DEF Accounted
<1> QED
  BY <1>1, <1>6, <1>8, <1>9, <1>10, <1>11, <1>12, TypesReading DEF ImportInv, Accounted

(* A closet likewise.                                                      *)
LEMMA ClosetKeeps ==
    ASSUME ImportInv, Import!ReadCloset
    PROVE  ImportInv'
<1> USE DEF Import!Kinds
<1> DEFINE batch == Append(pendingClosets, Import!Record)
<1>1. /\ ImportTypes /\ Accounted /\ Import!Takes(Import!Kinds) /\ Import!Read
      /\ Import!Record.kind \in {"closet"}
      /\ UNCHANGED <<pendingDrawers, pendingTunnels, drawers, facts, tunnels, graph, missed>>
      /\ IF Len(batch) < ImportBatch
         THEN pendingClosets' = batch /\ UNCHANGED <<counts, stored>>
         ELSE \E ok \in BOOLEAN : Import!AbsorbClosets(batch, ok)
                /\ counts' = Import!FlushClosets(batch, ok, counts)
  BY DEF ImportInv, Import!ReadCloset, Import!Takes, Import!Record
<1>2. /\ Behind({"closet"})' = Behind({"closet"}) \cup {pos'}
      /\ \A kinds : Import!Record.kind \notin kinds => Behind(kinds)' = Behind(kinds)
      /\ Cardinality(Read)' = Cardinality(Read) + 1 /\ Cardinality(Read) \in Nat
      /\ stream' = stream /\ Import!Record \in Recs /\ Import!Record = stream[pos']
      /\ \A kinds : Import!Keys(kinds)' = Import!Keys(kinds)
  BY <1>1, ReadsOn, TypesReading
<1>3. /\ \A b : b = batch => Waits(b, {"closet"})'
      /\ batch \in Seq(Recs) /\ pendingClosets \in Seq(Recs)
      /\ Len(batch) = Len(pendingClosets) + 1 /\ Len(pendingClosets) \in Nat
      /\ KeysIn(batch) = KeysIn(pendingClosets) \cup (IF Import!Record.blank THEN {} ELSE {Import!Record.key})
  BY <1>1, BatchGrows DEF ImportTypes
<1>4. /\ pendingClosets' = batch \/ pendingClosets' = <<>>
      /\ Len(pendingClosets') < ImportBatch /\ Waits(pendingClosets, {"closet"})'
      /\ counts' \in Counts
      /\ Sum(counts') + Len(pendingClosets') = Sum(counts) + Len(pendingClosets) + 1
      /\ stored \subseteq stored' /\ stored' \subseteq Import!Keys({"closet"})
      /\ ~counts'.error => ~counts.error /\ stored' \cup KeysIn(pendingClosets') = stored \cup KeysIn(batch)
      /\ counts \in Counts /\ counts.skipped <= counts'.skipped
  <2>0. Sum(counts) \in Nat /\ counts \in Counts /\ stored \subseteq Import!Keys({"closet"})
    BY <1>1 DEF ImportTypes, Counts, Sum
  <2>1. CASE Len(batch) < ImportBatch
    <3>1. pendingClosets' = batch /\ counts' = counts /\ stored' = stored
      BY <1>1, <2>1
    <3>2. Waits(pendingClosets, {"closet"})'
      BY <1>3, <3>1 DEF Waits
    <3>3. counts.skipped <= counts'.skipped
      BY <2>0, <3>1 DEF Counts
    <3> QED BY <1>3, <2>0, <2>1, <3>1, <3>2, <3>3
  <2>2. CASE ~(Len(batch) < ImportBatch)
    <3>1. PICK ok \in BOOLEAN : Import!AbsorbClosets(batch, ok) /\ counts' = Import!FlushClosets(batch, ok, counts)
      BY <1>1, <2>2
    <3>2. /\ counts' \in Counts /\ Sum(counts') = Sum(counts) + Len(batch)
          /\ ~counts'.error => ~counts.error /\ (ok \/ Import!Valid(batch) = {})
          /\ counts.skipped <= counts'.skipped
      BY <3>1, <2>0, <1>3, ClosetsCounted
    <3>3. pendingClosets' = <<>> /\ stored' = IF ok THEN stored \cup KeysIn(batch) ELSE stored
      BY <3>1 DEF Import!AbsorbClosets, KeysIn
    <3>4. KeysIn(batch) \subseteq Import!Keys({"closet"})'
      <4> SUFFICES ASSUME NEW i \in Import!Valid(batch) PROVE batch[i].key \in Import!Keys({"closet"})'
        BY DEF KeysIn
      <4>1. PICK j \in Behind({"closet"})' : batch[i] = stream'[j]
        <5>1. \A b : b = batch => \A k \in DOMAIN b : \E j \in Behind({"closet"})' : b[k] = stream'[j]
          BY <1>3 DEF Waits
        <5> QED BY <5>1 DEF Import!Valid
      <4>2. j \in DOMAIN stream' /\ stream'[j].kind \in {"closet"}
        BY <1>1, <4>1, TypesReading, StreamsAre DEF Behind
      <4> QED BY <4>1, <4>2 DEF Import!Keys, Import!Sent, Import!Valid
    <3>5. KeysIn(<<>>) = {} /\ (Import!Valid(batch) = {} => KeysIn(batch) = {})
      BY DEF KeysIn, Import!Valid
    <3>6. Waits(pendingClosets, {"closet"})' /\ Len(pendingClosets') = 0
      BY <3>3 DEF Waits
    <3>7. 0 < ImportBatch
      BY BatchesAre
    <3>8. Sum(counts') + Len(pendingClosets') = Sum(counts) + Len(pendingClosets) + 1
      BY <1>3, <2>0, <3>2, <3>6
    <3>9. stored' \subseteq Import!Keys({"closet"})
      BY <1>2, <2>0, <3>3, <3>4
    <3>10. ~counts'.error => ~counts.error /\ stored' \cup KeysIn(pendingClosets') = stored \cup KeysIn(batch)
      BY <3>2, <3>3, <3>5
    <3> QED BY <2>0, <3>2, <3>3, <3>6, <3>7, <3>8, <3>9, <3>10
  <2> QED BY <2>1, <2>2
<1> HIDE DEF batch
<1>6. ImportTypes'
  BY <1>1, <1>2, <1>4, TypesReading DEF ImportTypes
<1>7. Sum(counts) \in Nat /\ Sum(counts') \in Nat /\ Len(pendingDrawers) \in Nat /\ Len(pendingTunnels) \in Nat
      /\ Len(pendingClosets') \in Nat
  <2>1. counts \in Counts /\ counts' \in Counts
    BY <1>1, <1>4 DEF ImportTypes
  <2>2. \A c \in Counts : Sum(c) \in Nat
    BY DEF Counts, Sum
  <2>3. pendingClosets' \in Seq(Recs) /\ pendingDrawers \in Seq(Recs) /\ pendingTunnels \in Seq(Recs)
    BY <1>1, <1>4 DEF ImportTypes, Waits
  <2> QED BY <2>1, <2>2, <2>3
<1>8. AllCounted'
  BY <1>1, <1>2, <1>3, <1>4, <1>7 DEF Accounted, AllCounted
<1>9. AllClosed'
  BY <1>1, <1>2, <1>3, <1>4 DEF Accounted, AllClosed
<1>10. AllDrawn' /\ AllTold'
  BY <1>1, <1>2, <1>4 DEF Accounted, AllDrawn, AllTold, Drawn, KeysIn, Import!Valid
<1>11. AllDug'
  BY <1>1, <1>2, <1>4 DEF Accounted, AllDug
<1>12. AllOwned'
  BY <1>1, <1>4, OwnedStays DEF Accounted
<1> QED
  BY <1>1, <1>6, <1>8, <1>9, <1>10, <1>11, <1>12, TypesReading DEF ImportInv, Accounted

(* A tunnel waits too; when too many wait, all that waits is stored first.  *)
LEMMA TunnelKeeps ==
    ASSUME ImportInv, Import!ReadTunnel
    PROVE  ImportInv'
<1> USE DEF Import!Kinds
<1> DEFINE batch == Append(pendingTunnels, Import!Record)
<1>1. /\ ImportTypes /\ Accounted /\ Import!Takes(Import!Kinds) /\ Import!Read
      /\ Import!Record.kind \in {"tunnel"}
      /\ UNCHANGED <<facts, graph>>
      /\ IF Len(batch) < TunnelsHeld
         THEN pendingTunnels' = batch
              /\ UNCHANGED <<pendingDrawers, pendingClosets, counts, drawers, stored, tunnels, missed>>
         ELSE Import!Flush(batch)
  BY DEF ImportInv, Import!ReadTunnel, Import!Takes, Import!Record
<1>2. /\ Behind({"tunnel"})' = Behind({"tunnel"}) \cup {pos'}
      /\ \A kinds : Import!Record.kind \notin kinds => Behind(kinds)' = Behind(kinds)
      /\ Cardinality(Read)' = Cardinality(Read) + 1 /\ Cardinality(Read) \in Nat
      /\ stream' = stream /\ Import!Record \in Recs /\ Import!Record = stream[pos']
      /\ \A kinds : Import!Keys(kinds)' = Import!Keys(kinds)
      /\ pos' = pos + 1 /\ pos' \in 0..Len(stream)
  BY <1>1, ReadsOn, TypesReading
<1>3. /\ \A b : b = batch => Waits(b, {"tunnel"})'
      /\ batch \in Seq(Recs) /\ pendingTunnels \in Seq(Recs)
      /\ Len(batch) = Len(pendingTunnels) + 1 /\ Len(pendingTunnels) \in Nat
      /\ \A i \in DOMAIN pendingTunnels : batch[i] = pendingTunnels[i] /\ i \in DOMAIN batch
      /\ Len(batch) \in DOMAIN batch /\ batch[Len(batch)] = Import!Record
  BY <1>1, BatchGrows DEF ImportTypes
<1> HIDE DEF batch
<1>4. CASE Len(batch) < TunnelsHeld
  <2>1. pendingTunnels' = batch
        /\ UNCHANGED <<pendingDrawers, pendingClosets, counts, drawers, stored, tunnels, missed>>
    BY <1>1, <1>4
  <2>2. Waits(pendingTunnels, {"tunnel"})'
    BY <1>3, <2>1 DEF Waits
  <2>3. ImportTypes'
    BY <1>1, <1>4, <2>1, <2>2, TypesReading DEF ImportTypes
  <2>4. Sum(counts) \in Nat /\ Len(pendingDrawers) \in Nat /\ Len(pendingClosets) \in Nat
    BY <1>1 DEF ImportTypes, Waits, Counts, Sum
  <2>5. AllCounted'
    BY <1>1, <1>2, <1>3, <2>1, <2>4 DEF Accounted, AllCounted
  <2>6. AllDrawn' /\ AllClosed' /\ AllTold'
    BY <1>1, <1>2, <2>1 DEF Accounted, AllDrawn, AllClosed, AllTold, Drawn, KeysIn, Import!Valid
  <2>7. AllDug'
    BY <1>1, <1>2, <1>3, <2>1 DEF Accounted, AllDug
  <2>8. AllOwned'
    BY <1>1, <2>1 DEF Accounted, AllOwned
  <2> QED BY <1>1, <2>3, <2>5, <2>6, <2>7, <2>8, TypesReading DEF ImportInv, Accounted
<1>5. CASE ~(Len(batch) < TunnelsHeld)
  <2>0. Import!Flush(batch)
    BY <1>1, <1>5
  <2>1. /\ pendingDrawers' = <<>> /\ pendingClosets' = <<>> /\ pendingTunnels' = <<>>
        /\ counts' \in Counts
        /\ Sum(counts') = Sum(counts) + Len(pendingDrawers) + Len(pendingClosets) + Len(batch)
        /\ drawers \subseteq drawers' /\ drawers' \subseteq Import!Keys(Drawn)
        /\ stored \subseteq stored' /\ stored' \subseteq Import!Keys({"closet"})
        /\ tunnels \subseteq tunnels' /\ missed \subseteq missed'
        /\ tunnels' \subseteq tunnels \cup {batch[i].key : i \in Import!Made(batch, drawers')}
        /\ \A i \in Import!Made(batch, drawers') : batch[i].key \in tunnels' \/ batch[i] \in missed'
        /\ AllOwned => AllOwned'
        /\ ~counts'.error =>
             /\ ~counts.error
             /\ drawers' = drawers \cup KeysIn(pendingDrawers)
             /\ stored' = stored \cup KeysIn(pendingClosets)
    BY <1>1, <1>3, <2>0, Flushed
  <2>2. \A kinds : Waits(<<>>, kinds)'
    BY DEF Waits
  <2>3. tunnels' \subseteq TunnelKeys(drawers)'
    <3>1. tunnels \subseteq TunnelKeys(drawers)'
      <4>1. Rooms(drawers) \subseteq Rooms(drawers)'
        BY <2>1 DEF Rooms
      <4> QED BY <1>1, <1>2, <4>1 DEF ImportTypes, TunnelKeys, Import!Sent
    <3>2. ASSUME NEW i \in Import!Made(batch, drawers') PROVE batch[i].key \in TunnelKeys(drawers)'
      <4>1. i \in DOMAIN batch /\ batch[i].rooms \subseteq Rooms(drawers')
        BY DEF Import!Made, Rooms
      <4>2. PICK j \in Behind({"tunnel"})' : batch[i] = stream'[j]
        BY <1>3, <4>1 DEF Waits
      <4>3. j \in DOMAIN stream' /\ stream'[j].kind \in {"tunnel"}
        BY <1>1, <4>2, TypesReading, StreamsAre DEF Behind
      <4> QED BY <4>1, <4>2, <4>3 DEF TunnelKeys, Import!Sent, Rooms
    <3> QED BY <2>1, <3>1, <3>2
  <2>4. ImportTypes'
    BY <1>1, <1>2, <2>1, <2>2, <2>3, TypesReading, BatchesAre DEF ImportTypes
  <2>5. Sum(counts) \in Nat /\ Len(pendingDrawers) \in Nat /\ Len(pendingClosets) \in Nat
    BY <1>1 DEF ImportTypes, Waits, Counts, Sum
  <2>6. AllCounted'
    BY <1>1, <1>2, <1>3, <2>1, <2>5 DEF Accounted, AllCounted
  <2>7. AllDrawn' /\ AllClosed' /\ AllTold'
    BY <1>1, <1>2, <2>1 DEF Accounted, AllDrawn, AllClosed, AllTold, Drawn, KeysIn, Import!Valid
  <2>8. AllDug'
    <3> SUFFICES ASSUME ~counts'.error, NEW i \in Behind({"tunnel"})',
                        stream'[i].rooms \subseteq Rooms(Import!Keys(Drawn)')
                 PROVE  stream'[i].key \in tunnels' \/ stream'[i] \in missed'
      BY DEF AllDug, Rooms
    <3>1. drawers' = Import!Keys(Drawn)
      <4>1. \A j \in DOMAIN stream : stream[j].kind \in Drawn => j \in Behind(Drawn)
        <5> SUFFICES ASSUME NEW j \in DOMAIN stream, stream[j].kind \in Drawn PROVE j <= pos
          BY <1>1, StreamsAre DEF Behind, ImportTypes
        <5>1. TunnelsLast(stream) /\ pos' \in DOMAIN stream /\ DOMAIN stream = 1..Len(stream) /\ pos \in Nat
          BY <1>1, <1>2, StreamsAre DEF ImportTypes
        <5>2. ~(pos' < j) /\ j # pos'
          BY <1>1, <1>2, <5>1 DEF TunnelsLast, Drawn
        <5> QED BY <1>2, <5>1, <5>2
      <4>2. \A j \in Behind(Drawn) : ~stream[j].blank => stream[j].key \in drawers'
        BY <1>1, <2>1 DEF Accounted, AllDrawn
      <4> QED BY <2>1, <4>1, <4>2 DEF Import!Keys, Import!Sent
    <3>2. CASE i = pos'
      <4>1. Len(batch) \in Import!Made(batch, drawers')
        BY <1>2, <1>3, <3>1, <3>2 DEF Import!Made, Rooms
      <4> QED BY <1>2, <1>3, <2>1, <3>2, <4>1
    <3>3. CASE i \in Behind({"tunnel"})
      <4>1. \/ stream[i].key \in tunnels \/ stream[i] \in missed
            \/ \E j \in DOMAIN pendingTunnels : pendingTunnels[j] = stream[i]
        BY <1>1, <1>2, <2>1, <3>3 DEF Accounted, AllDug
      <4>2. CASE stream[i].key \in tunnels \/ stream[i] \in missed
        BY <1>2, <2>1, <4>2
      <4>3. ASSUME NEW j \in DOMAIN pendingTunnels, pendingTunnels[j] = stream[i]
            PROVE  stream'[i].key \in tunnels' \/ stream'[i] \in missed'
        <5>1. j \in DOMAIN batch /\ batch[j] = stream[i] /\ stream'[i] = stream[i]
          BY <1>2, <1>3, <4>3
        <5>2. stream[i].rooms \subseteq Rooms(drawers')
          BY <1>2, <3>1
        <5>3. j \in Import!Made(batch, drawers')
          BY <5>1, <5>2 DEF Import!Made, Rooms
        <5> QED BY <2>1, <5>1, <5>3
      <4> QED BY <4>1, <4>2, <4>3
    <3> QED BY <1>2, <3>2, <3>3
  <2>9. AllOwned'
    BY <1>1, <2>1 DEF Accounted
  <2> QED BY <1>1, <2>4, <2>6, <2>7, <2>8, <2>9, TypesReading DEF ImportInv, Accounted
<1> QED BY <1>4, <1>5

(* The end of the stream, or its cutting off.                              *)
LEMMA FinishKeeps ==
    ASSUME ImportInv, Import!Finish
    PROVE  ImportInv'
<1>1. /\ ImportTypes /\ Accounted /\ reads = "reading" /\ Import!Flush(pendingTunnels)
      /\ reads' = IF pos = Len(stream) THEN "finished" ELSE "broken"
      /\ stream' = stream /\ pos' = pos /\ facts' = facts /\ recompute' = recompute
  BY DEF ImportInv, Import!Finish
<1>2. pendingTunnels \in Seq(Recs) /\ Waits(pendingTunnels, {"tunnel"})
  BY <1>1 DEF ImportTypes, Waits
<1>3. /\ pendingDrawers' = <<>> /\ pendingClosets' = <<>> /\ pendingTunnels' = <<>>
      /\ counts' \in Counts
      /\ Sum(counts') = Sum(counts) + Len(pendingDrawers) + Len(pendingClosets) + Len(pendingTunnels)
      /\ drawers \subseteq drawers' /\ drawers' \subseteq Import!Keys(Drawn)
      /\ stored \subseteq stored' /\ stored' \subseteq Import!Keys({"closet"})
      /\ tunnels \subseteq tunnels' /\ missed \subseteq missed'
      /\ tunnels' \subseteq tunnels \cup {pendingTunnels[i].key : i \in Import!Made(pendingTunnels, drawers')}
      /\ \A i \in Import!Made(pendingTunnels, drawers') :
           pendingTunnels[i].key \in tunnels' \/ pendingTunnels[i] \in missed'
      /\ AllOwned => AllOwned'
      /\ ~counts'.error =>
           /\ ~counts.error
           /\ drawers' = drawers \cup KeysIn(pendingDrawers)
           /\ stored' = stored \cup KeysIn(pendingClosets)
  BY <1>1, <1>2, Flushed
<1>4. /\ \A kinds : Behind(kinds)' = Behind(kinds) /\ Import!Keys(kinds)' = Import!Keys(kinds)
      /\ Read' = Read
  BY <1>1 DEF Behind, Read, Import!Keys, Import!Sent
<1>5. tunnels' \subseteq TunnelKeys(drawers)'
  <2>1. tunnels \subseteq TunnelKeys(drawers)'
    <3>1. Rooms(drawers) \subseteq Rooms(drawers)'
      BY <1>3 DEF Rooms
    <3> QED BY <1>1, <3>1 DEF ImportTypes, TunnelKeys, Import!Sent
  <2>2. ASSUME NEW i \in Import!Made(pendingTunnels, drawers')
        PROVE  pendingTunnels[i].key \in TunnelKeys(drawers)'
    <3>1. i \in DOMAIN pendingTunnels /\ pendingTunnels[i].rooms \subseteq Rooms(drawers')
      BY DEF Import!Made, Rooms
    <3>2. PICK j \in Behind({"tunnel"}) : pendingTunnels[i] = stream[j]
      BY <1>2, <3>1 DEF Waits
    <3>3. j \in DOMAIN stream /\ stream[j].kind \in {"tunnel"}
      BY <1>1, <3>2, StreamsAre DEF Behind, ImportTypes
    <3> QED BY <1>1, <3>1, <3>2, <3>3 DEF TunnelKeys, Import!Sent, Rooms
  <2> QED BY <1>3, <2>1, <2>2
<1>6. ImportTypes'
  <2>1. \A kinds : Waits(<<>>, kinds)'
    BY DEF Waits
  <2> QED BY <1>1, <1>3, <1>4, <1>5, <2>1, BatchesAre DEF ImportTypes
<1>7. AllCounted'
  <2>1. Sum(counts) \in Nat /\ Len(pendingDrawers) \in Nat /\ Len(pendingClosets) \in Nat
        /\ Len(pendingTunnels) \in Nat
    BY <1>1 DEF ImportTypes, Waits, Counts, Sum
  <2> QED BY <1>1, <1>3, <1>4, <2>1 DEF Accounted, AllCounted
<1>8. AllDrawn' /\ AllClosed' /\ AllTold'
  BY <1>1, <1>3, <1>4 DEF Accounted, AllDrawn, AllClosed, AllTold, KeysIn, Import!Valid
<1>9. pos = Len(stream) => AllDug'
  <2> SUFFICES ASSUME pos = Len(stream), ~counts'.error, NEW i \in Behind({"tunnel"}),
                      stream[i].rooms \subseteq Rooms(Import!Keys(Drawn))
               PROVE  stream[i].key \in tunnels' \/ stream[i] \in missed'
    BY <1>1, <1>4 DEF AllDug, Rooms
  <2>1. drawers' = Import!Keys(Drawn)
    <3>1. \A j \in DOMAIN stream : stream[j].kind \in Drawn => j \in Behind(Drawn)
      BY <1>1, StreamsAre DEF Behind, ImportTypes
    <3>2. \A j \in Behind(Drawn) : ~stream[j].blank => stream[j].key \in drawers'
      BY <1>1, <1>3 DEF Accounted, AllDrawn
    <3> QED BY <1>3, <3>1, <3>2 DEF Import!Keys, Import!Sent
  <2>2. \/ stream[i].key \in tunnels \/ stream[i] \in missed
        \/ \E j \in DOMAIN pendingTunnels : pendingTunnels[j] = stream[i]
    BY <1>1, <1>3 DEF Accounted, AllDug
  <2>3. CASE stream[i].key \in tunnels \/ stream[i] \in missed
    BY <1>3, <2>3
  <2>4. ASSUME NEW j \in DOMAIN pendingTunnels, pendingTunnels[j] = stream[i]
        PROVE  stream[i].key \in tunnels' \/ stream[i] \in missed'
    <3>1. j \in Import!Made(pendingTunnels, drawers')
      BY <2>1, <2>4 DEF Import!Made, Rooms
    <3> QED BY <1>3, <2>4, <3>1
  <2> QED BY <2>2, <2>3, <2>4
<1>10. AllOwned'
  BY <1>1, <1>3 DEF Accounted
<1> QED
  BY <1>1, <1>6, <1>7, <1>8, <1>9, <1>10 DEF ImportInv, Accounted

LEMMA ImportSteps ==
    ASSUME ImportInv, [Import!Next]_(Import!vars)
    PROVE  ImportInv'
<1>1. CASE Import!Disconnect
  <2>1. /\ reads' = "broken" /\ pendingDrawers' = <<>> /\ pendingClosets' = <<>> /\ pendingTunnels' = <<>>
        /\ UNCHANGED <<stream, pos, counts, drawers, stored, facts, tunnels>>
    BY <1>1 DEF Import!Disconnect, Import!stored
  <2>2. \A kinds : Waits(<<>>, kinds)'
    BY DEF Waits
  <2>3. /\ \A kinds : Import!Keys(kinds)' = Import!Keys(kinds)
        /\ TunnelKeys(drawers)' = TunnelKeys(drawers)
    BY <2>1 DEF Import!Keys, Import!Sent, TunnelKeys, Rooms
  <2> QED BY <2>1, <2>2, <2>3, BatchesAre DEF ImportInv, ImportTypes
<1>2. CASE Import!Again \/ UNCHANGED Import!vars
  <2>1. /\ reads' \in {reads, "idle"} /\ (reads' = "idle" => reads # "reading")
        /\ UNCHANGED <<stream, recompute, pos, pendingDrawers, pendingClosets, pendingTunnels,
                       counts, drawers, stored, facts, tunnels, graph, missed>>
    BY <1>2 DEF Import!Again, Import!vars, Import!pending, Import!stored, ImportInv, ImportTypes
  <2>2. /\ \A kinds : Behind(kinds)' = Behind(kinds) /\ Import!Keys(kinds)' = Import!Keys(kinds)
        /\ TunnelKeys(drawers)' = TunnelKeys(drawers) /\ Read' = Read
    BY <2>1 DEF Behind, Read, Import!Keys, Import!Sent, TunnelKeys, Rooms
  <2>3. ImportTypes'
    BY <2>1, <2>2 DEF ImportInv, ImportTypes, Waits
  <2>4. Accounted => Accounted'
    BY <2>1, <2>2 DEF Accounted, AllCounted, AllDrawn, AllClosed, AllTold, AllDug, AllOwned, KeysIn, Import!Valid
  <2> QED BY <2>1, <2>3, <2>4 DEF ImportInv
<1> QED
  BY <1>1, <1>2, ServeKeeps, ManifestKeeps, DrawerKeeps, ClosetKeeps, FactKeeps, TunnelKeeps,
     UnknownKeeps, FinishKeeps DEF Import!Next

(* Half of WingMovesWhole: an import that has run to its end without an     *)
(* error has filed the stream's drawers and closets, and of its facts and   *)
(* tunnels all but those the store refused, which it counts as skipped;     *)
(* whatever earlier runs were cut off at, for any size of the batches       *)
(* (importer.go: dispatch, the flushes and applyTunnels).                   *)
ImportAt == part = "import" => ImportInv
THEOREM ImportsFileAll == MCSpec => [](part = "import" => Import!ImportFilesAll)
<1>1. MCInit => ImportAt
  BY ImportStarts DEF MCInit, ImportAt
<1>2. ImportAt /\ [MCNext]_hostVars => ImportAt'
  <2> SUFFICES ASSUME ImportAt, [MCNext]_hostVars, part' = "import" PROVE ImportInv'
    BY DEF ImportAt
  <2>1. part = "import"
    BY DEF MCNext, hostVars
  <2> QED
    BY <2>1, ImportRuns, ImportSteps DEF ImportAt
<1>3. ImportAt => (part = "import" => Import!ImportFilesAll)
  BY ImportHolds DEF ImportAt
<1> HIDE DEF ImportAt
<1> QED
  BY <1>1, <1>2, <1>3, PTL DEF MCSpec
-----------------------------------------------------------------------------
(* The launcher: a token is kept for each agent and each sandbox there is. *)
LauncherInv == boxes \subseteq Boxes /\ DOMAIN tokens = Launcher!Agent \cup boxes

LEMMA FirstOfTwo ==
    ASSUME NEW x
    PROVE  Launcher!FirstOf(<<Absent, x>>) = x
<1> DEFINE s == <<Absent, x>>
<1> DEFINE I == {i \in 1..Len(s) : s[i] # Absent}
<1> DEFINE r == IF I # {} THEN Launcher!Min(I) ELSE 0
<1>1. Launcher!FirstOf(s) = IF r = 0 THEN Absent ELSE s[r]
  BY Zenon DEF Launcher!FirstOf, Launcher!SelectInSeq
<1>2. Len(s) = 2 /\ s[1] = Absent /\ s[2] = x
  OBVIOUS
<1>3. CASE x = Absent
  <2>1. I = {}
    BY <1>2, <1>3
  <2> HIDE DEF I
  <2> QED BY <1>1, <1>3, <2>1
<1>4. CASE x # Absent
  <2>1. I = {2}
    BY <1>2, <1>4
  <2>2. Launcher!Min({2}) = 2
    BY DEF Launcher!Min
  <2>3. r = 2
    BY <2>1, <2>2
  <2> HIDE DEF r
  <2>4. Launcher!FirstOf(s) = s[2]
    <3>1. 2 # 0
      OBVIOUS
    <3> QED BY <1>1, <2>3, <3>1, Zenon
  <2> QED BY <1>2, <2>4
<1> QED BY <1>3, <1>4

LEMMA NamedToken ==
    ASSUME NEW named, named # Absent
    PROVE  Launcher!ResolveToken(Absent, named) = Launcher!TokenOf(named)
<1> DEFINE t == Launcher!TokenOf(named)
<1> DEFINE u == [i \in DOMAIN Launcher!TokenSearchDirs(named) |-> Launcher!TokenOf(Launcher!TokenSearchDirs(named)[i])]
<1>1. Launcher!TokenSearchDirs(named) = <<named>>
  BY DEF Launcher!TokenSearchDirs
<1>2. u = [i \in DOMAIN <<named>> |-> Launcher!TokenOf(<<named>>[i])]
  BY <1>1
<1>3. DOMAIN <<named>> = 1..1 /\ 1 \in 1..1
  OBVIOUS
<1>4. u = [i \in 1..1 |-> t]
  <2>1. \A i \in 1..1 : <<named>>[i] = named
    OBVIOUS
  <2>2. \A i \in 1..1 : Launcher!TokenOf(<<named>>[i]) = t
    BY <2>1
  <2> QED BY <1>2, <1>3, <2>2, Zenon
<1>5. Launcher!ResolveToken(Absent, named) = Launcher!FirstOf(<<Absent>> \o u)
  BY Zenon DEF Launcher!ResolveToken
<1> HIDE DEF t, u
<1>6. <<Absent>> \o u = <<Absent, t>>
  <2> DEFINE S == {Absent, t}
  <2> DEFINE a == <<Absent>>
  <2>1. a \in Seq(S) /\ u \in Seq(S) /\ Len(a) = 1 /\ Len(u) = 1 /\ a[1] = Absent /\ u[1] = t
    BY <1>4
  <2> HIDE DEF a, S
  <2>2. /\ a \o u \in Seq(S) /\ Len(a \o u) = 2
        /\ (a \o u)[1] = Absent /\ (a \o u)[2] = t
    <3>1. /\ a \o u \in Seq(S) /\ Len(a \o u) = Len(a) + Len(u)
          /\ \A i \in 1..Len(a) : (a \o u)[i] = a[i]
          /\ \A i \in 1..Len(u) : (a \o u)[Len(a) + i] = u[i]
      BY <2>1, ConcatProperties
    <3> QED BY <2>1, <3>1
  <2>3. <<Absent, t>> \in Seq(S) /\ Len(<<Absent, t>>) = 2
    BY DEF S
  <2>4. \A i \in 1..2 : (a \o u)[i] = <<Absent, t>>[i]
    BY <2>2
  <2> QED BY <2>2, <2>3, <2>4, SeqEqual DEF a
<1>7. Launcher!FirstOf(<<Absent, t>>) = t
  BY FirstOfTwo
<1> QED BY <1>5, <1>6, <1>7 DEF t

LEMMA ReadsOnly ==
    ASSUME NEW t \in ToolsOffered, Launcher!IsReadOnlyTool(t)
    PROVE  ~t.writes
BY DEF ToolsOffered, Launcher!IsReadOnlyTool

LEMMA BoxesApart == Boxes \cap Launcher!Agent = {}
BY DEF Boxes, Launcher!Agent

CallNamed ==
    (commands' # commands /\ last' # Absent /\ last'.verb = "mcp" /\ last'.what # Absent) =>
      /\ ~last'.what.tool.writes
      /\ (last'.what.flag = Absent /\ last'.dir # Absent) =>
           last'.dir \in boxes /\ last'.what.token = tokens[last'.dir]

LEMMA CallsAreNamed ==
    ASSUME LauncherInv, Launcher!Next
    PROVE  CallNamed
<1>1. ASSUME NEW s \in Terminal, NEW flag \in NewTokens \cup {Absent}, NEW named \in Boxes \cup {Absent},
             NEW t \in ToolsOffered, Launcher!RunRemoteMCP(s, flag, named, t)
      PROVE  CallNamed
  <2> DEFINE token == Launcher!ResolveToken(flag, named)
  <2> SUFFICES ASSUME last'.what # Absent
               PROVE  /\ ~last'.what.tool.writes
                      /\ (last'.what.flag = Absent /\ last'.dir # Absent) =>
                           last'.dir \in boxes /\ last'.what.token = tokens[last'.dir]
    BY DEF CallNamed
  <2>1. last' = [verb |-> "mcp", dir |-> named,
                 what |-> IF token = Absent \/ ~Launcher!IsReadOnlyTool(t) THEN Absent
                          ELSE [token |-> token, flag |-> flag, tool |-> t]]
    BY <1>1, Zenon DEF Launcher!RunRemoteMCP, Launcher!Ended
  <2> HIDE DEF token
  <2>2. /\ token # Absent /\ Launcher!IsReadOnlyTool(t) /\ last'.dir = named
        /\ last'.what = [token |-> token, flag |-> flag, tool |-> t]
    BY <2>1
  <2>3. ~last'.what.tool.writes
    BY <2>2, ReadsOnly
  <2>4. ASSUME last'.what.flag = Absent, last'.dir # Absent
        PROVE  last'.dir \in boxes /\ last'.what.token = tokens[last'.dir]
    <3>1. flag = Absent /\ named # Absent /\ named \in Boxes
      BY <2>2, <2>4
    <3>2. token = Launcher!TokenOf(named)
      BY <3>1, NamedToken DEF token
    <3>3. named \in DOMAIN tokens /\ token = tokens[named]
      BY <2>2, <3>2 DEF Launcher!TokenOf
    <3>4. named \in boxes
      BY <3>1, <3>3, BoxesApart DEF LauncherInv
    <3> QED BY <2>2, <3>3, <3>4
  <2> QED BY <2>3, <2>4
<1>2. ASSUME \E verb \in {"load", "override", "run", "wrap"} : \E dir, what :
               last' = [verb |-> verb, dir |-> dir, what |-> what]
      PROVE  CallNamed
  BY <1>2 DEF CallNamed
<1>3. ASSUME NEW s \in Terminal, NEW d \in Folders, NEW o \in OverridesTried,
             Launcher!LoadCommand(s, d, o.flag, o.env, o.agent, o.extra)
      PROVE  CallNamed
  <2>1. \E verb \in {"load", "override"} : \E what : last' = [verb |-> verb, dir |-> d, what |-> what]
    BY <1>3, Zenon DEF Launcher!LoadCommand, Launcher!Ended
  <2> QED BY <1>2, <2>1
<1>4. ASSUME NEW s \in Terminal, NEW name, Launcher!RunCommand(s, name) \/ Launcher!WrapCommand(s, name)
      PROVE  CallNamed
  <2>1. \E verb \in {"run", "wrap"} : \E what : last' = [verb |-> verb, dir |-> Absent, what |-> what]
    BY <1>4, Zenon DEF Launcher!RunCommand, Launcher!WrapCommand, Launcher!Ended
  <2> QED BY <1>2, <2>1
<1>5. ASSUME last' = Absent PROVE CallNamed
  BY <1>5 DEF CallNamed
<1> QED
  BY <1>1, <1>3, <1>4, <1>5, Zenon
     DEF Launcher!Next, Launcher!ReadRegistry, Launcher!WriteRegistry, Launcher!InitCommand,
         Launcher!Sandbox, Launcher!EmptyEntry, Launcher!ProjectFile

LEMMA LauncherSteps ==
    ASSUME LauncherInv, [Launcher!Next]_(Launcher!vars)
    PROVE  LauncherInv'
<1>1. ASSUME NEW b \in Boxes, NEW t, Launcher!Sandbox(b, t)
      PROVE  LauncherInv'
  <2>1. /\ boxes' = IF b \in boxes THEN boxes \ {b} ELSE boxes \cup {b}
        /\ tokens' = IF b \in boxes THEN [x \in DOMAIN tokens \ {b} |-> tokens[x]]
                     ELSE [x \in DOMAIN tokens \cup {b} |-> IF x = b THEN t ELSE tokens[x]]
    BY <1>1, Zenon DEF Launcher!Sandbox
  <2>2. DOMAIN tokens' = IF b \in boxes THEN DOMAIN tokens \ {b} ELSE DOMAIN tokens \cup {b}
    BY <2>1
  <2>3. b \notin Launcher!Agent
    BY BoxesApart
  <2> QED BY <2>1, <2>2, <2>3, Zenon DEF LauncherInv
<1>2. CASE UNCHANGED <<boxes, tokens>>
  BY <1>2 DEF LauncherInv
<1>3. CASE UNCHANGED Launcher!vars
  BY <1>2, <1>3 DEF Launcher!vars
<1> QED
  BY <1>1, <1>2, <1>3, Zenon
     DEF Launcher!Next, Launcher!ReadRegistry, Launcher!WriteRegistry, Launcher!InitCommand,
         Launcher!LoadCommand, Launcher!RunCommand, Launcher!WrapCommand, Launcher!RunRemoteMCP,
         Launcher!EmptyEntry, Launcher!ProjectFile

(* A tool call from the shell never writes to the palace, and a sandbox     *)
(* that is named is never passed over for another's token                   *)
(* (mcpcall.go: resolveToken, isReadOnlyTool).                             *)
THEOREM CallsStayNamed == MCSpec => Launcher!CallsAsNamed
<1>1. MCInit => LauncherInv
  BY DEF MCInit, Launcher!Init, LauncherInv, StoredTokens, Kits, Launcher!Agent
<1>2. LauncherInv /\ [MCNext]_hostVars => LauncherInv'
  <2> SUFFICES ASSUME LauncherInv, [MCNext]_hostVars PROVE LauncherInv'
    OBVIOUS
  <2>1. CASE [Launcher!Next]_(Launcher!vars)
    BY <2>1, LauncherSteps
  <2>2. CASE UNCHANGED launching
    BY <2>2 DEF launching, LauncherInv
  <2> QED
    BY <2>1, <2>2, Zenon DEF MCNext, hostVars
<1>3. LauncherInv /\ [MCNext]_hostVars =>
        [(commands' # commands /\ last' # Absent /\ last'.verb = "mcp" /\ last'.what # Absent) =>
          /\ ~last'.what.tool.writes
          /\ (last'.what.flag = Absent /\ last'.dir # Absent) =>
               last'.dir \in boxes /\ last'.what.token = tokens[last'.dir]]_<<commands, last>>
  <2> SUFFICES ASSUME LauncherInv, [MCNext]_hostVars, ~UNCHANGED <<commands, last>> PROVE CallNamed
    BY DEF CallNamed
  <2>1. CASE Launcher!Next
    BY <2>1, CallsAreNamed
  <2>2. CASE UNCHANGED launching
    BY <2>2 DEF launching
  <2> QED
    BY <2>1, <2>2, Zenon DEF MCNext, hostVars
<1> QED
  BY <1>1, <1>2, <1>3, PTL DEF MCSpec, Launcher!CallsAsNamed


-----------------------------------------------------------------------------
(* What every part remembers has its declared shape.  Server processes: the *)
(* number of a lock file is that of the boot that made it.                 *)
Bounds == /\ Cap \in Nat /\ MaxBoots \in Nat /\ MaxToolCalls \in Nat /\ MaxRowChanges \in Nat
          /\ Messages \in Nat /\ MaxEvents \in Nat /\ MaxRuns \in Nat /\ MaxEdits \in Nat
          /\ MaxCommands \in Nat /\ MaxChanges \in Nat /\ MaxUpdates \in Nat
          /\ ImportsPaid \in Nat /\ MaxImports \in Nat
LEMMA BoundsAre == Bounds
BY HostAssumption DEF HostBounded, Bounds

ServerTypes ==
    /\ IndInv /\ boots <= MaxBoots /\ port \subseteq Process
    /\ inode \in [Database -> 0..MaxBoots + 1]

LEMMA ServerTypesStart == ASSUME Init PROVE ServerTypes
<1>1. IndInv
  BY InitInv
<1> QED BY <1>1, BoundsAre DEF Init, ServerTypes, Bounds

LEMMA ServerTypesStep == ASSUME ServerTypes, [Next]_vars PROVE ServerTypes'
<1>1. IndInv'
  BY IndInvStep DEF ServerTypes
<1>2. Types
  BY DEF ServerTypes, IndInv
<1>3. CASE UNCHANGED vars
  BY <1>1, <1>3 DEF ServerTypes, vars
<1>4. CASE Next
  <2>1. PICK p \in Process :
           \/ \E cfg \in Config : Start(p, cfg)
           \/ OpenLock(p) \/ TryLock(p) \/ Works(p) \/ Unlock(p) \/ Kill(p) \/ Register(p)
    BY <1>4 DEF Next, Works
  <2>2. boots' <= MaxBoots
    <3>1. CASE \E cfg \in Config : Start(p, cfg)
      BY <3>1, <1>2, BoundsAre DEF Start, Types, Bounds
    <3>2. CASE ~\E cfg \in Config : Start(p, cfg)
      BY <2>1, <3>2, WorksGoOn DEF ServerTypes, OpenLock, TryLock, Unlock, Kill, Register
    <3> QED BY <3>1, <3>2
  <2>3. port' \subseteq Process
    BY <2>1 DEF ServerTypes, Works, Start, OpenLock, TryLock, Migrate, SeedUser, SeedTeam, SeedExample,
         SeedPlaybook, ClearStale, Bind, Secure, Fails, CloseListener, Unlock, Kill, Register
  <2>4. inode' \in [Database -> 0..MaxBoots + 1]
    <3>1. CASE OpenLock(p)
      <4>1. boots + 1 \in 0..MaxBoots + 1
        BY <1>2, BoundsAre DEF ServerTypes, Types, Bounds
      <4> QED BY <3>1, <4>1 DEF OpenLock, ServerTypes
    <3>2. CASE ~OpenLock(p)
      BY <2>1, <3>2, WorksGoOn DEF ServerTypes, Start, TryLock, Unlock, Kill, Register
    <3> QED BY <3>1, <3>2
  <2> QED BY <1>1, <2>2, <2>3, <2>4 DEF ServerTypes
<1> QED BY <1>3, <1>4

LEMMA ServerShape == ASSUME ServerTypes PROVE TypeOK
<1>1. Types /\ UsersHold
  BY DEF ServerTypes, IndInv, Locks
<1>2. boots \in 0..MaxBoots
  BY <1>1, BoundsAre DEF ServerTypes, Types, Bounds
<1>3. \A p \in Process : proc[p].step \in Booting \union {"off", "serve", "close", "unlock"}
  BY <1>1 DEF Types, Processes, Steps
<1>4. \A d \in Database : data[d].teams \subseteq {"local", "demo", "registered"}
  BY <1>1 DEF Types, Contents
<1>5. socket.kind \in {None, "file", "socket"}
  BY <1>1 DEF Types
<1>6. \A p \in Process : proc[p].step \in {"serve", "secure"} => Holds(p)
  <2> SUFFICES ASSUME NEW p \in Process, proc[p].step \in {"serve", "secure"} PROVE Holds(p)
    OBVIOUS
  <2>1. << <<proc[p].db, proc[p].file>>, p>> \in held
    BY <1>1 DEF UsersHold, Using
  <2>2. << <<proc[p].db, proc[p].file>>, p>>[2] = p
    OBVIOUS
  <2> QED BY <2>1, <2>2, Zenon DEF Holds
<1> QED BY <1>2, <1>3, <1>4, <1>5, <1>6 DEF TypeOK, ServerTypes

ServerAt == part = "server" => ServerTypes
LEMMA ServerTyped == MCSpec => [](part = "server" => TypeOK)
<1>1. MCInit => ServerAt
  BY ServerTypesStart DEF MCInit, ServerAt
<1>2. ServerAt /\ [MCNext]_hostVars => ServerAt'
  <2> SUFFICES ASSUME ServerAt, [MCNext]_hostVars, part' = "server" PROVE ServerTypes'
    BY DEF ServerAt
  <2>1. part = "server"
    BY DEF MCNext, hostVars
  <2> QED BY <2>1, ServerRuns, ServerTypesStep DEF ServerAt
<1>3. ServerAt => (part = "server" => TypeOK)
  BY ServerShape DEF ServerAt
<1> QED BY <1>1, <1>2, <1>3, PTL DEF MCSpec

(* The tools: the arguments of a call are of its tool, the word too that   *)
(* stands for the first of them.                                           *)
LEMMA PrimaryIsOf == \A p \in Tools!Primary : p[2] \in p[1].needs \cup p[1].takes
<1> SUFFICES ASSUME NEW p \in Tools!Primary PROVE p[2] \in p[1].needs \cup p[1].takes
  OBVIOUS
<1> USE DEF Tools!Tool
<1>1. CASE \/ p = <<Tools!SearchTool, "query">> \/ p = <<Tools!GetDrawer, "id">>
           \/ p = <<Tools!ListDrawers, "wing">> \/ p = <<Tools!CheckDuplicate, "content">>
           \/ p = <<Tools!ListRooms, "wing">> \/ p = <<Tools!LoadSkill, "name">>
  BY <1>1 DEF Tools!SearchTool, Tools!GetDrawer, Tools!ListDrawers, Tools!CheckDuplicate,
              Tools!ListRooms, Tools!LoadSkill
<1>2. CASE \/ p = <<Tools!DiaryRead, "agent_name">> \/ p = <<Tools!ListTunnels, "wing">>
           \/ p = <<Tools!FindTunnels, "wing_a">> \/ p = <<Tools!FollowTunnels, "wing">>
           \/ p = <<Tools!ListHallways, "wing">> \/ p = <<Tools!Traverse, "start_room">>
           \/ p = <<Tools!KGQuery, "entity">> \/ p = <<Tools!KGTimeline, "entity">>
  BY <1>2 DEF Tools!DiaryRead, Tools!ListTunnels, Tools!FindTunnels, Tools!FollowTunnels,
              Tools!ListHallways, Tools!Traverse, Tools!KGQuery, Tools!KGTimeline
<1> QED BY <1>1, <1>2, Zenon DEF Tools!Primary

ToolsTypes ==
    /\ ToolsInv
    /\ stage \in {"idle", "called", "admitted", "running", "answered", "refused"}
    /\ used <= Cap /\ calls \in 0..MaxToolCalls
    /\ call.given \subseteq call.tool.needs \cup call.tool.takes
    /\ args \subseteq call.tool.needs \cup call.tool.takes

LEMMA GivenIsOf ==
    ASSUME NEW w, NEW tools, NEW callers, NEW words, NEW c \in Tools!Calls(w, tools, callers, words)
    PROVE  c.given \subseteq c.tool.needs \cup c.tool.takes
<1>1. PICK t \in tools :
        c \in [way : {w}, tool : {t}, given : Tools!Given(t), blank : Tools!BlankIn(t),
               caller : callers, word : words]
  BY DEF Tools!Calls
<1>2. c.tool = t /\ c.given \in Tools!Given(t)
  BY <1>1
<1> QED BY <1>2 DEF Tools!Given

LEMMA ToolsTypesStart == ASSUME Tools!Init PROVE ToolsTypes
<1>1. ToolsInv
  BY ToolsInit
<1>2. call.given = {} /\ args = {} /\ used = 0 /\ calls = 0 /\ stage = "idle"
  BY DEF Tools!Init, Tools!None
<1> QED BY <1>1, <1>2, BoundsAre DEF ToolsTypes, Bounds

LEMMA ToolsTypesStep == ASSUME ToolsTypes, [Tools!Next]_(Tools!vars) PROVE ToolsTypes'
<1> USE DEF ToolsTypes
<1>0. ToolsInv' /\ ToolsInv /\ MaxToolCalls \in Nat /\ Cap \in Nat
  BY ToolsStep, BoundsAre DEF Bounds
<1>1. CASE Tools!Request
  <2>1. \/ call' \in Tools!Calls("http", Tools!Range(Tools!Catalog), {"none", "reader", "writer"}, {FALSE})
        \/ call' \in Tools!Calls("cli", Tools!Range(Tools!Catalog), {"none", "token", "team"}, {TRUE, FALSE})
    BY <1>1 DEF Tools!Request
  <2>2. call'.given \subseteq call'.tool.needs \cup call'.tool.takes
    BY <2>1, GivenIsOf
  <2>3. /\ stage' = "called" /\ calls < MaxToolCalls /\ calls' = calls + 1 /\ args' = {} /\ used' = used
    BY <1>1 DEF Tools!Request
  <2> QED BY <1>0, <2>2, <2>3
<1>2. CASE Tools!Admit
  <2>1. /\ stage' = "admitted" /\ UNCHANGED <<call, calls, args>>
        /\ used' = used \/ (used < Cap /\ used' = used + 1)
    BY <1>2 DEF Tools!Admit
  <2> QED BY <1>0, <2>1 DEF ToolsInv
<1>3. CASE Tools!NotAdmitted \/ Tools!MissingArgument \/ Tools!NotAccepted
  BY <1>0, <1>3 DEF Tools!NotAdmitted, Tools!MissingArgument, Tools!NotAccepted, Tools!Refuse
<1>4. CASE Tools!ReadArguments
  <2>1. Tools!ParseArgs \subseteq call.tool.needs \cup call.tool.takes
    <3>1. \A q \in Tools!Primary : q[1] = call.tool => q[2] \in call.tool.needs \cup call.tool.takes
      BY PrimaryIsOf
    <3> QED BY <3>1 DEF Tools!ParseArgs
  <2>2. args' \subseteq Tools!ParseArgs
    BY <1>4 DEF Tools!ReadArguments, Tools!EntryOf
  <2>3. stage' = "running" /\ UNCHANGED <<call, used, calls>>
    BY <1>4 DEF Tools!ReadArguments
  <2> QED BY <1>0, <2>1, <2>2, <2>3
<1>5. CASE Tools!Run
  <2>1. stage' \in {"answered", "refused"} /\ UNCHANGED <<call, used, calls, args>>
    BY <1>5 DEF Tools!Run
  <2> QED BY <1>0, <2>1
<1>6. CASE Tools!Reply
  <2>1. call'.given = {} /\ args' = {} /\ stage' = "idle" /\ UNCHANGED <<used, calls>>
    BY <1>6 DEF Tools!Reply, Tools!None
  <2> QED BY <1>0, <2>1
<1>7. CASE UNCHANGED Tools!vars
  BY <1>0, <1>7 DEF Tools!vars
<1> QED BY <1>1, <1>2, <1>3, <1>4, <1>5, <1>6, <1>7 DEF Tools!Next

LEMMA ToolsShape == ASSUME ToolsTypes PROVE Tools!TypeOK
<1>1. used \in Nat /\ answers \in Nat
  BY DEF ToolsTypes, ToolsInv
<1> QED BY <1>1, BoundsAre DEF ToolsTypes, Tools!TypeOK, Bounds

ToolsAt == part = "tools" => ToolsTypes
LEMMA ToolsTyped == MCSpec => [](part = "tools" => Tools!TypeOK)
<1>1. MCInit => ToolsAt
  BY ToolsTypesStart DEF MCInit, ToolsAt
<1>2. ToolsAt /\ [MCNext]_hostVars => ToolsAt'
  <2> SUFFICES ASSUME ToolsAt, [MCNext]_hostVars, part' = "tools" PROVE ToolsTypes'
    BY DEF ToolsAt
  <2>1. part = "tools"
    BY DEF MCNext, hostVars
  <2> QED BY <2>1, ToolsRun, ToolsTypesStep DEF ToolsAt
<1>3. ToolsAt => (part = "tools" => Tools!TypeOK)
  BY ToolsShape DEF ToolsAt
<1> QED BY <1>1, <1>2, <1>3, PTL DEF MCSpec

(* The export: what is live has been seen since the export began.          *)
FileStands == file = (phase # "idle")
ExportTypes ==
    /\ ExportInv /\ stood \subseteq seen /\ seen \subseteq AllRows
    /\ rowChanges \in 0..MaxRowChanges /\ exports \in 0..1
    /\ FileStands
    /\ phase # "idle" => live \subseteq seen
    /\ phase = "idle" => archive = {}
    /\ \A copy \in archive : copy.row \in seen

LEMMA ExportTypesStart == ASSUME Export!Init PROVE ExportTypes
<1>1. ExportInv
  BY ExportStarts
<1>2. FileStands
  <2>1. file = FALSE /\ phase = "idle"
    BY DEF Export!Init
  <2>2. (phase # "idle") = FALSE
    BY <2>1, Zenon
  <2> QED BY <2>1, <2>2, Zenon DEF FileStands
<1> QED BY <1>1, <1>2, BoundsAre DEF Export!Init, ExportTypes, Bounds

LEMMA FileStandsStep == ASSUME FileStands, [Export!Next]_(Export!vars) PROVE FileStands'
<1>1. CASE UNCHANGED <<file, phase>>
  BY <1>1, Zenon DEF FileStands
<1>2. CASE file' = TRUE /\ phase' = "copying"
  <2>1. (phase' # "idle") = TRUE
    BY <1>2, Zenon
  <2> QED BY <1>2, <2>1, Zenon DEF FileStands
<1>3. CASE file' = FALSE /\ phase' = "idle"
  <2>1. (phase' # "idle") = FALSE
    BY <1>3, Zenon
  <2> QED BY <1>3, <2>1, Zenon DEF FileStands
<1>4. CASE file' = file /\ phase # "idle" /\ phase' # "idle"
  <2>1. (phase # "idle") = TRUE /\ (phase' # "idle") = TRUE
    BY <1>4, Zenon
  <2> QED BY <1>4, <2>1, Zenon DEF FileStands
<1>5. CASE Export!CopyTable \/ Export!Commit \/ Export!Stream
  BY <1>1, <1>4, <1>5, Zenon DEF Export!CopyTable, Export!Commit, Export!Stream
<1>6. CASE Export!BeginExport
  BY <1>2, <1>6, Zenon DEF Export!BeginExport
<1>7. CASE Export!Fail \/ \E w \in BOOLEAN : Export!Done(w)
  BY <1>3, <1>7, Zenon DEF Export!Fail, Export!Done
<1>8. CASE UNCHANGED Export!vars \/ \E r \in AllRows : Export!Insert(r) \/ Export!Delete(r)
  BY <1>1, <1>8, Zenon DEF Export!vars, Export!Insert, Export!Delete
<1> QED BY <1>5, <1>6, <1>7, <1>8, Zenon DEF Export!Next

LEMMA ExportTypesStep == ASSUME ExportTypes, [Export!Next]_(Export!vars) PROVE ExportTypes'
<1>0. FileStands' /\ ExportInv' /\ ExportInv /\ live \subseteq AllRows /\ MaxRowChanges \in Nat
  BY ExportSteps, FileStandsStep, BoundsAre DEF ExportTypes, ExportInv, Bounds
<1> USE DEF ExportTypes
<1>1. CASE Export!BeginExport
  BY <1>0, <1>1 DEF Export!BeginExport
<1>2. CASE Export!CopyTable
  <2>1. \A copy \in archive' : copy \in archive \/ \E r \in live : copy = Export!Redact(r)
    BY <1>2 DEF Export!CopyTable
  <2>2. \A r \in live : Export!Redact(r).row = r
    BY <1>0, RedactIs
  <2>3. phase = "copying" /\ UNCHANGED <<live, rowChanges, phase, file, sent, stood, seen, exports>>
    BY <1>2 DEF Export!CopyTable
  <2>4. \A copy \in archive' : copy.row \in seen
    BY <2>1, <2>2, <2>3
  <2> QED BY <1>0, <2>3, <2>4
<1>3. CASE Export!Commit \/ Export!Stream
  BY <1>0, <1>3 DEF Export!Commit, Export!Stream
<1>4. CASE Export!Fail
  BY <1>0, <1>4 DEF Export!Fail
<1>6. ASSUME NEW w \in BOOLEAN, Export!Done(w)
      PROVE  ExportTypes'
  BY <1>0, <1>6 DEF Export!Done
<1>7. ASSUME NEW r \in AllRows, Export!Insert(r)
      PROVE  ExportTypes'
  BY <1>0, <1>7 DEF Export!Insert
<1>8. ASSUME NEW r \in AllRows, Export!Delete(r)
      PROVE  ExportTypes'
  BY <1>0, <1>8 DEF Export!Delete
<1>9. CASE UNCHANGED Export!vars
  BY <1>0, <1>9 DEF Export!vars
<1> HIDE DEF ExportTypes
<1> QED
  BY <1>1, <1>2, <1>3, <1>4, <1>6, <1>7, <1>8, <1>9 DEF Export!Next

LEMMA ExportShape == ASSUME ExportTypes PROVE Export!TypeOK
BY ManifestLong DEF ExportTypes, FileStands, ExportInv, Export!TypeOK

ExportAt == part = "export" => ExportTypes
LEMMA ExportTyped == MCSpec => [](part = "export" => Export!TypeOK)
<1>1. MCInit => ExportAt
  BY ExportTypesStart DEF MCInit, ExportAt
<1>2. ExportAt /\ [MCNext]_hostVars => ExportAt'
  <2> SUFFICES ASSUME ExportAt, [MCNext]_hostVars, part' = "export" PROVE ExportTypes'
    BY DEF ExportAt
  <2>1. part = "export"
    BY DEF MCNext, hostVars
  <2> QED BY <2>1, ExportRuns, ExportTypesStep DEF ExportAt
<1>3. ExportAt => (part = "export" => Export!TypeOK)
  BY ExportShape DEF ExportAt
<1> QED BY <1>1, <1>2, <1>3, PTL DEF MCSpec

(* The proxy: what is posted or streamed is about a message there is, and   *)
(* a stream is of a request.                                               *)
ProxyTypes ==
    /\ ProxyInv
    /\ stdin \in [1..Messages -> {"request", "notification", "garbage"}]
    /\ message \in 1..Messages + 1 /\ reading \in {"read", "posted", "streaming", "ended"}
    /\ reading \in {"posted", "streaming"} => message <= Messages
    /\ eventsSeen \in 0..MaxEvents + 1
    /\ silent \subseteq {i \in 1..Messages : Proxy!Request(i)}

LEMMA ProxyTypesStart == ASSUME Proxy!Init PROVE ProxyTypes
<1>1. ProxyInv
  BY ProxyInit
<1> QED BY <1>1, BoundsAre DEF Proxy!Init, ProxyTypes, Bounds

LEMMA ProxyTypesStep == ASSUME ProxyTypes, [Proxy!Next]_(Proxy!vars) PROVE ProxyTypes'
<1>0. ProxyInv' /\ ProxyInv /\ Messages \in Nat /\ MaxEvents \in Nat
  BY ProxyStep, BoundsAre DEF ProxyTypes, Bounds
<1>n. ASSUME reading \in {"posted", "streaming"}, Proxy!NextMessage,
             silent' = silent \/ (Proxy!Request(message) /\ silent' = silent \cup {message})
      PROVE  ProxyTypes'
  <2>1. message' = message + 1 /\ reading' = "read" /\ eventsSeen' = 0 /\ stdin' = stdin
    BY <1>n DEF Proxy!NextMessage
  <2>2. silent' \subseteq {i \in 1..Messages : Proxy!Request(i)}'
    <3>1. message \in 1..Messages
      BY <1>0, <1>n DEF ProxyTypes
    <3>2. \A i \in silent' : i \in 1..Messages /\ Proxy!Request(i)
      BY <1>n, <3>1 DEF ProxyTypes
    <3>3. \A i : Proxy!Request(i)' <=> Proxy!Request(i)
      BY <2>1 DEF Proxy!Request
    <3> QED BY <3>2, <3>3
  <2> QED BY <1>0, <1>n, <2>1, <2>2 DEF ProxyTypes
<1>e. ASSUME reading' = "ended", UNCHANGED <<stdin, message, eventsSeen, silent>>
      PROVE  ProxyTypes'
  BY <1>0, <1>e DEF ProxyTypes, Proxy!Request
<1>1. CASE Proxy!Read
  <2>1. \/ reading' = "ended"
        \/ reading' = "posted" /\ ~(message > Messages)
    BY <1>1 DEF Proxy!Read, Proxy!End
  <2>2. UNCHANGED <<stdin, message, eventsSeen, silent>>
    BY <1>1 DEF Proxy!Read
  <2> QED BY <1>0, <2>1, <2>2 DEF ProxyTypes, Proxy!Request
<1>2. CASE Proxy!ReadFails \/ Proxy!StreamBreaks
  BY <1>e, <1>2 DEF Proxy!ReadFails, Proxy!StreamBreaks, Proxy!End
<1>3. CASE Proxy!TransportFails
  BY <1>n, <1>e, <1>3 DEF Proxy!TransportFails, Proxy!Write, Proxy!End
<1>4. CASE Proxy!Accepted
  BY <1>n, <1>4 DEF Proxy!Accepted
<1>5. CASE Proxy!Refused
  BY <1>n, <1>e, <1>5 DEF Proxy!Refused, Proxy!Write, Proxy!End
<1>6. CASE Proxy!Answered
  BY <1>n, <1>e, <1>6 DEF Proxy!Answered, Proxy!Write, Proxy!End
<1>7. CASE Proxy!OpenStream
  <2>1. /\ reading = "posted" /\ reading' = "streaming" /\ eventsSeen' = 0
        /\ UNCHANGED <<stdin, message, silent>>
    BY <1>7 DEF Proxy!OpenStream
  <2> QED BY <1>0, <2>1 DEF ProxyTypes, Proxy!Request
<1>8. CASE Proxy!Event
  <2>1. /\ eventsSeen <= MaxEvents /\ eventsSeen' = eventsSeen + 1
        /\ UNCHANGED <<stdin, message, reading, silent>>
    BY <1>8 DEF Proxy!Event
  <2> QED BY <1>0, <2>1 DEF ProxyTypes, Proxy!Request
<1>9. CASE Proxy!Flush
  <2>1. /\ reading' = "ended" \/ UNCHANGED reading
        /\ UNCHANGED <<stdin, message, eventsSeen, silent>>
    BY <1>9 DEF Proxy!Flush, Proxy!End
  <2> QED BY <1>0, <1>e, <2>1 DEF ProxyTypes, Proxy!Request
<1>10. CASE Proxy!EndStream
  <2>1. reading = "streaming" /\ Proxy!Request(message)
    BY <1>10 DEF Proxy!EndStream, ProxyTypes, ProxyInv, StreamsRequest
  <2>2. Proxy!NextMessage /\ (silent' = silent \/ silent' = silent \cup {message})
    BY <1>10 DEF Proxy!EndStream
  <2> QED BY <1>n, <2>1, <2>2
<1>11. CASE UNCHANGED Proxy!vars
  BY <1>0, <1>11 DEF ProxyTypes, Proxy!vars, Proxy!Request
<1> QED
  BY <1>1, <1>2, <1>3, <1>4, <1>5, <1>6, <1>7, <1>8, <1>9, <1>10, <1>11 DEF Proxy!Next

LEMMA ProxyShape == ASSUME ProxyTypes PROVE Proxy!TypeOK
BY DEF ProxyTypes, ProxyInv, Proxy!TypeOK

ProxyAt == part = "proxy" => ProxyTypes
LEMMA ProxyTyped == MCSpec => [](part = "proxy" => Proxy!TypeOK)
<1>1. MCInit => ProxyAt
  BY ProxyTypesStart DEF MCInit, ProxyAt
<1>2. ProxyAt /\ [MCNext]_hostVars => ProxyAt'
  <2> SUFFICES ASSUME ProxyAt, [MCNext]_hostVars, part' = "proxy" PROVE ProxyTypes'
    BY DEF ProxyAt
  <2>1. part = "proxy"
    BY DEF MCNext, hostVars
  <2> QED BY <2>1, ProxyRuns, ProxyTypesStep DEF ProxyAt
<1>3. ProxyAt => (part = "proxy" => Proxy!TypeOK)
  BY ProxyShape DEF ProxyAt
<1> QED BY <1>1, <1>2, <1>3, PTL DEF MCSpec

(* The self-update: what is staged to be verified or to replace the binary *)
(* is of a release.                                                        *)
Binaries == [tag : Tag \cup {"dev"}, whole : BOOLEAN]
UpdateTypes ==
    /\ target \in Binaries /\ latest \in Tag /\ updates \in 0..MaxUpdates
    /\ step \in [Updater -> {"idle", "download", "verify", "replace"}]
    /\ DOMAIN staged = Updater /\ DOMAIN wanted = Updater
    /\ \A u \in Updater : step[u] = "download" => wanted[u] \in Tag
    /\ \A u \in Updater : step[u] \in {"verify", "replace"} => staged[u] \in Binaries

LEMMA UpdateTypesStart == ASSUME Update!Init PROVE UpdateTypes
<1>1. target \in Binaries
  BY DEF Update!Init, Update!File, Binaries
<1>2. /\ latest \in Tag /\ updates = 0 /\ staged = [u \in Updater |-> Absent]
      /\ step = [u \in Updater |-> "idle"] /\ wanted = [u \in Updater |-> Absent]
  BY DEF Update!Init
<1>3. 0 \in 0..MaxUpdates
  BY BoundsAre DEF Bounds
<1> QED BY <1>1, <1>2, <1>3 DEF UpdateTypes

LEMMA UpdateTypesStep == ASSUME UpdateTypes, [Update!Next]_(Update!vars) PROVE UpdateTypes'
<1> USE DEF UpdateTypes
<1>0. MaxUpdates \in Nat
  BY BoundsAre DEF Bounds
<1>1. ASSUME NEW u \in Updater, NEW pin \in Tag \cup {Absent}, NEW running, Update!Resolve(u, pin, running)
      PROVE  UpdateTypes'
  <2> DEFINE t == IF pin = Absent THEN latest ELSE pin
  <2>1. /\ updates < MaxUpdates /\ updates' = updates + 1 /\ UNCHANGED <<target, staged, latest>>
        /\ \/ UNCHANGED <<step, wanted>>
           \/ step' = [step EXCEPT ![u] = "download"] /\ wanted' = [wanted EXCEPT ![u] = t]
    BY <1>1 DEF Update!Resolve
  <2>2. t \in Tag
    OBVIOUS
  <2> HIDE DEF t
  <2> QED BY <1>0, <2>1, <2>2
<1>2. ASSUME NEW u \in Updater, NEW w \in BOOLEAN, Update!DownloadBinary(u, w)
      PROVE  UpdateTypes'
  <2> DEFINE b == Update!File(wanted[u], w)
  <2>1. b \in Binaries
    BY <1>2 DEF Update!File, Update!DownloadBinary, Binaries
  <2>2. /\ staged' = [staged EXCEPT ![u] = b] /\ step' = [step EXCEPT ![u] = "verify"]
        /\ UNCHANGED <<target, wanted, latest, updates>>
    BY <1>2 DEF Update!DownloadBinary
  <2> HIDE DEF b
  <2> QED BY <2>1, <2>2
<1>3. ASSUME NEW u \in Updater, Update!VerifyBinary(u)
      PROVE  UpdateTypes'
  <2>1. /\ step[u] = "verify" /\ UNCHANGED <<target, wanted, latest, updates>>
        /\ \/ step' = [step EXCEPT ![u] = "replace"] /\ UNCHANGED staged
           \/ step' = [step EXCEPT ![u] = "idle"] /\ staged' = [staged EXCEPT ![u] = Absent]
    BY <1>3 DEF Update!VerifyBinary
  <2> QED BY <2>1
<1>4. ASSUME NEW u \in Updater, Update!ReplaceBinary(u)
      PROVE  UpdateTypes'
  BY <1>4 DEF Update!ReplaceBinary
<1>5. ASSUME NEW u \in Updater, Update!GiveUp(u) \/ Update!Kill(u)
      PROVE  UpdateTypes'
  <2>1. /\ UNCHANGED <<target, wanted, latest, updates>>
        /\ step' = [step EXCEPT ![u] = "idle"] /\ staged' = [staged EXCEPT ![u] = Absent]
    BY <1>5 DEF Update!GiveUp, Update!Kill
  <2> QED BY <2>1
<1>6. ASSUME NEW t \in Tag, Update!Release(t)
      PROVE  UpdateTypes'
  BY <1>6 DEF Update!Release
<1>7. CASE UNCHANGED Update!vars
  BY <1>7 DEF Update!vars
<1> HIDE DEF UpdateTypes
<1> QED
  BY <1>1, <1>2, <1>3, <1>4, <1>5, <1>6, <1>7 DEF Update!Next

LEMMA UpdateTyped == MCSpec => [](part = "update" => Update!TypeOK)
<1> DEFINE Typed == part = "update" => UpdateTypes
<1>1. MCInit => Typed
  BY UpdateTypesStart DEF MCInit
<1>2. Typed /\ [MCNext]_hostVars => Typed'
  <2> SUFFICES ASSUME Typed, [MCNext]_hostVars, part' = "update" PROVE UpdateTypes'
    OBVIOUS
  <2>1. part = "update"
    BY DEF MCNext, hostVars
  <2> QED BY <2>1, UpdateRuns, UpdateTypesStep
<1>3. Typed => (part = "update" => Update!TypeOK)
  BY DEF UpdateTypes, Update!TypeOK, Binaries
<1> HIDE DEF Typed
<1> QED BY <1>1, <1>2, <1>3, PTL DEF MCSpec

(* The import remembers what its invariant says.                           *)
LEMMA ImportTyped == MCSpec => [](part = "import" => Import!TypeOK)
<1>1. MCInit => ImportAt
  BY ImportStarts DEF MCInit, ImportAt
<1>2. ImportAt /\ [MCNext]_hostVars => ImportAt'
  <2> SUFFICES ASSUME ImportAt, [MCNext]_hostVars, part' = "import" PROVE ImportInv'
    BY DEF ImportAt
  <2>1. part = "import"
    BY DEF MCNext, hostVars
  <2> QED BY <2>1, ImportRuns, ImportSteps DEF ImportAt
<1>3. ImportAt => (part = "import" => Import!TypeOK)
  BY DEF ImportAt, ImportInv, ImportTypes, Import!TypeOK, Drawn
<1> QED BY <1>1, <1>2, <1>3, PTL DEF MCSpec

(* The launcher: a terminal that is at an init has the folder and the       *)
(* sandbox it will write, and the registry as it read it.                  *)
Entries == Folders \X (Boxes \cup {Absent})
ShellIs(w) ==
    \/ w = Launcher!Idle
    \/ w.step \in {"read", "write"} /\ w.dir \in Folders /\ w.box \in Boxes
       /\ (w.step = "write" => w.seen \in Seq(Entries))
LauncherTypes ==
    /\ LauncherInv /\ registry \in Seq(Entries)
    /\ DOMAIN shell = Terminal /\ \A s \in Terminal : ShellIs(shell[s])
    /\ commands \in 0..MaxCommands /\ changes \in 0..MaxChanges

LEMMA UpsertIs ==
    ASSUME NEW reg \in Seq(Entries), NEW d \in Folders, NEW b \in Boxes
    PROVE  Launcher!UpsertRegistry(reg, d, b) \in Seq(Entries)
<1> DEFINE e == <<d, b>>
<1>1. e \in Entries
  BY DEF Entries
<1>2. \/ Launcher!UpsertRegistry(reg, d, b) = Append(reg, e)
      \/ \E i : Launcher!UpsertRegistry(reg, d, b) = [reg EXCEPT ![i] = e]
  BY Zenon DEF Launcher!UpsertRegistry
<1> HIDE DEF e
<1>3. Append(reg, e) \in Seq(Entries)
  BY <1>1, AppendProperties
<1>4. \A i : [reg EXCEPT ![i] = e] \in Seq(Entries)
  <2> SUFFICES ASSUME NEW i PROVE [reg EXCEPT ![i] = e] \in Seq(Entries)
    OBVIOUS
  <2> DEFINE r == [reg EXCEPT ![i] = e]
  <2>1. DOMAIN r = 1..Len(reg) /\ Len(reg) \in Nat
    BY LenProperties
  <2>2. \A j \in 1..Len(reg) : r[j] \in Entries
    BY <1>1, LenProperties
  <2>3. r = [j \in 1..Len(reg) |-> r[j]]
    BY <2>1
  <2> HIDE DEF r
  <2>4. r \in [1..Len(reg) -> Entries]
    BY <2>2, <2>3
  <2>5. r \in Seq(Entries)
    BY <2>1, <2>4, SeqDef
  <2> QED BY <2>5 DEF r
<1> QED BY <1>2, <1>3, <1>4

LEMMA LauncherTypesStart == ASSUME Launcher!Init PROVE LauncherTypes
<1>1. LauncherInv
  BY DEF Launcher!Init, LauncherInv, StoredTokens, Kits, Launcher!Agent
<1>2. registry \in Seq(Entries) /\ DOMAIN shell = Terminal /\ \A s \in Terminal : shell[s] = Launcher!Idle
  BY DEF Launcher!Init
<1>3. commands \in 0..MaxCommands /\ changes \in 0..MaxChanges
  BY BoundsAre DEF Launcher!Init, Bounds
<1> QED BY <1>1, <1>2, <1>3 DEF LauncherTypes, ShellIs

LEMMA LauncherTypesStep == ASSUME LauncherTypes, [Launcher!Next]_(Launcher!vars) PROVE LauncherTypes'
<1>0. LauncherInv' /\ MaxCommands \in Nat /\ MaxChanges \in Nat
  BY LauncherSteps, BoundsAre DEF LauncherTypes, Bounds
<1>c. ASSUME Launcher!Command PROVE commands' \in 0..MaxCommands
  BY <1>0, <1>c DEF Launcher!Command, LauncherTypes
<1>h. ASSUME Launcher!Change PROVE changes' \in 0..MaxChanges
  BY <1>0, <1>h DEF Launcher!Change, LauncherTypes
<1>s. ASSUME NEW s \in Terminal, NEW w, ShellIs(w), shell' = [shell EXCEPT ![s] = w]
      PROVE  DOMAIN shell' = Terminal /\ \A t \in Terminal : ShellIs(shell[t])'
  <2>1. DOMAIN shell' = Terminal /\ \A t \in Terminal : shell'[t] = w \/ shell'[t] = shell[t]
    BY <1>s DEF LauncherTypes
  <2> QED BY <1>s, <2>1 DEF LauncherTypes, ShellIs, Launcher!Idle
<1>1. ASSUME NEW s \in Terminal, NEW d \in Folders, NEW r, NEW b \in Boxes \cup {Absent},
             Launcher!InitCommand(s, d, r.agent, r.args, b)
      PROVE  LauncherTypes'
  <2> DEFINE w == IF b = Absent THEN Launcher!Idle ELSE [step |-> "read", dir |-> d, box |-> b]
  <2>1. /\ Launcher!Command /\ shell' = [shell EXCEPT ![s] = w] /\ UNCHANGED <<registry, changes>>
    BY <1>1, Zenon DEF Launcher!InitCommand
  <2>2. ShellIs(w)
    BY DEF ShellIs
  <2> HIDE DEF w
  <2> QED BY <1>0, <1>c, <1>s, <2>1, <2>2 DEF LauncherTypes
<1>2. ASSUME NEW s \in Terminal, Launcher!ReadRegistry(s)
      PROVE  LauncherTypes'
  <2> DEFINE v == shell[s]
  <2> DEFINE w == [step |-> "write", dir |-> v.dir, box |-> v.box, seen |-> registry]
  <2>1. shell' = [shell EXCEPT ![s] = w] /\ UNCHANGED <<registry, commands, changes>>
    BY <1>2 DEF Launcher!ReadRegistry
  <2>2. v.step = "read" /\ ShellIs(v)
    BY <1>2 DEF Launcher!ReadRegistry, LauncherTypes
  <2>3. v.dir \in Folders /\ v.box \in Boxes
    BY <2>2 DEF ShellIs, Launcher!Idle
  <2> HIDE DEF v
  <2>4. ShellIs(w)
    BY <2>3 DEF ShellIs, LauncherTypes
  <2> HIDE DEF w
  <2> QED BY <1>0, <1>s, <2>1, <2>4 DEF LauncherTypes
<1>3. ASSUME NEW s \in Terminal, Launcher!WriteRegistry(s)
      PROVE  LauncherTypes'
  <2> DEFINE w == shell[s]
  <2>1. /\ w.step = "write" /\ registry' = Launcher!UpsertRegistry(w.seen, w.dir, w.box)
        /\ shell' = [shell EXCEPT ![s] = Launcher!Idle] /\ UNCHANGED <<commands, changes>>
    BY <1>3 DEF Launcher!WriteRegistry
  <2>2. w.dir \in Folders /\ w.box \in Boxes /\ w.seen \in Seq(Entries)
    BY <2>1 DEF LauncherTypes, ShellIs, Launcher!Idle
  <2> HIDE DEF w
  <2>3. registry' \in Seq(Entries)
    BY <2>1, <2>2, UpsertIs
  <2>4. ShellIs(Launcher!Idle)
    BY DEF ShellIs
  <2> QED BY <1>0, <1>s, <2>1, <2>3, <2>4 DEF LauncherTypes
<1>4. ASSUME Launcher!Command, UNCHANGED <<registry, shell, changes>>
      PROVE  LauncherTypes'
  BY <1>0, <1>4, <1>c DEF LauncherTypes, ShellIs
<1>5. ASSUME Launcher!Change, registry' \in Seq(Entries), UNCHANGED <<shell, commands>>
      PROVE  LauncherTypes'
  BY <1>0, <1>5, <1>h DEF LauncherTypes, ShellIs
<1>6. ASSUME NEW d \in Folders, Launcher!EmptyEntry(d)
      PROVE  LauncherTypes'
  <2> DEFINE e == << <<d, Absent>> >>
  <2>1. Launcher!Change /\ registry' = e \o registry /\ UNCHANGED <<shell, commands>>
    BY <1>6 DEF Launcher!EmptyEntry
  <2>2. e \in Seq(Entries)
    BY DEF Entries
  <2> HIDE DEF e
  <2>3. registry' \in Seq(Entries)
    BY <2>1, <2>2, ConcatProperties DEF LauncherTypes
  <2> QED BY <1>5, <2>1, <2>3
<1>7. CASE UNCHANGED Launcher!vars
  BY <1>0, <1>7 DEF LauncherTypes, ShellIs, Launcher!vars
<1>8. ASSUME Launcher!Change, UNCHANGED <<registry, shell, commands>> PROVE LauncherTypes'
  BY <1>5, <1>8 DEF LauncherTypes
<1> QED
  BY <1>1, <1>2, <1>3, <1>4, <1>6, <1>7, <1>8, Zenon
     DEF Launcher!Next, Launcher!LoadCommand, Launcher!RunCommand, Launcher!WrapCommand,
         Launcher!RunRemoteMCP, Launcher!Sandbox, Launcher!ProjectFile

LEMMA LauncherShape == ASSUME LauncherTypes PROVE Launcher!TypeOK
<1>1. \A s \in Terminal : shell[s].step \in {"idle", "read", "write"}
  BY DEF LauncherTypes, ShellIs, Launcher!Idle
<1> QED BY <1>1 DEF LauncherTypes, LauncherInv, Launcher!TypeOK, Entries

LEMMA LauncherTyped == MCSpec => []Launcher!TypeOK
<1>1. MCInit => LauncherTypes
  BY LauncherTypesStart DEF MCInit
<1>2. LauncherTypes /\ [MCNext]_hostVars => LauncherTypes'
  <2> SUFFICES ASSUME LauncherTypes, [MCNext]_hostVars PROVE LauncherTypes'
    OBVIOUS
  <2>1. CASE [Launcher!Next]_(Launcher!vars)
    BY <2>1, LauncherTypesStep
  <2>2. CASE UNCHANGED launching
    <3>1. UNCHANGED Launcher!vars
      BY <2>2, Zenon DEF launching, Launcher!vars
    <3> QED BY <3>1, LauncherTypesStep
  <2> QED
    BY <2>1, <2>2, Zenon DEF MCNext, hostVars
<1>3. LauncherTypes => Launcher!TypeOK
  BY LauncherShape
<1> QED BY <1>1, <1>2, <1>3, PTL DEF MCSpec
=============================================================================
