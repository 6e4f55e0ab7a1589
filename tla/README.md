# Formal models of agentsmemory

agentsmemory is a multi-tenant memory server for coding agents: agents file
*drawers* (pieces of text) over MCP, search them by meaning, mine whole sources
into drawers and *closets* (searchable digests), and people manage workspaces,
members, keys, plans and shared wings in a dashboard.  A client of its own
installs the server into the agents on a user's machine and launches them.  This
directory holds TLA+ modules that model the server's and the client's logic,
above all where several things happen at once or something can fail halfway, TLC
configurations that check them on small instances, and proofs that TLAPS checks
for instances of any size.

`PROJECT.json` ties each definition to the lines it models (`map`), each
property to the run that checks it and to plausible bugs that would break it
(`mutants`), and each place in the code that is hard to test to the properties
that watch it (`hazards`).

    tlc -workers 2 -config MCDrawerStore_all.cfg MCDrawerStore     # one run
    tlapm DrawerStoreProofs.tla                                    # one module of proofs

## 1. The system

One Go process (`cmd/server`) serves `/mcp`, the dashboard and the webhooks over
one SQLite database (gorm), with two background goroutines: the embed worker and
the merge worker.  Vectors live twice: in SQLite (source of truth) and in a
search index (Qdrant or chromem).  No transaction spans a row and its vectors,
and most multi-step operations are separate statements, so what makes the
program hard is *what is left behind when two operations interleave or one
stops in the middle*.

| Component (source) | State | Operations | Hard behaviour | Makes it correct | Module |
|---|---|---|---|---|---|
| Drawer store (`palace/service.go`, `repo.go`, `embedpending.go`, `import.go`, `store/hybrid.go`, `store/sqlitevec`) | rows with `embedded_at`, vectors in source of truth and index | add_drawer, diary_write, update, delete, import, embed a batch | three stores without a transaction; worker beside handlers; crashes | an embedded row has a vector; the index is never ahead of the truth; queued rows get embedded | DrawerStore |
| Source filing (`palace/service.go` purgeSource, `mine.go`, `closet.go`) | drawers and closets of one source, per-source mutex | add_drawer with a source, mine | purge-then-write chains; mine locks, add_drawer does not | replacing is wholesale; every call returns | SourceFiling |
| Embed worker (`embedworker`) | none but the queues | rounds over teams | starvation, a team whose rows always fail | round-robin, healthy teams drain | EmbedWorker |
| Merge jobs (`mergejob`, `palace/admin.go`) | `merge_jobs`, wing labels | enqueue, claim, relabel, rebuild, mark, release at boot | restart mid-job, lost final status | done means merged, jobs settle | MergeQueue |
| Wing sharing (`share`, `palace/copywing.go`) | `share_requests`, copied drawers | request, accept, decline, copy by page, reopen | two admins, disconnect or failure during the copy, a listing that moves | nothing copied without consent, an accept copies the wing | ShareHandshake, WingTransfer |
| Billing (`billing`, `web/billing.go`) | `teams.plan_id`, `subscriptions` | webhook activation and cancellation, checkout | redelivery, reordering, two statements | plan and subscription converge | Billing |
| Usage metering (`usage`, `mcpserver.admit`) | `usage_counters` | Allow | read-check-count without a lock, month change | overshoot is bounded | Metering |
| Tenancy (`tenant`, `web/members.go`, `web/keys.go`) | users, teams, memberships, `api_keys` | create workspace, add, role, remove, rotate, reveal | authorised earlier, carried out later | somebody manages; members can connect; removed keys stay dead | Workspace |
| OAuth (`oauth`, `auth`) | in-memory replay guard; sealed claims hold the rest | authorize, token, refresh, gate | claims outlive what they say | codes work once, the gate follows the database | TokenServer, Access |
| Second factors (`tenant/totp.go`, `passkey`) | secrets, recovery codes, passkeys | enrol, confirm, verify, consume, disable | two tabs, double submits | codes work once, those of the newest set; no unconfirmed secret is demanded | SecondFactor |
| Derived graph (`palace/graphquery.go`, `hallway.go`, `tunnel.go`, `graph.go`) | hallways, tunnels | recompute, create, delete; traverse, find, count | a rebuild of many statements beside merges, users and failures | a complete rebuild tells the drawers; authored links stay; walks are nearest first | DerivedGraph, GraphWalk |
| Knowledge graph (`palace/kg.go`) | triples with validity | add, invalidate, query | check-then-insert, retroactive intervals | bounded duplicates, history stands, windows are upright | Facts |
| Search and ranking (`palace/service.go` Search, `rank.go`) | none | candidates, filter, blend, closet boost, rerank | rows read after their vectors; a reranker that fails by batches | order by score, filters not starved, rows of the wing asked for | Search |
| Chunking and closets (`palace/chunk.go`, `minechunk.go`, `closet.go`) | none | cut, overlap, pack | boundaries, progress of the loops | no text lost, loops end, closets packed tightly | Chunking, Closets |
| Diary (`palace/service.go` WriteDiary, ReadDiary) | drawers of the room "diary" | write, read | same words in one second | entries are only ever added, the newest read first | Journal |
| Index sync (`store/hybrid.go`, `store/qdrant`, `store/chromemvec`, `cmd/server/sync.go`) | the index | write to both halves, replay, boot refill | writers beside a replay, requests failing half-way | a replay that succeeds made the index the truth | IndexSync |
| Skills and skillset (`skill`, `skillset`) | versioned documents | upsert, load | read-then-write version | a version stands for one text | Revisions |
| Import and export (`importer`, `wingbundle`, `dataexport`, `web/export.go`) | a stream's pending batches; an archive | stream records in, a wing or a workspace out | cut streams, repeats, live tables | a completed import filed all once; a wing leaves whole; an archive is one workspace's | Import, WingTransfer, DataExport |
| MCP tools (`mcpserver`, `cmd/server/mcp.go`) | none of their own | every tool of the server | arguments left out, roles, metering | a tool writes what it is for, after it paid | Tools |
| Server process (`cmd/server`) | lock file, socket or port, seeded data | boot, serve, stop; the stdio proxy | two processes, kills between seeding steps, broken streams | one server per database; replies once and in order | Server, StdioProxy |
| Client (`clients/claude-code`) | agents' files, registry, project files, binary | install, refresh, init, load, run, mcp, update | the user's and agents' own edits, failures, kills, several shells | what is the user's stays; installs settle; the binary stays runnable | Installer, Launcher, SelfUpdate |
| Dashboard, social sign-in, embedding clients | none of their own | forms, redirects, HTTP calls | - | - | not modelled, see 7 |

How they interact: handlers and importers leave rows without `embedded_at`; the
embed worker finds them by polling the table and stamps them.  The merge worker
polls `merge_jobs` and relabels rows that handlers keep filing; its last step is
the graph rebuild that `recompute_graph` also runs.  Sharing copies only drawers
whose vector exists, so it depends on the embed worker of the source.  Metering
reads the plan billing writes.  The OAuth server seals what a key says and asks
tenancy again on every call.  Chunking and closets decide what the filing calls
write, tools decide which of these operations a caller reaches.  The client
shares with the server only the endpoint and the names of the tools.

## 2. Modules and the code

Every module starts with a paragraph on what it models; `PROJECT.json` has the
lines.  An action is one store call (or one transaction, one file edit, one turn
of a loop) of the code with the guard in front of it, so every pair of
neighbouring calls can be separated by any step of anybody else.

**DrawerStore**, with the abstract **DrawerLifecycle**.  `row`, `stamped`, `sot`
and `index` are the four columns of truth about a drawer: its text, whether
`embedded_at` is set, and the text its two vectors were computed from.  Text is
a number: 0 is the text the content hash names, each update brings a new one.
Handlers go through `sot -> index -> row` (`storeDrawers`, `Service.Update`:
vectors before rows) or, deleting, row `-> sot -> index`.  The worker goes
`ReadPending -> IndexSoT -> IndexSearch -> MarkEmbedded` and works with the text
it read first.  `HandlerFails`, `WorkerFails` and `Crash` stop an operation
between two calls.  DrawerLifecycle is what a user is promised: absent, pending,
indexed; and nothing once a `delete_drawer` has begun on the id.

**SourceFiling**.  The rows, vectors, closets and closet vectors of one source;
`add_drawer` and `mine` are chains of list, drop vectors, drop rows, write
vectors, write rows.  `mine` holds `lock` (mineLocks) and repeats the chain for
closets, which it purges in *every* wing and room, while drawers are purged only
in its own.

**EmbedWorker**.  Queues are lengths, a batch is one step: this module is about
rounds, turns, errors and sleeping, DrawerStore about what happens in a batch.

**MergeQueue**, with the abstract **MergeJobs**.  `ReadOldest`/`Claim` are the
two statements of `ClaimNext`; relabelling drawers, closets and rebuilding the
graph are steps of their own; `Boot` is a restart with `ReleaseRunning`, whose
failure is only logged, so that a job may stay `running` until a later restart.

**ShareHandshake**.  One (source, destination, wing) triple: `Create` with the
partial unique index, `Claim` as the conditional update, one `CopyPage` per page
of the listing, `Reopen` after a failed copy.

**Billing**.  Stripe is external (`Checkout`, `End`, `Deliver`, `Repeat`); each
webhook is `Guard`/`Lookup`, `SetTeamPlan`, `Upsert`.  The constants `InOrder`,
`GuardErrs` and `OldRepeats` say what deliveries may do.

**Metering**.  `Allow` as `Begin` (the month), `ReadCap`, `Get`, `Count`, beside
plan changes and the turn of the month.

**Workspace**.  Memberships and keys of one workspace; a dashboard request is
`Authorize` (the role read in `Server.membership`) and, later, one transaction.

**TokenServer** and **Access**, which composes it with Workspace.  Sealed codes
and tokens are records nobody stores; `seen` is the replay guard.  `/token` is
open, validate, issue; the gate is open, find key, find role, each a step.  A
membership that cannot be read, or has no role, admits the caller as a plain
member (`RoleRead`), as `tenantFromKey` does.

**Facts**.  `KGAdd` is `BeginAdd` (checks, endpoints, look-up) and
`InsertTriple`; `KGInvalidate` is `BeginInvalidate` (the guard on starts) and
`EndTriples`, which ends whatever is current by then.  Temporal values carry the
two moments the code compares, so a date is an interval and a datetime a point.

**SecondFactor**.  One account; each request reads it (`Begin...`) and writes
later (`WriteSecret`, `Enable`, `Spend`, `Disable`).  The owner has every secret
and every recovery code ever shown.

**Revisions**.  `Upsert` of a skill, `Set` of the playbook: read the row, write
all of it back with the next version.

**DerivedGraph**.  `recompute_graph` as its statements: the wings present, per
wing the pair counts, the hallways there are and their replacement, the pruning
of stale wings, the deletion and re-derivation of entity tunnels, under the
team's mutex; beside it drawers are filed, deleted and relabelled, and users
create (check one end, the other, upsert) and delete tunnels.  `settled` is a
history variable: the last rebuild ran to its end and nothing moved since.

**GraphWalk**.  `buildGraph` as the counts `filed[room, wing]`; `Visit` is one
turn of Traverse's queue, `Rank` its sort and cut.  `find_tunnels` and
`graph_stats` are operators over the same counts.

**Search**.  `Retrieve` (the nearest vectors of a pool), `Resolve` (their rows,
held against the filter and the distance), `BoostSources` (closets),
`RankHybrid` (the blend), `RerankBatch`, then `ApplyRerank` or `FailOpen`: one
step each, with drawers moved or deleted before their rows are read.  `Raw` is
BM25 with its term frequencies and lengths; a drawer is how often it has each
word, how long it is, how near and of which source.

**Chunking**, **Closets**.  The three cutters (window, mine, diary) and the
packer as loops over positions, one step per turn; a chunk is the sequence of
positions it holds, so that what is lost or repeated shows.

**Journal**.  `WriteDiary` with its chunks, seeds and ids, the two queries of
`ReadDiary`.

**IndexSync**.  A write to the truth and then the index; `sync` namespace by
namespace, with `reset` or by upserts in chunks and a pruning of what the truth
no longer has; the boot that refills empty chromem namespaces.

**Tools**.  The table of tools (what each requires, takes, and may write) and a
call's stages: admit, count, read arguments, run; over HTTP by role, on the
command line by the list of reading tools.  `Patch` is what an update writes: the
fields that were sent and, with any of them, the vector, first (`Partly`).

**Import**, **WingTransfer**, **DataExport**.  The importer's loop over a record
stream with its batches; a wing read page by page by offset, for a copy or a
bundle; the archive of a workspace table by table, each with its own filter.
What the importer swallows is modelled as it is: a fact, a tunnel or the
rebuild of the graph that fails is at most counted as skipped (`missed` is the
history of them).  The export redacts the columns it has redactors for
(`Redactors`), which are not all that hold a credential (6).

**Server**, **StdioProxy**.  `flock` on a lock file that may be unlinked (so the
model tells file names from files), boot and seeding step by step, socket or
port; the proxy's loop from stdin through a POST to a stream of events.

**Installer**, **Launcher**, **SelfUpdate**.  Install as its list of file edits,
each of which may fail or be the last, with the user and the agents at the same
files all the while.  A file of the user's is read and merged, put aside,
truncated and written in separate steps (`BackUp`, `Truncate`, `WriteOut`);
`overtaken` is the history of edits that fell in between.  `--copy` creates a
file and then fills it.  `settled` says that a completed install's outcome still
stands.  `init` as project file, then registry (read and write
apart); `load` picks sandbox, agent and arguments by the code's precedence.
Update stages, verifies, runs and renames.

The MC modules give TLC its sets.  **MCJobs**, **MCServices**, **MCMemory** and
**MCHost** put components next to each other as a *sum*: a behaviour runs one of
them (`service`, `part`; `Services` and `Parts` say which may run) and the
others stay as they started.  The components of
a sum share no variable, so their product would only multiply states, and a
property of the sum is a property of its parts.  **MCDrawerStore** is a sum of
three workloads on one module: several handlers; one that also edits and moves; and
one beside a worker whose batch is smaller than the queue.  Components that do share state are composed:
TokenServer with Workspace (Access); the worker, handlers and imports inside
DrawerStore; the merge worker with filing inside MergeQueue.

The proofs are in modules of their own beside what they are about:
**DrawerStoreProofs**, **AccessProofs** (which has those of Workspace as well) and
**MergeQueueProofs** extend one component each; **JobsProofs**,
**ServicesProofs**, **MemoryProofs** and **HostProofs** extend the sums, so that
their theorems are about the specification that is run, and **KeepingProofs**
extends HostProofs with transfers and the installer.  For this the sums have
what is proved of their parts range over CONSTANTS, and name what has to hold of
them; a configuration gives the values.

Operators named like bugs (`AbsorbRequeues`, `RecomputeUnlocked`, ...) stand
next to the action they distort.  No specification uses them; they are what the
mutants substitute to show that a property can fail.

## 3. Runs

| Run | Instance | Shows |
|---|---|---|
| `store_all` | 2 drawers; either 2 handlers with file, import, delete and 1 fault, or 1 handler that also updates and moves, both with a batch of 2; or 1 handler with file, import, delete and 1 fault and a batch of 1 | an embedded row keeps its vector, the index stays behind the truth, the store implements the life cycle, every pending drawer leaves the queue unless older ones keep coming |
| `jobs` | filing: 2 handlers, two mined places and one added to, 3 versions (long, short, empty), 3 calls, 2 faults; worker: 3 teams, one broken, 2 rows of a kind, 3 imports, 1 fault; billing: 2 checkouts of one team, 1 handler, 2 repeats, 2 faults, first deliveries in order | a successful mine has replaced drawers and closets wholesale, mined rows keep their vectors, every call returns; round-robin, a healthy team drains; plan and row converge, who paid gets the plan |
| `merge` | 2 jobs, 1 worker, 2 wings, 2 drawers, 1 closet, 2 faults | done means merged; job life cycle; jobs settle |
| `access` | 2 accounts, 2 keys, 1 dashboard request, 2 token requests, 1 code, 1 restart | a code gives tokens once; the gate lets in nobody with a dead key, nor with more than the role the database has |
| `services` | metering: 2 requests, 2 months, caps 1, 2, none; workspace: 3 accounts, 3 keys, 2 requests; facts: 1 fact, 3 triples, a day and a moment, 2 calls; second factor: 2 requests, 3 secrets, 2 sets of 2 codes; revisions: 4 edits, 2 at a time; sharing: 2 requests, 3 calls at a time, 2 pages, 2 faults of 4 kinds; drawers: 2, 1 handler, 2 edits, 2 faults | bounded overshoot; somebody manages, members can connect, removed keys stay dead; duplicates bounded, history stands, windows upright; codes once and of the newest set; a version stands for one text; one accept copies, a decline is final, an accept has copied the wing; an operation that completes repairs its drawer |
| `memory` | cutting: every text of 5 or 7 letters, blanks and breaks, 3 sizings; closets: up to 4 topics and 2 quotes with limits 3 and 2; journal: 2 writes by 2 agents; search: 4 drawers in 2 wings, 2 memories (in one of them a drawer is too far, in the other a word is in most texts), words repeated in texts of several lengths, 3 closet answers, limit 2, reranker batches of 2; graph: 4 drawers of one room in 2 wings, 3 calls, 1 change; walk: every graph over 4 rooms and 3 wings up to the wings' names; sync: 2 points, 2 writes | no text is lost and the loops advance, closets are tight; journals only gain; a page holds rows of the wing asked for and near enough, in a fair order, and filters find all; a complete rebuild tells the drawers, authored tunnels stay; walks are nearest first and agree with the statistics; a replay that succeeds made the index the truth |
| `host` | server: 2 processes, 2 databases, 3 boots; tools: every tool, 2 calls, cap 1; archive: 2 workspaces, 2 people, 2 changes; transfer: 4 drawers in pages; import: 3 streams, 3 attempts; proxy: 3 messages, 1 event; installer: 3 agents, 5 command lines, 2 commands, 1 edit at any moment of them, 1 file that cannot be copied; launcher: 3 commands, 1 change by hand; update: 3 updates, 2 at a time | one server per database; tools pay and stay in bounds; an archive is its workspace's, whole, with no credential but the second-factor secret of who asked; wings are whole, imports too but for what they report as skipped; replies once and in order; the user's text is kept but for an edit the installer writes over, installs settle, a runnable binary stays; `load` starts what `init` recorded |
| `filing_vectorless` | 2 concurrent add_drawer, no fault | *violation*, see 6 |
| `share_disconnect` | 1 disconnect | *violation*, see 6 |
| `billing_reordered` | 1 subscription, 1 failed handler, any order | *violation*, see 6 |
| `server_seed` | 1 process, killed once, booted again | *violation*, see 6 |
| `install_marker` | 1 install for two agents with shared logins | *violation*, see 6 |

Why these bounds are enough to be interesting.  Races in this code are between
two parties over one object, so two handlers (plus the worker) and two objects
suffice to separate the object from its neighbours; a batch of two makes the
worker carry a drawer that changed under it, and a batch of one makes the second
drawer wait, so that it matters which is taken first.  Three calls on a source are two
that race and one that follows.  Three teams tell "once per other team" from
"once"; two pages are a first and a last page; two subscriptions are needed for
one to supersede the other.  Three calls on the graph are a rebuild, a user's
edit during it, and a rebuild that repairs.  Texts of seven characters are cut
into three windows of four; three wings and four rooms make walks of two hops in
which a room is reached twice.  Three boots let a killed server be followed by
two that race.  Faults are bounded because a behaviour with unboundedly many
failures satisfies no liveness property; one or two let a failure hit an
operation and its repair.  Counters (`MaxEdits`, `MaxCalls`, `MaxChanges`,
`MaxAbsorbs`, `MaxTime`, `MaxKeys`, `MaxCodes`, `MaxCount`, `MaxBoots`,
`MaxRuns`, `Months`, ...) stop the environment from going on for ever, and each
is a guard on an environment action or the minting of a fresh name.  Time in
`access` has lifetimes of zero, so that "issued now" and "expired" both occur in
two ticks.  Symmetry is used only in runs without liveness properties, over
parties nothing tells apart.  Deadlock is not checked: in every run some bounded
environment runs dry, and the liveness properties say what may not get stuck.

## 4. Fairness

Only what runs by itself is fair; clients, admins, imports and Stripe's
customers owe nothing.

* `WF(WorkerStep)` in DrawerStore, `WF(Run)` in EmbedWorker and per worker in
  MergeQueue: the goroutines of `Worker.Run` loop for the life of the process.
  Restarts are faults of the models, so a worker that comes back is included.
* SourceFiling: a handler keeps executing (`WF(Purge \/ Store)`), and waiting
  for the source's mutex is strongly fair because `sync.Mutex` hands over to a
  waiter after a millisecond (its starvation mode).
* Billing: a handler keeps executing and Stripe keeps delivering what was not
  answered with success (`WF(Handle)`, `WF(Attempt)`).

MCJobs states the same conditions, each for the behaviours in which its service
runs.  `PendingSettles` and `JobsSettle` do not assume that a particular drawer
or job is served: oldest-first order and the queue have to provide it.  For
drawers they do in the behaviours of `store_all` whose batch does not take the
whole queue, where a worker that takes rows in any order fails the property.
What order cannot give is excepted: an import brings its `filed_at` along, so
rows older than the one waiting may keep coming for ever.  The
other modules state safety only: their steps belong to requests, users and
processes that may stop at any time, and so they make no promise that something
happens.  The loops of Chunking and GraphWalk end because every step advances
(`Advances`) or consumes a finite queue.

## 5. What is proved

Every theorem is about a specification a run checks, for every value of its
constants: any sets of drawers, calls, requests, teams, wings, subscriptions or
processes, any catalogue or placement, any bound.  The assumptions about the
constants are ASSUMEs, which TLC evaluates for the values of the runs.  They say
no more than the program's own declarations: bounds are naturals, a batch and a
threshold are positive, what is counted is finite, the creator of a workspace is
a user, and a marker such as `NoOne`, `NoTeam`, `None` or `""` is not the name of
anything (`MarksAssumption`: what stands for an absent or damaged file or a link is
nothing a file holds).  What a search, a closet or a walk is given has its declared
shape, like a count per word and drawer (`SearchAssumption`, `ClosetsAssumption`,
`WalkAssumption`).  Three say more about the program.  `Graph!Assumptions` has
authored links end at rooms that are no entities, because `SanitizeName` lets no
colon through and derived rooms are written `entity:<E>`.  `NamesAssumption` keeps
three strings that mark the kind of a vector's namespace from being a workspace's
id.  `SizingsAssumption` has windows overlap by at most half and a floor of at
least one character, as the constants of `chunk.go` and `minechunk.go` do.

Where the MC module is a sum, its invariant has the form `part = p => Inv`, and a
step of another part leaves it true.  A theorem about a sum therefore holds for
whichever part runs.

| Theorem | Property | Invariant it rests on |
|---|---|---|
| `DrawerStoreProofs!TypeCorrect`, `VectorsSurvive`, `DurableFirst` | `TypeOK`, `VectorlessOnlyAfterErase`, `IndexOnlyAfterSoT` | `IndInv` |
| `Refinement` | `ImplementsLifecycle` | `IndInv` |
| `CompletionRepairs`, and `ServicesProofs!CallsRepair` | `CompletionAgrees` | `RepairInv` |
| `MergeQueueProofs!QueueTypeCorrect`, `QueueImplementsLifecycle` | `TypeOK`, `ImplementsLifecycle` | `QueueInv` |
| `DoneMeansMergedByOne` | `DoneMeansMerged` | `MergedInv` |
| `JobsProofs!JobsTypeCorrect` | `JobsTypeOK` | the three below |
| `SourcesReplaced` | `SourceReplaced` | `FilingInv` |
| `TeamsOvertakenBoundedly` | the bound in `TeamsServed` | `WorkerInv` |
| `InOrderPaymentsConverge` (four hypotheses) | the convergence in `PlansFollowPayment` | `BillingInv` |
| `PlansAreOwed` | `PlanIsOwed` of `PlansFollowPayment` | `OwedInv` |
| `AccessProofs!WorkspaceKept`, `ServicesProofs!WorkspaceStands` | `WorkspaceHolds` | `IndInv` |
| `AccessProofs!TokensTypeCorrect`, `CodesRedeemedOnce`, `AdmittedByDatabase` | `TokensTypeOK`, `RedeemedOnce`, `AdmittedAsNow` | `AccessInv` |
| `ServicesProofs!ServicesTypeCorrect` | `ServicesTypeOK` | `ServicesInv` |
| `MeteringTypeCorrect`, `OvershootBounded`, `OvershootBoundedBeside` | `BoundedOvershoot` | `MeterInv` |
| `CodesWorkOnce` | `CodesWork` | `AccountInv` |
| `VersionsTell` | `VersionTellsTextUnlessRaced` | `DocumentInv` |
| `HistoryIsKept` | `FactsStand` | `FactsInv` |
| `ConsentIsKept` | `ConsentDecides` | `SharingInv` |
| `MemoryProofs!ReplaysTellTheTruth` | `SyncedIsTruth` | `SyncInv` |
| `JournalsAppend` | `JournalAppends` | `JournalInv` |
| `RebuiltGraphTells` | `GraphIsRebuilt` | `GraphInv` |
| `TextIsKept` | `TextKept` | `CutInv`, `PackInv` |
| `SearchesAreFair` | `SearchIsFair` | `SearchInv` |
| `HostProofs!OneServerEach`, `LocalServesOnlyItsOwn`, `ServersApart` | `ServersKeepApart`, `LocalServesItsOwn`, `DatabasesApart` | `IndInv` |
| `CallsArePaid` | `CallsPaidAndBounded` | `ToolsInv` |
| `RepliesAreInOrder` | `RepliesInOrder` | `ProxyInv` |
| `ArchivesAreTheirs` | `ArchiveIsTheirs` | `ExportInv` |
| `BinariesRun` | the binary's part of `ClientsStayWhole` | `UpdateInv` |
| `CallsStayNamed` | `CallsAsNamed` of `LaunchesAsRecorded` | `LauncherInv` |
| `KeepingProofs!WingsMoveWhole` | `WingMovesWhole` | `TransferInv`, `ImportInv` |
| `UsersKeepTheirs` | `UserKept` of `ClientsStayWhole` | `UserInv` |
| `HostTypeCorrect` | `HostTypeOK` | those of the parts |

Hardly any of these properties is inductive: what has to be known besides it is
in most cases *what an operation in the middle has already read or written*.

**Drawer store.**  After "row saved and stamped" one has to know that the vector
written two steps earlier is still there.  `InFlightHasVector` says it: whoever is
past its source-of-truth write has a vector there unless the id was erased, every
unfinished delete is on record in `erased` before it removes a vector, and the
same holds for each member of the worker's batch.  The refinement needs nothing
else: with `IndInv` a stamped row that was never erased is "indexed", and each
action maps to `File`, `Erase`, `Absorb`, `Embed` or a stutter.  `CompletionRepairs`
has a hypothesis, `OneAtATime` (one handler, no imports): two handlers on one
drawer do leave its three stores apart (6), and run `services` has one.

**Merge queue.**  Claims are guarded by the status, so no job is executed twice
at a time (`OneEach`), and a running row is being executed or the mark of its end,
or its release at a boot, was lost (`Accounted`, one fault each): with these every step maps to one of the
life cycle.  That done means merged needs `OneWorker`, as the program starts it:
what the worker has moved out of the source wing stays out because nobody else
relabels (`Merges`).

**Source filing.**  `Locked`: a mine past its first step holds the source's
mutex.  `CallsOK`: how far each call has come, drawers first (the place is empty
once purged, the new ids have vectors before they have rows), then closets, which
only mines touch.  `SourceReplaced` promises drawers only of places that are
only mined, since `add_drawer` does not take the lock.

**Embed worker.**  A potential argument: a team outside the round has been
overtaken by at most the other teams less those still to come, one inside it by
one round more, and each restart or failure starts one more round (`RoundOK`).

**Billing.**  That plan and row converge on what was paid has four hypotheses, which
run `jobs` checks under and which neither Stripe nor the code guarantees: first
deliveries in order, one webhook at a time, repeats of the last checkout's events
only, and a guard whose read does not fail.  They are needed: run
`billing_reordered` drops the first, section 6 names what happens without the
others.  `PlansAreOwed` has no hypothesis: in any order, with any number of
handlers, repeats and failures, a team is on no plan it did not buy, and once it
is recorded it is back on the free plan only if a subscription of its own has
ended.  It rests on what a handler may know: whatever it has been told has happened (`Told`).  For convergence, `QueueOK` relates Stripe's side to
the queue: each event is owed once or answered, an end after its start, and the
last start owed is the last checkout's.  `Handled` says that what a webhook has
read is still so, `RowRecords` and `PlanFollows` that once the last checkout is
answered row and plan are its own until its end is handled.

**Accounts.**  Workspace's three claims are inductive together: the transaction
that changes a role reads and writes the keys that go with it.  For Access, a
code that has not expired was redeemed once in each life of the server that is
over and, if its mark is there, once in this one (`MarkedIfRedeemed`), and a call
whose key was dead when it came is stopped by the query for the key
(`DeadStaysOut`); it gets the role of the membership at that moment, or a plain
member's if that cannot be read.  For the meter, whoever is about to compare the count does so
with a cap the month's ceiling covers (`GetCapped`), and a month whose ceiling is
0 has admitted nobody; the step that matters is `Get`, where the request has seen
a count below its cap and is not itself past the check, so those that are, are
at most all the others.  For second factors, a new set is fresh because every
code spent was minted (`SpentWereMinted`).

**Documents and facts.**  Versions: no version is ahead of the edits that have
ended (`Ahead`), and until an edit overwrites one it has not read, the row has
the newest (`Newest`).  Facts: an addition begins only where there is no current
triple, so a fact's current triples and the additions in hand are together at
most the calls (`RoomForAll`), the same counting as the meter's.

**Sharing.**  `Apart`: whoever copies for a request, or undoes its claim, is the
only one; `Handling`: the pages behind a copier hold what was searchable when it
claimed.

**Index sync.**  `LoadedOrHeld`: a point no write has touched since the replay
came to its namespace is still to be loaded as the truth has it, or the index has
it; `TodoIsNotGood`: what is yet to be replayed is not called good; `BootsAlone`:
a replay of the in-memory index runs before the server serves, so no writer is
beside it, which is why `BootRefills` may conclude that nothing is searched empty.

**Journal.**  Entries are numbered as they are acknowledged, an entry that drew a
nonce carries its number in the ids of all its rows (`OfSeed`), so two of them
share no row, and upserts never take a row away.

**Derived graph.**  `OneRebuild`: whoever rebuilds holds the team's mutex.
`Told(w)`: the hallways of wing `w` are what its drawers say now.  `Progress` says
how far a rebuild nobody disturbed has come: in the loop every wing is told, still
to be done, or empty and to be pruned; at the pruning what is not told has no
drawers and is on the list; afterwards all wings are told and no derived tunnel
is left; at last the hallways read are the hallways there are.  A rebuild of one
wing starts from a settled graph or promises nothing, which is what the history
variable `clean` records.  Authored tunnels stay because nothing but
`delete_tunnel` removes one and no derived tunnel has its ends.

**Cutting and packing.**  Whatever the loops have passed is in a chunk
(`WindowsHold`, `MinesHold`) or, in a diary, is what the chunks make in their order
(`DiaryWhole`); the start of the next window is ahead of the last's because an
overlap is at most half a window and a break is looked for in its other half.
`PackInv`: the lines packed so far are the first ones, each document is as full as
it may be, since the head of the next would have made it too long (`Over`).

**Search.**  Each step makes a list of the last (`Narrowing`), and `ranked` is the
survivors in a stable order of their blended scores.  That one drawer dominates
another then comes down to arithmetic: a word's value grows with its count and
falls with the length of the text, so a sum of them over the query does.
`AllFound`: what nobody touched stays among the candidates of a pool of all;
`AsLoaded`: what survived had a row of the wing asked for and near enough when its
row was read, and rows are read once.

**Wings and imports.**  `AllCarried`: a drawer that stood is on a page read or
behind the offset, because what is filed joins the listing before the offset or
after it and only a deletion pulls it forward; `EachOnce` while nobody writes.
`ImportInv`: every record read is pending, filed or counted as skipped, and what
the store refused is in `missed` (`Accounted`), whatever the batches' size.

**Installer.**  `UserInv` knows of a file being replaced what was read of it and
that this is put aside before the file is truncated (`Replacing`), that the text
to be written has all of the user's part of what was read, and, if the user
edited it since, that the file is on record in `overtaken` as soon as the edit is
written over.

**Server.**  Nobody unlinks a lock file, so a database's has one identity from
the first boot on (`FileIsCurrent`), whoever got past the lock holds that file
(`UsersHold`), and a file has one holder (`OneHolder`).  With one user per
database, what a self-hosted server has found at one boot step is still so at the
next (`LocalOwns`).  Until servers of two databases meet at the socket's path only
one process is past clearing it, so what it binds, narrows and serves there is
its own (`AloneAtSocket`, `SocketIsOwn`).

**Tools, proxy, archive, update, launcher.**  `Paid`: a call that was admitted has been
counted, or is of the command line and reads only.  `StreamsRequest`: what a
stream has written about its message are events, then a result after which
nothing more is written.  `ExportInv`: rows that stood when the export began and
are taken by a table behind it are in the archive.  `UpdateInv`: what is about to
replace the binary has been run.  `LauncherInv`: a sandbox is one of the names
there are.

Only model-checked, and why:

* liveness (`PendingSettles`, `CallsReturn`, `JobsSettle`, the other halves of
  `TeamsServed` and `PlansFollowPayment`): these need fairness and ENABLED, which
  the prover does not handle here;
* `WalkIsNearest`, and `MemoryTypeOK`, which takes in the walk's shape: that a
  queue finds shortest distances is an induction over the graph, against a
  distance that is defined by recursion.  (Where the proofs above need induction,
  they make it over a set of naturals; the prover cannot instantiate the library's
  theorems that take an operator.)
* `LoadsAsRecorded` of `LaunchesAsRecorded` and `InstallsSettle` of
  `ClientsStayWhole`: the one folds over the characters of arguments, the other
  compares two runs of an install;
* `SeededTogether` and the other properties of the refuted runs, of course.

## 6. Where the code and its comments part

Each of these is a run of its own that TLC refutes:

* `filing_vectorless`: two `add_drawer` calls on one source.  `purgeSource` drops
  vectors by the ids it listed earlier; the other call has meanwhile written the
  same content-hash ids again, so a row remains without a vector, with no failure
  anywhere, against "a row never exists without its embedding"
  (`palace/service.go:179-180`).
* `share_disconnect`: copy and `Reopen` run on the request's context.  When the
  admin's browser goes away during the copy, the `Reopen` is cancelled as well and
  the request stays accepted with nothing copied (`share/repo.go:110-112`).
* `billing_reordered`: a cancellation whose activation has not been recorded is
  dropped as "not ours"; the failed activation is delivered again afterwards and
  grants the plan for good (`billing/billing.go:212-217`).
* `server_seed`: the demo owner is created before the transaction that creates
  its workspace, against "in a single transaction"
  (`tenant/tenant.go:564-565`); a process killed between the two leaves an owner
  without a workspace, and no later boot of that database can seed it.
* `install_marker`: with shared logins, each agent of one install rewrites the
  marker file with its own links only, so `run` no longer notices a broken link
  of the first (`clients/claude-code/sharedauth.go:12-13`).

Also seen with these modules, and kept out of the runs (to reproduce, set the
constants named here and state the property at hand):

* DrawerStore, updates in `Ops` and two handlers: two updates of a drawer may
  write vectors in one order and rows in the other; a worker batch may overwrite
  the vector of a finished update with the text it read before.
* DrawerStore: a drawer deleted and imported again between the worker's vector and
  its stamp (`embedpending.go:106-115`) is stamped with the vector gone.  The store
  claims nothing of an id once a delete has begun on it (`erased`), so no property
  here forbids this.
* DrawerStore without the exception for `OlderArrives`: a drawer may wait for ever
  while older ones keep being imported, since an import keeps their `filed_at`
  (`palace/repo.go:115-123`).
* DrawerStore with `absorb` after `update`: `SaveUnembedded` puts the imported
  text back, although "content/wing/room/source/chunk never differ on a
  conflict" (`palace/repo.go:98-99`).
* SourceFiling, `Added` with two handlers: chunks of two versions survive side
  by side; `Mined = {p1, p2}`: mining a source again under another room keeps the
  drawers of the first.
* MergeQueue: a job taken up again after a restart reports only the drawers its
  last attempt moved; a wing with closets and no drawers is refused as a source.
* ShareHandshake with `"copy"` faults: a request filed during the copy makes
  `Reopen` collide with the unique index.
* Revisions, `VersionTellsText`: two edits that read one version both write the
  next, so one version stands for two texts and the first edit is lost; with a
  slow writer the version goes back.  The comment promises that "a stale cache
  can be detected" (`skillset/skillset.go:47-49`).
* TokenServer: `tenantFromKey` lets a caller in as a plain member when the query
  for the membership fails, not only "if the membership row is missing", and so
  also a writer or an admin loses that role for the call (`tenant/tenant.go:303-314`).
* Facts without the exception for `unseen`: a triple inserted between the guard
  and the update of `kg_invalidate` may be ended before it starts; no query
  answers with it any more.
* SecondFactor without the exception for `raced`: a second set-up whose write
  comes after the confirmation in another tab replaces the confirmed secret,
  although "a double-submit can't strand an enabled account back in setup"
  (`web/totp_handlers.go:100-103`).  The recovery codes still let the owner in.
* Billing with two handlers, `GuardErrs` or `OldRepeats`: the guard of
  `applyActivated` is a read before two writes and is skipped when its read
  fails, and a repeated activation of a superseded checkout replaces the newer
  row.
* StdioProxy: "Only a failure to write to stdout is fatal"
  (`cmd/server/stdio.go:179-184`), but an error while reading an event stream
  (`stdio.go:260-262`) ends the proxy as well.
* Journal: an entry of several chunks is read back as that many rows, each
  counted as an entry (`palace/service.go:859-860`).
* Import: a re-run upserts drawers by their content, but a fact that has ended
  gets an id made of the current second (`palace/kg.go:137-140`), so a repeated
  import of it stores it again, although "re-running an import upserts"
  (`importer/importer.go:21-22`).  Copy and import also key journal entries by
  their text alone.  A fact or a tunnel whose storing fails is counted as skipped like
  one that is malformed, and the response carries no error
  (`importer/importer.go:319-323, 389-398`); nor does it when the graph cannot be
  rebuilt at the end, which is said to be best-effort (`importer.go:413-420`).
* DataExport: "credential material that must never travel in an export" has
  redactors for password and keys (`dataexport/dataexport.go:123-137`);
  `users.totp_secret`, "a bearer of full 2FA authority"
  (`db/migrations/00017_totp.sql:11`), has none and leaves in clear, in the one
  users row an archive has, that of who asked for it.
* IndexSync: `sync` visits the namespaces the truth has; one emptied in SQLite is
  never visited, so its points stay, against "prunes points no longer in the
  source of truth" (`cmd/server/sync.go:31`).  The promise of chromem's clamp
  (`store/chromemvec/chromemvec.go:142-147`) does not survive a deletion between
  the count and the query.
* Server: a hosted server killed between workspace and playbook serves without a
  playbook, although both modes are said to need one (`cmd/server/main.go:400`).
* Installer without the exception for `overtaken`: an edit between the installer's
  read of a memory or settings file and its write is written over, and the backup
  has the file as it was before the edit (`memory.go:40-102`, `settings.go:28-84`,
  "preserves any existing user content").  A copy that breaks off within a file
  leaves a part of it, which later copies take for the file and leave alone; one
  that cannot be read is skipped without a word (`copy.go:169-187`).
* Installer: re-installing one of two agents in a shared directory may remove a
  file the other's configuration points at (`installer.go:509-511`); a codex
  re-install overwrites pi's endpoint in the shared environment file; the sibling
  a refresh takes as a model may have been rewritten by another agent
  (`updateskill.go:216-218`).
* Launcher: arguments with a line break do not survive `formatArgs`
  (`projectconfig.go:189-191`); two `init`s that read the registry before either
  writes lose one record (`raced` excepts them).
* Chunking: `add_drawer` is described as cutting at about 800 characters; the
  constant is 1600.

## 7. Abstractions

* Text, embeddings, scores and names are numbers or model values.  SourceFiling
  takes what a version is cut and packed into as constants (`ChunksOf`,
  `SlotsOf`); Chunking and Closets model the cutting itself.
* A SQLite statement or transaction is atomic.  A transaction that has read rows
  somebody else changed fails at its first write (SQLite refuses the stale
  snapshot); in the models it then simply does not happen (`Abandon`).
* Workspaces do not interact: every query carries the team id, so one workspace
  is modelled, except in EmbedWorker, which shares a goroutine among them, in
  DataExport, whose question is whose rows they are, and in Tools.
* Reads that change nothing and decide nothing (listings, taxonomy, `Snapshot`,
  revealing a key) are left out of the modules that write.
* Facts: display names of entities and the fields a triple carries besides its
  window are left out; an id collision within a second is one way to `Fail`.
  SecondFactor: the counter of wrong codes travels in the browser's cookie and is
  left out, as are sessions; passkeys are not modelled.  Revisions: roles and
  size limits decide before the row is read.
* EmbedWorker's two sleep lengths are one; MergeQueue rebuilds the graph in one
  step (DerivedGraph has its statements); ShareHandshake keeps the source's
  listing still during a copy (WingTransfer does not).
* Search: scores are whole numbers; what a word counts in a text is BM25's fraction
  rounded to 1/`Unit`, and a word's weight falls by one for each candidate that has
  it, where the code takes a logarithm of the same order.  The code adds up floats
  in the order of a Go map, so two equal scores may differ in the last place; ties
  are ties here.  A filter by room is like one by wing; tokens are an input.  Drawers
  move until their rows are read: later moves change nothing the search reads.
  Closets: what the patterns find in a text is an
  input.  GraphWalk: rooms are numbers in place of names, which are only compared.
* Installer: a file is the set of things the program looks for in it (a managed
  block, an entry, a link), whole or damaged, beside what the user wrote.
  What an install writes of the kit's own (commands, scripts, protocol) is one write
  each.
  Launcher: arguments are sequences of characters, because quoting is what can go
  wrong; hook scripts, prompts and downloads are left out.

Not modelled:

* *Dashboard*: handlers and generated views over the services; the handlers that
  decide something are mapped where the service they call is modelled, and the
  generated markup keeps no state.
* *Social sign-in*: one redirect with a state cookie and an upsert of the account
  by the provider's verified address.
* *Embedding clients*: HTTP calls without state; here an embed call succeeds or
  fails.
* Configuration, routing, logging and the operator's commands of the server, which
  open the database without the lock Server is about;
  passkeys, whose verification is a library's; the suggestions of duplicate wings.

Races named under `hazards` that no property covers: two updates of one drawer
and a deletion beside the worker's stamp, for which the code promises nothing (6),
and a merge between the listing and the
deletion of a purge, whose module would be the product of SourceFiling and
MergeQueue.

## 8. Plan

Done, in this order, because a lost vector is the worst thing this server can do:
DrawerStore with its life cycle and proofs, SourceFiling, EmbedWorker,
MergeQueue, ShareHandshake, Billing, then the account side (Metering, Workspace,
TokenServer, Access, SecondFactor), the small documents (Facts, Revisions), then
what the palace makes of text (Chunking, Closets, Journal, Search, DerivedGraph,
GraphWalk, IndexSync), the ways in and out (Tools, Import, WingTransfer,
DataExport), the processes (Server, StdioProxy, Installer, Launcher, SelfUpdate),
and proofs of the safety of all of these but the ones section 5 ends with.

Next theorems, by what they need: `WalkIsNearest` and with it `MemoryTypeOK`, by
induction over the hops as a set of naturals; `InstallsSettle`, from what each step
leaves unchanged when it is repeated; `LoadsAsRecorded`, for which quoting has to be
shown to be undone by splitting.

Next modules: the product of SourceFiling and MergeQueue (relabelling during a
purge), passkeys, and the operator's commands of the server.
