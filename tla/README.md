# MCPace in TLA+

MCPace is a local scheduler for MCP servers: AI clients talk to one endpoint, and
MCPace decides for every request which upstream process serves it, who has to wait,
and which requests must never share a process. This directory models the parts of it
where the order of steps matters, checks them with TLC on small instances and proves
the main invariants with TLAPS for all sizes.

Paths below are relative to the repository root (`src/upstream/...`).
`PROJECT.json` maps every definition to the lines it models, lists the runs,
mutants, hazards, findings and theorems, and says for each part of the repository
whether it is modelled.

## The system and its parts

A `tools/call` goes through these parts, in this order:

1. **HTTP endpoint** (`src/dashboard.rs`, `src/dashboard/*`): an accept loop hands
   connections to worker threads; a rate limiter and admission gates bound them.
   `http_session.rs` keeps MCP sessions: handshake, request ids, budgets.
2. **Policy** (`src/execution.rs`, `src/server/loader.rs`,
   `src/upstream/server_config.rs`, `src/server/policy.rs`): every server has an
   execution policy (mode, affinity, workers, calls in flight). Two readers resolve
   it, one for planning and one for running.
3. **Routing plan** (`src/client/plan.rs`): from the policy and the identity of a
   request follow the keys of its worker, its mutex and its capacity group.
4. **Lease queue** (`src/upstream/lease_queue.rs`, `lease_runtime.rs`): callers of
   one process line up per lane before they try the store.
5. **Lease store** (`src/hub/leases.rs`): one JSON file shared by all processes, with
   the leases in force; a lock file makes each command atomic.
6. **The call** (`src/upstream/lease_runtime.rs`, `stdio_runtime.rs`,
   `http_runtime.rs`): under its lease, with a heartbeat thread that renews it.
7. **Worker pool** (`src/upstream/session_pool.rs`): stdio children are checked out,
   called, returned, evicted and purged.
8. **tools/list cache** (`src/upstream/tool_cache.rs`): memory and disk cache with a
   single load in flight.

Around them: the life of the HTTP runtime (`serve.rs`, `restart_guard.rs`) and of the
hub runtime (`hub/lifecycle.rs`, `hub/runtime.rs`), the settings files and the
commands that rewrite them (`mcp_sources/*`, `config_edit.rs`, `setup.rs`),
installation into clients (`client/actions*`), the operating-system service, update,
and read-only reports. `PROJECT.json` lists all of them under `components`.

## Modules

| Module | Models | State and actions |
|---|---|---|
| `LeaseQueue` | lease queue | lanes as reference-counted objects in a registry, tickets, condition variable, poison flag; one action per critical section of `enqueue`, `wait_until_head`, ticket drop, `notify_all_lanes` |
| `FifoLine` | what the queue promises | a bounded line per key; `LeaseQueue` implements it |
| `ExecutionPolicy` | `execution.rs` | pure: presets, overriding blocks, normalization, capacity, affinity keys |
| `RoutePlan` | `client/plan.rs`, route part of `hub/leases.rs` | pure: worker, mutex and process keys, request strategy, blockers |
| `PolicyResolution` | the two readers, `server set-policy` | the settings blocks; actions are edits and `set-policy` |
| `LeaseStore` | lease store | the file, the planned route of each caller, the clock; the seed of a missing file, plan, acquire, renew, release, list, reconfiguration |
| `LeaseLock` | lock file of the store | every file operation of seeding the store and of taking, inspecting, stealing and removing the lock is a step, which may fail; a process may die between any two |
| `UpstreamCall` | a call from the request for a lease to its release | lease, deadlines and heartbeats as countdowns that `Tick` lowers; queueing, verification, start, handshake, requests, termination, join, release, each of which may fail, and crashes; over stdio, a pooled worker or HTTP |
| `SessionPool` | worker pool | groups of workers under the mutex, atomics of a worker outside it; checkout, initialization, call, drop, purge, eviction |
| `ToolCache` | tools/list cache | memory cache and loads in flight per process, shared disk cache |
| `HttpServer` | accept loop and admission | bounded channel, workers, the three gates, the end of the server; composes the two below |
| `RateLimiter` | sliding-window limiter | operators on its table: check, pruning, eviction |
| `OverviewCache` | overview and health caches | build under the mutex, refresh behind a flag, kept failures |
| `HttpSession` | MCP HTTP sessions | sessions with handshake, request ids and their bytes, clock |
| `ServeLifecycle` | `serve start`, `stop`, `restart`, the managed process | OS file lock, start lock file, state file, stop marker, restart guard, copies of the runner; the commands' and the runtimes' own steps, and faults |
| `HubRuntime` | `hub up`, `down`, `repair` and the runtime's loop | state, health, lock and stop files; every read, write and removal of a file is a step, and any process may die before it |
| `SettingsFiles` | add, import, remove, enable, disable, home import, updates of one entry of `mcpace.config.json` or of the project registry | files, lock files, what a command has read and has still to write; one action per lock, read and write, and the seeds of missing files by setup, init and hub commands |
| `ClientConfig` | install, removal and restore of a client's configuration | the file, its lock, the backups with their manifests; one action per file operation |
| `*Proofs` | lemmas and theorems of the modules they extend; `LeaseStoreProofs` has those of `LeaseLock` and `HubRuntime` too, `RequestProofs` those of `UpstreamCall` and of `HttpSession`, `SettingsProofs` those of `PolicyResolution`, `SettingsFiles` and `ClientConfig` | |
| `MC*` | the instances TLC checks | |

How they fit together. `LeaseStore` treats a command as one step, which is what
`LeaseLock` shows (`CommandsAreAtomic`; see finding 1 for its limit), with the seed of a
missing
file, which takes no lock, as an action of its own. `LeaseQueue`
takes the store's answer as an input, and so orders the callers of one runtime;
`UpstreamCall` takes the callers to be of different runtimes, which meet in the
store only. `LeaseStore` plans routes with `RoutePlan`, and `PolicyResolution` shows
which policies can reach it. `SessionPool` takes the policy's worker limit as a
constant per key, which `PoliciesNormal` bounds. `HttpServer` has the limiter and the
caches in its workers; the MCP route is one step there and `HttpSession`'s subject.

Two MC modules hold several instances that share no state; the variable `part`, set
initially, says which of them runs. `MCPolicyResolution` has the policy readers, the
settings commands of one root, those of two roots on shared files, and the client
configuration. Both parts about settings files have the same constants; what differs is
which of the commands run, since all of them together are too many states.
`MCHttpSession` has the HTTP sessions and the hub runtime.

Names of definitions are those of the code where TLA+ allows it. Operators whose
comment describes a fault ("The thread does not look at the stop flag", "Up starts
over whatever runs") are faulty variants of a definition that follows them; nothing uses them in a
specification. They are the `as` of the mutants in `PROJECT.json`: with the variant
in the place of the definition, the named property must fail.

### What is abstracted

- **Time.** `LeaseStore`, `HttpSession` and `HttpServer` have a small integer clock
  (which may also go back where the code reads the wall clock). `ToolCache` has two, the
  monotonic one of the memory cache and the wall clock of the disk cache, which may be
  set to anything. `ServeLifecycle` reads the wall clock in one place, the restart
  guard, and there it may show anything. In `HttpServer` the clock counts from the
  earliest `Instant` that can be represented, since the limiter subtracts from it.
  `UpstreamCall` has countdowns, and a step that the code bounds by some time holds
  `Tick` back until it happened; nothing in the code bounds the start of a child, so
  that whether processes start in time (`swift`) and whether heartbeats are on time
  (`prompt`) are parts of the initial state.
  In `LeaseQueue` and `SessionPool` a deadline may pass at any moment; in `LeaseLock`
  and `HubRuntime` time is only whether a file is older than a limit (30 s, 2 s).
- **Data.** A tool list is where it came from and how long it was in the caches; a
  store version is a number; a
  request id is its key and size; a server in a settings file is on, off or absent; a
  client's configuration is its own part and MCPace's entry; a key or a lane is a
  model value. Hashes of keys are assumed not to collide.
- **Files.** `write_text_atomic` replaces a file in one step (it writes a temporary
  file and renames it); `create_new` is atomic, and what is written into the new file
  comes in a later step.
- **Panics.** Poisoned locks (`LeaseQueue`) and a panic during a call
  (`SessionPool`) happen only in builds that unwind. `Cargo.toml` sets
  `panic = "abort"` for release builds, so these paths belong to dev and test
  builds; the models keep them because the code handles them.
- In `LeaseQueue` one `notify_all_lanes` runs at a time, a panic leaves only the
  poison flag behind, and a call with `queue_timeout_ms = 0` never enters the queue.
- In `LeaseStore` there is one server; keys of two servers never meet.
- In `PolicyResolution` the tokens that the loader's heuristics infer from command,
  URL and hints are an input.
- In `ClientConfig` the client does not rewrite its file within a command, and two
  backups are not begun in the same millisecond, which is their name.
- `ServeLifecycle` is the Linux build; a launch number stands for pid, process
  identity, stop token and the copy of the runner the process runs. A process whose
  copy was removed does not match its record any more (`process_identity.rs:41`).

## Runs

`tlc -config <cfg> <module>`, each within a few minutes on two cores.

| Run | Instance | Shows |
|---|---|---|
| `lease_queue` | 3 callers, 2 keys, 2 lane objects in a registry of 1, depth 2, 3 arrivals, 1 panic | the queue implements the bounded first-come-first-served line of each key through poison repair (`ImplementsFifoLine`), nobody sleeps on its own turn (`SleeperNotServed`), the served ticket has an owner (`ServedTicketHasOwner`), and every call ends, also when no notification ever comes (`EveryCallerLeaves`) |
| `lease_store` | 2 sessions, 3 lease ids, 4 configurations, clock 0..1, lifetimes to 2 | one lease per mutex, capacity, live leases are taken by nobody else (but a late seed may erase them), dead leases stay dead |
| `lease_lock` | 2 processes, 1 may die, any file operation may fail, no store at first | read-modify-write is atomic (`CommandsAreAtomic`) up to late seeds and robbed holders, an abandoned lock is removed and commands are served again |
| `lease_lock_race` | 3 processes, 1 may die | **violation**, finding 1 |
| `session_pool` | 2 callers, 3 worker objects, 2 keys, pool of 2 | one user per worker, nothing in use is swept, no leak, limits, no inherited answer, every call ends |
| `tool_cache` | 2 threads of one process, 2 configurations, clocks 0..2, crashes, the wall clock set | single flight, at most two lifetimes in the caches by their clocks, no list of another configuration, every call ends, also one that waits for a load that fails |
| `upstream_call` | 2 callers, 3 transports, asked and chosen lifetimes, heartbeats on time or processes started in time | a tool call is out only under its caller's live lease (`UseIsLeased`), every call returns |
| `http_server` | 2 workers, 2 clients, channel of 1, gates of 1 or 2 permits, 3 connections, clock from 1 or 2 to 3, window 2 | permits are exactly the holders' on every early return, the limiter's window holds through pruning once the clock has passed its first window, a slow build of a cache never replaces a later one, every accepted connection ends, also when the server returns |
| `http_session` | sessions: 3 ids, store of 2, 3 request ids of 1 or 2 bytes, clock 0..2; hub: 2 commands, 2 runtimes, bursts of 2 events | sessions: no id is handled twice, budgets, only a full store drops a live session; hub: the lock excludes until somebody removes it, which nobody does in a calm run (`OneRuntime`), and there commands tell the truth (`CommandsTellTheTruth`), through crashes |
| `policy_resolution` | policies: 3 defaults, 3 execution and 3 canonical blocks, 2 inferred kinds, 18 identities; files: 2 processes, 7 and 6 commands; client: 2 processes, 2 endpoints, 2 backups | isolation separates, `set-policy` takes effect; no update of a settings file is lost (`NothingLost`) but by a late seed, success means the registry says so (`SuccessIsEffective`), only the home import shadows (`OnlyHomeImportShadows`); a backup one can choose is whole and what install replaces can be brought back (`BackupsRestore`) |
| `serve_lifecycle` | 3 commands, 2 at a time, 1 fault, readings 0..2 of the clock, guard of 1 launch in a window of 1 | the guard bounds launches, a stop that went on left its runtime dead, `start`, `stop` and `restart` leave no runtime unrecorded, every command ends |
| `serve_managed_race` | the same with the managed process, no fault | **violation**, finding 2 |

### Why the bounds are enough to be interesting

- Queue: three callers on a depth of two reach the full lane, a ticket cancelled in
  the middle and at the head; two lane objects for two keys in a registry of one make
  lanes be pruned, freed and allocated again while an old reference is held.
- Store: a pool of two and a pool of one, and a serialized policy, with changes
  between planning and acquiring: a full group, a limit lowered below what is in
  use, two different mutex keys for the same server. A third id allows an acquire
  that meets a full group, takes over, or follows an expiry.
- Lock: two attempts before a caller gives up, and a third process in
  `lease_lock_race` so that two waiters can judge the same abandoned file. Versions
  go round from 3 to 1, beside the blank 0, which tells a write that builds on the
  present version from one that builds on an older or a blank one.
- Pool: limits of one and two in a pool of two: eviction across keys, growth to the
  limit of the key and of the pool. Three worker objects suffice: when a caller
  reserves one it holds none, one more may be discarded and still held by the other
  caller, and fewer than two are registered.
- Cache: `FutureTolerance` of one tick, and a wall clock that is set as often as one
  likes while the settings are the first ones, reach stamps in the tolerated and in
  the refused future, and expiries by either clock; after the settings have changed the
  clocks only advance, which halves the states.
- Call: either processes start in time or heartbeats are on time (`MCSpec`); both
  together allow no behaviour that one alone does not. The chosen lifetime is 6 and
  the asked one 5, which with an interval of 1 and
  a lag, slice and kill time of 1 each leaves just enough room for one failed renewal
  to be noticed; the deadline is long enough for a batch of several requests.
- HTTP server: a channel of one with two workers blocks the accept loop; one tracked
  client of two is evicted; lifetimes of one tick let a build be overtaken. A window of
  two ticks and clocks that start at 1 or 2 give requests in the first window that can
  be represented, requests that straddle its end, and pruning of part of a window.
- Sessions: budgets that two ids nearly fill and that a third exceeds, per session
  and over all sessions.
- Hub: `MaxEvents` limits the commands and crashes from one time that nothing runs to
  the next. Behaviours have any number of such bursts, each starting from whatever
  files the earlier ones left. Calm runs have no such limit.
- Policies: every block exists with a field missing, above the limit, or zero, and
  with a mode that differs from the defaults.
- Files: servers with two possible sources, an import of two names into two files
  (so that it can be interrupted between them), forced and unforced commands, a file
  two roots share, one settings file and one configuration file that are missing at
  first and seeded. `MaxStale` bounds the locks that crashed commands left behind at
  one time, not the number of crashes.
- Client: two backups let a restore choose between a whole and an unfinished one.
- Serve: three commands let a runtime be launched, doubted and replaced while
  another command stops it, also after its copy of the runner was removed. Three
  readings of the clock are inside, at the edge of and outside a window of one.

`MaxArrivals`, `MaxPoisons`, `MaxCrashes`, `MaxTime`, `MaxNow`, `MaxStale`,
`MaxBackups`, `MaxEvents`, `MaxCommands` and `MaxFaults` are bounds of the models and
correspond to nothing in the code. Where `CHECK_DEADLOCK FALSE` is set
(`http_server`, `serve_*`), the server has returned or the commands are used up.

### Fairness

- `LeaseQueue`: weak fairness of each caller's own steps and of its deadline
  passing. Threads are scheduled by the operating system, and `wait_timeout` never
  sleeps past the deadline. No fairness of notifications or of the store's answers.
- `LeaseLock`: weak fairness of each live process's steps; strong fairness of
  seeing that the file exists, inspecting it and removing it: the file may come and
  go while others take the lock, but a process that keeps trying is not always
  scheduled at the wrong moment. Weak fairness of a dead owner's lock growing old,
  which is the passing of time.
- `SessionPool`: weak fairness of each caller; strong fairness of `TimedOut` and
  `DropCheckout`, since the deadline of a wait and the end of a call depend only on
  the clock and on the caller itself, while the mutex they need is free again and
  again.
- `ToolCache`: weak fairness of each thread.
- `UpstreamCall`: time passes, heartbeat threads run, and a call whose step is *due*
  (out of time, told that its lease is lost, or in work that ends by itself) takes it.
  A server need not answer, and the store need neither grant nor fail.
- `HttpServer`: the accept loop and the workers run; no connection need come. Reads
  have a deadline, and builds end.
- `ServeLifecycle`: commands and runtimes run; every wait of a command has a deadline,
  and a runtime's watcher polls the marker.

Liveness of pool and cache is stated for calls that have started, with no fairness
of new calls. `HubRuntime`, `SettingsFiles` and `ClientConfig` have no liveness
property: their loops are counted or they give up at once, so that they end is
plain from the code.

## Proofs

`tlapm <module>` checks each proof module; no step is left without proof. The
constants are arbitrary, under the named assumptions of the module that declares
them (positive limits, finite sets, a null value outside the set it stands beside).
Steps that need arithmetic or records name the SMT solver; all others use the backend
that `USE` sets at the top of the module.

**`LeaseQueueProofs`.** `TypeOK /\ QueueInv` is inductive. `HeadIsOldest` alone is not: it needs that a lane's tickets
are pairwise different and lie between the served and the next ticket (`LaneOK`),
that a caller's lane and ticket agree with where it is (`CallerOK`), that two keys
never share a lane object and that a lane with a waiter is not freed while it is
referenced. From it follow the types (no counter underflows), `HeadIsOldest`,
`SleeperNotServed` and `ServedTicketHasOwner`. The counters need a second invariant
over cardinalities (`CountInv`), from which `WaitingCountsTickets` and
`DepthBounded` follow.

`QueueImplementsLine` is the refinement: under the mapping of `ImplementsFifoLine`
every step of the queue is a step of `FifoLine` or changes nothing in it. The members
of a line are the callers between `enqueue` and the end of their drop, whichever lane
object they hold, so that pruning, freeing and allocating a lane are stuttering steps.
Joining needs `CountInv` (a lane with a place left is a line with a place left, and the
next ticket is larger than all in the line); being let through needs `NobodyAhead`,
which follows from the first invariant also for the caller that repairs a poisoned
lane; leaving needs neither.

**`LeaseStoreProofs`.** Types, `OneLeasePerMutex`, `SessionsMatchLeases` as
invariants, and three action properties: `LiveLeaseKept`, `NoResurrection`,
`CapacityRespected`. Mutual exclusion holds although routes are planned outside the
lock, because the conflict is looked for in the store itself, under the lock; no
assumption on how policies change is needed.

`LiveLeaseKept` names the seed of a missing store as a third way for a live lease to
go, beside release and takeover; `SeedWrites` is not under the lock, so that nothing
else can be said of it.

Of the lock file (`LeaseLock`): types, and `LockExcludes`, for any number of processes,
deaths and failed file operations. The strengthening (`Owned`) says that whoever holds
the lock owns the file and that the file is not stale. It stays true until a waiter
whose inspection is out of date removes the lock of a holder at work, which is finding 1
and what the history variable `robbed` records; it is true again once everybody who was
in the lock then has left it. Outside these times the lock is exclusive and every write
builds on the version last written, except the seeds.

Of the hub runtime (`HubRuntime`): `OneRuntime` and `CommandsTellTheTruth` for any sets of
commands and runtimes; `HubAssumption` says that the two sets are disjoint. `HubInv` has
a part for every run and one for calm runs. `LockOwned`: a runtime whose lock nobody else
removed has it. `CalmInv`: there is at most one command and one runtime, `FilesFollow`
says what the files are where that runtime is, and `Truthful` what a command may rely on
although the runtime goes on between its reads: a runtime that is there at its first
look beats or has just failed (`Looks`), it cleans up and starts a runtime only where
there is none (`Cleans`), a `down` that saw no heartbeat will not see one (`Ends`), and
under an `up` that waits nobody stops the runtime (`Starts`). Each step of the runtime is
checked against what a command may rely on, and each step of a command against where the
runtime may be.

**`RequestProofs`, calls.** `UseIsLeased` and `NothingLeftBehind` for any callers and
any times. The invariant has three parts for each caller. `Shape` is what goes with
where a call is. `Outlasts` is an account of the grace: a lease of the lifetime the
code chooses (timeout plus 5 s) has at least the time to the deadline left, plus
whatever start and termination have not used of their time; it needs no heartbeat at
all, but it needs processes that start in time. `KeptUp` is the account of a shorter
lifetime that was asked for, or of slow starts: between two renewals a lease loses at
most the interval and the lag, and after a failed one the rest (`Roomy`) covers the
slice after which the call looks at the flag and the termination of the process.
`UseIsLeased` states the two conditions (`Covered`) instead of assuming them. The code
bounds the termination (two waits of 2 s and 0.5 s, and on Windows as much again for
`taskkill`, which leaves nothing of the 5 s), and nothing bounds the start. A process
that is still there after both kills is given up, and the call no longer counts as out.
(The specification of `UpstreamCall` is named `CallSpec`, its invariant `CallInv`, since
the module shares its proofs with `HttpSession`.)

**`SettingsProofs`, files.** `NothingLost` for any processes, roots, files and commands.
The invariant (`LocksInv`): a lock file has at most one holder, a writer holds the
locks of all files it has still to write, and its copies of them are what is on disk,
unless the file was seeded since. Seeds take no lock; `late` remembers the commands
that one overtook, and all three properties of the files except those.
The namespace lock of a root is not needed for this, since two roots may share a file
and do not share that lock.

`OnlyHomeImportShadows` and `SuccessIsEffective` rest on the namespace lock. The
invariant (`SourcesInv`) says what a command may rely on between its look at the sources
and its last write: it has the lock of its root from before the look to the end
(`Namespaced`), the files it writes are its targets or sources that have its servers
(`Planned`), nobody else gives a server of that root a source that the look did not see
(`Unrivalled`), what a toggle found is there (`Toggles`), and what has been written stays
until the lock of the file is dropped (`Stays`). The home import is the exception: it decides before it takes the lock. Both
properties are about a root of which no other root's command is pointed at a source
(`Private`), since such a command holds another namespace lock. `FilesAssumption` says
what the constants are: finitely many files, a sequence of sources for each root, and
commands of the known kinds.

**`SettingsProofs`, client configurations.** `BackupsRestore` for any number of processes,
endpoints, contents and backups. The invariant (`ConfigInv`) says that one command at
most works on the file (`OneWorker`), and for that command how its backup stands at each
step (`Prepared`): not whole before the last of the three writes, and by then with the
contents that were read, which are those of the file unless a restore came in between.
Restores take no lock. They are covered by `Restorable`: a restore uses a whole backup,
whole backups never change, and so what a restore put under a command at work can be
restored again. Steps of the command at work touch its own backup only, which is not
whole yet, so they disturb no restore.

**`RequestProofs`, sessions.** `HandledOnce` is made inductive by `Remembered` (what was
answered in a session is among the ids the session keeps) and `Bounded`. From it
the types, `WorkAfterHandshake`, and the action properties `SessionsOnlyGrow` and
`LiveSessionKept`. `BudgetsHold` needs in addition that each session's counter of bytes
is the sum over its ids (`Budgets`). The model states a sum as a number of things, the
bytes of all members (`BytesOf`, `Total`), so that the sum of a set with one more member
is a fact about the cardinality of a disjoint union; a fold over the set would need
induction. The budget over all sessions is kept by an update because the check and
the insertion are one critical section, and by removals because sums only shrink.

**`SettingsProofs`, policies.** `Normalize` maps every policy to a normal one (in particular it
is idempotent); resolving well-formed blocks therefore gives normal policies,
normal policies of isolated modes contain the dimension they isolate by, and worker
keys of two requests that differ in a dimension of the policy differ. The invariant
says that the settings stay well formed and that what `set-policy` wrote stays until
the next edit.

**`SessionPoolProofs`.** `OneUser`, `NoBusyLeak`, `PoolBounded` and `NoStaleAnswer` for
any callers, keys, workers and limits. The invariant (`PoolInv`) relates three things
the code keeps in different places: the groups under the mutex, the atomics of a
worker outside it, and what the callers hold. A caller's worker is busy, whether or
not it is still registered, and is in the group of the caller's key until the caller
discards it; a registered busy worker is held by someone; a worker that goes back has
no answer outstanding unless it has left the pool. `NoBusyLeak` needs the second of these and `OneUser` the first.
The counts of `PoolBounded` rest on two lemmas about the code's filtering of a group
(`retain`): what is left keeps its order and has no duplicates.

**`ToolCacheProofs`.** `SingleFlight`, `AgeBounded` and `AnswerMatchesServer` for any
processes, threads, servers and lifetime. The invariant (`CacheInv`) says where a list
may be and how long it was in the caches: on disk an entry's list is new, in memory it
was on disk for at most one lifetime (it may be the copy of a file), so what is taken
from memory was in the caches for at most two. Each cache counts by its own clock, which
is why setting the wall clock does not break it. A key is marked as in flight exactly while one
thread of the process loads it; a failed load, whose permit is dropped, and a crash
keep that.

**`HttpServerProofs`.** `PermitsMatchHolders`, `RateBounded` and `CachesMoveForward` for
any workers, clients, limits, window and lifetimes. The invariant (`ServerInv`) has a
part for each. `Permits`: a worker that is about to compare and swap has read a counter
with room, and only a step that changes the counter changes the set of workers behind
its gate. `Limiter`: what the limiter remembers of a client is the last part of the
history of requests it let through, and what comes before has left the window or is of
the first window that can be represented; a client that is not tracked has nothing else
left in the window. The history of a client that is
evicted to make room for another starts again, as its count does in the code. `Caches`: a first build has the mutex and there is no value yet,
a refresh has the flag and is the only one, and a build began no earlier than the value
it will replace.

**`ServeLifecycleProofs`.** `GuardBoundsLaunches`, `StopMeansStopped` and
`DirectRuntimeRecorded` for any commands, settings, limits, window and number of faults.
`CommandsOK` says that exactly the holder of `lifecycle.lock` is at a step that needs it,
and what a command knows at each step. On it rest four parts, one for each concern.
`Guarded`: no window of time in which the clock only went forward has too many launches,
and the guard's file still lists every launch that falls into one such window with the
last one. The file is modelled as the
places it lists in the history of launches since it was last cleared, which is where the
limit and the history meet. `Stopping`: whoever waits for the end of a runtime found it
launched and with its copy of the runner in place (a missing copy would make a live
runtime look gone), and a runtime found gone is not launched again. `Managing`: only a runtime of
the service manager removes its own state, and a managed state means that there is one.
`Direct`: without faults and managed runtimes, each live runtime is accounted for, by the
state file (with the settings it was launched with) or, between two steps of the holder
of the lock, by that command (`Accounted`). This part has one case for each step of the
holder; it shows that a `start` that finds other settings never launches beside the old
runtime, and that whoever drops the lock leaves the accounting to the state file alone.

**Induction over data.** The proofs of the pool, the cache and the limiter need that a
set of numbers has a least element (to say that `prune_window` stops at some first
request, or to number the members of a filtered group). `LeastNumber` gets it from the
well-foundedness of `<` in the form for sets; the library's induction theorems, which
take an operator, are not used.

**Only model-checked:** all liveness properties, which are beyond this prover. Every
invariant and every action property that a passing run checks is also proved.

**Proved and not checked by a run:** `HeadIsOldest` (which `ImplementsFifoLine` implies
on the instance), `WaitingCountsTickets`, `DepthBounded`, `SessionsMatchLeases`,
`AtMostOneHolder` of a lock nobody robbed, `WorkAfterHandshake`, `SessionsOnlyGrow`,
`PoliciesNormal`, `NothingLeftBehind`, and the type invariants of these modules. To
have TLC look at one, add it to the cfg of its module. The type invariants of
`SessionPool`, `ToolCache`, `HttpServer` and `ServeLifecycle` are conjuncts of
`PoolBounded`, `SingleFlight`, `PermitsMatchHolders` and `StopMeansStopped`.

## Findings

1. *Stale lock removal* (`lease_lock_race`, `src/hub/leases.rs:797`). Two waiters
   judge the same abandoned lock file stale; the second one's removal deletes the
   lock the first has just created, and both run a store command at once. It takes
   an owner that died, or could not remove its file, and two waiters.
2. *A managed process that does not listen yet* (`serve_managed_race`,
   `src/serve.rs:506`). The managed process records itself and drops the start lock
   before it binds its port; a `start` in that gap judges it by a health probe, forgets
   its record and launches a second runtime. The one that keeps the port may be the
   one that is not recorded, and `stop` and `restart` do not reach it.

### Met while modelling

None of these is the subject of a violation run; the models have them, and the
properties are stated so that they allow them.

Calls and leases:

- A call with `refresh=true` that waited for another thread's load can answer from
  the old cache when that load failed (`src/upstream/tool_cache.rs:197`); the tool's
  description says that it refreshes from the server
  (`src/mcp_server/tool_surface.rs:688`).
- A server known only from the MCP settings is planned with an inferred policy and
  run with the execution defaults (`src/upstream/server_config.rs:232`), while a
  comment speaks of "the one policy" (`src/execution.rs:192`). After
  `server set-policy` the two agree.
- `set-policy --mode serialized` writes affinity `client` (`src/server/policy.rs:294`),
  so calls of two clients run at the same time in two processes, where
  `docs/architecture.md:76` says "One in-flight call at a time".
- HTTP upstream calls do not look at the flag of a lost lease
  (`src/upstream/lease_runtime.rs:396`), which is why `UseIsLeased` covers them for
  the lifetime the code chooses only. A release that fails turns a successful call
  into an error. The stdio child of a runtime that crashed can outlive its lease.
- An empty lease lock, left by a process that died between creating and filling it,
  is never judged stale (`src/hub/leases.rs:791`).
- Ages of sessions and of the disk cache are taken from the wall clock
  (`http_session.rs:263`, `tool_cache.rs:263`), which may go back: an entry on disk may
  then be used for longer than its lifetime. `AgeBounded` counts as the clocks do.
- A store that is missing is seeded before the lock is taken (`hub/leases.rs:688`,
  `hub/runtime.rs:410`). Two first commands may both see no file; the seed of the slower
  one erases a lease that the faster one was granted meanwhile. It takes a new state
  directory, and `LiveLeaseKept` and `CommandsAreAtomic` say that nothing else does it.
- The removal of the lease lock ignores errors (`hub/leases.rs:195`): the file stays
  until it is stale.
- The start of a child is not bounded by the time-out of the call, and on Windows the
  termination may take the whole 5 s that a lease has beyond it
  (`stdio_runtime.rs:818`-`886`); with heartbeats that fail as well, a call may then
  outlive its lease.

Runtimes:

- `start` and the managed process clear the restart guard whenever the recorded
  runtime's probe fails (`src/serve.rs:451`, `:625`); `GuardBoundsLaunches` is stated
  between two clearings. The guard reads the wall clock and drops attempts from the
  future (`restart_guard.rs:91`), so that the bound is about launches between which the
  clock was not set back.
- Before a launch all copies of the runner are removed (`src/serve.rs:635`), those of
  runtimes that still run included: such a runtime no longer matches its record, and
  `stop` refuses it.
- Until the limiter's clock has passed one window since the earliest time it can
  represent, `checked_sub` fails and a request is forgotten at the next one
  (`rate_limit.rs:72`, `:155`, `:160`). How far back an `Instant` reaches is up to the
  platform (at the least, to its boot); `RateBounded` is about later requests.
- A hub runtime between its lock (`hub/runtime.rs:353`) and its first health record
  (`hub/lifecycle.rs:346`), or on its way out, looks stale. Another command in that
  gap removes its lock (`hub/runtime.rs:70`), and two runtimes can be up, for instance
  when two stdio clients initialize at once. The guard's drop removes the lock file
  whoever made it, and a stop request that arrives while the runtime starts is
  forgotten (`hub/lifecycle.rs:358`). `OneRuntime` and `CommandsTellTheTruth` are
  therefore about calm runs, but for the first conjunct of `OneRuntime`, which says
  what is left in the others.

Settings:

- The home import decides (no enabled server, `src/setup.rs:475`) before it takes the
  namespace lock, although `tests/node/main-logic-runtime.test.mjs:137` says "home
  import should collect and decide while the MCP namespace is locked". It does not
  look for other sources of a name, so that a server may be there twice.
- Setup, init and hub commands seed a missing settings file, configuration or project
  registry without its lock (`src/setup.rs:279`, `src/init.rs:333`,
  `hub/runtime.rs:410`), and may so erase what a command has just written.
- Locks of crashed commands stay until the user removes them (`runtimepaths.rs:71`
  says so in its message). An import writes its files one by one, so that a crash
  leaves part of it.
- A restore takes no lock and backs up nothing; `BackupsRestore` says what holds
  when it gets between a command's backup and its write.

## Not modelled

- The stdio MCP server (`mcp_server.rs`): one thread answers one request before it
  reads the next, so nothing in it interleaves. What its requests start is modelled
  where it runs: `UpstreamCall`, `SessionPool`, `ToolCache`, and `HubRuntime` for the
  commands of its initialize.
- The pipe threads of a stdio child and their framing: they carry bytes between two
  ends whose protocol `UpstreamCall` and `SessionPool` model.
- Liveness of a stream of new calls: the pool's eviction loop
  (`session_pool.rs:753`) looks at no deadline and has no bound under endless
  competition.
- HTTP parsing, responses, rendering, catalogs, scoring, discovery heuristics and
  reports: most of the repository's lines. They are data conversion without a
  protocol, and a model of them would be a transliteration.
- Update, uninstall and the operating-system services: sequences of calls to package
  managers and service managers whose behaviour is not in the repository. The Windows
  and macOS supervisors of `serve`, for the same reason.
- `PROJECT.json` gives the reason for every part.
