--------------------------- MODULE ServeLifecycle ---------------------------
(***************************************************************************)
(* The life of the HTTP runtime of one MCPace root, as src/src/serve.rs    *)
(* and src/src/restart_guard.rs run it (Linux build): the commands         *)
(* `start', `stop' and `restart', the managed foreground process that      *)
(* systemd launches, and the runtimes themselves.                          *)
(*                                                                         *)
(* What the processes share is files: lifecycle.lock (an OS file lock that *)
(* the kernel releases when its holder dies), the start lock file, the     *)
(* state file that records the runtime, the stop marker that a runtime's   *)
(* watcher polls for its own token, the restart guard, and the copies of   *)
(* the runner that direct runtimes execute.  The TCP port is the only      *)
(* thing two runtimes exclude each other by.                               *)
(*                                                                         *)
(* A runtime is named by its launch number, which stands for its pid, its  *)
(* process identity, its stop token and its copy.  Logs and the wording of *)
(* reports are left out, and so are failing file writes other than the     *)
(* ones LaunchFails stands for.                                            *)
(***************************************************************************)
EXTENDS Naturals, FiniteSets, Sequences

CONSTANTS Commands,      \* slots for CLI processes running at the same time
          Settings,      \* what a start can ask for: records [port, limits]
          None,          \* no value
          MaxCommands,   \* bound: commands invoked in a behaviour
          MaxFaults,     \* bound: faults (crash, slow probe, reused pid ...)
          MaxTime,       \* bound: readings of the wall clock
          Window,        \* restart_guard: the window
          MaxAttempts    \* restart_guard: launches allowed in a window

ASSUME ServeAssumption ==
  /\ \A s \in Settings : s = [port |-> s.port, limits |-> s.limits]
  /\ {MaxCommands, MaxFaults, MaxTime} \subseteq Nat
  /\ {Window, MaxAttempts} \subseteq Nat \ {0}
  /\ None \notin Commands \cup Settings \cup Nat

VARIABLES cmd,       \* what each command is doing
          flock,     \* the command holding lifecycle.lock
          lockFile,  \* the start lock file
          state,     \* the state file
          marker,    \* the stop marker: the token (runtime) it names
          guard,     \* the restart guard's file: the launches it lists
          copies,    \* the runtimes whose copy of the runner is there
          proc,      \* what each runtime process is doing
          conf,      \* how each runtime was launched
          invoked,   \* commands invoked so far
          faults,    \* faults so far
          launches,  \* times of the launches admitted since the guard was cleared
          stopped    \* history: runtimes some command found stopped

files == <<lockFile, state, marker, guard, copies>>
procs == <<proc, conf>>
hist == <<launches, stopped>>
vars == <<cmd, flock, files, procs, invoked, faults, hist>>

Runtimes == 1 .. MaxCommands
Ops == {"start", "stop", "restart", "managed"}
Steps == {"supervisor", "lock", "lockfile", "decide", "status", "guard",
          "spawn", "record", "health", "undo", "report", "stoplock", "stop",
          "ack", "supstart"}
Idle == [op |-> "none", at |-> "idle", set |-> None, run |-> 0, sup |-> FALSE]
NoState == [pid |-> 0, set |-> None, managed |-> FALSE]

-----------------------------------------------------------------------------
(* Processes, ports and probes.                                            *)

Live(r) == proc[r] \in {"booting", "serving", "closing", "removing"}
LiveRuntimes == {r \in Runtimes : Live(r)}
Serving(port) == \E r \in Runtimes : proc[r] = "serving" /\ conf[r].set.port = port

(* write_state: what a launch records of itself.                           *)
Recorded(r, s, managed) == [pid |-> r, set |-> s, managed |-> managed]

(* state_matches_start_request                                             *)
MatchesRequest(s) == state.set = s

(* match_process on the recorded pid, token and executable: a process      *)
(* whose executable was removed is a mismatch.  The executable of a        *)
(* managed runtime is the installed one, which stays.                      *)
Match(r) == Live(r) /\ (conf[r].managed \/ r \in copies)
Mismatch(r) == proc[r] = "reused" \/ (Live(r) /\ ~Match(r))

Fault == faults < MaxFaults /\ faults' = faults + 1

(* One health probe of a port: a runtime that serves it answers, unless it *)
(* is too slow for the probe's timeout.                                    *)
Probe(port, ok) ==
  \/ ok = Serving(port) /\ UNCHANGED faults
  \/ Serving(port) /\ ~ok /\ Fault

-----------------------------------------------------------------------------
(* Commands.                                                               *)

Goto(c, step) == cmd' = [cmd EXCEPT ![c].at = step]

(* ServeStartLockGuard is dropped: the lock file, then the OS lock.        *)
Unlock == /\ flock' = None
          /\ lockFile' = IF lockFile = "owned" THEN "none" ELSE lockFile

(* The command returns, with or without an error.                          *)
Return(c) == cmd' = [cmd EXCEPT ![c] = Idle] /\ Unlock

(* restart_guard::clear                                                    *)
ClearGuard == guard' = {} /\ launches' = <<>>

(* A recorded runtime that does not answer is forgotten, with its copy and *)
(* the launches.                                                           *)
Forget == state' = NoState /\ copies' = copies \ {state.pid} /\ ClearGuard

(* A user types a command, or systemd starts its unit (at login, or again  *)
(* after a failure); the unit has at most one main process.                *)
ManagedUp == \/ \E c \in Commands : cmd[c].op = "managed"
             \/ \E r \in LiveRuntimes : conf[r].managed

(* run_restart: the unit is active and the settings stay the same.         *)
RestartWithSupervisor(s) == ManagedUp /\ MatchesRequest(s)

Invoke(c, op, s) ==
  /\ cmd[c] = Idle /\ invoked < MaxCommands
  /\ op = "managed" => ~ManagedUp
  /\ cmd' = [cmd EXCEPT ![c] =
       [op |-> op, set |-> IF op = "stop" THEN None ELSE s, run |-> 0,
        at |-> IF op \in {"stop", "restart"} THEN "supervisor" ELSE "lock",
        sup |-> op = "restart" /\ RestartWithSupervisor(s)]]
  /\ invoked' = invoked + 1
  /\ UNCHANGED <<flock, files, procs, faults, hist>>

(* request_agent_supervisor_stop: `systemctl stop' when the recorded       *)
(* runtime is a managed one.  It ends the unit's main process, whichever   *)
(* that is by now.                                                         *)
SupervisorStop(c) ==
  /\ cmd[c].at = "supervisor"
  /\ \/ /\ state.managed
        /\ LET victims == {d \in Commands : cmd[d].op = "managed"}
           IN  /\ cmd' = [d \in Commands |->
                    CASE d \in victims -> Idle
                      [] d = c -> [cmd[d] EXCEPT !.at = "stoplock"]
                      [] OTHER -> cmd[d]]
               /\ flock' = IF flock \in victims THEN None ELSE flock
               /\ lockFile' = IF flock \in victims /\ lockFile = "owned"
                              THEN "stale" ELSE lockFile
        /\ proc' = [r \in Runtimes |->
                      IF Live(r) /\ conf[r].managed THEN "dead" ELSE proc[r]]
     \/ /\ ~state.managed
        /\ Goto(c, "stoplock")
        /\ UNCHANGED <<flock, lockFile, proc>>
  /\ UNCHANGED <<state, marker, guard, copies, conf, invoked, faults, hist>>

(* `systemctl stop' fails: the command returns its error.                  *)
SupervisorStopFails(c) ==
  /\ cmd[c].at = "supervisor" /\ state.managed /\ Fault
  /\ cmd' = [cmd EXCEPT ![c] = Idle]
  /\ UNCHANGED <<flock, files, procs, invoked, hist>>

(* acquire_lifecycle_coordination                                          *)
TakeLock(c) ==
  /\ cmd[c].at \in {"lock", "stoplock"} /\ flock = None
  /\ flock' = c
  /\ Goto(c, IF cmd[c].at = "lock" THEN "lockfile" ELSE "stop")
  /\ UNCHANGED <<files, procs, invoked, faults, hist>>

(* Mutant of TakeLockFile: a lock file that does not parse is waited for.  *)
TakeLockFileWaits(c) ==
  /\ cmd[c].at = "lockfile" /\ lockFile # "malformed"
  /\ lockFile' = "owned"
  /\ Goto(c, "decide")
  /\ UNCHANGED <<flock, state, marker, guard, copies, procs, invoked, faults, hist>>

(* acquire_serve_start_lock: create_new, after reclaiming a lock file of a *)
(* dead owner, or one that does not parse and is 30 s old; a younger one   *)
(* makes the command fail.  The owner named by the file is never alive     *)
(* here: it would hold lifecycle.lock.                                     *)
TakeLockFile(c) ==
  /\ cmd[c].at = "lockfile"
  /\ \/ /\ lockFile' = "owned"
        /\ Goto(c, "decide")
        /\ UNCHANGED flock
     \/ /\ lockFile = "malformed"
        /\ Return(c)
  /\ UNCHANGED <<state, marker, guard, copies, procs, invoked, faults, hist>>

(* start: drop the marker, then act on the recorded runtime, which is      *)
(* forgotten when its port does not answer.                                *)
Decide(c) ==
  /\ cmd[c].at = "decide" /\ cmd[c].op = "start"
  /\ marker' = None
  /\ \/ state = NoState /\ Goto(c, "status") /\ UNCHANGED <<state, guard, copies, launches, faults>>
     \/ /\ state # NoState
        /\ \E ok \in BOOLEAN :
             /\ Probe(state.set.port, ok)
             /\ IF ok
                THEN /\ Goto(c, IF MatchesRequest(cmd[c].set) THEN "status" ELSE "stop")
                     /\ UNCHANGED <<state, guard, copies, launches>>
                ELSE Forget /\ Goto(c, "status")
  /\ UNCHANGED <<flock, lockFile, procs, invoked, stopped>>

(* The managed process decides: a healthy runtime is left alone.           *)
ManagedDecide(c) ==
  /\ cmd[c].at = "decide" /\ cmd[c].op = "managed"
  /\ \/ /\ state = NoState
        /\ Goto(c, "guard")
        /\ UNCHANGED <<flock, lockFile, state, guard, copies, launches, faults>>
     \/ /\ state # NoState
        /\ \E ok \in BOOLEAN :
             /\ Probe(state.set.port, ok)
             /\ IF ok THEN Return(c) /\ UNCHANGED <<state, guard, copies, launches>>
                ELSE Forget /\ Goto(c, "guard") /\ UNCHANGED <<flock, lockFile>>
  /\ UNCHANGED <<marker, procs, invoked, stopped>>

(* collect_status: the asked port answers and the recorded process is the  *)
(* one that was launched.                                                  *)
Running(endpoint_healthy) == endpoint_healthy /\ state # NoState /\ Match(state.pid)

(* The status before a launch.  Unless the runtime is running, all copies  *)
(* of the runner are removed, whoever runs them.                           *)
CheckStatus(c) ==
  /\ cmd[c].at = "status"
  /\ \E ok \in BOOLEAN :
       /\ Probe(cmd[c].set.port, ok)
       /\ IF Running(ok) THEN Return(c) /\ UNCHANGED copies
          ELSE Goto(c, "guard") /\ copies' = {} /\ UNCHANGED <<flock, lockFile>>
  /\ UNCHANGED <<state, marker, guard, procs, invoked, hist>>

(* Mutant of Recent: an attempt at the very edge of the window is dropped. *)
RecentDropsEdge(now) == {i \in guard : launches[i] + Window > now /\ launches[i] <= now}

(* restart_guard::check_and_record.  An attempt that the file lists is     *)
(* named by its place in launches, where its time is found.  The wall      *)
(* clock may have been set since: it may read anything.                    *)
Recent(now) == {i \in guard : launches[i] + Window >= now /\ launches[i] <= now}

CheckAndRecord(c) ==
  /\ cmd[c].at = "guard"
  /\ \E now \in 0 .. MaxTime :
       \/ /\ Cardinality(Recent(now)) >= MaxAttempts
          /\ Return(c)
          /\ UNCHANGED <<guard, launches>>
       \/ /\ Cardinality(Recent(now)) < MaxAttempts
          /\ guard' = Recent(now) \cup {Len(launches) + 1}
          /\ launches' = Append(launches, now)
          /\ Goto(c, "spawn")
          /\ UNCHANGED <<flock, lockFile>>
  /\ UNCHANGED <<state, marker, copies, procs, invoked, faults, stopped>>

(* Launches are numbered in the order they are made.                       *)
NextRuntime(r) == proc[r] = "none" /\ \A q \in Runtimes : q < r => proc[q] # "none"

(* The copy of the runner, its logs or the spawn fails; for the managed    *)
(* process its own identity, token or state file.                          *)
LaunchFails(c) ==
  /\ cmd[c].at = "spawn" /\ Fault
  /\ Return(c)
  /\ UNCHANGED <<state, marker, guard, copies, procs, invoked, hist>>

(* spawn_background, with a copy of the runner for this launch             *)
Spawn(c) ==
  /\ cmd[c].at = "spawn" /\ cmd[c].op = "start"
  /\ \E r \in Runtimes :
       /\ NextRuntime(r)
       /\ proc' = [proc EXCEPT ![r] = "booting"]
       /\ conf' = [conf EXCEPT ![r] = [set |-> cmd[c].set, managed |-> FALSE]]
       /\ copies' = copies \cup {r}
       /\ cmd' = [cmd EXCEPT ![c].run = r, ![c].at = "record"]
  /\ UNCHANGED <<flock, lockFile, state, marker, guard, invoked, faults, hist>>

(* The managed process becomes the runtime: it records itself, drops the   *)
(* marker, starts its watcher and gives the locks back before it listens.  *)
BecomeRuntime(c) ==
  /\ cmd[c].at = "spawn" /\ cmd[c].op = "managed"
  /\ \E r \in Runtimes :
       /\ NextRuntime(r)
       /\ proc' = [proc EXCEPT ![r] = "booting"]
       /\ conf' = [conf EXCEPT ![r] = [set |-> cmd[c].set, managed |-> TRUE]]
       /\ state' = Recorded(r, cmd[c].set, TRUE)
  /\ marker' = None
  /\ Return(c)
  /\ UNCHANGED <<guard, copies, invoked, faults, hist>>

(* The child's identity is captured and the state written; a child that is *)
(* gone already has no identity, and the command fails.                    *)
Record(c) ==
  /\ cmd[c].at = "record"
  /\ \/ /\ Live(cmd[c].run)
        /\ state' = Recorded(cmd[c].run, cmd[c].set, FALSE)
        /\ Goto(c, "health")
        /\ UNCHANGED <<flock, lockFile, marker, copies>>
     \/ /\ ~Live(cmd[c].run)
        /\ marker' = None /\ copies' = copies \ {cmd[c].run}
        /\ Return(c)
        /\ UNCHANGED state
  /\ UNCHANGED <<guard, procs, invoked, faults, hist>>

(* wait_for_health: the port answers, or the last attempt found it silent  *)
(* and the child is asked to stop.                                         *)
WaitForHealth(c) ==
  /\ cmd[c].at = "health"
  /\ \E ok \in BOOLEAN :
       /\ Probe(cmd[c].set.port, ok)
       /\ Goto(c, IF ok THEN "report" ELSE "undo")
       /\ marker' = IF ok THEN marker ELSE cmd[c].run
  /\ UNCHANGED <<flock, lockFile, state, guard, copies, procs, invoked, hist>>

(* Mutant of UndoLaunch: the child is not waited for.                      *)
UndoLaunchAtOnce(c) ==
  /\ cmd[c].at = "undo"
  /\ marker' = None /\ state' = NoState /\ copies' = copies \ {cmd[c].run}
  /\ Return(c)
  /\ UNCHANGED <<guard, procs, invoked, faults, hist>>

(* request_cooperative_serve_stop is over (the process is gone, or 5 s     *)
(* have passed without an answer: a fault), and the launch is undone.      *)
UndoLaunch(c) ==
  /\ cmd[c].at = "undo"
  /\ IF Match(cmd[c].run) THEN Fault ELSE UNCHANGED faults
  /\ marker' = None /\ state' = NoState /\ copies' = copies \ {cmd[c].run}
  /\ Return(c)
  /\ UNCHANGED <<guard, procs, invoked, hist>>

(* The status is collected and reported, whatever it says.                 *)
Report(c) ==
  /\ cmd[c].at = "report"
  /\ Return(c)
  /\ UNCHANGED <<state, marker, guard, copies, procs, invoked, faults, hist>>

(* What follows stop_existing_serve, in start, stop and restart.           *)
AfterStop(c) ==
  CASE cmd[c].op = "start" -> Goto(c, "status") /\ UNCHANGED <<flock, lockFile>>
    [] cmd[c].op = "stop" -> Return(c)
    [] cmd[c].op = "restart" /\ cmd[c].sup -> Goto(c, "supstart") /\ Unlock
    [] cmd[c].op = "restart" /\ ~cmd[c].sup ->
         cmd' = [cmd EXCEPT ![c].op = "start", ![c].at = "lock"] /\ Unlock

(* stop_existing_serve_locked, up to the request for a live runtime.       *)
Stop(c) ==
  /\ cmd[c].at = "stop"
  /\ \/ /\ state # NoState /\ Match(state.pid)
        /\ marker' = state.pid
        /\ cmd' = [cmd EXCEPT ![c].at = "ack", ![c].run = state.pid]
        /\ UNCHANGED <<flock, lockFile, state, guard, copies, launches>>
     \/ /\ state # NoState /\ Mismatch(state.pid)
        /\ Return(c)
        /\ UNCHANGED <<state, marker, guard, copies, launches>>
     \/ /\ state.pid \in {0} \cup {r \in Runtimes : proc[r] = "dead"}
        /\ ClearGuard /\ state' = NoState /\ copies' = {}
        /\ AfterStop(c)
        /\ UNCHANGED marker
  /\ UNCHANGED <<procs, invoked, faults, stopped>>

(* Mutant of StopAcknowledged: the marker is written and nobody waits.     *)
StopAssumed(c) ==
  /\ cmd[c].at = "ack"
  /\ marker' = None /\ state' = NoState /\ copies' = {} /\ ClearGuard
  /\ stopped' = stopped \cup {cmd[c].run}
  /\ AfterStop(c)
  /\ UNCHANGED <<procs, invoked, faults>>

(* request_cooperative_serve_stop: the process is gone, or no longer a     *)
(* match ...                                                               *)
StopAcknowledged(c) ==
  /\ cmd[c].at = "ack" /\ ~Match(cmd[c].run)
  /\ marker' = None /\ state' = NoState /\ copies' = {} /\ ClearGuard
  /\ stopped' = stopped \cup {cmd[c].run}
  /\ AfterStop(c)
  /\ UNCHANGED <<procs, invoked, faults>>

(* ... or it has not answered for 5 s, and the command fails.              *)
StopTimesOut(c) ==
  /\ cmd[c].at = "ack" /\ Match(cmd[c].run) /\ Fault
  /\ marker' = None
  /\ Return(c)
  /\ UNCHANGED <<state, guard, copies, procs, invoked, hist>>

(* restart of a managed runtime: `systemctl start'.  The command then only *)
(* waits for the port and reports, so that its slot stands for the unit's  *)
(* new process.                                                            *)
SupervisorStart(c) ==
  /\ cmd[c].at = "supstart"
  /\ cmd' = [cmd EXCEPT ![c] =
       IF ManagedUp THEN Idle
       ELSE [Idle EXCEPT !.op = "managed", !.at = "lock", !.set = cmd[c].set]]
  /\ UNCHANGED <<flock, files, procs, invoked, faults, hist>>

(* A command is killed: the kernel gives lifecycle.lock back, the files    *)
(* stay as they are, a start lock file possibly half written.              *)
KillCommand(c) ==
  /\ cmd[c] # Idle /\ Fault
  /\ cmd' = [cmd EXCEPT ![c] = Idle]
  /\ flock' = IF flock = c THEN None ELSE flock
  /\ lockFile' \in CASE cmd[c].at = "lockfile" -> {lockFile, "malformed"}
                     [] flock = c /\ lockFile = "owned" -> {"stale"}
                     [] OTHER -> {lockFile}
  /\ UNCHANGED <<state, marker, guard, copies, procs, invoked, hist>>

-----------------------------------------------------------------------------
(* Runtimes.                                                               *)

(* dashboard::run_serve binds its port, or fails and returns.              *)
Bind(r) ==
  /\ proc[r] = "booting"
  /\ proc' = [proc EXCEPT ![r] = CASE ~Serving(conf[r].set.port) -> "serving"
                                   [] conf[r].managed -> "closing"
                                   [] OTHER -> "dead"]
  /\ UNCHANGED <<cmd, flock, files, conf, invoked, faults, hist>>

(* start_stop_watcher: the marker holds the runtime's own token.           *)
ObeyMarker(r) ==
  /\ Live(r) /\ marker = r
  /\ marker' = None
  /\ proc' = [proc EXCEPT ![r] = "dead"]
  /\ UNCHANGED <<cmd, flock, lockFile, state, guard, copies, conf, invoked, faults, hist>>

(* The runtime is killed, or its accept loop ends and run_serve returns.   *)
Die(r) ==
  /\ Live(r) /\ Fault
  /\ \/ proc' = [proc EXCEPT ![r] = "dead"]
     \/ /\ proc[r] = "serving" /\ conf[r].managed
        /\ proc' = [proc EXCEPT ![r] = "closing"]
  /\ UNCHANGED <<cmd, flock, files, conf, invoked, hist>>

(* remove_state_if_current_pid, on the way out of a managed runtime: the   *)
(* state is read, and removed when it named this process.  No lock is      *)
(* held.                                                                   *)
ReadOwnState(r) ==
  /\ proc[r] = "closing"
  /\ proc' = [proc EXCEPT ![r] = IF state.pid = r THEN "removing" ELSE "dead"]
  /\ UNCHANGED <<cmd, flock, files, conf, invoked, faults, hist>>

RemoveOwnState(r) ==
  /\ proc[r] = "removing"
  /\ state' = NoState
  /\ proc' = [proc EXCEPT ![r] = "dead"]
  /\ UNCHANGED <<cmd, flock, lockFile, marker, guard, copies, conf, invoked, faults, hist>>

(* The kernel gives the pid of a dead runtime to another program.          *)
ReusePid(r) ==
  /\ proc[r] = "dead" /\ state.pid = r /\ Fault
  /\ proc' = [proc EXCEPT ![r] = "reused"]
  /\ UNCHANGED <<cmd, flock, files, conf, invoked, hist>>

-----------------------------------------------------------------------------
Init ==
  /\ cmd = [c \in Commands |-> Idle]
  /\ flock = None /\ lockFile = "none"
  /\ state = NoState /\ marker = None /\ guard = {} /\ copies = {}
  /\ proc = [r \in Runtimes |-> "none"]
  /\ conf = [r \in Runtimes |-> [set |-> None, managed |-> FALSE]]
  /\ invoked = 0 /\ faults = 0
  /\ launches = <<>> /\ stopped = {}

CommandStep(c) ==
  \/ SupervisorStop(c) \/ TakeLock(c) \/ TakeLockFile(c)
  \/ Decide(c) \/ ManagedDecide(c) \/ CheckStatus(c) \/ CheckAndRecord(c)
  \/ Spawn(c) \/ BecomeRuntime(c) \/ Record(c) \/ WaitForHealth(c)
  \/ UndoLaunch(c) \/ Report(c) \/ Stop(c) \/ StopAcknowledged(c)
  \/ SupervisorStart(c)

CommandFault(c) ==
  \/ SupervisorStopFails(c) \/ LaunchFails(c) \/ StopTimesOut(c) \/ KillCommand(c)

RuntimeStep(r) == Bind(r) \/ ObeyMarker(r) \/ ReadOwnState(r) \/ RemoveOwnState(r)
RuntimeFault(r) == Die(r) \/ ReusePid(r)

Next ==
  \/ \E c \in Commands, op \in Ops, s \in Settings : Invoke(c, op, s)
  \/ \E c \in Commands : CommandStep(c) \/ CommandFault(c)
  \/ \E r \in Runtimes : RuntimeStep(r) \/ RuntimeFault(r)

Spec == Init /\ [][Next]_vars

(* A running command and a running runtime keep running: every wait of a   *)
(* command has a deadline, and a watcher polls the marker every 50 ms.     *)
FairSpec == /\ Spec
            /\ \A c \in Commands : WF_vars(CommandStep(c))
            /\ \A r \in Runtimes : WF_vars(RuntimeStep(r))

-----------------------------------------------------------------------------
(* The shape of the state.                                                 *)
TypeOK ==
  /\ cmd \in [Commands -> {Idle} \cup
       [op : Ops, at : Steps, set : Settings \cup {None},
        run : Runtimes \cup {0}, sup : BOOLEAN]]
  /\ flock \in Commands \cup {None}
  /\ lockFile \in {"none", "owned", "stale", "malformed"}
  /\ state \in {NoState} \cup [pid : Runtimes, set : Settings, managed : BOOLEAN]
  /\ marker \in Runtimes \cup {None}
  /\ launches \in Seq(0 .. MaxTime) /\ guard \subseteq DOMAIN launches
  /\ proc \in [Runtimes -> {"none", "booting", "serving", "closing", "removing",
                             "dead", "reused"}]
  /\ conf \in [Runtimes -> [set : Settings \cup {None}, managed : BOOLEAN]]
  /\ copies \subseteq Runtimes /\ invoked \in 0 .. MaxCommands
  /\ faults \in 0 .. MaxFaults /\ stopped \subseteq Runtimes

\* The launches from the i-th to the j-th fall into one window, on a clock that did not go
\* back between them.
Burst(i, j) == /\ \A k, m \in i .. j : k <= m => launches[k] <= launches[m]
               /\ launches[j] <= launches[i] + Window

(* The restart guard does its work across processes, crashes and pruning:  *)
(* between two clearings of its file, no window of time holds more launches *)
(* in a row than its limit, wherever the wall clock was set before and     *)
(* after them (restart_guard.rs, check_and_record).                        *)
GuardBoundsLaunches ==
  \A i, j \in DOMAIN launches : i <= j /\ Burst(i, j) => j - i < MaxAttempts

(* A command that went on after asking the recorded runtime to stop went   *)
(* on with that runtime gone, however slow the runtime, and whatever became *)
(* of the marker in between (request_cooperative_serve_stop).  The state   *)
(* has its type.                                                           *)
StopMeansStopped == TypeOK /\ \A r \in stopped : ~Live(r)

\* The service manager has launched no runtime.
OnlyDirect == \A r \in Runtimes : ~conf[r].managed

(* As long as the service manager has launched no runtime and nothing has  *)
(* failed, the state file names every runtime that is alive whenever no    *)
(* command holds the lock, in whatever order starts, stops and restarts    *)
(* run: none is a duplicate, none is out of reach of stop (run_start_impl, *)
(* stop_existing_serve_locked).                                            *)
DirectRuntimeRecorded ==
  faults = 0 /\ OnlyDirect /\ flock = None => LiveRuntimes \subseteq {state.pid}

(* The same with the service manager: what `start' owning the serve-state  *)
(* lock while it decides is for.                                           *)
RuntimeRecorded ==
  faults = 0 /\ flock = None => LiveRuntimes \subseteq {state.pid}

(* Every command ends, whatever crashes around it and whatever a crash     *)
(* left behind in the lock file, the state file and the marker.            *)
EveryCommandEnds == \A c \in Commands : []<>(cmd[c] = Idle)

=============================================================================
