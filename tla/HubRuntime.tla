----------------------------- MODULE HubRuntime -----------------------------
(***************************************************************************)
(* The background hub runtime and the commands that start, stop and repair *)
(* it (src/hub/lifecycle.rs, runtime.rs, status.rs).  They share four      *)
(* files: the state, the health with the last heartbeat, the lock and the  *)
(* stop request.  Every read, write and removal of a file is a step.       *)
(*                                                                         *)
(* A heartbeat is fresh or more than two seconds old.  In a calm run the   *)
(* next command begins when the last one has ended and no runtime is       *)
(* starting, ending or asked to end, a runtime that lives keeps its        *)
(* heartbeat fresh, and a command that waits does not give up on a runtime *)
(* that lives.  A payload that cannot be written leaves what a crash       *)
(* leaves: a lock without payload and no process.                          *)
(***************************************************************************)
EXTENDS Naturals

CONSTANTS HubCommands, HubRuntimes, Nobody,
          MaxEvents        \* bound: commands and crashes from one time that nothing runs to the
                           \* next, in a run that is not calm

VARIABLES hubState,        \* the status in state.json
          health,          \* health.json: its status and whether the heartbeat is fresh
          lock,            \* the lock file: who made it, and whether its payload is there
          stop,            \* the stop request
          at, kind, seen,  \* of a process: where it is, what it runs, what it has read
          evicted,         \* runtimes whose lock somebody else removed
          crashed,         \* in a calm run: a runtime died, and nobody has cleaned up or
                           \* started another since
          calm, events

hubVars == <<hubState, health, lock, stop, at, kind, seen, evicted, crashed, calm, events>>
hubFiles == <<hubState, health, lock, stop>>

NoHealth == [status |-> "none", fresh |-> FALSE]
NoLock == [by |-> Nobody, payload |-> FALSE]
Unread == [state |-> "stopped", health |-> NoHealth]
Processes == HubCommands \cup HubRuntimes

ASSUME HubAssumption == HubCommands \cap HubRuntimes = {} /\ Nobody \notin HubRuntimes

HubInit == /\ hubState = "stopped" /\ health = NoHealth /\ lock = NoLock /\ stop = FALSE
           /\ at = [p \in Processes |-> "off"]
           /\ kind = [p \in Processes |-> IF p \in HubRuntimes THEN "run" ELSE "none"]
           /\ seen = [p \in Processes |-> Unread]
           /\ evicted = {} /\ crashed = FALSE
           /\ calm \in BOOLEAN /\ events = 0

Continue(p, l) == at' = [at EXCEPT ![p] = l]
Quiet == UNCHANGED <<kind, seen, evicted, crashed, calm, events>>
AllOff == \A p \in Processes : at[p] = "off"
Event == /\ calm \/ AllOff \/ events < MaxEvents
         /\ events' = IF calm THEN 0 ELSE IF AllOff THEN 1 ELSE events + 1

\* Runtimes in the loop of run_loop, and runtimes that have a RuntimeLockGuard.
Looping == {r \in HubRuntimes : at[r] \in {"first beat", "announce", "beat", "check", "sleep"}}
Guarded == {r \in HubRuntimes : at[r] \in {"payload", "starting state", "starting health",
                                           "forget stop", "end stop", "end health",
                                           "end state", "drop"}} \cup Looping

LiveStatus(s) == s \in {"starting", "running"}

-----------------------------------------------------------------------------
(* collect_status: the state, the health and the lock are read in turn.     *)

Status(s, h, l) ==
    LET status == IF h.status = "none" THEN s ELSE h.status
    IN  IF l # NoLock /\ ~l.payload THEN "corrupt"
        ELSE IF LiveStatus(status) /\ h.fresh THEN status
        ELSE IF LiveStatus(status) \/ l # NoLock THEN "stale" ELSE "stopped"

ReadState(p) == /\ at[p] = "state"
                /\ seen' = [seen EXCEPT ![p].state = hubState]
                /\ Continue(p, "health")
                /\ UNCHANGED <<hubFiles, kind, evicted, crashed, calm, events>>

ReadHealth(p) == /\ at[p] = "health"
                 /\ seen' = [seen EXCEPT ![p].health = health]
                 /\ Continue(p, "lock")
                 /\ UNCHANGED <<hubFiles, kind, evicted, crashed, calm, events>>

-----------------------------------------------------------------------------
(* The commands.                                                            *)

Begin(c, k) == /\ at[c] = "off"
               /\ calm => /\ \A d \in HubCommands : at[d] = "off"
                          /\ \A r \in HubRuntimes : at[r] # "off" => at[r] = "sleep" /\ ~stop
               /\ Continue(c, "state")
               /\ kind' = [kind EXCEPT ![c] = k]
               /\ Event
               /\ UNCHANGED <<hubFiles, seen, evicted, crashed, calm>>

End(c) == /\ at[c] \in {"ok", "failed"}
          /\ Continue(c, "off")
          /\ kind' = [kind EXCEPT ![c] = "none"]
          /\ UNCHANGED <<hubFiles, seen, evicted, crashed, calm, events>>

\* Up starts over whatever runs.
UpFirstAnyway(s) == IF s = "corrupt" THEN {"failed"} ELSE {"clean stop"}

UpFirst(s) == IF LiveStatus(s) THEN {"ok"} ELSE IF s = "corrupt" THEN {"failed"}
              ELSE IF s = "stale" THEN {"clean stop"} ELSE {"launch"}
UpWait(s) == IF s = "running" THEN {"ok"}
             ELSE IF calm /\ \E r \in HubRuntimes : at[r] # "off" THEN {"state"}
             ELSE {"state", "failed"}
DownFirst(s) == IF LiveStatus(s) THEN {"request"} ELSE IF s = "corrupt" THEN {"failed"}
                ELSE IF s = "stale" THEN {"clean stop"} ELSE {"ok"}
DownWait(s) == IF ~LiveStatus(s) THEN {"ok"} ELSE IF calm THEN {"state"} ELSE {"state", "failed"}
RepairFirst(s) == IF LiveStatus(s) THEN {"failed"} ELSE {"diagnose"}
RunFirst(s) == IF s = "stopped" THEN {"acquire"} ELSE {"off"}

Following(k, s) == CASE k = "up" -> UpFirst(s)
                     [] k = "up wait" -> UpWait(s)
                     [] k = "down" -> DownFirst(s)
                     [] k = "down wait" -> DownWait(s)
                     [] k = "repair" -> RepairFirst(s)
                     [] k = "run" -> RunFirst(s)

\* The lock is read and the caller goes on where the status sends it.
Collected(p) ==
    /\ at[p] = "lock"
    /\ \E l \in Following(kind[p], Status(seen[p].state, seen[p].health, lock)) : Continue(p, l)
    /\ seen' = [seen EXCEPT ![p] = Unread]
    /\ UNCHANGED <<hubFiles, kind, evicted, crashed, calm, events>>

\* Somebody removes the lock file, whoever made it.
RemoveLock(p) == /\ lock' = NoLock
                 /\ evicted' = ((evicted \cup {lock.by}) \cap Guarded) \ {p}

CleanStop(c) == /\ at[c] = "clean stop" /\ stop' = FALSE /\ Continue(c, "clean health")
                /\ UNCHANGED <<hubState, health, lock>> /\ Quiet
CleanHealth(c) == /\ at[c] = "clean health" /\ health' = NoHealth /\ Continue(c, "clean lock")
                  /\ UNCHANGED <<hubState, lock, stop>> /\ Quiet
\* The lock is left to the next start.
CleanLockNot(c) == /\ at[c] = "clean lock" /\ Continue(c, "clean state")
                   /\ UNCHANGED hubFiles /\ Quiet
CleanLock(c) == /\ at[c] = "clean lock" /\ RemoveLock(c) /\ Continue(c, "clean state")
                /\ UNCHANGED <<hubState, health, stop, kind, seen, crashed, calm, events>>
CleanState(c) == /\ at[c] = "clean state" /\ hubState' = "stopped" /\ crashed' = FALSE
                 /\ Continue(c, IF kind[c] = "up" THEN "launch" ELSE "ok")
                 /\ UNCHANGED <<health, lock, stop, kind, seen, evicted, calm, events>>

\* repair_runtime_files archives what it cannot read, then cleans up like mark_stopped.
Diagnose(c) == /\ at[c] = "diagnose"
               /\ Continue(c, IF lock # NoLock /\ ~lock.payload THEN "archive" ELSE "clean stop")
               /\ UNCHANGED hubFiles /\ Quiet
Archive(c) == /\ at[c] = "archive"
              /\ RemoveLock(c)
              /\ Continue(c, IF lock = NoLock THEN "failed" ELSE "clean stop")
              /\ UNCHANGED <<hubState, health, stop, kind, seen, crashed, calm, events>>

Launch(c) == /\ at[c] = "launch" /\ stop' = FALSE /\ Continue(c, "spawn")
             /\ UNCHANGED <<hubState, health, lock>> /\ Quiet

\* The runtime runs in the background and the command waits for it, or it runs in the
\* process of the command.
SpawnRuntime(c) == /\ at[c] = "spawn"
                   /\ \E r \in HubRuntimes :
                         /\ at[r] = "off"
                         /\ \/ /\ at' = [at EXCEPT ![r] = "state", ![c] = "state"]
                               /\ kind' = [kind EXCEPT ![c] = "up wait"]
                            \/ /\ at' = [at EXCEPT ![r] = "state", ![c] = "off"]
                               /\ kind' = [kind EXCEPT ![c] = "none"]
                   /\ crashed' = FALSE
                   /\ UNCHANGED <<hubFiles, seen, evicted, calm, events>>

RequestStop(c) == /\ at[c] = "request" /\ stop' = TRUE /\ Continue(c, "state")
                  /\ kind' = [kind EXCEPT ![c] = "down wait"]
                  /\ UNCHANGED <<hubState, health, lock, seen, evicted, crashed, calm, events>>

\* A file operation or the start of the runtime fails.
Fail(c) == /\ at[c] \in {"clean stop", "clean health", "clean lock", "clean state", "archive",
                         "spawn", "request"}
           /\ Continue(c, "failed")
           /\ UNCHANGED hubFiles /\ Quiet

-----------------------------------------------------------------------------
(* run_loop.                                                                *)

\* acquire_runtime_lock: create_new, ...
Acquire(r) == /\ at[r] = "acquire"
              /\ \/ /\ lock = NoLock
                    /\ lock' = [by |-> r, payload |-> FALSE]
                    /\ Continue(r, "payload")
                 \/ lock # NoLock /\ Continue(r, "off") /\ UNCHANGED lock
              /\ UNCHANGED <<hubState, health, stop>> /\ Quiet

\* ... and the payload, into the file that was made.
Payload(r) == /\ at[r] = "payload"
              /\ lock' = IF lock.by = r THEN [lock EXCEPT !.payload = TRUE] ELSE lock
              /\ Continue(r, "starting state")
              /\ UNCHANGED <<hubState, health, stop>> /\ Quiet

WriteState(r, from, s, to) == /\ at[r] = from /\ hubState' = s /\ Continue(r, to)
                              /\ UNCHANGED <<health, lock, stop>> /\ Quiet
WriteHealth(r, from, s, to) == /\ at[r] = from /\ Continue(r, to)
                               /\ health' = [status |-> s, fresh |-> TRUE]
                               /\ UNCHANGED <<hubState, lock, stop>> /\ Quiet
RemoveStop(r, from, to) == /\ at[r] = from /\ stop' = FALSE /\ Continue(r, to)
                           /\ UNCHANGED <<hubState, health, lock>> /\ Quiet

Starting(r) == \/ WriteState(r, "starting state", "starting", "starting health")
               \/ WriteHealth(r, "starting health", "starting", "forget stop")
               \/ RemoveStop(r, "forget stop", "first beat")

Loop(r) == \/ WriteHealth(r, "first beat", "starting", "announce")
           \/ WriteState(r, "announce", "running", "check")
           \/ WriteHealth(r, "beat", "running", "check")
           \/ /\ at[r] = "check" /\ Continue(r, IF stop THEN "end stop" ELSE "sleep")
              /\ UNCHANGED hubFiles /\ Quiet
           \/ /\ at[r] = "sleep" /\ Continue(r, "beat")
              /\ UNCHANGED hubFiles /\ Quiet

Ending(r) == \/ RemoveStop(r, "end stop", "end health")
             \/ /\ at[r] = "end health" /\ health' = NoHealth /\ Continue(r, "end state")
                /\ UNCHANGED <<hubState, lock, stop>> /\ Quiet
             \/ WriteState(r, "end state", "stopped", "drop")

\* RuntimeLockGuard::drop removes the file, whoever made it.
Drop(r) == /\ at[r] = "drop" /\ RemoveLock(r) /\ Continue(r, "off")
           /\ UNCHANGED <<hubState, health, stop, kind, seen, crashed, calm, events>>

\* A write fails: the guard drops, the files stay.
GiveUp(r) == /\ at[r] \in {"starting state", "starting health", "first beat", "announce",
                           "beat", "end state"}
             /\ Continue(r, "drop") /\ crashed' = calm
             /\ UNCHANGED <<hubFiles, kind, seen, evicted, calm, events>>

-----------------------------------------------------------------------------

Death(p) == /\ at[p] # "off" /\ Continue(p, "off")
            /\ crashed' = (calm /\ (crashed \/ p \in HubRuntimes))
            /\ evicted' = evicted \ {p}
            /\ kind' = [kind EXCEPT ![p] = IF p \in HubRuntimes THEN "run" ELSE "none"]
            /\ seen' = [seen EXCEPT ![p] = Unread]
            /\ Event
            /\ UNCHANGED <<hubFiles, calm>>

\* Two seconds without a heartbeat.
Age == /\ health.fresh
       /\ calm => \A r \in HubRuntimes : at[r] = "off"
       /\ health' = [health EXCEPT !.fresh = FALSE]
       /\ UNCHANGED <<hubState, lock, stop, at>> /\ Quiet

HubCommand(c) ==
    \/ \E k \in {"up", "down", "repair"} : Begin(c, k)
    \/ CleanStop(c) \/ CleanHealth(c) \/ CleanLock(c) \/ CleanState(c)
    \/ Diagnose(c) \/ Archive(c) \/ Launch(c) \/ SpawnRuntime(c) \/ RequestStop(c)
    \/ Fail(c) \/ End(c)

Runtime(r) == \/ Acquire(r) \/ Payload(r) \/ Starting(r) \/ Loop(r)
              \/ Ending(r) \/ Drop(r) \/ GiveUp(r)

HubNext == \/ \E c \in HubCommands : HubCommand(c)
           \/ \E r \in HubRuntimes : Runtime(r)
           \/ \E p \in Processes : ReadState(p) \/ ReadHealth(p) \/ Collected(p) \/ Death(p)
           \/ Age

HubSpec == HubInit /\ [][HubNext]_hubVars

-----------------------------------------------------------------------------
(* Properties.                                                              *)

\* Two runtimes hold the lock at once only after somebody removed the lock of one of them:
\* a cleanup that took it for dead, or a runtime that was itself taken for dead and ended.
\* In a calm run nobody ever does, whatever crashed before, and there is one runtime.
OneRuntime == /\ \A r, q \in Guarded \ evicted : r = q
              /\ calm => evicted = {}

\* What a successful command says is so in a calm run: after up a runtime beats, unless it
\* has just died; after down none does; after a repair nothing is left to clean up.
CommandsTellTheTruth ==
    calm => \A c \in HubCommands : at[c] = "ok" =>
       CASE kind[c] \in {"up", "up wait"} -> Looping # {} \/ crashed
         [] kind[c] \in {"down", "down wait"} -> Looping = {}
         [] kind[c] = "repair" -> Status(hubState, health, lock) = "stopped"
=============================================================================
