-------------------------- MODULE LeaseStoreProofs -------------------------
(***************************************************************************)
(* Proofs about what the processes of the hub share: the files of the hub  *)
(* runtime, for any sets of commands and runtimes that satisfy             *)
(* HubAssumption; the lease store, for any callers, ids, configurations,   *)
(* lifetimes and clock; and the lock file around the store, for any number *)
(* of processes.                                                           *)
(***************************************************************************)
EXTENDS LeaseStore, LeaseLock, HubRuntime, FiniteSetTheorems, TLAPS

\* The backend of every step that names no other.
USE ZenonT(30)

-----------------------------------------------------------------------------
(* The hub runtime.  That only one runtime holds the lock unless a lock was *)
(* removed under its owner holds in every run.  That nobody does so, and    *)
(* that commands tell the truth, is about calm runs: one command and one    *)
(* runtime at a time, where what each of the two has read or is about to do *)
(* limits where the other may be.                                           *)

Reads == {"state", "health", "lock"}
Cleaning == {"diagnose", "archive", "clean stop", "clean health", "clean lock", "clean state"}
StartSteps == Reads \cup {"acquire", "payload", "starting state", "starting health", "forget stop"}
LoopSteps == {"first beat", "announce", "beat", "check", "sleep"}
EndSteps == {"end stop", "end health", "end state"}

CommandSteps == {"off", "launch", "spawn", "request", "ok", "failed"} \cup Reads \cup Cleaning
RuntimeSteps == {"off", "drop"} \cup StartSteps \cup LoopSteps \cup EndSteps

HealthFile == {NoHealth} \cup [status : {"starting", "running"}, fresh : BOOLEAN]
HubLocks == {NoLock} \cup [by : HubRuntimes, payload : BOOLEAN]
Seen == [state : {"stopped", "starting", "running"}, health : HealthFile]

NoRuntime == \A r \in HubRuntimes : at[r] = "off"
Clean == hubState = "stopped" /\ health = NoHealth /\ lock = NoLock
Beats(h) == h.fresh /\ LiveStatus(h.status)

\* What a command is doing fits the command.
Consistent(c) ==
    /\ at[c] \in CommandSteps
    /\ kind[c] \in {"none", "up", "up wait", "down", "down wait", "repair"}
    /\ (at[c] = "off") = (kind[c] = "none")
    /\ at[c] \in Cleaning => kind[c] \in {"up", "down", "repair"}
    /\ at[c] \in {"launch", "spawn"} => kind[c] = "up"
    /\ at[c] = "request" => kind[c] = "down"

\* What holds of each process wherever it is.
InPlace(p) ==
    /\ p \in HubRuntimes => at[p] \in RuntimeSteps /\ kind[p] = "run"
    /\ p \in HubCommands => Consistent(p)
    /\ seen[p] \in Seen
    /\ at[p] \notin {"health", "lock"} => seen[p] = Unread

FileTypes == /\ hubState \in {"stopped", "starting", "running"} /\ health \in HealthFile
             /\ lock \in HubLocks /\ stop \in BOOLEAN
             /\ crashed \in BOOLEAN /\ calm \in BOOLEAN

HubTypes == /\ FileTypes /\ \A p \in Processes : InPlace(p)
            /\ at = [p \in Processes |-> at[p]] /\ kind = [p \in Processes |-> kind[p]]
            /\ seen = [p \in Processes |-> seen[p]]

\* A runtime whose lock nobody else removed has it.
LockOwned == evicted \subseteq Guarded /\ \A r \in Guarded \ evicted : lock.by = r

\* In a calm run: what the files say where a runtime is.
FilesFollow(r) ==
    /\ at[r] \in Reads \cup {"acquire"} => Clean /\ seen[r] = Unread
    /\ at[r] \in {"payload", "starting state", "starting health"} => health = NoHealth
    /\ r \in Guarded /\ at[r] # "payload" => lock.payload
    /\ at[r] \in {"forget stop"} \cup LoopSteps => Beats(health)
    /\ at[r] = "forget stop" => health.status = "starting"
    /\ at[r] \in {"check", "sleep", "beat"} => hubState = "running"
    /\ at[r] \in {"end state", "drop"} /\ ~crashed => health = NoHealth

\* A command that looks for the first time: a runtime that is there beats, or has just
\* failed; without one the files are not about to change.
Looks(c) ==
    kind[c] \in {"up", "down", "repair"} /\ at[c] \in Reads =>
       /\ \A r \in HubRuntimes : at[r] # "off" =>
             /\ at[r] \in {"sleep", "beat", "check", "drop"} /\ (at[r] = "drop" => crashed)
             /\ ~stop /\ hubState = "running" /\ Beats(health)
       /\ at[c] # "state" => seen[c].state = hubState
       /\ at[c] = "lock" => /\ (seen[c].health = NoHealth) = (health = NoHealth)
                            /\ ~Beats(seen[c].health) => NoRuntime

\* A command that cleans up or starts a runtime does so where there is none.
Cleans(c) ==
    /\ at[c] \in {"launch", "spawn"} \cup Cleaning => NoRuntime
    /\ at[c] \in {"clean lock", "clean state"} => health = NoHealth
    /\ at[c] = "clean state" => lock = NoLock
    /\ at[c] \in {"launch", "spawn"} => Clean
    /\ at[c] = "spawn" => ~stop
    /\ kind[c] = "repair" /\ at[c] = "ok" => Clean /\ NoRuntime

\* No runtime starts under a command that stops one, and what it saw to be without a
\* heartbeat does not get one.
Ends(c) ==
    kind[c] \in {"down", "down wait"} =>
       /\ \A r \in HubRuntimes : at[r] \notin StartSteps
       /\ kind[c] = "down wait" /\ at[c] = "lock" /\ ~Beats(seen[c].health) => Looping = {}
       /\ at[c] = "ok" => Looping = {}

\* No runtime is stopped under a command that waits for one.
Starts(c) ==
    kind[c] = "up wait" \/ (kind[c] = "up" /\ at[c] = "ok") =>
       /\ \A r \in HubRuntimes : at[r] # "off" => ~stop /\ at[r] \notin EndSteps
       /\ ~crashed => \E r \in HubRuntimes : at[r] \notin {"off", "drop"}
       /\ ~crashed /\ at[c] = "lock" /\ seen[c].health.status = "running" => Looping # {}
       /\ ~crashed /\ at[c] = "ok" => Looping # {}

Truthful(c) == Looks(c) /\ Cleans(c) /\ Ends(c) /\ Starts(c)

CalmInv ==
    /\ evicted = {}
    /\ NoRuntime /\ ~crashed => health = NoHealth
    /\ \A r, q \in HubRuntimes : at[r] # "off" /\ at[q] # "off" => r = q
    /\ \A c, d \in HubCommands : at[c] # "off" /\ at[d] # "off" => c = d
    /\ \A r \in HubRuntimes : FilesFollow(r)
    /\ \A c \in HubCommands : Truthful(c)

HubInv == HubTypes /\ LockOwned /\ (calm => CalmInv)

\* One process moves and the others stay where they are.
LEMMA OneMoves ==
    ASSUME HubTypes, NEW p \in Processes, NEW l, NEW k, NEW s, FileTypes',
           at' = [at EXCEPT ![p] = l], kind' = [kind EXCEPT ![p] = k],
           seen' = [seen EXCEPT ![p] = s], InPlace(p)'
    PROVE  HubTypes'
<1>1. \A q \in Processes \ {p} : at'[q] = at[q] /\ kind'[q] = kind[q] /\ seen'[q] = seen[q]
  BY DEF HubTypes
<1>2. ASSUME NEW q \in Processes \ {p} PROVE InPlace(q)'
  <2>1. InPlace(q) /\ at'[q] = at[q] /\ kind'[q] = kind[q] /\ seen'[q] = seen[q]
    BY <1>1 DEF HubTypes
  <2> QED BY <2>1 DEF InPlace, Consistent
<1>3. /\ at' = [q \in Processes |-> at'[q]] /\ kind' = [q \in Processes |-> kind'[q]]
      /\ seen' = [q \in Processes |-> seen'[q]]
  BY DEF HubTypes
<1> QED BY <1>2, <1>3 DEF HubTypes

\* It moves, and has the same command and has read the same.
LEMMA OneContinues ==
    ASSUME HubTypes, NEW p \in Processes, NEW l, Continue(p, l), UNCHANGED <<kind, seen>>,
           FileTypes',
           at[p] \notin {"health", "lock"} \/ l \in {"health", "lock"},
           p \in HubRuntimes => l \in RuntimeSteps,
           p \in HubCommands =>
              /\ l \in CommandSteps \ {"off"} /\ at[p] # "off"
              /\ l \in Cleaning => kind[p] \in {"up", "down", "repair"}
              /\ l \in {"launch", "spawn"} => kind[p] = "up"
              /\ l = "request" => kind[p] = "down"
    PROVE  HubTypes'
<1>1. /\ kind' = [kind EXCEPT ![p] = kind[p]] /\ seen' = [seen EXCEPT ![p] = seen[p]]
      /\ at' = [at EXCEPT ![p] = l] /\ at'[p] = l /\ kind'[p] = kind[p] /\ seen'[p] = seen[p]
  BY DEF HubTypes, Continue
<1>2. InPlace(p)
  BY DEF HubTypes
<1>3. p \in HubCommands => Consistent(p)'
  BY <1>1, <1>2 DEF InPlace, Consistent
<1>4. InPlace(p)'
  BY <1>1, <1>2, <1>3 DEF InPlace
<1> QED BY <1>1, <1>4, OneMoves

\* Where a status sends a process.
LEMMA FollowingSteps ==
    ASSUME NEW p \in Processes, InPlace(p), at[p] = "lock", NEW s, NEW l \in Following(kind[p], s)
    PROVE  /\ l \in {"off", "acquire", "launch", "request", "ok", "failed", "state", "diagnose",
                     "clean stop"}
           /\ p \in HubRuntimes => l \in {"off", "acquire"}
           /\ p \in HubCommands =>
                 /\ l \in CommandSteps \ {"off"}
                 /\ l \in Cleaning => kind[p] \in {"up", "down", "repair"}
                 /\ l \in {"launch", "spawn"} => kind[p] = "up"
                 /\ l = "request" => kind[p] = "down"
<1>1. CASE p \in HubRuntimes
  <2>1. p \notin HubCommands /\ kind[p] = "run"
    BY <1>1, HubAssumption DEF InPlace
  <2>2. l \in {"off", "acquire"}
    BY <2>1 DEF Following, RunFirst
  <2> QED BY <1>1, <2>1, <2>2
<1>2. CASE p \in HubCommands
  <2>1. p \notin HubRuntimes /\ kind[p] \in {"up", "up wait", "down", "down wait", "repair"}
    BY <1>2, HubAssumption DEF InPlace, Consistent
  <2>2. CASE kind[p] = "up"
    <3>1. l \in {"ok", "failed", "clean stop", "launch"}
      BY <2>2 DEF Following, UpFirst
    <3> QED BY <2>1, <2>2, <3>1 DEF CommandSteps, Cleaning
  <2>3. CASE kind[p] = "up wait"
    <3>1. l \in {"ok", "state", "failed"}
      BY <2>3 DEF Following, UpWait
    <3> QED BY <2>1, <2>3, <3>1 DEF CommandSteps, Cleaning, Reads
  <2>4. CASE kind[p] = "down"
    <3>1. l \in {"request", "failed", "clean stop", "ok"}
      BY <2>4 DEF Following, DownFirst
    <3> QED BY <2>1, <2>4, <3>1 DEF CommandSteps, Cleaning
  <2>5. CASE kind[p] = "down wait"
    <3>1. l \in {"ok", "state", "failed"}
      BY <2>5 DEF Following, DownWait
    <3> QED BY <2>1, <2>5, <3>1 DEF CommandSteps, Cleaning, Reads
  <2>6. CASE kind[p] = "repair"
    <3>1. l \in {"failed", "diagnose"}
      BY <2>6 DEF Following, RepairFirst
    <3> QED BY <2>1, <2>6, <3>1 DEF CommandSteps, Cleaning
  <2> QED BY <2>1, <2>2, <2>3, <2>4, <2>5, <2>6
<1> QED BY <1>1, <1>2 DEF Processes

\* The steps of a command keep the types.
LEMMA CommandTypes ==
    ASSUME HubTypes, NEW c \in HubCommands, HubCommand(c)
    PROVE  HubTypes'
<1> USE DEF Quiet
<1>1. c \in Processes /\ c \notin HubRuntimes /\ InPlace(c) /\ Consistent(c) /\ FileTypes
  BY HubAssumption DEF HubTypes, Processes, InPlace
<1>2. NoHealth \in HealthFile /\ NoLock \in HubLocks
  BY DEF HealthFile, HubLocks
<1>3. CASE \E k \in {"up", "down", "repair"} : Begin(c, k)
  <2>1. PICK k \in {"up", "down", "repair"} : Begin(c, k)
    BY <1>3
  <2>2. /\ at' = [at EXCEPT ![c] = "state"] /\ kind' = [kind EXCEPT ![c] = k]
        /\ seen' = [seen EXCEPT ![c] = seen[c]]
        /\ at'[c] = "state" /\ kind'[c] = k /\ seen'[c] = seen[c] /\ seen[c] = Unread
    BY <1>1, <2>1 DEF Begin, Continue, HubTypes, InPlace
  <2>3. Consistent(c)'
    BY <2>2 DEF Consistent, CommandSteps, Reads, Cleaning
  <2>4. InPlace(c)'
    BY <1>1, <2>2, <2>3 DEF InPlace
  <2>5. FileTypes'
    BY <1>1, <2>1 DEF Begin, FileTypes, hubFiles
  <2> QED BY <1>1, <2>2, <2>4, <2>5, OneMoves
<1>4. CASE End(c)
  <2>1. /\ at' = [at EXCEPT ![c] = "off"] /\ kind' = [kind EXCEPT ![c] = "none"]
        /\ seen' = [seen EXCEPT ![c] = seen[c]]
        /\ at'[c] = "off" /\ kind'[c] = "none" /\ seen'[c] = seen[c] /\ seen[c] = Unread
    BY <1>1, <1>4 DEF End, Continue, HubTypes, InPlace
  <2>2. Consistent(c)'
    BY <2>1 DEF Consistent, CommandSteps, Cleaning
  <2>3. InPlace(c)'
    BY <1>1, <2>1, <2>2 DEF InPlace
  <2>4. FileTypes'
    BY <1>1, <1>4 DEF End, FileTypes, hubFiles
  <2> QED BY <1>1, <2>1, <2>3, <2>4, OneMoves
<1>5. CASE CleanStop(c)
  <2>1. FileTypes'
    BY <1>1, <1>5 DEF CleanStop, FileTypes
  <2> QED BY <1>1, <1>5, <2>1, OneContinues DEF CleanStop, Consistent, CommandSteps, Cleaning
<1>6. CASE CleanHealth(c)
  <2>1. FileTypes'
    BY <1>1, <1>2, <1>6 DEF CleanHealth, FileTypes
  <2> QED BY <1>1, <1>6, <2>1, OneContinues DEF CleanHealth, Consistent, CommandSteps, Cleaning
<1>7. CASE CleanLock(c)
  <2>1. FileTypes'
    BY <1>1, <1>2, <1>7 DEF CleanLock, RemoveLock, FileTypes
  <2> QED BY <1>1, <1>7, <2>1, OneContinues DEF CleanLock, Consistent, CommandSteps, Cleaning
<1>8. CASE CleanState(c)
  <2>1. FileTypes'
    BY <1>1, <1>8 DEF CleanState, FileTypes
  <2>2. PICK l \in {"launch", "ok"} : Continue(c, l) /\ (l = "launch" => kind[c] = "up")
    BY <1>8 DEF CleanState
  <2> QED BY <1>1, <1>8, <2>1, <2>2, OneContinues DEF CleanState, CommandSteps, Cleaning
<1>9. CASE Diagnose(c)
  <2>1. FileTypes'
    BY <1>1, <1>9 DEF Diagnose, FileTypes, hubFiles
  <2>2. PICK l \in {"archive", "clean stop"} : Continue(c, l)
    BY <1>9 DEF Diagnose
  <2> QED BY <1>1, <1>9, <2>1, <2>2, OneContinues DEF Diagnose, Consistent, CommandSteps, Cleaning
<1>10. CASE Archive(c)
  <2>1. FileTypes'
    BY <1>1, <1>2, <1>10 DEF Archive, RemoveLock, FileTypes
  <2>2. PICK l \in {"failed", "clean stop"} : Continue(c, l)
    BY <1>10 DEF Archive
  <2> QED BY <1>1, <1>10, <2>1, <2>2, OneContinues DEF Archive, Consistent, CommandSteps, Cleaning
<1>11. CASE Launch(c)
  <2>1. FileTypes'
    BY <1>1, <1>11 DEF Launch, FileTypes
  <2> QED BY <1>1, <1>11, <2>1, OneContinues DEF Launch, Consistent, CommandSteps, Cleaning
<1>12. CASE SpawnRuntime(c)
  <2>1. PICK r \in HubRuntimes, l \in {"state", "off"}, k \in {"up wait", "none"} :
           /\ at[r] = "off" /\ at' = [at EXCEPT ![r] = "state", ![c] = l]
           /\ kind' = [kind EXCEPT ![c] = k] /\ (l = "off") = (k = "none")
    BY <1>12 DEF SpawnRuntime
  <2>2. r \in Processes /\ r # c /\ r \notin HubCommands /\ InPlace(r)
    BY <1>1, HubAssumption DEF Processes, HubTypes
  <2>3. /\ at'[c] = l /\ kind'[c] = k /\ at'[r] = "state" /\ kind'[r] = kind[r] /\ seen' = seen
        /\ \A q \in Processes \ {r, c} : at'[q] = at[q] /\ kind'[q] = kind[q]
        /\ at' = [q \in Processes |-> at'[q]] /\ kind' = [q \in Processes |-> kind'[q]]
    BY <1>1, <1>12, <2>1, <2>2 DEF HubTypes, SpawnRuntime
  <2>4. InPlace(r)'
    BY <2>1, <2>2, <2>3 DEF InPlace, RuntimeSteps, StartSteps, Reads
  <2>5. Consistent(c)'
    BY <2>1, <2>3 DEF Consistent, CommandSteps, Reads, Cleaning
  <2>6. InPlace(c)'
    <3>1. seen[c] = Unread /\ seen[c] \in Seen
      BY <1>1, <1>12 DEF InPlace, SpawnRuntime
    <3> QED BY <1>1, <2>3, <2>5, <3>1 DEF InPlace
  <2>7. ASSUME NEW q \in Processes \ {r, c} PROVE InPlace(q)'
    <3>1. InPlace(q) /\ at'[q] = at[q] /\ kind'[q] = kind[q] /\ seen'[q] = seen[q]
      BY <2>3 DEF HubTypes
    <3> QED BY <3>1 DEF InPlace, Consistent
  <2>8. FileTypes'
    BY <1>1, <1>12 DEF SpawnRuntime, FileTypes, hubFiles
  <2>9. \A q \in Processes : InPlace(q)'
    BY <2>4, <2>6, <2>7
  <2> QED BY <2>3, <2>8, <2>9 DEF HubTypes
<1>13. CASE RequestStop(c)
  <2>1. /\ at' = [at EXCEPT ![c] = "state"] /\ kind' = [kind EXCEPT ![c] = "down wait"]
        /\ seen' = [seen EXCEPT ![c] = seen[c]]
        /\ at'[c] = "state" /\ kind'[c] = "down wait" /\ seen'[c] = seen[c] /\ seen[c] = Unread
    BY <1>1, <1>13 DEF RequestStop, Continue, HubTypes, InPlace
  <2>2. Consistent(c)'
    BY <2>1 DEF Consistent, CommandSteps, Reads, Cleaning
  <2>3. InPlace(c)'
    BY <1>1, <2>1, <2>2 DEF InPlace
  <2>4. FileTypes'
    BY <1>1, <1>13 DEF RequestStop, FileTypes
  <2> QED BY <1>1, <2>1, <2>3, <2>4, OneMoves
<1>14. CASE Fail(c)
  <2>1. FileTypes'
    BY <1>1, <1>14 DEF Fail, FileTypes, hubFiles
  <2>2. at[c] \notin {"health", "lock", "off"} /\ Continue(c, "failed") /\ UNCHANGED <<kind, seen>>
    BY <1>14 DEF Fail
  <2> QED BY <1>1, <2>1, <2>2, OneContinues DEF CommandSteps, Cleaning
<1> QED BY <1>3, <1>4, <1>5, <1>6, <1>7, <1>8, <1>9, <1>10, <1>11, <1>12, <1>13, <1>14
        DEF HubCommand

\* So do those of a runtime; it moves from one of its steps to another.
LEMMA RuntimeTypes ==
    ASSUME HubTypes, NEW r \in HubRuntimes, Runtime(r)
    PROVE  HubTypes' /\ \E l \in RuntimeSteps : Continue(r, l)
<1> USE DEF Quiet
<1>1. r \in Processes /\ r \notin HubCommands /\ FileTypes
  BY HubAssumption DEF HubTypes, Processes
<1> SUFFICES /\ FileTypes' /\ UNCHANGED <<kind, seen>>
             /\ at[r] \notin {"health", "lock"} /\ \E l \in RuntimeSteps : Continue(r, l)
  BY <1>1, OneContinues
<1> USE DEF RuntimeSteps, StartSteps, LoopSteps, EndSteps
<1>2. NoHealth \in HealthFile /\ NoLock \in HubLocks
  BY DEF HealthFile, HubLocks
<1>3. \A s \in {"starting", "running"} : [status |-> s, fresh |-> TRUE] \in HealthFile
  BY DEF HealthFile
<1>4. CASE Acquire(r)
  <2>1. [by |-> r, payload |-> FALSE] \in HubLocks
    BY DEF HubLocks
  <2> QED BY <1>1, <1>4, <2>1 DEF Acquire, FileTypes
<1>5. CASE Payload(r)
  <2>1. lock.by = r => [lock EXCEPT !.payload = TRUE] \in HubLocks
    BY <1>1, HubAssumption DEF HubLocks, FileTypes, NoLock
  <2>2. lock' \in HubLocks
    BY <1>1, <1>5, <2>1 DEF Payload, FileTypes
  <2> QED BY <1>1, <1>5, <2>2 DEF Payload, FileTypes
<1>6. CASE Starting(r)
  BY <1>1, <1>3, <1>6 DEF Starting, WriteState, WriteHealth, RemoveStop, FileTypes
<1>7. CASE Loop(r)
  <2>1. CASE \/ WriteHealth(r, "first beat", "starting", "announce")
             \/ WriteHealth(r, "beat", "running", "check")
    BY <1>1, <1>3, <2>1 DEF WriteHealth, FileTypes
  <2>2. CASE WriteState(r, "announce", "running", "check")
    BY <1>1, <2>2 DEF WriteState, FileTypes
  <2>3. CASE /\ at[r] = "check" /\ Continue(r, IF stop THEN "end stop" ELSE "sleep")
             /\ UNCHANGED hubFiles /\ Quiet
    BY <1>1, <2>3 DEF FileTypes, hubFiles
  <2>4. CASE at[r] = "sleep" /\ Continue(r, "beat") /\ UNCHANGED hubFiles /\ Quiet
    BY <1>1, <2>4 DEF FileTypes, hubFiles
  <2> QED BY <1>7, <2>1, <2>2, <2>3, <2>4 DEF Loop
<1>8. CASE Ending(r)
  BY <1>1, <1>2, <1>8 DEF Ending, WriteState, RemoveStop, FileTypes
<1>9. CASE Drop(r)
  BY <1>1, <1>2, <1>9 DEF Drop, RemoveLock, FileTypes
<1>10. CASE GiveUp(r)
  BY <1>1, <1>10 DEF GiveUp, FileTypes, hubFiles
<1> QED BY <1>4, <1>5, <1>6, <1>7, <1>8, <1>9, <1>10 DEF Runtime

\* And the reads of a status, the end of a process and the clock.
LEMMA OtherTypes ==
    ASSUME HubTypes,
           (\E p \in Processes : ReadState(p) \/ ReadHealth(p) \/ Collected(p) \/ Death(p)) \/ Age
    PROVE  HubTypes'
<1> USE DEF Quiet
<1>1. FileTypes /\ NoHealth \in HealthFile
  BY DEF HubTypes, HealthFile
<1>2. ASSUME NEW p \in Processes, ReadState(p) \/ ReadHealth(p) PROVE HubTypes'
  <2>1. PICK s : s = seen'[p]
    OBVIOUS
  <2>2. InPlace(p) /\ seen[p] \in Seen /\ FileTypes'
    BY <1>1, <1>2 DEF ReadState, ReadHealth, HubTypes, InPlace, FileTypes, hubFiles
  <2>3. s \in Seen /\ seen' = [seen EXCEPT ![p] = s] /\ kind' = [kind EXCEPT ![p] = kind[p]]
    <3>1. CASE ReadState(p)
      <4>1. seen' = [seen EXCEPT ![p] = [seen[p] EXCEPT !.state = hubState]] /\ p \in DOMAIN seen
        BY <3>1 DEF ReadState, HubTypes
      <4>2. [seen[p] EXCEPT !.state = hubState] \in Seen
        BY <1>1, <2>2 DEF Seen, FileTypes
      <4> QED BY <2>1, <3>1, <4>1, <4>2 DEF ReadState, HubTypes
    <3>2. CASE ReadHealth(p)
      <4>1. seen' = [seen EXCEPT ![p] = [seen[p] EXCEPT !.health = health]] /\ p \in DOMAIN seen
        BY <3>2 DEF ReadHealth, HubTypes
      <4>2. [seen[p] EXCEPT !.health = health] \in Seen
        BY <1>1, <2>2 DEF Seen, FileTypes
      <4> QED BY <2>1, <3>2, <4>1, <4>2 DEF ReadHealth, HubTypes
    <3> QED BY <1>2, <3>1, <3>2
  <2>4. PICK l \in {"health", "lock"} : at' = [at EXCEPT ![p] = l]
    BY <1>2 DEF ReadState, ReadHealth, Continue
  <2>5. at'[p] = l /\ kind'[p] = kind[p] /\ seen'[p] = s /\ at[p] # "off"
    BY <1>2, <2>1, <2>3, <2>4 DEF HubTypes, ReadState, ReadHealth
  <2>6. p \in HubCommands => Consistent(p)'
    BY <2>2, <2>4, <2>5 DEF InPlace, Consistent, CommandSteps, Reads, Cleaning
  <2>7. InPlace(p)'
    BY <2>2, <2>3, <2>4, <2>5, <2>6 DEF InPlace, RuntimeSteps, StartSteps, Reads
  <2> QED BY <2>2, <2>3, <2>4, <2>7, OneMoves
<1>3. ASSUME NEW p \in Processes, Collected(p) PROVE HubTypes'
  <2>1. PICK l \in Following(kind[p], Status(seen[p].state, seen[p].health, lock)) : Continue(p, l)
    BY <1>3 DEF Collected
  <2>2. InPlace(p) /\ FileTypes' /\ at[p] = "lock"
    BY <1>1, <1>3 DEF Collected, HubTypes, FileTypes, hubFiles
  <2>3. /\ at' = [at EXCEPT ![p] = l] /\ seen' = [seen EXCEPT ![p] = Unread]
        /\ kind' = [kind EXCEPT ![p] = kind[p]]
        /\ at'[p] = l /\ seen'[p] = Unread /\ kind'[p] = kind[p]
    BY <1>3, <2>1 DEF Collected, Continue, HubTypes
  <2>4. p \in HubCommands => Consistent(p)'
    <3> SUFFICES ASSUME p \in HubCommands PROVE Consistent(p)'
      OBVIOUS
    <3>1. /\ l \in CommandSteps \ {"off"}
          /\ l \in Cleaning => kind[p] \in {"up", "down", "repair"}
          /\ l \in {"launch", "spawn"} => kind[p] = "up"
          /\ l = "request" => kind[p] = "down"
      BY <2>1, <2>2, FollowingSteps
    <3>2. Consistent(p)
      BY <2>2 DEF InPlace
    <3> QED BY <2>2, <2>3, <3>1, <3>2 DEF Consistent
  <2>5. Unread \in Seen
    BY DEF Unread, Seen, HealthFile
  <2>6. InPlace(p)'
    BY <2>1, <2>2, <2>3, <2>4, <2>5, FollowingSteps DEF InPlace, RuntimeSteps, StartSteps
  <2> QED BY <2>2, <2>3, <2>6, OneMoves
<1>4. ASSUME NEW p \in Processes, Death(p) PROVE HubTypes'
  <2>1. PICK k : k = IF p \in HubRuntimes THEN "run" ELSE "none"
    OBVIOUS
  <2>2. /\ at' = [at EXCEPT ![p] = "off"] /\ seen' = [seen EXCEPT ![p] = Unread]
        /\ kind' = [kind EXCEPT ![p] = k]
        /\ at'[p] = "off" /\ seen'[p] = Unread /\ kind'[p] = k
    BY <1>4, <2>1 DEF Death, Continue, HubTypes
  <2>3. FileTypes'
    BY <1>1, <1>4 DEF Death, FileTypes, hubFiles
  <2>4. Unread \in Seen
    BY DEF Unread, Seen, HealthFile
  <2>5. p \in HubCommands => k = "none" /\ p \notin HubRuntimes
    BY <2>1, HubAssumption
  <2>6. p \in HubCommands => Consistent(p)'
    BY <2>2, <2>5 DEF Consistent, CommandSteps, Cleaning
  <2>7. InPlace(p)'
    BY <2>1, <2>2, <2>4, <2>6 DEF InPlace, RuntimeSteps
  <2> QED BY <2>2, <2>3, <2>7, OneMoves
<1>5. CASE Age
  <2>1. health' \in HealthFile
    <3>1. health \in [status : {"starting", "running"}, fresh : BOOLEAN]
      <4>1. ~NoHealth.fresh /\ health.fresh /\ health \in HealthFile
        BY <1>1, <1>5 DEF Age, FileTypes, NoHealth
      <4> QED BY <4>1 DEF HealthFile
    <3>2. [health EXCEPT !.fresh = FALSE] \in [status : {"starting", "running"}, fresh : BOOLEAN]
      BY <3>1
    <3> QED BY <1>5, <3>2 DEF Age, HealthFile
  <2>2. FileTypes'
    BY <1>1, <1>5, <2>1 DEF Age, FileTypes
  <2> QED BY <1>5, <2>2 DEF Age, HubTypes, InPlace, Consistent
<1> QED BY <1>2, <1>3, <1>4, <1>5

HoldSteps == {"payload", "starting state", "starting health", "forget stop", "drop"}
                \cup LoopSteps \cup EndSteps

\* Who holds the guard of the lock, by the step.
LEMMA GuardedSteps ==
    /\ Guarded = {r \in HubRuntimes : at[r] \in HoldSteps}
    /\ Guarded' = {r \in HubRuntimes : at'[r] \in HoldSteps}
BY DEF Guarded, Looping, HoldSteps, LoopSteps, EndSteps

\* Who does not get or lose the guard leaves the lock with who has it.
LEMMA OwnedStays ==
    ASSUME LockOwned, Guarded' = Guarded, evicted' = evicted, lock'.by = lock.by
    PROVE  LockOwned'
BY DEF LockOwned

\* One process moves between steps that have the guard or between steps that have not.
LEMMA GuardedStays ==
    ASSUME HubTypes, NEW p \in Processes, NEW l, Continue(p, l),
           p \in HubRuntimes => (at[p] \in HoldSteps <=> l \in HoldSteps)
    PROVE  Guarded' = Guarded
<1>1. at'[p] = l /\ \A q \in Processes \ {p} : at'[q] = at[q]
  BY DEF Continue, HubTypes
<1>2. ASSUME NEW r \in HubRuntimes PROVE at[r] \in HoldSteps <=> at'[r] \in HoldSteps
  BY <1>1 DEF Processes
<1> QED BY <1>2, GuardedSteps

\* Whoever removes the lock of another is why that one counts as evicted.
LEMMA RemovedOwned ==
    ASSUME HubTypes, LockOwned, NEW p \in Processes, NEW l, Continue(p, l), RemoveLock(p),
           p \in HubRuntimes => l \notin HoldSteps,
           p \notin HubRuntimes => Guarded' = Guarded
    PROVE  LockOwned'
<1>1. at'[p] = l /\ \A q \in Processes \ {p} : at'[q] = at[q]
  BY DEF Continue, HubTypes
<1>2. ASSUME NEW r \in HubRuntimes \ {p} PROVE at'[r] = at[r]
  BY <1>1 DEF Processes
<1>3. Guarded' = Guarded \ {p}
  <2>1. CASE p \in HubRuntimes
    BY <2>1, <1>1, <1>2, GuardedSteps
  <2>2. CASE p \notin HubRuntimes
    BY <2>2, GuardedSteps
  <2> QED BY <2>1, <2>2
<1>4. evicted' = ((evicted \cup {lock.by}) \cap Guarded) \ {p}
  BY DEF RemoveLock
<1>5. Guarded' \ evicted' = {}
  BY <1>3, <1>4 DEF LockOwned
<1> QED BY <1>3, <1>4, <1>5 DEF LockOwned

\* A runtime that is not evicted has the lock, after any step.
LEMMA OwnedKept ==
    ASSUME HubTypes, LockOwned, HubNext
    PROVE  LockOwned'
<1> USE DEF Quiet
<1>1. ASSUME NEW c \in HubCommands, HubCommand(c) PROVE LockOwned'
  <2>1. c \in Processes /\ c \notin HubRuntimes
    BY HubAssumption DEF Processes
  <2>2. CASE SpawnRuntime(c)
    <3>1. PICK r \in HubRuntimes, l \in {"state", "off"} :
             at[r] = "off" /\ at' = [at EXCEPT ![r] = "state", ![c] = l]
      BY <2>2 DEF SpawnRuntime
    <3>2. /\ at'[r] = "state" /\ \A q \in HubRuntimes \ {r} : at'[q] = at[q]
          /\ {"state", "off"} \cap HoldSteps = {}
      BY <2>1, <3>1 DEF HubTypes, Processes, HoldSteps, LoopSteps, EndSteps
    <3>4. Guarded' = Guarded
      <4>1. ASSUME NEW q \in HubRuntimes PROVE at[q] \in HoldSteps <=> at'[q] \in HoldSteps
        BY <3>1, <3>2
      <4> QED BY <4>1, GuardedSteps
    <3> QED BY <2>2, <3>4, OwnedStays DEF SpawnRuntime, hubFiles
  <2>3. CASE CleanLock(c) \/ Archive(c)
    <3>1. PICK l : Continue(c, l) /\ RemoveLock(c)
      BY <2>3 DEF CleanLock, Archive
    <3> QED BY <2>1, <3>1, RemovedOwned, GuardedStays
  <2>4. CASE ~SpawnRuntime(c) /\ ~CleanLock(c) /\ ~Archive(c)
    <3>1. lock' = lock /\ evicted' = evicted /\ \E l : Continue(c, l)
      BY <1>1, <2>4 DEF HubCommand, Begin, End, CleanStop, CleanHealth, CleanState, Diagnose,
           Launch, RequestStop, Fail, hubFiles
    <3> QED BY <2>1, <3>1, GuardedStays, OwnedStays
  <2> QED BY <2>2, <2>3, <2>4
<1>2. ASSUME NEW r \in HubRuntimes, Runtime(r) PROVE LockOwned'
  <2>1. r \in Processes
    BY DEF Processes
  <2>2. CASE Acquire(r)
    <3>1. at[r] = "acquire" /\ evicted' = evicted /\ at[r] \notin HoldSteps /\ "off" \notin HoldSteps
      BY <2>2 DEF Acquire, HoldSteps, LoopSteps, EndSteps
    <3>2. CASE lock = NoLock
      <4>1. lock' = [by |-> r, payload |-> FALSE] /\ Continue(r, "payload")
        BY <2>2, <3>2 DEF Acquire
      <4>2. lock'.by = r /\ at'[r] = "payload" /\ \A q \in HubRuntimes \ {r} : at'[q] = at[q]
        BY <2>1, <4>1 DEF Continue, HubTypes, Processes
      <4>3. "payload" \in HoldSteps
        BY DEF HoldSteps
      <4>4. Guarded' = Guarded \cup {r}
        BY <4>2, <4>3, GuardedSteps
      <4>5. Guarded \ evicted = {}
        <5>1. lock.by = Nobody
          BY <3>2 DEF NoLock
        <5> QED BY <5>1, HubAssumption, GuardedSteps DEF LockOwned
      <4> QED BY <3>1, <4>2, <4>4, <4>5 DEF LockOwned
    <3>3. CASE lock # NoLock
      <4>1. Continue(r, "off") /\ lock' = lock
        BY <2>2, <3>3 DEF Acquire
      <4>2. Guarded' = Guarded
        BY <2>1, <3>1, <4>1, GuardedStays
      <4> QED BY <3>1, <4>1, <4>2, OwnedStays
    <3> QED BY <3>2, <3>3
  <2>3. CASE Drop(r)
    <3>1. "off" \notin HoldSteps
      BY DEF HoldSteps, LoopSteps, EndSteps
    <3> QED BY <2>1, <2>3, <3>1, RemovedOwned DEF Drop
  <2>4. CASE Payload(r) \/ Starting(r) \/ Loop(r) \/ Ending(r) \/ GiveUp(r)
    <3>1. evicted' = evicted /\ lock'.by = lock.by
      <4>1. lock' = lock \/ lock' = [lock EXCEPT !.payload = TRUE]
        BY <2>4 DEF Payload, Starting, Loop, Ending, GiveUp, WriteState, WriteHealth, RemoveStop,
             hubFiles
      <4>2. [lock EXCEPT !.payload = TRUE].by = lock.by
        BY DEF HubTypes, FileTypes, HubLocks, NoLock
      <4>3. evicted' = evicted
        BY <2>4 DEF Payload, Starting, Loop, Ending, GiveUp, WriteState, WriteHealth, RemoveStop
      <4> QED BY <4>1, <4>2, <4>3
    <3>2. at[r] \in HoldSteps /\ \E l \in HoldSteps : Continue(r, l)
      BY <2>4 DEF Payload, Starting, Loop, Ending, GiveUp, WriteState, WriteHealth, RemoveStop,
           HoldSteps, LoopSteps, EndSteps
    <3> QED BY <2>1, <3>1, <3>2, GuardedStays, OwnedStays
  <2> QED BY <1>2, <2>2, <2>3, <2>4 DEF Runtime
<1>3. ASSUME NEW p \in Processes, ReadState(p) \/ ReadHealth(p) \/ Collected(p) PROVE LockOwned'
  <2>1. lock' = lock /\ evicted' = evicted /\ at[p] \in Reads
    BY <1>3 DEF ReadState, ReadHealth, Collected, hubFiles, Reads
  <2>2. ASSUME p \in HubRuntimes
        PROVE  \E l \in Reads \cup {"off", "acquire"} : Continue(p, l)
    <3>1. CASE Collected(p)
      BY <2>2, <3>1, FollowingSteps DEF Collected, HubTypes
    <3>2. CASE ~Collected(p)
      BY <1>3, <3>2 DEF ReadState, ReadHealth, Reads
    <3> QED BY <3>1, <3>2
  <2>3. \E l : Continue(p, l)
    BY <1>3 DEF ReadState, ReadHealth, Collected
  <2>4. (Reads \cup {"off", "acquire"}) \cap HoldSteps = {}
    BY DEF Reads, HoldSteps, LoopSteps, EndSteps
  <2>5. Guarded' = Guarded
    <3>1. CASE p \in HubRuntimes
      <4>1. PICK l \in Reads \cup {"off", "acquire"} : Continue(p, l)
        BY <2>2, <3>1
      <4>2. at[p] \notin HoldSteps /\ l \notin HoldSteps
        BY <2>1, <2>4, <4>1
      <4> QED BY <4>1, <4>2, GuardedStays
    <3>2. CASE p \notin HubRuntimes
      BY <2>3, <3>2, GuardedStays
    <3> QED BY <3>1, <3>2
  <2> QED BY <2>1, <2>5, OwnedStays
<1>4. ASSUME NEW p \in Processes, Death(p) PROVE LockOwned'
  <2>1. at'[p] = "off" /\ (\A q \in HubRuntimes \ {p} : at'[q] = at[q]) /\ lock' = lock
        /\ evicted' = evicted \ {p} /\ "off" \notin HoldSteps
    BY <1>4 DEF Death, Continue, HubTypes, Processes, hubFiles, HoldSteps, LoopSteps, EndSteps
  <2>3. Guarded' = Guarded \ {p}
    BY <2>1, GuardedSteps
  <2> QED BY <2>1, <2>3 DEF LockOwned
<1>5. CASE Age
  BY <1>5 DEF Age, LockOwned, Guarded, Looping
<1> QED BY <1>1, <1>2, <1>3, <1>4, <1>5 DEF HubNext

-----------------------------------------------------------------------------
(* The hub runtime: calm runs.                                              *)

\* Without a health file there is no heartbeat.
LEMMA Silent == ~Beats(NoHealth)
BY DEF Beats, NoHealth

\* What is claimed of commands that are not running.
LEMMA OffTruthful ==
    ASSUME NEW c \in HubCommands, at'[c] = "off", kind'[c] = "none"
    PROVE  Truthful(c)'
BY DEF Truthful, Looks, Cleans, Ends, Starts, Reads, Cleaning

\* A step of a command: what the other processes are in stays, as long as the files do
\* where there is a runtime.
LEMMA CommandMoves ==
    ASSUME HubTypes, CalmInv, NEW c \in HubCommands,
           \A d \in HubCommands \ {c} : at[d] = "off",
           \A p \in Processes \ {c} : at'[p] = at[p] /\ kind'[p] = kind[p] /\ seen'[p] = seen[p],
           evicted' = {}, NoRuntime \/ UNCHANGED <<hubState, health, lock, crashed>>,
           NoRuntime /\ ~crashed' => health' = NoHealth,
           Truthful(c)'
    PROVE  CalmInv'
<1>1. ASSUME NEW r \in HubRuntimes PROVE at'[r] = at[r] /\ seen'[r] = seen[r] /\ FilesFollow(r)
  BY HubAssumption DEF Processes, CalmInv
<1>2. NoRuntime' <=> NoRuntime
  BY <1>1 DEF NoRuntime
<1>3. \A r, q \in HubRuntimes : at'[r] # "off" /\ at'[q] # "off" => r = q
  BY <1>1 DEF CalmInv
<1>4. ASSUME NEW d \in HubCommands \ {c} PROVE at'[d] = "off" /\ Truthful(d)'
  <2>1. at[d] = "off" /\ kind[d] = "none" /\ at'[d] = at[d] /\ kind'[d] = kind[d]
    BY DEF HubTypes, InPlace, Consistent, Processes
  <2> QED BY <2>1, OffTruthful
<1>5. ASSUME NEW r \in HubRuntimes PROVE FilesFollow(r)'
  <2>1. at'[r] = at[r] /\ seen'[r] = seen[r] /\ FilesFollow(r)
    BY <1>1
  <2>2. r \in Guarded' <=> r \in Guarded
    BY <2>1, GuardedSteps
  <2>3. CASE at[r] = "off"
    <3>1. r \notin Guarded'
      BY <2>1, <2>3, GuardedSteps DEF HoldSteps, LoopSteps, EndSteps
    <3> QED BY <2>1, <2>3, <3>1 DEF FilesFollow, Reads, LoopSteps
  <2>4. CASE UNCHANGED <<hubState, health, lock, crashed>>
    BY <2>1, <2>2, <2>4 DEF FilesFollow, Clean
  <2> QED BY <2>3, <2>4 DEF NoRuntime
<1>6. NoRuntime' /\ ~crashed' => health' = NoHealth
  BY <1>2
<1>7. \A d, e \in HubCommands : at'[d] # "off" /\ at'[e] # "off" => d = e
  BY <1>4
<1>8. \A d \in HubCommands : Truthful(d)'
  BY <1>4
<1> QED BY <1>3, <1>5, <1>6, <1>7, <1>8 DEF CalmInv

\* A step of the runtime, as far as it matters to the command that runs: it does not go
\* back to its start, it does not end unless it is asked to or fails, and one that goes
\* round in its loop leaves the files as they are but for the heartbeat.
LEMMA RuntimeMoves ==
    ASSUME HubTypes, CalmInv, NEW r \in HubRuntimes, at[r] # "off", NEW l,
           at'[r] = l, \A p \in Processes \ {r} : at'[p] = at[p],
           \A c \in HubCommands : kind'[c] = kind[c] /\ seen'[c] = seen[c],
           crashed \in BOOLEAN, crashed' \in BOOLEAN, crashed => crashed', stop' => stop,
           l \in StartSteps => at[r] \in StartSteps,
           l \in LoopSteps => at[r] \in LoopSteps \cup StartSteps,
           at[r] = "drop" => l = "off",
           ~stop /\ at[r] \notin EndSteps \cup {"drop"} =>
              /\ l \notin EndSteps
              /\ crashed' \/ (l \notin {"off", "drop"} /\ (at[r] \in LoopSteps => l \in LoopSteps)),
           at[r] \in {"sleep", "beat", "check", "drop"} /\ ~stop /\ Beats(health) =>
              /\ l \in {"sleep", "beat", "check", "drop", "off"} /\ (l = "drop" => crashed')
              /\ hubState' = hubState /\ Beats(health')
    PROVE  \A c \in HubCommands : Truthful(c)'
<1> SUFFICES ASSUME NEW c \in HubCommands PROVE Truthful(c)'
  OBVIOUS
<1>1. /\ at'[c] = at[c] /\ kind'[c] = kind[c] /\ seen'[c] = seen[c] /\ Truthful(c)
      /\ \A q \in HubRuntimes \ {r} : at[q] = "off" /\ at'[q] = "off"
  BY HubAssumption DEF Processes, CalmInv
<1>2. ~NoRuntime
  BY DEF NoRuntime
<1>3. /\ Looping = {q \in HubRuntimes : at[q] \in LoopSteps}
      /\ Looping' = {q \in HubRuntimes : at'[q] \in LoopSteps}
  BY DEF Looping, LoopSteps
<1>4. "off" \notin LoopSteps /\ "off" \notin StartSteps /\ "off" \notin EndSteps
  BY DEF LoopSteps, StartSteps, EndSteps, Reads
<1>5. Looks(c)'
  <2> SUFFICES ASSUME kind[c] \in {"up", "down", "repair"}, at[c] \in Reads PROVE Looks(c)'
    BY <1>1 DEF Looks
  <2>1. /\ at[r] \in {"sleep", "beat", "check", "drop"} /\ ~stop /\ Beats(health)
        /\ hubState = "running"
        /\ at[c] # "state" => seen[c].state = hubState
        /\ at[c] = "lock" => /\ (seen[c].health = NoHealth) = (health = NoHealth)
                             /\ Beats(seen[c].health)
    BY <1>1, <1>2 DEF Truthful, Looks
  <2>2. /\ l \in {"sleep", "beat", "check", "drop", "off"} /\ (l = "drop" => crashed')
        /\ hubState' = hubState /\ Beats(health') /\ ~stop'
    BY <2>1
  <2>3. \A h : Beats(h) => h # NoHealth
    BY Silent
  <2>4. at[c] = "lock" => (seen[c].health = NoHealth) = (health' = NoHealth)
    BY <2>1, <2>2, <2>3
  <2>5. \A q \in HubRuntimes : at'[q] # "off" => q = r
    BY <1>1
  <2> QED BY <1>1, <2>1, <2>2, <2>4, <2>5 DEF Looks
<1>6. Cleans(c)'
  BY <1>1, <1>2 DEF Truthful, Cleans, Cleaning
<1>7. Ends(c)'
  <2> SUFFICES ASSUME kind[c] \in {"down", "down wait"} PROVE Ends(c)'
    BY <1>1 DEF Ends
  <2>1. Ends(c) /\ at[r] \notin StartSteps
    BY <1>1 DEF Truthful, Ends
  <2>2. Looping = {} => Looping' = {}
    BY <1>1, <1>3, <1>4, <2>1
  <2>3. \A q \in HubRuntimes : at'[q] \notin StartSteps
    BY <1>1, <1>4, <2>1
  <2> QED BY <1>1, <2>1, <2>2, <2>3 DEF Ends
<1>8. Starts(c)'
  <2> SUFFICES ASSUME kind[c] = "up wait" \/ (kind[c] = "up" /\ at[c] = "ok") PROVE Starts(c)'
    BY <1>1 DEF Starts
  <2>1. Starts(c) /\ ~stop /\ at[r] \notin EndSteps
    BY <1>1 DEF Truthful, Starts
  <2>2. ~stop' /\ \A q \in HubRuntimes : at'[q] # "off" => at'[q] \notin EndSteps
    BY <1>1, <1>4, <2>1
  <2>3. ASSUME ~crashed' PROVE l \notin {"off", "drop"} /\ (Looping # {} => Looping' # {})
    <3>1. ~crashed
      BY <2>3
    <3>2. at[r] # "drop"
      BY <1>1, <2>1, <3>1 DEF Starts
    <3>3. l \notin {"off", "drop"} /\ (at[r] \in LoopSteps => l \in LoopSteps)
      BY <2>1, <2>3, <3>2
    <3> QED BY <1>1, <1>3, <1>4, <3>3
  <2>4. ~crashed' => ~crashed
    OBVIOUS
  <2> QED BY <1>1, <2>1, <2>2, <2>3, <2>4 DEF Starts
<1> QED BY <1>5, <1>6, <1>7, <1>8 DEF Truthful

\* A step of the runtime: the other runtimes are off.
LEMMA RuntimeCalm ==
    ASSUME HubTypes, CalmInv, NEW r \in HubRuntimes, at[r] # "off", NEW l,
           at'[r] = l, \A p \in Processes \ {r} : at'[p] = at[p],
           evicted' = {}, l = "off" /\ ~crashed' => health' = NoHealth, FilesFollow(r)',
           \A c \in HubCommands : Truthful(c)'
    PROVE  CalmInv'
<1>1. \A q \in HubRuntimes \ {r} : at[q] = "off" /\ at'[q] = "off"
  BY DEF CalmInv, Processes
<1>2. \A c \in HubCommands : at'[c] = at[c]
  BY HubAssumption DEF Processes
<1>3. ASSUME NEW q \in HubRuntimes \ {r} PROVE FilesFollow(q)'
  <2>1. q \notin Guarded' /\ at'[q] = "off"
    BY <1>1, GuardedSteps DEF HoldSteps, LoopSteps, EndSteps
  <2> QED BY <2>1 DEF FilesFollow, Reads, LoopSteps
<1>4. NoRuntime' /\ ~crashed' => health' = NoHealth
  BY DEF NoRuntime
<1>5. \A p, q \in HubRuntimes : at'[p] # "off" /\ at'[q] # "off" => p = q
  BY <1>1
<1>6. \A c, d \in HubCommands : at'[c] # "off" /\ at'[d] # "off" => c = d
  BY <1>2 DEF CalmInv
<1> QED BY <1>3, <1>4, <1>5, <1>6 DEF CalmInv

\* The steps of a runtime.
LEMMA RuntimeKeepsCalm ==
    ASSUME HubTypes, LockOwned, CalmInv, calm, NEW r \in HubRuntimes, Runtime(r)
    PROVE  CalmInv'
<1> USE DEF Quiet
<1>1. r \in Processes /\ r \notin HubCommands /\ FilesFollow(r) /\ FileTypes /\ evicted = {}
  BY HubAssumption DEF Processes, CalmInv, HubTypes
<1>2. /\ at[r] # "off" /\ FileTypes' /\ calm' = calm
      /\ \A c \in HubCommands : kind'[c] = kind[c] /\ seen'[c] = seen[c]
      /\ seen'[r] = seen[r]
  <2>1. HubTypes'
    BY RuntimeTypes
  <2>2. kind' = kind /\ seen' = seen /\ calm' = calm /\ at[r] # "off"
    BY DEF Runtime, Acquire, Payload, Starting, Loop, Ending, Drop, GiveUp, WriteState,
         WriteHealth, RemoveStop
  <2> QED BY <2>1, <2>2 DEF HubTypes
<1>3. \A l : Continue(r, l) => at'[r] = l /\ \A p \in Processes \ {r} : at'[p] = at[p]
  BY <1>1 DEF Continue, HubTypes
<1>4. Guarded \subseteq {r}
  <2>1. \A q \in HubRuntimes \ {r} : at[q] = "off"
    BY <1>2 DEF CalmInv
  <2> QED BY <2>1, GuardedSteps DEF HoldSteps, LoopSteps, EndSteps
<1>5. crashed \in BOOLEAN /\ crashed' \in BOOLEAN
  BY <1>1, <1>2 DEF FileTypes
<1>6. \A s \in {"starting", "running"} : Beats([status |-> s, fresh |-> TRUE])
  BY DEF Beats, LiveStatus
<1> USE DEF StartSteps, LoopSteps, EndSteps, Reads
<1>7. CASE Acquire(r)
  <2>1. lock = NoLock /\ health = NoHealth /\ at[r] = "acquire"
    BY <1>1, <1>7 DEF Acquire, FilesFollow, Clean
  <2>2. /\ at'[r] = "payload" /\ \A p \in Processes \ {r} : at'[p] = at[p]
    BY <1>3, <1>7, <2>1 DEF Acquire
  <2>3. /\ evicted' = {} /\ crashed' = crashed /\ stop' = stop /\ health' = NoHealth
    BY <1>1, <1>7, <2>1 DEF Acquire
  <2>4. FilesFollow(r)'
    BY <2>2, <2>3 DEF FilesFollow
  <2>5. \A c \in HubCommands : Truthful(c)'
    BY <1>2, <1>5, <2>1, <2>2, <2>3, RuntimeMoves
  <2> QED BY <1>2, <2>2, <2>3, <2>4, <2>5, RuntimeCalm
<1>8. CASE Payload(r)
  <2>1. lock.by = r /\ health = NoHealth /\ at[r] = "payload"
    BY <1>1, <1>8, GuardedSteps DEF Payload, FilesFollow, LockOwned, HoldSteps
  <2>2. /\ at'[r] = "starting state" /\ \A p \in Processes \ {r} : at'[p] = at[p]
    BY <1>3, <1>8 DEF Payload
  <2>3. /\ evicted' = {} /\ crashed' = crashed /\ stop' = stop /\ health' = NoHealth
    BY <1>1, <1>8, <2>1 DEF Payload
  <2>4. lock'.payload
    <3>1. lock \in [by : HubRuntimes, payload : BOOLEAN]
      <4>1. NoLock.by = Nobody /\ lock \in HubLocks
        BY <1>1 DEF NoLock, FileTypes
      <4> QED BY <2>1, <4>1, HubAssumption DEF HubLocks
    <3>2. lock' = [lock EXCEPT !.payload = TRUE]
      BY <1>8, <2>1 DEF Payload
    <3> QED BY <3>1, <3>2
  <2>5. FilesFollow(r)'
    BY <2>2, <2>3, <2>4 DEF FilesFollow
  <2>6. \A c \in HubCommands : Truthful(c)'
    BY <1>2, <1>5, <2>1, <2>2, <2>3, RuntimeMoves
  <2> QED BY <1>2, <2>2, <2>3, <2>5, <2>6, RuntimeCalm
<1>9. CASE WriteState(r, "starting state", "starting", "starting health")
  <2>1. /\ at[r] = "starting state" /\ at'[r] = "starting health"
        /\ \A p \in Processes \ {r} : at'[p] = at[p]
    BY <1>3, <1>9 DEF WriteState
  <2>2. /\ evicted' = {} /\ crashed' = crashed /\ stop' = stop /\ health' = NoHealth /\ lock'.payload
    BY <1>1, <1>9, <2>1, GuardedSteps DEF WriteState, FilesFollow, HoldSteps
  <2>3. FilesFollow(r)'
    BY <2>1, <2>2 DEF FilesFollow
  <2>4. \A c \in HubCommands : Truthful(c)'
    BY <1>2, <1>5, <2>1, <2>2, RuntimeMoves
  <2> QED BY <1>2, <2>1, <2>2, <2>3, <2>4, RuntimeCalm
<1>10. CASE WriteHealth(r, "starting health", "starting", "forget stop")
  <2>1. /\ at[r] = "starting health" /\ at'[r] = "forget stop"
        /\ \A p \in Processes \ {r} : at'[p] = at[p]
    BY <1>3, <1>10 DEF WriteHealth
  <2>2. /\ evicted' = {} /\ crashed' = crashed /\ stop' = stop /\ lock'.payload
        /\ health' = [status |-> "starting", fresh |-> TRUE]
    BY <1>1, <1>10, <2>1, GuardedSteps DEF WriteHealth, FilesFollow, HoldSteps
  <2>3. Beats(health') /\ health'.status = "starting"
    BY <1>6, <2>2
  <2>4. FilesFollow(r)'
    BY <2>1, <2>2, <2>3 DEF FilesFollow
  <2>5. \A c \in HubCommands : Truthful(c)'
    BY <1>2, <1>5, <2>1, <2>2, RuntimeMoves
  <2> QED BY <1>2, <2>1, <2>2, <2>4, <2>5, RuntimeCalm
<1>11. CASE RemoveStop(r, "forget stop", "first beat")
  <2>1. /\ at[r] = "forget stop" /\ at'[r] = "first beat"
        /\ \A p \in Processes \ {r} : at'[p] = at[p]
    BY <1>3, <1>11 DEF RemoveStop
  <2>2. /\ evicted' = {} /\ crashed' = crashed /\ stop' = FALSE /\ lock'.payload /\ Beats(health')
    BY <1>1, <1>11, <2>1, GuardedSteps DEF RemoveStop, FilesFollow, HoldSteps
  <2>3. FilesFollow(r)'
    BY <2>1, <2>2 DEF FilesFollow
  <2>4. \A c \in HubCommands : Truthful(c)'
    BY <1>2, <1>5, <2>1, <2>2, RuntimeMoves
  <2> QED BY <1>2, <2>1, <2>2, <2>3, <2>4, RuntimeCalm
<1>12. CASE WriteHealth(r, "first beat", "starting", "announce")
  <2>1. /\ at[r] = "first beat" /\ at'[r] = "announce"
        /\ \A p \in Processes \ {r} : at'[p] = at[p]
    BY <1>3, <1>12 DEF WriteHealth
  <2>2. /\ evicted' = {} /\ crashed' = crashed /\ stop' = stop /\ lock'.payload /\ Beats(health')
    BY <1>1, <1>6, <1>12, <2>1, GuardedSteps DEF WriteHealth, FilesFollow, HoldSteps
  <2>3. FilesFollow(r)'
    BY <2>1, <2>2 DEF FilesFollow
  <2>4. \A c \in HubCommands : Truthful(c)'
    BY <1>2, <1>5, <2>1, <2>2, RuntimeMoves
  <2> QED BY <1>2, <2>1, <2>2, <2>3, <2>4, RuntimeCalm
<1>13. CASE WriteState(r, "announce", "running", "check")
  <2>1. /\ at[r] = "announce" /\ at'[r] = "check"
        /\ \A p \in Processes \ {r} : at'[p] = at[p]
    BY <1>3, <1>13 DEF WriteState
  <2>2. /\ evicted' = {} /\ crashed' = crashed /\ stop' = stop /\ lock'.payload /\ Beats(health')
        /\ hubState' = "running"
    BY <1>1, <1>13, <2>1, GuardedSteps DEF WriteState, FilesFollow, HoldSteps
  <2>3. FilesFollow(r)'
    BY <2>1, <2>2 DEF FilesFollow
  <2>4. \A c \in HubCommands : Truthful(c)'
    BY <1>2, <1>5, <2>1, <2>2, RuntimeMoves
  <2> QED BY <1>2, <2>1, <2>2, <2>3, <2>4, RuntimeCalm
<1>14. CASE \/ WriteHealth(r, "beat", "running", "check")
            \/ at[r] = "check" /\ Continue(r, IF stop THEN "end stop" ELSE "sleep")
               /\ UNCHANGED hubFiles /\ Quiet
            \/ at[r] = "sleep" /\ Continue(r, "beat") /\ UNCHANGED hubFiles /\ Quiet
  <2>1. PICK l \in {"end stop", "sleep", "beat", "check"} :
           /\ at[r] \in {"sleep", "beat", "check"} /\ at'[r] = l
           /\ l = "end stop" => stop
           /\ \A p \in Processes \ {r} : at'[p] = at[p]
    BY <1>3, <1>14 DEF WriteHealth
  <2>2. /\ evicted' = {} /\ crashed' = crashed /\ stop' = stop /\ lock'.payload
        /\ hubState' = "running" /\ hubState = "running"
    BY <1>1, <1>14, <2>1, GuardedSteps DEF WriteHealth, FilesFollow, HoldSteps, hubFiles
  <2>3. Beats(health')
    BY <1>1, <1>6, <1>14, <2>1 DEF WriteHealth, FilesFollow, hubFiles
  <2>4. FilesFollow(r)'
    BY <2>1, <2>2, <2>3 DEF FilesFollow
  <2>5. \A c \in HubCommands : Truthful(c)'
    BY <1>2, <1>5, <2>1, <2>2, <2>3, RuntimeMoves
  <2> QED BY <1>2, <2>1, <2>2, <2>4, <2>5, RuntimeCalm
<1>15. CASE Ending(r)
  <2>1. PICK l \in {"end health", "end state", "drop"} :
           /\ at[r] \in EndSteps /\ at'[r] = l
           /\ \A p \in Processes \ {r} : at'[p] = at[p]
    BY <1>3, <1>15 DEF Ending, RemoveStop, WriteState
  <2>2. /\ evicted' = {} /\ crashed' = crashed /\ (stop' => stop)
    <3>1. evicted' = {} /\ crashed' = crashed /\ (stop' = stop \/ stop' = FALSE)
      BY <1>1, <1>15 DEF Ending, RemoveStop, WriteState
    <3>2. CASE stop' = stop
      BY <3>1, <3>2
    <3>3. CASE stop' = FALSE
      BY <3>1, <3>3
    <3> QED BY <3>1, <3>2, <3>3
  <2>3. lock'.payload
    BY <1>1, <1>15, <2>1, GuardedSteps DEF Ending, RemoveStop, WriteState, FilesFollow, HoldSteps
  <2>4. l \in {"end state", "drop"} /\ ~crashed => health' = NoHealth
    <3>1. CASE RemoveStop(r, "end stop", "end health")
      <4>1. Continue(r, "end health")
        BY <3>1 DEF RemoveStop
      <4>2. at'[r] = "end health"
        BY <1>3, <4>1
      <4> QED BY <2>1, <4>2
    <3>2. CASE health' = NoHealth
      BY <3>2
    <3>3. CASE WriteState(r, "end state", "stopped", "drop")
      BY <1>1, <3>3 DEF WriteState, FilesFollow
    <3> QED BY <1>15, <3>1, <3>2, <3>3 DEF Ending
  <2>5. FilesFollow(r)'
    BY <2>1, <2>2, <2>3, <2>4 DEF FilesFollow
  <2>6. \A c \in HubCommands : Truthful(c)'
    BY <1>2, <1>5, <2>1, <2>2, RuntimeMoves
  <2> QED BY <1>2, <2>1, <2>2, <2>5, <2>6, RuntimeCalm
<1>16. CASE Drop(r)
  <2>1. /\ at[r] = "drop" /\ at'[r] = "off" /\ \A p \in Processes \ {r} : at'[p] = at[p]
    BY <1>3, <1>16 DEF Drop
  <2>2. /\ evicted' = {} /\ crashed' = crashed /\ stop' = stop /\ health' = health
        /\ hubState' = hubState
    BY <1>4, <1>16 DEF Drop, RemoveLock
  <2>3. ~crashed => health = NoHealth
    BY <1>1, <2>1 DEF FilesFollow
  <2>4. r \notin Guarded'
    BY <2>1, GuardedSteps DEF HoldSteps
  <2>5. FilesFollow(r)'
    BY <2>1, <2>4 DEF FilesFollow
  <2>6. \A c \in HubCommands : Truthful(c)'
    BY <1>2, <1>5, <2>1, <2>2, RuntimeMoves
  <2> QED BY <1>2, <2>1, <2>2, <2>3, <2>5, <2>6, RuntimeCalm
<1>17. CASE GiveUp(r)
  <2>1. /\ at[r] \in HoldSteps \ {"payload", "drop"} /\ at'[r] = "drop"
        /\ \A p \in Processes \ {r} : at'[p] = at[p]
    BY <1>3, <1>17 DEF GiveUp, HoldSteps
  <2>2. /\ evicted' = {} /\ crashed' = TRUE /\ stop' = stop /\ health' = health
        /\ hubState' = hubState /\ lock'.payload
    BY <1>1, <1>17, <2>1, GuardedSteps DEF GiveUp, hubFiles, FilesFollow
  <2>3. FilesFollow(r)'
    BY <2>1, <2>2 DEF FilesFollow
  <2>4. \A c \in HubCommands : Truthful(c)'
    BY <1>2, <1>5, <2>1, <2>2, RuntimeMoves
  <2> QED BY <1>2, <2>1, <2>2, <2>3, <2>4, RuntimeCalm
<1> QED BY <1>7, <1>8, <1>9, <1>10, <1>11, <1>12, <1>13, <1>14, <1>15, <1>16, <1>17
        DEF Runtime, Starting, Loop

\* What a status says of the heartbeat and of the lock that it was made from.
LEMMA StatusSays ==
    ASSUME NEW x \in {"stopped", "starting", "running"}, NEW h \in HealthFile, NEW l
    PROVE  /\ LiveStatus(Status(x, h, l)) => Beats(h) /\ Status(x, h, l) = h.status
           /\ ~LiveStatus(Status(x, h, l)) => ~Beats(h) \/ (l # NoLock /\ ~l.payload)
           /\ Status(x, h, l) = "stopped" => x = "stopped" /\ h = NoHealth /\ l = NoLock
<1>1. CASE h = NoHealth
  <2>1. h.status = "none" /\ h.fresh = FALSE /\ ~Beats(h)
    BY <1>1, Silent DEF NoHealth
  <2>2. Status(x, h, l) \in {"corrupt", "stale", "stopped"}
    BY <2>1 DEF Status
  <2>3. ~LiveStatus(Status(x, h, l))
    BY <2>2 DEF LiveStatus
  <2>4. Status(x, h, l) = "stopped" => x = "stopped" /\ l = NoLock
    BY <2>1 DEF Status, LiveStatus
  <2> QED BY <1>1, <2>1, <2>3, <2>4
<1>2. CASE h # NoHealth
  <2>1. h.status \in {"starting", "running"} /\ h.fresh \in BOOLEAN
    BY <1>2 DEF HealthFile
  <2>2. LiveStatus(h.status) /\ h.status # "none" /\ (Beats(h) <=> h.fresh)
    BY <2>1 DEF LiveStatus, Beats
  <2>3. Status(x, h, l) = IF l # NoLock /\ ~l.payload THEN "corrupt"
                          ELSE IF h.fresh THEN h.status ELSE "stale"
    BY <2>2 DEF Status
  <2>4. ~LiveStatus("corrupt") /\ ~LiveStatus("stale")
    BY DEF LiveStatus
  <2>5. CASE l # NoLock /\ ~l.payload
    BY <2>3, <2>4, <2>5
  <2>6. CASE ~(l # NoLock /\ ~l.payload) /\ h.fresh
    BY <2>1, <2>2, <2>3, <2>6
  <2>7. CASE ~(l # NoLock /\ ~l.payload) /\ ~h.fresh
    BY <2>2, <2>3, <2>4, <2>7
  <2> QED BY <2>5, <2>6, <2>7
<1> QED BY <1>1, <1>2

\* A runtime on its way to the lock finds what the command that started it left: nothing.
LEMMA RuntimeReadsCalm ==
    ASSUME HubTypes, CalmInv, NEW r \in HubRuntimes, ReadState(r) \/ ReadHealth(r) \/ Collected(r)
    PROVE  CalmInv'
<1>1. r \in Processes /\ r \notin HubCommands /\ InPlace(r) /\ evicted = {} /\ FileTypes
  BY HubAssumption DEF Processes, CalmInv, HubTypes
<1>2. at[r] \in Reads /\ at[r] # "off"
  BY DEF ReadState, ReadHealth, Collected, Reads
<1>3. Clean /\ seen[r] = Unread
  BY <1>2 DEF CalmInv, FilesFollow
<1>4. UNCHANGED hubFiles /\ evicted' = {} /\ crashed' = crashed /\ crashed \in BOOLEAN
  BY <1>1 DEF ReadState, ReadHealth, Collected, FileTypes
<1>5. /\ \A c \in HubCommands : kind'[c] = kind[c] /\ seen'[c] = seen[c]
      /\ seen'[r] = Unread
  <2>1. [Unread EXCEPT !.state = "stopped"] = Unread /\ [Unread EXCEPT !.health = NoHealth] = Unread
    BY SMTT(30) DEF Unread
  <2>2. CASE ReadState(r)
    <3>1. seen' = [seen EXCEPT ![r] = [seen[r] EXCEPT !.state = hubState]] /\ kind' = kind
      BY <2>2 DEF ReadState
    <3> QED BY <1>1, <1>3, <2>1, <3>1 DEF Clean, HubTypes, Processes
  <2>3. CASE ReadHealth(r)
    <3>1. seen' = [seen EXCEPT ![r] = [seen[r] EXCEPT !.health = health]] /\ kind' = kind
      BY <2>3 DEF ReadHealth
    <3> QED BY <1>1, <1>3, <2>1, <3>1 DEF Clean, HubTypes, Processes
  <2>4. CASE Collected(r)
    BY <1>1, <2>4 DEF Collected, HubTypes, Processes
  <2> QED BY <2>2, <2>3, <2>4
<1>6. PICK l \in Reads \cup {"acquire"} : Continue(r, l)
  <2>1. CASE Collected(r)
    <3>1. Status(seen[r].state, seen[r].health, lock) = "stopped"
      <4>1. seen[r].state = "stopped" /\ seen[r].health = NoHealth /\ lock = NoLock
        <5>1. Unread.state = "stopped" /\ Unread.health = NoHealth
          BY DEF Unread
        <5> QED BY <1>3, <5>1 DEF Clean
      <4>2. Status("stopped", NoHealth, NoLock) = "stopped"
        BY DEF Status, LiveStatus, NoHealth
      <4> QED BY <4>1, <4>2
    <3>2. kind[r] = "run"
      BY <1>1 DEF InPlace
    <3>3. Following("run", "stopped") = {"acquire"}
      BY DEF Following, RunFirst
    <3> QED BY <2>1, <3>1, <3>2, <3>3 DEF Collected
  <2>2. CASE ReadState(r) \/ ReadHealth(r)
    BY <2>2 DEF ReadState, ReadHealth, Reads
  <2> QED BY <2>1, <2>2
<1>7. at'[r] = l /\ \A p \in Processes \ {r} : at'[p] = at[p]
  BY <1>1, <1>6 DEF Continue, HubTypes
<1>8. r \notin Guarded' /\ l \notin {"off", "drop"} \cup LoopSteps \cup EndSteps
  BY <1>6, <1>7, GuardedSteps DEF HoldSteps, LoopSteps, EndSteps, Reads
<1>9. FilesFollow(r)'
  BY <1>3, <1>4, <1>5, <1>6, <1>7, <1>8 DEF FilesFollow, Clean, hubFiles, Reads, LoopSteps
<1>10. \A c \in HubCommands : Truthful(c)'
  <2>1. stop' = stop /\ at[r] \in StartSteps
        /\ at[r] \notin {"sleep", "beat", "check", "drop"} \cup LoopSteps \cup EndSteps
    BY <1>2, <1>4 DEF hubFiles, Reads, LoopSteps, EndSteps, StartSteps
  <2> QED BY <1>2, <1>4, <1>5, <1>7, <1>8, <2>1, RuntimeMoves
<1> QED BY <1>2, <1>4, <1>7, <1>8, <1>9, <1>10, RuntimeCalm

\* A runtime that dies leaves the files, and is known to have died.
LEMMA RuntimeCrashCalm ==
    ASSUME HubTypes, CalmInv, calm, NEW r \in HubRuntimes, Death(r)
    PROVE  CalmInv'
<1>1. r \in Processes /\ r \notin HubCommands /\ evicted = {} /\ FileTypes
  BY HubAssumption DEF Processes, CalmInv, HubTypes
<1>2. /\ UNCHANGED hubFiles /\ evicted' = {} /\ crashed' = TRUE /\ crashed \in BOOLEAN
      /\ at[r] # "off" /\ at'[r] = "off" /\ \A p \in Processes \ {r} : at'[p] = at[p]
  BY <1>1 DEF Death, Continue, FileTypes, HubTypes
<1>3. \A c \in HubCommands : kind'[c] = kind[c] /\ seen'[c] = seen[c]
  BY <1>1 DEF Death, HubTypes, Processes
<1>4. r \notin Guarded'
  BY <1>2, GuardedSteps DEF HoldSteps, LoopSteps, EndSteps
<1>5. FilesFollow(r)'
  BY <1>2, <1>4 DEF FilesFollow, Reads, LoopSteps
<1>6. \A c \in HubCommands : Truthful(c)'
  <2>1. "off" \notin StartSteps \cup LoopSteps \cup EndSteps
    BY DEF StartSteps, LoopSteps, EndSteps, Reads
  <2>2. stop' = stop /\ hubState' = hubState /\ health' = health
    BY <1>2 DEF hubFiles
  <2> QED BY <1>2, <1>3, <2>1, <2>2, RuntimeMoves
<1> QED BY <1>2, <1>5, <1>6, RuntimeCalm

\* The first look of a command that finds no heartbeat: there is no runtime.
LEMMA FirstLook ==
    ASSUME HubTypes, CalmInv, NEW c \in HubCommands, at[c] = "lock",
           kind[c] \in {"up", "down", "repair"}
    PROVE  LET s == Status(seen[c].state, seen[c].health, lock)
           IN  /\ ~LiveStatus(s) => NoRuntime
               /\ LiveStatus(s) /\ ~crashed => Looping # {}
               /\ s = "stopped" => Clean
<1>1. /\ Looks(c) /\ at[c] \in Reads /\ seen[c].state \in {"stopped", "starting", "running"}
      /\ seen[c].health \in HealthFile
  BY DEF CalmInv, Truthful, HubTypes, InPlace, Seen, Reads, Processes
<1> DEFINE s == Status(seen[c].state, seen[c].health, lock)
<1>2. /\ LiveStatus(s) => Beats(seen[c].health)
      /\ ~LiveStatus(s) => ~Beats(seen[c].health) \/ (lock # NoLock /\ ~lock.payload)
      /\ s = "stopped" => seen[c].state = "stopped" /\ seen[c].health = NoHealth /\ lock = NoLock
  BY <1>1, StatusSays
<1> HIDE DEF s
<1>3. ASSUME ~LiveStatus(s), ~NoRuntime PROVE FALSE
  <2>1. PICK r \in HubRuntimes : at[r] # "off"
    BY <1>3 DEF NoRuntime
  <2>2. at[r] \in {"sleep", "beat", "check", "drop"} /\ FilesFollow(r) /\ Beats(seen[c].health)
    BY <1>1, <1>3, <2>1 DEF Looks, CalmInv
  <2>3. lock.payload
    BY <2>2, GuardedSteps DEF FilesFollow, HoldSteps, LoopSteps
  <2> QED BY <1>2, <1>3, <2>2, <2>3
<1>4. ASSUME LiveStatus(s), ~crashed PROVE Looping # {}
  <2>1. seen[c].health # NoHealth
    BY <1>2, <1>4, Silent
  <2>2. health # NoHealth
    BY <1>1, <2>1 DEF Looks
  <2>3. PICK r \in HubRuntimes : at[r] # "off"
    BY <1>4, <2>2 DEF CalmInv, NoRuntime
  <2>4. at[r] \in {"sleep", "beat", "check"}
    BY <1>1, <1>4, <2>3 DEF Looks
  <2> QED BY <2>4 DEF Looping
<1>5. s = "stopped" => Clean
  BY <1>1, <1>2 DEF Looks, Clean
<1> QED BY <1>3, <1>4, <1>5 DEF s

\* The reads of a command.
LEMMA CommandReadsCalm ==
    ASSUME HubTypes, CalmInv, NEW c \in HubCommands, ReadState(c) \/ ReadHealth(c)
    PROVE  CalmInv'
<1>1. c \in Processes /\ c \notin HubRuntimes /\ Truthful(c) /\ Consistent(c) /\ evicted = {}
  BY HubAssumption DEF Processes, CalmInv, HubTypes, InPlace
<1>2. /\ UNCHANGED <<hubState, health, lock, stop, crashed>> /\ evicted' = {} /\ kind' = kind
      /\ at[c] \in Reads /\ at[c] # "off"
  BY <1>1 DEF ReadState, ReadHealth, hubFiles, Reads
<1>3. \A p \in Processes \ {c} : at'[p] = at[p] /\ kind'[p] = kind[p] /\ seen'[p] = seen[p]
  BY <1>1 DEF ReadState, ReadHealth, Continue, HubTypes
<1>4. \A r \in HubRuntimes : at'[r] = at[r]
  BY <1>1, <1>3 DEF Processes
<1>5. /\ NoRuntime' <=> NoRuntime
      /\ Looping' = Looping
  BY <1>4 DEF NoRuntime, Looping
<1>6. Truthful(c)'
  <2>1. CASE ReadState(c)
    <3>1. at[c] = "state" /\ at'[c] = "health"
      BY <1>1, <2>1 DEF ReadState, Continue, HubTypes
    <3>2. seen'[c].state = hubState
      <4>1. seen' = [seen EXCEPT ![c] = [seen[c] EXCEPT !.state = hubState]]
        BY <2>1 DEF ReadState
      <4>2. seen'[c] = [seen[c] EXCEPT !.state = hubState] /\ seen[c] \in Seen
        BY <1>1, <4>1 DEF HubTypes, InPlace
      <4> QED BY <4>2 DEF Seen
    <3>3. Looks(c)'
      BY <1>1, <1>2, <1>4, <3>1, <3>2 DEF Truthful, Looks
    <3>4. Cleans(c)'
      BY <3>1 DEF Cleans, Cleaning
    <3>5. Ends(c)'
      BY <1>1, <1>2, <1>4, <3>1 DEF Truthful, Ends
    <3>6. Starts(c)'
      BY <1>1, <1>2, <1>4, <3>1 DEF Truthful, Starts
    <3> QED BY <3>3, <3>4, <3>5, <3>6 DEF Truthful
  <2>2. CASE ReadHealth(c)
    <3>1. at[c] = "health" /\ at'[c] = "lock"
      BY <1>1, <2>2 DEF ReadHealth, Continue, HubTypes
    <3>2. seen'[c].health = health /\ seen'[c].state = seen[c].state
      <4>1. seen' = [seen EXCEPT ![c] = [seen[c] EXCEPT !.health = health]]
        BY <2>2 DEF ReadHealth
      <4>2. seen'[c] = [seen[c] EXCEPT !.health = health] /\ seen[c] \in Seen
        BY <1>1, <4>1 DEF HubTypes, InPlace
      <4> QED BY <4>2 DEF Seen
    <3>3. Looks(c)'
      <4> SUFFICES ASSUME kind[c] \in {"up", "down", "repair"} PROVE Looks(c)'
        BY <1>2 DEF Looks
      <4>1. /\ \A r \in HubRuntimes : at[r] # "off" =>
                  /\ at[r] \in {"sleep", "beat", "check", "drop"} /\ (at[r] = "drop" => crashed)
                  /\ ~stop /\ hubState = "running" /\ Beats(health)
            /\ seen[c].state = hubState
        BY <1>1, <1>2, <3>1 DEF Truthful, Looks
      <4>2. ~Beats(health) => NoRuntime
        BY <4>1 DEF NoRuntime
      <4>3. ~Beats(seen'[c].health) => NoRuntime'
        BY <1>5, <3>2, <4>2
      <4>4. (seen'[c].health = NoHealth) = (health' = NoHealth) /\ seen'[c].state = hubState'
        BY <1>2, <3>2, <4>1
      <4> QED BY <1>2, <1>4, <3>1, <4>1, <4>3, <4>4 DEF Looks
    <3>4. Cleans(c)'
      BY <3>1 DEF Cleans, Cleaning
    <3>5. Ends(c)'
      <4>1. ~Beats(health) => Looping = {}
        BY DEF Looping, CalmInv, FilesFollow, LoopSteps
      <4>2. ~Beats(seen'[c].health) => Looping' = {}
        BY <1>5, <3>2, <4>1
      <4> QED BY <1>1, <1>2, <1>4, <3>1, <4>2 DEF Truthful, Ends
    <3>6. Starts(c)'
      <4> SUFFICES ASSUME kind[c] = "up wait" PROVE Starts(c)'
        BY <1>2, <3>1 DEF Starts
      <4>1. /\ \A r \in HubRuntimes : at[r] # "off" => ~stop /\ at[r] \notin EndSteps
            /\ ~crashed => \E r \in HubRuntimes : at[r] \notin {"off", "drop"}
        BY <1>1 DEF Truthful, Starts
      <4>2. ASSUME ~crashed, health.status = "running" PROVE Looping # {}
        <5>1. PICK r \in HubRuntimes : at[r] \notin {"off", "drop"}
          BY <4>1, <4>2
        <5>2. FilesFollow(r) /\ at[r] \in RuntimeSteps /\ at[r] \notin EndSteps
          BY <4>1, <5>1 DEF CalmInv, HubTypes, InPlace, Processes
        <5>3. health # NoHealth
          <6>1. NoHealth.status = "none"
            BY DEF NoHealth
          <6> QED BY <4>2, <6>1
        <5>4. at[r] \in LoopSteps
          BY <4>2, <5>1, <5>2, <5>3 DEF FilesFollow, RuntimeSteps, StartSteps, Clean
        <5> QED BY <5>4 DEF Looping, LoopSteps
      <4>3. ~crashed' /\ seen'[c].health.status = "running" => Looping' # {}
        BY <1>2, <1>5, <3>2, <4>2
      <4>4. at'[c] # "ok"
        BY <3>1
      <4> QED BY <1>2, <1>4, <4>1, <4>3, <4>4 DEF Starts
    <3> QED BY <3>3, <3>4, <3>5, <3>6 DEF Truthful
  <2> QED BY <2>1, <2>2
<1>7. \A d \in HubCommands \ {c} : at[d] = "off"
  BY <1>2 DEF CalmInv
<1>8. NoRuntime /\ ~crashed' => health' = NoHealth
  BY <1>2 DEF CalmInv
<1> QED BY <1>2, <1>3, <1>6, <1>7, <1>8, CommandMoves

\* The end of the reads of a command: where the status sends it fits what runs.
LEMMA CommandCollectsCalm ==
    ASSUME HubTypes, CalmInv, NEW c \in HubCommands, Collected(c)
    PROVE  CalmInv'
<1> DEFINE s == Status(seen[c].state, seen[c].health, lock)
<1>1. /\ c \in Processes /\ c \notin HubRuntimes /\ Truthful(c) /\ Consistent(c) /\ evicted = {}
      /\ at[c] = "lock" /\ seen[c] \in Seen
  BY HubAssumption DEF Processes, CalmInv, HubTypes, InPlace, Collected
<1>2. UNCHANGED <<hubState, health, lock, stop, crashed>> /\ evicted' = {} /\ kind' = kind
  BY <1>1 DEF Collected, hubFiles
<1>3. PICK l \in Following(kind[c], s) : Continue(c, l)
  BY DEF Collected
<1>4. /\ at'[c] = l
      /\ \A p \in Processes \ {c} : at'[p] = at[p] /\ kind'[p] = kind[p] /\ seen'[p] = seen[p]
  BY <1>1, <1>3 DEF Collected, Continue, HubTypes
<1>5. \A r \in HubRuntimes : at'[r] = at[r]
  BY <1>1, <1>4 DEF Processes
<1>6. (NoRuntime' <=> NoRuntime) /\ Looping' = Looping /\ (Clean' <=> Clean)
  BY <1>2, <1>5 DEF NoRuntime, Looping, Clean
<1>7. /\ LiveStatus(s) => Beats(seen[c].health) /\ s = seen[c].health.status
      /\ ~LiveStatus(s) => ~Beats(seen[c].health) \/ (lock # NoLock /\ ~lock.payload)
  BY <1>1, StatusSays DEF Seen
<1>8. kind[c] \in {"up", "down", "repair"} => /\ ~LiveStatus(s) => NoRuntime
                                              /\ LiveStatus(s) /\ ~crashed => Looping # {}
                                              /\ s = "stopped" => Clean
  BY <1>1, FirstLook
<1>9. NoRuntime => Looping = {}
  BY DEF NoRuntime, Looping
<1>10. kind[c] \in {"up", "down", "repair"} =>
          \A r \in HubRuntimes : at[r] # "off" => ~stop /\ at[r] \notin EndSteps \cup StartSteps
  BY <1>1 DEF Truthful, Looks, Reads, EndSteps, StartSteps
<1>11. Truthful(c)'
  <2> HIDE DEF s
  <2>1. CASE kind[c] = "up"
    <3>1. l \in UpFirst(s)
      BY <1>3, <2>1 DEF Following
    <3>2. Looks(c)' /\ Ends(c)'
      BY <1>2, <1>4, <2>1, <3>1 DEF UpFirst, Looks, Ends, Reads
    <3>3. LiveStatus(s) \/ s \in {"stopped", "stale", "corrupt"}
      BY DEF s, Status
    <3>4. \/ LiveStatus(s) /\ l = "ok"
          \/ l = "failed"
          \/ ~LiveStatus(s) /\ l = "clean stop"
          \/ ~LiveStatus(s) /\ s = "stopped" /\ l = "launch"
      BY <3>1, <3>3 DEF UpFirst
    <3>5. Cleans(c)'
      BY <1>2, <1>4, <1>6, <1>8, <2>1, <3>4 DEF Cleans, Cleaning
    <3>6. Starts(c)'
      <4> SUFFICES ASSUME l = "ok" PROVE Starts(c)'
        BY <1>2, <1>4, <2>1 DEF Starts
      <4>1. ~crashed => Looping # {} /\ \E r \in HubRuntimes : at[r] \notin {"off", "drop"}
        BY <1>8, <2>1, <3>4 DEF Looping
      <4> QED BY <1>2, <1>4, <1>5, <1>6, <1>10, <2>1, <4>1 DEF Starts
    <3> QED BY <3>2, <3>5, <3>6 DEF Truthful
  <2>2. CASE kind[c] = "up wait"
    <3>1. l \in UpWait(s)
      BY <1>3, <2>2 DEF Following
    <3>2. l \in {"state", "ok", "failed"} /\ (l = "ok" => s = "running")
      BY <3>1 DEF UpWait
    <3>3. Looks(c)' /\ Ends(c)' /\ Cleans(c)'
      BY <1>2, <1>4, <2>2, <3>2 DEF Looks, Ends, Cleans, Cleaning
    <3>4. /\ \A r \in HubRuntimes : at[r] # "off" => ~stop /\ at[r] \notin EndSteps
          /\ ~crashed => \E r \in HubRuntimes : at[r] \notin {"off", "drop"}
          /\ ~crashed /\ seen[c].health.status = "running" => Looping # {}
      BY <1>1, <2>2 DEF Truthful, Starts
    <3>5. l = "ok" /\ ~crashed => Looping # {}
      BY <1>7, <3>2, <3>4 DEF LiveStatus
    <3>6. Starts(c)'
      BY <1>2, <1>4, <1>5, <1>6, <3>2, <3>4, <3>5 DEF Starts
    <3> QED BY <3>3, <3>6 DEF Truthful
  <2>3. CASE kind[c] = "down"
    <3>1. l \in DownFirst(s)
      BY <1>3, <2>3 DEF Following
    <3>2. /\ l \in {"request", "failed", "clean stop", "ok"}
          /\ l \in {"clean stop", "ok"} => NoRuntime
      BY <1>8, <2>3, <3>1 DEF DownFirst
    <3>3. Looks(c)' /\ Starts(c)'
      BY <1>2, <1>4, <2>3, <3>2 DEF Looks, Starts, Reads
    <3>4. Cleans(c)'
      BY <1>2, <1>4, <1>6, <2>3, <3>2 DEF Cleans, Cleaning
    <3>5. \A r \in HubRuntimes : at'[r] \notin StartSteps
      BY <1>1, <1>5, <2>3 DEF Truthful, Ends
    <3>6. Ends(c)'
      BY <1>2, <1>4, <1>6, <1>9, <2>3, <3>2, <3>5 DEF Ends
    <3> QED BY <3>3, <3>4, <3>6 DEF Truthful
  <2>4. CASE kind[c] = "down wait"
    <3>1. l \in DownWait(s)
      BY <1>3, <2>4 DEF Following
    <3>2. l \in {"state", "ok", "failed"} /\ (l = "ok" => ~LiveStatus(s))
      BY <3>1 DEF DownWait
    <3>3. Looks(c)' /\ Starts(c)' /\ Cleans(c)'
      BY <1>2, <1>4, <2>4, <3>2 DEF Looks, Starts, Cleans, Cleaning
    <3>4. /\ \A r \in HubRuntimes : at'[r] \notin StartSteps
          /\ ~Beats(seen[c].health) => Looping = {}
      BY <1>1, <1>5, <2>4 DEF Truthful, Ends
    <3>5. lock # NoLock /\ ~lock.payload => Looping = {}
      BY GuardedSteps DEF Looping, Guarded, CalmInv, FilesFollow
    <3>6. l = "ok" => Looping = {}
      BY <1>7, <3>2, <3>4, <3>5
    <3>7. Ends(c)'
      BY <1>2, <1>4, <1>6, <2>4, <3>2, <3>4, <3>6 DEF Ends
    <3> QED BY <3>3, <3>7 DEF Truthful
  <2>5. CASE kind[c] = "repair"
    <3>1. l \in RepairFirst(s)
      BY <1>3, <2>5 DEF Following
    <3>2. l \in {"failed", "diagnose"} /\ (l = "diagnose" => NoRuntime)
      BY <1>8, <2>5, <3>1 DEF RepairFirst
    <3> QED BY <1>2, <1>4, <1>6, <2>5, <3>2
          DEF Truthful, Looks, Starts, Ends, Cleans, Cleaning, Reads
  <2> QED BY <1>1, <2>1, <2>2, <2>3, <2>4, <2>5 DEF Consistent
<1>12. \A d \in HubCommands \ {c} : at[d] = "off"
  BY <1>1 DEF CalmInv
<1>13. NoRuntime /\ ~crashed' => health' = NoHealth
  BY <1>2 DEF CalmInv
<1> QED BY <1>2, <1>4, <1>11, <1>12, <1>13, CommandMoves

\* A command that goes on cleaning up where there is no runtime.
LEMMA CleaningTruthful ==
    ASSUME NEW c \in HubCommands, NoRuntime', Cleans(c)', kind'[c] \in {"up", "down", "repair"},
           at'[c] \notin Reads, at'[c] # "ok" \/ kind'[c] # "up"
    PROVE  Truthful(c)'
<1>1. Looks(c)' /\ Starts(c)'
  BY DEF Looks, Starts
<1>2. Ends(c)'
  BY DEF Ends, NoRuntime, Looping, StartSteps, Reads
<1> QED BY <1>1, <1>2 DEF Truthful

\* The steps of a command that start no runtime.
LEMMA CommandKeepsCalm ==
    ASSUME HubTypes, CalmInv, calm, NEW c \in HubCommands, HubCommand(c), ~SpawnRuntime(c)
    PROVE  CalmInv'
<1> USE DEF Quiet
<1>1. c \in Processes /\ c \notin HubRuntimes /\ Truthful(c) /\ Consistent(c) /\ evicted = {}
  BY HubAssumption DEF Processes, CalmInv, HubTypes, InPlace
<1>2. /\ \E l : Continue(c, l)
      /\ kind' = kind \/ \E k : kind' = [kind EXCEPT ![c] = k]
      /\ seen' = seen
  BY DEF HubCommand, Begin, CleanStop, CleanHealth, CleanLock, CleanState, Diagnose, Archive,
         Launch, RequestStop, Fail, End
<1>3. \A p \in Processes \ {c} : at'[p] = at[p] /\ kind'[p] = kind[p] /\ seen'[p] = seen[p]
  BY <1>1, <1>2 DEF Continue, HubTypes
<1>4. \A r \in HubRuntimes : at'[r] = at[r]
  BY <1>1, <1>3 DEF Processes
<1>5. (NoRuntime' <=> NoRuntime) /\ Looping' = Looping /\ (NoRuntime => Guarded = {})
  BY <1>4 DEF NoRuntime, Looping, Guarded
<1>6. \A d \in HubCommands \ {c} : at[d] = "off"
  <2>1. CASE at[c] # "off"
    BY <2>1 DEF CalmInv
  <2>2. CASE at[c] = "off"
    BY <2>2 DEF HubCommand, Begin, CleanStop, CleanHealth, CleanLock, CleanState, Diagnose, Archive,
                Launch, RequestStop, Fail, End
  <2> QED BY <2>1, <2>2
<1> SUFFICES /\ evicted' = {} /\ Truthful(c)'
             /\ \/ UNCHANGED <<hubState, health, lock, crashed>>
                \/ NoRuntime /\ (~crashed' => health' = NoHealth)
  <2>1. NoRuntime /\ ~crashed => health = NoHealth
    BY DEF CalmInv
  <2>2. NoRuntime \/ UNCHANGED <<hubState, health, lock, crashed>>
    OBVIOUS
  <2>3. NoRuntime /\ ~crashed' => health' = NoHealth
    <3>1. CASE UNCHANGED <<hubState, health, lock, crashed>>
      <4>1. health' = health /\ crashed' = crashed
        BY <3>1
      <4> QED BY <2>1, <4>1
    <3>2. CASE NoRuntime /\ (~crashed' => health' = NoHealth)
      BY <3>2
    <3> QED BY <3>1, <3>2
  <2> QED BY <1>3, <1>6, <2>2, <2>3, CommandMoves
<1>7. at[c] \in Cleaning => NoRuntime /\ kind[c] \in {"up", "down", "repair"}
  BY <1>1 DEF Truthful, Cleans, Consistent
<1>8. /\ NoRuntime /\ ~crashed => health = NoHealth
      /\ at[c] \in {"clean lock", "clean state"} => health = NoHealth
      /\ at[c] = "clean state" => lock = NoLock
  BY <1>1 DEF CalmInv, Truthful, Cleans
<1>9. ASSUME NEW k \in {"up", "down", "repair"}, Begin(c, k)
      PROVE  evicted' = {} /\ Truthful(c)' /\ UNCHANGED <<hubState, health, lock, crashed>>
  <2>1. /\ at'[c] = "state" /\ kind'[c] = k /\ UNCHANGED <<hubState, health, lock, stop, crashed>>
        /\ evicted' = {} /\ \A r \in HubRuntimes : at[r] # "off" => at[r] = "sleep" /\ ~stop
    BY <1>1, <1>9 DEF Begin, Continue, hubFiles, HubTypes
  <2>2. \A r \in HubRuntimes : at[r] # "off" => hubState = "running" /\ Beats(health)
    BY <2>1 DEF CalmInv, FilesFollow, LoopSteps
  <2>3. Looks(c)'
    BY <1>4, <2>1, <2>2 DEF Looks
  <2>4. Cleans(c)' /\ Starts(c)'
    BY <2>1 DEF Cleans, Starts, Cleaning
  <2>5. Ends(c)'
    BY <1>4, <2>1 DEF Ends, StartSteps, Reads
  <2> QED BY <2>1, <2>3, <2>4, <2>5 DEF Truthful
<1>10. ASSUME End(c)
       PROVE  evicted' = {} /\ Truthful(c)' /\ UNCHANGED <<hubState, health, lock, crashed>>
  <2>1. at'[c] = "off" /\ kind'[c] = "none"
    BY <1>1, <1>10 DEF End, Continue, HubTypes
  <2> QED BY <1>1, <1>10, <2>1, OffTruthful DEF End, hubFiles
<1>11. ASSUME CleanStop(c) \/ Diagnose(c)
       PROVE  evicted' = {} /\ Truthful(c)' /\ UNCHANGED <<hubState, health, lock, crashed>>
  <2>1. /\ at'[c] \in {"clean health", "archive", "clean stop"} /\ kind' = kind
        /\ at[c] \in Cleaning
    BY <1>1, <1>11 DEF CleanStop, Diagnose, Continue, HubTypes, Cleaning
  <2>2. Cleans(c)'
    BY <1>5, <1>7, <2>1 DEF Cleans
  <2>3. Truthful(c)'
    BY <1>5, <1>7, <2>1, <2>2, CleaningTruthful DEF Reads
  <2> QED BY <1>1, <1>11, <2>3 DEF CleanStop, Diagnose, hubFiles
<1>12. ASSUME CleanHealth(c)
       PROVE  evicted' = {} /\ Truthful(c)' /\ NoRuntime /\ health' = NoHealth
  <2>1. at'[c] = "clean lock" /\ kind' = kind /\ health' = NoHealth /\ at[c] \in Cleaning
    BY <1>1, <1>12 DEF CleanHealth, Continue, HubTypes, Cleaning
  <2>2. Cleans(c)'
    BY <1>5, <1>7, <2>1 DEF Cleans
  <2>3. Truthful(c)'
    BY <1>5, <1>7, <2>1, <2>2, CleaningTruthful DEF Reads
  <2> QED BY <1>1, <1>7, <1>12, <2>1, <2>3 DEF CleanHealth
<1>13. ASSUME CleanLock(c)
       PROVE  evicted' = {} /\ Truthful(c)' /\ NoRuntime /\ health' = NoHealth
  <2>1. /\ at'[c] = "clean state" /\ kind' = kind /\ health' = NoHealth /\ lock' = NoLock
        /\ at[c] \in Cleaning
    BY <1>1, <1>8, <1>13 DEF CleanLock, RemoveLock, Continue, HubTypes, Cleaning
  <2>2. Cleans(c)'
    BY <1>5, <1>7, <2>1 DEF Cleans
  <2>3. Truthful(c)'
    BY <1>5, <1>7, <2>1, <2>2, CleaningTruthful DEF Reads
  <2>4. evicted' = {}
    BY <1>5, <1>7, <1>13, <2>1 DEF CleanLock, RemoveLock
  <2> QED BY <1>7, <2>1, <2>3, <2>4
<1>14. ASSUME CleanState(c)
       PROVE  evicted' = {} /\ Truthful(c)' /\ NoRuntime /\ health' = NoHealth
  <2>1. /\ at'[c] = (IF kind[c] = "up" THEN "launch" ELSE "ok") /\ kind' = kind
        /\ at[c] \in Cleaning /\ Clean' /\ health' = NoHealth
    BY <1>1, <1>8, <1>14 DEF CleanState, Continue, HubTypes, Cleaning, Clean
  <2>2. Cleans(c)'
    BY <1>5, <1>7, <2>1 DEF Cleans, Cleaning
  <2>3. Truthful(c)'
    BY <1>5, <1>7, <2>1, <2>2, CleaningTruthful DEF Reads
  <2> QED BY <1>1, <1>7, <1>14, <2>1, <2>3 DEF CleanState
<1>15. ASSUME Archive(c)
       PROVE  evicted' = {} /\ Truthful(c)' /\ NoRuntime /\ (~crashed' => health' = NoHealth)
  <2>1. /\ at'[c] \in {"failed", "clean stop"} /\ kind' = kind /\ at[c] \in Cleaning
        /\ crashed' = crashed /\ health' = health
    BY <1>1, <1>15 DEF Archive, Continue, HubTypes, Cleaning
  <2>2. Cleans(c)'
    BY <1>5, <1>7, <2>1 DEF Cleans
  <2>3. Truthful(c)'
    BY <1>5, <1>7, <2>1, <2>2, CleaningTruthful DEF Reads
  <2>4. evicted' = {}
    BY <1>5, <1>7, <1>15, <2>1 DEF Archive, RemoveLock
  <2> QED BY <1>7, <1>8, <2>1, <2>3, <2>4
<1>16. ASSUME Launch(c)
       PROVE  evicted' = {} /\ Truthful(c)' /\ UNCHANGED <<hubState, health, lock, crashed>>
  <2>1. /\ at'[c] = "spawn" /\ kind' = kind /\ kind[c] = "up" /\ stop' = FALSE /\ Clean /\ NoRuntime
        /\ UNCHANGED <<hubState, health, lock, crashed>> /\ evicted' = {}
    BY <1>1, <1>16 DEF Launch, Continue, HubTypes, Consistent, Truthful, Cleans
  <2>2. Cleans(c)'
    BY <1>5, <2>1 DEF Cleans, Clean
  <2>3. Truthful(c)'
    BY <1>5, <2>1, <2>2, CleaningTruthful DEF Reads
  <2> QED BY <2>1, <2>3
<1>17. ASSUME RequestStop(c)
       PROVE  evicted' = {} /\ Truthful(c)' /\ UNCHANGED <<hubState, health, lock, crashed>>
  <2>1. /\ at'[c] = "state" /\ kind'[c] = "down wait" /\ kind[c] = "down"
        /\ UNCHANGED <<hubState, health, lock, crashed>> /\ evicted' = {}
    BY <1>1, <1>17 DEF RequestStop, Continue, HubTypes, Consistent
  <2>2. \A r \in HubRuntimes : at'[r] \notin StartSteps
    BY <1>1, <1>4, <2>1 DEF Truthful, Ends
  <2>3. Looks(c)' /\ Cleans(c)' /\ Starts(c)'
    BY <2>1 DEF Looks, Cleans, Starts, Cleaning
  <2>4. Ends(c)'
    BY <2>1, <2>2 DEF Ends
  <2> QED BY <2>1, <2>3, <2>4 DEF Truthful
<1>18. ASSUME Fail(c)
       PROVE  evicted' = {} /\ Truthful(c)' /\ UNCHANGED <<hubState, health, lock, crashed>>
  <2>1. at'[c] = "failed" /\ kind' = kind /\ kind[c] \in {"up", "down", "repair"}
    BY <1>1, <1>7, <1>18 DEF Fail, Continue, HubTypes, Consistent, Cleaning
  <2>2. kind[c] = "down" => \A r \in HubRuntimes : at'[r] \notin StartSteps
    BY <1>1, <1>4 DEF Truthful, Ends
  <2>3. Truthful(c)'
    BY <2>1, <2>2 DEF Truthful, Looks, Cleans, Starts, Ends, Cleaning, Reads
  <2> QED BY <1>1, <1>18, <2>3 DEF Fail, hubFiles
<1> QED BY <1>9, <1>10, <1>11, <1>12, <1>13, <1>14, <1>15, <1>16, <1>17, <1>18 DEF HubCommand

\* The start of a runtime.
LEMMA SpawnKeepsCalm ==
    ASSUME HubTypes, CalmInv, NEW c \in HubCommands, SpawnRuntime(c)
    PROVE  CalmInv'
<1>1. /\ c \in Processes /\ c \notin HubRuntimes /\ evicted' = {} /\ at[c] = "spawn"
      /\ UNCHANGED <<hubState, health, lock, stop, seen>> /\ NoRuntime /\ Clean /\ ~stop
  BY HubAssumption DEF Processes, CalmInv, Truthful, Cleans, SpawnRuntime, hubFiles
<1>2. PICK r \in HubRuntimes :
         /\ at[r] = "off"
         /\ \/ /\ at' = [at EXCEPT ![r] = "state", ![c] = "state"]
               /\ kind' = [kind EXCEPT ![c] = "up wait"]
            \/ /\ at' = [at EXCEPT ![r] = "state", ![c] = "off"]
               /\ kind' = [kind EXCEPT ![c] = "none"]
  BY DEF SpawnRuntime
<1>3. r \in Processes /\ r # c /\ r \notin HubCommands
  BY <1>1, HubAssumption DEF Processes
<1>4. at'[r] = "state" /\ \A p \in Processes \ {r, c} : at'[p] = at[p]
  BY <1>1, <1>2, <1>3 DEF HubTypes
<1>5. \/ at'[c] = "state" /\ kind'[c] = "up wait"
      \/ at'[c] = "off" /\ kind'[c] = "none"
  BY <1>1, <1>2, <1>3 DEF HubTypes
<1>6. \A p \in Processes \ {c} : kind'[p] = kind[p]
  BY <1>2 DEF HubTypes
<1>7. \A q \in HubRuntimes \ {r} : at'[q] = "off"
  BY <1>1, <1>4 DEF NoRuntime, Processes
<1>8. ASSUME NEW d \in HubCommands \ {c} PROVE at'[d] = "off" /\ kind'[d] = "none"
  <2>1. d \in Processes \ {r, c} /\ at[d] = "off"
    BY <1>1, <1>3 DEF CalmInv, Processes
  <2>2. kind[d] = "none"
    BY <2>1 DEF HubTypes, InPlace, Consistent
  <2> QED BY <1>4, <1>6, <2>1, <2>2
<1>9. ASSUME NEW q \in HubRuntimes PROVE FilesFollow(q)'
  <2>1. CASE q = r
    <3>1. seen'[r] = Unread
      BY <1>1, <1>2, <1>3 DEF HubTypes, InPlace
    <3>2. Clean' /\ r \notin Guarded'
      BY <1>1, <1>4, GuardedSteps DEF Clean, HoldSteps, LoopSteps, EndSteps
    <3> QED BY <1>4, <2>1, <3>1, <3>2 DEF FilesFollow, LoopSteps
  <2>2. CASE q # r
    <3>1. at'[q] = "off"
      BY <1>7, <2>2
    <3>2. q \notin Guarded'
      BY <3>1, GuardedSteps DEF HoldSteps, LoopSteps, EndSteps
    <3> QED BY <3>1, <3>2 DEF FilesFollow, LoopSteps, Reads
  <2> QED BY <2>1, <2>2
<1>10. Truthful(c)'
  <2>1. CASE at'[c] = "off" /\ kind'[c] = "none"
    BY <2>1, OffTruthful
  <2>2. CASE at'[c] = "state" /\ kind'[c] = "up wait"
    <3>1. Looks(c)' /\ Cleans(c)' /\ Ends(c)'
      BY <2>2 DEF Looks, Cleans, Ends, Cleaning
    <3>2. Starts(c)'
      BY <1>1, <1>4, <1>7, <2>2 DEF Starts, EndSteps
    <3> QED BY <3>1, <3>2 DEF Truthful
  <2> QED BY <1>5, <2>1, <2>2
<1>11. \A d \in HubCommands : Truthful(d)'
  BY <1>8, <1>10, OffTruthful
<1>12. ~NoRuntime'
  BY <1>4 DEF NoRuntime
<1> QED BY <1>1, <1>7, <1>8, <1>9, <1>11, <1>12 DEF CalmInv

\* The crash of a command.
LEMMA CommandCrashCalm ==
    ASSUME HubTypes, CalmInv, calm, NEW c \in HubCommands, Death(c)
    PROVE  CalmInv'
<1>1. c \in Processes /\ c \notin HubRuntimes /\ evicted = {} /\ crashed \in BOOLEAN
  BY HubAssumption DEF Processes, CalmInv, HubTypes, FileTypes
<1>2. /\ UNCHANGED <<hubState, health, lock>> /\ evicted' = {} /\ at[c] # "off"
      /\ at'[c] = "off" /\ kind'[c] = "none"
      /\ \A p \in Processes \ {c} : at'[p] = at[p] /\ kind'[p] = kind[p] /\ seen'[p] = seen[p]
  BY <1>1 DEF Death, Continue, HubTypes, hubFiles
<1>3. crashed' = crashed
  <2>1. CASE crashed
    BY <1>1, <2>1 DEF Death
  <2>2. CASE ~crashed
    BY <1>1, <2>2 DEF Death
  <2> QED BY <2>1, <2>2
<1>4. \A d \in HubCommands \ {c} : at[d] = "off"
  BY <1>2 DEF CalmInv
<1>5. NoRuntime /\ ~crashed' => health' = NoHealth
  BY <1>2, <1>3 DEF CalmInv
<1>6. Truthful(c)'
  BY <1>2, OffTruthful
<1> QED BY <1>2, <1>3, <1>4, <1>5, <1>6, CommandMoves

\* Two seconds pass without a runtime.
LEMMA AgeKeepsCalm ==
    ASSUME HubTypes, CalmInv, calm, Age
    PROVE  CalmInv'
<1>1. /\ UNCHANGED <<hubState, lock, stop, at, kind, seen, crashed, evicted>> /\ NoRuntime
      /\ health.fresh /\ health' = [health EXCEPT !.fresh = FALSE] /\ health \in HealthFile
  BY DEF Age, Quiet, NoRuntime, HubTypes, FileTypes
<1>2. NoHealth.fresh = FALSE /\ NoHealth.status = "none"
  BY DEF NoHealth
<1>3. health # NoHealth
  BY <1>1, <1>2
<1>4. health'.status \in {"starting", "running"}
  BY <1>1, <1>3 DEF HealthFile
<1>5. health' # NoHealth
  BY <1>2, <1>4
<1>6. NoRuntime' /\ Looping' = {} /\ Looping = {} /\ Guarded' = {}
  BY <1>1 DEF NoRuntime, Looping, Guarded
<1>7. ASSUME NEW c \in HubCommands PROVE Truthful(c)'
  <2>1. Truthful(c)
    BY DEF CalmInv
  <2>2. Looks(c)'
    BY <1>1, <1>3, <1>5, <1>6, <2>1 DEF Truthful, Looks, NoRuntime
  <2>3. Cleans(c)'
    BY <1>1, <1>3, <1>6, <2>1 DEF Truthful, Cleans, Clean
  <2>4. Ends(c)'
    BY <1>1, <1>6, <2>1 DEF Truthful, Ends
  <2>5. Starts(c)'
    BY <1>1, <1>6, <2>1 DEF Truthful, Starts
  <2> QED BY <2>2, <2>3, <2>4, <2>5 DEF Truthful
<1>8. \A r \in HubRuntimes : FilesFollow(r)'
  BY <1>1, <1>6 DEF FilesFollow, NoRuntime, Reads, LoopSteps
<1>9. crashed'
  BY <1>1, <1>3 DEF CalmInv
<1> QED BY <1>1, <1>7, <1>8, <1>9 DEF CalmInv

\* The inductive invariant of the hub runtime and its commands (src/hub/lifecycle.rs,
\* runtime.rs): in every run a runtime whose lock was not removed under it has the lock; in
\* a calm run the files say where the one runtime is, and what a command has read or is
\* about to do limits where the runtime may be.
THEOREM HubInvariant == HubSpec => []HubInv
<1>1. HubInit => HubInv
  <2> SUFFICES ASSUME HubInit PROVE HubInv
    OBVIOUS
  <2>1. FileTypes
    BY DEF HubInit, FileTypes, HealthFile, HubLocks
  <2>2. \A p \in Processes : /\ at[p] = "off" /\ seen[p] = Unread
                             /\ p \in HubRuntimes => kind[p] = "run"
                             /\ p \notin HubRuntimes => kind[p] = "none"
    BY DEF HubInit
  <2>3. Unread \in Seen
    BY SMTT(30) DEF Unread, Seen, HealthFile
  <2>4. ASSUME NEW p \in Processes PROVE InPlace(p)
    <3>1. CASE p \in HubRuntimes
      BY <2>2, <2>3, <3>1, HubAssumption DEF InPlace, RuntimeSteps
    <3>2. CASE p \notin HubRuntimes
      BY <2>2, <2>3, <3>2 DEF InPlace, Consistent, CommandSteps, Cleaning
    <3> QED BY <3>1, <3>2
  <2>5. /\ at = [p \in Processes |-> at[p]] /\ kind = [p \in Processes |-> kind[p]]
        /\ seen = [p \in Processes |-> seen[p]]
    BY DEF HubInit
  <2>6. HubTypes
    BY <2>1, <2>4, <2>5 DEF HubTypes
  <2>7. Guarded = {} /\ NoRuntime
    BY <2>2 DEF Guarded, Looping, NoRuntime, Processes
  <2>8. LockOwned
    BY <2>7 DEF LockOwned, HubInit
  <2>9. \A r \in HubRuntimes : FilesFollow(r)
    BY <2>7 DEF FilesFollow, NoRuntime, LoopSteps, Reads
  <2>10. ASSUME NEW c \in HubCommands PROVE Truthful(c)
    <3>1. at[c] = "off" /\ kind[c] = "none"
      BY <2>2, HubAssumption DEF Processes
    <3> QED BY <3>1 DEF Truthful, Looks, Cleans, Ends, Starts, Reads, Cleaning
  <2>11. \A c \in HubCommands : at[c] = "off"
    BY <2>2 DEF Processes
  <2>12. CalmInv
    BY <2>7, <2>9, <2>10, <2>11 DEF CalmInv, HubInit, NoRuntime
  <2> QED BY <2>6, <2>8, <2>12 DEF HubInv
<1>2. HubInv /\ [HubNext]_hubVars => HubInv'
  <2> SUFFICES ASSUME HubInv, [HubNext]_hubVars PROVE HubInv'
    OBVIOUS
  <2>1. CASE UNCHANGED hubVars
    <3>1. HubTypes'
      BY <2>1 DEF HubInv, hubVars, HubTypes, FileTypes, InPlace, Consistent
    <3>2. LockOwned'
      BY <2>1 DEF HubInv, hubVars, LockOwned, Guarded, Looping
    <3>3. ASSUME calm' PROVE CalmInv'
      <4>1. CalmInv
        BY <2>1, <3>3 DEF HubInv, hubVars
      <4>2. \A c \in HubCommands : Truthful(c)'
        BY <2>1, <4>1 DEF CalmInv, hubVars, Truthful, Looks, Cleans, Ends, Starts, NoRuntime, Clean,
                          Looping
      <4>3. \A r \in HubRuntimes : FilesFollow(r)'
        BY <2>1, <4>1 DEF CalmInv, hubVars, FilesFollow, Clean, Guarded, Looping
      <4> QED BY <2>1, <4>1, <4>2, <4>3 DEF CalmInv, hubVars, NoRuntime
    <3> QED BY <3>1, <3>2, <3>3 DEF HubInv
  <2>2. CASE HubNext
    <3>1. HubTypes /\ LockOwned /\ (calm => CalmInv)
      BY DEF HubInv
    <3>2. HubTypes'
      BY <2>2, <3>1, CommandTypes, RuntimeTypes, OtherTypes DEF HubNext
    <3>3. LockOwned'
      BY <2>2, <3>1, OwnedKept
    <3>4. calm' = calm
      BY <2>2 DEF HubNext, HubCommand, Begin, CleanStop, CleanHealth, CleanLock, CleanState, Diagnose,
                  Archive, Launch, SpawnRuntime, RequestStop, Fail, End, Runtime, Acquire, Payload,
                  Starting, Loop, Ending, WriteState, WriteHealth, RemoveStop, Drop, GiveUp,
                  ReadState, ReadHealth, Collected, Death, Age, Quiet
    <3>5. ASSUME calm PROVE CalmInv'
      <4>1. CalmInv
        BY <3>1, <3>5
      <4>2. CASE \E c \in HubCommands : HubCommand(c)
        <5>1. PICK c \in HubCommands : HubCommand(c)
          BY <4>2
        <5>2. CASE SpawnRuntime(c)
          BY <3>1, <4>1, <5>2, SpawnKeepsCalm
        <5>3. CASE ~SpawnRuntime(c)
          BY <3>1, <3>5, <4>1, <5>1, <5>3, CommandKeepsCalm
        <5> QED BY <5>2, <5>3
      <4>3. CASE \E r \in HubRuntimes : Runtime(r)
        BY <3>1, <3>5, <4>1, <4>3, RuntimeKeepsCalm
      <4>4. ASSUME NEW p \in Processes, ReadState(p) \/ ReadHealth(p) \/ Collected(p) \/ Death(p)
            PROVE  CalmInv'
        <5>1. CASE p \in HubRuntimes
          BY <3>1, <3>5, <4>1, <4>4, <5>1, RuntimeReadsCalm, RuntimeCrashCalm
        <5>2. CASE p \in HubCommands
          BY <3>1, <3>5, <4>1, <4>4, <5>2, CommandReadsCalm, CommandCollectsCalm, CommandCrashCalm
        <5> QED BY <5>1, <5>2 DEF Processes
      <4>5. CASE Age
        BY <3>1, <3>5, <4>1, <4>5, AgeKeepsCalm
      <4> QED BY <2>2, <4>2, <4>3, <4>4, <4>5 DEF HubNext
    <3> QED BY <3>2, <3>3, <3>4, <3>5 DEF HubInv
  <2> QED BY <2>1, <2>2
<1> QED BY <1>1, <1>2, PTL DEF HubSpec

\* Two runtimes hold the lock at once only after somebody removed the lock of one of them
\* (acquire_runtime_lock, RuntimeLockGuard, mark_stopped); in a calm run nobody ever does, for
\* any number of commands and runtimes and whatever crashed before.
THEOREM OneRuntimeAlways == HubSpec => []OneRuntime
<1>1. HubInv => OneRuntime
  BY DEF HubInv, LockOwned, CalmInv, OneRuntime
<1> QED BY <1>1, HubInvariant, PTL

\* What a successful up, down or repair says is so in a calm run (hub_up, hub_down, hub_repair
\* and the waits on collect_status), for any number of commands and runtimes.
THEOREM CommandsAlwaysTruthful == HubSpec => []CommandsTellTheTruth
<1>1. HubInv => CommandsTellTheTruth
  <2> SUFFICES ASSUME HubInv, calm, NEW c \in HubCommands, at[c] = "ok"
               PROVE  CASE kind[c] \in {"up", "up wait"} -> Looping # {} \/ crashed
                        [] kind[c] \in {"down", "down wait"} -> Looping = {}
                        [] kind[c] = "repair" -> Status(hubState, health, lock) = "stopped"
    BY DEF CommandsTellTheTruth
  <2>1. Truthful(c) /\ kind[c] \in {"up", "up wait", "down", "down wait", "repair"}
    BY DEF HubInv, CalmInv, HubTypes, InPlace, Consistent, Processes
  <2>2. CASE kind[c] \in {"up", "up wait"}
    BY <2>1, <2>2 DEF Truthful, Starts
  <2>3. CASE kind[c] \in {"down", "down wait"}
    BY <2>1, <2>3 DEF Truthful, Ends
  <2>4. CASE kind[c] = "repair"
    <3>1. Clean
      BY <2>1, <2>4 DEF Truthful, Cleans
    <3>2. NoHealth.status = "none" /\ NoHealth.fresh = FALSE
      BY DEF NoHealth
    <3>3. Status(hubState, health, lock) = "stopped"
      BY <3>1, <3>2 DEF Clean, Status, LiveStatus
    <3> QED BY <2>4, <3>3
  <2> QED BY <2>1, <2>2, <2>3, <2>4
<1> QED BY <1>1, HubInvariant, PTL

-----------------------------------------------------------------------------
(* The lease store: types.                                                  *)

\* normalize_ttl yields a positive lifetime that is at most the maximum.
LEMMA TtlInRange ==
    ASSUME NEW ttl \in Ttls
    PROVE  NormalizeTtl(ttl) \in 1 .. MAX_LEASE_TTL_MS
  BY SMTT(30), StoreAssumption DEF NormalizeTtl, Least

\* The lease that an acquire inserts, or a renew extends, is a lease.
LEMMA FreshLease ==
    ASSUME NEW ttl \in Ttls, NEW route \in Routes, now \in 0 .. MaxNow
    PROVE  /\ now + NormalizeTtl(ttl) \in 1 .. (MaxNow + MAX_LEASE_TTL_MS)
           /\ [route |-> route, expires |-> now + NormalizeTtl(ttl)] \in Lease
<1>1. now + NormalizeTtl(ttl) \in 1 .. (MaxNow + MAX_LEASE_TTL_MS)
  BY SMTT(30), TtlInRange, StoreAssumption
<1> QED
  BY <1>1 DEF Lease

\* Purging keeps some leases and drops the others.
LEMMA PurgedShape ==
    ASSUME leases \in [Ids -> Lease \cup {NoLease}]
    PROVE  /\ PurgeExpired(leases) \in [Ids -> Lease \cup {NoLease}]
           /\ Active(PurgeExpired(leases)) \subseteq Active(leases)
           /\ \A i \in Active(PurgeExpired(leases)) : PurgeExpired(leases)[i] = leases[i]
           /\ \A i \in Active(leases) :
                 leases[i].expires > now => PurgeExpired(leases)[i] = leases[i]
           /\ \A i \in Ids : PurgeExpired(leases)[i] \in {NoLease, leases[i]}
  BY DEF PurgeExpired, Active

\* The store that seed_json_if_missing writes.
Blank == [i \in Ids |-> NoLease]

\* What one step does to the leases: nothing, a purge with one lease dropped or
\* extended, a purge with one lease dropped and a new one inserted, or a seed.
LEMMA StepShape ==
    ASSUME TypeOK, Next
    PROVE  \/ UNCHANGED <<leases, issued>>
           \/ /\ leases' = PurgeExpired(leases)
              /\ UNCHANGED <<issued, now>>
           \/ \E i \in issued :
                 /\ leases' = Without(PurgeExpired(leases), i)
                 /\ Release(i)
                 /\ UNCHANGED <<issued, now>>
           \/ \E i \in issued, ttl \in Ttls :
                 /\ PurgeExpired(leases)[i] # NoLease
                 /\ leases' = [PurgeExpired(leases) EXCEPT ![i].expires = now + NormalizeTtl(ttl)]
                 /\ UNCHANGED <<issued, now>>
           \/ \E c \in Callers, takeover \in BOOLEAN, ttl \in Ttls, id \in Ids \ issued :
                 \E old \in MakesWay(PurgeExpired(leases), plan[c], takeover) :
                    /\ plan[c] # NoRoute /\ ~Blocked(plan[c]) /\ plan'[c] = NoRoute
                    /\ leases' = Insert(Without(PurgeExpired(leases), old), id, plan[c], ttl)
                    /\ issued' = issued \cup {id}
                    /\ now' = now
           \/ \E c \in seeding :
                 /\ leases' = Blank
                 /\ SeedWrites(c)
                 /\ UNCHANGED <<issued, now>>
<1>1. CASE \E c \in Callers : Plan(c) \/ AcquireFails(c)
  BY <1>1 DEF Plan, AcquireFails
<1>2. CASE \E c \in Callers, takeover \in BOOLEAN : AcquireBlocked(c, takeover)
  BY <1>2 DEF AcquireBlocked, Commit
<1>3. ASSUME NEW c \in Callers, NEW takeover \in BOOLEAN, NEW ttl \in Ttls,
             AcquireGranted(c, takeover, ttl)
      PROVE  \E id \in Ids \ issued :
                 \E old \in MakesWay(PurgeExpired(leases), plan[c], takeover) :
                    /\ plan[c] # NoRoute /\ ~Blocked(plan[c]) /\ plan'[c] = NoRoute
                    /\ leases' = Insert(Without(PurgeExpired(leases), old), id, plan[c], ttl)
                    /\ issued' = issued \cup {id}
                    /\ now' = now
  BY <1>3 DEF AcquireGranted, Commit, TypeOK
<1>4. CASE \E i \in issued : Release(i)
  BY <1>4 DEF Release, Commit
<1>5. CASE \E i \in issued, ttl \in Ttls : Renew(i, ttl)
  BY <1>5 DEF Renew, Commit
<1>6. CASE List
  BY <1>6 DEF List, Commit
<1>7. CASE Reconfigure \/ ClockMoves
  BY <1>7 DEF Reconfigure, ClockMoves
<1>8. CASE \E c \in Callers : SeedLooks(c) \/ SeedFails(c)
  BY <1>8 DEF SeedLooks, SeedFails
<1>9. CASE \E c \in Callers : SeedWrites(c)
  BY <1>9 DEF SeedWrites, Blank
<1> QED
  BY <1>1, <1>2, <1>3, <1>4, <1>5, <1>6, <1>7, <1>8, <1>9 DEF Next

\* Every step of the store keeps the types.
LEMMA TypeStep == TypeOK /\ [Next]_vars => TypeOK'
<1> SUFFICES ASSUME TypeOK, [Next]_vars PROVE TypeOK'
  OBVIOUS
<1>1. CASE UNCHANGED vars
  BY <1>1 DEF TypeOK, vars, seed, Active
<1>2. CASE Next
  <2> DEFINE ls == PurgeExpired(leases)
  <2>1. /\ ls \in [Ids -> Lease \cup {NoLease}]
        /\ Active(ls) \subseteq Active(leases)
    BY PurgedShape DEF TypeOK
  <2>2. /\ record' \in Records
        /\ now' \in 0 .. MaxNow
        /\ exists' \in BOOLEAN /\ seeding' \subseteq Callers
    BY <1>2 DEF Next, TypeOK, Plan, AcquireFails, AcquireBlocked, AcquireGranted, Commit, seed,
                Release, Renew, List, Reconfigure, ClockMoves, SeedLooks, SeedWrites, SeedFails
  <2>3. plan' \in [Callers -> Routes \cup {NoRoute}]
    <3>1. CASE \E c \in Callers : Plan(c)
      <4>1. PICK c \in Callers : Plan(c)
        BY <3>1
      <4>2. CASE record = Absent
        BY SMTT(30), <4>1, <4>2 DEF Plan, TypeOK, Routes
      <4>3. CASE record # Absent
        BY SMTT(30), <4>1, <4>3 DEF Plan, TypeOK, Routes
      <4> QED
        BY <4>2, <4>3
    <3>2. CASE ~ \E c \in Callers : Plan(c)
      BY <1>2, <3>2 DEF Next, TypeOK, AcquireFails, AcquireBlocked, AcquireGranted,
                Release, Renew, List, Reconfigure, ClockMoves, SeedLooks, SeedWrites, SeedFails
    <3> QED
      BY <3>1, <3>2
  <2>4. /\ leases' \in [Ids -> Lease \cup {NoLease}]
        /\ issued' \subseteq Ids
        /\ Active(leases') \subseteq issued'
    <3>1. CASE UNCHANGED <<leases, issued>>
      BY <3>1 DEF TypeOK
    <3>2. CASE leases' = ls /\ issued' = issued
      BY <2>1, <3>2 DEF TypeOK
    <3>3. CASE issued' = issued /\ \E i \in issued : leases' = Without(ls, i)
      BY <2>1, <3>3 DEF TypeOK, Without, Active
    <3>4. ASSUME NEW i \in issued, NEW ttl \in Ttls,
                 ls[i] # NoLease,
                 leases' = [ls EXCEPT ![i].expires = now + NormalizeTtl(ttl)],
                 issued' = issued
          PROVE  /\ leases' \in [Ids -> Lease \cup {NoLease}]
                 /\ Active(leases') \subseteq issued'
      <4>1. i \in Ids /\ ls[i] \in Lease
        BY <2>1, <3>4 DEF TypeOK
      <4>2. now + NormalizeTtl(ttl) \in 1 .. (MaxNow + MAX_LEASE_TTL_MS)
        BY SMTT(30), TtlInRange, StoreAssumption DEF TypeOK
      <4>3. [ls[i] EXCEPT !.expires = now + NormalizeTtl(ttl)] \in Lease
        BY <4>1, <4>2 DEF Lease
      <4> HIDE DEF ls
      <4>4. leases' \in [Ids -> Lease \cup {NoLease}]
        BY <2>1, <3>4, <4>1, <4>3
      <4>5. \A j \in Ids : j # i => leases'[j] = ls[j]
        BY <2>1, <3>4
      <4> QED
        BY <2>1, <3>4, <4>4, <4>5 DEF Active, TypeOK
    <3>5. ASSUME NEW c \in Callers, NEW ttl \in Ttls, NEW id \in Ids \ issued, NEW old,
                 plan[c] # NoRoute,
                 leases' = Insert(Without(ls, old), id, plan[c], ttl),
                 issued' = issued \cup {id}
          PROVE  /\ leases' \in [Ids -> Lease \cup {NoLease}]
                 /\ issued' \subseteq Ids
                 /\ Active(leases') \subseteq issued'
      <4>1. [route |-> plan[c], expires |-> now + NormalizeTtl(ttl)] \in Lease
        BY <3>5, FreshLease DEF TypeOK
      <4>2. Without(ls, old) \in [Ids -> Lease \cup {NoLease}]
        BY <2>1 DEF Without
      <4>3. Active(Without(ls, old)) \subseteq issued
        BY <2>1 DEF Without, Active, TypeOK
      <4>4. leases' \in [Ids -> Lease \cup {NoLease}]
        BY <3>5, <4>1, <4>2 DEF Insert
      <4>5. \A j \in Ids : j # id => leases'[j] = Without(ls, old)[j]
        BY <3>5, <4>2 DEF Insert
      <4> QED
        BY <3>5, <4>3, <4>4, <4>5 DEF Active, TypeOK
    <3>6. CASE leases' = Blank /\ issued' = issued
      BY <3>6 DEF Blank, Active, TypeOK
    <3> QED
      BY <1>2, <3>1, <3>2, <3>3, <3>4, <3>5, <3>6, StepShape DEF TypeOK
  <2> QED
    BY <2>2, <2>3, <2>4 DEF TypeOK
<1> QED
  BY <1>1, <1>2

\* The store and the plans are well typed in every reachable state; no lease
\* outlives the longest lifetime that normalize_ttl allows.
THEOREM StoreTypes == Spec => []TypeOK
<1>1. Init => TypeOK
  <2>1. 0 \in 0 .. MaxNow
    BY SMTT(30), StoreAssumption
  <2> QED
    BY <2>1 DEF Init, TypeOK, Active
<1> QED
  BY <1>1, TypeStep, PTL DEF Spec

-----------------------------------------------------------------------------
(* Mutual exclusion.                                                        *)

\* OneLeasePerMutex of an arbitrary store.
Exclusive(ls) ==
    \A i, j \in Active(ls) :
        i # j /\ ls[i].route.mutex # NoKey => ls[i].route.mutex # ls[j].route.mutex

\* Dropping leases keeps the rest exclusive.
LEMMA ExclusiveSubset ==
    ASSUME NEW ls, NEW more, Exclusive(more),
           Active(ls) \subseteq Active(more),
           \A i \in Active(ls) : ls[i].route.mutex = more[i].route.mutex
    PROVE  Exclusive(ls)
  BY DEF Exclusive

\* What makes way for a route leaves no lease behind that holds the route's mutex.
LEMMA MutexFree ==
    ASSUME NEW ls \in [Ids -> Lease \cup {NoLease}], Exclusive(ls),
           NEW route, NEW takeover, route.mutex # NoKey,
           NEW old \in MakesWay(ls, route, takeover)
    PROVE  \A i \in Active(Without(ls, old)) : ls[i].route.mutex # route.mutex
<1>1. Conflicts(ls, route) = HoldingMutex(ls, route.mutex)
  BY DEF Conflicts
<1>2. \A i \in Active(Without(ls, old)) : i \in Active(ls) /\ i # old
  BY DEF Active, Without
<1>3. CASE HoldingMutex(ls, route.mutex) = {}
  BY <1>2, <1>3 DEF HoldingMutex
<1>4. CASE HoldingMutex(ls, route.mutex) # {}
  <2>1. old \in HoldingMutex(ls, route.mutex)
    BY <1>1, <1>4 DEF MakesWay
  <2>2. old \in Active(ls) /\ ls[old].route.mutex = route.mutex
    BY <2>1 DEF HoldingMutex
  <2> QED
    BY <1>2, <2>2 DEF Exclusive
<1> QED
  BY <1>3, <1>4

\* Inserting a lease on a free mutex keeps a store exclusive.
LEMMA ExclusiveInsert ==
    ASSUME NEW ls \in [Ids -> Lease \cup {NoLease}], Exclusive(ls),
           NEW id \in Ids, NEW route, NEW ttl,
           route.mutex = NoKey \/ \A i \in Active(ls) : ls[i].route.mutex # route.mutex
    PROVE  Exclusive(Insert(ls, id, route, ttl))
<1> DEFINE new == Insert(ls, id, route, ttl)
<1>1. new[id].route = route
  BY DEF Insert
<1>2. \A i \in Ids : i # id => new[i] = ls[i]
  BY DEF Insert
<1> HIDE DEF new
<1>3. \A i \in Active(new) : i # id => i \in Active(ls) /\ new[i] = ls[i]
  BY <1>2 DEF Active
<1> SUFFICES ASSUME NEW i \in Active(new), NEW j \in Active(new),
                    i # j, new[i].route.mutex # NoKey
             PROVE  new[i].route.mutex # new[j].route.mutex
  BY DEF Exclusive, new
<1>4. CASE i = id
  BY <1>1, <1>3, <1>4
<1>5. CASE j = id
  BY <1>1, <1>3, <1>5
<1>6. CASE i # id /\ j # id
  BY <1>3, <1>6 DEF Exclusive
<1> QED
  BY <1>4, <1>5, <1>6

\* Every step keeps the mutexes of the leases apart.
LEMMA ExclusiveStep == TypeOK /\ OneLeasePerMutex /\ [Next]_vars => OneLeasePerMutex'
<1> SUFFICES ASSUME TypeOK, OneLeasePerMutex, [Next]_vars PROVE Exclusive(leases')
  BY DEF OneLeasePerMutex, Exclusive, Active
<1> DEFINE ls == PurgeExpired(leases)
<1>1. Exclusive(leases)
  BY DEF OneLeasePerMutex, Exclusive
<1>2. ls \in [Ids -> Lease \cup {NoLease}]
  BY PurgedShape DEF TypeOK
<1>3. Exclusive(ls)
  BY <1>1, PurgedShape, ExclusiveSubset DEF TypeOK
<1> HIDE DEF ls
<1>4. \A i : /\ Without(ls, i) \in [Ids -> Lease \cup {NoLease}]
             /\ Active(Without(ls, i)) \subseteq Active(ls)
             /\ \A j \in Active(Without(ls, i)) : Without(ls, i)[j] = ls[j]
  BY <1>2 DEF Without, Active
<1>5. \A i : Exclusive(Without(ls, i))
  BY <1>3, <1>4, ExclusiveSubset
<1>6. CASE leases' = leases
  BY <1>1, <1>6
<1>7. CASE leases' = ls
  BY <1>3, <1>7
<1>8. CASE \E i : leases' = Without(ls, i)
  BY <1>5, <1>8
<1>9. ASSUME NEW i \in issued, NEW ttl \in Ttls, ls[i] # NoLease,
             leases' = [ls EXCEPT ![i].expires = now + NormalizeTtl(ttl)]
      PROVE  Exclusive(leases')
  <2>1. i \in Ids /\ ls[i] \in Lease
    BY <1>2, <1>9 DEF TypeOK
  <2>2. leases'[i].route = ls[i].route
    BY <1>2, <1>9, <2>1 DEF Lease
  <2>3. \A j \in Ids : j # i => leases'[j] = ls[j]
    BY <1>2, <1>9
  <2>4. Active(leases') \subseteq Active(ls)
    BY <1>9, <2>1, <2>3 DEF Active
  <2>5. \A j \in Active(leases') : leases'[j].route.mutex = ls[j].route.mutex
    BY <2>2, <2>3 DEF Active
  <2> QED
    BY <1>3, <2>4, <2>5, ExclusiveSubset
<1>10. ASSUME NEW c \in Callers, NEW takeover \in BOOLEAN, NEW ttl \in Ttls, NEW id \in Ids \ issued,
              NEW old \in MakesWay(ls, plan[c], takeover),
              leases' = Insert(Without(ls, old), id, plan[c], ttl)
       PROVE  Exclusive(leases')
  <2>1. plan[c].mutex # NoKey =>
           \A i \in Active(Without(ls, old)) : ls[i].route.mutex # plan[c].mutex
    BY <1>2, <1>3, MutexFree
  <2>2. plan[c].mutex = NoKey
           \/ \A i \in Active(Without(ls, old)) : Without(ls, old)[i].route.mutex # plan[c].mutex
    BY <1>4, <2>1
  <2> QED
    BY <1>4, <1>5, <1>10, <2>2, ExclusiveInsert
<1>11. CASE leases' = Blank
  BY <1>11 DEF Exclusive, Active, Blank
<1> QED
  BY <1>6, <1>7, <1>8, <1>9, <1>10, <1>11, StepShape DEF vars, ls

\* Two leases in the file never carry the same request mutex.
THEOREM MutualExclusion == Spec => []OneLeasePerMutex
<1>1. Init => OneLeasePerMutex
  BY DEF Init, Active, OneLeasePerMutex
<1>2. TypeOK /\ OneLeasePerMutex /\ [Next]_vars => OneLeasePerMutex'
  BY ExclusiveStep
<1> QED
  BY <1>1, <1>2, StoreTypes, PTL DEF Spec

-----------------------------------------------------------------------------
(* The life of a lease.                                                     *)

\* A step leaves a lease that expired or left the store as it was, or purges it.
LEMMA ResurrectionStep ==
    ASSUME TypeOK, [Next]_vars, NEW i \in issued,
           leases[i] = NoLease \/ leases[i].expires <= now
    PROVE  leases'[i] \in {NoLease, leases[i]}
<1> DEFINE ls == PurgeExpired(leases)
<1>1. /\ i \in Ids
      /\ ls \in [Ids -> Lease \cup {NoLease}]
      /\ ls[i] \in {NoLease, leases[i]}
  BY PurgedShape DEF TypeOK
<1>2. ls[i] = NoLease
  BY SMTT(30), <1>1 DEF PurgeExpired, TypeOK, Lease
<1> HIDE DEF ls
<1>3. CASE leases' = leases
  BY <1>3
<1>4. CASE leases' = ls
  BY <1>1, <1>4
<1>5. CASE \E j : leases' = Without(ls, j)
  BY <1>1, <1>5 DEF Without
<1>6. CASE \E j \in issued, ttl \in Ttls :
              ls[j] # NoLease /\ leases' = [ls EXCEPT ![j].expires = now + NormalizeTtl(ttl)]
  BY <1>1, <1>2, <1>6
<1>7. CASE \E old : \E c \in Callers, ttl \in Ttls, id \in Ids \ issued :
              leases' = Insert(Without(ls, old), id, plan[c], ttl)
  BY <1>1, <1>7 DEF Insert, Without
<1>8. CASE leases' = Blank
  BY <1>1, <1>8 DEF Blank
<1> QED
  BY <1>3, <1>4, <1>5, <1>6, <1>7, <1>8, StepShape DEF vars, ls

\* A lease that expired or left the store never comes back to life.
THEOREM LeasesStayDead == Spec => NoResurrection
<1>1. TypeOK /\ [Next]_vars =>
         [\A i \in issued : leases[i] = NoLease \/ leases[i].expires <= now =>
             leases'[i] \in {NoLease, leases[i]}]_vars
  BY ResurrectionStep
<1> QED
  BY <1>1, StoreTypes, PTL DEF Spec, NoResurrection

\* A lease that makes way is in the session of the route it makes way for.
LEMMA TakenOverSession ==
    ASSUME NEW ls, NEW route, NEW takeover,
           NEW old \in MakesWay(ls, route, takeover), old # NoId
    PROVE  old \in Conflicts(ls, route) /\ ls[old].route.session = route.session
  BY DEF MakesWay, TakeoverAllowed

\* A step that ends a live lease releases it, takes it over or is a late seed.
LEMMA LiveStep ==
    ASSUME TypeOK, [Next]_vars, NEW i \in Active(leases),
           leases[i].expires > now, leases'[i] = NoLease
    PROVE  \/ Release(i)
           \/ \E c \in seeding : SeedWrites(c)
           \/ \E c \in Callers, j \in issued' \ issued :
                 /\ plan[c] # NoRoute /\ plan'[c] = NoRoute
                 /\ leases'[j].route = plan[c]
                 /\ plan[c].session = leases[i].route.session
<1> DEFINE ls == PurgeExpired(leases)
<1>1. /\ i \in Ids
      /\ ls \in [Ids -> Lease \cup {NoLease}]
      /\ ls[i] = leases[i]
      /\ ls[i] \in Lease
      /\ leases[i] # NoLease
  BY PurgedShape DEF TypeOK, Active
<1> HIDE DEF ls
<1>2. CASE leases' = leases \/ leases' = ls
  BY <1>1, <1>2
<1>3. CASE \E j \in issued : leases' = Without(ls, j) /\ Release(j)
  BY <1>1, <1>3 DEF Without
<1>4. ASSUME NEW j \in issued, NEW ttl \in Ttls,
             ls[j] # NoLease,
             leases' = [ls EXCEPT ![j].expires = now + NormalizeTtl(ttl)]
      PROVE  FALSE
  <2>1. j = i
    BY <1>1, <1>4
  <2>2. now + NormalizeTtl(ttl) \in 1 .. (MaxNow + MAX_LEASE_TTL_MS)
    BY SMTT(30), TtlInRange, StoreAssumption DEF TypeOK
  <2>3. leases'[i] \in Lease
    BY <1>1, <1>4, <2>1, <2>2 DEF Lease
  <2> QED
    BY <2>3, NoLeaseAssumption
<1>5. ASSUME NEW c \in Callers, NEW takeover \in BOOLEAN, NEW ttl \in Ttls, NEW id \in Ids \ issued,
             NEW old \in MakesWay(ls, plan[c], takeover),
             plan[c] # NoRoute, plan'[c] = NoRoute,
             leases' = Insert(Without(ls, old), id, plan[c], ttl),
             issued' = issued \cup {id}
      PROVE  \E d \in Callers, j \in issued' \ issued :
                 /\ plan[d] # NoRoute /\ plan'[d] = NoRoute
                 /\ leases'[j].route = plan[d]
                 /\ plan[d].session = leases[i].route.session
  <2>1. leases'[id].route = plan[c]
    BY SMTT(30), <1>5 DEF Insert, Without
  <2>2. i # id
    BY <1>1 DEF TypeOK
  <2>3. leases'[i] = Without(ls, old)[i]
    BY <1>1, <1>5, <2>2 DEF Insert, Without
  <2>4. i = old
    BY <1>1, <2>3 DEF Without
  <2>5. ls[i].route.session = plan[c].session
    BY SMTT(30), <1>1, <2>4, TakenOverSession, StoreAssumption
  <2> QED
    BY <1>1, <1>5, <2>1, <2>5
<1> QED
  BY <1>2, <1>3, <1>4, <1>5, StepShape DEF vars, ls

\* A lease that has not expired ends only by a release of its id, by a takeover of
\* its own session, or by the seed of a command that saw no file.
THEOREM LiveLeasesKept == Spec => LiveLeaseKept
<1>1. TypeOK /\ [Next]_vars =>
         [\A i \in Active(leases) :
            leases[i].expires > now /\ leases'[i] = NoLease =>
              \/ Release(i)
              \/ \E c \in seeding : SeedWrites(c)
              \/ \E c \in Callers, j \in issued' \ issued :
                    /\ plan[c] # NoRoute /\ plan'[c] = NoRoute
                    /\ leases'[j].route = plan[c]
                    /\ plan[c].session = leases[i].route.session]_vars
  BY LiveStep
<1> QED
  BY <1>1, StoreTypes, PTL DEF Spec, LiveLeaseKept

-----------------------------------------------------------------------------
(* Capacity.                                                                *)

\* effective_capacity is a product of two natural numbers.
LEMMA ProductNat ==
    ASSUME NEW m \in Nat, NEW n \in Nat
    PROVE  m * n \in Nat
  BY SMTT(30)

\* Limits are natural numbers, and the key a route is counted under is its mutex,
\* or a process-scope key, which is never the mutex of another route.
LEMMA RouteShape ==
    ASSUME NEW r \in Routes
    PROVE  /\ r.limit \in Nat
           /\ r.mutex # NoKey => r.capacity = r.mutex
           /\ r.mutex # NoKey => r.mutex[1] \in {"execution-mutex", "settings-only"}
           /\ r.mutex = NoKey => r.capacity = NoKey \/ r.capacity[1] = "process-scope"
<1>1. CASE \E c \in Callers : r = ConservativeRoute(Server, Identity[c])
  BY SMTT(30), <1>1 DEF ConservativeRoute
<1>2. ASSUME NEW rec \in Records \ {Absent}, NEW c \in Callers,
             r = PlannedRoute(Server, rec, Identity[c])
      PROVE  /\ r.limit \in Nat
             /\ r.mutex # NoKey => r.capacity = r.mutex
             /\ r.mutex # NoKey => r.mutex[1] \in {"execution-mutex", "settings-only"}
             /\ r.mutex = NoKey => r.capacity = NoKey \/ r.capacity[1] = "process-scope"
  <2> DEFINE s == RequestStrategy(Server, rec.policy, rec.transport, rec.routable, Identity[c])
  <2>1. rec.policy \in Policy
    BY StoreAssumption
  <2>2. /\ WorkerLimit(rec.policy) \in Nat
        /\ EffectiveMaxInFlight(rec.policy, rec.transport) \in Nat
    BY <2>1 DEF WorkerLimit, EffectiveMaxInFlight, Policy, Greatest
  <2>3. EffectiveCapacity(rec.policy, rec.transport) \in Nat
    BY <2>2, ProductNat DEF EffectiveCapacity
  <2>4. ParallelismLimit(rec.policy, rec.transport) \in Nat
    BY <2>3 DEF ParallelismLimit, Greatest
  <2>5. s.limit \in Nat
    BY <2>4 DEF RequestStrategy
  <2>6. s.mutex # NoKey => s.mutex[1] = "execution-mutex"
    BY DEF RequestStrategy, MutexKey
  <2>7. ProcessScopeKey(Server, rec.policy, Identity[c])[1] = "process-scope"
    BY DEF ProcessScopeKey
  <2> HIDE DEF s
  <2>8. /\ r.limit = s.limit
        /\ r.mutex = s.mutex
        /\ s.mutex # NoKey => r.capacity = s.mutex
        /\ s.mutex = NoKey => r.capacity \in {NoKey, ProcessScopeKey(Server, rec.policy, Identity[c])}
    BY <1>2 DEF PlannedRoute, s
  <2> QED
    BY <2>5, <2>6, <2>7, <2>8
<1> QED
  BY SMTT(30), <1>1, <1>2 DEF Routes

\* Mutex keys and process-scope keys do not meet: a lease counted under the mutex
\* of a route holds that mutex.
LEMMA MutexGroup ==
    ASSUME NEW ls \in [Ids -> Lease \cup {NoLease}], NEW route \in Routes, route.mutex # NoKey
    PROVE  Holding(ls, route.capacity) = HoldingMutex(ls, route.mutex)
<1>1. route.capacity = route.mutex /\ route.mutex[1] \in {"execution-mutex", "settings-only"}
  BY RouteShape
<1>2. \A i \in Active(ls) : ls[i].route \in Routes
  BY DEF Active, Lease
<1>3. \A i \in Active(ls) : ls[i].route.capacity = route.mutex <=> ls[i].route.mutex = route.mutex
  <2> SUFFICES ASSUME NEW i \in Active(ls)
               PROVE  ls[i].route.capacity = route.mutex <=> ls[i].route.mutex = route.mutex
    OBVIOUS
  <2> DEFINE q == ls[i].route
  <2>1. q \in Routes
    BY <1>2
  <2> HIDE DEF q
  <2>2. q.mutex # NoKey => q.capacity = q.mutex
    BY <2>1, RouteShape
  <2>3. q.mutex = NoKey => q.capacity = NoKey \/ q.capacity[1] = "process-scope"
    BY <2>1, RouteShape
  <2>4. q.mutex = NoKey => q.capacity # route.mutex
    BY <1>1, <2>3
  <2> QED
    BY <2>2, <2>4 DEF q
<1> QED
  BY <1>1, <1>3 DEF Holding, HoldingMutex

\* A group of leases is finite.
LEMMA HoldingFinite ==
    ASSUME NEW ls, NEW k
    PROVE  IsFiniteSet(Holding(ls, k)) /\ Cardinality(Holding(ls, k)) \in Nat
<1>1. Holding(ls, k) \subseteq Ids
  BY DEF Holding, Active
<1>2. IsFiniteSet(Holding(ls, k))
  BY <1>1, FS_Subset, StoreAssumption
<1> QED
  BY <1>2, FS_CardinalityType

\* One lease is inserted where another one made way, or where there was room.
LEMMA InsertedGroup ==
    ASSUME NEW ls \in [Ids -> Lease \cup {NoLease}],
           NEW route \in Routes, ~Blocked(route),
           NEW id \in Ids, ls[id] = NoLease, NEW ttl, NEW takeover,
           NEW old \in MakesWay(ls, route, takeover)
    PROVE  LET new == Insert(Without(ls, old), id, route, ttl)
               k == route.capacity
           IN  \/ Cardinality(Holding(new, k)) <= route.limit
               \/ Cardinality(Holding(new, k)) <= Cardinality(Holding(ls, k))
<1> DEFINE k == route.capacity
           new == Insert(Without(ls, old), id, route, ttl)
           before == Holding(ls, k)
           kept == before \ {old}
<1>1. /\ \A i \in Ids \ {id, old} : new[i] = ls[i]
      /\ old \in Ids \ {id} => new[old] = NoLease
      /\ new[id].route = route
  BY DEF Insert, Without
<1> HIDE DEF new
<1>2. Holding(new, k) \subseteq kept \cup {id}
  BY <1>1 DEF Holding, Active
<1>3. /\ IsFiniteSet(before) /\ Cardinality(before) \in Nat
      /\ IsFiniteSet(kept) /\ Cardinality(kept) \in Nat
      /\ IsFiniteSet(Holding(new, k)) /\ Cardinality(Holding(new, k)) \in Nat
  BY HoldingFinite, FS_RemoveElement, FS_CardinalityType
<1>4. Cardinality(Holding(new, k)) <= Cardinality(kept) + 1
  <2>1. id \notin kept
    BY DEF Holding, Active
  <2>2. IsFiniteSet(kept \cup {id}) /\ Cardinality(kept \cup {id}) = Cardinality(kept) + 1
    BY <1>3, <2>1, FS_AddElement
  <2> QED
    BY SMTT(30), <1>2, <2>2, FS_Subset
<1>5. CASE Conflicts(ls, route) # {}
  <2>1. old \in Conflicts(ls, route)
    BY <1>5 DEF MakesWay
  <2>2. Conflicts(ls, route) \subseteq before
    BY MutexGroup DEF Conflicts
  <2>3. Cardinality(kept) = Cardinality(before) - 1
    BY <1>3, <2>1, <2>2, FS_RemoveElement
  <2> QED
    BY SMTT(30), <1>3, <1>4, <2>3 DEF new
<1>6. CASE Conflicts(ls, route) = {}
  <2>1. route.limit \in Nat /\ route.limit # 0
    BY RouteShape DEF Blocked
  <2>2. Cardinality(before) < route.limit
    <3>1. CASE route.mutex # NoKey
      <4>1. before = {}
        BY <1>6, <3>1, MutexGroup DEF Conflicts
      <4> QED
        BY SMTT(30), <2>1, <4>1, FS_EmptySet
    <3>2. CASE route.mutex = NoKey /\ ~(Cardinality(before) >= route.limit)
      BY SMTT(30), <1>3, <2>1, <3>2
    <3>3. CASE route.mutex = NoKey /\ Cardinality(before) >= route.limit
      <4>1. before = {}
        BY <1>6, <3>3 DEF Conflicts
      <4> QED
        BY SMTT(30), <2>1, <4>1, FS_EmptySet
    <3> QED
      BY <3>1, <3>2, <3>3
  <2>3. Cardinality(kept) <= Cardinality(before)
    BY <1>3, FS_Subset
  <2> QED
    BY SMTT(30), <1>3, <1>4, <2>1, <2>2, <2>3 DEF new
<1> QED
  BY <1>5, <1>6

\* A step that adds a lease leaves its group within its limit or no larger.
LEMMA CapacityStep ==
    ASSUME TypeOK, [Next]_vars, NEW i \in Ids,
           leases[i] = NoLease, leases'[i] # NoLease
    PROVE  LET k == leases'[i].route.capacity
           IN  \/ Cardinality(Holding(leases', k)) <= leases'[i].route.limit
               \/ Cardinality(Holding(leases', k)) <= Cardinality(Holding(leases, k))
<1> DEFINE ls == PurgeExpired(leases)
<1>1. /\ ls \in [Ids -> Lease \cup {NoLease}]
      /\ Active(ls) \subseteq Active(leases)
      /\ \A j \in Active(ls) : ls[j] = leases[j]
      /\ \A j \in Ids : ls[j] \in {NoLease, leases[j]}
  BY PurgedShape DEF TypeOK
<1>2. ls[i] = NoLease
  BY <1>1
<1> HIDE DEF ls
<1>3. CASE leases' = leases \/ leases' = ls
  BY <1>2, <1>3
<1>4. CASE \E j : leases' = Without(ls, j)
  BY <1>2, <1>4 DEF Without
<1>5. CASE \E j \in issued, ttl \in Ttls :
              ls[j] # NoLease /\ leases' = [ls EXCEPT ![j].expires = now + NormalizeTtl(ttl)]
  BY <1>1, <1>2, <1>5
<1>6. ASSUME NEW c \in Callers, NEW takeover \in BOOLEAN, NEW ttl \in Ttls, NEW id \in Ids \ issued,
             NEW old \in MakesWay(ls, plan[c], takeover),
             plan[c] # NoRoute, ~Blocked(plan[c]),
             leases' = Insert(Without(ls, old), id, plan[c], ttl)
      PROVE  LET k == leases'[i].route.capacity
             IN  \/ Cardinality(Holding(leases', k)) <= leases'[i].route.limit
                 \/ Cardinality(Holding(leases', k)) <= Cardinality(Holding(leases, k))
  <2>1. i = id
    BY <1>2, <1>6 DEF Insert, Without
  <2>2. leases'[i].route = plan[c]
    BY <1>6, <2>1 DEF Insert, Without
  <2>3. plan[c] \in Routes
    BY <1>6 DEF TypeOK
  <2> DEFINE k == plan[c].capacity
  <2>4. \/ Cardinality(Holding(leases', k)) <= plan[c].limit
        \/ Cardinality(Holding(leases', k)) <= Cardinality(Holding(ls, k))
    BY <1>1, <1>2, <1>6, <2>1, <2>3, InsertedGroup
  <2>5. Holding(ls, k) \subseteq Holding(leases, k)
    BY <1>1 DEF Holding
  <2>6. Cardinality(Holding(ls, k)) <= Cardinality(Holding(leases, k))
    BY <2>5, HoldingFinite, FS_Subset
  <2>7. /\ Cardinality(Holding(leases', k)) \in Nat
        /\ Cardinality(Holding(ls, k)) \in Nat
        /\ Cardinality(Holding(leases, k)) \in Nat
    BY HoldingFinite
  <2>8. leases'[i].route.capacity = k /\ leases'[i].route.limit = plan[c].limit
    BY <2>2
  <2> HIDE DEF k
  <2> QED
    BY SMTT(30), <2>4, <2>6, <2>7, <2>8
<1>7. CASE leases' = Blank
  BY <1>7 DEF Blank
<1> QED
  BY <1>3, <1>4, <1>5, <1>6, <1>7, StepShape DEF vars, ls

\* An acquire never makes a capacity group exceed the limit of its own route,
\* except where a takeover keeps the size of a group that was over it already.
THEOREM CapacityKept == Spec => CapacityRespected
<1>1. TypeOK /\ [Next]_vars =>
         [\A i \in Ids :
            leases[i] = NoLease /\ leases'[i] # NoLease =>
              LET k == leases'[i].route.capacity
              IN  \/ Cardinality(Holding(leases', k)) <= leases'[i].route.limit
                  \/ Cardinality(Holding(leases', k)) <= Cardinality(Holding(leases, k))]_vars
  BY CapacityStep
<1> QED
  BY <1>1, StoreTypes, PTL DEF Spec, CapacityRespected

-----------------------------------------------------------------------------
(* The session index.                                                       *)

\* What the index says of a store.
Indexed(ls, index) ==
    /\ \A s \in DOMAIN index : index[s] # {}
    /\ \A i \in Ids, s \in DOMAIN index :
          i \in index[s] <=> i \in Active(ls) /\ ls[i].route.session = s
    /\ \A i \in Active(ls) : ls[i].route.session \in DOMAIN index

\* rebuild_sessions indexes exactly the leases it is given.
LEMMA RebuiltIndex == ASSUME NEW ls PROVE Indexed(ls, RebuildSessions(ls))
  BY DEF Indexed, RebuildSessions, Active

\* Every command that changes the leases writes their index with them.
THEOREM IndexMatches == Spec => []SessionsMatchLeases
<1>1. Init => SessionsMatchLeases
  BY DEF Init, SessionsMatchLeases, Active
<1>2. SessionsMatchLeases /\ [Next]_vars => SessionsMatchLeases'
  <2> SUFFICES ASSUME SessionsMatchLeases, [Next]_vars PROVE Indexed(leases', sessions')
    BY DEF SessionsMatchLeases, Indexed, Active
  <2>1. CASE UNCHANGED <<leases, sessions>>
    BY <2>1 DEF SessionsMatchLeases, Indexed
  <2>2. CASE \E ls : Commit(ls)
    BY <2>2, RebuiltIndex DEF Commit
  <2>3. CASE \E c \in Callers : SeedWrites(c)
    BY <2>3 DEF SeedWrites, Indexed, Active
  <2> QED
    BY <2>1, <2>2, <2>3 DEF vars, Next, Plan, AcquireFails, AcquireBlocked, AcquireGranted,
                      Release, Renew, List, Reconfigure, ClockMoves, SeedLooks, SeedFails
<1> QED
  BY <1>1, <1>2, PTL DEF Spec

-----------------------------------------------------------------------------
(* The lock file, whoever dies and whatever fails.                          *)

\* Unless a held lock was removed, a process in the lock owns the file that is
\* there, and the version it has read is the version of the store, but for a seed.
Owned == ~robbed =>
         /\ \A p \in Procs : pc[p] \in InLock => file # NoFile /\ file.by = p
         /\ \A p \in Procs : pc[p] = "write" => copy[p] = store \/ store \in {NoFile, 0}

LockInv == LockTypeOK /\ Owned

\* The types hold at first, and every step keeps them.
LEMMA LockTypesFirst == LockInit => LockTypeOK
<1>1. 0 \in 0 .. LEASE_LOCK_ATTEMPTS /\ 0 \in 0 .. Versions
  BY SMTT(30), LockAssumption
<1> QED
  BY <1>1 DEF LockInit, LockTypeOK, Locations

LEMMA LockTypeStep == LockTypeOK /\ [LockNext]_lockVars => LockTypeOK'
<1> SUFFICES ASSUME LockTypeOK, [LockNext]_lockVars PROVE LockTypeOK'
  BY SMTT(30)
<1> USE LockAssumption DEF LockTypeOK, LockFile, Locations, InLock
<1>1. CASE UNCHANGED lockVars
  BY <1>1 DEF lockVars
<1>2. ASSUME NEW p \in Procs, Start(p) PROVE LockTypeOK'
  BY SMTT(30), <1>2 DEF Start
<1>11. ASSUME NEW p \in Procs, SeedStore(p) PROVE LockTypeOK'
  BY SMTT(30), <1>11 DEF SeedStore, Go
<1>3. ASSUME NEW p \in Procs, Creates(p) PROVE LockTypeOK'
  <2>1. file' \in LockFile
    BY <1>3 DEF Creates
  <2> QED
    BY <1>3, <2>1 DEF Creates, Go
<1>10. ASSUME NEW p \in Procs, RemoveStale(p) \/ DropGuard(p) PROVE LockTypeOK'
  BY <1>10 DEF RemoveStale, DropGuard, Go, Leaves
<1>9. ASSUME NEW p \in Procs, Stamped(p) PROVE LockTypeOK'
  <2>1. file' \in LockFile \cup {NoFile}
    BY <1>9 DEF Stamped
  <2> QED
    BY <1>9, <2>1 DEF Stamped, Go
<1>4. ASSUME NEW p \in Procs, AlreadyExists(p) PROVE LockTypeOK'
  BY SMTT(30), <1>4 DEF AlreadyExists, Go
<1>5. ASSUME NEW p \in Procs, Busy(p) \/ Inspect(p) \/ Fault(p) PROVE LockTypeOK'
  BY <1>5 DEF Busy, Inspect, Fault, LockFails, StampFails, CommandFails, DropFails, Crash, Go, Leaves
<1>6. ASSUME NEW p \in Procs, ReadStore(p) PROVE LockTypeOK'
  BY SMTT(30), <1>6 DEF ReadStore, Go
<1>7. ASSUME NEW p \in Procs, WriteStore(p) PROVE LockTypeOK'
  <2>1. Succ(copy[p]) \in 0 .. Versions
    BY SMTT(30) DEF Succ
  <2> QED
    BY <1>7, <2>1 DEF WriteStore, Go
<1>8. CASE GrowsStale
  BY <1>8 DEF GrowsStale
<1> QED
  BY <1>1, <1>2, <1>3, <1>4, <1>5, <1>6, <1>7, <1>8, <1>9, <1>10, <1>11 DEF LockNext, Step

\* A process that leaves the lock leaves nobody in it who does not own it.
LEMMA LeavingOwned ==
    ASSUME LockInv, NEW p \in Procs, Leaves(p), pc[p] \in InLock,
           NEW l \in {"idle", "dead"}, pc' = [pc EXCEPT ![p] = l],
           file' \in {file, NoFile}, UNCHANGED <<store, copy>>
    PROVE  Owned'
<1> USE DEF InLock
<1>1. LockTypeOK /\ Owned
  BY DEF LockInv
<1> SUFFICES ASSUME ~robbed'
             PROVE  \A q \in Procs : pc'[q] \notin InLock
  BY DEF Owned
<1> SUFFICES ASSUME NEW q \in Procs, pc'[q] \in InLock PROVE FALSE
  OBVIOUS
<1>2. q # p /\ pc[q] \in InLock
  BY <1>1 DEF LockTypeOK
<1>3. ~robbed
  BY <1>2 DEF Leaves
<1>4. file.by = q /\ file.by = p
  BY <1>1, <1>2, <1>3 DEF Owned
<1> QED
  BY <1>2, <1>4

\* Every step keeps the lock with its holder, or is a robbery.
LEMMA OwnedStep ==
    ASSUME LockInv, [LockNext]_lockVars
    PROVE  Owned'
<1> USE DEF InLock
<1>t. LockTypeOK /\ Owned
  BY DEF LockInv
<1>1. CASE UNCHANGED lockVars
  BY <1>1, <1>t DEF lockVars, Owned
<1>2. ASSUME NEW p \in Procs, Start(p) \/ SeedStore(p) \/ Busy(p) \/ AlreadyExists(p) \/ Inspect(p) \/ LockFails(p)
      PROVE  Owned'
  <2>1. /\ file' = file /\ copy' = copy /\ robbed' = robbed /\ store' \in {store, 0}
        /\ \A q \in Procs : pc'[q] \in InLock => pc'[q] = pc[q]
    BY <1>2, <1>t DEF Start, SeedStore, Busy, AlreadyExists, Inspect, LockFails, Go, LockTypeOK
  <2> QED
    BY <1>t, <2>1 DEF Owned
<1>3. ASSUME NEW p \in Procs, Creates(p) PROVE Owned'
  <2>1. ~robbed => \A q \in Procs : pc[q] \notin InLock
    BY <1>3, <1>t DEF Owned, Creates
  <2>2. file' # NoFile /\ file'.by = p
    BY <1>3, LockAssumption DEF Creates
  <2>3. /\ robbed' = robbed
        /\ \A q \in Procs : q # p => pc'[q] = pc[q]
        /\ pc'[p] = "stamp"
    BY <1>3, <1>t DEF Creates, Go, LockTypeOK
  <2> QED
    BY <2>1, <2>2, <2>3 DEF Owned
<1>4. ASSUME NEW p \in Procs, Stamped(p) PROVE Owned'
  <2>1. file # NoFile => file' # NoFile /\ file'.by = file.by
    BY <1>4, <1>t, LockAssumption DEF Stamped, LockTypeOK, LockFile
  <2>2. /\ robbed' = robbed /\ UNCHANGED <<store, copy>>
        /\ \A q \in Procs : q # p => pc'[q] = pc[q]
        /\ pc'[p] = "read" /\ pc[p] \in InLock
    BY <1>4, <1>t DEF Stamped, Go, LockTypeOK
  <2>3. \A q \in Procs : pc'[q] = "write" => pc[q] = "write"
    BY <2>2
  <2>4. \A q \in Procs : pc'[q] \in InLock => pc[q] \in InLock
    BY <2>2
  <2> QED
    BY <1>t, <2>1, <2>2, <2>3, <2>4 DEF Owned
<1>6. ASSUME NEW p \in Procs, RemoveStale(p) PROVE Owned'
  <2> SUFFICES ASSUME ~robbed'
               PROVE  \A q \in Procs : pc'[q] \notin InLock
    BY DEF Owned
  <2>1. ~robbed /\ ~(file # NoFile /\ pc[file.by] \in InLock)
    BY <1>6 DEF RemoveStale
  <2>2. \A q \in Procs : pc[q] \notin InLock
    BY <1>t, <2>1 DEF Owned
  <2> QED
    BY <1>6, <1>t, <2>2 DEF RemoveStale, Go, LockTypeOK
<1>7. ASSUME NEW p \in Procs, ReadStore(p) \/ CommandFails(p) PROVE Owned'
  <2>1. /\ robbed' = robbed /\ UNCHANGED <<store, file>>
        /\ \A q \in Procs : q # p => pc'[q] = pc[q] /\ copy'[q] = copy[q]
        /\ pc[p] \in InLock
        /\ pc'[p] = "write" => copy'[p] = store \/ store = NoFile
    BY <1>7, <1>t DEF ReadStore, CommandFails, Go, LockTypeOK
  <2> QED
    BY <1>t, <2>1 DEF Owned
<1>8. ASSUME NEW p \in Procs, WriteStore(p) PROVE Owned'
  <2>1. /\ robbed' = robbed /\ UNCHANGED <<copy, file>>
        /\ \A q \in Procs : q # p => pc'[q] = pc[q]
        /\ pc[p] \in InLock /\ pc'[p] = "drop"
    BY <1>8, <1>t DEF WriteStore, Go, LockTypeOK
  <2>2. ~robbed => \A q \in Procs : pc[q] = "write" => q = p
    BY <1>t, <2>1 DEF Owned
  <2> QED
    BY <1>t, <2>1, <2>2 DEF Owned
<1>9. ASSUME NEW p \in Procs, DropGuard(p) \/ DropFails(p) \/ StampFails(p) PROVE Owned'
  BY <1>9, LeavingOwned DEF DropGuard, DropFails, StampFails, Go
<1>10. ASSUME NEW p \in Procs, Crash(p) PROVE Owned'
  <2>1. CASE pc[p] \in InLock
    BY <1>10, <2>1, LeavingOwned DEF Crash
  <2>2. CASE pc[p] \notin InLock
    <3>1. /\ robbed' = robbed /\ UNCHANGED <<copy, file, store>>
          /\ \A q \in Procs : pc'[q] \in InLock => pc'[q] = pc[q]
      BY <1>10, <1>t, <2>2 DEF Crash, LockTypeOK
    <3> QED
      BY <1>t, <3>1 DEF Owned
  <2> QED
    BY <2>1, <2>2
<1>12. CASE GrowsStale
  <2>1. file' # NoFile /\ file'.by = file.by
    BY <1>12, <1>t, LockAssumption DEF GrowsStale, LockTypeOK, LockFile
  <2> QED
    BY <1>12, <1>t, <2>1 DEF GrowsStale, Owned
<1> QED
  BY <1>1, <1>2, <1>3, <1>4, <1>6, <1>7, <1>8, <1>9, <1>10, <1>12
  DEF LockNext, Step, Fault

\* Whoever dies and whatever file is left behind, at most one process holds the
\* store lock until a waiter removes the lock of a holder at work, and again once
\* all that were in it have left; and up to the seed of a process that saw no file,
\* every write of the lease file builds on the file as it is: mutate_store is atomic.
THEOREM LockExcludes == LockSpec => [](robbed \/ AtMostOneHolder) /\ CommandsAreAtomic
<1>1. LockInit => LockInv
  BY LockTypesFirst DEF LockInit, LockInv, Owned, InLock
<1>2. LockInv /\ [LockNext]_lockVars => LockInv'
  BY LockTypeStep, OwnedStep DEF LockInv
<1>3. LockInv => robbed \/ AtMostOneHolder
  BY DEF LockInv, Owned, AtMostOneHolder
<1>4. LockInv /\ [LockNext]_lockVars =>
        [\/ robbed \/ store \in {NoFile, 0} \/ store' = Succ(store)
         \/ \E p \in Procs : SeedStore(p)]_store
  <2> SUFFICES ASSUME LockInv, [LockNext]_lockVars, store' # store,
                      ~robbed, store \notin {NoFile, 0}, ~\E p \in Procs : SeedStore(p)
               PROVE  store' = Succ(store)
    OBVIOUS
  <2>1. PICK p \in Procs : WriteStore(p)
    BY DEF lockVars, LockNext, Step, Fault, Start, Creates, AlreadyExists, Busy, Stamped, Inspect,
           RemoveStale, ReadStore, DropGuard, LockFails, StampFails, CommandFails, DropFails, Crash,
           GrowsStale
  <2> QED
    BY <2>1 DEF WriteStore, Go, LockInv, Owned
<1> QED
  BY <1>1, <1>2, <1>3, <1>4, PTL DEF LockSpec, CommandsAreAtomic

\* The lock's variables keep their types, crashes or not.
THEOREM LockTypes == LockSpec => []LockTypeOK
  BY LockTypesFirst, LockTypeStep, PTL DEF LockSpec
=============================================================================
