------------------------ MODULE ServeLifecycleProofs ------------------------
(***************************************************************************)
(* Proofs about the lifecycle of the serve runtime, for any numbers of     *)
(* commands, settings and faults, any readings of the wall clock and any   *)
(* limits of the restart guard that satisfy ServeAssumption.               *)
(***************************************************************************)
EXTENDS ServeLifecycle, FiniteSetTheorems, TLAPS

\* The backend of every step that names no other.
USE ZenonT(30)
-----------------------------------------------------------------------------
(* The commands and the lock.                                               *)

Command == [op : Ops, at : Steps, set : Settings \cup {None},
            run : Runtimes \cup {0}, sup : BOOLEAN]

\* The steps a command takes with lifecycle.lock in hand.
Locked == {"lockfile", "decide", "status", "guard", "spawn", "record", "health", "undo",
           "report", "stop", "ack"}

\* What a command knows at each of its steps.
Sound(x) ==
  /\ x.op \in {"start", "managed", "restart"} => x.set \in Settings
  /\ x.op = "managed" => x.at \in {"lock", "lockfile", "decide", "guard", "spawn"}
  /\ x.op \in {"stop", "restart"} => x.at \in {"supervisor", "stoplock", "stop", "ack", "supstart"}
  /\ x.op = "start" => x.at \notin {"supervisor", "stoplock", "supstart"}
  /\ x.at = "supstart" => x.op = "restart"
  /\ x.at \in {"record", "health", "undo", "ack"} => x.run \in Runtimes

\* Exactly the holder of the lock is at a step that needs it.
CommandsOK ==
  /\ cmd \in [Commands -> {Idle} \cup Command] /\ flock \in Commands \cup {None}
  /\ \A c \in Commands : Sound(cmd[c]) /\ (cmd[c].at \in Locked <=> flock = c)

\* A step of one command, with what it does to the lock.
Moves(c) ==
  \E x \in {Idle} \cup Command :
    /\ Sound(x) /\ cmd' = [cmd EXCEPT ![c] = x]
    /\ x.at \in Locked <=> flock' = c
    /\ flock' = flock \/ (flock \in {None, c} /\ flock' \in {None, c})

\* A step of one command keeps every command sound and the lock with its holder.
LEMMA MovesKeepCommands ==
  ASSUME CommandsOK, NEW c \in Commands, Moves(c)
  PROVE  CommandsOK' /\ \A d \in Commands \ {c} : cmd'[d] = cmd[d]
<1>1. PICK x \in {Idle} \cup Command :
         /\ Sound(x) /\ cmd' = [cmd EXCEPT ![c] = x]
         /\ x.at \in Locked <=> flock' = c
         /\ flock' = flock \/ (flock \in {None, c} /\ flock' \in {None, c})
  BY DEF Moves
<1>2. /\ cmd' \in [Commands -> {Idle} \cup Command] /\ flock' \in Commands \cup {None}
      /\ cmd'[c] = x /\ \A d \in Commands \ {c} : cmd'[d] = cmd[d]
  BY <1>1 DEF CommandsOK
<1>3. c # None
  BY ServeAssumption
<1>4. ASSUME NEW d \in Commands PROVE Sound(cmd'[d]) /\ (cmd'[d].at \in Locked <=> flock' = d)
  <2>1. CASE d = c
    BY <1>1, <1>2, <2>1
  <2>2. CASE d # c
    <3>1. cmd'[d] = cmd[d] /\ d # None
      BY <1>2, <2>2, ServeAssumption
    <3>2. flock' = d <=> flock = d
      BY <1>1, <2>2, <3>1
    <3> QED BY <3>1, <3>2 DEF CommandsOK
  <2> QED BY <2>1, <2>2
<1>5. \A d \in Commands : Sound(cmd[d])' /\ (cmd'[d].at \in Locked <=> flock' = d)
  BY <1>4 DEF Sound
<1> QED BY <1>2, <1>5 DEF CommandsOK

\* A command returns from a step that needs the lock.
LEMMA ReturnMoves ==
  ASSUME CommandsOK, NEW c \in Commands, cmd[c].at \in Locked, Return(c)
  PROVE  Moves(c)
<1>1. flock = c /\ flock' = None /\ c # None /\ cmd' = [cmd EXCEPT ![c] = Idle]
  BY ServeAssumption DEF CommandsOK, Return, Unlock
<1>2. Sound(Idle) /\ Idle.at \notin Locked
  BY DEF Sound, Idle, Locked
<1> QED BY <1>1, <1>2 DEF Moves

\* The fields of a command that goes to another step.
LEMMA GotoFields ==
  ASSUME CommandsOK, NEW c \in Commands, cmd[c] \in Command, NEW step \in Steps
  PROVE  LET x == [cmd[c] EXCEPT !.at = step]
         IN  /\ x \in Command /\ x.op = cmd[c].op /\ x.set = cmd[c].set
             /\ x.run = cmd[c].run /\ x.sup = cmd[c].sup /\ x.at = step
             /\ Goto(c, step) => cmd' = [cmd EXCEPT ![c] = x]
<1>1. [cmd[c] EXCEPT !.at = step] \in Command
  BY DEF Command
<1>2. LET x == [cmd[c] EXCEPT !.at = step]
      IN  /\ x.op = cmd[c].op /\ x.set = cmd[c].set
          /\ x.run = cmd[c].run /\ x.sup = cmd[c].sup /\ x.at = step
  BY DEF Command
<1>3. Goto(c, step) => cmd' = [cmd EXCEPT ![c] = [cmd[c] EXCEPT !.at = step]]
  BY DEF Goto
<1> QED BY <1>1, <1>2, <1>3

\* A command goes on to another step.
LEMMA GotoMoves ==
  ASSUME CommandsOK, NEW c \in Commands, cmd[c] \in Command, NEW step \in Steps, Goto(c, step),
         cmd[c].op = "managed" => step \in {"lock", "lockfile", "decide", "guard", "spawn"},
         cmd[c].op \in {"stop", "restart"} => step \in {"supervisor", "stoplock", "stop", "ack", "supstart"},
         cmd[c].op = "start" => step \notin {"supervisor", "stoplock", "supstart"},
         step = "supstart" => cmd[c].op = "restart",
         step \in {"record", "health", "undo", "ack"} => cmd[c].run \in Runtimes,
         step \in Locked <=> flock' = c,
         flock' = flock \/ (flock \in {None, c} /\ flock' \in {None, c})
  PROVE  Moves(c)
<1>1. PICK x : x = [cmd[c] EXCEPT !.at = step]
  OBVIOUS
<1>2. /\ x \in Command /\ x.op = cmd[c].op /\ x.set = cmd[c].set /\ x.run = cmd[c].run
      /\ x.at = step /\ cmd' = [cmd EXCEPT ![c] = x]
  BY <1>1, GotoFields
<1>3. Sound(x)
  BY <1>2 DEF Sound, CommandsOK
<1> QED BY <1>2, <1>3 DEF Moves

\* A command that is at a step is one.
LEMMA AtStep ==
  ASSUME CommandsOK, NEW c \in Commands, cmd[c].at \in Steps
  PROVE  cmd[c] \in Command
BY SMTT(30) DEF CommandsOK, Idle, Steps

\* What follows the stop of the recorded runtime.
LEMMA AfterStopCases ==
  ASSUME CommandsOK, NEW c \in Commands, cmd[c].at \in {"stop", "ack"}, AfterStop(c)
  PROVE  \/ cmd[c].op = "start" /\ Goto(c, "status") /\ UNCHANGED <<flock, lockFile>>
         \/ Return(c)
         \/ cmd[c].op = "restart" /\ Goto(c, "supstart") /\ Unlock
         \/ /\ cmd[c].op = "restart" /\ Unlock
            /\ cmd' = [cmd EXCEPT ![c].op = "start", ![c].at = "lock"]
<1>1. cmd[c] \in Command
  BY AtStep DEF Steps
<1>2. cmd[c].op \in {"start", "stop", "restart"}
  BY <1>1 DEF CommandsOK, Sound, Command, Ops
<1> QED BY <1>2 DEF AfterStop

\* What a command does once the stop is over is a step of that command.
LEMMA AfterStopMoves ==
  ASSUME CommandsOK, NEW c \in Commands, cmd[c].at \in {"stop", "ack"}, AfterStop(c)
  PROVE  Moves(c)
<1>1. cmd[c] \in Command /\ flock = c /\ c # None /\ Sound(cmd[c])
  BY AtStep, ServeAssumption DEF Steps, CommandsOK, Locked
<1>2. CASE cmd[c].op = "start" /\ Goto(c, "status") /\ flock' = flock
  BY <1>1, <1>2, GotoMoves DEF Steps, Locked
<1>3. CASE Return(c)
  BY <1>1, <1>3, ReturnMoves DEF Locked
<1>4. CASE cmd[c].op = "restart" /\ Goto(c, "supstart") /\ flock' = None
  BY <1>1, <1>4, GotoMoves DEF Steps, Locked
<1>5. CASE cmd[c].op = "restart" /\ cmd' = [cmd EXCEPT ![c].op = "start", ![c].at = "lock"] /\ flock' = None
  <2>1. PICK x : x = [[cmd[c] EXCEPT !.op = "start"] EXCEPT !.at = "lock"]
    OBVIOUS
  <2>2. cmd' = [cmd EXCEPT ![c] = x]
    BY <1>5, <2>1 DEF CommandsOK
  <2>3. x \in Command /\ x.op = "start" /\ x.at = "lock" /\ x.set = cmd[c].set
    BY <1>1, <2>1 DEF Command, Ops, Steps
  <2>4. Sound(x) /\ x.at \notin Locked
    BY <1>1, <1>5, <2>3 DEF Sound, Locked
  <2> QED BY <1>1, <1>5, <2>2, <2>3, <2>4 DEF Moves
<1> QED BY <1>2, <1>3, <1>4, <1>5, AfterStopCases DEF Unlock

\* The step of a command that systemd stops is not its own.
Ordinary(c) ==
  \/ TakeLock(c) \/ TakeLockFile(c) \/ Decide(c) \/ ManagedDecide(c) \/ CheckStatus(c)
  \/ CheckAndRecord(c) \/ Spawn(c) \/ BecomeRuntime(c) \/ Record(c) \/ WaitForHealth(c)
  \/ UndoLaunch(c) \/ Report(c) \/ Stop(c) \/ StopAcknowledged(c) \/ SupervisorStart(c)
  \/ CommandFault(c)

\* Each handler of a command is a step of that command.
LEMMA OrdinaryMoves ==
  ASSUME CommandsOK, state \in {NoState} \cup [pid : Runtimes, set : Settings, managed : BOOLEAN],
         NEW c \in Commands, Ordinary(c)
  PROVE  Moves(c)
<1>0. /\ c # None /\ Sound(cmd[c]) /\ (cmd[c].at \in Locked <=> flock = c)
      /\ cmd[c].at \in Steps => cmd[c] \in Command /\ cmd[c].op \in Ops
  BY AtStep, ServeAssumption DEF CommandsOK, Command
<1>1. CASE TakeLock(c)
  <2>1. PICK step : /\ step = IF cmd[c].at = "lock" THEN "lockfile" ELSE "stop"
                    /\ Goto(c, step) /\ flock = None /\ flock' = c /\ cmd[c].at \in {"lock", "stoplock"}
    BY <1>1 DEF TakeLock
  <2>2. cmd[c] \in Command /\ cmd[c].op \in Ops /\ step \in Steps /\ step \in Locked
    BY <1>0, <2>1 DEF Steps, Locked
  <2>3. /\ cmd[c].op = "managed" => step = "lockfile"
        /\ cmd[c].op \in {"stop", "restart"} => step = "stop"
        /\ step \in {"lockfile", "stop"}
    BY <1>0, <2>1 DEF Sound
  <2> QED BY <2>1, <2>2, <2>3, GotoMoves
<1>2. CASE TakeLockFile(c)
  <2>1. cmd[c].at = "lockfile" /\ (Return(c) \/ (Goto(c, "decide") /\ flock' = flock))
    BY <1>2 DEF TakeLockFile
  <2>2. /\ cmd[c] \in Command /\ flock = c /\ cmd[c].op \notin {"stop", "restart"}
        /\ "decide" \in Steps /\ "decide" \in Locked /\ cmd[c].at \in Locked
    BY <1>0, <2>1 DEF Steps, Locked, Sound
  <2>3. CASE Return(c)
    BY <2>2, <2>3, ReturnMoves
  <2>4. CASE Goto(c, "decide") /\ flock' = flock
    BY <2>2, <2>4, GotoMoves
  <2> QED BY <2>1, <2>3, <2>4
<1>3. CASE Decide(c)
  <2>1. /\ cmd[c].at = "decide" /\ cmd[c].op = "start" /\ flock' = flock
        /\ Goto(c, "status") \/ Goto(c, "stop")
    BY <1>3 DEF Decide
  <2>2. cmd[c] \in Command /\ flock = c /\ {"status", "stop"} \subseteq Steps \cap Locked
    BY <1>0, <2>1 DEF Steps, Locked
  <2> QED BY <2>1, <2>2, GotoMoves
<1>4. CASE ManagedDecide(c)
  <2>1. /\ cmd[c].at = "decide" /\ cmd[c].op = "managed"
        /\ Return(c) \/ (Goto(c, "guard") /\ flock' = flock)
    BY <1>4 DEF ManagedDecide
  <2>2. /\ cmd[c] \in Command /\ flock = c /\ "guard" \in Steps /\ "guard" \in Locked
        /\ cmd[c].at \in Locked
    BY <1>0, <2>1 DEF Steps, Locked
  <2>3. CASE Return(c)
    BY <2>2, <2>3, ReturnMoves
  <2>4. CASE Goto(c, "guard") /\ flock' = flock
    BY <2>1, <2>2, <2>4, GotoMoves
  <2> QED BY <2>1, <2>3, <2>4
<1>5. CASE CheckStatus(c)
  <2>1. cmd[c].at = "status" /\ (Return(c) \/ (Goto(c, "guard") /\ flock' = flock))
    BY <1>5 DEF CheckStatus
  <2>2. /\ cmd[c] \in Command /\ flock = c /\ cmd[c].op = "start" /\ "guard" \in Steps
        /\ "guard" \in Locked /\ cmd[c].at \in Locked
    BY <1>0, <2>1 DEF Steps, Locked, Sound, Ops
  <2>3. CASE Return(c)
    BY <2>2, <2>3, ReturnMoves
  <2>4. CASE Goto(c, "guard") /\ flock' = flock
    BY <2>2, <2>4, GotoMoves
  <2> QED BY <2>1, <2>3, <2>4
<1>6. CASE CheckAndRecord(c)
  <2>1. cmd[c].at = "guard" /\ (Return(c) \/ (Goto(c, "spawn") /\ flock' = flock))
    BY <1>6 DEF CheckAndRecord
  <2>2. /\ cmd[c] \in Command /\ flock = c /\ cmd[c].op \in {"start", "managed"}
        /\ "spawn" \in Steps /\ "spawn" \in Locked /\ cmd[c].at \in Locked
    BY <1>0, <2>1 DEF Steps, Locked, Sound, Ops
  <2>3. CASE Return(c)
    BY <2>2, <2>3, ReturnMoves
  <2>4. CASE Goto(c, "spawn") /\ flock' = flock
    BY <2>2, <2>4, GotoMoves
  <2> QED BY <2>1, <2>3, <2>4
<1>7. CASE Spawn(c)
  <2>1. PICK r \in Runtimes : cmd' = [cmd EXCEPT ![c].run = r, ![c].at = "record"]
    BY <1>7 DEF Spawn
  <2>2. PICK x : x = [[cmd[c] EXCEPT !.run = r] EXCEPT !.at = "record"]
    OBVIOUS
  <2>3. /\ cmd[c] \in Command /\ flock' = c /\ flock = c /\ cmd[c].op = "start"
        /\ cmd[c].set \in Settings
    BY <1>0, <1>7 DEF Spawn, Steps, Locked, Sound
  <2>4. cmd' = [cmd EXCEPT ![c] = x]
    BY <2>1, <2>2 DEF CommandsOK
  <2>5. x \in Command /\ x.op = "start" /\ x.at = "record" /\ x.set = cmd[c].set /\ x.run = r
    BY <2>2, <2>3 DEF Command, Steps
  <2>6. Sound(x) /\ x.at \in Locked
    BY <2>3, <2>5 DEF Sound, Locked
  <2> QED BY <2>3, <2>4, <2>5, <2>6 DEF Moves
<1>8. CASE BecomeRuntime(c) \/ UndoLaunch(c) \/ Report(c) \/ LaunchFails(c) \/ StopTimesOut(c)
  <2>1. Return(c) /\ cmd[c].at \in {"spawn", "undo", "report", "ack"}
    BY <1>8 DEF BecomeRuntime, UndoLaunch, Report, LaunchFails, StopTimesOut
  <2> QED BY <2>1, ReturnMoves DEF Locked
<1>9. CASE Record(c)
  <2>1. cmd[c].at = "record" /\ (Return(c) \/ (Goto(c, "health") /\ flock' = flock))
    BY <1>9 DEF Record
  <2>2. /\ cmd[c] \in Command /\ flock = c /\ cmd[c].op = "start" /\ cmd[c].run \in Runtimes
        /\ "health" \in Steps /\ "health" \in Locked /\ cmd[c].at \in Locked
    BY <1>0, <2>1 DEF Steps, Locked, Sound, Ops
  <2>3. CASE Return(c)
    BY <2>2, <2>3, ReturnMoves
  <2>4. CASE Goto(c, "health") /\ flock' = flock
    BY <2>2, <2>4, GotoMoves
  <2> QED BY <2>1, <2>3, <2>4
<1>10. CASE WaitForHealth(c)
  <2>1. /\ cmd[c].at = "health" /\ flock' = flock
        /\ Goto(c, "report") \/ Goto(c, "undo")
    BY <1>10 DEF WaitForHealth
  <2>2. /\ cmd[c] \in Command /\ flock = c /\ cmd[c].op = "start" /\ cmd[c].run \in Runtimes
        /\ {"report", "undo"} \subseteq Steps \cap Locked
    BY <1>0, <2>1 DEF Steps, Locked, Sound, Ops
  <2> QED BY <2>1, <2>2, GotoMoves
<1>11. CASE Stop(c)
  <2>1. cmd[c].at = "stop" /\ cmd[c].at \in Locked /\ flock = c /\ cmd[c] \in Command
    BY <1>0, <1>11 DEF Stop, Steps, Locked
  <2>2. CASE Return(c)
    BY <2>1, <2>2, ReturnMoves
  <2>3. CASE AfterStop(c)
    BY <2>1, <2>3, AfterStopMoves
  <2>4. CASE /\ state # NoState /\ flock' = flock
             /\ cmd' = [cmd EXCEPT ![c].at = "ack", ![c].run = state.pid]
    <3>1. PICK x : x = [[cmd[c] EXCEPT !.at = "ack"] EXCEPT !.run = state.pid]
      OBVIOUS
    <3>2. state.pid \in Runtimes
      BY <2>4
    <3>3. cmd' = [cmd EXCEPT ![c] = x]
      BY <2>4, <3>1 DEF CommandsOK
    <3>4. /\ x \in Command /\ x.op = cmd[c].op /\ x.at = "ack" /\ x.set = cmd[c].set
          /\ x.run = state.pid
      BY <2>1, <3>1, <3>2 DEF Command, Steps
    <3>5. Sound(x) /\ x.at \in Locked
      BY <1>0, <2>1, <3>2, <3>4 DEF Sound, Locked
    <3> QED BY <2>1, <2>4, <3>3, <3>4, <3>5 DEF Moves
  <2> QED BY <1>11, <2>2, <2>3, <2>4 DEF Stop
<1>12. CASE StopAcknowledged(c)
  BY <1>12, AfterStopMoves DEF StopAcknowledged
<1>13. CASE SupervisorStart(c)
  <2>1. cmd[c].at = "supstart" /\ flock # c /\ flock' = flock /\ cmd[c].set \in Settings
    BY <1>0, <1>13 DEF SupervisorStart, Sound, Locked
  <2>2. PICK x : /\ x = Idle \/ x = [Idle EXCEPT !.op = "managed", !.at = "lock", !.set = cmd[c].set]
                 /\ cmd' = [cmd EXCEPT ![c] = x]
    BY <1>13 DEF SupervisorStart
  <2>3. ASSUME x = Idle PROVE Sound(x) /\ x.at \notin Locked
    BY <2>3 DEF Idle, Sound, Locked
  <2>4. ASSUME x # Idle PROVE x \in Command /\ Sound(x) /\ x.at \notin Locked
    <3>0. x = [Idle EXCEPT !.op = "managed", !.at = "lock", !.set = cmd[c].set]
      BY <2>2, <2>4
    <3>1. x = [op |-> "managed", at |-> "lock", set |-> cmd[c].set, run |-> 0, sup |-> FALSE]
      BY <3>0 DEF Idle
    <3> QED BY <2>1, <3>1 DEF Command, Ops, Steps, Sound, Locked
  <2> QED BY <2>1, <2>2, <2>3, <2>4 DEF Moves
<1>14. CASE SupervisorStopFails(c)
  <2>1. /\ cmd[c].at = "supervisor" /\ flock' = flock /\ cmd' = [cmd EXCEPT ![c] = Idle]
        /\ flock # c
    BY <1>0, <1>14 DEF SupervisorStopFails, Locked
  <2> QED BY <2>1 DEF Moves, Sound, Idle, Locked
<1>15. CASE KillCommand(c)
  <2>1. cmd' = [cmd EXCEPT ![c] = Idle] /\ flock' = IF flock = c THEN None ELSE flock
    BY <1>15 DEF KillCommand
  <2> QED BY <1>0, <2>1 DEF Moves, Sound, Idle, Locked
<1> QED BY <1>1, <1>2, <1>3, <1>4, <1>5, <1>6, <1>7, <1>8, <1>9, <1>10, <1>11, <1>12, <1>13,
           <1>14, <1>15 DEF Ordinary, CommandFault

\* systemd stops its process, and the command that asked for it goes on.
LEMMA SupervisorStopMoves ==
  ASSUME CommandsOK, NEW c \in Commands, SupervisorStop(c)
  PROVE  /\ CommandsOK'
         /\ \A d \in Commands : cmd'[d].at = "ack" => cmd'[d] = cmd[d]
         /\ ~state.managed => /\ UNCHANGED <<flock, lockFile, proc>>
                              /\ \A d \in Commands \ {c} : cmd'[d] = cmd[d]
                              /\ flock # c
<1>1. /\ cmd[c].at = "supervisor" /\ cmd[c] \in Command /\ Sound(cmd[c]) /\ flock # c
      /\ cmd[c].op \in {"stop", "restart"}
  BY AtStep DEF SupervisorStop, Steps, CommandsOK, Locked, Sound, Command, Ops
<1>2. PICK x : x = [cmd[c] EXCEPT !.at = "stoplock"]
  OBVIOUS
<1>3. /\ x \in Command /\ x.at = "stoplock" /\ x.at \notin Locked /\ Sound(x)
      /\ Goto(c, "stoplock") => cmd' = [cmd EXCEPT ![c] = x]
  <2>1. /\ x \in Command /\ x.op = cmd[c].op /\ x.set = cmd[c].set /\ x.run = cmd[c].run
        /\ x.at = "stoplock" /\ (Goto(c, "stoplock") => cmd' = [cmd EXCEPT ![c] = x])
    BY <1>1, <1>2, GotoFields DEF Steps
  <2> QED BY <1>1, <2>1 DEF Sound, Locked
<1>4. CASE state.managed
  <2> DEFINE victims == {d \in Commands : cmd[d].op = "managed"}
  <2>1. /\ cmd' = [d \in Commands |-> CASE d \in victims -> Idle
                                        [] d = c -> x
                                        [] OTHER -> cmd[d]]
        /\ flock' = IF flock \in victims THEN None ELSE flock
    BY SMTT(30), <1>2, <1>4 DEF SupervisorStop
  <2>2. c \notin victims /\ Sound(Idle) /\ Idle.at = "idle" /\ "idle" \notin Locked
    BY <1>1 DEF Sound, Idle, Locked
  <2>3. \A d \in Commands : /\ d \in victims => cmd'[d] = Idle
                            /\ d = c => cmd'[d] = x
                            /\ d \notin victims \cup {c} => cmd'[d] = cmd[d]
    BY <2>1, <2>2
  <2>4. \A d \in Commands : flock' = d <=> flock = d /\ d \notin victims
    BY <2>1, ServeAssumption
  <2> HIDE DEF victims
  <2>5. ASSUME NEW d \in Commands
        PROVE  /\ cmd'[d] \in {Idle} \cup Command /\ Sound(cmd'[d])
               /\ cmd'[d].at \in Locked <=> flock' = d
               /\ cmd'[d].at = "ack" => cmd'[d] = cmd[d]
    <3>1. CASE d \in victims
      BY <2>2, <2>3, <2>4, <3>1
    <3>2. CASE d = c
      BY <1>1, <1>3, <2>3, <2>4, <3>2
    <3>3. CASE d \notin victims \cup {c}
      <4>1. cmd'[d] = cmd[d] /\ (flock' = d <=> flock = d)
        BY <2>3, <2>4, <3>3
      <4> QED BY <4>1 DEF CommandsOK
    <3> QED BY <3>1, <3>2, <3>3
  <2>6. cmd' \in [Commands -> {Idle} \cup Command]
    BY <2>1, <2>5
  <2>7. flock' \in Commands \cup {None}
    BY <2>1 DEF CommandsOK
  <2>8. \A d \in Commands : Sound(cmd[d])' /\ (cmd'[d].at \in Locked <=> flock' = d)
    BY <2>5 DEF Sound
  <2>9. \A d \in Commands : cmd'[d].at = "ack" => cmd'[d] = cmd[d]
    BY <2>5
  <2> QED BY <1>4, <2>6, <2>7, <2>8, <2>9 DEF CommandsOK
<1>5. CASE ~state.managed
  <2>1. cmd' = [cmd EXCEPT ![c] = x] /\ UNCHANGED <<flock, lockFile, proc>>
    BY <1>3, <1>5 DEF SupervisorStop
  <2>2. Moves(c)
    BY <1>1, <1>3, <2>1 DEF Moves
  <2>3. CommandsOK' /\ \A d \in Commands \ {c} : cmd'[d] = cmd[d]
    BY <2>2, MovesKeepCommands
  <2>4. cmd'[c] = x
    BY <2>1 DEF CommandsOK
  <2> QED BY <1>1, <1>3, <2>1, <2>3, <2>4
<1> QED BY <1>4, <1>5

\* A command is invoked.
LEMMA InvokeMoves ==
  ASSUME CommandsOK, NEW c \in Commands, NEW op \in Ops, NEW s \in Settings, Invoke(c, op, s)
  PROVE  Moves(c) /\ flock # c
<1>1. PICK x : /\ x = [op |-> op, set |-> IF op = "stop" THEN None ELSE s, run |-> 0,
                       at |-> IF op \in {"stop", "restart"} THEN "supervisor" ELSE "lock",
                       sup |-> op = "restart" /\ RestartWithSupervisor(s)]
               /\ cmd' = [cmd EXCEPT ![c] = x]
  BY DEF Invoke
<1>2. flock # c /\ flock' = flock
  BY SMTT(30) DEF Invoke, CommandsOK, Idle, Locked
<1>3. (op = "restart" /\ RestartWithSupervisor(s)) \in BOOLEAN
  BY DEF RestartWithSupervisor
<1>4. /\ x.op = op /\ x.set = (IF op = "stop" THEN None ELSE s) /\ x.run = 0
      /\ x.at = IF op \in {"stop", "restart"} THEN "supervisor" ELSE "lock"
  BY <1>1
<1>5. x \in Command
  BY <1>1, <1>3 DEF Command, Steps
<1>6. Sound(x) /\ x.at \notin Locked
  BY <1>4 DEF Sound, Locked, Ops
<1> QED BY <1>1, <1>2, <1>5, <1>6 DEF Moves

\* The commands keep their shape and the lock its holder.
LEMMA CommandsStep ==
  ASSUME CommandsOK, state \in {NoState} \cup [pid : Runtimes, set : Settings, managed : BOOLEAN],
         [Next]_vars
  PROVE  CommandsOK'
<1>1. ASSUME NEW c \in Commands, NEW op \in Ops, NEW s \in Settings, Invoke(c, op, s) PROVE CommandsOK'
  BY <1>1, InvokeMoves, MovesKeepCommands
<1>2. ASSUME NEW c \in Commands, CommandStep(c) \/ CommandFault(c) PROVE CommandsOK'
  <2>1. SupervisorStop(c) \/ Ordinary(c)
    BY <1>2 DEF CommandStep, Ordinary
  <2> QED BY <2>1, SupervisorStopMoves, OrdinaryMoves, MovesKeepCommands
<1>3. CASE UNCHANGED <<cmd, flock>>
  BY <1>3 DEF CommandsOK, Sound
<1> QED
  BY <1>1, <1>2, <1>3 DEF Next, RuntimeStep, RuntimeFault, Bind, ObeyMarker, ReadOwnState,
       RemoveOwnState, Die, ReusePid, vars

-----------------------------------------------------------------------------
(* The files and the processes.                                             *)

ProcStates == {"none", "booting", "serving", "closing", "removing", "dead", "reused"}
StateFile == {NoState} \cup [pid : Runtimes, set : Settings, managed : BOOLEAN]

\* How a process lives: it boots once, and once it is dead only its pid comes back.
Lives(r) == \/ proc'[r] = proc[r]
            \/ proc[r] = "none" /\ proc'[r] = "booting"
            \/ Live(r) /\ proc'[r] \in {"serving", "closing", "removing", "dead"}
            \/ proc[r] = "dead" /\ proc'[r] = "reused"

\* What the steps leave alone.
LEMMA ProcsKept ==
  ASSUME NEW c \in Commands, CommandStep(c) \/ CommandFault(c),
         ~SupervisorStop(c), ~Spawn(c), ~BecomeRuntime(c)
  PROVE  UNCHANGED procs
BY DEF CommandStep, CommandFault, TakeLock, TakeLockFile, Decide, ManagedDecide, CheckStatus, CheckAndRecord,
     Record, WaitForHealth, UndoLaunch, Report, Stop, StopAcknowledged, SupervisorStart,
     SupervisorStopFails, LaunchFails, StopTimesOut, KillCommand

\* The processes.
LEMMA ProcsStep ==
  ASSUME proc \in [Runtimes -> ProcStates], [Next]_vars
  PROVE  proc' \in [Runtimes -> ProcStates] /\ \A r \in Runtimes : Lives(r)
<1>1. CASE UNCHANGED proc
  BY <1>1 DEF Lives
<1>2. ASSUME NEW r \in Runtimes, NEW v \in ProcStates, proc' = [proc EXCEPT ![r] = v],
             \/ proc[r] = "none" /\ v = "booting"
             \/ Live(r) /\ v \in {"serving", "closing", "removing", "dead"}
             \/ proc[r] = "dead" /\ v = "reused"
      PROVE  proc' \in [Runtimes -> ProcStates] /\ \A q \in Runtimes : Lives(q)
  BY <1>2 DEF Lives
<1>3. ASSUME NEW c \in Commands, SupervisorStop(c)
      PROVE  proc' \in [Runtimes -> ProcStates] /\ \A q \in Runtimes : Lives(q)
  <2>1. CASE proc' = [r \in Runtimes |-> IF Live(r) /\ conf[r].managed THEN "dead" ELSE proc[r]]
    <3>1. \A r \in Runtimes : proc'[r] \in ProcStates /\ Lives(r)
      BY <2>1 DEF Lives, ProcStates
    <3> QED BY <2>1, <3>1
  <2> QED BY <1>1, <1>3, <2>1 DEF SupervisorStop
<1>4. ASSUME NEW c \in Commands, Spawn(c) \/ BecomeRuntime(c)
      PROVE  proc' \in [Runtimes -> ProcStates] /\ \A q \in Runtimes : Lives(q)
  <2>1. PICK r \in Runtimes : proc[r] = "none" /\ proc' = [proc EXCEPT ![r] = "booting"]
    BY <1>4 DEF Spawn, BecomeRuntime, NextRuntime
  <2> QED BY <1>2, <2>1 DEF ProcStates
<1>5. ASSUME NEW c \in Commands, CommandStep(c) \/ CommandFault(c)
      PROVE  proc' \in [Runtimes -> ProcStates] /\ \A q \in Runtimes : Lives(q)
  BY <1>1, <1>3, <1>4, <1>5, ProcsKept DEF procs
<1>6. ASSUME NEW r \in Runtimes, RuntimeStep(r) \/ RuntimeFault(r)
      PROVE  proc' \in [Runtimes -> ProcStates] /\ \A q \in Runtimes : Lives(q)
  <2>1. PICK v : /\ proc' = [proc EXCEPT ![r] = v]
                 /\ \/ Live(r) /\ v \in {"serving", "closing", "removing", "dead"}
                    \/ proc[r] = "dead" /\ v = "reused"
    <3>1. CASE Bind(r)
      <4>1. PICK v : /\ v = CASE ~Serving(conf[r].set.port) -> "serving"
                               [] conf[r].managed -> "closing"
                               [] OTHER -> "dead"
                     /\ proc' = [proc EXCEPT ![r] = v]
        BY <3>1 DEF Bind
      <4>2. v \in {"serving", "closing", "dead"}
        BY <4>1
      <4> QED BY <3>1, <4>1, <4>2 DEF Bind, Live
    <3>2. CASE ObeyMarker(r) \/ ReadOwnState(r) \/ RemoveOwnState(r) \/ Die(r) \/ ReusePid(r)
      BY <3>2 DEF ObeyMarker, ReadOwnState, RemoveOwnState, Die, ReusePid, Live
    <3> QED BY <1>6, <3>1, <3>2 DEF RuntimeStep, RuntimeFault
  <2>2. v \in ProcStates
    BY <2>1 DEF ProcStates
  <2> QED BY <1>2, <2>1, <2>2
<1> QED BY <1>1, <1>5, <1>6 DEF Next, Invoke, procs, vars

\* How a runtime was launched is written once, at its launch.
LEMMA ConfStep ==
  ASSUME CommandsOK, conf \in [Runtimes -> [set : Settings \cup {None}, managed : BOOLEAN]],
         [Next]_vars
  PROVE  /\ conf' \in [Runtimes -> [set : Settings \cup {None}, managed : BOOLEAN]]
         /\ \/ conf' = conf
            \/ \E c \in Commands, r \in Runtimes, m \in BOOLEAN :
                 /\ IF m THEN BecomeRuntime(c) ELSE Spawn(c)
                 /\ proc[r] = "none" /\ proc' = [proc EXCEPT ![r] = "booting"]
                 /\ conf' = [conf EXCEPT ![r] = [set |-> cmd[c].set, managed |-> m]]
<1>1. CASE UNCHANGED conf
  BY <1>1
<1>2. ASSUME NEW c \in Commands, Spawn(c) \/ BecomeRuntime(c)
      PROVE  \E r \in Runtimes, m \in BOOLEAN :
               /\ IF m THEN BecomeRuntime(c) ELSE Spawn(c)
               /\ proc[r] = "none" /\ proc' = [proc EXCEPT ![r] = "booting"]
               /\ conf' = [conf EXCEPT ![r] = [set |-> cmd[c].set, managed |-> m]]
               /\ conf' \in [Runtimes -> [set : Settings \cup {None}, managed : BOOLEAN]]
  <2>1. cmd[c].set \in Settings \cup {None} /\ cmd[c].at = "spawn"
    <3>1. cmd[c] \in Command
      BY <1>2, AtStep DEF Spawn, BecomeRuntime, Steps
    <3> QED BY <1>2, <3>1 DEF Command, Spawn, BecomeRuntime
  <2>2. CASE Spawn(c)
    <3>1. PICK r \in Runtimes : /\ proc[r] = "none" /\ proc' = [proc EXCEPT ![r] = "booting"]
                                /\ conf' = [conf EXCEPT ![r] = [set |-> cmd[c].set, managed |-> FALSE]]
      BY <2>2 DEF Spawn, NextRuntime
    <3>2. conf' \in [Runtimes -> [set : Settings \cup {None}, managed : BOOLEAN]]
      BY <2>1, <3>1
    <3> QED BY <2>2, <3>1, <3>2
  <2>3. CASE BecomeRuntime(c)
    <3>1. PICK r \in Runtimes : /\ proc[r] = "none" /\ proc' = [proc EXCEPT ![r] = "booting"]
                                /\ conf' = [conf EXCEPT ![r] = [set |-> cmd[c].set, managed |-> TRUE]]
      BY <2>3 DEF BecomeRuntime, NextRuntime
    <3>2. conf' \in [Runtimes -> [set : Settings \cup {None}, managed : BOOLEAN]]
      BY <2>1, <3>1
    <3> QED BY <2>3, <3>1, <3>2
  <2> QED BY <1>2, <2>2, <2>3
<1>3. ASSUME NEW c \in Commands, CommandStep(c) \/ CommandFault(c)
      PROVE  UNCHANGED conf \/ Spawn(c) \/ BecomeRuntime(c)
  BY <1>3, ProcsKept DEF procs, SupervisorStop
<1>4. ASSUME NEW r \in Runtimes, RuntimeStep(r) \/ RuntimeFault(r) PROVE UNCHANGED conf
  BY <1>4 DEF RuntimeStep, RuntimeFault, Bind, ObeyMarker, ReadOwnState, RemoveOwnState, Die, ReusePid
<1>5. \/ UNCHANGED conf
      \/ \E c \in Commands : Spawn(c) \/ BecomeRuntime(c)
  BY <1>3, <1>4 DEF Next, Invoke, procs, vars
<1>6. CASE \E c \in Commands : Spawn(c) \/ BecomeRuntime(c)
  <2>1. PICK c \in Commands : Spawn(c) \/ BecomeRuntime(c)
    BY <1>6
  <2> QED BY <1>2, <2>1
<1> QED BY <1>1, <1>5, <1>6

\* Who writes the state file.
LEMMA StateChanges ==
  ASSUME [Next]_vars
  PROVE  \/ state' = state \/ state' = NoState
         \/ \E c \in Commands : BecomeRuntime(c) \/ Record(c)
<1>1. ASSUME NEW c \in Commands, CommandStep(c) \/ CommandFault(c)
      PROVE  state' = state \/ state' = NoState \/ BecomeRuntime(c) \/ Record(c)
  BY <1>1 DEF CommandStep, CommandFault, SupervisorStop, TakeLock, TakeLockFile, Decide, ManagedDecide, Forget,
       CheckStatus,
       CheckAndRecord, Spawn, WaitForHealth, UndoLaunch, Report, Stop, StopAcknowledged, SupervisorStart,
       SupervisorStopFails, LaunchFails, StopTimesOut, KillCommand, files
<1>2. ASSUME NEW r \in Runtimes, RuntimeStep(r) \/ RuntimeFault(r)
      PROVE  state' = state \/ state' = NoState
  BY <1>2 DEF RuntimeStep, RuntimeFault, Bind, ObeyMarker, ReadOwnState, RemoveOwnState, Die, ReusePid, files
<1> QED BY <1>1, <1>2 DEF Next, Invoke, files, vars

\* The state file is removed, or names the runtime that a command has launched.
LEMMA StateStep ==
  ASSUME CommandsOK, state \in StateFile, [Next]_vars
  PROVE  state' \in StateFile
<1>1. CASE state' = state \/ state' = NoState
  BY <1>1 DEF StateFile
<1>2. ASSUME NEW c \in Commands, BecomeRuntime(c) PROVE state' \in StateFile
  <2>1. cmd[c].set \in Settings
    BY <1>2 DEF BecomeRuntime, CommandsOK, Sound
  <2>2. PICK r \in Runtimes : state' = Recorded(r, cmd[c].set, TRUE)
    BY <1>2 DEF BecomeRuntime
  <2> QED BY <2>1, <2>2 DEF Recorded, StateFile
<1>3. ASSUME NEW c \in Commands, Record(c) PROVE state' \in StateFile
  <2>1. cmd[c].run \in Runtimes /\ cmd[c].at = "record" /\ Sound(cmd[c])
    BY <1>3 DEF Record, CommandsOK, Sound
  <2>2. cmd[c] \in Command
    BY <2>1, AtStep DEF Steps
  <2>3. cmd[c].set \in Settings
    BY <2>1, <2>2 DEF Sound, Command, Ops
  <2>4. Recorded(cmd[c].run, cmd[c].set, FALSE) \in StateFile
    BY <2>1, <2>3 DEF Recorded, StateFile
  <2>5. state' = state \/ state' = Recorded(cmd[c].run, cmd[c].set, FALSE)
    BY <1>3 DEF Record
  <2> QED BY <2>4, <2>5
<1> QED BY <1>1, <1>2, <1>3, StateChanges

\* The marker is removed, or names the runtime that is to stop.
LEMMA MarkerStep ==
  ASSUME CommandsOK, state \in StateFile, marker \in Runtimes \cup {None}, [Next]_vars
  PROVE  marker' \in Runtimes \cup {None}
<1>1. ASSUME NEW c \in Commands, WaitForHealth(c) PROVE marker' \in Runtimes \cup {None}
  <2>1. cmd[c].run \in Runtimes
    BY <1>1 DEF WaitForHealth, CommandsOK, Sound
  <2> QED BY <1>1, <2>1 DEF WaitForHealth
<1>2. ASSUME NEW c \in Commands, Stop(c) PROVE marker' \in Runtimes \cup {None}
  BY <1>2 DEF Stop, StateFile
<1>3. ASSUME NEW c \in Commands, CommandStep(c) \/ CommandFault(c)
      PROVE  marker' = marker \/ marker' = None \/ WaitForHealth(c) \/ Stop(c)
  BY <1>3 DEF CommandStep, CommandFault, SupervisorStop, TakeLock, TakeLockFile, Decide, ManagedDecide, CheckStatus,
       CheckAndRecord, Spawn, BecomeRuntime, Record, UndoLaunch, Report, StopAcknowledged, SupervisorStart,
       SupervisorStopFails, LaunchFails, StopTimesOut, KillCommand, files
<1>4. ASSUME NEW r \in Runtimes, RuntimeStep(r) \/ RuntimeFault(r)
      PROVE  marker' = marker \/ marker' = None
  BY <1>4 DEF RuntimeStep, RuntimeFault, Bind, ObeyMarker, ReadOwnState, RemoveOwnState, Die, ReusePid, files
<1> QED BY <1>1, <1>2, <1>3, <1>4 DEF Next, Invoke, files, vars

\* The lock file.
LEMMA LockFileStep ==
  ASSUME CommandsOK, lockFile \in {"none", "owned", "stale", "malformed"}, [Next]_vars
  PROVE  lockFile' \in {"none", "owned", "stale", "malformed"}
<1>1. ASSUME NEW c \in Commands, Unlock \/ Return(c) PROVE lockFile' \in {"none", "owned", "stale", "malformed"}
  BY <1>1 DEF Unlock, Return
<1>2. ASSUME NEW c \in Commands, SupervisorStop(c) \/ KillCommand(c)
      PROVE  lockFile' \in {"none", "owned", "stale", "malformed"}
  <2>1. CASE SupervisorStop(c)
    <3>1. lockFile' \in {lockFile, "stale"}
      BY <2>1 DEF SupervisorStop
    <3> QED BY <3>1
  <2>2. CASE KillCommand(c)
    <3>1. PICK kept : /\ kept = CASE cmd[c].at = "lockfile" -> {lockFile, "malformed"}
                                  [] flock = c /\ lockFile = "owned" -> {"stale"}
                                  [] OTHER -> {lockFile}
                      /\ lockFile' \in kept
      BY <2>2 DEF KillCommand
    <3>2. kept = {lockFile, "malformed"} \/ kept = {"stale"} \/ kept = {lockFile}
      BY SMTT(30), <3>1
    <3> QED BY <3>1, <3>2
  <2> QED BY <1>2, <2>1, <2>2
<1>3. ASSUME NEW c \in Commands, Stop(c) \/ StopAcknowledged(c)
      PROVE  lockFile' = lockFile \/ Unlock \/ Return(c)
  BY <1>3, AfterStopCases DEF Stop, StopAcknowledged
<1>4. ASSUME NEW c \in Commands, CommandStep(c) \/ CommandFault(c)
      PROVE  \/ lockFile' = lockFile \/ lockFile' = "owned" \/ Unlock \/ Return(c)
             \/ SupervisorStop(c) \/ KillCommand(c)
  BY <1>3, <1>4 DEF CommandStep, CommandFault, TakeLock, TakeLockFile, Decide, ManagedDecide, CheckStatus,
       CheckAndRecord, Spawn, BecomeRuntime, Record, WaitForHealth, UndoLaunch, Report, SupervisorStart,
       SupervisorStopFails, LaunchFails, StopTimesOut, files
<1>5. ASSUME NEW r \in Runtimes, RuntimeStep(r) \/ RuntimeFault(r) PROVE lockFile' = lockFile
  BY <1>5 DEF RuntimeStep, RuntimeFault, Bind, ObeyMarker, ReadOwnState, RemoveOwnState, Die, ReusePid, files
<1> QED BY <1>1, <1>2, <1>4, <1>5 DEF Next, Invoke, files, vars

\* Faults are counted.
LEMMA FaultsChange ==
  ASSUME [Next]_vars
  PROVE  faults' = faults \/ Fault
BY DEF Next, Invoke, vars, CommandStep, CommandFault, SupervisorStop, TakeLock, TakeLockFile,
     Decide, ManagedDecide, CheckStatus, CheckAndRecord, Spawn, BecomeRuntime, Record, WaitForHealth, UndoLaunch,
     Report, Stop, StopAcknowledged, SupervisorStart, SupervisorStopFails, LaunchFails, StopTimesOut, KillCommand,
     RuntimeStep, RuntimeFault, Bind, ObeyMarker, ReadOwnState, RemoveOwnState, Die, ReusePid, Probe

\* The counters.
LEMMA CountersStep ==
  ASSUME invoked \in 0 .. MaxCommands, faults \in 0 .. MaxFaults, [Next]_vars
  PROVE  invoked' \in 0 .. MaxCommands /\ faults' \in 0 .. MaxFaults
<1> MaxCommands \in Nat /\ MaxFaults \in Nat
  BY ServeAssumption
<1>1. invoked' = invoked \/ (invoked < MaxCommands /\ invoked' = invoked + 1)
  BY DEF Next, Invoke, vars, CommandStep, CommandFault, SupervisorStop, TakeLock, TakeLockFile,
       Decide, ManagedDecide, CheckStatus, CheckAndRecord, Spawn, BecomeRuntime, Record, WaitForHealth, UndoLaunch,
       Report, Stop, StopAcknowledged, SupervisorStart, SupervisorStopFails, LaunchFails, StopTimesOut, KillCommand,
       RuntimeStep, RuntimeFault, Bind, ObeyMarker, ReadOwnState, RemoveOwnState, Die, ReusePid
<1>2. faults' = faults \/ Fault
  BY FaultsChange
<1>3. faults' \in 0 .. MaxFaults
  BY SMTT(30), <1>2 DEF Fault
<1> QED BY SMTT(30), <1>1, <1>3

\* Only the holder of the lock touches the copies of the runner.
LEMMA CopiesKept ==
  ASSUME NEW c \in Commands, CommandStep(c) \/ CommandFault(c), cmd[c].at \notin Locked
  PROVE  UNCHANGED copies
BY DEF CommandStep, CommandFault, SupervisorStop, TakeLock, TakeLockFile, Decide, ManagedDecide, CheckStatus,
     CheckAndRecord, Spawn, BecomeRuntime, Record, WaitForHealth, UndoLaunch, Report, Stop, StopAcknowledged,
     SupervisorStart, SupervisorStopFails, LaunchFails, StopTimesOut, KillCommand, files, Locked

\* The copies of the runner.
LEMMA CopiesStep ==
  ASSUME copies \subseteq Runtimes, [Next]_vars
  PROVE  copies' \subseteq Runtimes
<1>1. ASSUME NEW c \in Commands, Spawn(c) PROVE copies' \subseteq Runtimes
  BY <1>1 DEF Spawn
<1>2. ASSUME NEW c \in Commands, CommandStep(c) \/ CommandFault(c)
      PROVE  Spawn(c) \/ copies' = copies \/ copies' = {} \/ \E q : copies' = copies \ {q}
  BY <1>2 DEF CommandStep, CommandFault, SupervisorStop, TakeLock, TakeLockFile, Decide, ManagedDecide, Forget,
       CheckStatus, CheckAndRecord, BecomeRuntime, Record, WaitForHealth, UndoLaunch, Report, Stop,
       StopAcknowledged, SupervisorStart, SupervisorStopFails, LaunchFails, StopTimesOut, KillCommand, files
<1>3. ASSUME NEW q \in Runtimes, RuntimeStep(q) \/ RuntimeFault(q) PROVE copies' = copies
  BY <1>3 DEF RuntimeStep, RuntimeFault, Bind, ObeyMarker, ReadOwnState, RemoveOwnState, Die, ReusePid, files
<1> QED BY <1>1, <1>2, <1>3 DEF Next, Invoke, files, vars

-----------------------------------------------------------------------------
(* The restart guard.                                                       *)

\* No burst holds too many launches, and the guard's file lists all of a burst that may go on.
Guarded ==
  /\ launches \in Seq(0 .. MaxTime) /\ guard \subseteq DOMAIN launches
  /\ \A i \in DOMAIN launches : Burst(i, Len(launches)) => i \in guard
  /\ \A i, j \in DOMAIN launches : i <= j /\ Burst(i, j) => j - i < MaxAttempts

\* What Append does to a sequence.
LEMMA AppendFacts ==
  ASSUME NEW S, NEW q \in Seq(S), NEW x \in S
  PROVE  /\ Len(q) \in Nat /\ DOMAIN q = 1 .. Len(q) /\ \A i \in 1 .. Len(q) : q[i] \in S
         /\ Append(q, x) \in Seq(S) /\ DOMAIN Append(q, x) = 1 .. Len(q) + 1
         /\ Append(q, x)[Len(q) + 1] = x /\ \A i \in 1 .. Len(q) : Append(q, x)[i] = q[i]
BY SMTT(30)

\* The guard and the launches change together.
LEMMA GuardChanges ==
  ASSUME [Next]_vars
  PROVE  \/ UNCHANGED <<guard, launches>> \/ ClearGuard
         \/ \E c \in Commands : CheckAndRecord(c)
<1>1. ASSUME NEW c \in Commands, CommandStep(c) \/ CommandFault(c)
      PROVE  UNCHANGED <<guard, launches>> \/ ClearGuard \/ CheckAndRecord(c)
  BY <1>1 DEF CommandStep, CommandFault, SupervisorStop, TakeLock, TakeLockFile, Decide, ManagedDecide, Forget,
       CheckStatus, Spawn, BecomeRuntime, Record, WaitForHealth, UndoLaunch, Report, Stop, StopAcknowledged,
       SupervisorStart, SupervisorStopFails, LaunchFails, StopTimesOut, KillCommand, files, hist
<1>2. ASSUME NEW r \in Runtimes, RuntimeStep(r) \/ RuntimeFault(r) PROVE UNCHANGED <<guard, launches>>
  BY <1>2 DEF RuntimeStep, RuntimeFault, Bind, ObeyMarker, ReadOwnState, RemoveOwnState, Die, ReusePid,
       files, hist
<1>3. ASSUME UNCHANGED vars \/ \E c \in Commands, op \in Ops, s \in Settings : Invoke(c, op, s)
      PROVE  UNCHANGED <<guard, launches>>
  BY <1>3 DEF Invoke, vars, files, hist
<1> QED BY <1>1, <1>2, <1>3 DEF Next

\* A launch that is let through finds room in every burst it continues.
LEMMA GuardedStep ==
  ASSUME Guarded, [Next]_vars
  PROVE  Guarded'
<1>0. MaxTime \in Nat /\ Window \in Nat /\ MaxAttempts \in Nat \ {0}
  BY ServeAssumption
<1>1. CASE UNCHANGED <<guard, launches>>
  BY <1>1 DEF Guarded, Burst
<1>2. CASE ClearGuard
  <2>1. guard' = {} /\ launches' = <<>>
    BY <1>2 DEF ClearGuard
  <2>2. launches' \in Seq(0 .. MaxTime) /\ DOMAIN launches' = {}
    BY SMTT(30), <2>1
  <2> QED BY <2>1, <2>2 DEF Guarded
<1>3. ASSUME NEW c \in Commands, CheckAndRecord(c), ~UNCHANGED <<guard, launches>> PROVE Guarded'
  <2>0. PICK n : n = Len(launches)
    OBVIOUS
  <2>1. PICK now \in 0 .. MaxTime :
          /\ Cardinality(Recent(now)) < MaxAttempts /\ guard' = Recent(now) \cup {n + 1}
          /\ launches' = Append(launches, now)
    BY <1>3, <2>0 DEF CheckAndRecord
  <2>2. /\ n \in Nat /\ DOMAIN launches = 1 .. n /\ launches' \in Seq(0 .. MaxTime)
        /\ DOMAIN launches' = 1 .. n + 1 /\ launches'[n + 1] = now
        /\ \A i \in 1 .. n : launches'[i] = launches[i] /\ launches[i] \in 0 .. MaxTime
    <3>1. launches \in Seq(0 .. MaxTime)
      BY DEF Guarded
    <3>2. PICK S : S = 0 .. MaxTime
      OBVIOUS
    <3>3. launches \in Seq(S) /\ now \in S
      BY <3>1, <3>2
    <3>4. /\ n \in Nat /\ DOMAIN launches = 1 .. n /\ \A i \in 1 .. n : launches[i] \in S
          /\ Append(launches, now) \in Seq(S) /\ DOMAIN Append(launches, now) = 1 .. n + 1
          /\ Append(launches, now)[n + 1] = now
          /\ \A i \in 1 .. n : Append(launches, now)[i] = launches[i]
      BY SMTT(30), <2>0, <3>3, AppendFacts
    <3> QED BY <2>1, <3>2, <3>4
  <2>3. Recent(now) \subseteq 1 .. n /\ guard' \subseteq DOMAIN launches' /\ Len(launches') = n + 1
    <3>1. Len(launches') = n + 1
      BY SMTT(30), <2>0, <2>1 DEF Guarded
    <3> QED BY SMTT(30), <2>1, <2>2, <3>1 DEF Recent, Guarded
  <2>4. ASSUME NEW i \in 1 .. n, Burst(i, n + 1)' PROVE i .. n \subseteq Recent(now)
    <3>1. /\ \A k, m \in i .. n + 1 : k <= m => launches'[k] <= launches'[m]
          /\ launches'[n + 1] <= launches'[i] + Window
      BY <2>4 DEF Burst
    <3>2. ASSUME NEW k \in i .. n PROVE k \in Recent(now)
      <4>1. /\ k \in 1 .. n /\ \A l, m \in k .. n : l <= m => launches[l] <= launches[m]
            /\ launches[n] <= now /\ now <= launches[k] + Window /\ launches[k] <= now
            /\ launches[n] <= launches[k] + Window
        BY SMTT(30), <1>0, <2>2, <3>1
      <4>2. k \in guard
        BY <2>0, <2>2, <4>1 DEF Guarded, Burst
      <4> QED BY SMTT(30), <1>0, <2>2, <4>1, <4>2 DEF Recent
    <3> QED BY <3>2
  <2>5. ASSUME NEW i \in 1 .. n, Burst(i, n + 1)' PROVE n + 1 - i < MaxAttempts /\ i \in Recent(now)
    <3>1. IsFiniteSet(1 .. n) /\ IsFiniteSet(i .. n) /\ Cardinality(i .. n) = n - i + 1
      <4>1. 1 \in Int /\ i \in Int /\ n \in Int /\ ~(i > n)
        BY SMTT(30), <2>2
      <4> QED BY <4>1, FS_Interval
    <3>2. IsFiniteSet(Recent(now))
      BY <2>3, <3>1, FS_Subset
    <3>3. Cardinality(i .. n) <= Cardinality(Recent(now)) /\ Cardinality(Recent(now)) \in Nat
      BY <2>4, <2>5, <3>2, FS_Subset, FS_CardinalityType
    <3>4. i \in i .. n
      BY SMTT(30), <2>2
    <3>5. i \in Recent(now)
      BY <2>4, <2>5, <3>4
    <3> QED BY SMTT(30), <1>0, <2>1, <2>2, <3>1, <3>3, <3>5
  <2>6. ASSUME NEW i \in 1 .. n + 1, Burst(i, n + 1)' PROVE i \in guard'
    BY SMTT(30), <2>1, <2>2, <2>5, <2>6
  <2>7. ASSUME NEW i \in 1 .. n + 1, NEW j \in 1 .. n + 1, i <= j, Burst(i, j)' PROVE j - i < MaxAttempts
    <3>1. CASE j = n + 1
      BY SMTT(30), <1>0, <2>2, <2>5, <2>7, <3>1
    <3>2. CASE j \in 1 .. n
      <4>1. \A k \in i .. j : k \in 1 .. n /\ launches'[k] = launches[k]
        BY SMTT(30), <2>2, <2>7, <3>2
      <4>2. i \in i .. j /\ j \in i .. j
        BY SMTT(30), <2>7
      <4>3. Burst(i, j)
        BY <2>7, <4>1, <4>2 DEF Burst
      <4> QED BY <2>2, <2>7, <4>1, <4>2, <4>3 DEF Guarded
    <3> QED BY SMTT(30), <2>2, <3>1, <3>2
  <2>8. \A i \in DOMAIN launches' : Burst(i, Len(launches))' => i \in guard'
    BY <2>2, <2>3, <2>6 DEF Burst
  <2> QED BY <2>2, <2>3, <2>7, <2>8 DEF Guarded
<1> QED BY <1>1, <1>2, <1>3, GuardChanges

-----------------------------------------------------------------------------
(* Runtimes that were stopped, and those of the service manager.            *)

\* A runtime that somebody waits for has been launched and its executable is there, and one
\* that was found stopped stays so: its number is not given to another.
Stopping ==
  /\ stopped \subseteq Runtimes /\ \A r \in stopped : proc[r] \in {"dead", "reused"}
  /\ \A c \in Commands : cmd[c].at = "ack" =>
       proc[cmd[c].run] # "none" /\ (conf[cmd[c].run].managed \/ cmd[c].run \in copies)

\* Only a runtime of the service manager ends by removing its state, and the state file says
\* so of it.
Managing ==
  /\ \A r \in Runtimes : /\ conf[r].managed => proc[r] # "none"
                         /\ proc[r] \in {"closing", "removing"} => conf[r].managed
  /\ state.managed => ~OnlyDirect

\* The step of the command that holds the lock.
At == IF flock = None THEN "none" ELSE cmd[flock].at

\* What accounts for a live runtime: the state file, with the settings the runtime was
\* launched with, or the command that has just launched it or is waiting for its end.  Its
\* copy of the runner is there.
Accounted(r) ==
  /\ r \in copies
  /\ At \notin {"guard", "spawn"}
  /\ At \in {"record", "health", "undo", "ack"} => r = cmd[flock].run
  /\ At \in {"record", "health"} => conf[r].set = cmd[flock].set
  /\ At \notin {"record", "undo", "ack"} => r = state.pid /\ conf[r].set = state.set
  /\ At \notin {"record", "health", "undo", "ack"} => proc[r] = "serving"
  /\ At = "status" => state.set = cmd[flock].set

Direct == faults = 0 /\ OnlyDirect => \A r \in LiveRuntimes : Accounted(r)

\* What the proofs below know of the state.
Shaped == /\ CommandsOK /\ state \in StateFile /\ marker \in Runtimes \cup {None}
          /\ proc \in [Runtimes -> ProcStates]
          /\ conf \in [Runtimes -> [set : Settings \cup {None}, managed : BOOLEAN]]
          /\ copies \subseteq Runtimes /\ faults \in 0 .. MaxFaults

\* Nobody waits for the end of a runtime but who found it alive.
LEMMA AckStep ==
  ASSUME Shaped, NEW c \in Commands, Ordinary(c), cmd'[c].at = "ack"
  PROVE  /\ Match(state.pid) /\ state.pid \in Runtimes /\ cmd'[c].run = state.pid
         /\ UNCHANGED copies
<1>0. CommandsOK /\ cmd[c] \in {Idle} \cup Command
  BY DEF Shaped, CommandsOK
<1>1. ASSUME NEW step \in Steps \ {"ack"}, Goto(c, step) PROVE FALSE
  <2>1. cmd'[c] = [cmd[c] EXCEPT !.at = step]
    BY <1>0, <1>1 DEF Goto, CommandsOK
  <2> QED BY <1>0, <1>1, <2>1 DEF Idle, Command
<1>2. ASSUME cmd' = [cmd EXCEPT ![c] = Idle] PROVE FALSE
  BY <1>0, <1>2 DEF CommandsOK, Idle
<1>3. ASSUME Spawn(c) PROVE FALSE
  <2>1. PICK r : cmd' = [cmd EXCEPT ![c].run = r, ![c].at = "record"]
    BY <1>3 DEF Spawn
  <2> QED BY <1>0, <2>1 DEF CommandsOK, Idle, Command
<1>4. ASSUME SupervisorStart(c) PROVE FALSE
  BY <1>0, <1>4 DEF SupervisorStart, CommandsOK, Idle
<1>5. ASSUME cmd[c].at \in {"stop", "ack"}, AfterStop(c) PROVE FALSE
  <2>1. CASE cmd' = [cmd EXCEPT ![c].op = "start", ![c].at = "lock"]
    BY <1>0, <2>1 DEF CommandsOK, Idle, Command
  <2> QED BY <1>0, <1>1, <1>2, <1>5, <2>1, AfterStopCases DEF Return, Steps
<1>6. ASSUME Stop(c)
      PROVE  /\ Match(state.pid) /\ state.pid \in Runtimes /\ cmd'[c].run = state.pid
             /\ UNCHANGED copies
  <2>1. /\ state # NoState /\ Match(state.pid) /\ UNCHANGED copies
        /\ cmd' = [cmd EXCEPT ![c].at = "ack", ![c].run = state.pid]
    BY <1>2, <1>5, <1>6 DEF Stop, Return
  <2>2. state.pid \in Runtimes
    BY <2>1 DEF Shaped, StateFile
  <2>3. cmd'[c].run = state.pid
    BY <1>0, <2>1 DEF CommandsOK, Idle, Command
  <2> QED BY <2>1, <2>2, <2>3
<1>7. \/ \E step \in {"lockfile", "stop", "decide", "status", "guard", "spawn", "health", "report", "undo"} : Goto(c, step)
      \/ cmd' = [cmd EXCEPT ![c] = Idle] \/ Spawn(c) \/ SupervisorStart(c)
      \/ Stop(c) \/ (cmd[c].at \in {"stop", "ack"} /\ AfterStop(c))
  BY DEF Ordinary, CommandFault, TakeLock, TakeLockFile, Decide, ManagedDecide, CheckStatus, CheckAndRecord,
       BecomeRuntime, Record, WaitForHealth, UndoLaunch, Report, StopAcknowledged, SupervisorStopFails, LaunchFails,
       StopTimesOut, KillCommand, Return
<1> QED BY <1>1, <1>2, <1>3, <1>4, <1>5, <1>6, <1>7 DEF Steps

\* Stopped runtimes stay stopped.
LEMMA StoppingStep ==
  ASSUME Shaped, Stopping, [Next]_vars
  PROVE  Stopping'
<1>0. proc \in [Runtimes -> ProcStates] /\ CommandsOK /\ state \in StateFile
  BY DEF Shaped
<1>1. \A r \in Runtimes : /\ proc[r] \in {"dead", "reused"} => proc'[r] \in {"dead", "reused"}
                          /\ proc[r] # "none" => proc'[r] # "none"
  BY <1>0, ProcsStep DEF Lives, Live
<1>2. ASSUME NEW c \in Commands, StopAcknowledged(c) PROVE stopped' \subseteq Runtimes /\ \A r \in stopped' : proc'[r] \in {"dead", "reused"}
  <2>1. cmd[c].run \in Runtimes /\ cmd[c].at = "ack"
    BY <1>0, <1>2 DEF StopAcknowledged, CommandsOK, Sound
  <2>2. proc[cmd[c].run] \in {"dead", "reused"}
    BY <1>0, <1>2, <2>1 DEF StopAcknowledged, Match, Live, ProcStates, Stopping
  <2> QED BY <1>1, <1>2, <2>1, <2>2 DEF StopAcknowledged, Stopping
<1>3. stopped' = stopped \/ \E c \in Commands : StopAcknowledged(c)
  BY DEF Next, Invoke, vars, hist, CommandStep, CommandFault, SupervisorStop, TakeLock,
       TakeLockFile, Decide, ManagedDecide, CheckStatus, CheckAndRecord, Spawn, BecomeRuntime, Record, WaitForHealth,
       UndoLaunch, Report, Stop, SupervisorStart, SupervisorStopFails, LaunchFails, StopTimesOut, KillCommand,
       RuntimeStep, RuntimeFault, Bind, ObeyMarker, ReadOwnState, RemoveOwnState, Die, ReusePid
<1>4. stopped' \subseteq Runtimes /\ \A r \in stopped' : proc'[r] \in {"dead", "reused"}
  BY <1>1, <1>2, <1>3 DEF Stopping
<1>5. \A r \in Runtimes : proc[r] # "none" => conf'[r] = conf[r]
  <2>1. conf \in [Runtimes -> [set : Settings \cup {None}, managed : BOOLEAN]]
    BY DEF Shaped
  <2> QED BY <1>0, <2>1, ConfStep
<1>6. ASSUME NEW d \in Commands, cmd'[d].at = "ack"
      PROVE  /\ proc'[cmd'[d].run] # "none"
             /\ conf'[cmd'[d].run].managed \/ cmd'[d].run \in copies'
  <2> DEFINE waits == cmd'[d] = cmd[d] \/ (Match(state.pid) /\ state.pid \in Runtimes /\ cmd'[d].run = state.pid)
  <2>1. CASE cmd'[d] = cmd[d] /\ UNCHANGED copies
    <3>1. cmd[d].run \in Runtimes
      BY <1>0, <1>6, <2>1 DEF CommandsOK, Sound
    <3> QED BY <1>1, <1>5, <1>6, <2>1, <3>1 DEF Stopping
  <2>2. CASE Match(state.pid) /\ state.pid \in Runtimes /\ cmd'[d].run = state.pid /\ UNCHANGED copies
    <3>1. proc[state.pid] # "none" /\ (conf[state.pid].managed \/ state.pid \in copies)
      BY <2>2 DEF Match, Live
    <3> QED BY <1>1, <1>5, <2>2, <3>1
  <2>3. ASSUME NEW c \in Commands, CommandStep(c) \/ CommandFault(c) PROVE waits /\ UNCHANGED copies
    <3>1. SupervisorStop(c) \/ Ordinary(c)
      BY <2>3 DEF CommandStep, Ordinary
    <3>2. CASE SupervisorStop(c)
      <4>1. cmd'[d] = cmd[d]
        BY <1>0, <1>6, <3>2, SupervisorStopMoves
      <4> QED BY <3>2, <4>1 DEF SupervisorStop
    <3>3. CASE Ordinary(c) /\ d = c
      BY <1>6, <3>3, AckStep
    <3>4. CASE Ordinary(c) /\ d # c
      <4>1. cmd'[d] = cmd[d]
        BY <1>0, <3>4, OrdinaryMoves, MovesKeepCommands DEF StateFile
      <4>2. flock = d /\ cmd[c].at \notin Locked
        BY <1>0, <1>6, <3>4, <4>1 DEF CommandsOK, Locked
      <4> QED BY <2>3, <4>1, <4>2, CopiesKept
    <3> QED BY <3>1, <3>2, <3>3, <3>4
  <2>4. ASSUME NEW c \in Commands, NEW op \in Ops, NEW s \in Settings, Invoke(c, op, s)
        PROVE  cmd'[d] = cmd[d] /\ UNCHANGED copies
    <3>1. CASE d = c
      <4>1. cmd'[c].at \in {"supervisor", "lock"}
        BY <1>0, <2>4 DEF Invoke, CommandsOK
      <4> QED BY <1>6, <3>1, <4>1
    <3>2. CASE d # c
      <4>1. cmd'[d] = cmd[d]
        BY <1>0, <2>4, <3>2, InvokeMoves, MovesKeepCommands
      <4> QED BY <2>4, <4>1 DEF Invoke, files
    <3> QED BY <3>1, <3>2
  <2>5. waits /\ UNCHANGED copies
    BY <2>3, <2>4 DEF Next, vars, RuntimeStep, RuntimeFault, Bind, ObeyMarker, ReadOwnState,
         RemoveOwnState, Die, ReusePid, files
  <2> QED BY <2>1, <2>2, <2>5
<1> QED BY <1>4, <1>6 DEF Stopping

\* A runtime of the service manager stays one.
LEMMA ManagedKept ==
  ASSUME Shaped, Managing, [Next]_vars
  PROVE  /\ \A r \in Runtimes : conf[r].managed => conf'[r].managed
         /\ OnlyDirect' => OnlyDirect
<1>0. /\ CommandsOK /\ conf \in [Runtimes -> [set : Settings \cup {None}, managed : BOOLEAN]]
  BY DEF Shaped
<1>1. \A r \in Runtimes : conf[r].managed => conf'[r] = conf[r]
  <2>1. CASE conf' = conf
    BY <2>1
  <2>2. ASSUME NEW c \in Commands, NEW q \in Runtimes, NEW m \in BOOLEAN,
               proc[q] = "none", conf' = [conf EXCEPT ![q] = [set |-> cmd[c].set, managed |-> m]]
        PROVE  \A r \in Runtimes : conf[r].managed => conf'[r] = conf[r]
    BY <1>0, <2>2 DEF Managing
  <2> QED BY <1>0, <2>1, <2>2, ConfStep
<1>2. \A r \in Runtimes : conf[r].managed => conf'[r].managed
  BY <1>1
<1> QED BY <1>2 DEF OnlyDirect

\* A process that closes was a runtime of the service manager, or was closing before.
LEMMA ClosingStep ==
  ASSUME Shaped, Managing, [Next]_vars, NEW r \in Runtimes, proc'[r] \in {"closing", "removing"}
  PROVE  conf[r].managed
<1>0. /\ proc \in [Runtimes -> ProcStates]
      /\ conf \in [Runtimes -> [set : Settings \cup {None}, managed : BOOLEAN]]
      /\ proc[r] \in {"closing", "removing"} => conf[r].managed
  BY DEF Shaped, Managing
<1>1. CASE proc'[r] = proc[r]
  BY <1>0, <1>1
<1>2. ASSUME NEW q \in Runtimes, RuntimeStep(q) \/ RuntimeFault(q) PROVE conf[r].managed
  <2>1. CASE q # r
    <3>1. \E v : proc' = [proc EXCEPT ![q] = v]
      BY <1>2 DEF RuntimeStep, RuntimeFault, Bind, ObeyMarker, ReadOwnState, RemoveOwnState, Die, ReusePid
    <3>2. proc'[r] = proc[r]
      BY <1>0, <2>1, <3>1
    <3> QED BY <1>1, <3>2
  <2>2. CASE q = r
    <3>1. CASE Bind(r)
      <4>1. proc'[r] = CASE ~Serving(conf[r].set.port) -> "serving"
                         [] conf[r].managed -> "closing"
                         [] OTHER -> "dead"
        BY <1>0, <3>1 DEF Bind
      <4>2. ~conf[r].managed => proc'[r] \in {"serving", "dead"}
        BY <4>1
      <4> QED BY <4>2
    <3>2. CASE Die(r)
      <4>1. \/ proc' = [proc EXCEPT ![r] = "dead"]
            \/ conf[r].managed
        BY <3>2 DEF Die
      <4> QED BY <1>0, <4>1
    <3>3. CASE ReadOwnState(r)
      BY <1>0, <3>3 DEF ReadOwnState
    <3>4. CASE ObeyMarker(r) \/ RemoveOwnState(r) \/ ReusePid(r)
      <4>1. PICK v \in {"dead", "reused"} : proc' = [proc EXCEPT ![r] = v]
        BY <3>4 DEF ObeyMarker, RemoveOwnState, ReusePid
      <4> QED BY <1>0, <4>1
    <3> QED BY <1>2, <2>2, <3>1, <3>2, <3>3, <3>4 DEF RuntimeStep, RuntimeFault
  <2> QED BY <2>1, <2>2
<1>3. ASSUME NEW c \in Commands, CommandStep(c) \/ CommandFault(c) PROVE proc'[r] = proc[r]
  <2>1. CASE SupervisorStop(c)
    <3>1. proc' = proc \/ proc' = [q \in Runtimes |-> IF Live(q) /\ conf[q].managed THEN "dead" ELSE proc[q]]
      BY <2>1 DEF SupervisorStop
    <3> QED BY <3>1
  <2>2. CASE Spawn(c) \/ BecomeRuntime(c)
    <3>1. PICK q \in Runtimes : proc' = [proc EXCEPT ![q] = "booting"]
      BY <2>2 DEF Spawn, BecomeRuntime
    <3> QED BY <1>0, <3>1
  <2> QED BY <1>3, <2>1, <2>2, ProcsKept DEF procs
<1> QED BY <1>1, <1>2, <1>3 DEF Next, Invoke, procs, vars

\* What is known of the runtimes of the service manager stays true.
LEMMA ManagingStep ==
  ASSUME Shaped, Managing, [Next]_vars
  PROVE  Managing'
<1>0. /\ CommandsOK /\ state \in StateFile /\ proc \in [Runtimes -> ProcStates]
      /\ conf \in [Runtimes -> [set : Settings \cup {None}, managed : BOOLEAN]]
  BY DEF Shaped
<1>1. ASSUME NEW r \in Runtimes, conf'[r].managed PROVE proc'[r] # "none"
  <2>1. CASE conf[r].managed
    BY <1>0, <2>1, ProcsStep DEF Managing, Lives, Live
  <2>2. CASE ~conf[r].managed
    <3>1. PICK q \in Runtimes : /\ proc' = [proc EXCEPT ![q] = "booting"]
                                /\ \A x \in Runtimes \ {q} : conf'[x] = conf[x]
      BY <1>0, <1>1, <2>2, ConfStep
    <3>2. q = r
      BY <1>0, <1>1, <2>2, <3>1
    <3> QED BY <1>0, <3>1, <3>2
  <2> QED BY <2>1, <2>2
<1>2. ASSUME NEW r \in Runtimes, proc'[r] \in {"closing", "removing"} PROVE conf'[r].managed
  BY <1>2, ClosingStep, ManagedKept
<1>3. state'.managed => ~OnlyDirect'
  <2>1. CASE state' = state
    BY <2>1, ManagedKept DEF Managing
  <2>2. CASE state' = NoState
    BY <2>2 DEF NoState
  <2>3. ASSUME NEW c \in Commands, BecomeRuntime(c) PROVE ~OnlyDirect'
    <3>1. PICK r \in Runtimes : conf' = [conf EXCEPT ![r] = [set |-> cmd[c].set, managed |-> TRUE]]
      BY <2>3 DEF BecomeRuntime
    <3>2. conf'[r].managed
      BY <1>0, <3>1
    <3> QED BY <3>2 DEF OnlyDirect
  <2>4. ASSUME NEW c \in Commands, Record(c) PROVE state' = state \/ ~state'.managed
    BY SMTT(30), <2>4 DEF Record, Recorded
  <2> QED BY <2>1, <2>2, <2>3, <2>4, StateChanges
<1> QED BY <1>1, <1>2, <1>3 DEF Managing

-----------------------------------------------------------------------------
(* Direct runtimes.                                                         *)

\* A step without a fault, while no runtime is one of the service manager.
Calm == /\ Shaped /\ CommandsOK' /\ ~state.managed /\ OnlyDirect /\ OnlyDirect'
        /\ faults = 0 /\ faults' = 0
        /\ \A r \in Runtimes : Live(r) => Accounted(r)

\* The steps of the holder at which something else than the state file accounts for a runtime.
Busy == {"guard", "spawn", "record", "health", "undo", "ack"}

\* No fault happens in such a step, which would count it.
LEMMA NoFault == Calm => ~Fault
BY SMTT(30) DEF Calm, Fault

\* Who holds the lock.
LEMMA HolderAt ==
  ASSUME Calm, NEW c \in Commands
  PROVE  /\ cmd[c].at \in Locked => flock = c /\ At = cmd[c].at
         /\ cmd'[c].at \in Locked => flock' = c /\ At' = cmd'[c].at
         /\ flock' = None => At' = "none"
         /\ flock = None => At = "none"
<1>1. c # None
  BY ServeAssumption
<1>2. /\ cmd[c].at \in Locked <=> flock = c
      /\ cmd'[c].at \in Locked <=> flock' = c
  BY DEF Calm, Shaped, CommandsOK
<1> QED BY <1>1, <1>2 DEF At

\* The holder goes to another step.
LEMMA HolderGoes ==
  ASSUME Calm, NEW c \in Commands, cmd[c].at \in Locked, NEW step \in Locked, Goto(c, step)
  PROVE  flock' = c /\ At' = step /\ cmd'[c].run = cmd[c].run /\ cmd'[c].set = cmd[c].set
<1>1. CommandsOK /\ Locked \subseteq Steps
  BY DEF Calm, Shaped, Locked, Steps
<1>2. cmd[c] \in Command
  BY <1>1, AtStep
<1>3. PICK x : x = [cmd[c] EXCEPT !.at = step]
  OBVIOUS
<1>4. x.run = cmd[c].run /\ x.set = cmd[c].set /\ x.at = step /\ cmd' = [cmd EXCEPT ![c] = x]
  BY <1>1, <1>2, <1>3, GotoFields
<1>5. cmd'[c] = x
  BY <1>1, <1>4 DEF CommandsOK
<1> QED BY <1>4, <1>5, HolderAt

\* A step that changes nothing a runtime is accounted for by.
LEMMA QuietStep ==
  ASSUME Calm, NEW r \in Runtimes, Live(r)', UNCHANGED <<proc, conf, state, copies>>,
         At \notin Busy, At' \notin Busy \cup {"status"}
  PROVE  Accounted(r)'
<1>1. Accounted(r)
  BY DEF Calm, Live
<1> QED BY <1>1 DEF Accounted, Busy

\* A step of a command that does not hold the lock.
LEMMA BystanderStep ==
  ASSUME Calm, NEW r \in Runtimes, Live(r)', UNCHANGED <<proc, conf, state, copies, flock>>,
         flock # None => cmd'[flock] = cmd[flock]
  PROVE  Accounted(r)'
<1>1. Accounted(r) /\ At' = At
  BY DEF Calm, Live, At
<1>2. At \in {"record", "health", "undo", "ack", "status"} => flock # None
  BY DEF At
<1> QED BY <1>1, <1>2 DEF Accounted

\* Nobody is alive.
LEMMA NobodyStep ==
  ASSUME NEW r \in Runtimes, Live(r)', UNCHANGED proc, \A q \in Runtimes : ~Live(q)
  PROVE  FALSE
BY DEF Live

\* The probe of a port that a live runtime serves.
LEMMA ProbeAnswers ==
  ASSUME Calm, NEW port, NEW ok \in BOOLEAN, Probe(port, ok)
  PROVE  ok <=> \E q \in Runtimes : proc[q] = "serving" /\ conf[q].set.port = port
BY NoFault DEF Probe, Serving

\* Every step of a command accounts for the runtimes that are alive after it.
LEMMA CommandAccounts ==
  ASSUME Calm, NEW c \in Commands, CommandStep(c), NEW r \in Runtimes, Live(r)'
  PROVE  Accounted(r)'
<1>0. /\ CommandsOK /\ state \in StateFile /\ proc \in [Runtimes -> ProcStates]
      /\ conf \in [Runtimes -> [set : Settings \cup {None}, managed : BOOLEAN]]
      /\ \A q \in Runtimes : Live(q) => Accounted(q)
  BY DEF Calm, Shaped
<1>a. 0 \notin Runtimes
  BY SMTT(30) DEF Runtimes
<1>1. CASE SupervisorStop(c)
  <2>1. /\ UNCHANGED <<flock, proc>> /\ flock # c
        /\ \A d \in Commands \ {c} : cmd'[d] = cmd[d]
    BY <1>0, <1>1, SupervisorStopMoves DEF Calm
  <2>2. UNCHANGED <<state, conf, copies>>
    BY <1>1 DEF SupervisorStop
  <2>3. flock # None => cmd'[flock] = cmd[flock]
    BY <1>0, <2>1 DEF CommandsOK
  <2> QED BY <2>1, <2>2, <2>3, BystanderStep
<1>2. CASE SupervisorStart(c)
  <2>1. flock # c /\ UNCHANGED <<proc, conf, state, copies, flock>>
    BY <1>0, <1>2 DEF SupervisorStart, CommandsOK, Locked, procs, files
  <2>2. flock # None => cmd'[flock] = cmd[flock]
    BY <1>0, <1>2, <2>1 DEF SupervisorStart, CommandsOK
  <2> QED BY <2>1, <2>2, BystanderStep
<1>3. CASE TakeLock(c)
  <2>1. /\ flock = None /\ flock' = c /\ UNCHANGED <<proc, conf, state, copies>>
        /\ cmd'[c].at \in {"lockfile", "stop"}
    <3>1. PICK step \in {"lockfile", "stop"} : Goto(c, step)
      BY <1>3 DEF TakeLock
    <3>2. cmd[c] \in Command
      BY <1>0, <1>3, AtStep DEF TakeLock, Steps
    <3>3. cmd'[c].at = step
      BY <1>0, <3>1, <3>2 DEF Goto, CommandsOK, Command
    <3> QED BY <1>3, <3>3 DEF TakeLock, procs, files
  <2>2. At = "none" /\ At' \in {"lockfile", "stop"}
    BY <2>1, HolderAt DEF Locked
  <2> QED BY <2>1, <2>2, QuietStep DEF Busy
<1>4. CASE TakeLockFile(c)
  <2>1. At = "lockfile" /\ UNCHANGED <<proc, conf, state, copies>>
    BY <1>4, HolderAt DEF TakeLockFile, Locked, procs
  <2>2. At' = "decide" \/ At' = "none"
    <3>1. CASE Goto(c, "decide")
      BY <1>4, <3>1, HolderGoes DEF TakeLockFile, Locked
    <3>2. CASE Return(c)
      BY <3>2, HolderAt DEF Return, Unlock
    <3> QED BY <1>4, <3>1, <3>2 DEF TakeLockFile
  <2> QED BY <2>1, <2>2, QuietStep DEF Busy
<1>5. CASE Report(c)
  <2>1. At = "report" /\ At' = "none" /\ UNCHANGED <<proc, conf, state, copies>>
    BY <1>5, HolderAt DEF Report, Locked, Return, Unlock, procs
  <2> QED BY <2>1, QuietStep DEF Busy
<1>6. CASE Decide(c) \/ ManagedDecide(c)
  <2>1. /\ cmd[c].at \in Locked /\ At = "decide" /\ UNCHANGED <<proc, conf>>
    BY <1>6, HolderAt DEF Decide, ManagedDecide, Locked, procs
  <2>2. \A q \in Runtimes : Live(q) => /\ q = state.pid /\ q \in copies /\ proc[q] = "serving"
                                       /\ conf[q].set = state.set
    BY <1>0, <2>1 DEF Accounted
  <2>3. CASE \A q \in Runtimes : ~Live(q)
    BY <2>1, <2>3, NobodyStep
  <2>4. CASE \E q \in Runtimes : Live(q)
    <3>1. state # NoState /\ \E q \in Runtimes : proc[q] = "serving" /\ conf[q].set.port = state.set.port
      BY SMTT(30), <1>a, <2>2, <2>4 DEF NoState
    <3>2. /\ UNCHANGED <<state, copies>>
          /\ \/ Return(c)
             \/ Goto(c, "status") /\ MatchesRequest(cmd[c].set)
             \/ Goto(c, "stop")
      <4>1. PICK ok \in BOOLEAN :
              /\ Probe(state.set.port, ok)
              /\ ok => /\ UNCHANGED <<state, copies>>
                       /\ \/ Return(c)
                          \/ Goto(c, "status") /\ MatchesRequest(cmd[c].set)
                          \/ Goto(c, "stop")
        BY <1>6, <3>1 DEF Decide, ManagedDecide
      <4>2. ok
        BY <3>1, <4>1, ProbeAnswers
      <4> QED BY <4>1, <4>2
    <3>3. CASE Return(c)
      <4>1. At' = "none"
        BY <3>3, HolderAt DEF Return, Unlock
      <4> QED BY <2>1, <3>2, <4>1, QuietStep DEF Busy
    <3>4. CASE Goto(c, "stop")
      <4>1. At' = "stop"
        BY <2>1, <3>4, HolderGoes DEF Locked
      <4> QED BY <2>1, <3>2, <4>1, QuietStep DEF Busy
    <3>5. CASE Goto(c, "status") /\ MatchesRequest(cmd[c].set)
      <4>1. At' = "status" /\ flock' = c /\ cmd'[c].set = cmd[c].set
        BY <2>1, <3>5, HolderGoes DEF Locked
      <4>2. r = state.pid /\ r \in copies /\ proc[r] = "serving" /\ conf[r].set = state.set
        BY <2>1, <2>2 DEF Live
      <4> QED BY <2>1, <3>2, <3>5, <4>1, <4>2 DEF Accounted, MatchesRequest
    <3> QED BY <3>2, <3>3, <3>4, <3>5
  <2> QED BY <2>3, <2>4
<1>7. CASE CheckStatus(c)
  <2>1. cmd[c].at \in Locked /\ At = "status" /\ flock = c /\ UNCHANGED <<proc, conf, state>>
    BY <1>7, HolderAt DEF CheckStatus, Locked, procs
  <2>2. /\ r = state.pid /\ r \in copies /\ proc[r] = "serving" /\ Live(r)
        /\ conf[r].set = state.set /\ state.set = cmd[c].set
    BY <1>0, <2>1 DEF Accounted, Live
  <2>3. PICK ok \in BOOLEAN :
          /\ Probe(cmd[c].set.port, ok)
          /\ ok /\ state # NoState /\ Match(state.pid) => Return(c) /\ UNCHANGED copies
    BY <1>7 DEF CheckStatus, Running
  <2>4. ok /\ state # NoState /\ Match(state.pid)
    BY SMTT(30), <1>a, <2>2, <2>3, ProbeAnswers DEF NoState, Match
  <2>5. At' = "none"
    BY <2>3, <2>4, HolderAt DEF Return, Unlock
  <2>6. r \in copies' /\ state' = state /\ proc' = proc /\ conf' = conf
    BY <2>1, <2>2, <2>3, <2>4
  <2> QED BY <2>2, <2>5, <2>6 DEF Accounted
<1>8. CASE CheckAndRecord(c)
  <2>1. At = "guard" /\ UNCHANGED proc
    BY <1>8, HolderAt DEF CheckAndRecord, Locked, procs
  <2> QED BY <1>0, <2>1, NobodyStep DEF Accounted
<1>9. CASE Spawn(c)
  <2>1. cmd[c].at = "spawn" /\ At = "spawn" /\ flock = c
    BY <1>9, HolderAt DEF Spawn, Locked
  <2>2. PICK q \in Runtimes : /\ proc' = [proc EXCEPT ![q] = "booting"]
                              /\ conf' = [conf EXCEPT ![q] = [set |-> cmd[c].set, managed |-> FALSE]]
                              /\ copies' = copies \cup {q}
                              /\ cmd' = [cmd EXCEPT ![c].run = q, ![c].at = "record"]
    BY <1>9 DEF Spawn
  <2>3. r = q
    BY <1>0, <2>1, <2>2 DEF Accounted, Live
  <2>4. cmd[c] \in Command
    BY <1>0, <2>1, AtStep DEF Steps
  <2>5. cmd'[c].run = q /\ cmd'[c].at = "record" /\ cmd'[c].set = cmd[c].set
    BY <1>0, <2>2, <2>4 DEF CommandsOK, Command
  <2>6. flock' = c /\ At' = "record"
    BY <2>5, HolderAt DEF Locked
  <2>7. conf'[q].set = cmd[c].set /\ q \in copies'
    BY <1>0, <2>2
  <2> QED BY <2>3, <2>5, <2>6, <2>7 DEF Accounted
<1>10. CASE BecomeRuntime(c)
  <2>1. PICK q \in Runtimes : conf' = [conf EXCEPT ![q] = [set |-> cmd[c].set, managed |-> TRUE]]
    BY <1>10 DEF BecomeRuntime
  <2>2. conf'[q].managed
    BY <1>0, <2>1
  <2> QED BY <2>2 DEF Calm, OnlyDirect
<1>11. CASE Record(c)
  <2>1. cmd[c].at \in Locked /\ At = "record" /\ flock = c /\ UNCHANGED <<proc, conf>>
    BY <1>11, HolderAt DEF Record, Locked, procs
  <2>2. r = cmd[c].run /\ r \in copies /\ conf[r].set = cmd[c].set /\ Live(r)
    BY <1>0, <2>1 DEF Accounted, Live
  <2>3. Goto(c, "health") /\ state' = Recorded(r, cmd[c].set, FALSE) /\ UNCHANGED copies
    BY <1>11, <2>2 DEF Record
  <2>4. At' = "health" /\ flock' = c /\ cmd'[c].run = r /\ cmd'[c].set = cmd[c].set
    BY <2>1, <2>2, <2>3, HolderGoes DEF Locked
  <2> QED BY <2>1, <2>2, <2>3, <2>4 DEF Accounted, Recorded
<1>12. CASE WaitForHealth(c)
  <2>1. cmd[c].at \in Locked /\ At = "health" /\ flock = c /\ UNCHANGED <<proc, conf, state, copies>>
    BY <1>12, HolderAt DEF WaitForHealth, Locked, procs
  <2>2. \A q \in Runtimes : Live(q) => /\ q = cmd[c].run /\ q \in copies /\ conf[q].set = cmd[c].set
                                       /\ q = state.pid /\ conf[q].set = state.set
    BY <1>0, <2>1 DEF Accounted
  <2>3. PICK ok \in BOOLEAN : Probe(cmd[c].set.port, ok) /\ Goto(c, IF ok THEN "report" ELSE "undo")
    BY <1>12 DEF WaitForHealth
  <2>4. CASE ok
    <3>1. At' = "report"
      BY <2>1, <2>3, <2>4, HolderGoes DEF Locked
    <3>2. PICK q \in Runtimes : proc[q] = "serving"
      BY <2>3, <2>4, ProbeAnswers
    <3>3. Live(q) /\ Live(r)
      BY <2>1, <3>2 DEF Live
    <3>4. proc[r] = "serving" /\ r = state.pid /\ r \in copies /\ conf[r].set = state.set
      BY <2>2, <3>2, <3>3
    <3> QED BY <2>1, <3>1, <3>4 DEF Accounted
  <2>5. CASE ~ok
    <3>1. At' = "undo" /\ flock' = c /\ cmd'[c].run = cmd[c].run
      BY <2>1, <2>3, <2>5, HolderGoes DEF Locked
    <3>2. r = cmd[c].run /\ r \in copies'
      BY <2>1, <2>2 DEF Live
    <3> QED BY <3>1, <3>2 DEF Accounted
  <2> QED BY <2>4, <2>5
<1>13. CASE UndoLaunch(c) \/ StopAcknowledged(c)
  <2>1. At \in {"undo", "ack"} /\ flock = c /\ UNCHANGED proc
    BY <1>13, HolderAt DEF UndoLaunch, StopAcknowledged, Locked, procs
  <2>2. ~Live(cmd[c].run)
    <3>1. cmd[c].run \in Runtimes
      BY <1>0, <1>13 DEF UndoLaunch, StopAcknowledged, CommandsOK, Sound
    <3>2. ~Match(cmd[c].run)
      BY <1>13, NoFault DEF UndoLaunch, StopAcknowledged
    <3> QED BY <1>0, <3>1, <3>2 DEF Accounted, Match
  <2>3. \A q \in Runtimes : Live(q) => q = cmd[c].run
    BY <1>0, <2>1 DEF Accounted
  <2> QED BY <2>1, <2>2, <2>3, NobodyStep
<1>14. CASE Stop(c)
  <2>1. cmd[c].at = "stop" /\ At = "stop" /\ flock = c /\ UNCHANGED <<proc, conf>>
    BY <1>14, HolderAt DEF Stop, Locked, procs
  <2>2. Live(r) /\ r = state.pid /\ r \in copies
    BY <1>0, <2>1 DEF Accounted, Live
  <2>3. CASE cmd' = [cmd EXCEPT ![c].at = "ack", ![c].run = state.pid] /\ UNCHANGED copies
    <3>1. cmd[c] \in Command
      BY <1>0, <2>1, AtStep DEF Steps
    <3>2. cmd'[c].at = "ack" /\ cmd'[c].run = state.pid
      BY <1>0, <2>3, <3>1 DEF CommandsOK, Command
    <3>3. At' = "ack" /\ flock' = c
      BY <3>2, HolderAt DEF Locked
    <3> QED BY <2>2, <2>3, <3>2, <3>3 DEF Accounted
  <2>4. CASE Return(c) /\ UNCHANGED <<state, copies>>
    <3>1. At' = "none"
      BY <2>4, HolderAt DEF Return, Unlock
    <3> QED BY <2>1, <2>4, <3>1, QuietStep DEF Busy
  <2>5. CASE state.pid \in {0} \cup {q \in Runtimes : proc[q] = "dead"}
    BY <1>a, <2>2, <2>5 DEF Live
  <2> QED BY <1>14, <2>3, <2>4, <2>5 DEF Stop
<1> QED BY <1>1, <1>2, <1>3, <1>4, <1>5, <1>6, <1>7, <1>8, <1>9, <1>10, <1>11, <1>12, <1>13, <1>14
        DEF CommandStep

\* Every step leaves each live direct runtime accounted for.
LEMMA DirectStep ==
  ASSUME Shaped, Managing, Direct, [Next]_vars
  PROVE  Direct'
<1> SUFFICES ASSUME faults' = 0, OnlyDirect', NEW r \in Runtimes, Live(r)'
             PROVE  Accounted(r)'
  BY DEF Direct, LiveRuntimes, Live
<1>1. faults = 0
  <2>1. ASSUME Fault PROVE FALSE
    BY SMTT(30), <2>1 DEF Fault, Shaped
  <2> QED BY <2>1, FaultsChange
<1>0. state \in StateFile /\ CommandsOK
  BY DEF Shaped
<1>2. OnlyDirect /\ CommandsOK'
  BY <1>0, ManagedKept, CommandsStep DEF StateFile
<1>3. Calm
  BY <1>1, <1>2 DEF Calm, Direct, LiveRuntimes, Live, Managing
<1>4. /\ CommandsOK /\ proc \in [Runtimes -> ProcStates]
      /\ \A q \in Runtimes : Live(q) => Accounted(q)
  BY <1>3 DEF Calm, Shaped
<1>5. ASSUME NEW c \in Commands, CommandStep(c) PROVE Accounted(r)'
  BY <1>3, <1>5, CommandAccounts
<1>6. ASSUME NEW c \in Commands, CommandFault(c) PROVE FALSE
  BY <1>3, <1>6, NoFault DEF CommandFault, SupervisorStopFails, LaunchFails, StopTimesOut, KillCommand
<1>7. ASSUME NEW c \in Commands, NEW op \in Ops, NEW s \in Settings, Invoke(c, op, s) PROVE Accounted(r)'
  <2>1. flock # c /\ UNCHANGED <<proc, conf, state, copies, flock>>
    BY SMTT(30), <1>4, <1>7 DEF Invoke, CommandsOK, Idle, Locked, procs, files
  <2>2. flock # None => cmd'[flock] = cmd[flock]
    BY <1>4, <1>7, <2>1 DEF Invoke, CommandsOK
  <2> QED BY <1>3, <2>1, <2>2, BystanderStep
<1>8. ASSUME NEW q \in Runtimes, RuntimeFault(q) PROVE FALSE
  BY <1>3, <1>8, NoFault DEF RuntimeFault, Die, ReusePid
<1>9. ASSUME NEW q \in Runtimes, RuntimeStep(q) PROVE Accounted(r)'
  <2>1. proc[q] \notin {"closing", "removing"}
    BY <1>2 DEF OnlyDirect, Managing
  <2>2. UNCHANGED <<cmd, flock, conf, state, copies>> /\ At' = At
    BY <1>9, <2>1 DEF RuntimeStep, Bind, ObeyMarker, ReadOwnState, RemoveOwnState, files, At
  <2>3. CASE Bind(q)
    <3>1. proc[q] = "booting" /\ \A x \in Runtimes \ {q} : proc'[x] = proc[x]
      BY <1>4, <2>3 DEF Bind
    <3>2. Live(r) /\ Accounted(r)
      BY <1>4, <3>1 DEF Live
    <3>3. CASE r = q
      BY <2>2, <3>1, <3>2, <3>3 DEF Accounted
    <3>4. CASE r # q
      BY <2>2, <3>1, <3>2, <3>4 DEF Accounted
    <3> QED BY <3>3, <3>4
  <2>4. CASE ObeyMarker(q)
    <3>1. proc'[q] = "dead" \/ conf[q].managed
      BY <1>4, <2>4 DEF ObeyMarker
    <3>2. r # q /\ proc'[r] = proc[r]
      BY <1>2, <1>4, <2>4, <3>1 DEF ObeyMarker, Live, OnlyDirect
    <3>3. Accounted(r)
      BY <1>4, <3>2 DEF Live
    <3> QED BY <2>2, <3>2, <3>3 DEF Accounted
  <2> QED BY <1>9, <2>1, <2>3, <2>4 DEF RuntimeStep, ReadOwnState, RemoveOwnState
<1>10. ASSUME UNCHANGED vars PROVE Accounted(r)'
  <2>1. UNCHANGED <<cmd, flock, proc, conf, state, copies>>
    BY <1>10 DEF vars, procs, files
  <2> QED BY <1>3, <2>1, BystanderStep
<1> QED BY <1>5, <1>6, <1>7, <1>8, <1>9, <1>10 DEF Next

-----------------------------------------------------------------------------
(* The inductive invariant and the theorems.                                *)

ServeInv == /\ Shaped /\ Guarded /\ Stopping /\ Managing /\ Direct
            /\ lockFile \in {"none", "owned", "stale", "malformed"} /\ invoked \in 0 .. MaxCommands

\* The invariant holds before the first command.
LEMMA ServeInitInv == Init => ServeInv
<1> SUFFICES ASSUME Init PROVE ServeInv
  OBVIOUS
<1>0. MaxTime \in Nat /\ MaxCommands \in Nat /\ MaxFaults \in Nat /\ MaxAttempts \in Nat \ {0}
  BY ServeAssumption
<1>1. CommandsOK
  <2>1. Sound(Idle) /\ Idle.at \notin Locked
    BY DEF Sound, Idle, Locked
  <2>2. \A c \in Commands : cmd[c] = Idle /\ flock # c
    BY ServeAssumption DEF Init
  <2> QED BY <2>1, <2>2 DEF CommandsOK, Init
<1>2. Shaped
  BY SMTT(30), <1>0, <1>1 DEF Shaped, Init, StateFile, ProcStates
<1>3. Guarded
  <2>1. launches = << >> /\ guard = {} /\ DOMAIN launches = {}
    BY SMTT(30) DEF Init
  <2>2. launches \in Seq(0 .. MaxTime)
    BY SMTT(30), <2>1
  <2> QED BY <2>1, <2>2 DEF Guarded
<1>4. Stopping
  BY DEF Stopping, Init, Idle
<1>5. Managing /\ Direct
  BY DEF Managing, Direct, LiveRuntimes, Live, Init, NoState
<1> QED BY SMTT(30), <1>0, <1>2, <1>3, <1>4, <1>5 DEF ServeInv, Init

\* Every step of a command, of a runtime and of a fault keeps the invariant.
LEMMA ServeInvStep == ServeInv /\ [Next]_vars => ServeInv'
<1> SUFFICES ASSUME ServeInv, [Next]_vars PROVE ServeInv'
  OBVIOUS
<1>0. /\ CommandsOK /\ state \in StateFile /\ marker \in Runtimes \cup {None}
      /\ proc \in [Runtimes -> ProcStates]
  BY DEF ServeInv, Shaped
<1>1. /\ CommandsOK' /\ state' \in StateFile /\ marker' \in Runtimes \cup {None}
      /\ proc' \in [Runtimes -> ProcStates]
  BY <1>0, CommandsStep, StateStep, MarkerStep, ProcsStep DEF StateFile
<1>2. conf' \in [Runtimes -> [set : Settings \cup {None}, managed : BOOLEAN]]
  BY ConfStep DEF ServeInv, Shaped
<1>3. invoked' \in 0 .. MaxCommands /\ faults' \in 0 .. MaxFaults /\ copies' \subseteq Runtimes
  BY CountersStep, CopiesStep DEF ServeInv, Shaped
<1>4. Shaped'
  BY <1>1, <1>2, <1>3 DEF Shaped
<1>5. Guarded' /\ Stopping' /\ Managing' /\ Direct'
  BY GuardedStep, StoppingStep, ManagingStep, DirectStep DEF ServeInv, Shaped
<1>6. lockFile' \in {"none", "owned", "stale", "malformed"}
  BY LockFileStep DEF ServeInv, Shaped
<1> QED BY <1>3, <1>4, <1>5, <1>6 DEF ServeInv

\* The inductive invariant of the lifecycle commands and of the runtimes they launch
\* (run_start_impl, run_managed_foreground, stop_existing_serve_locked) holds throughout.
THEOREM ServeInvariant == Spec => []ServeInv
BY ServeInitInv, ServeInvStep, PTL DEF Spec

(* Everything the lifecycle commands, the runtimes and the fault steps     *)
(* leave behind has its type.                                              *)
THEOREM ServeTypes == Spec => []TypeOK
<1>1. ServeInv => TypeOK
  BY DEF ServeInv, Shaped, Guarded, Stopping, CommandsOK, Command, StateFile, ProcStates, TypeOK
<1> QED BY <1>1, ServeInvariant, PTL

(* The restart guard's limit holds in every window of time the wall clock  *)
(* did not go back in, for any number of commands, crashes and settings of *)
(* the clock, and any limit (check_and_record).                            *)
THEOREM GuardAlwaysBounds == Spec => []GuardBoundsLaunches
<1>1. ServeInv => GuardBoundsLaunches
  BY DEF ServeInv, Guarded, GuardBoundsLaunches
<1> QED BY <1>1, ServeInvariant, PTL

(* A command that goes on after a cooperative stop goes on with that       *)
(* runtime gone, and it stays gone (request_cooperative_serve_stop).       *)
THEOREM StoppedStaysStopped == Spec => []StopMeansStopped
<1>1. ServeInv => \A r \in stopped : ~Live(r)
  BY DEF ServeInv, Stopping, Live
<1>2. ServeInv /\ TypeOK => StopMeansStopped
  BY <1>1 DEF StopMeansStopped
<1> QED BY <1>2, ServeTypes, ServeInvariant, PTL

(* Without faults and without the service manager, the state file names    *)
(* every live runtime whenever nobody holds lifecycle.lock                 *)
(* (run_start_impl, stop_existing_serve_locked).                           *)
THEOREM DirectAlwaysRecorded == Spec => []DirectRuntimeRecorded
<1>1. ServeInv => DirectRuntimeRecorded
  <2> SUFFICES ASSUME ServeInv, faults = 0, OnlyDirect, flock = None, NEW r \in LiveRuntimes
               PROVE  r = state.pid
    BY DEF DirectRuntimeRecorded
  <2>1. Accounted(r) /\ At = "none"
    BY DEF ServeInv, Direct, At
  <2> QED BY <2>1 DEF Accounted
<1> QED BY <1>1, ServeInvariant, PTL
=============================================================================
