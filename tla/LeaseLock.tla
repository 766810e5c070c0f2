------------------------------ MODULE LeaseLock ----------------------------
(***************************************************************************)
(* The lock file around the lease store (src/hub/leases.rs: mutate_store,  *)
(* acquire_lease_store_lock, remove_stale_lease_store_lock and the guard). *)
(* Every file operation is a step of its own, and a process may die        *)
(* between any two.                                                        *)
(*                                                                         *)
(* The contents of the store are abstracted to a version number: a command *)
(* reads a version and writes the next one, and 0 is the blank store that  *)
(* ensure_runtime_layout seeds, without the lock, where it saw no file     *)
(* (src/hub/runtime.rs).  Time is abstracted to whether the lock file is   *)
(* older than LEASE_LOCK_STALE_MS (30 s).  A live holder finishes its      *)
(* command well within that time, so that only a lock that was left behind *)
(* grows stale.  (The stamp is taken before the wait for the lock, at most *)
(* a second earlier.)                                                      *)
(***************************************************************************)
EXTENDS Integers, FiniteSets

CONSTANTS Procs,                 \* threads and processes that run commands
          LEASE_LOCK_ATTEMPTS,
          Versions,              \* versions go round from this number to 1
          MaxCrashes,            \* bound on the processes that die
          NoFile

ASSUME LockAssumption ==
    /\ IsFiniteSet(Procs)
    /\ LEASE_LOCK_ATTEMPTS \in Nat \ {0}
    /\ Versions \in Nat \ {0}
    /\ MaxCrashes \in Nat
    /\ NoFile \notin 0 .. Versions
    /\ \A p \in Procs, w, s \in BOOLEAN : NoFile # [by |-> p, written |-> w, stale |-> s]

VARIABLES file,      \* the lock file: who created it, whether the payload is in it, its age
          store,     \* version of the lease file, or NoFile
          pc,        \* what each process does next
          tries,     \* attempts left of acquire_lease_store_lock
          copy,      \* version a process has read
          robbed     \* history: a waiter removed the lock of a holder at work, and
                     \* since then somebody has been in the lock all the time

lockVars == <<file, store, pc, tries, copy, robbed>>

LockFile == [by : Procs, written : BOOLEAN, stale : BOOLEAN]

\* The process owns the lock, from creating the file to dropping the guard.
InLock == {"stamp", "read", "write", "drop"}
Locations == {"idle", "seed", "open", "inspect", "remove", "dead"} \cup InLock

\* The version after v.
Succ(v) == (v % Versions) + 1

Go(p, from, to) == pc[p] = from /\ pc' = [pc EXCEPT ![p] = to]

\* A process leaves the lock: a robbery is over once nobody is in it.
Leaves(p) == robbed' = (robbed /\ \E q \in Procs \ {p} : pc[q] \in InLock)

LockInit == /\ file = NoFile
            /\ store = NoFile
            /\ pc = [p \in Procs |-> "idle"]
            /\ tries = [p \in Procs |-> 0]
            /\ copy = [p \in Procs |-> 0]
            /\ robbed = FALSE

-----------------------------------------------------------------------------
(* mutate_store before the lock: ensure_runtime_layout.                     *)

\* seed_json_if_missing looks whether there is a file ...
Start(p) == /\ pc[p] = "idle"
            /\ pc' = [pc EXCEPT ![p] = IF store = NoFile THEN "seed" ELSE "open"]
            /\ tries' = [tries EXCEPT ![p] = LEASE_LOCK_ATTEMPTS]
            /\ UNCHANGED <<file, store, copy, robbed>>

\* ... and writes a blank one where it saw none, whatever is there by now.
SeedStore(p) == /\ Go(p, "seed", "open")
                /\ store' = 0
                /\ UNCHANGED <<file, tries, copy, robbed>>

-----------------------------------------------------------------------------
(* acquire_lease_store_lock.                                                *)

\* open with create_new that does not look whether the file is there.
CreatesOverOther(p) ==
    /\ Go(p, "open", "stamp")
    /\ tries[p] > 0
    /\ file' = [by |-> p, written |-> FALSE, stale |-> FALSE]
    /\ UNCHANGED <<store, tries, copy, robbed>>

Creates(p) == /\ Go(p, "open", "stamp")
              /\ tries[p] > 0
              /\ file = NoFile
              /\ file' = [by |-> p, written |-> FALSE, stale |-> FALSE]
              /\ UNCHANGED <<store, tries, copy, robbed>>

AlreadyExists(p) == /\ Go(p, "open", "inspect")
                    /\ tries[p] > 0
                    /\ file # NoFile
                    /\ tries' = [tries EXCEPT ![p] = @ - 1]
                    /\ UNCHANGED <<file, store, copy, robbed>>

Busy(p) == /\ Go(p, "open", "idle")
           /\ tries[p] = 0
           /\ UNCHANGED <<file, store, tries, copy, robbed>>

\* The seed, create_new, the read of the file or its removal fails for another
\* reason.
LockFails(p) == /\ pc[p] \in {"seed", "open", "inspect", "remove"}
                /\ pc' = [pc EXCEPT ![p] = "idle"]
                /\ UNCHANGED <<file, store, tries, copy, robbed>>

\* The payload goes to the file that was opened, also when its name is gone.
Stamped(p) == /\ Go(p, "stamp", "read")
              /\ file' = IF file # NoFile /\ file.by = p
                         THEN [file EXCEPT !.written = TRUE] ELSE file
              /\ UNCHANGED <<store, tries, copy, robbed>>

\* write_all fails: the error returns before there is a guard, and the file stays.
StampFails(p) == /\ Go(p, "stamp", "idle")
                 /\ Leaves(p)
                 /\ UNCHANGED <<file, store, tries, copy>>

\* A lock that is never found stale.
InspectIgnoresAge(p) == /\ Go(p, "inspect", "open")
                        /\ UNCHANGED <<file, store, tries, copy, robbed>>

\* remove_stale_lease_store_lock: read the file and look at its age.  A file that
\* is gone, or has no payload yet, is left alone.
Inspect(p) == /\ pc[p] = "inspect"
              /\ pc' = [pc EXCEPT ![p] =
                          IF file # NoFile /\ file.written /\ file.stale
                          THEN "remove" ELSE "open"]
              /\ UNCHANGED <<file, store, tries, copy, robbed>>

\* The removal that follows is by path: it takes whatever file is there by now.
RemoveStale(p) == /\ Go(p, "remove", "open")
                  /\ file' = NoFile
                  /\ robbed' = (robbed \/ (file # NoFile /\ pc[file.by] \in InLock))
                  /\ UNCHANGED <<store, tries, copy>>

-----------------------------------------------------------------------------
(* mutate_store under the guard.                                            *)

\* read_store_map: a file that is missing reads as a blank one.
ReadStore(p) == /\ Go(p, "read", "write")
                /\ copy' = [copy EXCEPT ![p] = IF store = NoFile THEN 0 ELSE store]
                /\ UNCHANGED <<file, store, tries, robbed>>

WriteStore(p) == /\ Go(p, "write", "drop")
                 /\ store' = Succ(copy[p])
                 /\ UNCHANGED <<file, tries, copy, robbed>>

\* The file cannot be read, parsed or replaced; the guard is dropped all the same.
CommandFails(p) == /\ pc[p] \in {"read", "write"}
                   /\ pc' = [pc EXCEPT ![p] = "drop"]
                   /\ UNCHANGED <<file, store, tries, copy, robbed>>

\* Drop of the guard removes by path as well ...
DropGuard(p) == /\ Go(p, "drop", "idle")
                /\ file' = NoFile
                /\ Leaves(p)
                /\ UNCHANGED <<store, tries, copy>>

\* ... and ignores an error: the file stays.
DropFails(p) == /\ Go(p, "drop", "idle")
                /\ Leaves(p)
                /\ UNCHANGED <<file, store, tries, copy>>

-----------------------------------------------------------------------------
(* The environment.                                                         *)

Crash(p) == /\ pc[p] # "dead"
            /\ Cardinality({q \in Procs : pc[q] = "dead"}) < MaxCrashes
            /\ pc' = [pc EXCEPT ![p] = "dead"]
            /\ IF pc[p] \in InLock THEN Leaves(p) ELSE UNCHANGED robbed
            /\ UNCHANGED <<file, store, tries, copy>>

GrowsStale == /\ file # NoFile
              /\ ~file.stale
              /\ pc[file.by] \notin InLock
              /\ file' = [file EXCEPT !.stale = TRUE]
              /\ UNCHANGED <<store, pc, tries, copy, robbed>>

Step(p) == \/ Start(p) \/ SeedStore(p) \/ Creates(p) \/ AlreadyExists(p) \/ Busy(p)
           \/ Stamped(p) \/ Inspect(p) \/ RemoveStale(p)
           \/ ReadStore(p) \/ WriteStore(p) \/ DropGuard(p)
Fault(p) == LockFails(p) \/ StampFails(p) \/ CommandFails(p) \/ DropFails(p) \/ Crash(p)

LockNext == \/ \E p \in Procs : Step(p) \/ Fault(p)
            \/ GrowsStale

LockSpec == LockInit /\ [][LockNext]_lockVars

\* Live threads run, commands keep coming and time passes; a file operation that is
\* tried again and again succeeds in the end.
LockFairSpec ==
    /\ LockSpec
    /\ \A p \in Procs : /\ WF_lockVars(Step(p))
                        /\ SF_lockVars(AlreadyExists(p))
                        /\ SF_lockVars(Inspect(p))
                        /\ SF_lockVars(RemoveStale(p))
    /\ WF_lockVars(GrowsStale)

-----------------------------------------------------------------------------
(* Properties.                                                              *)

\* The variables have their types; no caller tries more often than the limit.
LockTypeOK == /\ file \in LockFile \cup {NoFile}
              /\ store \in 0 .. Versions \cup {NoFile}
              /\ pc \in [Procs -> Locations]
              /\ tries \in [Procs -> 0 .. LEASE_LOCK_ATTEMPTS]
              /\ copy \in [Procs -> 0 .. Versions]
              /\ robbed \in BOOLEAN

\* At most one live process is between creating the lock file and dropping its
\* guard, so a waiter never acquires a lock that is held.
AtMostOneHolder ==
    \A p, q \in Procs : pc[p] \in InLock /\ pc[q] \in InLock => p = q

\* Every write of the lease file builds on the file as it is at that moment, or
\* replaces a blank one: the read-modify-write of mutate_store is one step for
\* every other command, whoever dies, and whatever file an error leaves behind.
\* Two things break it.  The seed of a process that saw no file comes without the
\* lock and may replace what has been written meanwhile; and a waiter whose
\* inspection is out of date may remove the lock of a holder at work.
CommandsAreAtomic ==
    [][\/ robbed \/ store \in {NoFile, 0} \/ store' = Succ(store)
       \/ \E p \in Procs : SeedStore(p)]_store

\* A lock that its owner left behind, payload and all, because it died or could not
\* remove the file, is in the end removed, so that later commands are served.
LockRecovers ==
    (file # NoFile /\ file.written /\ pc[file.by] \notin InLock) ~> (file = NoFile)
=============================================================================
