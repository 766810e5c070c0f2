----------------------------- MODULE SessionPool ---------------------------
(***************************************************************************)
(* The pool of upstream stdio workers (src/upstream/session_pool.rs).      *)
(*                                                                         *)
(* The pool's state mutex protects `groups' only.  The flags of a worker   *)
(* are atomics that its user changes outside the mutex: a purge may judge  *)
(* a worker in one step and sweep it in a later one, and a worker that a   *)
(* checkout found busy may be free when the same checkout looks for one to *)
(* evict.  A caller at "full" is between these two looks and has the mutex.*)
(*                                                                         *)
(* Time is left open: any worker that is not busy may be found unused for  *)
(* longer than its idle TTL, or be the least recently used one, and any    *)
(* wait may pass its deadline.  A wait on the condition variable lasts at  *)
(* most 50 ms, so a waiter may wake at any moment and notifications need   *)
(* no state of their own.  A purge that others call is a checkout that     *)
(* gives up after it.                                                      *)
(***************************************************************************)
EXTENDS Integers, FiniteSets, Sequences, Functions

CONSTANTS Callers,        \* threads that check workers out
          Keys,           \* UpstreamSessionKey
          WorkerLimit,    \* key -> worker_limit of the policy in the key
          max_sessions,
          Workers,        \* worker objects; one that nobody refers to may be reused
          NoWorker, NoKey

ASSUME PoolAssumption ==
    /\ max_sessions \in Nat \ {0}
    /\ WorkerLimit \in [Keys -> Nat \ {0}]
    /\ NoWorker \notin Workers

VARIABLES groups,     \* key -> its workers, in the order they were added
          worker,     \* worker -> its flags and its session
          pc, key, held, failed,    \* of each caller
          stale       \* caller -> what its running purge judged to be stale

callerVars == <<pc, key, held, failed>>
vars == <<groups, worker, pc, key, held, failed, stale>>

\* A session is a child process: answering, with a request it has not answered
\* ("dirty"), exited, or behind a poisoned mutex.
Session == {"none", "clean", "dirty", "exited", "poisoned"}
Worker == [busy : BOOLEAN, initialized : BOOLEAN, session : Session]

Reserved == [busy |-> TRUE, initialized |-> FALSE, session |-> "none"]

Locations == {"idle", "purge", "sweep", "select", "full", "wait", "init", "use", "discard", "unbusy"}

Registered == UNION {Range(groups[k]) : k \in Keys}
Count == Cardinality(Registered)

\* The workers of a group without some of them, in their order.
Without(group, gone) ==
    LET kept == {i \in 1 .. Len(group) : group[i] \notin gone}
        at == CHOOSE f \in [1 .. Cardinality(kept) -> kept] : \A m, n \in DOMAIN f : m < n => f[m] < f[n]
    IN  [n \in 1 .. Cardinality(kept) |-> group[at[n]]]

\* The workers after some of them left the pool and were dropped, child and all.
Dropped(gone) == [w \in Workers |-> IF w \in gone THEN Reserved ELSE worker[w]]

\* A worker that left the pool never returns to it, so no sweep will find it again.
Forgotten(gone) == [c \in Callers |-> stale[c] \ gone]

\* Objects that are neither in the pool nor in use.
Unreferenced == {w \in Workers : w \notin Registered /\ \A c \in Callers : held[c] # w}

Init == /\ groups = [k \in Keys |-> <<>>]
        /\ worker = [w \in Workers |-> Reserved]
        /\ pc = [c \in Callers |-> "idle"]
        /\ key = [c \in Callers |-> NoKey]
        /\ held = [c \in Callers |-> NoWorker]
        /\ failed = [c \in Callers |-> FALSE]
        /\ stale = [c \in Callers |-> {}]

Unlocked == \A c \in Callers : pc[c] # "full"

Go(c, from, to) == pc[c] = from /\ pc' = [pc EXCEPT ![c] = to]

-----------------------------------------------------------------------------
(* purge_idle_and_exited.                                                   *)

\* A worker that is not busy is stale when its child has exited or is missing, and
\* may be when it has been idle.
Judge(c) ==
    /\ Go(c, "purge", "sweep")
    /\ Unlocked
    /\ \E idle \in SUBSET Registered :
          stale' = [stale EXCEPT ![c] =
                      {w \in Registered : /\ ~worker[w].busy
                                          /\ \/ w \in idle
                                             \/ worker[w].session \in {"none", "exited", "poisoned"}}]
    /\ UNCHANGED <<groups, worker, key, held, failed>>

\* remove_workers looks at the busy flag again, under the state mutex.
Swept(c) == {w \in stale[c] : ~worker[w].busy}

Sweep(c) ==
    /\ Go(c, "sweep", "select")
    /\ Unlocked
    /\ groups' = [k \in Keys |-> Without(groups[k], Swept(c))]
    /\ worker' = Dropped(Swept(c))
    /\ stale' = [Forgotten(Swept(c)) EXCEPT ![c] = {}]
    /\ UNCHANGED <<key, held, failed>>

-----------------------------------------------------------------------------
(* checkout.                                                                *)

Begin(c, k) ==
    /\ Go(c, "idle", "purge")
    /\ key' = [key EXCEPT ![c] = k]
    /\ UNCHANGED <<groups, worker, held, failed, stale>>

\* checkout returns an error.
GivesUp(c, from) == /\ Go(c, from, "idle")
                    /\ key' = [key EXCEPT ![c] = NoKey]
                    /\ UNCHANGED <<groups, worker, held, failed, stale>>

\* The first worker_limit workers of the group that are not busy.
Available(k) == {i \in 1 .. Len(groups[k]) : i <= WorkerLimit[k] /\ ~worker[groups[k][i]].busy}

\* A busy flag set by a load and a store would let a worker be taken twice.
TakeBusy(c) ==
    /\ pc[c] = "select"
    /\ LET k == key[c] IN \E i \in {j \in 1 .. Len(groups[k]) : worker[groups[k][j]].initialized} :
          LET w == groups[k][i]
          IN  /\ pc' = [pc EXCEPT ![c] = "use"]
              /\ worker' = [worker EXCEPT ![w].busy = TRUE]
              /\ held' = [held EXCEPT ![c] = w]
              /\ UNCHANGED <<groups, key, failed, stale>>

\* The first of them is taken; it is a hit when it has been initialized.
Take(c) ==
    /\ pc[c] = "select"
    /\ Unlocked
    /\ LET k == key[c] IN \E i \in Available(k) :
          LET w == groups[k][i]
          IN  /\ \A j \in Available(k) : i <= j
              /\ pc' = [pc EXCEPT ![c] = IF worker[w].initialized THEN "use" ELSE "init"]
              /\ worker' = [worker EXCEPT ![w].busy = TRUE]
              /\ held' = [held EXCEPT ![c] = w]
              /\ UNCHANGED <<groups, key, failed, stale>>

\* All of them are busy.
FindNone(c) == /\ Go(c, "select", "full")
               /\ Unlocked
               /\ Available(key[c]) = {}
               /\ UNCHANGED <<groups, worker, key, held, failed, stale>>

MayGrowByTotalOnly(k) == Count < max_sessions
MayGrow(k) == Len(groups[k]) < WorkerLimit[k] /\ Count < max_sessions

Reserve(c) ==
    LET k == key[c]
    IN  /\ Go(c, "full", "init")
        /\ MayGrow(k)
        /\ \E w \in Unreferenced :
              /\ groups' = [groups EXCEPT ![k] = Append(@, w)]
              /\ worker' = [worker EXCEPT ![w] = Reserved]
              /\ held' = [held EXCEPT ![c] = w]
        /\ UNCHANGED <<key, failed, stale>>

\* remove_oldest_idle_worker, then once more around the loop.  It may well be a worker
\* of the caller's own group, given back since the caller looked.
Evict(c) ==
    /\ Go(c, "full", "select")
    /\ Count >= max_sessions
    /\ \E w \in Registered :
          /\ ~worker[w].busy
          /\ groups' = [k \in Keys |-> Without(groups[k], {w})]
          /\ worker' = Dropped({w})
          /\ stale' = Forgotten({w})
    /\ UNCHANGED <<key, held, failed>>

NothingToTake(k) == /\ ~MayGrow(k)
                    /\ Count >= max_sessions => \A w \in Registered : worker[w].busy

Wait(c) == /\ Go(c, "full", "wait")
           /\ NothingToTake(key[c])
           /\ UNCHANGED <<groups, worker, key, held, failed, stale>>

TimedOut(c) == GivesUp(c, "full") /\ NothingToTake(key[c])

\* A waiter that waits for a worker of its own group to be free.
WakesForOwnGroup(c) == /\ Go(c, "wait", "purge")
                       /\ Available(key[c]) # {}
                       /\ UNCHANGED <<groups, worker, key, held, failed, stale>>

Wakes(c) == /\ Go(c, "wait", "purge")
            /\ UNCHANGED <<groups, worker, key, held, failed, stale>>

\* The heartbeat has set lease_lost.
LeaseLost(c) == GivesUp(c, "select")

\* A new process; behind a poisoned mutex it cannot be stored.
InitOk(c) ==
    /\ Go(c, "init", "use")
    /\ worker[held[c]].session # "poisoned"
    /\ worker' = [worker EXCEPT ![held[c]].session = "clean",
                                ![held[c]].initialized = TRUE]
    /\ UNCHANGED <<groups, key, held, failed, stale>>

\* No time left, the process does not start or does not initialize, or the mutex
\* is poisoned: the initialization guard discards the worker.
InitFails(c) == /\ Go(c, "init", "discard")
                /\ UNCHANGED <<groups, worker, key, held, failed, stale>>

-----------------------------------------------------------------------------
(* The checkout in use.                                                     *)

SessionOf(c) == worker[held[c]].session
SetSession(c, s) == worker' = [worker EXCEPT ![held[c]].session = s]

\* write_jsonrpc: a request with a fresh id goes to the child.
Send(c) == /\ pc[c] = "use" /\ ~failed[c]
           /\ SessionOf(c) = "clean"
           /\ SetSession(c, "dirty")
           /\ UNCHANGED <<groups, callerVars, stale>>

\* read_response: the answer to that request arrives in time.
Receive(c) == /\ pc[c] = "use" /\ ~failed[c]
              /\ SessionOf(c) = "dirty"
              /\ SetSession(c, "clean")
              /\ UNCHANGED <<groups, callerVars, stale>>

\* A failed call that is not recorded in the checkout.
CallFailsUnmarked(c) == /\ Go(c, "use", "unbusy")
                        /\ ~failed[c]
                        /\ UNCHANGED <<groups, worker, key, held, failed, stale>>

\* The call times out, the lease is lost, the child is gone, the mutex is poisoned,
\* or the caller invalidates the worker: the checkout is marked.
CallFails(c) == /\ pc[c] = "use" /\ ~failed[c]
                /\ failed' = [failed EXCEPT ![c] = TRUE]
                /\ worker' = [worker EXCEPT ![held[c]].initialized =
                                 @ /\ SessionOf(c) # "poisoned"]
                /\ UNCHANGED <<groups, pc, key, held, stale>>

\* A panic under the session mutex poisons it; unwinding drops the checkout with
\* its failed flag still clear.
Panics(c) == /\ Go(c, "use", "unbusy")
             /\ ~failed[c]
             /\ SessionOf(c) \in {"clean", "dirty"}
             /\ SetSession(c, "poisoned")
             /\ UNCHANGED <<groups, key, held, failed, stale>>

\* Drop of the checkout, between calls or after a failed one.
DropCheckout(c) ==
    /\ pc[c] = "use"
    /\ failed[c] \/ SessionOf(c) # "dirty"
    /\ pc' = [pc EXCEPT ![c] = IF failed[c] THEN "discard" ELSE "unbusy"]
    /\ UNCHANGED <<groups, worker, key, held, failed, stale>>

\* remove_worker.
Discard(c) == /\ Go(c, "discard", "unbusy")
              /\ Unlocked
              /\ worker' = [worker EXCEPT ![held[c]].initialized = FALSE]
              /\ groups' = [groups EXCEPT ![key[c]] = Without(@, {held[c]})]
              /\ stale' = Forgotten({held[c]})
              /\ UNCHANGED <<key, held, failed>>

\* A drop that leaves the busy flag.
UnbusyForgotten(c) == /\ Go(c, "unbusy", "idle")
                      /\ held' = [held EXCEPT ![c] = NoWorker]
                      /\ key' = [key EXCEPT ![c] = NoKey]
                      /\ failed' = [failed EXCEPT ![c] = FALSE]
                      /\ UNCHANGED <<groups, worker, stale>>

Unbusy(c) == /\ Go(c, "unbusy", "idle")
             /\ worker' = IF held[c] \in Registered
                          THEN [worker EXCEPT ![held[c]].busy = FALSE]
                          ELSE Dropped({held[c]})
             /\ held' = [held EXCEPT ![c] = NoWorker]
             /\ key' = [key EXCEPT ![c] = NoKey]
             /\ failed' = [failed EXCEPT ![c] = FALSE]
             /\ UNCHANGED <<groups, stale>>

-----------------------------------------------------------------------------
(* The environment.                                                         *)

Exits(w) == /\ worker[w].session \in {"clean", "dirty"}
            /\ worker' = [worker EXCEPT ![w].session = "exited"]
            /\ UNCHANGED <<groups, callerVars, stale>>

\* session_snapshots clears the flag of a worker it finds poisoned.
SnapshotSees(w) == /\ worker[w].session = "poisoned" /\ worker[w].initialized
                   /\ worker' = [worker EXCEPT ![w].initialized = FALSE]
                   /\ UNCHANGED <<groups, callerVars, stale>>

\* What a caller does once it has begun a call.
Step(c) == \/ Judge(c) \/ Sweep(c)
           \/ Take(c) \/ FindNone(c) \/ Reserve(c) \/ Evict(c) \/ Wait(c) \/ TimedOut(c) \/ Wakes(c)
           \/ InitOk(c) \/ InitFails(c)
           \/ Receive(c) \/ CallFails(c) \/ DropCheckout(c)
           \/ Discard(c) \/ Unbusy(c)

Next == \/ \E c \in Callers : \/ \E k \in Keys : Begin(c, k)
                              \/ Step(c)
                              \/ Send(c) \/ Panics(c) \/ LeaseLost(c)
        \/ \E w \in Registered : Exits(w) \/ SnapshotSees(w)

Spec == Init /\ [][Next]_vars

\* Threads run, a caller that waits again and again passes its deadline, and a
\* checkout serves finitely many requests.
FairSpec == /\ Spec
            /\ \A c \in Callers : /\ WF_vars(Step(c))
                                  /\ SF_vars(TimedOut(c))
                                  /\ SF_vars(DropCheckout(c))

-----------------------------------------------------------------------------
(* Properties.                                                              *)

\* Every variable has its type, and a caller has a worker exactly from the moment it
\* takes or reserves one to the end of the drop.
TypeOK == /\ groups \in [Keys -> Seq(Workers)]
          /\ worker \in [Workers -> Worker]
          /\ pc \in [Callers -> Locations]
          /\ key \in [Callers -> Keys \cup {NoKey}]
          /\ held \in [Callers -> Workers \cup {NoWorker}]
          /\ failed \in [Callers -> BOOLEAN]
          /\ stale \in [Callers -> SUBSET Workers]
          /\ \A c \in Callers :
                held[c] # NoWorker <=> pc[c] \in {"init", "use", "discard", "unbusy"}

\* A worker in use has one user, so that one stdio child never gets the requests of two
\* callers at a time, and it stays in the group of its key, whatever purges, sweeps and
\* evictions run meanwhile: nobody else ends its process.
OneUser ==
    /\ \A c, d \in Callers : held[c] = held[d] /\ held[c] # NoWorker => c = d
    /\ \A c \in Callers : pc[c] \in {"init", "use"} => held[c] \in Range(groups[key[c]])

\* A registered worker is busy exactly while a caller has it: no exit from a
\* checkout, however it fails, leaves a worker behind that nobody can take, evict
\* or purge.
NoBusyLeak ==
    \A w \in Registered : worker[w].busy <=> \E c \in Callers : held[c] = w

\* The state has its type, the pool never registers more workers than max_sessions, a
\* group never more than the worker limit of its policy, and no worker twice.
PoolBounded ==
    /\ TypeOK
    /\ \A k \in Keys : Len(groups[k]) <= WorkerLimit[k]
    /\ Count <= max_sessions
    /\ \A k, l \in Keys : \A i \in 1 .. Len(groups[k]), j \in 1 .. Len(groups[l]) :
          groups[k][i] = groups[l][j] => k = l /\ i = j

\* A worker that can be checked out has no answer outstanding: what a timed out call
\* left unread is never taken for the answer to a later call.
NoStaleAnswer ==
    \A w \in Registered : ~worker[w].busy => worker[w].session # "dirty"

\* Every checkout ends with a worker or an error, every call and drop too: once no
\* new call starts, all callers become idle.
EveryCallEnds ==
    <>[][\A c \in Callers : pc[c] = "idle" => pc'[c] = "idle"]_vars
        => <>[](\A c \in Callers : pc[c] = "idle")
=============================================================================
