---------------------------- MODULE UpstreamCall ---------------------------
(***************************************************************************)
(* Calls of one upstream server that is used under a mutex lease           *)
(* (src/upstream/lease_runtime.rs): a caller queues for the lease, a       *)
(* heartbeat thread renews it, the tool is verified, the requests of the   *)
(* call are exchanged with the server (stdio_runtime.rs, http_runtime.rs), *)
(* its process is stopped, and the lease is released.  The callers belong  *)
(* to different runtimes that share the lease store; the order of callers  *)
(* inside one runtime is LeaseQueue's, the store's commands are            *)
(* LeaseStore's, the workers of a pool are SessionPool's.                  *)
(*                                                                         *)
(* Time is a set of countdowns that Tick lowers together.  A step that     *)
(* must happen by some time holds Tick back until it has happened.         *)
(***************************************************************************)
EXTENDS Integers

CONSTANTS Callers,
          Ttls,          \* lease lifetimes a request may ask for
          Timeout,       \* effective_timeout of a call
          Grace,         \* what acquire_upstream_lease adds to it (5 s)
          QueueTimeout,  \* queue_timeout_ms of the server
          SpawnTime,     \* what starting a child process takes at most, if it is swift
          KillTime,      \* bound on terminate_child_process (2.5 s; 5 s on Windows)
          Lag,           \* bound on a heartbeat's wakeup and store commands
          Slice,         \* bound on noticing a lost lease (250 ms)
          MinInterval, MaxInterval,  \* clamp of lease_heartbeat_interval
          NoCaller,      \* nobody holds the lease
          Orphan         \* a lease whose call is gone without releasing it

ASSUME CallerAssumption == NoCaller \notin Callers /\ Orphan \notin Callers
ASSUME TimeAssumption ==
    /\ Timeout \in Nat \ {0} /\ Grace \in Nat /\ QueueTimeout \in Nat
    /\ SpawnTime \in Nat /\ KillTime \in Nat /\ Lag \in Nat /\ Slice \in Nat
    /\ MinInterval \in Nat \ {0} /\ MaxInterval \in Nat \ {0}
    /\ Ttls \subseteq Nat \ {0}

VARIABLES
    transport,  \* "stdio": a process per call, "pool": a pooled one, "http"
    prompt,     \* whether heartbeat threads meet Lag
    swift,      \* whether child processes start within SpawnTime
    holder,     \* whose lease is in the store
    expiry,     \* time until it expires
    pc,         \* caller -> where its call is
    left,       \* caller -> time until the deadline it is working under
    slack,      \* caller -> time for work no deadline bounds
    ttl,        \* caller -> effective_ttl_ms
    sent,       \* caller -> whether a tool call was sent
    ok,         \* caller -> whether the call has its result
    beat,       \* caller -> its heartbeat thread: none, sleep, renew, lost
    wait        \* caller -> time until that thread acts, or is noticed

lease == <<holder, expiry>>
request == <<ttl, sent>>
callVars == <<transport, prompt, swift, holder, expiry, pc, left, slack, ttl, sent, ok, beat, wait>>

Least(a, b) == IF a <= b THEN a ELSE b
Greatest(a, b) == IF a >= b THEN a ELSE b

LeaseHeartbeatInterval(t) ==
    Least(Least(Greatest(t \div 3, MinInterval), MaxInterval), Greatest(t - 1, 1))

EffectiveTtl(asked) == IF asked > 0 THEN asked ELSE Timeout + Grace

CallInit == /\ transport \in {"stdio", "pool", "http"}
            /\ prompt \in BOOLEAN /\ swift \in BOOLEAN
            /\ holder = NoCaller /\ expiry = 0
            /\ pc = [c \in Callers |-> "idle"]
            /\ left = [c \in Callers |-> 0]
            /\ slack = [c \in Callers |-> 0]
            /\ ttl = [c \in Callers |-> Timeout + Grace]
            /\ sent = [c \in Callers |-> FALSE]
            /\ ok = [c \in Callers |-> FALSE]
            /\ beat = [c \in Callers |-> "none"]
            /\ wait = [c \in Callers |-> 0]

Lost(c) == beat[c] = "lost"
\* The transports that look at heartbeat_lost.
Watches == transport # "http"
LeaseStands == holder # NoCaller /\ expiry > 0

-----------------------------------------------------------------------------
(* Getting the lease.                                                       *)

Start(c, asked) ==
    /\ pc[c] = "idle"
    /\ pc' = [pc EXCEPT ![c] = "queue"]
    /\ left' = [left EXCEPT ![c] = QueueTimeout]
    /\ ttl' = [ttl EXCEPT ![c] = EffectiveTtl(asked)]
    /\ UNCHANGED <<transport, prompt, swift, lease, slack, sent, ok, beat, wait>>

\* acquire_runtime_lease grants: expired leases are purged, nothing conflicts.
\* The heartbeat starts, and the deadline of the upstream work is set.
Acquire(c) ==
    /\ pc[c] = "queue"
    /\ ~LeaseStands
    /\ holder' = c
    /\ expiry' = ttl[c]
    /\ pc' = [pc EXCEPT ![c] = "verify"]
    /\ left' = [left EXCEPT ![c] = Timeout]
    /\ slack' = [slack EXCEPT ![c] = SpawnTime + KillTime]
    /\ beat' = [beat EXCEPT ![c] = "sleep"]
    /\ wait' = [wait EXCEPT ![c] = LeaseHeartbeatInterval(ttl[c])]
    /\ UNCHANGED <<transport, prompt, swift, request, ok>>

\* The store command fails, or it is blocked when the queue deadline has passed.
AcquireFails(c) ==
    /\ pc[c] = "queue"
    /\ pc' = [pc EXCEPT ![c] = "idle"]
    /\ left' = [left EXCEPT ![c] = 0]
    /\ ttl' = [ttl EXCEPT ![c] = EffectiveTtl(0)]
    /\ UNCHANGED <<transport, prompt, swift, lease, slack, sent, ok, beat, wait>>

-----------------------------------------------------------------------------
(* The heartbeat thread of a call: start_lease_heartbeat.                   *)

BeatWakes(c) ==
    /\ beat[c] = "sleep" /\ wait[c] = 0
    /\ pc[c] # "join"
    /\ beat' = [beat EXCEPT ![c] = "renew"]
    /\ wait' = [wait EXCEPT ![c] = Lag]
    /\ UNCHANGED <<transport, prompt, swift, lease, pc, left, slack, request, ok>>

BeatRenews(c) ==
    /\ beat[c] = "renew"
    /\ holder = c /\ expiry > 0
    /\ expiry' = ttl[c]
    /\ beat' = [beat EXCEPT ![c] = "sleep"]
    /\ wait' = [wait EXCEPT ![c] = LeaseHeartbeatInterval(ttl[c])]
    /\ UNCHANGED <<transport, prompt, swift, holder, pc, left, slack, request, ok>>

\* The lease is gone, or the store command failed: the thread ends after one failure.
BeatLost(c) ==
    /\ beat[c] = "renew"
    /\ beat' = [beat EXCEPT ![c] = "lost"]
    /\ wait' = [wait EXCEPT ![c] = Slice]
    /\ UNCHANGED <<transport, prompt, swift, lease, pc, left, slack, request, ok>>

-----------------------------------------------------------------------------
(* The upstream work.                                                       *)

StopTime(c) == IF transport = "http" THEN Least(left[c], KillTime) ELSE KillTime

\* The work ends without a result.  A process that was started is terminated
\* before the error is returned; an HTTP session is closed while time is left.
Abandon(c) ==
    /\ pc' = [pc EXCEPT ![c] = "stop"]
    /\ slack' = [slack EXCEPT ![c] = StopTime(c)]
    /\ left' = [left EXCEPT ![c] = 0]
    /\ UNCHANGED <<transport, prompt, swift, lease, request, ok, beat, wait>>

\* The tool is in the verified list.  A process of its own is started for a
\* stdio call; a pooled call goes on with the worker it has checked out.
Verified(c) ==
    /\ pc[c] = "verify"
    /\ left[c] > 0
    /\ pc' = [pc EXCEPT ![c] = CASE transport = "stdio" -> "spawn"
                                 [] transport = "pool" -> "send"
                                 [] transport = "http" -> "init"]
    /\ slack' = [slack EXCEPT ![c] = IF transport = "stdio" THEN SpawnTime ELSE 0]
    /\ UNCHANGED <<transport, prompt, swift, lease, left, request, ok, beat, wait>>

\* The tool is unknown, the list or a worker cannot be had, time is up, or the
\* wait for a worker sees that the lease is lost.
NotVerified(c) == pc[c] = "verify" /\ Abandon(c)

\* The deadline of the exchange is set only now, from the time that was left
\* before the child was started: left stands still during "spawn".
Spawn(c) ==
    /\ pc[c] = "spawn"
    /\ pc' = [pc EXCEPT ![c] = "init"]
    /\ slack' = [slack EXCEPT ![c] = 0]
    /\ UNCHANGED <<transport, prompt, swift, lease, left, request, ok, beat, wait>>

SpawnFails(c) == pc[c] = "spawn" /\ Abandon(c)

\* What every write and every read looks at before it goes on.
MayGoOn(c) == left[c] > 0 /\ (Watches => ~Lost(c))

Initialized(c) ==
    /\ pc[c] = "init"
    /\ MayGoOn(c)
    /\ pc' = [pc EXCEPT ![c] = "send"]
    /\ UNCHANGED <<transport, prompt, swift, lease, left, slack, request, ok, beat, wait>>

Send(c) ==
    /\ pc[c] = "send"
    /\ MayGoOn(c)
    /\ pc' = [pc EXCEPT ![c] = "await"]
    /\ sent' = [sent EXCEPT ![c] = TRUE]
    /\ UNCHANGED <<transport, prompt, swift, lease, left, slack, ttl, ok, beat, wait>>

\* The answer with the id of the request arrives and is a valid result.
Accepts(c) == pc[c] = "await" /\ MayGoOn(c)

\* A batch goes on with its next request.
AnswerOne(c) ==
    /\ Accepts(c)
    /\ pc' = [pc EXCEPT ![c] = "send"]
    /\ UNCHANGED <<transport, prompt, swift, lease, left, slack, request, ok, beat, wait>>

\* After the last answer the process or the session of the call is given up; a
\* pooled worker goes back to the pool.
AnswerLast(c) ==
    /\ Accepts(c)
    /\ pc' = [pc EXCEPT ![c] = IF transport = "pool" THEN "join" ELSE "stop"]
    /\ slack' = [slack EXCEPT ![c] = IF transport = "pool" THEN 0 ELSE StopTime(c)]
    /\ left' = [left EXCEPT ![c] = 0]
    /\ ok' = [ok EXCEPT ![c] = TRUE]
    /\ UNCHANGED <<transport, prompt, swift, lease, request, beat, wait>>

\* Time is up, the lease is lost, the child is gone, or the answer is no result.
ExchangeFails(c) == pc[c] \in {"init", "send", "await"} /\ Abandon(c)

\* RunningServer::drop, or the end of the HTTP session.  terminate_child_process returns
\* within its bound, when the child has gone or when it has given the child up.
Stopped(c) ==
    /\ pc[c] = "stop"
    /\ pc' = [pc EXCEPT ![c] = "join"]
    /\ slack' = [slack EXCEPT ![c] = 0]
    /\ UNCHANGED <<transport, prompt, swift, lease, left, request, ok, beat, wait>>

-----------------------------------------------------------------------------
(* Giving the lease back: UpstreamLeaseGuard::release and its Drop.         *)

\* The thread does not look at the stop flag: only a failed renewal ends it.
JoinUnheard(c) ==
    /\ pc[c] = "join"
    /\ beat[c] = "lost"
    /\ pc' = [pc EXCEPT ![c] = IF ok[c] THEN "finalize" ELSE "drop"]
    /\ beat' = [beat EXCEPT ![c] = "none"]
    /\ wait' = [wait EXCEPT ![c] = 0]
    /\ UNCHANGED <<transport, prompt, swift, lease, left, slack, request, ok>>

\* stop_heartbeat: the thread sees the flag in its sleep, or after the renewal it
\* is in the middle of, and is joined.
Join(c) ==
    /\ pc[c] = "join"
    /\ beat[c] # "renew"
    /\ pc' = [pc EXCEPT ![c] = IF ok[c] THEN "finalize" ELSE "drop"]
    /\ beat' = [beat EXCEPT ![c] = "none"]
    /\ wait' = [wait EXCEPT ![c] = 0]
    /\ UNCHANGED <<transport, prompt, swift, lease, left, slack, request, ok>>

Returned(c) ==
    /\ pc' = [pc EXCEPT ![c] = "idle"]
    /\ ttl' = [ttl EXCEPT ![c] = EffectiveTtl(0)]
    /\ sent' = [sent EXCEPT ![c] = FALSE]
    /\ ok' = [ok EXCEPT ![c] = FALSE]
    /\ UNCHANGED <<transport, prompt, swift, left, slack, beat, wait>>

Release(c) ==
    /\ pc[c] \in {"finalize", "drop"}
    /\ holder' = IF holder = c THEN NoCaller ELSE holder
    /\ expiry' = IF holder = c THEN 0 ELSE expiry
    /\ Returned(c)

\* The store command fails in finalize: the call returns this error, and the guard
\* that goes out of scope tries once more.
FinalizeFails(c) ==
    /\ pc[c] = "finalize"
    /\ pc' = [pc EXCEPT ![c] = "drop"]
    /\ ok' = [ok EXCEPT ![c] = FALSE]
    /\ UNCHANGED <<transport, prompt, swift, lease, left, slack, request, beat, wait>>

\* It fails in Drop, which ignores it: the lease stays until it expires.
DropFails(c) ==
    /\ pc[c] = "drop"
    /\ holder' = IF holder = c THEN Orphan ELSE holder
    /\ UNCHANGED expiry
    /\ Returned(c)

\* The runtime of the caller dies, with its threads and its pipes to the child.
Crash(c) ==
    /\ pc[c] # "idle"
    /\ holder' = IF holder = c THEN Orphan ELSE holder
    /\ UNCHANGED <<transport, prompt, swift, expiry>>
    /\ pc' = [pc EXCEPT ![c] = "idle"]
    /\ left' = [left EXCEPT ![c] = 0]
    /\ slack' = [slack EXCEPT ![c] = 0]
    /\ ttl' = [ttl EXCEPT ![c] = EffectiveTtl(0)]
    /\ sent' = [sent EXCEPT ![c] = FALSE]
    /\ ok' = [ok EXCEPT ![c] = FALSE]
    /\ beat' = [beat EXCEPT ![c] = "none"]
    /\ wait' = [wait EXCEPT ![c] = 0]

-----------------------------------------------------------------------------
(* Time.                                                                    *)

\* Work that runs under a deadline, and work that only the machine bounds: nothing bounds
\* the start of a child that is not swift.
Timed(c) == pc[c] \in {"queue", "verify", "init", "send", "await"}
Untimed(c) == pc[c] \in {"spawn", "stop"} \/ (pc[c] = "verify" /\ left[c] = 0)

\* No read and no write polls the lost flag.
PollsDeadlineOnly(c) ==
    pc[c] \in {"queue", "init", "send", "await"} => left[c] > 0

\* Every read and write polls the deadline and the lost flag.
Polls(c) ==
    /\ pc[c] \in {"queue", "init", "send", "await"} => left[c] > 0
    /\ pc[c] \in {"init", "send", "await"} /\ Watches /\ Lost(c) => wait[c] > 0

InBounds(c) == Untimed(c) /\ (swift \/ pc[c] = "stop") => slack[c] > 0

BeatMeetsLag(c) == prompt /\ beat[c] \in {"sleep", "renew"} => wait[c] > 0

Down(n) == IF n > 0 THEN n - 1 ELSE 0

Tick ==
    /\ \A c \in Callers : Polls(c) /\ BeatMeetsLag(c) /\ InBounds(c)
    /\ expiry' = Down(expiry)
    /\ left' = [c \in Callers |-> IF Timed(c) THEN Down(left[c]) ELSE left[c]]
    /\ slack' = [c \in Callers |-> IF Untimed(c) THEN Down(slack[c]) ELSE slack[c]]
    /\ wait' = [c \in Callers |-> Down(wait[c])]
    /\ UNCHANGED <<transport, prompt, swift, holder, pc, request, ok, beat>>

-----------------------------------------------------------------------------
Work(c) == \/ Acquire(c) \/ AcquireFails(c)
           \/ Verified(c) \/ NotVerified(c) \/ Spawn(c) \/ SpawnFails(c)
           \/ Initialized(c) \/ Send(c) \/ AnswerOne(c) \/ AnswerLast(c)
           \/ ExchangeFails(c) \/ Stopped(c)
           \/ Join(c) \/ Release(c) \/ FinalizeFails(c) \/ DropFails(c)

Beat(c) == BeatWakes(c) \/ BeatRenews(c) \/ BeatLost(c)

CallNext == \/ \E c \in Callers : \/ \E asked \in Ttls \cup {0} : Start(c, asked)
                                  \/ Work(c) \/ Beat(c) \/ Crash(c)
            \/ Tick

CallSpec == CallInit /\ [][CallNext]_callVars

\* Where a call must go on: out of time, told that its lease is lost, or in work
\* that ends by itself.  A server need not answer and a store need not fail.
Due(c) ==
    CASE pc[c] = "idle" -> FALSE
      [] pc[c] = "queue" -> left[c] = 0
      [] pc[c] = "verify" -> left[c] = 0 /\ slack[c] = 0
      [] pc[c] \in {"init", "send", "await"} -> ~MayGoOn(c)
      [] pc[c] \in {"spawn", "stop"} -> slack[c] = 0
      [] OTHER -> TRUE

\* Threads that have something due are scheduled, and time passes.
CallFairness == /\ WF_callVars(Tick)
                /\ \A c \in Callers : WF_callVars(Due(c) /\ Work(c)) /\ WF_callVars(Beat(c))

CallFairSpec == CallSpec /\ CallFairness

-----------------------------------------------------------------------------
(* Properties.                                                              *)

CallTypeOK ==
    /\ transport \in {"stdio", "pool", "http"}
    /\ prompt \in BOOLEAN /\ swift \in BOOLEAN
    /\ holder \in Callers \cup {NoCaller, Orphan}
    /\ expiry \in Nat
    /\ pc \in [Callers -> {"idle", "queue", "verify", "spawn", "init", "send", "await", "stop",
                           "join", "finalize", "drop"}]
    /\ left \in [Callers -> Nat]
    /\ slack \in [Callers -> Nat]
    /\ ttl \in [Callers -> Nat \ {0}]
    /\ sent \in [Callers -> BOOLEAN]
    /\ ok \in [Callers -> BOOLEAN]
    /\ beat \in [Callers -> {"none", "sleep", "renew", "lost"}]
    /\ wait \in [Callers -> Nat]

\* A tool call is out: sent to a process that has not gone and was not given up yet, or
\* to an HTTP server that has not answered yet.
Using(c) == \/ pc[c] = "await"
            \/ Watches /\ pc[c] \in {"send", "stop"} /\ sent[c]

\* A lifetime that leaves room for one failed renewal to be noticed and acted on.
Roomy(t) == LeaseHeartbeatInterval(t) + Lag + Slice + KillTime < t

\* Where the code can keep its promise: a lifetime longer than the call with the start and
\* the termination of its process, which the one the code chooses itself is when the two
\* take less than Grace, and any roomy one when the transport watches the heartbeat and
\* the heartbeat is on time.
Covered(c) == \/ swift /\ Timeout + SpawnTime + KillTime < ttl[c]
              \/ Watches /\ prompt /\ Roomy(ttl[c])

\* A tool call is out only while its caller's lease stands: through slow starts and
\* terminations, failed renewals, late heartbeats and crashes of other callers, a
\* call is over and its process gone, or given up as one that two kills did not end,
\* before its lease can go to somebody else.
UseIsLeased == \A c \in Callers : Using(c) /\ Covered(c) => holder = c /\ expiry > 0

\* A call that has returned leaves no heartbeat thread behind, and a lease of its
\* own only as one that nobody renews any more.
NothingLeftBehind == \A c \in Callers : pc[c] = "idle" => beat[c] = "none" /\ holder # c

\* Every call returns, whatever the server, the store and the other callers do.
EveryCallReturns == \A c \in Callers : []<>(pc[c] = "idle")
============================================================================
