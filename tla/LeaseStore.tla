----------------------------- MODULE LeaseStore ----------------------------
(***************************************************************************)
(* The lease store of src/hub/leases.rs: one JSON file of runtime leases,  *)
(* changed by whole commands (list, acquire, renew, release) that run      *)
(* under the store lock.  LeaseLock models that lock; here a command is one *)
(* step.  The route of an acquire is planned before the lock is taken, so  *)
(* planning is a step of its own and the configuration may change between  *)
(* the two.  Before the lock, every command also seeds the file where it   *)
(* sees none (ensure_runtime_layout): to look and to write are two steps,  *)
(* and nothing keeps other commands out between them.                      *)
(***************************************************************************)
EXTENDS RoutePlan, FiniteSets

CONSTANTS Callers,    \* concurrent requests: calls, CLI commands, management tools
          Ids,        \* lease ids; generate_lease_id never repeats one
          Identity,   \* caller -> [client, session, project]
          Server,     \* the one upstream server (keys of two servers never meet)
          Records,    \* the configurations it may have; Absent when not in the plan
          Ttls,       \* requested lease lifetimes, Absent or in milliseconds
          MaxNow,     \* bound on the clock
          DEFAULT_LEASE_TTL_MS, MAX_LEASE_TTL_MS,
          NoLease, NoRoute, NoId

ASSUME StoreAssumption ==
    /\ IsFiniteSet(Ids)
    /\ NoId \notin Ids
    /\ MaxNow \in Nat
    /\ DEFAULT_LEASE_TTL_MS \in Nat \ {0}
    /\ MAX_LEASE_TTL_MS \in Nat \ {0}
    /\ DEFAULT_LEASE_TTL_MS <= MAX_LEASE_TTL_MS
    /\ \A t \in Ttls : t = Absent \/ t \in Nat
    /\ \A r \in Records \ {Absent} : r.policy \in Policy

VARIABLES record,     \* the server's configuration on disk
          plan,       \* caller -> the route it planned and has not used yet
          leases,     \* lease id -> its record in the file, or NoLease
          sessions,   \* the session index in the file
          issued,     \* ids ever generated
          now,        \* the wall clock, which may be set back
          exists,     \* whether there is a file
          seeding     \* callers that saw none and have yet to write it

seed == <<exists, seeding>>
vars == <<record, plan, leases, sessions, issued, now, seed>>

Routes == {PlannedRoute(Server, r, Identity[c]) : r \in Records \ {Absent}, c \in Callers}
              \cup {ConservativeRoute(Server, Identity[c]) : c \in Callers}

Lease == [route : Routes, expires : 1 .. (MaxNow + MAX_LEASE_TTL_MS)]

ASSUME NoLeaseAssumption == NoLease \notin Lease

Active(ls) == {i \in Ids : ls[i] # NoLease}

Holding(ls, k) == {i \in Active(ls) : ls[i].route.capacity = k}
HoldingMutex(ls, k) == {i \in Active(ls) : ls[i].route.mutex = k}

Init == /\ record \in Records
        /\ plan = [c \in Callers |-> NoRoute]
        /\ leases = [i \in Ids |-> NoLease]
        /\ sessions = [s \in {} |-> {}]
        /\ issued = {}
        /\ now = 0
        /\ exists = FALSE
        /\ seeding = {}

-----------------------------------------------------------------------------
(* The pieces of a command.  A definition whose name extends that of the    *)
(* next one (TakeoverAllowedForAll) is a faulty variant of it, kept to      *)
(* show that the properties below notice such a fault.                      *)

NormalizeTtl(ttl) ==
    IF ttl = Absent \/ ttl = 0 THEN DEFAULT_LEASE_TTL_MS ELSE Least(ttl, MAX_LEASE_TTL_MS)

PurgeExpired(ls) ==
    [i \in Ids |-> IF ls[i] # NoLease /\ ls[i].expires > now THEN ls[i] ELSE NoLease]

\* The index: every session that has a lease, with its leases.
RebuildSessions(ls) ==
    [s \in {ls[i].route.session : i \in Active(ls)} |->
        {i \in Active(ls) : ls[i].route.session = s}]

ConflictsOneLate(ls, route) ==
    IF route.mutex # NoKey THEN HoldingMutex(ls, route.mutex)
    ELSE LET group == Holding(ls, route.capacity)
         IN  IF Cardinality(group) > route.limit THEN group ELSE {}

\* find_conflict: the leases it may report.  It returns the first of them in the
\* order of lease ids, which the model leaves open.
Conflicts(ls, route) ==
    IF route.mutex # NoKey THEN HoldingMutex(ls, route.mutex)
    ELSE LET group == Holding(ls, route.capacity)
         IN  IF Cardinality(group) >= route.limit THEN group ELSE {}

TakeoverAllowedForAll(takeover, lease, route) == takeover
TakeoverAllowed(takeover, lease, route) == takeover /\ lease.route.session = route.session

\* mutate_store, for a command that saw or has seeded the file: after the mutator,
\* rebuild the index and write the file.
Commit(ls) == /\ exists
              /\ leases' = ls
              /\ sessions' = RebuildSessions(ls)
              /\ UNCHANGED seed

WithoutRemoving(ls, i) == ls
Without(ls, i) == [j \in Ids |-> IF j = i THEN NoLease ELSE ls[j]]

Insert(ls, i, route, ttl) ==
    [ls EXCEPT ![i] = [route |-> route, expires |-> now + NormalizeTtl(ttl)]]

-----------------------------------------------------------------------------
(* seed_json_if_missing, at the start of every command.                     *)

SeedLooks(c) ==
    /\ ~exists /\ c \notin seeding
    /\ seeding' = seeding \cup {c}
    /\ UNCHANGED <<record, plan, leases, sessions, issued, now, exists>>

\* The blank store is written whatever is there by now.
SeedWrites(c) ==
    /\ c \in seeding
    /\ leases' = [i \in Ids |-> NoLease]
    /\ sessions' = [s \in {} |-> {}]
    /\ exists' = TRUE
    /\ seeding' = seeding \ {c}
    /\ UNCHANGED <<record, plan, issued, now>>

\* It cannot be written, and the command returns the error.
SeedFails(c) ==
    /\ c \in seeding
    /\ seeding' = seeding \ {c}
    /\ plan' = [plan EXCEPT ![c] = NoRoute]
    /\ UNCHANGED <<record, leases, sessions, issued, now, exists>>

-----------------------------------------------------------------------------
(* Commands.                                                                *)

Plan(c) ==
    /\ plan[c] = NoRoute
    /\ plan' = [plan EXCEPT ![c] = IF record = Absent
                                   THEN ConservativeRoute(Server, Identity[c])
                                   ELSE PlannedRoute(Server, record, Identity[c])]
    /\ UNCHANGED <<record, leases, sessions, issued, now, seed>>

\* The route is not routable, or a conflict stands and may not be taken over.
AcquireBlocked(c, takeover) ==
    LET ls == PurgeExpired(leases)
    IN  /\ plan[c] # NoRoute /\ c \notin seeding
        /\ \/ Blocked(plan[c])
           \/ \E i \in Conflicts(ls, plan[c]) : ~TakeoverAllowed(takeover, ls[i], plan[c])
        /\ Commit(ls)
        /\ plan' = [plan EXCEPT ![c] = NoRoute]
        /\ UNCHANGED <<record, issued, now>>

\* The lease that makes way: none when nothing conflicts, or else the reported
\* conflict, if it may be taken over.
MakesWay(ls, route, takeover) ==
    IF Conflicts(ls, route) = {} THEN {NoId}
    ELSE {i \in Conflicts(ls, route) : TakeoverAllowed(takeover, ls[i], route)}

AcquireGranted(c, takeover, ttl) ==
    LET ls == PurgeExpired(leases)
    IN  /\ plan[c] # NoRoute /\ c \notin seeding
        /\ ~Blocked(plan[c])
        /\ \E id \in Ids \ issued : \E old \in MakesWay(ls, plan[c], takeover) :
              /\ Commit(Insert(Without(ls, old), id, plan[c], ttl))
              /\ issued' = issued \cup {id}
        /\ plan' = [plan EXCEPT ![c] = NoRoute]
        /\ UNCHANGED <<record, now>>

RenewBeforePurge(i, ttl) ==
    /\ Commit(IF leases[i] = NoLease THEN leases
              ELSE [leases EXCEPT ![i].expires = now + NormalizeTtl(ttl)])
    /\ UNCHANGED <<record, plan, issued, now>>

\* A lease that is no longer there is answered not-found and is not put back.
Renew(i, ttl) ==
    LET ls == PurgeExpired(leases)
    IN  /\ Commit(IF ls[i] = NoLease THEN ls
                  ELSE [ls EXCEPT ![i].expires = now + NormalizeTtl(ttl)])
        /\ UNCHANGED <<record, plan, issued, now>>

Release(i) == /\ Commit(Without(PurgeExpired(leases), i))
              /\ UNCHANGED <<record, plan, issued, now>>

List == /\ Commit(PurgeExpired(leases))
        /\ UNCHANGED <<record, plan, issued, now>>

\* The lock is busy, or the file cannot be read, parsed or replaced.
AcquireFails(c) ==
    /\ plan[c] # NoRoute /\ c \notin seeding
    /\ plan' = [plan EXCEPT ![c] = NoRoute]
    /\ UNCHANGED <<record, leases, sessions, issued, now, seed>>

-----------------------------------------------------------------------------
(* The environment.                                                         *)

Reconfigure == /\ record' \in Records \ {record}
               /\ UNCHANGED <<plan, leases, sessions, issued, now, seed>>

ClockMoves == /\ now' \in (0 .. MaxNow) \ {now}
              /\ UNCHANGED <<record, plan, leases, sessions, issued, seed>>

Next ==
    \/ \E c \in Callers : \/ SeedLooks(c) \/ SeedWrites(c) \/ SeedFails(c)
                          \/ Plan(c)
                          \/ AcquireFails(c)
                          \/ \E takeover \in BOOLEAN :
                                \/ AcquireBlocked(c, takeover)
                                \/ \E ttl \in Ttls : AcquireGranted(c, takeover, ttl)
    \/ \E i \in issued : \/ Release(i)
                         \/ \E ttl \in Ttls : Renew(i, ttl)
    \/ List
    \/ Reconfigure
    \/ ClockMoves

Spec == Init /\ [][Next]_vars
-----------------------------------------------------------------------------
(* Properties.                                                              *)

\* Every field of the store and the plans has its type; in particular no lease
\* outlives the longest lifetime that normalize_ttl allows.
TypeOK ==
    /\ record \in Records
    /\ plan \in [Callers -> Routes \cup {NoRoute}]
    /\ leases \in [Ids -> Lease \cup {NoLease}]
    /\ issued \subseteq Ids
    /\ Active(leases) \subseteq issued
    /\ now \in 0 .. MaxNow
    /\ exists \in BOOLEAN /\ seeding \subseteq Callers

\* Two leases in the file never carry the same request mutex: acquire_lease_for_route
\* excludes them although routes are planned outside the lock, the configuration
\* changes under it, the clock is set back and takeovers replace leases.
OneLeasePerMutex ==
    \A i, j \in Active(leases) :
        i # j /\ leases[i].route.mutex # NoKey => leases[i].route.mutex # leases[j].route.mutex

\* A command that adds a lease leaves its capacity group within the limit the
\* route was planned with, or, when a takeover met a group already over a lowered
\* limit, no larger than it was.
CapacityRespected ==
    [][\A i \in Ids :
          leases[i] = NoLease /\ leases'[i] # NoLease =>
              LET k == leases'[i].route.capacity
              IN  \/ Cardinality(Holding(leases', k)) <= leases'[i].route.limit
                  \/ Cardinality(Holding(leases', k)) <= Cardinality(Holding(leases, k))]_vars

\* A lease that has not expired leaves the store only because it was released by
\* its id, taken over by a request of the same session, or erased by the seed of a
\* command that looked before there was a file: no other request, purge,
\* reconfiguration or failed command ends it.  Once every command that saw no file
\* has written its seed, only the first two are left.
LiveLeaseKept ==
    [][\A i \in Active(leases) :
          leases[i].expires > now /\ leases'[i] = NoLease =>
              \/ Release(i)
              \/ \E c \in seeding : SeedWrites(c)
              \/ \E c \in Callers, j \in issued' \ issued :
                    /\ plan[c] # NoRoute /\ plan'[c] = NoRoute
                    /\ leases'[j].route = plan[c]
                    /\ plan[c].session = leases[i].route.session]_vars

\* A lease that expired or left the store never comes back to life: a late renew
\* of a lease that ran out, was released or was taken over answers not-found.
NoResurrection ==
    [][\A i \in issued : leases[i] = NoLease \/ leases[i].expires <= now =>
          leases'[i] \in {NoLease, leases[i]}]_vars

\* The session index in the file lists exactly the sessions of the leases in the
\* file, each with exactly its leases, also after a command that was refused.
SessionsMatchLeases ==
    /\ \A s \in DOMAIN sessions : sessions[s] # {}
    /\ \A i \in Ids, s \in DOMAIN sessions :
          i \in sessions[s] <=> i \in Active(leases) /\ leases[i].route.session = s
    /\ \A i \in Active(leases) : leases[i].route.session \in DOMAIN sessions
=============================================================================
