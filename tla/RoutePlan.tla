----------------------------- MODULE RoutePlan -----------------------------
(***************************************************************************)
(* The routing plan of one request: resolve_scope, resolve_request_strategy *)
(* and route_blockers (src/client/plan.rs, src/hub/leases.rs).             *)
(*                                                                         *)
(* Keys are the tuples the code formats into strings.  Affinity values are *)
(* hashed before they enter a key; two identities of the model differ also *)
(* after sanitize_key, and hashes are taken not to collide.                *)
(***************************************************************************)
EXTENDS ExecutionPolicy

CONSTANT NoKey     \* requestMutexKey is null

\* A server as the planner sees it: its policy, transport, whether it is enabled,
\* supported and not legacy, and whether its scope requires a project binding.
WorkerPoolKey(server, p, identity)   == <<"worker-group", server, AffinityKey(p, identity)>>
MutexKey(server, p, identity)        == <<"execution-mutex", WorkerPoolKey(server, p, identity)>>
ProcessScopeKey(server, p, identity) == <<"process-scope", server, AffinityKey(p, identity)>>

\* Which requests are serialized by a mutex rather than counted against a limit.
UsesMutex(p, transport) ==
    \/ p.mode \in {"serialized", "session-isolated", "project-isolated"}
    \/ p.mode = "shared" /\ EffectiveCapacity(p, transport) <= 1

ParallelismLimit(p, transport) ==
    IF p.mode = "serialized" THEN 1 ELSE Greatest(EffectiveCapacity(p, transport), 1)

\* resolve_request_strategy: disabled and legacy servers, and requests whose
\* identity lacks an affinity dimension, get no key and a limit of zero.
RequestStrategy(server, p, transport, routable, identity) ==
    IF ~routable \/ IsDisabled(p) \/ ~AffinityResolved(p, identity)
    THEN [mutex |-> NoKey, limit |-> 0]
    ELSE [mutex |-> IF UsesMutex(p, transport) THEN MutexKey(server, p, identity) ELSE NoKey,
          limit |-> ParallelismLimit(p, transport)]

\* resolve_session_lease: the session the client names, or else a hash of the rest.
SessionLeaseId(identity) ==
    IF identity.session # Absent
    THEN <<"external", identity.session>>
    ELSE <<"planned", identity.client, identity.project>>

\* planned_route_from_plan together with route_capacity_key.
PlannedRoute(server, record, identity) ==
    LET strategy == RequestStrategy(server, record.policy, record.transport,
                                    record.routable, identity)
    IN  [server   |-> server,
         mutex    |-> strategy.mutex,
         capacity |-> IF strategy.mutex # NoKey THEN strategy.mutex
                      ELSE IF AffinityResolved(record.policy, identity)
                           THEN ProcessScopeKey(server, record.policy, identity)
                           ELSE NoKey,
         limit    |-> strategy.limit,
         pending  |-> record.needs_project /\ identity.project = Absent,
         session  |-> SessionLeaseId(identity)]

\* conservative_settings_only_route, for a server that is missing from the plan.
ConservativeRoute(server, identity) ==
    LET key == <<"settings-only", server, OrElse(identity.project, "global")>>
    IN  [server |-> server, mutex |-> key, capacity |-> key, limit |-> 1, pending |-> FALSE,
         session |-> <<"session", identity.client, OrElse(identity.session, server)>>]

\* route_blockers: a server that is not routable plans a limit of zero.
Blocked(route) == route.limit = 0 \/ route.pending

=============================================================================
