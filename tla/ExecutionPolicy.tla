-------------------------- MODULE ExecutionPolicy --------------------------
(***************************************************************************)
(* How MCPace decides the execution policy of an upstream server, and what *)
(* a policy allows: src/execution.rs and the request strategy of           *)
(* src/client/plan.rs.  All of it is pure: the operators here are used by  *)
(* the state machines of the lease store and of the worker pool.           *)
(*                                                                         *)
(* A policy keeps the fields that scheduling depends on.  Time limits,     *)
(* queue depth, reuse policy, source and warnings are left out; affinity   *)
(* is a set because normalize sorts and deduplicates it.                   *)
(***************************************************************************)
EXTENDS Integers

CONSTANTS MAX_WORKERS,               \* execution.rs MAX_WORKERS
          MAX_IN_FLIGHT_PER_WORKER,  \* execution.rs MAX_IN_FLIGHT_PER_WORKER
          Absent                     \* a JSON field, or an identity, that is not there

ASSUME PolicyAssumption ==
    /\ MAX_WORKERS \in Nat \ {0}
    /\ MAX_IN_FLIGHT_PER_WORKER \in Nat \ {0}

ExecutionMode == {"shared", "serialized", "session-isolated",
                  "project-isolated", "pool", "disabled"}

\* The affinity dimensions that identities of this model tell apart; the others
\* of is_supported_affinity are resolved in the same way.
SessionLike == {"chat", "session"}
Affinity == {"client", "project"} \cup SessionLike

Policy == [mode : ExecutionMode, affinity : SUBSET Affinity,
           min_workers : Nat, max_workers : Nat, max_in_flight : Nat]

Least(a, b) == IF a <= b THEN a ELSE b
Greatest(a, b) == IF a <= b THEN b ELSE a

ForMode(mode) ==
    LET preset(affinity, min, max, inflight) ==
          [mode |-> mode, affinity |-> affinity, min_workers |-> min,
           max_workers |-> max, max_in_flight |-> inflight]
    IN  CASE mode = "shared"           -> preset({}, 0, 1, 4)
          [] mode = "serialized"       -> preset({}, 0, 1, 1)
          [] mode = "session-isolated" -> preset({"client", "chat"}, 0, 1, 1)
          [] mode = "project-isolated" -> preset({"project"}, 0, 1, 1)
          [] mode = "pool"             -> preset({}, 1, 4, 1)
          [] mode = "disabled"         -> preset({}, 0, 0, 0)

-----------------------------------------------------------------------------
(* Resolution.  A block of settings is a record whose fields may be Absent. *)

OrElse(value, default) == IF value = Absent THEN default ELSE value

\* apply_json: every field the block has replaces the policy's, except the mode.
ApplyJson(p, block) ==
    IF block = Absent THEN p
    ELSE [p EXCEPT !.affinity      = OrElse(block.affinity, @),
                   !.min_workers   = OrElse(block.min_workers, @),
                   !.max_workers   = OrElse(block.max_workers, @),
                   !.max_in_flight = OrElse(block.max_in_flight, @)]

\* A canonical policy describes the server with tokens; off stands for "disabled" as
\* its startupStrategy or routingGroup.
CanonicalDisabled(canonical) == \/ canonical.off
                                \/ canonical.concurrency = "plan-only"
                                \/ canonical.scope = "not-runnable"

\* inferred_mode: the mode that scope, concurrency, state binding and state class ask
\* for, most restrictive first.
InferredMode(t) ==
    IF t.concurrency = "plan-only" \/ t.scope = "not-runnable" THEN "disabled"
    ELSE IF t.concurrency = "isolated-per-project" \/ t.scope = "project-local"
            \/ t.class = "project-stateful" THEN "project-isolated"
    ELSE IF t.concurrency = "single-session" \/ t.class = "session-stateful"
            \/ t.binding = "host-session" THEN "session-isolated"
    ELSE IF t.concurrency = "multi-reader"
            /\ t.class \in {"stateless", "credential-stateful", "remote-session-stateful"}
         THEN "shared"
    ELSE "serialized"

\* apply_canonical_json of a policy that does not disable the server; max_workers
\* is its maxWorkers or, when it has none, its parallelismLimit.
ApplyCanonical(p, canonical) ==
    IF canonical = Absent THEN p
    ELSE [p EXCEPT !.max_workers   = OrElse(canonical.max_workers, @),
                   !.max_in_flight = OrElse(canonical.max_in_flight, @)]

\* Isolation that takes the affinity as it is configured.
NoRequiredAffinity(p) == {}

RequiredAffinity(p) ==
    CASE p.mode = "project-isolated" -> {"project"}
      [] p.mode = "session-isolated" /\ p.affinity \cap SessionLike = {} -> {"session"}
      [] OTHER -> {}

Normalize(p) ==
    IF p.mode = "disabled" \/ p.max_workers = 0 \/ p.max_in_flight = 0
    THEN ForMode("disabled")
    ELSE LET workers == IF p.mode = "pool" THEN Least(p.max_workers, MAX_WORKERS) ELSE 1
         IN  [mode          |-> p.mode,
              affinity      |-> p.affinity \cup RequiredAffinity(p),
              min_workers   |-> Least(p.min_workers, workers),
              max_workers   |-> workers,
              max_in_flight |-> Least(p.max_in_flight, MAX_IN_FLIGHT_PER_WORKER)]

\* execution_defaults is a whole policy here, as to_config_json_value writes it;
\* its queue depth and idle limit, which apply_global_limits copies, are left out.
ResolveWithCanonical(defaults, canonical, execution, fallback_mode) ==
    LET explicit == IF execution = Absent THEN Absent ELSE execution.mode
        off == canonical # Absent /\ CanonicalDisabled(canonical)
        mode == IF off THEN "disabled" ELSE OrElse(explicit, fallback_mode)
        base == IF explicit = Absent /\ defaults.mode = mode
                THEN ApplyJson(ForMode(mode), defaults)
                ELSE ForMode(mode)
    IN  IF off THEN Normalize(ForMode("disabled"))
        ELSE Normalize(ApplyJson(ApplyCanonical(base, canonical), execution))

\* from_config_root: the defaults block of the config on top of its own mode.
FromConfigRoot(block) ==
    LET mode == IF block = Absent THEN "serialized" ELSE OrElse(block.mode, "serialized")
    IN  IF block # Absent /\ block.mode = mode
        THEN Normalize(ApplyJson(ForMode(mode), block))
        ELSE Normalize(ForMode(mode))

-----------------------------------------------------------------------------
(* What a policy allows.                                                    *)

IsDisabled(p) == p.mode = "disabled" \/ p.max_workers = 0

WorkerLimit(p) ==
    CASE p.mode = "disabled" -> 0
      [] p.mode = "pool"     -> Greatest(p.max_workers, 1)
      [] OTHER               -> 1

EffectiveMaxInFlight(p, transport) ==
    IF IsDisabled(p) THEN 0
    ELSE IF transport = "stdio" THEN 1
    ELSE Greatest(p.max_in_flight, 1)

\* saturating_mul: after normalize the product is far below usize::MAX.
EffectiveCapacity(p, transport) ==
    WorkerLimit(p) * EffectiveMaxInFlight(p, transport)

\* An identity is the client, session and project of a request.  The client is
\* never absent: affinity_key falls back to "mcpace-upstream-bridge".
DimensionValue(identity, dimension) ==
    CASE dimension = "client"       -> identity.client
      [] dimension = "project"      -> identity.project
      [] dimension \in SessionLike  -> identity.session

AffinityResolved(p, identity) ==
    \A d \in p.affinity : DimensionValue(identity, d) # Absent

\* The fingerprint: the mode and, for every dimension of the policy, its value.
AffinityKey(p, identity) ==
    <<p.mode, {<<d, DimensionValue(identity, d)>> : d \in p.affinity}>>

=============================================================================
