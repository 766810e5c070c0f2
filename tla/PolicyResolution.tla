------------------------- MODULE PolicyResolution -------------------------
(***************************************************************************)
(* Which policy the two readers of the settings give a server.  The planner *)
(* (src/server/loader.rs) decides the lease a request needs, the runtime   *)
(* (src/upstream/server_config.rs) which worker it goes to and which queue *)
(* it waits in.  Both read mcpace.config.json and the MCP settings files;  *)
(* users edit these by hand and with `server set-policy`                   *)
(* (src/server/policy.rs).                                                 *)
(*                                                                         *)
(* What the planner infers from a server's command, URL and hints is an    *)
(* input: any tokens.                                                      *)
(***************************************************************************)
EXTENDS RoutePlan

CONSTANTS Server,
          DefaultsBlocks,      \* executionDefaults blocks in use
          ExecutionBlocks,     \* execution blocks written by hand
          CanonicalBlocks,     \* policy blocks written by hand
          InferredTokens,      \* what the planner may infer about the server
          Identities, Transports,
          AffinityArgs,        \* values of --affinity
          WorkerArgs           \* positive values of --max-workers and --max-in-flight-per-worker

ASSUME ResolutionAssumption ==
    /\ AffinityArgs \subseteq SUBSET Affinity
    /\ WorkerArgs \subseteq Nat \ {0}
    /\ \A b \in (DefaultsBlocks \cup ExecutionBlocks) \ {Absent} :
          /\ b.mode \in ExecutionMode \cup {Absent}
          /\ b.affinity \in (SUBSET Affinity) \cup {Absent}
          /\ {b.min_workers, b.max_workers, b.max_in_flight} \subseteq Nat \cup {Absent}
    /\ \A b \in CanonicalBlocks \ {Absent} :
          {b.max_workers, b.max_in_flight} \subseteq Nat \cup {Absent}

VARIABLES executionDefaults,   \* block of mcpace.config.json
          declared,            \* the server's entry in mcpace.config.json, or Absent
          source,              \* its entry in the MCP settings, with what is inferred
          chosen               \* mode of the last set-policy, until another edit

vars == <<executionDefaults, declared, source, chosen>>

Init == /\ executionDefaults = Absent
        /\ declared = Absent
        /\ source \in [policy : {Absent}, execution : {Absent}, inferred : InferredTokens]
        /\ chosen = Absent

-----------------------------------------------------------------------------
(* The two readers.                                                         *)

Defaults == FromConfigRoot(executionDefaults)

\* policy_token: a token of the policy block or, without it, the inferred one.
PlannerTokens(policy) ==
    IF policy = Absent THEN source.inferred
    ELSE [f \in {"scope", "concurrency", "binding", "class"} |->
            OrElse(policy[f], source.inferred[f])]

\* The source's blocks before those of mcpace.config.json.
PlannerPolicySourceFirst ==
    IF declared = Absent
    THEN ResolveWithCanonical(Defaults, source.policy, source.execution, InferredMode(source.inferred))
    ELSE ResolveWithCanonical(Defaults, OrElse(source.policy, declared.policy),
                              OrElse(source.execution, declared.execution),
                              InferredMode(PlannerTokens(declared.policy)))

\* normalize_server_record for a declared server, else generic_source_server_record.
PlannerPolicy ==
    IF declared = Absent
    THEN ResolveWithCanonical(Defaults, source.policy, source.execution, InferredMode(source.inferred))
    ELSE ResolveWithCanonical(Defaults, OrElse(declared.policy, source.policy),
                              OrElse(declared.execution, source.execution),
                              InferredMode(PlannerTokens(declared.policy)))

\* inferred_mode_from_canonical: a token that is missing is the empty string.
RuntimeFallback(policy) == IF policy = Absent THEN Defaults.mode ELSE InferredMode(policy)

\* for_server for a declared server, else the defaults.
RuntimePolicy ==
    IF declared = Absent THEN Defaults
    ELSE ResolveWithCanonical(Defaults, declared.policy, declared.execution,
                              RuntimeFallback(declared.policy))

-----------------------------------------------------------------------------
(* server set-policy.                                                       *)

\* preset_for_mode: tokens, default affinity and default number of workers.
Preset(mode) ==
    LET preset(scope, concurrency, binding, affinity, workers) ==
          [scope |-> scope, concurrency |-> concurrency, binding |-> binding,
           affinity |-> affinity, workers |-> workers]
    IN  CASE mode = "shared"           -> preset("stateless-local", "multi-reader", "none", {}, 4)
          [] mode = "serialized"       -> preset("configured-source", "single-writer", "runtime-source",
                                                 {"client"}, 1)
          [] mode = "session-isolated" -> preset("state-profile", "single-session", "context-store",
                                                 {"client", "project", "chat"}, 1)
          [] mode = "project-isolated" -> preset("project-local", "isolated-per-project", "file",
                                                 {"client", "project"}, 1)
          [] mode = "pool"             -> preset("stateless-local", "multi-reader", "none",
                                                 {"client"}, 4)
          [] mode = "disabled"         -> preset("not-runnable", "plan-only", "none", {}, 0)

\* policy_json and execution_json; the arguments may be Absent.
WrittenEntry(mode, affinity, workers, in_flight) ==
    LET preset == Preset(mode)
        w == IF mode = "disabled" THEN 0 ELSE OrElse(workers, preset.workers)
        i == IF mode = "disabled" THEN 0 ELSE OrElse(in_flight, 1)
    IN  [policy    |-> [scope |-> preset.scope, concurrency |-> preset.concurrency,
                        binding |-> preset.binding, class |-> Absent, off |-> mode = "disabled",
                        max_workers |-> w,
                        max_in_flight |-> IF mode = "disabled" THEN 0 ELSE Greatest(i, 1)],
         execution |-> [mode |-> mode, affinity |-> OrElse(affinity, preset.affinity),
                        min_workers |-> Absent, max_workers |-> w, max_in_flight |-> i]]

\* Absent stands for a missing JSON value, which no entry, block or limit is.
ASSUME AbsentAssumption ==
    /\ Absent \notin ExecutionMode
    /\ \A mode \in ExecutionMode, affinity \in (SUBSET Affinity) \cup {Absent},
          workers \in WorkerArgs \cup {Absent}, in_flight \in WorkerArgs \cup {Absent} :
          LET entry == WrittenEntry(mode, affinity, workers, in_flight)
          IN  /\ Absent \notin {entry, entry.policy, entry.execution}
              /\ Absent \notin {entry.execution.max_workers, entry.execution.max_in_flight}

SetPolicy(mode, affinity, workers, in_flight) ==
    /\ declared' = WrittenEntry(mode, affinity, workers, in_flight)
    /\ chosen' = mode
    /\ UNCHANGED <<executionDefaults, source>>

-----------------------------------------------------------------------------
(* Edits by hand and by the tools that own the settings files.              *)

EditDefaults == /\ executionDefaults' \in DefaultsBlocks \cup {Absent}
                /\ UNCHANGED <<declared, source, chosen>>

EditSource == /\ source' \in [policy : CanonicalBlocks \cup {Absent},
                              execution : ExecutionBlocks \cup {Absent}, inferred : InferredTokens]
              /\ UNCHANGED <<executionDefaults, declared, chosen>>

EditServer == /\ declared' \in {Absent} \cup [policy : CanonicalBlocks \cup {Absent},
                                              execution : ExecutionBlocks \cup {Absent}]
              /\ chosen' = Absent
              /\ UNCHANGED <<executionDefaults, source>>

Next == \/ \E mode \in ExecutionMode, affinity \in AffinityArgs \cup {Absent},
              workers \in WorkerArgs \cup {Absent}, in_flight \in WorkerArgs \cup {Absent} :
              SetPolicy(mode, affinity, workers, in_flight)
        \/ EditDefaults \/ EditSource \/ EditServer

Spec == Init /\ [][Next]_vars

-----------------------------------------------------------------------------
(* Properties.                                                              *)

Policies == {PlannerPolicy, RuntimePolicy}

\* Whatever the settings say, a policy in use is one that normalizing leaves alone:
\* within the limits, with one worker unless it is a pool, no more workers kept warm
\* than exist, and no capacity exactly when it is disabled.
PoliciesNormal ==
    \A p \in Policies :
       /\ p \in Policy
       /\ Normalize(p) = p
       /\ p.min_workers <= p.max_workers
       /\ p.max_workers <= MAX_WORKERS /\ p.max_in_flight <= MAX_IN_FLIGHT_PER_WORKER
       /\ p.max_workers = WorkerLimit(p)
       /\ \A t \in Transports : EffectiveCapacity(p, t) = 0 <=> p.mode = "disabled"

\* Whatever affinity the settings give an isolated mode, requests of two projects
\* never share a worker under project-isolated, nor requests of two sessions under
\* session-isolated.
IsolationSeparates ==
    \A p \in Policies : \A a, b \in Identities :
       /\ \/ p.mode = "project-isolated" /\ a.project # b.project
          \/ p.mode = "session-isolated" /\ a.session # b.session
       /\ AffinityResolved(p, a) /\ AffinityResolved(p, b)
       => WorkerPoolKey(Server, p, a) # WorkerPoolKey(Server, p, b)

\* After set-policy both readers follow it, and agree on everything, whatever else
\* the settings say about the server.
SetPolicyTakesEffect ==
    chosen # Absent => /\ PlannerPolicy = RuntimePolicy
                       /\ PlannerPolicy.mode = chosen
=============================================================================
