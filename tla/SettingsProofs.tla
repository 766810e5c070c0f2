--------------------------- MODULE SettingsProofs ---------------------------
(***************************************************************************)
(* Proofs about the settings: about the resolution of policies, for every  *)
(* set of settings blocks, every limit and every identity; about the       *)
(* commands that rewrite the settings files, for every set of processes,   *)
(* files and commands; and about the configurations of clients, for every  *)
(* set of processes, endpoints and contents.                               *)
(***************************************************************************)
EXTENDS PolicyResolution, SettingsFiles, ClientConfig, FiniteSetTheorems, WellFoundedInduction,
        TLAPS

\* The backend of every step that names no other.
USE ZenonT(30)

-----------------------------------------------------------------------------
(* Policies.                                                                *)

\* A block of settings whose fields are absent or of the right type.
ExecutionBlock(b) ==
    b = Absent \/ /\ b.mode \in ExecutionMode \cup {Absent}
                  /\ b.affinity \in (SUBSET Affinity) \cup {Absent}
                  /\ b.min_workers \in Nat \cup {Absent}
                  /\ b.max_workers \in Nat \cup {Absent}
                  /\ b.max_in_flight \in Nat \cup {Absent}

CanonicalBlock(b) ==
    b = Absent \/ /\ b.max_workers \in Nat \cup {Absent}
                  /\ b.max_in_flight \in Nat \cup {Absent}

SettingsOK ==
    /\ ExecutionBlock(executionDefaults)
    /\ declared = Absent \/ (CanonicalBlock(declared.policy) /\ ExecutionBlock(declared.execution))
    /\ CanonicalBlock(source.policy) /\ ExecutionBlock(source.execution)

\* A policy in normal form.
Normal(p) ==
    /\ p \in Policy /\ Normalize(p) = p
    /\ p.min_workers <= p.max_workers
    /\ p.max_workers <= MAX_WORKERS /\ p.max_in_flight <= MAX_IN_FLIGHT_PER_WORKER
    /\ p.max_workers = WorkerLimit(p)
    /\ \A t \in Transports : EffectiveCapacity(p, t) = 0 <=> p.mode = "disabled"

-----------------------------------------------------------------------------
(* The operators of the resolver.                                           *)

\* for_mode gives a policy for every mode.
LEMMA ForModeTypes ==
    ASSUME NEW mode \in ExecutionMode
    PROVE  ForMode(mode) \in Policy /\ ForMode(mode).mode = mode
BY DEF ForMode, ExecutionMode, Policy, Affinity, SessionLike

\* normalize keeps the types and adds only dimensions that exist.
LEMMA NormalizeTypes ==
    ASSUME NEW p \in Policy
    PROVE  Normalize(p) \in Policy
<1>1. ForMode("disabled") \in Policy
  BY ForModeTypes DEF ExecutionMode
<1>2. RequiredAffinity(p) \subseteq Affinity
  BY DEF RequiredAffinity, Affinity, SessionLike
<1>3. p.affinity \cup RequiredAffinity(p) \in SUBSET Affinity
  BY <1>2 DEF Policy
<1>4. QED
  BY <1>1, <1>3, PolicyAssumption DEF Normalize, Policy, Least

\* The policy of a server that is off is already normal.
LEMMA DisabledNormal ==
    Normal(ForMode("disabled"))
<1> DEFINE p == ForMode("disabled")
<1>1. p \in Policy /\ p.mode = "disabled"
  BY ForModeTypes DEF ExecutionMode
<1>2. p.min_workers = 0 /\ p.max_workers = 0 /\ p.max_in_flight = 0
  BY DEF ForMode
<1>3. Normalize(p) = p /\ WorkerLimit(p) = 0
  BY <1>1 DEF Normalize, WorkerLimit
<1>4. \A t : EffectiveCapacity(p, t) = 0
  BY SMTT(30), <1>1, <1>3 DEF EffectiveCapacity, EffectiveMaxInFlight, IsDisabled
<1> HIDE DEF p
<1>5. Normal(p)
  BY SMTT(30), <1>1, <1>2, <1>3, <1>4, PolicyAssumption DEF Normal
<1>6. QED
  BY <1>5 DEF p

\* normalize yields a normal policy; in particular, doing it twice changes nothing.
LEMMA NormalizeNormal ==
    ASSUME NEW p \in Policy
    PROVE  Normal(Normalize(p))
<1> DEFINE off == p.mode = "disabled" \/ p.max_workers = 0 \/ p.max_in_flight = 0
           q == Normalize(p)
           workers == IF p.mode = "pool" THEN Least(p.max_workers, MAX_WORKERS) ELSE 1
<1>1. CASE off
  BY <1>1, DisabledNormal DEF Normalize
<1>2. CASE ~off
  <2>1. q = [mode          |-> p.mode,
             affinity      |-> p.affinity \cup RequiredAffinity(p),
             min_workers   |-> Least(p.min_workers, workers),
             max_workers   |-> workers,
             max_in_flight |-> Least(p.max_in_flight, MAX_IN_FLIGHT_PER_WORKER)]
    BY <1>2 DEF Normalize
  <2>2. q \in Policy
    BY NormalizeTypes
  <2>3. /\ p.min_workers \in Nat /\ p.max_workers \in Nat \ {0}
        /\ p.max_in_flight \in Nat \ {0} /\ p.mode # "disabled"
    BY <1>2 DEF Policy
  <2>4. workers \in 1..MAX_WORKERS
    BY SMTT(30), <2>3, PolicyAssumption DEF Least
  <2>5. /\ q.mode = p.mode /\ q.affinity = p.affinity \cup RequiredAffinity(p)
        /\ q.max_workers = workers /\ q.min_workers = Least(p.min_workers, workers)
        /\ q.max_in_flight = Least(p.max_in_flight, MAX_IN_FLIGHT_PER_WORKER)
    BY SMTT(30), <2>1
  <2>6. RequiredAffinity(q) \subseteq q.affinity
    BY <2>5 DEF RequiredAffinity, SessionLike
  <2>7. q.mode = "pool" => workers = Least(workers, MAX_WORKERS)
    BY SMTT(30), <2>4, PolicyAssumption DEF Least
  <2>8. q.mode # "pool" => workers = 1
    BY <2>5
  <2> HIDE DEF q, workers
  <2>9. q.min_workers <= q.max_workers /\ q.max_workers <= MAX_WORKERS
    BY SMTT(30), <2>3, <2>4, <2>5, PolicyAssumption DEF Least
  <2>10. q.max_in_flight \in 1..MAX_IN_FLIGHT_PER_WORKER
    BY SMTT(30), <2>3, <2>5, PolicyAssumption DEF Least
  <2>11. q.max_workers = WorkerLimit(q)
    BY SMTT(30), <2>3, <2>4, <2>5, <2>8, PolicyAssumption DEF WorkerLimit, Greatest
  <2>12. \A t : EffectiveCapacity(q, t) # 0
    <3> TAKE t
    <3>1. EffectiveMaxInFlight(q, t) \in Nat \ {0}
      BY SMTT(30), <2>3, <2>4, <2>5, <2>10, PolicyAssumption
      DEF EffectiveMaxInFlight, IsDisabled, Greatest
    <3>2. WorkerLimit(q) \in Nat \ {0}
      BY SMTT(30), <2>4, <2>5, <2>11, PolicyAssumption
    <3>3. \A a, b \in Nat \ {0} : a * b # 0
      BY SMTT(30)
    <3>4. QED
      BY <3>1, <3>2, <3>3 DEF EffectiveCapacity
  <2>13. Normalize(q) = q
    <3> DEFINE w == IF q.mode = "pool" THEN Least(q.max_workers, MAX_WORKERS) ELSE 1
    <3>1. w = q.max_workers
      BY <2>5, <2>7, <2>8
    <3>2. Least(q.min_workers, w) = q.min_workers
      BY <3>1, <2>9 DEF Least
    <3>3. Least(q.max_in_flight, MAX_IN_FLIGHT_PER_WORKER) = q.max_in_flight
      BY SMTT(30), <2>10 DEF Least
    <3>4. q.affinity \cup RequiredAffinity(q) = q.affinity
      BY <2>6
    <3>5. q.mode # "disabled" /\ q.max_workers # 0 /\ q.max_in_flight # 0
      BY SMTT(30), <2>3, <2>4, <2>5, <2>10, PolicyAssumption
    <3>6. Normalize(q) = [mode |-> q.mode, affinity |-> q.affinity \cup RequiredAffinity(q),
                          min_workers |-> Least(q.min_workers, w), max_workers |-> w,
                          max_in_flight |-> Least(q.max_in_flight, MAX_IN_FLIGHT_PER_WORKER)]
      BY <3>5 DEF Normalize
    <3> HIDE DEF w
    <3>7. QED
      BY <3>1, <3>2, <3>3, <3>4, <3>6, <2>2 DEF Policy
  <2>14. Normal(q)
    BY SMTT(30), <2>2, <2>3, <2>5, <2>9, <2>10, <2>11, <2>12, <2>13 DEF Normal
  <2>15. QED
    BY <2>14 DEF q
<1>3. QED
  BY <1>1, <1>2

\* apply_json keeps a policy a policy.
LEMMA ApplyJsonTypes ==
    ASSUME NEW p \in Policy, NEW b, ExecutionBlock(b)
    PROVE  ApplyJson(p, b) \in Policy
<1>1. CASE b = Absent
  BY <1>1 DEF ApplyJson
<1>2. CASE b # Absent
  <2>1. /\ OrElse(b.affinity, p.affinity) \in SUBSET Affinity
        /\ OrElse(b.min_workers, p.min_workers) \in Nat
        /\ OrElse(b.max_workers, p.max_workers) \in Nat
        /\ OrElse(b.max_in_flight, p.max_in_flight) \in Nat
    BY <1>2 DEF ExecutionBlock, OrElse, Policy
  <2>2. QED
    BY <1>2, <2>1 DEF ApplyJson, Policy
<1>3. QED
  BY <1>1, <1>2

\* apply_canonical_json keeps a policy a policy.
LEMMA ApplyCanonicalTypes ==
    ASSUME NEW p \in Policy, NEW b, CanonicalBlock(b)
    PROVE  ApplyCanonical(p, b) \in Policy
BY DEF ApplyCanonical, CanonicalBlock, OrElse, Policy

\* A policy written back as JSON is a block.
LEMMA PolicyIsBlock ==
    ASSUME NEW p \in Policy
    PROVE  ExecutionBlock(p)
BY DEF Policy, ExecutionBlock

\* The steps of a resolver run keep the type, with or without explicit mode.
LEMMA ResolveNormal ==
    ASSUME NEW defaults \in Policy, NEW canonical, CanonicalBlock(canonical),
           NEW execution, ExecutionBlock(execution), NEW mode \in ExecutionMode
    PROVE  Normal(ResolveWithCanonical(defaults, canonical, execution, mode))
<1> DEFINE explicit == IF execution = Absent THEN Absent ELSE execution.mode
           off == canonical # Absent /\ CanonicalDisabled(canonical)
           m == IF off THEN "disabled" ELSE OrElse(explicit, mode)
           base == IF explicit = Absent /\ defaults.mode = m
                   THEN ApplyJson(ForMode(m), defaults) ELSE ForMode(m)
           full == ApplyJson(ApplyCanonical(base, canonical), execution)
<1>1. ResolveWithCanonical(defaults, canonical, execution, mode)
        = IF off THEN Normalize(ForMode("disabled")) ELSE Normalize(full)
  BY DEF ResolveWithCanonical
<1>2. m \in ExecutionMode
  BY DEF ExecutionBlock, OrElse, ExecutionMode
<1> HIDE DEF m, off, explicit
<1>3. ForMode(m) \in Policy /\ ForMode("disabled") \in Policy
  BY <1>2, ForModeTypes DEF ExecutionMode
<1>4. ApplyJson(ForMode(m), defaults) \in Policy
  BY <1>3, PolicyIsBlock, ApplyJsonTypes
<1>5. base \in Policy
  BY <1>3, <1>4
<1> HIDE DEF base
<1>6. ApplyCanonical(base, canonical) \in Policy
  BY <1>5, ApplyCanonicalTypes
<1>7. full \in Policy
  BY <1>6, ApplyJsonTypes
<1> HIDE DEF full
<1>8. QED
  BY <1>1, <1>3, <1>7, NormalizeNormal

\* The execution defaults of a configuration are normal.
LEMMA DefaultsNormal ==
    ASSUME ExecutionBlock(executionDefaults)
    PROVE  Normal(Defaults)
<1> DEFINE mode == IF executionDefaults = Absent THEN "serialized"
                   ELSE OrElse(executionDefaults.mode, "serialized")
<1>1. mode \in ExecutionMode
  BY DEF ExecutionBlock, OrElse, ExecutionMode
<1>2. Defaults = IF executionDefaults # Absent /\ executionDefaults.mode = mode
                 THEN Normalize(ApplyJson(ForMode(mode), executionDefaults))
                 ELSE Normalize(ForMode(mode))
  BY DEF Defaults, FromConfigRoot
<1> HIDE DEF mode
<1>3. ForMode(mode) \in Policy
  BY <1>1, ForModeTypes
<1>4. ApplyJson(ForMode(mode), executionDefaults) \in Policy
  BY <1>3, ApplyJsonTypes
<1>5. QED
  BY <1>2, <1>3, <1>4, NormalizeNormal

-----------------------------------------------------------------------------
(* The two readers.                                                         *)

\* Every mode that tokens ask for exists.
LEMMA InferredModeTypes ==
    ASSUME NEW t
    PROVE  InferredMode(t) \in ExecutionMode
BY DEF InferredMode, ExecutionMode

\* Under well-formed settings both readers give normal policies.
LEMMA ReadersNormal ==
    ASSUME SettingsOK
    PROVE  Normal(PlannerPolicy) /\ Normal(RuntimePolicy)
<1>1. Defaults \in Policy
  BY DefaultsNormal DEF SettingsOK, Normal
<1>2. Normal(PlannerPolicy)
  <2>1. CASE declared = Absent
    BY <2>1, <1>1, ResolveNormal, InferredModeTypes DEF SettingsOK, PlannerPolicy
  <2>2. CASE declared # Absent
    <3>1. CanonicalBlock(OrElse(declared.policy, source.policy))
      BY <2>2 DEF SettingsOK, OrElse
    <3>2. ExecutionBlock(OrElse(declared.execution, source.execution))
      BY <2>2 DEF SettingsOK, OrElse
    <3>3. QED
      BY <2>2, <3>1, <3>2, <1>1, ResolveNormal, InferredModeTypes DEF PlannerPolicy
  <2>3. QED
    BY <2>1, <2>2
<1>3. Normal(RuntimePolicy)
  <2>1. CASE declared = Absent
    BY <2>1, DefaultsNormal DEF RuntimePolicy, SettingsOK
  <2>2. CASE declared # Absent
    <3>1. RuntimeFallback(declared.policy) \in ExecutionMode
      BY <1>1, InferredModeTypes DEF RuntimeFallback, Policy
    <3>2. QED
      BY <2>2, <3>1, <1>1, ResolveNormal DEF RuntimePolicy, SettingsOK
  <2>3. QED
    BY SMTT(30), <2>1, <2>2
<1>4. QED
  BY <1>2, <1>3

\* A worker key determines the value of every dimension of the policy.
LEMMA KeySeparates ==
    ASSUME NEW p, NEW a, NEW b, NEW d \in p.affinity,
           DimensionValue(a, d) # DimensionValue(b, d)
    PROVE  WorkerPoolKey(Server, p, a) # WorkerPoolKey(Server, p, b)
<1> DEFINE pairs(i) == {<<e, DimensionValue(i, e)>> : e \in p.affinity}
<1>1. <<d, DimensionValue(a, d)>> \in pairs(a)
  OBVIOUS
<1>2. <<d, DimensionValue(a, d)>> \notin pairs(b)
  OBVIOUS
<1>3. pairs(a) # pairs(b)
  BY <1>1, <1>2
<1> HIDE DEF pairs
<1>4. WorkerPoolKey(Server, p, a) = <<"worker-group", Server, <<p.mode, pairs(a)>>>>
  BY DEF WorkerPoolKey, AffinityKey, pairs
<1>5. WorkerPoolKey(Server, p, b) = <<"worker-group", Server, <<p.mode, pairs(b)>>>>
  BY DEF WorkerPoolKey, AffinityKey, pairs
<1>6. QED
  BY SMTT(30), <1>3, <1>4, <1>5

\* A normal policy of an isolated mode has the dimension it isolates by.
LEMMA NormalHasDimension ==
    ASSUME NEW p, Normal(p)
    PROVE  /\ p.mode = "project-isolated" => "project" \in p.affinity
           /\ p.mode = "session-isolated" => p.affinity \cap SessionLike # {}
<1>1. p \in Policy /\ p.affinity = Normalize(p).affinity /\ p.max_workers = WorkerLimit(p)
  BY DEF Normal
<1>2. ASSUME p.mode \in {"project-isolated", "session-isolated"}
      PROVE  p.affinity = p.affinity \cup RequiredAffinity(p)
  <2>1. p.max_workers # 0
    BY SMTT(30), <1>1, <1>2 DEF WorkerLimit
  <2>2. p.mode = Normalize(p).mode /\ p.mode # "disabled"
    BY <1>2 DEF Normal
  <2>3. p.max_in_flight # 0
    <3>1. ASSUME p.max_in_flight = 0 PROVE FALSE
      BY <3>1, <2>2 DEF Normalize, ForMode
    <3>2. QED
      BY <3>1
  <2>4. QED
    BY <1>1, <2>1, <2>2, <2>3 DEF Normalize
<1>3. QED
  BY <1>2 DEF RequiredAffinity, SessionLike

\* Isolation holds for any normal policy.
LEMMA IsolationOfNormal ==
    ASSUME NEW p, Normal(p), NEW a, NEW b,
           \/ p.mode = "project-isolated" /\ a.project # b.project
           \/ p.mode = "session-isolated" /\ a.session # b.session
    PROVE  WorkerPoolKey(Server, p, a) # WorkerPoolKey(Server, p, b)
<1>1. CASE p.mode = "project-isolated" /\ a.project # b.project
  <2>1. "project" \in p.affinity
    BY <1>1, NormalHasDimension
  <2>2. DimensionValue(a, "project") # DimensionValue(b, "project")
    BY <1>1 DEF DimensionValue, SessionLike
  <2>3. QED
    BY <2>1, <2>2, KeySeparates
<1>2. CASE p.mode = "session-isolated" /\ a.session # b.session
  <2>1. PICK d \in p.affinity : d \in SessionLike
    BY <1>2, NormalHasDimension
  <2>2. DimensionValue(a, d) # DimensionValue(b, d)
    BY <1>2, <2>1 DEF DimensionValue, SessionLike
  <2>3. QED
    BY <2>1, <2>2, KeySeparates
<1>3. QED
  BY <1>1, <1>2

-----------------------------------------------------------------------------
(* set-policy.                                                              *)

\* What set-policy wrote is still there: its mode, limits above zero, and the policy
\* block that turns the server off exactly for the mode disabled.
ChosenOK ==
    chosen # Absent =>
       /\ chosen \in ExecutionMode
       /\ Absent \notin {declared, declared.policy, declared.execution}
       /\ declared.execution.mode = chosen
       /\ chosen # "disabled" => {declared.execution.max_workers, declared.execution.max_in_flight}
                                   \cap {0, Absent} = {}
       /\ CanonicalDisabled(declared.policy) <=> chosen = "disabled"

SettingsInv == SettingsOK /\ ChosenOK

\* set-policy writes well-formed blocks of the mode it is given.
LEMMA WrittenOK ==
    ASSUME NEW mode \in ExecutionMode, NEW affinity \in (SUBSET Affinity) \cup {Absent},
           NEW workers \in WorkerArgs \cup {Absent}, NEW in_flight \in WorkerArgs \cup {Absent}
    PROVE  LET e == WrittenEntry(mode, affinity, workers, in_flight)
           IN  /\ CanonicalBlock(e.policy) /\ ExecutionBlock(e.execution)
               /\ e.execution.mode = mode
               /\ mode # "disabled" => 0 \notin {e.execution.max_workers, e.execution.max_in_flight}
               /\ CanonicalDisabled(e.policy) <=> mode = "disabled"
<1> DEFINE preset == Preset(mode)
           w == IF mode = "disabled" THEN 0 ELSE OrElse(workers, preset.workers)
           i == IF mode = "disabled" THEN 0 ELSE OrElse(in_flight, 1)
           f == IF mode = "disabled" THEN 0 ELSE Greatest(i, 1)
           policy == [scope |-> preset.scope, concurrency |-> preset.concurrency,
                      binding |-> preset.binding, class |-> Absent, off |-> mode = "disabled",
                      max_workers |-> w, max_in_flight |-> f]
           execution == [mode |-> mode, affinity |-> OrElse(affinity, preset.affinity),
                         min_workers |-> Absent, max_workers |-> w, max_in_flight |-> i]
<1>1. WrittenEntry(mode, affinity, workers, in_flight) = [policy |-> policy, execution |-> execution]
  BY DEF WrittenEntry
<1>2. /\ preset.workers \in Nat /\ (mode # "disabled" => preset.workers # 0)
      /\ preset.affinity \in SUBSET Affinity
      /\ mode # "disabled" => preset.concurrency # "plan-only" /\ preset.scope # "not-runnable"
  BY SMTT(30) DEF Preset, ExecutionMode, Affinity, SessionLike
<1> HIDE DEF preset
<1>3. w \in Nat /\ i \in Nat /\ (mode # "disabled" => w # 0 /\ i # 0)
  <2>1. \A n \in WorkerArgs : n \in Nat /\ n # 0
    BY ResolutionAssumption
  <2>2. w \in Nat /\ (mode # "disabled" => w # 0)
    BY <1>2, <2>1 DEF OrElse
  <2>3. i \in Nat /\ (mode # "disabled" => i # 0)
    BY SMTT(30), <2>1 DEF OrElse
  <2> QED
    BY <2>2, <2>3
<1> HIDE DEF w, i
<1>4. f \in Nat
  BY <1>3 DEF Greatest
<1> HIDE DEF f
<1>5. CanonicalBlock(policy) /\ (CanonicalDisabled(policy) <=> mode = "disabled")
  BY <1>2, <1>3, <1>4 DEF CanonicalBlock, CanonicalDisabled
<1>6. ExecutionBlock(execution) /\ execution.mode = mode
  BY <1>2, <1>3 DEF ExecutionBlock, OrElse
<1>7. execution.max_workers = w /\ execution.max_in_flight = i
  OBVIOUS
<1> HIDE DEF policy, execution
<1>8. QED
  BY SMTT(30), <1>1, <1>3, <1>5, <1>6, <1>7

\* The mode of a resolution is the explicit one, unless the policy block or a zero
\* limit turns the server off; the fallback does not matter.
LEMMA ExplicitMode ==
    ASSUME NEW defaults, NEW canonical, NEW execution, NEW f, NEW g,
           execution # Absent, execution.mode # Absent
    PROVE  ResolveWithCanonical(defaults, canonical, execution, f)
             = ResolveWithCanonical(defaults, canonical, execution, g)
BY DEF ResolveWithCanonical, OrElse

\* After set-policy the planner and the runtime resolve the same policy.
LEMMA ReadersAgree ==
    ASSUME ChosenOK, chosen # Absent
    PROVE  PlannerPolicy = RuntimePolicy
<1>1. /\ declared # Absent /\ declared.policy # Absent /\ declared.execution # Absent
      /\ declared.execution.mode # Absent
  BY AbsentAssumption DEF ChosenOK
<1>2. /\ OrElse(declared.policy, source.policy) = declared.policy
      /\ OrElse(declared.execution, source.execution) = declared.execution
  BY <1>1 DEF OrElse
<1>3. PlannerPolicy = ResolveWithCanonical(Defaults, declared.policy, declared.execution,
                                           InferredMode(PlannerTokens(declared.policy)))
  BY <1>1, <1>2 DEF PlannerPolicy
<1>4. RuntimePolicy = ResolveWithCanonical(Defaults, declared.policy, declared.execution,
                                           RuntimeFallback(declared.policy))
  BY <1>1 DEF RuntimePolicy
<1>5. QED
  BY <1>1, <1>3, <1>4, ExplicitMode

\* After set-policy the policy has the mode that was chosen.
LEMMA ChosenMode ==
    ASSUME SettingsOK, ChosenOK, chosen # Absent
    PROVE  RuntimePolicy.mode = chosen
<1> DEFINE x == declared.execution
           c == declared.policy
           base == ApplyCanonical(ForMode(chosen), c)
           full == ApplyJson(base, x)
<1>1. /\ chosen \in ExecutionMode /\ declared # Absent /\ c # Absent /\ x # Absent
      /\ x.mode = chosen /\ (CanonicalDisabled(c) <=> chosen = "disabled")
      /\ CanonicalBlock(c) /\ ExecutionBlock(x)
  BY DEF ChosenOK, SettingsOK
<1>2. ForMode("disabled").mode = "disabled" /\ ForMode("disabled") \in Policy
  BY ForModeTypes DEF ExecutionMode
<1>3. RuntimePolicy = IF CanonicalDisabled(c) THEN Normalize(ForMode("disabled")) ELSE Normalize(full)
  BY <1>1 DEF RuntimePolicy, ResolveWithCanonical, OrElse
<1>4. CASE chosen = "disabled"
  BY <1>1, <1>2, <1>3, <1>4 DEF Normalize
<1>5. CASE chosen # "disabled"
  <2>1. base \in Policy /\ base.mode = chosen
    <3>1. ForMode(chosen) \in Policy /\ ForMode(chosen).mode = chosen
      BY <1>1, ForModeTypes
    <3>2. QED
      BY <1>1, <3>1, ApplyCanonicalTypes DEF ApplyCanonical, Policy
  <2> HIDE DEF base
  <2>2. full \in Policy
    BY <1>1, <2>1, ApplyJsonTypes
  <2>3. full.mode = chosen
    BY <1>1, <2>1 DEF ApplyJson, Policy
  <2>4. x.max_workers \notin {0, Absent} /\ x.max_in_flight \notin {0, Absent}
    BY <1>5 DEF ChosenOK
  <2>5. full.max_workers = x.max_workers /\ full.max_in_flight = x.max_in_flight
    BY <1>1, <2>1, <2>4 DEF ApplyJson, OrElse, Policy
  <2> HIDE DEF full
  <2>6. QED
    BY <1>1, <1>3, <1>5, <2>3, <2>4, <2>5 DEF Normalize
<1>6. QED
  BY <1>4, <1>5

\* The settings stay well formed, and what set-policy wrote stays until the next edit.
LEMMA SettingsInvariant == Spec => []SettingsInv
<1>1. Init => SettingsInv
  BY DEF Init, SettingsInv, SettingsOK, ChosenOK, ExecutionBlock, CanonicalBlock
<1>2. SettingsInv /\ [Next]_vars => SettingsInv'
  <2> SUFFICES ASSUME SettingsInv, [Next]_vars PROVE SettingsInv'
    OBVIOUS
  <2> USE DEF SettingsInv
  <2>1. ASSUME NEW mode \in ExecutionMode, NEW affinity \in (SUBSET Affinity) \cup {Absent},
               NEW workers \in WorkerArgs \cup {Absent}, NEW in_flight \in WorkerArgs \cup {Absent},
               SetPolicy(mode, affinity, workers, in_flight)
        PROVE  SettingsInv'
    <3> DEFINE e == WrittenEntry(mode, affinity, workers, in_flight)
    <3>1. /\ CanonicalBlock(e.policy) /\ ExecutionBlock(e.execution)
          /\ e.execution.mode = mode
          /\ mode # "disabled" => 0 \notin {e.execution.max_workers, e.execution.max_in_flight}
          /\ CanonicalDisabled(e.policy) <=> mode = "disabled"
      BY WrittenOK
    <3>2. /\ Absent \notin {e, e.policy, e.execution}
          /\ Absent \notin {e.execution.max_workers, e.execution.max_in_flight}
      BY AbsentAssumption
    <3>3. declared' = e /\ chosen' = mode /\ UNCHANGED <<executionDefaults, source>>
      BY <2>1 DEF SetPolicy
    <3> HIDE DEF e
    <3>4. SettingsOK'
      BY <3>1, <3>3 DEF SettingsOK
    <3>5. ChosenOK'
      BY <3>1, <3>2, <3>3 DEF ChosenOK
    <3>6. QED
      BY <3>4, <3>5
  <2>2. \A b \in DefaultsBlocks \cup ExecutionBlocks \cup {Absent} : ExecutionBlock(b)
    BY ResolutionAssumption DEF ExecutionBlock
  <2>3. \A b \in CanonicalBlocks \cup {Absent} : CanonicalBlock(b)
    BY ResolutionAssumption DEF CanonicalBlock
  <2>4. CASE EditDefaults
    BY <2>4, <2>2 DEF EditDefaults, SettingsOK, ChosenOK
  <2>5. CASE EditSource
    <3>1. CanonicalBlock(source'.policy) /\ ExecutionBlock(source'.execution)
      BY <2>5, <2>2, <2>3 DEF EditSource
    <3>2. QED
      BY <2>5, <3>1 DEF EditSource, SettingsOK, ChosenOK
  <2>6. CASE EditServer
    <3>1. declared' = Absent \/ (CanonicalBlock(declared'.policy) /\ ExecutionBlock(declared'.execution))
      BY <2>6, <2>2, <2>3 DEF EditServer
    <3>2. QED
      BY <2>6, <3>1 DEF EditServer, SettingsOK, ChosenOK
  <2>7. CASE UNCHANGED vars
    BY <2>7 DEF vars, SettingsOK, ChosenOK
  <2>8. AffinityArgs \cup {Absent} \subseteq (SUBSET Affinity) \cup {Absent}
    BY ResolutionAssumption
  <2>9. QED
    BY <2>1, <2>4, <2>5, <2>6, <2>7, <2>8 DEF Next
<1>3. QED
  BY <1>1, <1>2, PTL DEF Spec

\* Whatever the settings files hold, both readers give policies in normal form: the
\* limits of execution.rs hold, one worker unless it is a pool, no capacity exactly
\* when disabled.
THEOREM AlwaysNormal == Spec => []PoliciesNormal
<1>1. SettingsInv => PoliciesNormal
  BY ReadersNormal DEF SettingsInv, PoliciesNormal, Policies, Normal
<1>2. QED
  BY <1>1, SettingsInvariant, PTL

\* Whatever affinity is configured, requests of two projects never share a worker
\* under project-isolated, nor requests of two sessions under session-isolated.
THEOREM AlwaysIsolated == Spec => []IsolationSeparates
<1>1. SettingsInv => IsolationSeparates
  BY ReadersNormal, IsolationOfNormal DEF SettingsInv, IsolationSeparates, Policies
<1>2. QED
  BY <1>1, SettingsInvariant, PTL

\* After `server set-policy`, and until another edit of the server's entry, planner
\* and runtime resolve the same policy, of the chosen mode, whatever the defaults and
\* the MCP settings say.
THEOREM SetPolicyWins == Spec => []SetPolicyTakesEffect
<1>1. SettingsInv => SetPolicyTakesEffect
  BY ReadersAgree, ChosenMode DEF SettingsInv, SetPolicyTakesEffect
<1>2. QED
  BY <1>1, SettingsInvariant, PTL

-----------------------------------------------------------------------------
(* The settings files: no update is lost.  The inductive invariant says what *)
(* the lock files achieve: no two processes hold the same lock, a process    *)
(* that writes holds the locks of the files it has still to write, and its   *)
(* copies of them are what is on disk, unless a seed replaced the file.      *)

Domains == /\ DOMAIN disk = Files
           /\ DOMAIN held = Processes /\ DOMAIN pc = Processes /\ DOMAIN cmd = Processes
           /\ DOMAIN plan = Processes /\ DOMAIN todo = Processes /\ DOMAIN copy = Processes

Exclusive == /\ \A p \in Processes : held[p] \subseteq locks
             /\ \A p, q \in Processes : p # q => held[p] \cap held[q] = {}

\* What a process is entitled to at each point of its command.
Entitled(p) ==
    /\ pc[p] \in {"idle", "counted"} => held[p] = {} /\ DOMAIN plan[p] = {}
    /\ pc[p] = "lock" => Range(plan[p]) \ todo[p] \subseteq held[p]
    /\ pc[p] = "read" => Range(plan[p]) \subseteq held[p]
    /\ pc[p] = "write" => /\ todo[p] \subseteq held[p]
                          /\ todo[p] \subseteq Range(plan[p])
                          /\ \A f \in todo[p] \cap Files :
                                copy[p][f] = disk[f] \/ (p \in late /\ f \in made)
    /\ cmd[p].kind = "home" => \A n \in DOMAIN plan[p] : plan[p][n] = HomeFile[cmd[p].root]

LocksInv == Domains /\ Exclusive /\ \A p \in Processes : Entitled(p)

-----------------------------------------------------------------------------

\* The state of a process is disturbed neither by a change of the locks of others nor by
\* a write to a file it has not locked.
LEMMA OthersKeep ==
    ASSUME NEW q \in Processes, Entitled(q),
           held'[q] = held[q], pc'[q] = pc[q], cmd'[q] = cmd[q], plan'[q] = plan[q],
           todo'[q] = todo[q], copy'[q] = copy[q], q \in late => q \in late', made \subseteq made',
           \A f \in held[q] \cap Files : disk'[f] = disk[f]
    PROVE  Entitled(q)'
BY DEF Entitled

\* A lock made with create_new is held by its maker alone.
LEMMA AcquireExclusive ==
    ASSUME LocksInv, NEW p \in Processes, NEW l, Acquire(p, l)
    PROVE  /\ Exclusive' /\ DOMAIN held' = Processes
           /\ held'[p] = held[p] \cup {l}
           /\ \A q \in Processes \ {p} : held'[q] = held[q]
<1>1. /\ l \notin locks /\ locks' = locks \cup {l}
      /\ held' = [held EXCEPT ![p] = held[p] \cup {l}] /\ DOMAIN held = Processes
  BY DEF Acquire, LocksInv, Domains
<1>2. /\ held'[p] = held[p] \cup {l} /\ DOMAIN held' = Processes
      /\ \A q \in Processes \ {p} : held'[q] = held[q]
  BY <1>1
<1>3. QED
  BY SMTT(30), <1>1, <1>2 DEF LocksInv, Exclusive

\* Nothing is left of a command once its process forgot it.
LEMMA ForgetLeavesNothing ==
    ASSUME LocksInv, NEW p \in Processes, Forget(p)
    PROVE  /\ pc'[p] = "idle" /\ DOMAIN plan'[p] = {}
           /\ DOMAIN pc' = Processes /\ DOMAIN cmd' = Processes /\ DOMAIN plan' = Processes
           /\ DOMAIN todo' = Processes /\ DOMAIN copy' = Processes
           /\ \A q \in Processes \ {p} :
                 /\ pc'[q] = pc[q] /\ cmd'[q] = cmd[q] /\ plan'[q] = plan[q]
                 /\ todo'[q] = todo[q] /\ copy'[q] = copy[q] /\ (q \in late' <=> q \in late)
BY DEF Forget, LocksInv, Domains, Nothing

\* When a process forgets its command, the others go on with theirs.
LEMMA ForgetKeepsOthers ==
    ASSUME LocksInv, NEW p \in Processes, Forget(p), disk' = disk, made' = made,
           \A q \in Processes \ {p} : held'[q] = held[q]
    PROVE  \A q \in Processes \ {p} : Entitled(q)'
<1> SUFFICES ASSUME NEW q \in Processes \ {p} PROVE Entitled(q)'
  OBVIOUS
<1>1. /\ pc'[q] = pc[q] /\ cmd'[q] = cmd[q] /\ plan'[q] = plan[q]
      /\ todo'[q] = todo[q] /\ copy'[q] = copy[q] /\ (q \in late' <=> q \in late)
  BY ForgetLeavesNothing
<1>2. Entitled(q) /\ held'[q] = held[q]
  BY DEF LocksInv
<1>3. QED
  BY <1>1, <1>2, OthersKeep

\* An early return keeps the locks until they are dropped.
LEMMA FailKeeps ==
    ASSUME LocksInv, NEW p \in Processes, Fail(p), pc[p] \notin {"idle", "counted"}
    PROVE  LocksInv'
<1>1. /\ pc' = [pc EXCEPT ![p] = "failed"] /\ DOMAIN pc' = Processes
      /\ UNCHANGED <<disk, locks, held, cmd, plan, todo, copy, late, made>>
  BY DEF Fail, LocksInv, Domains
<1>2. Domains' /\ Exclusive'
  BY <1>1 DEF LocksInv, Domains, Exclusive
<1>3. \A q \in Processes : Entitled(q)'
  BY SMTT(30), <1>1 DEF LocksInv, Entitled, Domains
<1>4. QED
  BY <1>2, <1>3 DEF LocksInv

-----------------------------------------------------------------------------
(* The steps of a command.                                                  *)

\* The three ways a command starts.
LEMMA StartStep ==
    ASSUME LocksInv, NEW p \in Processes, NEW c \in Commands,
           Start(p, c) \/ StartUpdate(p, c) \/ StartHome(p, c)
    PROVE  LocksInv'
<1>d. Domains /\ pc[p] = "idle" /\ Entitled(p)
  BY DEF LocksInv, Start, StartUpdate, StartHome
<1>1. CASE Start(p, c)
  <2>1. /\ Acquire(p, c.root) /\ pc' = [pc EXCEPT ![p] = "locate"]
        /\ cmd' = [cmd EXCEPT ![p] = c] /\ c.kind # "home" /\ UNCHANGED <<disk, plan, todo, copy, late, made>>
    BY <1>1 DEF Start
  <2>2. Exclusive' /\ DOMAIN held' = Processes /\ \A q \in Processes \ {p} : held'[q] = held[q]
    BY <2>1, AcquireExclusive
  <2>3. Domains'
    BY <2>1, <2>2, <1>d DEF Domains
  <2>4. Entitled(p)'
    BY <2>1, <1>d DEF Entitled, Domains
  <2>5. \A q \in Processes \ {p} : Entitled(q)'
    BY <2>1, <2>2, <1>d, OthersKeep DEF LocksInv, Domains
  <2>6. QED
    BY <2>2, <2>3, <2>4, <2>5 DEF LocksInv
<1>2. CASE StartUpdate(p, c)
  <2>1. /\ Acquire(p, c.path) /\ pc' = [pc EXCEPT ![p] = "read"]
        /\ cmd' = [cmd EXCEPT ![p] = c] /\ c.kind # "home"
        /\ plan' = [plan EXCEPT ![p] = [n \in c.names |-> c.path]]
        /\ UNCHANGED <<disk, todo, copy, late, made>>
    BY <1>2 DEF StartUpdate
  <2>2. /\ Exclusive' /\ DOMAIN held' = Processes /\ \A q \in Processes \ {p} : held'[q] = held[q]
        /\ c.path \in held'[p]
    BY SMTT(30), <2>1, AcquireExclusive
  <2>3. Domains'
    BY <2>1, <2>2, <1>d DEF Domains
  <2>4. Range(plan'[p]) \subseteq held'[p]
    BY <2>1, <2>2, <1>d DEF Range, Domains
  <2>5. Entitled(p)'
    BY <2>1, <2>4, <1>d DEF Entitled, Domains
  <2>6. \A q \in Processes \ {p} : Entitled(q)'
    BY <2>1, <2>2, <1>d, OthersKeep DEF LocksInv, Domains
  <2>7. QED
    BY <2>2, <2>3, <2>5, <2>6 DEF LocksInv
<1>3. CASE StartHome(p, c)
  <2>1. /\ pc' = [pc EXCEPT ![p] = "counted"] /\ cmd' = [cmd EXCEPT ![p] = c]
        /\ UNCHANGED <<disk, locks, held, plan, todo, copy, late, made>>
    BY <1>3 DEF StartHome
  <2>2. Domains' /\ Exclusive'
    BY <2>1, <1>d DEF LocksInv, Domains, Exclusive
  <2>3. Entitled(p)'
    BY <2>1, <1>d DEF Entitled, Domains
  <2>4. \A q \in Processes \ {p} : Entitled(q)'
    BY <2>1, <1>d, OthersKeep DEF LocksInv, Domains
  <2>5. QED
    BY <2>2, <2>3, <2>4 DEF LocksInv
<1>4. QED
  BY <1>1, <1>2, <1>3

\* The home import takes the namespace lock or ends.
LEMMA LockHomeStep ==
    ASSUME LocksInv, NEW p \in Processes, LockHome(p)
    PROVE  LocksInv'
<1>d. Domains /\ pc[p] = "counted" /\ Entitled(p)
  BY DEF LocksInv, LockHome
<1>1. CASE /\ Acquire(p, cmd[p].root) /\ pc' = [pc EXCEPT ![p] = "locate"]
           /\ UNCHANGED <<disk, cmd, plan, todo, copy, late, made>>
  <2>2. Exclusive' /\ DOMAIN held' = Processes /\ \A q \in Processes \ {p} : held'[q] = held[q]
    BY <1>1, AcquireExclusive
  <2>3. Domains'
    BY <1>1, <2>2, <1>d DEF Domains
  <2>4. Entitled(p)'
    BY <1>1, <1>d DEF Entitled, Domains
  <2>5. \A q \in Processes \ {p} : Entitled(q)'
    BY <1>1, <2>2, <1>d, OthersKeep DEF LocksInv, Domains
  <2>6. QED
    BY <2>2, <2>3, <2>4, <2>5 DEF LocksInv
<1>2. CASE Forget(p) /\ UNCHANGED <<disk, locks, held, made>>
  <2>1. Domains' /\ Exclusive'
    BY <1>2, <1>d, ForgetLeavesNothing DEF LocksInv, Domains, Exclusive
  <2>2. Entitled(p)'
    BY <1>2, <1>d, ForgetLeavesNothing DEF Entitled
  <2>3. \A q \in Processes \ {p} : Entitled(q)'
    BY <1>2, ForgetKeepsOthers
  <2>4. QED
    BY <2>1, <2>2, <2>3 DEF LocksInv
<1>3. QED
  BY <1>1, <1>2 DEF LockHome

\* A plan that is new has no lock yet; that of the home import is its own file.
LEMMA LocateStep ==
    ASSUME LocksInv, NEW p \in Processes, LocateAdd(p) \/ LocateExisting(p) \/ LocateImport(p)
    PROVE  LocksInv'
<1>d. Domains /\ pc[p] = "locate" /\ Entitled(p)
  BY DEF LocksInv, LocateAdd, LocateExisting, LocateImport
<1>1. ASSUME NEW files, Go(p, files),
             cmd[p].kind = "home" => \A n \in DOMAIN files : files[n] = HomeFile[cmd[p].root]
      PROVE  LocksInv'
  <2> USE <1>1 DEF Go
  <2>1. Domains' /\ Exclusive'
    BY <1>d DEF LocksInv, Domains, Exclusive
  <2>2. plan'[p] = files /\ todo'[p] = Range(files) /\ pc'[p] = "lock" /\ cmd'[p] = cmd[p]
    BY <1>d DEF Domains
  <2>3. Entitled(p)'
    BY <2>2 DEF Entitled
  <2>4. \A q \in Processes \ {p} : Entitled(q)'
    BY <1>d, OthersKeep DEF LocksInv, Domains
  <2>5. QED
    BY <2>1, <2>3, <2>4 DEF LocksInv
<1>2. cmd[p].kind = "home" =>
         \A n \in DOMAIN Targets(cmd[p]) : Targets(cmd[p])[n] = HomeFile[cmd[p].root]
  BY DEF Target, Targets
<1>3. \/ Fail(p)
      \/ \E files : Go(p, files) /\ cmd[p].kind \in {"remove", "toggle"}
      \/ Go(p, Targets(cmd[p]))
  BY DEF LocateAdd, LocateExisting, LocateImport
<1>4. CASE Fail(p)
  BY <1>4, <1>d, FailKeeps
<1>5. CASE \E files : Go(p, files) /\ cmd[p].kind \in {"remove", "toggle"}
  BY <1>5, <1>1
<1>6. CASE Go(p, Targets(cmd[p]))
  BY <1>6, <1>1, <1>2
<1>7. QED
  BY <1>3, <1>4, <1>5, <1>6

\* Every file taken off the list of files to lock is locked.
LEMMA LockFileStep ==
    ASSUME LocksInv, NEW p \in Processes, LockFile(p)
    PROVE  LocksInv'
<1>d. Domains /\ pc[p] = "lock" /\ Entitled(p)
  BY DEF LocksInv, LockFile
<1>1. PICK f \in todo[p] :
         \/ /\ Acquire(p, f) /\ todo' = [todo EXCEPT ![p] = @ \ {f}]
            /\ pc' = [pc EXCEPT ![p] = IF todo[p] = {f} THEN "read" ELSE "lock"]
            /\ UNCHANGED <<disk, cmd, plan, copy, late, made>>
         \/ Fail(p)
  BY DEF LockFile
<1>2. CASE Fail(p)
  BY <1>2, <1>d, FailKeeps
<1>3. CASE /\ Acquire(p, f) /\ todo' = [todo EXCEPT ![p] = @ \ {f}]
           /\ pc' = [pc EXCEPT ![p] = IF todo[p] = {f} THEN "read" ELSE "lock"]
           /\ UNCHANGED <<disk, cmd, plan, copy, late, made>>
  <2>1. /\ Exclusive' /\ DOMAIN held' = Processes /\ \A q \in Processes \ {p} : held'[q] = held[q]
        /\ held'[p] = held[p] \cup {f}
    BY <1>3, AcquireExclusive
  <2>2. Domains'
    BY <1>3, <2>1, <1>d DEF Domains
  <2>3. /\ todo'[p] = todo[p] \ {f} /\ plan'[p] = plan[p] /\ cmd'[p] = cmd[p]
        /\ pc'[p] = IF todo[p] = {f} THEN "read" ELSE "lock"
    BY <1>3, <1>d DEF Domains
  <2>4. Range(plan[p]) \ todo[p] \subseteq held[p]
    BY <1>d DEF Entitled
  <2>5. Entitled(p)'
    BY <2>1, <2>3, <2>4, <1>d DEF Entitled
  <2>6. \A q \in Processes \ {p} : Entitled(q)'
    BY <1>3, <2>1, <1>d, OthersKeep DEF LocksInv, Domains
  <2>7. QED
    BY <2>1, <2>2, <2>5, <2>6 DEF LocksInv
<1>4. QED
  BY <1>1, <1>2, <1>3

\* What is read is what is on disk.
LEMMA ReadFilesStep ==
    ASSUME LocksInv, NEW p \in Processes, ReadFiles(p)
    PROVE  LocksInv'
<1>d. Domains /\ pc[p] = "read" /\ Entitled(p)
  BY DEF LocksInv, ReadFiles
<1>1. CASE /\ copy' = [copy EXCEPT ![p] = [f \in Range(plan[p]) |-> disk[f]]]
           /\ todo' = [todo EXCEPT ![p] = Range(plan[p])] /\ pc' = [pc EXCEPT ![p] = "write"]
           /\ UNCHANGED <<disk, locks, held, cmd, plan, late, made>>
  <2>1. Domains' /\ Exclusive'
    BY <1>1, <1>d DEF LocksInv, Domains, Exclusive
  <2>2. /\ copy'[p] = [f \in Range(plan[p]) |-> disk[f]] /\ todo'[p] = Range(plan[p])
        /\ pc'[p] = "write" /\ disk' = disk /\ held'[p] = held[p] /\ plan'[p] = plan[p]
        /\ cmd'[p] = cmd[p]
    BY <1>1, <1>d DEF Domains
  <2>3. Entitled(p)'
    BY <2>2, <1>d DEF Entitled
  <2>4. \A q \in Processes \ {p} : Entitled(q)'
    BY <1>1, <1>d, OthersKeep DEF LocksInv, Domains
  <2>5. QED
    BY SMTT(30), <2>1, <2>3, <2>4 DEF LocksInv
<1>2. CASE pc' = [pc EXCEPT ![p] = "done"] /\ UNCHANGED <<disk, locks, held, cmd, plan, todo, copy, late, made>>
  <2>1. Domains' /\ Exclusive'
    BY <1>2, <1>d DEF LocksInv, Domains, Exclusive
  <2>2. Entitled(p)'
    BY <1>2, <1>d DEF Entitled, Domains
  <2>3. \A q \in Processes \ {p} : Entitled(q)'
    BY <1>2, <1>d, OthersKeep DEF LocksInv, Domains
  <2>4. QED
    BY SMTT(30), <2>1, <2>2, <2>3 DEF LocksInv
<1>3. CASE Fail(p)
  BY <1>3, <1>d, FailKeeps
<1>4. QED
  BY <1>1, <1>2, <1>3 DEF ReadFiles

\* A write is to a file whose lock is held, so that no other copy becomes stale.
LEMMA WriteFileStep ==
    ASSUME LocksInv, NEW p \in Processes, WriteFile(p)
    PROVE  LocksInv'
<1>d. Domains /\ pc[p] = "write" /\ Entitled(p)
  BY DEF LocksInv, WriteFile
<1>1. PICK f \in todo[p] :
         \/ /\ disk' = [disk EXCEPT ![f] = Updated(p, f)] /\ todo' = [todo EXCEPT ![p] = @ \ {f}]
            /\ \E l \in {"write", "done", "failed"} : pc' = [pc EXCEPT ![p] = l]
            /\ late' = late /\ made \subseteq made' /\ UNCHANGED <<locks, held, cmd, plan, copy>>
         \/ Fail(p)
  BY DEF WriteFile
<1>2. CASE Fail(p)
  BY <1>2, <1>d, FailKeeps
<1>3. CASE /\ disk' = [disk EXCEPT ![f] = Updated(p, f)] /\ todo' = [todo EXCEPT ![p] = @ \ {f}]
           /\ \E l \in {"write", "done", "failed"} : pc' = [pc EXCEPT ![p] = l]
           /\ late' = late /\ made \subseteq made' /\ UNCHANGED <<locks, held, cmd, plan, copy>>
  <2>1. Domains' /\ Exclusive'
    BY <1>3, <1>d DEF LocksInv, Domains, Exclusive
  <2>2. /\ \A g \in Files : g # f => disk'[g] = disk[g]
        /\ todo'[p] = todo[p] \ {f} /\ pc'[p] \in {"write", "done", "failed"}
    BY <1>3, <1>d DEF Domains
  <2>3. Entitled(p)'
    BY <1>3, <2>2, <1>d DEF Entitled
  <2>4. ASSUME NEW q \in Processes \ {p}
        PROVE  Entitled(q)'
    <3>1. f \notin held[q]
      BY <1>d DEF LocksInv, Exclusive, Entitled
    <3>2. \A g \in held[q] \cap Files : disk'[g] = disk[g]
      BY <3>1, <2>2
    <3>3. QED
      BY <1>3, <3>2, <1>d, OthersKeep DEF LocksInv, Domains
  <2>5. QED
    BY <2>1, <2>3, <2>4 DEF LocksInv
<1>4. QED
  BY <1>1, <1>2, <1>3

\* A lock is dropped by the process that holds it, after its last write.
LEMMA UnlockStep ==
    ASSUME LocksInv, NEW p \in Processes, Unlock(p)
    PROVE  LocksInv'
<1>d. Domains /\ pc[p] \in {"failed", "done"} /\ Entitled(p) /\ disk' = disk /\ made' = made
  BY DEF LocksInv, Unlock
<1>1. PICK l \in held[p] :
         /\ locks' = locks \ {l} /\ held' = [held EXCEPT ![p] = @ \ {l}]
         /\ IF held[p] = {l} THEN Forget(p) ELSE UNCHANGED <<pc, cmd, plan, todo, copy, late>>
  BY DEF Unlock
<1>2. /\ held'[p] = held[p] \ {l} /\ DOMAIN held' = Processes
      /\ \A q \in Processes \ {p} : held'[q] = held[q]
  BY <1>1, <1>d DEF Domains
<1>3. Exclusive'
  BY SMTT(30), <1>1, <1>2 DEF LocksInv, Exclusive
<1>4. CASE held[p] = {l}
  <2>1. Forget(p) /\ held'[p] = {}
    BY <1>1, <1>2, <1>4
  <2>2. Domains' /\ Entitled(p)'
    BY <2>1, <1>2, <1>d, ForgetLeavesNothing DEF Domains, Entitled
  <2>3. \A q \in Processes \ {p} : Entitled(q)'
    BY <2>1, <1>2, <1>d, ForgetKeepsOthers
  <2>4. QED
    BY <1>3, <2>2, <2>3 DEF LocksInv
<1>5. CASE held[p] # {l}
  <2>1. UNCHANGED <<pc, cmd, plan, todo, copy, late>>
    BY <1>1, <1>5
  <2>2. Domains' /\ Entitled(p)'
    BY <2>1, <1>2, <1>d DEF Domains, Entitled
  <2>3. \A q \in Processes \ {p} : Entitled(q)'
    BY <2>1, <1>2, <1>d, OthersKeep DEF LocksInv
  <2>4. QED
    BY SMTT(30), <1>3, <2>2, <2>3 DEF LocksInv
<1>6. QED
  BY <1>4, <1>5

\* A process that dies holds nothing, though its lock files stay.
LEMMA CrashStep ==
    ASSUME LocksInv, NEW p \in Processes, Crash(p)
    PROVE  LocksInv'
<1>1. /\ held' = [held EXCEPT ![p] = {}] /\ Forget(p) /\ UNCHANGED <<disk, locks, made>> /\ Domains
  BY DEF Crash, LocksInv
<1>2. /\ held'[p] = {} /\ DOMAIN held' = Processes
      /\ \A q \in Processes \ {p} : held'[q] = held[q]
  BY <1>1 DEF Domains
<1>3. Exclusive'
  BY SMTT(30), <1>1, <1>2 DEF LocksInv, Exclusive
<1>4. Domains' /\ Entitled(p)'
  BY <1>1, <1>2, ForgetLeavesNothing DEF Domains, Entitled
<1>5. \A q \in Processes \ {p} : Entitled(q)'
  BY <1>1, <1>2, ForgetKeepsOthers
<1>6. QED
  BY <1>3, <1>4, <1>5 DEF LocksInv

\* The lock that the user removes is nobody's.
LEMMA RemoveStaleLockStep ==
    ASSUME LocksInv, RemoveStaleLock
    PROVE  LocksInv'
<1>1. \A p \in Processes : pc[p] = "idle" /\ held[p] = {}
  BY DEF RemoveStaleLock, LocksInv, Entitled
<1>2. UNCHANGED <<disk, held, pc, cmd, plan, todo, copy, late, made>>
  BY DEF RemoveStaleLock
<1>3. Exclusive'
  BY <1>1, <1>2 DEF Exclusive
<1>4. QED
  BY SMTT(30), <1>2, <1>3 DEF LocksInv, Domains, Entitled

\* The seed of a file: the commands it overtakes are known to be late.
LEMMA SeedStep ==
    ASSUME LocksInv, NEW p \in Processes, Seed(p)
    PROVE  LocksInv'
<1>0. Domains /\ Exclusive /\ UNCHANGED <<locks, held, pc, cmd, plan, todo, copy>>
  BY DEF LocksInv, Seed, SeedLooks, SeedWrites, SeedFails
<1>1. ASSUME UNCHANGED <<disk, late, made>> PROVE LocksInv'
  <2>1. Domains' /\ Exclusive'
    BY <1>0, <1>1 DEF Domains, Exclusive
  <2>2. \A q \in Processes : Entitled(q)'
    BY <1>0, <1>1, OthersKeep DEF LocksInv
  <2> QED BY <2>1, <2>2 DEF LocksInv
<1>2. ASSUME NEW f \in Seedable, SeedWrites(p, f) PROVE LocksInv'
  <2>1. /\ disk' = [disk EXCEPT ![f] = Blank] /\ made' = made \cup {f}
        /\ late' = late \cup {q \in Processes : Overtakes(f, q)}
    BY <1>2 DEF SeedWrites
  <2>2. Domains' /\ Exclusive'
    BY <1>0, <2>1 DEF Domains, Exclusive
  <2>3. ASSUME NEW q \in Processes PROVE Entitled(q)'
    <3>1. Entitled(q)
      BY DEF LocksInv
    <3>2. ASSUME pc[q] = "write", NEW g \in todo[q] \cap Files
          PROVE  copy[q][g] = disk'[g] \/ (q \in late' /\ g \in made')
      <4>1. copy[q][g] = disk[g] \/ (q \in late /\ g \in made)
        BY <3>1, <3>2 DEF Entitled
      <4>2. CASE g = f
        <5>1. f \in Range(plan[q])
          BY <3>1, <3>2, <4>2 DEF Entitled
        <5> QED BY <2>1, <3>2, <4>2, <5>1 DEF Overtakes
      <4>3. CASE g # f
        BY <1>0, <2>1, <4>1, <4>3 DEF Domains
      <4> QED BY <4>2, <4>3
    <3> QED BY <1>0, <3>1, <3>2 DEF Entitled
  <2> QED BY <2>2, <2>3 DEF LocksInv
<1> QED BY <1>1, <1>2 DEF Seed, SeedLooks, SeedFails

\* Locks are exclusive, and a process that is about to write a file holds its lock and
\* has a copy of what is on disk, unless the file was seeded since it read it.
THEOREM LocksInvariant == FilesSpec => []LocksInv
<1>1. FilesInit => LocksInv
  BY SMTT(30) DEF FilesInit, LocksInv, Domains, Exclusive, Entitled, Nothing
<1>2. LocksInv /\ [FilesNext]_fileVars => LocksInv'
  <2> SUFFICES ASSUME LocksInv, [FilesNext]_fileVars PROVE LocksInv'
    BY SMTT(30)
  <2>1. ASSUME NEW p \in Processes, Step(p) PROVE LocksInv'
    BY <2>1, StartStep, LockHomeStep, LocateStep, LockFileStep, ReadFilesStep, WriteFileStep,
       UnlockStep DEF Step
  <2>2. ASSUME NEW p \in Processes, Crash(p) PROVE LocksInv'
    BY <2>2, CrashStep
  <2>6. ASSUME NEW p \in Processes, Seed(p) PROVE LocksInv'
    BY <2>6, SeedStep
  <2>3. CASE RemoveStaleLock
    BY <2>3, RemoveStaleLockStep
  <2>4. CASE UNCHANGED fileVars
    BY SMTT(30), <2>4 DEF fileVars, LocksInv, Domains, Exclusive, Entitled
  <2>5. QED
    BY <2>1, <2>2, <2>3, <2>4, <2>6 DEF FilesNext
<1>3. QED
  BY <1>1, <1>2, PTL DEF FilesSpec

-----------------------------------------------------------------------------

\* The change a step may make to the files.
Careful ==
    disk' # disk =>
       \E p \in Processes :
          \/ \E f \in Seedable : SeedWrites(p, f)
          \/ /\ pc[p] = "write"
             /\ \A f \in Files, n \in Names :
                   \/ disk'[f][n] = disk[f][n]
                   \/ n \in DOMAIN plan[p] /\ plan[p][n] = f
                   \/ cmd[p].kind = "home" /\ f = HomeFile[cmd[p].root]
                   \/ p \in late /\ f \in Range(plan[p]) \cap made

\* A file is replaced by what the writer makes of the file as it is.
LEMMA WriteIsCareful ==
    ASSUME LocksInv, NEW p \in Processes, WriteFile(p)
    PROVE  Careful
<1>d. Domains /\ pc[p] = "write" /\ Entitled(p)
  BY SMTT(30) DEF LocksInv, WriteFile
<1>1. CASE Fail(p)
  BY <1>1 DEF Fail, Careful
<1>2. ASSUME NEW f \in todo[p], disk' = [disk EXCEPT ![f] = Updated(p, f)]
      PROVE  Careful
  <2> SUFFICES ASSUME NEW g \in Files, NEW n \in Names
               PROVE  \/ disk'[g][n] = disk[g][n]
                      \/ n \in DOMAIN plan[p] /\ plan[p][n] = g
                      \/ cmd[p].kind = "home" /\ g = HomeFile[cmd[p].root]
                      \/ p \in late /\ g \in Range(plan[p]) \cap made
    BY <1>d DEF Careful
  <2>1. CASE g # f
    BY <2>1, <1>2, <1>d DEF Domains
  <2>2. CASE g = f
    <3>1. disk'[g][n] = Updated(p, f)[n]
      BY <2>2, <1>2, <1>d DEF Domains
    <3>2. CASE n \in DOMAIN plan[p] /\ plan[p][n] = f
      BY <3>2, <2>2
    <3>3. CASE ~(n \in DOMAIN plan[p] /\ plan[p][n] = f) /\ cmd[p].kind = "home"
      <4>1. PICK m \in DOMAIN plan[p] : plan[p][m] = f
        BY <1>d DEF Entitled, Range
      <4>2. QED
        BY <4>1, <3>3, <2>2, <1>d DEF Entitled
    <3>4. CASE ~(n \in DOMAIN plan[p] /\ plan[p][n] = f) /\ cmd[p].kind # "home"
      <4>1. Updated(p, f)[n] = copy[p][f][n]
        BY <3>4 DEF Updated, Put, TakeOut
      <4>2. copy[p][f] = disk[f] \/ (p \in late /\ f \in Range(plan[p]) \cap made)
        BY <2>2, <1>d DEF Entitled
      <4>3. QED
        BY <3>1, <4>1, <4>2, <2>2
    <3>5. QED
      BY <3>2, <3>3, <3>4
  <2>3. QED
    BY <2>1, <2>2
<1>3. QED
  BY <1>1, <1>2 DEF WriteFile

\* No command loses another's update: a step changes only the entries that the command
\* of the writing process is about, or the file the home import owns; the exceptions are
\* the seed of a file that was missing and what a command that a seed overtook puts back.
THEOREM NoUpdateLost == FilesSpec => NothingLost
<1>1. LocksInv /\ [FilesNext]_fileVars => [Careful]_fileVars
  <2> SUFFICES ASSUME LocksInv, FilesNext PROVE Careful
    OBVIOUS
  <2>1. ASSUME disk' = disk PROVE Careful
    BY <2>1 DEF Careful
  <2>2. ASSUME NEW p \in Processes, Step(p) PROVE Careful
    <3>1. WriteFile(p) \/ disk' = disk
      BY <2>2 DEF Step, Start, StartUpdate, StartHome, LockHome, LocateAdd, LocateExisting,
         LocateImport, Go, LockFile, ReadFiles, Unlock, Fail
    <3>2. QED
      BY <3>1, <2>1, WriteIsCareful
  <2>3. (\E p \in Processes : Crash(p)) \/ RemoveStaleLock => disk' = disk
    BY DEF Crash, RemoveStaleLock
  <2>5. ASSUME NEW p \in Processes, Seed(p) PROVE Careful
    <3>1. disk' = disk \/ \E f \in Seedable : SeedWrites(p, f)
      BY <2>5 DEF Seed, SeedLooks, SeedFails
    <3> QED BY <3>1 DEF Careful
  <2>4. QED
    BY <2>1, <2>2, <2>3, <2>5 DEF FilesNext
<1>2. NothingLost <=> [][Careful]_fileVars
  BY DEF NothingLost, Careful
<1>3. QED
  BY <1>1, <1>2, LocksInvariant, PTL DEF FilesSpec

-----------------------------------------------------------------------------
(* The settings files: where a server is.  While a process holds the lock of *)
(* a namespace nobody else gives a server of that root another source, so    *)
(* that what it found of the sources when it looked is so when it writes;    *)
(* nothing is said of a command whose file was seeded under it.              *)

Acting == {"lock", "read", "write"}

\* What a command that succeeds leaves of its names.
Outcome(c) == IF c.kind = "remove" THEN "none" ELSE c.value

\* A command of the sources acts under the lock of its namespace.
Namespaced(p) ==
    /\ pc[p] # "idle" => cmd[p] \in Commands
    /\ pc[p] \in {"locate"} \cup Acting /\ cmd[p].kind # "update" => cmd[p].root \in held[p]

\* The files a command writes are its targets, or sources that have its names.
Planned(p) ==
    pc[p] \in Acting \cup {"done"} =>
       /\ DOMAIN plan[p] = cmd[p].names
       /\ cmd[p].kind \notin {"remove", "toggle"} \/ cmd[p].path # NoFile =>
             \A n \in cmd[p].names : plan[p][n] = Target(cmd[p], n)
       /\ cmd[p].kind \in {"remove", "toggle"} /\ cmd[p].path = NoFile =>
             \A n \in cmd[p].names : plan[p][n] \in Range(Sources[cmd[p].root])

\* The command has looked for other sources of its names.
Looked(p) ==
    \/ pc[p] \in Acting \cup {"done"} /\ cmd[p].kind = "add"
    \/ pc[p] \in Acting \cup {"done"} /\ cmd[p].kind \in {"remove", "toggle"} /\ cmd[p].path = NoFile
    \/ pc[p] \in {"write", "done"} /\ cmd[p].kind = "import"

\* What it found is still so.
Unrivalled(p) ==
    Looked(p) /\ cmd[p].root \in held[p] /\ Private(cmd[p].root) /\ p \notin late =>
       \A n \in cmd[p].names : SourcePaths(cmd[p].root, n) \subseteq {plan[p][n]}

\* What is enabled or disabled is there.
Toggles(p) ==
    pc[p] = "write" /\ cmd[p].kind = "toggle" /\ p \notin late =>
       \A n \in cmd[p].names : plan[p][n] \in todo[p] \cap Files => disk[plan[p][n]][n] # "none"

\* What was written stays until the lock of the file is dropped.
Stays(p) ==
    /\ pc[p] = "done" /\ cmd[p].kind # "home" => todo[p] = {}
    /\ pc[p] \in {"write", "done"} /\ cmd[p].kind \notin {"home", "update"} /\ p \notin late =>
          \A n \in cmd[p].names :
             plan[p][n] \in (held[p] \cap Files) \ todo[p] => disk[plan[p][n]][n] = Outcome(cmd[p])

Settled(p) == Namespaced(p) /\ Planned(p) /\ Unrivalled(p) /\ Toggles(p) /\ Stays(p)

SourcesInv == LocksInv /\ \A p \in Processes : Settled(p)

-----------------------------------------------------------------------------

\* A process that does nothing keeps what it knows, as long as nobody writes to the files
\* it has locked or gives a server of a namespace it has locked another source.
LEMMA OthersSettled ==
    ASSUME NEW q \in Processes, Entitled(q), Settled(q),
           held'[q] = held[q], pc'[q] = pc[q], cmd'[q] = cmd[q], plan'[q] = plan[q],
           todo'[q] = todo[q], q \in late' <=> q \in late,
           \A f \in held[q] \cap Files : disk'[f] = disk[f],
           \A r \in held[q] \cap Roots, n \in Names :
              Private(r) => SourcePaths(r, n)' \subseteq SourcePaths(r, n)
    PROVE  Settled(q)'
<1>1. Namespaced(q)' /\ Planned(q)'
  BY DEF Settled, Namespaced, Planned
<1>2. Unrivalled(q)'
  <2> SUFFICES ASSUME q \notin late, Looked(q), cmd[q].root \in held[q], Private(cmd[q].root), NEW n \in cmd[q].names
               PROVE  SourcePaths(cmd[q].root, n)' \subseteq {plan[q][n]}
    BY DEF Unrivalled, Looked, SourcePaths
  <2>1. pc[q] # "idle"
    BY DEF Looked, Acting
  <2>2. n \in Names /\ cmd[q].root \in Roots
    BY <2>1, FilesAssumption DEF Settled, Namespaced
  <2> QED BY <2>2 DEF Settled, Unrivalled
<1>3. Toggles(q)'
  <2> SUFFICES ASSUME q \notin late, pc[q] = "write", cmd[q].kind = "toggle", NEW n \in cmd[q].names,
                      plan[q][n] \in todo[q] \cap Files
               PROVE  disk'[plan[q][n]][n] # "none"
    BY DEF Toggles
  <2>1. plan[q][n] \in held[q] \cap Files
    BY DEF Entitled
  <2> QED BY <2>1 DEF Settled, Toggles
<1>4. Stays(q)'
  BY DEF Settled, Stays
<1> QED BY <1>1, <1>2, <1>3, <1>4 DEF Settled

\* A server has finitely many sources.
LEMMA SourcesFinite ==
    ASSUME NEW r \in Roots, NEW n
    PROVE  IsFiniteSet(SourcePaths(r, n)) /\ SourcePaths(r, n) \subseteq Files
<1>1. SourcePaths(r, n) \subseteq Files
  BY SMTT(30), FilesAssumption DEF SourcePaths, Range
<1> QED BY <1>1, FS_Subset, FilesAssumption

\* Without a write the sources are what they were.
LEMMA SameSources ==
    ASSUME disk' = disk
    PROVE  \A r, n : SourcePaths(r, n)' = SourcePaths(r, n)
BY DEF SourcePaths

\* A step of one process that writes nothing leaves the others as they are.
LEMMA BystandersSettled ==
    ASSUME SourcesInv, NEW p \in Processes, disk' = disk,
           \A q \in Processes \ {p} :
              /\ held'[q] = held[q] /\ pc'[q] = pc[q] /\ cmd'[q] = cmd[q] /\ plan'[q] = plan[q]
              /\ todo'[q] = todo[q] /\ (q \in late' <=> q \in late)
    PROVE  \A q \in Processes \ {p} : Settled(q)'
<1> SUFFICES ASSUME NEW q \in Processes \ {p} PROVE Settled(q)'
  OBVIOUS
<1>1. Entitled(q) /\ Settled(q)
  BY DEF SourcesInv, LocksInv
<1>2. \A r \in held[q] \cap Roots, n \in Names : Private(r) => SourcePaths(r, n)' \subseteq SourcePaths(r, n)
  BY SameSources
<1> QED BY <1>1, <1>2, OthersSettled

-----------------------------------------------------------------------------
(* The steps of a command.                                                  *)

\* What a process that goes on from an early return knows.
LEMMA FailSettles ==
    ASSUME SourcesInv, NEW p \in Processes, Fail(p), pc[p] # "idle"
    PROVE  \A q \in Processes : Settled(q)'
<1>1. /\ pc' = [pc EXCEPT ![p] = "failed"] /\ UNCHANGED <<disk, locks, held, cmd, plan, todo, copy, late, made>>
      /\ DOMAIN pc = Processes
  BY DEF Fail, SourcesInv, LocksInv, Domains
<1>2. pc'[p] = "failed" /\ cmd'[p] \in Commands
  BY <1>1 DEF SourcesInv, Settled, Namespaced
<1>3. Settled(p)'
  BY <1>2 DEF Settled, Namespaced, Planned, Unrivalled, Looked, Toggles, Stays, Acting
<1>4. \A q \in Processes \ {p} : Settled(q)'
  BY <1>1, BystandersSettled
<1> QED BY <1>3, <1>4

\* What a process that forgets its command knows.
LEMMA ForgetSettles ==
    ASSUME SourcesInv, NEW p \in Processes, Forget(p), disk' = disk,
           \A q \in Processes \ {p} : held'[q] = held[q]
    PROVE  \A q \in Processes : Settled(q)'
<1>1. LocksInv
  BY DEF SourcesInv
<1>2. /\ pc'[p] = "idle"
      /\ \A q \in Processes \ {p} :
            /\ pc'[q] = pc[q] /\ cmd'[q] = cmd[q] /\ plan'[q] = plan[q]
            /\ todo'[q] = todo[q] /\ (q \in late' <=> q \in late)
  BY <1>1, ForgetLeavesNothing
<1>3. Settled(p)'
  BY <1>2 DEF Settled, Namespaced, Planned, Unrivalled, Looked, Toggles, Stays, Acting
<1>4. \A q \in Processes \ {p} : Settled(q)'
  BY <1>2, BystandersSettled
<1> QED BY <1>3, <1>4

\* A command starts knowing nothing but the lock it has.
LEMMA StartSettles ==
    ASSUME SourcesInv, NEW p \in Processes, NEW c \in Commands,
           Start(p, c) \/ StartUpdate(p, c) \/ StartHome(p, c)
    PROVE  \A q \in Processes : Settled(q)'
<1>0. LocksInv /\ Domains /\ disk' = disk
  BY DEF SourcesInv, LocksInv, Start, StartUpdate, StartHome
<1>1. ASSUME NEW l, Acquire(p, l)
      PROVE  l \in held'[p] /\ \A q \in Processes \ {p} : held'[q] = held[q]
  BY <1>0, <1>1 DEF Acquire, Domains
<1>2. CASE Start(p, c)
  <2>1. /\ Acquire(p, c.root) /\ pc' = [pc EXCEPT ![p] = "locate"]
        /\ cmd' = [cmd EXCEPT ![p] = c] /\ UNCHANGED <<disk, plan, todo, copy, late, made>>
    BY <1>2 DEF Start
  <2>2. c.root \in held'[p] /\ \A q \in Processes \ {p} : held'[q] = held[q]
    BY <2>1, <1>1
  <2>3. pc'[p] = "locate" /\ cmd'[p] = c
    BY <2>1, <1>0 DEF Domains
  <2>4. Settled(p)'
    BY <2>2, <2>3 DEF Settled, Namespaced, Planned, Unrivalled, Looked, Toggles, Stays, Acting
  <2>5. \A q \in Processes \ {p} : Settled(q)'
    BY <2>1, <2>2, <1>0, BystandersSettled DEF Domains
  <2> QED BY <2>4, <2>5
<1>3. CASE StartUpdate(p, c)
  <2>1. /\ Acquire(p, c.path) /\ pc' = [pc EXCEPT ![p] = "read"]
        /\ cmd' = [cmd EXCEPT ![p] = c] /\ c.kind = "update"
        /\ plan' = [plan EXCEPT ![p] = [n \in c.names |-> c.path]]
        /\ UNCHANGED <<disk, todo, copy, late, made>>
    BY <1>3 DEF StartUpdate
  <2>2. \A q \in Processes \ {p} : held'[q] = held[q]
    BY <2>1, <1>1
  <2>3. pc'[p] = "read" /\ cmd'[p] = c /\ plan'[p] = [n \in c.names |-> c.path]
    BY <2>1, <1>0 DEF Domains
  <2>4. \A n \in c.names : plan'[p][n] = Target(c, n)
    BY <2>1, <2>3, FilesAssumption DEF Target
  <2>5. Settled(p)'
    BY <2>1, <2>3, <2>4 DEF Settled, Namespaced, Planned, Unrivalled, Looked, Toggles, Stays, Acting, Target
  <2>6. \A q \in Processes \ {p} : Settled(q)'
    BY <2>1, <2>2, <1>0, BystandersSettled DEF Domains
  <2> QED BY <2>5, <2>6
<1>4. CASE StartHome(p, c)
  <2>1. /\ pc' = [pc EXCEPT ![p] = "counted"] /\ cmd' = [cmd EXCEPT ![p] = c]
        /\ UNCHANGED <<disk, locks, held, plan, todo, copy, late, made>>
    BY <1>4 DEF StartHome
  <2>2. pc'[p] = "counted" /\ cmd'[p] = c
    BY <2>1, <1>0 DEF Domains
  <2>3. Settled(p)'
    BY <2>2 DEF Settled, Namespaced, Planned, Unrivalled, Looked, Toggles, Stays, Acting
  <2>4. \A q \in Processes \ {p} : Settled(q)'
    BY <2>1, <1>0, BystandersSettled DEF Domains
  <2> QED BY <2>3, <2>4
<1> QED BY <1>2, <1>3, <1>4

\* The home import has the lock of the namespace before it goes on.
LEMMA LockHomeSettles ==
    ASSUME SourcesInv, NEW p \in Processes, LockHome(p)
    PROVE  \A q \in Processes : Settled(q)'
<1>0. Domains /\ disk' = disk /\ cmd[p] \in Commands
  BY DEF SourcesInv, LocksInv, LockHome, Settled, Namespaced
<1>1. CASE /\ Acquire(p, cmd[p].root) /\ pc' = [pc EXCEPT ![p] = "locate"]
           /\ UNCHANGED <<disk, cmd, plan, todo, copy, late, made>>
  <2>1. cmd[p].root \in held'[p] /\ \A q \in Processes \ {p} : held'[q] = held[q]
    BY <1>0, <1>1 DEF Acquire, Domains
  <2>2. pc'[p] = "locate" /\ cmd'[p] = cmd[p]
    BY <1>0, <1>1 DEF Domains
  <2>3. Settled(p)'
    BY <1>0, <2>1, <2>2 DEF Settled, Namespaced, Planned, Unrivalled, Looked, Toggles, Stays, Acting
  <2>4. \A q \in Processes \ {p} : Settled(q)'
    BY <1>1, <2>1, <1>0, BystandersSettled DEF Domains
  <2> QED BY <2>3, <2>4
<1>2. CASE Forget(p) /\ UNCHANGED <<disk, locks, held, made>>
  BY <1>2, ForgetSettles
<1> QED BY <1>1, <1>2 DEF LockHome

\* A set of one source, of which nothing else is known than a member.
LEMMA OneSource ==
    ASSUME NEW r \in Roots, NEW n, NEW f \in FindSource(r, n)
    PROVE  SourcePaths(r, n) = {f} /\ f \in Range(Sources[r])
<1>1. Cardinality(SourcePaths(r, n)) = 1 /\ f \in SourcePaths(r, n)
  BY DEF FindSource
<1>2. IsFiniteSet(SourcePaths(r, n))
  BY SourcesFinite
<1>3. PICK x : SourcePaths(r, n) = {x}
  BY <1>1, <1>2, FS_Singleton
<1> QED BY <1>1, <1>3 DEF SourcePaths

\* A command that knows its files has looked, unless it imports.
LEMMA LocateSettles ==
    ASSUME SourcesInv, NEW p \in Processes,
           LocateAdd(p) \/ LocateExisting(p) \/ LocateImport(p)
    PROVE  \A q \in Processes : Settled(q)'
<1> DEFINE c == cmd[p]
<1>0. /\ Domains /\ pc[p] = "locate" /\ c \in Commands /\ c.root \in Roots
      /\ c.kind # "update" => c.root \in held[p]
  BY FilesAssumption DEF SourcesInv, LocksInv, LocateAdd, LocateExisting, LocateImport, Settled, Namespaced
<1>1. ASSUME NEW files, Go(p, files), c.kind # "update", DOMAIN files = c.names,
             c.kind \notin {"remove", "toggle"} \/ c.path # NoFile =>
                \A n \in c.names : files[n] = Target(c, n),
             c.kind \in {"remove", "toggle"} /\ c.path = NoFile =>
                \A n \in c.names : files[n] \in Range(Sources[c.root]),
             (c.kind \in {"remove", "toggle"} /\ c.path = NoFile) \/ c.kind = "add" =>
                \A n \in c.names : SourcePaths(c.root, n) \subseteq {files[n]}
      PROVE  \A q \in Processes : Settled(q)'
  <2>1. /\ plan' = [plan EXCEPT ![p] = files] /\ todo' = [todo EXCEPT ![p] = Range(files)]
        /\ pc' = [pc EXCEPT ![p] = "lock"] /\ UNCHANGED <<disk, locks, held, cmd, copy, late, made>>
    BY <1>1 DEF Go
  <2>2. /\ plan'[p] = files /\ pc'[p] = "lock" /\ cmd'[p] = c /\ held'[p] = held[p]
        /\ late' = late
    BY <2>1, <1>0 DEF Domains
  <2>3. Namespaced(p)'
    BY <1>0, <1>1, <2>2 DEF Namespaced
  <2>4. Planned(p)'
    BY <1>1, <2>2 DEF Planned, Target
  <2>5. \A n : SourcePaths(c.root, n)' = SourcePaths(c.root, n)
    BY <2>1 DEF SourcePaths
  <2>6. Unrivalled(p)'
    <3> SUFFICES ASSUME p \notin late, Looked(p)', NEW n \in c.names
                 PROVE  SourcePaths(c.root, n)' \subseteq {files[n]}
      BY <2>2 DEF Unrivalled
    <3>1. (c.kind \in {"remove", "toggle"} /\ c.path = NoFile) \/ c.kind = "add"
      BY <2>2 DEF Looked
    <3> QED BY <1>1, <2>5, <3>1
  <2>7. Toggles(p)' /\ Stays(p)'
    BY <2>2 DEF Toggles, Stays
  <2>8. Settled(p)'
    BY <2>3, <2>4, <2>6, <2>7 DEF Settled
  <2>9. \A q \in Processes \ {p} : Settled(q)'
    BY <2>1, <1>0, BystandersSettled DEF Domains
  <2> QED BY <2>8, <2>9
<1>2. CASE Fail(p)
  BY <1>0, <1>2, FailSettles
<1>3. CASE LocateAdd(p) /\ ~Fail(p)
  <2>1. /\ c.kind = "add" /\ Go(p, Targets(c))
        /\ \A n \in c.names : SourcePaths(c.root, n) \subseteq {Target(c, n)}
    BY <1>3 DEF LocateAdd, Unshadowed
  <2> QED BY <2>1, <1>1 DEF Targets
<1>4. CASE LocateImport(p)
  <2>1. c.kind \in {"import", "home"} /\ Go(p, Targets(c))
    BY <1>4 DEF LocateImport
  <2> QED BY <2>1, <1>1 DEF Targets
<1>5. CASE LocateExisting(p) /\ ~Fail(p)
  <2>0. c.kind \in {"remove", "toggle"}
    BY <1>5 DEF LocateExisting
  <2>1. CASE c.path # NoFile /\ Go(p, [n \in c.names |-> c.path])
    BY <2>0, <2>1, <1>1 DEF Target
  <2>2. ASSUME NEW files \in [c.names -> Files], Go(p, files), c.path = NoFile,
               \A n \in c.names : files[n] \in FindSource(c.root, n)
        PROVE  \A q \in Processes : Settled(q)'
    <3>1. \A n \in c.names : SourcePaths(c.root, n) = {files[n]} /\ files[n] \in Range(Sources[c.root])
      BY <2>2, <1>0, OneSource
    <3> QED BY <2>0, <2>2, <3>1, <1>1
  <2> QED BY <2>1, <2>2, <1>5 DEF LocateExisting
<1> QED BY <1>2, <1>3, <1>4, <1>5

\* Locking a file changes nothing of what is known.
LEMMA LockFileSettles ==
    ASSUME SourcesInv, NEW p \in Processes, LockFile(p)
    PROVE  \A q \in Processes : Settled(q)'
<1>0. Domains /\ pc[p] = "lock" /\ Settled(p)
  BY DEF SourcesInv, LocksInv, LockFile
<1>1. PICK f \in todo[p] :
         \/ /\ Acquire(p, f) /\ todo' = [todo EXCEPT ![p] = @ \ {f}]
            /\ pc' = [pc EXCEPT ![p] = IF todo[p] = {f} THEN "read" ELSE "lock"]
            /\ UNCHANGED <<disk, cmd, plan, copy, late, made>>
         \/ Fail(p)
  BY DEF LockFile
<1>2. CASE Fail(p)
  BY <1>0, <1>2, FailSettles
<1>3. CASE /\ Acquire(p, f) /\ todo' = [todo EXCEPT ![p] = @ \ {f}]
           /\ pc' = [pc EXCEPT ![p] = IF todo[p] = {f} THEN "read" ELSE "lock"]
           /\ UNCHANGED <<disk, cmd, plan, copy, late, made>>
  <2>1. held[p] \subseteq held'[p] /\ \A q \in Processes \ {p} : held'[q] = held[q]
    BY <1>0, <1>3 DEF Acquire, Domains
  <2>2. pc'[p] \in {"read", "lock"} /\ plan'[p] = plan[p] /\ cmd'[p] = cmd[p] /\ late' = late
    BY <1>0, <1>3 DEF Domains
  <2>3. Namespaced(p)' /\ Planned(p)'
    BY <1>0, <2>1, <2>2 DEF Settled, Namespaced, Planned, Acting, Target
  <2>4. Unrivalled(p)'
    <3> SUFFICES ASSUME p \notin late, Looked(p)', Private(cmd[p].root), NEW n \in cmd[p].names
                 PROVE  SourcePaths(cmd[p].root, n)' \subseteq {plan[p][n]}
      BY <2>2 DEF Unrivalled, Private, Target
    <3>1. Looked(p) /\ cmd[p].kind # "update"
      BY <1>0, <2>2 DEF Looked, Acting
    <3>2. cmd[p].root \in held[p]
      BY <1>0, <3>1 DEF Settled, Namespaced, Acting
    <3>3. SourcePaths(cmd[p].root, n)' = SourcePaths(cmd[p].root, n)
      BY <1>3, <2>2 DEF SourcePaths
    <3> QED BY <1>0, <3>1, <3>2, <3>3 DEF Settled, Unrivalled
  <2>5. Toggles(p)' /\ Stays(p)'
    BY <2>2 DEF Toggles, Stays
  <2>6. Settled(p)'
    BY <2>3, <2>4, <2>5 DEF Settled
  <2>7. \A q \in Processes \ {p} : Settled(q)'
    BY <1>3, <2>1, <1>0, BystandersSettled DEF Domains
  <2> QED BY <2>6, <2>7
<1> QED BY <1>1, <1>2, <1>3

\* A command that was not refused has looked, under the locks of its files.
LEMMA ReadFilesSettles ==
    ASSUME SourcesInv, NEW p \in Processes, ReadFiles(p)
    PROVE  \A q \in Processes : Settled(q)'
<1>0. Domains /\ pc[p] = "read" /\ Settled(p)
  BY DEF SourcesInv, LocksInv, ReadFiles
<1>1. CASE /\ ~Refused(p) /\ copy' = [copy EXCEPT ![p] = [f \in Range(plan[p]) |-> disk[f]]]
           /\ todo' = [todo EXCEPT ![p] = Range(plan[p])] /\ pc' = [pc EXCEPT ![p] = "write"]
           /\ UNCHANGED <<disk, locks, held, cmd, plan, late, made>>
  <2>1. /\ todo'[p] = Range(plan[p]) /\ pc'[p] = "write" /\ disk' = disk /\ held'[p] = held[p]
        /\ plan'[p] = plan[p] /\ cmd'[p] = cmd[p] /\ late' = late
    BY <1>0, <1>1 DEF Domains
  <2>2. Namespaced(p)' /\ Planned(p)'
    BY <1>0, <2>1 DEF Settled, Namespaced, Planned, Acting, Target
  <2>3. Unrivalled(p)'
    <3> SUFFICES ASSUME p \notin late, Looked(p)', cmd[p].root \in held[p], Private(cmd[p].root), NEW n \in cmd[p].names
                 PROVE  SourcePaths(cmd[p].root, n)' \subseteq {plan[p][n]}
      BY <2>1 DEF Unrivalled, Private, Target
    <3>1. SourcePaths(cmd[p].root, n)' = SourcePaths(cmd[p].root, n)
      BY <2>1 DEF SourcePaths
    <3>2. CASE cmd[p].kind = "import"
      BY <1>1, <3>1, <3>2 DEF Refused, Unshadowed
    <3>3. CASE cmd[p].kind # "import"
      <4>1. Looked(p)
        BY <1>0, <2>1, <3>3 DEF Looked, Acting
      <4> QED BY <1>0, <3>1, <4>1 DEF Settled, Unrivalled
    <3> QED BY <3>2, <3>3
  <2>4. Toggles(p)'
    <3> SUFFICES ASSUME p \notin late, cmd[p].kind = "toggle", NEW n \in cmd[p].names
                 PROVE  disk[plan[p][n]][n] # "none"
      BY <2>1 DEF Toggles
    <3>1. Present(p) = cmd[p].names
      BY <1>1 DEF Refused
    <3> QED BY <3>1 DEF Present
  <2>5. Stays(p)'
    <3>1. DOMAIN plan[p] = cmd[p].names
      BY <1>0 DEF Settled, Planned, Acting
    <3>2. \A n \in cmd[p].names : plan[p][n] \in todo'[p]
      BY <2>1, <3>1 DEF Range
    <3> QED BY <2>1, <3>2 DEF Stays
  <2>6. Settled(p)'
    BY <2>2, <2>3, <2>4, <2>5 DEF Settled
  <2>7. \A q \in Processes \ {p} : Settled(q)'
    BY <1>1, <1>0, BystandersSettled DEF Domains
  <2> QED BY <2>6, <2>7
<1>2. CASE /\ cmd[p].kind = "home" /\ pc' = [pc EXCEPT ![p] = "done"]
           /\ UNCHANGED <<disk, locks, held, cmd, plan, todo, copy, late, made>>
  <2>1. pc'[p] = "done" /\ plan'[p] = plan[p] /\ cmd'[p] = cmd[p] /\ cmd[p].kind = "home"
    BY <1>0, <1>2 DEF Domains
  <2>2. Namespaced(p)' /\ Planned(p)'
    BY <1>0, <2>1 DEF Settled, Namespaced, Planned, Acting, Target
  <2>3. Unrivalled(p)' /\ Toggles(p)' /\ Stays(p)'
    BY <2>1 DEF Unrivalled, Looked, Toggles, Stays
  <2>4. \A q \in Processes \ {p} : Settled(q)'
    BY <1>2, <1>0, BystandersSettled DEF Domains
  <2> QED BY <2>2, <2>3, <2>4 DEF Settled
<1>3. CASE Fail(p)
  BY <1>0, <1>3, FailSettles
<1> QED BY <1>1, <1>2, <1>3 DEF ReadFiles

-----------------------------------------------------------------------------
(* Writes.                                                                  *)

\* A source that a write gives to a server of a private root is a target of the writer,
\* which adds or imports it under the lock of that root; a command that a seed overtook
\* has that lock too.
LEMMA NewSource ==
    ASSUME SourcesInv, NEW p \in Processes, pc[p] = "write",
           NEW f \in todo[p], disk' = [disk EXCEPT ![f] = Updated(p, f)],
           NEW r \in Roots, NEW n \in Names, Private(r),
           NEW g \in SourcePaths(r, n)', g \notin SourcePaths(r, n)
    PROVE  /\ cmd[p].root = r /\ r \in held[p]
           /\ p \notin late => /\ cmd[p].kind \in {"add", "import", "home"}
                              /\ n \in cmd[p].names /\ plan[p][n] = g
<1>0. /\ Domains /\ Entitled(p) /\ Settled(p) /\ cmd[p] \in Commands /\ cmd[p].root \in Roots
      /\ DOMAIN plan[p] = cmd[p].names
  BY FilesAssumption DEF SourcesInv, LocksInv, Settled, Namespaced, Planned, Acting
<1>1. g \in Range(Sources[r]) /\ g \in Files /\ disk'[g][n] # "none" /\ disk[g][n] = "none"
  <2>1. g \in Range(Sources[r]) /\ disk'[g][n] # "none" /\ disk[g][n] = "none"
    BY DEF SourcePaths
  <2> QED BY SMTT(30), <2>1, FilesAssumption DEF Range
<1>2. g = f
  BY <1>0, <1>1 DEF Domains
<1>3. PICK m \in cmd[p].names : plan[p][m] = f
  BY <1>0 DEF Entitled, Range
<1>4. f = Target(cmd[p], m) \/ (f \in Range(Sources[cmd[p].root]) /\ cmd[p].kind # "update")
  BY <1>0, <1>3 DEF Settled, Planned, Acting
<1>5. cmd[p].root = r /\ cmd[p].kind # "update"
  BY <1>0, <1>1, <1>2, <1>3, <1>4 DEF Private
<1>6. r \in held[p]
  BY <1>0, <1>5 DEF Settled, Namespaced, Acting
<1>7. ASSUME p \notin late
      PROVE  cmd[p].kind \in {"add", "import", "home"} /\ n \in cmd[p].names /\ plan[p][n] = g
  <2>1. Updated(p, f)[n] # "none"
    BY <1>0, <1>1, <1>2 DEF Domains
  <2>2. copy[p][f][n] = "none"
    BY <1>0, <1>1, <1>2, <1>7 DEF Entitled
  <2>3. n \in cmd[p].names /\ plan[p][n] = f /\ cmd[p].kind # "remove"
    BY <1>0, <2>1, <2>2 DEF Updated, Put, TakeOut, HomeImport
  <2>4. cmd[p].kind # "toggle"
    BY <1>0, <1>1, <1>2, <1>7, <2>3 DEF Settled, Toggles
  <2> QED BY <1>0, <1>2, <1>5, <2>3, <2>4, FilesAssumption
<1> QED BY <1>5, <1>6, <1>7

\* What a command writes of a name of its own.
LEMMA UpdatedName ==
    ASSUME NEW p \in Processes, NEW f, NEW n \in Names, n \in DOMAIN plan[p], plan[p][n] = f,
           cmd[p].kind # "home"
    PROVE  Updated(p, f)[n] = Outcome(cmd[p])
BY DEF Updated, Put, TakeOut, Outcome

\* A write changes neither what is known of other files nor what others know.
LEMMA WriteFileSettles ==
    ASSUME SourcesInv, NEW p \in Processes, WriteFile(p)
    PROVE  \A q \in Processes : Settled(q)'
<1>0. /\ Domains /\ Exclusive /\ pc[p] = "write" /\ Entitled(p) /\ Settled(p) /\ cmd[p] \in Commands
      /\ DOMAIN plan[p] = cmd[p].names /\ cmd[p].names \subseteq Names /\ cmd[p].root \in Roots
  BY FilesAssumption DEF SourcesInv, LocksInv, WriteFile, Settled, Namespaced, Planned, Acting
<1>1. PICK f \in todo[p] :
         \/ /\ disk' = [disk EXCEPT ![f] = Updated(p, f)] /\ todo' = [todo EXCEPT ![p] = @ \ {f}]
            /\ \/ pc' = [pc EXCEPT ![p] = IF todo[p] = {f} THEN "done" ELSE "write"]
               \/ pc' = [pc EXCEPT ![p] = "failed"]
            /\ late' = late /\ made \subseteq made' /\ UNCHANGED <<locks, held, cmd, plan, copy>>
         \/ Fail(p)
  BY DEF WriteFile
<1>2. CASE Fail(p)
  BY <1>0, <1>2, FailSettles
<1>3. CASE /\ disk' = [disk EXCEPT ![f] = Updated(p, f)] /\ todo' = [todo EXCEPT ![p] = @ \ {f}]
           /\ \/ pc' = [pc EXCEPT ![p] = IF todo[p] = {f} THEN "done" ELSE "write"]
              \/ pc' = [pc EXCEPT ![p] = "failed"]
           /\ late' = late /\ made \subseteq made' /\ UNCHANGED <<locks, held, cmd, plan, copy>>
  <2>1. /\ \A g \in Files : g # f => disk'[g] = disk[g]
        /\ f \in Files => disk'[f] = Updated(p, f)
        /\ todo'[p] = todo[p] \ {f} /\ cmd'[p] = cmd[p] /\ plan'[p] = plan[p] /\ held'[p] = held[p]
        /\ late' = late
        /\ pc'[p] \in {"done", "write", "failed"} /\ (pc'[p] = "done" => todo[p] = {f})
    BY <1>3, <1>0 DEF Domains
  <2>2. ASSUME NEW r \in Roots, NEW n \in Names, Private(r),
               NEW g \in SourcePaths(r, n)', g \notin SourcePaths(r, n)
        PROVE  cmd[p].root = r /\ r \in held[p] /\ (p \notin late => plan[p][n] = g)
    <3>1. disk' = [disk EXCEPT ![f] = Updated(p, f)] /\ pc[p] = "write"
      BY <1>0, <1>3
    <3> QED BY <2>2, <3>1, NewSource
  <2>3. Namespaced(p)' /\ Planned(p)'
    BY <1>0, <2>1 DEF Settled, Namespaced, Planned, Acting, Target
  <2>4. Unrivalled(p)'
    <3> SUFFICES ASSUME p \notin late, Looked(p)', cmd[p].root \in held[p], Private(cmd[p].root), NEW n \in cmd[p].names
                 PROVE  SourcePaths(cmd[p].root, n)' \subseteq {plan[p][n]}
      BY <2>1 DEF Unrivalled, Private, Target
    <3>1. Looked(p)
      BY <1>0, <2>1 DEF Looked, Acting
    <3>2. SourcePaths(cmd[p].root, n) \subseteq {plan[p][n]}
      BY <1>0, <3>1 DEF Settled, Unrivalled
    <3>3. n \in Names
      BY <1>0
    <3>4. PICK r \in Roots : r = cmd[p].root /\ Private(r)
      BY <1>0
    <3>5. SourcePaths(r, n)' \subseteq SourcePaths(r, n) \cup {plan[p][n]}
      BY <2>2, <3>3, <3>4
    <3>6. SourcePaths(cmd[p].root, n)' = SourcePaths(r, n)'
      BY <2>1, <3>4 DEF SourcePaths
    <3> QED BY <3>2, <3>4, <3>5, <3>6
  <2>5. Toggles(p)'
    <3> SUFFICES ASSUME p \notin late, cmd[p].kind = "toggle", NEW n \in cmd[p].names,
                        plan[p][n] \in (todo[p] \ {f}) \cap Files
                 PROVE  disk'[plan[p][n]][n] # "none"
      BY <2>1 DEF Toggles
    <3> QED BY <1>0, <2>1 DEF Settled, Toggles
  <2>6. Stays(p)'
    <3> SUFFICES ASSUME p \notin late, cmd[p].kind \notin {"home", "update"}, NEW n \in cmd[p].names,
                        plan[p][n] \in held[p] \cap Files, plan[p][n] \notin todo[p] \ {f}
                 PROVE  disk'[plan[p][n]][n] = Outcome(cmd[p])
      BY <2>1 DEF Stays, Outcome
    <3>1. CASE plan[p][n] = f
      <4>1. Updated(p, f)[n] = Outcome(cmd[p])
        BY <1>0, <3>1, UpdatedName
      <4> QED BY <2>1, <3>1, <4>1
    <3>2. CASE plan[p][n] # f
      BY <1>0, <2>1, <3>2 DEF Settled, Stays
    <3> QED BY <3>1, <3>2
  <2>7. Settled(p)'
    BY <2>3, <2>4, <2>5, <2>6 DEF Settled
  <2>8. ASSUME NEW q \in Processes \ {p} PROVE Settled(q)'
    <3>1. /\ Entitled(q) /\ Settled(q) /\ f \notin held[q] /\ held[p] \cap held[q] = {}
      BY <1>0 DEF SourcesInv, LocksInv, Exclusive, Entitled
    <3>2. /\ held'[q] = held[q] /\ pc'[q] = pc[q] /\ cmd'[q] = cmd[q] /\ plan'[q] = plan[q]
          /\ todo'[q] = todo[q] /\ (q \in late' <=> q \in late)
      BY <1>0, <1>3 DEF Domains
    <3>3. \A g \in held[q] \cap Files : disk'[g] = disk[g]
      BY <2>1, <3>1
    <3>4. \A r \in held[q] \cap Roots, n \in Names :
             Private(r) => SourcePaths(r, n)' \subseteq SourcePaths(r, n)
      BY <2>2, <3>1
    <3> QED BY <3>1, <3>2, <3>3, <3>4, OthersSettled
  <2> QED BY <2>7, <2>8
<1> QED BY <1>1, <1>2, <1>3

\* Dropping a lock leaves what is known under the others.
LEMMA UnlockSettles ==
    ASSUME SourcesInv, NEW p \in Processes, Unlock(p)
    PROVE  \A q \in Processes : Settled(q)'
<1>0. Domains /\ pc[p] \in {"failed", "done"} /\ Settled(p) /\ disk' = disk
  BY DEF SourcesInv, LocksInv, Unlock
<1>1. PICK l \in held[p] :
         /\ locks' = locks \ {l} /\ held' = [held EXCEPT ![p] = @ \ {l}]
         /\ IF held[p] = {l} THEN Forget(p) ELSE UNCHANGED <<pc, cmd, plan, todo, copy, late>>
  BY DEF Unlock
<1>2. held'[p] \subseteq held[p] /\ \A q \in Processes \ {p} : held'[q] = held[q]
  BY <1>0, <1>1 DEF Domains
<1>3. CASE Forget(p)
  BY <1>0, <1>2, <1>3, ForgetSettles
<1>4. CASE UNCHANGED <<pc, cmd, plan, todo, copy, late>>
  <2>1. Namespaced(p)' /\ Planned(p)' /\ Toggles(p)'
    BY <1>0, <1>4 DEF Settled, Namespaced, Planned, Toggles, Acting, Target
  <2>2. Unrivalled(p)'
    <3> SUFFICES ASSUME p \notin late, Looked(p), cmd[p].root \in held[p], Private(cmd[p].root), NEW n \in cmd[p].names
                 PROVE  SourcePaths(cmd[p].root, n)' \subseteq {plan[p][n]}
      BY <1>2, <1>4 DEF Unrivalled, Looked, Private, Target
    <3>1. SourcePaths(cmd[p].root, n)' = SourcePaths(cmd[p].root, n)
      BY <1>0, <1>4 DEF SourcePaths
    <3> QED BY <1>0, <3>1 DEF Settled, Unrivalled
  <2>3. Stays(p)'
    BY <1>0, <1>2, <1>4 DEF Settled, Stays, Outcome
  <2>4. \A q \in Processes \ {p} : Settled(q)'
    BY <1>0, <1>2, <1>4, BystandersSettled
  <2> QED BY <2>1, <2>2, <2>3, <2>4 DEF Settled
<1> QED BY <1>1, <1>3, <1>4

\* A process that dies is one that has no command.
LEMMA CrashSettles ==
    ASSUME SourcesInv, NEW p \in Processes, Crash(p)
    PROVE  \A q \in Processes : Settled(q)'
<1>1. /\ held' = [held EXCEPT ![p] = {}] /\ Forget(p) /\ disk' = disk /\ Domains
  BY DEF Crash, SourcesInv, LocksInv
<1>2. \A q \in Processes \ {p} : held'[q] = held[q]
  BY <1>1 DEF Domains
<1> QED BY <1>1, <1>2, ForgetSettles

\* A step that leaves the processes and the files alone.
LEMMA RestSettled ==
    ASSUME SourcesInv, UNCHANGED <<disk, held, pc, cmd, plan, todo, late, made>>
    PROVE  \A q \in Processes : Settled(q)'
<1> SUFFICES ASSUME NEW q \in Processes PROVE Settled(q)'
  OBVIOUS
<1>1. Entitled(q) /\ Settled(q)
  BY DEF SourcesInv, LocksInv
<1>2. \A r \in held[q] \cap Roots, n \in Names : Private(r) => SourcePaths(r, n)' \subseteq SourcePaths(r, n)
  BY SameSources
<1> QED BY <1>1, <1>2, OthersSettled

\* A seed takes entries away, and says so to the commands that know of them.
LEMMA SeedSettles ==
    ASSUME SourcesInv, NEW p \in Processes, Seed(p)
    PROVE  \A q \in Processes : Settled(q)'
<1>0. UNCHANGED <<locks, held, pc, cmd, plan, todo>>
  BY DEF Seed, SeedLooks, SeedWrites, SeedFails
<1>1. CASE UNCHANGED <<disk, late, made>>
  BY <1>0, <1>1, RestSettled
<1>2. ASSUME NEW f \in Seedable, SeedWrites(p, f), NEW q \in Processes
      PROVE  Settled(q)'
  <2>0. Domains /\ Entitled(q) /\ Settled(q) /\ f \in Files
    BY FilesAssumption DEF SourcesInv, LocksInv
  <2>1. /\ disk' = [disk EXCEPT ![f] = Blank]
        /\ late' = late \cup {k \in Processes : Overtakes(f, k)}
    BY <1>2 DEF SeedWrites
  <2>2. /\ disk'[f] = Blank /\ \A g \in Files : g # f => disk'[g] = disk[g]
    BY <2>0, <2>1 DEF Domains
  <2>3. Namespaced(q)' /\ Planned(q)'
    BY <1>0, <2>0 DEF Settled, Namespaced, Planned
  <2>4. ASSUME q \notin late' PROVE q \notin late /\ ~Overtakes(f, q)
    BY <2>1, <2>4
  <2>5. Unrivalled(q)'
    <3> SUFFICES ASSUME q \notin late', Looked(q), cmd[q].root \in held[q], Private(cmd[q].root),
                        NEW n \in cmd[q].names
                 PROVE  SourcePaths(cmd[q].root, n)' \subseteq {plan[q][n]}
      BY <1>0 DEF Unrivalled, Looked, SourcePaths
    <3>1. n \in Names /\ cmd[q].root \in Roots
      BY <2>0, FilesAssumption DEF Settled, Namespaced, Looked, Acting
    <3>2. SourcePaths(cmd[q].root, n) \subseteq {plan[q][n]}
      BY <2>0, <2>4 DEF Settled, Unrivalled
    <3>3. ASSUME NEW g \in Range(Sources[cmd[q].root]), disk'[g][n] # "none"
          PROVE  g \in SourcePaths(cmd[q].root, n)
      <4>1. g \in Files
        BY SMTT(30), <3>1, FilesAssumption DEF Range
      <4>2. g # f
        BY <2>2, <3>1, <3>3 DEF Blank
      <4> QED BY <2>2, <3>3, <4>1, <4>2 DEF SourcePaths
    <3> QED BY <1>0, <3>2, <3>3 DEF SourcePaths
  <2>6. Toggles(q)'
    <3> SUFFICES ASSUME q \notin late', pc[q] = "write", cmd[q].kind = "toggle",
                        NEW n \in cmd[q].names, plan[q][n] \in todo[q] \cap Files
                 PROVE  disk'[plan[q][n]][n] # "none"
      BY <1>0 DEF Toggles
    <3>1. plan[q][n] # f
      BY <2>0, <2>4 DEF Entitled, Overtakes
    <3> QED BY <2>0, <2>2, <2>4, <3>1 DEF Settled, Toggles
  <2>7. Stays(q)'
    <3>1. pc[q] = "done" /\ cmd[q].kind # "home" => todo[q] = {}
      BY <2>0 DEF Settled, Stays
    <3> SUFFICES ASSUME q \notin late', pc[q] \in {"write", "done"},
                        cmd[q].kind \notin {"home", "update"}, NEW n \in cmd[q].names,
                        plan[q][n] \in (held[q] \cap Files) \ todo[q]
                 PROVE  disk'[plan[q][n]][n] = Outcome(cmd[q])
      BY <1>0, <3>1 DEF Stays
    <3>2. plan[q][n] \in Range(plan[q])
      BY <2>0 DEF Settled, Planned, Acting, Range
    <3>3. plan[q][n] # f
      BY <2>4, <3>2 DEF Overtakes
    <3> QED BY <2>0, <2>2, <2>4, <3>3 DEF Settled, Stays
  <2> QED BY <2>3, <2>5, <2>6, <2>7 DEF Settled
<1> QED BY <1>1, <1>2 DEF Seed, SeedLooks, SeedFails

-----------------------------------------------------------------------------

\* While a process holds the lock of its namespace, what it found of the sources of its
\* names is so (acquire_mcp_settings_namespace_lock, reject_cross_source_shadowing,
\* find_source_path_for_server).
THEOREM SourcesInvariant == FilesSpec => []SourcesInv
<1>1. FilesInit => \A p \in Processes : Settled(p)
  BY DEF FilesInit, Settled, Namespaced, Planned, Unrivalled, Looked, Toggles, Stays, Acting
<1>2. SourcesInv /\ LocksInv' /\ [FilesNext]_fileVars => SourcesInv'
  <2> SUFFICES ASSUME SourcesInv, LocksInv', [FilesNext]_fileVars
               PROVE  \A q \in Processes : Settled(q)'
    BY DEF SourcesInv
  <2>1. ASSUME NEW p \in Processes, Step(p) PROVE \A q \in Processes : Settled(q)'
    BY <2>1, StartSettles, LockHomeSettles, LocateSettles, LockFileSettles, ReadFilesSettles,
       WriteFileSettles, UnlockSettles DEF Step
  <2>2. ASSUME NEW p \in Processes, Crash(p) PROVE \A q \in Processes : Settled(q)'
    BY <2>2, CrashSettles
  <2>3. CASE RemoveStaleLock \/ UNCHANGED fileVars
    BY <2>3, RestSettled DEF RemoveStaleLock, fileVars
  <2>4. ASSUME NEW p \in Processes, Seed(p) PROVE \A q \in Processes : Settled(q)'
    BY <2>4, SeedSettles
  <2> QED BY <2>1, <2>2, <2>3, <2>4 DEF FilesNext
<1>3. FilesInit /\ LocksInv => SourcesInv
  BY <1>1 DEF SourcesInv
<1> QED BY <1>2, <1>3, LocksInvariant, PTL DEF FilesSpec

\* The sources a step may give to a server.
Shadowing ==
    disk' # disk =>
       \A r \in Roots, n \in Names :
          /\ Private(r)
          /\ Cardinality(SourcePaths(r, n)) <= 1 /\ Cardinality(SourcePaths(r, n)') > 1
          => \E p \in Processes : pc[p] = "write" /\ (cmd[p].kind = "home" \/ p \in late)

\* A write of a command that looked makes at most one source.
LEMMA WriteShadows ==
    ASSUME SourcesInv, NEW p \in Processes, WriteFile(p)
    PROVE  Shadowing
<1> SUFFICES ASSUME disk' # disk, NEW r \in Roots, NEW n \in Names, Private(r),
                    Cardinality(SourcePaths(r, n)) <= 1, Cardinality(SourcePaths(r, n)') > 1,
                    cmd[p].kind # "home", p \notin late
             PROVE  FALSE
  BY DEF Shadowing, WriteFile
<1>1. PICK f \in todo[p] : disk' = [disk EXCEPT ![f] = Updated(p, f)] /\ pc[p] = "write"
  BY DEF WriteFile, Fail
<1>2. PICK T : T = SourcePaths(r, n)'
  OBVIOUS
<1>3. IsFiniteSet(SourcePaths(r, n))
  BY SourcesFinite
<1>4. PICK g \in T : g \notin SourcePaths(r, n)
  <2> SUFFICES ASSUME T \subseteq SourcePaths(r, n) PROVE FALSE
    OBVIOUS
  <2>1. Cardinality(T) <= Cardinality(SourcePaths(r, n)) /\ IsFiniteSet(T)
    BY <1>3, FS_Subset
  <2>2. Cardinality(T) \in Nat /\ Cardinality(SourcePaths(r, n)) \in Nat
    BY <1>3, <2>1, FS_CardinalityType
  <2> QED BY SMTT(30), <1>2, <2>1, <2>2
<1>5. \A h \in T : h \notin SourcePaths(r, n) =>
         /\ cmd[p].root = r /\ r \in held[p] /\ cmd[p].kind \in {"add", "import", "home"}
         /\ n \in cmd[p].names /\ plan[p][n] = h
  BY <1>1, <1>2, NewSource
<1>6. /\ cmd[p].root = r /\ r \in held[p] /\ cmd[p].kind \in {"add", "import"}
      /\ n \in cmd[p].names /\ plan[p][n] = g
  BY <1>4, <1>5
<1>7. SourcePaths(r, n) \subseteq {g}
  BY <1>1, <1>6 DEF SourcesInv, Settled, Unrivalled, Looked, Acting
<1>8. T \subseteq {g}
  BY <1>5, <1>6, <1>7
<1>9. IsFiniteSet({g}) /\ Cardinality({g}) = 1
  BY FS_Singleton
<1>10. Cardinality(T) <= 1 /\ Cardinality(T) \in Nat
  BY <1>8, <1>9, FS_Subset, FS_CardinalityType
<1> QED BY SMTT(30), <1>2, <1>10

\* A seed gives no server a source.
LEMMA SeedShadows ==
    ASSUME SourcesInv, NEW p \in Processes, NEW f \in Seedable, SeedWrites(p, f)
    PROVE  Shadowing
<1> SUFFICES ASSUME NEW r \in Roots, NEW n \in Names,
                    Cardinality(SourcePaths(r, n)) <= 1, Cardinality(SourcePaths(r, n)') > 1
             PROVE  FALSE
  BY DEF Shadowing
<1>1. /\ f \in Files /\ disk' = [disk EXCEPT ![f] = Blank] /\ Domains
  BY FilesAssumption DEF SeedWrites, SourcesInv, LocksInv
<1>2. PICK T : T = SourcePaths(r, n)'
  OBVIOUS
<1>3. IsFiniteSet(SourcePaths(r, n))
  BY SourcesFinite
<1>4. T \subseteq SourcePaths(r, n)
  <2> SUFFICES ASSUME NEW g \in Range(Sources[r]), disk'[g][n] # "none" PROVE disk[g][n] # "none"
    BY <1>2 DEF SourcePaths
  <2>1. g \in Files
    BY SMTT(30), FilesAssumption DEF Range
  <2>2. CASE g = f
    <3>1. disk'[g] = Blank
      BY <1>1, <2>2 DEF Domains
    <3> QED BY <3>1 DEF Blank
  <2>3. CASE g # f
    BY <1>1, <2>1, <2>3 DEF Domains
  <2> QED BY <2>2, <2>3
<1>5. Cardinality(T) <= Cardinality(SourcePaths(r, n)) /\ IsFiniteSet(T)
  BY <1>3, <1>4, FS_Subset
<1>6. Cardinality(T) \in Nat /\ Cardinality(SourcePaths(r, n)) \in Nat
  BY <1>3, <1>5, FS_CardinalityType
<1> QED BY SMTT(30), <1>2, <1>5, <1>6

\* Of all commands only the home import gives a server of a private root a second source,
\* whatever runs at the same time and whatever crashed (reject_cross_source_shadowing);
\* a command that a seed overtook may bring one back.
THEOREM OnlyHomeImport == FilesSpec => OnlyHomeImportShadows
<1>1. SourcesInv /\ [FilesNext]_fileVars => [Shadowing]_fileVars
  <2> SUFFICES ASSUME SourcesInv, FilesNext PROVE Shadowing
    OBVIOUS
  <2>1. ASSUME disk' = disk PROVE Shadowing
    BY <2>1 DEF Shadowing
  <2>2. ASSUME NEW p \in Processes, Step(p) PROVE Shadowing
    <3>1. WriteFile(p) \/ disk' = disk
      BY <2>2 DEF Step, Start, StartUpdate, StartHome, LockHome, LocateAdd, LocateExisting,
         LocateImport, Go, LockFile, ReadFiles, Unlock, Fail
    <3> QED BY <3>1, <2>1, WriteShadows
  <2>3. (\E p \in Processes : Crash(p)) \/ RemoveStaleLock => disk' = disk
    BY DEF Crash, RemoveStaleLock
  <2>4. ASSUME NEW p \in Processes, Seed(p) PROVE Shadowing
    <3>1. disk' = disk \/ \E f \in Seedable : SeedWrites(p, f)
      BY <2>4 DEF Seed, SeedLooks, SeedFails
    <3> QED BY <3>1, <2>1, SeedShadows
  <2> QED BY <2>1, <2>2, <2>3, <2>4 DEF FilesNext
<1>2. OnlyHomeImportShadows <=> [][Shadowing]_fileVars
  BY DEF OnlyHomeImportShadows, Shadowing
<1> QED BY <1>1, <1>2, SourcesInvariant, PTL DEF FilesSpec

Before == OpToRel(<, Nat)

\* A set of places in a sequence has a last one.
LEMMA LastPlace ==
    ASSUME NEW L \in Nat, NEW I \in SUBSET (1 .. L), I # {}
    PROVE  \E m \in I : \A i \in I : i <= m
<1> DEFINE T == {L - i : i \in I}
<1>1. T \subseteq Nat
  BY SMTT(30)
<1>2. T # {}
  OBVIOUS
<1>3. PICK n \in T : \A m \in T : <<m, n>> \notin Before
  BY <1>1, <1>2, NatLessThanWellFounded, WFMin DEF Before
<1>4. PICK k \in I : n = L - k
  BY <1>3
<1>5. ASSUME NEW i \in I PROVE i <= k
  <2>1. L - i \in Nat /\ n \in Nat /\ L - i \in T
    BY <1>1, <1>3
  <2>2. ~(L - i < n)
    BY <1>3, <2>1 DEF Before, OpToRel
  <2> QED BY SMTT(30), <1>4, <2>1, <2>2
<1> QED BY <1>5

\* What the registry says of a server with one source, or with none.
LEMMA EffectiveSource ==
    ASSUME NEW r \in Roots, NEW n, NEW f, SourcePaths(r, n) \subseteq {f}
    PROVE  /\ f \in Range(Sources[r]) => Effective(r, n) = disk[f][n]
           /\ disk[f][n] = "none" => Effective(r, n) = "none"
<1> DEFINE hits == {i \in DOMAIN Sources[r] : disk[Sources[r][i]][n] # "none"}
<1>1. \A i \in hits : Sources[r][i] = f
  BY DEF SourcePaths, Range
<1>2. CASE hits = {}
  <2>1. Effective(r, n) = "none"
    BY <1>2 DEF Effective
  <2>2. f \in Range(Sources[r]) => disk[f][n] = "none"
    BY <1>2 DEF Range
  <2> QED BY <2>1, <2>2
<1>3. CASE hits # {}
  <2>1. hits \subseteq 1 .. Len(Sources[r]) /\ Len(Sources[r]) \in Nat
    BY SMTT(30), FilesAssumption
  <2>2. \E i \in hits : \A j \in hits : j <= i
    BY <1>3, <2>1, LastPlace
  <2>3. (CHOOSE i \in hits : \A j \in hits : j <= i) \in hits
    BY <2>2
  <2>4. Effective(r, n) = disk[f][n]
    BY <1>1, <1>3, <2>3 DEF Effective
  <2>5. disk[f][n] # "none"
    BY <1>1, <1>3
  <2> QED BY <2>4, <2>5
<1> QED BY <1>2, <1>3

\* A command that reports success did what it says to the server the registry resolves the
\* name to (write_mcp_server_entry, import_mcp_server_entries, remove_mcp_server_entry,
\* set_mcp_server_enabled), unless a seed replaced its file meanwhile.
THEOREM SuccessAlwaysEffective == FilesSpec => []SuccessIsEffective
<1>1. SourcesInv => SuccessIsEffective
  <2> SUFFICES ASSUME SourcesInv, NEW p \in Processes, pc[p] = "done",
                      cmd[p].kind \in {"add", "import", "remove", "toggle"}, Private(cmd[p].root),
                      held[p] = Range(plan[p]) \cup {cmd[p].root}, p \notin late,
                      IF cmd[p].kind \in {"add", "import"}
                      THEN Range(plan[p]) \subseteq Range(Sources[cmd[p].root])
                      ELSE cmd[p].path = NoFile,
                      NEW n \in cmd[p].names
               PROVE  Effective(cmd[p].root, n) = Outcome(cmd[p])
    BY DEF SuccessIsEffective, Outcome
  <2>0. Settled(p) /\ cmd[p] \in Commands /\ cmd[p].root \in Roots
    BY FilesAssumption DEF SourcesInv, Settled, Namespaced
  <2>1. DOMAIN plan[p] = cmd[p].names /\ todo[p] = {}
    BY <2>0 DEF Settled, Planned, Stays
  <2>2. plan[p][n] \in held[p] /\ plan[p][n] \in Range(Sources[cmd[p].root])
    <3>1. plan[p][n] \in Range(plan[p])
      BY <2>1 DEF Range
    <3> QED BY <2>0, <3>1 DEF Settled, Planned
  <2>3. plan[p][n] \in Files
    BY SMTT(30), <2>0, <2>2, FilesAssumption DEF Range
  <2>4. disk[plan[p][n]][n] = Outcome(cmd[p])
    BY <2>0, <2>1, <2>2, <2>3 DEF Settled, Stays
  <2>5. Looked(p) /\ cmd[p].root \in held[p]
    BY DEF Looked
  <2>6. SourcePaths(cmd[p].root, n) \subseteq {plan[p][n]}
    BY <2>0, <2>5 DEF Settled, Unrivalled
  <2> QED BY <2>0, <2>2, <2>4, <2>6, EffectiveSource
<1> QED BY <1>1, SourcesInvariant, PTL

-----------------------------------------------------------------------------
(* Client configurations: what install and removal replace can be brought   *)
(* back.  At most one command works on the file, but for restores, which    *)
(* take no lock; the invariant says what its backup is by the time it       *)
(* writes, and that a restore that gets in between has used a backup that   *)
(* stays.                                                                   *)

Working == {"stat", "read", "backup", "content", "manifest", "write", "unlock"}

Backup == [existed : BOOLEAN, before : Content \cup {Missing}, manifest : BOOLEAN]
Job == [kind : {"none", "install", "remove", "restore"}, url : Urls \cup {NoEntry},
        existed : BOOLEAN, existing : Content \cup {Missing}, backup : Nat]

ConfigTypes == /\ config \in Content \cup {Missing} /\ backups \in Seq(Backup)
               /\ stage \in [Installers -> {"idle", "restore"} \cup Working]
               /\ job \in [Installers -> Job] /\ raced \in [Installers -> BOOLEAN]

\* The lock file admits one command.
OneWorker ==
    \A p \in Installers : stage[p] \in Working =>
       locked /\ \A q \in Installers \ {p} : stage[q] \notin Working

\* The first part of BackupsRestore.
WholeBackups == \A b \in Complete : backups[b].existed => backups[b].before \in Content

\* What a command on its way to the write has of the file and of its backup.
Prepared(p) ==
    /\ stage[p] \in Working => job[p].kind \in {"install", "remove"} /\ job[p].url \in Urls
    /\ stage[p] = "read" /\ ~raced[p] =>
          job[p].existed = ((config # Missing) \/ job[p].kind = "remove")
    /\ stage[p] \in {"backup", "content", "manifest", "write"} =>
          /\ job[p].existing \in Content
          /\ ~raced[p] => config = IF job[p].existed THEN job[p].existing ELSE Missing
    /\ stage[p] \in {"content", "manifest", "write"} =>
          /\ job[p].backup \in DOMAIN backups
          /\ backups[job[p].backup].existed = job[p].existed
          /\ backups[job[p].backup].manifest = (stage[p] = "write")
    /\ stage[p] = "content" => job[p].existed
    /\ stage[p] \in {"manifest", "write"} /\ job[p].existed =>
          backups[job[p].backup].before = job[p].existing

\* A restore uses a whole backup, and what it put there can be restored again.
Restorable(p) ==
    /\ stage[p] \notin Working => ~raced[p]
    /\ stage[p] = "restore" => job[p].backup \in Complete
    /\ raced[p] /\ stage[p] \in Working \ {"unlock"} => \E b \in Complete : Restored(b) = config

ConfigInv == /\ ConfigTypes /\ OneWorker /\ WholeBackups
             /\ \A p \in Installers : Prepared(p) /\ Restorable(p)

-----------------------------------------------------------------------------

\* What replaces one backup does to the others.
LEMMA BackupReplaced ==
    ASSUME backups \in Seq(Backup), NEW b \in DOMAIN backups, NEW x \in Backup,
           backups' = [backups EXCEPT ![b] = x]
    PROVE  /\ backups' \in Seq(Backup) /\ DOMAIN backups' = DOMAIN backups /\ backups'[b] = x
           /\ \A c \in DOMAIN backups \ {b} : backups'[c] = backups[c]
BY SMTT(30)

\* What a new backup does to the others.
LEMMA BackupAppended ==
    ASSUME backups \in Seq(Backup), NEW x \in Backup, backups' = Append(backups, x)
    PROVE  /\ backups' \in Seq(Backup) /\ DOMAIN backups' = DOMAIN backups \cup {Len(backups) + 1}
           /\ backups'[Len(backups) + 1] = x /\ Len(backups) + 1 \in Nat
           /\ Len(backups) + 1 \notin DOMAIN backups
           /\ \A c \in DOMAIN backups : backups'[c] = backups[c]
BY SMTT(30)

\* What install and removal write is a configuration.
LEMMA NewContentsTypes ==
    ASSUME NEW j \in Job, j.url \in Urls, NEW e \in Content
    PROVE  NewContents(j, e) \in Content
BY DEF NewContents, Installed, Removed, Content

\* The processes that are not at work on the file, while one that is, or that has just
\* taken the lock, makes a step: the backups they may have chosen stay whole.
LEMMA OthersWait ==
    ASSUME ConfigInv, NEW p \in Installers, NEW l, Goto(p, l), ConfigTypes',
           stage[p] \in Working \/ ~locked,
           \A q \in Installers \ {p} : job'[q] = job[q] /\ raced'[q] = raced[q],
           Complete \subseteq Complete',
           l \in Working => locked'
    PROVE  /\ OneWorker'
           /\ \A q \in Installers \ {p} : (Prepared(q) /\ Restorable(q))'
<1>1. \A q \in Installers \ {p} : stage[q] \notin Working /\ stage'[q] = stage[q]
  BY DEF ConfigInv, OneWorker, Goto, ConfigTypes
<1>2. stage'[p] = l
  BY DEF ConfigInv, Goto, ConfigTypes
<1>3. OneWorker'
  BY <1>1, <1>2 DEF OneWorker
<1>4. ASSUME NEW q \in Installers \ {p} PROVE (Prepared(q) /\ Restorable(q))'
  <2>1. stage'[q] \notin Working /\ stage'[q] = stage[q]
    BY <1>1
  <2>2. Prepared(q)'
    BY <2>1 DEF Prepared, Working
  <2>3. Restorable(q)'
    BY <2>1 DEF Restorable, ConfigInv
  <2> QED BY <2>2, <2>3
<1> QED BY <1>3, <1>4

\* What can be restored stays, when the file and the whole backups do.
LEMMA RestorableStays ==
    ASSUME NEW p \in Installers, Restorable(p),
           stage[p] \in Working \ {"unlock"}, stage'[p] \in Working, raced'[p] = raced[p],
           \/ stage'[p] = "unlock"
           \/ config' = config /\ Complete \subseteq Complete'
              /\ \A b \in Complete : Restored(b)' = Restored(b)
    PROVE  Restorable(p)'
BY DEF Restorable, Working

\* And what a process has, when the others leave the file and the backups alone.
LEMMA NothingTouched ==
    ASSUME NEW p \in Installers, Prepared(p), Restorable(p), stage'[p] = stage[p],
           job'[p] = job[p], raced'[p] = raced[p], config' = config, backups' = backups
    PROVE  (Prepared(p) /\ Restorable(p))'
<1>1. Prepared(p)'
  BY DEF Prepared
<1>2. Complete' = Complete /\ \A b \in Complete : Restored(b)' = Restored(b)
  BY DEF Complete, Restored
<1>3. raced[p] /\ stage[p] \in Working \ {"unlock"} =>
         \E b \in Complete' : Restored(b)' = config'
  BY <1>2 DEF Restorable
<1>4. /\ stage[p] = "restore" => job[p].backup \in Complete'
      /\ stage[p] \notin Working => ~raced[p]
  BY <1>2 DEF Restorable
<1>5. Restorable(p)'
  BY <1>3, <1>4 DEF Restorable
<1> QED BY <1>1, <1>5

\* Taking the lock.
LEMMA LockKeeps ==
    ASSUME ConfigInv, NEW p \in Installers, NEW k \in {"install", "remove"}, NEW u \in Urls,
           Lock(p, k, u)
    PROVE  ConfigInv'
<1>1. ConfigTypes'
  <2>1. [NoJob EXCEPT !.kind = k, !.url = u] \in Job
    BY DEF NoJob, Job
  <2>2. stage' \in [Installers -> {"idle", "restore"} \cup Working]
    BY DEF ConfigInv, ConfigTypes, Lock, Goto, Working
  <2> QED BY <2>1, <2>2 DEF ConfigInv, ConfigTypes, Lock
<1>2. Complete' = Complete /\ WholeBackups'
  BY DEF Lock, Complete, WholeBackups, ConfigInv
<1>3. OneWorker' /\ \A q \in Installers \ {p} : (Prepared(q) /\ Restorable(q))'
  <2>1. \A q \in Installers \ {p} : job'[q] = job[q] /\ raced'[q] = raced[q]
    BY DEF Lock, ConfigInv, ConfigTypes
  <2> QED BY <1>1, <1>2, <2>1, OthersWait DEF Lock
<1>4. /\ stage'[p] = "stat" /\ job'[p] = [NoJob EXCEPT !.kind = k, !.url = u] /\ ~raced'[p]
  BY DEF Lock, Goto, ConfigInv, ConfigTypes, Restorable, Working
<1>5. (Prepared(p) /\ Restorable(p))'
  <2>1. job'[p].kind = k /\ job'[p].url = u
    BY <1>4 DEF NoJob
  <2>2. Prepared(p)'
    BY <1>4, <2>1 DEF Prepared
  <2> QED BY <1>4, <2>2 DEF Restorable
<1> QED BY <1>1, <1>2, <1>3, <1>5 DEF ConfigInv

\* A step of the command at work that leaves the backups alone.
LEMMA WorkerStep ==
    ASSUME ConfigInv, NEW p \in Installers, stage[p] \in Working, NEW l, Goto(p, l),
           l \in Working, UNCHANGED <<locked, backups, raced>>,
           config' \in Content \cup {Missing},
           NEW j \in Job, job' = [job EXCEPT ![p] = j],
           (Prepared(p) /\ Restorable(p))'
    PROVE  ConfigInv'
<1>1. ConfigTypes'
  <2>1. stage' \in [Installers -> {"idle", "restore"} \cup Working]
    BY DEF ConfigInv, ConfigTypes, Goto
  <2> QED BY <2>1 DEF ConfigInv, ConfigTypes
<1>2. Complete' = Complete /\ WholeBackups'
  BY DEF Complete, WholeBackups, ConfigInv
<1>3. locked'
  BY DEF ConfigInv, OneWorker
<1>4. \A q \in Installers \ {p} : job'[q] = job[q] /\ raced'[q] = raced[q]
  BY DEF ConfigInv, ConfigTypes
<1> QED BY <1>1, <1>2, <1>3, <1>4, OthersWait DEF ConfigInv

\* Seeing whether there is a file.
LEMMA StatKeeps ==
    ASSUME ConfigInv, NEW p \in Installers, Stat(p)
    PROVE  ConfigInv'
<1> DEFINE e == (config # Missing) \/ job[p].kind = "remove"
           j == [job[p] EXCEPT !.existed = e]
<1>1. job[p] \in Job /\ e \in BOOLEAN
  BY DEF ConfigInv, ConfigTypes
<1>2. j \in Job /\ j.existed = e /\ j.kind = job[p].kind /\ j.url = job[p].url
  BY <1>1 DEF Job
<1>3. job' = [job EXCEPT ![p] = j] /\ job'[p] = j
  BY DEF Stat, ConfigInv, ConfigTypes
<1>4. stage[p] = "stat" /\ stage'[p] = "read" /\ raced'[p] = raced[p] /\ config' = config
  BY DEF Stat, Goto, ConfigInv, ConfigTypes
<1>5. Prepared(p)'
  <2>1. job'[p].existed = e /\ job'[p].kind = job[p].kind /\ job'[p].url = job[p].url
    BY <1>2, <1>3
  <2>2. job[p].kind \in {"install", "remove"} /\ job[p].url \in Urls
    BY <1>4 DEF Prepared, ConfigInv, Working
  <2> QED BY <1>4, <2>1, <2>2 DEF Prepared
<1>6. Restorable(p)'
  BY <1>4, RestorableStays DEF Stat, Working, ConfigInv, Complete, Restored
<1>7. config' \in Content \cup {Missing}
  BY <1>4 DEF ConfigInv, ConfigTypes
<1> HIDE DEF j, e
<1> QED BY <1>2, <1>3, <1>4, <1>5, <1>6, <1>7, WorkerStep DEF Stat, Working

\* Reading it: what it is when it is not missing, and empty to an install when it is.
LEMMA ReadKeeps ==
    ASSUME ConfigInv, NEW p \in Installers, Read(p)
    PROVE  ConfigInv'
<1> DEFINE e == IF config = Missing THEN [part |-> EmptyPart, entry |-> NoEntry] ELSE config
           j == [job[p] EXCEPT !.existing = e]
<1>1. job[p] \in Job /\ e \in Content
  BY DEF ConfigInv, ConfigTypes, Content
<1>2. /\ j \in Job /\ j.existing = e /\ j.existed = job[p].existed
      /\ j.kind = job[p].kind /\ j.url = job[p].url
  BY <1>1 DEF Job
<1>3. job' = [job EXCEPT ![p] = j] /\ job'[p] = j
  BY DEF Read, ConfigInv, ConfigTypes
<1>4. /\ stage[p] = "read" /\ raced'[p] = raced[p] /\ config' = config
      /\ stage'[p] \in {"backup", "unlock"}
      /\ stage'[p] = "backup" => config # Missing \/ job[p].kind = "install"
  BY DEF Read, Goto, ConfigInv, ConfigTypes
<1>5. Prepared(p)'
  <2>1. /\ job[p].kind \in {"install", "remove"} /\ job[p].url \in Urls
        /\ ~raced[p] => job[p].existed = ((config # Missing) \/ job[p].kind = "remove")
    BY <1>4 DEF Prepared, ConfigInv, Working
  <2>2. /\ job'[p].existing = e /\ job'[p].existed = job[p].existed
        /\ job'[p].kind = job[p].kind /\ job'[p].url = job[p].url
    BY <1>2, <1>3
  <2>3. stage'[p] = "backup" /\ ~raced'[p] =>
           config' = IF job'[p].existed THEN job'[p].existing ELSE Missing
    BY <1>4, <2>1, <2>2
  <2> QED BY <1>1, <1>4, <2>1, <2>2, <2>3 DEF Prepared
<1>6. Restorable(p)'
  BY <1>4, RestorableStays DEF Read, Working, ConfigInv, Complete, Restored
<1>7. config' \in Content \cup {Missing}
  BY <1>4 DEF ConfigInv, ConfigTypes
<1>8. PICK l \in {"backup", "unlock"} : Goto(p, l)
  BY DEF Read
<1> HIDE DEF j, e
<1> QED BY <1>2, <1>3, <1>4, <1>5, <1>6, <1>7, <1>8, WorkerStep DEF Read, Working

\* The write, or giving up.
LEMMA WriteKeeps ==
    ASSUME ConfigInv, NEW p \in Installers, Write(p) \/ GiveUp(p)
    PROVE  ConfigInv'
<1>1. job[p] \in Job /\ job' = [job EXCEPT ![p] = job[p]] /\ job'[p] = job[p]
  BY DEF Write, GiveUp, ConfigInv, ConfigTypes
<1>2. /\ stage[p] \in Working \ {"unlock"} /\ Goto(p, "unlock") /\ stage'[p] = "unlock"
      /\ raced'[p] = raced[p] /\ UNCHANGED <<locked, backups, raced>>
  BY DEF Write, GiveUp, Goto, ConfigInv, ConfigTypes, Working
<1>3. config' \in Content \cup {Missing}
  <2>1. CASE Write(p)
    BY <2>1, <1>1, NewContentsTypes DEF Write, ConfigInv, Prepared, Working
  <2>2. CASE GiveUp(p)
    BY <2>2 DEF GiveUp, ConfigInv, ConfigTypes
  <2> QED BY <2>1, <2>2
<1>4. Prepared(p)'
  BY <1>1, <1>2 DEF Prepared, ConfigInv
<1>5. Restorable(p)'
  BY <1>2, RestorableStays DEF ConfigInv, Working
<1>6. stage[p] \in Working /\ "unlock" \in Working
  BY <1>2 DEF Working
<1> QED BY <1>1, <1>2, <1>3, <1>4, <1>5, <1>6, WorkerStep

\* A step that works on the backup: no whole backup is touched.
LEMMA BackupStep ==
    ASSUME ConfigInv, NEW p \in Installers, stage[p] \in Working \ {"unlock"},
           NEW l, Goto(p, l), l \in Working, UNCHANGED <<config, locked, raced>>,
           NEW j \in Job, job' = [job EXCEPT ![p] = j], backups' \in Seq(Backup),
           \A b \in Complete : b \in DOMAIN backups' /\ backups'[b] = backups[b],
           WholeBackups', Prepared(p)'
    PROVE  ConfigInv'
<1>1. ConfigTypes'
  <2>1. stage' \in [Installers -> {"idle", "restore"} \cup Working]
    BY DEF ConfigInv, ConfigTypes, Goto
  <2> QED BY <2>1 DEF ConfigInv, ConfigTypes
<1>2. Complete \subseteq Complete' /\ \A b \in Complete : Restored(b)' = Restored(b)
  BY DEF Complete, Restored
<1>3. locked'
  BY DEF ConfigInv, OneWorker
<1>4. \A q \in Installers \ {p} : job'[q] = job[q] /\ raced'[q] = raced[q]
  BY DEF ConfigInv, ConfigTypes
<1>5. stage'[p] = l /\ raced'[p] = raced[p] /\ config' = config
  BY DEF Goto, ConfigInv, ConfigTypes
<1>6. Restorable(p)'
  BY <1>2, <1>5, RestorableStays DEF ConfigInv
<1>7. OneWorker' /\ \A q \in Installers \ {p} : (Prepared(q) /\ Restorable(q))'
  BY <1>1, <1>2, <1>3, <1>4, OthersWait
<1> QED BY <1>1, <1>6, <1>7 DEF ConfigInv

\* The directory of a new backup.
LEMMA CreateBackupKeeps ==
    ASSUME ConfigInv, NEW p \in Installers, CreateBackup(p)
    PROVE  ConfigInv'
<1> DEFINE x == [existed |-> job[p].existed, before |-> Missing, manifest |-> FALSE]
           n == Len(backups) + 1
           j == [job[p] EXCEPT !.backup = n]
<1>1. job[p] \in Job /\ job[p].existed \in BOOLEAN /\ x \in Backup /\ backups \in Seq(Backup)
  BY DEF ConfigInv, ConfigTypes, Job, Backup
<1>2. /\ backups' \in Seq(Backup) /\ DOMAIN backups' = DOMAIN backups \cup {n}
      /\ backups'[n] = x /\ n \in Nat /\ n \notin DOMAIN backups
      /\ \A c \in DOMAIN backups : backups'[c] = backups[c]
  BY <1>1, BackupAppended DEF CreateBackup
<1>3. /\ j \in Job /\ j.backup = n /\ j.existing = job[p].existing /\ j.existed = job[p].existed
      /\ j.kind = job[p].kind /\ j.url = job[p].url
  <2> HIDE DEF n
  <2> QED BY <1>1, <1>2 DEF Job
<1>4. job' = [job EXCEPT ![p] = j] /\ job'[p] = j
  BY DEF CreateBackup, ConfigInv, ConfigTypes
<1>5. /\ stage[p] = "backup" /\ raced'[p] = raced[p] /\ config' = config
      /\ stage'[p] = IF job[p].existed THEN "content" ELSE "manifest"
  BY DEF CreateBackup, Goto, ConfigInv, ConfigTypes
<1>6. x.existed = job[p].existed /\ x.manifest = FALSE
  OBVIOUS
<1> HIDE DEF x, n, j
<1>7. Complete' = Complete
  BY <1>2, <1>6 DEF Complete
<1>8. WholeBackups'
  BY <1>2, <1>7 DEF WholeBackups, Complete, ConfigInv
<1>9. Prepared(p)'
  <2>1. /\ job[p].kind \in {"install", "remove"} /\ job[p].url \in Urls
        /\ job[p].existing \in Content
        /\ ~raced[p] => config = IF job[p].existed THEN job[p].existing ELSE Missing
    BY <1>5 DEF Prepared, ConfigInv, Working
  <2>2. /\ job'[p].backup = n /\ job'[p].existing = job[p].existing
        /\ job'[p].existed = job[p].existed
        /\ job'[p].kind = job[p].kind /\ job'[p].url = job[p].url
    BY <1>3, <1>4
  <2>3. /\ job'[p].backup \in DOMAIN backups'
        /\ backups'[job'[p].backup].existed = job'[p].existed
        /\ backups'[job'[p].backup].manifest = FALSE
    BY <1>2, <1>6, <2>2
  <2>4. /\ stage'[p] \in {"content", "manifest"} /\ stage'[p] = "content" => job'[p].existed
        /\ stage'[p] = "manifest" => ~job'[p].existed
    BY <1>1, <1>5, <2>2
  <2> QED BY <1>5, <2>1, <2>2, <2>3, <2>4 DEF Prepared
<1>10. PICK l \in {"content", "manifest"} : Goto(p, l)
  BY DEF CreateBackup
<1>11. stage[p] \in Working \ {"unlock"} /\ l \in Working
  BY <1>5 DEF Working
<1>12. \A b \in Complete : b \in DOMAIN backups' /\ backups'[b] = backups[b]
  BY <1>2 DEF Complete
<1> QED BY <1>2, <1>3, <1>4, <1>8, <1>9, <1>10, <1>11, <1>12, BackupStep DEF CreateBackup

\* Its contents, which are what was read.
LEMMA BackupContentKeeps ==
    ASSUME ConfigInv, NEW p \in Installers, BackupContent(p)
    PROVE  ConfigInv'
<1>1. PICK n : n = job[p].backup
  OBVIOUS
<1> DEFINE x == [backups[n] EXCEPT !.before = job[p].existing]
<1>2. /\ job[p] \in Job /\ job' = [job EXCEPT ![p] = job[p]] /\ job'[p] = job[p]
      /\ stage[p] = "content" /\ stage'[p] = "manifest"
      /\ raced'[p] = raced[p] /\ config' = config
  BY DEF BackupContent, Goto, ConfigInv, ConfigTypes
<1>3. /\ n \in DOMAIN backups /\ backups[n].existed = job[p].existed /\ ~backups[n].manifest
      /\ job[p].existing \in Content /\ job[p].existed
      /\ job[p].kind \in {"install", "remove"} /\ job[p].url \in Urls
      /\ ~raced[p] => config = IF job[p].existed THEN job[p].existing ELSE Missing
  BY <1>1, <1>2 DEF Prepared, ConfigInv, Working
<1>4. backups \in Seq(Backup) /\ backups[n] \in Backup
  BY <1>3, SMTT(30) DEF ConfigInv, ConfigTypes
<1>5. /\ x \in Backup /\ x.existed = backups[n].existed /\ x.manifest = backups[n].manifest
      /\ x.before = job[p].existing
  BY <1>3, <1>4 DEF Backup
<1>6. backups' = [backups EXCEPT ![n] = x]
  BY <1>1 DEF BackupContent
<1> HIDE DEF x
<1>7. /\ backups' \in Seq(Backup) /\ DOMAIN backups' = DOMAIN backups /\ backups'[n] = x
      /\ \A c \in DOMAIN backups \ {n} : backups'[c] = backups[c]
  BY <1>3, <1>4, <1>5, <1>6, BackupReplaced
<1>8. Complete' = Complete /\ n \notin Complete
  BY <1>3, <1>5, <1>7 DEF Complete
<1>9. \A b \in Complete : b \in DOMAIN backups' /\ backups'[b] = backups[b]
  BY <1>7, <1>8 DEF Complete
<1>10. WholeBackups'
  BY <1>8, <1>9 DEF WholeBackups, ConfigInv
<1>11. Prepared(p)'
  <2>1. /\ job'[p].backup \in DOMAIN backups'
        /\ backups'[job'[p].backup].existed = job'[p].existed
        /\ backups'[job'[p].backup].manifest = FALSE
        /\ backups'[job'[p].backup].before = job'[p].existing
    <3>1. backups[n].manifest = FALSE
      BY <1>3, <1>4 DEF Backup
    <3> QED BY <1>1, <1>2, <1>3, <1>5, <1>7, <3>1
  <2> QED BY <1>2, <1>3, <2>1 DEF Prepared
<1>12. stage[p] \in Working \ {"unlock"} /\ "manifest" \in Working
  BY <1>2 DEF Working
<1> QED BY <1>2, <1>7, <1>9, <1>10, <1>11, <1>12, BackupStep DEF BackupContent

\* And its manifest, which makes it whole.
LEMMA BackupManifestKeeps ==
    ASSUME ConfigInv, NEW p \in Installers, BackupManifest(p)
    PROVE  ConfigInv'
<1>1. PICK n : n = job[p].backup
  OBVIOUS
<1> DEFINE x == [backups[n] EXCEPT !.manifest = TRUE]
<1>2. /\ job[p] \in Job /\ job' = [job EXCEPT ![p] = job[p]] /\ job'[p] = job[p]
      /\ stage[p] = "manifest" /\ stage'[p] = "write"
      /\ raced'[p] = raced[p] /\ config' = config
  BY DEF BackupManifest, Goto, ConfigInv, ConfigTypes
<1>3. /\ n \in DOMAIN backups /\ backups[n].existed = job[p].existed /\ ~backups[n].manifest
      /\ job[p].existing \in Content
      /\ job[p].existed => backups[n].before = job[p].existing
      /\ job[p].kind \in {"install", "remove"} /\ job[p].url \in Urls
      /\ ~raced[p] => config = IF job[p].existed THEN job[p].existing ELSE Missing
  BY <1>1, <1>2 DEF Prepared, ConfigInv, Working
<1>4. backups \in Seq(Backup) /\ backups[n] \in Backup
  BY <1>3, SMTT(30) DEF ConfigInv, ConfigTypes
<1>5. /\ x \in Backup /\ x.existed = backups[n].existed /\ x.manifest = TRUE
      /\ x.before = backups[n].before
  BY <1>3, <1>4 DEF Backup
<1>6. backups' = [backups EXCEPT ![n] = x]
  BY <1>1 DEF BackupManifest
<1> HIDE DEF x
<1>7. /\ backups' \in Seq(Backup) /\ DOMAIN backups' = DOMAIN backups /\ backups'[n] = x
      /\ \A c \in DOMAIN backups \ {n} : backups'[c] = backups[c]
  BY <1>3, <1>4, <1>5, <1>6, BackupReplaced
<1>8. Complete' = Complete \cup {n} /\ n \notin Complete
  BY <1>3, <1>5, <1>7 DEF Complete
<1>9. \A b \in Complete : b \in DOMAIN backups' /\ backups'[b] = backups[b]
  BY <1>7, <1>8 DEF Complete
<1>10. WholeBackups'
  <2>1. backups'[n].existed => backups'[n].before \in Content
    BY <1>3, <1>5, <1>7
  <2> QED BY <1>8, <1>9, <2>1 DEF WholeBackups, ConfigInv
<1>11. Prepared(p)'
  <2>1. /\ job'[p].backup \in DOMAIN backups'
        /\ backups'[job'[p].backup].existed = job'[p].existed
        /\ backups'[job'[p].backup].manifest = TRUE
        /\ job'[p].existed => backups'[job'[p].backup].before = job'[p].existing
    BY <1>1, <1>2, <1>3, <1>5, <1>7
  <2> QED BY <1>2, <1>3, <2>1 DEF Prepared
<1>12. stage[p] \in Working \ {"unlock"} /\ "write" \in Working
  BY <1>2 DEF Working
<1> QED BY <1>2, <1>7, <1>9, <1>10, <1>11, <1>12, BackupStep DEF BackupManifest

\* The end of a command or of its process.
LEMMA EndKeeps ==
    ASSUME ConfigInv, NEW p \in Installers, UnlockConfig(p) \/ InstallerDies(p)
    PROVE  ConfigInv'
<1>1. /\ job' = [job EXCEPT ![p] = NoJob] /\ raced' = [raced EXCEPT ![p] = FALSE]
      /\ Goto(p, "idle") /\ UNCHANGED <<config, backups>>
      /\ stage[p] \notin Working => UNCHANGED locked
  BY DEF UnlockConfig, InstallerDies, Working
<1>2. ConfigTypes'
  <2>1. stage' \in [Installers -> {"idle", "restore"} \cup Working]
    BY <1>1 DEF ConfigInv, ConfigTypes, Goto
  <2>2. NoJob \in Job
    BY DEF NoJob, Job
  <2> QED BY <1>1, <2>1, <2>2 DEF ConfigInv, ConfigTypes
<1>3. Complete' = Complete /\ WholeBackups' /\ \A b \in Complete : Restored(b)' = Restored(b)
  BY <1>1 DEF Complete, WholeBackups, Restored, ConfigInv
<1>4. \A q \in Installers \ {p} : job'[q] = job[q] /\ raced'[q] = raced[q] /\ stage'[q] = stage[q]
  BY <1>1 DEF ConfigInv, ConfigTypes, Goto
<1>5. stage'[p] = "idle" /\ raced'[p] = FALSE
  BY <1>1 DEF ConfigInv, ConfigTypes, Goto
<1>6. (Prepared(p) /\ Restorable(p))'
  BY <1>5 DEF Prepared, Restorable, Working
<1>7. OneWorker' /\ \A q \in Installers \ {p} : (Prepared(q) /\ Restorable(q))'
  <2>1. CASE stage[p] \in Working
    BY <2>1, <1>1, <1>2, <1>3, <1>4, OthersWait DEF Working
  <2>2. CASE stage[p] \notin Working
    <3>1. OneWorker'
      <4>1. "idle" \notin Working /\ locked' = locked /\ OneWorker
        BY <2>2, <1>1 DEF ConfigInv, Working
      <4> QED BY <2>2, <4>1, <1>4, <1>5 DEF OneWorker
    <3>2. ASSUME NEW q \in Installers \ {p} PROVE (Prepared(q) /\ Restorable(q))'
      BY <1>1, <1>4, NothingTouched DEF ConfigInv
    <3> QED BY <3>1, <3>2
  <2> QED BY <2>1, <2>2
<1> QED BY <1>2, <1>3, <1>6, <1>7 DEF ConfigInv

\* Choosing a backup to restore, and not being able to restore it.
LEMMA ChooseKeeps ==
    ASSUME ConfigInv, NEW p \in Installers, stage[p] \notin Working,
           NEW l \in {"idle", "restore"}, Goto(p, l), UNCHANGED <<config, locked, backups, raced>>,
           NEW j \in Job, job' = [job EXCEPT ![p] = j], l = "restore" => j.backup \in Complete
    PROVE  ConfigInv'
<1>1. ConfigTypes'
  BY DEF ConfigInv, ConfigTypes, Goto
<1>2. Complete' = Complete /\ WholeBackups'
  BY DEF Complete, WholeBackups, ConfigInv
<1>3. /\ stage'[p] = l /\ job'[p] = j /\ raced'[p] = raced[p] /\ l \notin Working
      /\ \A q \in Installers \ {p} : job'[q] = job[q] /\ raced'[q] = raced[q] /\ stage'[q] = stage[q]
  BY DEF Goto, ConfigInv, ConfigTypes, Working
<1>4. OneWorker'
  BY <1>3 DEF OneWorker, ConfigInv
<1>5. ASSUME NEW q \in Installers \ {p} PROVE (Prepared(q) /\ Restorable(q))'
  BY <1>3, NothingTouched DEF ConfigInv
<1>6. Prepared(p)'
  BY <1>3 DEF Prepared, Working
<1>7. Restorable(p)'
  <2>1. ~raced'[p] /\ stage'[p] = l /\ job'[p].backup = j.backup
    BY <1>3 DEF Restorable, ConfigInv
  <2>2. stage'[p] = "restore" => job'[p].backup \in Complete'
    BY <1>2, <2>1, SMTT(30)
  <2> QED BY <2>1, <2>2 DEF Restorable
<1> QED BY <1>1, <1>2, <1>4, <1>5, <1>6, <1>7 DEF ConfigInv

\* A restore, under whatever command is at work: that one is raced from here on, and
\* what is in the file now is what the backup used here has.
LEMMA RestoreKeeps ==
    ASSUME ConfigInv, NEW p \in Installers, Restore(p)
    PROVE  ConfigInv'
<1>1. NoJob \in Job
  BY DEF NoJob, Job
<1>2. CASE UNCHANGED <<config, raced>>
  BY <1>1, <1>2, ChooseKeeps DEF Restore, Working
<1>3. CASE /\ config' = Restored(job[p].backup)
           /\ raced' = [q \in Installers |-> raced[q] \/ stage[q] \notin {"idle", "restore"}]
  <2>1. PICK n \in Complete : n = job[p].backup
    BY DEF Restore, Restorable, ConfigInv
  <2>2. config' = Restored(n) /\ config' \in Content \cup {Missing}
    BY <1>3, <2>1 DEF Restored, ConfigInv, WholeBackups
  <2>3. ConfigTypes'
    <3>1. stage' \in [Installers -> {"idle", "restore"} \cup Working]
      BY DEF Restore, ConfigInv, ConfigTypes, Goto
    <3>2. raced' \in [Installers -> BOOLEAN]
      BY <1>3
    <3> QED BY <1>1, <2>2, <3>1, <3>2 DEF Restore, ConfigInv, ConfigTypes
  <2>4. /\ Complete' = Complete /\ WholeBackups'
        /\ \A b \in Complete : Restored(b)' = Restored(b)
    BY DEF Restore, Complete, WholeBackups, Restored, ConfigInv
  <2>5. /\ stage[p] = "restore" /\ stage'[p] = "idle"
        /\ \A q \in Installers \ {p} : job'[q] = job[q] /\ stage'[q] = stage[q]
    BY DEF Restore, Goto, ConfigInv, ConfigTypes
  <2>6. \A q \in Installers : /\ stage[q] \in Working => raced'[q]
                              /\ stage[q] \notin Working => raced'[q] = raced[q] /\ ~raced[q]
    <3> TAKE q \in Installers
    <3>1. stage[q] \in {"idle", "restore"} \cup Working /\ raced[q] \in BOOLEAN /\ Restorable(q)
      BY DEF ConfigInv, ConfigTypes
    <3>2. raced'[q] = (raced[q] \/ stage[q] \notin {"idle", "restore"})
      BY <1>3
    <3> QED BY <3>1, <3>2 DEF Restorable, Working
  <2>7. OneWorker'
    <3>1. locked' = locked /\ OneWorker /\ "idle" \notin Working
      BY DEF Restore, ConfigInv, Working
    <3> QED BY <2>5, <3>1 DEF OneWorker
  <2>8. (Prepared(p) /\ Restorable(p))'
    BY <2>5, <2>6 DEF Prepared, Restorable, Working
  <2>9. ASSUME NEW q \in Installers \ {p} PROVE (Prepared(q) /\ Restorable(q))'
    <3>1. /\ Prepared(q) /\ Restorable(q) /\ job'[q] = job[q] /\ stage'[q] = stage[q]
          /\ stage[q] \in Working => raced'[q]
          /\ stage[q] \notin Working => ~raced'[q]
          /\ backups' = backups
      BY <2>5, <2>6 DEF ConfigInv, Restore
    <3>2. Prepared(q)'
      BY <3>1 DEF Prepared, Working
    <3>3. \E b \in Complete' : Restored(b)' = config'
      BY <2>1, <2>2, <2>4
    <3>4. Restorable(q)'
      BY <2>4, <3>1, <3>3 DEF Restorable
    <3> QED BY <3>2, <3>4
  <2> QED BY <2>3, <2>4, <2>7, <2>8, <2>9 DEF ConfigInv
<1> QED BY <1>2, <1>3 DEF Restore

\* What happens while no command runs.
LEMMA IdleKeeps ==
    ASSUME ConfigInv, \A p \in Installers : stage[p] = "idle",
           UNCHANGED <<backups, stage, job, raced>>, config' \in Content \cup {Missing}
    PROVE  ConfigInv'
<1>1. ConfigTypes'
  BY DEF ConfigInv, ConfigTypes
<1>2. WholeBackups'
  BY DEF Complete, WholeBackups, ConfigInv
<1>3. \A p \in Installers : stage'[p] = "idle" /\ stage'[p] \notin Working /\ ~raced'[p]
  BY DEF Working, ConfigInv, Restorable
<1>4. OneWorker'
  BY <1>3 DEF OneWorker
<1>5. ASSUME NEW p \in Installers PROVE (Prepared(p) /\ Restorable(p))'
  BY <1>3 DEF Prepared, Restorable
<1> QED BY <1>1, <1>2, <1>4, <1>5 DEF ConfigInv

\* The invariant holds of every behaviour: of any number of commands and restores that
\* interleave, fail or die anywhere.
THEOREM ConfigInvariant == ConfigSpec => []ConfigInv
<1>1. ConfigInit => ConfigInv
  <2> SUFFICES ASSUME ConfigInit PROVE ConfigInv
    OBVIOUS
  <2>1. NoJob \in Job
    BY DEF NoJob, Job
  <2>2. backups \in Seq(Backup) /\ DOMAIN backups = {}
    BY SMTT(30) DEF ConfigInit
  <2>3. config \in Content \cup {Missing}
    BY DEF ConfigInit, Content
  <2>4. ConfigTypes
    BY <2>1, <2>2, <2>3 DEF ConfigInit, ConfigTypes
  <2>5. \A p \in Installers : stage[p] = "idle" /\ stage[p] \notin Working /\ ~raced[p]
    BY DEF ConfigInit, Working
  <2>6. OneWorker
    BY <2>5 DEF OneWorker
  <2>7. WholeBackups
    BY <2>2 DEF WholeBackups, Complete
  <2>8. ASSUME NEW p \in Installers PROVE Prepared(p) /\ Restorable(p)
    BY <2>5 DEF Prepared, Restorable
  <2> QED BY <2>4, <2>6, <2>7, <2>8 DEF ConfigInv
<1>2. ConfigInv /\ [ConfigNext]_configVars => ConfigInv'
  <2> SUFFICES ASSUME ConfigInv, [ConfigNext]_configVars PROVE ConfigInv'
    OBVIOUS
  <2>1. ASSUME NEW p \in Installers, ConfigStep(p) PROVE ConfigInv'
    <3>1. CASE \E url \in Urls : Install(p, url) \/ RemoveOwned(p, url)
      BY <3>1, LockKeeps DEF Install, RemoveOwned
    <3>2. CASE Stat(p)
      BY <3>2, StatKeeps
    <3>3. CASE Read(p)
      BY <3>3, ReadKeeps
    <3>4. CASE CreateBackup(p)
      BY <3>4, CreateBackupKeeps
    <3>5. CASE BackupContent(p)
      BY <3>5, BackupContentKeeps
    <3>6. CASE BackupManifest(p)
      BY <3>6, BackupManifestKeeps
    <3>7. CASE Write(p) \/ GiveUp(p)
      BY <3>7, WriteKeeps
    <3>8. CASE UnlockConfig(p)
      BY <3>8, EndKeeps
    <3>9. CASE ChooseBackup(p)
      <4>1. PICK b \in Complete :
               job' = [job EXCEPT ![p] = [NoJob EXCEPT !.kind = "restore", !.backup = b]]
        BY <3>9 DEF ChooseBackup
      <4>2. PICK j : j = [NoJob EXCEPT !.kind = "restore", !.backup = b]
        OBVIOUS
      <4>3. b \in Nat
        BY <4>1, SMTT(30) DEF Complete, ConfigInv, ConfigTypes
      <4>4. j \in Job /\ j.backup = b
        BY <4>2, <4>3 DEF NoJob, Job
      <4> QED BY <3>9, <4>1, <4>2, <4>4, ChooseKeeps DEF ChooseBackup, Working
    <3>10. CASE Restore(p)
      BY <3>10, RestoreKeeps
    <3> QED BY <2>1, <3>1, <3>2, <3>3, <3>4, <3>5, <3>6, <3>7, <3>8, <3>9, <3>10 DEF ConfigStep
  <2>2. ASSUME NEW p \in Installers, InstallerDies(p) PROVE ConfigInv'
    BY <2>2, EndKeeps
  <2>3. CASE RemoveStaleConfigLock
    BY <2>3, IdleKeeps DEF RemoveStaleConfigLock, ConfigInv, ConfigTypes
  <2>4. CASE Edit
    <3>1. config' \in Content
      <4>1. (IF config = Missing THEN NoEntry ELSE config.entry) \in Urls \cup {NoEntry}
        BY DEF ConfigInv, ConfigTypes, Content
      <4> QED BY <2>4, <4>1 DEF Edit, Content
    <3> QED BY <2>4, <3>1, IdleKeeps DEF Edit
  <2>5. CASE UNCHANGED configVars
    <3>1. ASSUME NEW p \in Installers PROVE (Prepared(p) /\ Restorable(p))'
      BY <2>5, NothingTouched DEF configVars, ConfigInv
    <3> QED BY <2>5, <3>1 DEF configVars, ConfigInv, ConfigTypes, OneWorker, WholeBackups, Complete
  <2> QED BY <2>1, <2>2, <2>3, <2>4, <2>5 DEF ConfigNext
<1> QED BY <1>1, <1>2, PTL DEF ConfigSpec

\* create_backup before write_text_atomic: a backup that can be chosen has its contents,
\* and what install or removal is about to replace can be brought back, with any number of
\* processes, a restore under the command and crashes between any two steps included.
THEOREM BackupsAlwaysRestore == ConfigSpec => []BackupsRestore
<1>1. ConfigInv => BackupsRestore
  <2> SUFFICES ASSUME ConfigInv PROVE BackupsRestore
    OBVIOUS
  <2>1. ASSUME NEW p \in Installers, stage[p] = "write"
        PROVE  /\ \E b \in Complete : Restored(b) = config
               /\ ~raced[p] => Restored(job[p].backup) = config
    <3>1. /\ job[p].backup \in Complete
          /\ ~raced[p] => Restored(job[p].backup) = config
      BY <2>1 DEF ConfigInv, Prepared, Complete, Restored
    <3>2. raced[p] => \E b \in Complete : Restored(b) = config
      BY <2>1 DEF ConfigInv, Restorable, Working
    <3> QED BY <3>1, <3>2
  <2> QED BY <2>1 DEF BackupsRestore, ConfigInv, WholeBackups
<1> QED BY <1>1, ConfigInvariant, PTL
=============================================================================
