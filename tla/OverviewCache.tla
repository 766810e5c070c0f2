---------------------------- MODULE OverviewCache ----------------------------
(***************************************************************************)
(* The overview cache and the health cache of                              *)
(* src/src/dashboard/overview.rs, as the HTTP workers use them.  A value   *)
(* is represented by the time at which its build began: building runs      *)
(* subcommands that read the state of the system, and takes time.          *)
(*                                                                         *)
(* The overview is built under the mutex only when there is no value yet;  *)
(* later builds run without it, behind the flag `refreshing'.  The health  *)
(* report is always built under its mutex.  A ttl of zero, which turns a   *)
(* cache off, is left out.                                                 *)
(***************************************************************************)
EXTENDS Integers

CONSTANTS Workers,   \* the callers
          NoOne,     \* nobody holds a mutex
          Ttl,       \* how old an answer from a cache may be
          FailureTtl \* how long a failed first build is remembered

ASSUME TtlAssumption == Ttl \in Nat \ {0} /\ FailureTtl \in 0 .. Ttl /\ NoOne \notin Workers

VARIABLES overview,  \* the guarded value of the overview cache
          health,    \* the guarded value of the health cache
          began      \* when each worker's running build began

Nothing == [built |-> -1, stored |-> -1]

InitCaches ==
  /\ overview = [lock |-> NoOne, entry |-> Nothing, refreshing |-> FALSE, failed |-> -1]
  /\ health = [lock |-> NoOne, entry |-> Nothing]
  /\ began = [w \in Workers |-> -1]

Begin(w, now) == began' = [began EXCEPT ![w] = now]
End(w) == began' = [began EXCEPT ![w] = -1]
Built(w, now) == [built |-> began[w], stored |-> now]

(* cached_overview_json, what the mutex protects at its start: an answer   *)
(* at once, the duty to refresh, or a first build that keeps the mutex.    *)
OverviewAnswers(refresh, now) ==
  /\ overview.lock = NoOne /\ overview.entry # Nothing
  /\ \/ overview.refreshing
     \/ ~refresh /\ now - overview.entry.stored <= Ttl

OverviewAnswered(refresh, now) ==
  OverviewAnswers(refresh, now) /\ UNCHANGED <<overview, began>>

StartRefresh(w, refresh, now) ==
  /\ overview.lock = NoOne /\ overview.entry # Nothing
  /\ ~OverviewAnswers(refresh, now)
  /\ overview' = [overview EXCEPT !.refreshing = TRUE]
  /\ Begin(w, now)

ColdFailureKept(now) == overview.failed >= 0 /\ now - overview.failed <= FailureTtl

ColdRefused(now) ==
  /\ overview.lock = NoOne /\ overview.entry = Nothing
  /\ ColdFailureKept(now)
  /\ UNCHANGED <<overview, began>>

StartCold(w, now) ==
  /\ overview.lock = NoOne /\ overview.entry = Nothing
  /\ ~ColdFailureKept(now)
  /\ overview' = [overview EXCEPT !.lock = w, !.failed = -1]
  /\ Begin(w, now)

(* Mutant of FinishCold: a failed first build leaves the mutex taken.      *)
FinishColdStuck(w, ok, now) ==
  /\ overview' = [overview EXCEPT !.lock = IF ok THEN NoOne ELSE @,
                    !.entry = IF ok THEN Built(w, now) ELSE @,
                    !.failed = IF ok THEN -1 ELSE now]
  /\ End(w)

(* The first build ends: its value or its failure is kept.                 *)
FinishCold(w, ok, now) ==
  /\ overview' = [overview EXCEPT !.lock = NoOne,
                    !.entry = IF ok THEN Built(w, now) ELSE @,
                    !.failed = IF ok THEN -1 ELSE now]
  /\ End(w)

(* refresh_overview_cache, after its build: a failure keeps the old value. *)
FinishRefresh(w, ok, now) ==
  /\ overview.lock = NoOne
  /\ overview' = [overview EXCEPT !.refreshing = FALSE,
                    !.entry = IF ok THEN Built(w, now) ELSE @]
  /\ End(w)

(* cached_health_json: an answer at once, or a build under the mutex.      *)
HealthHit(refresh, now) ==
  /\ ~refresh /\ health.entry # Nothing
  /\ now - health.entry.stored <= Ttl

HealthAnswered(refresh, now) ==
  /\ health.lock = NoOne /\ HealthHit(refresh, now)
  /\ UNCHANGED <<health, began>>

(* Mutant of StartHealth: the report is built without the mutex.           *)
StartHealthUnlocked(w, refresh, now) ==
  /\ health.lock = NoOne /\ ~HealthHit(refresh, now)
  /\ Begin(w, now)
  /\ UNCHANGED health

StartHealth(w, refresh, now) ==
  /\ health.lock = NoOne /\ ~HealthHit(refresh, now)
  /\ health' = [health EXCEPT !.lock = w]
  /\ Begin(w, now)

FinishHealth(w, ok, now) ==
  /\ health' = [health EXCEPT !.lock = NoOne, !.entry = IF ok THEN Built(w, now) ELSE @]
  /\ End(w)
=============================================================================
