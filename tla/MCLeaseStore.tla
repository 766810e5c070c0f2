---------------------------- MODULE MCLeaseStore ---------------------------
(***************************************************************************)
(* A small instance of the lease store: requests of two sessions on one    *)
(* server that changes between a serialized policy bound to a project, a   *)
(* pool of two workers and a pool of one, and that may drop out of the     *)
(* plan.  A pool of three leases cannot arise, so three ids allow a third  *)
(* acquire to meet a full pool, to take a lease over, or to come after an  *)
(* expiry.                                                                 *)
(***************************************************************************)
EXTENDS LeaseStore, TLC

CONSTANTS a, b, C, S, T, P

MCCallers == {a, b}
MCIdentity == a :> [client |-> C, session |-> S, project |-> P]
           @@ b :> [client |-> C, session |-> T, project |-> Absent]

Config(policy, project) ==
    [policy |-> policy, transport |-> "stdio", routable |-> TRUE, needs_project |-> project]

Pool(workers) == Normalize([ForMode("pool") EXCEPT !.max_workers = workers])

MCRecords == {Absent, Config(ForMode("serialized"), TRUE),
              Config(Pool(2), FALSE), Config(Pool(1), FALSE)}

MCTtls == {Absent, 3}

IdSymmetry == Permutations(Ids)
=============================================================================
