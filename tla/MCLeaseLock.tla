---------------------------- MODULE MCLeaseLock ----------------------------
(***************************************************************************)
(* Small instances of the lease-store lock: two processes of which one     *)
(* may crash, and three of which one may crash.                            *)
(***************************************************************************)
EXTENDS LeaseLock, TLC

ProcSymmetry == Permutations(Procs)
=============================================================================
