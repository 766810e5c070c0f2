---------------------------- MODULE MCLeaseQueue ----------------------------
(* The lease queue on small sets of callers, lane keys and lane objects.   *)
EXTENDS LeaseQueue
=============================================================================
