-------------------------- MODULE MCServeLifecycle --------------------------
(* ServeLifecycle on a small instance: two commands at a time, for the same *)
(* port with different limits.                                               *)
EXTENDS ServeLifecycle, TLC

TwoSettings == {[port |-> 1, limits |-> 1], [port |-> 1, limits |-> 2]}
=============================================================================
