--------------------------- MODULE MCUpstreamCall ---------------------------
(***************************************************************************)
(* Two callers of one server.  A tick is about two seconds.  The lifetime  *)
(* the code chooses is six ticks; a call lasts five of them at most when   *)
(* its process starts within a tick.  The lifetime a request asks for,     *)
(* five ticks, is the smallest that leaves the room Roomy asks for, and    *)
(* would be over before a long call is if nobody renewed it.               *)
(*                                                                         *)
(* Either heartbeats are on time or processes start within a tick.  Both   *)
(* together allow nothing that one alone does not, and without either the  *)
(* code promises nothing about leases.                                     *)
(***************************************************************************)
EXTENDS UpstreamCall

MCInit == CallInit /\ (swift <=> ~prompt)
MCSpec == MCInit /\ [][CallNext]_callVars /\ CallFairness
=============================================================================
