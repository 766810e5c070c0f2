--------------------------- MODULE MCSessionPool ---------------------------
(***************************************************************************)
(* Small instance of the worker pool: a key with one worker and a key      *)
(* with two, in a pool of two.                                             *)
(***************************************************************************)
EXTENDS SessionPool, TLC

CONSTANTS k1, k2

MCKeys == {k1, k2}
MCWorkerLimit == k1 :> 1 @@ k2 :> 2
=============================================================================
