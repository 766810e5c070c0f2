--------------------------- MODULE MCHttpSession ---------------------------
(***************************************************************************)
(* Small instances of what a client meets when it connects.  They share no *)
(* state, and an initial state picks one of them:                          *)
(*  - the HTTP sessions: three session ids for a store of two, request ids *)
(*    of one and two bytes, budgets that two ids nearly fill;              *)
(*  - the hub runtime that the stdio server looks after at initialize: two *)
(*    commands and two runtimes at a time.                                 *)
(***************************************************************************)
EXTENDS HttpSession, HubRuntime, TLC

CONSTANTS s1, s2, s3, r1, r2, r3,
          c1, c2, h1, h2

MCSize == r1 :> 1 @@ r2 :> 2 @@ r3 :> 2

VARIABLE part                                               \* the instance that runs

MCInit == \/ part = "http" /\ Init /\ HubInit /\ calm
          \/ part = "hub" /\ Init /\ HubInit

MCNext == /\ part' = part
          /\ \/ part = "http" /\ Next /\ UNCHANGED hubVars
             \/ part = "hub" /\ HubNext /\ UNCHANGED vars

MCSpec == MCInit /\ [][MCNext]_<<part, vars, hubVars>>

ProcessSymmetry ==
    Permutations({s1, s2, s3}) \cup Permutations({c1, c2}) \cup Permutations({h1, h2})
=============================================================================
