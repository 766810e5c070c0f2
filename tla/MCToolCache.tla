---------------------------- MODULE MCToolCache ----------------------------
(***************************************************************************)
(* A small instance of the tools/list cache: two threads of one process,   *)
(* which may crash, and two versions of the settings.  The wall clock is   *)
(* set, as often as one likes, before the settings change.                 *)
(***************************************************************************)
EXTENDS ToolCache, TLC

CONSTANTS c1, c2, p1

MCProcessOf == c1 :> p1 @@ c2 :> p1
MCConfigs == {1, 2}

MCNext == Next /\ (SetClock => settings = SomeConfig)
MCSpec == Init /\ [][MCNext]_vars /\ Fairness
=============================================================================
