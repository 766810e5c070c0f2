------------------------ MODULE MCPolicyResolution ------------------------
(***************************************************************************)
(* Small instances of everything that reads and rewrites settings.  They   *)
(* share no state, and an initial state picks one of them:                 *)
(*  - the policy readers: settings that leave fields out, exceed the       *)
(*    limits, are zero, name another mode or disable the server, and       *)
(*    identities that differ in one dimension;                             *)
(*  - commands of one root on its own sources;                             *)
(*  - commands of two roots on a settings file and a configuration file    *)
(*    that both use;                                                       *)
(*  - install, removal and restore of one client configuration.            *)
(***************************************************************************)
EXTENDS PolicyResolution, SettingsFiles, ClientConfig, TLC

Exec(mode, affinity, min, max, in_flight) ==
    [mode |-> mode, affinity |-> affinity, min_workers |-> min, max_workers |-> max,
     max_in_flight |-> in_flight]

MCDefaultsBlocks == {Exec("project-isolated", {"client"}, Absent, Absent, Absent),
                     Exec("pool", {"chat"}, 3, 3, 9),
                     Exec(Absent, {"client"}, Absent, 2, Absent)}

MCExecutionBlocks == {Exec("pool", Absent, 2, 3, Absent),
                      Exec("session-isolated", {"project"}, 2, Absent, 9),
                      Exec(Absent, {}, Absent, 0, Absent)}

Canonical(scope, concurrency, class, max) ==
    [scope |-> scope, concurrency |-> concurrency, binding |-> Absent, class |-> class,
     off |-> FALSE, max_workers |-> max, max_in_flight |-> Absent]

MCCanonicalBlocks == {Canonical("project-local", Absent, Absent, 9),
                      Canonical(Absent, "multi-reader", "stateless", 2),
                      Canonical(Absent, "plan-only", Absent, Absent)}

\* infer_generic_source_policy and infer_runtime_classification of a project-local
\* server and of an unknown one.
MCInferredTokens ==
    {[scope |-> "project-local", concurrency |-> "isolated-per-project", binding |-> "file",
      class |-> "project-stateful"],
     [scope |-> "configured-source", concurrency |-> "single-writer", binding |-> "runtime-source",
      class |-> "unknown-conservative"]}

MCIdentities == [client : {"cA", "cB"}, session : {Absent, "sA", "sB"}, project : {Absent, "pA", "pB"}]
MCAffinityArgs == {{}, {"client"}, {"project"}, {"chat"}, Affinity}
MCWorkerArgs == {9}

-----------------------------------------------------------------------------
(* Settings files.                                                          *)

VARIABLE part                                               \* the instance that runs

Cmd(kind, root, names, path, value, force) ==
    [kind |-> kind, root |-> root, names |-> names, path |-> path, value |-> value,
     force |-> force]

\* x.json and y.json are the fragments of the servers x and y in mcp_settings.d of r1.
MCSources == [r1 |-> <<"base", "home", "x.json", "y.json">>, r2 |-> <<"shared">>]
MCHomeFile == [r1 |-> "home", r2 |-> "home2"]
MCFragment == [r1 |-> [x |-> "x.json", y |-> "y.json"], r2 |-> [x |-> "x2.json", y |-> "y2.json"]]
MCFiles == {"base", "config", "home", "shared", "x.json", "y.json"}
MCRank == [base |-> 1, config |-> 2, home |-> 3, shared |-> 6] @@ ("x.json" :> 4) @@ ("y.json" :> 5)

OwnCommands ==
    {Cmd("add", "r1", {"x"}, "none", "on", TRUE), Cmd("add", "r1", {"x"}, "base", "on", FALSE),
     Cmd("import", "r1", {"x", "y"}, "none", "on", FALSE),
     Cmd("remove", "r1", {"x"}, "none", "on", FALSE),
     Cmd("toggle", "r1", {"x"}, "none", "off", FALSE),
     Cmd("toggle", "r1", {"x"}, "base", "off", FALSE),
     Cmd("home", "r1", {"x"}, "none", "on", FALSE)}

SharedCommands ==
    {Cmd("import", "r1", {"x", "y"}, "shared", "on", TRUE),
     Cmd("toggle", "r1", {"x"}, "shared", "off", FALSE),
     Cmd("remove", "r2", {"y"}, "none", "on", FALSE), Cmd("add", "r2", {"y"}, "shared", "on", FALSE),
     Cmd("update", "r1", {"x"}, "config", "on", FALSE),
     Cmd("update", "r2", {"y"}, "config", "on", FALSE)}

MCCommands == OwnCommands \cup SharedCommands

MCSeedable == {"base", "config"}

\* Only these commands run, and only this file is laid out.
Runs(commands, file) == /\ \A p \in Processes : pc'[p] # "idle" => cmd'[p] \in commands
                        /\ seeds' \subseteq Processes \X {file}

-----------------------------------------------------------------------------

\* An instance that does not run.
NoPolicies ==
    /\ Init
    /\ source = CHOOSE s \in [policy : {Absent}, execution : {Absent}, inferred : InferredTokens] :
                   s.inferred.scope = "configured-source"
NoClients == ConfigInit /\ config = Missing

MCInit ==
    \/ part = "policy" /\ Init /\ FilesInit /\ NoClients
    \/ part \in {"own", "shared"} /\ NoPolicies /\ FilesInit /\ NoClients
    \/ part = "clients" /\ NoPolicies /\ FilesInit /\ ConfigInit

MCNext ==
    /\ part' = part
    /\ \/ part = "policy" /\ Next /\ UNCHANGED <<fileVars, configVars>>
       \/ /\ part \in {"own", "shared"} /\ FilesNext /\ UNCHANGED <<vars, configVars>>
          /\ IF part = "own" THEN Runs(OwnCommands, "base") ELSE Runs(SharedCommands, "config")
       \/ part = "clients" /\ ConfigNext /\ UNCHANGED <<vars, fileVars>>

MCSpec == MCInit /\ [][MCNext]_<<part, vars, fileVars, configVars>>
=============================================================================
