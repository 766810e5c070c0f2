--------------------------- MODULE SettingsFiles ---------------------------
(***************************************************************************)
(* The commands that rewrite the files MCPace owns, run by processes that  *)
(* know of each other only through lock files: server add, import, remove, *)
(* enable and disable (src/mcp_sources), the home import of `mcpace up`    *)
(* (src/setup.rs), and the updates of one entry of mcpace.config.json or   *)
(* of the project registry (src/server/policy.rs, src/projects.rs).        *)
(*                                                                         *)
(* A lock is a file made with create_new and removed when its holder is    *)
(* done; a command that finds it there gives up at once.  The holder that  *)
(* crashes leaves it behind, for the user to remove.  A server is in a     *)
(* settings file "on" or "off", or not at all; a missing file has none.    *)
(*                                                                         *)
(* Setup, init and the hub commands also lay out the root: a configuration *)
(* file, a settings file or a registry that is missing is written without  *)
(* entries.  They take no lock for that, and a command may write the file  *)
(* between their look and their write.                                     *)
(***************************************************************************)
EXTENDS Naturals, Sequences, FiniteSets, Functions

CONSTANTS Processes, Roots, Files, Names,
          Commands,        \* [kind, root, names, path, value, force]
          Sources,         \* [Roots -> Seq(Files)]: the settings files of a root, in order
          HomeFile,        \* [Roots -> Files]: mcp_settings.d/auto-imported-home.json
          Fragment,        \* [Roots -> [Names -> Files]]: mcp_settings.d/<name>.json
          Rank,            \* [Files -> Nat]: the order of the paths
          Seedable,        \* the files that are laid out when they are missing
          NoFile,          \* no --settings given
          MaxStale         \* bound: a process crashes while fewer locks are left behind

VARIABLES disk,            \* [Files -> [Names -> {"none", "on", "off"}]]
          locks,           \* lock files that exist, one for a file or for a root's namespace
          held,            \* the locks of a process
          pc, cmd, plan, todo, copy,
          made,            \* the seedable files that exist
          seeds,           \* <<p, f>>: p found f missing and is about to write it
          late             \* history: commands with a file that a seed replaced under them

fileVars == <<disk, locks, held, pc, cmd, plan, todo, copy, made, seeds, late>>

\* A command has one of these kinds; that of one entry names its file.
ASSUME FilesAssumption ==
    /\ IsFiniteSet(Files) /\ Seedable \subseteq Files
    /\ \A r \in Roots : Sources[r] \in Seq(Files)
    /\ \A c \in Commands :
          /\ c.kind \in {"add", "import", "remove", "toggle", "home", "update"}
          /\ c.root \in Roots /\ c.names \subseteq Names
          /\ c.kind = "update" => c.path # NoFile

Nothing == [n \in {} |-> NoFile]
AnyCommand == CHOOSE c \in Commands : TRUE

FilesInit == /\ disk = [f \in Files |-> [n \in Names |-> "none"]]
             /\ locks = {}
             /\ held = [p \in Processes |-> {}]
             /\ pc = [p \in Processes |-> "idle"]
             /\ cmd = [p \in Processes |-> AnyCommand]
             /\ plan = [p \in Processes |-> Nothing]
             /\ todo = [p \in Processes |-> {}]
             /\ copy = [p \in Processes |-> Nothing]
             /\ made = {} /\ seeds = {} /\ late = {}

-----------------------------------------------------------------------------
(* Which file a server is in.                                               *)

\* source_paths_for_normalized_server.
SourcePaths(r, n) == {f \in Range(Sources[r]) : disk[f][n] # "none"}

\* load_mcp_server_registry: a later source overrides an earlier one.
Effective(r, n) ==
    LET hits == {i \in DOMAIN Sources[r] : disk[Sources[r][i]][n] # "none"}
    IN  IF hits = {} THEN "none" ELSE disk[Sources[r][CHOOSE i \in hits : \A j \in hits : j <= i]][n]

\* The first source that has the server, whatever the others say.
FindFirstSource(r, n) ==
    {f \in SourcePaths(r, n) : \A g \in SourcePaths(r, n) : Rank[f] <= Rank[g]}

\* find_source_path_for_server: no file when none or several have the server.
FindSource(r, n) ==
    IF Cardinality(SourcePaths(r, n)) = 1 THEN SourcePaths(r, n) ELSE {}

\* A check for the name in the target only.
NeverShadowed(r, n, f) == TRUE

\* reject_cross_source_shadowing.
Unshadowed(r, n, f) == SourcePaths(r, n) \subseteq {f}

\* Where add, import, home import and the single-entry updates write a name.
Target(c, n) == IF c.kind = "home" THEN HomeFile[c.root]
                ELSE IF c.path = NoFile THEN Fragment[c.root][n] ELSE c.path

-----------------------------------------------------------------------------
(* Lock files.                                                              *)

\* acquire_exclusive_file_lock with an ordinary create.
AcquireShared(p, l) == /\ locks' = locks \cup {l}
                       /\ held' = [held EXCEPT ![p] = @ \cup {l}]

\* acquire_exclusive_file_lock: create_new.
Acquire(p, l) == /\ l \notin locks
                 /\ locks' = locks \cup {l}
                 /\ held' = [held EXCEPT ![p] = @ \cup {l}]

\* An early return: what the command still holds is dropped on the way out.
Fail(p) == /\ pc' = [pc EXCEPT ![p] = "failed"]
           /\ UNCHANGED <<disk, locks, held, cmd, plan, todo, copy, made, seeds, late>>

\* Nothing of a command is left in memory.
Forget(p) == /\ pc' = [pc EXCEPT ![p] = "idle"]
             /\ cmd' = [cmd EXCEPT ![p] = AnyCommand]
             /\ plan' = [plan EXCEPT ![p] = Nothing]
             /\ todo' = [todo EXCEPT ![p] = {}]
             /\ copy' = [copy EXCEPT ![p] = Nothing]
             /\ late' = late \ {p}

\* The guards drop, the locks of files before the lock of the namespace, and the
\* command returns.
Unlock(p) ==
    /\ pc[p] \in {"failed", "done"}
    /\ \E l \in held[p] :
          /\ l \in Roots => held[p] = {l}
          /\ locks' = locks \ {l}
          /\ held' = [held EXCEPT ![p] = @ \ {l}]
          /\ IF held[p] = {l} THEN Forget(p) ELSE UNCHANGED <<pc, cmd, plan, todo, copy, late>>
    /\ UNCHANGED <<disk, made, seeds>>

-----------------------------------------------------------------------------
(* The layout of a root.                                                    *)

Blank == [n \in Names |-> "none"]

Seeding(p) == \E f \in Files : <<p, f>> \in seeds

\* The file is not there.
SeedLooks(p, f) == /\ pc[p] = "idle" /\ ~Seeding(p) /\ f \notin made
                   /\ seeds' = seeds \cup {<<p, f>>}
                   /\ UNCHANGED <<disk, locks, held, pc, cmd, plan, todo, copy, made, late>>

\* The command has read the file, or written it, and has not ended.
Overtakes(f, q) == pc[q] \in {"write", "done"} /\ f \in Range(plan[q])

\* The seed is written, whatever is there by now and whoever has the lock of the file.
SeedWrites(p, f) == /\ <<p, f>> \in seeds
                    /\ disk' = [disk EXCEPT ![f] = Blank]
                    /\ made' = made \cup {f}
                    /\ seeds' = seeds \ {<<p, f>>}
                    /\ late' = late \cup {q \in Processes : Overtakes(f, q)}
                    /\ UNCHANGED <<locks, held, pc, cmd, plan, todo, copy>>

\* The write fails, or the process dies before it.
SeedFails(p, f) == /\ <<p, f>> \in seeds
                   /\ seeds' = seeds \ {<<p, f>>}
                   /\ UNCHANGED <<disk, locks, held, pc, cmd, plan, todo, copy, made, late>>

Seed(p) == \E f \in Seedable : SeedLooks(p, f) \/ SeedWrites(p, f) \/ SeedFails(p, f)

-----------------------------------------------------------------------------
(* The commands.                                                            *)

\* acquire_mcp_settings_namespace_lock comes first; a command that finds the lock taken
\* ends without having done anything.
Start(p, c) == /\ pc[p] = "idle" /\ ~Seeding(p) /\ c.kind \notin {"home", "update"}
               /\ Acquire(p, c.root)
               /\ pc' = [pc EXCEPT ![p] = "locate"]
               /\ cmd' = [cmd EXCEPT ![p] = c]
               /\ UNCHANGED <<disk, plan, todo, copy, made, seeds, late>>

\* set-policy, the endpoint of setup and the project registry lock one file, no
\* namespace.
StartUpdate(p, c) == /\ pc[p] = "idle" /\ ~Seeding(p) /\ c.kind = "update"
                     /\ Acquire(p, c.path)
                     /\ pc' = [pc EXCEPT ![p] = "read"]
                     /\ cmd' = [cmd EXCEPT ![p] = c]
                     /\ plan' = [plan EXCEPT ![p] = [n \in c.names |-> c.path]]
                     /\ UNCHANGED <<disk, todo, copy, made, seeds, late>>

\* `mcpace up` imports when it counts no enabled server, before it takes the lock.
StartHome(p, c) == /\ pc[p] = "idle" /\ ~Seeding(p) /\ c.kind = "home"
                   /\ \A n \in Names : Effective(c.root, n) # "on"
                   /\ pc' = [pc EXCEPT ![p] = "counted"]
                   /\ cmd' = [cmd EXCEPT ![p] = c]
                   /\ UNCHANGED <<disk, locks, held, plan, todo, copy, made, seeds, late>>

LockHome(p) == /\ pc[p] = "counted"
               /\ \/ /\ Acquire(p, cmd[p].root)
                     /\ pc' = [pc EXCEPT ![p] = "locate"]
                     /\ UNCHANGED <<disk, cmd, plan, todo, copy, made, seeds, late>>
                  \/ /\ cmd[p].root \in locks
                     /\ Forget(p)
                     /\ UNCHANGED <<disk, locks, held, made, seeds>>

\* The files of the names are known.
Go(p, files) == /\ plan' = [plan EXCEPT ![p] = files]
                /\ todo' = [todo EXCEPT ![p] = Range(files)]
                /\ pc' = [pc EXCEPT ![p] = "lock"]
                /\ UNCHANGED <<disk, locks, held, cmd, copy, made, seeds, late>>

Targets(c) == [n \in c.names |-> Target(c, n)]

\* write_mcp_server_entry looks for the name in other sources before it locks its file.
LocateAdd(p) == /\ pc[p] = "locate" /\ cmd[p].kind = "add"
                /\ IF \A n \in cmd[p].names : Unshadowed(cmd[p].root, n, Target(cmd[p], n))
                   THEN Go(p, Targets(cmd[p])) ELSE Fail(p)

\* remove_mcp_server_entry and set_mcp_server_enabled: the file given, or the one source
\* that has the server.
LocateExisting(p) ==
    LET c == cmd[p] IN
    /\ pc[p] = "locate" /\ c.kind \in {"remove", "toggle"}
    /\ \/ c.path # NoFile /\ Go(p, [n \in c.names |-> c.path])
       \/ /\ c.path = NoFile
          /\ \/ \E files \in [c.names -> Files] :
                   (\A n \in c.names : files[n] \in FindSource(c.root, n)) /\ Go(p, files)
             \/ (\E n \in c.names : FindSource(c.root, n) = {}) /\ Fail(p)

\* import_mcp_server_entries and the home import plan their targets.
LocateImport(p) == /\ pc[p] = "locate" /\ cmd[p].kind \in {"import", "home"}
                   /\ Go(p, Targets(cmd[p]))

\* acquire_exclusive_file_locks: in the order of the paths, giving up at the first
\* that is taken.
LockFile(p) ==
    /\ pc[p] = "lock"
    /\ \E f \in todo[p] :
          /\ \A g \in todo[p] : Rank[f] <= Rank[g]
          /\ \/ /\ Acquire(p, f)
                /\ todo' = [todo EXCEPT ![p] = @ \ {f}]
                /\ pc' = [pc EXCEPT ![p] = IF todo[p] = {f} THEN "read" ELSE "lock"]
                /\ UNCHANGED <<disk, cmd, plan, copy, made, seeds, late>>
             \/ f \in locks /\ Fail(p)

Present(p) == {n \in cmd[p].names : disk[plan[p][n]][n] # "none"}

\* What stops a command once it has read its files.
Refused(p) ==
    LET c == cmd[p] IN
    \/ c.kind \in {"add", "import"} /\ ~c.force /\ Present(p) # {}
    \/ c.kind = "import" /\ \E n \in c.names : ~Unshadowed(c.root, n, plan[p][n])
    \/ c.kind \in {"remove", "toggle"} /\ Present(p) # c.names

\* An entry is added, replaced, enabled or disabled; an entry is taken out; the home
\* import writes a whole file.
Put(m, names, v) == [n \in Names |-> IF n \in names THEN v ELSE m[n]]
TakeOut(m, names) == [n \in Names |-> IF n \in names THEN "none" ELSE m[n]]
HomeImport(names, v) == [n \in Names |-> IF n \in names THEN v ELSE "none"]

\* The new contents of a file.
Updated(p, f) ==
    LET c == cmd[p]
        mine == {n \in DOMAIN plan[p] : plan[p][n] = f}
    IN  IF c.kind = "home" THEN HomeImport(mine, c.value)
        ELSE IF c.kind = "remove" THEN TakeOut(copy[p][f], mine)
        ELSE Put(copy[p][f], mine, c.value)

\* The files are read under their locks, and with them the reasons to stop.
ReadFiles(p) ==
    /\ pc[p] = "read"
    /\ \/ /\ ~Refused(p)
          /\ copy' = [copy EXCEPT ![p] = [f \in Range(plan[p]) |-> disk[f]]]
          /\ todo' = [todo EXCEPT ![p] = Range(plan[p])]
          /\ pc' = [pc EXCEPT ![p] = "write"]
          /\ UNCHANGED <<disk, locks, held, cmd, plan, made, seeds, late>>
       \/ /\ cmd[p].kind = "home"                     \* no client has a server to import
          /\ pc' = [pc EXCEPT ![p] = "done"]
          /\ UNCHANGED <<disk, locks, held, cmd, plan, todo, copy, made, seeds, late>>
       \/ Refused(p) /\ Fail(p)

\* write_text_atomic for one file after the other: a failure leaves the file as it was,
\* or, when only the permissions could not be set, already replaced.
WriteFile(p) ==
    /\ pc[p] = "write"
    /\ \E f \in todo[p] :
          /\ \A g \in todo[p] : Rank[f] <= Rank[g]
          /\ \/ /\ disk' = [disk EXCEPT ![f] = Updated(p, f)]
                /\ made' = made \cup ({f} \cap Seedable)
                /\ todo' = [todo EXCEPT ![p] = @ \ {f}]
                /\ \/ pc' = [pc EXCEPT ![p] = IF todo[p] = {f} THEN "done" ELSE "write"]
                   \/ pc' = [pc EXCEPT ![p] = "failed"]
                /\ UNCHANGED <<locks, held, cmd, plan, copy, seeds, late>>
             \/ Fail(p)

-----------------------------------------------------------------------------

StaleLocks == locks \ UNION Range(held)

\* The process dies; its lock files stay.
Crash(p) == /\ pc[p] # "idle"
            /\ Cardinality(StaleLocks) < MaxStale
            /\ held' = [held EXCEPT ![p] = {}]
            /\ Forget(p)
            /\ UNCHANGED <<disk, locks, made, seeds>>

\* "remove stale lock only after verifying no MCPace process is active".
RemoveStaleLock == /\ \A p \in Processes : pc[p] = "idle"
                   /\ \E l \in locks : locks' = locks \ {l}
                   /\ UNCHANGED <<disk, held, pc, cmd, plan, todo, copy, made, seeds, late>>

Step(p) == \/ \E c \in Commands : Start(p, c) \/ StartUpdate(p, c) \/ StartHome(p, c)
           \/ LockHome(p) \/ LocateAdd(p) \/ LocateExisting(p) \/ LocateImport(p)
           \/ LockFile(p) \/ ReadFiles(p) \/ WriteFile(p) \/ Unlock(p)

FilesNext == (\E p \in Processes : Step(p) \/ Seed(p) \/ Crash(p)) \/ RemoveStaleLock

FilesSpec == FilesInit /\ [][FilesNext]_fileVars

-----------------------------------------------------------------------------
(* Properties.                                                              *)

\* A write changes the entries its command is about and no other: between the read of a
\* file and its replacement no other command can have changed it, whatever crashes and
\* whichever roots the two belong to.  The home import owns its file.  What can take
\* entries away, or bring them back, is the seed of a file that was missing when setup,
\* init or a hub command looked: it empties that file and no other, and a command that
\* it overtook writes what it had read.
NothingLost ==
    [][disk' # disk =>
          \E p \in Processes :
             \/ \E f \in Seedable : SeedWrites(p, f)
             \/ /\ pc[p] = "write"
                /\ \A f \in Files, n \in Names :
                      \/ disk'[f][n] = disk[f][n]
                      \/ n \in DOMAIN plan[p] /\ plan[p][n] = f
                      \/ cmd[p].kind = "home" /\ f = HomeFile[cmd[p].root]
                      \/ p \in late /\ f \in Range(plan[p]) \cap made]_fileVars

\* No command of another root is pointed at the sources of this one, no update of an
\* entry of another file, and no other root has them as its own.
Private(r) == /\ \A c \in Commands :
                    c.root # r \/ c.kind = "update" =>
                       \A n \in c.names : Target(c, n) \notin Range(Sources[r])
              /\ \A s \in Roots \ {r} : Range(Sources[s]) \cap Range(Sources[r]) = {}

\* Add, import, remove, enable and disable never give a server a second source: only the
\* home import, which does not look, can, or a command that puts back a file that was
\* seeded under it.
OnlyHomeImportShadows ==
    [][disk' # disk =>
          \A r \in Roots, n \in Names :
             /\ Private(r)
             /\ Cardinality(SourcePaths(r, n)) <= 1 /\ Cardinality(SourcePaths(r, n)') > 1
             => \E p \in Processes : pc[p] = "write" /\ (cmd[p].kind = "home" \/ p \in late)]_fileVars

\* A command that reports success did what it says to the server that the registry
\* resolves the name to, unless the user chose the file: what it wrote is not shadowed
\* and what it removed does not come back from another source.  It may be gone again
\* when a seed replaced the file after the command had read it.
SuccessIsEffective ==
    \A p \in Processes :
       LET c == cmd[p] IN
       /\ pc[p] = "done" /\ c.kind \in {"add", "import", "remove", "toggle"} /\ Private(c.root)
       /\ held[p] = Range(plan[p]) \cup {c.root} /\ p \notin late
       /\ IF c.kind \in {"add", "import"} THEN Range(plan[p]) \subseteq Range(Sources[c.root])
                                          ELSE c.path = NoFile
       => \A n \in c.names :
             Effective(c.root, n) = IF c.kind = "remove" THEN "none" ELSE c.value
=============================================================================
