--------------------------- MODULE ClientConfig ---------------------------
(***************************************************************************)
(* Installing MCPace into the configuration of a local MCP client, taking  *)
(* it out again and restoring a backup (src/client/actions.rs and          *)
(* src/client/actions/).  Install and removal hold the lock file of the    *)
(* configuration, back up what they read and then replace the file; a      *)
(* restore takes no lock.  A configuration is the client's own part and    *)
(* the entry of MCPace; the conversions of src/config_edit.rs touch the    *)
(* entry only.                                                             *)
(*                                                                         *)
(* Assumed: the client does not rewrite its file within a command, and no  *)
(* two backups of a client are begun in the same millisecond, which is     *)
(* their name.                                                             *)
(***************************************************************************)
EXTENDS Naturals, Sequences, Functions

CONSTANTS Installers,      \* processes that install, remove or restore
          Urls,            \* endpoints an install may write
          Parts,           \* what the client's own part of the file may be
          EmptyPart,       \* nothing of the client's own
          NoEntry, Missing,
          ByUrl,           \* removal takes only an entry with the expected URL (JSON), not
                           \* any managed block (TOML, YAML)
          MaxBackups       \* bound on the backups taken

VARIABLES config,          \* the file, or Missing
          locked,          \* the lock file exists
          backups,         \* in the order of their names: [existed, before, manifest]
          stage,
          job,             \* [kind, url, existed, existing, backup]
          raced            \* a restore replaced the file under a command (history)

configVars == <<config, locked, backups, stage, job, raced>>

\* Contents of the file.
Content == [part : Parts \cup {EmptyPart}, entry : Urls \cup {NoEntry}]

ASSUME ConfigAssumption == Missing \notin Content

NoJob == [kind |-> "none", url |-> NoEntry, existed |-> FALSE, existing |-> Missing, backup |-> 0]

ConfigInit == /\ config \in [part : Parts, entry : {NoEntry}] \cup {Missing}
              /\ locked = FALSE
              /\ backups = << >>
              /\ stage = [p \in Installers |-> "idle"]
              /\ job = [p \in Installers |-> NoJob]
              /\ raced = [p \in Installers |-> FALSE]

Goto(p, l) == stage' = [stage EXCEPT ![p] = l]

-----------------------------------------------------------------------------
(* Install and removal.                                                     *)

\* apply_json_mcp_server_entry and its TOML and YAML forms.
Installed(existing, url) == [existing EXCEPT !.entry = url]

\* remove_json_mcp_server_entry and its TOML and YAML forms.
Removed(existing, url) ==
    IF ByUrl /\ existing.entry # url THEN existing ELSE [existing EXCEPT !.entry = NoEntry]

NewContents(j, existing) == IF j.kind = "install" THEN Installed(existing, j.url)
                                                  ELSE Removed(existing, j.url)

\* acquire_exclusive_file_lock.
Lock(p, kind, url) ==
    /\ stage[p] = "idle" /\ ~locked
    /\ locked' = TRUE
    /\ job' = [job EXCEPT ![p] = [NoJob EXCEPT !.kind = kind, !.url = url]]
    /\ Goto(p, "stat")
    /\ UNCHANGED <<config, backups, raced>>

Install(p, url) == Lock(p, "install", url)

\* remove_owned_entry wants a file to begin with.
RemoveOwned(p, url) == config # Missing /\ Lock(p, "remove", url)

\* config_path.is_file() before the read; a removal counts the file as existing.
Stat(p) == /\ stage[p] = "stat"
           /\ job' = [job EXCEPT ![p].existed = (config # Missing) \/ job[p].kind = "remove"]
           /\ Goto(p, "read")
           /\ UNCHANGED <<config, locked, backups, raced>>

\* A missing file is empty to an install and an error to a removal; nothing is written
\* when nothing changes.
Read(p) ==
    LET j == job[p]
        existing == IF config = Missing THEN [part |-> EmptyPart, entry |-> NoEntry] ELSE config
        changes == /\ config # Missing \/ j.kind = "install"
                   /\ NewContents(j, existing) # existing
    IN  /\ stage[p] = "read"
        /\ job' = [job EXCEPT ![p].existing = existing]
        /\ Goto(p, IF changes THEN "backup" ELSE "unlock")
        /\ UNCHANGED <<config, locked, backups, raced>>

\* config.before and the manifest in the opposite order.
BackupManifestOnly(p) ==
    /\ stage[p] = "content"
    /\ backups' = [backups EXCEPT ![job[p].backup].manifest = TRUE]
    /\ Goto(p, "manifest")
    /\ UNCHANGED <<config, locked, job, raced>>

\* create_backup: the directory, ...
CreateBackup(p) ==
    /\ stage[p] = "backup" /\ Len(backups) < MaxBackups
    /\ backups' = Append(backups, [existed |-> job[p].existed, before |-> Missing,
                                   manifest |-> FALSE])
    /\ job' = [job EXCEPT ![p].backup = Len(backups) + 1]
    /\ Goto(p, IF job[p].existed THEN "content" ELSE "manifest")
    /\ UNCHANGED <<config, locked, raced>>

\* ... config.before when there was a file, ...
BackupContent(p) ==
    /\ stage[p] = "content"
    /\ backups' = [backups EXCEPT ![job[p].backup].before = job[p].existing]
    /\ Goto(p, "manifest")
    /\ UNCHANGED <<config, locked, job, raced>>

\* ... and last manifest.json, without which a backup is not seen.
BackupManifest(p) ==
    /\ stage[p] = "manifest"
    /\ backups' = [backups EXCEPT ![job[p].backup].manifest = TRUE]
    /\ Goto(p, "write")
    /\ UNCHANGED <<config, locked, job, raced>>

\* write_text_atomic.
Write(p) == /\ stage[p] = "write"
            /\ config' = NewContents(job[p], job[p].existing)
            /\ Goto(p, "unlock")
            /\ UNCHANGED <<locked, backups, job, raced>>

\* An I/O error on the way: the guard drops the lock.
GiveUp(p) == /\ stage[p] \in {"stat", "read", "backup", "content", "manifest", "write"}
             /\ Goto(p, "unlock")
             /\ UNCHANGED <<config, locked, backups, job, raced>>

UnlockConfig(p) == /\ stage[p] = "unlock"
                   /\ locked' = FALSE
                   /\ job' = [job EXCEPT ![p] = NoJob]
                   /\ raced' = [raced EXCEPT ![p] = FALSE]
                   /\ Goto(p, "idle")
                   /\ UNCHANGED <<config, backups>>

-----------------------------------------------------------------------------
(* Restore.                                                                 *)

Complete == {b \in DOMAIN backups : backups[b].manifest}

\* resolve_backup_path: the latest backup with a manifest, or the one asked for.
ChooseBackup(p) ==
    /\ stage[p] = "idle"
    /\ \E b \in Complete :
          job' = [job EXCEPT ![p] = [NoJob EXCEPT !.kind = "restore", !.backup = b]]
    /\ Goto(p, "restore")
    /\ UNCHANGED <<config, locked, backups, raced>>

\* What restoring a backup makes of the configuration.
Restored(b) == IF backups[b].existed THEN backups[b].before ELSE Missing

\* restore_client_install_backup: no lock and no backup of what is there.
Restore(p) ==
    /\ stage[p] = "restore"
    /\ \/ /\ config' = Restored(job[p].backup)
          /\ raced' = [q \in Installers |-> raced[q] \/ stage[q] \notin {"idle", "restore"}]
       \/ UNCHANGED <<config, raced>>
    /\ job' = [job EXCEPT ![p] = NoJob]
    /\ Goto(p, "idle")
    /\ UNCHANGED <<locked, backups>>

-----------------------------------------------------------------------------

InstallerDies(p) == /\ stage[p] # "idle"
                    /\ job' = [job EXCEPT ![p] = NoJob]
                    /\ raced' = [raced EXCEPT ![p] = FALSE]
                    /\ Goto(p, "idle")
                    /\ UNCHANGED <<config, locked, backups>>

RemoveStaleConfigLock == /\ locked /\ \A p \in Installers : stage[p] = "idle"
                         /\ locked' = FALSE
                         /\ UNCHANGED <<config, backups, stage, job, raced>>

\* The client or the user rewrites the file between two commands.
Edit == /\ \A p \in Installers : stage[p] = "idle"
        /\ config' \in [part : Parts, entry : {NoEntry, IF config = Missing THEN NoEntry
                                                         ELSE config.entry}]
        /\ UNCHANGED <<locked, backups, stage, job, raced>>

ConfigStep(p) == \/ \E url \in Urls : Install(p, url) \/ RemoveOwned(p, url)
                 \/ Stat(p) \/ Read(p) \/ CreateBackup(p) \/ BackupContent(p) \/ BackupManifest(p)
                 \/ Write(p) \/ GiveUp(p) \/ UnlockConfig(p) \/ ChooseBackup(p) \/ Restore(p)

ConfigNext == (\E p \in Installers : ConfigStep(p) \/ InstallerDies(p)) \/ RemoveStaleConfigLock \/ Edit

ConfigSpec == ConfigInit /\ [][ConfigNext]_configVars

-----------------------------------------------------------------------------
(* Properties.                                                              *)

\* A backup that a restore can choose has the contents it needs, wherever the command
\* that took it crashed, and what install or removal is about to replace can be brought
\* back: from its own backup, or, when a restore got in between, from the backup that
\* restore used.
BackupsRestore ==
    /\ \A b \in Complete : backups[b].existed => backups[b].before \in Content
    /\ \A p \in Installers :
          stage[p] = "write" => /\ \E b \in Complete : Restored(b) = config
                                /\ ~raced[p] => Restored(job[p].backup) = config
=============================================================================
