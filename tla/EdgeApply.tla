------------------------------ MODULE EdgeApply ------------------------------
(***************************************************************************)
(* Agent.apply, file by file: how an edge stages, tests, loads and         *)
(* confirms a desired state, rolls back when a step fails, and what is     *)
(* left when the agent dies between two steps.                             *)
(*                                                                         *)
(* A file is represented by the version of the desired state that wrote    *)
(* it; version 0 is the installation's configuration.  The fragments of a  *)
(* version live in directories of its own; the two index files name the    *)
(* directories to include.  Every file is written by atomicWriteFile, so   *)
(* it holds its old or its new contents.                                   *)
(***************************************************************************)
EXTENDS Naturals, Sequences

CONSTANTS
    Rejected,       \* versions that nginx -t refuses
    Operations,     \* the failures that happen
    MaxVersion,     \* bound on node_states.version
    MaxFaults       \* bound on the failures of one behaviour

ASSUME ApplyAssumption == MaxVersion \in Nat /\ MaxFaults \in Nat

VARIABLES
    desired,    \* version of the node's desired state at the control plane
    disk,       \* per file, the version of its contents
    dirs,       \* versions whose fragment directories exist
    applied,    \* the applied-version file
    live,       \* per file, the version that the Nginx workers have loaded
    report,     \* Agent.lastApplyReport
    pc,         \* where apply is
    target,     \* the version being applied
    backup,     \* the backups of the files
    written,    \* how many of the writes of apply are done
    todo,       \* the files still to be restored, and whether to reload
    created,    \* createdFragmentDirectories is not empty
    faults,     \* the failures so far
    entry,      \* history: live, applied and good when apply began
    good,       \* history: the last version seen live and listening
    dirty       \* history: an agent died while applying, none succeeded since

vars == <<desired, disk, dirs, applied, live, report, pc, target, backup,
          written, todo, created, faults, entry, good, dirty>>

local == <<target, backup, written, todo, created>>
history == <<entry, good, dirty>>

Certificates == {"certificate", "key"}
Indexes == {"http", "stream"}
Files == Certificates \cup {"main"} \cup Indexes

\* Mutant: the fragments are staged after the indexes that include them.
WriteOrderIndexFirst ==
    <<"certificate", "key", "main", "http", "stream", "fragments">>

\* The certificate files, then the fragment directories, then the others.
WriteOrder == <<"certificate", "key", "fragments", "main", "http", "stream">>

Versions == 0 .. MaxVersion
Whole(v) == [f \in Files |-> v]
NoReport == [version |-> 0, ok |-> FALSE]

Failed(v) == [version |-> v, ok |-> FALSE]

\* An index that the agent generated names directories that exist.
Resolves == \A f \in Indexes : disk[f] # 0 => disk[f] \in dirs

\* nginx -t, on a configuration of one version or, after a crash, on a
\* mixture or a dangling include, of which nothing is known.
TestResults ==
    IF Resolves /\ \E v \in Versions : disk = Whole(v)
    THEN {disk \notin {Whole(v) : v \in Rejected}}
    ELSE BOOLEAN

\* A failure of the environment: a write, the reload, a port, the process.
Fault(kind) ==
    /\ kind \in Operations
    /\ faults < MaxFaults
    /\ faults' = faults + 1

-----------------------------------------------------------------------------
\* The control plane and the heartbeat.

NewDesiredState ==
    /\ desired < MaxVersion
    /\ desired' = desired + 1
    /\ UNCHANGED <<disk, dirs, applied, live, report, pc, local, faults, history>>

\* An answered heartbeat clears the report; the loop sends none meanwhile.
Heartbeat ==
    /\ pc = "idle"
    /\ report' = NoReport
    /\ UNCHANGED <<desired, disk, dirs, applied, live, pc, local, faults, history>>

-----------------------------------------------------------------------------
\* The steps of apply.

\* Sync: the desired state is newer than the applied-version file.
Sync ==
    /\ pc = "idle"
    /\ desired > applied
    /\ pc' = "backup"
    /\ target' = desired
    /\ entry' = [live |-> live, applied |-> applied, good |-> good]
    /\ UNCHANGED <<desired, disk, dirs, applied, live, report, backup, written,
                   todo, created, faults, good, dirty>>

\* The indexes and their fragments are read into the backups, then the ports
\* are checked.
Backup ==
    /\ pc = "backup"
    /\ Resolves
    /\ backup' = disk
    /\ written' = 0
    /\ created' = FALSE
    /\ pc' = "write"
    /\ UNCHANGED <<desired, disk, dirs, applied, live, report, target, todo,
                   faults, history>>

\* The early returns: an index without fragments, an unreadable file, a port
\* that another process holds.
Refuse ==
    /\ pc = "backup"
    /\ \/ ~Resolves /\ UNCHANGED faults
       \/ Fault("refused")
    /\ report' = Failed(target)
    /\ pc' = "idle"
    /\ UNCHANGED <<desired, disk, dirs, applied, live, local, history>>

\* stageCertificates, stageNginxFragments and the configuration files.
Write ==
    /\ pc = "write"
    /\ LET f == WriteOrder[written + 1]
       IN  IF f = "fragments"
           THEN /\ dirs' = dirs \cup {target}
                /\ created' = (target \notin dirs)
                /\ UNCHANGED disk
           ELSE /\ disk' = [disk EXCEPT ![f] = target]
                /\ UNCHANGED <<dirs, created>>
    /\ written' = written + 1
    /\ pc' = IF written + 1 = Len(WriteOrder) THEN "test" ELSE "write"
    /\ UNCHANGED <<desired, applied, live, report, target, backup, todo, faults,
                   history>>

\* Mutant: a failed step leaves the certificates as staged.
RollBackConfigs(reload) ==
    /\ todo' = [files |-> Files \ Certificates, reload |-> reload]
    /\ pc' = "restore"

\* What a failed step does before it returns.
RollBack(reload) ==
    /\ todo' = [files |-> Files, reload |-> reload]
    /\ pc' = "restore"

\* A write fails: the files are restored, nothing was loaded.
WriteFails ==
    /\ pc = "write"
    /\ Fault("write_failure")
    /\ RollBack(FALSE)
    /\ UNCHANGED <<desired, disk, dirs, applied, live, report, target, backup,
                   written, created, history>>

\* prepareManagedCacheLayout fails.
CacheLayoutFails ==
    /\ pc = "test"
    /\ Fault("write_failure")
    /\ RollBack(TRUE)
    /\ UNCHANGED <<desired, disk, dirs, applied, live, report, target, backup,
                   written, created, history>>

\* Runner.Test.
Test ==
    /\ pc = "test"
    /\ \E ok \in TestResults :
        IF ok THEN pc' = "reload" /\ UNCHANGED todo ELSE RollBack(TRUE)
    /\ UNCHANGED <<desired, disk, dirs, applied, live, report, target, backup,
                   written, created, faults, history>>

\* Runner.Apply returns when a new worker is seen.
Reload ==
    /\ pc = "reload"
    /\ live' = disk
    /\ pc' = "listen"
    /\ UNCHANGED <<desired, disk, dirs, applied, report, local, faults, history>>

\* No new worker within the timeout, whether or not one comes later.
ReloadFails ==
    /\ pc = "reload"
    /\ Fault("reload_failure")
    /\ live' \in {live, disk}
    /\ RollBack(TRUE)
    /\ UNCHANGED <<desired, disk, dirs, applied, report, target, backup, written,
                   created, history>>

\* waitForNginxListeners: Nginx holds the ports, or another process does.
Listening ==
    /\ pc = "listen"
    /\ pc' = "record"
    /\ good' = target
    /\ UNCHANGED <<desired, disk, dirs, applied, live, report, local, faults,
                   entry, dirty>>

ListenFails ==
    /\ pc = "listen"
    /\ Fault("refused")
    /\ RollBack(TRUE)
    /\ UNCHANGED <<desired, disk, dirs, applied, live, report, target, backup,
                   written, created, history>>

\* The version is recorded last; a failed write of it rolls nothing back.
Record ==
    /\ pc = "record"
    /\ applied' = target
    /\ pc' = "cleanup"
    /\ UNCHANGED <<desired, disk, dirs, live, report, local, faults, history>>

RecordFails ==
    /\ pc = "record"
    /\ Fault("write_failure")
    /\ report' = Failed(target)
    /\ dirty' = FALSE
    /\ pc' = "idle"
    /\ UNCHANGED <<desired, disk, dirs, applied, live, local, entry, good>>

\* cleanupOldFragmentDirectories keeps those of the version just applied.
Cleanup ==
    /\ pc = "cleanup"
    /\ dirs' = {target}
    /\ report' = [version |-> target, ok |-> TRUE]
    /\ dirty' = FALSE
    /\ pc' = "idle"
    /\ UNCHANGED <<desired, disk, applied, live, local, faults, entry, good>>

-----------------------------------------------------------------------------
\* Rolling back.

\* restoreBackups, then restoreConfigurationFiles; their errors are ignored.
RestoreFile(f) ==
    /\ pc = "restore"
    /\ f \in todo.files
    /\ f \notin Certificates => todo.files \cap Certificates = {}
    /\ todo' = [todo EXCEPT !.files = @ \ {f}]
    /\ \/ /\ disk' = [disk EXCEPT ![f] = backup[f]]
          /\ UNCHANGED faults
       \/ /\ disk[f] # backup[f]
          /\ Fault("restore_failure")
          /\ UNCHANGED disk
    /\ UNCHANGED <<desired, dirs, applied, live, report, pc, target, backup,
                   written, created, history>>

\* restorePreviousConfigs: a restored configuration that passes the test is
\* loaded; errors are ignored.
Revert ==
    /\ pc = "restore"
    /\ todo.files = {}
    /\ pc' = "discard"
    /\ \/ /\ todo.reload /\ TRUE \in TestResults
          /\ live' = disk
          /\ UNCHANGED faults
       \/ /\ todo.reload => FALSE \in TestResults
          /\ UNCHANGED <<live, faults>>
       \/ /\ todo.reload
          /\ Fault("reload_failure")
          /\ UNCHANGED live
    /\ UNCHANGED <<desired, disk, dirs, applied, report, local, history>>

\* Mutant: the directories are removed whoever created them.
KeptAlways == dirs \ {target}

\* The directories left by the deferred removal of those this apply created.
Kept == IF created THEN dirs \ {target} ELSE dirs

Discard ==
    /\ pc = "discard"
    /\ dirs' = Kept
    /\ report' = Failed(target)
    /\ pc' = "idle"
    /\ UNCHANGED <<desired, disk, applied, live, local, faults, history>>

-----------------------------------------------------------------------------
\* The agent dies; systemd starts it again.  Nginx keeps running.
Crash ==
    /\ Fault("crash")
    /\ pc' = "idle"
    /\ report' = NoReport
    /\ dirty' = CASE pc = "idle" -> dirty [] pc = "cleanup" -> FALSE [] OTHER -> TRUE
    /\ UNCHANGED <<desired, disk, dirs, applied, live, local, entry, good>>

Init ==
    /\ desired = 0
    /\ disk = Whole(0)
    /\ dirs = {}
    /\ applied = 0
    /\ live = Whole(0)
    /\ report = NoReport
    /\ pc = "idle"
    /\ target = 0
    /\ backup = Whole(0)
    /\ written = 0
    /\ todo = [files |-> {}, reload |-> FALSE]
    /\ created = FALSE
    /\ faults = 0
    /\ entry = [live |-> Whole(0), applied |-> 0, good |-> 0]
    /\ good = 0
    /\ dirty = FALSE

\* What the agent's loop does when nothing goes wrong.
Step ==
    \/ Sync \/ Backup \/ Write \/ Test \/ Reload \/ Listening \/ Record \/ Cleanup
    \/ Revert \/ Discard \/ Refuse
    \/ \E f \in Files : RestoreFile(f)

Next ==
    \/ NewDesiredState \/ Heartbeat \/ Step \/ Crash
    \/ WriteFails \/ CacheLayoutFails \/ ReloadFails \/ ListenFails \/ RecordFails

Spec == Init /\ [][Next]_vars

\* Agent.Run is one loop that never stops; a desired state is polled forever.
FairSpec == Spec /\ WF_vars(Step)

-----------------------------------------------------------------------------
\* Properties.

TypeOK ==
    /\ {desired, applied, target, good} \subseteq Versions
    /\ {disk, live, backup} \subseteq [Files -> Versions]
    /\ entry \in [live : [Files -> Versions], applied : Versions, good : Versions]
    /\ dirs \subseteq Versions
    /\ report \in [version : Versions, ok : BOOLEAN]
    /\ pc \in {"idle", "backup", "write", "test", "reload", "listen", "record",
               "cleanup", "restore", "discard"}
    /\ written \in 0 .. Len(WriteOrder)
    /\ todo \in [files : SUBSET Files, reload : BOOLEAN]
    /\ created \in BOOLEAN /\ dirty \in BOOLEAN
    /\ faults \in 0 .. MaxFaults

\* Whenever Nginx may be restarted, whatever step the agent is at or died at,
\* the index files on disk include fragment directories that exist: staging
\* comes before the indexes, the cleanup after the record, and a rollback
\* removes directories only after the indexes are back.
IndexResolves == Resolves

\* README.md, "Edge agent": a failed apply restores the last known-good
\* configuration and TLS files, whichever step failed and however often
\* applies have failed before; that configuration is the last one that was
\* seen live and listening.  (Unless an agent died while applying: the next
\* apply then backs up, and restores, the mixture that it finds.)
KnownGoodRestored ==
    (pc = "idle" /\ report # NoReport /\ ~report.ok /\ ~dirty) => disk = Whole(good)

\* The detailed apply implements the atomic one: seen from the heartbeats,
\* applied version, live configuration and report change together.
Atomic == INSTANCE EdgeSync WITH
    live <- IF pc = "idle" THEN live ELSE entry.live,
    applied <- IF pc = "idle" THEN applied ELSE entry.applied,
    good <- IF pc = "idle" THEN good ELSE entry.good

AppliesAtomically == Atomic!SyncSpec

\* Once failures stop, the edge reaches the newest desired state that Nginx
\* accepts, from whatever the failed and interrupted applies have left.
CatchesUp == <>[](desired \in Rejected \/ applied = desired)

=============================================================================
