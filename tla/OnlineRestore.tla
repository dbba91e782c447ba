--------------------------- MODULE OnlineRestore ---------------------------
(***************************************************************************)
(* The control plane's side of an online restore (internal/control/        *)
(* online_restore.go and online_restore_apply.go): one job at a time is    *)
(* prepared by a goroutine in isolation, committed, and applied when the   *)
(* process starts again.  A job's isolated data are its directory (roots)  *)
(* and its temporary ClickHouse database (databases).                      *)
(***************************************************************************)
EXTENDS Naturals

CONSTANTS
    Snapshots,      \* the snapshots of the Restic repository
    NoSnapshot,     \* not a snapshot
    MaxJobs,        \* bound on the number of restore jobs
    MaxCrashes      \* bound on the number of crashes

ASSUME JobsAssumption == MaxJobs \in Nat /\ MaxCrashes \in Nat
ASSUME SnapshotAssumption == NoSnapshot \notin Snapshots

VARIABLES
    repo,        \* snapshots still in the repository
    job,         \* m.job, which every transition also writes to disk
    stage,       \* stage[j]: where the goroutine of job j is
    stopped,     \* jobs whose context was cancelled
    jobCancel,   \* m.jobCancel: the job it cancels, 0 when nil
    roots,       \* jobs whose directory exists
    databases,   \* jobs whose temporary database exists
    lock,        \* the job of the maintenance lock, 0 when there is none
    live,        \* the snapshot the live data come from
    process,     \* "up" or "down"
    forget,      \* the snapshot DeleteSnapshot is removing (it holds snapshotMu)
    crashes      \* crashes so far

server == <<repo, job, stage, stopped, jobCancel, roots, databases, lock, live,
            process, forget, crashes>>

Jobs == 1..MaxJobs
Preparing == {"queued", "downloading", "validating"}
onlineRestoreActive == Preparing \cup {"ready", "committing"}
JobStates == onlineRestoreActive \cup {"none", "completed", "failed", "cancelled"}
NoJob == [id |-> 0, snap |-> NoSnapshot, state |-> "none"]
JobType == [id : 0..MaxJobs, snap : Snapshots \cup {NoSnapshot}, state : JobStates]
WithState(state) == [id |-> job.id, snap |-> job.snap, state |-> state]

ServerTypeOK ==
    /\ repo \subseteq Snapshots
    /\ job \in JobType
    /\ stage \in [Jobs -> {"idle", "queued", "downloading", "validating", "ending"}]
    /\ stopped \subseteq Jobs
    /\ jobCancel \in 0..MaxJobs
    /\ roots \subseteq Jobs
    /\ databases \subseteq Jobs
    /\ lock \in 0..MaxJobs
    /\ live \in Snapshots \cup {NoSnapshot}
    /\ process \in {"up", "down"}
    /\ forget \in Snapshots \cup {NoSnapshot}
    /\ crashes \in 0..MaxCrashes

ServerInit ==
    /\ repo = Snapshots
    /\ job = NoJob
    /\ stage = [j \in Jobs |-> "idle"]
    /\ stopped = {}
    /\ jobCancel = 0
    /\ roots = {}
    /\ databases = {}
    /\ lock = 0
    /\ live = NoSnapshot
    /\ process = "up"
    /\ forget = NoSnapshot
    /\ crashes = 0

-----------------------------------------------------------------------------
(* Requests.  Each *Accepted operator is the handler's condition.          *)

\* Mutant: requests do not take snapshotMu.
SnapshotMuNotTaken == TRUE

SnapshotMuFree == forget = NoSnapshot

StartAccepted == job.state \notin onlineRestoreActive

Start(s) ==
    /\ SnapshotMuFree
    /\ StartAccepted
    /\ job.id < MaxJobs
    /\ job' = [id |-> job.id + 1, snap |-> s, state |-> "queued"]
    /\ stage' = [stage EXCEPT ![job.id + 1] = "queued"]
    /\ jobCancel' = job.id + 1
    /\ roots' = roots \ {job.id}
    /\ UNCHANGED <<repo, stopped, databases, lock, live, process, forget, crashes>>

CommitAccepted(j) ==
    /\ job.id = j
    /\ job.state = "ready"
    /\ j \in roots
    /\ j \in databases

Commit(j) ==
    /\ CommitAccepted(j)
    /\ job' = WithState("committing")
    /\ lock' = j
    /\ UNCHANGED <<repo, stage, stopped, jobCancel, roots, databases, live, process, forget, crashes>>

CancelAccepted(j) ==
    /\ job.id = j
    /\ j # 0
    /\ job.state \notin {"committing", "completed"}

Cancel(j) ==
    /\ CancelAccepted(j)
    /\ job' = WithState("cancelled")
    /\ stopped' = IF jobCancel = 0 THEN stopped ELSE stopped \cup {jobCancel}
    /\ lock' = IF lock = j THEN 0 ELSE lock
    /\ IF job.state \in Preparing
       THEN UNCHANGED <<roots, databases>>
       ELSE roots' = roots \ {j} /\ databases' = databases \ {j}
    /\ UNCHANGED <<repo, stage, jobCancel, live, process, forget, crashes>>

\* DeleteSnapshot up to the call of restic, and that call.
DeleteAccepted == job.state \notin onlineRestoreActive

DeleteBegin(s) ==
    /\ SnapshotMuFree
    /\ DeleteAccepted
    /\ forget' = s
    /\ UNCHANGED <<repo, job, stage, stopped, jobCancel, roots, databases, lock, live, process, crashes>>

DeleteEnd(kept) ==
    /\ forget # NoSnapshot
    /\ forget \notin repo => kept
    /\ repo' = IF kept THEN repo ELSE repo \ {forget}
    /\ forget' = NoSnapshot
    /\ UNCHANGED <<job, stage, stopped, jobCancel, roots, databases, lock, live, process, crashes>>

-----------------------------------------------------------------------------
(* The goroutine stage(ctx, jobID).                                        *)

\* Mutant: a cancelled job is updated.
UpdatableCancelled(j) == job.id = j

\* updateJob and failJob leave a job alone that is not theirs or was cancelled.
Updatable(j) == job.id = j /\ job.state # "cancelled"

updateJob(j, state, next) ==
    IF Updatable(j)
    THEN job' = WithState(state) /\ stage' = [stage EXCEPT ![j] = next]
    ELSE UNCHANGED job /\ stage' = [stage EXCEPT ![j] = "ending"]

StageQueued(j) ==
    /\ process = "up"
    /\ stage[j] = "queued"
    /\ updateJob(j, "downloading", "downloading")
    /\ UNCHANGED <<repo, stopped, jobCancel, roots, databases, lock, live, process, forget, crashes>>

StageDownload(j) ==
    /\ process = "up"
    /\ stage[j] = "downloading"
    /\ j \notin stopped
    /\ job.id = j => job.snap \in repo
    /\ roots' = roots \cup {j}
    /\ updateJob(j, "validating", "validating")
    /\ UNCHANGED <<repo, stopped, jobCancel, databases, lock, live, process, forget, crashes>>

StageValidate(j) ==
    /\ process = "up"
    /\ stage[j] = "validating"
    /\ j \notin stopped
    /\ databases' = databases \cup {j}
    /\ updateJob(j, "ready", "ending")
    /\ UNCHANGED <<repo, stopped, jobCancel, roots, lock, live, process, forget, crashes>>

\* A step of the preparation fails, having created what it did so far.
StageFail(j, made) ==
    /\ process = "up"
    /\ stage[j] \in {"downloading", "validating"}
    /\ stage' = [stage EXCEPT ![j] = "ending"]
    /\ IF Updatable(j)
       THEN /\ job' = WithState("failed")
            /\ roots' = roots \ {j}
            /\ databases' = databases \ {j}
       ELSE /\ UNCHANGED job
            /\ roots' = IF made THEN roots \cup {j} ELSE roots
            /\ databases' = IF made /\ stage[j] = "validating" THEN databases \cup {j} ELSE databases
    /\ UNCHANGED <<repo, stopped, jobCancel, lock, live, process, forget, crashes>>

\* The deferred function of stage.
Cleans(j) == job.id = j /\ job.state \in {"cancelled", "failed"}

StageEnd(j) ==
    /\ process = "up"
    /\ stage[j] = "ending"
    /\ stage' = [stage EXCEPT ![j] = "idle"]
    /\ jobCancel' = 0
    /\ roots' = IF Cleans(j) THEN roots \ {j} ELSE roots
    /\ databases' = IF Cleans(j) THEN databases \ {j} ELSE databases
    /\ UNCHANGED <<repo, job, stopped, lock, live, process, forget, crashes>>

-----------------------------------------------------------------------------
(* The process stops, because a commit was answered or by a crash, and     *)
(* starts again.                                                           *)

Halt ==
    /\ process' = "down"
    /\ stage' = [j \in Jobs |-> "idle"]
    /\ stopped' = {}
    /\ jobCancel' = 0
    /\ forget' = NoSnapshot
    /\ UNCHANGED <<repo, job, roots, databases, lock, live>>

RestartControl == process = "up" /\ job.state = "committing" /\ Halt /\ UNCHANGED crashes

Crash ==
    /\ process = "up"
    /\ crashes < MaxCrashes
    /\ crashes' = crashes + 1
    /\ Halt

\* ApplyPendingOnlineRestore on a committing job: it completes, fails and is
\* rolled back, or fails and cannot be rolled back.
ApplyComplete ==
    /\ process = "down"
    /\ job.state = "committing"
    /\ job.id \in roots /\ job.id \in databases
    /\ live' = job.snap
    /\ job' = WithState("completed")
    /\ lock' = 0
    /\ roots' = roots \ {job.id}
    /\ databases' = databases \ {job.id}
    /\ process' = "up"
    /\ UNCHANGED <<repo, stage, stopped, jobCancel, forget, crashes>>

ApplyFail(rolledBack) ==
    /\ process = "down"
    /\ job.state = "committing"
    /\ job' = WithState("failed")
    /\ IF rolledBack
       THEN lock' = 0 /\ roots' = roots \ {job.id} /\ databases' = databases \ {job.id}
       ELSE UNCHANGED <<lock, roots, databases>>
    /\ UNCHANGED <<repo, stage, stopped, jobCancel, live, process, forget, crashes>>

\* A lock kept by a failed job stops the start of the process for good.
LockRetained == job.state = "failed" /\ lock # 0

Boot ==
    /\ process = "down"
    /\ job.state # "committing"
    /\ ~LockRetained
    /\ process' = "up"
    /\ lock' = IF lock = job.id THEN 0 ELSE lock
    /\ IF job.state \in Preparing
       THEN /\ job' = WithState("failed")
            /\ roots' = roots \ {job.id}
            /\ databases' = databases \ {job.id}
       ELSE UNCHANGED <<job, roots, databases>>
    /\ UNCHANGED <<repo, stage, stopped, jobCancel, live, forget, crashes>>

Stage(j) ==
    \/ StageQueued(j)
    \/ StageDownload(j)
    \/ StageValidate(j)
    \/ \E made \in BOOLEAN : StageFail(j, made)
    \/ StageEnd(j)

Process ==
    \/ RestartControl
    \/ Crash
    \/ ApplyComplete
    \/ \E rolledBack \in BOOLEAN : ApplyFail(rolledBack)
    \/ Boot
=============================================================================
