------------------------ MODULE RestoreConsoleProofs ------------------------
(***************************************************************************)
(* Proofs about RestoreConsole, for any snapshots, consoles and bounds on  *)
(* jobs and crashes: the two action properties of the restore and the      *)
(* invariant of the confirmation dialogs.                                  *)
(*                                                                         *)
(* The action properties rest on four facts about the control plane: the   *)
(* goroutine of the current job is where the job says unless the job was   *)
(* cancelled (StageOK), a stopped process has no goroutine (DownOK), no    *)
(* job is active while a snapshot is being forgotten (ForgetOK), and a     *)
(* committing job holds the maintenance lock (LockOK).                     *)
(***************************************************************************)
EXTENDS RestoreConsole, TLAPS

StageOK ==
    \A j \in Jobs : (job.id = j /\ stage[j] \in Preparing) => job.state \in {stage[j], "cancelled"}
ForgetOK == forget # NoSnapshot => job.state \notin onlineRestoreActive
DownOK == process = "down" => \A j \in Jobs : stage[j] = "idle"
LockOK == job.state = "committing" => lock = job.id

ServerInv == ServerTypeOK /\ StageOK /\ DownOK /\ ForgetOK /\ LockOK

\* The types of the consoles, and whose confirmation is open.
ConsoleInv ==
    /\ jobData \in [Consoles -> JobType]
    /\ snapData \in [Consoles -> SUBSET Snapshots]
    /\ fetch \in [Consoles -> FetchType]
    /\ dialog \in [Consoles -> DialogType]
    /\ call \in [Consoles -> CallType]
    /\ PendingDialogIsItsOwn

\* The inductive invariant.
Inv == ServerInv /\ ConsoleInv

\* The step relations of the two action properties.
KeepsActiveSnapshot ==
    \A s \in repo \ repo' : ~(job.snap = s /\ job.state \in onlineRestoreActive)
CommittedCutover ==
    /\ live' # live => job.state = "committing" /\ lock = job.id /\ live' = job.snap
    /\ job.state \in {"cancelled", "failed", "completed"} /\ job'.id = job.id
         => job'.state \in {job.state, "cancelled"}

-----------------------------------------------------------------------------
\* The control plane.

\* A job that changes its state keeps its identity and its snapshot.
LEMMA JobFacts ==
    ASSUME ServerTypeOK
    PROVE  /\ \A st \in JobStates : /\ WithState(st) \in JobType /\ WithState(st).id = job.id
                                    /\ WithState(st).state = st /\ WithState(st).snap = job.snap
           /\ job.id \in 0..MaxJobs /\ job.state \in JobStates
           /\ job.snap \in Snapshots \cup {NoSnapshot}
<1>1. job \in JobType
    BY DEF ServerTypeOK
<1> QED
    BY <1>1 DEF JobType, WithState

\* A step that leaves the server alone.
LEMMA ServerQuiet ==
    ASSUME ServerInv, UNCHANGED server
    PROVE  ServerInv' /\ KeepsActiveSnapshot /\ CommittedCutover
<1>1. ServerTypeOK'
    BY DEF ServerInv, ServerTypeOK, server
<1>2. StageOK' /\ DownOK' /\ ForgetOK' /\ LockOK'
    BY DEF ServerInv, StageOK, DownOK, ForgetOK, LockOK, server
<1> QED
    BY <1>1, <1>2 DEF ServerInv, KeepsActiveSnapshot, CommittedCutover, server

\* A job begins, while no snapshot is being forgotten.
LEMMA ServerStart ==
    ASSUME ServerInv, NEW s \in Snapshots \cup {NoSnapshot}, process = "up", Start(s)
    PROVE  ServerInv' /\ KeepsActiveSnapshot /\ CommittedCutover
<1>1. job.id \in 0..MaxJobs /\ job.id < MaxJobs
    BY JobFacts DEF ServerInv, Start
<1>2. PICK i \in Jobs : i = job.id + 1
    BY <1>1, JobsAssumption DEF Jobs
<1>3. /\ job' = [id |-> i, snap |-> s, state |-> "queued"]
      /\ stage' = [stage EXCEPT ![i] = "queued"]
      /\ jobCancel' = i /\ roots' = roots \ {job.id} /\ forget = NoSnapshot
      /\ UNCHANGED <<repo, stopped, databases, lock, live, process, forget, crashes>>
    BY <1>2 DEF Start, SnapshotMuFree
<1>4. job' \in JobType /\ job'.id = i /\ job'.state = "queued"
    BY <1>3, JobsAssumption DEF JobType, JobStates, onlineRestoreActive, Preparing, Jobs
<1>5. ServerTypeOK'
    <2> USE DEF ServerInv, ServerTypeOK
    <2>1. stage' \in [Jobs -> {"idle", "queued", "downloading", "validating", "ending"}]
        BY <1>2, <1>3
    <2>2. jobCancel' \in 0..MaxJobs
        BY <1>2, <1>3, JobsAssumption DEF Jobs
    <2>3. roots' \subseteq Jobs
        BY <1>3
    <2> QED
        BY <1>3, <1>4, <2>1, <2>2, <2>3
<1>6. StageOK' /\ DownOK'
    BY <1>3, <1>4 DEF ServerInv, ServerTypeOK, StageOK, DownOK
<1>7. ForgetOK' /\ LockOK'
    BY <1>3, <1>4 DEF ForgetOK, LockOK
<1> QED
    BY <1>1, <1>2, <1>3, <1>4, <1>5, <1>6, <1>7
       DEF ServerInv, KeepsActiveSnapshot, CommittedCutover, Jobs

\* The other requests.
LEMMA ServerRequest ==
    ASSUME ServerInv,
           \/ \E j \in 0..MaxJobs : Commit(j) \/ Cancel(j)
           \/ \E s \in Snapshots \cup {NoSnapshot} : DeleteBegin(s)
           \/ \E kept \in BOOLEAN : DeleteEnd(kept)
    PROVE  ServerInv' /\ KeepsActiveSnapshot /\ CommittedCutover
<1> USE DEF ServerInv
<1>1. "committing" \in JobStates /\ "cancelled" \in JobStates
    BY DEF JobStates, onlineRestoreActive
<1>2. ASSUME NEW j \in 0..MaxJobs, Commit(j)
      PROVE  ServerInv' /\ KeepsActiveSnapshot /\ CommittedCutover
    <2>1. /\ job.id = j /\ job.state = "ready" /\ job' = WithState("committing") /\ lock' = j
          /\ UNCHANGED <<repo, stage, stopped, jobCancel, roots, databases, live, process, forget, crashes>>
        BY <1>2 DEF Commit, CommitAccepted
    <2>2. job' \in JobType /\ job'.id = job.id /\ job'.state = "committing"
        BY <1>1, <2>1, JobFacts
    <2>3. ServerTypeOK' /\ LockOK'
        BY <2>1, <2>2 DEF ServerTypeOK, LockOK
    <2>4. StageOK' /\ DownOK' /\ ForgetOK'
        BY <2>1, <2>2 DEF StageOK, DownOK, ForgetOK, Preparing, onlineRestoreActive
    <2> QED
        BY <2>1, <2>2, <2>3, <2>4 DEF KeepsActiveSnapshot, CommittedCutover
<1>3. ASSUME NEW j \in 0..MaxJobs, Cancel(j)
      PROVE  ServerInv' /\ KeepsActiveSnapshot /\ CommittedCutover
    <2>1. /\ job.id = j /\ job' = WithState("cancelled")
          /\ stopped' = IF jobCancel = 0 THEN stopped ELSE stopped \cup {jobCancel}
          /\ lock' \in {0, lock} /\ roots' \subseteq roots /\ databases' \subseteq databases
          /\ UNCHANGED <<repo, stage, jobCancel, live, process, forget, crashes>>
        BY <1>3 DEF Cancel, CancelAccepted
    <2>2. job' \in JobType /\ job'.id = job.id /\ job'.state = "cancelled"
        BY <1>1, <2>1, JobFacts
    <2>3. stopped' \subseteq Jobs /\ lock' \in 0..MaxJobs
        BY <2>1, JobsAssumption DEF ServerTypeOK, Jobs
    <2>4. ServerTypeOK'
        BY <2>1, <2>2, <2>3 DEF ServerTypeOK
    <2>5. StageOK' /\ DownOK' /\ ForgetOK' /\ LockOK'
        BY <2>1, <2>2 DEF StageOK, DownOK, ForgetOK, LockOK, onlineRestoreActive, Preparing
    <2> QED
        BY <2>1, <2>2, <2>4, <2>5 DEF KeepsActiveSnapshot, CommittedCutover
<1>4. ASSUME NEW s \in Snapshots \cup {NoSnapshot}, DeleteBegin(s)
      PROVE  ServerInv' /\ KeepsActiveSnapshot /\ CommittedCutover
    <2>1. /\ forget' = s /\ job.state \notin onlineRestoreActive
          /\ UNCHANGED <<repo, job, stage, stopped, jobCancel, roots, databases, lock, live, process, crashes>>
        BY <1>4 DEF DeleteBegin, DeleteAccepted
    <2> QED
        BY <2>1 DEF ServerTypeOK, StageOK, DownOK, ForgetOK, LockOK, KeepsActiveSnapshot, CommittedCutover
<1>5. ASSUME NEW kept \in BOOLEAN, DeleteEnd(kept)
      PROVE  ServerInv' /\ KeepsActiveSnapshot /\ CommittedCutover
    <2>1. /\ forget # NoSnapshot /\ forget' = NoSnapshot /\ repo' \in {repo, repo \ {forget}}
          /\ UNCHANGED <<job, stage, stopped, jobCancel, roots, databases, lock, live, process, crashes>>
        BY <1>5 DEF DeleteEnd
    <2>2. job.state \notin onlineRestoreActive
        BY <2>1 DEF ForgetOK
    <2> QED
        BY <2>1, <2>2 DEF ServerTypeOK, StageOK, DownOK, ForgetOK, LockOK, KeepsActiveSnapshot, CommittedCutover
<1> QED
    BY <1>2, <1>3, <1>4, <1>5

\* The goroutine of job j has written the job: from where the job said it was.
LEMMA ServerStage ==
    ASSUME ServerInv, NEW j \in Jobs, Stage(j)
    PROVE  ServerInv' /\ KeepsActiveSnapshot /\ CommittedCutover
<1> DEFINE Places == {"idle", "queued", "downloading", "validating", "ending"}
<1> USE DEF ServerInv
<1>1. {"downloading", "validating", "ready", "failed"} \subseteq JobStates
    BY DEF JobStates, onlineRestoreActive, Preparing
<1>2. /\ stage[j] \in Places /\ stage \in [Jobs -> Places] /\ job \in JobType
      /\ forget # NoSnapshot => job.state \notin onlineRestoreActive
    BY DEF ServerTypeOK, ForgetOK
\* What updateJob does: the job goes one state further, or the goroutine ends.
<1>3. ASSUME NEW state \in JobStates, NEW next \in Places, stage[j] \in Preparing,
             updateJob(j, state, next), UNCHANGED <<lock, forget, process>>,
             process = "up",
             next \in Preparing => state = next,
             state \notin {"committing", "none"}
      PROVE  /\ job' \in JobType /\ stage' \in [Jobs -> Places]
             /\ StageOK' /\ DownOK' /\ ForgetOK' /\ LockOK'
             /\ job'.id = job.id
             /\ job.state \in {"cancelled", "failed", "completed"} => job' = job
    <2>1. CASE Updatable(j)
        <3>1. /\ job.id = j /\ job.state = stage[j]
              /\ job' = WithState(state) /\ stage' = [stage EXCEPT ![j] = next]
            BY <1>3, <2>1 DEF Updatable, updateJob, StageOK
        <3>2. job' \in JobType /\ job'.id = job.id /\ job'.state = state
            BY <3>1, JobFacts
        <3>3. stage' \in [Jobs -> Places]
            BY <1>2, <3>1
        <3>4. StageOK' /\ DownOK'
            BY <1>2, <1>3, <3>1, <3>2 DEF StageOK, DownOK
        <3>5. job.state \in onlineRestoreActive /\ job.state \in Preparing
            BY <1>3, <3>1 DEF onlineRestoreActive
        <3>6. ForgetOK' /\ LockOK'
            BY <1>2, <1>3, <3>2, <3>5 DEF ForgetOK, LockOK
        <3> QED
            BY <3>2, <3>3, <3>4, <3>5, <3>6 DEF Preparing
    <2>2. CASE ~Updatable(j)
        <3>1. job' = job /\ stage' = [stage EXCEPT ![j] = "ending"]
            BY <1>3, <2>2 DEF updateJob
        <3>2. stage' \in [Jobs -> Places]
            BY <1>2, <3>1
        <3>3. StageOK' /\ DownOK'
            BY <1>2, <1>3, <3>1 DEF StageOK, DownOK, Preparing
        <3> QED
            BY <1>2, <1>3, <3>1, <3>2, <3>3 DEF ForgetOK, LockOK
    <2> QED
        BY <2>1, <2>2
<1>4. ASSUME /\ job' \in JobType /\ stage' \in [Jobs -> Places]
             /\ StageOK' /\ DownOK' /\ ForgetOK' /\ LockOK'
             /\ job'.id = job.id
             /\ job.state \in {"cancelled", "failed", "completed"} => job' = job,
             roots' \subseteq Jobs, databases' \subseteq Jobs, jobCancel' \in 0..MaxJobs,
             UNCHANGED <<repo, stopped, lock, live, process, forget, crashes>>
      PROVE  ServerInv' /\ KeepsActiveSnapshot /\ CommittedCutover
    <2>1. ServerTypeOK'
        BY <1>4 DEF ServerTypeOK
    <2> QED
        BY <1>4, <2>1 DEF KeepsActiveSnapshot, CommittedCutover
<1>5. CASE StageQueued(j)
    <2>1. /\ process = "up" /\ stage[j] = "queued" /\ updateJob(j, "downloading", "downloading")
          /\ UNCHANGED <<repo, stopped, jobCancel, roots, databases, lock, live, process, forget, crashes>>
        BY <1>5 DEF StageQueued
    <2>2. /\ job' \in JobType /\ stage' \in [Jobs -> Places]
          /\ StageOK' /\ DownOK' /\ ForgetOK' /\ LockOK'
          /\ job'.id = job.id
          /\ job.state \in {"cancelled", "failed", "completed"} => job' = job
        BY <1>1, <1>3, <2>1 DEF Preparing
    <2> QED
        BY <1>4, <2>1, <2>2 DEF ServerTypeOK
<1>6. CASE StageDownload(j)
    <2>1. /\ process = "up" /\ stage[j] = "downloading" /\ updateJob(j, "validating", "validating")
          /\ roots' = roots \cup {j}
          /\ UNCHANGED <<repo, stopped, jobCancel, databases, lock, live, process, forget, crashes>>
        BY <1>6 DEF StageDownload
    <2>2. /\ job' \in JobType /\ stage' \in [Jobs -> Places]
          /\ StageOK' /\ DownOK' /\ ForgetOK' /\ LockOK'
          /\ job'.id = job.id
          /\ job.state \in {"cancelled", "failed", "completed"} => job' = job
        BY <1>1, <1>3, <2>1 DEF Preparing
    <2> QED
        BY <1>4, <2>1, <2>2 DEF ServerTypeOK
<1>7. CASE StageValidate(j)
    <2>1. /\ process = "up" /\ stage[j] = "validating" /\ updateJob(j, "ready", "ending")
          /\ databases' = databases \cup {j}
          /\ UNCHANGED <<repo, stopped, jobCancel, roots, lock, live, process, forget, crashes>>
        BY <1>7 DEF StageValidate
    <2>2. /\ job' \in JobType /\ stage' \in [Jobs -> Places]
          /\ StageOK' /\ DownOK' /\ ForgetOK' /\ LockOK'
          /\ job'.id = job.id
          /\ job.state \in {"cancelled", "failed", "completed"} => job' = job
        BY <1>1, <1>3, <2>1 DEF Preparing
    <2> QED
        BY <1>4, <2>1, <2>2 DEF ServerTypeOK
<1>8. ASSUME NEW made \in BOOLEAN, StageFail(j, made)
      PROVE  ServerInv' /\ KeepsActiveSnapshot /\ CommittedCutover
    <2>1. /\ process = "up" /\ stage[j] \in {"downloading", "validating"} /\ updateJob(j, "failed", "ending")
          /\ roots' \subseteq roots \cup {j} /\ databases' \subseteq databases \cup {j}
          /\ UNCHANGED <<repo, stopped, jobCancel, lock, live, process, forget, crashes>>
        BY <1>8 DEF StageFail, updateJob
    <2>2. /\ job' \in JobType /\ stage' \in [Jobs -> Places]
          /\ StageOK' /\ DownOK' /\ ForgetOK' /\ LockOK'
          /\ job'.id = job.id
          /\ job.state \in {"cancelled", "failed", "completed"} => job' = job
        BY <1>1, <1>3, <2>1 DEF Preparing
    <2> QED
        BY <1>4, <2>1, <2>2 DEF ServerTypeOK
<1>9. CASE StageEnd(j)
    <2>1. /\ process = "up" /\ stage' = [stage EXCEPT ![j] = "idle"] /\ jobCancel' = 0
          /\ roots' \subseteq roots /\ databases' \subseteq databases
          /\ UNCHANGED <<repo, job, stopped, lock, live, process, forget, crashes>>
        BY <1>9 DEF StageEnd
    <2>2. stage' \in [Jobs -> Places] /\ jobCancel' \in 0..MaxJobs
        BY <1>2, <2>1, JobsAssumption
    <2>3. StageOK' /\ DownOK'
        BY <1>2, <2>1 DEF StageOK, DownOK, Preparing
    <2>4. roots' \subseteq Jobs /\ databases' \subseteq Jobs /\ job' \in JobType
        BY <1>2, <2>1 DEF ServerTypeOK
    <2>5. ForgetOK' /\ LockOK'
        BY <2>1 DEF ForgetOK, LockOK
    <2> QED
        BY <1>4, <2>1, <2>2, <2>3, <2>4, <2>5
<1> QED
    BY <1>5, <1>6, <1>7, <1>8, <1>9 DEF Stage

\* The process stops and starts again.
LEMMA ServerProcess ==
    ASSUME ServerInv, Process
    PROVE  ServerInv' /\ KeepsActiveSnapshot /\ CommittedCutover
<1> USE DEF ServerInv
<1>1. {"failed", "completed"} \subseteq JobStates
    BY DEF JobStates
<1>2. ASSUME Halt, crashes' \in 0..MaxCrashes
      PROVE  ServerInv' /\ KeepsActiveSnapshot /\ CommittedCutover
    <2>1. /\ process' = "down" /\ stage' = [j \in Jobs |-> "idle"] /\ stopped' = {}
          /\ jobCancel' = 0 /\ forget' = NoSnapshot
          /\ UNCHANGED <<repo, job, roots, databases, lock, live>>
        BY <1>2 DEF Halt
    <2>2. ServerTypeOK'
        BY <1>2, <2>1, JobsAssumption DEF ServerTypeOK
    <2>3. StageOK' /\ DownOK' /\ ForgetOK' /\ LockOK'
        BY <2>1 DEF StageOK, DownOK, ForgetOK, LockOK, Preparing
    <2> QED
        BY <2>1, <2>2, <2>3 DEF KeepsActiveSnapshot, CommittedCutover
<1>3. CASE RestartControl
    BY <1>2, <1>3 DEF RestartControl, ServerTypeOK
<1>4. CASE Crash
    <2>1. crashes' \in 0..MaxCrashes
        BY <1>4, JobsAssumption DEF Crash, ServerTypeOK
    <2> QED
        BY <1>2, <1>4, <2>1 DEF Crash
<1>5. CASE ApplyComplete
    <2>1. /\ job.state = "committing" /\ lock = job.id /\ live' = job.snap
          /\ job' = WithState("completed") /\ lock' = 0 /\ process' = "up"
          /\ roots' \subseteq roots /\ databases' \subseteq databases
          /\ UNCHANGED <<repo, stage, stopped, jobCancel, forget, crashes>>
        BY <1>5 DEF ApplyComplete, LockOK
    <2>2. job' \in JobType /\ job'.id = job.id /\ job'.state = "completed" /\ live' \in Snapshots \cup {NoSnapshot}
        BY <1>1, <2>1, JobFacts
    <2>3. ServerTypeOK'
        BY <2>1, <2>2, JobsAssumption DEF ServerTypeOK
    <2>4. StageOK' /\ DownOK' /\ ForgetOK' /\ LockOK'
        BY <2>1, <2>2 DEF StageOK, DownOK, ForgetOK, LockOK, onlineRestoreActive, Preparing
    <2> QED
        BY <2>1, <2>2, <2>3, <2>4 DEF KeepsActiveSnapshot, CommittedCutover
<1>6. ASSUME NEW rolledBack \in BOOLEAN, ApplyFail(rolledBack)
      PROVE  ServerInv' /\ KeepsActiveSnapshot /\ CommittedCutover
    <2>1. /\ job.state = "committing" /\ job' = WithState("failed") /\ lock' \in {0, lock}
          /\ roots' \subseteq roots /\ databases' \subseteq databases
          /\ UNCHANGED <<repo, stage, stopped, jobCancel, live, process, forget, crashes>>
        BY <1>6 DEF ApplyFail
    <2>2. job' \in JobType /\ job'.id = job.id /\ job'.state = "failed"
        BY <1>1, <2>1, JobFacts
    <2>3. lock' \in 0..MaxJobs
        BY <2>1, JobsAssumption DEF ServerTypeOK
    <2>4. ServerTypeOK'
        BY <2>1, <2>2, <2>3 DEF ServerTypeOK
    <2>5. StageOK' /\ DownOK' /\ ForgetOK' /\ LockOK'
        BY <2>1, <2>2 DEF StageOK, DownOK, ForgetOK, LockOK, onlineRestoreActive, Preparing
    <2> QED
        BY <2>1, <2>2, <2>4, <2>5 DEF KeepsActiveSnapshot, CommittedCutover
<1>7. CASE Boot
    <2>1. /\ process = "down" /\ job.state # "committing" /\ lock' \in {0, lock} /\ process' = "up"
          /\ roots' \subseteq roots /\ databases' \subseteq databases
          /\ \/ job.state \in Preparing /\ job' = WithState("failed")
             \/ job.state \notin Preparing /\ job' = job
          /\ UNCHANGED <<repo, stage, stopped, jobCancel, live, forget, crashes>>
        BY <1>7 DEF Boot
    <2>2. lock' \in 0..MaxJobs
        BY <2>1, JobsAssumption DEF ServerTypeOK
    <2>3. CASE job.state \in Preparing /\ job' = WithState("failed")
        <3>1. job' \in JobType /\ job'.id = job.id /\ job'.state = "failed"
            BY <1>1, <2>3, JobFacts
        <3>2. ServerTypeOK'
            BY <2>1, <2>2, <3>1 DEF ServerTypeOK
        <3>3. StageOK' /\ DownOK' /\ ForgetOK' /\ LockOK'
            BY <2>1, <3>1 DEF StageOK, DownOK, ForgetOK, LockOK, onlineRestoreActive, Preparing
        <3> QED
            BY <2>1, <2>3, <3>1, <3>2, <3>3 DEF KeepsActiveSnapshot, CommittedCutover, Preparing
    <2>4. CASE job.state \notin Preparing /\ job' = job
        <3>1. ServerTypeOK'
            BY <2>1, <2>2, <2>4 DEF ServerTypeOK
        <3>2. StageOK' /\ DownOK' /\ ForgetOK' /\ LockOK'
            BY <2>1, <2>4 DEF StageOK, DownOK, ForgetOK, LockOK
        <3> QED
            BY <2>1, <2>4, <3>1, <3>2 DEF KeepsActiveSnapshot, CommittedCutover
    <2> QED
        BY <2>1, <2>3, <2>4
<1> QED
    BY <1>3, <1>4, <1>5, <1>6, <1>7 DEF Process

-----------------------------------------------------------------------------
\* The consoles.

\* What one console has of ConsoleInv.
CardOK(c) ==
    /\ jobData[c] \in JobType /\ snapData[c] \subseteq Snapshots
    /\ fetch[c] \in FetchType /\ dialog[c] \in DialogType /\ call[c] \in CallType
    /\ call[c].phase # "idle" /\ dialog[c] # NoDialog
         => dialog[c].kind = call[c].kind /\ dialog[c].snap = call[c].snap

\* The invariant of the consoles speaks of each card.
LEMMA Cards ==
    ASSUME ConsoleInv
    PROVE  \A c \in Consoles : CardOK(c)
BY DEF ConsoleInv, PendingDialogIsItsOwn, CardOK

\* What stands for no job, no request, no read and no dialog.
LEMMA Blank ==
    NoJob \in JobType /\ NoCall \in CallType /\ NoFetch \in FetchType /\ NoDialog \in DialogType
BY JobsAssumption DEF NoJob, JobType, JobStates, NoCall, CallType, NoFetch, FetchType, NoDialog, DialogType

\* A poll, or the list of snapshots.
LEMMA ConsoleQuery ==
    ASSUME Inv, NEW c \in Consoles, Query(c)
    PROVE  ConsoleInv'
<1>1. CardOK(c) /\ job \in JobType /\ repo \subseteq Snapshots
    BY Cards DEF Inv, ServerInv, ServerTypeOK
<1>2. [phase |-> "answered", answer |-> job] \in FetchType
    BY <1>1 DEF FetchType
<1>3. fetch[c].answer \in JobType
    BY <1>1 DEF CardOK, FetchType
<1>4. dialog' = dialog /\ call' = call
    BY DEF Query, FetchJob, ReceiveJob, LoseJob, ListSnapshots
<1>5. jobData' \in [Consoles -> JobType]
    BY <1>3 DEF Query, FetchJob, ReceiveJob, LoseJob, ListSnapshots, Inv, ConsoleInv
<1>6. snapData' \in [Consoles -> SUBSET Snapshots]
    BY <1>1 DEF Query, FetchJob, ReceiveJob, LoseJob, ListSnapshots, Inv, ConsoleInv
<1>7. fetch' \in [Consoles -> FetchType]
    BY <1>2, Blank DEF Query, FetchJob, ReceiveJob, LoseJob, ListSnapshots, Inv, ConsoleInv
<1> QED
    BY <1>4, <1>5, <1>6, <1>7 DEF Inv, ConsoleInv, PendingDialogIsItsOwn

\* A dialog is opened only while no request is pending.
LEMMA ConsoleOpen ==
    ASSUME Inv, NEW c \in Consoles, NEW kind \in Kinds, NEW s \in Snapshots \cup {NoSnapshot},
           Open(c, kind, s)
    PROVE  ConsoleInv'
<1>1. /\ call[c].phase = "idle" /\ dialog' = [dialog EXCEPT ![c] = [kind |-> kind, snap |-> s]]
      /\ UNCHANGED <<jobData, snapData, fetch, call>>
    BY DEF Open, busy
<1>2. [kind |-> kind, snap |-> s] \in DialogType
    BY DEF DialogType
<1>3. dialog' \in [Consoles -> DialogType]
    BY <1>1, <1>2 DEF Inv, ConsoleInv
<1>4. PendingDialogIsItsOwn'
    BY <1>1 DEF Inv, ConsoleInv, PendingDialogIsItsOwn
<1> QED
    BY <1>1, <1>3, <1>4 DEF Inv, ConsoleInv

\* What an administrator does on a card.
LEMMA ConsoleOperate ==
    ASSUME Inv, NEW c \in Consoles, Operate(c)
    PROVE  ConsoleInv'
<1>1. ASSUME NEW kind \in {"start", "delete"}, NEW s \in Snapshots, OpenSnapshot(c, kind, s)
      PROVE  ConsoleInv'
    <2>1. kind \in Kinds /\ Open(c, kind, s)
        BY <1>1 DEF OpenSnapshot, Kinds
    <2> QED
        BY <2>1, ConsoleOpen
<1>2. CASE OpenCommit(c)
    <2>1. "commit" \in Kinds /\ Open(c, "commit", NoSnapshot)
        BY <1>2 DEF OpenCommit, Kinds
    <2> QED
        BY <2>1, ConsoleOpen
<1>3. CASE OpenCancel(c)
    <2>1. "cancel" \in Kinds /\ Open(c, "cancel", NoSnapshot)
        BY <1>3 DEF OpenCancel, Kinds
    <2> QED
        BY <2>1, ConsoleOpen
<1>4. CASE Dismiss(c)
    BY <1>4, Blank DEF Dismiss, Inv, ConsoleInv, PendingDialogIsItsOwn
<1>5. CASE Confirm(c)
    <2>1. dialog[c] \in DialogType /\ jobData[c] \in JobType
        BY Cards DEF Inv, CardOK
    <2>2. PICK q \in CallType : q = Request(c)
        <3>1. jobData[c].id \in 0..MaxJobs
            BY <2>1 DEF JobType
        <3>2. PICK i \in 0..MaxJobs : i = IF dialog[c].kind \in {"commit", "cancel"} THEN jobData[c].id ELSE 0
            BY <3>1, JobsAssumption
        <3>3. PICK k \in Kinds \cup {"none"}, s \in Snapshots \cup {NoSnapshot} : k = dialog[c].kind /\ s = dialog[c].snap
            BY <2>1 DEF DialogType
        <3>4. Request(c) = [kind |-> k, snap |-> s, id |-> i, phase |-> "sent", answer |-> NoJob]
            BY <3>2, <3>3 DEF Request
        <3> QED
            BY <3>4, Blank DEF CallType
    <2>3. call' = [call EXCEPT ![c] = q] /\ UNCHANGED <<jobData, snapData, fetch, dialog>>
        BY <1>5, <2>2 DEF Confirm
    <2>4. q.kind = dialog[c].kind /\ q.snap = dialog[c].snap
        BY <2>2 DEF Request
    <2> QED
        BY <2>3, <2>4 DEF Inv, ConsoleInv, PendingDialogIsItsOwn
<1>6. CASE Reload(c)
    <2>1. jobData' \in [Consoles -> JobType] /\ snapData' \in [Consoles -> SUBSET Snapshots]
        BY <1>6, Blank DEF Reload, Inv, ConsoleInv
    <2>2. /\ fetch' \in [Consoles -> FetchType] /\ dialog' \in [Consoles -> DialogType]
          /\ call' \in [Consoles -> CallType]
        BY <1>6, Blank DEF Reload, Inv, ConsoleInv
    <2>3. PendingDialogIsItsOwn'
        BY <1>6 DEF Reload, Inv, ConsoleInv, PendingDialogIsItsOwn
    <2> QED
        BY <2>1, <2>2, <2>3 DEF ConsoleInv
<1> QED
    BY <1>1, <1>2, <1>3, <1>4, <1>5, <1>6 DEF Operate

\* An answer keeps the operation and the snapshot of the request.
LEMMA ConsoleAnswered ==
    ASSUME Inv, NEW c \in Consoles, NEW phase \in {"deleting", "ok", "error"}, NEW answer \in JobType,
           call[c].phase # "idle", Answered(c, phase, answer),
           UNCHANGED <<jobData, snapData, fetch, dialog>>
    PROVE  ConsoleInv'
<1>1. call[c] \in CallType
    BY Cards DEF Inv, CardOK
<1>2. PICK q \in CallType :
        q = [kind |-> call[c].kind, snap |-> call[c].snap, id |-> call[c].id, phase |-> phase, answer |-> answer]
    BY <1>1 DEF CallType
<1>3. call' = [call EXCEPT ![c] = q] /\ q.kind = call[c].kind /\ q.snap = call[c].snap
    BY <1>2 DEF Answered
<1> QED
    BY <1>3 DEF Inv, ConsoleInv, PendingDialogIsItsOwn

\* The server answers a request.
LEMMA ServeStep ==
    ASSUME Inv, NEW c \in Consoles, Serve(c)
    PROVE  Inv' /\ KeepsActiveSnapshot /\ CommittedCutover
<1> USE DEF Inv
<1>1. PICK q \in CallType : q = call[c]
    BY Cards DEF CardOK
<1>2. q.snap \in Snapshots \cup {NoSnapshot} /\ q.id \in 0..MaxJobs
    BY <1>1 DEF CallType
<1>3. ASSUME ServerInv' PROVE job' \in JobType
    BY <1>3 DEF ServerInv, ServerTypeOK
<1>4. CASE ServeStart(c)
    <2>1. /\ process = "up" /\ Start(q.snap) /\ call[c].phase # "idle" /\ Answered(c, "ok", job')
          /\ UNCHANGED <<jobData, snapData, fetch, dialog>>
        BY <1>1, <1>4 DEF ServeStart, Served
    <2>2. ServerInv' /\ KeepsActiveSnapshot /\ CommittedCutover
        BY <1>2, <2>1, ServerStart
    <2> QED
        BY <1>3, <2>1, <2>2, ConsoleAnswered
<1>5. CASE ServeCommit(c)
    <2>1. /\ Commit(q.id) /\ call[c].phase # "idle" /\ Answered(c, "ok", job')
          /\ UNCHANGED <<jobData, snapData, fetch, dialog>>
        BY <1>1, <1>5 DEF ServeCommit, Served
    <2>2. ServerInv' /\ KeepsActiveSnapshot /\ CommittedCutover
        BY <1>2, <2>1, ServerRequest
    <2> QED
        BY <1>3, <2>1, <2>2, ConsoleAnswered
<1>6. CASE ServeCancel(c)
    <2>1. /\ Cancel(q.id) /\ call[c].phase # "idle" /\ Answered(c, "ok", job')
          /\ UNCHANGED <<jobData, snapData, fetch, dialog>>
        BY <1>1, <1>6 DEF ServeCancel, Served
    <2>2. ServerInv' /\ KeepsActiveSnapshot /\ CommittedCutover
        BY <1>2, <2>1, ServerRequest
    <2> QED
        BY <1>3, <2>1, <2>2, ConsoleAnswered
<1>7. CASE ServeDelete(c)
    <2>1. /\ DeleteBegin(q.snap) /\ call[c].phase # "idle" /\ Answered(c, "deleting", NoJob)
          /\ UNCHANGED <<jobData, snapData, fetch, dialog>>
        BY <1>1, <1>7 DEF ServeDelete, Served
    <2>2. ServerInv' /\ KeepsActiveSnapshot /\ CommittedCutover
        BY <1>2, <2>1, ServerRequest
    <2> QED
        BY <2>1, <2>2, ConsoleAnswered, Blank
<1>8. ASSUME NEW kept \in BOOLEAN, ServeDeleted(c, kept)
      PROVE  Inv' /\ KeepsActiveSnapshot /\ CommittedCutover
    <2>1. PICK phase \in {"deleting", "ok", "error"} : phase = IF kept THEN "error" ELSE "ok"
        OBVIOUS
    <2>2. /\ DeleteEnd(kept) /\ call[c].phase # "idle" /\ Answered(c, phase, NoJob)
          /\ UNCHANGED <<jobData, snapData, fetch, dialog>>
        BY <1>8, <2>1 DEF ServeDeleted
    <2>3. ServerInv' /\ KeepsActiveSnapshot /\ CommittedCutover
        BY <2>2, ServerRequest
    <2> QED
        BY <2>2, <2>3, ConsoleAnswered, Blank
<1>9. CASE Fail(c)
    <2>1. /\ call[c].phase # "idle" /\ Answered(c, "error", NoJob)
          /\ UNCHANGED <<jobData, snapData, fetch, dialog>> /\ UNCHANGED server
        BY <1>9 DEF Fail
    <2>2. ConsoleInv'
        BY <2>1, ConsoleAnswered, Blank
    <2>3. ServerInv' /\ KeepsActiveSnapshot /\ CommittedCutover
        BY <2>1, ServerQuiet
    <2> QED
        BY <2>2, <2>3
<1> QED
    BY <1>4, <1>5, <1>6, <1>7, <1>8, <1>9 DEF Serve

\* A card takes an answer.
LEMMA ConsoleSettle ==
    ASSUME Inv, NEW c \in Consoles, Settle(c)
    PROVE  ConsoleInv'
<1>1. CardOK(c)
    BY Cards DEF Inv
<1>2. PICK a \in JobType : a = call[c].answer
    BY <1>1 DEF CardOK, CallType
<1>3. CASE Succeed(c)
    <2>1. jobData' \in [Consoles -> JobType]
        BY <1>2, <1>3 DEF Succeed, Inv, ConsoleInv
    <2>2. snapData' \in [Consoles -> SUBSET Snapshots]
        BY <1>3 DEF Succeed, Inv, ConsoleInv
    <2>3. /\ dialog' \in [Consoles -> DialogType] /\ call' \in [Consoles -> CallType]
          /\ PendingDialogIsItsOwn'
        BY <1>3, Blank DEF Succeed, Inv, ConsoleInv, PendingDialogIsItsOwn, NoCall
    <2> QED
        BY <1>3, <2>1, <2>2, <2>3 DEF Succeed, Inv, ConsoleInv
<1>4. CASE ShowError(c)
    BY <1>4, Blank DEF ShowError, Inv, ConsoleInv, PendingDialogIsItsOwn, NoCall
<1> QED
    BY <1>3, <1>4 DEF Settle

-----------------------------------------------------------------------------

\* No job and no card.
LEMMA InitInv == Init => Inv
<1> SUFFICES ASSUME Init PROVE Inv
    OBVIOUS
<1>1. ServerTypeOK
    BY Blank, JobsAssumption DEF Init, ServerInit, ServerTypeOK
<1>2. StageOK /\ DownOK /\ ForgetOK /\ LockOK
    BY DEF Init, ServerInit, StageOK, DownOK, ForgetOK, LockOK, Preparing, NoJob
<1>3. ConsoleInv
    BY Blank DEF Init, ConsoleInv, PendingDialogIsItsOwn, NoCall
<1> QED
    BY <1>1, <1>2, <1>3 DEF Inv, ServerInv

\* Every step keeps the invariant and is a step of both action properties.
LEMMA StepInv ==
    ASSUME Inv, [Next]_vars
    PROVE  Inv' /\ KeepsActiveSnapshot /\ CommittedCutover
<1> USE DEF Inv
<1>1. ASSUME UNCHANGED console PROVE ConsoleInv'
    BY <1>1 DEF console, ConsoleInv, PendingDialogIsItsOwn
<1>2. ASSUME NEW c \in Consoles, Query(c) \/ Operate(c) \/ Settle(c)
      PROVE  Inv' /\ KeepsActiveSnapshot /\ CommittedCutover
    <2>1. ConsoleInv'
        BY <1>2, ConsoleQuery, ConsoleOperate, ConsoleSettle
    <2>2. UNCHANGED server
        BY <1>2 DEF Query, FetchJob, ReceiveJob, LoseJob, ListSnapshots, Operate, OpenSnapshot, OpenCommit,
            OpenCancel, Open, Dismiss, Confirm, Reload, Settle, Succeed, ShowError
    <2> QED
        BY <2>1, <2>2, ServerQuiet
<1>3. ASSUME NEW c \in Consoles, Serve(c)
      PROVE  Inv' /\ KeepsActiveSnapshot /\ CommittedCutover
    BY <1>3, ServeStep
<1>4. ASSUME NEW j \in Jobs, Stage(j), UNCHANGED console
      PROVE  Inv' /\ KeepsActiveSnapshot /\ CommittedCutover
    BY <1>1, <1>4, ServerStage
<1>5. ASSUME NEW kept \in BOOLEAN, DeleteEnd(kept), UNCHANGED console
      PROVE  Inv' /\ KeepsActiveSnapshot /\ CommittedCutover
    BY <1>1, <1>5, ServerRequest
<1>6. CASE Process /\ UNCHANGED console
    BY <1>1, <1>6, ServerProcess
<1>7. CASE UNCHANGED vars
    BY <1>1, <1>7, ServerQuiet DEF vars
<1> QED
    BY <1>2, <1>3, <1>4, <1>5, <1>6, <1>7 DEF Next

\* The invariant holds throughout.
LEMMA Invariance == Spec => []Inv
<1>1. Inv /\ [Next]_vars => Inv'
    BY StepInv
<1> QED
    BY <1>1, InitInv, PTL DEF Spec

\* A confirmation that is open while a request is pending is the one that sent
\* it, so an answer closes no dialog the operator opened since, although Escape
\* closes a dialog and leaves its request pending (backup-restore.tsx:141).
THEOREM AnswerClosesItsOwnDialog == Spec => []PendingDialogIsItsOwn
<1>1. Inv => PendingDialogIsItsOwn
    BY DEF Inv, ConsoleInv
<1> QED
    BY <1>1, Invariance, PTL

\* No step removes the snapshot of an active job from the repository: a job
\* begins only while no deletion holds snapshotMu, and a deletion only while no
\* job is active (StartRestore and DeleteSnapshot, online_restore.go:249).
THEOREM ActiveJobKeepsSnapshot == Spec => ActiveSnapshotKept
<1>1. Inv /\ [Next]_vars => KeepsActiveSnapshot
    BY StepInv
<1>2. Spec => [][KeepsActiveSnapshot]_vars
    BY <1>1, Invariance, PTL DEF Spec
<1> QED
    BY <1>2 DEF ActiveSnapshotKept, KeepsActiveSnapshot

\* The live data change only to the snapshot of the committing job that holds
\* the maintenance lock, and no goroutine revives a job that has ended
\* (ApplyPendingOnlineRestore and updateJob).
THEOREM OnlyCommittedJobsGoLive == Spec => CutoverIsCommitted
<1>1. Inv /\ [Next]_vars => CommittedCutover
    BY StepInv
<1>2. Spec => [][CommittedCutover]_vars
    BY <1>1, Invariance, PTL DEF Spec
<1> QED
    BY <1>2 DEF CutoverIsCommitted, CommittedCutover
=============================================================================
