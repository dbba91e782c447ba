-------------------------- MODULE RestoreConsole --------------------------
(***************************************************************************)
(* The restore card of the settings page (features/settings/               *)
(* backup-restore.tsx) in one or more consoles, against the control plane  *)
(* of OnlineRestore.  A console shows the cached answers of the server,    *)
(* asks for a confirmation in a modal dialog, and sends one request at a   *)
(* time.                                                                   *)
(***************************************************************************)
EXTENDS OnlineRestore

CONSTANT Consoles

VARIABLES
    jobData,     \* the query ["restore-job"]
    snapData,    \* the query ["backup-snapshots"]
    fetch,       \* the poll of the job: idle, or answered and under way
    dialog,      \* selected, deleting, commitOpen, cancelOpen: at most one is set
    call         \* the pending mutation

console == <<jobData, snapData, fetch, dialog, call>>
vars == <<server, console>>

Kinds == {"start", "delete", "commit", "cancel"}
NoDialog == [kind |-> "none", snap |-> NoSnapshot]
DialogType == [kind : Kinds \cup {"none"}, snap : Snapshots \cup {NoSnapshot}]
NoCall == [kind |-> "none", snap |-> NoSnapshot, id |-> 0, phase |-> "idle", answer |-> NoJob]
CallType ==
    [kind : Kinds \cup {"none"}, snap : Snapshots \cup {NoSnapshot}, id : 0..MaxJobs,
     phase : {"idle", "sent", "deleting", "ok", "error"}, answer : JobType]
NoFetch == [phase |-> "idle", answer |-> NoJob]
FetchType == [phase : {"idle", "answered"}, answer : JobType]

\* Types of the control plane's and of the consoles' variables.
TypeOK ==
    /\ ServerTypeOK
    /\ jobData \in [Consoles -> JobType]
    /\ snapData \in [Consoles -> SUBSET Snapshots]
    /\ fetch \in [Consoles -> FetchType]
    /\ dialog \in [Consoles -> DialogType]
    /\ call \in [Consoles -> CallType]

Init ==
    /\ ServerInit
    /\ jobData = [c \in Consoles |-> NoJob]
    /\ snapData = [c \in Consoles |-> {}]
    /\ fetch = [c \in Consoles |-> NoFetch]
    /\ dialog = [c \in Consoles |-> NoDialog]
    /\ call = [c \in Consoles |-> NoCall]

activeRestore(j) == j.state \in onlineRestoreActive

\* Mutant: only the buttons of an open dialog are disabled.
busyDialogOnly(c) == call[c].phase # "idle" /\ dialog[c] # NoDialog

\* busy: one of the four mutations is pending.
busy(c) == call[c].phase # "idle"

-----------------------------------------------------------------------------
(* Queries.  The job is polled; the snapshots are read on mount, by the    *)
(* refresh button and after a deletion.                                    *)

\* Mutant: an active job is not polled.
FetchJobInactive(c) ==
    /\ process = "up"
    /\ ~activeRestore(jobData[c])
    /\ fetch[c].phase = "idle"
    /\ fetch' = [fetch EXCEPT ![c] = [phase |-> "answered", answer |-> job]]
    /\ UNCHANGED <<server, jobData, snapData, dialog, call>>

\* A poll that reaches the server is answered with the job of that moment.
FetchJob(c) ==
    /\ process = "up"
    /\ fetch[c].phase = "idle"
    /\ fetch' = [fetch EXCEPT ![c] = [phase |-> "answered", answer |-> job]]
    /\ UNCHANGED <<server, jobData, snapData, dialog, call>>

ReceiveJob(c) ==
    /\ fetch[c].phase = "answered"
    /\ jobData' = [jobData EXCEPT ![c] = fetch[c].answer]
    /\ fetch' = [fetch EXCEPT ![c] = NoFetch]
    /\ UNCHANGED <<server, snapData, dialog, call>>

\* The answer is lost: the cached job stays.
LoseJob(c) ==
    /\ fetch[c].phase # "idle"
    /\ fetch' = [fetch EXCEPT ![c] = NoFetch]
    /\ UNCHANGED <<server, jobData, snapData, dialog, call>>

ListSnapshots(c) ==
    /\ process = "up"
    /\ snapData[c] # repo
    /\ snapData' = [snapData EXCEPT ![c] = repo]
    /\ UNCHANGED <<server, jobData, fetch, dialog, call>>

-----------------------------------------------------------------------------
(* The operator.                                                           *)

Open(c, kind, s) ==
    /\ dialog[c] = NoDialog
    /\ ~busy(c)
    /\ dialog' = [dialog EXCEPT ![c] = [kind |-> kind, snap |-> s]]
    /\ UNCHANGED <<server, jobData, snapData, fetch, call>>

\* setSelected and setDeleting, from the rows of the snapshot table.
OpenSnapshot(c, kind, s) ==
    /\ s \in snapData[c]
    /\ ~activeRestore(jobData[c])
    /\ Open(c, kind, s)

\* The buttons of RestoreJobPanel.
OpenCommit(c) == jobData[c].state = "ready" /\ Open(c, "commit", NoSnapshot)
OpenCancel(c) ==
    /\ activeRestore(jobData[c])
    /\ jobData[c].state # "committing"
    /\ Open(c, "cancel", NoSnapshot)

\* Escape closes a confirmation even while its request is pending.
Dismiss(c) ==
    /\ dialog[c] # NoDialog
    /\ dialog' = [dialog EXCEPT ![c] = NoDialog]
    /\ UNCHANGED <<server, jobData, snapData, fetch, call>>

\* The request carries the job the console shows at the click.
Request(c) ==
    [kind |-> dialog[c].kind, snap |-> dialog[c].snap,
     id |-> IF dialog[c].kind \in {"commit", "cancel"} THEN jobData[c].id ELSE 0,
     phase |-> "sent", answer |-> NoJob]

Confirm(c) ==
    /\ dialog[c] # NoDialog
    /\ ~busy(c)
    /\ call' = [call EXCEPT ![c] = Request(c)]
    /\ UNCHANGED <<server, jobData, snapData, fetch, dialog>>

-----------------------------------------------------------------------------
(* Requests at the server, and their answers.                              *)

Answered(c, phase, answer) ==
    call' = [call EXCEPT ![c] = [kind |-> call[c].kind, snap |-> call[c].snap, id |-> call[c].id,
                                 phase |-> phase, answer |-> answer]]

Served(c, kind) == process = "up" /\ call[c].phase = "sent" /\ call[c].kind = kind

ServeStart(c) ==
    /\ Served(c, "start")
    /\ Start(call[c].snap)
    /\ Answered(c, "ok", job')
    /\ UNCHANGED <<jobData, snapData, fetch, dialog>>

ServeCommit(c) ==
    /\ Served(c, "commit")
    /\ Commit(call[c].id)
    /\ Answered(c, "ok", job')
    /\ UNCHANGED <<jobData, snapData, fetch, dialog>>

ServeCancel(c) ==
    /\ Served(c, "cancel")
    /\ Cancel(call[c].id)
    /\ Answered(c, "ok", job')
    /\ UNCHANGED <<jobData, snapData, fetch, dialog>>

ServeDelete(c) ==
    /\ Served(c, "delete")
    /\ DeleteBegin(call[c].snap)
    /\ Answered(c, "deleting", NoJob)
    /\ UNCHANGED <<jobData, snapData, fetch, dialog>>

ServeDeleted(c, kept) ==
    /\ process = "up"
    /\ call[c].phase = "deleting"
    /\ forget = call[c].snap
    /\ DeleteEnd(kept)
    /\ Answered(c, IF kept THEN "error" ELSE "ok", NoJob)
    /\ UNCHANGED <<jobData, snapData, fetch, dialog>>

\* What the handlers refuse; a bounded model also refuses a job too many.
Refused(c) ==
    CASE call[c].kind = "start"  -> ~StartAccepted \/ job.id = MaxJobs
      [] call[c].kind = "commit" -> ~CommitAccepted(call[c].id)
      [] call[c].kind = "cancel" -> ~CancelAccepted(call[c].id)
      [] call[c].kind = "delete" -> ~DeleteAccepted

\* Refused, or the request or its answer is lost.
Fail(c) ==
    /\ \/ call[c].phase = "sent" /\ (process = "down" \/ Refused(c))
       \/ call[c].phase = "deleting" /\ forget = NoSnapshot
       \/ call[c].phase = "ok" /\ process = "down"
    /\ Answered(c, "error", NoJob)
    /\ UNCHANGED <<server, jobData, snapData, fetch, dialog>>

\* onSuccess: updateJob and the dialog of that operation is closed.
Closes(c) ==
    \/ dialog[c].kind = call[c].kind
    \/ call[c].kind = "delete" /\ dialog[c] = [kind |-> "start", snap |-> call[c].snap]

Succeed(c) ==
    /\ call[c].phase = "ok"
    /\ jobData' = IF call[c].kind = "delete" THEN jobData
                  ELSE [jobData EXCEPT ![c] = call[c].answer]
    /\ snapData' = IF call[c].kind = "delete"
                   THEN [snapData EXCEPT ![c] = @ \ {call[c].snap}] ELSE snapData
    /\ dialog' = IF Closes(c) THEN [dialog EXCEPT ![c] = NoDialog] ELSE dialog
    /\ call' = [call EXCEPT ![c] = NoCall]
    /\ UNCHANGED <<server, fetch>>

\* onError only shows a message.
ShowError(c) ==
    /\ call[c].phase = "error"
    /\ call' = [call EXCEPT ![c] = NoCall]
    /\ UNCHANGED <<server, jobData, snapData, fetch, dialog>>

\* The page is left or loaded again; the server finishes what it is doing.
Reload(c) ==
    /\ jobData[c] # NoJob \/ call[c] # NoCall
    /\ jobData' = [jobData EXCEPT ![c] = NoJob]
    /\ snapData' = [snapData EXCEPT ![c] = {}]
    /\ fetch' = [fetch EXCEPT ![c] = NoFetch]
    /\ dialog' = [dialog EXCEPT ![c] = NoDialog]
    /\ call' = [call EXCEPT ![c] = NoCall]
    /\ UNCHANGED server

Abandoned == \A c \in Consoles : call[c].phase # "deleting"

Query(c) == FetchJob(c) \/ ReceiveJob(c) \/ LoseJob(c) \/ ListSnapshots(c)

Operate(c) ==
    \/ \E kind \in {"start", "delete"}, s \in Snapshots : OpenSnapshot(c, kind, s)
    \/ OpenCommit(c)
    \/ OpenCancel(c)
    \/ Dismiss(c)
    \/ Confirm(c)
    \/ Reload(c)

Serve(c) ==
    \/ ServeStart(c)
    \/ ServeCommit(c)
    \/ ServeCancel(c)
    \/ ServeDelete(c)
    \/ \E kept \in BOOLEAN : ServeDeleted(c, kept)
    \/ Fail(c)

Settle(c) == Succeed(c) \/ ShowError(c)

Next ==
    \/ \E c \in Consoles : Query(c) \/ Operate(c) \/ Serve(c) \/ Settle(c)
    \/ \E j \in Jobs : Stage(j) /\ UNCHANGED console
    \/ Abandoned /\ (\E kept \in BOOLEAN : DeleteEnd(kept)) /\ UNCHANGED console
    \/ Process /\ UNCHANGED console

Spec == Init /\ [][Next]_vars

\* A running server is polled and answers are received now and
\* then, and the process is restarted after a commit.
Fairness ==
    /\ \A c \in Consoles : WF_vars(FetchJob(c)) /\ SF_vars(ReceiveJob(c))
    /\ WF_vars(RestartControl /\ UNCHANGED console)
    /\ WF_vars((ApplyComplete \/ ApplyFail(TRUE) \/ Boot) /\ UNCHANGED console)

FairSpec == Spec /\ Fairness

-----------------------------------------------------------------------------
(* Properties.                                                             *)

\* A job that can be committed, or is being applied, still has the data that
\* were verified: no goroutine of an earlier job and no cancellation took its
\* directory or its temporary database (the unlocked cleanups of Cancel,
\* failJob and the deferred function of stage).
ReadyHasData ==
    job.state \in {"ready", "committing"} => job.id \in roots /\ job.id \in databases

\* The snapshot of an active job is never forgotten: DeleteSnapshot checks for
\* an active job and calls restic much later, holding snapshotMu (online_restore.go:249).
ActiveSnapshotKept ==
    [][\A s \in repo \ repo' : ~(job.snap = s /\ job.state \in onlineRestoreActive)]_vars

\* The live data change only to the snapshot of a committed job, whose lock is
\* still held, and a job that was cancelled or failed is never revived.
CutoverIsCommitted ==
    [][/\ live' # live => job.state = "committing" /\ lock = job.id /\ live' = job.snap
       /\ job.state \in {"cancelled", "failed", "completed"} /\ job'.id = job.id
            => job'.state \in {job.state, "cancelled"}]_vars

\* While a request is pending no other confirmation is open than the one that
\* sent it, so its answer closes no dialog the operator opened since: the
\* buttons stay disabled although Escape has closed the dialog
\* (backup-restore.tsx:141).
PendingDialogIsItsOwn ==
    \A c \in Consoles : call[c].phase # "idle" /\ dialog[c] # NoDialog
        => dialog[c].kind = call[c].kind /\ dialog[c].snap = call[c].snap

\* A console does not show a running cutover for ever: it polls through the
\* restart, whose requests fail, until a later state of the job or a later job
\* is there, unless the control plane refuses to start (refetchInterval of the
\* job query, backup-restore.tsx:64).
CutoverIsShown ==
    \A c \in Consoles : jobData[c].state = "committing"
        ~> (jobData[c].state # "committing" \/ LockRetained)

\* What the confirmation of a cancellation says: the isolated data are deleted
\* (backup-restore.tsx:333).
CancelDeletesData ==
    \A j \in roots \cup databases : stage[j] # "idle" \/ (job.id = j /\ job.state # "cancelled")
=============================================================================
