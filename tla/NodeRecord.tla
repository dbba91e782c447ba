----------------------------- MODULE NodeRecord -----------------------------
(***************************************************************************)
(* One node's record in the control plane as the administration API        *)
(* changes it: its status and its uninstall job (internal/store/           *)
(* uninstall.go, SetNodeStatus, the handlers of internal/control).  Every  *)
(* handler ends in one SQLite transaction and is one step here; what the   *)
(* handlers read before it is in NodeScheduling.                           *)
(***************************************************************************)

CONSTANTS
    Tokens,     \* uninstall tokens
    NoToken     \* token_hash NULL

ASSUME TokensAssumption == NoToken \notin Tokens

VARIABLES
    status,     \* nodes.status, "gone" when the record is deleted
    job,        \* node_uninstall_jobs.status, "none" without a row
    previous,   \* previous_status of the job
    started,    \* started_at of the job is set
    clear,      \* no blocker is left and ready_at has passed
    token       \* the token whose hash the job holds

record == <<status, job, previous, started, clear, token>>
jobVars == <<job, previous, started, clear, token>>

NodeStatus == {"pending", "active", "draining", "revoked", "uninstalling", "uninstalled", "gone"}
ActiveJob == {"preparing", "ready", "running", "failed"}
JobStatus == ActiveJob \cup {"succeeded", "forced", "canceled", "none"}
Waiting == {"preparing", "ready", "failed"}

RecordTypeOK ==
    /\ status \in NodeStatus
    /\ job \in JobStatus
    /\ previous \in {"none", "draining", "revoked"}
    /\ started \in BOOLEAN
    /\ clear \in BOOLEAN
    /\ token \in Tokens \cup {NoToken}

RecordInit ==
    /\ status = "pending"
    /\ job = "none"
    /\ previous = "none"
    /\ started = FALSE
    /\ clear = FALSE
    /\ token = NoToken

-----------------------------------------------------------------------------
(* The requests of the console.                                            *)

StatusAccepted(st) ==
    /\ status \notin {"uninstalling", "uninstalled", "gone"}
    /\ job \in ActiveJob => st \in {status, "revoked"}

\* Mutant: an active job remembers the status it was prepared in.
SetNodeStatusKeepPrevious(st) ==
    /\ StatusAccepted(st)
    /\ status' = st
    /\ UNCHANGED jobVars

\* After a revocation an active job gives no other status back when its
\* script fails.
SetNodeStatus(st) ==
    /\ StatusAccepted(st)
    /\ status' = st
    /\ previous' = IF st = "revoked" /\ job \in ActiveJob THEN "revoked" ELSE previous
    /\ UNCHANGED <<job, started, clear, token>>

\* An enrolment or an upgrade command by hand; its token is not modelled.
CommandAccepted == status \in {"pending", "active", "draining"} /\ job \notin ActiveJob

NoUninstall == job \in {"none", "canceled"}

PrepareAccepted == status \in {"draining", "revoked"}

\* A job that exists already is answered as it is.
Prepare ==
    /\ PrepareAccepted
    /\ IF NoUninstall
       THEN /\ job' = "preparing"
            /\ previous' = status
            /\ started' = FALSE
            /\ clear' = FALSE
            /\ token' = NoToken
       ELSE UNCHANGED jobVars
    /\ UNCHANGED status

CanGenerate == clear /\ job \in Waiting

IssueToken(new) ==
    /\ CanGenerate
    /\ token' = new
    /\ job' = "ready"
    /\ UNCHANGED <<status, previous, started, clear>>

CancelAccepted == job \in Waiting

Cancel ==
    /\ CancelAccepted
    /\ job' = "canceled"
    /\ token' = NoToken
    /\ UNCHANGED <<status, previous, started, clear>>

ForceAccepted == job \in ActiveJob /\ clear

\* completeNodeUninstall: the token stays, a script may still report.
Complete(outcome) ==
    /\ job' = outcome
    /\ status' = "uninstalled"
    /\ UNCHANGED <<previous, started, clear, token>>

ForceComplete == ForceAccepted /\ Complete("forced")

\* A pending node that has a certificate already is refused as well.
DeleteAccepted == status \in {"uninstalled", "pending"}

\* The job goes with the record.
Delete ==
    /\ DeleteAccepted
    /\ status' = "gone"
    /\ job' = "none"
    /\ token' = NoToken
    /\ UNCHANGED <<previous, started, clear>>

-----------------------------------------------------------------------------
(* What happens without the console.                                       *)

\* The first heartbeat of an enrolled edge activates the node.
Heartbeat ==
    /\ status = "pending"
    /\ status' = "active"
    /\ UNCHANGED jobVars

\* ready_at passes and the sites are moved to other nodes, or a site loses
\* its last other node.
ClearChanges ==
    /\ job \in ActiveJob
    /\ clear' = ~clear
    /\ UNCHANGED <<status, job, previous, started, token>>

\* The uninstall script with the job's token: start, fail and complete.
ScriptStart ==
    /\ token # NoToken
    /\ job \in {"ready", "running", "failed", "forced"}
    /\ started' = TRUE
    /\ IF job = "forced" THEN UNCHANGED <<job, status>>
       ELSE job' = "running" /\ status' = "uninstalling"
    /\ UNCHANGED <<previous, clear, token>>

ScriptFail ==
    /\ token # NoToken
    /\ job = "running"
    /\ job' = "failed"
    /\ status' = previous
    /\ UNCHANGED <<previous, started, clear, token>>

ScriptComplete ==
    /\ token # NoToken
    /\ job = "running" \/ (job = "forced" /\ started)
    /\ Complete("succeeded")

World ==
    \/ Heartbeat
    \/ ClearChanges
    \/ ScriptStart
    \/ ScriptFail
    \/ ScriptComplete
=============================================================================
