----------------------------- MODULE Publication -----------------------------
(***************************************************************************)
(* Site publication: how an edited site draft becomes the configuration    *)
(* the edge nodes run, and how the control plane learns that they run it.  *)
(*                                                                         *)
(* The control plane keeps, in SQLite, the editable draft of every site,   *)
(* the snapshot of the draft last published, one versioned desired state   *)
(* per node, and the publish and delete tasks with one row per node that   *)
(* has to confirm.  Every SQLite statement or transaction is one step;     *)
(* the functions made of several of them are several steps here, and the   *)
(* steps of other requests interleave.  desiredStateMu serialises the      *)
(* operations that compute desired states, so they share the variable      *)
(* publisher; SiteDeletionManager.mu likewise gives the variable deleter.  *)
(*                                                                         *)
(* An edge polls its desired state, applies what is newer than its durable *)
(* applied version, and reports by heartbeats whose requests and responses *)
(* may be lost or late.  Applying is one step here, as in the module       *)
(* EdgeSync.  Time is abstract: a deadline may pass at any moment.         *)
(***************************************************************************)
EXTENDS Naturals, FiniteSets

CONSTANTS
    Sites,              \* site identifiers (uuids, never reused)
    Nodes,              \* edge node identifiers
    Origins,            \* values of the draft fields an administrator edits
    Editors,            \* concurrent update, invalidate and renewal requests
    Operations,         \* the operations and failures that happen
    InitialStatus,      \* nodes.status of the enrolled nodes at the start
    MaxConfigVersion,   \* bound on sites.config_version
    MaxVersion,         \* bound on node_states.version
    MaxLate             \* bound on abandoned heartbeats still in flight

ASSUME ConstantsAssumption ==
    /\ InitialStatus \in {"pending", "active"}
    /\ MaxConfigVersion \in Nat
    /\ MaxVersion \in Nat
    /\ MaxLate \in Nat

VARIABLES
    site,       \* table sites (with its certificates row): the drafts
    pub,        \* table site_publications: the published snapshots
    desired,    \* table node_states: version and rendered configuration
    status,     \* nodes.status
    reported,   \* nodes.applied_version
    upgrading,  \* node_upgrade_tasks: an upgrade of the node is active
    task,       \* latest deployment task per kind and site, with its rows
    phase,      \* site_deletion_jobs.phase
    publisher,  \* the holder of desiredStateMu and what it has read
    deleter,    \* the holder of SiteDeletionManager.mu
    edit,       \* edits between their read, their write and their publication
    edge,       \* per node: applied-version file, live configuration, the
                \* configuration a rollback restores, report
    late        \* heartbeats the agent gave up on, not yet handled

vars == <<site, pub, desired, status, reported, upgrading, task, phase,
          publisher, deleter, edit, edge, late>>

Kinds == {"publish", "delete"}
NodeStatus == {"pending", "active", "draining", "revoked"}
TaskStatus == {"none", "queued", "applying", "succeeded", "failed", "partial"}
RowStatus == {"none", "pending", "succeeded", "failed", "timed_out"}

\* What a draft says that the renderer reads.
Material == [nodes : SUBSET Nodes, enabled : BOOLEAN, origin : Origins,
             gen : Nat, cert : Nat, deleting : BOOLEAN]
SiteRow == [row : {"present"}, draft : Material, cv : Nat, published : BOOLEAN]
Absent == [row |-> "absent"]
Deleted == [row |-> "deleted"]

\* A rendered configuration is the set of server blocks it contains.
Block == [site : Sites, origin : Origins, gen : Nat, cert : Nat]
State == [version : Nat, config : SUBSET Block]
Unset == [version |-> 0, config |-> {}]

NoPublication == [row |-> "none"]
Row == [target : Nat, st : RowStatus]
NoRow == [target |-> 0, st |-> "none"]
Task == [st : TaskStatus, rows : [Nodes -> Row], expired : BOOLEAN]
NoTask == [st |-> "none", rows |-> [n \in Nodes |-> NoRow], expired |-> FALSE]

NoReport == [version |-> 0, ok |-> FALSE]
Report == [version : Nat, ok : BOOLEAN]
Heartbeat == [node : Nodes, applied : Nat, report : Report]

-----------------------------------------------------------------------------
\* Tasks and their confirmation rows.

ActiveTask(t) == t.st \in {"queued", "applying"}

RowsIn(t, st) == {n \in Nodes : t.rows[n].st = st}

\* An edge may not be upgraded while an active task waits for it.
HasActiveNodePublication(n) ==
    \E k \in Kinds, s \in Sites :
        ActiveTask(task[k][s]) /\ task[k][s].rows[n].st = "pending"

\* Mutant: a report settles rows that wait for a newer version.
RecordPublishApplyAnyVersion(t, n, report) ==
    IF ActiveTask(t) /\ t.rows[n].st = "pending"
    THEN [t EXCEPT !.rows[n].st = IF report.ok THEN "succeeded" ELSE "failed"]
    ELSE t

\* RecordPublishApply: a structured result settles every pending row of an
\* active task that waits for this or an older version of the node.
RecordPublishApply(t, n, report) ==
    IF ActiveTask(t) /\ t.rows[n].st = "pending" /\ t.rows[n].target <= report.version
    THEN [t EXCEPT !.rows[n].st = IF report.ok THEN "succeeded" ELSE "failed"]
    ELSE t

\* The first statement of reconcilePublishTask and of SiteDeletionReady: the
\* applied version of a heartbeat confirms a pending row.
ConfirmApplied(t, applied) ==
    [t EXCEPT !.rows = [n \in Nodes |->
        IF t.rows[n].st = "pending" /\ applied[n] >= t.rows[n].target
        THEN [t.rows[n] EXCEPT !.st = "succeeded"] ELSE t.rows[n]]]

TimeOutPending(t) ==
    [t EXCEPT !.rows = [n \in Nodes |->
        IF t.rows[n].st = "pending" THEN [t.rows[n] EXCEPT !.st = "timed_out"]
        ELSE t.rows[n]]]

\* The status a publish task with rows, none of them pending, ends with.
SettledStatus(t) ==
    LET settled == Nodes \ RowsIn(t, "none")
        good == RowsIn(t, "succeeded")
    IN  IF good = settled THEN "succeeded"
        ELSE IF good # {} THEN "partial" ELSE "failed"

\* Mutant: a task without rows is left alone whatever its deadline.
ReconcileTaskWithRows(t, applied) ==
    LET c == ConfirmApplied(t, applied)
        settle(x) == [x EXCEPT !.st = SettledStatus(x)]
    IN  IF ~ActiveTask(t) \/ RowsIn(c, "none") = Nodes THEN t
        ELSE IF RowsIn(c, "pending") = {} THEN settle(c)
        ELSE IF c.expired THEN settle(TimeOutPending(c)) ELSE c

\* reconcilePublishTask; without rows only the deadline ends a task.
ReconcileTask(t, applied) ==
    LET c == ConfirmApplied(t, applied)
        settle(x) == [x EXCEPT !.st = SettledStatus(x)]
    IN  IF ~ActiveTask(t) THEN t
        ELSE IF RowsIn(c, "none") = Nodes
             THEN IF c.expired THEN [c EXCEPT !.st = "failed"] ELSE c
        ELSE IF RowsIn(c, "pending") = {} THEN settle(c)
        ELSE IF c.expired THEN settle(TimeOutPending(c)) ELSE c

ReconcilePublishTasks(tasks, applied) ==
    [tasks EXCEPT !["publish"] =
        [s \in Sites |-> ReconcileTask(tasks["publish"][s], applied)]]

-----------------------------------------------------------------------------
\* Rendering.

\* Nodes whose desired state is never rebuilt, and which may not talk.
Retired(n) == status[n] = "revoked"

\* The snapshots a rebuild starts from; a snapshot marked deleting is skipped.
Published == {s \in Sites : pub[s] # NoPublication /\ ~pub[s].deleting}

\* The configuration of node n when site s (if in S) has material M[s].
Render(S, M, n) ==
    {[site |-> s, origin |-> M[s].origin, gen |-> M[s].gen, cert |-> M[s].cert] :
        s \in {x \in S : n \in M[x].nodes /\ M[x].enabled}}

\* Mutant: a changed configuration keeps the version of the stored state.
NextVersionReused(n) == IF desired[n].version = 0 THEN 1 ELSE desired[n].version

NextVersion(n) == desired[n].version + 1

\* renderNodeStateUpdates: a new version for every affected node whose
\* rendered configuration differs from the stored one; Unset means no update.
NodeStateUpdates(S, M, affected) ==
    [n \in Nodes |->
        IF n \notin affected \/ Retired(n) THEN Unset
        ELSE IF desired[n].version # 0 /\ desired[n].config = Render(S, M, n)
             THEN Unset
        ELSE [version |-> NextVersion(n), config |-> Render(S, M, n)]]

Updated(updates) == {n \in Nodes : updates[n] # Unset}

SaveNodeStates(updates) ==
    [n \in Nodes |-> IF updates[n] # Unset THEN updates[n] ELSE desired[n]]

-----------------------------------------------------------------------------
\* Drafts.

NewSite(nodes, o) ==
    [row |-> "present", cv |-> 1, published |-> FALSE,
     draft |-> [nodes |-> nodes, enabled |-> TRUE, origin |-> o, gen |-> 1,
                cert |-> 0, deleting |-> FALSE]]

NoEdit == [op |-> "none"]

\* Without concurrent_edits nothing else changes a draft between the read and
\* the write of an edit.
Quiet ==
    \/ "concurrent_edits" \in Operations
    \/ \A e \in Editors : edit[e].op \in {"none", "publish"}

Assignable == {n \in Nodes : ~Retired(n)}

CreateSite(s) ==
    /\ "create" \in Operations
    /\ site[s] = Absent
    /\ \E nodes \in SUBSET Assignable, o \in Origins :
        site' = [site EXCEPT ![s] = NewSite(nodes, o)]
    /\ UNCHANGED <<pub, desired, status, reported, upgrading, task, phase,
                   publisher, deleter, edit, edge, late>>

\* UpdateSite and InvalidateSiteCache read the row before the statement that
\* writes it, outside its transaction.
BeginEdit(e, s, op) ==
    /\ op \in Operations \cap {"update", "invalidate"}
    /\ edit[e] = NoEdit
    /\ Quiet
    /\ site[s].row = "present"
    /\ ~site[s].draft.deleting
    /\ site[s].cv < MaxConfigVersion
    /\ edit' = [edit EXCEPT ![e] = [op |-> op, site |-> s, read |-> site[s]]]
    /\ UNCHANGED <<site, pub, desired, status, reported, upgrading, task,
                   phase, publisher, deleter, edge, late>>

\* The UPDATE of UpdateSite writes every column of the row: the version and
\* the cache generation from the values read, deleting from the request,
\* where it is never set.  The certificate is in a table of its own.
RowWritten(s, old, nodes, on, o) ==
    [row |-> "present", cv |-> old.cv + 1, published |-> FALSE,
     draft |-> [nodes |-> nodes, enabled |-> on, origin |-> o,
                gen |-> old.draft.gen, cert |-> site[s].draft.cert,
                deleting |-> FALSE]]

UpdateSite(e) ==
    /\ edit[e].op = "update"
    /\ edit' = [edit EXCEPT ![e] = NoEdit]
    /\ LET s == edit[e].site
       IN  \/ /\ site[s].row = "present"
              /\ \E nodes \in SUBSET Assignable, o \in Origins, on \in BOOLEAN :
                  site' = [site EXCEPT ![s] =
                              RowWritten(s, edit[e].read, nodes, on, o)]
           \/ /\ site[s].row # "present"
              /\ UNCHANGED site
    /\ UNCHANGED <<pub, desired, status, reported, upgrading, task, phase,
                   publisher, deleter, edge, late>>

\* The UPDATE of InvalidateSiteCache increments in place; the request then
\* publishes the site.
InvalidateSiteCache(e) ==
    /\ edit[e].op = "invalidate"
    /\ LET s == edit[e].site
       IN  \/ /\ site[s].row = "present"
              /\ site' = [site EXCEPT ![s].draft.gen = @ + 1, ![s].cv = @ + 1,
                                      ![s].published = FALSE]
              /\ edit' = [edit EXCEPT ![e].op = "publish"]
           \/ /\ site[s].row # "present"
              /\ edit' = [edit EXCEPT ![e] = NoEdit]
              /\ UNCHANGED site
    /\ UNCHANGED <<pub, desired, status, reported, upgrading, task, phase,
                   publisher, deleter, edge, late>>

\* New material is stored: one transaction.
StoreCertificate(s) ==
    /\ "certificate" \in Operations
    /\ Quiet
    /\ site[s].row = "present"
    /\ ~site[s].draft.deleting
    /\ site[s].cv < MaxConfigVersion
    /\ site' = [site EXCEPT ![s].draft.cert = @ + 1, ![s].cv = @ + 1,
                            ![s].published = FALSE]
    /\ UNCHANGED <<pub, desired, status, reported, upgrading, task, phase,
                   publisher, deleter, edge, late>>

\* A certificate was issued or uploaded.
SaveCertificate(s) ==
    /\ StoreCertificate(s)
    /\ UNCHANGED edit

\* A certificate was renewed; the job then publishes the site.
RenewCertificate(e, s) ==
    /\ edit[e] = NoEdit
    /\ StoreCertificate(s)
    /\ edit' = [edit EXCEPT ![e] = [op |-> "publish", site |-> s, read |-> site[s]]]

-----------------------------------------------------------------------------
\* PublishSite, PublishAll, PublishNode and StageSiteRemoval, one at a time
\* under desiredStateMu.

Idle == [pc |-> "idle"]
NoSite == "none"

\* What the holder of the mutex works on: a site to publish or to remove, or
\* a set of nodes to rebuild from the stored snapshots.
Holding(pc, kind, s, scope, cv) ==
    [pc |-> pc, kind |-> kind, site |-> s, scope |-> scope, cv |-> cv,
     updates |-> [n \in Nodes |-> Unset], targets |-> {}]

\* PublishSite takes the mutex and reads the draft and its version; there is
\* nothing to publish when the site is gone or being deleted.
TakeMutex(s) ==
    /\ publisher = Idle
    /\ site[s].row = "present" /\ ~site[s].draft.deleting
    /\ publisher' = Holding("create", "publish", s, {}, site[s].cv)

BeginPublishSite(s) ==
    /\ "publish" \in Operations
    /\ TakeMutex(s)
    /\ UNCHANGED <<site, pub, desired, status, reported, upgrading, task, phase,
                   deleter, edit, edge, late>>

\* The publication that follows an invalidation or a renewal.
PublishEdited(e) ==
    /\ edit[e].op = "publish"
    /\ publisher = Idle
    /\ edit' = [edit EXCEPT ![e] = NoEdit]
    /\ LET s == edit[e].site
       IN  \/ TakeMutex(s)
           \/ /\ site[s].row = "present" => site[s].draft.deleting
              /\ UNCHANGED publisher
    /\ UNCHANGED <<site, pub, desired, status, reported, upgrading, task, phase,
                   deleter, edge, late>>

\* The stored tasks are reconciled first; then an active task is returned as
\* it is, or a task is queued (the partial unique index admits one active
\* publish task per site).
CreateOrGetActivePublishTask ==
    /\ publisher.pc = "create"
    /\ LET s == publisher.site
           reconciled == ReconcilePublishTasks(task, reported)
       IN  IF ActiveTask(reconciled["publish"][s])
           THEN /\ task' = reconciled
                /\ publisher' = Idle
           ELSE /\ task' = [reconciled EXCEPT !["publish"][s] =
                                [NoTask EXCEPT !.st = "queued"]]
                /\ publisher' = [publisher EXCEPT !.pc = "mark"]
    /\ UNCHANGED <<site, pub, desired, status, reported, upgrading, phase,
                   deleter, edit, edge, late>>

\* The two unconditional UpdateTask calls before the rendering; no guard
\* tells dispatching from applying.
MarkApplying ==
    /\ publisher.pc = "mark"
    /\ task' = [task EXCEPT !["publish"][publisher.site].st = "applying"]
    /\ publisher' = [publisher EXCEPT !.pc = "prepare"]
    /\ UNCHANGED <<site, pub, desired, status, reported, upgrading, phase,
                   deleter, edit, edge, late>>

\* PublishAll (a policy or setting changed) and PublishNode (one node did).
BeginRebuild(scope) ==
    /\ "rebuild" \in Operations
    /\ publisher = Idle
    /\ publisher' = Holding("prepare", "rebuild", NoSite, scope, 0)
    /\ UNCHANGED <<site, pub, desired, status, reported, upgrading, task, phase,
                   deleter, edit, edge, late>>

\* StageSiteRemoval, called by the deletion workflow.
BeginStageSiteRemoval ==
    /\ deleter.pc = "stage"
    /\ publisher = Idle
    /\ publisher' = Holding("prepare", "remove", deleter.site, {}, 0)
    /\ deleter' = [deleter EXCEPT !.pc = "staging"]
    /\ UNCHANGED <<site, pub, desired, status, reported, upgrading, task, phase,
                   edit, edge, late>>

\* prepareNodeStates: which nodes a publication or a removal touches.
AffectedNodes(s) ==
    site[s].draft.nodes \cup (IF pub[s] = NoPublication THEN {} ELSE pub[s].nodes)

\* Materials[s] is what site s is rendered from: the draft of the site being
\* published, the snapshots of the others.
Materials(s) == [x \in Sites |-> IF x = s THEN site[x].draft ELSE pub[x]]

\* The sites rendered, the material they are rendered from and the nodes
\* affected by the operation the publisher carries out.
Plan ==
    LET s == publisher.site
    IN  CASE publisher.kind = "publish" ->
                [sites |-> Published \cup {s}, materials |-> Materials(s),
                 affected |-> AffectedNodes(s)]
          [] publisher.kind = "remove" ->
                [sites |-> Published \ {s}, materials |-> pub,
                 affected |-> AffectedNodes(s)]
          [] OTHER ->
                [sites |-> Published, materials |-> pub,
                 affected |-> publisher.scope]

\* The early returns of the preparation that the modelled state decides.
Preparable(plan) ==
    /\ publisher.kind # "rebuild" => site[publisher.site].row = "present"
    /\ publisher.kind = "publish" =>
        LET draft == site[publisher.site].draft
        IN  ~draft.deleting /\ (draft.enabled => draft.cert > 0)
    /\ \A n \in plan.affected : ~upgrading[n]

Prepare ==
    /\ publisher.pc = "prepare"
    /\ Preparable(Plan)
    /\ \A n \in Plan.affected : desired[n].version < MaxVersion
    /\ LET updates == NodeStateUpdates(Plan.sites, Plan.materials, Plan.affected)
       IN  publisher' = [publisher EXCEPT !.pc = "commit", !.updates = updates,
               !.targets = {n \in Updated(updates) : status[n] = "active"}]
    /\ UNCHANGED <<site, pub, desired, status, reported, upgrading, task, phase,
                   deleter, edit, edge, late>>

\* What an error of the operation leads to: PublishSite fails its task, the
\* deletion workflow fails its own, a rebuild only reports it.
Abort ==
    /\ publisher' = Idle
    /\ LET s == publisher.site
       IN  CASE publisher.kind = "publish" ->
                   /\ task' = [task EXCEPT !["publish"][s].st = "failed"]
                   /\ UNCHANGED deleter
             [] publisher.kind = "remove" ->
                   /\ task' = [task EXCEPT !["delete"][s].st = "failed"]
                   /\ deleter' = Idle
             [] OTHER -> UNCHANGED <<task, deleter>>

\* Any early return of the preparation: those of Preparable, and the ones
\* the model does not decide (an expired certificate, a missing capability,
\* a rendering error).
PrepareFails ==
    /\ publisher.pc = "prepare"
    /\ Abort
    /\ UNCHANGED <<site, pub, desired, status, reported, upgrading, phase, edit,
                   edge, late>>

\* createPublishTaskNodesTx: one pending row for every active updated node.
WithTargets(t) ==
    [t EXCEPT !.rows = [n \in Nodes |->
        IF n \in publisher.targets
        THEN [target |-> publisher.updates[n].version, st |-> "pending"]
        ELSE t.rows[n]]]

\* Mutant: the transaction trusts the check made before the rendering.
UpgradeCheckSkipped == TRUE

\* ensureNodesNotUpgradingTx, inside the transaction.
NoUpdateUpgrading == \A n \in Updated(publisher.updates) : ~upgrading[n]

\* Mutants: the transaction does not compare the version of the draft, or
\* does not look at its deletion.
CommittableAnyVersion(s) ==
    site[s].row = "present" /\ ~site[s].draft.deleting /\ NoUpdateUpgrading

CommittableDeleting(s) ==
    site[s].row = "present" /\ site[s].cv = publisher.cv /\ NoUpdateUpgrading

\* The checks of the transaction of CommitSitePublication.
Committable(s) ==
    /\ site[s].row = "present"
    /\ ~site[s].draft.deleting
    /\ site[s].cv = publisher.cv
    /\ NoUpdateUpgrading

\* saveSitePublicationTx: draft and certificate as the transaction reads them.
Snapshot(s) == site[s].draft

CommitSitePublication ==
    /\ publisher.pc = "commit" /\ publisher.kind = "publish"
    /\ Committable(publisher.site)
    /\ LET s == publisher.site
       IN  /\ task' = [task EXCEPT !["publish"][s] = WithTargets(@)]
           /\ pub' = [pub EXCEPT ![s] = Snapshot(s)]
           /\ site' = [site EXCEPT ![s].published = TRUE]
    /\ desired' = SaveNodeStates(publisher.updates)
    /\ publisher' = IF publisher.targets = {}
                    THEN [publisher EXCEPT !.pc = "finish"] ELSE Idle
    /\ UNCHANGED <<status, reported, upgrading, phase, deleter, edit, edge, late>>

\* Without a node to wait for, PublishSite declares the task succeeded.
FinishWithoutTargets ==
    /\ publisher.pc = "finish"
    /\ task' = [task EXCEPT !["publish"][publisher.site].st = "succeeded"]
    /\ publisher' = Idle
    /\ UNCHANGED <<site, pub, desired, status, reported, upgrading, phase,
                   deleter, edit, edge, late>>

\* The transaction of PublishAll and PublishNode checks nothing again.
CommitRebuild ==
    /\ publisher.pc = "commit" /\ publisher.kind = "rebuild"
    /\ desired' = SaveNodeStates(publisher.updates)
    /\ publisher' = Idle
    /\ UNCHANGED <<site, pub, status, reported, upgrading, task, phase, deleter,
                   edit, edge, late>>

\* StageSiteDeletion: one transaction.
StageSiteDeletion ==
    /\ publisher.pc = "commit" /\ publisher.kind = "remove"
    /\ NoUpdateUpgrading
    /\ LET s == publisher.site
       IN  /\ task' = [task EXCEPT !["delete"][s] = [WithTargets(@) EXCEPT !.st = "applying"]]
           /\ phase' = [phase EXCEPT ![s] = "waiting_for_edges"]
    /\ desired' = SaveNodeStates(publisher.updates)
    /\ publisher' = Idle
    /\ deleter' = [deleter EXCEPT !.pc = "advance"]
    /\ UNCHANGED <<site, pub, status, reported, upgrading, edit, edge, late>>

\* The transaction finds the draft changed, deleted, or a node upgrading.
CommitFails ==
    /\ publisher.pc = "commit"
    /\ CASE publisher.kind = "publish" -> ~Committable(publisher.site)
         [] publisher.kind = "remove" -> ~NoUpdateUpgrading
         [] OTHER -> FALSE
    /\ Abort
    /\ UNCHANGED <<site, pub, desired, status, reported, upgrading, phase, edit,
                   edge, late>>

-----------------------------------------------------------------------------
\* The deletion workflow, one at a time under SiteDeletionManager.mu.

\* Start: BeginSiteDeletion marks the site and queues the task and its job,
\* unless a deletion is active already, in which case that one is advanced.
\* It refuses while a publish task is active.
BeginSiteDeletion(s) ==
    /\ "delete" \in Operations
    /\ Quiet
    /\ deleter = Idle
    /\ site[s].row = "present"
    /\ ~ActiveTask(task["delete"][s])
    /\ ~ActiveTask(task["publish"][s])
    /\ task' = [task EXCEPT !["delete"][s] = [NoTask EXCEPT !.st = "queued"]]
    /\ site' = [site EXCEPT ![s].draft.enabled = FALSE, ![s].draft.deleting = TRUE]
    /\ phase' = [phase EXCEPT ![s] = "withdrawing_dns"]
    /\ deleter' = [pc |-> "advance", site |-> s]
    /\ UNCHANGED <<pub, desired, status, reported, upgrading, publisher, edit,
                   edge, late>>

\* Mutant: Status also advances a deletion that has failed.
ResumeFailedDeletion(s) ==
    /\ deleter = Idle
    /\ ActiveTask(task["delete"][s]) \/ task["delete"][s].st = "failed"
    /\ deleter' = [pc |-> "advance", site |-> s]
    /\ UNCHANGED <<site, pub, desired, status, reported, upgrading, task, phase,
                   publisher, edit, edge, late>>

\* Reconcile, Status and a repeated Start advance an active deletion.
ResumeSiteDeletion(s) ==
    /\ deleter = Idle
    /\ ActiveTask(task["delete"][s])
    /\ deleter' = [pc |-> "advance", site |-> s]
    /\ UNCHANGED <<site, pub, desired, status, reported, upgrading, task, phase,
                   publisher, edit, edge, late>>

FailSiteDeletion ==
    /\ task' = [task EXCEPT !["delete"][deleter.site].st = "failed"]
    /\ deleter' = Idle

\* The managed DNS records are withdrawn before the edges are told.
WithdrawDNS ==
    /\ deleter.pc = "advance" /\ phase[deleter.site] = "withdrawing_dns"
    /\ \/ /\ task' = [task EXCEPT !["delete"][deleter.site].st = "applying"]
          /\ deleter' = [deleter EXCEPT !.pc = "stage"]
       \/ FailSiteDeletion
    /\ UNCHANGED <<site, pub, desired, status, reported, upgrading, phase,
                   publisher, edit, edge, late>>

\* SiteDeletionReady: confirm by applied version, time out what is pending
\* past the deadline, then wait, fail, or go on to the cleanup.
DeletionRows(s) ==
    LET c == ConfirmApplied(task["delete"][s], reported)
    IN  IF c.expired THEN TimeOutPending(c) ELSE c

AwaitingEdges ==
    /\ deleter.pc = "advance" /\ phase[deleter.site] = "waiting_for_edges"
    /\ UNCHANGED <<site, pub, desired, status, reported, upgrading, publisher,
                   edit, edge, late>>

SiteDeletionWaits ==
    /\ AwaitingEdges
    /\ LET s == deleter.site
           t == DeletionRows(s)
       IN  /\ ActiveTask(t) /\ RowsIn(t, "pending") # {}
           /\ task' = [task EXCEPT !["delete"][s] = t]
    /\ deleter' = Idle
    /\ UNCHANGED phase

SiteDeletionFails ==
    /\ AwaitingEdges
    /\ LET s == deleter.site
           t == DeletionRows(s)
       IN  /\ ActiveTask(t) /\ RowsIn(t, "pending") = {}
           /\ RowsIn(t, "failed") \cup RowsIn(t, "timed_out") # {}
           /\ task' = [task EXCEPT !["delete"][s] = [t EXCEPT !.st =
                          IF RowsIn(t, "succeeded") # {} THEN "partial" ELSE "failed"]]
    /\ deleter' = Idle
    /\ UNCHANGED phase

\* Mutant: the cleanup starts as soon as no edge has failed.
SiteDeletionNotRefused ==
    /\ AwaitingEdges
    /\ LET s == deleter.site
           t == DeletionRows(s)
       IN  /\ ActiveTask(t)
           /\ RowsIn(t, "failed") \cup RowsIn(t, "timed_out") = {}
           /\ task' = [task EXCEPT !["delete"][s] = t]
           /\ phase' = [phase EXCEPT ![s] = "finalizing"]
    /\ UNCHANGED deleter

SiteDeletionConfirmed ==
    /\ AwaitingEdges
    /\ LET s == deleter.site
           t == DeletionRows(s)
       IN  /\ ActiveTask(t)
           /\ RowsIn(t, "none") \cup RowsIn(t, "succeeded") = Nodes
           /\ task' = [task EXCEPT !["delete"][s] = t]
           /\ phase' = [phase EXCEPT ![s] = "finalizing"]
    /\ UNCHANGED deleter

\* CompleteSiteDeletion removes the row, and with it the snapshot.
CompleteSiteDeletion ==
    /\ deleter.pc = "advance" /\ phase[deleter.site] = "finalizing"
    /\ LET s == deleter.site
       IN  \/ /\ site' = [site EXCEPT ![s] = Deleted]
              /\ pub' = [pub EXCEPT ![s] = NoPublication]
              /\ phase' = [phase EXCEPT ![s] = "none"]
              /\ task' = [task EXCEPT !["delete"][s].st = "succeeded"]
              /\ deleter' = Idle
           \/ /\ FailSiteDeletion        \* the certificate cleanup failed
              /\ UNCHANGED <<site, pub, phase>>
    /\ UNCHANGED <<desired, status, reported, upgrading, publisher, edit, edge,
                   late>>

-----------------------------------------------------------------------------
\* Nodes, upgrades, time and failures of the control plane.

SetNodeStatus(n, st) ==
    /\ "status" \in Operations
    /\ st \in {"active", "draining", "revoked"}
    /\ status' = [status EXCEPT ![n] = st]
    /\ upgrading' = [upgrading EXCEPT ![n] = @ /\ st # "revoked"]
    /\ UNCHANGED <<site, pub, desired, reported, task, phase, publisher, deleter,
                   edit, edge, late>>

\* CreateOrGetNodeUpgrade: one transaction.
CreateNodeUpgrade(n) ==
    /\ "upgrade" \in Operations
    /\ ~upgrading[n]
    /\ status[n] \in {"active", "draining"}
    /\ ~HasActiveNodePublication(n)
    /\ upgrading' = [upgrading EXCEPT ![n] = TRUE]
    /\ UNCHANGED <<site, pub, desired, status, reported, task, phase, publisher,
                   deleter, edit, edge, late>>

\* A result is reported, or the upgrade deadline passes.
EndNodeUpgrade(n) ==
    /\ upgrading[n]
    /\ upgrading' = [upgrading EXCEPT ![n] = FALSE]
    /\ UNCHANGED <<site, pub, desired, status, reported, task, phase, publisher,
                   deleter, edit, edge, late>>

\* Ninety seconds after a task was created its deadline passes.
DeadlinePasses(k, s) ==
    /\ ActiveTask(task[k][s])
    /\ ~task[k][s].expired
    /\ task' = [task EXCEPT ![k][s].expired = TRUE]
    /\ UNCHANGED <<site, pub, desired, status, reported, upgrading, phase,
                   publisher, deleter, edit, edge, late>>

\* PublishStatus and the health round reconcile the publish tasks.
Reconcile ==
    /\ task' = ReconcilePublishTasks(task, reported)
    /\ task' # task
    /\ UNCHANGED <<site, pub, desired, status, reported, upgrading, phase,
                   publisher, deleter, edit, edge, late>>

\* The control plane stops: SQLite keeps the tables, requests are lost.
ControlCrash ==
    /\ "crash" \in Operations
    /\ publisher # Idle \/ deleter # Idle
    /\ publisher' = Idle
    /\ deleter' = Idle
    /\ edit' = [e \in Editors |-> NoEdit]
    /\ late' = {}
    /\ UNCHANGED <<site, pub, desired, status, reported, upgrading, task, phase,
                   edge>>

-----------------------------------------------------------------------------
\* The edge agent.

\* requireEdge: a revoked node is not authorised.  Without agent no request
\* of an edge gets through.
Authorised(n) == "agent" \in Operations /\ ~Retired(n)

\* Sync fetches the desired state and applies it when it is newer than the
\* applied-version file (module EdgeApply has the steps, module EdgeSync the
\* contract).  A failed apply leaves live what was, or what it was to load if
\* the rollback failed, or what the rollback restored; when only the
\* applied-version file could not be written, the new configuration stays.
Newer(n) == Authorised(n) /\ desired[n].version > edge[n].applied

SyncSucceeds(n) ==
    /\ Newer(n)
    /\ edge' = [edge EXCEPT ![n] =
        [applied |-> desired[n].version, config |-> desired[n].config,
         kept |-> desired[n].config,
         report |-> [version |-> desired[n].version, ok |-> TRUE]]]
    /\ UNCHANGED <<site, pub, desired, status, reported, upgrading, task, phase,
                   publisher, deleter, edit, late>>

SyncFails(n) ==
    /\ "apply_failure" \in Operations
    /\ Newer(n)
    /\ \E live \in {edge[n].config, edge[n].kept, desired[n].config},
          kept \in {edge[n].kept, desired[n].config} :
        /\ kept = edge[n].kept \/ live = kept
        /\ edge' = [edge EXCEPT ![n] =
              [applied |-> edge[n].applied, config |-> live, kept |-> kept,
               report |-> [version |-> desired[n].version, ok |-> FALSE]]]
    /\ edge' # edge
    /\ UNCHANGED <<site, pub, desired, status, reported, upgrading, task, phase,
                   publisher, deleter, edit, late>>

\* The agent dies while it applies.
SyncInterrupted(n) ==
    /\ "edge_crash" \in Operations
    /\ Newer(n)
    /\ \E live \in {edge[n].config, edge[n].kept, desired[n].config},
          kept \in {edge[n].kept, desired[n].config} :
        edge' = [edge EXCEPT ![n] =
            [applied |-> edge[n].applied, config |-> live, kept |-> kept,
             report |-> NoReport]]
    /\ edge' # edge
    /\ UNCHANGED <<site, pub, desired, status, reported, upgrading, task, phase,
                   publisher, deleter, edit, late>>

\* The report is only in memory.
EdgeRestart(n) ==
    /\ "edge_crash" \in Operations
    /\ edge[n].report # NoReport
    /\ edge' = [edge EXCEPT ![n].report = NoReport]
    /\ UNCHANGED <<site, pub, desired, status, reported, upgrading, task, phase,
                   publisher, deleter, edit, late>>

\* HeartbeatWithAgentVersion: the report first, then applied_version, which
\* never decreases, then the tasks.
Record(h) ==
    LET settled == [k \in Kinds |-> [s \in Sites |->
                        RecordPublishApply(task[k][s], h.node, h.report)]]
        applied == [reported EXCEPT ![h.node] = IF h.applied > @ THEN h.applied ELSE @]
    IN  /\ reported' = applied
        /\ task' = ReconcilePublishTasks(
                       IF h.report = NoReport THEN task ELSE settled, applied)
        /\ status' = [status EXCEPT ![h.node] = IF @ = "pending" THEN "active" ELSE @]

\* Mutant: the agent reports the version it was asked to run.
MessageDesired(n) ==
    [node |-> n, applied |-> desired[n].version, report |-> edge[n].report]

Message(n) == [node |-> n, applied |-> edge[n].applied, report |-> edge[n].report]

\* The agent waits for the answer; only an answer that arrives clears the
\* report, so the same report may be sent again.
SendHeartbeat(n) ==
    /\ Authorised(n)
    /\ Record(Message(n))
    /\ \/ edge' = [edge EXCEPT ![n].report = NoReport]
       \/ UNCHANGED edge
    /\ UNCHANGED <<site, pub, desired, upgrading, phase, publisher, deleter,
                   edit, late>>

\* The agent's request times out while it is still on its way.
AbandonHeartbeat(n) ==
    /\ "late" \in Operations
    /\ Cardinality(late \cup {Message(n)}) <= MaxLate
    /\ late' = late \cup {Message(n)}
    /\ UNCHANGED <<site, pub, desired, status, reported, upgrading, task, phase,
                   publisher, deleter, edit, edge>>

HandleLateHeartbeat(h) ==
    /\ late' = late \ {h}
    /\ \/ Authorised(h.node) /\ Record(h)
       \/ UNCHANGED <<reported, task, status>>      \* lost or refused
    /\ UNCHANGED <<site, pub, desired, upgrading, phase, publisher, deleter,
                   edit, edge>>

-----------------------------------------------------------------------------
Init ==
    /\ site = [s \in Sites |-> Absent]
    /\ edit = [e \in Editors |-> NoEdit]
    /\ pub = [s \in Sites |-> NoPublication]
    /\ desired = [n \in Nodes |-> Unset]
    /\ status = [n \in Nodes |-> InitialStatus]
    /\ reported = [n \in Nodes |-> 0]
    /\ upgrading = [n \in Nodes |-> FALSE]
    /\ task = [k \in Kinds |-> [s \in Sites |-> NoTask]]
    /\ phase = [s \in Sites |-> "none"]
    /\ publisher = Idle
    /\ deleter = Idle
    /\ edge = [n \in Nodes |-> [applied |-> 0, config |-> {}, kept |-> {},
                            report |-> NoReport]]
    /\ late = {}

Draft ==
    \/ \E s \in Sites : CreateSite(s) \/ SaveCertificate(s)
    \/ \E e \in Editors : UpdateSite(e) \/ InvalidateSiteCache(e)
    \/ \E e \in Editors, s \in Sites : RenewCertificate(e, s)
    \/ \E e \in Editors, s \in Sites, op \in {"update", "invalidate"} :
        BeginEdit(e, s, op)

\* The steps of a request that holds desiredStateMu.
PublisherStep ==
    \/ CreateOrGetActivePublishTask
    \/ MarkApplying
    \/ Prepare
    \/ PrepareFails
    \/ CommitSitePublication
    \/ FinishWithoutTargets
    \/ CommitRebuild
    \/ StageSiteDeletion
    \/ CommitFails

Publish ==
    \/ \E s \in Sites : BeginPublishSite(s)
    \/ \E e \in Editors : PublishEdited(e)
    \/ BeginRebuild(Nodes)
    \/ \E n \in Nodes : BeginRebuild({n})
    \/ PublisherStep

\* The steps of a request that holds SiteDeletionManager.mu.
DeleterStep ==
    \/ WithdrawDNS
    \/ BeginStageSiteRemoval
    \/ SiteDeletionWaits
    \/ SiteDeletionFails
    \/ SiteDeletionConfirmed
    \/ CompleteSiteDeletion

Delete ==
    \/ \E s \in Sites : BeginSiteDeletion(s) \/ ResumeSiteDeletion(s)
    \/ DeleterStep

Control ==
    \/ \E n \in Nodes, st \in NodeStatus : SetNodeStatus(n, st)
    \/ \E n \in Nodes : CreateNodeUpgrade(n) \/ EndNodeUpgrade(n)
    \/ \E k \in Kinds, s \in Sites : DeadlinePasses(k, s)
    \/ Reconcile
    \/ ControlCrash

Agent ==
    \/ \E n \in Nodes :
        \/ SyncSucceeds(n)
        \/ SyncFails(n)
        \/ SyncInterrupted(n)
        \/ EdgeRestart(n)
        \/ SendHeartbeat(n)
        \/ AbandonHeartbeat(n)
    \/ \E h \in late : HandleLateHeartbeat(h)

Next == Draft \/ Publish \/ Delete \/ Control \/ Agent

Spec == Init /\ [][Next]_vars

\* A request that holds a mutex goes on, time passes, the health round comes
\* every 15 seconds and advances each active deletion, and sync.Mutex does not
\* starve a waiter.  Nothing is assumed of administrators, edges or networks.
Fairness ==
    /\ WF_vars(PublisherStep)
    /\ WF_vars(DeleterStep)
    /\ SF_vars(BeginStageSiteRemoval)
    /\ WF_vars(Reconcile)
    /\ \A s \in Sites : SF_vars(ResumeSiteDeletion(s))
    /\ \A k \in Kinds, s \in Sites : WF_vars(DeadlinePasses(k, s))

FairSpec == Spec /\ Fairness

-----------------------------------------------------------------------------
\* Properties.

\* TypeOK: the tables, the requests in progress and the edges hold values of
\* their types.
PublisherType ==
    {Idle} \cup
    [pc : {"create", "mark", "prepare", "commit", "finish"},
     kind : {"publish", "remove", "rebuild"}, site : Sites \cup {NoSite},
     scope : SUBSET Nodes, cv : Nat, updates : [Nodes -> State],
     targets : SUBSET Nodes]

TypeOK ==
    /\ site \in [Sites -> SiteRow \cup {Absent, Deleted}]
    /\ pub \in [Sites -> Material \cup {NoPublication}]
    /\ desired \in [Nodes -> State]
    /\ status \in [Nodes -> NodeStatus]
    /\ reported \in [Nodes -> Nat]
    /\ upgrading \in [Nodes -> BOOLEAN]
    /\ task \in [Kinds -> [Sites -> Task]]
    /\ phase \in [Sites -> {"none", "withdrawing_dns", "waiting_for_edges", "finalizing"}]
    /\ publisher \in PublisherType
    /\ deleter \in {Idle} \cup [pc : {"advance", "stage", "staging"}, site : Sites]
    /\ edit \in [Editors -> {NoEdit} \cup
                    [op : {"update", "invalidate", "publish"}, site : Sites,
                     read : SiteRow]]
    /\ edge \in [Nodes -> [applied : Nat, config : SUBSET Block,
                           kept : SUBSET Block, report : Report]]
    /\ late \subseteq Heartbeat

\* A node whose durable applied version is the desired version runs exactly
\* the desired configuration: a version number is never used for two
\* configurations, although publications, removals and rebuilds race with
\* crashes, upgrades and edges that apply in between.
AppliedMeansLoaded ==
    \A n \in Nodes :
        edge[n].applied = desired[n].version => edge[n].config = desired[n].config

\* The control plane never believes an edge to be further than it is: lost,
\* repeated and late heartbeats leave applied_version at or below the edge's
\* own applied version, which is at or below the desired version.
NeverAheadOfEdge ==
    \A n \in Nodes :
        /\ reported[n] <= edge[n].applied
        /\ edge[n].applied <= desired[n].version

\* A confirmation row that succeeded was really applied: the edge's durable
\* version has reached the row's target, whichever of the report, the applied
\* version or a late heartbeat settled it.
ConfirmedMeansApplied ==
    \A k \in Kinds, s \in Sites, n \in Nodes :
        task[k][s].rows[n].st = "succeeded" =>
            task[k][s].rows[n].target <= edge[n].applied

\* A node is never upgraded while an active task waits for its confirmation:
\* the check made before rendering is stale by the time of the transaction,
\* which therefore repeats it.
NoUpgradeDuringConfirmation ==
    \A n \in Nodes : upgrading[n] => ~HasActiveNodePublication(n)

\* A deletion reaches its cleanup, after which the site is removed, only when
\* every edge it waits for has durably applied the version that its removal
\* was staged as, although rows are settled by reports, by applied versions
\* and by late heartbeats.
CleanupMeansApplied ==
    \A s \in Sites, n \in Nodes :
        (phase[s] = "finalizing" /\ task["delete"][s].rows[n].st # "none")
            => task["delete"][s].rows[n].target <= edge[n].applied

\* Every node is to run exactly the published snapshots: nothing of an
\* unpublished draft leaks into a rebuild, and no snapshot is recorded that
\* was not rendered.  (Of behaviours without deletions and revocations.)
SnapshotsAreDesired ==
    \A n \in Nodes :
        desired[n].version # 0 => desired[n].config = Render(Published, pub, n)

\* Publishing a site whose deletion has begun never succeeds, although
\* beginning a deletion does not change the draft's version.
NoPublicationWhileDeleting ==
    [][\A s \in Sites :
        (site[s].row = "present" /\ site[s].draft.deleting /\ pub'[s] # pub[s])
            => pub'[s] = NoPublication]_vars

\* A deletion that has ended, and also one that failed or removed the site from
\* some edges only, keeps its result until an administrator starts the next
\* one: neither late reports, deadlines, the health round and polls of its
\* status, nor a removal still being staged, revise or resume it.
DeletionResultIsFinal ==
    [][\A s \in Sites :
        task["delete"][s].st \in {"succeeded", "partial", "failed"} =>
            task'["delete"][s] \in {task["delete"][s], [NoTask EXCEPT !.st = "queued"]}]_vars

\* If the control plane stops crashing, every publish and every delete task
\* ends, whatever the edges do: silent edges, failed renderings and requests
\* lost in a crash are all caught by the deadline and the health round.
TasksEnd ==
    <>[][~ControlCrash]_vars =>
        \A k \in Kinds, s \in Sites : ActiveTask(task[k][s]) ~> ~ActiveTask(task[k][s])

-----------------------------------------------------------------------------
\* What the documentation and comments of the repository say, and the code
\* does not do.

BlockOf(s, m) == [site |-> s, origin |-> m.origin, gen |-> m.gen, cert |-> m.cert]

\* README.md, "Deliberate boundaries": a publish task succeeds only after
\* every affected active edge reports that it loaded the target configuration.
\* PublishSite declares success without waiting when the rendering equals a
\* stored desired state, even one that no edge has loaded.
SuccessMeansLoaded ==
    [][\A s \in Sites :
        (task["publish"][s].st # "succeeded" /\ task'["publish"][s].st = "succeeded"
            /\ pub[s].enabled)
        => \A n \in pub[s].nodes :
            status[n] = "active" => BlockOf(s, pub[s]) \in edge[n].config]_vars

\* README.md, "Site deletion": if an active edge fails or times out, the site
\* remains disabled in Deleting state.  An UpdateSite that read the row before
\* the deletion began writes it back enabled and not deleting.
DeletingIsKept ==
    \A s \in Sites :
        (site[s].row = "present" /\ task["delete"][s].st # "none")
            => site[s].draft.deleting /\ ~site[s].draft.enabled

\* README.md, "Site deletion": the controller waits for every currently
\* assigned active edge to confirm the configuration without the site, then
\* deletes it; there is no force-delete path.  A retried deletion finds the
\* desired states already without the site and waits for nobody.
DeletedMeansUnloaded ==
    [][\A s \in Sites :
        (site[s].row = "present" /\ site'[s] = Deleted)
            => \A n \in Nodes : status[n] = "active" =>
                \A b \in edge[n].config : b.site # s]_vars

\* README.md, "Site deletion": the controller publishes desired states without
\* the site.  Its snapshot is stored before it is marked deleting, so a rebuild
\* or the publication of another site puts the site back.
DeletedMeansNotDesired ==
    \A s \in Sites : site[s] = Deleted =>
        \A n \in Nodes : \A b \in desired[n].config : b.site # s

=============================================================================
