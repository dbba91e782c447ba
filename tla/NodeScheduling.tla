--------------------------- MODULE NodeScheduling ---------------------------
(***************************************************************************)
(* Which nodes a site's DNS records point to.  Four writers meet here:     *)
(* the health round, which probes the nodes and reconciles the managed     *)
(* records of every published site; the administrator, who pauses, revokes *)
(* and uninstalls nodes; TCP monitoring, which pauses and resumes nodes by *)
(* itself; and the deletion of sites, which withdraws their records.       *)
(*                                                                         *)
(* SQLite transactions are one step.  A round works for up to 45 seconds   *)
(* on the list of nodes it read at its start and on the list of sites it   *)
(* read in the middle; Cloudflare is changed one record per request.       *)
(* Publishing is one step here (module Publication has its steps), and an  *)
(* edge is probed, not modelled.                                           *)
(***************************************************************************)
EXTENDS Integers, FiniteSets

CONSTANTS
    Sites,          \* site identifiers
    Nodes,          \* edge node identifiers, enrolled and seen once
    ProbedSites,    \* sites whose configuration has a health endpoint
    Operations,     \* what happens besides the rounds
    FailLimit,      \* failed probes in a row that remove a node (3)
    SuccessLimit,   \* successful probes in a row that restore it (5)
    AbnormalLimit,  \* MonitoringAutoPauseAfter (4)
    MaxChanges      \* bound on the changes from outside the rounds

ASSUME SchedulingAssumption ==
    /\ FailLimit \in Nat \ {0}
    /\ SuccessLimit \in Nat \ {0}
    /\ AbnormalLimit \in Nat \ {0}
    /\ MaxChanges \in Nat
    /\ ProbedSites \subseteq Sites

VARIABLES
    status,     \* nodes.status
    monitor,    \* nodes.monitor_auto_paused and consecutive_abnormal
    busy,       \* the node is behind its desired state, or being upgraded
    answers,    \* the probes the node answers: none, node, site
    health,     \* table node_health
    siteHealth, \* table site_node_health
    draft,      \* table sites, with the phase of a deletion
    pub,        \* table site_publications
    dns,        \* per site, the nodes its managed A records point to
    job,        \* table node_uninstall_jobs
    round,      \* HealthManager.Reconcile and what it has read
    prepare,    \* prepareNodeUninstall between its reads and its transaction
    withdraw,   \* the deletion workflow while it withdraws records
    changes     \* how many changes came from outside the rounds

vars == <<status, monitor, busy, answers, health, siteHealth, draft, pub, dns,
          job, round, prepare, withdraw, changes>>

nodeVars == <<status, monitor, busy, job>>
siteVars == <<draft, pub>>
probeVars == <<answers, health, siteHealth>>

NodeStatus == {"active", "draining", "revoked", "uninstalling", "uninstalled"}
ActiveJob == {"preparing", "ready", "running", "failed"}
JobStatus == ActiveJob \cup {"none", "succeeded", "forced", "canceled"}

Draft == [nodes : SUBSET Nodes, on : BOOLEAN,
          st : {"live", "withdrawing", "retiring", "gone"}]
Publication == [nodes : SUBSET Nodes, on : BOOLEAN, row : {"none", "row"}]
NotPublished == [nodes |-> {}, on |-> FALSE, row |-> "none"]
Idle == [pc |-> "idle"]

\* Consecutive results as one number: successes up, failures down.  A node
\* without a row is not eligible.
Health == [streak : (0 - FailLimit) .. SuccessLimit, eligible : BOOLEAN]
NoHealth == [streak |-> 0, eligible |-> FALSE]

NoJob == [st |-> "none", previous |-> "draining", ready |-> FALSE,
          token |-> FALSE, started |-> FALSE, affected |-> {}]

\* Something happens that is not a step of the rounds or of a request.
Change(kind) ==
    /\ kind \in Operations
    /\ changes < MaxChanges
    /\ changes' = changes + 1

-----------------------------------------------------------------------------
\* Reading the tables.

Deleting(d) == d.st \in {"withdrawing", "retiring"}
Present(s) == draft[s].st # "gone"
HasPub(s) == pub[s].row = "row"

Retired(n) == status[n] \in {"revoked", "uninstalling", "uninstalled"}

\* Mutant: a node that is being uninstalled can still be assigned.
AssignableDuringUninstall(n) == ~Retired(n)

\* validateSiteNodes.
Assignable(n) == ~Retired(n) /\ job[n].st \notin ActiveJob

Affected(n) ==
    {s \in Sites : Present(s) /\ (n \in draft[s].nodes \/ n \in pub[s].nodes)}

\* The blockers of buildNodeUninstallStatus: still_assigned in any draft;
\* for the sites affected when the uninstall was prepared, site_not_published
\* and no_active_node.
Blockers(n) ==
    {s \in Sites : Present(s) /\
        \/ n \in draft[s].nodes
        \/ /\ s \in job[n].affected
           /\ \/ n \in pub[s].nodes
              \/ ~HasPub(s)
              \/ pub[s].on /\ \A m \in pub[s].nodes : status[m] # "active"}

\* Mutant: a node that was eligible stays so.
RecordedSticky(h, ok) ==
    IF ok THEN [streak |-> SuccessLimit, eligible |-> TRUE] ELSE [h EXCEPT !.streak = -1]

\* RecordNodeHealth and RecordSiteNodeHealth.
Recorded(h, ok) ==
    IF ok
    THEN LET oks == IF h.streak < 0 THEN 1
                    ELSE IF h.streak < SuccessLimit THEN h.streak + 1 ELSE SuccessLimit
         IN  [streak |-> oks, eligible |-> h.eligible \/ oks = SuccessLimit]
    ELSE LET fails == IF h.streak > 0 THEN 1
                      ELSE IF 0 - h.streak < FailLimit THEN 1 - h.streak ELSE FailLimit
         IN  [streak |-> 0 - fails, eligible |-> h.eligible /\ fails < FailLimit]

-----------------------------------------------------------------------------
\* The administrator: drafts, publications, node status, upgrades.

UpdateSite(s) ==
    /\ Change("update")
    /\ draft[s].st = "live"
    /\ \E nodes \in SUBSET {n \in Nodes : Assignable(n)}, on \in BOOLEAN :
        /\ <<nodes, on>> # <<draft[s].nodes, draft[s].on>>
        /\ draft' = [draft EXCEPT ![s] = [st |-> "live", nodes |-> nodes, on |-> on]]
    /\ UNCHANGED <<nodeVars, probeVars, pub, dns, round, prepare, withdraw>>

\* New desired states: the nodes in S are behind until they report them.  A
\* round compares them with the applied versions it read at its start.
FallBehind(S) ==
    LET moved == {n \in S : ~Retired(n)}
    IN  /\ busy' = [n \in Nodes |-> IF n \in moved THEN "publishing" ELSE busy[n]]
        /\ round' = IF round = Idle THEN round
                    ELSE [round EXCEPT !.behind = @ \cup moved]

Publish(s) ==
    /\ Change("publish")
    /\ draft[s].st = "live"
    /\ \A n \in draft[s].nodes \cup pub[s].nodes : busy[n] # "upgrading"
    /\ pub' = [pub EXCEPT ![s] =
                  [nodes |-> draft[s].nodes, on |-> draft[s].on, row |-> "row"]]
    /\ FallBehind(draft[s].nodes \cup pub[s].nodes)
    /\ UNCHANGED <<status, monitor, job, probeVars, draft, dns, prepare, withdraw>>

\* The node has applied and reported its desired state, or the upgrade ended.
Settle(n) ==
    /\ busy[n] # "no"
    /\ busy' = [busy EXCEPT ![n] = "no"]
    /\ UNCHANGED <<status, monitor, job, probeVars, siteVars, dns, round,
                   prepare, withdraw, changes>>

\* CreateOrGetNodeUpgrade.
StartUpgrade(n) ==
    /\ Change("upgrade")
    /\ busy[n] = "no"
    /\ status[n] \in {"active", "draining"}
    /\ job[n].st \notin ActiveJob
    /\ busy' = [busy EXCEPT ![n] = "upgrading"]
    /\ UNCHANGED <<status, monitor, job, probeVars, siteVars, dns, round,
                   prepare, withdraw>>

\* A revocation also ends an upgrade, and an uninstall that fails later leaves
\* the node revoked.
SetNodeStatus(n, st) ==
    /\ Change("status")
    /\ status[n] \notin {"uninstalling", "uninstalled"}
    /\ st # status[n]
    /\ job[n].st \in ActiveJob => st = "revoked"
    /\ status' = [status EXCEPT ![n] = st]
    /\ monitor' = [monitor EXCEPT ![n] = [paused |-> FALSE, abnormal |-> 0]]
    /\ busy' = [busy EXCEPT ![n] = IF st = "revoked" /\ @ = "upgrading" THEN "no" ELSE @]
    /\ job' = [job EXCEPT ![n].previous =
                  IF st = "revoked" /\ job[n].st \in ActiveJob THEN "revoked" ELSE @]
    /\ UNCHANGED <<probeVars, siteVars, dns, round, prepare, withdraw>>

-----------------------------------------------------------------------------
\* TCP monitoring.

\* RecordMonitoringRound: a node reports a round of its probes.
RecordMonitoringRound(n, ok) ==
    /\ Change("monitoring")
    /\ status[n] \notin {"revoked", "uninstalled"}
    /\ LET abnormal == IF ok THEN 0
                       ELSE IF monitor[n].abnormal < AbnormalLimit
                            THEN monitor[n].abnormal + 1 ELSE AbnormalLimit
           pauses == abnormal = AbnormalLimit /\ status[n] = "active"
           resumes == abnormal = 0 /\ monitor[n].paused /\ status[n] = "draining"
       IN  /\ status' = [status EXCEPT ![n] =
                  IF pauses THEN "draining" ELSE IF resumes THEN "active" ELSE @]
           /\ monitor' = [monitor EXCEPT ![n] =
                  [paused |-> IF pauses THEN TRUE
                              ELSE monitor[n].paused /\ ~resumes,
                   abnormal |-> abnormal]]
    /\ UNCHANGED <<busy, job, probeVars, siteVars, dns, round, prepare, withdraw>>

\* resetMonitoringStateTx: the targets changed; when none is left enabled the
\* nodes that monitoring paused are resumed.
ResetMonitoring(left) ==
    /\ Change("monitoring")
    /\ status' = [n \in Nodes |->
          IF ~left /\ monitor[n].paused /\ status[n] = "draining" THEN "active"
          ELSE status[n]]
    /\ monitor' = [n \in Nodes |->
          [paused |-> left /\ monitor[n].paused, abnormal |-> 0]]
    /\ monitor' # monitor
    /\ UNCHANGED <<busy, job, probeVars, siteVars, dns, round, prepare, withdraw>>

-----------------------------------------------------------------------------
\* Uninstalling a node.

\* prepareNodeUninstall reads the sites and lists the node's records.
BeginPrepare(n) ==
    /\ Change("uninstall")
    /\ prepare = Idle
    /\ status[n] \in {"draining", "revoked"}
    /\ job[n].st \in {"none", "canceled"}
    /\ prepare' = [pc |-> "remove", node |-> n, affected |-> Affected(n),
                   del |-> {s \in Sites : n \in dns[s] /\ \E x \in Sites : Present(x)}]
    /\ UNCHANGED <<nodeVars, probeVars, siteVars, dns, round, withdraw>>

\* RemoveNode deletes them one by one; an error ends the request.
RemoveNodeRecord(s) ==
    /\ prepare.pc = "remove"
    /\ s \in prepare.del
    /\ \/ /\ prepare.node \in dns[s]
          /\ dns' = [dns EXCEPT ![s] = @ \ {prepare.node}]
          /\ prepare' = [prepare EXCEPT !.del = @ \ {s}]
          /\ UNCHANGED changes
       \/ /\ prepare' = Idle
          /\ (prepare.node \notin dns[s] /\ UNCHANGED changes) \/ Change("dns_error")
          /\ UNCHANGED dns
    /\ UNCHANGED <<nodeVars, probeVars, siteVars, round, withdraw>>

\* The transaction of PrepareNodeUninstall.  The 75 seconds begin: longer than
\* a round may last, so that the one in progress ends before they do.
PrepareNodeUninstall ==
    /\ prepare.pc = "remove" /\ prepare.del = {}
    /\ prepare' = Idle
    /\ LET n == prepare.node
       IN  IF /\ busy[n] # "upgrading"
              /\ status[n] \in {"draining", "revoked"}
              /\ job[n].st \notin ActiveJob
           THEN /\ job' = [job EXCEPT ![n] =
                      [st |-> "preparing", previous |-> status[n], ready |-> FALSE,
                       token |-> FALSE, started |-> FALSE,
                       affected |-> prepare.affected \cup Affected(n)]]
                /\ round' = IF round = Idle THEN round
                            ELSE [round EXCEPT !.waits = @ \cup {n}]
           ELSE UNCHANGED <<job, round>>
    /\ UNCHANGED <<status, monitor, busy, probeVars, siteVars, dns, withdraw, changes>>

SafetyWaitEnds(n) ==
    /\ job[n].st \in ActiveJob /\ ~job[n].ready
    /\ round # Idle => n \notin round.waits
    /\ job' = [job EXCEPT ![n].ready = TRUE]
    /\ UNCHANGED <<status, monitor, busy, probeVars, siteVars, dns, round, prepare,
                   withdraw, changes>>

JobStep(n, st, token, started) ==
    /\ job' = [job EXCEPT ![n] =
          [st |-> st, previous |-> job[n].previous, ready |-> job[n].ready,
           token |-> token, started |-> started, affected |-> job[n].affected]]
    /\ UNCHANGED <<monitor, siteVars, answers, dns, round, prepare, withdraw>>

\* createNodeUninstallCommand, with IssueNodeUninstallToken.
IssueToken(n) ==
    /\ job[n].st \in {"preparing", "ready", "failed"}
    /\ job[n].ready /\ Blockers(n) = {}
    /\ JobStep(n, "ready", TRUE, job[n].started)
    /\ UNCHANGED <<status, busy, health, siteHealth, changes>>

\* The script on the host starts.  It may also do so after a forced end.
StartNodeUninstall(n) ==
    /\ job[n].token
    /\ \/ /\ job[n].st \in {"ready", "running", "failed"}
          /\ JobStep(n, "running", TRUE, TRUE)
          /\ status' = [status EXCEPT ![n] = "uninstalling"]
       \/ /\ job[n].st = "forced"
          /\ JobStep(n, "forced", TRUE, TRUE)
          /\ UNCHANGED status
    /\ UNCHANGED <<busy, health, siteHealth, changes>>

FailNodeUninstall(n) ==
    /\ job[n].token
    /\ job[n].st \in {"running", "failed"}
    /\ JobStep(n, "failed", TRUE, job[n].started)
    /\ status' = [status EXCEPT ![n] = job[n].previous]
    /\ UNCHANGED <<busy, health, siteHealth, changes>>

\* completeNodeUninstall: the node is retired and its rows are deleted.
Uninstalled(n) ==
    /\ status' = [status EXCEPT ![n] = "uninstalled"]
    /\ busy' = [busy EXCEPT ![n] = "no"]
    /\ health' = [health EXCEPT ![n] = NoHealth]
    /\ siteHealth' = [s \in Sites |-> [siteHealth[s] EXCEPT ![n] = NoHealth]]

CompleteNodeUninstall(n) ==
    /\ job[n].token
    /\ job[n].st = "running" \/ (job[n].st = "forced" /\ job[n].started)
    /\ JobStep(n, "succeeded", TRUE, job[n].started)
    /\ Uninstalled(n)
    /\ UNCHANGED changes

ForceCompleteNodeUninstall(n) ==
    /\ Change("force")
    /\ job[n].st \in ActiveJob
    /\ job[n].ready /\ Blockers(n) = {}
    /\ JobStep(n, "forced", job[n].token, job[n].started)
    /\ Uninstalled(n)

CancelNodeUninstall(n) ==
    /\ Change("cancel")
    /\ job[n].st \in {"preparing", "ready", "failed"}
    /\ JobStep(n, "canceled", FALSE, job[n].started)
    /\ UNCHANGED <<status, busy, health, siteHealth>>

-----------------------------------------------------------------------------
\* Deleting a site (module Publication has the rest of the workflow).

\* A deletion begins, or is begun again after it failed.
BeginSiteDeletion(s) ==
    /\ Change("delete")
    /\ draft[s].st \in {"live", "retiring"}
    /\ draft' = [draft EXCEPT ![s] =
                    [st |-> "withdrawing", nodes |-> draft[s].nodes, on |-> FALSE]]
    /\ UNCHANGED <<nodeVars, probeVars, pub, dns, round, prepare, withdraw>>

BeginWithdraw(s) ==
    /\ withdraw = Idle
    /\ draft[s].st = "withdrawing"
    /\ withdraw' = [pc |-> "withdraw", site |-> s, del |-> dns[s]]
    /\ UNCHANGED <<nodeVars, probeVars, siteVars, dns, round, prepare, changes>>

WithdrawRecord(n) ==
    /\ withdraw.pc = "withdraw"
    /\ n \in withdraw.del
    /\ LET s == withdraw.site
       IN  \/ /\ n \in dns[s]
              /\ dns' = [dns EXCEPT ![s] = @ \ {n}]
              /\ withdraw' = [withdraw EXCEPT !.del = @ \ {n}]
              /\ UNCHANGED changes
           \/ /\ withdraw' = Idle
              /\ (n \notin dns[s] /\ UNCHANGED changes) \/ Change("dns_error")
              /\ UNCHANGED dns
    /\ UNCHANGED <<nodeVars, probeVars, siteVars, round, prepare>>

\* StageSiteRemoval follows; it fails while an affected node is upgraded.
StageSiteRemoval ==
    /\ withdraw.pc = "withdraw" /\ withdraw.del = {}
    /\ withdraw' = Idle
    /\ LET s == withdraw.site
           nodes == draft[s].nodes \cup pub[s].nodes
       IN  \/ /\ \A n \in nodes : busy[n] # "upgrading"
              /\ draft' = [draft EXCEPT ![s].st = "retiring"]
              /\ FallBehind(nodes)
           \/ /\ \E n \in nodes : busy[n] = "upgrading"
              /\ UNCHANGED <<draft, busy, round>>
    /\ UNCHANGED <<status, monitor, job, probeVars, pub, dns, prepare, changes>>

\* The edges have confirmed, or a retried deletion had none to wait for.
CompleteSiteDeletion(s) ==
    /\ draft[s].st = "retiring"
    /\ draft' = [draft EXCEPT ![s] = [st |-> "gone", nodes |-> {}, on |-> FALSE]]
    /\ pub' = [pub EXCEPT ![s] = NotPublished]
    /\ siteHealth' = [siteHealth EXCEPT ![s] = [n \in Nodes |-> NoHealth]]
    /\ UNCHANGED <<nodeVars, answers, health, dns, round, prepare, withdraw, changes>>

-----------------------------------------------------------------------------
\* The health round.

roundRest == <<nodeVars, siteVars, answers, prepare, withdraw>>

\* ListNodes, with the versions and upgrades the rows tell.
BeginRound ==
    /\ "round" \in Operations
    /\ round = Idle
    /\ round' = [pc |-> "nodes", nodes |-> status, waits |-> {},
                 behind |-> {n \in Nodes : busy[n] = "publishing"},
                 upgrading |-> {n \in Nodes : busy[n] = "upgrading"},
                 sites |-> [s \in Sites |-> [draft |-> draft[s], pub |-> pub[s]]],
                 todo |-> {}, site |-> "none", add |-> {}, del |-> {}]
    /\ UNCHANGED <<roundRest, health, siteHealth, dns, changes>>

Upgrading(n) == n \in round.upgrading \/ busy[n] = "upgrading"
Behind(n) == n \in round.behind \/ busy[n] = "publishing"
ActiveInView(n) == round.nodes[n] = "active"

\* The results of the probes are recorded one by one; when the 45 seconds
\* end before the last, the round ends.
Probed(all, done, next) ==
    \/ /\ done = all
       /\ round' = next
       /\ UNCHANGED changes
    \/ /\ done # all
       /\ Change("timeout")
       /\ round' = Idle

\* reconcileNodeHealth.
ProbeNodes ==
    /\ round.pc = "nodes"
    /\ LET all == {n \in Nodes : ActiveInView(n) /\ ~Upgrading(n)}
       IN  \E done \in SUBSET all :
            /\ Probed(all, done, [round EXCEPT !.pc = "sites"])
            /\ health' = [n \in Nodes |->
                  IF n \in done THEN Recorded(health[n], answers[n] # "none")
                  ELSE health[n]]
    /\ UNCHANGED <<roundRest, siteHealth, dns>>

\* ListSites and ListSitePublications.
ListSites ==
    /\ round.pc = "sites"
    /\ round' = [round EXCEPT !.pc = "probe",
                    !.sites = [s \in Sites |-> [draft |-> draft[s], pub |-> pub[s]]]]
    /\ UNCHANGED <<roundRest, health, siteHealth, dns, changes>>

\* A draft whose records are cleared whatever its publication says.
ClearsDraft(s) ==
    LET v == round.sites[s]
    IN  Deleting(v.draft) \/ (v.draft.st = "live" /\ ~v.draft.on /\ v.pub.row = "none")

Reconciles(s) ==
    LET v == round.sites[s] IN v.pub.row = "row" /\ v.draft.st = "live"

\* reconcileSiteHealth: the published, enabled sites on nodes that are up to
\* date, eligible and answered the last node probe.
ProbeSites ==
    /\ round.pc = "probe"
    /\ LET probed(s, n) ==
              /\ s \in ProbedSites /\ round.sites[s].pub.on
              /\ n \in round.sites[s].pub.nodes
              /\ ActiveInView(n) /\ ~Upgrading(n) /\ n \notin round.behind
              /\ health[n].eligible /\ health[n].streak > 0
           all == {p \in Sites \X Nodes : probed(p[1], p[2])}
       IN  \E done \in SUBSET all :
            /\ Probed(all, done, [round EXCEPT !.pc = "dns",
                         !.todo = {s \in Sites : ClearsDraft(s) \/ Reconciles(s)}])
            /\ siteHealth' = [s \in Sites |-> [n \in Nodes |->
                  IF <<s, n>> \in done /\ Present(s)
                  THEN Recorded(siteHealth[s][n], answers[n] = "site")
                  ELSE siteHealth[s][n]]]
    /\ UNCHANGED <<roundRest, health, dns>>

\* reconcileSiteDNSOutcome.
Assigned(s) == round.sites[s].pub.nodes
ActiveAssigned(s) == {n \in Assigned(s) : ActiveInView(n)}
Converging(s) == \E n \in Assigned(s) : Upgrading(n) \/ (ActiveInView(n) /\ Behind(n))
Healthy(s) ==
    {n \in ActiveAssigned(s) : health[n].eligible
                               /\ (s \in ProbedSites => siteHealth[s][n].eligible)}

\* The records stay as they are while a node converges and while every
\* active node is unhealthy.
Retains(s) ==
    /\ ~ClearsDraft(s) /\ round.sites[s].pub.on
    /\ Converging(s) \/ (Healthy(s) = {} /\ ActiveAssigned(s) # {})

Wanted(s) ==
    IF ClearsDraft(s) \/ ~round.sites[s].pub.on THEN {} ELSE Healthy(s)

\* The next site: the records it should have against those listed.
Decide(s) ==
    /\ round.pc = "dns"
    /\ s \in round.todo
    /\ (\E x \in round.todo : ClearsDraft(x)) => ClearsDraft(s)
    /\ LET add == Wanted(s) \ dns[s]
           del == dns[s] \ Wanted(s)
       IN  IF Retains(s) \/ add \cup del = {}
           THEN round' = [round EXCEPT !.todo = @ \ {s}]
           ELSE round' = [round EXCEPT !.todo = @ \ {s}, !.pc = "write", !.site = s,
                             !.add = add, !.del = del]
    /\ UNCHANGED <<roundRest, health, siteHealth, dns, changes>>

\* Mutant: records are deleted before the new ones are created.
WritableDeletesFirst(n) ==
    n \in round.del \/ (n \in round.add /\ round.del = {})

\* CloudflareDNS.Reconcile creates what is missing, then deletes the rest.
Writable(n) == n \in round.add \/ (n \in round.del /\ round.add = {})

Written(n) ==
    [dns EXCEPT ![round.site] = IF n \in round.add THEN @ \cup {n} ELSE @ \ {n}]

SiteDone == [round EXCEPT !.pc = "dns", !.site = "none", !.add = {}, !.del = {}]

WriteRecord(n) ==
    /\ round.pc = "write"
    /\ Writable(n)
    /\ n \in round.del => n \in dns[round.site]
    /\ dns' = Written(n)
    /\ round' = IF round.add \cup round.del = {n} THEN SiteDone
                ELSE [round EXCEPT !.add = @ \ {n}, !.del = @ \ {n}]
    /\ UNCHANGED <<roundRest, health, siteHealth, changes>>

\* A record that is gone already, an error or a lost answer: the rest of the
\* site waits for the next round.
WriteFails(n) ==
    /\ round.pc = "write"
    /\ Writable(n)
    /\ \/ /\ n \in round.del \ dns[round.site]
          /\ UNCHANGED <<dns, changes>>
       \/ /\ Change("dns_error")
          /\ dns' \in {dns, Written(n)}
    /\ round' = SiteDone
    /\ UNCHANGED <<roundRest, health, siteHealth>>

EndRound ==
    /\ round.pc = "dns" /\ round.todo = {}
    /\ round' = Idle
    /\ UNCHANGED <<roundRest, health, siteHealth, dns, changes>>

\* The 45 seconds are over.
RoundTimesOut ==
    /\ Change("timeout")
    /\ round.pc \in {"sites", "dns", "write"}
    /\ round' = Idle
    /\ UNCHANGED <<roundRest, health, siteHealth, dns>>

-----------------------------------------------------------------------------
\* Another set of probes is answered from now on.
Answer(n, a) ==
    /\ Change("answer")
    /\ answers[n] # a
    /\ answers' = [answers EXCEPT ![n] = a]
    /\ UNCHANGED <<nodeVars, health, siteHealth, siteVars, dns, round, prepare, withdraw>>

\* The control plane stops; its requests and its round are lost.
ControlCrash ==
    /\ Change("crash")
    /\ round' = Idle /\ prepare' = Idle /\ withdraw' = Idle
    /\ UNCHANGED <<nodeVars, probeVars, siteVars, dns>>

\* The nodes are up and in the pool of the sites that are published.
Init ==
    /\ status = [n \in Nodes |-> "active"]
    /\ monitor = [n \in Nodes |-> [paused |-> FALSE, abnormal |-> 0]]
    /\ busy = [n \in Nodes |-> "no"]
    /\ answers = [n \in Nodes |-> "site"]
    /\ health = [n \in Nodes |-> [streak |-> SuccessLimit, eligible |-> TRUE]]
    /\ draft = [s \in Sites |-> [st |-> "live", nodes |-> Nodes, on |-> TRUE]]
    /\ \E live \in SUBSET Sites :
        /\ pub = [s \in Sites |-> IF s \in live
                    THEN [nodes |-> Nodes, on |-> TRUE, row |-> "row"] ELSE NotPublished]
        /\ dns = [s \in Sites |-> IF s \in live THEN Nodes ELSE {}]
        /\ siteHealth = [s \in Sites |-> [n \in Nodes |->
              IF s \in live \cap ProbedSites
              THEN [streak |-> SuccessLimit, eligible |-> TRUE] ELSE NoHealth]]
    /\ job = [n \in Nodes |-> NoJob]
    /\ round = Idle /\ prepare = Idle /\ withdraw = Idle
    /\ changes = 0

Manage ==
    \/ \E s \in Sites : UpdateSite(s) \/ Publish(s)
    \/ \E n \in Nodes : Settle(n) \/ StartUpgrade(n)
    \/ \E n \in Nodes, st \in {"active", "draining", "revoked"} : SetNodeStatus(n, st)
    \/ \E n \in Nodes, ok \in BOOLEAN : RecordMonitoringRound(n, ok)
    \/ \E left \in BOOLEAN : ResetMonitoring(left)
    \/ \E n \in Nodes, a \in {"none", "node", "site"} : Answer(n, a)
    \/ ControlCrash

Uninstall ==
    \/ \E s \in Sites : RemoveNodeRecord(s)
    \/ PrepareNodeUninstall
    \/ \E n \in Nodes :
        \/ BeginPrepare(n) \/ SafetyWaitEnds(n) \/ IssueToken(n)
        \/ StartNodeUninstall(n) \/ FailNodeUninstall(n) \/ CompleteNodeUninstall(n)
        \/ ForceCompleteNodeUninstall(n) \/ CancelNodeUninstall(n)

DeleteSite ==
    \/ \E s \in Sites : BeginSiteDeletion(s) \/ BeginWithdraw(s) \/ CompleteSiteDeletion(s)
    \/ \E n \in Nodes : WithdrawRecord(n)
    \/ StageSiteRemoval

\* What a round does when nothing goes wrong.
RoundStep ==
    \/ BeginRound \/ ProbeNodes \/ ListSites \/ ProbeSites \/ EndRound
    \/ \E s \in Sites : Decide(s)
    \/ \E n \in Nodes : WriteRecord(n) \/ WriteFails(n)

Next == Manage \/ Uninstall \/ DeleteSite \/ RoundStep \/ RoundTimesOut

Spec == Init /\ [][Next]_vars

\* HealthManager.Run starts a round at least every 15 seconds and a round
\* ends within 45.
FairSpec == Spec /\ WF_vars(RoundStep)

-----------------------------------------------------------------------------
\* Properties.

\* TypeOK: the tables, the records and the requests hold values of their types.
RoundType ==
    {Idle} \cup
    [pc : {"nodes", "sites", "probe", "dns", "write"}, nodes : [Nodes -> NodeStatus],
     waits : SUBSET Nodes, behind : SUBSET Nodes, upgrading : SUBSET Nodes,
     sites : [Sites -> [draft : Draft, pub : Publication]], todo : SUBSET Sites,
     site : Sites \cup {"none"}, add : SUBSET Nodes, del : SUBSET Nodes]

TypeOK ==
    /\ status \in [Nodes -> NodeStatus]
    /\ monitor \in [Nodes -> [paused : BOOLEAN, abnormal : 0 .. AbnormalLimit]]
    /\ busy \in [Nodes -> {"no", "publishing", "upgrading"}]
    /\ answers \in [Nodes -> {"none", "node", "site"}]
    /\ health \in [Nodes -> Health]
    /\ siteHealth \in [Sites -> [Nodes -> Health]]
    /\ draft \in [Sites -> Draft]
    /\ pub \in [Sites -> Publication]
    /\ dns \in [Sites -> SUBSET Nodes]
    /\ job \in [Nodes -> [st : JobStatus, previous : NodeStatus, ready : BOOLEAN,
                          token : BOOLEAN, started : BOOLEAN, affected : SUBSET Sites]]
    /\ round \in RoundType
    /\ prepare \in {Idle} \cup [pc : {"remove"}, node : Nodes, affected : SUBSET Sites,
                                del : SUBSET Sites]
    /\ withdraw \in {Idle} \cup [pc : {"withdraw"}, site : Sites, del : SUBSET Nodes]
    /\ changes \in 0 .. MaxChanges

\* A node whose host is being cleaned, or has been, is in no draft and in no
\* publication: blockers checked minutes before, when the command was issued,
\* still hold when the host starts, fails, is forced or is tried again, since
\* nothing can assign the node meanwhile.
UninstallingServesNothing ==
    \A n \in Nodes, s \in Sites :
        status[n] \in {"uninstalling", "uninstalled"}
            => n \notin draft[s].nodes \cup pub[s].nodes

\* README.md, "Features": if every node is bad, DNS is left unchanged.  A
\* health round never takes the last record of a site that it sees enabled
\* and assigned to an active node, not even when Cloudflare fails between the
\* records or a node falls while it writes.
\* The preparation of an uninstall removes records too, and with the round it
\* may take the last: it is not among the operations of the run.
KeepsPool ==
    [][\A s \in Sites :
        (/\ dns[s] # {} /\ dns'[s] = {}
         /\ draft[s].st = "live"
         /\ UNCHANGED <<prepare, withdraw>>)
        => ~(round.sites[s].pub.on /\ ActiveAssigned(s) # {})]_vars

\* The nodes whose answers are good enough for a record of the site.
Serving(s) ==
    {n \in pub[s].nodes : /\ status[n] = "active"
                          /\ answers[n] = "site" \/ (answers[n] = "node" /\ s \notin ProbedSites)}

Scheduled(s) ==
    LET active == {n \in pub[s].nodes : status[n] = "active"}
        settled == \A n \in pub[s].nodes :
            busy[n] # "upgrading" /\ (busy[n] = "publishing" => n \notin active)
    IN  CASE draft[s].st = "gone" -> TRUE
          [] Deleting(draft[s]) -> dns[s] = {}
          [] ~HasPub(s) -> draft[s].on \/ dns[s] = {}
          [] ~pub[s].on \/ (active = {} /\ settled) -> dns[s] = {}
          [] OTHER -> (settled /\ Serving(s) # {}) => dns[s] = Serving(s)

\* When changes stop, the records of every site become, and stay, exactly the
\* nodes that serve it, from any records that failed writes, interrupted
\* rounds and stale views have left; none when it is disabled or has no active
\* node; unchanged when no active node answers.
DNSConverges == <>[](\A s \in Sites : Scheduled(s))

-----------------------------------------------------------------------------
\* What the documentation says, and the code does not do.

\* README.md, "Edge uninstall": the records of the node are removed, then 75
\* seconds pass, then the host is cleaned.  A round that read the node as
\* active creates its record again, and monitoring resumes a paused node
\* whose uninstall is prepared.
UninstallingNotInDNS ==
    \A n \in Nodes, s \in Sites :
        status[n] \in {"uninstalling", "uninstalled"} => n \notin dns[s]

\* README.md, "Site deletion": the managed records are removed, and stay so.
\* A round that listed the sites before creates them again; nothing removes
\* the records of a site that is no longer in the tables.
DeletedNotInDNS == \A s \in Sites : draft[s].st = "gone" => dns[s] = {}

=============================================================================
