------------------------ MODULE NodeSchedulingProofs ------------------------
(***************************************************************************)
(* For any sites, nodes and limits: a node that is being uninstalled       *)
(* serves nothing, and a health round never empties the pool of a site     *)
(* that it saw assigned to an active node.                                 *)
(***************************************************************************)
EXTENDS NodeScheduling, TLAPS

Job == [st : JobStatus, previous : NodeStatus, ready : BOOLEAN,
        token : BOOLEAN, started : BOOLEAN, affected : SUBSET Sites]

PrepareType ==
    {Idle} \cup [pc : {"remove"}, node : Nodes, affected : SUBSET Sites,
                 del : SUBSET Sites]

\* The types of the tables that the argument is about.
TablesOK ==
    /\ status \in [Nodes -> NodeStatus]
    /\ job \in [Nodes -> Job]
    /\ draft \in [Sites -> Draft]
    /\ pub \in [Sites -> Publication]
    /\ prepare \in PrepareType

Unassigned(n) == \A s \in Sites : n \notin draft[s].nodes /\ n \notin pub[s].nodes

\* What is left of a deleted site assigns no node.
GoneIsEmpty ==
    \A s \in Sites : draft[s].st = "gone" => draft[s].nodes = {} /\ pub[s].nodes = {}

\* While an uninstall is prepared, only the sites it has recorded can use the
\* node: nobody else can assign it.
AffectedKnown ==
    \A n \in Nodes, s \in Sites :
        (job[n].st \in ActiveJob /\ (n \in draft[s].nodes \/ n \in pub[s].nodes))
            => s \in job[n].affected

\* A command is out only for a node that no site uses.
TokenMeansUnassigned ==
    \A n \in Nodes : (job[n].st \in ActiveJob /\ job[n].token) => Unassigned(n)

\* A finished uninstall has retired the node.
FinishedIsRetired ==
    \A n \in Nodes : job[n].st \in {"forced", "succeeded"} => status[n] = "uninstalled"

RetiredServesNothing ==
    \A n \in Nodes : status[n] \in {"uninstalling", "uninstalled"} => Unassigned(n)

UninstallInv ==
    /\ TablesOK
    /\ GoneIsEmpty
    /\ AffectedKnown
    /\ TokenMeansUnassigned
    /\ FinishedIsRetired
    /\ RetiredServesNothing

-----------------------------------------------------------------------------
\* The initial state, in which nothing is uninstalled.
LEMMA UninstallInit == Init => UninstallInv
<1> SUFFICES ASSUME Init PROVE UninstallInv
    OBVIOUS
<1>1. TablesOK
    BY DEF Init, TablesOK, NodeStatus, NoJob, Job, JobStatus, ActiveJob, Draft, Publication,
           NotPublished, PrepareType
<1>2. GoneIsEmpty
    BY DEF Init, GoneIsEmpty
<1>3. AffectedKnown /\ TokenMeansUnassigned /\ FinishedIsRetired
    BY DEF Init, AffectedKnown, TokenMeansUnassigned, FinishedIsRetired, NoJob, ActiveJob
<1>4. RetiredServesNothing
    BY DEF Init, RetiredServesNothing
<1> QED
    BY <1>1, <1>2, <1>3, <1>4 DEF UninstallInv

\* Steps that leave these tables alone.
LEMMA UninstallFrame ==
    ASSUME UninstallInv, UNCHANGED <<status, job, draft, pub>>,
           prepare' \in PrepareType
    PROVE  UninstallInv'
BY DEF UninstallInv, TablesOK, GoneIsEmpty, AffectedKnown, TokenMeansUnassigned,
       FinishedIsRetired, RetiredServesNothing, Unassigned

\* An administrator edits a draft.
LEMMA UninstallUpdate ==
    ASSUME UninstallInv, NEW s \in Sites, UpdateSite(s)
    PROVE  UninstallInv'
<1> USE DEF UninstallInv
<1>1. PICK nodes \in SUBSET {n \in Nodes : Assignable(n)}, on \in BOOLEAN :
        draft' = [draft EXCEPT ![s] = [st |-> "live", nodes |-> nodes, on |-> on]]
    BY DEF UpdateSite
<1>2. UNCHANGED <<status, job, pub, prepare>> /\ draft[s].st = "live"
    BY DEF UpdateSite, nodeVars
<1>3. /\ draft'[s].nodes = nodes /\ draft'[s].st = "live"
      /\ \A x \in Sites : x # s => draft'[x] = draft[x]
      /\ draft' \in [Sites -> Draft]
    BY <1>1, <1>2 DEF TablesOK, Draft
<1>4. \A n \in nodes : /\ n \in Nodes
                       /\ job[n].st \notin ActiveJob
                       /\ status[n] \notin {"uninstalling", "uninstalled"}
    BY <1>1 DEF Assignable, Retired
<1>5. TablesOK' /\ GoneIsEmpty' /\ FinishedIsRetired'
    BY <1>2, <1>3 DEF TablesOK, GoneIsEmpty, FinishedIsRetired
<1>6. AffectedKnown'
    BY <1>2, <1>3, <1>4 DEF AffectedKnown
<1>7. TokenMeansUnassigned' /\ RetiredServesNothing'
    BY <1>2, <1>3, <1>4 DEF TokenMeansUnassigned, RetiredServesNothing, Unassigned
<1> QED
    BY <1>5, <1>6, <1>7

\* A publication makes the draft the published configuration.
LEMMA UninstallPublish ==
    ASSUME UninstallInv, NEW s \in Sites, Publish(s)
    PROVE  UninstallInv'
<1> USE DEF UninstallInv
<1>1. UNCHANGED <<status, job, draft, prepare>> /\ draft[s].st = "live"
    BY DEF Publish
<1>2. pub' = [pub EXCEPT ![s] = [nodes |-> draft[s].nodes, on |-> draft[s].on, row |-> "row"]]
    BY DEF Publish
<1>3. /\ pub'[s].nodes = draft[s].nodes
      /\ \A x \in Sites : x # s => pub'[x] = pub[x]
      /\ pub' \in [Sites -> Publication]
    BY <1>2 DEF TablesOK, Draft, Publication
<1>4. TablesOK' /\ GoneIsEmpty' /\ FinishedIsRetired'
    BY <1>1, <1>3 DEF TablesOK, GoneIsEmpty, FinishedIsRetired
<1>5. AffectedKnown'
    BY <1>1, <1>3 DEF AffectedKnown
<1>6. TokenMeansUnassigned' /\ RetiredServesNothing'
    BY <1>1, <1>3 DEF TokenMeansUnassigned, RetiredServesNothing, Unassigned
<1> QED
    BY <1>4, <1>5, <1>6

\* Steps that change the status of nodes but not the uninstalls.
LEMMA UninstallStatus ==
    ASSUME UninstallInv, UNCHANGED <<draft, pub, prepare>>,
           status' \in [Nodes -> NodeStatus],
           job' \in [Nodes -> Job],
           \A n \in Nodes : /\ job'[n].st = job[n].st
                            /\ job'[n].token = job[n].token
                            /\ job'[n].affected = job[n].affected,
           \A n \in Nodes : status'[n] = status[n] \/
                /\ status[n] \notin {"uninstalling", "uninstalled"}
                /\ status'[n] \notin {"uninstalling", "uninstalled"}
    PROVE  UninstallInv'
<1> USE DEF UninstallInv
<1>1. TablesOK' /\ GoneIsEmpty'
    BY DEF TablesOK, GoneIsEmpty
<1>2. AffectedKnown'
    BY DEF AffectedKnown
<1>3. TokenMeansUnassigned'
    BY DEF TokenMeansUnassigned, Unassigned
<1>4. FinishedIsRetired'
    BY DEF FinishedIsRetired
<1>5. RetiredServesNothing'
    BY DEF RetiredServesNothing, Unassigned
<1> QED
    BY <1>1, <1>2, <1>3, <1>4, <1>5

\* Pausing, resuming and revoking, and a safety wait that ends.
LEMMA UninstallAdmin ==
    ASSUME UninstallInv, NEW n \in Nodes, NEW st \in {"active", "draining", "revoked"},
           SetNodeStatus(n, st)
    PROVE  UninstallInv'
<1>1. /\ UNCHANGED <<draft, pub, prepare>>
      /\ status[n] \notin {"uninstalling", "uninstalled"}
      /\ status' = [status EXCEPT ![n] = st]
      /\ job' = [job EXCEPT ![n].previous =
            IF st = "revoked" /\ job[n].st \in ActiveJob THEN "revoked" ELSE @]
    BY DEF SetNodeStatus, siteVars
<1>2. TablesOK
    BY DEF UninstallInv
<1>3. /\ status' \in [Nodes -> NodeStatus]
      /\ status'[n] \notin {"uninstalling", "uninstalled"}
      /\ \A m \in Nodes : m # n => status'[m] = status[m]
    BY <1>1, <1>2 DEF TablesOK, NodeStatus
<1>4. job' \in [Nodes -> Job]
    BY <1>1, <1>2 DEF TablesOK, Job, NodeStatus
<1>5. \A m \in Nodes : /\ job'[m].st = job[m].st
                       /\ job'[m].token = job[m].token
                       /\ job'[m].affected = job[m].affected
    BY <1>1, <1>2 DEF TablesOK, Job
<1> QED
    BY <1>1, <1>3, <1>4, <1>5, UninstallStatus

\* Monitoring pauses and resumes only nodes that are not being uninstalled.
LEMMA UninstallMonitoring ==
    ASSUME UninstallInv,
           \/ \E n \in Nodes, ok \in BOOLEAN : RecordMonitoringRound(n, ok)
           \/ \E left \in BOOLEAN : ResetMonitoring(left)
    PROVE  UninstallInv'
<1>1. TablesOK
    BY DEF UninstallInv
<1>2. UNCHANGED <<draft, pub, prepare, job>>
    BY DEF RecordMonitoringRound, ResetMonitoring, siteVars
<1>3. /\ status' \in [Nodes -> NodeStatus]
      /\ \A m \in Nodes : status'[m] = status[m] \/
            /\ status[m] \notin {"uninstalling", "uninstalled"}
            /\ status'[m] \notin {"uninstalling", "uninstalled"}
    <2>1. CASE \E n \in Nodes, ok \in BOOLEAN : RecordMonitoringRound(n, ok)
        <3>1. PICK n \in Nodes, ok \in BOOLEAN : RecordMonitoringRound(n, ok)
            BY <2>1
        <3>2. PICK st : /\ status' = [status EXCEPT ![n] = st]
                        /\ \/ st = status[n]
                           \/ st \in {"draining", "active"} /\ status[n] \in {"draining", "active"}
            BY <3>1 DEF RecordMonitoringRound
        <3> QED
            BY <1>1, <3>2 DEF TablesOK, NodeStatus
    <2>2. CASE \E left \in BOOLEAN : ResetMonitoring(left)
        BY <1>1, <2>2 DEF ResetMonitoring, TablesOK, NodeStatus
    <2> QED
        BY <2>1, <2>2
<1> QED
    BY <1>1, <1>2, <1>3, UninstallStatus DEF TablesOK

\* The end of a safety wait only marks the job.
LEMMA UninstallWait ==
    ASSUME UninstallInv, NEW n \in Nodes, SafetyWaitEnds(n)
    PROVE  UninstallInv'
<1>1. /\ UNCHANGED <<status, draft, pub, prepare>>
      /\ job' = [job EXCEPT ![n].ready = TRUE]
    BY DEF SafetyWaitEnds, siteVars
<1>2. TablesOK
    BY DEF UninstallInv
<1>3. job' \in [Nodes -> Job]
    BY <1>1, <1>2 DEF TablesOK, Job
<1>4. \A m \in Nodes : /\ job'[m].st = job[m].st
                       /\ job'[m].token = job[m].token
                       /\ job'[m].affected = job[m].affected
    BY <1>1, <1>2 DEF TablesOK, Job
<1> QED
    BY <1>1, <1>2, <1>3, <1>4, UninstallStatus DEF TablesOK

-----------------------------------------------------------------------------
\* The transaction of a preparation records every site that uses the node.
LEMMA UninstallPrepare ==
    ASSUME UninstallInv, PrepareNodeUninstall
    PROVE  UninstallInv'
<1> USE DEF UninstallInv
<1> DEFINE n == prepare.node
<1>1. /\ prepare.pc = "remove" /\ prepare' = Idle
      /\ UNCHANGED <<status, draft, pub>>
    BY DEF PrepareNodeUninstall, siteVars
<1>2. n \in Nodes /\ prepare.affected \in SUBSET Sites /\ prepare' \in PrepareType
    BY <1>1 DEF TablesOK, PrepareType, Idle
<1>3. CASE UNCHANGED job
    BY <1>1, <1>2, <1>3, UninstallFrame
<1>4. CASE /\ status[n] \in {"draining", "revoked"}
           /\ job' = [job EXCEPT ![n] =
                  [st |-> "preparing", previous |-> status[n], ready |-> FALSE,
                   token |-> FALSE, started |-> FALSE,
                   affected |-> prepare.affected \cup Affected(n)]]
    <2> DEFINE j == [st |-> "preparing", previous |-> status[n], ready |-> FALSE,
                     token |-> FALSE, started |-> FALSE,
                     affected |-> prepare.affected \cup Affected(n)]
    <2>1. job' = [job EXCEPT ![n] = j]
        BY <1>4
    <2>2. Affected(n) \subseteq Sites
        BY DEF Affected
    <2>3. j \in Job
        BY <1>2, <1>4, <2>2 DEF Job, JobStatus, NodeStatus, ActiveJob
    <2> HIDE DEF j
    <2>4. job' \in [Nodes -> Job] /\ job'[n] = j /\ \A m \in Nodes : m # n => job'[m] = job[m]
        BY <1>2, <2>1, <2>3 DEF TablesOK
    <2>5. j.st = "preparing" /\ j.token = FALSE
        BY DEF j
    <2>6. TablesOK' /\ GoneIsEmpty' /\ RetiredServesNothing'
        BY <1>1, <1>2, <2>4 DEF TablesOK, GoneIsEmpty, RetiredServesNothing, Unassigned
    <2>7. TokenMeansUnassigned' /\ FinishedIsRetired'
        BY <1>1, <2>4, <2>5 DEF TokenMeansUnassigned, FinishedIsRetired, Unassigned
    <2>8. \A s \in Sites : (n \in draft[s].nodes \/ n \in pub[s].nodes) => s \in j.affected
        BY DEF GoneIsEmpty, Affected, Present, j
    <2>9. AffectedKnown'
        BY <1>1, <2>4, <2>8 DEF AffectedKnown
    <2> QED
        BY <2>6, <2>7, <2>9
<1> QED
    BY <1>3, <1>4 DEF PrepareNodeUninstall

\* When nothing blocks an uninstall, no site uses the node.
LEMMA UnblockedIsUnassigned ==
    ASSUME UninstallInv, NEW n \in Nodes, job[n].st \in ActiveJob, Blockers(n) = {}
    PROVE  Unassigned(n)
<1> SUFFICES ASSUME NEW s \in Sites, n \in draft[s].nodes \/ n \in pub[s].nodes
             PROVE  FALSE
    BY DEF Unassigned
<1>1. Present(s)
    BY DEF UninstallInv, GoneIsEmpty, Present
<1>2. s \in job[n].affected
    BY DEF UninstallInv, AffectedKnown
<1>3. s \in Blockers(n)
    BY <1>1, <1>2 DEF Blockers
<1> QED
    BY <1>3

\* Steps of the job of one node, whose status may change with it.
LEMMA UninstallJob ==
    ASSUME UninstallInv, NEW n \in Nodes,
           NEW js \in JobStatus, NEW token \in BOOLEAN, NEW started \in BOOLEAN,
           JobStep(n, js, token, started),
           NEW st \in NodeStatus, status' = [status EXCEPT ![n] = st],
           js \in ActiveJob => job[n].st \in ActiveJob,
           (js \in ActiveJob /\ token) => Unassigned(n),
           js \in {"forced", "succeeded"} => st = "uninstalled",
           st \in {"uninstalling", "uninstalled"} => Unassigned(n)
    PROVE  UninstallInv'
<1> USE DEF UninstallInv
<1> DEFINE j == [st |-> js, previous |-> job[n].previous, ready |-> job[n].ready,
                 token |-> token, started |-> started, affected |-> job[n].affected]
<1>1. job' = [job EXCEPT ![n] = j] /\ UNCHANGED <<draft, pub, prepare>>
    BY DEF JobStep, siteVars
<1>2. /\ j \in Job /\ j.st = js /\ j.token = token
      /\ j.affected = job[n].affected
    BY DEF TablesOK, Job
<1> HIDE DEF j
<1>3. /\ job' \in [Nodes -> Job] /\ job'[n] = j
      /\ \A m \in Nodes : m # n => job'[m] = job[m]
      /\ status' \in [Nodes -> NodeStatus] /\ status'[n] = st
      /\ \A m \in Nodes : m # n => status'[m] = status[m]
    BY <1>1, <1>2 DEF TablesOK
<1>4. TablesOK' /\ GoneIsEmpty'
    BY <1>1, <1>3 DEF TablesOK, GoneIsEmpty
<1>5. AffectedKnown'
    BY <1>1, <1>2, <1>3 DEF AffectedKnown
<1>6. \A m \in Nodes : Unassigned(m)' <=> Unassigned(m)
    BY <1>1 DEF Unassigned
<1>7. TokenMeansUnassigned'
    BY <1>2, <1>3, <1>6 DEF TokenMeansUnassigned
<1>8. FinishedIsRetired' /\ RetiredServesNothing'
    BY <1>2, <1>3, <1>6 DEF FinishedIsRetired, RetiredServesNothing
<1> QED
    BY <1>4, <1>5, <1>7, <1>8

\* The parts of a job and a status that the steps below keep.
LEMMA JobParts ==
    ASSUME UninstallInv, NEW n \in Nodes
    PROVE  /\ job[n].started \in BOOLEAN /\ job[n].token \in BOOLEAN
           /\ job[n].previous \in NodeStatus /\ status[n] \in NodeStatus
           /\ status = [status EXCEPT ![n] = status[n]]
           /\ {"ready", "running", "failed", "canceled", "forced", "succeeded"}
                  \subseteq JobStatus
           /\ {"preparing", "ready", "running", "failed"} = ActiveJob
BY DEF UninstallInv, TablesOK, Job, JobStatus, ActiveJob

\* The command is issued; the host starts, fails and completes; the
\* administrator forces the end or cancels.
LEMMA UninstallIssue ==
    ASSUME UninstallInv, NEW n \in Nodes, IssueToken(n)
    PROVE  UninstallInv'
<1>1. /\ job[n].st \in ActiveJob /\ Blockers(n) = {}
      /\ JobStep(n, "ready", TRUE, job[n].started)
      /\ UNCHANGED status
    BY JobParts DEF IssueToken
<1>2. Unassigned(n)
    BY <1>1, UnblockedIsUnassigned
<1>3. PICK started \in BOOLEAN, st \in NodeStatus :
        JobStep(n, "ready", TRUE, started) /\ status[n] = st
    BY <1>1, JobParts
<1>4. status' = [status EXCEPT ![n] = st]
    BY <1>1, <1>3, JobParts
<1>5. "ready" \in JobStatus
    BY DEF JobStatus, ActiveJob
<1>6. job[n].st \in ActiveJob
    BY <1>1
<1> QED
    BY <1>2, <1>3, <1>4, <1>5, <1>6, UninstallJob

\* The host starts only with a command, which no site's node has.
LEMMA UninstallStart ==
    ASSUME UninstallInv, NEW n \in Nodes, StartNodeUninstall(n)
    PROVE  UninstallInv'
<1>1. CASE /\ job[n].st \in {"ready", "running", "failed"}
           /\ JobStep(n, "running", TRUE, TRUE)
           /\ status' = [status EXCEPT ![n] = "uninstalling"]
    <2>1. job[n].st \in ActiveJob /\ job[n].token
        BY <1>1 DEF StartNodeUninstall, ActiveJob
    <2>2. Unassigned(n)
        BY <2>1 DEF UninstallInv, TokenMeansUnassigned
    <2>3. "uninstalling" \in NodeStatus
        BY DEF NodeStatus
    <2> QED
        BY <1>1, <2>1, <2>2, <2>3, JobParts, UninstallJob
<1>2. CASE /\ job[n].st = "forced"
           /\ JobStep(n, "forced", TRUE, TRUE)
           /\ UNCHANGED status
    <2>1. status[n] = "uninstalled" /\ Unassigned(n)
        BY <1>2 DEF UninstallInv, FinishedIsRetired, RetiredServesNothing
    <2> QED
        BY <1>2, <2>1, JobParts, UninstallJob
<1> QED
    BY <1>1, <1>2 DEF StartNodeUninstall

\* A failed uninstall returns the node to its previous status, unassigned.
LEMMA UninstallFail ==
    ASSUME UninstallInv, NEW n \in Nodes, FailNodeUninstall(n)
    PROVE  UninstallInv'
<1>1. /\ job[n].token /\ job[n].st \in ActiveJob
      /\ JobStep(n, "failed", TRUE, job[n].started)
      /\ status' = [status EXCEPT ![n] = job[n].previous]
    BY JobParts DEF FailNodeUninstall
<1>2. Unassigned(n)
    BY <1>1 DEF UninstallInv, TokenMeansUnassigned
<1>3. PICK started \in BOOLEAN, st \in NodeStatus :
        JobStep(n, "failed", TRUE, started) /\ status' = [status EXCEPT ![n] = st]
    BY <1>1, JobParts
<1>4. "failed" \in JobStatus /\ "failed" \notin {"forced", "succeeded"} /\ TRUE \in BOOLEAN
    BY DEF JobStatus, ActiveJob
<1>5. job[n].st \in ActiveJob
    BY <1>1
<1> QED
    BY <1>2, <1>3, <1>4, <1>5, UninstallJob

\* A finished or forced uninstall retires the node.
LEMMA UninstallComplete ==
    ASSUME UninstallInv, NEW n \in Nodes,
           CompleteNodeUninstall(n) \/ ForceCompleteNodeUninstall(n)
    PROVE  UninstallInv'
<1>1. PICK js \in {"succeeded", "forced"}, token \in BOOLEAN :
        JobStep(n, js, token, job[n].started)
    BY JobParts DEF CompleteNodeUninstall, ForceCompleteNodeUninstall
<1>2. status' = [status EXCEPT ![n] = "uninstalled"]
    BY DEF CompleteNodeUninstall, ForceCompleteNodeUninstall, Uninstalled
<1>3. Unassigned(n)
    <2>1. CASE ForceCompleteNodeUninstall(n)
        BY <2>1, UnblockedIsUnassigned DEF ForceCompleteNodeUninstall
    <2>2. CASE CompleteNodeUninstall(n) /\ job[n].st = "running"
        BY <2>2 DEF CompleteNodeUninstall, ActiveJob, UninstallInv, TokenMeansUnassigned
    <2>3. CASE job[n].st = "forced"
        BY <2>3 DEF UninstallInv, FinishedIsRetired, RetiredServesNothing
    <2> QED
        BY <2>1, <2>2, <2>3 DEF CompleteNodeUninstall
<1>4. "uninstalled" \in NodeStatus /\ js \in JobStatus /\ js \notin ActiveJob
    BY JobParts DEF NodeStatus, ActiveJob
<1>5. PICK started \in BOOLEAN : JobStep(n, js, token, started)
    BY <1>1, JobParts
<1> QED
    BY <1>2, <1>3, <1>4, <1>5, UninstallJob

\* A cancelled uninstall takes its command back.
LEMMA UninstallCancel ==
    ASSUME UninstallInv, NEW n \in Nodes, CancelNodeUninstall(n)
    PROVE  UninstallInv'
<1>1. JobStep(n, "canceled", FALSE, job[n].started) /\ UNCHANGED status
    BY DEF CancelNodeUninstall
<1>2. "canceled" \in JobStatus /\ "canceled" \notin ActiveJob
    BY DEF JobStatus, ActiveJob
<1>3. status[n] \in {"uninstalling", "uninstalled"} => Unassigned(n)
    BY DEF UninstallInv, RetiredServesNothing
<1>4. PICK started \in BOOLEAN, st \in NodeStatus :
        JobStep(n, "canceled", FALSE, started) /\ status[n] = st
    BY <1>1, JobParts
<1>5. status' = [status EXCEPT ![n] = st]
    BY <1>1, <1>4, JobParts
<1> QED
    BY <1>2, <1>3, <1>4, <1>5, UninstallJob

-----------------------------------------------------------------------------
\* The deletion of a site only removes assignments.
LEMMA UninstallDelete ==
    ASSUME UninstallInv, UNCHANGED <<status, job, prepare>>,
           draft' \in [Sites -> Draft], pub' \in [Sites -> Publication],
           \A s \in Sites : /\ draft'[s].nodes \subseteq draft[s].nodes
                            /\ pub'[s].nodes \subseteq pub[s].nodes
                            /\ draft'[s].st = "gone" =>
                                  draft'[s].nodes = {} /\ pub'[s].nodes = {}
    PROVE  UninstallInv'
<1> USE DEF UninstallInv
<1>1. TablesOK' /\ GoneIsEmpty' /\ FinishedIsRetired'
    BY DEF TablesOK, GoneIsEmpty, FinishedIsRetired
<1>2. AffectedKnown'
    BY DEF AffectedKnown
<1>3. \A n \in Nodes : Unassigned(n) => Unassigned(n)'
    BY DEF Unassigned
<1>4. TokenMeansUnassigned' /\ RetiredServesNothing'
    BY <1>3 DEF TokenMeansUnassigned, RetiredServesNothing
<1> QED
    BY <1>1, <1>2, <1>4

\* A deletion only takes nodes out of drafts and publications.
LEMMA UninstallDeleteSite ==
    ASSUME UninstallInv, DeleteSite
    PROVE  UninstallInv'
<1>1. TablesOK /\ GoneIsEmpty
    BY DEF UninstallInv
<1>2. CASE \E s \in Sites : BeginSiteDeletion(s)
    <2>1. PICK s \in Sites : BeginSiteDeletion(s)
        BY <1>2
    <2>2. /\ UNCHANGED <<status, job, prepare, pub>>
          /\ draft' = [draft EXCEPT ![s] =
                          [st |-> "withdrawing", nodes |-> draft[s].nodes, on |-> FALSE]]
        BY <2>1 DEF BeginSiteDeletion, nodeVars
    <2>3. /\ draft' \in [Sites -> Draft]
          /\ draft'[s].nodes = draft[s].nodes /\ draft'[s].st = "withdrawing"
          /\ \A x \in Sites : x # s => draft'[x] = draft[x]
        BY <1>1, <2>2 DEF TablesOK, Draft
    <2> QED
        BY <1>1, <2>2, <2>3, UninstallDelete DEF TablesOK, GoneIsEmpty
<1>3. CASE \E s \in Sites : CompleteSiteDeletion(s)
    <2>1. PICK s \in Sites : CompleteSiteDeletion(s)
        BY <1>3
    <2>2. /\ UNCHANGED <<status, job, prepare>>
          /\ draft' = [draft EXCEPT ![s] = [st |-> "gone", nodes |-> {}, on |-> FALSE]]
          /\ pub' = [pub EXCEPT ![s] = NotPublished]
        BY <2>1 DEF CompleteSiteDeletion, nodeVars
    <2>3. /\ draft' \in [Sites -> Draft] /\ pub' \in [Sites -> Publication]
          /\ draft'[s].nodes = {} /\ pub'[s].nodes = {}
          /\ \A x \in Sites : x # s => draft'[x] = draft[x] /\ pub'[x] = pub[x]
        BY <1>1, <2>2 DEF TablesOK, Draft, Publication, NotPublished
    <2> QED
        BY <1>1, <2>2, <2>3, UninstallDelete DEF GoneIsEmpty
<1>4. CASE StageSiteRemoval
    <2>1. /\ UNCHANGED <<status, job, prepare, pub>>
          /\ UNCHANGED draft \/ draft' = [draft EXCEPT ![withdraw.site].st = "retiring"]
        BY <1>4 DEF StageSiteRemoval
    <2>2. draft \in [Sites -> Draft]
        BY <1>1 DEF TablesOK
    <2>3. /\ DOMAIN draft' = Sites /\ draft' = [x \in Sites |-> draft'[x]]
          /\ \A x \in Sites : draft'[x] = draft[x] \/ draft'[x] = [draft[x] EXCEPT !.st = "retiring"]
        BY <2>1, <2>2
    <2>4. ASSUME NEW x \in Sites
          PROVE  /\ draft'[x] \in Draft /\ draft'[x].nodes = draft[x].nodes
                 /\ draft'[x].st = "gone" => draft[x].st = "gone"
        <3>1. draft[x] \in Draft
            BY <2>2
        <3>2. CASE draft'[x] = draft[x]
            BY <3>1, <3>2
        <3>3. CASE draft'[x] = [draft[x] EXCEPT !.st = "retiring"]
            BY <3>1, <3>3 DEF Draft
        <3> QED
            BY <2>3, <3>2, <3>3
    <2>5. draft' \in [Sites -> Draft]
        BY <2>3, <2>4
    <2> QED
        BY <1>1, <2>1, <2>4, <2>5, UninstallDelete DEF TablesOK, GoneIsEmpty
<1>5. CASE \/ \E s \in Sites : BeginWithdraw(s)
           \/ \E n \in Nodes : WithdrawRecord(n)
    <2>1. UNCHANGED <<status, job, draft, pub, prepare>>
        BY <1>5 DEF BeginWithdraw, WithdrawRecord, nodeVars, siteVars
    <2> QED
        BY <1>1, <2>1, UninstallFrame DEF TablesOK
<1> QED
    BY <1>2, <1>3, <1>4, <1>5 DEF DeleteSite

-----------------------------------------------------------------------------
\* The steps of the rounds and of the requests before their transaction.
LEMMA UninstallRound ==
    ASSUME UninstallInv, RoundStep \/ RoundTimesOut
    PROVE  UninstallInv'
<1>1. UNCHANGED <<status, job, draft, pub, prepare>>
    BY DEF RoundStep, RoundTimesOut, BeginRound, ProbeNodes, ListSites, ProbeSites,
           EndRound, Decide, WriteRecord, WriteFails, roundRest, nodeVars, siteVars
<1> QED
    BY <1>1, UninstallFrame DEF UninstallInv, TablesOK

\* A preparation that reads, or removes records, leaves the tables alone.
LEMMA UninstallRequests ==
    ASSUME UninstallInv,
           \/ \E n \in Nodes : BeginPrepare(n)
           \/ \E s \in Sites : RemoveNodeRecord(s)
    PROVE  UninstallInv'
<1>1. UNCHANGED <<status, job, draft, pub>>
    BY DEF BeginPrepare, RemoveNodeRecord, nodeVars, siteVars
<1>2. prepare' \in PrepareType
    <2>1. CASE \E n \in Nodes : BeginPrepare(n)
        <3>1. PICK n \in Nodes : BeginPrepare(n)
            BY <2>1
        <3>2. Affected(n) \subseteq Sites
            BY DEF Affected
        <3> QED
            BY <3>1, <3>2 DEF BeginPrepare, PrepareType
    <2>2. CASE \E s \in Sites : RemoveNodeRecord(s)
        <3>1. PICK s \in Sites : RemoveNodeRecord(s)
            BY <2>2
        <3>2. prepare \in PrepareType /\ prepare.pc = "remove"
            BY <3>1 DEF RemoveNodeRecord, UninstallInv, TablesOK
        <3>3. prepare' = Idle \/ prepare' = [prepare EXCEPT !.del = @ \ {s}]
            BY <3>1 DEF RemoveNodeRecord
        <3> QED
            BY <3>2, <3>3 DEF PrepareType, Idle
    <2> QED
        BY <2>1, <2>2
<1> QED
    BY <1>1, <1>2, UninstallFrame

\* Every step of the administrator and of monitoring.
LEMMA UninstallManage ==
    ASSUME UninstallInv, Manage
    PROVE  UninstallInv'
<1>1. CASE \E s \in Sites : UpdateSite(s) \/ Publish(s)
    BY <1>1, UninstallUpdate, UninstallPublish
<1>2. CASE \E n \in Nodes, st \in {"active", "draining", "revoked"} : SetNodeStatus(n, st)
    BY <1>2, UninstallAdmin
<1>3. CASE \/ \E n \in Nodes, ok \in BOOLEAN : RecordMonitoringRound(n, ok)
           \/ \E left \in BOOLEAN : ResetMonitoring(left)
    BY <1>3, UninstallMonitoring
<1>4. CASE \/ \E n \in Nodes : Settle(n) \/ StartUpgrade(n)
           \/ \E n \in Nodes, a \in {"none", "node", "site"} : Answer(n, a)
           \/ ControlCrash
    <2>1. /\ UNCHANGED <<status, job, draft, pub>>
          /\ UNCHANGED prepare \/ prepare' = Idle
        BY <1>4 DEF Settle, StartUpgrade, Answer, ControlCrash, nodeVars, siteVars
    <2>2. prepare' \in PrepareType
        BY <2>1 DEF UninstallInv, TablesOK, PrepareType
    <2> QED
        BY <2>1, <2>2, UninstallFrame
<1> QED
    BY <1>1, <1>2, <1>3, <1>4 DEF Manage

\* Every step of an uninstall.
LEMMA UninstallUninstall ==
    ASSUME UninstallInv, Uninstall
    PROVE  UninstallInv'
<1>1. CASE PrepareNodeUninstall
    BY <1>1, UninstallPrepare
<1>2. CASE \/ \E n \in Nodes : BeginPrepare(n)
           \/ \E s \in Sites : RemoveNodeRecord(s)
    BY <1>2, UninstallRequests
<1>3. CASE \E n \in Nodes : SafetyWaitEnds(n) \/ IssueToken(n) \/ StartNodeUninstall(n)
    BY <1>3, UninstallWait, UninstallIssue, UninstallStart
<1>4. CASE \E n \in Nodes : \/ FailNodeUninstall(n) \/ CompleteNodeUninstall(n)
                            \/ ForceCompleteNodeUninstall(n) \/ CancelNodeUninstall(n)
    BY <1>4, UninstallFail, UninstallComplete, UninstallCancel
<1> QED
    BY <1>1, <1>2, <1>3, <1>4 DEF Uninstall

\* The uninstall of a node (store/uninstall.go) and the assignment of nodes
\* (store/store.go): whatever is interleaved with them, UninstallInv holds.
THEOREM UninstallInvariant == Spec => []UninstallInv
<1>1. UninstallInv /\ [Next]_vars => UninstallInv'
    <2> SUFFICES ASSUME UninstallInv, [Next]_vars PROVE UninstallInv'
        OBVIOUS
    <2>1. CASE Manage
        BY <2>1, UninstallManage
    <2>2. CASE Uninstall
        BY <2>2, UninstallUninstall
    <2>3. CASE DeleteSite
        BY <2>3, UninstallDeleteSite
    <2>4. CASE RoundStep \/ RoundTimesOut
        BY <2>4, UninstallRound
    <2>5. CASE UNCHANGED vars
        <3>1. UNCHANGED <<status, job, draft, pub, prepare>>
            BY <2>5 DEF vars
        <3> QED
            BY <3>1, UninstallFrame DEF UninstallInv, TablesOK
    <2> QED
        BY <2>1, <2>2, <2>3, <2>4, <2>5 DEF Next
<1> QED
    BY <1>1, UninstallInit, PTL DEF Spec

\* A node whose host is being cleaned, or has been, is in no draft and in no
\* publication, for any number of sites and nodes: nothing can assign it
\* between the check of the blockers and the end of its uninstall
\* (validateSiteNodes, buildNodeUninstallStatus).
THEOREM UninstallIsSafe == Spec => []UninstallingServesNothing
<1>1. UninstallInv => UninstallingServesNothing
    BY DEF UninstallInv, RetiredServesNothing, Unassigned, UninstallingServesNothing
<1> QED
    BY <1>1, UninstallInvariant, PTL

-----------------------------------------------------------------------------
\* The pool of a site.

Rounds == [pc : {"nodes", "sites", "probe", "dns", "write"}, nodes : [Nodes -> NodeStatus],
           waits : SUBSET Nodes, behind : SUBSET Nodes, upgrading : SUBSET Nodes,
           sites : [Sites -> [draft : Draft, pub : Publication]], todo : SUBSET Sites,
           site : Sites \cup {"none"}, add : SUBSET Nodes, del : SUBSET Nodes]

Withdrawals == [pc : {"withdraw"}, site : Sites, del : SUBSET Nodes]

\* What a round r sees: the nodes of the site it takes for active.
ActiveSeen(r, s) == {n \in r.sites[s].pub.nodes : r.nodes[n] = "active"}

\* A site that has not been published is not enabled by its publication.
RowsOK == \A s \in Sites : pub[s].row = "none" => ~pub[s].on

\* What a round has read of the sites may be old, but a deletion it saw begun
\* is not undone.
ViewOK ==
    round # Idle =>
        \A s \in Sites :
            /\ round.sites[s].pub.row = "none" => ~round.sites[s].pub.on
            /\ round.sites[s].draft.st # "live" => draft[s].st # "live"

\* Records are withdrawn from deleted sites, and no node is being uninstalled.
OnlyDeletionsWithdraw ==
    /\ prepare = Idle
    /\ withdraw \in {Idle} \cup Withdrawals
    /\ withdraw # Idle => draft[withdraw.site].st # "live"

\* While a round writes, some record of an enabled site with an active node is,
\* or is going to be, there and is not among those to delete.
WriteKeepsOne ==
    round.pc = "write" =>
        /\ round.site \in Sites
        /\ (/\ draft[round.site].st = "live"
            /\ round.sites[round.site].pub.on
            /\ ActiveSeen(round, round.site) # {})
             => (round.add \cup dns[round.site]) \ round.del # {}

PoolInv ==
    /\ dns \in [Sites -> SUBSET Nodes]
    /\ round \in {Idle} \cup Rounds
    /\ RowsOK
    /\ ViewOK
    /\ OnlyDeletionsWithdraw
    /\ WriteKeepsOne

\* Two rounds with the same view and the same records to write.
SameWrites(q, r) ==
    /\ q.pc = r.pc /\ q.nodes = r.nodes /\ q.sites = r.sites
    /\ q.site = r.site /\ q.add = r.add /\ q.del = r.del

\* At the start the nodes are in the pools and nobody is at work.
LEMMA PoolInitial == Init => PoolInv
BY DEF Init, PoolInv, RowsOK, ViewOK, OnlyDeletionsWithdraw, WriteKeepsOne, Idle, NotPublished

\* Steps that are not the round's: they may end the round or move the set of
\* nodes that are behind, and take records only from sites being deleted.
LEMMA PoolFrame ==
    ASSUME PoolInv,
           dns' \in [Sites -> SUBSET Nodes],
           \A s \in Sites : draft'[s].st = "live" => dns'[s] = dns[s],
           RowsOK',
           \A s \in Sites : draft[s].st # "live" => draft'[s].st # "live",
           round' \in {Idle} \cup Rounds,
           round' = Idle \/ (round # Idle /\ SameWrites(round', round)),
           prepare' = Idle,
           \/ withdraw' \in {Idle, withdraw}
           \/ withdraw' \in Withdrawals /\ draft'[withdraw'.site].st # "live"
    PROVE  PoolInv'
<1>1. OnlyDeletionsWithdraw'
    BY DEF PoolInv, OnlyDeletionsWithdraw, Withdrawals
<1>2. ViewOK' /\ WriteKeepsOne'
    <2>1. CASE round' = Idle
        BY <2>1 DEF ViewOK, WriteKeepsOne, Idle
    <2>2. CASE round # Idle /\ SameWrites(round', round)
        <3>1. ViewOK'
            BY <2>2 DEF PoolInv, ViewOK, SameWrites
        <3>2. ActiveSeen(round', round'.site) = ActiveSeen(round, round.site)
            BY <2>2 DEF SameWrites, ActiveSeen
        <3>3. WriteKeepsOne'
            BY <2>2, <3>2 DEF PoolInv, WriteKeepsOne, SameWrites
        <3> QED
            BY <3>1, <3>3
    <2> QED
        BY <2>1, <2>2
<1> QED
    BY <1>1, <1>2 DEF PoolInv

\* More nodes are behind: the round writes what it would have written.
LEMMA PoolFallBehind ==
    ASSUME round \in {Idle} \cup Rounds, NEW S \in SUBSET Nodes, FallBehind(S)
    PROVE  /\ round' \in {Idle} \cup Rounds
           /\ round' = Idle \/ (round # Idle /\ SameWrites(round', round))
<1>1. CASE round = Idle
    BY <1>1 DEF FallBehind
<1>2. ASSUME NEW r \in Rounds, NEW X \in SUBSET Nodes
      PROVE  [r EXCEPT !.behind = @ \cup X] \in Rounds
             /\ SameWrites([r EXCEPT !.behind = @ \cup X], r)
    BY <1>2 DEF Rounds, SameWrites
<1>3. CASE round # Idle
    <2> DEFINE X == {n \in S : ~Retired(n)}
    <2>1. X \in SUBSET Nodes /\ round' = [round EXCEPT !.behind = @ \cup X]
        BY <1>3 DEF FallBehind
    <2> HIDE DEF X
    <2> QED
        BY <1>2, <1>3, <2>1
<1> QED
    BY <1>1, <1>3

\* The administrator and monitoring.
LEMMA PoolManage ==
    ASSUME PoolInv, TablesOK, Manage
    PROVE  PoolInv'
<1> USE DEF siteVars, nodeVars, probeVars
<1>a. PoolInv /\ prepare = Idle /\ RowsOK
      /\ dns \in [Sites -> SUBSET Nodes] /\ round \in {Idle} \cup Rounds
      /\ draft \in [Sites -> Draft] /\ pub \in [Sites -> Publication]
      /\ (round = Idle \/ SameWrites(round, round))
    BY DEF PoolInv, OnlyDeletionsWithdraw, TablesOK, SameWrites
<1>b. ASSUME UNCHANGED <<pub, draft, dns, round, prepare, withdraw>> PROVE PoolInv'
    <2>1. RowsOK'
        BY <1>a, <1>b DEF RowsOK
    <2> QED
        BY <1>a, <1>b, <2>1, PoolFrame
<1>1. ASSUME NEW s \in Sites, UpdateSite(s) PROVE PoolInv'
    <2>1. /\ UNCHANGED <<pub, dns, round, prepare, withdraw>>
          /\ \A x \in Sites : draft[x].st # "live" => draft'[x].st # "live"
        BY <1>a, <1>1 DEF UpdateSite
    <2>2. RowsOK'
        BY <1>a, <2>1 DEF RowsOK
    <2> QED
        BY <1>a, <2>1, <2>2, PoolFrame
<1>2. ASSUME NEW s \in Sites, Publish(s) PROVE PoolInv'
    <2>1. UNCHANGED <<draft, dns, prepare, withdraw>>
          /\ FallBehind(draft[s].nodes \cup pub[s].nodes)
          /\ pub' = [pub EXCEPT ![s] =
                        [nodes |-> draft[s].nodes, on |-> draft[s].on, row |-> "row"]]
        BY <1>2 DEF Publish
    <2>2. draft[s].nodes \cup pub[s].nodes \in SUBSET Nodes
        BY <1>a DEF Draft, Publication
    <2>3. RowsOK'
        BY <1>a, <2>1 DEF RowsOK
    <2>4. /\ round' \in {Idle} \cup Rounds
          /\ round' = Idle \/ (round # Idle /\ SameWrites(round', round))
        BY <1>a, <2>1, <2>2, PoolFallBehind
    <2> QED
        BY <1>a, <2>1, <2>3, <2>4, PoolFrame
<1>3. ASSUME NEW n \in Nodes, Settle(n) \/ StartUpgrade(n) PROVE PoolInv'
    BY <1>b, <1>3 DEF Settle, StartUpgrade
<1>4. ASSUME NEW n \in Nodes, NEW st, SetNodeStatus(n, st) PROVE PoolInv'
    BY <1>b, <1>4 DEF SetNodeStatus
<1>5. ASSUME NEW n \in Nodes, NEW ok, RecordMonitoringRound(n, ok) PROVE PoolInv'
    BY <1>b, <1>5 DEF RecordMonitoringRound
<1>6. ASSUME NEW left, ResetMonitoring(left) PROVE PoolInv'
    BY <1>b, <1>6 DEF ResetMonitoring
<1>7. ASSUME NEW n \in Nodes, NEW a, Answer(n, a) PROVE PoolInv'
    BY <1>b, <1>7 DEF Answer
<1>8. CASE ControlCrash
    <2>1. UNCHANGED <<pub, draft, dns>> /\ round' = Idle /\ prepare' = Idle /\ withdraw' = Idle
        BY <1>8 DEF ControlCrash
    <2>2. RowsOK'
        BY <1>a, <2>1 DEF RowsOK
    <2> QED
        BY <1>a, <2>1, <2>2, PoolFrame
<1> QED
    BY <1>1, <1>2, <1>3, <1>4, <1>5, <1>6, <1>7, <1>8 DEF Manage

\* Without an uninstall being prepared, no uninstall touches the records.
LEMMA PoolUninstall ==
    ASSUME PoolInv, TablesOK, Uninstall, "uninstall" \notin Operations
    PROVE  PoolInv'
<1> USE DEF siteVars, nodeVars, probeVars
<1>1. prepare = Idle /\ prepare.pc # "remove"
    BY DEF PoolInv, OnlyDeletionsWithdraw, Idle
<1>2. \E n \in Nodes : \/ SafetyWaitEnds(n) \/ IssueToken(n)
                       \/ StartNodeUninstall(n) \/ FailNodeUninstall(n)
                       \/ CompleteNodeUninstall(n)
                       \/ ForceCompleteNodeUninstall(n) \/ CancelNodeUninstall(n)
    BY <1>1 DEF Uninstall, RemoveNodeRecord, PrepareNodeUninstall, BeginPrepare, Change
<1>3. UNCHANGED <<pub, draft, dns, round, prepare, withdraw>>
    BY <1>2 DEF SafetyWaitEnds, IssueToken, StartNodeUninstall, FailNodeUninstall,
       CompleteNodeUninstall, ForceCompleteNodeUninstall, CancelNodeUninstall, JobStep
<1>4. RowsOK'
    BY <1>3 DEF PoolInv, RowsOK
<1>5. /\ dns \in [Sites -> SUBSET Nodes] /\ round \in {Idle} \cup Rounds
      /\ round = Idle \/ SameWrites(round, round)
    BY DEF PoolInv, SameWrites
<1> QED
    BY <1>1, <1>3, <1>4, <1>5, PoolFrame

\* A deletion takes the records of a site that is deleted.
LEMMA PoolDeleteSite ==
    ASSUME PoolInv, TablesOK, DeleteSite
    PROVE  PoolInv'
<1> USE DEF siteVars, nodeVars, probeVars
<1>a. PoolInv /\ prepare = Idle /\ RowsOK /\ OnlyDeletionsWithdraw
      /\ dns \in [Sites -> SUBSET Nodes] /\ round \in {Idle} \cup Rounds
      /\ draft \in [Sites -> Draft] /\ pub \in [Sites -> Publication]
      /\ (round = Idle \/ SameWrites(round, round))
    BY DEF PoolInv, OnlyDeletionsWithdraw, TablesOK, SameWrites
<1>b. ASSUME UNCHANGED pub PROVE RowsOK'
    BY <1>a, <1>b DEF RowsOK
<1>1. ASSUME NEW s \in Sites, BeginSiteDeletion(s) PROVE PoolInv'
    <2>1. /\ UNCHANGED <<pub, dns, round, prepare, withdraw>>
          /\ \A x \in Sites : draft[x].st # "live" => draft'[x].st # "live"
          /\ \A x \in Sites : draft'[x].st = "live" => draft[x].st = "live"
        BY <1>a, <1>1 DEF BeginSiteDeletion
    <2> QED
        BY <1>a, <1>b, <2>1, PoolFrame
<1>2. ASSUME NEW s \in Sites, BeginWithdraw(s) PROVE PoolInv'
    <2>1. UNCHANGED <<pub, draft, dns, round, prepare>> /\ draft[s].st = "withdrawing"
          /\ withdraw' = [pc |-> "withdraw", site |-> s, del |-> dns[s]]
        BY <1>2 DEF BeginWithdraw
    <2>2. withdraw' \in Withdrawals /\ draft'[withdraw'.site].st # "live"
        BY <1>a, <2>1 DEF Withdrawals
    <2> QED
        BY <1>a, <1>b, <2>1, <2>2, PoolFrame
<1>3. ASSUME NEW s \in Sites, CompleteSiteDeletion(s) PROVE PoolInv'
    <2>1. /\ UNCHANGED <<dns, round, prepare, withdraw>>
          /\ \A x \in Sites : draft[x].st # "live" => draft'[x].st # "live"
          /\ pub' = [pub EXCEPT ![s] = NotPublished]
        BY <1>a, <1>3 DEF CompleteSiteDeletion
    <2>2. \A x \in Sites : pub'[x] \in {NotPublished, pub[x]}
        BY <1>a, <2>1
    <2>3. ~NotPublished.on
        BY DEF NotPublished
    <2>4. RowsOK'
        BY <1>a, <2>2, <2>3 DEF RowsOK
    <2> QED
        BY <1>a, <2>1, <2>4, PoolFrame
<1>4. ASSUME NEW n \in Nodes, WithdrawRecord(n) PROVE PoolInv'
    <2>1. withdraw \in Withdrawals /\ draft[withdraw.site].st # "live"
        BY <1>a, <1>4 DEF WithdrawRecord, Idle, OnlyDeletionsWithdraw
    <2>a. withdraw.site \in Sites
        BY <2>1 DEF Withdrawals
    <2>2. UNCHANGED <<pub, draft, round, prepare>>
          /\ dns' \in {dns, [dns EXCEPT ![withdraw.site] = @ \ {n}]}
          /\ withdraw' \in {Idle, [withdraw EXCEPT !.del = @ \ {n}]}
        BY <1>4 DEF WithdrawRecord
    <2>3. dns' \in [Sites -> SUBSET Nodes]
          /\ \A s \in Sites : draft'[s].st = "live" => dns'[s] = dns[s]
        BY <1>a, <2>1, <2>a, <2>2
    <2>4. ASSUME NEW w \in Withdrawals
          PROVE  [w EXCEPT !.del = @ \ {n}] \in Withdrawals
                 /\ [w EXCEPT !.del = @ \ {n}].site = w.site
        BY <2>4 DEF Withdrawals
    <2>5. /\ [withdraw EXCEPT !.del = @ \ {n}] \in Withdrawals
          /\ [withdraw EXCEPT !.del = @ \ {n}].site = withdraw.site
        BY <2>1, <2>4
    <2>6. withdraw' = Idle \/ (withdraw' \in Withdrawals /\ withdraw'.site = withdraw.site)
        BY <2>2, <2>5
    <2> QED
        BY <1>a, <1>b, <2>1, <2>2, <2>3, <2>6, PoolFrame
<1>5. CASE StageSiteRemoval
    <2>1. withdraw # Idle /\ withdraw.site \in Sites
        BY <1>a, <1>5 DEF StageSiteRemoval, Idle, OnlyDeletionsWithdraw, Withdrawals
    <2>2. draft[withdraw.site].nodes \cup pub[withdraw.site].nodes \in SUBSET Nodes
        BY <1>a, <2>1 DEF Draft, Publication
    <2>3. UNCHANGED <<pub, dns, prepare>> /\ withdraw' = Idle
          /\ \/ draft' = [draft EXCEPT ![withdraw.site].st = "retiring"]
                /\ FallBehind(draft[withdraw.site].nodes \cup pub[withdraw.site].nodes)
             \/ UNCHANGED <<draft, round>>
        BY <1>5 DEF StageSiteRemoval
    <2>4. \A x \in Sites : draft[x].st # "live" => draft'[x].st # "live"
        BY <1>a, <2>1, <2>3 DEF Draft
    <2>5. /\ round' \in {Idle} \cup Rounds
          /\ round' = Idle \/ (round # Idle /\ SameWrites(round', round))
        BY <1>a, <2>2, <2>3, PoolFallBehind
    <2> QED
        BY <1>a, <1>b, <2>3, <2>4, <2>5, PoolFrame
<1> QED
    BY <1>1, <1>2, <1>3, <1>4, <1>5 DEF DeleteSite

\* The steps of a round that do not write.
LEMMA PoolReads ==
    ASSUME PoolInv, TablesOK,
           BeginRound \/ ProbeNodes \/ ListSites \/ ProbeSites \/ EndRound \/ RoundTimesOut
    PROVE  PoolInv'
<1> USE DEF roundRest, siteVars, nodeVars
<1>a. PoolInv /\ prepare = Idle /\ RowsOK /\ OnlyDeletionsWithdraw
      /\ dns \in [Sites -> SUBSET Nodes] /\ round \in {Idle} \cup Rounds
      /\ draft \in [Sites -> Draft] /\ pub \in [Sites -> Publication]
      /\ status \in [Nodes -> NodeStatus]
    BY DEF PoolInv, OnlyDeletionsWithdraw, TablesOK
<1>b. UNCHANGED <<status, pub, draft, dns, prepare, withdraw>>
    BY DEF BeginRound, ProbeNodes, ListSites, ProbeSites, EndRound, RoundTimesOut
<1>c. RowsOK' /\ OnlyDeletionsWithdraw'
    BY <1>a, <1>b DEF RowsOK, OnlyDeletionsWithdraw
<1>d. ASSUME round' = Idle PROVE PoolInv'
    BY <1>a, <1>b, <1>c, <1>d, PoolFrame
<1>e. ASSUME NEW r \in Rounds, round' = r, r.pc # "write",
             \A s \in Sites : /\ r.sites[s].pub.row = "none" => ~r.sites[s].pub.on
                              /\ r.sites[s].draft.st # "live" => draft[s].st # "live"
      PROVE  PoolInv'
    BY <1>a, <1>b, <1>c, <1>e DEF PoolInv, ViewOK, WriteKeepsOne
<1>f. [s \in Sites |-> [draft |-> draft[s], pub |-> pub[s]]]
        \in [Sites -> [draft : Draft, pub : Publication]]
    BY <1>a
<1>1. CASE BeginRound
    <2> DEFINE r == [pc |-> "nodes", nodes |-> status, waits |-> {},
                     behind |-> {n \in Nodes : busy[n] = "publishing"},
                     upgrading |-> {n \in Nodes : busy[n] = "upgrading"},
                     sites |-> [s \in Sites |-> [draft |-> draft[s], pub |-> pub[s]]],
                     todo |-> {}, site |-> "none", add |-> {}, del |-> {}]
    <2>1. round' = r
        BY <1>1 DEF BeginRound
    <2>2. r \in Rounds /\ r.pc # "write"
        BY <1>a, <1>f DEF Rounds
    <2>3. \A s \in Sites : r.sites[s].pub = pub[s] /\ r.sites[s].draft = draft[s]
        OBVIOUS
    <2> HIDE DEF r
    <2> QED
        BY <1>a, <1>e, <2>1, <2>2, <2>3 DEF RowsOK
<1>2. CASE ProbeNodes
    <2>1. round \in Rounds /\ round' \in {Idle, [round EXCEPT !.pc = "sites"]}
        BY <1>2, <1>a DEF ProbeNodes, Probed, Idle
    <2>2. ASSUME NEW r \in Rounds
          PROVE  /\ [r EXCEPT !.pc = "sites"] \in Rounds
                 /\ [r EXCEPT !.pc = "sites"].pc = "sites"
                 /\ [r EXCEPT !.pc = "sites"].sites = r.sites
        BY <2>2 DEF Rounds
    <2>3. /\ [round EXCEPT !.pc = "sites"] \in Rounds
          /\ [round EXCEPT !.pc = "sites"].pc = "sites"
          /\ [round EXCEPT !.pc = "sites"].sites = round.sites
        BY <2>1, <2>2
    <2>4. ViewOK /\ round # Idle
        BY <1>2, <1>a DEF ProbeNodes, Idle, PoolInv
    <2> QED
        BY <1>d, <1>e, <2>1, <2>3, <2>4 DEF ViewOK
<1>3. CASE ListSites
    <2> DEFINE w == [s \in Sites |-> [draft |-> draft[s], pub |-> pub[s]]]
    <2>1. round \in Rounds /\ round' = [round EXCEPT !.pc = "probe", !.sites = w]
        BY <1>3, <1>a DEF ListSites, Idle
    <2>2. \A s \in Sites : w[s].pub = pub[s] /\ w[s].draft = draft[s]
        OBVIOUS
    <2>3. w \in [Sites -> [draft : Draft, pub : Publication]]
        BY <1>f
    <2> HIDE DEF w
    <2>4. ASSUME NEW r \in Rounds, NEW v \in [Sites -> [draft : Draft, pub : Publication]]
          PROVE  /\ [r EXCEPT !.pc = "probe", !.sites = v] \in Rounds
                 /\ [r EXCEPT !.pc = "probe", !.sites = v].pc = "probe"
                 /\ [r EXCEPT !.pc = "probe", !.sites = v].sites = v
        BY <2>4 DEF Rounds
    <2>5. round' \in Rounds /\ round'.pc = "probe" /\ round'.sites = w
        BY <2>1, <2>3, <2>4
    <2> QED
        BY <1>a, <1>e, <2>2, <2>5 DEF RowsOK
<1>4. CASE ProbeSites
    <2> DEFINE T == {s \in Sites : ClearsDraft(s) \/ Reconciles(s)}
    <2>p. round.pc = "probe"
        BY <1>4 DEF ProbeSites
    <2>r. round \in Rounds /\ round # Idle
        BY <1>a, <2>p DEF Idle
    <2>w. round' \in {Idle, [round EXCEPT !.pc = "dns", !.todo = T]}
        BY <1>4 DEF ProbeSites, Probed
    <2>1. round \in Rounds /\ round' \in {Idle, [round EXCEPT !.pc = "dns", !.todo = T]}
        BY <2>r, <2>w
    <2>2. T \in SUBSET Sites
        OBVIOUS
    <2> HIDE DEF T
    <2>3. ASSUME NEW r \in Rounds, NEW X \in SUBSET Sites
          PROVE  /\ [r EXCEPT !.pc = "dns", !.todo = X] \in Rounds
                 /\ [r EXCEPT !.pc = "dns", !.todo = X].pc = "dns"
                 /\ [r EXCEPT !.pc = "dns", !.todo = X].sites = r.sites
        BY <2>3 DEF Rounds
    <2>4. /\ [round EXCEPT !.pc = "dns", !.todo = T] \in Rounds
          /\ [round EXCEPT !.pc = "dns", !.todo = T].pc = "dns"
          /\ [round EXCEPT !.pc = "dns", !.todo = T].sites = round.sites
        BY <2>1, <2>2, <2>3
    <2>5. ViewOK /\ round # Idle
        BY <1>a, <2>r DEF PoolInv
    <2> QED
        BY <1>d, <1>e, <2>1, <2>4, <2>5 DEF ViewOK
<1>5. CASE EndRound \/ RoundTimesOut
    BY <1>5, <1>d DEF EndRound, RoundTimesOut
<1> QED
    BY <1>1, <1>2, <1>3, <1>4, <1>5

\* A round decides to delete records of an enabled site with an active node
\* only for the nodes that it does not take for healthy, when it takes one
\* for healthy: a site whose nodes all fail keeps what it has.
LEMMA PoolDecide ==
    ASSUME PoolInv, TablesOK, NEW s \in Sites, Decide(s)
    PROVE  PoolInv'
<1> USE DEF roundRest, siteVars, nodeVars
<1>a. PoolInv /\ prepare = Idle /\ RowsOK /\ OnlyDeletionsWithdraw /\ ViewOK
      /\ dns \in [Sites -> SUBSET Nodes] /\ round \in {Idle} \cup Rounds
    BY DEF PoolInv, OnlyDeletionsWithdraw, TablesOK
<1>b. UNCHANGED <<status, pub, draft, dns, prepare, withdraw>> /\ round.pc = "dns"
    BY DEF Decide
<1>c. RowsOK' /\ OnlyDeletionsWithdraw'
    BY <1>a, <1>b DEF RowsOK, OnlyDeletionsWithdraw
<1>d. PICK r \in Rounds : r = round
    BY <1>a, <1>b DEF Idle
<1> DEFINE A == Wanted(s) \ dns[s]
           D == dns[s] \ Wanted(s)
<1>1. Wanted(s) \in SUBSET Nodes
    <2>1. r.sites[s].pub.nodes \in SUBSET Nodes
        BY <1>d DEF Rounds, Publication
    <2> QED
        BY <1>d, <2>1 DEF Wanted, Healthy, ActiveAssigned, Assigned
<1>2. A \in SUBSET Nodes /\ D \in SUBSET Nodes
    BY <1>a, <1>1
<1>3. \/ round' = [r EXCEPT !.todo = @ \ {s}]
      \/ /\ ~Retains(s)
         /\ round' = [r EXCEPT !.todo = @ \ {s}, !.pc = "write", !.site = s,
                               !.add = A, !.del = D]
    BY <1>d DEF Decide
<1>4. ASSUME ~Retains(s), draft[s].st = "live", r.sites[s].pub.on, ActiveSeen(r, s) # {}
      PROVE  Wanted(s) # {}
    <2>1. ~ClearsDraft(s)
        BY <1>4, <1>a, <1>b, <1>d DEF ClearsDraft, Deleting, ViewOK, Idle
    <2>2. ActiveAssigned(s) # {}
        BY <1>4, <1>d DEF ActiveAssigned, Assigned, ActiveInView, ActiveSeen
    <2>3. Healthy(s) # {}
        BY <1>4, <1>d, <2>1, <2>2 DEF Retains
    <2> QED
        BY <1>4, <1>d, <2>1, <2>3 DEF Wanted
<1>5. Wanted(s) # {} => (A \cup dns[s]) \ D # {}
    OBVIOUS
<1>6. ASSUME round' \in Rounds, round'.sites = r.sites PROVE ViewOK'
    BY <1>6, <1>a, <1>b, <1>d DEF ViewOK, Idle
<1> HIDE DEF A, D
<1>7. CASE round' = [r EXCEPT !.todo = @ \ {s}]
    <2>1. round' \in Rounds /\ round'.pc = r.pc /\ round'.sites = r.sites
        BY <1>7 DEF Rounds
    <2>2. WriteKeepsOne'
        BY <1>b, <1>d, <2>1 DEF WriteKeepsOne
    <2> QED
        BY <1>a, <1>b, <1>c, <1>6, <2>1, <2>2 DEF PoolInv
<1>8. CASE /\ ~Retains(s)
           /\ round' = [r EXCEPT !.todo = @ \ {s}, !.pc = "write", !.site = s,
                                 !.add = A, !.del = D]
    <2> DEFINE q == [r EXCEPT !.todo = @ \ {s}, !.pc = "write", !.site = s,
                              !.add = A, !.del = D]
    <2>1. /\ q \in Rounds /\ q.sites = r.sites /\ q.nodes = r.nodes
          /\ q.site = s /\ q.add = A /\ q.del = D
        BY <1>2 DEF Rounds
    <2> HIDE DEF q
    <2>2. /\ round' \in Rounds /\ round'.sites = r.sites /\ round'.nodes = r.nodes
          /\ round'.site = s /\ round'.add = A /\ round'.del = D
        BY <1>8, <2>1 DEF q
    <2>3. ActiveSeen(round', s) = ActiveSeen(r, s)
        BY <2>2 DEF ActiveSeen
    <2>4. WriteKeepsOne'
        BY <1>b, <1>4, <1>5, <1>8, <2>2, <2>3 DEF WriteKeepsOne
    <2> QED
        BY <1>a, <1>b, <1>c, <1>6, <2>2, <2>4 DEF PoolInv
<1> QED
    BY <1>3, <1>7, <1>8

\* What a write leaves: the records to create first, then those to delete.
LEMMA PoolWrite ==
    ASSUME PoolInv, TablesOK, NEW n \in Nodes, WriteRecord(n) \/ WriteFails(n)
    PROVE  /\ PoolInv'
           /\ \A s \in Sites :
                 (dns[s] # {} /\ dns'[s] = {} /\ draft[s].st = "live")
                     => ~(round.sites[s].pub.on /\ ActiveSeen(round, s) # {})
<1> USE DEF roundRest, siteVars, nodeVars
<1>a. PoolInv /\ prepare = Idle /\ RowsOK /\ OnlyDeletionsWithdraw /\ ViewOK /\ WriteKeepsOne
      /\ dns \in [Sites -> SUBSET Nodes] /\ round \in {Idle} \cup Rounds
    BY DEF PoolInv, OnlyDeletionsWithdraw, TablesOK
<1>b. /\ UNCHANGED <<status, pub, draft, prepare, withdraw>>
      /\ round.pc = "write" /\ Writable(n)
      /\ dns' \in {dns, Written(n)}
    BY DEF WriteRecord, WriteFails
<1>c. RowsOK' /\ OnlyDeletionsWithdraw'
    BY <1>a, <1>b DEF RowsOK, OnlyDeletionsWithdraw
<1>d. PICK r \in Rounds : r = round
    BY <1>a, <1>b DEF Idle
<1>e. r.pc = "write" /\ r.site \in Sites
      /\ (n \in r.add \/ (n \in r.del /\ r.add = {}))
    BY <1>a, <1>b, <1>d DEF WriteKeepsOne, Writable
<1>1. /\ \A s \in Sites \ {r.site} : dns'[s] = dns[s]
      /\ dns'[r.site] \in {dns[r.site], IF n \in r.add THEN dns[r.site] \cup {n}
                                        ELSE dns[r.site] \ {n}}
      /\ dns' \in [Sites -> SUBSET Nodes]
    BY <1>a, <1>b, <1>d, <1>e DEF Written
<1>2. ASSUME draft[r.site].st = "live", r.sites[r.site].pub.on, ActiveSeen(r, r.site) # {}
      PROVE  (r.add \cup dns[r.site]) \ r.del # {}
    BY <1>2, <1>a, <1>d, <1>e DEF WriteKeepsOne
<1>3. ASSUME NEW s \in Sites, dns[s] # {}, dns'[s] = {}, draft[s].st = "live",
             r.sites[s].pub.on, ActiveSeen(r, s) # {}
      PROVE  FALSE
    <2>1. s = r.site /\ n \notin r.add
        BY <1>1, <1>3
    <2>2. n \in r.del /\ r.add = {} /\ dns'[r.site] \in {dns[r.site], dns[r.site] \ {n}}
        BY <1>1, <1>e, <2>1
    <2>3. dns[r.site] \ r.del # {}
        BY <1>2, <1>3, <2>1, <2>2
    <2> QED
        BY <1>3, <2>1, <2>2, <2>3
<1> DEFINE e == [r EXCEPT !.pc = "dns", !.site = "none", !.add = {}, !.del = {}]
           w == [r EXCEPT !.add = @ \ {n}, !.del = @ \ {n}]
<1>4. \/ round' = e
      \/ WriteRecord(n) /\ round' = w
    BY <1>d DEF WriteRecord, WriteFails, SiteDone
<1>5. /\ e \in Rounds /\ e.pc = "dns" /\ e.sites = r.sites
      /\ w \in Rounds /\ w.pc = "write" /\ w.sites = r.sites /\ w.nodes = r.nodes
      /\ w.site = r.site /\ w.add = r.add \ {n} /\ w.del = r.del \ {n}
    BY <1>e DEF Rounds
<1> HIDE DEF e, w
<1>6. ViewOK'
    BY <1>a, <1>b, <1>d, <1>4, <1>5 DEF ViewOK, Idle
<1>7. WriteKeepsOne'
    <2>1. CASE round' = e
        BY <1>5, <2>1 DEF WriteKeepsOne
    <2>2. CASE WriteRecord(n) /\ round' = w
        <3>1. ActiveSeen(w, r.site) = ActiveSeen(r, r.site)
            BY <1>5 DEF ActiveSeen
        <3>2. dns'[r.site] = IF n \in r.add THEN dns[r.site] \cup {n} ELSE dns[r.site] \ {n}
            BY <1>a, <1>d, <1>e, <2>2 DEF WriteRecord, Written
        <3>3. (r.add \cup dns[r.site]) \ r.del # {}
                => (w.add \cup dns'[r.site]) \ w.del # {}
            BY <1>5, <1>e, <3>2
        <3> QED
            BY <1>2, <1>5, <1>b, <1>e, <2>2, <3>1, <3>3 DEF WriteKeepsOne
    <2> QED
        BY <1>4, <2>1, <2>2
<1>8. round' \in Rounds
    BY <1>4, <1>5
<1> QED
    BY <1>1, <1>3, <1>6, <1>7, <1>8, <1>c, <1>d DEF PoolInv

\* The rounds, the administrator, monitoring and deletions keep the invariant.
LEMMA PoolStep ==
    ASSUME PoolInv, TablesOK, [Next]_vars, "uninstall" \notin Operations
    PROVE  PoolInv'
<1>1. CASE Manage
    BY <1>1, PoolManage
<1>2. CASE Uninstall
    BY <1>2, PoolUninstall
<1>3. CASE DeleteSite
    BY <1>3, PoolDeleteSite
<1>4. CASE RoundStep
    BY <1>4, PoolReads, PoolDecide, PoolWrite DEF RoundStep
<1>5. CASE RoundTimesOut
    BY <1>5, PoolReads
<1>6. CASE UNCHANGED vars
    <2>1. UNCHANGED <<pub, draft, dns, round, prepare, withdraw>>
        BY <1>6 DEF vars
    <2> QED
        BY <2>1 DEF PoolInv, RowsOK, ViewOK, OnlyDeletionsWithdraw, WriteKeepsOne, ActiveSeen
<1> QED
    BY <1>1, <1>2, <1>3, <1>4, <1>5, <1>6 DEF Next

\* A health round never takes the last record of a published, enabled site
\* that it saw assigned to an active node: not when records fail one by one,
\* not when the round works on an old list of nodes or sites, and not when all
\* nodes fail (reconcileSiteDNSOutcome, CloudflareDNS.Reconcile).  The
\* preparation of an uninstall removes records too, of a node the round may
\* have meant to keep: the theorem is about the system without it.
THEOREM RoundKeepsPool ==
    ASSUME "uninstall" \notin Operations
    PROVE  Spec => KeepsPool
<1> DEFINE Kept == \A s \in Sites :
                (/\ dns[s] # {} /\ dns'[s] = {}
                 /\ draft[s].st = "live"
                 /\ UNCHANGED <<prepare, withdraw>>)
                => ~(round.sites[s].pub.on /\ ActiveAssigned(s) # {})
<1>1. UninstallInv => TablesOK
    BY DEF UninstallInv
<1>2. PoolInv /\ TablesOK /\ [Next]_vars => PoolInv'
    BY PoolStep
<1>3. Spec => []PoolInv
    BY <1>1, <1>2, PoolInitial, UninstallInvariant, PTL DEF Spec
<1>4. PoolInv /\ TablesOK /\ [Next]_vars => Kept
    <2> SUFFICES ASSUME PoolInv, TablesOK, [Next]_vars, NEW s \in Sites,
                        dns[s] # {}, dns'[s] = {}, draft[s].st = "live",
                        UNCHANGED <<prepare, withdraw>>
                 PROVE  ~(round.sites[s].pub.on /\ ActiveAssigned(s) # {})
        OBVIOUS
    <2> USE DEF roundRest, nodeVars, siteVars, probeVars
    <2>a. dns' # dns /\ dns \in [Sites -> SUBSET Nodes]
        BY DEF PoolInv
    <2>1. CASE Manage
        BY <2>1, <2>a DEF Manage, UpdateSite, Publish, Settle, StartUpgrade, SetNodeStatus,
           RecordMonitoringRound, ResetMonitoring, Answer, ControlCrash
    <2>2. CASE Uninstall
        <3>1. prepare.pc # "remove"
            BY DEF PoolInv, OnlyDeletionsWithdraw, Idle
        <3> QED
            BY <2>2, <2>a, <3>1 DEF Uninstall, RemoveNodeRecord, PrepareNodeUninstall,
               BeginPrepare, SafetyWaitEnds, IssueToken, StartNodeUninstall,
               FailNodeUninstall, CompleteNodeUninstall, ForceCompleteNodeUninstall,
               CancelNodeUninstall, JobStep
    <2>3. CASE DeleteSite
        <3>1. PICK n \in Nodes : WithdrawRecord(n)
            BY <2>3, <2>a DEF DeleteSite, BeginSiteDeletion, BeginWithdraw,
               CompleteSiteDeletion, StageSiteRemoval
        <3>2. withdraw \in Withdrawals /\ draft[withdraw.site].st # "live"
            BY <3>1 DEF PoolInv, WithdrawRecord, Idle, OnlyDeletionsWithdraw
        <3>3. dns' \in {dns, [dns EXCEPT ![withdraw.site] = @ \ {n}]}
            BY <3>1 DEF WithdrawRecord
        <3>4. s # withdraw.site
            BY <3>2
        <3>5. dns'[s] = dns[s]
            BY <2>a, <3>3, <3>4
        <3> QED
            BY <3>5
    <2>4. CASE RoundStep \/ RoundTimesOut
        <3>1. PICK n \in Nodes : WriteRecord(n) \/ WriteFails(n)
            BY <2>4, <2>a DEF RoundStep, RoundTimesOut, BeginRound, ProbeNodes, ListSites,
               ProbeSites, EndRound, Decide
        <3>2. ~(round.sites[s].pub.on /\ ActiveSeen(round, s) # {})
            BY <3>1, PoolWrite
        <3>3. ActiveSeen(round, s) = ActiveAssigned(s)
            BY DEF ActiveSeen, ActiveAssigned, Assigned, ActiveInView
        <3> QED
            BY <3>2, <3>3
    <2>5. CASE UNCHANGED vars
        BY <2>5, <2>a DEF vars
    <2> QED
        BY <2>1, <2>2, <2>3, <2>4, <2>5 DEF Next
<1>5. Spec => [][Kept]_vars
    BY <1>1, <1>3, <1>4, UninstallInvariant, PTL DEF Spec
<1> QED
    BY <1>5 DEF KeepsPool

=============================================================================
