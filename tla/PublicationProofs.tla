-------------------------- MODULE PublicationProofs --------------------------
(***************************************************************************)
(* Proofs about Publication, for any sites, nodes, editors and bounds and  *)
(* any choice of Operations: type correctness, the safety of               *)
(* confirmations, the exclusion of upgrades and confirmations, that a site *)
(* being deleted is never published, that the result of a deletion is      *)
(* final, and that what nodes are to run is what was published.            *)
(***************************************************************************)
EXTENDS Publication, TLAPS

-----------------------------------------------------------------------------
\* Progress(t, u, bound): task u is task t after some of its pending rows
\* were settled, a row only as succeeded when its target is within bound, and
\* perhaps after it ended.
Settled(r, q, b) ==
    /\ r.st = "pending"
    /\ q.target = r.target
    /\ q.st \in {"succeeded", "failed", "timed_out"}
    /\ q.st = "succeeded" => r.target <= b

Progress(t, u, bound) ==
    /\ u \in Task
    /\ ActiveTask(u) => ActiveTask(t)
    /\ \A n \in Nodes : u.rows[n] = t.rows[n] \/ Settled(t.rows[n], u.rows[n], bound[n])

\* What settles a row never reopens it: progress composes.
LEMMA ProgressTransitive ==
    ASSUME NEW t \in Task, NEW u, NEW v, NEW bound,
           Progress(t, u, bound), Progress(u, v, bound)
    PROVE  Progress(t, v, bound)
BY DEF Progress, Settled, ActiveTask

\* A structured report settles rows the edge has really reached.
LEMMA RecordProgress ==
    ASSUME NEW t \in Task, NEW n \in Nodes, NEW report \in Report,
           NEW bound \in [Nodes -> Nat], report.ok => report.version <= bound[n]
    PROVE  Progress(t, RecordPublishApply(t, n, report), bound)
<1>1. CASE ActiveTask(t) /\ t.rows[n].st = "pending" /\ t.rows[n].target <= report.version
  <2> DEFINE st == IF report.ok THEN "succeeded" ELSE "failed"
             u == [t EXCEPT !.rows[n].st = st]
  <2>1. RecordPublishApply(t, n, report) = u
    BY <1>1 DEF RecordPublishApply
  <2>2. u \in Task /\ u.st = t.st
    BY DEF Task, Row, RowStatus
  <2>3. \A m \in Nodes : m # n => u.rows[m] = t.rows[m]
    BY DEF Task
  <2>4. u.rows[n] = [target |-> t.rows[n].target, st |-> st]
    BY DEF Task, Row
  <2>5. Settled(t.rows[n], u.rows[n], bound[n])
    BY <1>1, <2>4 DEF Settled, Task, Row, Report
  <2> QED
    BY <1>1, <2>1, <2>2, <2>3, <2>5 DEF Progress, ActiveTask
<1>2. CASE ~(ActiveTask(t) /\ t.rows[n].st = "pending" /\ t.rows[n].target <= report.version)
  BY <1>2 DEF RecordPublishApply, Progress
<1> QED
  BY <1>1, <1>2

\* So do the applied versions the heartbeats carry.
LEMMA ConfirmProgress ==
    ASSUME NEW t \in Task, NEW applied \in [Nodes -> Nat], NEW bound \in [Nodes -> Nat],
           \A n \in Nodes : applied[n] <= bound[n]
    PROVE  /\ Progress(t, ConfirmApplied(t, applied), bound)
           /\ ConfirmApplied(t, applied).st = t.st
           /\ ConfirmApplied(t, applied).expired = t.expired
<1> DEFINE u == ConfirmApplied(t, applied)
<1>1. u \in Task /\ u.st = t.st /\ u.expired = t.expired
  BY DEF ConfirmApplied, Task, Row, RowStatus
<1>2. ASSUME NEW n \in Nodes
      PROVE  u.rows[n] = t.rows[n] \/ Settled(t.rows[n], u.rows[n], bound[n])
  BY DEF ConfirmApplied, Settled, Task, Row
<1> QED
  BY <1>1, <1>2 DEF Progress, ActiveTask

\* The deadline settles rows as timed out, never as succeeded.
LEMMA TimeOutProgress ==
    ASSUME NEW t \in Task, NEW bound
    PROVE  /\ Progress(t, TimeOutPending(t), bound)
           /\ TimeOutPending(t).st = t.st
<1> DEFINE u == TimeOutPending(t)
<1>1. u \in Task /\ u.st = t.st
  BY DEF TimeOutPending, Task, Row, RowStatus
<1>2. ASSUME NEW n \in Nodes
      PROVE  u.rows[n] = t.rows[n] \/ Settled(t.rows[n], u.rows[n], bound[n])
  BY DEF TimeOutPending, Settled, Task, Row
<1> QED
  BY <1>1, <1>2 DEF Progress, ActiveTask

\* Changing only the status of a task to an ended one is progress.
LEMMA EndProgress ==
    ASSUME NEW t \in Task, NEW st \in {"succeeded", "partial", "failed"}, NEW bound
    PROVE  Progress(t, [t EXCEPT !.st = st], bound)
BY DEF Progress, ActiveTask, Task, TaskStatus

\* reconcilePublishTask in all its branches.
LEMMA ReconcileProgress ==
    ASSUME NEW t \in Task, NEW applied \in [Nodes -> Nat], NEW bound \in [Nodes -> Nat],
           \A n \in Nodes : applied[n] <= bound[n]
    PROVE  Progress(t, ReconcileTask(t, applied), bound)
<1> DEFINE c == ConfirmApplied(t, applied)
           d == TimeOutPending(c)
           r == ReconcileTask(t, applied)
<1>1. Progress(t, c, bound) /\ c \in Task
  BY ConfirmProgress DEF Progress
<1>2. Progress(c, d, bound) /\ d \in Task
  BY <1>1, TimeOutProgress DEF Progress
<1>3. Progress(t, d, bound)
  BY <1>1, <1>2, ProgressTransitive
<1>4. ASSUME NEW x \in Task, Progress(t, x, bound)
      PROVE  /\ Progress(t, [x EXCEPT !.st = SettledStatus(x)], bound)
             /\ Progress(t, [x EXCEPT !.st = "failed"], bound)
  <2>1. SettledStatus(x) \in {"succeeded", "partial", "failed"}
    BY DEF SettledStatus
  <2> QED
    BY <1>4, <2>1, EndProgress, ProgressTransitive
<1>5. Progress(t, t, bound)
  BY DEF Progress
<1>6. \/ r = t
      \/ r = c
      \/ r = [c EXCEPT !.st = "failed"]
      \/ r = [c EXCEPT !.st = SettledStatus(c)]
      \/ r = [d EXCEPT !.st = SettledStatus(d)]
  BY DEF ReconcileTask
<1> QED
  BY <1>1, <1>2, <1>3, <1>4, <1>5, <1>6


-----------------------------------------------------------------------------
\* The request that holds desiredStateMu: what it works on, and, between the
\* rendering and the transaction, that nobody else numbers desired states.
PublisherOK ==
    publisher # Idle =>
        /\ publisher.kind # "rebuild" => publisher.site \in Sites
        /\ publisher.pc \in {"create", "mark", "finish"} => publisher.kind = "publish"
        /\ publisher.kind = "remove" =>
            deleter # Idle /\ deleter.pc = "staging" /\ deleter.site = publisher.site
        /\ publisher.pc = "commit" =>
            /\ publisher.targets \subseteq Updated(publisher.updates)
            /\ \A n \in Nodes : publisher.updates[n] # Unset =>
                publisher.updates[n].version = desired[n].version + 1

TypeInv == TypeOK /\ PublisherOK

\* The rendered configuration of a node consists of blocks.
LEMMA RenderType ==
    ASSUME NEW S \in SUBSET Sites, NEW M, \A s \in S : M[s] \in Material, NEW n \in Nodes
    PROVE  Render(S, M, n) \subseteq Block
BY DEF Render, Material, Block

\* renderNodeStateUpdates makes states, and numbers each changed one next.
LEMMA NodeStateUpdatesType ==
    ASSUME desired \in [Nodes -> State], NEW S \in SUBSET Sites, NEW M,
           \A s \in S : M[s] \in Material, NEW affected
    PROVE  /\ NodeStateUpdates(S, M, affected) \in [Nodes -> State]
           /\ \A n \in Nodes : NodeStateUpdates(S, M, affected)[n] # Unset =>
                NodeStateUpdates(S, M, affected)[n].version = desired[n].version + 1
<1> DEFINE u == NodeStateUpdates(S, M, affected)
           r(n) == [version |-> NextVersion(n), config |-> Render(S, M, n)]
<1>1. \A n \in Nodes : u[n] = Unset \/ u[n] = r(n)
  BY DEF NodeStateUpdates
<1>2. \A n \in Nodes : r(n) \in State /\ r(n).version = desired[n].version + 1
  BY RenderType DEF State, NextVersion
<1>3. Unset \in State
  BY DEF Unset, State
<1>4. u = [n \in Nodes |-> u[n]]
  BY DEF NodeStateUpdates
<1> QED
  BY <1>1, <1>2, <1>3, <1>4

\* The tables are typed at the start.
LEMMA TypeInit == Init => TypeInv
<1> SUFFICES ASSUME Init PROVE TypeInv
  OBVIOUS
<1> USE DEF Init
<1>1. PublisherOK /\ publisher \in PublisherType
  BY DEF PublisherOK, PublisherType
<1>2. Unset \in State /\ NoReport \in Report
  BY DEF Unset, State, NoReport, Report
<1>3. NoTask \in Task
  BY DEF NoTask, Task, NoRow, Row, RowStatus, TaskStatus
<1>4. task \in [Kinds -> [Sites -> Task]]
  BY <1>3
<1>5. /\ desired \in [Nodes -> State]
      /\ edge \in [Nodes -> [applied : Nat, config : SUBSET Block,
                             kept : SUBSET Block, report : Report]]
  BY <1>2
<1>6. status \in [Nodes -> NodeStatus]
  BY ConstantsAssumption DEF NodeStatus
<1> QED
  BY <1>1, <1>4, <1>5, <1>6 DEF TypeInv, TypeOK

SiteType == SiteRow \cup {Absent, Deleted}
EditType ==
    {NoEdit} \cup [op : {"update", "invalidate", "publish"}, site : Sites, read : SiteRow]

\* The steps of the requests that edit drafts.
LEMMA TypeDraft ==
    ASSUME TypeInv, Draft PROVE TypeInv'
<1>a. site \in [Sites -> SiteType] /\ edit \in [Editors -> EditType]
  BY DEF TypeInv, TypeOK, SiteType, EditType
<1>b. ASSUME NEW s \in Sites, site[s].row = "present" PROVE site[s] \in SiteRow
  BY <1>a, <1>b DEF SiteType, Absent, Deleted
<1>c. ASSUME site' \in [Sites -> SiteType], edit' \in [Editors -> EditType],
             UNCHANGED <<pub, desired, status, reported, upgrading, task, phase,
                         publisher, deleter, edge, late>>
      PROVE  TypeInv'
  BY <1>c DEF TypeInv, TypeOK, PublisherOK, SiteType, EditType
<1>d. NoEdit \in EditType
  BY DEF EditType
<1>1. ASSUME NEW s \in Sites, CreateSite(s) PROVE TypeInv'
  <2>1. ASSUME NEW nodes \in SUBSET Assignable, NEW o \in Origins
        PROVE NewSite(nodes, o) \in SiteType
    BY DEF NewSite, SiteType, SiteRow, Material, Assignable
  <2>2. site' \in [Sites -> SiteType]
    BY <1>a, <1>1, <2>1 DEF CreateSite
  <2> QED
    BY <1>a, <1>1, <1>c, <2>2 DEF CreateSite
<1>2. ASSUME NEW s \in Sites, StoreCertificate(s)
      PROVE  site[s] \in SiteRow /\ site' \in [Sites -> SiteType]
  <2>1. site[s] \in SiteRow
    BY <1>b, <1>2 DEF StoreCertificate
  <2>2. site'[s] \in SiteRow
    BY <1>a, <1>2, <2>1 DEF StoreCertificate, SiteRow, Material
  <2> QED
    BY <1>a, <1>2, <2>1, <2>2 DEF StoreCertificate, SiteType
<1>6. ASSUME NEW s \in Sites, SaveCertificate(s) PROVE TypeInv'
  BY <1>a, <1>c, <1>2, <1>6 DEF SaveCertificate, StoreCertificate
<1>7. ASSUME NEW e \in Editors, NEW s \in Sites, RenewCertificate(e, s) PROVE TypeInv'
  <2>1. site[s] \in SiteRow /\ site' \in [Sites -> SiteType]
    BY <1>2, <1>7 DEF RenewCertificate
  <2>2. edit' \in [Editors -> EditType]
    BY <1>a, <1>7, <2>1 DEF RenewCertificate, EditType
  <2> QED
    BY <1>c, <1>7, <2>1, <2>2 DEF RenewCertificate, StoreCertificate
<1>3. ASSUME NEW e \in Editors, UpdateSite(e) PROVE TypeInv'
  <2> DEFINE s == edit[e].site
             old == edit[e].read
  <2>1. edit[e].op = "update" /\ edit' = [edit EXCEPT ![e] = NoEdit]
    BY <1>3 DEF UpdateSite
  <2>2. s \in Sites /\ old \in SiteRow
    BY <1>a, <2>1 DEF EditType, NoEdit
  <2>3. ASSUME site[s].row = "present", NEW nodes \in SUBSET Assignable,
               NEW o \in Origins, NEW on \in BOOLEAN
        PROVE  RowWritten(s, old, nodes, on, o) \in SiteType
    <3>1. site[s] \in SiteRow
      BY <1>b, <2>2, <2>3
    <3> QED
      BY <2>2, <3>1 DEF RowWritten, SiteType, SiteRow, Material, Assignable
  <2>4. site' \in [Sites -> SiteType]
    BY <1>a, <1>3, <2>3 DEF UpdateSite
  <2>5. edit' \in [Editors -> EditType]
    BY <1>a, <1>d, <2>1
  <2> QED
    BY <1>3, <1>c, <2>4, <2>5 DEF UpdateSite
<1>4. ASSUME NEW e \in Editors, InvalidateSiteCache(e) PROVE TypeInv'
  <2> DEFINE s == edit[e].site
  <2>1. edit[e].op = "invalidate"
    BY <1>4 DEF InvalidateSiteCache
  <2>2. s \in Sites /\ edit[e] # NoEdit
    BY <1>a, <2>1 DEF EditType, NoEdit
  <2>3. ASSUME site[s].row = "present",
               site' = [site EXCEPT ![s].draft.gen = @ + 1, ![s].cv = @ + 1,
                                      ![s].published = FALSE]
        PROVE  site' \in [Sites -> SiteType]
    <3>1. site[s] \in SiteRow
      BY <1>b, <2>2, <2>3
    <3>2. /\ site' = [x \in Sites |-> site'[x]]
          /\ \A x \in Sites : x # s => site'[x] = site[x]
      BY <1>a, <2>2, <2>3
    <3>3. [site[s].draft EXCEPT !.gen = @ + 1] \in Material
      BY <3>1 DEF SiteRow, Material
    <3>4. site'[s] = [row |-> "present", draft |-> [site[s].draft EXCEPT !.gen = @ + 1],
                      cv |-> site[s].cv + 1, published |-> FALSE]
      BY <1>a, <2>2, <2>3, <3>1 DEF SiteRow
    <3>5. site'[s] \in SiteRow
      BY <3>1, <3>3, <3>4 DEF SiteRow
    <3> QED
      BY <1>a, <3>2, <3>5 DEF SiteType
  <2>4. site' \in [Sites -> SiteType]
    BY <1>a, <1>4, <2>3 DEF InvalidateSiteCache
  <2>5. edit' \in [Editors -> EditType]
    <3>1. [edit[e] EXCEPT !.op = "publish"] \in EditType
      BY <1>a, <2>1, <2>2 DEF EditType, NoEdit
    <3>2. \/ edit' = [edit EXCEPT ![e] = [edit[e] EXCEPT !.op = "publish"]]
          \/ edit' = [edit EXCEPT ![e] = NoEdit]
      BY <1>4 DEF InvalidateSiteCache
    <3> QED
      BY <1>a, <1>d, <3>1, <3>2
  <2> QED
    BY <1>4, <1>c, <2>4, <2>5 DEF InvalidateSiteCache
<1>5. ASSUME NEW e \in Editors, NEW s \in Sites, NEW op \in {"update", "invalidate"},
             BeginEdit(e, s, op)
      PROVE  TypeInv'
  <2>1. site[s] \in SiteRow
    BY <1>b, <1>5 DEF BeginEdit
  <2>2. edit' \in [Editors -> EditType]
    BY <1>a, <1>5, <2>1 DEF BeginEdit, EditType
  <2> QED
    BY <1>a, <1>5, <1>c, <2>2 DEF BeginEdit
<1> QED
  BY <1>1, <1>3, <1>4, <1>5, <1>6, <1>7 DEF Draft

\* What PublisherOK says of a record the publisher can be.
LEMMA HoldingType ==
    ASSUME NEW pc \in {"create", "prepare"}, NEW kind \in {"publish", "remove", "rebuild"},
           NEW s \in Sites \cup {NoSite}, NEW scope \in SUBSET Nodes, NEW cv \in Nat
    PROVE  Holding(pc, kind, s, scope, cv) \in PublisherType \ {Idle}
<1>1. Unset \in State
  BY DEF Unset, State
<1> QED
  BY <1>1 DEF Holding, PublisherType, Idle

\* The status and the deadline of a task are independent of its rows.
LEMMA TaskFieldsType ==
    ASSUME NEW t \in Task, NEW st \in TaskStatus
    PROVE  [t EXCEPT !.st = st] \in Task /\ [t EXCEPT !.expired = TRUE] \in Task
BY DEF Task

\* The operators on tasks keep their type.
LEMMA TaskOperatorsType ==
    ASSUME TypeOK
    PROVE  /\ NoTask \in Task
           /\ ReconcilePublishTasks(task, reported) \in [Kinds -> [Sites -> Task]]
           /\ \A k \in Kinds, s \in Sites, st \in TaskStatus :
                [task EXCEPT ![k][s].st = st] \in [Kinds -> [Sites -> Task]]
           /\ \A k \in Kinds, s \in Sites, t \in Task :
                [task EXCEPT ![k][s] = t] \in [Kinds -> [Sites -> Task]]
<1>0. task \in [Kinds -> [Sites -> Task]] /\ reported \in [Nodes -> Nat]
  BY DEF TypeOK
<1>1. NoTask \in Task
  BY DEF NoTask, Task, NoRow, Row, RowStatus, TaskStatus
<1>2. \A s \in Sites : ReconcileTask(task["publish"][s], reported) \in Task
  BY <1>0, ReconcileProgress DEF Progress, Kinds
<1>3. ReconcilePublishTasks(task, reported) \in [Kinds -> [Sites -> Task]]
  BY <1>0, <1>2 DEF ReconcilePublishTasks
<1>4. ASSUME NEW k \in Kinds, NEW s \in Sites, NEW t \in Task
      PROVE  [task EXCEPT ![k][s] = t] \in [Kinds -> [Sites -> Task]]
  BY <1>0
<1>5. ASSUME NEW k \in Kinds, NEW s \in Sites, NEW st \in TaskStatus
      PROVE  [task EXCEPT ![k][s].st = st] \in [Kinds -> [Sites -> Task]]
  <2>1. [task[k][s] EXCEPT !.st = st] \in Task
    BY <1>0, TaskFieldsType
  <2> QED
    BY <1>0, <2>1
<1> QED
  BY <1>1, <1>3, <1>4, <1>5

\* createPublishTaskNodesTx adds rows of the right type.
LEMMA WithTargetsType ==
    ASSUME NEW t \in Task, publisher.updates \in [Nodes -> State]
    PROVE  WithTargets(t) \in Task
BY DEF WithTargets, Task, Row, RowStatus, State

\* An error of the operation ends the task it works for.
LEMMA AbortType ==
    ASSUME TypeInv, publisher # Idle, Abort
    PROVE  /\ publisher' = Idle
           /\ task' \in [Kinds -> [Sites -> Task]]
           /\ deleter' \in {deleter, Idle}
<1>1. publisher.kind \in {"publish", "remove", "rebuild"}
  BY DEF TypeInv, TypeOK, PublisherType
<1>2. CASE publisher.kind = "publish"
  <2>1. publisher.site \in Sites
    BY <1>2 DEF TypeInv, PublisherOK
  <2>2. task' = [task EXCEPT !["publish"][publisher.site].st = "failed"]
    BY <1>2 DEF Abort
  <2> QED
    BY <1>2, <2>1, <2>2, TaskOperatorsType DEF Abort, TypeInv, TaskStatus, Kinds
<1>3. CASE publisher.kind = "remove"
  <2>1. publisher.site \in Sites
    BY <1>3 DEF TypeInv, PublisherOK
  <2>2. task' = [task EXCEPT !["delete"][publisher.site].st = "failed"]
    BY <1>3 DEF Abort
  <2> QED
    BY <1>3, <2>1, <2>2, TaskOperatorsType DEF Abort, TypeInv, TaskStatus, Kinds
<1>4. CASE publisher.kind = "rebuild"
  BY <1>4 DEF Abort, TypeInv, TypeOK
<1> QED
  BY <1>1, <1>2, <1>3, <1>4

\* The plan of the holder of the mutex is rendered from typed materials.
LEMMA PlanType ==
    ASSUME TypeInv, publisher # Idle, Preparable(Plan)
    PROVE  /\ Plan.sites \in SUBSET Sites
           /\ \A s \in Plan.sites : Plan.materials[s] \in Material
<1>1. \A s \in Published : s \in Sites /\ pub[s] \in Material
  BY DEF TypeInv, TypeOK, Published
<1>2. publisher.kind \in {"publish", "remove", "rebuild"}
  BY DEF TypeInv, TypeOK, PublisherType
<1>3. CASE publisher.kind = "publish"
  <2> DEFINE s == publisher.site
  <2>1. s \in Sites /\ site[s].row = "present"
    BY <1>3 DEF TypeInv, PublisherOK, Preparable
  <2>2. site[s].draft \in Material
    <3>1. site[s] \in SiteRow \cup {Absent, Deleted}
      BY <2>1 DEF TypeInv, TypeOK
    <3> QED
      BY <2>1, <3>1 DEF SiteRow, Absent, Deleted
  <2>3. Plan.sites = Published \cup {s} /\ Plan.materials = Materials(s)
    BY <1>3 DEF Plan
  <2> QED
    BY <1>1, <2>1, <2>2, <2>3 DEF Materials
<1>4. CASE publisher.kind = "remove"
  BY <1>1, <1>4 DEF Plan
<1>5. CASE publisher.kind = "rebuild"
  BY <1>1, <1>5 DEF Plan
<1> QED
  BY <1>2, <1>3, <1>4, <1>5

\* The steps of the holder of desiredStateMu.
LEMMA TypePublish ==
    ASSUME TypeInv, Publish PROVE TypeInv'
<1>a. /\ publisher \in PublisherType
      /\ desired \in [Nodes -> State]
      /\ task \in [Kinds -> [Sites -> Task]]
      /\ deleter \in {Idle} \cup [pc : {"advance", "stage", "staging"}, site : Sites]
      /\ PublisherOK
  BY DEF TypeInv, TypeOK
<1>b. ASSUME UNCHANGED <<site, pub, desired, status, reported, upgrading, phase,
                         edit, edge, late>>,
             task' \in [Kinds -> [Sites -> Task]],
             deleter' \in {Idle} \cup [pc : {"advance", "stage", "staging"}, site : Sites],
             publisher' \in PublisherType, PublisherOK'
      PROVE  TypeInv'
  BY <1>b DEF TypeInv, TypeOK
<1>c. Idle \in PublisherType /\ (publisher' = Idle => PublisherOK')
  BY DEF PublisherType, PublisherOK
<1>d. ASSUME publisher.pc # "idle" PROVE publisher # Idle
  BY <1>d DEF Idle
<1>e. ASSUME NEW s \in Sites, TakeMutex(s) PROVE publisher' \in PublisherType /\ PublisherOK'
  <2>1. site[s].cv \in Nat
    BY <1>e DEF TakeMutex, TypeInv, TypeOK, SiteRow, Absent, Deleted
  <2>2. publisher' = Holding("create", "publish", s, {}, site[s].cv)
    BY <1>e DEF TakeMutex
  <2>3. publisher' \in PublisherType
    BY <2>1, <2>2, HoldingType
  <2>4. PublisherOK'
    BY <2>2 DEF PublisherOK, Holding
  <2> QED
    BY <2>3, <2>4
<1>1. ASSUME NEW s \in Sites, BeginPublishSite(s) PROVE TypeInv'
  BY <1>a, <1>b, <1>e, <1>1 DEF BeginPublishSite
<1>12. ASSUME NEW e \in Editors, PublishEdited(e) PROVE TypeInv'
  <2>1. edit \in [Editors -> EditType]
    BY DEF TypeInv, TypeOK, EditType
  <2>2. edit[e].site \in Sites /\ edit' = [edit EXCEPT ![e] = NoEdit]
    BY <1>12, <2>1 DEF PublishEdited, EditType, NoEdit
  <2>3. edit' \in [Editors -> EditType]
    BY <2>1, <2>2 DEF EditType
  <2>4. publisher' \in PublisherType /\ PublisherOK'
    BY <1>a, <1>e, <1>12, <2>2 DEF PublishEdited, PublisherOK
  <2> QED
    BY <1>12, <2>3, <2>4 DEF PublishEdited, TypeInv, TypeOK, EditType
<1>2. ASSUME NEW scope \in SUBSET Nodes, BeginRebuild(scope) PROVE TypeInv'
  <2>1. publisher' = Holding("prepare", "rebuild", NoSite, scope, 0)
    BY <1>2 DEF BeginRebuild
  <2>2. publisher' \in PublisherType
    BY <2>1, HoldingType
  <2>3. PublisherOK'
    BY <2>1 DEF PublisherOK, Holding
  <2> QED
    BY <1>a, <1>b, <1>2, <2>2, <2>3 DEF BeginRebuild
<1>3. CASE CreateOrGetActivePublishTask
  <2> DEFINE reconciled == ReconcilePublishTasks(task, reported)
  <2>1. publisher.pc = "create" /\ publisher # Idle
    BY <1>d, <1>3 DEF CreateOrGetActivePublishTask
  <2>2. publisher.site \in Sites
    BY <1>a, <2>1 DEF PublisherOK
  <2>3. reconciled \in [Kinds -> [Sites -> Task]] /\ NoTask \in Task
    BY TaskOperatorsType DEF TypeInv
  <2>4. [NoTask EXCEPT !.st = "queued"] \in Task
    BY <2>3, TaskFieldsType DEF TaskStatus
  <2>5. [reconciled EXCEPT !["publish"][publisher.site] = [NoTask EXCEPT !.st = "queued"]]
            \in [Kinds -> [Sites -> Task]]
    BY <2>3, <2>4
  <2>6. task' \in [Kinds -> [Sites -> Task]]
    BY <1>3, <2>3, <2>5 DEF CreateOrGetActivePublishTask
  <2>7. CASE publisher' = Idle
    BY <1>a, <1>b, <1>c, <1>3, <2>6, <2>7 DEF CreateOrGetActivePublishTask
  <2>8. CASE publisher' = [publisher EXCEPT !.pc = "mark"]
    <3>1. publisher' \in PublisherType
      BY <1>a, <2>1, <2>8 DEF PublisherType
    <3>2. PublisherOK'
      BY <1>a, <2>1, <2>8 DEF PublisherOK, PublisherType
    <3> QED
      BY <1>a, <1>b, <1>3, <2>6, <3>1, <3>2 DEF CreateOrGetActivePublishTask
  <2> QED
    BY <1>3, <2>7, <2>8 DEF CreateOrGetActivePublishTask
<1>4. CASE MarkApplying
  <2>1. publisher.pc = "mark" /\ publisher # Idle /\ publisher.site \in Sites
    BY <1>a, <1>d, <1>4 DEF MarkApplying, PublisherOK
  <2>2. task' \in [Kinds -> [Sites -> Task]]
    BY <1>4, <2>1, TaskOperatorsType DEF MarkApplying, TypeInv, TaskStatus, Kinds
  <2>3. publisher' \in PublisherType
    BY <1>a, <1>4, <2>1 DEF MarkApplying, PublisherType
  <2>4. PublisherOK'
    BY <1>a, <1>4, <2>1 DEF MarkApplying, PublisherOK, PublisherType
  <2> QED
    BY <1>a, <1>b, <1>4, <2>2, <2>3, <2>4 DEF MarkApplying
<1>5. CASE Prepare
  <2> DEFINE updates == NodeStateUpdates(Plan.sites, Plan.materials, Plan.affected)
             targets == {n \in Updated(updates) : status[n] = "active"}
  <2>1. publisher.pc = "prepare" /\ publisher # Idle /\ Preparable(Plan)
    BY <1>d, <1>5 DEF Prepare
  <2>2. /\ updates \in [Nodes -> State]
        /\ \A n \in Nodes : updates[n] # Unset => updates[n].version = desired[n].version + 1
    <3>1. Plan.sites \in SUBSET Sites /\ \A s \in Plan.sites : Plan.materials[s] \in Material
      BY <2>1, PlanType
    <3>2. \A S \in SUBSET Sites : \A M, affected :
            (\A s \in S : M[s] \in Material) =>
                /\ NodeStateUpdates(S, M, affected) \in [Nodes -> State]
                /\ \A n \in Nodes : NodeStateUpdates(S, M, affected)[n] # Unset =>
                    NodeStateUpdates(S, M, affected)[n].version = desired[n].version + 1
      BY <1>a, NodeStateUpdatesType
    <3> QED
      BY <3>1, <3>2
  <2>3. publisher' = [publisher EXCEPT !.pc = "commit", !.updates = updates,
                                       !.targets = targets]
    BY <1>5 DEF Prepare
  <2>4. targets \in SUBSET Nodes /\ targets \subseteq Updated(updates)
    BY DEF Updated
  <2> HIDE DEF updates, targets
  <2>5. publisher' \in PublisherType
    BY <1>a, <2>1, <2>2, <2>3, <2>4 DEF PublisherType
  <2>6. /\ publisher'.kind = publisher.kind /\ publisher'.site = publisher.site
        /\ publisher'.pc = "commit" /\ publisher'.updates = updates
        /\ publisher'.targets = targets
    BY <1>a, <2>1, <2>3 DEF PublisherType
  <2>7. desired' = desired /\ deleter' = deleter
    BY <1>5 DEF Prepare
  <2>8. PublisherOK'
    BY <1>a, <2>1, <2>2, <2>4, <2>6, <2>7 DEF PublisherOK, Updated
  <2> QED
    BY <1>a, <1>b, <1>5, <2>5, <2>8 DEF Prepare
<1>6. CASE PrepareFails
  <2>1. publisher # Idle
    BY <1>d, <1>6 DEF PrepareFails
  <2> QED
    BY <1>a, <1>b, <1>c, <1>6, <2>1, AbortType DEF PrepareFails
<1>7. CASE CommitSitePublication
  <2> DEFINE s == publisher.site
  <2>1. publisher.pc = "commit" /\ publisher.kind = "publish" /\ publisher # Idle
    BY <1>d, <1>7 DEF CommitSitePublication
  <2>2. s \in Sites /\ publisher.updates \in [Nodes -> State]
    BY <1>a, <2>1 DEF PublisherOK, PublisherType
  <2>3. site[s] \in SiteRow
    BY <1>7, <2>2 DEF CommitSitePublication, Committable, TypeInv, TypeOK, Absent, Deleted
  <2>4. task' \in [Kinds -> [Sites -> Task]]
    BY <1>a, <1>7, <2>2, WithTargetsType DEF CommitSitePublication
  <2>5. pub' \in [Sites -> Material \cup {NoPublication}]
    BY <1>7, <2>3 DEF CommitSitePublication, TypeInv, TypeOK, Snapshot, SiteRow
  <2>6. site'[s] \in SiteRow /\ site' \in [Sites -> SiteRow \cup {Absent, Deleted}]
    BY <1>7, <2>2, <2>3 DEF CommitSitePublication, TypeInv, TypeOK, SiteRow
  <2>7. desired' \in [Nodes -> State]
    BY <1>a, <1>7, <2>2 DEF CommitSitePublication, SaveNodeStates
  <2>8. publisher' \in PublisherType /\ PublisherOK'
    <3>1. CASE publisher' = Idle
      BY <1>c, <3>1
    <3>2. CASE publisher' = [publisher EXCEPT !.pc = "finish"]
      BY <1>a, <2>1, <2>2, <3>2 DEF PublisherType, PublisherOK, Idle
    <3> QED
      BY <1>7, <3>1, <3>2 DEF CommitSitePublication
  <2> QED
    BY <1>7, <2>4, <2>5, <2>6, <2>7, <2>8 DEF CommitSitePublication, TypeInv, TypeOK
<1>8. CASE FinishWithoutTargets
  <2>1. publisher.pc = "finish" /\ publisher # Idle /\ publisher.site \in Sites
    BY <1>a, <1>d, <1>8 DEF FinishWithoutTargets, PublisherOK
  <2>2. task' \in [Kinds -> [Sites -> Task]]
    BY <1>8, <2>1, TaskOperatorsType DEF FinishWithoutTargets, TypeInv, TaskStatus, Kinds
  <2> QED
    BY <1>a, <1>b, <1>c, <1>8, <2>2 DEF FinishWithoutTargets
<1>9. CASE CommitRebuild
  <2>1. publisher # Idle
    BY <1>d, <1>9 DEF CommitRebuild
  <2>2. desired' \in [Nodes -> State]
    BY <1>a, <1>9, <2>1 DEF CommitRebuild, SaveNodeStates, PublisherType
  <2> QED
    BY <1>c, <1>9, <2>2 DEF CommitRebuild, TypeInv, TypeOK
<1>10. CASE StageSiteDeletion
  <2> DEFINE s == publisher.site
  <2>1. publisher.pc = "commit" /\ publisher.kind = "remove" /\ publisher # Idle
    BY <1>d, <1>10 DEF StageSiteDeletion
  <2>2. s \in Sites /\ publisher.updates \in [Nodes -> State]
    BY <1>a, <2>1 DEF PublisherOK, PublisherType
  <2>3. [WithTargets(task["delete"][s]) EXCEPT !.st = "applying"] \in Task
    BY <1>a, <2>2, WithTargetsType, TaskFieldsType DEF Kinds, TaskStatus
  <2>4. task' \in [Kinds -> [Sites -> Task]]
    BY <1>a, <1>10, <2>2, <2>3 DEF StageSiteDeletion
  <2>5. desired' \in [Nodes -> State]
    BY <1>a, <1>10, <2>2 DEF StageSiteDeletion, SaveNodeStates
  <2>6. phase' \in [Sites -> {"none", "withdrawing_dns", "waiting_for_edges", "finalizing"}]
    BY <1>10 DEF StageSiteDeletion, TypeInv, TypeOK
  <2>7. deleter' \in {Idle} \cup [pc : {"advance", "stage", "staging"}, site : Sites]
    BY <1>a, <1>10, <2>1 DEF StageSiteDeletion, PublisherOK
  <2> QED
    BY <1>c, <1>10, <2>4, <2>5, <2>6, <2>7 DEF StageSiteDeletion, TypeInv, TypeOK
<1>11. CASE CommitFails
  <2>1. publisher # Idle
    BY <1>d, <1>11 DEF CommitFails
  <2> QED
    BY <1>a, <1>b, <1>c, <1>11, <2>1, AbortType DEF CommitFails
<1> QED
  BY <1>1, <1>2, <1>3, <1>4, <1>5, <1>6, <1>7, <1>8, <1>9, <1>10, <1>11, <1>12
     DEF Publish, PublisherStep

DeleterType == {Idle} \cup [pc : {"advance", "stage", "staging"}, site : Sites]
PhaseType == {"none", "withdrawing_dns", "waiting_for_edges", "finalizing"}

\* SiteDeletionReady only settles rows of the delete task.
LEMMA DeletionRowsType ==
    ASSUME TypeOK, NEW s \in Sites PROVE DeletionRows(s) \in Task
<1>1. task["delete"][s] \in Task /\ reported \in [Nodes -> Nat]
  BY DEF TypeOK, Kinds
<1>2. ConfirmApplied(task["delete"][s], reported) \in Task
  BY <1>1, ConfirmProgress DEF Progress
<1>3. TimeOutPending(ConfirmApplied(task["delete"][s], reported)) \in Task
  BY <1>2, TimeOutProgress DEF Progress
<1> QED
  BY <1>2, <1>3 DEF DeletionRows

\* The steps of the holder of SiteDeletionManager.mu.
LEMMA TypeDelete ==
    ASSUME TypeInv, Delete PROVE TypeInv'
<1>a. /\ task \in [Kinds -> [Sites -> Task]] /\ NoTask \in Task
      /\ site \in [Sites -> SiteType]
      /\ phase \in [Sites -> PhaseType]
      /\ deleter \in DeleterType
      /\ publisher \in PublisherType
      /\ PublisherOK
  BY TaskOperatorsType DEF TypeInv, TypeOK, DeleterType, PhaseType, SiteType
<1>b. ASSUME UNCHANGED <<desired, status, reported, upgrading, publisher,
                         edit, edge, late>>,
             deleter.pc # "staging",
             site' \in [Sites -> SiteType],
             pub' \in [Sites -> Material \cup {NoPublication}],
             task' \in [Kinds -> [Sites -> Task]],
             phase' \in [Sites -> PhaseType],
             deleter' \in DeleterType
      PROVE  TypeInv'
  <2>1. PublisherOK'
    BY <1>a, <1>b DEF PublisherOK, Updated
  <2> QED
    BY <1>b, <2>1 DEF TypeInv, TypeOK, DeleterType, PhaseType, SiteType
<1>c. Idle.pc = "idle" /\ Idle \in DeleterType
  BY DEF Idle, DeleterType
<1>d. ASSUME deleter.pc # "idle" PROVE deleter.site \in Sites
  BY <1>a, <1>d, <1>c DEF DeleterType
<1>e. pub \in [Sites -> Material \cup {NoPublication}]
  BY DEF TypeInv, TypeOK
<1>f. ASSUME NEW k \in Kinds, NEW s \in Sites, NEW t \in Task
      PROVE  [task EXCEPT ![k][s] = t] \in [Kinds -> [Sites -> Task]]
  BY TaskOperatorsType DEF TypeInv
<1>g. ASSUME NEW k \in Kinds, NEW s \in Sites, NEW st \in TaskStatus
      PROVE  [task EXCEPT ![k][s].st = st] \in [Kinds -> [Sites -> Task]]
  BY TaskOperatorsType DEF TypeInv
<1>h. ASSUME deleter.pc # "idle", FailSiteDeletion
      PROVE  task' \in [Kinds -> [Sites -> Task]] /\ deleter' \in DeleterType
  BY <1>c, <1>d, <1>g, <1>h DEF FailSiteDeletion, Kinds, TaskStatus
<1>1. ASSUME NEW s \in Sites, BeginSiteDeletion(s) PROVE TypeInv'
  <2>1. [NoTask EXCEPT !.st = "queued"] \in Task
    BY <1>a, TaskFieldsType DEF TaskStatus
  <2>2. task' \in [Kinds -> [Sites -> Task]]
    BY <1>1, <1>f, <2>1 DEF BeginSiteDeletion, Kinds
  <2>3. site[s] \in SiteRow
    BY <1>a, <1>1 DEF BeginSiteDeletion, SiteType, Absent, Deleted
  <2>4. site'[s] \in SiteRow
    BY <1>a, <1>1, <2>3 DEF BeginSiteDeletion, SiteRow, Material
  <2>5. site' \in [Sites -> SiteType]
    BY <1>a, <1>1, <2>4 DEF BeginSiteDeletion, SiteType
  <2>6. phase' \in [Sites -> PhaseType]
    BY <1>a, <1>1 DEF BeginSiteDeletion, PhaseType
  <2>7. deleter' \in DeleterType
    BY <1>1 DEF BeginSiteDeletion, DeleterType
  <2>8. deleter.pc # "staging"
    BY <1>c, <1>1 DEF BeginSiteDeletion
  <2> QED
    BY <1>b, <1>e, <1>1, <2>2, <2>5, <2>6, <2>7, <2>8 DEF BeginSiteDeletion
<1>2. ASSUME NEW s \in Sites, ResumeSiteDeletion(s) PROVE TypeInv'
  <2>1. deleter' \in DeleterType /\ deleter.pc # "staging"
    BY <1>c, <1>2 DEF ResumeSiteDeletion, DeleterType
  <2> QED
    BY <1>a, <1>b, <1>e, <1>2, <2>1 DEF ResumeSiteDeletion
<1>3. CASE WithdrawDNS
  <2>1. deleter.pc = "advance" /\ deleter.site \in Sites /\ deleter # Idle
    BY <1>c, <1>d, <1>3 DEF WithdrawDNS
  <2>2. task' \in [Kinds -> [Sites -> Task]]
    <3>1. [task EXCEPT !["delete"][deleter.site].st = "applying"] \in [Kinds -> [Sites -> Task]]
      BY <1>g, <2>1 DEF Kinds, TaskStatus
    <3> QED
      BY <1>h, <1>3, <2>1, <3>1 DEF WithdrawDNS
  <2>3. deleter' \in DeleterType
    BY <1>a, <1>h, <1>3, <2>1 DEF WithdrawDNS, DeleterType
  <2> QED
    BY <1>a, <1>b, <1>e, <1>3, <2>1, <2>2, <2>3 DEF WithdrawDNS
<1>4. CASE BeginStageSiteRemoval
  <2>1. deleter.pc = "stage" /\ deleter.site \in Sites /\ deleter # Idle
    BY <1>c, <1>d, <1>4 DEF BeginStageSiteRemoval
  <2>2. deleter' \in DeleterType /\ deleter'.pc = "staging"
        /\ deleter'.site = deleter.site /\ deleter' # Idle
    BY <1>a, <1>c, <1>4, <2>1 DEF BeginStageSiteRemoval, DeleterType
  <2>3. publisher' = Holding("prepare", "remove", deleter.site, {}, 0)
    BY <1>4 DEF BeginStageSiteRemoval
  <2>4. publisher' \in PublisherType
    BY <2>1, <2>3, HoldingType
  <2>5. PublisherOK'
    BY <2>1, <2>2, <2>3 DEF PublisherOK, Holding
  <2> QED
    BY <1>4, <2>2, <2>4, <2>5 DEF BeginStageSiteRemoval, TypeInv, TypeOK, DeleterType
<1>5. ASSUME SiteDeletionWaits \/ SiteDeletionFails \/ SiteDeletionConfirmed
      PROVE  TypeInv'
  <2> DEFINE t == DeletionRows(deleter.site)
  <2>1. deleter.pc = "advance" /\ deleter.site \in Sites
    BY <1>d, <1>5 DEF SiteDeletionWaits, SiteDeletionFails, SiteDeletionConfirmed,
                      AwaitingEdges
  <2>2. t \in Task
    BY <2>1, DeletionRowsType DEF TypeInv
  <2> HIDE DEF t
  <2>3. \A st \in TaskStatus : [t EXCEPT !.st = st] \in Task
    BY <2>2, TaskFieldsType
  <2>4. \/ task' = [task EXCEPT !["delete"][deleter.site] = t]
        \/ \E st \in TaskStatus :
                task' = [task EXCEPT !["delete"][deleter.site] = [t EXCEPT !.st = st]]
    BY <1>5 DEF SiteDeletionWaits, SiteDeletionFails, SiteDeletionConfirmed, t, TaskStatus
  <2>5. task' \in [Kinds -> [Sites -> Task]]
    <3>1. \E u \in Task : task' = [task EXCEPT !["delete"][deleter.site] = u]
      BY <2>2, <2>3, <2>4
    <3>2. PICK u \in Task : task' = [task EXCEPT !["delete"][deleter.site] = u]
      BY <3>1
    <3> QED
      BY <1>f, <2>1, <3>2 DEF Kinds
  <2>6. deleter' \in DeleterType
    BY <1>a, <1>c, <1>5 DEF SiteDeletionWaits, SiteDeletionFails, SiteDeletionConfirmed
  <2>7. phase' \in [Sites -> PhaseType]
    BY <1>a, <1>5 DEF SiteDeletionWaits, SiteDeletionFails, SiteDeletionConfirmed, PhaseType
  <2> QED
    BY <1>a, <1>b, <1>e, <1>5, <2>1, <2>5, <2>6, <2>7
       DEF SiteDeletionWaits, SiteDeletionFails, SiteDeletionConfirmed, AwaitingEdges
<1>6. CASE CompleteSiteDeletion
  <2>1. deleter.pc = "advance" /\ deleter.site \in Sites
    BY <1>d, <1>6 DEF CompleteSiteDeletion
  <2>2. task' \in [Kinds -> [Sites -> Task]] /\ deleter' \in DeleterType
    <3>1. [task EXCEPT !["delete"][deleter.site].st = "succeeded"] \in [Kinds -> [Sites -> Task]]
      BY <1>g, <2>1 DEF Kinds, TaskStatus
    <3> QED
      BY <1>c, <1>h, <1>6, <2>1, <3>1 DEF CompleteSiteDeletion
  <2>3. /\ site' \in [Sites -> SiteType]
        /\ pub' \in [Sites -> Material \cup {NoPublication}]
        /\ phase' \in [Sites -> PhaseType]
    BY <1>a, <1>e, <1>6 DEF CompleteSiteDeletion, SiteType, PhaseType
  <2> QED
    BY <1>b, <1>6, <2>1, <2>2, <2>3 DEF CompleteSiteDeletion
<1> QED
  BY <1>1, <1>2, <1>3, <1>4, <1>5, <1>6 DEF Delete, DeleterStep

\* Node status, upgrades, deadlines, reconciliation and crashes.
LEMMA TypeControl ==
    ASSUME TypeInv, Control PROVE TypeInv'
<1>1. ASSUME NEW n \in Nodes, NEW st \in NodeStatus, SetNodeStatus(n, st) PROVE TypeInv'
  BY <1>1 DEF SetNodeStatus, TypeInv, TypeOK, PublisherOK
<1>2. ASSUME NEW n \in Nodes, CreateNodeUpgrade(n) \/ EndNodeUpgrade(n) PROVE TypeInv'
  BY <1>2 DEF CreateNodeUpgrade, EndNodeUpgrade, TypeInv, TypeOK, PublisherOK
<1>3. ASSUME NEW k \in Kinds, NEW s \in Sites, DeadlinePasses(k, s) PROVE TypeInv'
  <2>1. task[k][s] \in Task /\ task \in [Kinds -> [Sites -> Task]]
    BY DEF TypeInv, TypeOK
  <2>2. [task[k][s] EXCEPT !.expired = TRUE] \in Task
    BY <2>1, TaskFieldsType DEF Task
  <2>3. task' \in [Kinds -> [Sites -> Task]]
    BY <1>3, <2>1, <2>2 DEF DeadlinePasses
  <2> QED
    BY <1>3, <2>3 DEF DeadlinePasses, TypeInv, TypeOK, PublisherOK
<1>4. CASE Reconcile
  BY <1>4, TaskOperatorsType DEF Reconcile, TypeInv, TypeOK, PublisherOK
<1>5. CASE ControlCrash
  BY <1>5 DEF ControlCrash, TypeInv, TypeOK, PublisherOK, PublisherType
<1> QED
  BY <1>1, <1>2, <1>3, <1>4, <1>5 DEF Control

EdgeType == [applied : Nat, config : SUBSET Block, kept : SUBSET Block,
             report : Report]

\* Recording a heartbeat keeps the tables typed.
LEMMA RecordType ==
    ASSUME TypeOK, NEW h \in Heartbeat, Record(h)
    PROVE  /\ reported' \in [Nodes -> Nat]
           /\ task' \in [Kinds -> [Sites -> Task]]
           /\ status' \in [Nodes -> NodeStatus]
<1> DEFINE settled == [k \in Kinds |-> [s \in Sites |->
                          RecordPublishApply(task[k][s], h.node, h.report)]]
           tasks == IF h.report = NoReport THEN task ELSE settled
           all == [n \in Nodes |-> h.report.version]
<1>1. /\ reported \in [Nodes -> Nat] /\ task \in [Kinds -> [Sites -> Task]]
      /\ status \in [Nodes -> NodeStatus]
      /\ h.node \in Nodes /\ h.applied \in Nat /\ h.report \in Report
  BY DEF TypeOK, Heartbeat
<1>2. reported' \in [Nodes -> Nat] /\ status' \in [Nodes -> NodeStatus]
  BY <1>1 DEF Record, NodeStatus
<1>3. ASSUME NEW t \in Task PROVE RecordPublishApply(t, h.node, h.report) \in Task
  <2>1. all \in [Nodes -> Nat] /\ h.report.version <= all[h.node]
    BY <1>1 DEF Report
  <2> QED
    BY <1>1, <2>1, RecordProgress DEF Progress
<1>4. settled \in [Kinds -> [Sites -> Task]]
  BY <1>1, <1>3
<1>5. tasks \in [Kinds -> [Sites -> Task]]
  BY <1>1, <1>4
<1>6. ASSUME NEW s \in Sites PROVE ReconcileTask(tasks["publish"][s], reported') \in Task
  BY <1>2, <1>5, ReconcileProgress DEF Progress, Kinds
<1>7. task' = ReconcilePublishTasks(tasks, reported')
  BY DEF Record
<1> QED
  BY <1>2, <1>5, <1>6, <1>7 DEF ReconcilePublishTasks

\* The steps of the edges.
LEMMA TypeAgent ==
    ASSUME TypeInv, Agent PROVE TypeInv'
<1>a. /\ desired \in [Nodes -> State] /\ edge \in [Nodes -> EdgeType]
      /\ NoReport \in Report /\ late \subseteq Heartbeat
  BY DEF TypeInv, TypeOK, EdgeType, NoReport, Report
<1>b. ASSUME UNCHANGED <<site, pub, desired, upgrading, phase, publisher, deleter, edit>>,
             reported' \in [Nodes -> Nat], task' \in [Kinds -> [Sites -> Task]],
             status' \in [Nodes -> NodeStatus],
             edge' \in [Nodes -> EdgeType], late' \subseteq Heartbeat
      PROVE  TypeInv'
  BY <1>b DEF TypeInv, TypeOK, PublisherOK, EdgeType
<1>c. /\ reported \in [Nodes -> Nat] /\ task \in [Kinds -> [Sites -> Task]]
      /\ status \in [Nodes -> NodeStatus]
  BY DEF TypeInv, TypeOK
<1>d. ASSUME NEW n \in Nodes PROVE Message(n) \in Heartbeat
  BY <1>a DEF Message, Heartbeat, EdgeType
<1>1. ASSUME NEW n \in Nodes, SyncSucceeds(n) \/ SyncFails(n) \/ SyncInterrupted(n)
                              \/ EdgeRestart(n)
      PROVE  TypeInv'
  <2>1. edge' \in [Nodes -> EdgeType]
    <3>1. edge[n] \in EdgeType /\ desired[n].version \in Nat /\ desired[n].config \subseteq Block
      BY <1>a DEF State
    <3>2. CASE SyncSucceeds(n)
      BY <1>a, <3>1, <3>2 DEF SyncSucceeds, EdgeType, Report
    <3>3. CASE SyncFails(n)
      BY <1>a, <3>1, <3>3 DEF SyncFails, EdgeType, Report
    <3>4. CASE SyncInterrupted(n)
      BY <1>a, <3>1, <3>4 DEF SyncInterrupted, EdgeType
    <3>5. CASE EdgeRestart(n)
      BY <1>a, <3>5 DEF EdgeRestart, EdgeType
    <3> QED
      BY <1>1, <3>2, <3>3, <3>4, <3>5
  <2> QED
    BY <1>a, <1>b, <1>c, <1>1, <2>1 DEF SyncSucceeds, SyncFails, SyncInterrupted, EdgeRestart
<1>2. ASSUME NEW n \in Nodes, SendHeartbeat(n) PROVE TypeInv'
  <2>1. edge' \in [Nodes -> EdgeType]
    BY <1>a, <1>2 DEF SendHeartbeat, EdgeType
  <2>2. /\ reported' \in [Nodes -> Nat] /\ task' \in [Kinds -> [Sites -> Task]]
        /\ status' \in [Nodes -> NodeStatus]
    BY <1>d, <1>2, RecordType DEF SendHeartbeat, TypeInv
  <2> QED
    BY <1>a, <1>b, <1>2, <2>1, <2>2 DEF SendHeartbeat
<1>3. ASSUME NEW n \in Nodes, AbandonHeartbeat(n) PROVE TypeInv'
  BY <1>a, <1>b, <1>c, <1>d, <1>3 DEF AbandonHeartbeat
<1>4. ASSUME NEW h \in late, HandleLateHeartbeat(h) PROVE TypeInv'
  <2>1. /\ reported' \in [Nodes -> Nat] /\ task' \in [Kinds -> [Sites -> Task]]
        /\ status' \in [Nodes -> NodeStatus]
    BY <1>a, <1>c, <1>4, RecordType DEF HandleLateHeartbeat, TypeInv
  <2> QED
    BY <1>a, <1>b, <1>4, <2>1 DEF HandleLateHeartbeat
<1> QED
  BY <1>1, <1>2, <1>3, <1>4 DEF Agent

\* Type correctness, with what the publisher's steps rely on, is inductive.
LEMMA TypeStep == TypeInv /\ [Next]_vars => TypeInv'
<1>1. TypeInv /\ UNCHANGED vars => TypeInv'
  BY DEF TypeInv, TypeOK, PublisherOK, vars
<1> QED
  BY <1>1, TypeDraft, TypePublish, TypeDelete, TypeControl, TypeAgent DEF Next

\* Every reachable state is typed, whatever the interleaving.
THEOREM TypeCorrect == Spec => []TypeOK
<1>1. Spec => []TypeInv
  BY TypeInit, TypeStep, PTL DEF Spec
<1>2. TypeInv => TypeOK
  BY DEF TypeInv
<1> QED
  BY <1>1, <1>2, PTL

-----------------------------------------------------------------------------
\* The safety of confirmations.

\* What an edge is going to report, and every report still on its way, is
\* within what the edge has durably applied: the applied version never falls.
ReportsReached ==
    /\ \A n \in Nodes : edge[n].report.ok => edge[n].report.version <= edge[n].applied
    /\ \A h \in late :
        /\ h.applied <= edge[h.node].applied
        /\ h.report.ok => h.report.version <= edge[h.node].applied

ConfirmInv ==
    NeverAheadOfEdge /\ AppliedMeansLoaded /\ ConfirmedMeansApplied /\ ReportsReached

AppliedBy == [n \in Nodes |-> edge[n].applied]

TasksProgress ==
    \A k \in Kinds, s \in Sites : Progress(task[k][s], task'[k][s], AppliedBy)

\* Edges apply natural versions.
LEMMA AppliedByType == TypeOK => AppliedBy \in [Nodes -> Nat]
BY DEF TypeOK, AppliedBy

\* Settling rows within what the edges applied keeps confirmations true.
LEMMA ProgressConfirms ==
    ASSUME ConfirmedMeansApplied, TasksProgress,
           \A n \in Nodes : edge'[n].applied = edge[n].applied
    PROVE  ConfirmedMeansApplied'
BY DEF ConfirmedMeansApplied, TasksProgress, Progress, Settled, AppliedBy

\* ReconcilePublishTasks trusts the applied versions the edges reported.
LEMMA ReconciledProgress ==
    ASSUME TypeOK, NeverAheadOfEdge,
           NEW tasks \in [Kinds -> [Sites -> Task]], NEW applied \in [Nodes -> Nat],
           \A n \in Nodes : applied[n] <= edge[n].applied
    PROVE  \A k \in Kinds, s \in Sites :
            Progress(tasks[k][s], ReconcilePublishTasks(tasks, applied)[k][s], AppliedBy)
<1> SUFFICES ASSUME NEW k \in Kinds, NEW s \in Sites
             PROVE  Progress(tasks[k][s], ReconcilePublishTasks(tasks, applied)[k][s],
                             AppliedBy)
  OBVIOUS
<1>1. CASE k = "publish"
  <2>1. ReconcilePublishTasks(tasks, applied)[k][s] = ReconcileTask(tasks[k][s], applied)
    BY <1>1 DEF ReconcilePublishTasks
  <2>2. \A n \in Nodes : applied[n] <= AppliedBy[n]
    BY DEF AppliedBy
  <2> QED
    BY <2>1, <2>2, AppliedByType, ReconcileProgress
<1>2. CASE k = "delete"
  <2>1. ReconcilePublishTasks(tasks, applied)[k][s] = tasks[k][s]
    BY <1>2 DEF ReconcilePublishTasks
  <2> QED
    BY <2>1 DEF Progress
<1> QED
  BY <1>1, <1>2 DEF Kinds

\* HeartbeatWithAgentVersion settles rows the edge has reached.
LEMMA RecordTasksProgress ==
    ASSUME TypeOK, NeverAheadOfEdge, NEW h \in Heartbeat, Record(h),
           h.applied <= edge[h.node].applied,
           h.report.ok => h.report.version <= edge[h.node].applied
    PROVE  TasksProgress /\ \A n \in Nodes : reported'[n] <= edge[n].applied
<1> DEFINE settled == [k \in Kinds |-> [s \in Sites |->
                          RecordPublishApply(task[k][s], h.node, h.report)]]
           tasks == IF h.report = NoReport THEN task ELSE settled
<1>1. /\ reported \in [Nodes -> Nat] /\ task \in [Kinds -> [Sites -> Task]]
      /\ h.node \in Nodes /\ h.applied \in Nat /\ h.report \in Report
      /\ edge \in [Nodes -> EdgeType]
  BY DEF TypeOK, Heartbeat, EdgeType
<1>2. reported' \in [Nodes -> Nat]
  BY RecordType
<1>3. \A n \in Nodes : reported'[n] <= edge[n].applied
  BY <1>1 DEF Record, NeverAheadOfEdge
<1>4. ASSUME NEW k \in Kinds, NEW s \in Sites
      PROVE  Progress(task[k][s], settled[k][s], AppliedBy)
  <2>1. h.report.ok => h.report.version <= AppliedBy[h.node]
    BY <1>1 DEF AppliedBy
  <2> QED
    BY <1>1, <2>1, AppliedByType, RecordProgress
<1>5. ASSUME NEW k \in Kinds, NEW s \in Sites
      PROVE  Progress(task[k][s], tasks[k][s], AppliedBy)
  BY <1>1, <1>4 DEF Progress
<1>6. tasks \in [Kinds -> [Sites -> Task]]
  BY <1>1, <1>4 DEF Progress
<1>7. task' = ReconcilePublishTasks(tasks, reported')
  BY DEF Record
<1> HIDE DEF tasks
<1>8. \A k \in Kinds, s \in Sites : Progress(tasks[k][s], task'[k][s], AppliedBy)
  BY <1>2, <1>3, <1>6, <1>7, ReconciledProgress
<1>9. TasksProgress
  BY <1>1, <1>5, <1>8, ProgressTransitive DEF TasksProgress
<1> QED
  BY <1>3, <1>9

\* Changing one task to something it progresses to.
LEMMA OneTaskProgress ==
    ASSUME TypeOK, NEW k \in Kinds, NEW s \in Sites, NEW u,
           Progress(task[k][s], u, AppliedBy), task' = [task EXCEPT ![k][s] = u]
    PROVE  TasksProgress
<1>1. task \in [Kinds -> [Sites -> Task]]
  BY DEF TypeOK
<1>2. ASSUME NEW j \in Kinds, NEW x \in Sites, ~(j = k /\ x = s)
      PROVE  Progress(task[j][x], task'[j][x], AppliedBy)
  <2>1. task'[j][x] = task[j][x]
    BY <1>1, <1>2
  <2> QED
    BY <1>1, <2>1 DEF Progress
<1>3. task'[k][s] = u
  BY <1>1
<1> QED
  BY <1>2, <1>3 DEF TasksProgress

\* Ending one task.
LEMMA EndTaskProgress ==
    ASSUME TypeOK, NEW k \in Kinds, NEW s \in Sites,
           NEW st \in {"succeeded", "partial", "failed"},
           task' = [task EXCEPT ![k][s].st = st]
    PROVE  TasksProgress
<1>1. task \in [Kinds -> [Sites -> Task]]
  BY DEF TypeOK
<1>2. Progress(task[k][s], [task[k][s] EXCEPT !.st = st], AppliedBy)
  BY <1>1, EndProgress
<1>3. task' = [task EXCEPT ![k][s] = [task[k][s] EXCEPT !.st = st]]
  BY <1>1
<1> QED
  BY <1>2, <1>3, OneTaskProgress

\* Nothing is progress, too.
LEMMA UnchangedProgress == TypeOK /\ UNCHANGED task => TasksProgress
BY DEF TypeOK, TasksProgress, Progress

\* Failing the task of an operation settles no row.
LEMMA AbortProgress ==
    ASSUME TypeInv, publisher # Idle, Abort PROVE TasksProgress
<1>1. publisher.kind \in {"publish", "remove", "rebuild"} /\ TypeOK
  BY DEF TypeInv, TypeOK, PublisherType
<1>2. CASE publisher.kind = "publish"
  <2>1. publisher.site \in Sites
    BY <1>2 DEF TypeInv, PublisherOK
  <2>2. task' = [task EXCEPT !["publish"][publisher.site].st = "failed"]
    BY <1>2 DEF Abort
  <2> QED
    BY <1>1, <2>1, <2>2, EndTaskProgress DEF Kinds
<1>3. CASE publisher.kind = "remove"
  <2>1. publisher.site \in Sites
    BY <1>3 DEF TypeInv, PublisherOK
  <2>2. task' = [task EXCEPT !["delete"][publisher.site].st = "failed"]
    BY <1>3 DEF Abort
  <2> QED
    BY <1>1, <2>1, <2>2, EndTaskProgress DEF Kinds
<1>4. CASE publisher.kind = "rebuild"
  BY <1>1, <1>4, UnchangedProgress DEF Abort
<1> QED
  BY <1>1, <1>2, <1>3, <1>4

\* SiteDeletionReady settles rows of the delete task.
LEMMA DeletionRowsProgress ==
    ASSUME TypeOK, NeverAheadOfEdge, NEW s \in Sites
    PROVE  /\ DeletionRows(s) \in Task
           /\ Progress(task["delete"][s], DeletionRows(s), AppliedBy)
<1> DEFINE t == task["delete"][s]
           c == ConfirmApplied(t, reported)
<1>1. t \in Task /\ reported \in [Nodes -> Nat]
  BY DEF TypeOK, Kinds
<1>2. \A n \in Nodes : reported[n] <= AppliedBy[n]
  BY DEF NeverAheadOfEdge, AppliedBy
<1>3. Progress(t, c, AppliedBy) /\ c \in Task
  BY <1>1, <1>2, AppliedByType, ConfirmProgress DEF Progress
<1>4. Progress(c, TimeOutPending(c), AppliedBy)
  BY <1>3, TimeOutProgress
<1>5. Progress(t, TimeOutPending(c), AppliedBy)
  BY <1>1, <1>3, <1>4, ProgressTransitive
<1> QED
  BY <1>3, <1>5, DeletionRowsType DEF DeletionRows

\* SiteDeletionReady, whatever it decides.
LEMMA DeletionReadyProgress ==
    ASSUME TypeInv, ConfirmInv, SiteDeletionWaits \/ SiteDeletionFails \/ SiteDeletionConfirmed
    PROVE  TasksProgress
<1> DEFINE s == deleter.site
           t == DeletionRows(s)
<1>1. /\ TypeOK /\ task \in [Kinds -> [Sites -> Task]] /\ deleter \in DeleterType
      /\ NeverAheadOfEdge
  BY DEF TypeInv, TypeOK, DeleterType, ConfirmInv
<1>2. s \in Sites
  BY <1>1 DEF SiteDeletionWaits, SiteDeletionFails, SiteDeletionConfirmed, AwaitingEdges,
              Idle, DeleterType
<1>3. t \in Task /\ Progress(task["delete"][s], t, AppliedBy) /\ task["delete"][s] \in Task
  BY <1>1, <1>2, DeletionRowsProgress DEF Kinds
<1> HIDE DEF t
<1>4. ASSUME NEW st \in {"succeeded", "partial", "failed"}
      PROVE  Progress(task["delete"][s], [t EXCEPT !.st = st], AppliedBy)
  BY <1>3, EndProgress, ProgressTransitive
<1>5. \/ task' = [task EXCEPT !["delete"][s] = t]
      \/ \E st \in {"succeeded", "partial", "failed"} :
              task' = [task EXCEPT !["delete"][s] = [t EXCEPT !.st = st]]
  BY DEF SiteDeletionWaits, SiteDeletionFails, SiteDeletionConfirmed, t
<1> QED
  BY <1>1, <1>2, <1>3, <1>4, <1>5, OneTaskProgress DEF Kinds

\* A deadline settles nothing by itself.
LEMMA DeadlineProgress ==
    ASSUME TypeInv, NEW k \in Kinds, NEW s \in Sites, DeadlinePasses(k, s)
    PROVE  TasksProgress
<1> DEFINE u == [task[k][s] EXCEPT !.expired = TRUE]
<1>1. TypeOK /\ task \in [Kinds -> [Sites -> Task]] /\ task[k][s] \in Task
  BY DEF TypeInv, TypeOK
<1>2. u \in Task /\ u.st = task[k][s].st /\ u.rows = task[k][s].rows
  BY <1>1, TaskFieldsType DEF Task
<1>3. Progress(task[k][s], u, AppliedBy)
  BY <1>2 DEF Progress, ActiveTask
<1>4. task' = [task EXCEPT ![k][s] = u]
  BY <1>1 DEF DeadlinePasses
<1> QED
  BY <1>1, <1>3, <1>4, OneTaskProgress

\* The transactions that store desired states number them upwards, so no edge
\* has the new version yet.
LEMMA SaveConfirms ==
    ASSUME TypeInv, ConfirmInv, publisher # Idle, publisher.pc = "commit",
           desired' = SaveNodeStates(publisher.updates),
           UNCHANGED <<reported, edge, late>>, ConfirmedMeansApplied'
    PROVE  ConfirmInv'
<1>1. /\ desired \in [Nodes -> State] /\ publisher.updates \in [Nodes -> State]
      /\ edge \in [Nodes -> EdgeType]
  BY DEF TypeInv, TypeOK, PublisherType, EdgeType
<1>2. ASSUME NEW n \in Nodes
      PROVE  desired'[n] = desired[n] \/ desired'[n].version = desired[n].version + 1
  BY DEF SaveNodeStates, TypeInv, PublisherOK
<1>3. ASSUME NEW n \in Nodes
      PROVE  /\ edge[n].applied <= desired'[n].version
             /\ edge[n].applied = desired'[n].version => edge[n].config = desired'[n].config
  <2>1. desired[n].version \in Nat /\ edge[n].applied \in Nat
    BY <1>1 DEF State, EdgeType
  <2>2. edge[n].applied <= desired[n].version
    BY DEF ConfirmInv, NeverAheadOfEdge
  <2>3. edge[n].applied = desired[n].version => edge[n].config = desired[n].config
    BY DEF ConfirmInv, AppliedMeansLoaded
  <2> QED
    BY <1>2, <2>1, <2>2, <2>3
<1> QED
  BY <1>3 DEF ConfirmInv, NeverAheadOfEdge, AppliedMeansLoaded, ReportsReached

\* A step that changes tasks only by settling rows, and no version.
LEMMA FrameConfirms ==
    ASSUME ConfirmInv, UNCHANGED <<desired, reported, edge, late>>,
           ConfirmedMeansApplied'
    PROVE  ConfirmInv'
BY DEF ConfirmInv, NeverAheadOfEdge, AppliedMeansLoaded, ReportsReached

\* A task whose rows are those of t, or new and pending or none, confirms
\* nothing that t does not.
LEMMA RowsConfirm ==
    ASSUME ConfirmedMeansApplied, UNCHANGED edge,
           \A k \in Kinds, s \in Sites, n \in Nodes :
                \/ task'[k][s].rows[n] = task[k][s].rows[n]
                \/ task'[k][s].rows[n].st # "succeeded"
    PROVE  ConfirmedMeansApplied'
BY DEF ConfirmedMeansApplied

\* The steps of the holder of desiredStateMu.
LEMMA ConfirmPublish ==
    ASSUME TypeInv, ConfirmInv, Publish PROVE ConfirmInv'
<1>a. /\ TypeOK /\ PublisherOK /\ publisher \in PublisherType
      /\ task \in [Kinds -> [Sites -> Task]] /\ reported \in [Nodes -> Nat]
  BY DEF TypeInv, TypeOK
<1>b. NeverAheadOfEdge /\ ConfirmedMeansApplied
  BY DEF ConfirmInv
<1>c. ASSUME publisher.pc # "idle" PROVE publisher # Idle
  BY <1>c DEF Idle
<1>d. ASSUME UNCHANGED <<desired, reported, edge, late>>, TasksProgress PROVE ConfirmInv'
  BY <1>b, <1>d, ProgressConfirms, FrameConfirms
<1>1. ASSUME \/ \E s \in Sites : BeginPublishSite(s)
             \/ \E e \in Editors : PublishEdited(e)
             \/ BeginRebuild(Nodes)
             \/ \E n \in Nodes : BeginRebuild({n})
      PROVE  ConfirmInv'
  BY <1>a, <1>d, <1>1, UnchangedProgress DEF BeginPublishSite, PublishEdited, BeginRebuild
<1>2. CASE CreateOrGetActivePublishTask
  <2> DEFINE s == publisher.site
             r == ReconcilePublishTasks(task, reported)
             q == [NoTask EXCEPT !.st = "queued"]
  <2>1. s \in Sites
    BY <1>a, <1>c, <1>2 DEF CreateOrGetActivePublishTask, PublisherOK
  <2>2. \A k \in Kinds, x \in Sites : Progress(task[k][x], r[k][x], AppliedBy)
    BY <1>a, <1>b, ReconciledProgress DEF NeverAheadOfEdge
  <2>3. r \in [Kinds -> [Sites -> Task]]
    BY <1>a, TaskOperatorsType
  <2>4. CASE task' = r
    BY <1>d, <1>2, <2>2, <2>4 DEF CreateOrGetActivePublishTask, TasksProgress
  <2>5. CASE task' = [r EXCEPT !["publish"][s] = q]
    <3>1. \A k \in Kinds, x \in Sites : task'[k][x] = r[k][x] \/ task'[k][x] = q
      BY <2>3, <2>5
    <3>2. \A n \in Nodes : q.rows[n].st # "succeeded"
      BY DEF NoTask, NoRow
    <3>3. UNCHANGED edge
      BY <1>2 DEF CreateOrGetActivePublishTask
    <3> HIDE DEF r, q
    <3>4. ASSUME NEW k \in Kinds, NEW x \in Sites, NEW n \in Nodes,
                 task'[k][x].rows[n].st = "succeeded"
          PROVE  task'[k][x].rows[n].target <= edge'[n].applied
      <4>1. task'[k][x] = r[k][x]
        BY <3>1, <3>2, <3>4
      <4>2. /\ task[k][x].rows[n].st = "succeeded" =>
                task[k][x].rows[n].target <= edge[n].applied
            /\ AppliedBy[n] = edge[n].applied
        BY <1>b DEF ConfirmedMeansApplied, AppliedBy
      <4>3. \/ r[k][x].rows[n] = task[k][x].rows[n]
            \/ Settled(task[k][x].rows[n], r[k][x].rows[n], AppliedBy[n])
        BY <2>2 DEF Progress
      <4> QED
        BY <3>3, <3>4, <4>1, <4>2, <4>3 DEF Settled
    <3>5. ConfirmedMeansApplied'
      BY <3>4 DEF ConfirmedMeansApplied
    <3> QED
      BY <1>2, <3>5, FrameConfirms DEF CreateOrGetActivePublishTask
  <2> QED
    BY <1>2, <2>4, <2>5 DEF CreateOrGetActivePublishTask
<1>3. CASE MarkApplying
  <2> DEFINE s == publisher.site
             u == [task["publish"][s] EXCEPT !.st = "applying"]
  <2>1. s \in Sites
    BY <1>a, <1>c, <1>3 DEF MarkApplying, PublisherOK
  <2>2. task' = [task EXCEPT !["publish"][s] = u] /\ u.rows = task["publish"][s].rows
    BY <1>a, <1>3, <2>1 DEF MarkApplying, Kinds, Task
  <2> HIDE DEF u
  <2>a. "publish" \in Kinds /\ UNCHANGED edge
    BY <1>3 DEF MarkApplying, Kinds
  <2>b. \A k \in Kinds, x \in Sites : task'[k][x] = task[k][x] \/
                (k = "publish" /\ x = s /\ task'[k][x] = u)
    BY <1>a, <2>2
  <2>3. ConfirmedMeansApplied'
    BY <1>b, <2>2, <2>a, <2>b, RowsConfirm
  <2> QED
    BY <1>3, <2>3, FrameConfirms DEF MarkApplying
<1>4. CASE Prepare
  BY <1>a, <1>d, <1>4, UnchangedProgress DEF Prepare
<1>5. CASE PrepareFails \/ CommitFails
  <2>1. publisher # Idle /\ Abort /\ UNCHANGED <<desired, reported, edge, late>>
    BY <1>c, <1>5 DEF PrepareFails, CommitFails
  <2> QED
    BY <1>d, <2>1, AbortProgress
<1>6. CASE CommitSitePublication
  <2> DEFINE s == publisher.site
             t == task["publish"][s]
  <2>1. publisher # Idle /\ publisher.pc = "commit" /\ s \in Sites /\ t \in Task
    BY <1>a, <1>c, <1>6 DEF CommitSitePublication, PublisherOK, Kinds
  <2>2. \A n \in Nodes : WithTargets(t).rows[n] = t.rows[n]
                         \/ WithTargets(t).rows[n].st # "succeeded"
    BY <2>1 DEF WithTargets, Task
  <2>3. task' = [task EXCEPT !["publish"][s] = WithTargets(t)]
    BY <1>6 DEF CommitSitePublication
  <2>a. "publish" \in Kinds /\ UNCHANGED edge
    BY <1>6 DEF CommitSitePublication, Kinds
  <2>b. \A k \in Kinds, x \in Sites : task'[k][x] = task[k][x] \/
                (k = "publish" /\ x = s /\ task'[k][x] = WithTargets(t))
    BY <1>a, <2>3
  <2>4. ConfirmedMeansApplied'
    BY <1>b, <2>2, <2>a, <2>b, RowsConfirm
  <2> QED
    BY <1>6, <2>1, <2>4, SaveConfirms DEF CommitSitePublication
<1>7. CASE FinishWithoutTargets
  <2>1. publisher.site \in Sites
    BY <1>a, <1>c, <1>7 DEF FinishWithoutTargets, PublisherOK
  <2> QED
    BY <1>a, <1>d, <1>7, <2>1, EndTaskProgress DEF FinishWithoutTargets, Kinds
<1>8. CASE CommitRebuild
  <2>1. ConfirmedMeansApplied'
    BY <1>b, <1>8 DEF CommitRebuild, ConfirmedMeansApplied
  <2> QED
    BY <1>c, <1>8, <2>1, SaveConfirms DEF CommitRebuild
<1>9. CASE StageSiteDeletion
  <2> DEFINE s == publisher.site
             t == task["delete"][s]
             u == [WithTargets(t) EXCEPT !.st = "applying"]
  <2>1. publisher # Idle /\ publisher.pc = "commit" /\ s \in Sites /\ t \in Task
    BY <1>a, <1>c, <1>9 DEF StageSiteDeletion, PublisherOK, Kinds
  <2>2. \A n \in Nodes : u.rows[n] = t.rows[n] \/ u.rows[n].st # "succeeded"
    BY <2>1 DEF WithTargets, Task
  <2>3. task' = [task EXCEPT !["delete"][s] = u]
    BY <1>9 DEF StageSiteDeletion
  <2> HIDE DEF u
  <2>a. "delete" \in Kinds /\ UNCHANGED edge
    BY <1>9 DEF StageSiteDeletion, Kinds
  <2>b. \A k \in Kinds, x \in Sites : task'[k][x] = task[k][x] \/
                (k = "delete" /\ x = s /\ task'[k][x] = u)
    BY <1>a, <2>3
  <2>4. ConfirmedMeansApplied'
    BY <1>b, <2>2, <2>a, <2>b, RowsConfirm
  <2> QED
    BY <1>9, <2>1, <2>4, SaveConfirms DEF StageSiteDeletion
<1> QED
  BY <1>1, <1>2, <1>3, <1>4, <1>5, <1>6, <1>7, <1>8, <1>9 DEF Publish, PublisherStep

\* The steps of the holder of SiteDeletionManager.mu.
LEMMA ConfirmDelete ==
    ASSUME TypeInv, ConfirmInv, Delete PROVE ConfirmInv'
<1>a. TypeOK /\ task \in [Kinds -> [Sites -> Task]] /\ deleter \in DeleterType
  BY DEF TypeInv, TypeOK, DeleterType
<1>b. NeverAheadOfEdge /\ ConfirmedMeansApplied
  BY DEF ConfirmInv
<1>c. ASSUME deleter.pc # "idle" PROVE deleter.site \in Sites
  BY <1>a, <1>c DEF Idle, DeleterType
<1>d. ASSUME UNCHANGED <<desired, reported, edge, late>>, TasksProgress PROVE ConfirmInv'
  BY <1>b, <1>d, ProgressConfirms, FrameConfirms
<1>1. ASSUME NEW s \in Sites, BeginSiteDeletion(s) PROVE ConfirmInv'
  <2> DEFINE q == [NoTask EXCEPT !.st = "queued"]
  <2>1. task' = [task EXCEPT !["delete"][s] = q]
    BY <1>1 DEF BeginSiteDeletion
  <2>2. \A n \in Nodes : q.rows[n].st # "succeeded"
    BY DEF NoTask, NoRow
  <2> HIDE DEF q
  <2>a. "delete" \in Kinds /\ UNCHANGED edge
    BY <1>1 DEF BeginSiteDeletion, Kinds
  <2>b. \A k \in Kinds, x \in Sites : task'[k][x] = task[k][x] \/
                (k = "delete" /\ x = s /\ task'[k][x] = q)
    BY <1>a, <2>1
  <2>3. ConfirmedMeansApplied'
    BY <1>b, <2>2, <2>a, <2>b, RowsConfirm
  <2> QED
    BY <1>1, <2>3, FrameConfirms DEF BeginSiteDeletion
<1>2. ASSUME NEW s \in Sites, ResumeSiteDeletion(s) PROVE ConfirmInv'
  BY <1>a, <1>d, <1>2, UnchangedProgress DEF ResumeSiteDeletion
<1>3. CASE WithdrawDNS
  <2> DEFINE s == deleter.site
             u == [task["delete"][s] EXCEPT !.st = "applying"]
  <2>1. s \in Sites
    BY <1>c, <1>3 DEF WithdrawDNS
  <2>2. CASE task' = [task EXCEPT !["delete"][s].st = "applying"]
    <3>1. task' = [task EXCEPT !["delete"][s] = u] /\ u.rows = task["delete"][s].rows
      BY <1>a, <2>1, <2>2 DEF Kinds, Task
    <3>2. \A k \in Kinds, x \in Sites : task'[k][x].rows = task[k][x].rows
      BY <1>a, <3>1
    <3>3. ConfirmedMeansApplied'
      BY <1>b, <1>3, <3>2 DEF WithdrawDNS, ConfirmedMeansApplied
    <3> QED
      BY <1>3, <3>3, FrameConfirms DEF WithdrawDNS
  <2>3. CASE FailSiteDeletion
    BY <1>a, <1>d, <1>3, <2>1, <2>3, EndTaskProgress DEF FailSiteDeletion, WithdrawDNS, Kinds
  <2> QED
    BY <1>3, <2>2, <2>3 DEF WithdrawDNS
<1>4. CASE BeginStageSiteRemoval
  BY <1>a, <1>d, <1>4, UnchangedProgress DEF BeginStageSiteRemoval
<1>5. CASE SiteDeletionWaits \/ SiteDeletionFails \/ SiteDeletionConfirmed
  BY <1>d, <1>5, DeletionReadyProgress
     DEF SiteDeletionWaits, SiteDeletionFails, SiteDeletionConfirmed, AwaitingEdges
<1>6. CASE CompleteSiteDeletion
  <2>1. deleter.site \in Sites /\ UNCHANGED <<desired, reported, edge, late>>
    BY <1>c, <1>6 DEF CompleteSiteDeletion
  <2>2. \E st \in {"succeeded", "failed"} :
            task' = [task EXCEPT !["delete"][deleter.site].st = st]
    BY <1>6 DEF CompleteSiteDeletion, FailSiteDeletion
  <2>3. TasksProgress
    BY <1>a, <2>1, <2>2, EndTaskProgress DEF Kinds
  <2> QED
    BY <1>d, <2>1, <2>3
<1> QED
  BY <1>1, <1>2, <1>3, <1>4, <1>5, <1>6 DEF Delete, DeleterStep

\* Drafts, node status, upgrades, deadlines, reconciliation, crashes.
LEMMA ConfirmControl ==
    ASSUME TypeInv, ConfirmInv, Draft \/ Control PROVE ConfirmInv'
<1>a. /\ TypeOK /\ task \in [Kinds -> [Sites -> Task]]
      /\ NeverAheadOfEdge /\ ConfirmedMeansApplied
      /\ reported \in [Nodes -> Nat]
  BY DEF TypeInv, TypeOK, ConfirmInv
<1>b. ASSUME UNCHANGED <<desired, reported, edge, late>>, TasksProgress PROVE ConfirmInv'
  BY <1>a, <1>b, ProgressConfirms, FrameConfirms
<1>1. CASE Draft
  <2>1. UNCHANGED <<desired, reported, edge, late, task>>
    BY <1>1 DEF Draft, CreateSite, StoreCertificate, SaveCertificate, RenewCertificate,
                UpdateSite, InvalidateSiteCache, BeginEdit
  <2> QED
    BY <1>a, <1>b, <2>1, UnchangedProgress
<1>2. ASSUME NEW n \in Nodes, \/ \E st \in NodeStatus : SetNodeStatus(n, st)
                              \/ CreateNodeUpgrade(n) \/ EndNodeUpgrade(n)
      PROVE  ConfirmInv'
  BY <1>a, <1>b, <1>2, UnchangedProgress DEF SetNodeStatus, CreateNodeUpgrade, EndNodeUpgrade
<1>3. ASSUME NEW k \in Kinds, NEW s \in Sites, DeadlinePasses(k, s) PROVE ConfirmInv'
  BY <1>b, <1>3, DeadlineProgress DEF DeadlinePasses
<1>4. CASE Reconcile
  <2>1. TasksProgress
    BY <1>a, <1>4, ReconciledProgress DEF Reconcile, TasksProgress, NeverAheadOfEdge
  <2> QED
    BY <1>b, <1>4, <2>1 DEF Reconcile
<1>5. CASE ControlCrash
  BY <1>5 DEF ControlCrash, ConfirmInv, NeverAheadOfEdge, AppliedMeansLoaded,
              ConfirmedMeansApplied, ReportsReached
<1> QED
  BY <1>1, <1>2, <1>3, <1>4, <1>5 DEF Control

\* The steps of the edges: the only ones that move applied and reported.
LEMMA ConfirmAgent ==
    ASSUME TypeInv, ConfirmInv, Agent PROVE ConfirmInv'
<1>a. /\ TypeOK /\ desired \in [Nodes -> State] /\ edge \in [Nodes -> EdgeType]
      /\ late \subseteq Heartbeat
  BY DEF TypeInv, TypeOK, EdgeType
<1>b. NeverAheadOfEdge /\ ConfirmedMeansApplied /\ AppliedMeansLoaded /\ ReportsReached
  BY DEF ConfirmInv
<1>1. ASSUME NEW n \in Nodes, SyncSucceeds(n) PROVE ConfirmInv'
  <2>1. /\ desired[n].version \in Nat /\ edge[n].applied \in Nat
        /\ desired[n].version > edge[n].applied
    BY <1>a, <1>1 DEF SyncSucceeds, Newer, State, EdgeType
  <2>2. edge'[n] = [applied |-> desired[n].version, config |-> desired[n].config,
                    kept |-> desired[n].config,
                    report |-> [version |-> desired[n].version, ok |-> TRUE]]
    BY <1>a, <1>1 DEF SyncSucceeds
  <2>3. /\ \A m \in Nodes : m # n => edge'[m] = edge[m]
        /\ UNCHANGED <<desired, reported, task, late>>
    BY <1>a, <1>1 DEF SyncSucceeds
  <2>4. \A m \in Nodes : edge[m].applied \in Nat /\ edge[m].applied <= edge'[m].applied
    BY <1>a, <2>1, <2>2, <2>3 DEF EdgeType
  <2>5. reported \in [Nodes -> Nat] /\ task \in [Kinds -> [Sites -> Task]]
    BY DEF TypeInv, TypeOK
  <2>6. NeverAheadOfEdge'
    BY <1>b, <2>1, <2>2, <2>3, <2>5 DEF NeverAheadOfEdge
  <2>7. AppliedMeansLoaded'
    BY <1>b, <2>2, <2>3 DEF AppliedMeansLoaded
  <2>8. ConfirmedMeansApplied'
    <3>1. \A k \in Kinds, s \in Sites, m \in Nodes : task[k][s].rows[m].target \in Nat
      BY <2>5 DEF Task, Row
    <3>2. \A m \in Nodes : edge'[m].applied \in Nat
      BY <1>a, <2>1, <2>2, <2>3 DEF EdgeType
    <3> QED
      BY <1>b, <2>3, <2>4, <3>1, <3>2 DEF ConfirmedMeansApplied
  <2>9. ReportsReached'
    BY <1>a, <1>b, <2>1, <2>2, <2>3 DEF ReportsReached, Heartbeat, Report
  <2> QED
    BY <2>6, <2>7, <2>8, <2>9 DEF ConfirmInv
<1>2. ASSUME NEW n \in Nodes, SyncFails(n) \/ SyncInterrupted(n) \/ EdgeRestart(n)
      PROVE  ConfirmInv'
  <2>1. UNCHANGED <<desired, reported, task, late>>
    BY <1>2 DEF SyncFails, SyncInterrupted, EdgeRestart
  <2>2. edge'[n].applied = edge[n].applied /\ ~edge'[n].report.ok
    BY <1>a, <1>2 DEF SyncFails, SyncInterrupted, EdgeRestart, NoReport, EdgeType
  <2>3. edge'[n].config = edge[n].config \/ desired[n].version > edge[n].applied
    BY <1>a, <1>2 DEF SyncFails, SyncInterrupted, EdgeRestart, Newer, EdgeType
  <2>4. \A m \in Nodes : m # n => edge'[m] = edge[m]
    BY <1>a, <1>2 DEF SyncFails, SyncInterrupted, EdgeRestart
  <2>5. \A m \in Nodes : edge'[m].applied = edge[m].applied
    BY <2>2, <2>4
  <2>6. AppliedMeansLoaded'
    <3>1. desired[n].version \in Nat /\ edge[n].applied \in Nat
      BY <1>a DEF State, EdgeType
    <3> QED
      BY <1>b, <2>1, <2>2, <2>3, <2>4, <3>1 DEF AppliedMeansLoaded
  <2>7. NeverAheadOfEdge' /\ ConfirmedMeansApplied'
    BY <1>b, <2>1, <2>5 DEF NeverAheadOfEdge, ConfirmedMeansApplied
  <2>8. ReportsReached'
    BY <1>a, <1>b, <2>1, <2>2, <2>4, <2>5 DEF ReportsReached, Heartbeat
  <2> QED
    BY <2>6, <2>7, <2>8 DEF ConfirmInv
<1>3. ASSUME NEW n \in Nodes, SendHeartbeat(n) PROVE ConfirmInv'
  <2> DEFINE h == Message(n)
  <2>1. /\ h \in Heartbeat /\ h.applied <= edge[h.node].applied
        /\ h.report.ok => h.report.version <= edge[h.node].applied
    BY <1>a, <1>b DEF Message, Heartbeat, EdgeType, ReportsReached
  <2>2. TasksProgress /\ \A m \in Nodes : reported'[m] <= edge[m].applied
    BY <1>a, <1>b, <1>3, <2>1, RecordTasksProgress DEF SendHeartbeat
  <2>3. UNCHANGED <<desired, late>>
    BY <1>3 DEF SendHeartbeat
  <2>4. /\ \A m \in Nodes : /\ edge'[m].applied = edge[m].applied
                            /\ edge'[m].config = edge[m].config
                            /\ edge'[m].report = edge[m].report \/ ~edge'[m].report.ok
    BY <1>a, <1>3 DEF SendHeartbeat, EdgeType, NoReport
  <2>5. ConfirmedMeansApplied'
    BY <1>b, <2>2, <2>4, ProgressConfirms
  <2>6. NeverAheadOfEdge' /\ AppliedMeansLoaded'
    BY <1>b, <2>2, <2>3, <2>4 DEF NeverAheadOfEdge, AppliedMeansLoaded
  <2>7. ReportsReached'
    BY <1>a, <1>b, <2>3, <2>4 DEF ReportsReached, Heartbeat
  <2> QED
    BY <2>5, <2>6, <2>7 DEF ConfirmInv
<1>4. ASSUME NEW n \in Nodes, AbandonHeartbeat(n) PROVE ConfirmInv'
  <2>1. late' = late \cup {Message(n)} /\ UNCHANGED <<desired, reported, task, edge>>
    BY <1>4 DEF AbandonHeartbeat
  <2>2. ReportsReached'
    BY <1>a, <1>b, <2>1 DEF ReportsReached, Message, EdgeType
  <2> QED
    BY <2>1, <2>2 DEF ConfirmInv, NeverAheadOfEdge, AppliedMeansLoaded, ConfirmedMeansApplied
<1>5. ASSUME NEW h \in late, HandleLateHeartbeat(h) PROVE ConfirmInv'
  <2>1. /\ h \in Heartbeat /\ h.applied <= edge[h.node].applied
        /\ h.report.ok => h.report.version <= edge[h.node].applied
    BY <1>a, <1>b DEF ReportsReached
  <2>2. late' \subseteq late /\ UNCHANGED <<desired, edge>>
    BY <1>5 DEF HandleLateHeartbeat
  <2>3. TasksProgress /\ \A m \in Nodes : reported'[m] <= edge[m].applied
    <3>1. CASE Record(h)
      BY <1>a, <1>b, <2>1, <3>1, RecordTasksProgress
    <3>2. CASE UNCHANGED <<reported, task, status>>
      BY <1>a, <1>b, <3>2, UnchangedProgress DEF NeverAheadOfEdge
    <3> QED
      BY <1>5, <3>1, <3>2 DEF HandleLateHeartbeat
  <2>4. ConfirmedMeansApplied'
    BY <1>b, <2>2, <2>3, ProgressConfirms
  <2> QED
    BY <1>b, <2>2, <2>3, <2>4
       DEF ConfirmInv, NeverAheadOfEdge, AppliedMeansLoaded, ReportsReached
<1> QED
  BY <1>1, <1>2, <1>3, <1>4, <1>5 DEF Agent

\* Nothing is applied or confirmed at the start.
LEMMA ConfirmInit == Init => ConfirmInv
<1> SUFFICES ASSUME Init PROVE ConfirmInv
  OBVIOUS
<1>1. NeverAheadOfEdge /\ AppliedMeansLoaded
  <2>1. \A n \in Nodes : edge[n].applied = 0 /\ edge[n].config = {} /\ reported[n] = 0
    BY DEF Init
  <2>2. \A n \in Nodes : desired[n].version = 0 /\ desired[n].config = {}
    BY DEF Init, Unset
  <2>3. AppliedMeansLoaded
    BY <2>1, <2>2 DEF AppliedMeansLoaded
  <2>4. 0 <= 0
    OBVIOUS
  <2>5. NeverAheadOfEdge
    BY <2>1, <2>2, <2>4, Zenon DEF NeverAheadOfEdge
  <2> QED
    BY <2>3, <2>5
<1>2. ReportsReached
  BY DEF Init, ReportsReached, NoReport
<1>3. \A k \in Kinds, s \in Sites, n \in Nodes : task[k][s].rows[n].st = "none"
  BY DEF Init, NoTask, NoRow
<1>4. ConfirmedMeansApplied
  BY <1>3 DEF ConfirmedMeansApplied
<1> QED
  BY <1>1, <1>2, <1>4 DEF ConfirmInv

\* The confirmation invariant is inductive relative to the types.
LEMMA ConfirmStep == TypeInv /\ ConfirmInv /\ [Next]_vars => ConfirmInv'
<1>1. ConfirmInv /\ UNCHANGED vars => ConfirmInv'
  BY DEF ConfirmInv, NeverAheadOfEdge, AppliedMeansLoaded, ConfirmedMeansApplied,
         ReportsReached, vars
<1> QED
  BY <1>1, ConfirmPublish, ConfirmDelete, ConfirmControl, ConfirmAgent DEF Next

\* A version number stands for one configuration, the control plane is never
\* ahead of an edge, and a confirmed row was applied: for any number of sites,
\* nodes and late heartbeats, and any crashes.
THEOREM ConfirmationsAreTrue ==
    Spec => [](NeverAheadOfEdge /\ AppliedMeansLoaded /\ ConfirmedMeansApplied)
<1>1. Spec => [](TypeInv /\ ConfirmInv)
  BY TypeInit, TypeStep, ConfirmInit, ConfirmStep, PTL DEF Spec
<1>2. ConfirmInv => NeverAheadOfEdge /\ AppliedMeansLoaded /\ ConfirmedMeansApplied
  BY DEF ConfirmInv
<1> QED
  BY <1>1, <1>2, PTL

\* The control plane never believes an edge to be further than it is, although
\* heartbeats are lost, repeated and late.
THEOREM NobodyIsAhead == Spec => []NeverAheadOfEdge
<1>1. NeverAheadOfEdge /\ AppliedMeansLoaded /\ ConfirmedMeansApplied => NeverAheadOfEdge
  OBVIOUS
<1> QED
  BY <1>1, ConfirmationsAreTrue, PTL

\* An edge whose applied version is the desired one runs the desired
\* configuration: no version number is ever used for two configurations.
THEOREM VersionsNameOneConfig == Spec => []AppliedMeansLoaded
<1>1. NeverAheadOfEdge /\ AppliedMeansLoaded /\ ConfirmedMeansApplied => AppliedMeansLoaded
  OBVIOUS
<1> QED
  BY <1>1, ConfirmationsAreTrue, PTL

-----------------------------------------------------------------------------
\* Upgrades and confirmations exclude each other, and the cleanup of a
\* deletion waits for every edge.

NoPending(t) == \A n \in Nodes : t.rows[n].st # "pending"

\* Rows appear only in the transaction that checks the upgrades: a publish
\* task has none before, nor has a delete task whose DNS records are being
\* withdrawn, although both are marked applying without a check.
WaitInv ==
    /\ NoUpgradeDuringConfirmation
    /\ (publisher # Idle /\ publisher.kind = "publish"
            /\ publisher.pc \in {"mark", "prepare", "commit"})
        => NoPending(task["publish"][publisher.site])
    /\ (deleter # Idle /\ deleter.pc \in {"stage", "staging"})
        => phase[deleter.site] = "withdrawing_dns"
    /\ \A s \in Sites : phase[s] = "withdrawing_dns" => NoPending(task["delete"][s])
    /\ \A s \in Sites, n \in Nodes : phase[s] = "finalizing" =>
        task["delete"][s].rows[n].st \in {"none", "succeeded"}

\* Settled rows stay settled, ended tasks stay ended.
LEMMA ProgressRows ==
    ASSUME NEW t, NEW u, NEW bound, Progress(t, u, bound)
    PROVE  /\ ActiveTask(u) => ActiveTask(t)
           /\ NoPending(t) => NoPending(u)
           /\ \A n \in Nodes : u.rows[n].st = "pending" => t.rows[n].st = "pending"
           /\ \A n \in Nodes : t.rows[n].st \in {"none", "succeeded"} => u.rows[n] = t.rows[n]
BY DEF Progress, Settled, NoPending

\* Progress of the tasks alone keeps upgrades out.
LEMMA ProgressExcludes ==
    ASSUME NoUpgradeDuringConfirmation, TasksProgress,
           \A n \in Nodes : upgrading'[n] => upgrading[n]
    PROVE  NoUpgradeDuringConfirmation'
<1>1. \A k \in Kinds, s \in Sites, n \in Nodes :
        ActiveTask(task'[k][s]) /\ task'[k][s].rows[n].st = "pending"
            => ActiveTask(task[k][s]) /\ task[k][s].rows[n].st = "pending"
  BY ProgressRows DEF TasksProgress
<1> QED
  BY <1>1 DEF NoUpgradeDuringConfirmation, HasActiveNodePublication, ActiveTask

\* A step in which tasks only progress, and that begins no upgrade.
LEMMA ProgressWaits ==
    ASSUME TypeInv, WaitInv, TasksProgress, UNCHANGED phase,
           \A n \in Nodes : upgrading'[n] => upgrading[n],
           \/ UNCHANGED deleter
           \/ deleter' = Idle
           \/ deleter'.pc = "advance"
           \/ deleter'.pc = "staging" /\ deleter'.site = deleter.site
                /\ deleter # Idle /\ deleter.pc = "stage",
           \/ UNCHANGED publisher
           \/ publisher' = Idle
           \/ publisher'.kind # "publish"
           \/ publisher'.pc \in {"create", "finish"}
           \/ publisher'.kind = "publish" /\ publisher'.pc = "commit"
                /\ publisher'.site = publisher.site
                /\ publisher # Idle /\ publisher.kind = "publish" /\ publisher.pc = "prepare"
    PROVE  WaitInv'
<1>1. NoUpgradeDuringConfirmation'
  BY ProgressExcludes DEF WaitInv
<1>2. \A k \in Kinds, s \in Sites :
        /\ NoPending(task[k][s]) => NoPending(task'[k][s])
        /\ \A n \in Nodes : task[k][s].rows[n].st \in {"none", "succeeded"}
            => task'[k][s].rows[n] = task[k][s].rows[n]
  BY ProgressRows DEF TasksProgress
<1>3. publisher # Idle /\ publisher.kind = "publish" => publisher.site \in Sites
  BY DEF TypeInv, PublisherOK
<1>4. ((publisher # Idle /\ publisher.kind = "publish"
            /\ publisher.pc \in {"mark", "prepare", "commit"})
        => NoPending(task["publish"][publisher.site]))'
  <2>1. SUFFICES ASSUME publisher' # Idle, publisher'.kind = "publish",
                        publisher'.pc \in {"mark", "prepare", "commit"}
                 PROVE  NoPending(task'["publish"][publisher'.site])
    BY DEF NoPending
  <2>2. /\ publisher # Idle /\ publisher.kind = "publish"
        /\ publisher.pc \in {"mark", "prepare", "commit"}
        /\ publisher'.site = publisher.site
    BY <2>1
  <2>3. NoPending(task["publish"][publisher.site])
    BY <2>2 DEF WaitInv
  <2> QED
    BY <1>2, <1>3, <2>2, <2>3 DEF Kinds
<1>5. ((deleter # Idle /\ deleter.pc \in {"stage", "staging"})
        => phase[deleter.site] = "withdrawing_dns")'
  BY DEF WaitInv
<1>6. (\A s \in Sites : phase[s] = "withdrawing_dns" => NoPending(task["delete"][s]))'
  BY <1>2 DEF WaitInv, Kinds, NoPending
<1>7. (\A s \in Sites, n \in Nodes : phase[s] = "finalizing" =>
        task["delete"][s].rows[n].st \in {"none", "succeeded"})'
  BY <1>2 DEF WaitInv, Kinds
<1> QED
  BY <1>1, <1>4, <1>5, <1>6, <1>7 DEF WaitInv

\* Replacing one task by one that waits for no upgrading node.
LEMMA ChangeExcludes ==
    ASSUME NoUpgradeDuringConfirmation, UNCHANGED upgrading,
           NEW u,
           \A j \in Kinds, x \in Sites : task'[j][x] = task[j][x] \/ task'[j][x] = u,
           \A n \in Nodes : u.rows[n].st = "pending" => ~upgrading[n]
    PROVE  NoUpgradeDuringConfirmation'
BY DEF NoUpgradeDuringConfirmation, HasActiveNodePublication, ActiveTask

\* The rows a transaction adds are for nodes it has found not upgrading.
LEMMA TargetsExclude ==
    ASSUME TypeInv, publisher # Idle, publisher.pc = "commit", NoUpdateUpgrading,
           NEW t \in Task, NoPending(t)
    PROVE  \A n \in Nodes : WithTargets(t).rows[n].st = "pending" => ~upgrading[n]
BY DEF TypeInv, PublisherOK, NoUpdateUpgrading, WithTargets, NoPending, Task

\* The steps of the holder of desiredStateMu.
LEMMA WaitPublish ==
    ASSUME TypeInv, ConfirmInv, WaitInv, Publish PROVE WaitInv'
<1>a. /\ TypeOK /\ PublisherOK /\ publisher \in PublisherType
      /\ task \in [Kinds -> [Sites -> Task]] /\ reported \in [Nodes -> Nat]
      /\ phase \in [Sites -> PhaseType]
  BY DEF TypeInv, TypeOK, PhaseType
<1>b. NeverAheadOfEdge
  BY DEF ConfirmInv
<1>c. ASSUME publisher.pc # "idle" PROVE publisher # Idle
  BY <1>c DEF Idle
<1>1. ASSUME \/ \E s \in Sites : BeginPublishSite(s)
             \/ \E e \in Editors : PublishEdited(e)
             \/ BeginRebuild(Nodes)
             \/ \E n \in Nodes : BeginRebuild({n})
      PROVE  WaitInv'
  <2>1. UNCHANGED <<task, phase, upgrading, deleter>>
    BY <1>1 DEF BeginPublishSite, PublishEdited, BeginRebuild
  <2>a. ASSUME NEW s, TakeMutex(s) PROVE publisher'.pc = "create"
    BY <2>a DEF TakeMutex, Holding
  <2>b. ASSUME NEW scope, BeginRebuild(scope) PROVE publisher'.kind # "publish"
    BY <2>b DEF BeginRebuild, Holding
  <2>2. publisher'.pc = "create" \/ publisher'.kind # "publish" \/ UNCHANGED publisher
    BY <1>1, <2>a, <2>b DEF BeginPublishSite, PublishEdited
  <2>3. TasksProgress
    BY <1>a, <2>1, UnchangedProgress
  <2> QED
    BY <1>a, <2>1, <2>2, <2>3, ProgressWaits
<1>2. CASE CreateOrGetActivePublishTask
  <2> DEFINE s == publisher.site
             r == ReconcilePublishTasks(task, reported)
             q == [NoTask EXCEPT !.st = "queued"]
  <2>1. s \in Sites /\ publisher # Idle
    BY <1>a, <1>c, <1>2 DEF CreateOrGetActivePublishTask, PublisherOK
  <2>2. \A k \in Kinds, x \in Sites : Progress(task[k][x], r[k][x], AppliedBy)
    BY <1>a, <1>b, ReconciledProgress DEF NeverAheadOfEdge
  <2>3. UNCHANGED <<phase, upgrading, deleter>>
    BY <1>2 DEF CreateOrGetActivePublishTask
  <2>4. CASE task' = r /\ publisher' = Idle
    <3>1. TasksProgress
      BY <2>2, <2>4 DEF TasksProgress
    <3> QED
      BY <2>3, <2>4, <3>1, ProgressWaits
  <2>5. CASE task' = [r EXCEPT !["publish"][s] = q] /\ publisher' = [publisher EXCEPT !.pc = "mark"]
    <3>1. r \in [Kinds -> [Sites -> Task]]
      BY <1>a, TaskOperatorsType
    <3>2. \A k \in Kinds, x \in Sites :
            (task'[k][x] = r[k][x] /\ ~(k = "publish" /\ x = s))
            \/ (k = "publish" /\ x = s /\ task'[k][x] = q)
      BY <2>5, <3>1
    <3>3. \A n \in Nodes : q.rows[n].st = "none"
      BY DEF NoTask, NoRow
    <3>4. publisher'.site = s
      BY <1>a, <2>1, <2>5 DEF PublisherType
    <3> HIDE DEF r, q
    <3>5. \A k \in Kinds, x \in Sites :
            /\ ActiveTask(r[k][x]) => ActiveTask(task[k][x])
            /\ NoPending(task[k][x]) => NoPending(r[k][x])
            /\ \A n \in Nodes : r[k][x].rows[n].st = "pending" => task[k][x].rows[n].st = "pending"
            /\ \A n \in Nodes : task[k][x].rows[n].st \in {"none", "succeeded"}
                => r[k][x].rows[n] = task[k][x].rows[n]
      BY <2>2, ProgressRows
    <3>6. NoUpgradeDuringConfirmation'
      <4>1. \A k \in Kinds, x \in Sites, n \in Nodes :
              ActiveTask(task'[k][x]) /\ task'[k][x].rows[n].st = "pending"
                => ActiveTask(task[k][x]) /\ task[k][x].rows[n].st = "pending"
        BY <3>2, <3>3, <3>5
      <4> QED
        BY <2>3, <4>1 DEF WaitInv, NoUpgradeDuringConfirmation, HasActiveNodePublication,
                          ActiveTask
    <3>7. NoPending(task'["publish"][publisher'.site])
      BY <2>1, <3>2, <3>3, <3>4 DEF NoPending, Kinds
    <3>8. \A x \in Sites : task'["delete"][x] = r["delete"][x]
      BY <3>2 DEF Kinds
    <3>9. \A x \in Sites : phase[x] = "withdrawing_dns" => NoPending(task'["delete"][x])
      BY <3>5, <3>8 DEF WaitInv, Kinds
    <3>10. \A x \in Sites, n \in Nodes : phase[x] = "finalizing" =>
              task'["delete"][x].rows[n].st \in {"none", "succeeded"}
      BY <3>5, <3>8 DEF WaitInv, Kinds
    <3> QED
      BY <2>3, <3>6, <3>7, <3>9, <3>10 DEF WaitInv, NoPending
  <2> QED
    BY <1>2, <2>4, <2>5 DEF CreateOrGetActivePublishTask
<1>3. CASE MarkApplying
  <2> DEFINE s == publisher.site
             u == [task["publish"][s] EXCEPT !.st = "applying"]
  <2>1. /\ s \in Sites /\ publisher # Idle /\ publisher.kind = "publish"
        /\ publisher.pc = "mark" /\ task["publish"][s] \in Task
    BY <1>a, <1>c, <1>3 DEF MarkApplying, PublisherOK, Kinds
  <2>2. u.rows = task["publish"][s].rows
    BY <2>1 DEF Task
  <2>3. \A n \in Nodes : u.rows[n].st # "pending"
    BY <2>1, <2>2 DEF WaitInv, NoPending
  <2>4. task' = [task EXCEPT !["publish"][s] = u]
    BY <1>a, <1>3, <2>1 DEF MarkApplying, Kinds
  <2> HIDE DEF u
  <2>5. \A k \in Kinds, x \in Sites :
            (task'[k][x] = task[k][x] /\ ~(k = "publish" /\ x = s))
            \/ (k = "publish" /\ x = s /\ task'[k][x] = u)
    BY <1>a, <2>4
  <2>6. UNCHANGED <<phase, upgrading, deleter>> /\ publisher'.site = s
    BY <1>a, <1>3, <2>1 DEF MarkApplying, PublisherType
  <2>7. NoUpgradeDuringConfirmation'
    BY <2>1, <2>3, <2>5, <2>6, ChangeExcludes DEF WaitInv, Kinds
  <2>8. NoPending(task'["publish"][publisher'.site])
    BY <2>1, <2>3, <2>5, <2>6 DEF NoPending, Kinds
  <2>9. \A x \in Sites : task'["delete"][x] = task["delete"][x]
    BY <2>5 DEF Kinds
  <2> QED
    BY <2>6, <2>7, <2>8, <2>9 DEF WaitInv, NoPending
<1>4. CASE Prepare
  <2>1. publisher # Idle /\ publisher.pc = "prepare"
    BY <1>c, <1>4 DEF Prepare
  <2>2. publisher'.kind = publisher.kind /\ publisher'.site = publisher.site
        /\ publisher'.pc = "commit"
    BY <1>a, <1>4, <2>1 DEF Prepare, PublisherType
  <2>3. UNCHANGED <<task, phase, upgrading, deleter>>
    BY <1>4 DEF Prepare
  <2> QED
    BY <1>a, <2>1, <2>2, <2>3, UnchangedProgress, ProgressWaits
<1>5. CASE PrepareFails \/ CommitFails
  <2>1. publisher # Idle /\ Abort /\ UNCHANGED <<phase, upgrading>>
    BY <1>c, <1>5 DEF PrepareFails, CommitFails
  <2>2. publisher' = Idle /\ deleter' \in {deleter, Idle}
    BY <2>1, AbortType
  <2> QED
    BY <2>1, <2>2, AbortProgress, ProgressWaits
<1>6. CASE CommitSitePublication
  <2> DEFINE s == publisher.site
             t == task["publish"][s]
  <2>1. /\ publisher # Idle /\ publisher.pc = "commit" /\ publisher.kind = "publish"
        /\ s \in Sites /\ t \in Task
    BY <1>a, <1>c, <1>6 DEF CommitSitePublication, PublisherOK, Kinds
  <2>2. NoPending(t) /\ NoUpdateUpgrading
    BY <1>6, <2>1 DEF WaitInv, CommitSitePublication, Committable
  <2>3. \A n \in Nodes : WithTargets(t).rows[n].st = "pending" => ~upgrading[n]
    BY <2>1, <2>2, TargetsExclude
  <2>4. task' = [task EXCEPT !["publish"][s] = WithTargets(t)]
    BY <1>6 DEF CommitSitePublication
  <2>5. \A k \in Kinds, x \in Sites : task'[k][x] = task[k][x] \/
            (k = "publish" /\ x = s /\ task'[k][x] = WithTargets(t))
    BY <1>a, <2>4
  <2>6. /\ UNCHANGED <<phase, upgrading, deleter>>
        /\ publisher' = Idle \/ publisher'.pc = "finish"
    BY <1>a, <1>6, <2>1 DEF CommitSitePublication, PublisherType
  <2>7. NoUpgradeDuringConfirmation'
    BY <2>1, <2>3, <2>5, <2>6, ChangeExcludes DEF WaitInv, Kinds
  <2>8. \A x \in Sites : task'["delete"][x] = task["delete"][x]
    BY <2>5 DEF Kinds
  <2> QED
    BY <2>6, <2>7, <2>8 DEF WaitInv, NoPending
<1>7. CASE FinishWithoutTargets
  <2>1. publisher.site \in Sites
    BY <1>a, <1>c, <1>7 DEF FinishWithoutTargets, PublisherOK
  <2>2. TasksProgress
    BY <1>a, <1>7, <2>1, EndTaskProgress DEF FinishWithoutTargets, Kinds
  <2> QED
    BY <1>7, <2>2, ProgressWaits DEF FinishWithoutTargets
<1>8. CASE CommitRebuild
  BY <1>a, <1>8, UnchangedProgress, ProgressWaits DEF CommitRebuild
<1>9. CASE StageSiteDeletion
  <2> DEFINE s == publisher.site
             t == task["delete"][s]
             u == [WithTargets(t) EXCEPT !.st = "applying"]
  <2>1. /\ publisher # Idle /\ publisher.pc = "commit" /\ publisher.kind = "remove"
        /\ s \in Sites /\ t \in Task
    BY <1>a, <1>c, <1>9 DEF StageSiteDeletion, PublisherOK, Kinds
  <2>2. deleter # Idle /\ deleter.pc = "staging" /\ deleter.site = s
    BY <1>a, <2>1 DEF PublisherOK
  <2>3. NoPending(t) /\ NoUpdateUpgrading
    BY <1>9, <2>1, <2>2 DEF WaitInv, StageSiteDeletion
  <2>4. \A n \in Nodes : WithTargets(t).rows[n].st = "pending" => ~upgrading[n]
    BY <2>1, <2>3, TargetsExclude
  <2>5. u.rows = WithTargets(t).rows
    BY <2>1 DEF WithTargets, Task
  <2>6. task' = [task EXCEPT !["delete"][s] = u]
    BY <1>9 DEF StageSiteDeletion
  <2> HIDE DEF u
  <2>7. \A k \in Kinds, x \in Sites : task'[k][x] = task[k][x] \/
            (k = "delete" /\ x = s /\ task'[k][x] = u)
    BY <1>a, <2>6
  <2>8. /\ UNCHANGED upgrading /\ publisher' = Idle
        /\ phase' = [phase EXCEPT ![s] = "waiting_for_edges"]
    BY <1>9 DEF StageSiteDeletion
  <2>9. deleter'.pc = "advance"
    BY <1>9, <2>2 DEF StageSiteDeletion, TypeInv, TypeOK
  <2>10. NoUpgradeDuringConfirmation'
    BY <2>1, <2>4, <2>5, <2>7, <2>8, ChangeExcludes DEF WaitInv, Kinds
  <2>11. \A x \in Sites : x # s => phase'[x] = phase[x] /\ task'["delete"][x] = task["delete"][x]
    BY <1>a, <2>7, <2>8 DEF Kinds
  <2>12. phase'[s] = "waiting_for_edges"
    BY <1>a, <2>1, <2>8
  <2> QED
    BY <2>8, <2>9, <2>10, <2>11, <2>12 DEF WaitInv, NoPending
<1> QED
  BY <1>1, <1>2, <1>3, <1>4, <1>5, <1>6, <1>7, <1>8, <1>9 DEF Publish, PublisherStep

\* The steps of the holder of SiteDeletionManager.mu.
LEMMA WaitDelete ==
    ASSUME TypeInv, ConfirmInv, WaitInv, Delete PROVE WaitInv'
<1>a. /\ TypeOK /\ task \in [Kinds -> [Sites -> Task]] /\ deleter \in DeleterType
      /\ phase \in [Sites -> PhaseType] /\ NeverAheadOfEdge
  BY DEF TypeInv, TypeOK, DeleterType, PhaseType, ConfirmInv
<1>b. ASSUME deleter.pc # "idle" PROVE deleter.site \in Sites /\ deleter # Idle
  BY <1>a, <1>b DEF Idle, DeleterType
<1>c. publisher # Idle /\ publisher.kind = "publish" => publisher.site \in Sites
  BY DEF TypeInv, PublisherOK
<1>1. ASSUME NEW s \in Sites, BeginSiteDeletion(s) PROVE WaitInv'
  <2> DEFINE q == [NoTask EXCEPT !.st = "queued"]
  <2>1. task' = [task EXCEPT !["delete"][s] = q]
    BY <1>1 DEF BeginSiteDeletion
  <2>2. \A n \in Nodes : q.rows[n].st = "none"
    BY DEF NoTask, NoRow
  <2> HIDE DEF q
  <2>3. \A k \in Kinds, x \in Sites :
            (task'[k][x] = task[k][x] /\ ~(k = "delete" /\ x = s))
            \/ (k = "delete" /\ x = s /\ task'[k][x] = q)
    BY <1>a, <2>1
  <2>4. /\ UNCHANGED <<upgrading, publisher>> /\ deleter'.pc = "advance"
        /\ phase' = [phase EXCEPT ![s] = "withdrawing_dns"]
    BY <1>1 DEF BeginSiteDeletion
  <2>5. NoUpgradeDuringConfirmation'
    BY <2>2, <2>3, <2>4, ChangeExcludes DEF WaitInv
  <2>6. \A x \in Sites : task'["publish"][x] = task["publish"][x]
    BY <2>3 DEF Kinds
  <2>7. \A x \in Sites : x # s => phase'[x] = phase[x] /\ task'["delete"][x] = task["delete"][x]
    BY <1>a, <2>3, <2>4 DEF Kinds
  <2>8. phase'[s] = "withdrawing_dns" /\ NoPending(task'["delete"][s])
    BY <1>a, <2>2, <2>3, <2>4 DEF Kinds, NoPending
  <2> QED
    BY <1>c, <2>4, <2>5, <2>6, <2>7, <2>8 DEF WaitInv, NoPending
<1>2. ASSUME NEW s \in Sites, ResumeSiteDeletion(s) PROVE WaitInv'
  BY <1>a, <1>2, UnchangedProgress, ProgressWaits DEF ResumeSiteDeletion
<1>3. CASE WithdrawDNS
  <2> DEFINE s == deleter.site
             u == [task["delete"][s] EXCEPT !.st = "applying"]
  <2>1. /\ s \in Sites /\ deleter # Idle /\ phase[s] = "withdrawing_dns"
        /\ UNCHANGED <<phase, upgrading, publisher>>
    BY <1>b, <1>3 DEF WithdrawDNS
  <2>2. CASE /\ task' = [task EXCEPT !["delete"][s].st = "applying"]
             /\ deleter' = [deleter EXCEPT !.pc = "stage"]
    <3>1. task' = [task EXCEPT !["delete"][s] = u] /\ u.rows = task["delete"][s].rows
      BY <1>a, <2>1, <2>2 DEF Kinds, Task
    <3>2. \A n \in Nodes : u.rows[n].st # "pending"
      BY <2>1, <3>1 DEF WaitInv, NoPending
    <3> HIDE DEF u
    <3>3. \A k \in Kinds, x \in Sites :
              (task'[k][x] = task[k][x] /\ ~(k = "delete" /\ x = s))
              \/ (k = "delete" /\ x = s /\ task'[k][x] = u)
      BY <1>a, <3>1
    <3>4. NoUpgradeDuringConfirmation'
      BY <2>1, <3>2, <3>3, ChangeExcludes DEF WaitInv
    <3>5. deleter'.site = s
      BY <1>a, <2>1, <2>2 DEF DeleterType
    <3>6. \A x \in Sites : task'["publish"][x] = task["publish"][x]
      BY <3>3 DEF Kinds
    <3>7. \A x \in Sites : x # s => task'["delete"][x] = task["delete"][x]
      BY <3>3 DEF Kinds
    <3>8. NoPending(task'["delete"][s])
      BY <2>1, <3>2, <3>3 DEF Kinds, NoPending
    <3> QED
      BY <1>c, <2>1, <3>4, <3>5, <3>6, <3>7, <3>8 DEF WaitInv, NoPending
  <2>3. CASE FailSiteDeletion
    <3>1. TasksProgress
      BY <1>a, <2>1, <2>3, EndTaskProgress DEF FailSiteDeletion, Kinds
    <3> QED
      BY <2>1, <2>3, <3>1, ProgressWaits DEF FailSiteDeletion
  <2> QED
    BY <1>3, <2>2, <2>3 DEF WithdrawDNS
<1>4. CASE BeginStageSiteRemoval
  <2>1. deleter.pc = "stage" /\ deleter # Idle /\ UNCHANGED <<task, phase, upgrading>>
    BY <1>b, <1>4 DEF BeginStageSiteRemoval
  <2>2. deleter'.pc = "staging" /\ deleter'.site = deleter.site
    BY <1>a, <1>4, <2>1 DEF BeginStageSiteRemoval, DeleterType
  <2>3. publisher'.kind = "remove"
    BY <1>4 DEF BeginStageSiteRemoval, Holding
  <2> QED
    BY <1>a, <2>1, <2>2, <2>3, UnchangedProgress, ProgressWaits
<1>5. CASE SiteDeletionWaits \/ SiteDeletionFails
  <2>1. UNCHANGED <<phase, upgrading, publisher>> /\ deleter' = Idle
    BY <1>5 DEF SiteDeletionWaits, SiteDeletionFails, AwaitingEdges
  <2>2. TasksProgress
    BY <1>5, DeletionReadyProgress
  <2> QED
    BY <2>1, <2>2, ProgressWaits
<1>6. CASE SiteDeletionConfirmed
  <2> DEFINE s == deleter.site
  <2>1. /\ s \in Sites /\ UNCHANGED <<upgrading, publisher, deleter>>
        /\ phase' = [phase EXCEPT ![s] = "finalizing"] /\ deleter.pc = "advance"
    BY <1>b, <1>6 DEF SiteDeletionConfirmed, AwaitingEdges
  <2>2. TasksProgress
    BY <1>6, DeletionReadyProgress
  <2>3. /\ task'["delete"][s] = DeletionRows(s)
        /\ RowsIn(DeletionRows(s), "none") \cup RowsIn(DeletionRows(s), "succeeded") = Nodes
    BY <1>a, <1>6, <2>1 DEF SiteDeletionConfirmed, Kinds
  <2>4. \A n \in Nodes : task'["delete"][s].rows[n].st \in {"none", "succeeded"}
    BY <2>3 DEF RowsIn
  <2>5. \A k \in Kinds, x \in Sites :
          /\ NoPending(task[k][x]) => NoPending(task'[k][x])
          /\ \A n \in Nodes : task[k][x].rows[n].st \in {"none", "succeeded"}
              => task'[k][x].rows[n] = task[k][x].rows[n]
    BY <2>2, ProgressRows DEF TasksProgress
  <2>6. NoUpgradeDuringConfirmation'
    BY <2>1, <2>2, ProgressExcludes DEF WaitInv
  <2>7. phase'[s] = "finalizing" /\ \A x \in Sites : x # s => phase'[x] = phase[x]
    BY <1>a, <2>1
  <2>8. \A x \in Sites : phase'[x] = "withdrawing_dns" => NoPending(task'["delete"][x])
    BY <2>5, <2>7 DEF WaitInv, Kinds
  <2>9. \A x \in Sites, n \in Nodes : phase'[x] = "finalizing" =>
            task'["delete"][x].rows[n].st \in {"none", "succeeded"}
    BY <2>4, <2>5, <2>7 DEF WaitInv, Kinds
  <2>10. (publisher # Idle /\ publisher.kind = "publish"
             /\ publisher.pc \in {"mark", "prepare", "commit"})
          => publisher.site \in Sites /\ NoPending(task'["publish"][publisher.site])
    BY <1>c, <2>5 DEF WaitInv, Kinds
  <2> QED
    BY <2>1, <2>6, <2>7, <2>8, <2>9, <2>10 DEF WaitInv, NoPending
<1>7. CASE CompleteSiteDeletion
  <2> DEFINE s == deleter.site
  <2>1. s \in Sites /\ UNCHANGED <<upgrading, publisher>> /\ deleter' = Idle
    BY <1>b, <1>7 DEF CompleteSiteDeletion, FailSiteDeletion
  <2>2. \E st \in {"succeeded", "failed"} : task' = [task EXCEPT !["delete"][s].st = st]
    BY <1>7 DEF CompleteSiteDeletion, FailSiteDeletion
  <2>3. TasksProgress
    BY <1>a, <2>1, <2>2, EndTaskProgress DEF Kinds
  <2>4. CASE UNCHANGED phase
    BY <2>1, <2>3, <2>4, ProgressWaits
  <2>5. CASE phase' = [phase EXCEPT ![s] = "none"]
    <3>1. phase'[s] = "none" /\ \A x \in Sites : x # s => phase'[x] = phase[x]
      BY <1>a, <2>1, <2>5
    <3>2. \A k \in Kinds, x \in Sites :
            /\ NoPending(task[k][x]) => NoPending(task'[k][x])
            /\ \A n \in Nodes : task[k][x].rows[n].st \in {"none", "succeeded"}
                => task'[k][x].rows[n] = task[k][x].rows[n]
      BY <2>3, ProgressRows DEF TasksProgress
    <3>3. NoUpgradeDuringConfirmation'
      BY <2>1, <2>3, ProgressExcludes DEF WaitInv
    <3>4. \A x \in Sites : phase'[x] = "withdrawing_dns" => NoPending(task'["delete"][x])
      BY <3>1, <3>2 DEF WaitInv, Kinds
    <3>5. \A x \in Sites, n \in Nodes : phase'[x] = "finalizing" =>
              task'["delete"][x].rows[n].st \in {"none", "succeeded"}
      BY <3>1, <3>2 DEF WaitInv, Kinds
    <3>6. (publisher # Idle /\ publisher.kind = "publish"
               /\ publisher.pc \in {"mark", "prepare", "commit"})
            => NoPending(task'["publish"][publisher.site])
      BY <1>c, <3>2 DEF WaitInv, Kinds
    <3> QED
      BY <2>1, <3>3, <3>4, <3>5, <3>6 DEF WaitInv, NoPending
  <2> QED
    BY <1>7, <2>4, <2>5 DEF CompleteSiteDeletion
<1> QED
  BY <1>1, <1>2, <1>3, <1>4, <1>5, <1>6, <1>7 DEF Delete, DeleterStep

\* The other steps only let tasks progress, except that of a new upgrade.
LEMMA WaitOthers ==
    ASSUME TypeInv, ConfirmInv, WaitInv, Draft \/ Control \/ Agent PROVE WaitInv'
<1>a. /\ TypeOK /\ task \in [Kinds -> [Sites -> Task]]
      /\ NeverAheadOfEdge /\ reported \in [Nodes -> Nat]
      /\ late \subseteq Heartbeat /\ edge \in [Nodes -> EdgeType]
  BY DEF TypeInv, TypeOK, ConfirmInv, EdgeType
<1>1. CASE Draft
  BY <1>a, <1>1, UnchangedProgress, ProgressWaits
     DEF Draft, CreateSite, StoreCertificate, SaveCertificate, RenewCertificate, UpdateSite,
         InvalidateSiteCache, BeginEdit
<1>2. ASSUME NEW n \in Nodes, NEW st \in NodeStatus, SetNodeStatus(n, st) PROVE WaitInv'
  <2>1. \A m \in Nodes : upgrading'[m] => upgrading[m]
    BY <1>2 DEF SetNodeStatus, TypeInv, TypeOK
  <2> QED
    BY <1>a, <1>2, <2>1, UnchangedProgress, ProgressWaits DEF SetNodeStatus
<1>3. ASSUME NEW n \in Nodes, CreateNodeUpgrade(n) PROVE WaitInv'
  <2>1. UNCHANGED <<task, phase, publisher, deleter>>
    BY <1>3 DEF CreateNodeUpgrade
  <2>2. \A m \in Nodes : upgrading'[m] => upgrading[m] \/ ~HasActiveNodePublication(m)
    BY <1>3 DEF CreateNodeUpgrade, TypeInv, TypeOK
  <2>3. NoUpgradeDuringConfirmation'
    BY <2>1, <2>2 DEF WaitInv, NoUpgradeDuringConfirmation, HasActiveNodePublication
  <2> QED
    BY <2>1, <2>3 DEF WaitInv, NoPending
<1>4. ASSUME NEW n \in Nodes, EndNodeUpgrade(n) PROVE WaitInv'
  <2>1. \A m \in Nodes : upgrading'[m] => upgrading[m]
    BY <1>4 DEF EndNodeUpgrade, TypeInv, TypeOK
  <2> QED
    BY <1>a, <1>4, <2>1, UnchangedProgress, ProgressWaits DEF EndNodeUpgrade
<1>5. ASSUME NEW k \in Kinds, NEW s \in Sites, DeadlinePasses(k, s) PROVE WaitInv'
  <2>1. TasksProgress
    BY <1>5, DeadlineProgress
  <2> QED
    BY <1>5, <2>1, ProgressWaits DEF DeadlinePasses
<1>6. CASE Reconcile
  <2>1. TasksProgress
    BY <1>a, <1>6, ReconciledProgress DEF Reconcile, TasksProgress, NeverAheadOfEdge
  <2> QED
    BY <1>6, <2>1, ProgressWaits DEF Reconcile
<1>7. CASE ControlCrash
  BY <1>a, <1>7, UnchangedProgress, ProgressWaits DEF ControlCrash
<1>8. ASSUME NEW n \in Nodes, \/ SyncSucceeds(n) \/ SyncFails(n) \/ SyncInterrupted(n)
                              \/ EdgeRestart(n) \/ AbandonHeartbeat(n)
      PROVE  WaitInv'
  BY <1>a, <1>8, UnchangedProgress, ProgressWaits
     DEF SyncSucceeds, SyncFails, SyncInterrupted, EdgeRestart, AbandonHeartbeat
<1>9. ASSUME NEW n \in Nodes, SendHeartbeat(n) PROVE WaitInv'
  <2>1. /\ Message(n) \in Heartbeat /\ Message(n).applied <= edge[Message(n).node].applied
        /\ Message(n).report.ok =>
            Message(n).report.version <= edge[Message(n).node].applied
    BY <1>a DEF Message, Heartbeat, EdgeType, ConfirmInv, ReportsReached
  <2>2. TasksProgress
    BY <1>a, <1>9, <2>1, RecordTasksProgress DEF SendHeartbeat
  <2> QED
    BY <1>9, <2>2, ProgressWaits DEF SendHeartbeat
<1>10. ASSUME NEW h \in late, HandleLateHeartbeat(h) PROVE WaitInv'
  <2>1. /\ h \in Heartbeat /\ h.applied <= edge[h.node].applied
        /\ h.report.ok => h.report.version <= edge[h.node].applied
    BY <1>a DEF ConfirmInv, ReportsReached
  <2>2. TasksProgress
    <3>1. CASE Record(h)
      BY <1>a, <2>1, <3>1, RecordTasksProgress
    <3>2. CASE UNCHANGED <<reported, task, status>>
      BY <1>a, <3>2, UnchangedProgress
    <3> QED
      BY <1>10, <3>1, <3>2 DEF HandleLateHeartbeat
  <2> QED
    BY <1>10, <2>2, ProgressWaits DEF HandleLateHeartbeat
<1> QED
  BY <1>1, <1>2, <1>3, <1>4, <1>5, <1>6, <1>7, <1>8, <1>9, <1>10 DEF Control, Agent

\* Nothing waits and nothing is upgraded at the start.
LEMMA WaitInit == Init => WaitInv
<1> SUFFICES ASSUME Init PROVE WaitInv
  OBVIOUS
<1>1. \A n \in Nodes : ~upgrading[n]
  BY DEF Init
<1>2. \A s \in Sites : phase[s] = "none"
  BY DEF Init
<1>3. publisher = Idle /\ deleter = Idle
  BY DEF Init
<1> QED
  BY <1>1, <1>2, <1>3 DEF WaitInv, NoUpgradeDuringConfirmation

\* The waiting invariant is inductive relative to the other two.
LEMMA WaitStep == TypeInv /\ ConfirmInv /\ WaitInv /\ [Next]_vars => WaitInv'
<1>1. WaitInv /\ UNCHANGED vars => WaitInv'
  BY DEF WaitInv, NoUpgradeDuringConfirmation, HasActiveNodePublication, NoPending, vars
<1> QED
  BY <1>1, WaitPublish, WaitDelete, WaitOthers DEF Next

\* The three invariants together.
LEMMA Inductive == Spec => [](TypeInv /\ ConfirmInv /\ WaitInv)
BY TypeInit, TypeStep, ConfirmInit, ConfirmStep, WaitInit, WaitStep, PTL DEF Spec

\* No node is upgraded while an active publish or delete task waits for it.
THEOREM UpgradesExcluded == Spec => []NoUpgradeDuringConfirmation
<1>1. WaitInv => NoUpgradeDuringConfirmation
  BY DEF WaitInv
<1> QED
  BY <1>1, Inductive, PTL

\* The cleanup of a deletion starts only when every edge it waits for has
\* applied the removal.
THEOREM CleanupWaits == Spec => []CleanupMeansApplied
<1>1. ConfirmInv /\ WaitInv => CleanupMeansApplied
  BY DEF ConfirmInv, WaitInv, ConfirmedMeansApplied, CleanupMeansApplied, Kinds
<1> QED
  BY <1>1, Inductive, PTL

\* No snapshot of a site being deleted is ever stored.
THEOREM DeletingIsNotPublished == Spec => NoPublicationWhileDeleting
<1> DEFINE Kept == \A s \in Sites :
                (site[s].row = "present" /\ site[s].draft.deleting /\ pub'[s] # pub[s])
                    => pub'[s] = NoPublication
<1>1. TypeInv /\ [Next]_vars => Kept
  <2> SUFFICES ASSUME TypeInv, [Next]_vars PROVE Kept
    OBVIOUS
  <2>1. pub \in [Sites -> Material \cup {NoPublication}]
    BY DEF TypeInv, TypeOK
  <2>2. CASE UNCHANGED pub
    BY <2>2
  <2>3. CASE CommitSitePublication
    <3>1. pub' = [pub EXCEPT ![publisher.site] = Snapshot(publisher.site)]
          /\ ~site[publisher.site].draft.deleting
      BY <2>3 DEF CommitSitePublication, Committable
    <3> QED
      BY <2>1, <3>1
  <2>4. CASE CompleteSiteDeletion
    BY <2>1, <2>4 DEF CompleteSiteDeletion
  <2>5. \/ UNCHANGED pub \/ CommitSitePublication \/ CompleteSiteDeletion
    <3>1. Draft => UNCHANGED pub
      BY DEF Draft, CreateSite, StoreCertificate, SaveCertificate, RenewCertificate, UpdateSite,
         InvalidateSiteCache, BeginEdit
    <3>2. Publish => UNCHANGED pub \/ CommitSitePublication
      BY DEF Publish, PublisherStep, BeginPublishSite, PublishEdited, BeginRebuild,
             CreateOrGetActivePublishTask, MarkApplying, Prepare, PrepareFails,
             FinishWithoutTargets, CommitRebuild, StageSiteDeletion, CommitFails
    <3>3. Delete => UNCHANGED pub \/ CompleteSiteDeletion
      BY DEF Delete, DeleterStep, BeginSiteDeletion, ResumeSiteDeletion, WithdrawDNS,
             BeginStageSiteRemoval, SiteDeletionWaits, SiteDeletionFails,
             SiteDeletionConfirmed, AwaitingEdges
    <3>4. Control => UNCHANGED pub
      BY DEF Control, SetNodeStatus, CreateNodeUpgrade, EndNodeUpgrade, DeadlinePasses,
             Reconcile, ControlCrash
    <3>5. Agent => UNCHANGED pub
      BY DEF Agent, SyncSucceeds, SyncFails, SyncInterrupted, EdgeRestart, SendHeartbeat,
             AbandonHeartbeat, HandleLateHeartbeat
    <3> QED
      BY <3>1, <3>2, <3>3, <3>4, <3>5 DEF Next, vars
  <2> QED
    BY <2>2, <2>3, <2>4, <2>5
<1>2. Spec => []TypeInv
  BY TypeInit, TypeStep, PTL DEF Spec
<1>3. Spec => [][Kept]_vars
  BY <1>1, <1>2, PTL DEF Spec
<1> QED
  BY <1>3 DEF NoPublicationWhileDeleting

-----------------------------------------------------------------------------
\* The result of a deletion is final.

\* A request advances only a deletion that is active, and a removal is staged
\* only for the request that waits for it.
DeletionInv ==
    /\ deleter # Idle => ActiveTask(task["delete"][deleter.site])
    /\ publisher # Idle /\ publisher.kind = "remove" =>
           deleter # Idle /\ deleter.pc = "staging" /\ deleter.site = publisher.site

\* A step that may settle rows of active deletions, but ends and begins none.
DeletionsGoOn ==
    \A s \in Sites :
        /\ task'["delete"][s].st = task["delete"][s].st
        /\ ~ActiveTask(task["delete"][s]) => task'["delete"][s] = task["delete"][s]

\* What a step may do to the deletion tasks: the one under way changes, or
\* those that have ended stay as they are or begin anew.
ResultsKept ==
    \A s \in Sites :
        task["delete"][s].st \in {"succeeded", "partial", "failed"} =>
            task'["delete"][s] \in {task["delete"][s], [NoTask EXCEPT !.st = "queued"]}

\* When deletions go on, so do the requests that advance them.
LEMMA GoingOn ==
    ASSUME TypeInv, DeletionInv, DeletionsGoOn,
           \/ deleter' = Idle /\ publisher' = Idle
           \/ UNCHANGED deleter /\ (publisher' # Idle /\ publisher'.kind = "remove" =>
                                      /\ publisher # Idle /\ publisher.kind = "remove"
                                      /\ publisher'.site = publisher.site)
    PROVE  DeletionInv' /\ ResultsKept
<1>1. deleter # Idle => deleter.site \in Sites
  BY DEF TypeInv, TypeOK
<1>2. ResultsKept
  BY DEF DeletionsGoOn, ResultsKept, ActiveTask
<1>3. (deleter # Idle => ActiveTask(task["delete"][deleter.site]))'
  BY <1>1 DEF DeletionInv, DeletionsGoOn, ActiveTask
<1>4. (publisher # Idle /\ publisher.kind = "remove" =>
           deleter # Idle /\ deleter.pc = "staging" /\ deleter.site = publisher.site)'
  BY DEF DeletionInv
<1> QED
  BY <1>2, <1>3, <1>4 DEF DeletionInv

\* Only the task of the deletion under way is written.
LEMMA OneDeletion ==
    ASSUME TypeInv, DeletionInv, deleter # Idle,
           NEW u, task' = [task EXCEPT !["delete"][deleter.site] = u]
    PROVE  /\ ResultsKept
           /\ task'["delete"][deleter.site] = u
<1>1. task \in [Kinds -> [Sites -> Task]] /\ "delete" \in Kinds /\ deleter.site \in Sites
  BY DEF TypeInv, TypeOK, Kinds
<1>2. task'["delete"][deleter.site] = u
  BY <1>1
<1>3. \A s \in Sites : s # deleter.site => task'["delete"][s] = task["delete"][s]
  BY <1>1
<1>4. ActiveTask(task["delete"][deleter.site])
  BY DEF DeletionInv
<1> QED
  BY <1>2, <1>3, <1>4 DEF ResultsKept, ActiveTask

\* A heartbeat settles rows of active tasks, deletions included, and ends
\* publish tasks only.
LEMMA RecordGoesOn ==
    ASSUME TypeInv, NEW h \in Heartbeat, Record(h) PROVE DeletionsGoOn
<1> DEFINE settled == [k \in Kinds |-> [s \in Sites |->
                          RecordPublishApply(task[k][s], h.node, h.report)]]
           tasks == IF h.report = NoReport THEN task ELSE settled
<1>1. task \in [Kinds -> [Sites -> Task]] /\ "delete" \in Kinds /\ "publish" \in Kinds
  BY DEF TypeInv, TypeOK, Kinds
<1>2. \A s \in Sites :
        /\ settled["delete"][s].st = task["delete"][s].st
        /\ ~ActiveTask(task["delete"][s]) => settled["delete"][s] = task["delete"][s]
  <2> SUFFICES ASSUME NEW s \in Sites
               PROVE  /\ settled["delete"][s].st = task["delete"][s].st
                      /\ ~ActiveTask(task["delete"][s]) => settled["delete"][s] = task["delete"][s]
    OBVIOUS
  <2>1. settled["delete"][s] = RecordPublishApply(task["delete"][s], h.node, h.report)
    BY <1>1
  <2>2. ASSUME NEW t \in Task
        PROVE  /\ RecordPublishApply(t, h.node, h.report).st = t.st
               /\ ~ActiveTask(t) => RecordPublishApply(t, h.node, h.report) = t
    BY DEF RecordPublishApply, Task
  <2>3. task["delete"][s] \in Task
    BY <1>1
  <2> HIDE DEF settled
  <2> QED
    BY <2>1, <2>2, <2>3
<1>3. DOMAIN tasks = Kinds
  BY <1>1
<1>4. task' = ReconcilePublishTasks(tasks, reported')
  BY DEF Record
<1>5. \A s \in Sites :
        /\ tasks["delete"][s].st = task["delete"][s].st
        /\ ~ActiveTask(task["delete"][s]) => tasks["delete"][s] = task["delete"][s]
  BY <1>2
<1> HIDE DEF tasks
<1>6. task'["delete"] = tasks["delete"]
  BY <1>1, <1>3, <1>4 DEF ReconcilePublishTasks
<1> QED
  BY <1>5, <1>6 DEF DeletionsGoOn

\* The edges and the requests outside the two workflows.
LEMMA FinalOthers ==
    ASSUME TypeInv, DeletionInv, Draft \/ Control \/ Agent
    PROVE  DeletionInv' /\ ResultsKept
<1>1. task \in [Kinds -> [Sites -> Task]] /\ "delete" \in Kinds /\ "publish" \in Kinds
  BY DEF TypeInv, TypeOK, Kinds
<1>2. CASE UNCHANGED <<task, publisher, deleter>>
  <2>1. DeletionsGoOn
    BY <1>2 DEF DeletionsGoOn
  <2> QED
    BY <1>2, <2>1, GoingOn
<1>3. CASE ControlCrash
  <2>1. DeletionsGoOn
    BY <1>3 DEF DeletionsGoOn, ControlCrash
  <2> QED
    BY <1>3, <2>1, GoingOn DEF ControlCrash
<1>4. ASSUME NEW k \in Kinds, NEW s \in Sites, DeadlinePasses(k, s)
      PROVE  DeletionInv' /\ ResultsKept
  <2>1. ASSUME NEW x \in Sites
        PROVE  /\ task'["delete"][x].st = task["delete"][x].st
               /\ ~ActiveTask(task["delete"][x]) => task'["delete"][x] = task["delete"][x]
    <3>1. CASE k = "delete" /\ x = s
      BY <1>1, <1>4, <3>1 DEF DeadlinePasses, Task
    <3>2. CASE ~(k = "delete" /\ x = s)
      BY <1>1, <1>4, <3>2 DEF DeadlinePasses
    <3> QED
      BY <3>1, <3>2
  <2>2. DeletionsGoOn
    BY <2>1 DEF DeletionsGoOn
  <2> QED
    BY <1>4, <2>2, GoingOn DEF DeadlinePasses
<1>5. CASE Reconcile
  <2>1. task'["delete"] = task["delete"]
    BY <1>1, <1>5 DEF Reconcile, ReconcilePublishTasks
  <2>2. DeletionsGoOn
    BY <2>1 DEF DeletionsGoOn
  <2> QED
    BY <1>5, <2>2, GoingOn DEF Reconcile
<1>6. ASSUME NEW h \in Heartbeat, Record(h), UNCHANGED <<publisher, deleter>>
      PROVE  DeletionInv' /\ ResultsKept
  BY <1>6, RecordGoesOn, GoingOn
<1>7. ASSUME NEW n \in Nodes, SendHeartbeat(n) PROVE DeletionInv' /\ ResultsKept
  <2>1. Message(n) \in Heartbeat
    BY DEF TypeInv, TypeOK, Message, Heartbeat
  <2> QED
    BY <1>6, <1>7, <2>1 DEF SendHeartbeat
<1>8. ASSUME NEW h \in late, HandleLateHeartbeat(h) PROVE DeletionInv' /\ ResultsKept
  <2>1. h \in Heartbeat
    BY DEF TypeInv, TypeOK
  <2> QED
    BY <1>2, <1>6, <1>8, <2>1 DEF HandleLateHeartbeat
<1>9. Draft => UNCHANGED <<task, publisher, deleter>>
  BY DEF Draft, CreateSite, StoreCertificate, SaveCertificate, RenewCertificate, UpdateSite,
     InvalidateSiteCache, BeginEdit
<1>10. CASE Control
  <2>1. \/ UNCHANGED <<task, publisher, deleter>> \/ ControlCrash \/ Reconcile
        \/ \E k \in Kinds, s \in Sites : DeadlinePasses(k, s)
    BY <1>10 DEF Control, SetNodeStatus, CreateNodeUpgrade, EndNodeUpgrade
  <2> QED
    BY <1>2, <1>3, <1>4, <1>5, <2>1
<1>11. CASE Agent
  <2>1. \/ UNCHANGED <<task, publisher, deleter>>
        \/ \E n \in Nodes : SendHeartbeat(n)
        \/ \E h \in late : HandleLateHeartbeat(h)
    BY <1>11 DEF Agent, SyncSucceeds, SyncFails, SyncInterrupted, EdgeRestart, AbandonHeartbeat
  <2> QED
    BY <1>2, <1>7, <1>8, <2>1
<1> QED
  BY <1>2, <1>9, <1>10, <1>11

\* The steps of the holder of desiredStateMu.
LEMMA FinalPublish ==
    ASSUME TypeInv, DeletionInv, Publish
    PROVE  DeletionInv' /\ ResultsKept
<1>1. /\ task \in [Kinds -> [Sites -> Task]] /\ "delete" \in Kinds /\ "publish" \in Kinds
      /\ publisher \in PublisherType /\ deleter \in DeleterType
  BY DEF TypeInv, TypeOK, Kinds, DeleterType
<1>2. ASSUME publisher.pc # "idle" PROVE publisher # Idle
  BY <1>2 DEF Idle
<1>3. ASSUME task'["delete"] = task["delete"], UNCHANGED deleter,
             \/ publisher' = Idle \/ publisher' = publisher \/ publisher'.kind # "remove"
             \/ publisher # Idle /\ publisher'.kind = publisher.kind
                  /\ publisher'.site = publisher.site
      PROVE  DeletionInv' /\ ResultsKept
  <2>1. DeletionsGoOn
    BY <1>3 DEF DeletionsGoOn
  <2> QED
    BY <1>3, <2>1, GoingOn
<1>4. CASE publisher = Idle
  <2>1. ~PublisherStep
    BY <1>4 DEF Idle, PublisherStep, CreateOrGetActivePublishTask, MarkApplying, Prepare,
       PrepareFails, CommitSitePublication, FinishWithoutTargets, CommitRebuild,
       StageSiteDeletion, CommitFails
  <2>2. ASSUME NEW s, TakeMutex(s) PROVE publisher'.kind = "publish"
    BY <2>2 DEF TakeMutex, Holding
  <2>3. ASSUME NEW scope, BeginRebuild(scope) PROVE publisher'.kind = "rebuild"
    BY <2>3 DEF BeginRebuild, Holding
  <2>4. UNCHANGED <<task, deleter>>
        /\ (publisher' = publisher \/ publisher'.kind \in {"publish", "rebuild"})
    BY <2>1, <2>2, <2>3 DEF Publish, BeginPublishSite, PublishEdited, BeginRebuild
  <2> QED
    BY <1>3, <2>4
<1>5. CASE publisher # Idle /\ (MarkApplying \/ Prepare \/ CommitSitePublication
                                 \/ FinishWithoutTargets \/ CommitRebuild)
  <2>1. task'["delete"] = task["delete"] /\ UNCHANGED deleter
    BY <1>1, <1>5 DEF MarkApplying, Prepare, CommitSitePublication, FinishWithoutTargets,
       CommitRebuild
  <2>2. publisher' = Idle
        \/ (publisher'.kind = publisher.kind /\ publisher'.site = publisher.site)
    BY <1>1, <1>5 DEF PublisherType, MarkApplying, Prepare, CommitSitePublication,
       FinishWithoutTargets, CommitRebuild
  <2> QED
    BY <1>3, <1>5, <2>1, <2>2
<1>6. CASE CreateOrGetActivePublishTask
  <2>1. task'["delete"] = task["delete"] /\ UNCHANGED deleter
    BY <1>1, <1>6 DEF CreateOrGetActivePublishTask, ReconcilePublishTasks
  <2>2. publisher # Idle
    BY <1>2, <1>6 DEF CreateOrGetActivePublishTask
  <2>3. publisher' = Idle
        \/ (publisher'.kind = publisher.kind /\ publisher'.site = publisher.site)
    BY <1>1, <1>6, <2>2 DEF PublisherType, CreateOrGetActivePublishTask
  <2> QED
    BY <1>3, <2>1, <2>2, <2>3
<1>7. CASE publisher # Idle /\ (PrepareFails \/ CommitFails)
  <2>1. Abort /\ publisher' = Idle /\ publisher.kind \in {"publish", "remove", "rebuild"}
    BY <1>1, <1>7 DEF PrepareFails, CommitFails, Abort, PublisherType
  <2>2. CASE publisher.kind # "remove"
    <3>1. task'["delete"] = task["delete"] /\ UNCHANGED deleter
      BY <1>1, <2>1, <2>2 DEF Abort
    <3> QED
      BY <1>3, <2>1, <3>1
  <2>3. CASE publisher.kind = "remove"
    <3>1. deleter # Idle /\ deleter.site = publisher.site /\ deleter.site \in Sites
      BY <1>1, <1>7, <2>3 DEF DeletionInv, DeleterType
    <3>2. /\ deleter' = Idle
          /\ task' = [task EXCEPT !["delete"][deleter.site] =
                        [task["delete"][deleter.site] EXCEPT !.st = "failed"]]
      BY <1>1, <2>1, <2>3, <3>1 DEF Abort
    <3>3. ResultsKept
      BY <3>1, <3>2, OneDeletion
    <3> QED
      BY <2>1, <3>2, <3>3 DEF DeletionInv
  <2> QED
    BY <2>2, <2>3
<1>8. CASE publisher # Idle /\ StageSiteDeletion
  <2>1. deleter # Idle /\ deleter.site = publisher.site /\ deleter.site \in Sites
    BY <1>1, <1>8 DEF DeletionInv, DeleterType, StageSiteDeletion
  <2> DEFINE u == [WithTargets(task["delete"][deleter.site]) EXCEPT !.st = "applying"]
  <2>2. task' = [task EXCEPT !["delete"][deleter.site] = u]
    BY <1>8, <2>1 DEF StageSiteDeletion
  <2>3. WithTargets(task["delete"][deleter.site]) \in Task
    <3>1. task["delete"][deleter.site] \in Task
      BY <1>1, <2>1
    <3>2. publisher.updates \in [Nodes -> State]
      BY <1>1, <1>8 DEF PublisherType
    <3> QED
      BY <3>1, <3>2, WithTargetsType
  <2>4. u.st = "applying"
    BY <2>3 DEF Task
  <2> HIDE DEF u
  <2>5. ResultsKept /\ task'["delete"][deleter.site] = u
    BY <2>1, <2>2, OneDeletion
  <2>6. publisher' = Idle /\ deleter'.site = deleter.site
    BY <1>1, <1>8, <2>1 DEF StageSiteDeletion, DeleterType
  <2> QED
    BY <2>4, <2>5, <2>6 DEF DeletionInv, ActiveTask
<1>9. CASE publisher # Idle
  <2>1. PublisherStep \/ UNCHANGED <<task, publisher, deleter>>
    BY <1>9 DEF Publish, BeginPublishSite, PublishEdited, TakeMutex, BeginRebuild
  <2> QED
    BY <1>3, <1>5, <1>6, <1>7, <1>8, <1>9, <2>1 DEF PublisherStep
<1> QED
  BY <1>4, <1>9

\* The steps of the holder of SiteDeletionManager.mu.
LEMMA FinalDelete ==
    ASSUME TypeInv, DeletionInv, Delete
    PROVE  DeletionInv' /\ ResultsKept
<1>1. /\ task \in [Kinds -> [Sites -> Task]] /\ "delete" \in Kinds
      /\ deleter \in DeleterType /\ Idle.pc = "idle"
      /\ DOMAIN task = Kinds /\ DOMAIN task["delete"] = Sites
  BY DEF TypeInv, TypeOK, Kinds, DeleterType, Idle
<1>2. ASSUME publisher # Idle, publisher.kind = "remove"
      PROVE  deleter # Idle /\ deleter.pc = "staging" /\ deleter.site = publisher.site
  BY <1>2 DEF DeletionInv
<1>3. ASSUME NEW s \in Sites, BeginSiteDeletion(s) PROVE DeletionInv' /\ ResultsKept
  <2> DEFINE q == [NoTask EXCEPT !.st = "queued"]
  <2>1. /\ task' = [task EXCEPT !["delete"][s] = q] /\ deleter'.site = s /\ deleter = Idle
        /\ UNCHANGED publisher
    BY <1>3 DEF BeginSiteDeletion
  <2>2. q.st = "queued"
    BY DEF NoTask
  <2> HIDE DEF q
  <2>3. /\ task'["delete"][s] = q
        /\ \A x \in Sites : x # s => task'["delete"][x] = task["delete"][x]
    BY <1>1, <2>1
  <2>4. ResultsKept
    BY <2>3 DEF ResultsKept, q
  <2> QED
    BY <1>2, <2>1, <2>2, <2>3, <2>4 DEF DeletionInv, ActiveTask
<1>4. ASSUME NEW s \in Sites, ResumeSiteDeletion(s) PROVE DeletionInv' /\ ResultsKept
  <2>1. /\ UNCHANGED <<task, publisher>> /\ deleter = Idle /\ deleter'.site = s
        /\ ActiveTask(task["delete"][s])
    BY <1>4 DEF ResumeSiteDeletion
  <2> QED
    BY <1>2, <2>1 DEF DeletionInv, ResultsKept, ActiveTask
<1>5. ASSUME DeleterStep
      PROVE  /\ deleter # Idle /\ deleter.site \in Sites /\ deleter.pc # "staging"
             /\ ActiveTask(task["delete"][deleter.site])
             /\ task["delete"][deleter.site] \in Task
  <2>1. deleter.pc \in {"advance", "stage"}
    BY <1>5 DEF DeleterStep, WithdrawDNS, BeginStageSiteRemoval, SiteDeletionWaits,
       SiteDeletionFails, SiteDeletionConfirmed, AwaitingEdges, CompleteSiteDeletion
  <2>2. deleter # Idle
    BY <1>1, <2>1
  <2>3. deleter.site \in Sites
    BY <1>1, <2>2 DEF DeleterType
  <2> QED
    BY <1>1, <2>1, <2>2, <2>3 DEF DeletionInv
\* Writing the task of the deletion under way and, unless it stays active,
\* leaving it.
<1>6. ASSUME DeleterStep, UNCHANGED publisher, NEW u,
             task' = [task EXCEPT !["delete"][deleter.site] = u],
             deleter' = Idle \/ (deleter'.site = deleter.site /\ ActiveTask(u))
      PROVE  DeletionInv' /\ ResultsKept
  <2>1. ResultsKept /\ task'["delete"][deleter.site] = u
    BY <1>5, <1>6, OneDeletion
  <2> QED
    BY <1>2, <1>5, <1>6, <2>1 DEF DeletionInv, ActiveTask
<1>7. ASSUME DeleterStep, NEW st, task' = [task EXCEPT !["delete"][deleter.site].st = st]
      PROVE  LET u == [task["delete"][deleter.site] EXCEPT !.st = st]
             IN  task' = [task EXCEPT !["delete"][deleter.site] = u] /\ u.st = st
  BY <1>1, <1>5, <1>7 DEF Task
<1>8. CASE WithdrawDNS
  <2>1. DeleterStep /\ UNCHANGED publisher
    BY <1>8 DEF DeleterStep, WithdrawDNS
  <2>2. PICK st \in {"applying", "failed"} :
          /\ task' = [task EXCEPT !["delete"][deleter.site].st = st]
          /\ st = "failed" => deleter' = Idle
          /\ st = "applying" => deleter' = [deleter EXCEPT !.pc = "stage"]
    BY <1>8 DEF WithdrawDNS, FailSiteDeletion
  <2> DEFINE u == [task["delete"][deleter.site] EXCEPT !.st = st]
  <2>3. task' = [task EXCEPT !["delete"][deleter.site] = u] /\ u.st = st
    BY <1>7, <2>1, <2>2
  <2>4. st = "applying" => deleter'.site = deleter.site
    BY <1>1, <1>5, <2>1, <2>2 DEF DeleterType
  <2> HIDE DEF u
  <2> QED
    BY <1>6, <2>1, <2>2, <2>3, <2>4 DEF ActiveTask
<1>9. CASE BeginStageSiteRemoval
  <2>1. /\ UNCHANGED task /\ DeleterStep
        /\ publisher' = Holding("prepare", "remove", deleter.site, {}, 0)
        /\ deleter' = [deleter EXCEPT !.pc = "staging"]
    BY <1>9 DEF BeginStageSiteRemoval, DeleterStep
  <2>2. publisher'.site = deleter.site
    BY <2>1 DEF Holding
  <2>3. deleter'.site = deleter.site /\ deleter'.pc = "staging"
    BY <1>1, <1>5, <2>1 DEF DeleterType
  <2>4. deleter' # Idle
    BY <1>1, <2>3
  <2> QED
    BY <1>5, <2>1, <2>2, <2>3, <2>4 DEF DeletionInv, ResultsKept, ActiveTask
<1>10. CASE SiteDeletionWaits
  <2>1. /\ DeleterStep /\ UNCHANGED publisher /\ deleter' = Idle
        /\ task' = [task EXCEPT !["delete"][deleter.site] = DeletionRows(deleter.site)]
    BY <1>10 DEF DeleterStep, SiteDeletionWaits, AwaitingEdges
  <2> QED
    BY <1>6, <2>1
<1>11. CASE SiteDeletionFails
  <2>1. DeleterStep /\ UNCHANGED publisher /\ deleter' = Idle
    BY <1>11 DEF DeleterStep, SiteDeletionFails, AwaitingEdges
  <2>2. \E u : task' = [task EXCEPT !["delete"][deleter.site] = u]
    BY <1>11 DEF SiteDeletionFails
  <2> QED
    BY <1>6, <2>1, <2>2
<1>12. CASE SiteDeletionConfirmed
  <2>1. /\ DeleterStep /\ UNCHANGED <<publisher, deleter>>
        /\ ActiveTask(DeletionRows(deleter.site))
        /\ task' = [task EXCEPT !["delete"][deleter.site] = DeletionRows(deleter.site)]
    BY <1>12 DEF DeleterStep, SiteDeletionConfirmed, AwaitingEdges
  <2> QED
    BY <1>6, <2>1
<1>13. CASE CompleteSiteDeletion
  <2>1. DeleterStep /\ UNCHANGED publisher
    BY <1>13 DEF DeleterStep, CompleteSiteDeletion
  <2>2. PICK st \in {"succeeded", "failed"} :
          /\ task' = [task EXCEPT !["delete"][deleter.site].st = st] /\ deleter' = Idle
    BY <1>13 DEF CompleteSiteDeletion, FailSiteDeletion
  <2>3. \E u : task' = [task EXCEPT !["delete"][deleter.site] = u]
    BY <1>7, <2>1, <2>2
  <2> QED
    BY <1>6, <2>1, <2>2, <2>3
<1> QED
  BY <1>3, <1>4, <1>8, <1>9, <1>10, <1>11, <1>12, <1>13 DEF Delete, DeleterStep

\* Every step keeps the invariant and the results.
LEMMA FinalStep ==
    TypeInv /\ DeletionInv /\ [Next]_vars => DeletionInv' /\ ResultsKept
<1> SUFFICES ASSUME TypeInv, DeletionInv, [Next]_vars PROVE DeletionInv' /\ ResultsKept
  OBVIOUS
<1>1. CASE UNCHANGED vars
  <2>1. UNCHANGED <<task, publisher, deleter>>
    BY <1>1 DEF vars
  <2>2. DeletionsGoOn
    BY <2>1 DEF DeletionsGoOn
  <2> QED
    BY <2>1, <2>2, GoingOn
<1>2. CASE Next
  BY <1>2, FinalOthers, FinalPublish, FinalDelete DEF Next
<1> QED
  BY <1>1, <1>2

\* A deletion that has ended keeps its result until the next one is started.
THEOREM DeletionEndsOnce == Spec => DeletionResultIsFinal
<1>1. Init => DeletionInv
  BY DEF Init, DeletionInv, Idle
<1>2. Spec => []TypeInv
  BY TypeInit, TypeStep, PTL DEF Spec
<1>3. Spec => [][ResultsKept]_vars
  BY <1>1, <1>2, FinalStep, PTL DEF Spec
<1> QED
  BY <1>3 DEF DeletionResultIsFinal, ResultsKept

-----------------------------------------------------------------------------
\* What the control plane wants the nodes to run is what was published.

\* The property is about behaviours in which no site is deleted and no node
\* changes its status, and in which no edit overtakes another's read.
Orderly == Operations \cap {"delete", "status", "concurrent_edits"} = {}

\* Once the updates of the publisher are saved, every node that has a desired
\* state is to run the sites S rendered from the material M.
SavedIs(S, M) ==
    \A n \in Nodes :
        IF publisher.updates[n] # Unset
        THEN publisher.updates[n].config = Render(S, M, n)
        ELSE desired[n].version # 0 => desired[n].config = Render(S, M, n)

\* Nothing is being removed, and nobody is revoked.
NothingRemoved ==
    /\ deleter = Idle
    /\ \A s \in Sites : ~ActiveTask(task["delete"][s])
    /\ publisher # Idle => publisher.kind # "remove"
    /\ \A n \in Nodes : status[n] # "revoked"

\* An edit writes the version after the one it read, so that every change of a
\* draft changes its version.
EditsAreFresh ==
    \A e \in Editors : edit[e].op \in {"update", "invalidate"} =>
        /\ site[edit[e].site].row = "present"
        /\ site[edit[e].site].cv = edit[e].read.cv
        /\ \A f \in Editors \ {e} : edit[f].op \in {"none", "publish"}

\* While the draft keeps the version the publisher read, what it rendered is
\* what its transaction is going to record.
RenderingIsFresh ==
    publisher # Idle =>
        /\ publisher.kind = "publish" =>
            /\ site[publisher.site].row = "present"
            /\ publisher.cv <= site[publisher.site].cv
        /\ publisher.pc = "commit" /\ publisher.kind = "publish"
            /\ publisher.cv = site[publisher.site].cv =>
                SavedIs(Published \cup {publisher.site}, Materials(publisher.site))
        /\ publisher.pc = "commit" /\ publisher.kind = "rebuild" =>
            SavedIs(Published, pub)

SnapshotInv ==
    NothingRemoved /\ EditsAreFresh /\ RenderingIsFresh /\ SnapshotsAreDesired

\* Two renderings of a node agree when the sites it serves in one have the same
\* material in the other.
LEMMA RenderSame ==
    ASSUME NEW S, NEW T, NEW M, NEW N, NEW n,
           \A x \in S : n \in M[x].nodes /\ M[x].enabled => x \in T /\ M[x] = N[x],
           \A x \in T : n \in N[x].nodes /\ N[x].enabled => x \in S /\ M[x] = N[x]
    PROVE  Render(S, M, n) = Render(T, N, n)
<1>1. {x \in S : n \in M[x].nodes /\ M[x].enabled}
      = {x \in T : n \in N[x].nodes /\ N[x].enabled}
  OBVIOUS
<1>2. \A x \in {x \in S : n \in M[x].nodes /\ M[x].enabled} : M[x] = N[x]
  OBVIOUS
<1> QED
  BY <1>1, <1>2 DEF Render

\* The invariant does not depend on the tasks, the versions the edges have and
\* the requests of other mutexes.
LEMMA SnapshotFrame ==
    ASSUME SnapshotInv, NothingRemoved', EditsAreFresh',
           UNCHANGED <<site, pub, desired, publisher>>
    PROVE  SnapshotInv'
<1>1. Published' = Published
  BY DEF Published
<1>2. SnapshotsAreDesired'
  BY DEF SnapshotInv, SnapshotsAreDesired, Published, Render
<1>3. Materials(publisher.site)' = Materials(publisher.site)
  BY DEF Materials
<1>4. RenderingIsFresh'
  BY <1>1, <1>3 DEF SnapshotInv, RenderingIsFresh, SavedIs, Render
<1> QED
  BY <1>2, <1>4 DEF SnapshotInv

\* A publisher that is not between its rendering and its transaction.
LEMMA SnapshotMutex ==
    ASSUME SnapshotInv, NothingRemoved', EditsAreFresh', UNCHANGED <<site, pub, desired>>,
           publisher' # Idle =>
               /\ publisher'.pc # "commit"
               /\ publisher'.kind = "publish" =>
                    /\ site[publisher'.site].row = "present"
                    /\ publisher'.cv <= site[publisher'.site].cv
    PROVE  SnapshotInv'
BY DEF SnapshotInv, RenderingIsFresh, SnapshotsAreDesired, Published, Render

\* An edit that is not touched stays fresh while its site keeps its row.
LEMMA EditsFrame ==
    ASSUME EditsAreFresh, UNCHANGED <<site, edit>>
    PROVE  EditsAreFresh'
BY DEF EditsAreFresh

\* Every change of a draft is a new row or a new version.
LEMMA DraftChangesVersion ==
    ASSUME TypeInv, Orderly, NothingRemoved, EditsAreFresh, Draft
    PROVE  /\ EditsAreFresh'
           /\ \A s \in Sites : site[s].row = "present" =>
                \/ site'[s] = site[s]
                \/ site'[s].row = "present" /\ site'[s].cv = site[s].cv + 1
<1>1. /\ site \in [Sites -> SiteRow \cup {Absent, Deleted}]
      /\ edit \in [Editors -> EditType]
      /\ "concurrent_edits" \notin Operations
  BY DEF TypeInv, TypeOK, EditType, Orderly
<1> DEFINE Open(e) == edit[e].op \in {"update", "invalidate"}
           Versions == \A s \in Sites : site[s].row = "present" =>
                          \/ site'[s] = site[s]
                          \/ site'[s].row = "present" /\ site'[s].cv = site[s].cv + 1
<1>2. Quiet => \A e \in Editors : ~Open(e)
  BY <1>1 DEF Quiet
<1>3. NoEdit.op = "none" /\ Absent.row = "absent"
  BY DEF NoEdit, Absent
<1>4. ASSUME NEW s \in Sites, CreateSite(s)
      PROVE  EditsAreFresh' /\ Versions
  <2>1. /\ site[s].row = "absent" /\ edit' = edit
        /\ \A x \in Sites \ {s} : site'[x] = site[x]
    BY <1>1, <1>3, <1>4 DEF CreateSite
  <2>2. EditsAreFresh'
    BY <1>1, <2>1 DEF EditsAreFresh, EditType, NoEdit
  <2> QED
    BY <2>1, <2>2
<1>5. ASSUME NEW s \in Sites, StoreCertificate(s)
      PROVE  Versions /\ \A e \in Editors : ~Open(e)
  <2>1. site[s] \in SiteRow
    BY <1>1, <1>5 DEF StoreCertificate, Absent, Deleted
  <2>2. site'[s].row = "present" /\ site'[s].cv = site[s].cv + 1
    BY <1>1, <1>5, <2>1 DEF StoreCertificate, SiteRow
  <2>3. \A x \in Sites \ {s} : site'[x] = site[x]
    BY <1>1, <1>5 DEF StoreCertificate
  <2> QED
    BY <1>2, <1>5, <2>2, <2>3 DEF StoreCertificate
<1>6. ASSUME NEW s \in Sites, SaveCertificate(s)
      PROVE  EditsAreFresh' /\ Versions
  BY <1>5, <1>6 DEF SaveCertificate, EditsAreFresh
<1>7. ASSUME NEW e \in Editors, NEW s \in Sites, RenewCertificate(e, s)
      PROVE  EditsAreFresh' /\ Versions
  <2>1. \A f \in Editors : edit'[f].op \notin {"update", "invalidate"}
    BY <1>1, <1>5, <1>7 DEF RenewCertificate
  <2> QED
    BY <1>5, <1>7, <2>1 DEF RenewCertificate, EditsAreFresh
<1>8. ASSUME NEW e \in Editors, NEW s \in Sites, NEW op \in {"update", "invalidate"},
             BeginEdit(e, s, op)
      PROVE  EditsAreFresh' /\ Versions
  <2>1. /\ site' = site /\ site[s].row = "present"
        /\ edit' = [edit EXCEPT ![e] = [op |-> op, site |-> s, read |-> site[s]]]
        /\ \A f \in Editors : ~Open(f)
    BY <1>2, <1>8 DEF BeginEdit
  <2>2. \A f \in Editors : edit[f].op \in {"none", "publish"}
    BY <1>1, <1>3, <2>1 DEF EditType
  <2>3. edit'[e].site = s /\ edit'[e].read = site[s]
        /\ \A f \in Editors \ {e} : edit'[f] = edit[f]
    BY <1>1, <2>1
  <2>4. EditsAreFresh'
    BY <2>1, <2>2, <2>3 DEF EditsAreFresh
  <2> QED
    BY <2>1, <2>4
<1>9. ASSUME NEW e \in Editors, UpdateSite(e) \/ InvalidateSiteCache(e)
      PROVE  EditsAreFresh' /\ Versions
  <2> DEFINE s == edit[e].site
  <2>1. Open(e) /\ edit[e] \in EditType /\ s \in Sites
    BY <1>1, <1>3, <1>9 DEF UpdateSite, InvalidateSiteCache, EditType
  <2>2. /\ site[s].row = "present" /\ site[s].cv = edit[e].read.cv
        /\ \A f \in Editors \ {e} : edit[f].op \in {"none", "publish"}
    BY <2>1 DEF EditsAreFresh
  <2>3. site[s] \in SiteRow
    BY <1>1, <2>1, <2>2 DEF Absent, Deleted
  <2>4. edit'[e].op \in {"none", "publish"} /\ \A f \in Editors \ {e} : edit'[f] = edit[f]
    <3>1. CASE UpdateSite(e)
      BY <1>1, <1>3, <3>1 DEF UpdateSite
    <3>2. CASE InvalidateSiteCache(e)
      <4>1. edit' = [edit EXCEPT ![e].op = "publish"]
        BY <2>2, <3>2 DEF InvalidateSiteCache
      <4>2. edit[e] \in [op : {"update", "invalidate", "publish"}, site : Sites,
                         read : SiteRow]
        BY <1>3, <2>1 DEF EditType
      <4> QED
        BY <1>1, <4>1, <4>2
    <3> QED
      BY <1>9, <3>1, <3>2
  <2>5. EditsAreFresh'
    BY <2>2, <2>4 DEF EditsAreFresh
  <2>6. /\ \A x \in Sites \ {s} : site'[x] = site[x]
        /\ site'[s].row = "present" /\ site'[s].cv = site[s].cv + 1
    <3>1. CASE UpdateSite(e)
      <4>1. PICK nodes, o, on : site' = [site EXCEPT ![s] =
                                            RowWritten(s, edit[e].read, nodes, on, o)]
        BY <2>2, <3>1 DEF UpdateSite
      <4> DEFINE w == RowWritten(s, edit[e].read, nodes, on, o)
      <4>2. w.row = "present" /\ w.cv = edit[e].read.cv + 1
        BY DEF RowWritten
      <4> HIDE DEF w
      <4> QED
        BY <1>1, <2>1, <2>2, <4>1, <4>2 DEF w
    <3>2. CASE InvalidateSiteCache(e)
      <4>1. site' = [site EXCEPT ![s].draft.gen = @ + 1, ![s].cv = @ + 1,
                                 ![s].published = FALSE]
        BY <2>2, <3>2 DEF InvalidateSiteCache
      <4> QED
        BY <1>1, <2>1, <2>3, <4>1 DEF SiteRow
    <3> QED
      BY <1>9, <3>1, <3>2
  <2> QED
    BY <2>5, <2>6
<1> QED
  BY <1>4, <1>6, <1>7, <1>8, <1>9 DEF Draft

\* Drafts change under a publisher: its rendering stays what it records, or is
\* refused.
LEMMA SnapshotDraft ==
    ASSUME TypeInv, Orderly, SnapshotInv, Draft
    PROVE  SnapshotInv'
<1>1. /\ NothingRemoved /\ EditsAreFresh /\ RenderingIsFresh /\ SnapshotsAreDesired
      /\ publisher # Idle /\ publisher.kind = "publish" => publisher.site \in Sites
  BY DEF SnapshotInv, TypeInv, PublisherOK
<1>2. UNCHANGED <<pub, desired, status, task, deleter, publisher>>
  BY DEF Draft, CreateSite, SaveCertificate, RenewCertificate, StoreCertificate, UpdateSite,
         InvalidateSiteCache, BeginEdit
<1>3. NothingRemoved' /\ SnapshotsAreDesired'
  BY <1>1, <1>2 DEF NothingRemoved, SnapshotsAreDesired, Published, Render
<1>4. /\ EditsAreFresh'
      /\ \A s \in Sites : site[s].row = "present" =>
            \/ site'[s] = site[s]
            \/ site'[s].row = "present" /\ site'[s].cv = site[s].cv + 1
  BY <1>1, DraftChangesVersion
<1>5. publisher # Idle => publisher.cv \in Nat /\ publisher.kind \in {"publish", "remove", "rebuild"}
  BY DEF TypeInv, TypeOK, PublisherType
<1>6. CASE publisher = Idle \/ publisher.kind # "publish"
  <2>1. Published' = Published
    BY <1>2 DEF Published
  <2>2. SavedIs(Published, pub) => SavedIs(Published, pub)'
    BY <1>2, <2>1 DEF SavedIs, Render
  <2>3. RenderingIsFresh'
    BY <1>1, <1>2, <1>6, <2>2 DEF RenderingIsFresh
  <2> QED
    BY <1>3, <1>4, <2>3 DEF SnapshotInv
<1>7. CASE publisher # Idle /\ publisher.kind = "publish"
  <2> DEFINE p == publisher.site
  <2>1. p \in Sites /\ site[p].row = "present" /\ publisher.cv <= site[p].cv
    BY <1>1, <1>7 DEF RenderingIsFresh
  <2>2. CASE site'[p] = site[p]
    <3>1. Published' = Published /\ Materials(p)' = Materials(p)
      BY <1>2, <2>2 DEF Published, Materials
    <3>2. RenderingIsFresh'
      BY <1>1, <1>2, <1>7, <2>1, <2>2, <3>1 DEF RenderingIsFresh, SavedIs, Render
    <3> QED
      BY <1>3, <1>4, <3>2 DEF SnapshotInv
  <2>3. CASE site'[p].row = "present" /\ site'[p].cv = site[p].cv + 1
    <3>1. site[p].cv \in Nat
      BY <2>1 DEF TypeInv, TypeOK, SiteRow, Absent, Deleted
    <3>2. publisher.cv <= site'[p].cv /\ publisher.cv # site'[p].cv
      BY <1>5, <1>7, <2>1, <2>3, <3>1
    <3>3. RenderingIsFresh'
      BY <1>2, <1>7, <2>3, <3>2 DEF RenderingIsFresh
    <3> QED
      BY <1>3, <1>4, <3>3 DEF SnapshotInv
  <2> QED
    BY <1>4, <2>1, <2>2, <2>3
<1> QED
  BY <1>6, <1>7

\* A rendering covers every node: the affected ones are rendered, and the
\* others would be rendered as they are.
LEMMA SnapshotPrepare ==
    ASSUME TypeInv, SnapshotInv, Prepare, NothingRemoved', EditsAreFresh'
    PROVE  SnapshotInv'
<1> DEFINE p == publisher.site
           u == NodeStateUpdates(Plan.sites, Plan.materials, Plan.affected)
<1>1. /\ NothingRemoved /\ EditsAreFresh /\ RenderingIsFresh /\ SnapshotsAreDesired
      /\ publisher # Idle /\ publisher.pc = "prepare" /\ Preparable(Plan)
      /\ UNCHANGED <<site, pub, desired, status>>
  BY DEF SnapshotInv, Prepare, Idle
<1>2. publisher.kind \in {"publish", "rebuild"} /\ publisher \in PublisherType \ {Idle}
      /\ (publisher.kind = "publish" => p \in Sites)
  BY <1>1 DEF NothingRemoved, TypeInv, TypeOK, PublisherOK, PublisherType
<1>3. /\ publisher'.kind = publisher.kind /\ publisher'.site = p
      /\ publisher'.cv = publisher.cv /\ publisher'.updates = u /\ publisher' # Idle
  BY <1>2 DEF Prepare, PublisherType, Idle
<1>4. \A n \in Nodes : IF u[n] # Unset THEN u[n].config = Render(Plan.sites, Plan.materials, n)
        ELSE n \in Plan.affected /\ desired[n].version # 0
                => desired[n].config = Render(Plan.sites, Plan.materials, n)
  <2>1. \A n \in Nodes : desired[n].version \in Nat /\ ~Retired(n)
    BY <1>1 DEF NothingRemoved, Retired, TypeInv, TypeOK, State
  <2>2. \A n \in Nodes : [version |-> NextVersion(n),
                          config |-> Render(Plan.sites, Plan.materials, n)] # Unset
    BY <2>1 DEF NextVersion, Unset
  <2> QED
    BY <2>1, <2>2 DEF NodeStateUpdates
<1>5. ASSUME NEW n \in Nodes, n \notin Plan.affected
      PROVE  Render(Plan.sites, Plan.materials, n) = Render(Published, pub, n)
  <2>1. CASE publisher.kind = "rebuild"
    BY <2>1 DEF Plan
  <2>2. CASE publisher.kind = "publish"
    <3>1. /\ Plan.sites = Published \cup {p} /\ Plan.materials = Materials(p)
          /\ n \notin site[p].draft.nodes /\ (pub[p] # NoPublication => n \notin pub[p].nodes)
      BY <1>5, <2>2 DEF Plan, AffectedNodes
    <3>2. \A x \in Published \cup {p} : x \in Sites
      BY <1>2, <2>2 DEF Published
    <3>3. \A x \in Sites : Materials(p)[x] = IF x = p THEN site[p].draft ELSE pub[x]
      BY DEF Materials
    <3>4. \A x \in Published \cup {p} :
            n \in Materials(p)[x].nodes => x # p /\ x \in Published /\ Materials(p)[x] = pub[x]
      BY <3>1, <3>2, <3>3
    <3>5. \A x \in Published : n \in pub[x].nodes => x # p /\ Materials(p)[x] = pub[x]
      BY <3>1, <3>2, <3>3 DEF Published
    <3> QED
      BY <3>1, <3>4, <3>5, RenderSame
  <2> QED
    BY <1>2, <2>1, <2>2
<1>6. \A n \in Nodes : IF u[n] # Unset THEN u[n].config = Render(Plan.sites, Plan.materials, n)
        ELSE desired[n].version # 0 => desired[n].config = Render(Plan.sites, Plan.materials, n)
  BY <1>1, <1>4, <1>5 DEF SnapshotsAreDesired
<1>7. Published' = Published /\ Materials(p)' = Materials(p)
  BY <1>1, <1>3 DEF Published, Materials
<1> HIDE DEF u
<1>8. CASE publisher.kind = "publish"
  <2>1. Plan.sites = Published \cup {p} /\ Plan.materials = Materials(p)
    BY <1>8 DEF Plan
  <2>2. SavedIs(Published \cup {p}, Materials(p))'
    BY <1>1, <1>3, <1>6, <1>7, <2>1 DEF SavedIs, Render
  <2>3. RenderingIsFresh'
    BY <1>1, <1>3, <1>8, <2>2 DEF RenderingIsFresh
  <2> QED
    BY <1>1, <2>3 DEF SnapshotInv, SnapshotsAreDesired, Published, Render
<1>9. CASE publisher.kind = "rebuild"
  <2>1. Plan.sites = Published /\ Plan.materials = pub
    BY <1>9 DEF Plan
  <2>2. SavedIs(Published, pub)'
    BY <1>1, <1>3, <1>6, <1>7, <2>1 DEF SavedIs, Render
  <2>3. RenderingIsFresh'
    BY <1>1, <1>3, <1>9, <2>2 DEF RenderingIsFresh
  <2> QED
    BY <1>1, <2>3 DEF SnapshotInv, SnapshotsAreDesired, Published, Render
<1> QED
  BY <1>2, <1>8, <1>9

\* Saving the updates makes every node run what they were rendered from.
LEMMA SavedIsDesired ==
    ASSUME NEW S, NEW M, SavedIs(S, M), desired' = SaveNodeStates(publisher.updates),
           \A n \in Nodes : Render(Published', pub', n) = Render(S, M, n)
    PROVE  SnapshotsAreDesired'
<1>1. \A n \in Nodes : desired'[n] = IF publisher.updates[n] # Unset
                                     THEN publisher.updates[n] ELSE desired[n]
  BY DEF SaveNodeStates
<1>2. \A n \in Nodes : desired'[n].version # 0 => desired'[n].config = Render(S, M, n)
  BY <1>1 DEF SavedIs
<1>3. \A n \in Nodes : Render(Published, pub, n)' = Render(Published', pub', n)
  BY DEF Render
<1> QED
  BY <1>2, <1>3 DEF SnapshotsAreDesired

\* The transactions record what was rendered.
LEMMA SnapshotCommit ==
    ASSUME TypeInv, SnapshotInv, CommitSitePublication \/ CommitRebuild,
           NothingRemoved', EditsAreFresh'
    PROVE  SnapshotInv'
<1>1. /\ RenderingIsFresh /\ SnapshotsAreDesired /\ EditsAreFresh
      /\ publisher # Idle /\ publisher.pc = "commit"
      /\ pub \in [Sites -> Material \cup {NoPublication}]
  BY DEF SnapshotInv, TypeInv, TypeOK, CommitSitePublication, CommitRebuild, Idle
<1>2. CASE CommitRebuild
  <2>1. SavedIs(Published, pub) /\ UNCHANGED pub /\ publisher' = Idle
        /\ desired' = SaveNodeStates(publisher.updates)
    BY <1>1, <1>2 DEF RenderingIsFresh, CommitRebuild
  <2>2. SnapshotsAreDesired'
    BY <2>1, SavedIsDesired DEF Published
  <2> QED
    BY <2>1, <2>2 DEF SnapshotInv, RenderingIsFresh
<1>3. CASE CommitSitePublication
  <2> DEFINE p == publisher.site
  <2>1. /\ p \in Sites /\ publisher \in PublisherType \ {Idle} /\ publisher.kind = "publish"
        /\ site[p].row = "present" /\ ~site[p].draft.deleting /\ site[p].cv = publisher.cv
    BY <1>1, <1>3 DEF CommitSitePublication, Committable, TypeInv, TypeOK, PublisherOK
  <2>2. site[p] \in SiteRow /\ site \in [Sites -> SiteRow \cup {Absent, Deleted}]
    BY <2>1 DEF TypeInv, TypeOK, Absent, Deleted
  <2>3. SavedIs(Published \cup {p}, Materials(p)) /\ desired' = SaveNodeStates(publisher.updates)
    BY <1>1, <1>3, <2>1 DEF RenderingIsFresh, CommitSitePublication
  <2>4. pub' = [pub EXCEPT ![p] = site[p].draft]
    BY <1>3 DEF CommitSitePublication, Snapshot
  <2>5. \A x \in Sites : pub'[x] = Materials(p)[x]
    BY <1>1, <2>1, <2>4 DEF Materials
  <2>6. site[p].draft \in Material
    BY <2>2 DEF SiteRow
  <2>7. site[p].draft # NoPublication
    BY <2>6 DEF Material, NoPublication
  <2>8. Published' = Published \cup {p}
    BY <1>1, <2>1, <2>4, <2>7 DEF Published
  <2>9. \A n \in Nodes : Render(Published', pub', n) = Render(Published \cup {p}, Materials(p), n)
    BY <2>1, <2>5, <2>8, RenderSame DEF Published
  <2>10. SnapshotsAreDesired'
    BY <2>3, <2>9, SavedIsDesired
  <2>11. site'[p].row = "present" /\ site'[p].cv = site[p].cv
    BY <1>3, <2>1, <2>2 DEF CommitSitePublication, SiteRow
  <2>12. publisher' # Idle => publisher'.pc = "finish" /\ publisher'.site = p
                              /\ publisher'.cv = publisher.cv
    BY <1>3, <2>1 DEF CommitSitePublication, PublisherType
  <2>13. site[p].cv \in Nat
    BY <2>2 DEF SiteRow
  <2> HIDE DEF p
  <2>14. RenderingIsFresh'
    BY <2>1, <2>11, <2>12, <2>13 DEF RenderingIsFresh
  <2> QED
    BY <2>10, <2>14 DEF SnapshotInv
<1> QED
  BY <1>2, <1>3

\* Recording a heartbeat ends tasks, and never makes one active.
LEMMA RecordEnds ==
    ASSUME TypeInv, NEW h \in Heartbeat, Record(h), NothingRemoved
    PROVE  /\ \A s \in Sites : ~ActiveTask(task'["delete"][s])
           /\ \A n \in Nodes : status'[n] # "revoked"
<1>1. status \in [Nodes -> NodeStatus] /\ task \in [Kinds -> [Sites -> Task]]
      /\ "delete" \in Kinds /\ "publish" \in Kinds
  BY DEF TypeInv, TypeOK, Kinds
<1> DEFINE settled == [k \in Kinds |-> [s \in Sites |->
                          RecordPublishApply(task[k][s], h.node, h.report)]]
           tasks == IF h.report = NoReport THEN task ELSE settled
<1>2. \A s \in Sites : ~ActiveTask(tasks["delete"][s])
  <2>1. \A s \in Sites : settled["delete"][s] = task["delete"][s]
    BY <1>1 DEF RecordPublishApply, NothingRemoved
  <2> QED
    BY <2>1 DEF NothingRemoved
<1>3. DOMAIN tasks = Kinds
  BY <1>1
<1>4. task' = ReconcilePublishTasks(tasks, reported')
  BY DEF Record
<1> HIDE DEF tasks
<1>5. task'["delete"] = tasks["delete"]
  BY <1>1, <1>3, <1>4 DEF ReconcilePublishTasks
<1> QED
  BY <1>1, <1>2, <1>5 DEF Record, NothingRemoved

\* Nothing is removed by the steps of the holder of desiredStateMu.
LEMMA NothingRemovedPublish ==
    ASSUME TypeInv, NothingRemoved, Publish
    PROVE  NothingRemoved'
<1>1. /\ task \in [Kinds -> [Sites -> Task]] /\ "delete" \in Kinds
      /\ publisher \in PublisherType
  BY DEF TypeInv, TypeOK, Kinds
<1>2. UNCHANGED status
  BY DEF Publish, PublisherStep, BeginPublishSite, PublishEdited, TakeMutex, BeginRebuild,
         CreateOrGetActivePublishTask, MarkApplying, Prepare, PrepareFails,
         CommitSitePublication, FinishWithoutTargets, CommitRebuild, StageSiteDeletion,
         CommitFails
<1>3. ASSUME publisher.pc # "idle" PROVE publisher # Idle /\ publisher.kind # "remove"
  BY <1>3 DEF Idle, NothingRemoved
<1>4. ASSUME PrepareFails \/ CommitFails
      PROVE  publisher' = Idle /\ UNCHANGED deleter /\ task'["delete"] = task["delete"]
  BY <1>1, <1>3, <1>4 DEF PrepareFails, CommitFails, Abort
<1>5. ASSUME CreateOrGetActivePublishTask
      PROVE  UNCHANGED deleter /\ task'["delete"] = task["delete"]
  BY <1>1, <1>5 DEF CreateOrGetActivePublishTask, ReconcilePublishTasks
<1>6. ASSUME Publish
      PROVE  UNCHANGED deleter /\ task'["delete"] = task["delete"]
  BY <1>1, <1>3, <1>4, <1>5
     DEF Publish, PublisherStep, BeginPublishSite, PublishEdited, BeginRebuild,
         MarkApplying, Prepare, CommitSitePublication, FinishWithoutTargets, CommitRebuild,
         StageSiteDeletion
<1>7. publisher' # Idle => publisher'.kind # "remove"
  <2>1. CASE publisher = Idle
    <3>1. ~PublisherStep
      BY <2>1 DEF Idle, PublisherStep, CreateOrGetActivePublishTask, MarkApplying, Prepare,
         PrepareFails, CommitSitePublication, FinishWithoutTargets, CommitRebuild,
         StageSiteDeletion, CommitFails
    <3>2. ASSUME NEW s, TakeMutex(s) PROVE publisher'.kind = "publish"
      BY <3>2 DEF TakeMutex, Holding
    <3>3. ASSUME NEW scope, BeginRebuild(scope) PROVE publisher'.kind = "rebuild"
      BY <3>3 DEF BeginRebuild, Holding
    <3>4. \/ publisher'.kind = "publish" \/ publisher'.kind = "rebuild" \/ UNCHANGED publisher
      BY <3>1, <3>2, <3>3 DEF Publish, BeginPublishSite, PublishEdited
    <3> QED
      BY <2>1, <3>4
  <2>2. CASE publisher # Idle
    <3>1. \/ publisher' = Idle \/ publisher' = publisher
          \/ CreateOrGetActivePublishTask \/ MarkApplying \/ Prepare
          \/ CommitSitePublication
      BY <1>4, <2>2
         DEF Publish, PublisherStep, BeginPublishSite, PublishEdited, TakeMutex, BeginRebuild,
             FinishWithoutTargets, CommitRebuild, StageSiteDeletion
    <3>2. publisher' = Idle \/ publisher'.kind = publisher.kind
      BY <1>1, <2>2, <3>1 DEF CreateOrGetActivePublishTask, MarkApplying, Prepare,
             CommitSitePublication, PublisherType
    <3> QED
      BY <2>2, <3>2 DEF NothingRemoved
  <2> QED
    BY <2>1, <2>2
<1> QED
  BY <1>2, <1>6, <1>7 DEF NothingRemoved

\* The steps of the holder of desiredStateMu.
LEMMA SnapshotPublish ==
    ASSUME TypeInv, SnapshotInv, Publish
    PROVE  SnapshotInv'
<1>1. /\ NothingRemoved /\ EditsAreFresh /\ RenderingIsFresh
      /\ site \in [Sites -> SiteRow \cup {Absent, Deleted}]
      /\ edit \in [Editors -> EditType] /\ publisher \in PublisherType
  BY DEF SnapshotInv, TypeInv, TypeOK, EditType
<1>2. NothingRemoved'
  BY <1>1, NothingRemovedPublish
<1>3. ASSUME publisher.pc # "idle" PROVE publisher # Idle /\ publisher.kind # "remove"
  BY <1>1, <1>3 DEF Idle, NothingRemoved
<1>4. EditsAreFresh'
  <2>1. ASSUME NEW e \in Editors, PublishEdited(e) PROVE EditsAreFresh'
    <3>1. UNCHANGED site /\ edit' = [edit EXCEPT ![e] = NoEdit] /\ NoEdit.op = "none"
      BY <2>1 DEF PublishEdited, NoEdit
    <3>2. \A f \in Editors : edit'[f] = edit[f] \/ edit'[f].op = "none"
      BY <1>1, <3>1
    <3> QED
      BY <1>1, <3>1, <3>2 DEF EditsAreFresh
  <2>2. CASE CommitSitePublication
    <3> DEFINE p == publisher.site
    <3>1. UNCHANGED edit /\ p \in Sites /\ site[p].row = "present"
          /\ site' = [site EXCEPT ![p].published = TRUE]
      BY <1>3, <2>2 DEF CommitSitePublication, Committable, TypeInv, PublisherOK
    <3>2. site[p] \in SiteRow
      BY <1>1, <3>1 DEF Absent, Deleted
    <3>3. \A x \in Sites : site[x].row = "present" =>
            site'[x].row = site[x].row /\ site'[x].cv = site[x].cv
      BY <1>1, <3>1, <3>2 DEF SiteRow
    <3>4. \A e \in Editors : edit[e].op \in {"update", "invalidate"} => edit[e].site \in Sites
      BY <1>1 DEF EditType, NoEdit
    <3> QED
      BY <1>1, <3>1, <3>3, <3>4 DEF EditsAreFresh
  <2>3. \/ UNCHANGED <<site, edit>> \/ CommitSitePublication
        \/ \E e \in Editors : PublishEdited(e)
    BY DEF Publish, PublisherStep, BeginPublishSite, BeginRebuild,
         CreateOrGetActivePublishTask, MarkApplying, Prepare, PrepareFails,
         FinishWithoutTargets, CommitRebuild, StageSiteDeletion, CommitFails
  <2> QED
    BY <1>1, <2>1, <2>2, <2>3, EditsFrame
<1>5. ASSUME \/ \E s \in Sites : BeginPublishSite(s)
             \/ \E e \in Editors : PublishEdited(e)
             \/ BeginRebuild(Nodes)
             \/ \E n \in Nodes : BeginRebuild({n})
      PROVE  SnapshotInv'
  <2>1. UNCHANGED <<site, pub, desired>> /\ publisher = Idle
    BY <1>5 DEF BeginPublishSite, PublishEdited, BeginRebuild, TakeMutex
  <2>2. \/ publisher' = Idle
        \/ \E s \in Sites : /\ publisher' = Holding("create", "publish", s, {}, site[s].cv)
                            /\ site[s].row = "present"
        \/ \E scope : publisher' = Holding("prepare", "rebuild", NoSite, scope, 0)
    <3>1. \A e \in Editors : edit[e].op = "publish" => edit[e].site \in Sites
      BY <1>1 DEF EditType, NoEdit
    <3> QED
      BY <1>5, <2>1, <3>1 DEF BeginPublishSite, PublishEdited, BeginRebuild, TakeMutex
  <2>3. \A s \in Sites : site[s].row = "present" => site[s].cv \in Nat
    BY <1>1 DEF SiteRow, Absent, Deleted
  <2>4. publisher' # Idle =>
               /\ publisher'.pc # "commit"
               /\ publisher'.kind = "publish" =>
                    /\ site[publisher'.site].row = "present"
                    /\ publisher'.cv <= site[publisher'.site].cv
    BY <2>2, <2>3 DEF Holding
  <2> QED
    BY <1>2, <1>4, <2>1, <2>4, SnapshotMutex
<1>6. CASE \/ CreateOrGetActivePublishTask \/ MarkApplying \/ PrepareFails \/ CommitFails
           \/ FinishWithoutTargets
  <2>1. UNCHANGED <<site, pub, desired>> /\ publisher # Idle
    BY <1>3, <1>6 DEF CreateOrGetActivePublishTask, MarkApplying, PrepareFails, CommitFails,
         FinishWithoutTargets
  <2>2. \/ publisher' = Idle
        \/ \E pc \in {"mark", "prepare"} : publisher' = [publisher EXCEPT !.pc = pc]
    BY <1>6 DEF CreateOrGetActivePublishTask, MarkApplying, PrepareFails, CommitFails,
         FinishWithoutTargets, Abort
  <2>3. publisher' # Idle => /\ publisher'.pc \in {"mark", "prepare"}
                             /\ publisher'.kind = publisher.kind
                             /\ publisher'.site = publisher.site
                             /\ publisher'.cv = publisher.cv
    BY <1>1, <2>1, <2>2 DEF PublisherType
  <2> QED
    BY <1>1, <1>2, <1>4, <2>1, <2>3, SnapshotMutex DEF RenderingIsFresh
<1>7. CASE Prepare
  BY <1>2, <1>4, <1>7, SnapshotPrepare
<1>8. CASE CommitSitePublication \/ CommitRebuild
  BY <1>2, <1>4, <1>8, SnapshotCommit
<1>9. CASE StageSiteDeletion
  BY <1>3, <1>9 DEF StageSiteDeletion
<1> QED
  BY <1>5, <1>6, <1>7, <1>8, <1>9 DEF Publish, PublisherStep

\* No deletion takes a step.
LEMMA SnapshotDelete ==
    ASSUME Orderly, SnapshotInv, Delete
    PROVE  FALSE
BY DEF Delete, DeleterStep, SnapshotInv, NothingRemoved, Orderly, Idle,
       BeginSiteDeletion, ResumeSiteDeletion, WithdrawDNS, BeginStageSiteRemoval,
       SiteDeletionWaits, SiteDeletionFails, SiteDeletionConfirmed, AwaitingEdges,
       CompleteSiteDeletion

\* Upgrades, deadlines, crashes, edges and heartbeats.
LEMMA SnapshotOthers ==
    ASSUME TypeInv, Orderly, SnapshotInv, Control \/ Agent
    PROVE  SnapshotInv'
<1>1. NothingRemoved /\ EditsAreFresh /\ task \in [Kinds -> [Sites -> Task]]
      /\ "delete" \in Kinds
  BY DEF SnapshotInv, TypeInv, TypeOK, Kinds
<1>2. CASE ControlCrash
  <2>1. NothingRemoved'
    BY <1>1, <1>2 DEF NothingRemoved, ControlCrash
  <2>2. EditsAreFresh'
    BY <1>2 DEF EditsAreFresh, ControlCrash, NoEdit
  <2> QED
    BY <1>2, <2>1, <2>2, SnapshotMutex DEF ControlCrash
<1>3. ASSUME UNCHANGED <<site, pub, desired, publisher, deleter, edit>>,
             \A s \in Sites : ~ActiveTask(task'["delete"][s]),
             \A n \in Nodes : status'[n] # "revoked"
      PROVE  SnapshotInv'
  BY <1>1, <1>3, EditsFrame, SnapshotFrame DEF NothingRemoved
<1>4. CASE Control /\ ~ControlCrash
  <2>1. UNCHANGED <<site, pub, desired, publisher, deleter, edit, status>>
    BY <1>4 DEF Control, SetNodeStatus, CreateNodeUpgrade, EndNodeUpgrade, DeadlinePasses,
         Reconcile, Orderly
  <2>2. ASSUME NEW k \in Kinds, NEW x \in Sites, DeadlinePasses(k, x)
        PROVE  task'["delete"] = task["delete"]
    <3>1. k # "delete"
      BY <1>1, <2>2 DEF DeadlinePasses, NothingRemoved
    <3> QED
      BY <1>1, <2>2, <3>1 DEF DeadlinePasses
  <2>3. task'["delete"] = task["delete"]
    BY <1>1, <1>4, <2>2 DEF Control, SetNodeStatus, CreateNodeUpgrade, EndNodeUpgrade,
         Reconcile, ReconcilePublishTasks
  <2> QED
    BY <1>1, <1>3, <2>1, <2>3 DEF NothingRemoved
<1>5. CASE Agent
  <2>1. UNCHANGED <<site, pub, desired, publisher, deleter, edit>>
    BY <1>5 DEF Agent, SyncSucceeds, SyncFails, SyncInterrupted, EdgeRestart, SendHeartbeat,
         AbandonHeartbeat, HandleLateHeartbeat
  <2>2. \/ UNCHANGED <<task, status>> \/ \E h \in Heartbeat : Record(h)
    <3>1. \A n \in Nodes : Message(n) \in Heartbeat
      BY DEF Message, Heartbeat, TypeInv, TypeOK
    <3>2. late \subseteq Heartbeat
      BY DEF TypeInv, TypeOK
    <3> QED
      BY <1>5, <3>1, <3>2 DEF Agent, SyncSucceeds, SyncFails, SyncInterrupted, EdgeRestart,
         SendHeartbeat, AbandonHeartbeat, HandleLateHeartbeat
  <2> QED
    BY <1>1, <1>3, <2>1, <2>2, RecordEnds DEF NothingRemoved
<1> QED
  BY <1>2, <1>4, <1>5

\* Nothing is published and nothing is desired at the start.
LEMMA SnapshotInit == Init => SnapshotInv
BY ConstantsAssumption
   DEF Init, SnapshotInv, NothingRemoved, EditsAreFresh, RenderingIsFresh,
       SnapshotsAreDesired, NoEdit, Unset, NoTask, ActiveTask, Kinds

\* Every step keeps the invariant.
LEMMA SnapshotStep ==
    ASSUME Orderly
    PROVE  TypeInv /\ SnapshotInv /\ [Next]_vars => SnapshotInv'
<1>1. SnapshotInv /\ UNCHANGED vars => SnapshotInv'
  BY SnapshotFrame DEF SnapshotInv, NothingRemoved, EditsAreFresh, vars
<1> QED
  BY <1>1, SnapshotDraft, SnapshotPublish, SnapshotDelete, SnapshotOthers DEF Next

\* Every node is to run exactly what was published, whatever drafts are edited
\* while a publication or a rebuild is between its rendering and its
\* transaction, for any sites and nodes: in behaviours without deletions and
\* changes of a node's status, and without edits that overtake each other.
THEOREM DesiredIsPublished ==
    ASSUME Orderly
    PROVE  Spec => []SnapshotsAreDesired
<1>1. Spec => [](TypeInv /\ SnapshotInv)
  BY TypeInit, TypeStep, SnapshotInit, SnapshotStep, PTL DEF Spec
<1>2. SnapshotInv => SnapshotsAreDesired
  BY DEF SnapshotInv
<1> QED
  BY <1>1, <1>2, PTL

=============================================================================
