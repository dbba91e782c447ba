----------------------------- MODULE Monitoring -----------------------------
(***************************************************************************)
(* TCP monitoring: the monitoring page of the console                      *)
(* (monitoring-page.tsx), the targets and the state of one node in the     *)
(* store (store/monitoring.go) and the rounds of the node's edge agent     *)
(* (edge/monitoring.go).  The page edits targets from a list that it polls *)
(* every 10 seconds; the agent probes the targets that were enabled when   *)
(* its round began.                                                        *)
(*                                                                         *)
(* A target is absent, on or off; names and addresses are left out, and so *)
(* is a name that is taken, which is one way to be refused.                *)
(***************************************************************************)
EXTENDS Naturals, FiniteSets

CONSTANTS
    Targets,         \* monitoring targets, of which at most 32 exist
    PauseAfter,      \* MonitoringAutoPauseAfter, 4 in the code
    MaxMutations     \* bound: requests of the page under way

ASSUME MonitoringAssumption == PauseAfter \in Nat \ {0}

VARIABLES
    targets,    \* table monitoring_targets
    node,       \* the node: status, monitor_auto_paused, consecutive_abnormal
    results,    \* the targets with a row in monitoring_probe_results
    probing,    \* the round of the agent under way: the targets it probes
    listed,     \* the targets in the cached overview (query ["monitoring"])
    dialog,     \* the open dialog and the target it is about, as listed then
    mutations   \* the requests of the page under way

monitoringVars == <<targets, node, results, probing, listed, dialog, mutations>>
-----------------------------------------------------------------------------
States == {"absent", "on", "off"}
NoDialogOpen == [kind |-> "none", target |-> "none", state |-> "absent"]
Enabled(table) == {t \in Targets : table[t] = "on"}

MonitoringInit ==
    /\ targets \in [Targets -> {"absent", "on"}]
    /\ node = [status |-> "active", paused |-> FALSE, abnormal |-> 0]
    /\ results = {}
    /\ probing = {}
    /\ listed = targets
    /\ dialog = NoDialogOpen
    /\ mutations = {}
-----------------------------------------------------------------------------
(***************************************************************************)
(* The store.                                                              *)
(***************************************************************************)
\* Mutant: the results are dropped, and a paused node stays paused.
resetMonitoringStateOnly(table) ==
    /\ node' = [node EXCEPT !.abnormal = 0]
    /\ results' = {}

\* resetMonitoringStateTx, with the targets as they are in the transaction:
\* with none left, the node is no longer paused.
resetMonitoringState(table) ==
    /\ node' = IF Enabled(table) = {} /\ node.paused
               THEN [status |-> IF node.status = "draining" THEN "active" ELSE node.status,
                     paused |-> FALSE, abnormal |-> 0]
               ELSE [node EXCEPT !.abnormal = 0]
    /\ results' = {}

CreateMonitoringTarget(t) ==
    /\ targets[t] = "absent"
    /\ targets' = [targets EXCEPT ![t] = "on"]
    /\ resetMonitoringState(targets')

\* UpdateMonitoringTarget(id, name, enabled): "keep" when the request has no
\* enabled.
UpdateMonitoringTarget(t, enabled) ==
    /\ targets[t] # "absent"
    /\ targets' = [targets EXCEPT ![t] = IF enabled = "keep" THEN @ ELSE enabled]
    /\ IF targets' # targets THEN resetMonitoringState(targets')
       ELSE UNCHANGED <<node, results>>

DeleteMonitoringTarget(t) ==
    /\ targets[t] # "absent"
    /\ targets' = [targets EXCEPT ![t] = "absent"]
    /\ resetMonitoringState(targets')

\* RecordMonitoringRound: refused unless it is about the targets that are
\* enabled now.
RecordMonitoringRound(ok) ==
    /\ probing # {}
    /\ IF probing = Enabled(targets)
       THEN LET abnormal == IF ok THEN 0
                            ELSE IF node.abnormal < PauseAfter THEN node.abnormal + 1
                                 ELSE PauseAfter
                pauses == abnormal = PauseAfter /\ node.status = "active"
                resumes == abnormal = 0 /\ node.paused /\ node.status = "draining"
            IN  /\ node' = [status |-> IF pauses THEN "draining"
                                       ELSE IF resumes THEN "active" ELSE node.status,
                            paused |-> pauses \/ (node.paused /\ ~resumes),
                            abnormal |-> abnormal]
                /\ results' = probing
       ELSE UNCHANGED <<node, results>>
    /\ probing' = {}
    /\ UNCHANGED <<targets, listed, dialog, mutations>>

\* Monitor: the agent pulls the enabled targets and begins to probe.
PullTargets ==
    /\ probing = {}
    /\ Enabled(targets) # {}
    /\ probing' = Enabled(targets)
    /\ UNCHANGED <<targets, node, results, listed, dialog, mutations>>

\* The agent restarts, or its report is lost.
LoseRound ==
    /\ probing # {}
    /\ probing' = {}
    /\ UNCHANGED <<targets, node, results, listed, dialog, mutations>>

\* SetNodeStatus from the page of the node.
SetStatus(st) ==
    /\ node.status # st
    /\ node' = [status |-> st, paused |-> FALSE, abnormal |-> 0]
    /\ UNCHANGED <<targets, results, probing, listed, dialog, mutations>>
-----------------------------------------------------------------------------
(***************************************************************************)
(* The page.                                                               *)
(***************************************************************************)
\* monitoringOverview, read every 10 seconds and after a change; a read that
\* is on its way or lost is like one that comes later.
ReceiveOverview ==
    /\ listed # targets
    /\ listed' = targets
    /\ UNCHANGED <<targets, node, results, probing, dialog, mutations>>

Mutating(kind) == \E m \in mutations : m.kind = kind

Mutate(kind, t, enabled) ==
    /\ Cardinality(mutations) < MaxMutations
    /\ mutations' = mutations \cup
         {[kind |-> kind, target |-> t, enabled |-> enabled, phase |-> "sent"]}
    /\ mutations' # mutations
    /\ UNCHANGED <<targets, node, results, probing, listed, dialog>>

\* The switch of a target, disabled while a toggle is pending.
toggleTarget(t) ==
    /\ dialog = NoDialogOpen
    /\ listed[t] # "absent"
    /\ ~Mutating("toggle")
    /\ Mutate("toggle", t, IF listed[t] = "on" THEN "off" ELSE "on")

ShowDialog(d) ==
    /\ dialog = NoDialogOpen
    /\ dialog' = d
    /\ UNCHANGED <<targets, node, results, probing, listed, mutations>>

setCreateOpen == ShowDialog([NoDialogOpen EXCEPT !.kind = "create"])
setEditTarget(t) ==
    /\ listed[t] # "absent"
    /\ ShowDialog([kind |-> "edit", target |-> t, state |-> listed[t]])
setRemoveTarget(t) ==
    /\ listed[t] # "absent"
    /\ ShowDialog([kind |-> "remove", target |-> t, state |-> listed[t]])

\* The cancel button, the Escape key or a click beside the dialog; the dialog
\* that deletes stays while it is busy, the other two can be closed then.
CloseDialog ==
    /\ dialog # NoDialogOpen
    /\ dialog.kind = "remove" => ~Mutating("remove")
    /\ dialog' = NoDialogOpen
    /\ UNCHANGED <<targets, node, results, probing, listed, mutations>>

\* CreateTargetDialog stays mounted, so its mutation stays pending when it is
\* closed and opened again.
SubmitCreate ==
    /\ dialog.kind = "create"
    /\ ~Mutating("create")
    /\ \E t \in Targets : Mutate("create", t, "on")

\* Mutant: the rename sends the whole target that the dialog was opened with.
renameEnabledListed == dialog.state

\* EditTargetDialog sends the name alone.
renameEnabled == "keep"

\* Its key is the target, so a new instance has no mutation pending.
SubmitRename ==
    /\ dialog.kind = "edit"
    /\ ~\E m \in mutations : m.kind = "edit" /\ m.target = dialog.target
    /\ Mutate("edit", dialog.target, renameEnabled)

ConfirmDelete ==
    /\ dialog.kind = "remove"
    /\ ~Mutating("remove")
    /\ Mutate("remove", dialog.target, "keep")
-----------------------------------------------------------------------------
(***************************************************************************)
(* The handlers, and their answers.                                        *)
(***************************************************************************)
Applies(m) ==
    CASE m.kind = "create" -> CreateMonitoringTarget(m.target)
      [] m.kind = "remove" -> DeleteMonitoringTarget(m.target)
      [] OTHER -> UpdateMonitoringTarget(m.target, m.enabled)

ApplyMutation(m) ==
    /\ m.phase = "sent"
    /\ Applies(m)
    /\ mutations' = (mutations \ {m}) \cup {[m EXCEPT !.phase = "done"]}
    /\ UNCHANGED <<probing, listed, dialog>>

\* onSuccess of the four mutations: all invalidate the overview, and three
\* close the dialog of their kind, also one that was opened for another target
\* since.
ReceiveMutation(m) ==
    /\ m.phase = "done"
    /\ mutations' = mutations \ {m}
    /\ dialog' = IF dialog.kind = m.kind THEN NoDialogOpen ELSE dialog
    /\ UNCHANGED <<targets, node, results, probing, listed>>

\* onError: refused, never handled, or the answer was lost.
MutationFails(m) ==
    /\ mutations' = mutations \ {m}
    /\ UNCHANGED <<targets, node, results, probing, listed, dialog>>

\* Another administrator, from another console.
OtherToggle(t) ==
    /\ \E enabled \in {"on", "off"} :
          targets[t] # enabled /\ UpdateMonitoringTarget(t, enabled)
    /\ UNCHANGED <<probing, listed, dialog, mutations>>

MonitoringNext ==
    \/ PullTargets \/ LoseRound
    \/ \E ok \in BOOLEAN : RecordMonitoringRound(ok)
    \/ \E st \in {"active", "draining"} : SetStatus(st)
    \/ ReceiveOverview
    \/ setCreateOpen \/ CloseDialog
    \/ SubmitCreate \/ SubmitRename \/ ConfirmDelete
    \/ \E t \in Targets : toggleTarget(t) \/ setEditTarget(t) \/ setRemoveTarget(t) \/ OtherToggle(t)
    \/ \E m \in mutations : ApplyMutation(m) \/ ReceiveMutation(m) \/ MutationFails(m)

MonitoringSpec == MonitoringInit /\ [][MonitoringNext]_monitoringVars
-----------------------------------------------------------------------------
MonitoringTypeOK ==
    /\ targets \in [Targets -> States]
    /\ node \in [status : {"active", "draining"}, paused : BOOLEAN, abnormal : 0 .. PauseAfter]
    /\ results \subseteq Targets /\ probing \subseteq Targets
    /\ listed \in [Targets -> States]

(***************************************************************************)
(* Monitoring never leaves a node out of service that no report can bring  *)
(* back: a node it paused is draining and some target is still enabled,    *)
(* whatever targets were switched off or deleted while a round was probed, *)
(* and the results kept are those of exactly the enabled targets.          *)
(***************************************************************************)
PausedCanResume ==
    /\ node.paused => node.status = "draining" /\ Enabled(targets) # {}
    /\ results # {} => results = Enabled(targets)

(***************************************************************************)
(* A target is switched on or off only by a toggle, of this page or of     *)
(* another administrator: renaming it from a dialog opened on an older     *)
(* list does not undo a toggle that was made since.                        *)
(***************************************************************************)
OnlyTogglesSwitch ==
    [][\A t \in Targets :
         {targets[t], targets'[t]} = {"on", "off"} =>
            \/ \E m \in mutations : /\ m.kind = "toggle" /\ m.target = t
                                    /\ m.enabled = targets'[t]
                                    /\ m.phase = "sent" /\ m \notin mutations'
            \/ OtherToggle(t)]_monitoringVars
=============================================================================
