---------------------------- MODULE NodeConsole ----------------------------
(***************************************************************************)
(* The page of a node (features/nodes/node-detail-page.tsx) in one         *)
(* console, against the record of NodeRecord.  The page shows the cached   *)
(* answers of two queries; its five mutations are pending independently of *)
(* each other, and their answers invalidate the queries.                   *)
(*                                                                         *)
(* No mutation writes into the cache and an invalidation discards an       *)
(* answer under way, so a cached answer is the record at some moment since *)
(* the last one: a query that is answered is one step.  A behaviour is one *)
(* visit of the page; deleting the node ends it.                           *)
(***************************************************************************)
EXTENDS NodeRecord, Naturals, FiniteSets

CONSTANT MaxPending     \* bound on the requests under way at a time

VARIABLES
    page,       \* "detail", or "list" after the deletion
    node,       \* the query ["node", nodeId]: the status it shows
    panel,      \* the query ["node-uninstall", nodeId]
    due,        \* that query was mounted or invalidated: one fetch is due
    confirm,    \* useState confirm
    command,    \* useState command
    calls       \* calls[h]: the request of mutation h

console == <<page, node, panel, due, confirm, command, calls>>
vars == <<record, console>>

Hooks == {"status", "command", "upgrade", "uninstall", "delete"}
NoCommand == [kind |-> "none", token |-> NoToken]
InstallCommand == [kind |-> "install", token |-> NoToken]
UninstallCommand(t) == [kind |-> "uninstall", token |-> t]
Command == [kind : {"none", "install", "uninstall"}, token : Tokens \cup {NoToken}]
Requests == {"active", "draining", "revoked", "install", "upgrade", "prepare", "token",
             "cancel", "force", "delete"}
NoCall == [what |-> "none", phase |-> "idle", command |-> NoCommand]
Call == [what : Requests \cup {"none"}, phase : {"idle", "sent", "ok"}, command : Command]
NodeData == NodeStatus \cup {"none"}
NoNode == "none"
PanelData == [job : JobStatus, clear : BOOLEAN]

\* Types of the record and of the console.
TypeOK ==
    /\ RecordTypeOK
    /\ page \in {"list", "detail"}
    /\ node \in NodeData
    /\ panel \in PanelData
    /\ due \in BOOLEAN
    /\ confirm \in {"none", "force", "delete"}
    /\ command \in Command
    /\ calls \in [Hooks -> Call]

Init ==
    /\ RecordInit
    /\ page = "detail"
    /\ node = NoNode
    /\ panel = [job |-> "none", clear |-> FALSE]
    /\ due = TRUE
    /\ confirm = "none"
    /\ command = NoCommand
    /\ calls = [h \in Hooks |-> NoCall]

Pending == {h \in Hooks : calls[h].phase # "idle"}

-----------------------------------------------------------------------------
(* Queries.                                                                *)

\* Every ten seconds; a record that is gone is an error, and the cached
\* answer stays.
PollNode ==
    /\ page = "detail" /\ status # "gone"
    /\ node' = status
    /\ UNCHANGED <<record, page, panel, due, confirm, command, calls>>

\* Mutant: a failed job is taken for a final one.
panelIntervalFailed == panel.job \in ActiveJob \ {"failed"}

\* refetchInterval: a job that has not ended is read every five seconds.
panelInterval == panel.job \in ActiveJob

PollPanel ==
    /\ page = "detail" /\ status # "gone"
    /\ due \/ panelInterval
    /\ panel' = [job |-> job, clear |-> clear]
    /\ due' = FALSE
    /\ UNCHANGED <<record, page, node, confirm, command, calls>>

\* The refresh button; the node is polled anyway.
Refresh ==
    /\ page = "detail" /\ confirm = "none" /\ command = NoCommand
    /\ due' = TRUE
    /\ UNCHANGED <<record, page, node, panel, confirm, command, calls>>

\* retry: false: a fetch that fails is not tried again.
LosePanel ==
    /\ page = "detail" /\ due
    /\ due' = FALSE
    /\ UNCHANGED <<record, page, node, panel, confirm, command, calls>>

-----------------------------------------------------------------------------
(* The operator.  A dialog is modal: behind it no button can be clicked.   *)

Buttons == page = "detail" /\ node # NoNode /\ confirm = "none" /\ command = NoCommand

\* Mutant: a cancellation has a mutation of its own.
SlotPerRequest(what) ==
    CASE what \in {"active", "draining", "revoked"} -> "status"
      [] what = "install" -> "command"
      [] what \in {"upgrade", "cancel"} -> "upgrade"
      [] what \in {"prepare", "token", "force"} -> "uninstall"
      [] what = "delete" -> "delete"

\* The mutation a request belongs to: the four requests of the uninstall panel
\* share one, which sends one request at a time.
Slot(what) ==
    CASE what \in {"active", "draining", "revoked"} -> "status"
      [] what = "install" -> "command"
      [] what = "upgrade" -> "upgrade"
      [] what \in {"prepare", "token", "cancel", "force"} -> "uninstall"
      [] what = "delete" -> "delete"

isPending(h) == calls[h].phase # "idle"

Send(what) ==
    /\ ~isPending(Slot(what))
    /\ Cardinality(Pending) < MaxPending
    /\ calls' = [calls EXCEPT ![Slot(what)] =
                    [what |-> what, phase |-> "sent", command |-> NoCommand]]

\* The card of operations, by the cached node.
OperationShown(what) ==
    CASE what = "draining" -> node = "active"
      [] what = "active" -> node \in {"draining", "revoked"}
      [] what = "revoked" -> node \in {"pending", "active", "draining"}
      [] what = "install" -> TRUE
      [] what = "upgrade" -> node \in {"active", "draining"}

canPrepare == node \in {"draining", "revoked"}
deletable == node \in {"uninstalled", "pending"}

\* UninstallPanel, by the cached job; a canceled job is taken for none.
PanelShown(what) ==
    CASE what = "prepare" -> panel.job \in {"none", "canceled"} /\ canPrepare
      [] what = "token" -> panel.clear /\ panel.job \in Waiting
      [] what = "cancel" -> panel.job \in Waiting
      [] what = "force" -> panel.clear /\ panel.job \in ActiveJob
      [] what = "delete" -> deletable

Click(what) ==
    /\ Buttons
    /\ Send(what)
    /\ UNCHANGED <<record, page, node, panel, due, confirm, command>>

ClickOperation(what) == OperationShown(what) /\ Click(what)
ClickPanel(what) == PanelShown(what) /\ Click(what)

OpenConfirm(what) ==
    /\ Buttons
    /\ PanelShown(what)
    /\ ~isPending("uninstall")
    /\ confirm' = what
    /\ UNCHANGED <<record, page, node, panel, due, command, calls>>

Confirm ==
    /\ confirm # "none"
    /\ Send(confirm)
    /\ UNCHANGED <<record, page, node, panel, due, confirm, command>>

\* Escape and done, whether or not a request is pending.
CloseDialog ==
    /\ confirm # "none" \/ command # NoCommand
    /\ confirm' = "none"
    /\ command' = NoCommand
    /\ UNCHANGED <<record, page, node, panel, due, calls>>

-----------------------------------------------------------------------------
(* Requests at the server, and their answers.                              *)

Answer(h, shown) ==
    calls' = [calls EXCEPT ![h] = [what |-> calls[h].what, phase |-> "ok", command |-> shown]]

\* Tokens are random: a new one is none that anybody still holds.
Fresh == Tokens \ ({token, command.token} \cup {calls[h].command.token : h \in Hooks})

Serve(h) ==
    /\ calls[h].phase = "sent"
    /\ LET what == calls[h].what IN
       \/ /\ what \in {"active", "draining", "revoked"}
          /\ SetNodeStatus(what) /\ Answer(h, NoCommand)
       \/ /\ what = "install" /\ CommandAccepted
          /\ Answer(h, InstallCommand) /\ UNCHANGED record
       \/ what = "upgrade" /\ Answer(h, NoCommand) /\ UNCHANGED record
       \/ what = "prepare" /\ Prepare /\ Answer(h, NoCommand)
       \/ /\ what = "token"
          /\ \E t \in Fresh : IssueToken(t) /\ Answer(h, UninstallCommand(t))
       \/ what = "cancel" /\ Cancel /\ Answer(h, NoCommand)
       \/ what = "force" /\ ForceComplete /\ Answer(h, NoCommand)
       \/ what = "delete" /\ Delete /\ Answer(h, NoCommand)
    /\ UNCHANGED <<page, node, panel, due, confirm, command>>

\* Refused by the handler, or the connection fails before or after it ran:
\* onError shows a message, and a dialog stays.
Fail(h) ==
    /\ calls[h].phase \in {"sent", "ok"}
    /\ calls' = [calls EXCEPT ![h] = NoCall]
    /\ UNCHANGED <<record, page, node, panel, due, confirm, command>>

\* onSuccess: refresh, the command of the answer, the dialog of the request
\* closed, the way back to the list after a deletion.
Succeed(h) ==
    /\ calls[h].phase = "ok"
    /\ calls' = [calls EXCEPT ![h] = NoCall]
    /\ due' = (due \/ h \in {"status", "upgrade", "uninstall"})
    /\ command' = IF calls[h].command = NoCommand THEN command ELSE calls[h].command
    /\ confirm' = IF calls[h].what \in {"force", "delete"} THEN "none" ELSE confirm
    /\ page' = IF h = "delete" THEN "list" ELSE page
    /\ UNCHANGED <<record, node, panel>>

Operator ==
    \/ \E what \in {"draining", "active", "revoked", "install", "upgrade"} : ClickOperation(what)
    \/ \E what \in {"prepare", "token", "cancel"} : ClickPanel(what)
    \/ \E what \in {"force", "delete"} : OpenConfirm(what)
    \/ Confirm
    \/ CloseDialog

Exchange(h) == Serve(h) \/ Fail(h) \/ Succeed(h)

Next ==
    \/ PollNode \/ PollPanel \/ LosePanel \/ Refresh
    \/ Operator
    \/ \E h \in Hooks : Exchange(h)
    \/ World /\ UNCHANGED console

Spec == Init /\ [][Next]_vars

\* A page that is shown polls.
Fairness == WF_vars(PollNode) /\ WF_vars(PollPanel)

FairSpec == Spec /\ Fairness

-----------------------------------------------------------------------------
(* Properties.                                                             *)

\* A failed uninstall gives a node back the status it had, and a revocation
\* during the job is not undone by it (SetNodeStatus, store.go:1200).
RevocationSurvives == job \in ActiveJob => status \in {previous, "uninstalling"}

\* The uninstall command in the dialog is the one the node's job accepts: no
\* request of the same panel has replaced or cleared its token since
\* (uninstallAction.isPending disables every button, node-detail-page.tsx:314).
ShownCommandWorks == command.kind = "uninstall" /\ status # "gone" => command.token = token

\* While a job has not ended in the console's eyes, every later state of it
\* is shown (refetchInterval, node-detail-page.tsx:114).
UninstallIsShown ==
    (page = "detail" /\ panel.job \in ActiveJob)
        ~> (panel.job = job \/ page # "detail" \/ status = "gone")
=============================================================================
