-------------------------- MODULE NodeConsoleProofs --------------------------
(***************************************************************************)
(* The proof of the two invariants of NodeConsole, for any number of       *)
(* tokens and of requests under way.                                       *)
(*                                                                         *)
(* RevocationSurvives is about the record alone and needs only that a job  *)
(* was prepared in draining or revoked.  ShownCommandWorks is about the    *)
(* order of requests and answers: the one mutation of the uninstall panel  *)
(* is idle while its command is shown, because a dialog is modal and       *)
(* because no force dialog can be opened while a token is on its way.      *)
(***************************************************************************)
EXTENDS NodeConsole, TLAPS

\* The record: which status a job was prepared in, and a deleted record.
RecordInv ==
    /\ job \in ActiveJob => previous \in {"draining", "revoked"}
    /\ RevocationSurvives
    /\ status = "gone" => job = "none" /\ token = NoToken

\* A request is of its mutation, and an uninstall command under way is the one
\* the job accepts.
CallOK(h) ==
    /\ calls[h].phase # "idle" => calls[h].what \in Requests /\ Slot(calls[h].what) = h
    /\ calls[h].command.kind = "uninstall" =>
          /\ calls[h].phase = "ok" /\ calls[h].what = "token"
          /\ status # "gone" => calls[h].command.token = token

\* While a command is shown the uninstall panel is idle and stays so.
DialogOK ==
    /\ command.kind = "uninstall" =>
          /\ calls["uninstall"].phase = "idle" /\ confirm # "force"
          /\ status # "gone" => command.token = token
    /\ calls["uninstall"].phase # "idle" /\ calls["uninstall"].what = "token"
          => confirm # "force"

\* The inductive invariant.
Inv ==
    /\ TypeOK
    /\ RecordInv
    /\ \A h \in Hooks : CallOK(h)
    /\ DialogOK

-----------------------------------------------------------------------------
\* The record.

\* A handler or an event of the record keeps its invariant, and a deleted
\* record stays deleted.
LEMMA RecordKeeps ==
    ASSUME RecordTypeOK, RecordInv,
           \/ \E st \in {"active", "draining", "revoked"} : SetNodeStatus(st)
           \/ \E t \in Tokens : IssueToken(t)
           \/ Prepare \/ Cancel \/ ForceComplete \/ Delete \/ World
    PROVE  RecordTypeOK' /\ RecordInv' /\ (status = "gone" => status' = "gone")
<1> USE DEF RecordTypeOK, RecordInv, RevocationSurvives, ActiveJob, NodeStatus, JobStatus, Waiting
<1>1. CASE \E st \in {"active", "draining", "revoked"} : SetNodeStatus(st)
    BY <1>1 DEF SetNodeStatus, StatusAccepted
<1>2. CASE \E t \in Tokens : IssueToken(t)
    BY <1>2 DEF IssueToken, CanGenerate
<1>3. CASE Prepare
    BY <1>3 DEF Prepare, PrepareAccepted, NoUninstall, jobVars
<1>4. CASE Cancel
    BY <1>4 DEF Cancel, CancelAccepted
<1>5. CASE ForceComplete
    BY <1>5 DEF ForceComplete, ForceAccepted, Complete
<1>6. CASE Delete
    BY <1>6 DEF Delete, DeleteAccepted
<1>7. CASE World
    <2>1. CASE Heartbeat
        BY <2>1 DEF Heartbeat, jobVars
    <2>2. CASE ClearChanges
        BY <2>2 DEF ClearChanges
    <2>3. CASE ScriptStart
        BY <2>3 DEF ScriptStart
    <2>4. CASE ScriptFail
        BY <2>4 DEF ScriptFail
    <2>5. CASE ScriptComplete
        BY <2>5 DEF ScriptComplete, Complete
    <2> QED
        BY <1>7, <2>1, <2>2, <2>3, <2>4, <2>5 DEF World
<1> QED
    BY <1>1, <1>2, <1>3, <1>4, <1>5, <1>6, <1>7

\* Only the panel of the uninstall and a deletion change the token.
LEMMA TokenKept ==
    ASSUME \/ \E st \in {"active", "draining", "revoked"} : SetNodeStatus(st)
           \/ ForceComplete \/ World
    PROVE  token' = token
BY DEF SetNodeStatus, ForceComplete, Complete, World, Heartbeat, ClearChanges, ScriptStart, ScriptFail,
       ScriptComplete, jobVars

-----------------------------------------------------------------------------
\* The console.

\* The mutation of a request.
LEMMA SlotType ==
    ASSUME NEW what \in Requests
    PROVE  /\ Slot(what) \in Hooks
           /\ Slot(what) = "uninstall" <=> what \in {"prepare", "token", "cancel", "force"}
           /\ Slot(what) = "status" <=> what \in {"active", "draining", "revoked"}
           /\ Slot(what) = "delete" <=> what = "delete"
BY DEF Slot, Requests, Hooks

\* The commands that are no uninstall commands.
LEMMA CommandType ==
    /\ NoCommand \in Command /\ NoCommand.kind # "uninstall"
    /\ InstallCommand \in Command /\ InstallCommand.kind # "uninstall"
    /\ NoCall \in Call /\ NoCall.phase = "idle" /\ NoCall.command.kind # "uninstall"
BY DEF NoCommand, InstallCommand, Command, NoCall, Call

\* One mutation changes its request.
LEMMA OneCall ==
    ASSUME TypeOK, NEW h \in Hooks, NEW c \in Call, calls' = [calls EXCEPT ![h] = c]
    PROVE  /\ calls' \in [Hooks -> Call] /\ calls'[h] = c
           /\ \A g \in Hooks : g # h => calls'[g] = calls[g]
BY DEF TypeOK

\* A step of the page that sends nothing and receives nothing.
LEMMA InvQuiet ==
    ASSUME Inv, UNCHANGED <<record, calls>>, TypeOK',
           UNCHANGED command \/ command'.kind # "uninstall",
           UNCHANGED confirm \/ confirm' # "force"
    PROVE  Inv'
BY DEF Inv, record, RecordInv, RevocationSurvives, CallOK, DialogOK

\* The queries, the dialogs, and a click that sends a request: a request for a
\* token is sent only while no dialog is open.
LEMMA InvPage ==
    ASSUME Inv, PollNode \/ PollPanel \/ LosePanel \/ Refresh \/ CloseDialog
                \/ \E what \in {"force", "delete"} : OpenConfirm(what)
    PROVE  Inv'
<1>1. TypeOK
    BY DEF Inv
<1>2. UNCHANGED <<record, calls>>
    BY DEF PollNode, PollPanel, LosePanel, Refresh, CloseDialog, OpenConfirm
<1>3. CASE PollNode \/ PollPanel \/ LosePanel \/ Refresh
    <2>1. UNCHANGED <<page, command, confirm>>
        BY <1>3 DEF PollNode, PollPanel, LosePanel, Refresh
    <2>2. node' \in NodeData
        BY <1>1, <1>3 DEF PollNode, PollPanel, LosePanel, Refresh, TypeOK, RecordTypeOK, NodeData
    <2>3. panel' \in PanelData
        <3>1. [job |-> job, clear |-> clear] \in PanelData
            BY <1>1 DEF TypeOK, RecordTypeOK, PanelData
        <3> QED
            BY <1>1, <1>3, <3>1 DEF PollNode, PollPanel, LosePanel, Refresh, TypeOK
    <2>4. due' \in BOOLEAN
        BY <1>1, <1>3 DEF PollNode, PollPanel, LosePanel, Refresh, TypeOK
    <2>5. TypeOK'
        BY <1>1, <1>2, <2>1, <2>2, <2>3, <2>4 DEF TypeOK, RecordTypeOK, record
    <2> QED
        BY <1>2, <2>1, <2>5, InvQuiet
<1>4. CASE CloseDialog
    <2>1. TypeOK' /\ command' = NoCommand /\ confirm' = "none"
        BY <1>1, <1>2, <1>4, CommandType DEF CloseDialog, TypeOK, RecordTypeOK, record
    <2> QED
        BY <1>2, <2>1, CommandType, InvQuiet
<1>5. ASSUME NEW what \in {"force", "delete"}, OpenConfirm(what) PROVE Inv'
    <2>1. /\ command = NoCommand /\ calls["uninstall"].phase = "idle"
          /\ confirm' = what /\ UNCHANGED <<page, node, panel, due, command>>
        BY <1>5 DEF OpenConfirm, Buttons, isPending
    <2>2. TypeOK'
        BY <1>1, <1>2, <2>1 DEF TypeOK, RecordTypeOK, record
    <2>3. DialogOK'
        BY <1>2, <2>1, CommandType DEF DialogOK
    <2> QED
        BY <1>2, <2>2, <2>3 DEF Inv, record, RecordInv, RevocationSurvives, CallOK
<1> QED
    BY <1>3, <1>4, <1>5

\* A request under way, sent by the page or by its confirmation dialog.
LEMMA InvSend ==
    ASSUME Inv, NEW what \in Requests, Send(what),
           UNCHANGED <<record, page, node, panel, due, confirm, command>>,
           \/ confirm = "none" /\ command = NoCommand
           \/ confirm = what /\ what \in {"force", "delete"}
    PROVE  Inv'
<1>1. TypeOK
    BY DEF Inv
<1>2. PICK h \in Hooks : h = Slot(what)
    BY SlotType
<1>3. PICK c \in Call : /\ c.what = what /\ c.phase = "sent" /\ c.command = NoCommand
                        /\ calls' = [calls EXCEPT ![h] = c]
    <2>1. [what |-> what, phase |-> "sent", command |-> NoCommand] \in Call
        BY CommandType DEF Call
    <2> QED
        BY <1>2, <2>1 DEF Send
<1>4. /\ calls' \in [Hooks -> Call] /\ calls'[h] = c
      /\ \A g \in Hooks : g # h => calls'[g] = calls[g]
    BY <1>1, <1>3 DEF TypeOK
<1>5. TypeOK' /\ RecordInv'
    BY <1>1, <1>4 DEF Inv, TypeOK, RecordTypeOK, record, RecordInv, RevocationSurvives
<1>6. ASSUME NEW g \in Hooks PROVE CallOK(g)'
    <2>1. CASE g = h
        BY <1>2, <1>3, <1>4, <2>1, CommandType DEF CallOK
    <2>2. CASE g # h
        BY <1>4, <2>2 DEF Inv, CallOK, record
    <2> QED
        BY <2>1, <2>2
<1>7. DialogOK'
    <2>1. "uninstall" \in Hooks
        BY DEF Hooks
    <2>2. CASE confirm = "none" /\ command = NoCommand
        BY <2>2, CommandType DEF DialogOK
    <2>3. CASE confirm = what /\ what = "force"
        BY <1>2, <1>3, <1>4, <2>3, SlotType DEF Inv, DialogOK
    <2>4. CASE confirm = what /\ what = "delete"
        <3>1. h # "uninstall"
            BY <1>2, <2>4, SlotType
        <3> QED
            BY <1>4, <2>1, <2>4, <3>1 DEF Inv, DialogOK, record
    <2> QED
        BY <2>2, <2>3, <2>4
<1> QED
    BY <1>5, <1>6, <1>7 DEF Inv

\* What the operator of the page does.
LEMMA InvOperator ==
    ASSUME Inv, Operator PROVE Inv'
<1>1. ASSUME NEW what \in Requests, Click(what) PROVE Inv'
    BY <1>1, InvSend DEF Click, Buttons
<1>2. CASE Confirm
    <2>1. confirm \in {"force", "delete"}
        BY <1>2 DEF Confirm, Inv, TypeOK
    <2>2. PICK what \in Requests : what = confirm
        BY <2>1 DEF Requests
    <2> QED
        BY <1>2, <2>1, <2>2, InvSend DEF Confirm
<1>3. CASE \/ \E what \in {"draining", "active", "revoked", "install", "upgrade"} : ClickOperation(what)
           \/ \E what \in {"prepare", "token", "cancel"} : ClickPanel(what)
    BY <1>1, <1>3 DEF ClickOperation, ClickPanel, Requests
<1> QED
    BY <1>2, <1>3, InvPage DEF Operator

-----------------------------------------------------------------------------
\* Requests and answers.

\* A request is refused or lost.
LEMMA InvFail ==
    ASSUME Inv, NEW h \in Hooks, Fail(h) PROVE Inv'
<1>1. TypeOK
    BY DEF Inv
<1>2. /\ calls' = [calls EXCEPT ![h] = NoCall]
      /\ UNCHANGED <<record, page, node, panel, due, confirm, command>>
    BY DEF Fail
<1>3. /\ calls' \in [Hooks -> Call] /\ calls'[h] = NoCall
      /\ \A g \in Hooks : g # h => calls'[g] = calls[g]
    BY <1>1, <1>2, CommandType DEF TypeOK
<1>4. TypeOK' /\ RecordInv'
    BY <1>1, <1>2, <1>3 DEF Inv, TypeOK, RecordTypeOK, record, RecordInv, RevocationSurvives
<1>5. ASSUME NEW g \in Hooks PROVE CallOK(g)'
    BY <1>2, <1>3, CommandType DEF Inv, CallOK, record
<1>6. calls'["uninstall"] = calls["uninstall"] \/ calls'["uninstall"].phase = "idle"
    BY <1>3, CommandType DEF Hooks
<1>7. DialogOK'
    BY <1>2, <1>6 DEF Inv, DialogOK, record
<1> QED
    BY <1>4, <1>5, <1>7 DEF Inv

\* The answer of a token arrives: the panel becomes idle and the command is
\* shown.
LEMMA InvSucceed ==
    ASSUME Inv, NEW h \in Hooks, Succeed(h) PROVE Inv'
<1>1. TypeOK /\ CallOK(h)
    BY DEF Inv
<1>2. /\ calls' = [calls EXCEPT ![h] = NoCall] /\ calls[h].phase = "ok"
      /\ UNCHANGED <<record, node, panel>>
      /\ confirm' = confirm \/ confirm' = "none"
      /\ \/ UNCHANGED command
         \/ command' = calls[h].command
    BY DEF Succeed
<1>3. /\ calls' \in [Hooks -> Call] /\ calls'[h] = NoCall
      /\ \A g \in Hooks : g # h => calls'[g] = calls[g]
    BY <1>1, <1>2, CommandType DEF TypeOK
<1>4. calls[h].command \in Command
    BY <1>1 DEF TypeOK, Call
<1>5. TypeOK' /\ RecordInv'
    BY <1>1, <1>2, <1>3, <1>4
       DEF Inv, Succeed, TypeOK, RecordTypeOK, record, RecordInv, RevocationSurvives
<1>6. ASSUME NEW g \in Hooks PROVE CallOK(g)'
    BY <1>2, <1>3, CommandType DEF Inv, CallOK, record
<1>7. calls'["uninstall"] = calls["uninstall"] \/ calls'["uninstall"].phase = "idle"
    BY <1>3, CommandType DEF Hooks
<1>8. ASSUME command' = calls[h].command, calls[h].command.kind = "uninstall"
      PROVE  /\ h = "uninstall" /\ confirm # "force"
             /\ status # "gone" => command'.token = token
    <2>1. calls[h].what = "token" /\ Slot("token") = h
        BY <1>1, <1>2, <1>8 DEF CallOK
    <2>2. h = "uninstall"
        BY <2>1, SlotType DEF Requests
    <2> QED
        BY <1>1, <1>2, <1>8, <2>1, <2>2 DEF Inv, CallOK, DialogOK
<1>9. DialogOK'
    BY <1>2, <1>3, <1>7, <1>8, CommandType DEF Inv, DialogOK, record
<1> QED
    BY <1>5, <1>6, <1>9 DEF Inv

\* The handlers.  The token changes only where the request of the panel itself
\* is served, and no command is shown then.
LEMMA InvServe ==
    ASSUME Inv, NEW h \in Hooks, Serve(h) PROVE Inv'
<1> DEFINE what == calls[h].what
<1>1. TypeOK /\ CallOK(h) /\ RecordTypeOK /\ RecordInv
    BY DEF Inv, TypeOK
<1>2. /\ calls[h].phase = "sent" /\ what \in Requests /\ Slot(what) = h
      /\ UNCHANGED <<page, node, panel, due, confirm, command>>
    BY <1>1 DEF Serve, CallOK
<1>3. \E shown \in Command :
        /\ Answer(h, shown)
        /\ \/ UNCHANGED record
           \/ \E st \in {"active", "draining", "revoked"} : SetNodeStatus(st)
           \/ \E t \in Tokens : IssueToken(t)
           \/ Prepare \/ Cancel \/ ForceComplete \/ Delete
        /\ \/ shown.kind # "uninstall" /\ (token' = token \/ what \in {"prepare", "cancel"} \/ Delete)
           \/ what = "token" /\ shown.token = token'
    <2>1. CASE what \in {"active", "draining", "revoked"}
        <3>1. SetNodeStatus(what) /\ Answer(h, NoCommand)
            BY <2>1 DEF Serve
        <3>2. token' = token
            BY <2>1, <3>1, TokenKept
        <3> QED
            BY <2>1, <3>1, <3>2, CommandType
    <2>2. CASE what = "install"
        BY <2>2, CommandType DEF Serve, record
    <2>3. CASE what = "upgrade"
        BY <2>3, CommandType DEF Serve, record
    <2>4. CASE what = "prepare"
        BY <2>4, CommandType DEF Serve
    <2>5. CASE what = "token"
        <3>1. PICK t \in Tokens : IssueToken(t) /\ Answer(h, UninstallCommand(t))
            BY <2>5 DEF Serve, Fresh
        <3>2. UninstallCommand(t) \in Command /\ UninstallCommand(t).token = t /\ token' = t
            BY <3>1 DEF UninstallCommand, Command, IssueToken
        <3> QED
            BY <2>5, <3>1, <3>2
    <2>6. CASE what = "cancel"
        BY <2>6, CommandType DEF Serve
    <2>7. CASE what = "force"
        BY <2>7, CommandType, TokenKept DEF Serve
    <2>8. CASE what = "delete"
        BY <2>8, CommandType DEF Serve
    <2> QED
        BY <1>2, <2>1, <2>2, <2>3, <2>4, <2>5, <2>6, <2>7, <2>8 DEF Requests
<1>4. PICK shown \in Command :
        /\ Answer(h, shown)
        /\ \/ UNCHANGED record
           \/ \E st \in {"active", "draining", "revoked"} : SetNodeStatus(st)
           \/ \E t \in Tokens : IssueToken(t)
           \/ Prepare \/ Cancel \/ ForceComplete \/ Delete
        /\ \/ shown.kind # "uninstall" /\ (token' = token \/ what \in {"prepare", "cancel"} \/ Delete)
           \/ what = "token" /\ shown.token = token'
    BY <1>3
<1>5. RecordTypeOK' /\ RecordInv' /\ (status = "gone" => status' = "gone")
    <2>1. CASE UNCHANGED record
        BY <1>1, <2>1 DEF record, RecordTypeOK, RecordInv, RevocationSurvives
    <2> QED
        BY <1>1, <1>4, <2>1, RecordKeeps
<1>6. PICK c \in Call : /\ c.what = what /\ c.phase = "ok" /\ c.command = shown
                        /\ calls' = [calls EXCEPT ![h] = c]
    <2>1. [what |-> what, phase |-> "ok", command |-> shown] \in Call
        BY <1>2 DEF Call
    <2> QED
        BY <1>4, <2>1 DEF Answer
<1>7. /\ calls' \in [Hooks -> Call] /\ calls'[h] = c
      /\ \A g \in Hooks : g # h => calls'[g] = calls[g]
    BY <1>1, <1>6 DEF TypeOK
<1>8. TypeOK'
    BY <1>1, <1>2, <1>5, <1>7 DEF TypeOK
<1>9. token' = token \/ h = "uninstall" \/ status' = "gone"
    BY <1>2, <1>4, SlotType DEF Delete
<1>10. ASSUME NEW g \in Hooks PROVE CallOK(g)'
    <2>1. CASE g = h
        BY <1>2, <1>4, <1>6, <1>7, <2>1 DEF CallOK
    <2>2. CASE g # h
        <3>1. CallOK(g) /\ calls'[g] = calls[g]
            BY <1>7, <2>2 DEF Inv
        <3>2. calls[g].command.kind = "uninstall" => g = "uninstall"
            BY <3>1, SlotType DEF CallOK, Requests
        <3> QED
            BY <1>5, <1>9, <2>2, <3>1, <3>2 DEF CallOK
    <2> QED
        BY <2>1, <2>2
<1>11. DialogOK'
    <2>1. CASE h = "uninstall"
        <3>1. command.kind # "uninstall"
            BY <1>2, <2>1 DEF Inv, DialogOK
        <3> QED
            BY <1>2, <1>6, <1>7, <2>1, <3>1 DEF Inv, DialogOK
    <2>2. CASE h # "uninstall"
        <3>1. calls'["uninstall"] = calls["uninstall"]
            BY <1>7, <2>2 DEF Hooks
        <3> QED
            BY <1>2, <1>5, <1>9, <2>2, <3>1 DEF Inv, DialogOK
    <2> QED
        BY <2>1, <2>2
<1> QED
    BY <1>5, <1>8, <1>10, <1>11 DEF Inv

-----------------------------------------------------------------------------

\* The page of a node that is in use.
LEMMA InvInit == Init => Inv
<1> SUFFICES ASSUME Init PROVE Inv
    OBVIOUS
<1>1. TypeOK
    <2>1. [job |-> "none", clear |-> FALSE] \in PanelData
        BY DEF PanelData, JobStatus
    <2> QED
        BY <2>1, CommandType DEF Init, RecordInit, TypeOK, RecordTypeOK, NodeStatus, JobStatus,
                                 NodeData, NoNode
<1>2. RecordInv
    BY DEF Init, RecordInit, RecordInv, RevocationSurvives, ActiveJob
<1>3. (\A h \in Hooks : CallOK(h)) /\ DialogOK
    BY CommandType DEF Init, CallOK, DialogOK, Hooks
<1> QED
    BY <1>1, <1>2, <1>3 DEF Inv

\* Every step of the page, of the server or of the host keeps the invariant.
LEMMA InvStep == Inv /\ [Next]_vars => Inv'
<1> SUFFICES ASSUME Inv, [Next]_vars PROVE Inv'
    OBVIOUS
<1>1. CASE UNCHANGED vars
    BY <1>1 DEF vars, record, console, Inv, TypeOK, RecordTypeOK, RecordInv, RevocationSurvives,
                CallOK, DialogOK
<1>2. CASE World /\ UNCHANGED console
    <2>1. RecordTypeOK' /\ RecordInv' /\ (status = "gone" => status' = "gone") /\ token' = token
        BY <1>2, RecordKeeps, TokenKept DEF Inv, TypeOK
    <2> QED
        BY <1>2, <2>1 DEF console, Inv, TypeOK, CallOK, DialogOK
<1>3. ASSUME NEW h \in Hooks, Exchange(h) PROVE Inv'
    BY <1>3, InvServe, InvFail, InvSucceed DEF Exchange
<1> QED
    BY <1>1, <1>2, <1>3, InvPage, InvOperator DEF Next

\* The invariant holds throughout.
LEMMA Invariance == Spec => []Inv
BY InvInit, InvStep, PTL DEF Spec

\* A failed uninstall never gives a revoked node its old status back, however
\* revocations, scripts and panel requests interleave.
THEOREM RevocationIsKept == Spec => []RevocationSurvives
<1>1. Inv => RevocationSurvives
    BY DEF Inv, RecordInv
<1> QED
    BY <1>1, Invariance, PTL

\* The uninstall command that the page shows is the one the job accepts, for
\* any tokens and any number of requests under way.
THEOREM CommandIsCurrent == Spec => []ShownCommandWorks
<1>1. Inv => ShownCommandWorks
    BY DEF Inv, DialogOK, ShownCommandWorks
<1> QED
    BY <1>1, Invariance, PTL
=============================================================================
