---------------------------- MODULE MessageCenter ----------------------------
(***************************************************************************)
(* The message center of the console (message-center.tsx, in app-shell.tsx *)
(* on every page) with the messages of the control plane.  The list is     *)
(* read every 10 seconds and after every change; reading it first inserts  *)
(* a message for each task, upgrade, uninstall, backup or restore whose    *)
(* status has none yet (ReconcileTaskMessages, CreateMessageOnce).  Such a *)
(* status of one of them is a source.  Deleting a message keeps its row,   *)
(* marked as dismissed, until it is older than the retention.              *)
(*                                                                         *)
(* The clock counts the times that the retention, three months, has passed *)
(* between two steps.  A message is known by its source and the time it    *)
(* was created: a row inserted again for the same source has a later time, *)
(* or is the same message.  The sheet is taken to be open: opening and     *)
(* closing it changes nothing else.                                        *)
(***************************************************************************)
EXTENDS Naturals, Sequences, SequencesExt, FiniteSetsExt

CONSTANTS
    Sources,       \* statuses of tasks, upgrades, uninstalls, backups, restores
    MessageLimit,  \* the limit of the list, 80 in the code
    PageSize,      \* LIST_PAGE_SIZE, 20 in the code
    MaxClock,      \* bound: the time
    MaxCalls       \* bound: requests of the console under way

ASSUME MessageAssumption ==
    /\ IsFiniteSet(Sources)
    /\ MessageLimit \in Nat \ {0}
    /\ PageSize \in Nat \ {0}

VARIABLES
    clock,      \* the time of the control plane
    updated,    \* when a source was last written, 0 while it is not a status
    rows,       \* the table of messages, one row for a source at most
    inbox,      \* the cached list and unread count (query ["messages"])
    reading,    \* the read of the list under way
    calls,      \* the mutations under way
    view,       \* the tab and the requested page
    deleted     \* history: a message whose deletion the console saw succeed

messageVars == <<clock, updated, rows, inbox, reading, calls, view, deleted>>
-----------------------------------------------------------------------------
NoRow == [state |-> "none", created |-> 0]
NoInbox == [messages |-> <<>>, unread |-> 0]
NotReading == [phase |-> "idle", page |-> NoInbox]

\* Messages(limit): the rows that are not dismissed, the newest first, those
\* created together in any order, and the number of all that are not read.
Listed(table) == {s \in Sources : table[s].state \in {"unread", "read"}}
NewestFirst(table) ==
    LET messages == {[id |-> <<s, table[s].created>>, read |-> table[s].state = "read"] :
                       s \in Listed(table)}
    IN  {SubSeq(q, 1, Min({MessageLimit, Len(q)})) :
           q \in {q \in SetToSeqs(messages) :
                    \A i, j \in DOMAIN q : i < j => q[i].id[2] >= q[j].id[2]}}
UnreadCount(table) == Cardinality({s \in Sources : table[s].state = "unread"})
-----------------------------------------------------------------------------
(***************************************************************************)
(* useListPagination, over the messages that the tab shows.                *)
(***************************************************************************)
shown == SelectSeq(inbox.messages, LAMBDA m : view.filter = "all" \/ ~m.read)

totalPages == Max({1, (Len(shown) + PageSize - 1) \div PageSize})

\* A page past the end is the last one, whatever was deleted or read since.
currentPage == Min({view.requested, totalPages})

items == SubSeq(shown, (currentPage - 1) * PageSize + 1,
                Min({currentPage * PageSize, Len(shown)}))

clampPage(p) == Max({1, Min({p, totalPages})})
-----------------------------------------------------------------------------
MessageInit ==
    /\ clock = 1
    /\ updated = [s \in Sources |-> 0]
    /\ rows = [s \in Sources |-> NoRow]
    /\ inbox = NoInbox
    /\ reading = NotReading
    /\ calls = {}
    /\ view = [filter |-> "all", requested |-> 1]
    /\ deleted = {}

(***************************************************************************)
(* The control plane.                                                      *)
(***************************************************************************)
\* A task reaches a status, or is written again with the same one.  One that
\* has left its status is like one that is not written again, or gets no
\* message at all.
WriteSource(s) ==
    /\ updated[s] # clock
    /\ updated' = [updated EXCEPT ![s] = clock]
    /\ UNCHANGED <<clock, rows, inbox, reading, calls, view, deleted>>

PassTime ==
    /\ clock < MaxClock
    /\ clock' = clock + 1
    /\ UNCHANGED <<updated, rows, inbox, reading, calls, view, deleted>>

\* reconcileMessages, in one transaction: sources within the retention get
\* their row, and read or dismissed rows beyond it are dropped.
Reconciled(s) ==
    LET row == IF updated[s] = clock /\ rows[s] = NoRow
               THEN [state |-> "unread", created |-> updated[s]]
               ELSE rows[s]
    IN  IF row.state \in {"read", "dismissed"} /\ row.created < clock
        THEN NoRow ELSE row

\* listMessages: the transaction, the list and the count.  They are three
\* statements; a change between them is a change before or after, except that
\* the count may then be one of a moment later.  The console sends the request
\* on the first render, every 10 seconds and when the list is invalidated;
\* nothing depends on it until it is handled here.
listMessages ==
    /\ reading.phase = "idle"
    /\ rows' = [s \in Sources |-> Reconciled(s)]
    /\ \E list \in NewestFirst(rows') :
          reading' = [phase |-> "answered",
                      page |-> [messages |-> list, unread |-> UnreadCount(rows')]]
    /\ UNCHANGED <<clock, updated, inbox, calls, view, deleted>>

Finish(c, done) ==
    /\ calls' = (calls \ {c}) \cup {[c EXCEPT !.phase = done]}
    /\ UNCHANGED <<clock, updated, inbox, reading, view, deleted>>

\* The row that a request names, when it is still listed.
Found(c) == c.id[1] \in Listed(rows) /\ rows[c.id[1]].created = c.id[2]

\* ErrNotFound is answered with 404.
NotFound(c) ==
    /\ c.kind # "all" /\ c.phase = "sent"
    /\ ~Found(c)
    /\ Finish(c, "refused")
    /\ UNCHANGED rows

MarkMessageRead(c) ==
    /\ c.kind = "read" /\ c.phase = "sent"
    /\ Found(c)
    /\ rows' = [rows EXCEPT ![c.id[1]].state = "read"]
    /\ Finish(c, "done")

MarkAllMessagesRead(c) ==
    /\ c.kind = "all" /\ c.phase = "sent"
    /\ rows' = [s \in Sources |->
                  IF rows[s].state = "unread" THEN [rows[s] EXCEPT !.state = "read"]
                  ELSE rows[s]]
    /\ Finish(c, "done")

\* Mutant: the row of a deleted message is removed at once.
DismissedRemoved(row) == NoRow

Dismissed(row) == [row EXCEPT !.state = "dismissed"]

DeleteMessage(c) ==
    /\ c.kind = "delete" /\ c.phase = "sent"
    /\ Found(c)
    /\ rows' = [rows EXCEPT ![c.id[1]] = Dismissed(@)]
    /\ Finish(c, "done")
-----------------------------------------------------------------------------
(***************************************************************************)
(* The console.                                                            *)
(***************************************************************************)
ReceiveMessages ==
    /\ reading.phase = "answered"
    /\ inbox' = reading.page
    /\ reading' = NotReading
    /\ UNCHANGED <<clock, updated, rows, calls, view, deleted>>

\* The read fails or its answer is lost; the cached list stays.
LoseMessages ==
    /\ reading.phase # "idle"
    /\ reading' = NotReading
    /\ UNCHANGED <<clock, updated, rows, inbox, calls, view, deleted>>

Call(kind, id) ==
    /\ Cardinality(calls) < MaxCalls
    /\ calls' = calls \cup {[kind |-> kind, id |-> id, phase |-> "sent"]}
    /\ calls' # calls

setFilter(f) ==
    /\ f # view.filter
    /\ view' = [view EXCEPT !.filter = f, !.requested = clampPage(1)]
    /\ UNCHANGED <<clock, updated, rows, inbox, reading, calls, deleted>>

\* The buttons of ListPagination, disabled on the first and the last page.
TurnPage ==
    /\ shown # <<>>
    /\ \/ currentPage > 1 /\ view' = [view EXCEPT !.requested = clampPage(currentPage - 1)]
       \/ /\ currentPage < totalPages
          /\ view' = [view EXCEPT !.requested = clampPage(currentPage + 1)]
    /\ UNCHANGED <<clock, updated, rows, inbox, reading, calls, deleted>>

\* It also leads to the page of the site, the node or the backups.
openMessage(m) ==
    /\ ~m.read
    /\ Call("read", m.id)
    /\ UNCHANGED <<clock, updated, rows, inbox, reading, view, deleted>>

markAll ==
    /\ inbox.unread # 0
    /\ \A c \in calls : c.kind # "all"
    /\ Call("all", <<>>)
    /\ UNCHANGED <<clock, updated, rows, inbox, reading, view, deleted>>

remove(m) ==
    /\ Call("delete", m.id)
    /\ UNCHANGED <<clock, updated, rows, inbox, reading, view, deleted>>

\* onSuccess: the list is read again, and a read under way is cancelled.
invalidate(c) ==
    /\ c.phase = "done"
    /\ calls' = calls \ {c}
    /\ deleted' = IF c.kind = "delete" /\ deleted = {} THEN {c.id} ELSE deleted
    /\ reading' = NotReading
    /\ UNCHANGED <<clock, updated, rows, inbox, view>>

\* onError: refused, not sent or the answer was lost.
CallFails(c) ==
    /\ calls' = calls \ {c}
    /\ UNCHANGED <<clock, updated, rows, inbox, reading, view, deleted>>

MessageNext ==
    \/ PassTime
    \/ \E s \in Sources : WriteSource(s)
    \/ listMessages
    \/ \E c \in calls :
         \/ NotFound(c) \/ MarkMessageRead(c) \/ MarkAllMessagesRead(c) \/ DeleteMessage(c)
         \/ invalidate(c) \/ CallFails(c)
    \/ ReceiveMessages \/ LoseMessages
    \/ TurnPage \/ markAll
    \/ \E f \in {"all", "unread"} : setFilter(f)
    \/ \E i \in DOMAIN items : openMessage(items[i]) \/ remove(items[i])

MessageSpec == MessageInit /\ [][MessageNext]_messageVars
-----------------------------------------------------------------------------
MessageTypeOK ==
    /\ clock \in 1 .. MaxClock
    /\ updated \in [Sources -> 0 .. MaxClock]
    /\ rows \in [Sources -> [state : {"none", "unread", "read", "dismissed"},
                             created : 0 .. MaxClock]]
    /\ reading.phase \in {"idle", "answered"}
    /\ view \in [filter : {"all", "unread"}, requested : Nat \ {0}]

(***************************************************************************)
(* A message whose deletion the console saw succeed is in no list that it  *)
(* receives afterwards: neither a read that began before the deletion nor  *)
(* the next reconciliation of a task still in its status brings it back,   *)
(* also when the row has been dropped after the retention.                 *)
(***************************************************************************)
DeletedStaysAway ==
    [][inbox' # inbox =>
         \A i \in DOMAIN inbox'.messages : inbox'.messages[i].id \notin deleted]_messageVars
=============================================================================
