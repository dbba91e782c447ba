----------------------------- MODULE SiteEditor -----------------------------
(***************************************************************************)
(* The page of a site (features/sites/site-detail-page.tsx) and the record *)
(* it works on.  The page edits a draft of its own, shows cached answers   *)
(* of four queries and sends three mutations whose answers arrive any time *)
(* later.  Other consoles, the edges' confirmations and the certificate    *)
(* worker change the record meanwhile.                                     *)
(*                                                                         *)
(* A configuration is one value; the fields of the form are SiteForm. A    *)
(* behaviour is one visit of the page, which ends in the list of sites.    *)
(***************************************************************************)
EXTENDS Naturals

CONSTANTS
    Configs,        \* what the form may contain
    MaxChanges      \* bound on the changes of the record, which also date it

ASSUME EditorAssumption == Configs # {} /\ MaxChanges \in Nat

VARIABLES
    site,       \* the row of the site
    task,       \* its latest publish task
    removal,    \* its latest deletion task
    cert,       \* a certificate task is active
    now,        \* the clock of updated_at and created_at

    page,       \* the route: "new", "detail" or "list"
    shown,      \* the site in the cached list ["sites"]
    flight,     \* the list read by a fetch that has not been answered yet
    due,        \* ["sites"] was mounted or invalidated: a fetch is to start
    publish,    \* the cached ["site-publish"]
    tls,        \* the cached ["site-tls"]
    deletion,   \* the cached ["site-deletion"]
    draft,      \* useState draft
    baseline,   \* useState baseline
    loadedKey,  \* useState loadedKey: none, the new site, or this one
    calls,      \* calls[m]: the request of mutation m
    saved       \* date of the last row that a save of this page returned

record == <<site, task, removal, cert, now>>
queries == <<shown, flight, due, publish, tls, deletion>>
form == <<draft, baseline, loadedKey>>
vars == <<record, page, queries, form, calls, saved>>

NoConfig == "none"
Row == [row : {"present"}, cfg : Configs, published : BOOLEAN, deleting : BOOLEAN, updated : 0..MaxChanges]
NoRow == [row |-> "absent"]
NoList == [row |-> "unknown"]               \* the list has not been read
NoTask == [status |-> "none"]
Task == [status : {"active", "ended"}, cfg : Configs, created : 0..MaxChanges]
Removal == {"none", "active", "failed", "succeeded"}
Mutations == {"save", "operation", "delete"}
Deletion == Removal \cup {"error"}
Whats == {"save", "publish", "certificate", "invalidate", "delete"}
NoCall == [what |-> "none", phase |-> "idle", cfg |-> NoConfig, row |-> NoRow, removal |-> "none"]
NoCalls == [m \in Mutations |-> NoCall]
Call == [what : Whats \cup {"none"}, phase : {"idle", "sent", "ok"}, cfg : Configs \cup {NoConfig},
         row : Row \cup {NoRow}, removal : Removal]

\* Types of the record and of the page.
TypeOK ==
    /\ site \in Row \cup {NoRow}
    /\ task \in Task \cup {NoTask}
    /\ removal \in Removal
    /\ cert \in BOOLEAN
    /\ now \in 0..MaxChanges
    /\ page \in {"new", "detail", "list"}
    /\ shown \in Row \cup {NoRow, NoList}
    /\ flight \in Row \cup {NoRow, NoList}
    /\ due \in BOOLEAN
    /\ publish \in Task \cup {NoTask}
    /\ tls \in BOOLEAN
    /\ deletion \in Deletion
    /\ draft \in Configs
    /\ baseline \in Configs \cup {NoConfig}
    /\ loadedKey \in {"none", "new", "site"}
    /\ calls \in [Mutations -> Call]
    /\ saved \in 0..MaxChanges

emptyDraft == CHOOSE c \in Configs : TRUE

Init ==
    /\ \/ page = "new" /\ site = NoRow
       \/ page = "detail" /\ site \in {r \in Row : r.updated = 0 /\ ~r.published /\ ~r.deleting}
    /\ task = NoTask /\ removal = "none" /\ cert = FALSE /\ now = 0
    /\ shown = NoList /\ flight = NoList /\ due = TRUE
    /\ publish = NoTask /\ tls = FALSE /\ deletion = "none"
    /\ draft = emptyDraft /\ baseline = NoConfig /\ loadedKey = "none"
    /\ calls = NoCalls /\ saved = 0

-----------------------------------------------------------------------------
(* The record.                                                             *)

Present(r) == r.row = "present"
Active(t) == t.status = "active"
Tick == now < MaxChanges /\ now' = now + 1

\* The row as it is stored at this moment.
Stored(c, published, deleting) ==
    [row |-> "present", cfg |-> c, published |-> published, deleting |-> deleting, updated |-> now']

\* UpdateSite by this console or by another one.
UpdateSite(c) ==
    /\ Present(site) /\ ~site.deleting
    /\ Tick
    /\ site' = Stored(c, FALSE, FALSE)

CreateSite(c) ==
    /\ ~Present(site)
    /\ Tick
    /\ site' = Stored(c, FALSE, FALSE)

\* PublishSite: an active task is reused.  A site without active nodes needs no
\* confirmation and its task has ended at once; a task that fails to render
\* leaves the site as it was.
PublishSite ==
    /\ Present(site) /\ ~site.deleting
    /\ \/ Active(task) /\ UNCHANGED <<site, task, now>>
       \/ /\ ~Active(task)
          /\ Tick
          /\ \E status \in {"active", "ended"} :
                task' = [status |-> status, cfg |-> site.cfg, created |-> now']
          /\ \/ site' = Stored(site.cfg, TRUE, FALSE)
             \/ task'.status = "ended" /\ UNCHANGED site

\* The edges confirm, or the deadline passes.
EndTask ==
    /\ page # "list"
    /\ Active(task)
    /\ task' = [status |-> "ended", cfg |-> task.cfg, created |-> task.created]
    /\ UNCHANGED <<site, removal, cert, now, page, queries, form, calls, saved>>

\* A stored certificate makes the draft unpublished.
EndCertificate ==
    /\ page # "list"
    /\ cert
    /\ cert' = FALSE
    /\ \/ Tick /\ Present(site) /\ site' = Stored(site.cfg, FALSE, site.deleting)
       \/ UNCHANGED <<site, now>>
    /\ UNCHANGED <<task, removal, page, queries, form, calls, saved>>

\* SiteDeletionManager.Start: a deletion under way is reused, another task
\* refuses it; a deletion that nothing waits for ends before the answer.
BeginSiteDeletion ==
    /\ Present(site)
    /\ \/ removal = "active" /\ UNCHANGED <<site, removal, now>>
       \/ /\ removal # "active" /\ ~Active(task) /\ ~cert
          /\ Tick
          /\ removal' \in {"active", "failed", "succeeded"}
          /\ site' = IF removal' = "succeeded" THEN NoRow
                     ELSE Stored(site.cfg, site.published, TRUE)

\* SiteDeletionManager.advance.
EndDeletion ==
    /\ page # "list"
    /\ removal = "active"
    /\ \/ removal' = "succeeded" /\ site' = NoRow
       \/ removal' = "failed" /\ UNCHANGED site
    /\ UNCHANGED <<task, cert, now, page, queries, form, calls, saved>>

OtherConsole ==
    /\ page # "list"
    /\ \E c \in Configs : UpdateSite(c)
    /\ UNCHANGED <<task, removal, cert, page, queries, form, calls, saved>>

-----------------------------------------------------------------------------
(* Queries.                                                                *)

\* The effect that fills the form: for a key that is not loaded yet.
\* Mutant: it also runs when the cached site changes.
LoadsAlways(list) ==
    LET key == IF page = "new" THEN "new" ELSE IF Present(list) THEN "site" ELSE "none" IN
    IF key = "none"
    THEN UNCHANGED <<draft, baseline, loadedKey>>
    ELSE /\ draft' = IF Present(list) THEN list.cfg ELSE emptyDraft
         /\ baseline' = draft'
         /\ loadedKey' = key

Loads(list) ==
    LET key == IF page = "new" THEN "new" ELSE IF Present(list) THEN "site" ELSE "none" IN
    IF key = "none" \/ key = loadedKey
    THEN UNCHANGED <<draft, baseline, loadedKey>>
    ELSE /\ draft' = IF Present(list) THEN list.cfg ELSE emptyDraft
         /\ baseline' = draft'
         /\ loadedKey' = key

SendSites ==
    /\ page # "list" /\ due
    /\ due' = FALSE
    /\ flight' = site
    /\ UNCHANGED <<record, page, shown, publish, tls, deletion, form, calls, saved>>

ReceiveSites ==
    /\ page # "list" /\ flight # NoList
    /\ shown' = flight
    /\ flight' = NoList
    /\ Loads(flight)
    /\ UNCHANGED <<record, page, due, publish, tls, deletion, calls, saved>>

\* The fetch fails for the second time: the cached list stays.
LoseSites ==
    /\ page # "list" /\ flight # NoList
    /\ flight' = NoList
    /\ Loads(shown)
    /\ UNCHANGED <<record, page, shown, due, publish, tls, deletion, calls, saved>>

\* An invalidation discards the fetch under way and starts another.
Invalidate == due' = TRUE /\ flight' = NoList

\* Every 2 or 20 seconds while the site is known.  No mutation writes these two
\* answers, so that a poll is one step.
PollPublish ==
    /\ page = "detail" /\ Present(shown)
    /\ Present(site)
    /\ publish' = task
    /\ UNCHANGED <<record, page, shown, flight, due, tls, deletion, form, calls, saved>>

PollTLS ==
    /\ page = "detail" /\ Present(shown)
    /\ Present(site)
    /\ tls' = cert
    /\ UNCHANGED <<record, page, shown, flight, due, publish, deletion, form, calls, saved>>

\* Mutant: the interval of the deletion is false while it is active.
deletionIntervalEnded == deletion # "active"

\* The interval of ["site-deletion"], with its first fetch.
deletionInterval == deletion \in {"none", "active"}

\* The page is left: its state goes with it, and no answer reaches it any more.
Unmounted ==
    /\ page' = "list"
    /\ shown' = NoList /\ flight' = NoList /\ due' = FALSE
    /\ publish' = NoTask /\ tls' = FALSE /\ deletion' = "none"
    /\ draft' = emptyDraft /\ baseline' = NoConfig /\ loadedKey' = "none"
    /\ calls' = NoCalls /\ saved' = 0

\* The effect on a deletion that has succeeded leaves the page.
PollDeletion ==
    /\ page = "detail" /\ Present(shown) /\ shown.deleting
    /\ deletionInterval
    /\ IF removal = "succeeded" THEN Unmounted
       ELSE /\ deletion' = removal
            /\ UNCHANGED <<page, shown, flight, due, publish, tls, form, calls, saved>>
    /\ UNCHANGED record

\* The first fetch fails: there is no task yet, and the interval is false.
LoseDeletion ==
    /\ page = "detail" /\ Present(shown) /\ shown.deleting
    /\ deletion = "none"
    /\ deletion' = "error"
    /\ UNCHANGED <<record, page, shown, flight, due, publish, tls, form, calls, saved>>

-----------------------------------------------------------------------------
(* The form.                                                               *)

dirty == baseline # NoConfig /\ draft # baseline
FormShown == loadedKey # "none" /\ (page = "new" \/ (page = "detail" /\ Present(shown)))

Edit ==
    /\ FormShown
    /\ \E c \in Configs : draft' = c
    /\ UNCHANGED <<record, page, queries, baseline, loadedKey, calls, saved>>

\* The administrator leaves, after confirming it when there are unsaved edits.
GoBack ==
    /\ page # "list"
    /\ Unmounted
    /\ UNCHANGED record

-----------------------------------------------------------------------------
(* Mutations.                                                              *)

Idle(m) == calls[m] = NoCall
Pending(m) == ~Idle(m)

\* The task the card of operations looks at.
publishActive == IF shown.deleting THEN deletion = "active" ELSE Active(publish)

Offered(what) ==
    /\ what = "save" => FormShown /\ ~(Present(shown) /\ shown.deleting)
    /\ what # "save" => page = "detail" /\ FormShown
    /\ what = "publish" => ~shown.deleting /\ ~publishActive
    /\ what = "certificate" => ~shown.deleting /\ ~tls
    /\ what = "invalidate" => ~shown.deleting
    /\ what = "delete" => Idle("operation") /\ ~publishActive /\ ~tls

MutationOf(what) ==
    IF what = "save" THEN "save" ELSE IF what = "delete" THEN "delete" ELSE "operation"

Send(what) ==
    LET m == MutationOf(what) IN
    /\ Idle(m)
    /\ Offered(what)
    /\ calls' = [calls EXCEPT ![m] = [what |-> what, phase |-> "sent", cfg |-> IF m = "save" THEN draft ELSE NoConfig,
                                     row |-> NoRow, removal |-> "none"]]
    /\ UNCHANGED <<record, page, queries, form, saved>>

Answers(m) ==
    calls' = [calls EXCEPT ![m] = [what |-> calls[m].what, phase |-> "ok", cfg |-> calls[m].cfg,
                                   row |-> IF m = "save" THEN site' ELSE NoRow,
                                   removal |-> IF m = "delete" THEN removal' ELSE "none"]]

\* createSite and updateSite.
ServeSave ==
    LET call == calls["save"] IN
    /\ call.phase = "sent"
    /\ IF page = "new" THEN CreateSite(call.cfg) ELSE UpdateSite(call.cfg)
    /\ Answers("save")
    /\ UNCHANGED <<task, removal, cert, page, queries, form, saved>>

\* InvalidateSiteCache changes the configuration as UpdateSite does.  Its
\* publication may be refused, which leaves an unpublished site and an error.
ServeOperation ==
    LET call == calls["operation"] IN
    /\ call.phase = "sent"
    /\ \/ /\ call.what \in {"publish", "invalidate"}
          /\ PublishSite
          /\ Answers("operation")
          /\ UNCHANGED <<removal, cert>>
       \/ /\ call.what = "invalidate"
          /\ UpdateSite(site.cfg)
          /\ calls' = [calls EXCEPT !["operation"] = NoCall]
          /\ UNCHANGED <<task, removal, cert>>
       \/ /\ call.what = "certificate"
          /\ Present(site)
          /\ cert' = TRUE
          /\ Answers("operation")
          /\ UNCHANGED <<site, task, removal, now>>
    /\ UNCHANGED <<page, queries, form, saved>>

\* A deletion that fails at once is answered by an error.
ServeDelete ==
    /\ calls["delete"].phase = "sent"
    /\ BeginSiteDeletion
    /\ IF removal' = "failed" THEN calls' = [calls EXCEPT !["delete"] = NoCall] ELSE Answers("delete")
    /\ UNCHANGED <<task, cert, page, queries, form, saved>>

\* Mutant: the list is not invalidated.
ReceiveSaveOnly ==
    LET row == calls["save"].row IN
    /\ page # "list" /\ calls["save"].phase = "ok"
    /\ draft' = row.cfg /\ baseline' = row.cfg /\ loadedKey' = "site"
    /\ shown' = IF shown = NoList THEN NoList ELSE row
    /\ page' = "detail"
    /\ saved' = row.updated
    /\ calls' = [calls EXCEPT !["save"] = NoCall]
    /\ UNCHANGED <<record, flight, due, publish, tls, deletion>>

\* onSuccess of save: the form and the list take what was stored.
ReceiveSave ==
    LET row == calls["save"].row IN
    /\ page # "list" /\ calls["save"].phase = "ok"
    /\ draft' = row.cfg /\ baseline' = row.cfg /\ loadedKey' = "site"
    /\ shown' = IF shown = NoList THEN NoList ELSE row
    /\ Invalidate
    /\ page' = "detail"
    /\ saved' = row.updated
    /\ calls' = [calls EXCEPT !["save"] = NoCall]
    /\ UNCHANGED <<record, publish, tls, deletion>>

ReceiveOperation ==
    /\ page # "list" /\ calls["operation"].phase = "ok"
    /\ Invalidate
    /\ calls' = [calls EXCEPT !["operation"] = NoCall]
    /\ UNCHANGED <<record, page, shown, publish, tls, deletion, form, saved>>

ReceiveDelete ==
    /\ page # "list" /\ calls["delete"].phase = "ok"
    /\ IF calls["delete"].removal = "succeeded" THEN Unmounted
       ELSE /\ deletion' = calls["delete"].removal
            /\ Invalidate
            /\ calls' = [calls EXCEPT !["delete"] = NoCall]
            /\ UNCHANGED <<page, shown, publish, tls, form, saved>>
    /\ UNCHANGED record

\* The request is refused or lost, or its answer is: onError shows a message.
FailCall ==
    /\ page # "list"
    /\ \E m \in Mutations : Pending(m) /\ calls' = [calls EXCEPT ![m] = NoCall]
    /\ UNCHANGED <<record, page, queries, form, saved>>

-----------------------------------------------------------------------------
Next ==
    \/ EndTask \/ EndCertificate \/ EndDeletion \/ OtherConsole
    \/ SendSites \/ ReceiveSites \/ LoseSites
    \/ PollPublish \/ PollTLS \/ PollDeletion \/ LoseDeletion
    \/ Edit \/ GoBack
    \/ \E what \in Whats : Send(what)
    \/ ServeSave \/ ServeOperation \/ ServeDelete
    \/ ReceiveSave \/ ReceiveOperation \/ ReceiveDelete \/ FailCall

Spec == Init /\ [][Next]_vars

\* The deletion of a site ends, at the latest by its deadline, and a query with
\* an interval is fetched again.
FairSpec == Spec /\ WF_vars(EndDeletion) /\ WF_vars(PollDeletion)

-----------------------------------------------------------------------------
(* Properties.                                                             *)

\* The page never shows a site older than the one its last save stored: the
\* list read before the save and answered after it is discarded.
CacheNeverOlderThanSave ==
    page = "detail" /\ Present(shown) => shown.updated >= saved

\* Mutant: any task is shown.
taskMatchesCurrentSiteAny(t, s) == t # NoTask

taskMatchesCurrentSite(t, s) ==
    /\ t # NoTask
    /\ s.deleting \/ s.published \/ Active(t) \/ t.created >= s.updated

\* With an up-to-date cache, the publication the page shows as ended is one of
\* the configuration it shows, never of the one before the last save.
EndedTaskIsOfThisConfig ==
    /\ page = "detail" /\ Present(shown) /\ shown = site /\ publish = task
    /\ ~shown.deleting /\ ~Active(publish) /\ taskMatchesCurrentSite(publish, shown)
    => publish.cfg = shown.cfg

\* Unsaved edits are replaced by the administrator or by the answer of a save,
\* never by a list that is read again.
OnlySaveReplacesEdits ==
    [][dirty /\ page' # "list" /\ draft' # draft => Edit \/ ReceiveSave]_vars

\* A deletion that the page shows as under way is followed to its end: the page
\* leaves or shows the failure, unless it stops showing the site as deleting (it
\* reads a list without it, or a late answer of a save draws it as it was).
DeletionIsFollowed ==
    LET ShowsDeleting == page = "detail" /\ Present(shown) /\ shown.deleting IN
    ShowsDeleting /\ deletion = "active" ~> ~ShowsDeleting \/ deletion = "failed"

=============================================================================
