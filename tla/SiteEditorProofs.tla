-------------------------- MODULE SiteEditorProofs --------------------------
(***************************************************************************)
(* Proofs about SiteEditor, for any set of configurations and any number   *)
(* of changes of the record: what the page shows is never older than its   *)
(* last save, a publication shown as ended is one of the configuration     *)
(* shown, and unsaved edits are not replaced by a list read again.         *)
(***************************************************************************)
EXTENDS SiteEditor, TLAPS

\* The record: nothing is dated in the future, and a task that the page may
\* take for one of the stored configuration is one.
RecordInv ==
    /\ Present(site) => site.updated <= now
    /\ task # NoTask => task.created <= now
    /\ Present(site) /\ task # NoTask /\ ~site.deleting /\ (site.published \/ task.created >= site.updated)
         => task.cfg = site.cfg

\* Neither the row nor a list that is under way or shown is older than the row
\* that a save returned.
DateInv ==
    /\ saved <= now
    /\ \A r \in {site, flight, shown} : Present(r) => saved <= r.updated
    /\ calls["save"].phase = "ok" =>
         /\ calls["save"].row \in Row /\ calls["save"].row.updated <= now
         /\ Present(site) => calls["save"].row.updated <= site.updated

\* The form is filled once for the page it belongs to.
FormInv ==
    /\ loadedKey = "none" => baseline = NoConfig
    /\ page = "new" => loadedKey # "site"
    /\ page = "detail" => loadedKey # "new"

\* A save under way carries what the form contained.
SaveInv == calls["save"].phase = "sent" => calls["save"].cfg \in Configs

\* The inductive invariant.
Inv == TypeOK /\ RecordInv /\ DateInv /\ FormInv /\ SaveInv

\* The step relation of the action property.
KeepsEdits == dirty /\ page' # "list" /\ draft' # draft => Edit \/ ReceiveSave

-----------------------------------------------------------------------------
\* The record.

RecordOK ==
    /\ site \in Row \cup {NoRow} /\ task \in Task \cup {NoTask} /\ removal \in Removal
    /\ cert \in BOOLEAN /\ now \in 0..MaxChanges

\* What the dates of the page need to know of a step of the record: a row that
\* changes is dated later than everything else.
Aged ==
    /\ now <= now'
    /\ Present(site') => site' = site \/ (site'.updated = now' /\ now < now')

\* Rows are sites; no row and no list are not.
LEMMA Rows ==
    /\ \A r \in Row : /\ Present(r) /\ r.cfg \in Configs /\ r.published \in BOOLEAN
                      /\ r.deleting \in BOOLEAN /\ r.updated \in 0..MaxChanges
    /\ ~Present(NoRow) /\ ~Present(NoList) /\ NoRow # NoList
BY DEF Row, Present, NoRow, NoList

\* Tasks have a configuration; no task is none of them.
LEMMA Tasks ==
    /\ \A t \in Task : t.cfg \in Configs /\ t.created \in 0..MaxChanges /\ t.status \in {"active", "ended"}
    /\ ~Active(NoTask) /\ NoTask \notin Task
BY DEF Task, NoTask, Active

\* The clock of the rows moves on by one.
LEMMA Ticks ==
    ASSUME now \in 0..MaxChanges, Tick
    PROVE  now' \in 0..MaxChanges /\ now' = now + 1 /\ now \in Nat /\ now < now'
BY EditorAssumption DEF Tick

\* What is stored has the date of its storing.
LEMMA Storing ==
    ASSUME now' \in 0..MaxChanges, NEW c \in Configs, NEW p \in BOOLEAN, NEW d \in BOOLEAN
    PROVE  /\ Stored(c, p, d) \in Row /\ Stored(c, p, d).cfg = c /\ Stored(c, p, d).published = p
           /\ Stored(c, p, d).deleting = d /\ Stored(c, p, d).updated = now'
BY DEF Stored, Row

\* A step that leaves the record alone.
LEMMA RecordQuiet ==
    ASSUME TypeOK, RecordInv, UNCHANGED record
    PROVE  RecordOK' /\ RecordInv' /\ Aged
<1>1. now \in 0..MaxChanges
    BY DEF TypeOK
<1> QED
    BY <1>1 DEF TypeOK, RecordOK, RecordInv, Aged, record

\* The row is stored again without being published.
LEMMA RecordRewrite ==
    ASSUME TypeOK, RecordInv, Tick, NEW c \in Configs, NEW p \in BOOLEAN, NEW d \in BOOLEAN,
           d \/ ~p, site' = Stored(c, p, d), removal' \in Removal, task' = task, cert' \in BOOLEAN
    PROVE  RecordOK' /\ RecordInv' /\ Aged
<1>1. now \in 0..MaxChanges /\ task \in Task \cup {NoTask}
    BY DEF TypeOK
<1>2. now' \in 0..MaxChanges /\ now < now' /\ now \in Nat
    BY <1>1, Ticks
<1>3. site' \in Row /\ site'.published = p /\ site'.deleting = d /\ site'.updated = now'
    BY <1>2, Storing
<1>4. RecordOK'
    BY <1>1, <1>2, <1>3 DEF RecordOK
<1>5. Aged
    BY <1>2, <1>3 DEF Aged
<1>6. RecordInv'
    BY <1>1, <1>2, <1>3, Tasks DEF RecordInv
<1> QED
    BY <1>4, <1>5, <1>6

\* The site is created or updated.
LEMMA RecordUpdate ==
    ASSUME TypeOK, RecordInv, NEW c \in Configs, UpdateSite(c) \/ CreateSite(c), UNCHANGED <<task, removal, cert>>
    PROVE  RecordOK' /\ RecordInv' /\ Aged
<1>1. Tick /\ site' = Stored(c, FALSE, FALSE) /\ removal' \in Removal /\ cert' \in BOOLEAN
    BY DEF UpdateSite, CreateSite, TypeOK
<1> QED
    BY <1>1, RecordRewrite

\* The site is published.
LEMMA RecordPublish ==
    ASSUME TypeOK, RecordInv, PublishSite, UNCHANGED <<removal, cert>>
    PROVE  RecordOK' /\ RecordInv' /\ Aged
<1>1. /\ now \in 0..MaxChanges /\ task \in Task \cup {NoTask} /\ removal \in Removal /\ cert \in BOOLEAN
      /\ site \in Row
    BY Rows DEF TypeOK, PublishSite
<1>2. CASE UNCHANGED <<site, task, now>>
    BY <1>2, RecordQuiet DEF record
<1>3. ASSUME Tick, NEW status \in {"active", "ended"},
             task' = [status |-> status, cfg |-> site.cfg, created |-> now'],
             site' = Stored(site.cfg, TRUE, FALSE) \/ site' = site
      PROVE  RecordOK' /\ RecordInv' /\ Aged
    <2>1. now' \in 0..MaxChanges /\ now < now' /\ now \in Nat
        BY <1>1, <1>3, Ticks
    <2>2. task' \in Task /\ task'.cfg = site.cfg /\ task'.created = now'
        BY <1>1, <1>3, <2>1, Rows DEF Task
    <2>3. site' \in Row /\ site'.cfg = site.cfg /\ (site' = site \/ site'.updated = now')
        <3>1. PICK c \in Configs : c = site.cfg
            BY <1>1, Rows
        <3>2. Stored(c, TRUE, FALSE) \in Row /\ Stored(c, TRUE, FALSE).cfg = c /\ Stored(c, TRUE, FALSE).updated = now'
            BY <2>1, Storing
        <3> QED
            BY <1>1, <1>3, <3>1, <3>2
    <2>4. RecordOK' /\ Aged
        BY <1>1, <2>1, <2>2, <2>3 DEF RecordOK, Aged
    <2>5. RecordInv'
        BY <1>1, <2>1, <2>2, <2>3, Rows DEF RecordInv
    <2> QED
        BY <2>4, <2>5
<1> QED
    BY <1>2, <1>3 DEF PublishSite

\* The deletion of the site begins.
LEMMA RecordDelete ==
    ASSUME TypeOK, RecordInv, BeginSiteDeletion, UNCHANGED <<task, cert>>
    PROVE  RecordOK' /\ RecordInv' /\ Aged
<1>1. /\ now \in 0..MaxChanges /\ task \in Task \cup {NoTask} /\ removal \in Removal /\ cert \in BOOLEAN
      /\ site \in Row
    BY Rows DEF TypeOK, BeginSiteDeletion
<1>2. CASE UNCHANGED <<site, removal, now>>
    BY <1>2, RecordQuiet DEF record
<1>3. CASE Tick /\ removal' \in Removal /\ site' = Stored(site.cfg, site.published, TRUE)
    <2>1. PICK c \in Configs, p \in BOOLEAN : c = site.cfg /\ p = site.published
        BY <1>1, Rows
    <2>2. site' = Stored(c, p, TRUE) /\ cert' \in BOOLEAN
        BY <1>1, <1>3, <2>1
    <2> QED
        BY <1>3, <2>2, RecordRewrite
<1>4. CASE Tick /\ removal' \in Removal /\ site' = NoRow
    <2>1. now' \in 0..MaxChanges /\ now < now' /\ now \in Nat
        BY <1>1, <1>4, Ticks
    <2>2. task # NoTask => task.created \in Nat
        BY <1>1, Tasks
    <2> QED
        BY <1>1, <1>4, <2>1, <2>2, Rows DEF RecordOK, RecordInv, Aged
<1> QED
    BY <1>2, <1>3, <1>4 DEF BeginSiteDeletion, Removal

\* What happens to the record without a request of this page.
LEMMA RecordAlone ==
    ASSUME TypeOK, RecordInv, EndTask \/ EndCertificate \/ EndDeletion \/ OtherConsole
    PROVE  RecordOK' /\ RecordInv' /\ Aged
<1>1. /\ now \in 0..MaxChanges /\ task \in Task \cup {NoTask} /\ removal \in Removal /\ cert \in BOOLEAN
      /\ site \in Row \cup {NoRow}
    BY DEF TypeOK
<1>2. CASE EndTask
    <2>1. /\ task \in Task /\ task' = [status |-> "ended", cfg |-> task.cfg, created |-> task.created]
          /\ UNCHANGED <<site, removal, cert, now>>
        BY <1>1, <1>2, Tasks DEF EndTask
    <2>2. task' \in Task /\ task'.cfg = task.cfg /\ task'.created = task.created /\ task # NoTask
        BY <2>1, Tasks DEF Task
    <2> QED
        BY <1>1, <2>1, <2>2 DEF RecordOK, RecordInv, Aged
<1>3. CASE EndCertificate
    <2>1. CASE UNCHANGED <<site, now>>
        <3>1. cert' \in BOOLEAN
            BY <1>3 DEF EndCertificate
        <3>2. UNCHANGED <<site, now, task, removal>>
            BY <1>3, <2>1 DEF EndCertificate
        <3> QED
            BY <1>1, <3>1, <3>2 DEF RecordOK, RecordInv, Aged
    <2>2. CASE Tick /\ Present(site) /\ site' = Stored(site.cfg, FALSE, site.deleting)
        <3>1. site \in Row
            BY <1>1, <2>2, Rows
        <3>2. PICK c \in Configs, d \in BOOLEAN : c = site.cfg /\ d = site.deleting
            BY <3>1, Rows
        <3>3. site' = Stored(c, FALSE, d) /\ cert' \in BOOLEAN /\ removal' \in Removal /\ task' = task
            BY <1>1, <1>3, <2>2, <3>2 DEF EndCertificate
        <3> QED
            BY <2>2, <3>3, RecordRewrite
    <2> QED
        BY <1>3, <2>1, <2>2 DEF EndCertificate
<1>4. CASE EndDeletion
    <2>1. CASE removal' = "failed" /\ site' = site
        BY <1>1, <1>4, <2>1 DEF EndDeletion, RecordOK, RecordInv, Aged, Removal
    <2>2. CASE removal' = "succeeded" /\ site' = NoRow
        BY <1>1, <1>4, <2>2, Rows DEF EndDeletion, RecordOK, RecordInv, Aged, Removal
    <2> QED
        BY <1>4, <2>1, <2>2 DEF EndDeletion
<1>5. CASE OtherConsole
    <2>1. PICK c \in Configs : UpdateSite(c)
        BY <1>5 DEF OtherConsole
    <2> QED
        BY <1>5, <2>1, RecordUpdate DEF OtherConsole
<1> QED
    BY <1>2, <1>3, <1>4, <1>5

-----------------------------------------------------------------------------
\* The page.

PageOK ==
    /\ page \in {"new", "detail", "list"}
    /\ shown \in Row \cup {NoRow, NoList} /\ flight \in Row \cup {NoRow, NoList}
    /\ publish \in Task \cup {NoTask} /\ deletion \in Deletion
    /\ draft \in Configs /\ baseline \in Configs \cup {NoConfig} /\ loadedKey \in {"none", "new", "site"}
    /\ calls \in [Mutations -> Call] /\ saved \in 0..MaxChanges

FlagsOK == due \in BOOLEAN /\ tls \in BOOLEAN

\* The parts of the type invariant.
LEMMA Types == TypeOK => RecordOK /\ PageOK /\ FlagsOK
BY DEF TypeOK, RecordOK, PageOK, FlagsOK

\* The type invariant from its parts.
LEMMA TypesKept == RecordOK' /\ PageOK' /\ FlagsOK' => TypeOK'
BY DEF TypeOK, RecordOK, PageOK, FlagsOK

\* What stands for no draft and no request.
LEMMA Blank == emptyDraft \in Configs /\ NoCall \in Call /\ NoCall.phase = "idle" /\ NoCalls \in [Mutations -> Call]
<1>1. emptyDraft \in Configs
    BY EditorAssumption DEF emptyDraft
<1>2. NoCall \in Call /\ NoCall.phase = "idle"
    BY DEF NoCall, Call, Removal
<1> QED
    BY <1>1, <1>2 DEF NoCalls

\* A step of the record while the page stays as it is, but for a mutation
\* whose answer is not a stored row.
LEMMA PageQuiet ==
    ASSUME Inv, RecordOK', RecordInv', Aged, UNCHANGED <<page, queries, form, saved>>,
           calls' \in [Mutations -> Call], SaveInv',
           calls'["save"] = calls["save"] \/ calls'["save"].phase # "ok"
    PROVE  Inv' /\ KeepsEdits
<1> USE DEF Inv, queries, form
<1>1. PageOK' /\ FlagsOK'
    BY Types DEF PageOK, FlagsOK
<1>2. saved \in Nat /\ now \in Nat /\ now' \in Nat /\ site \in Row \cup {NoRow} /\ site' \in Row \cup {NoRow}
    BY EditorAssumption DEF TypeOK, RecordOK
<1>3. \A r \in Row : r.updated \in Nat
    BY Rows, EditorAssumption
<1>4. DateInv'
    <2>1. saved <= now'
        BY <1>2 DEF DateInv, Aged
    <2>2. Present(site') => saved <= site'.updated
        BY <1>2, <1>3, Rows DEF DateInv, Aged
    <2>3. \A r \in {flight, shown} : Present(r) => saved <= r.updated
        BY DEF DateInv
    <2>4. calls'["save"].phase = "ok" =>
             /\ calls'["save"].row \in Row /\ calls'["save"].row.updated <= now'
             /\ Present(site') => calls'["save"].row.updated <= site'.updated
        BY <1>2, <1>3, Rows DEF DateInv, Aged
    <2> QED
        BY <2>1, <2>2, <2>3, <2>4 DEF DateInv
<1>5. FormInv'
    BY DEF FormInv
<1> QED
    BY <1>1, <1>4, <1>5, TypesKept DEF KeepsEdits

\* A step of the page that leaves the record alone.
LEMMA PageStep ==
    ASSUME Inv, UNCHANGED record, PageOK', FlagsOK', FormInv',
           saved' = saved,
           flight' \in {flight, site, NoList},
           shown' \in {shown, flight},
           calls'["save"] \in {calls["save"], NoCall}
    PROVE  Inv'
<1> USE DEF Inv
<1>1. RecordOK' /\ RecordInv'
    BY RecordQuiet
<1>2. site' = site /\ now' = now
    BY DEF record
<1>3. DateInv'
    BY <1>2, Rows, Blank DEF DateInv
<1>4. SaveInv'
    BY Blank DEF SaveInv
<1> QED
    BY <1>1, <1>3, <1>4, TypesKept

\* The page is left.
LEMMA LeaveStep ==
    ASSUME Inv, UNCHANGED record, Unmounted
    PROVE  Inv' /\ KeepsEdits
<1> USE DEF Inv
<1>1. RecordOK' /\ RecordInv'
    BY RecordQuiet
<1>2. PageOK'
    BY Blank, EditorAssumption DEF Unmounted, PageOK, Deletion, Removal
<1>3. FlagsOK'
    BY DEF Unmounted, FlagsOK
<1>4. now \in Nat /\ UNCHANGED <<site, now>>
    BY EditorAssumption DEF TypeOK, record
<1>5. calls'["save"].phase = "idle"
    BY Blank DEF Unmounted, NoCalls, Mutations
<1>6. DateInv'
    <2>1. site \in Row \cup {NoRow}
        BY DEF TypeOK
    <2>2. Present(site) => 0 <= site.updated
        BY <2>1, Rows
    <2> QED
        BY <1>4, <1>5, <2>2, Rows DEF Unmounted, DateInv
<1>7. FormInv' /\ KeepsEdits /\ SaveInv'
    BY <1>5 DEF Unmounted, FormInv, KeepsEdits, SaveInv
<1> QED
    BY <1>1, <1>2, <1>3, <1>6, <1>7, TypesKept

\* The form is filled, but never over unsaved edits.
LEMMA Filling ==
    ASSUME Inv, NEW list \in Row \cup {NoRow, NoList}, Loads(list), page' = page, page # "list"
    PROVE  /\ draft' \in Configs /\ baseline' \in Configs \cup {NoConfig}
           /\ loadedKey' \in {"none", "new", "site"}
           /\ FormInv'
           /\ dirty => draft' = draft
<1> USE DEF Inv
<1>1. PICK key \in {"new", "site", "none"} :
        key = IF page = "new" THEN "new" ELSE IF Present(list) THEN "site" ELSE "none"
    OBVIOUS
<1>2. \/ (key = "none" \/ key = loadedKey) /\ UNCHANGED <<draft, baseline, loadedKey>>
      \/ /\ key # "none" /\ key # loadedKey
         /\ draft' = IF Present(list) THEN list.cfg ELSE emptyDraft
         /\ baseline' = draft' /\ loadedKey' = key
    BY <1>1 DEF Loads
<1>3. CASE UNCHANGED <<draft, baseline, loadedKey>>
    BY <1>3 DEF TypeOK, FormInv
<1>4. CASE /\ key # "none" /\ key # loadedKey
           /\ draft' = IF Present(list) THEN list.cfg ELSE emptyDraft
           /\ baseline' = draft' /\ loadedKey' = key
    <2>1. draft' \in Configs
        BY <1>4, Rows, Blank
    <2>2. loadedKey = "none"
        BY <1>1, <1>4 DEF TypeOK, FormInv
    <2> QED
        BY <1>1, <1>4, <2>1, <2>2 DEF FormInv, dirty
<1> QED
    BY <1>2, <1>3, <1>4

\* The reads of the page.
LEMMA QueryStep ==
    ASSUME Inv, SendSites \/ ReceiveSites \/ LoseSites \/ PollPublish \/ PollTLS \/ LoseDeletion
    PROVE  Inv' /\ KeepsEdits
<1> USE DEF Inv
<1>1. CASE SendSites
    <2>1. PageOK' /\ FormInv'
        BY <1>1 DEF SendSites, form, TypeOK, PageOK, FormInv
    <2>2. FlagsOK'
        BY <1>1 DEF SendSites, TypeOK, FlagsOK
    <2> QED
        BY <1>1, <2>1, <2>2, PageStep DEF SendSites, form, KeepsEdits
<1>2. CASE ReceiveSites \/ LoseSites
    <2>1. PICK list \in Row \cup {NoRow, NoList} : list \in {flight, shown} /\ Loads(list) /\ shown' = list
        BY <1>2 DEF ReceiveSites, LoseSites, TypeOK
    <2>2. /\ page' = page /\ page # "list" /\ flight' = NoList
          /\ UNCHANGED <<record, due, publish, tls, deletion, calls, saved>>
        BY <1>2 DEF ReceiveSites, LoseSites
    <2>3. /\ draft' \in Configs /\ baseline' \in Configs \cup {NoConfig}
          /\ loadedKey' \in {"none", "new", "site"} /\ FormInv'
          /\ dirty => draft' = draft
        BY <2>1, <2>2, Filling
    <2>4. PageOK'
        BY <2>1, <2>2, <2>3 DEF TypeOK, PageOK
    <2>5. FlagsOK'
        BY <2>2 DEF TypeOK, FlagsOK
    <2> QED
        BY <2>1, <2>2, <2>3, <2>4, <2>5, PageStep DEF KeepsEdits
<1>3. CASE PollPublish
    <2>1. PageOK' /\ FormInv'
        BY <1>3 DEF PollPublish, form, TypeOK, PageOK, FormInv
    <2>2. FlagsOK'
        BY <1>3 DEF PollPublish, TypeOK, FlagsOK
    <2> QED
        BY <1>3, <2>1, <2>2, PageStep DEF PollPublish, form, KeepsEdits
<1>4. CASE PollTLS
    <2>1. PageOK' /\ FormInv'
        BY <1>4 DEF PollTLS, form, TypeOK, PageOK, FormInv
    <2>2. FlagsOK'
        BY <1>4 DEF PollTLS, TypeOK, FlagsOK
    <2> QED
        BY <1>4, <2>1, <2>2, PageStep DEF PollTLS, form, KeepsEdits
<1>5. CASE LoseDeletion
    <2>1. PageOK' /\ FormInv'
        BY <1>5 DEF LoseDeletion, form, TypeOK, PageOK, FormInv, Deletion
    <2>2. FlagsOK'
        BY <1>5 DEF LoseDeletion, TypeOK, FlagsOK
    <2> QED
        BY <1>5, <2>1, <2>2, PageStep DEF LoseDeletion, form, KeepsEdits
<1> QED
    BY <1>1, <1>2, <1>3, <1>4, <1>5

\* Editing, going back, and the poll of a deletion.
LEMMA FormStep ==
    ASSUME Inv, Edit \/ GoBack \/ PollDeletion
    PROVE  Inv' /\ KeepsEdits
<1> USE DEF Inv
<1>1. CASE Edit
    <2>1. PageOK' /\ FormInv'
        BY <1>1 DEF Edit, queries, TypeOK, PageOK, FormInv
    <2>2. FlagsOK'
        BY <1>1 DEF Edit, queries, TypeOK, FlagsOK
    <2>3. Inv'
        BY <1>1, <2>1, <2>2, PageStep DEF Edit, queries
    <2> QED
        BY <1>1, <2>3 DEF KeepsEdits
<1>2. CASE GoBack
    BY <1>2, LeaveStep DEF GoBack
<1>3. CASE PollDeletion /\ removal = "succeeded"
    BY <1>3, LeaveStep DEF PollDeletion
<1>4. CASE PollDeletion /\ removal # "succeeded"
    <2>1. deletion' = removal /\ UNCHANGED <<page, shown, flight, due, publish, tls, form, calls, saved, record>>
        BY <1>4 DEF PollDeletion
    <2>2. PageOK' /\ FormInv'
        BY <2>1 DEF form, TypeOK, PageOK, FormInv, Deletion
    <2>3. FlagsOK'
        BY <2>1 DEF TypeOK, FlagsOK
    <2> QED
        BY <2>1, <2>2, <2>3, PageStep DEF form, KeepsEdits
<1> QED
    BY <1>1, <1>2, <1>3, <1>4

\* A mutation is sent.
LEMMA SendStep ==
    ASSUME Inv, NEW what \in Whats, Send(what)
    PROVE  Inv' /\ KeepsEdits
<1> USE DEF Inv
<1>1. PICK m \in Mutations : m = MutationOf(what)
    BY DEF MutationOf, Mutations
<1>2. PICK c \in Configs \cup {NoConfig} : c = IF m = "save" THEN draft ELSE NoConfig
    BY DEF TypeOK
<1>3. PICK q \in Call : q = [what |-> what, phase |-> "sent", cfg |-> c, row |-> NoRow, removal |-> "none"]
    BY DEF Call, Removal
<1>4. calls' = [calls EXCEPT ![m] = q] /\ UNCHANGED <<record, page, queries, form, saved>>
    BY <1>1, <1>2, <1>3 DEF Send
<1>5. calls \in [Mutations -> Call] /\ "save" \in Mutations /\ q.phase = "sent"
    BY <1>3 DEF TypeOK, Mutations
<1>6. calls' \in [Mutations -> Call] /\ (calls'["save"] = calls["save"] \/ calls'["save"].phase # "ok")
    BY <1>4, <1>5
<1>8. m = "save" => q.cfg \in Configs
    BY <1>2, <1>3 DEF TypeOK
<1>9. SaveInv'
    BY <1>4, <1>5, <1>8 DEF SaveInv
<1>7. RecordOK' /\ RecordInv' /\ Aged
    BY <1>4, RecordQuiet
<1> QED
    BY <1>4, <1>6, <1>7, <1>9, PageQuiet

\* An answered mutation other than a save, or one that failed.
LEMMA Answering ==
    ASSUME TypeOK, NEW m \in Mutations, Answers(m), site' \in Row \cup {NoRow}, removal' \in Removal
    PROVE  /\ calls' \in [Mutations -> Call]
           /\ m # "save" => calls'["save"] = calls["save"]
           /\ m = "save" => calls'["save"].row = site' /\ calls'["save"].phase = "ok"
<1>1. calls \in [Mutations -> Call] /\ calls[m] \in Call /\ "save" \in Mutations
    BY DEF TypeOK, Mutations
<1>2. calls[m].what \in Whats \cup {"none"} /\ calls[m].cfg \in Configs \cup {NoConfig}
    BY <1>1 DEF Call
<1>3. PICK w \in Whats \cup {"none"}, c \in Configs \cup {NoConfig} : w = calls[m].what /\ c = calls[m].cfg
    BY <1>2
<1>4. PICK r \in Row \cup {NoRow}, d \in Removal :
        r = (IF m = "save" THEN site' ELSE NoRow) /\ d = (IF m = "delete" THEN removal' ELSE "none")
    BY DEF Removal
<1>5. PICK q \in Call : q = [what |-> w, phase |-> "ok", cfg |-> c, row |-> r, removal |-> d]
    BY DEF Call
<1>6. calls' = [calls EXCEPT ![m] = q] /\ q.row = r /\ q.phase = "ok"
    BY <1>3, <1>4, <1>5 DEF Answers
<1> QED
    BY <1>1, <1>4, <1>6

\* A mutation that ends leaves its place empty.
LEMMA Clearing ==
    ASSUME TypeOK, NEW m \in Mutations, calls' = [calls EXCEPT ![m] = NoCall]
    PROVE  /\ calls' \in [Mutations -> Call]
           /\ calls'["save"] \in {calls["save"], NoCall}
<1>1. calls \in [Mutations -> Call] /\ "save" \in Mutations
    BY DEF TypeOK, Mutations
<1> QED
    BY <1>1, Blank

\* A save is stored.
LEMMA ServeSaveStep ==
    ASSUME Inv, ServeSave
    PROVE  Inv' /\ KeepsEdits
<1> USE DEF Inv
<1>1. PICK c \in Configs : c = calls["save"].cfg
    BY DEF ServeSave, SaveInv
<1>2. /\ UpdateSite(c) \/ CreateSite(c)
      /\ Answers("save")
      /\ UNCHANGED <<task, removal, cert, page, queries, form, saved>>
    BY <1>1 DEF ServeSave
<1>3. RecordOK' /\ RecordInv' /\ Aged
    BY <1>2, RecordUpdate
<1>4. Tick /\ site' = Stored(c, FALSE, FALSE)
    BY <1>2 DEF UpdateSite, CreateSite
<1>5. now \in 0..MaxChanges /\ now' \in 0..MaxChanges /\ now < now' /\ now \in Nat /\ now' \in Nat
    BY <1>4, Ticks DEF TypeOK
<1>6. site' \in Row /\ site'.updated = now'
    BY <1>4, <1>5, Storing
<1>7. /\ calls' \in [Mutations -> Call] /\ calls'["save"].row = site' /\ calls'["save"].phase = "ok"
    BY <1>2, <1>3, <1>6, Answering DEF RecordOK, Mutations
<1>8. PageOK' /\ FlagsOK'
    BY <1>2, <1>7, Types DEF PageOK, FlagsOK, queries, form
<1>9. DateInv'
    <2>1. saved \in Nat /\ saved <= now /\ saved' = saved /\ flight' = flight /\ shown' = shown
        BY <1>2, EditorAssumption DEF DateInv, TypeOK, queries
    <2>2. \A r \in {flight, shown} : Present(r) => saved <= r.updated
        BY DEF DateInv
    <2> QED
        BY <1>5, <1>6, <1>7, <2>1, <2>2 DEF DateInv
<1>10. FormInv' /\ SaveInv' /\ KeepsEdits
    BY <1>2, <1>7 DEF FormInv, SaveInv, KeepsEdits, form
<1> QED
    BY <1>3, <1>8, <1>9, <1>10, TypesKept

\* The server answers an operation or the deletion.
LEMMA ServeOtherStep ==
    ASSUME Inv, ServeOperation \/ ServeDelete
    PROVE  Inv' /\ KeepsEdits
<1> USE DEF Inv
<1>1. /\ UNCHANGED <<page, queries, form, saved>> /\ {"operation", "delete"} \subseteq Mutations
      /\ removal \in Removal /\ cert \in BOOLEAN
    BY DEF ServeOperation, ServeDelete, Mutations, TypeOK
<1>2. ASSUME RecordOK', RecordInv', Aged, NEW m \in Mutations, m # "save",
             Answers(m) \/ calls' = [calls EXCEPT ![m] = NoCall]
      PROVE  Inv' /\ KeepsEdits
    <2>1. site' \in Row \cup {NoRow} /\ removal' \in Removal
        BY <1>2 DEF RecordOK
    <2>2. calls' \in [Mutations -> Call] /\ calls'["save"] \in {calls["save"], NoCall}
        BY <1>2, <2>1, Answering, Clearing
    <2>3. calls'["save"] = calls["save"] \/ calls'["save"].phase # "ok"
        BY <2>2, Blank
    <2>4. SaveInv'
        BY <2>2, Blank DEF SaveInv
    <2> QED
        BY <1>1, <1>2, <2>2, <2>3, <2>4, PageQuiet
<1>3. CASE PublishSite /\ Answers("operation") /\ UNCHANGED <<removal, cert>>
    <2>1. RecordOK' /\ RecordInv' /\ Aged
        BY <1>3, RecordPublish
    <2> QED
        BY <1>1, <1>2, <1>3, <2>1
<1>4. CASE UpdateSite(site.cfg) /\ calls' = [calls EXCEPT !["operation"] = NoCall] /\ UNCHANGED <<task, removal, cert>>
    <2>1. PICK c \in Configs : c = site.cfg
        BY <1>4, Rows DEF UpdateSite, TypeOK
    <2>2. UpdateSite(c) /\ UNCHANGED <<task, removal, cert>>
        BY <1>4, <2>1
    <2>3. RecordOK' /\ RecordInv' /\ Aged
        BY <2>2, RecordUpdate
    <2> QED
        BY <1>1, <1>2, <1>4, <2>3
<1>5. CASE cert' = TRUE /\ Answers("operation") /\ UNCHANGED <<site, task, removal, now>>
    <2>1. cert' \in BOOLEAN
        BY <1>5
    <2>2. RecordOK' /\ RecordInv'
        BY <1>5, <2>1 DEF TypeOK, RecordOK, RecordInv
    <2>3. Aged
        BY <1>5 DEF Aged, TypeOK
    <2> QED
        BY <1>1, <1>2, <1>5, <2>2, <2>3
<1>6. CASE ServeDelete
    <2>1. RecordOK' /\ RecordInv' /\ Aged
        BY <1>6, RecordDelete DEF ServeDelete
    <2>2. Answers("delete") \/ calls' = [calls EXCEPT !["delete"] = NoCall]
        BY <1>6 DEF ServeDelete
    <2> QED
        BY <1>1, <1>2, <2>1, <2>2
<1> QED
    BY <1>3, <1>4, <1>5, <1>6 DEF ServeOperation

\* onSuccess of a save: the list under way is discarded.
LEMMA ReceiveSaveStep ==
    ASSUME Inv, ReceiveSave
    PROVE  Inv' /\ KeepsEdits
<1> USE DEF Inv
<1>1. PICK row \in Row : row = calls["save"].row
    BY DEF ReceiveSave, DateInv
<1>2. /\ draft' = row.cfg /\ baseline' = row.cfg /\ loadedKey' = "site" /\ page' = "detail"
      /\ shown' \in {NoList, row} /\ flight' = NoList /\ due' = TRUE /\ saved' = row.updated
      /\ calls' = [calls EXCEPT !["save"] = NoCall] /\ UNCHANGED <<record, publish, tls, deletion>>
    BY <1>1 DEF ReceiveSave, Invalidate
<1>3. RecordOK' /\ RecordInv'
    BY <1>2, RecordQuiet
<1>4. calls' \in [Mutations -> Call] /\ calls'["save"] = NoCall
    BY <1>2, Clearing DEF Mutations, TypeOK
<1>5. row.cfg \in Configs /\ row.updated \in 0..MaxChanges
    BY Rows
<1>6. PageOK'
    BY <1>2, <1>4, <1>5, Types DEF PageOK
<1>7. FlagsOK'
    BY <1>2 DEF TypeOK, FlagsOK
<1>8. row.updated <= now /\ (Present(site) => row.updated <= site.updated) /\ UNCHANGED <<site, now>>
    BY <1>1, <1>2 DEF ReceiveSave, DateInv, record
<1>9. DateInv'
    BY <1>2, <1>4, <1>5, <1>8, Blank, Rows DEF DateInv
<1>10. FormInv' /\ SaveInv' /\ KeepsEdits
    BY <1>2, <1>4, Blank DEF FormInv, SaveInv, KeepsEdits
<1> QED
    BY <1>3, <1>6, <1>7, <1>9, <1>10, TypesKept

\* The other answers, and requests or answers that are lost.
LEMMA ReceiveStep ==
    ASSUME Inv, ReceiveOperation \/ ReceiveDelete \/ FailCall
    PROVE  Inv' /\ KeepsEdits
<1> USE DEF Inv
<1>1. ASSUME NEW m \in Mutations, calls' = [calls EXCEPT ![m] = NoCall], deletion' \in Deletion,
             flight' \in {flight, NoList}, due' \in BOOLEAN,
             UNCHANGED <<record, page, shown, publish, tls, form, saved>>
      PROVE  Inv' /\ KeepsEdits
    <2>1. calls' \in [Mutations -> Call] /\ calls'["save"] \in {calls["save"], NoCall}
        BY <1>1, Clearing
    <2>2. PageOK' /\ FormInv'
        BY <1>1, <2>1 DEF form, TypeOK, PageOK, FormInv
    <2>3. FlagsOK'
        BY <1>1 DEF TypeOK, FlagsOK
    <2> QED
        BY <1>1, <2>1, <2>2, <2>3, PageStep DEF form, KeepsEdits
<1>2. CASE ReceiveOperation
    <2>1. "operation" \in Mutations /\ calls' = [calls EXCEPT !["operation"] = NoCall] /\ flight' = NoList
        BY <1>2 DEF ReceiveOperation, Invalidate, Mutations
    <2>2. deletion' \in Deletion /\ UNCHANGED <<record, page, shown, publish, tls, form, saved>>
        BY <1>2 DEF ReceiveOperation, TypeOK
    <2>3. due' \in BOOLEAN
        BY <1>2 DEF ReceiveOperation, Invalidate
    <2> QED
        BY <1>1, <2>1, <2>2, <2>3
<1>3. CASE ReceiveDelete /\ calls["delete"].removal = "succeeded"
    BY <1>3, LeaveStep DEF ReceiveDelete
<1>4. CASE ReceiveDelete /\ calls["delete"].removal # "succeeded"
    <2>1. /\ "delete" \in Mutations /\ calls' = [calls EXCEPT !["delete"] = NoCall] /\ flight' = NoList
          /\ deletion' = calls["delete"].removal
          /\ UNCHANGED <<record, page, shown, publish, tls, form, saved>>
        BY <1>4 DEF ReceiveDelete, Invalidate, Mutations
    <2>2. calls["delete"] \in Call
        BY <2>1 DEF TypeOK
    <2>3. deletion' \in Deletion
        BY <2>1, <2>2 DEF Call, Deletion
    <2>4. due' \in BOOLEAN
        BY <1>4 DEF ReceiveDelete, Invalidate
    <2> QED
        BY <1>1, <2>1, <2>3, <2>4
<1>5. CASE FailCall
    <2>1. PICK m \in Mutations : calls' = [calls EXCEPT ![m] = NoCall]
        BY <1>5 DEF FailCall
    <2>2. UNCHANGED <<record, page, shown, flight, due, publish, tls, deletion, form, saved>>
        BY <1>5 DEF FailCall, queries
    <2>3. due' \in BOOLEAN
        BY <2>2 DEF TypeOK
    <2>4. deletion' \in Deletion
        BY <2>2 DEF TypeOK
    <2> QED
        BY <1>1, <2>1, <2>2, <2>3, <2>4
<1> QED
    BY <1>2, <1>3, <1>4, <1>5

-----------------------------------------------------------------------------

\* A new site, or one that the page has not read yet.
LEMMA InitInv == Init => Inv
<1> SUFFICES ASSUME Init PROVE Inv
    OBVIOUS
<1>1. site \in Row \cup {NoRow} /\ page \in {"new", "detail"} /\ now = 0 /\ (Present(site) => site.updated = 0)
    BY Rows DEF Init
<1>2. RecordOK
    <2>1. cert \in BOOLEAN
        BY DEF Init
    <2>2. task \in Task \cup {NoTask} /\ removal \in Removal /\ 0 \in 0..MaxChanges
        BY EditorAssumption DEF Init, Removal
    <2> QED
        BY <1>1, <2>1, <2>2 DEF RecordOK
<1>3. PageOK
    BY <1>1, Blank, EditorAssumption DEF Init, PageOK, Deletion, Removal
<1>4. FlagsOK
    BY DEF Init, FlagsOK
<1>5. TypeOK
    BY <1>2, <1>3, <1>4 DEF TypeOK, RecordOK, PageOK, FlagsOK
<1>6. RecordInv
    BY <1>1 DEF Init, RecordInv
<1>7. calls["save"] = NoCall
    BY DEF Init, NoCalls, Mutations
<1>8. DateInv /\ SaveInv
    BY <1>1, <1>7, Rows, Blank DEF Init, DateInv, SaveInv
<1>9. FormInv
    BY <1>1 DEF Init, FormInv
<1> QED
    BY <1>5, <1>6, <1>8, <1>9 DEF Inv

\* Every step keeps the invariant and the edits.
LEMMA StepInv ==
    ASSUME Inv, [Next]_vars
    PROVE  Inv' /\ KeepsEdits
<1> USE DEF Inv
<1>1. ASSUME calls' = calls PROVE calls' \in [Mutations -> Call] /\ SaveInv'
    BY <1>1 DEF TypeOK, SaveInv
<1>2. CASE EndTask \/ EndCertificate \/ EndDeletion \/ OtherConsole
    <2>1. RecordOK' /\ RecordInv' /\ Aged
        BY <1>2, RecordAlone
    <2>2. UNCHANGED <<page, queries, form, calls, saved>>
        BY <1>2 DEF EndTask, EndCertificate, EndDeletion, OtherConsole
    <2> QED
        BY <1>1, <2>1, <2>2, PageQuiet
<1>3. CASE UNCHANGED vars
    <2>1. RecordOK' /\ RecordInv' /\ Aged
        BY <1>3, RecordQuiet DEF vars
    <2> QED
        BY <1>1, <1>3, <2>1, PageQuiet DEF vars
<1>4. CASE SendSites \/ ReceiveSites \/ LoseSites \/ PollPublish \/ PollTLS \/ LoseDeletion
    BY <1>4, QueryStep
<1>5. CASE Edit \/ GoBack \/ PollDeletion
    BY <1>5, FormStep
<1>6. ASSUME NEW what \in Whats, Send(what) PROVE Inv' /\ KeepsEdits
    BY <1>6, SendStep
<1>7. CASE ServeSave \/ ServeOperation \/ ServeDelete
    BY <1>7, ServeSaveStep, ServeOtherStep
<1>8. CASE ReceiveSave \/ ReceiveOperation \/ ReceiveDelete \/ FailCall
    BY <1>8, ReceiveSaveStep, ReceiveStep
<1> QED
    BY <1>2, <1>3, <1>4, <1>5, <1>6, <1>7, <1>8 DEF Next

\* The invariant holds throughout.
LEMMA Invariance == Spec => []Inv
<1>1. Inv /\ [Next]_vars => Inv'
    BY StepInv
<1> QED
    BY <1>1, InitInv, PTL DEF Spec

\* The page never shows a site older than the one its last save stored: the
\* answer of a save discards the list that is under way (site-detail-page.tsx,
\* onSuccess of save).
THEOREM SaveIsNotUndone == Spec => []CacheNeverOlderThanSave
<1>1. Inv => CacheNeverOlderThanSave
    <2>1. ASSUME Inv, Present(shown) PROVE shown.updated >= saved
        <3>1. shown \in Row /\ saved \in 0..MaxChanges /\ saved <= shown.updated
            BY <2>1, Rows DEF Inv, TypeOK, DateInv
        <3> QED
            BY <3>1, Rows
    <2> QED
        BY <2>1 DEF CacheNeverOlderThanSave
<1> QED
    BY <1>1, Invariance, PTL

\* With an up-to-date cache the publication shown as ended is one of the
\* configuration shown, however drafts, publications, certificates and
\* deletions have followed each other (taskMatchesCurrentSite).
THEOREM EndedTaskMatches == Spec => []EndedTaskIsOfThisConfig
<1>1. Inv => EndedTaskIsOfThisConfig
    BY DEF Inv, RecordInv, EndedTaskIsOfThisConfig, taskMatchesCurrentSite
<1> QED
    BY <1>1, Invariance, PTL

\* No step but an edit and the answer of a save replaces unsaved edits: the
\* effect that fills the form runs once for a page (loadedKey).
THEOREM EditsAreKept == Spec => OnlySaveReplacesEdits
<1>1. Inv /\ [Next]_vars => KeepsEdits
    BY StepInv
<1>2. Spec => [][KeepsEdits]_vars
    BY <1>1, Invariance, PTL DEF Spec
<1> QED
    BY <1>2 DEF OnlySaveReplacesEdits, KeepsEdits
=============================================================================
