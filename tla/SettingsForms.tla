--------------------------- MODULE SettingsForms ---------------------------
(***************************************************************************)
(* One form of the console's settings (settings-page.tsx, and the two      *)
(* node forms of node-detail-page.tsx that are built the same way) during  *)
(* one visit, against the settings manager of the control plane            *)
(* (internal/control/settings.go).  The page reads the settings once, on a *)
(* press of the refresh button and after its own saves; other              *)
(* administrators change them meanwhile.  A form copies the settings into  *)
(* its own state when React mounts it, and React mounts it anew when the   *)
(* key built from the settings changes.                                    *)
(*                                                                         *)
(* A section of the settings is abstracted to the fields named by the key  *)
(* ("keyed"), the secret (0 when there is none; every secret typed is a    *)
(* new one), and whether the database overrides the environment ("db").    *)
(* Of the other fields only the e-mail user name decides anything here,    *)
(* what becomes of the password: a save has one or has none.               *)
(***************************************************************************)
EXTENDS Naturals

CONSTANTS
    Values,       \* the values of a group of fields, 0 among them
    MaxSaves,     \* bound: requests under way, orphans of old instances too
    MaxChanges    \* bound: secrets typed and changes by others, together

ASSUME SettingsAssumption == 0 \in Values /\ MaxChanges \in Nat

VARIABLES
    form,       \* the form visited
    stored,     \* the section in the settings manager
    settings,   \* the section as the page last read it (query ["settings"])
    fetch,      \* the read of the settings under way
    values,     \* the state of the mounted form
    touched,    \* the administrator edited the mounted form
    saves,      \* the mutations under way, and whether their form is mounted
    typed,      \* secrets typed so far
    acked,      \* the newest secret whose save the page saw succeed
    changes     \* changes by other administrators so far

settingsVars == <<form, stored, settings, fetch, values, touched, saves,
                  typed, acked, changes>>
-----------------------------------------------------------------------------
(***************************************************************************)
(* The forms.  "fields" are the groups of fields with an input; "override" *)
(* says that the section has an environment fallback, a test button and a  *)
(* reset button; "secret" says when saving needs one; "inPlace" that the   *)
(* form has no key and copies the settings again in an effect.             *)
(***************************************************************************)
DNSForm == [fields |-> {"keyed"}, override |-> FALSE, secret |-> "none",
            inPlace |-> FALSE]

CacheForm == [fields |-> {"keyed"}, override |-> FALSE, secret |-> "none",
              inPlace |-> FALSE]

CacheQuotaSettings == [fields |-> {"keyed"}, override |-> FALSE,
                       secret |-> "none", inPlace |-> FALSE]

NginxCapacitySettings == [fields |-> {"keyed"}, override |-> FALSE,
                          secret |-> "none", inPlace |-> FALSE]

BrandingForm == [fields |-> {"keyed"}, override |-> FALSE, secret |-> "none",
                 inPlace |-> TRUE]

CloudflareForm == [fields |-> {}, override |-> TRUE, secret |-> "always",
                   inPlace |-> FALSE]

\* The inputs of the e-mail form: host, port and categories are in its key,
\* the switch, security, user name, sender and recipients are not.
SMTPInputs == {"keyed"}

SMTPForm == [fields |-> SMTPInputs, override |-> TRUE, secret |-> "for user",
             inPlace |-> FALSE]

\* The inputs of the backup form: only the repository is in its key.
BackupInputs == {"keyed"}

BackupForm == [fields |-> BackupInputs, override |-> TRUE,
               secret |-> "unless stored", inPlace |-> FALSE]

\* The cache, quota and capacity forms have the record of the DNS form.
Forms == {DNSForm, CacheForm, CacheQuotaSettings, NginxCapacitySettings,
          BrandingForm, CloudflareForm, SMTPForm, BackupForm}

\* Mutant: a key without the fields of the form.
ReactKeySource(v) == <<form.override /\ v.db, v.configured>>

\* The key React tells the instances of a form apart by.
ReactKey(v) ==
    <<v.keyed, form.override /\ v.db, form.fields = {} /\ v.configured>>

\* Of a stored secret only whether there is one, as in GET /api/settings.
Section == [db: BOOLEAN, keyed: Values, configured: BOOLEAN]
FormValues == [keyed: Values, secret: 0..MaxChanges]

\* The settings taken from the environment, which hold no secret here.
Environment == [db |-> FALSE, keyed |-> 0, configured |-> FALSE]

\* The state a form starts with.
initial(v) == [keyed |-> v.keyed, secret |-> 0]

\* A save without a secret keeps the one in use.
Resolved(s, d) == d.secret # 0 \/ s.configured

\* What SaveSMTP, SaveBackup, SaveCloudflareToken and the others accept.
Accepts(s, d, user) ==
    CASE form.secret = "always" -> d.secret # 0
      [] form.secret = "for user" -> user => Resolved(s, d)
      [] form.secret = "unless stored" -> Resolved(s, d)
      [] OTHER -> TRUE

\* What they store: without a user name SaveSMTP drops the password.
Saved(s, d, user) ==
    [db |-> form.override, keyed |-> d.keyed,
     configured |-> Resolved(s, d) /\ (form.secret = "for user" => user)]
-----------------------------------------------------------------------------
Slots == 1..MaxSaves
Free == [op |-> "none", body |-> initial(Environment), live |-> FALSE,
         handled |-> FALSE]
NoFetch == [phase |-> "idle", view |-> Environment]

SettingsInit ==
    /\ form \in Forms
    /\ stored = Environment
    /\ settings = Environment
    /\ fetch = NoFetch
    /\ values = initial(Environment)
    /\ touched = FALSE
    /\ saves = [i \in Slots |-> Free]
    /\ typed = 0
    /\ acked = 0
    /\ changes = 0

\* React unmounts the form and mounts it with the settings of view v: the
\* mutations of the old instance go on, and the new one does not know them.
Remount(v) ==
    /\ values' = initial(v)
    /\ touched' = FALSE
    /\ saves' = [i \in Slots |->
                      [saves[i] EXCEPT !.live = form.inPlace /\ @]]

\* New settings reach the page: a form with another key is mounted anew, the
\* branding form runs its effect when the branding has changed.
Show(v) ==
    /\ settings' = v
    /\ IF ReactKey(v) # ReactKey(settings)
       THEN Remount(v)
       ELSE UNCHANGED <<values, touched, saves>>
-----------------------------------------------------------------------------
(***************************************************************************)
(* The administrator.                                                      *)
(***************************************************************************)
EditField(group, x) ==
    /\ group \in form.fields
    /\ x # values[group]
    /\ values' = [values EXCEPT ![group] = x]
    /\ touched' = TRUE
    /\ UNCHANGED <<form, stored, settings, fetch, saves, typed, acked, changes>>

EditSecret ==
    /\ form.secret # "none"
    /\ typed + changes < MaxChanges
    /\ typed' = typed + 1
    /\ values' = [values EXCEPT !.secret = typed']
    /\ touched' = TRUE
    /\ UNCHANGED <<form, stored, settings, fetch, saves, acked, changes>>

busy == \E i \in Slots: saves[i].live

\* The inputs' required attributes and the disabled conditions of the buttons.
CanSubmit(op) ==
    /\ ~busy
    /\ op # "save" => form.override
    /\ op = "reset" => settings.db
    /\ op = "save" /\ form.secret = "always" => values.secret # 0
    /\ op = "save" /\ form.secret = "unless stored" =>
           settings.configured \/ values.secret # 0
    /\ op = "test" /\ form.secret = "always" =>
           settings.configured \/ values.secret # 0

\* save.mutate(), test.mutate() or reset.mutate().
Submit(op) ==
    /\ CanSubmit(op)
    /\ \E i \in Slots:
         /\ saves[i] = Free
         /\ \A j \in 1..(i - 1): saves[j] # Free
         /\ saves' = [saves EXCEPT ![i] =
                           [op |-> op, live |-> TRUE, handled |-> FALSE,
                            body |-> IF op = "save" THEN values ELSE Free.body]]
    /\ UNCHANGED <<form, stored, settings, fetch, values, touched, typed, acked,
                   changes>>

\* Another tab of the page and back: the form is mounted anew.
SwitchTab ==
    /\ values' = initial(settings)
    /\ touched' = FALSE
    /\ saves' = [i \in Slots |-> [saves[i] EXCEPT !.live = FALSE]]
    /\ UNCHANGED <<form, stored, settings, fetch, typed, acked, changes>>

\* The refresh button: refetch cancels a read under way and starts another.
Refresh ==
    /\ fetch' = [NoFetch EXCEPT !.phase = "sent"]
    /\ UNCHANGED <<form, stored, settings, values, touched, saves, typed,
                   acked, changes>>
-----------------------------------------------------------------------------
(***************************************************************************)
(* The control plane and the network.                                      *)
(***************************************************************************)
Pending(i, op) == saves[i].op = op /\ ~saves[i].handled

\* The answer holds the section; only the branding form reads it.
Handled(i) ==
    saves' = [saves EXCEPT ![i] =
        [op |-> @.op, live |-> @.live, handled |-> TRUE,
         body |-> IF form.inPlace THEN @.body
                  ELSE [Free.body EXCEPT !.secret = saves[i].body.secret]]]

\* PUT: the section is stored.
HandleSave(i) ==
    /\ Pending(i, "save")
    /\ \E user \in BOOLEAN:
         /\ Accepts(stored, saves[i].body, user)
         /\ stored' = Saved(stored, saves[i].body, user)
    /\ Handled(i)
    /\ UNCHANGED <<form, settings, fetch, values, touched, typed, acked, changes>>

\* DELETE: the section falls back to the environment.
HandleReset(i) ==
    /\ Pending(i, "reset")
    /\ stored' = Environment
    /\ Handled(i)
    /\ UNCHANGED <<form, settings, fetch, values, touched, typed, acked, changes>>

\* Mutant: a done() that leaves the secret in the form.
doneSecretKept == values.secret

\* The secret of the form when done() ran in it.
doneSecret == 0

\* done(): the settings are invalidated, which cancels a read under way and
\* starts another, and the secret inputs of the mounted form are emptied.
ReceiveDone(i) ==
    /\ saves[i].handled
    /\ ~form.inPlace
    /\ fetch' = [NoFetch EXCEPT !.phase = "sent"]
    /\ values' = IF saves[i].live
                THEN [values EXCEPT !.secret = doneSecret]
                ELSE values
    /\ acked' = IF saves[i].op = "save" /\ saves[i].body.secret > acked
                THEN saves[i].body.secret
                ELSE acked
    /\ saves' = [saves EXCEPT ![i] = Free]
    /\ UNCHANGED <<form, stored, settings, touched, typed, changes>>

\* The branding form writes the answer into the cache; a read under way is
\* not cancelled.
ReceiveBranding(i) ==
    /\ saves[i].handled /\ form.inPlace
    /\ settings' = [settings EXCEPT !.keyed = saves[i].body.keyed]
    /\ saves' = [saves EXCEPT ![i] = Free]
    /\ IF settings' # settings
       THEN values' = initial(settings') /\ touched' = FALSE
       ELSE UNCHANGED <<values, touched>>
    /\ UNCHANGED <<form, stored, fetch, typed, acked, changes>>

\* A test that ended, a request that was refused, or one whose answer was
\* lost before or after the control plane handled it: a message, and idle.
ReceiveOther(i) ==
    /\ saves[i] # Free
    /\ saves' = [saves EXCEPT ![i] = Free]
    /\ UNCHANGED <<form, stored, settings, fetch, values, touched, typed, acked,
                   changes>>

ReadSettings ==
    /\ fetch.phase = "sent"
    /\ fetch' = [phase |-> "read", view |-> stored]
    /\ UNCHANGED <<form, stored, settings, values, touched, saves, typed,
                   acked, changes>>

ReceiveSettings ==
    /\ fetch.phase = "read"
    /\ fetch' = NoFetch
    /\ Show(fetch.view)
    /\ UNCHANGED <<form, stored, typed, acked, changes>>

FetchFails ==
    /\ fetch.phase # "idle"
    /\ fetch' = NoFetch
    /\ UNCHANGED <<form, stored, settings, values, touched, saves, typed,
                   acked, changes>>

\* Another administrator saves or resets the section.
OtherAdmin ==
    /\ typed + changes < MaxChanges
    /\ changes' = changes + 1
    /\ \/ \E x \in Values, user \in BOOLEAN:
            LET d == [keyed |-> IF form.fields = {} THEN 0 ELSE x, secret |-> 0]
            IN  /\ Accepts(stored, d, user)
                /\ stored' = Saved(stored, d, user)
       \/ form.override /\ stored' = Environment
    /\ UNCHANGED <<form, settings, fetch, values, touched, saves, typed, acked>>

SettingsNext ==
    \/ \E group \in {"keyed"}, x \in Values: EditField(group, x)
    \/ EditSecret
    \/ \E op \in {"save", "test", "reset"}: Submit(op)
    \/ SwitchTab
    \/ Refresh
    \/ \E i \in Slots:
         \/ HandleSave(i) \/ HandleReset(i)
         \/ ReceiveDone(i) \/ ReceiveBranding(i) \/ ReceiveOther(i)
    \/ ReadSettings
    \/ ReceiveSettings
    \/ FetchFails
    \/ OtherAdmin

-----------------------------------------------------------------------------
SettingsTypeOK ==
    /\ form \in Forms
    /\ stored \in Section
    /\ settings \in Section
    /\ fetch \in [phase: {"idle", "sent", "read"}, view: Section]
    /\ values \in FormValues
    /\ touched \in BOOLEAN
    /\ saves \in [Slots -> [op: {"none", "save", "test", "reset"},
                               body: FormValues, live: BOOLEAN,
                               handled: BOOLEAN]]
    /\ typed \in 0..MaxChanges
    /\ acked \in 0..MaxChanges
    /\ changes \in 0..MaxChanges

(***************************************************************************)
(* A form nobody has edited shows the settings the page last read, for the *)
(* fields its key or its effect names, whatever reads, saves of old        *)
(* instances and changes of others came in between: a save without an edit *)
(* writes no older value back.                                             *)
(***************************************************************************)
UntouchedFormFollows == ~touched => values.keyed = settings.keyed

(***************************************************************************)
(* A secret whose save the page has seen succeed is out of the form, so no *)
(* later save or test sends it again, also when saves of an unmounted      *)
(* instance end late and after resets in between (done()).                 *)
(***************************************************************************)
AcknowledgedSecretNotResent == values.secret # 0 => values.secret > acked
=============================================================================
