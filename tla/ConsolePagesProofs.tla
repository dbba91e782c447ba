------------------------- MODULE ConsolePagesProofs -------------------------
(***************************************************************************)
(* What holds of the pages of ConsolePages for any values, secrets,        *)
(* requests and targets.  A visit of a page is a behaviour of its own      *)
(* specification, so each part of this module proves an inductive          *)
(* invariant of one page and then lifts it to the visits.                  *)
(*                                                                         *)
(* What a list, a page of a search or a text holds rests on counting: the  *)
(* elements of a finite set that have different places from 1 up to their  *)
(* number fill all of them, so that no place is empty or taken twice.      *)
(***************************************************************************)
EXTENDS ConsolePages, FiniteSetTheorems, TLAPS

\* A visit of one page is a behaviour of that page's specification.
LEMMA VisitsAreSteps ==
    [PageNext]_pageVars =>
        /\ [Next]_vars
        /\ [SettingsNext]_settingsVars
        /\ [SecurityNext]_securityVars
        /\ [MessageNext]_messageVars
        /\ [MonitoringNext]_monitoringVars
        /\ [LogsNext]_logVars
<1> SUFFICES ASSUME [PageNext]_pageVars
             PROVE  /\ [Next]_vars
                    /\ [SettingsNext]_settingsVars
                    /\ [SecurityNext]_securityVars
                    /\ [MessageNext]_messageVars
                    /\ [MonitoringNext]_monitoringVars
                    /\ [LogsNext]_logVars
  OBVIOUS
<1>1. CASE VisitSite
  BY <1>1 DEF VisitSite
<1>2. CASE VisitSettings
  BY <1>2 DEF VisitSettings
<1>3. CASE VisitSecurity
  BY <1>3 DEF VisitSecurity
<1>4. CASE VisitMessages
  BY <1>4 DEF VisitMessages
<1>5. CASE VisitMonitoring
  BY <1>5 DEF VisitMonitoring
<1>6. CASE VisitLogs
  BY <1>6 DEF VisitLogs
<1>7. CASE UNCHANGED pageVars
  BY <1>7 DEF pageVars
<1> QED
  BY <1>1, <1>2, <1>3, <1>4, <1>5, <1>6, <1>7 DEF PageNext

-----------------------------------------------------------------------------
\* Counting.

\* A finite set whose elements have different places among the first numbers
\* has an element at each of them.
LEMMA Numbered ==
    ASSUME NEW S, IsFiniteSet(S), NEW place \in [S -> Nat \ {0}],
           \A x \in S : place[x] <= Cardinality(S),
           \A x, y \in S : place[x] = place[y] => x = y
    PROVE  \A n \in 1 .. Cardinality(S) : \E x \in S : place[x] = n
<1> DEFINE N == 1 .. Cardinality(S)
<1>1. Cardinality(S) \in Nat
  BY FS_CardinalityType
<1>2. IsFiniteSet(N) /\ Cardinality(N) = Cardinality(S)
  BY <1>1, FS_Interval
<1>3. place \in [S -> N]
  BY <1>1
<1>4. place \in Injection(S, N)
  BY <1>3 DEF Injection, IsInjective
<1>5. place \in Surjection(S, N)
  BY <1>2, <1>4, FS_Injection
<1> QED
  BY <1>5 DEF Surjection

\* The first n numbers are n.
LEMMA FirstNumbers ==
    ASSUME NEW n \in Nat
    PROVE  IsFiniteSet(1 .. n) /\ Cardinality(1 .. n) = n
<1>1. IsFiniteSet(1 .. n) /\ Cardinality(1 .. n) = IF 1 > n THEN 0 ELSE n - 1 + 1
  BY FS_Interval
<1> QED
  BY <1>1

\* A multiple leaves no rest.
LEMMA Multiple ==
    ASSUME NEW P \in Nat \ {0}, NEW q \in Nat
    PROVE  (P * q) % P = 0
  OBVIOUS

\* The multiples before and after one.
LEMMA NextMultiple ==
    ASSUME NEW P \in Nat \ {0}, NEW k \in Nat
    PROVE  /\ P * k \in Nat /\ P * k + P = P * (k + 1) /\ P * 0 = 0
           /\ P * k > P => P * k - P = P * (k - 1) /\ k - 1 \in Nat
  OBVIOUS

\* The page, of P entries, that a position is on.
LEMMA PageOfPosition ==
    ASSUME NEW P \in Nat \ {0}, NEW r \in Nat \ {0}, NEW k \in Nat, r <= P * k + P
    PROVE  \E q \in Nat : /\ P * q \in Nat /\ (P * q) % P = 0
                          /\ P * q < r /\ r <= P * q + P /\ P * q <= P * k
<1> DEFINE q == (r - 1) \div P
<1>1. q \in Nat /\ r - 1 = P * q + ((r - 1) % P) /\ (r - 1) % P \in 0 .. P - 1
  OBVIOUS
<1> HIDE DEF q
<1>2. P * q \in Nat /\ P * k \in Nat
  BY <1>1
<1>3. P * q < r /\ r <= P * q + P
  BY <1>1, <1>2
<1>4. P * q < P * k + P
  BY <1>2, <1>3
<1>5. q <= k
  BY <1>1, <1>4
<1>6. P * q <= P * k
  BY <1>1, <1>5
<1>7. (P * q) % P = 0
  BY <1>1, Multiple
<1> QED
  BY <1>1, <1>2, <1>3, <1>6, <1>7

-----------------------------------------------------------------------------
\* The settings.

\* The form, the page and the requests, as far as keys and secrets go.
SettingsTypes ==
    /\ form \in Forms
    /\ settings \in Section /\ stored \in Section
    /\ fetch \in [phase: {"idle", "sent", "read"}, view: Section]
    /\ values \in [keyed: Values, secret: Nat]
    /\ typed \in Nat /\ acked \in Nat
    /\ saves \in [Slots -> [op: {"none", "save", "test", "reset"},
                            body: [keyed: Values, secret: Nat],
                            live: BOOLEAN, handled: BOOLEAN]]

\* Secrets are numbered in the order they are typed.  The secret in the form is
\* newer than every acknowledged one, and than those of the requests of forms
\* that are no longer mounted, whose success will acknowledge them without
\* emptying the form.
SecretsAreNew ==
    /\ values.secret <= typed
    /\ acked <= typed
    /\ \A i \in Slots : saves[i].body.secret <= typed
    /\ values.secret # 0 =>
        \A i \in Slots : ~saves[i].live => saves[i].body.secret < values.secret

SettingsInv ==
    /\ SettingsTypes
    /\ SecretsAreNew
    /\ UntouchedFormFollows
    /\ AcknowledgedSecretNotResent

\* What a form is.
LEMMA FormFlags ==
    ASSUME form \in Forms
    PROVE  form.override \in BOOLEAN /\ form.inPlace \in BOOLEAN
<1> DEFINE Flags(f) == f.override \in BOOLEAN /\ f.inPlace \in BOOLEAN
<1>1. Flags(DNSForm)
  BY DEF DNSForm
<1>2. Flags(CacheForm)
  BY DEF CacheForm
<1>3. Flags(CacheQuotaSettings)
  BY DEF CacheQuotaSettings
<1>4. Flags(NginxCapacitySettings)
  BY DEF NginxCapacitySettings
<1>5. Flags(BrandingForm)
  BY DEF BrandingForm
<1>6. Flags(CloudflareForm)
  BY DEF CloudflareForm
<1>7. Flags(SMTPForm)
  BY DEF SMTPForm
<1>8. Flags(BackupForm)
  BY DEF BackupForm
<1> QED
  BY <1>1, <1>2, <1>3, <1>4, <1>5, <1>6, <1>7, <1>8 DEF Forms

\* A save stores a section.
LEMMA SavedSection ==
    ASSUME form \in Forms, NEW s \in Section, NEW d, d.keyed \in Values,
           NEW user \in BOOLEAN
    PROVE  Saved(s, d, user) \in Section
<1> DEFINE c == Resolved(s, d) /\ (form.secret = "for user" => user)
<1>1. c \in BOOLEAN
  OBVIOUS
<1>2. Saved(s, d, user) = [db |-> form.override, keyed |-> d.keyed, configured |-> c]
  BY DEF Saved
<1> HIDE DEF c
<1> QED
  BY <1>1, <1>2, FormFlags DEF Section

\* The settings are empty at the start.
LEMMA SettingsInitial == SettingsInit => SettingsInv
<1> SUFFICES ASSUME SettingsInit PROVE SettingsInv
  OBVIOUS
<1>1. Environment \in Section /\ Free.body \in [keyed: Values, secret: Nat]
      /\ Free.body.secret = 0 /\ initial(Environment) = [keyed |-> 0, secret |-> 0]
  BY SettingsAssumption DEF Environment, Section, Free, initial
<1>2. Free \in [op: {"none", "save", "test", "reset"}, body: [keyed: Values, secret: Nat],
                live: BOOLEAN, handled: BOOLEAN]
  BY <1>1 DEF Free
<1>3. SettingsTypes
  BY <1>1, <1>2, SettingsAssumption DEF SettingsInit, SettingsTypes, NoFetch
<1> QED
  BY <1>1, <1>3
   DEF SettingsInit, SettingsInv, SecretsAreNew, UntouchedFormFollows,
       AcknowledgedSecretNotResent, Environment

\* Nothing of the invariant is about what is stored or read meanwhile.
LEMMA SettingsFrame ==
    ASSUME SettingsInv, UNCHANGED <<form, values, touched, settings, saves, typed, acked>>,
           stored' \in Section, fetch' \in [phase: {"idle", "sent", "read"}, view: Section]
    PROVE  SettingsInv'
BY DEF SettingsInv, SettingsTypes, SecretsAreNew, UntouchedFormFollows,
       AcknowledgedSecretNotResent

\* What the requests may become without a new secret in the form: the body
\* keeps its secret or loses it, and the form that sent it stays mounted.
LEMMA RequestsStep ==
    ASSUME SettingsInv, UNCHANGED <<form, values, touched, settings, typed, acked>>,
           stored' \in Section, fetch' \in [phase: {"idle", "sent", "read"}, view: Section],
           NEW i \in Slots, NEW r, saves' = [saves EXCEPT ![i] = r],
           r \in [op: {"none", "save", "test", "reset"},
                  body: [keyed: Values, secret: Nat], live: BOOLEAN, handled: BOOLEAN],
           r.body.secret = 0 \/
             /\ r.body.secret \in {saves[i].body.secret, values.secret}
             /\ ~r.live => ~saves[i].live /\ r.body.secret = saves[i].body.secret
    PROVE  SettingsInv'
<1>1. /\ saves \in [Slots -> [op: {"none", "save", "test", "reset"},
                              body: [keyed: Values, secret: Nat],
                              live: BOOLEAN, handled: BOOLEAN]]
      /\ typed \in Nat /\ values \in [keyed: Values, secret: Nat]
  BY DEF SettingsInv, SettingsTypes
<1>2. saves'[i] = r /\ \A j \in Slots \ {i} : saves'[j] = saves[j]
  BY <1>1
<1>3. SettingsTypes'
  BY <1>1 DEF SettingsInv, SettingsTypes
<1>4. SecretsAreNew'
  BY <1>1, <1>2 DEF SettingsInv, SecretsAreNew
<1> QED
  BY <1>3, <1>4 DEF SettingsInv, UntouchedFormFollows, AcknowledgedSecretNotResent

\* A form mounted anew has no secret, and starts with what the page shows.
LEMMA MountStep ==
    ASSUME SettingsInv, settings' \in Section, values' = initial(settings'),
           UNCHANGED <<form, stored, typed, acked>>,
           fetch' \in [phase: {"idle", "sent", "read"}, view: Section],
           saves' \in [Slots -> [op: {"none", "save", "test", "reset"},
                                 body: [keyed: Values, secret: Nat],
                                 live: BOOLEAN, handled: BOOLEAN]],
           \A i \in Slots : saves'[i].body.secret \in {0, saves[i].body.secret}
    PROVE  SettingsInv'
<1>1. values' \in [keyed: Values, secret: Nat] /\ values'.secret = 0
      /\ values'.keyed = settings'.keyed
  BY DEF initial, Section
<1>2. SettingsTypes'
  BY <1>1 DEF SettingsInv, SettingsTypes
<1>3. SecretsAreNew'
  BY <1>1 DEF SettingsInv, SecretsAreNew, SettingsTypes
<1> QED
  BY <1>1, <1>2, <1>3 DEF SettingsInv, UntouchedFormFollows, AcknowledgedSecretNotResent

\* Every step of the page keeps the invariant.
LEMMA SettingsStep == SettingsInv /\ [SettingsNext]_settingsVars => SettingsInv'
<1> DEFINE Fetches == [phase: {"idle", "sent", "read"}, view: Section]
           Bodies == [keyed: Values, secret: Nat]
           Requests == [op: {"none", "save", "test", "reset"}, body: Bodies,
                        live: BOOLEAN, handled: BOOLEAN]
<1> SUFFICES ASSUME SettingsInv, [SettingsNext]_settingsVars
             PROVE  SettingsInv'
  OBVIOUS
<1>a. /\ form \in Forms
      /\ settings \in Section /\ stored \in Section /\ fetch \in Fetches
      /\ values \in Bodies /\ typed \in Nat /\ acked \in Nat /\ saves \in [Slots -> Requests]
  BY DEF SettingsInv, SettingsTypes
<1>b. /\ Environment \in Section /\ NoFetch \in Fetches /\ Free.body \in Bodies
      /\ Free \in Requests /\ Free.body.secret = 0 /\ [NoFetch EXCEPT !.phase = "sent"] \in Fetches
  BY SettingsAssumption DEF Environment, NoFetch, Section, Free, initial
<1>1. ASSUME NEW group \in {"keyed"}, NEW x \in Values, EditField(group, x)
      PROVE  SettingsInv'
  <2>1. values' = [values EXCEPT !.keyed = x] /\ touched' = TRUE
        /\ UNCHANGED <<form, stored, settings, fetch, saves, typed, acked>>
    BY <1>1 DEF EditField
  <2>2. values' \in Bodies /\ values'.secret = values.secret
    BY <1>a, <2>1
  <2> QED
    BY <2>1, <2>2 DEF SettingsInv, SettingsTypes, SecretsAreNew, UntouchedFormFollows,
           AcknowledgedSecretNotResent
<1>2. CASE EditSecret
  <2>1. values' = [values EXCEPT !.secret = typed + 1] /\ touched' = TRUE /\ typed' = typed + 1
        /\ UNCHANGED <<form, stored, settings, fetch, saves, acked>>
    BY <1>2 DEF EditSecret
  <2>2. values' \in Bodies /\ values'.secret = typed + 1
    BY <1>a, <2>1
  <2>3. SettingsTypes'
    BY <1>a, <2>1, <2>2 DEF SettingsTypes
  <2>4. SecretsAreNew' /\ AcknowledgedSecretNotResent'
    BY <1>a, <2>1, <2>2 DEF SettingsInv, SecretsAreNew, AcknowledgedSecretNotResent
  <2> QED
    BY <2>1, <2>3, <2>4 DEF SettingsInv, UntouchedFormFollows
<1>3. ASSUME NEW op \in {"save", "test", "reset"}, Submit(op)
      PROVE  SettingsInv'
  <2> DEFINE r == [op |-> op, live |-> TRUE, handled |-> FALSE,
                   body |-> IF op = "save" THEN values ELSE Free.body]
  <2>1. PICK i \in Slots : saves' = [saves EXCEPT ![i] = r]
    BY <1>3 DEF Submit
  <2>2. r \in Requests /\ r.live /\ r.body.secret \in {0, values.secret}
    BY <1>a, <1>b
  <2> HIDE DEF r
  <2> QED
    BY <1>3, <1>a, <2>1, <2>2, RequestsStep DEF Submit
<1>4. CASE SwitchTab
  <2>a. saves' = [i \in Slots |-> [saves[i] EXCEPT !.live = FALSE]]
    BY <1>4 DEF SwitchTab
  <2>b. ASSUME NEW i \in Slots
        PROVE  saves'[i] \in Requests /\ saves'[i].body = saves[i].body
    BY <1>a, <2>a
  <2>1. saves' \in [Slots -> Requests] /\ \A i \in Slots : saves'[i].body = saves[i].body
    BY <2>a, <2>b
  <2> QED
    BY <1>4, <1>a, <2>1, MountStep DEF SwitchTab
<1>5. CASE Refresh \/ ReadSettings \/ FetchFails \/ OtherAdmin
  <2>1. stored' \in Section
    <3>1. CASE OtherAdmin
      <4>1. ASSUME NEW d, d.keyed \in Values, NEW user \in BOOLEAN
            PROVE  Saved(stored, d, user) \in Section
        BY <1>a, <4>1, SavedSection
      <4>2. CASE stored' = Environment
        BY <1>b, <4>2
      <4>3. CASE stored' # Environment
        <5> DEFINE d(x) == [keyed |-> IF form.fields = {} THEN 0 ELSE x, secret |-> 0]
        <5>1. PICK x \in Values, user \in BOOLEAN : stored' = Saved(stored, d(x), user)
          BY <3>1, <4>3 DEF OtherAdmin
        <5>2. d(x).keyed \in Values
          BY <5>1, SettingsAssumption
        <5> HIDE DEF d
        <5> QED
          BY <4>1, <5>1, <5>2
      <4> QED
        BY <4>2, <4>3
    <3> QED
      BY <1>5, <1>a, <3>1 DEF Refresh, ReadSettings, FetchFails
  <2>2. fetch' \in Fetches
    BY <1>5, <1>a, <1>b DEF Refresh, ReadSettings, FetchFails, OtherAdmin
  <2> QED
    BY <1>5, <2>1, <2>2, SettingsFrame DEF Refresh, ReadSettings, FetchFails, OtherAdmin
<1>6. ASSUME NEW i \in Slots, HandleSave(i) \/ HandleReset(i)
      PROVE  SettingsInv'
  <2> DEFINE r == [op |-> saves[i].op, live |-> saves[i].live, handled |-> TRUE,
                   body |-> IF form.inPlace THEN saves[i].body
                            ELSE [Free.body EXCEPT !.secret = saves[i].body.secret]]
  <2>1. Handled(i) /\ UNCHANGED <<form, settings, fetch, values, touched, typed, acked>>
    BY <1>6 DEF HandleSave, HandleReset
  <2>2. stored' \in Section
    <3>1. saves[i].body.keyed \in Values
      BY <1>a
    <3> QED
      BY <1>6, <1>a, <1>b, <3>1, SavedSection DEF HandleSave, HandleReset
  <2>3. saves' = [saves EXCEPT ![i] = r]
    BY <2>1, <1>a DEF Handled
  <2>4. r \in Requests /\ r.body.secret = saves[i].body.secret /\ r.live = saves[i].live
    BY <1>a, <1>b
  <2> HIDE DEF r
  <2> QED
    BY <1>a, <2>1, <2>2, <2>3, <2>4, RequestsStep
<1>7. ASSUME NEW i \in Slots, ReceiveOther(i)
      PROVE  SettingsInv'
  BY <1>7, <1>a, <1>b, RequestsStep DEF ReceiveOther
<1>8. ASSUME NEW i \in Slots, ReceiveDone(i)
      PROVE  SettingsInv'
  <2>1. /\ saves' = [saves EXCEPT ![i] = Free] /\ saves'[i] = Free
        /\ \A j \in Slots \ {i} : saves'[j] = saves[j]
        /\ UNCHANGED <<form, stored, settings, touched, typed>> /\ fetch' \in Fetches
    BY <1>8, <1>a, <1>b DEF ReceiveDone
  <2>2. /\ values' \in Bodies /\ values'.keyed = values.keyed
        /\ values'.secret = IF saves[i].live THEN 0 ELSE values.secret
    BY <1>8, <1>a DEF ReceiveDone, doneSecret
  <2>3. acked' \in {acked, saves[i].body.secret} /\ acked' \in Nat
    BY <1>8, <1>a DEF ReceiveDone
  <2>4. SettingsTypes'
    BY <1>a, <1>b, <2>1, <2>2, <2>3 DEF SettingsTypes
  <2>5. SecretsAreNew' /\ AcknowledgedSecretNotResent'
    BY <1>a, <1>b, <2>1, <2>2, <2>3 DEF SettingsInv, SecretsAreNew, AcknowledgedSecretNotResent
  <2> QED
    BY <2>1, <2>2, <2>4, <2>5 DEF SettingsInv, UntouchedFormFollows
<1>9. ASSUME NEW i \in Slots, ReceiveBranding(i)
      PROVE  SettingsInv'
  <2>1. /\ saves' = [saves EXCEPT ![i] = Free] /\ saves'[i] = Free
        /\ \A j \in Slots \ {i} : saves'[j] = saves[j]
        /\ UNCHANGED <<form, stored, typed, acked, fetch>> /\ settings' \in Section
    BY <1>9, <1>a, <1>b DEF ReceiveBranding, Section
  <2>2. CASE settings' = settings
    <3>1. UNCHANGED <<values, touched, settings>>
      BY <1>9, <2>2 DEF ReceiveBranding
    <3> QED
      BY <1>a, <1>b, <2>1, <3>1, RequestsStep
  <2>3. CASE settings' # settings
    <3>1. values' = initial(settings')
      BY <1>9, <2>3 DEF ReceiveBranding
    <3>2. saves' \in [Slots -> Requests]
          /\ \A j \in Slots : saves'[j].body.secret \in {0, saves[j].body.secret}
      BY <1>a, <1>b, <2>1
    <3> QED
      BY <1>a, <2>1, <3>1, <3>2, MountStep
  <2> QED
    BY <2>2, <2>3
<1>10. CASE ReceiveSettings
  <2>1. /\ fetch' \in Fetches /\ settings' = fetch.view /\ settings' \in Section
        /\ UNCHANGED <<form, stored, typed, acked>> /\ Show(fetch.view)
    BY <1>10, <1>a, <1>b DEF ReceiveSettings, Show
  <2>2. CASE ReactKey(fetch.view) # ReactKey(settings)
    <3>1. values' = initial(settings')
          /\ saves' = [i \in Slots |-> [saves[i] EXCEPT !.live = form.inPlace /\ @]]
      BY <2>1, <2>2 DEF Show, Remount
    <3>2. ASSUME NEW i \in Slots
          PROVE  saves'[i] \in Requests /\ saves'[i].body = saves[i].body
      <4>1. PICK q \in Requests : q = saves[i]
        BY <1>a
      <4>2. (form.inPlace /\ q.live) \in BOOLEAN
        OBVIOUS
      <4>3. saves'[i] = [q EXCEPT !.live = form.inPlace /\ q.live]
        BY <3>1, <4>1
      <4> QED
        BY <4>1, <4>2, <4>3
    <3>3. saves' \in [Slots -> Requests]
      BY <3>1, <3>2
    <3> QED
      BY <1>a, <2>1, <3>1, <3>2, <3>3, MountStep
  <2>3. CASE ReactKey(fetch.view) = ReactKey(settings)
    <3>1. UNCHANGED <<values, touched, saves>> /\ settings'.keyed = settings.keyed
      BY <2>1, <2>3 DEF Show, ReactKey
    <3> QED
      BY <1>a, <2>1, <3>1 DEF SettingsInv, SettingsTypes, SecretsAreNew, UntouchedFormFollows,
           AcknowledgedSecretNotResent
  <2> QED
    BY <2>2, <2>3
<1>11. CASE UNCHANGED settingsVars
  BY <1>11, <1>a, SettingsFrame DEF settingsVars
<1> QED
  BY <1>1, <1>2, <1>3, <1>4, <1>5, <1>6, <1>7, <1>8, <1>9, <1>10, <1>11 DEF SettingsNext

\* The invariant holds of every visit.
LEMMA SettingsAlways == PageSpec => []SettingsInv
<1>1. PageInit => SettingsInit
  BY DEF PageInit
<1> QED
  BY <1>1, SettingsInitial, SettingsStep, VisitsAreSteps, PTL DEF PageSpec

\* A form that nobody has edited shows the settings the page last read, so that
\* a save without an edit writes no older value back: for any number of saves,
\* of old instances too, and of changes by others.
THEOREM FormFollowsSettings == PageSpec => []UntouchedFormFollows
<1>1. SettingsInv => UntouchedFormFollows
  BY DEF SettingsInv
<1> QED
  BY <1>1, SettingsAlways, PTL

\* A secret whose save the page saw succeed is never sent again, whichever
\* instance of the form saved it and however late its answer came.
THEOREM AcknowledgedSecretIsGone == PageSpec => []AcknowledgedSecretNotResent
<1>1. SettingsInv => AcknowledgedSecretNotResent
  BY DEF SettingsInv
<1> QED
  BY <1>1, SettingsAlways, PTL

-----------------------------------------------------------------------------
\* The security page.

Requests ==
    [n: 1..MaxRequests, kind: {"deploy", "unban", "policy", "rate", "remove"},
     body: Rate \cup Policy, live: BOOLEAN, answer: Nat, handled: BOOLEAN]

SecurityInv ==
    /\ version \in Nat /\ policy \in Policy /\ rate \in Rate
    /\ requests \subseteq Requests
    /\ SentRateIsAccepted

\* The dialogs start with a policy of their type.
LEMMA DialogTypes ==
    /\ NewPolicy \in Policy /\ NewRate \in Rate
    /\ StoredPolicies \subseteq Policy /\ StoredRates \subseteq Rate
<1>1. NewPolicy \in Policy /\ NewRate \in Rate
  BY DEF NewPolicy, NewRate, Policy, Rate, Durations, Classes, Thresholds
<1>2. ASSUME NEW p \in Policy PROVE NormalizeSecurityPolicy(p) \in Policy
  BY DEF NormalizeSecurityPolicy, Policy, Durations
<1>3. ASSUME NEW r \in Rate PROVE NormalizeRateLimitPolicy(r) \in Rate
  BY DEF NormalizeRateLimitPolicy, Rate, Classes
<1> QED
  BY <1>1, <1>2, <1>3 DEF StoredPolicies, StoredRates

\* What the button lets through, the server accepts, whatever the dialog left
\* in the fields it hides.
LEMMA SubmittedRateIsValid ==
    ASSUME rate \in Rate, canSubmit
    PROVE  /\ SentRate \in Rate
           /\ SentRate.ban \/ SentRate.after <= 100 => ValidRate(SentRate)
<1>1. /\ SentRate \in Rate /\ SentRate.ban = rate.ban /\ SentRate.after = rate.after
      /\ SentRate.conditional = rate.conditional
      /\ SentRate.classes = IF rate.conditional THEN rate.classes ELSE {}
  BY DEF SentRate, Rate
<1> QED
  BY <1>1 DEF canSubmit, ValidRate, Rate

\* A request sent by the page joins the others.
LEMMA RequestSent ==
    ASSUME SecurityInv, version' \in Nat, policy' \in Policy, rate' \in Rate,
           NEW kind \in {"deploy", "unban", "policy", "rate", "remove"},
           NEW body \in Rate \cup Policy, Request(kind, body),
           kind = "rate" => (body.ban \/ body.after <= 100 => ValidRate(body))
    PROVE  SecurityInv'
<1>1. PICK n \in 1..MaxRequests :
        requests' = requests \cup {[n |-> n, kind |-> kind, body |-> body, live |-> TRUE,
                                    answer |-> 0, handled |-> FALSE]}
  BY DEF Request
<1> DEFINE r == [n |-> n, kind |-> kind, body |-> body, live |-> TRUE,
                 answer |-> 0, handled |-> FALSE]
<1>2. r \in Requests /\ r.kind = kind /\ r.body = body
  BY DEF Requests
<1> HIDE DEF r
<1> QED
  BY <1>1, <1>2 DEF SecurityInv, SentRateIsAccepted, r

\* The requests that are left, some unmounted, were accepted as they were.
LEMMA RequestsLeft ==
    ASSUME SecurityInv, version' \in Nat, policy' \in Policy, rate' \in Rate,
           \A q \in requests' : q \in Requests /\
                (q.handled \/ \E r \in requests : q.kind = r.kind /\ q.body = r.body
                                                  /\ q.handled = r.handled)
    PROVE  SecurityInv'
BY DEF SecurityInv, SentRateIsAccepted

\* A dialog that is closed leaves its requests as they are otherwise.
LEMMA UnmountedRequests ==
    ASSUME requests \subseteq Requests, NEW kind
    PROVE  \A q \in Unmounted(kind) : q \in Requests /\
                \E r \in requests : q.kind = r.kind /\ q.body = r.body
                                    /\ q.handled = r.handled
<1>1. ASSUME NEW r \in Requests
      PROVE  /\ [r EXCEPT !.live = r.live /\ r.kind # kind] \in Requests
             /\ [r EXCEPT !.live = r.live /\ r.kind # kind].kind = r.kind
             /\ [r EXCEPT !.live = r.live /\ r.kind # kind].body = r.body
             /\ [r EXCEPT !.live = r.live /\ r.kind # kind].handled = r.handled
  <2>1. (r.live /\ r.kind # kind) \in BOOLEAN
    OBVIOUS
  <2> QED
    BY <2>1 DEF Requests
<1> SUFFICES ASSUME NEW q \in Unmounted(kind)
             PROVE  q \in Requests /\ \E r \in requests :
                        q.kind = r.kind /\ q.body = r.body /\ q.handled = r.handled
  OBVIOUS
<1>2. PICK r \in requests : q = [r EXCEPT !.live = r.live /\ r.kind # kind]
  BY DEF Unmounted
<1> QED
  BY <1>1, <1>2

\* The page is closed at the start.
LEMMA SecurityInitial == SecurityInit => SecurityInv
BY DialogTypes DEF SecurityInit, SecurityInv, SentRateIsAccepted

\* Every step of the page keeps the invariant.
LEMMA SecurityStep == SecurityInv /\ [SecurityNext]_securityVars => SecurityInv'
<1> SUFFICES ASSUME SecurityInv, [SecurityNext]_securityVars
             PROVE  SecurityInv'
  OBVIOUS
<1>a. version \in Nat /\ policy \in Policy /\ rate \in Rate /\ requests \subseteq Requests
  BY DEF SecurityInv
<1>b. ASSUME UNCHANGED requests, version' \in Nat, policy' \in Policy, rate' \in Rate
      PROVE  SecurityInv'
  BY <1>a, <1>b, RequestsLeft
<1>1. CASE deploy \/ unban \/ ConfirmRemove
  BY <1>1, <1>a, DialogTypes, RequestSent DEF deploy, unban, ConfirmRemove
<1>2. CASE OpenPolicy \/ OpenRate \/ OpenRemove
  BY <1>2, <1>a, <1>b, DialogTypes DEF OpenPolicy, OpenRate, OpenRemove
<1>3. ASSUME NEW kind \in {"policy", "rate", "remove"}, Close(kind)
      PROVE  SecurityInv'
  <2>1. policy' \in Policy /\ rate' \in Rate /\ version' \in Nat
    BY <1>3, <1>a, DialogTypes DEF Close
  <2>2. requests' = requests \/ requests' = Unmounted(kind)
    BY <1>3 DEF Close
  <2> QED
    BY <1>a, <2>1, <2>2, UnmountedRequests, RequestsLeft
<1>4. CASE EditPolicy
  <2>1. policy' \in Policy
    BY <1>4, <1>a DEF EditPolicy, Policy, Durations
  <2> QED
    BY <1>4, <1>a, <1>b, <2>1 DEF EditPolicy
<1>5. CASE SubmitPolicy
  BY <1>5, <1>a, RequestSent DEF SubmitPolicy
<1>6. ASSUME NEW r \in Rate, RateEdit(r)
      PROVE  SecurityInv'
  BY <1>6, <1>a, <1>b DEF RateEdit
<1>7. CASE SwitchConditional
  <2>1. [rate EXCEPT !.conditional = ~@] \in Rate
    BY <1>a DEF Rate
  <2> QED
    BY <1>6, <1>7, <2>1 DEF SwitchConditional
<1>8. CASE SwitchBan
  <2>1. [rate EXCEPT !.ban = FALSE] \in Rate /\ withBan(rate) \in Rate
    BY <1>a DEF Rate, withBan, Classes
  <2> QED
    BY <1>6, <1>8, <2>1 DEF SwitchBan
<1>9. ASSUME NEW c \in Classes, ToggleClass(c)
      PROVE  SecurityInv'
  <2>1. [rate EXCEPT !.classes = IF c \in @ THEN @ \ {c} ELSE @ \cup {c}] \in Rate
    BY <1>a DEF Rate
  <2> QED
    BY <1>6, <1>9, <2>1 DEF ToggleClass
<1>10. ASSUME NEW x \in Thresholds, EditAfter(x)
       PROVE  SecurityInv'
  <2>1. [rate EXCEPT !.after = x] \in Rate
    BY <1>a DEF Rate
  <2> QED
    BY <1>6, <1>10, <2>1 DEF EditAfter
<1>11. CASE SubmitRate
  BY <1>11, <1>a, SubmittedRateIsValid, RequestSent DEF SubmitRate
<1>12. CASE OtherChange \/ Poll \/ ReceivePoll
  BY <1>12, <1>a, <1>b DEF OtherChange, Poll, ReceivePoll
<1>13. ASSUME NEW r \in requests, Handle(r)
       PROVE  SecurityInv'
  <2> DEFINE q == [r EXCEPT !.handled = TRUE, !.answer = version', !.body = NewPolicy]
  <2>1. requests' = (requests \ {r}) \cup {q} /\ version' = version + 1
        /\ UNCHANGED <<policy, rate>>
    BY <1>13 DEF Handle
  <2>a. ASSUME NEW x \in Requests, NEW v \in Nat, NEW b \in Rate \cup Policy
        PROVE  /\ [x EXCEPT !.handled = TRUE, !.answer = v, !.body = b] \in Requests
               /\ [x EXCEPT !.handled = TRUE, !.answer = v, !.body = b].handled = TRUE
    BY DEF Requests
  <2>2. q \in Requests /\ q.handled
    <3>1. r \in Requests /\ version' \in Nat /\ NewPolicy \in Rate \cup Policy
      BY <1>a, <2>1, DialogTypes
    <3>2. q \in Requests /\ q.handled = TRUE
      BY <2>a, <3>1
    <3> QED
      BY <3>2
  <2> HIDE DEF q
  <2> QED
    BY <1>a, <2>1, <2>2, RequestsLeft
<1>14. ASSUME NEW r \in requests, Receive(r)
       PROVE  SecurityInv'
  <2>1. policy' \in Policy /\ rate' \in Rate /\ version' \in Nat
    BY <1>14, <1>a, DialogTypes DEF Receive
  <2>2. requests' \subseteq requests \/ requests' \subseteq Unmounted(r.kind)
    BY <1>14 DEF Receive
  <2> QED
    BY <1>a, <2>1, <2>2, UnmountedRequests, RequestsLeft
<1>15. ASSUME NEW r \in requests, ReceiveError(r)
       PROVE  SecurityInv'
  BY <1>15, <1>a, RequestsLeft DEF ReceiveError
<1>16. CASE UNCHANGED securityVars
  BY <1>16, <1>a, <1>b DEF securityVars
<1> QED
  BY <1>1, <1>2, <1>3, <1>4, <1>5, <1>7, <1>8, <1>9, <1>10, <1>11, <1>12, <1>13, <1>14,
     <1>15, <1>16 DEF SecurityNext

\* The conditions of the submit button are those of the server, for any number
\* of requests and changes.
THEOREM SubmittedRatesAreAccepted == PageSpec => []SentRateIsAccepted
<1>1. PageInit => SecurityInit
  BY DEF PageInit
<1>2. SecurityInv => SentRateIsAccepted
  BY DEF SecurityInv
<1> QED
  BY <1>1, <1>2, SecurityInitial, SecurityStep, VisitsAreSteps, PTL DEF PageSpec

-----------------------------------------------------------------------------
\* The monitoring page, the targets and the rounds of the agent.

MonitoringInv ==
    /\ targets \in [Targets -> States]
    /\ node \in [status : {"active", "draining"}, paused : BOOLEAN, abnormal : Nat]
    /\ listed \in [Targets -> States]
    /\ \A m \in mutations :
        /\ m \in [kind : {"create", "edit", "remove", "toggle"},
                  target : Targets \cup {"none"}, enabled : {"on", "off", "keep"},
                  phase : {"sent", "done"}]
        /\ m.kind = "edit" => m.enabled = "keep"
    /\ dialog.kind \in {"edit", "remove"} => dialog.target \in Targets
    /\ PausedCanResume

\* Switching targets off or deleting them takes the pause with the last one.
LEMMA ResetResumes ==
    ASSUME MonitoringInv, NEW table, targets' = table, resetMonitoringState(table)
    PROVE  /\ node' \in [status : {"active", "draining"}, paused : BOOLEAN, abnormal : Nat]
           /\ PausedCanResume'
<1>1. node \in [status : {"active", "draining"}, paused : BOOLEAN, abnormal : Nat]
      /\ (node.paused => node.status = "draining")
  BY DEF MonitoringInv, PausedCanResume
<1>2. Enabled(targets)' = Enabled(table)
  BY DEF Enabled
<1>3. results' = {}
  BY DEF resetMonitoringState
<1>4. CASE Enabled(table) = {} /\ node.paused
  <2>1. node' = [status |-> IF node.status = "draining" THEN "active" ELSE node.status,
                 paused |-> FALSE, abnormal |-> 0]
    BY <1>4 DEF resetMonitoringState
  <2> QED
    BY <1>1, <1>3, <2>1 DEF PausedCanResume
<1>5. CASE ~(Enabled(table) = {} /\ node.paused)
  <2>1. node' = [node EXCEPT !.abnormal = 0]
    BY <1>5 DEF resetMonitoringState
  <2> QED
    BY <1>1, <1>2, <1>3, <1>5, <2>1 DEF PausedCanResume
<1> QED
  BY <1>4, <1>5

\* The three changes of the table of targets.
LEMMA TargetsStep ==
    ASSUME MonitoringInv, NEW t, NEW enabled \in {"on", "off", "keep"},
           \/ CreateMonitoringTarget(t)
           \/ UpdateMonitoringTarget(t, enabled)
           \/ DeleteMonitoringTarget(t)
    PROVE  /\ targets' \in [Targets -> States]
           /\ node' \in [status : {"active", "draining"}, paused : BOOLEAN, abnormal : Nat]
           /\ PausedCanResume'
<1>1. targets \in [Targets -> States]
      /\ node \in [status : {"active", "draining"}, paused : BOOLEAN, abnormal : Nat]
  BY DEF MonitoringInv
<1>2. targets' \in [Targets -> States]
  BY <1>1 DEF CreateMonitoringTarget, UpdateMonitoringTarget, DeleteMonitoringTarget, States
<1>3. \/ resetMonitoringState(targets')
      \/ UNCHANGED <<targets, node, results>>
  BY DEF CreateMonitoringTarget, UpdateMonitoringTarget, DeleteMonitoringTarget
<1>4. CASE resetMonitoringState(targets')
  BY <1>2, <1>4, ResetResumes
<1>5. CASE UNCHANGED <<targets, node, results>>
  BY <1>1, <1>5 DEF MonitoringInv, PausedCanResume, Enabled
<1> QED
  BY <1>2, <1>3, <1>4, <1>5

\* A round about the targets enabled now pauses the node, or resumes it.
LEMMA RoundStep ==
    ASSUME MonitoringInv, NEW ok \in BOOLEAN, RecordMonitoringRound(ok)
    PROVE  /\ node' \in [status : {"active", "draining"}, paused : BOOLEAN, abnormal : Nat]
           /\ PausedCanResume'
<1>1. /\ node \in [status : {"active", "draining"}, paused : BOOLEAN, abnormal : Nat]
      /\ node.paused => node.status = "draining" /\ Enabled(targets) # {}
      /\ PauseAfter \in Nat \ {0}
  BY MonitoringAssumption DEF MonitoringInv, PausedCanResume
<1>2. UNCHANGED targets /\ Enabled(targets)' = Enabled(targets)
  BY DEF RecordMonitoringRound, Enabled
<1>3. CASE probing # Enabled(targets)
  BY <1>1, <1>2, <1>3 DEF RecordMonitoringRound, MonitoringInv, PausedCanResume
<1>4. CASE probing = Enabled(targets)
  <2> DEFINE abnormal == IF ok THEN 0
                         ELSE IF node.abnormal < PauseAfter THEN node.abnormal + 1
                              ELSE PauseAfter
             pauses == abnormal = PauseAfter /\ node.status = "active"
             resumes == abnormal = 0 /\ node.paused /\ node.status = "draining"
             status == IF pauses THEN "draining"
                       ELSE IF resumes THEN "active" ELSE node.status
             paused == pauses \/ (node.paused /\ ~resumes)
  <2>1. node' = [status |-> status, paused |-> paused, abnormal |-> abnormal]
        /\ results' = probing /\ probing # {}
    BY <1>4 DEF RecordMonitoringRound
  <2>2. abnormal \in Nat /\ status \in {"active", "draining"} /\ paused \in BOOLEAN
    BY <1>1
  <2>3. paused => status = "draining"
    BY <1>1
  <2> HIDE DEF abnormal, status, paused
  <2>4. node' \in [status : {"active", "draining"}, paused : BOOLEAN, abnormal : Nat]
        /\ node'.paused = paused /\ node'.status = status
    BY <2>1, <2>2
  <2> QED
    BY <1>2, <1>4, <2>1, <2>3, <2>4 DEF PausedCanResume
<1> QED
  BY <1>3, <1>4

\* The page shows the targets at the start, and no dialog.
LEMMA MonitoringInitial == MonitoringInit => MonitoringInv
BY DEF MonitoringInit, MonitoringInv, PausedCanResume, NoDialogOpen, States

\* A mutation of the page is sent.
LEMMA MutateStep ==
    ASSUME MonitoringInv, NEW kind \in {"create", "edit", "remove", "toggle"},
           NEW t \in Targets \cup {"none"}, NEW enabled \in {"on", "off", "keep"},
           kind = "edit" => enabled = "keep", Mutate(kind, t, enabled)
    PROVE  MonitoringInv'
<1> DEFINE m == [kind |-> kind, target |-> t, enabled |-> enabled, phase |-> "sent"]
<1>1. mutations' = mutations \cup {m}
      /\ UNCHANGED <<targets, node, results, listed, dialog>>
  BY DEF Mutate
<1>2. m \in [kind : {"create", "edit", "remove", "toggle"}, target : Targets \cup {"none"},
             enabled : {"on", "off", "keep"}, phase : {"sent", "done"}]
      /\ (m.kind = "edit" => m.enabled = "keep")
  OBVIOUS
<1> HIDE DEF m
<1> QED
  BY <1>1, <1>2 DEF MonitoringInv, PausedCanResume, Enabled

\* Every step keeps the invariant.
LEMMA MonitoringStep == MonitoringInv /\ [MonitoringNext]_monitoringVars => MonitoringInv'
<1> SUFFICES ASSUME MonitoringInv, [MonitoringNext]_monitoringVars
             PROVE  MonitoringInv'
  OBVIOUS
<1> DEFINE Mutations == [kind : {"create", "edit", "remove", "toggle"},
                         target : Targets \cup {"none"}, enabled : {"on", "off", "keep"},
                         phase : {"sent", "done"}]
           Dialog == dialog.kind \in {"edit", "remove"} => dialog.target \in Targets
<1>a. /\ targets \in [Targets -> States] /\ listed \in [Targets -> States] /\ Dialog
      /\ node \in [status : {"active", "draining"}, paused : BOOLEAN, abnormal : Nat]
      /\ \A m \in mutations : m \in Mutations /\ (m.kind = "edit" => m.enabled = "keep")
  BY DEF MonitoringInv
<1>b. ASSUME UNCHANGED <<targets, node, results>>, listed' \in [Targets -> States], Dialog',
             mutations' \subseteq mutations
      PROVE  MonitoringInv'
  BY <1>a, <1>b DEF MonitoringInv, PausedCanResume, Enabled
<1>c. NoDialogOpen.kind = "none"
  BY DEF NoDialogOpen
<1>1. CASE PullTargets \/ LoseRound \/ ReceiveOverview \/ CloseDialog
  BY <1>1, <1>a, <1>b, <1>c DEF PullTargets, LoseRound, ReceiveOverview, CloseDialog
<1>2. ASSUME NEW ok \in BOOLEAN, RecordMonitoringRound(ok)
      PROVE  MonitoringInv'
  <2>1. UNCHANGED <<targets, listed, dialog, mutations>>
    BY <1>2 DEF RecordMonitoringRound
  <2> QED
    BY <1>2, <1>a, <2>1, RoundStep DEF MonitoringInv
<1>3. ASSUME NEW st \in {"active", "draining"}, SetStatus(st)
      PROVE  MonitoringInv'
  <2>1. node' = [status |-> st, paused |-> FALSE, abnormal |-> 0]
        /\ UNCHANGED <<targets, results, listed, dialog, mutations>>
    BY <1>3 DEF SetStatus
  <2>2. PausedCanResume'
    BY <2>1 DEF MonitoringInv, PausedCanResume, Enabled
  <2> QED
    BY <1>a, <2>1, <2>2 DEF MonitoringInv
<1>4. ASSUME NEW t \in Targets, setEditTarget(t) \/ setRemoveTarget(t)
      PROVE  MonitoringInv'
  BY <1>4, <1>a, <1>b DEF setEditTarget, setRemoveTarget, ShowDialog,
     NoDialogOpen
<1>5. CASE setCreateOpen
  BY <1>5, <1>a, <1>b DEF setCreateOpen, ShowDialog, NoDialogOpen
<1>6. CASE SubmitCreate
  BY <1>6, MutateStep DEF SubmitCreate
<1>7. CASE SubmitRename
  BY <1>7, <1>a, MutateStep DEF SubmitRename, renameEnabled
<1>8. CASE ConfirmDelete
  BY <1>8, <1>a, MutateStep DEF ConfirmDelete
<1>9. ASSUME NEW t \in Targets, toggleTarget(t)
      PROVE  MonitoringInv'
  BY <1>9, MutateStep DEF toggleTarget
<1>10. ASSUME NEW t \in Targets, OtherToggle(t)
       PROVE  MonitoringInv'
  <2>1. UNCHANGED <<listed, dialog, mutations>>
    BY <1>10 DEF OtherToggle
  <2>2. \E enabled \in {"on", "off", "keep"} : UpdateMonitoringTarget(t, enabled)
    BY <1>10 DEF OtherToggle
  <2> QED
    BY <1>a, <2>1, <2>2, TargetsStep DEF MonitoringInv
<1>11. ASSUME NEW m \in mutations, ApplyMutation(m)
       PROVE  MonitoringInv'
  <2> DEFINE q == [m EXCEPT !.phase = "done"]
  <2>1. mutations' = (mutations \ {m}) \cup {q} /\ Applies(m) /\ UNCHANGED <<listed, dialog>>
    BY <1>11 DEF ApplyMutation
  <2>2. m \in Mutations /\ (m.kind = "edit" => m.enabled = "keep")
    BY <1>a
  <2>3. q \in Mutations /\ q.kind = m.kind /\ q.enabled = m.enabled
    BY <2>2
  <2>4. \/ CreateMonitoringTarget(m.target)
        \/ UpdateMonitoringTarget(m.target, m.enabled)
        \/ DeleteMonitoringTarget(m.target)
    BY <2>1 DEF Applies
  <2> HIDE DEF q
  <2> QED
    BY <1>a, <2>1, <2>2, <2>3, <2>4, TargetsStep DEF MonitoringInv
<1>12. ASSUME NEW m \in mutations, ReceiveMutation(m) \/ MutationFails(m)
       PROVE  MonitoringInv'
  BY <1>12, <1>a, <1>b, <1>c DEF ReceiveMutation, MutationFails
<1>13. CASE UNCHANGED monitoringVars
  BY <1>13, <1>a, <1>b DEF monitoringVars
<1> QED
  BY <1>1, <1>2, <1>3, <1>4, <1>5, <1>6, <1>7, <1>8, <1>9, <1>10, <1>11, <1>12, <1>13
     DEF MonitoringNext

\* The invariant holds of every visit.
LEMMA MonitoringAlways == PageSpec => []MonitoringInv
<1>1. PageInit => MonitoringInit
  BY DEF PageInit
<1> QED
  BY <1>1, MonitoringInitial, MonitoringStep, VisitsAreSteps, PTL DEF PageSpec

\* A node that monitoring paused can be resumed by a report, and the results
\* kept are those of the enabled targets, whatever targets were changed while a
\* round was probed: for any targets, requests and threshold.
THEOREM PauseEnds == PageSpec => []PausedCanResume
<1>1. MonitoringInv => PausedCanResume
  BY DEF MonitoringInv
<1> QED
  BY <1>1, MonitoringAlways, PTL

\* Only a toggle switches a target on or off.
THEOREM RenameSwitchesNothing == PageSpec => OnlyTogglesSwitch
<1> DEFINE Toggled ==
             \A t \in Targets :
               {targets[t], targets'[t]} = {"on", "off"} =>
                 \/ \E m \in mutations : /\ m.kind = "toggle" /\ m.target = t
                                         /\ m.enabled = targets'[t]
                                         /\ m.phase = "sent" /\ m \notin mutations'
                 \/ OtherToggle(t)
<1>1. MonitoringInv /\ [MonitoringNext]_monitoringVars => Toggled
  <2> SUFFICES ASSUME MonitoringInv, [MonitoringNext]_monitoringVars,
                      NEW t \in Targets, {targets[t], targets'[t]} = {"on", "off"}
               PROVE  \/ \E m \in mutations : /\ m.kind = "toggle" /\ m.target = t
                                              /\ m.enabled = targets'[t]
                                              /\ m.phase = "sent" /\ m \notin mutations'
                      \/ OtherToggle(t)
    OBVIOUS
  <2>1. targets \in [Targets -> States] /\ targets[t] # targets'[t]
        /\ targets[t] # "absent" /\ targets'[t] # "absent"
    BY DEF MonitoringInv
  <2>2. \/ \E x \in Targets : OtherToggle(x)
        \/ \E m \in mutations : ApplyMutation(m)
    BY <2>1 DEF MonitoringNext, monitoringVars, PullTargets, LoseRound,
       RecordMonitoringRound, SetStatus, ReceiveOverview, setCreateOpen, setEditTarget,
       setRemoveTarget, ShowDialog, CloseDialog, SubmitCreate, SubmitRename, ConfirmDelete,
       toggleTarget, Mutate, ReceiveMutation, MutationFails
  <2>3. ASSUME NEW x \in Targets, OtherToggle(x) PROVE OtherToggle(t)
    <3>1. \A y \in Targets : y # x => targets'[y] = targets[y]
      BY <2>1, <2>3 DEF OtherToggle, UpdateMonitoringTarget
    <3> QED
      BY <2>1, <2>3, <3>1
  <2>4. ASSUME NEW m \in mutations, ApplyMutation(m)
        PROVE  /\ m.kind = "toggle" /\ m.target = t /\ m.enabled = targets'[t]
               /\ m.phase = "sent" /\ m \notin mutations'
    <3>1. /\ m \in [kind : {"create", "edit", "remove", "toggle"},
                    target : Targets \cup {"none"}, enabled : {"on", "off", "keep"},
                    phase : {"sent", "done"}]
          /\ m.kind = "edit" => m.enabled = "keep"
      BY DEF MonitoringInv
    <3>2. Applies(m) /\ m.phase = "sent"
          /\ mutations' = (mutations \ {m}) \cup {[m EXCEPT !.phase = "done"]}
      BY <2>4 DEF ApplyMutation
    <3>3. m.kind # "create"
      BY <2>1, <3>2 DEF Applies, CreateMonitoringTarget
    <3>4. m.kind # "remove"
      BY <2>1, <3>2 DEF Applies, DeleteMonitoringTarget
    <3>5. UpdateMonitoringTarget(m.target, m.enabled)
      BY <3>2, <3>3, <3>4 DEF Applies
    <3>6. m.target = t /\ m.enabled # "keep" /\ m.enabled = targets'[t]
      BY <2>1, <3>5 DEF UpdateMonitoringTarget
    <3>7. m.kind = "toggle"
      BY <3>1, <3>3, <3>4, <3>6
    <3>8. [m EXCEPT !.phase = "done"].phase = "done"
      BY <3>1
    <3>9. m \notin mutations'
      BY <3>2, <3>8
    <3> QED
      BY <3>2, <3>6, <3>7, <3>9
  <2> QED
    BY <2>2, <2>3, <2>4
<1>2. PageSpec => [][Toggled]_monitoringVars
  BY <1>1, MonitoringAlways, VisitsAreSteps, PTL DEF PageSpec
<1> QED
  BY <1>2 DEF OnlyTogglesSwitch

-----------------------------------------------------------------------------
\* The origins of the site form.

\* Of the draft and of the stored site, what decides about the origins has its
\* type; the other fields are there.
DraftsOf(d) ==
    [domains : {d.domains}, enabled : {d.enabled}, nodes : {d.nodes}, primary : Origin,
     backup_enabled : BOOLEAN, backup : Origin, passthrough : BOOLEAN,
     body_size : {d.body_size}, inherit : {d.inherit}, ttl : {d.ttl},
     tcp_only : BOOLEAN, forwards : {d.forwards}]

OriginsInv ==
    /\ site.primary \in Origin /\ site.backup \in Origin
    /\ site.passthrough \in BOOLEAN /\ site.tcp_only \in BOOLEAN
    /\ draft \in DraftsOf(draft)

\* What the page sends of an origin is an origin, the same whether or not a
\* hidden server name is blank.
LEMMA SentOriginType ==
    ASSUME NEW o \in Origin
    PROVE  /\ sentOrigin(o) \in Origin
           /\ sentOrigin(o).scheme = o.scheme
           /\ UsesTLS(o.scheme) => sentOrigin(o) = o
           /\ sentOrigin([o EXCEPT !.sni = Blank])
                = [o EXCEPT !.sni = Blank]
           /\ ~UsesTLS(o.scheme) => sentOrigin(o) = [o EXCEPT !.sni = Blank]
           /\ [o EXCEPT !.sni = Blank].scheme = o.scheme
BY DEF sentOrigin, Origin

\* The draft with the hidden fields blank has the other fields of the draft.
LEMMA ShownFields ==
    ASSUME NEW d, d \in DraftsOf(d)
    PROVE  LET s == ShownOrigins(d)
               asShown(o) == IF UsesTLS(o.scheme) THEN o ELSE [o EXCEPT !.sni = Blank]
           IN  /\ s.domains = d.domains /\ s.enabled = d.enabled /\ s.nodes = d.nodes
               /\ s.backup_enabled = d.backup_enabled /\ s.passthrough = d.passthrough
               /\ s.body_size = d.body_size /\ s.inherit = d.inherit /\ s.ttl = d.ttl
               /\ s.tcp_only = d.tcp_only /\ s.forwards = d.forwards
               /\ ~d.tcp_only => s.primary = asShown(d.primary)
               /\ ~d.tcp_only /\ d.backup_enabled => s.backup = asShown(d.backup)
BY DEF ShownOrigins, DraftsOf

\* Hidden fields do not reach what an HTTP site sends, and a TCP-only site is
\* not judged by its origins.
LEMMA HiddenFieldsDoNotDecide ==
    ASSUME NEW d, d \in DraftsOf(d)
    PROVE  Valid(sitePayload(d)) <=> Valid(sitePayload(ShownOrigins(d)))
<1> DEFINE s == ShownOrigins(d)
           asShown(o) == IF UsesTLS(o.scheme) THEN o ELSE [o EXCEPT !.sni = Blank]
           p == sitePayload(d)
           q == sitePayload(s)
<1>1. /\ s.domains = d.domains /\ s.enabled = d.enabled /\ s.nodes = d.nodes
      /\ s.backup_enabled = d.backup_enabled /\ s.passthrough = d.passthrough
      /\ s.body_size = d.body_size /\ s.inherit = d.inherit /\ s.ttl = d.ttl
      /\ s.tcp_only = d.tcp_only /\ s.forwards = d.forwards
      /\ ~d.tcp_only => s.primary = asShown(d.primary)
      /\ ~d.tcp_only /\ d.backup_enabled => s.backup = asShown(d.backup)
  BY ShownFields
<1>2. /\ d.primary \in Origin /\ d.backup \in Origin /\ d.tcp_only \in BOOLEAN
      /\ d.backup_enabled \in BOOLEAN
  BY DEF DraftsOf
<1>3. ASSUME NEW o \in Origin
      PROVE  sentOrigin(asShown(o)) = sentOrigin(o) /\ asShown(o).scheme = o.scheme
  BY <1>3, SentOriginType
<1> HIDE DEF s, asShown
<1>4. /\ p.domains = q.domains /\ p.nodes = q.nodes /\ p.passthrough = q.passthrough
      /\ p.body_size = q.body_size /\ p.ttl = q.ttl /\ p.tcp_only = q.tcp_only
      /\ p.forwards = q.forwards /\ p.tcp_only = d.tcp_only
  BY <1>1 DEF sitePayload
<1>5. ASSUME ~d.tcp_only PROVE p.primary = q.primary /\ p.backup = q.backup
  <2>1. p.primary = sentOrigin(d.primary) /\ q.primary = sentOrigin(asShown(d.primary))
    BY <1>1, <1>5 DEF sitePayload
  <2>2. CASE d.backup_enabled
    BY <1>1, <1>2, <1>3, <1>5, <2>1, <2>2 DEF sitePayload
  <2>3. CASE ~d.backup_enabled
    BY <1>1, <1>2, <1>3, <2>1, <2>3 DEF sitePayload
  <2> QED
    BY <1>2, <2>2, <2>3
<1> HIDE DEF p, q
<1>6. ValidOrigins(p) <=> ValidOrigins(q)
  BY <1>2, <1>4, <1>5 DEF ValidOrigins
<1>7. Valid(p) <=> Valid(q)
  BY <1>4, <1>6 DEF Valid
<1> QED
  BY <1>7 DEF p, q, s

\* A form drawn from a site with typed origins has them.
LEMMA DrawnDraft ==
    ASSUME NEW s, s.primary \in Origin, s.backup \in Origin,
           s.passthrough \in BOOLEAN, s.tcp_only \in BOOLEAN
    PROVE  draftFromSite(s) \in DraftsOf(draftFromSite(s))
BY DEF draftFromSite, DraftsOf

\* The form is drawn from a site with an origin.
LEMMA OriginsInitial == Init => OriginsInv
<1> SUFFICES ASSUME Init PROVE OriginsInv
  OBVIOUS
<1>1. PICK e \in Domains, n \in Nodes :
          site = [domains |-> <<e>>, enabled |-> TRUE, nodes |-> {n},
                  primary |-> [scheme |-> "https", sni |-> Blank], backup |-> NoOrigin,
                  passthrough |-> FALSE, body_size |-> 128, ttl |-> Null,
                  tcp_only |-> FALSE, forwards |-> <<FirstForward>>]
  BY DEF Init
<1>2. site.primary \in Origin /\ site.backup \in Origin
      /\ site.passthrough \in BOOLEAN /\ site.tcp_only \in BOOLEAN
  BY <1>1 DEF Origin, NoOrigin, Schemes, Blank
<1> QED
  BY <1>2, DrawnDraft DEF Init, OriginsInv

\* Every step keeps the types.
LEMMA OriginsStep == OriginsInv /\ [Next]_vars => OriginsInv'
<1> SUFFICES ASSUME OriginsInv, [Next]_vars PROVE OriginsInv'
  OBVIOUS
<1> DEFINE SiteOK == /\ site.primary \in Origin /\ site.backup \in Origin
                     /\ site.passthrough \in BOOLEAN /\ site.tcp_only \in BOOLEAN
<1>a. SiteOK /\ draft \in DraftsOf(draft)
  BY DEF OriginsInv
<1>b. ASSUME UNCHANGED site, draft' \in DraftsOf(draft') PROVE OriginsInv'
  BY <1>a, <1>b DEF OriginsInv, DraftsOf
<1>c. ASSUME NEW o \in Origin, NEW x \in OriginEdits(o) PROVE x \in Origin
  BY <1>c DEF OriginEdits, Origin, Schemes, Blank
<1>1. CASE EditBasic
  <2>1. ASSUME NEW text PROVE [draft EXCEPT !.domains = text]
                              \in DraftsOf([draft EXCEPT !.domains = text])
    BY <1>a DEF DraftsOf
  <2>2. ASSUME NEW on PROVE [draft EXCEPT !.enabled = on]
                            \in DraftsOf([draft EXCEPT !.enabled = on])
    BY <1>a DEF DraftsOf
  <2>3. \/ \E text : draft' = [draft EXCEPT !.domains = text]
        \/ \E on : draft' = [draft EXCEPT !.enabled = on]
    BY <1>1 DEF EditBasic
  <2> QED
    BY <1>1, <1>b, <2>1, <2>2, <2>3 DEF EditBasic, Edits
<1>2. CASE EditOrigins
  <2>1. ASSUME NEW o \in Origin PROVE [draft EXCEPT !.primary = o]
                                      \in DraftsOf([draft EXCEPT !.primary = o])
    BY <1>a DEF DraftsOf
  <2>2. ASSUME NEW o \in Origin PROVE [draft EXCEPT !.backup = o]
                                      \in DraftsOf([draft EXCEPT !.backup = o])
    BY <1>a DEF DraftsOf
  <2>3. ASSUME NEW b \in BOOLEAN
        PROVE  /\ [draft EXCEPT !.tcp_only = b] \in DraftsOf([draft EXCEPT !.tcp_only = b])
               /\ [draft EXCEPT !.backup_enabled = b]
                    \in DraftsOf([draft EXCEPT !.backup_enabled = b])
               /\ [draft EXCEPT !.passthrough = b]
                    \in DraftsOf([draft EXCEPT !.passthrough = b])
    BY <1>a DEF DraftsOf
  <2>4. draft.primary \in Origin /\ draft.backup \in Origin
    BY <1>a DEF DraftsOf
  <2>5. \/ \E o \in Origin : draft' = [draft EXCEPT !.primary = o]
        \/ \E o \in Origin : draft' = [draft EXCEPT !.backup = o]
        \/ \E b \in BOOLEAN : \/ draft' = [draft EXCEPT !.tcp_only = b]
                              \/ draft' = [draft EXCEPT !.backup_enabled = b]
                              \/ draft' = [draft EXCEPT !.passthrough = b]
    BY <1>2, <1>c, <2>4 DEF EditOrigins
  <2> QED
    BY <1>2, <1>b, <2>1, <2>2, <2>3, <2>5 DEF EditOrigins, Edits
<1>3. CASE EditLimits
  <2>1. ASSUME NEW x
        PROVE  /\ [draft EXCEPT !.body_size = x] \in DraftsOf([draft EXCEPT !.body_size = x])
               /\ [draft EXCEPT !.inherit = x] \in DraftsOf([draft EXCEPT !.inherit = x])
               /\ [draft EXCEPT !.ttl = x] \in DraftsOf([draft EXCEPT !.ttl = x])
    BY <1>a DEF DraftsOf
  <2>2. \E x : \/ draft' = [draft EXCEPT !.body_size = x]
               \/ draft' = [draft EXCEPT !.inherit = x]
               \/ draft' = [draft EXCEPT !.ttl = x]
    BY <1>3 DEF EditLimits
  <2> QED
    BY <1>3, <1>b, <2>1, <2>2 DEF EditLimits, Edits
<1>4. CASE EditNodes
  <2>1. ASSUME NEW x PROVE [draft EXCEPT !.nodes = x] \in DraftsOf([draft EXCEPT !.nodes = x])
    BY <1>a DEF DraftsOf
  <2>2. \E x : draft' = [draft EXCEPT !.nodes = x]
    BY <1>4 DEF EditNodes
  <2> QED
    BY <1>4, <1>b, <2>1, <2>2 DEF EditNodes, Edits
<1>5. CASE AddForward \/ UpdateForward \/ RemoveForward
  <2>1. ASSUME NEW x
        PROVE  [draft EXCEPT !.forwards = x] \in DraftsOf([draft EXCEPT !.forwards = x])
    BY <1>a DEF DraftsOf
  <2>2. \E x : draft' = [draft EXCEPT !.forwards = x]
    BY <1>5 DEF AddForward, UpdateForward, RemoveForward
  <2> QED
    BY <1>5, <1>b, <2>1, <2>2 DEF AddForward, UpdateForward, RemoveForward, Edits
<1>6. CASE Save
  <2> DEFINE p == sitePayload(draft)
  <2>1. site' = Normalized(p) /\ draft' = draftFromSite(site')
    BY <1>6 DEF Save
  <2>2. /\ p.primary = sentOrigin(draft.primary)
        /\ p.backup \in {sentOrigin(draft.backup), NoOrigin}
        /\ p.passthrough = draft.passthrough /\ p.tcp_only = draft.tcp_only
    BY DEF sitePayload
  <2>3. NoOrigin \in Origin
    BY DEF NoOrigin, Origin, Schemes, Blank
  <2>4. /\ draft.primary \in Origin /\ draft.backup \in Origin
        /\ draft.passthrough \in BOOLEAN /\ draft.tcp_only \in BOOLEAN
    BY <1>a DEF DraftsOf
  <2>5. /\ Normalized(p).primary = p.primary /\ Normalized(p).backup = p.backup
        /\ Normalized(p).passthrough = p.passthrough /\ Normalized(p).tcp_only = p.tcp_only
    BY DEF Normalized, sitePayload
  <2> HIDE DEF p
  <2>6. /\ site'.primary \in Origin /\ site'.backup \in Origin
        /\ site'.passthrough \in BOOLEAN /\ site'.tcp_only \in BOOLEAN
    BY <2>1, <2>2, <2>3, <2>4, <2>5, SentOriginType
  <2>7. draft' \in DraftsOf(draft')
    BY <2>1, <2>6, DrawnDraft
  <2> QED
    BY <2>6, <2>7 DEF OriginsInv, DraftsOf
<1>7. CASE SaveRejected \/ ChangeNode \/ UNCHANGED vars
  BY <1>7, <1>a, <1>b DEF SaveRejected, ChangeNode, vars
<1> QED
  BY <1>1, <1>2, <1>3, <1>4, <1>5, <1>6, <1>7 DEF Next

\* What is in the fields of origins that the form hides never decides whether a
\* site is accepted: for any domains, nodes, ports and number of forwards.
THEOREM HiddenOriginsDoNotDecide == PageSpec => []HiddenOriginsAreIgnored
<1>1. PageInit => Init
  BY DEF PageInit
<1>2. OriginsInv => HiddenOriginsAreIgnored
  BY HiddenFieldsDoNotDecide DEF OriginsInv, HiddenOriginsAreIgnored
<1> QED
  BY <1>1, <1>2, OriginsInitial, OriginsStep, VisitsAreSteps, PTL DEF PageSpec

-----------------------------------------------------------------------------
\* Saving the site form.

\* Counting the positions up to one numbers the positions.
LEMMA PlacesOfPositions ==
    ASSUME NEW n \in Nat, NEW K \in SUBSET (1 .. n)
    PROVE  /\ IsFiniteSet(K) /\ Cardinality(K) \in Nat
           /\ \A i \in K : Cardinality({j \in K : j <= i}) \in 1 .. Cardinality(K)
           /\ \A i, k \in K : Cardinality({j \in K : j <= i}) = Cardinality({j \in K : j <= k}) => i = k
           /\ \A m \in 1 .. Cardinality(K) : \E i \in K : Cardinality({j \in K : j <= i}) = m
<1> DEFINE U(i) == {j \in K : j <= i}
<1>1. IsFiniteSet(K) /\ Cardinality(K) \in Nat
  <2>1. IsFiniteSet(1 .. n)
    BY FS_Interval
  <2> QED
    BY <2>1, FS_Subset, FS_CardinalityType
<1>2. ASSUME NEW i \in K
      PROVE  IsFiniteSet(U(i)) /\ Cardinality(U(i)) \in Nat \ {0} /\ Cardinality(U(i)) <= Cardinality(K)
  <2>1. U(i) \in SUBSET K /\ i \in U(i)
    OBVIOUS
  <2> HIDE DEF U
  <2>2. IsFiniteSet(U(i)) /\ Cardinality(U(i)) <= Cardinality(K)
    BY <1>1, <2>1, FS_Subset
  <2>3. Cardinality(U(i)) \in Nat
    BY <2>2, FS_CardinalityType
  <2>4. Cardinality(U(i)) # 0
    BY <2>1, <2>2, FS_EmptySet
  <2> QED
    BY <2>2, <2>3, <2>4
<1>3. ASSUME NEW i \in K, NEW k \in K, i < k PROVE Cardinality(U(i)) # Cardinality(U(k))
  <2>1. U(i) \in SUBSET U(k) /\ k \in U(k) /\ k \notin U(i)
    <3>1. i \in Nat /\ k \in Nat /\ \A j \in K : j \in Nat
      OBVIOUS
    <3>2. k <= k /\ ~(k <= i) /\ \A j \in K : j <= i => j <= k
      BY <1>3, <3>1
    <3> QED
      BY <3>2
  <2>2. IsFiniteSet(U(k))
    BY <1>2
  <2> HIDE DEF U
  <2> QED
    BY <2>1, <2>2, FS_Subset
<1>4. \A i, k \in K : Cardinality(U(i)) = Cardinality(U(k)) => i = k
  <2> HIDE DEF U
  <2>1. \A i, k \in K : i = k \/ i < k \/ k < i
    OBVIOUS
  <2> QED
    BY <1>3, <2>1
<1> DEFINE place == [i \in K |-> Cardinality(U(i))]
<1> HIDE DEF U
<1>5. /\ place \in [K -> Nat \ {0}] /\ \A i \in K : place[i] <= Cardinality(K)
      /\ \A i, k \in K : place[i] = place[k] => i = k
      /\ \A i \in K : place[i] = Cardinality(U(i))
  BY <1>2, <1>4
<1>6. \A m \in 1 .. Cardinality(K) : \E i \in K : place[i] = m
  <2>1. IsFiniteSet(K)
    BY <1>1
  <2>2. place \in [K -> Nat \ {0}]
    BY <1>5
  <2>3. \A i \in K : place[i] <= Cardinality(K)
    BY <1>5
  <2>4. \A i, k \in K : place[i] = place[k] => i = k
    BY <1>5
  <2> HIDE DEF place
  <2> QED
    BY ONLY <2>1, <2>2, <2>3, <2>4, Numbered
<1> HIDE DEF place
<1>7. /\ \A i \in K : Cardinality(U(i)) \in 1 .. Cardinality(K)
      /\ \A m \in 1 .. Cardinality(K) : \E i \in K : Cardinality(U(i)) = m
  BY <1>1, <1>2, <1>5, <1>6
<1> QED
  BY <1>1, <1>4, <1>7 DEF U

\* The pieces sent are the pieces of the text that are not blank.
LEMMA SplitText ==
    ASSUME NEW D, Blank \notin D, NEW text \in Seq(D \cup {Blank})
    PROVE  /\ splitList(text) \in Seq(D)
           /\ ToSet(splitList(text)) = ToSet(text) \ {Blank}
<1> DEFINE kept == {i \in DOMAIN text : text[i] # Blank}
           place(i) == Cardinality({j \in kept : j <= i})
           m == Cardinality(kept)
           at(n) == CHOOSE i \in kept : place(i) = n
<1>1. Len(text) \in Nat /\ DOMAIN text = 1 .. Len(text) /\ kept \in SUBSET (1 .. Len(text))
  OBVIOUS
<1>2. \A i \in kept : text[i] \in D
  BY <1>1
<1>3. splitList(text) = [n \in 1 .. m |-> text[at(n)]]
  BY DEF splitList
<1>4. ToSet(text) \ {Blank} = {text[i] : i \in kept}
  BY <1>1 DEF ToSet
<1> HIDE DEF kept
<1>5. /\ m \in Nat
      /\ \A i \in kept : place(i) \in 1 .. m
      /\ \A i, k \in kept : place(i) = place(k) => i = k
      /\ \A n \in 1 .. m : \E i \in kept : place(i) = n
  BY <1>1, PlacesOfPositions
<1> HIDE DEF place, m
<1>6. \A n \in 1 .. m : at(n) \in kept /\ place(at(n)) = n
  BY <1>5
<1>7. \A i \in kept : at(place(i)) = i
  BY <1>5
<1> HIDE DEF at
<1>8. splitList(text) \in Seq(D) /\ DOMAIN splitList(text) = 1 .. m
  BY <1>2, <1>3, <1>5, <1>6
<1>9. ToSet(splitList(text)) = {text[i] : i \in kept}
  <2>1. ToSet(splitList(text)) = {text[at(n)] : n \in 1 .. m}
    BY <1>3 DEF ToSet
  <2> QED
    BY <1>5, <1>6, <1>7, <2>1
<1> QED
  BY <1>4, <1>8, <1>9

\* A text without blank pieces is sent as it is.
LEMMA SplitNames ==
    ASSUME NEW D, Blank \notin D, NEW names \in Seq(D)
    PROVE  splitList(names) = names
<1> DEFINE kept == {i \in DOMAIN names : names[i] # Blank}
           place(i) == Cardinality({j \in kept : j <= i})
<1>1. Len(names) \in Nat /\ DOMAIN names = 1 .. Len(names) /\ kept = 1 .. Len(names)
  OBVIOUS
<1>2. Cardinality(kept) = Len(names)
  <2> HIDE DEF kept
  <2> QED
    BY <1>1, FirstNumbers
<1>3. ASSUME NEW i \in kept PROVE place(i) = i
  <2>1. {j \in kept : j <= i} = 1 .. i /\ i \in Nat /\ i > 0
    BY <1>1
  <2> HIDE DEF kept
  <2> QED
    BY <2>1, FirstNumbers
<1>4. splitList(names) = [n \in 1 .. Cardinality(kept) |-> names[CHOOSE i \in kept : place(i) = n]]
  BY DEF splitList
<1> HIDE DEF kept, place
<1>5. \A n \in kept : (CHOOSE i \in kept : place(i) = n) = n
  BY <1>3
<1>6. splitList(names) = [n \in 1 .. Len(names) |-> names[n]]
  BY <1>1, <1>2, <1>4, <1>5
<1> QED
  BY <1>6

\* What is stored of a site: a record of what was sent and accepted, with the
\* names and the forwards normalised and no server name that a URL hides.
Stored(s) ==
    /\ s = [domains |-> s.domains, enabled |-> s.enabled, nodes |-> s.nodes,
            primary |-> s.primary, backup |-> s.backup, passthrough |-> s.passthrough,
            body_size |-> s.body_size, ttl |-> s.ttl, tcp_only |-> s.tcp_only,
            forwards |-> s.forwards]
    /\ s.domains \in Seq(Domains) /\ s.domains # <<>> /\ IsInjective(s.domains)
    /\ s.nodes # {} /\ s.body_size # 200 /\ s.ttl # 30
    /\ s.forwards \in Seq(Forward) /\ normalizeTCPForwards(s.forwards)
    /\ \A i \in DOMAIN s.forwards : NormalizedForward(s.forwards[i]) = s.forwards[i]
    /\ sentOrigin(s.primary) = s.primary
    /\ s.backup = NoOrigin \/ (s.backup.scheme # Blank /\ sentOrigin(s.backup) = s.backup)
    /\ ValidOrigins(s)

\* The texts and the forwards of the form have their types.
FormTypes ==
    /\ draft.domains \in Seq(Domains \cup {Blank})
    /\ draft.forwards \in Seq(Forward)

SiteFormInv == OriginsInv /\ FormTypes /\ Stored(site)

\* The form of a stored site sends the site.
LEMMA PayloadOfStored ==
    ASSUME NEW s, Stored(s)
    PROVE  sitePayload(draftFromSite(s)) = s
<1> DEFINE d == draftFromSite(s)
<1>1. /\ d.domains = s.domains /\ d.enabled = s.enabled /\ d.nodes = s.nodes
      /\ d.primary = s.primary /\ d.backup = s.backup /\ d.passthrough = s.passthrough
      /\ d.body_size = s.body_size /\ d.tcp_only = s.tcp_only /\ d.forwards = s.forwards
      /\ d.backup_enabled = (s.backup # NoOrigin)
      /\ d.inherit = (s.ttl = Null) /\ (s.ttl # Null => d.ttl = s.ttl)
  BY DEF Stored, draftFromSite, join
<1>2. splitList(s.domains) = s.domains
  BY SplitNames, SiteFormAssumption DEF Stored
<1> HIDE DEF d
<1>3. (IF d.inherit THEN Null ELSE d.ttl) = s.ttl
  BY <1>1
<1>4. (IF d.backup_enabled /\ d.backup.scheme # Blank THEN sentOrigin(d.backup) ELSE NoOrigin) = s.backup
  <2>1. CASE s.backup = NoOrigin
    BY <1>1, <2>1
  <2>2. CASE s.backup # NoOrigin
    <3>1. s.backup.scheme # Blank /\ sentOrigin(s.backup) = s.backup
      BY <2>2 DEF Stored
    <3> QED
      BY <1>1, <2>2, <3>1
  <2> QED
    BY <2>1, <2>2
<1>5. sitePayload(d) = [domains |-> s.domains, enabled |-> s.enabled, nodes |-> s.nodes,
            primary |-> s.primary, backup |-> s.backup, passthrough |-> s.passthrough,
            body_size |-> s.body_size, ttl |-> s.ttl, tcp_only |-> s.tcp_only,
            forwards |-> s.forwards]
  BY <1>1, <1>2, <1>3, <1>4 DEF sitePayload, Stored
<1> QED
  BY <1>5 DEF d, Stored

\* A stored site is accepted again, unless a node of it was revoked, and it is
\* already normalised.
LEMMA StoredIsNormalized ==
    ASSUME NEW s, Stored(s), s.nodes \cap revoked = {}
    PROVE  Valid(s) /\ Normalized(s) = s
<1>1. Valid(s)
  BY DEF Valid, Stored
<1>2. [i \in DOMAIN s.forwards |-> NormalizedForward(s.forwards[i])] = s.forwards
  BY DEF Stored
<1>3. Normalized(s) = [s EXCEPT !.forwards = [i \in DOMAIN s.forwards |-> NormalizedForward(s.forwards[i])]]
  BY DEF Normalized
<1>4. [s EXCEPT !.forwards = s.forwards] = s
  BY DEF Stored
<1> QED
  BY <1>1, <1>2, <1>3, <1>4

\* Normalising a forward keeps its type, its port, its host and TLS, leaves it
\* valid and is done once.
LEMMA NormalForward ==
    ASSUME NEW f \in Forward
    PROVE  LET g == NormalizedForward(f) IN
           /\ g \in Forward /\ g.port = f.port /\ g.host = f.host /\ g.tls = f.tls
           /\ ValidForward(f) => ValidForward(g)
           /\ NormalizedForward(g) = g
  BY DEF NormalizedForward, Forward, ValidForward, Blank

\* The list of forwards as it is stored.
NormalizedForwards(fs) == [i \in DOMAIN fs |-> NormalizedForward(fs[i])]

\* Normalising a list of forwards keeps it a list that is accepted, and is
\* done once.
LEMMA NormalForwards ==
    ASSUME NEW fs \in Seq(Forward)
    PROVE  /\ NormalizedForwards(fs) \in Seq(Forward)
           /\ DOMAIN NormalizedForwards(fs) = DOMAIN fs
           /\ fs # <<>> => NormalizedForwards(fs) # <<>>
           /\ \A i \in DOMAIN fs :
                  /\ NormalizedForwards(fs)[i].port = fs[i].port
                  /\ NormalizedForwards(fs)[i].host = fs[i].host
                  /\ NormalizedForwards(fs)[i].tls = fs[i].tls
                  /\ NormalizedForward(NormalizedForwards(fs)[i]) = NormalizedForwards(fs)[i]
           /\ normalizeTCPForwards(fs) => normalizeTCPForwards(NormalizedForwards(fs))
<1> DEFINE gs == NormalizedForwards(fs)
<1>1. Len(fs) \in Nat /\ DOMAIN fs = 1 .. Len(fs) /\ \A i \in DOMAIN fs : fs[i] \in Forward
  OBVIOUS
<1>2. gs = [i \in DOMAIN fs |-> gs[i]] /\ \A i \in DOMAIN fs : gs[i] = NormalizedForward(fs[i])
  BY DEF NormalizedForwards
<1>3. \A i \in DOMAIN fs :
          /\ gs[i] \in Forward
          /\ gs[i].port = fs[i].port
          /\ gs[i].host = fs[i].host
          /\ gs[i].tls = fs[i].tls
          /\ NormalizedForward(gs[i]) = gs[i]
          /\ ValidForward(fs[i]) => ValidForward(gs[i])
  BY <1>1, <1>2, NormalForward
<1> HIDE DEF gs
<1>4. gs \in [1 .. Len(fs) -> Forward]
  BY <1>1, <1>2, <1>3
<1>5. gs \in Seq(Forward) /\ Len(gs) = Len(fs) /\ DOMAIN gs = DOMAIN fs
  BY <1>1, <1>4
<1>6. fs # <<>> => gs # <<>>
  BY <1>1, <1>5
<1>7. normalizeTCPForwards(fs) => normalizeTCPForwards(gs)
  BY <1>3, <1>5 DEF normalizeTCPForwards
<1> QED
  BY <1>3, <1>5, <1>6, <1>7 DEF gs

\* An origin that was sent is sent again as it is.
LEMMA SentTwice ==
    ASSUME NEW o \in Origin
    PROVE  sentOrigin(sentOrigin(o)) = sentOrigin(o)
  BY DEF sentOrigin, Origin

\* What an accepted form stores.
LEMMA AcceptedIsStored ==
    ASSUME OriginsInv, FormTypes, Valid(sitePayload(draft))
    PROVE  Stored(Normalized(sitePayload(draft)))
<1> DEFINE p == sitePayload(draft)
           n == Normalized(p)
           fs == draft.forwards
           gs == NormalizedForwards(fs)
<1>1. /\ p.domains = splitList(draft.domains) /\ p.nodes = draft.nodes
      /\ p.primary = sentOrigin(draft.primary)
      /\ p.backup = IF draft.backup_enabled /\ draft.backup.scheme # Blank
                    THEN sentOrigin(draft.backup) ELSE NoOrigin
      /\ p.forwards = fs
  BY DEF sitePayload
<1>2. n = [domains |-> p.domains, enabled |-> p.enabled, nodes |-> p.nodes,
            primary |-> p.primary, backup |-> p.backup, passthrough |-> p.passthrough,
            body_size |-> p.body_size, ttl |-> p.ttl, tcp_only |-> p.tcp_only,
            forwards |-> gs]
  BY DEF Normalized, sitePayload, NormalizedForwards
<1>3. draft.primary \in Origin /\ draft.backup \in Origin
  BY DEF OriginsInv, DraftsOf
<1>4. p.domains \in Seq(Domains) /\ p.domains # <<>> /\ IsInjective(p.domains)
  BY <1>1, SplitText, SiteFormAssumption DEF FormTypes, Valid
<1>5. p.nodes # {} /\ p.body_size # 200 /\ p.ttl # 30 /\ normalizeTCPForwards(p.forwards) /\ ValidOrigins(p)
  BY DEF Valid
<1> HIDE DEF p
<1>6. /\ gs \in Seq(Forward) /\ normalizeTCPForwards(gs) /\ (fs # <<>> => gs # <<>>)
      /\ \A i \in DOMAIN gs : NormalizedForward(gs[i]) = gs[i]
  BY <1>1, <1>5, NormalForwards DEF FormTypes
<1> HIDE DEF gs, fs
<1>7. sentOrigin(p.primary) = p.primary
  BY <1>1, <1>3, SentTwice
<1>8. p.backup = NoOrigin \/ (p.backup.scheme # Blank /\ sentOrigin(p.backup) = p.backup)
  BY <1>1, <1>3, SentTwice, SentOriginType
<1>9. ValidOrigins(n)
  BY <1>1, <1>2, <1>5, <1>6 DEF ValidOrigins
<1> HIDE DEF n
<1> QED
  BY <1>2, <1>4, <1>5, <1>6, <1>7, <1>8, <1>9 DEF Stored, n, p

\* The first site is stored, and its form has its types.
LEMMA SiteFormInitial == Init => SiteFormInv
<1> SUFFICES ASSUME Init PROVE FormTypes /\ Stored(site)
  BY OriginsInitial DEF SiteFormInv
<1>1. PICK d \in Domains, n \in Nodes :
          site = [domains |-> <<d>>, enabled |-> TRUE, nodes |-> {n},
                  primary |-> [scheme |-> "https", sni |-> Blank], backup |-> NoOrigin,
                  passthrough |-> FALSE, body_size |-> 128, ttl |-> Null,
                  tcp_only |-> FALSE, forwards |-> <<FirstForward>>]
  BY DEF Init
<1>2. FirstForward \in Forward /\ ValidForward(FirstForward) /\ NormalizedForward(FirstForward) = FirstForward
  BY SiteFormAssumption DEF FirstForward, Forward, ValidForward, NormalizedForward, Blank
<1>3. <<FirstForward>> \in Seq(Forward) /\ normalizeTCPForwards(<<FirstForward>>)
  BY <1>2, SiteFormAssumption DEF normalizeTCPForwards
<1>4. <<d>> \in Seq(Domains) /\ <<d>> # <<>> /\ IsInjective(<<d>>)
  BY DEF IsInjective
<1>5. site.forwards = <<FirstForward>> /\ site.domains = <<d>>
  BY <1>1
<1>6. ValidOrigins(site)
  BY <1>1 DEF ValidOrigins, ValidateOrigin, Blank, UsesTLS
<1>7. sentOrigin(site.primary) = site.primary /\ site.backup = NoOrigin
  BY <1>1 DEF sentOrigin
<1>8. \A i \in DOMAIN site.forwards : NormalizedForward(site.forwards[i]) = site.forwards[i]
  BY <1>2, <1>5
<1>9. Stored(site)
  <2>1. site.nodes # {} /\ site.body_size # 200 /\ site.ttl # 30
    BY <1>1 DEF Null
  <2>2. site = [domains |-> site.domains, enabled |-> site.enabled, nodes |-> site.nodes,
                primary |-> site.primary, backup |-> site.backup,
                passthrough |-> site.passthrough, body_size |-> site.body_size,
                ttl |-> site.ttl, tcp_only |-> site.tcp_only, forwards |-> site.forwards]
    BY <1>1
  <2> QED
    BY <1>3, <1>4, <1>5, <1>6, <1>7, <1>8, <2>1, <2>2 DEF Stored
<1>10. draft.domains = site.domains /\ draft.forwards = site.forwards
  BY <1>4, <1>5 DEF Init, draftFromSite, join
<1> QED
  BY <1>3, <1>4, <1>5, <1>9, <1>10 DEF FormTypes

\* A form drawn from a stored site has its types.
LEMMA DrawnTypes ==
    ASSUME NEW s, Stored(s)
    PROVE  /\ draftFromSite(s).domains = s.domains /\ draftFromSite(s).forwards = s.forwards
           /\ draftFromSite(s).domains \in Seq(Domains \cup {Blank})
           /\ draftFromSite(s).forwards \in Seq(Forward)
<1>1. draftFromSite(s).domains = s.domains /\ draftFromSite(s).forwards = s.forwards
  BY DEF draftFromSite, join, Stored
<1> QED
  BY <1>1 DEF Stored

\* Editing, saving and revoking keep what is stored of the site.
LEMMA SiteFormStep == SiteFormInv /\ [Next]_vars => SiteFormInv'
<1> SUFFICES ASSUME SiteFormInv, [Next]_vars PROVE FormTypes' /\ Stored(site)'
  BY OriginsStep DEF SiteFormInv
<1>a. FormTypes /\ Stored(site) /\ draft \in DraftsOf(draft)
  BY DEF SiteFormInv, OriginsInv
<1>b. ASSUME UNCHANGED site, draft'.domains \in Seq(Domains \cup {Blank}), draft'.forwards \in Seq(Forward)
      PROVE  FormTypes' /\ Stored(site)'
  <2>1. FormTypes'
    BY <1>b DEF FormTypes
  <2>2. Stored(site)'
    BY <1>a, <1>b
  <2> QED
    BY <2>1, <2>2
<1>1. CASE EditBasic
  <2>1. ASSUME NEW text \in Texts, draft' = [draft EXCEPT !.domains = text]
        PROVE  draft'.domains \in Seq(Domains \cup {Blank}) /\ draft'.forwards = draft.forwards
    <3>1. text \in Seq(Domains \cup {Blank})
      <4>1. PICK n \in 1 .. 2 : text \in [1 .. n -> Domains \cup {Blank}]
        BY DEF Texts
      <4> QED
        BY <4>1
    <3> QED
      BY <1>a, <2>1, <3>1 DEF DraftsOf
  <2>2. ASSUME draft' = [draft EXCEPT !.enabled = ~@]
        PROVE  draft'.domains = draft.domains /\ draft'.forwards = draft.forwards
    BY <1>a, <2>2 DEF DraftsOf
  <2> QED
    BY <1>1, <1>a, <1>b, <2>1, <2>2 DEF EditBasic, Edits, FormTypes
<1>2. CASE EditOrigins \/ EditLimits \/ EditNodes
  <2>1. draft'.domains = draft.domains /\ draft'.forwards = draft.forwards
    BY <1>2, <1>a DEF EditOrigins, EditLimits, EditNodes, DraftsOf
  <2> QED
    BY <1>2, <1>a, <1>b, <2>1 DEF EditOrigins, EditLimits, EditNodes, Edits, FormTypes
<1>3. ASSUME NEW fs \in Seq(Forward), draft' = [draft EXCEPT !.forwards = fs], UNCHANGED site
      PROVE  FormTypes' /\ Stored(site)'
  <2>1. draft'.domains = draft.domains /\ draft'.forwards = fs
    BY <1>3, <1>a DEF DraftsOf
  <2> QED
    BY <1>3, <1>a, <1>b, <2>1 DEF FormTypes
<1>4. CASE AddForward
  <2>1. emptyForward \in Forward
    BY DEF emptyForward, Forward
  <2>2. Append(draft.forwards, emptyForward) \in Seq(Forward)
    BY <1>a, <2>1 DEF FormTypes
  <2> QED
    BY <1>3, <1>4, <2>2 DEF AddForward, Edits
<1>5. CASE UpdateForward
  <2>1. PICK i \in DOMAIN draft.forwards : \E g \in Forward : draft' = [draft EXCEPT !.forwards[i] = g]
    <3>1. ASSUME NEW f \in Forward
          PROVE  /\ \A x \in Ports : [f EXCEPT !.port = x] \in Forward
                 /\ \A x \in {"name", "ip"} : [f EXCEPT !.host = x] \in Forward
                 /\ [f EXCEPT !.tls = ~@] \in Forward
                 /\ \A x \in {Blank, "name"} : [f EXCEPT !.sni = x] \in Forward
      BY DEF Forward
    <3>2. PICK i \in DOMAIN draft.forwards :
            LET f == draft.forwards[i] IN
            \E g \in {[f EXCEPT !.port = x] : x \in Ports} \cup {[f EXCEPT !.host = x] : x \in {"name", "ip"}}
                        \cup {[f EXCEPT !.tls = ~@]}
                        \cup (IF f.tls THEN {[f EXCEPT !.sni = x] : x \in {Blank, "name"}} ELSE {}) :
               draft' = [draft EXCEPT !.forwards[i] = g]
      BY <1>5 DEF UpdateForward
    <3> DEFINE f == draft.forwards[i]
    <3>3. f \in Forward
      BY <1>a, <3>2 DEF FormTypes
    <3>4. PICK g : /\ \/ g \in {[f EXCEPT !.port = x] : x \in Ports}
                      \/ g \in {[f EXCEPT !.host = x] : x \in {"name", "ip"}}
                      \/ g = [f EXCEPT !.tls = ~@]
                      \/ g \in {[f EXCEPT !.sni = x] : x \in {Blank, "name"}}
                   /\ draft' = [draft EXCEPT !.forwards[i] = g]
      BY <3>2
    <3> HIDE DEF f
    <3>5. g \in Forward
      BY <3>1, <3>3, <3>4
    <3> QED
      BY <3>4, <3>5
  <2>2. PICK g \in Forward : draft' = [draft EXCEPT !.forwards[i] = g]
    BY <2>1
  <2>3. draft' = [draft EXCEPT !.forwards = [draft.forwards EXCEPT ![i] = g]]
    BY <2>2
  <2>4. [draft.forwards EXCEPT ![i] = g] \in Seq(Forward)
    BY <1>a, <2>1, <2>2 DEF FormTypes
  <2> QED
    BY <1>3, <1>5, <2>3, <2>4 DEF UpdateForward, Edits
<1>6. CASE RemoveForward
  <2>1. PICK i \in DOMAIN draft.forwards : draft' = [draft EXCEPT !.forwards = RemoveAt(@, i)]
    BY <1>6 DEF RemoveForward
  <2>2. RemoveAt(draft.forwards, i) \in Seq(Forward)
    BY <1>a, <2>1 DEF FormTypes, RemoveAt
  <2> QED
    BY <1>3, <1>6, <2>1, <2>2 DEF RemoveForward, Edits
<1>7. CASE Save
  <2>1. Valid(sitePayload(draft)) /\ site' = Normalized(sitePayload(draft)) /\ draft' = draftFromSite(site')
    BY <1>7 DEF Save
  <2>2. Stored(site')
    BY <2>1, AcceptedIsStored DEF SiteFormInv
  <2>3. FormTypes'
    BY <2>1, <2>2, DrawnTypes DEF FormTypes
  <2>4. Stored(site)'
    BY <2>2
  <2> QED
    BY <2>3, <2>4
<1>8. CASE SaveRejected \/ ChangeNode \/ UNCHANGED vars
  BY <1>8, <1>a, <1>b DEF SaveRejected, ChangeNode, vars, FormTypes
<1> QED
  BY <1>1, <1>2, <1>4, <1>5, <1>6, <1>7, <1>8 DEF Next

\* A stored site is stored again by its untouched form.
LEMMA StoredFormKeepsSite == SiteFormInv => UntouchedSaveKeepsSite
  BY PayloadOfStored, StoredIsNormalized DEF SiteFormInv, UntouchedSaveKeepsSite

\* An accepted save shows what the form showed.
LEMMA SavedView ==
    ASSUME SiteFormInv, Save
    PROVE  View(draft') = View(draft)
<1> DEFINE p == sitePayload(draft)
           s == Normalized(p)
           d == draftFromSite(s)
           Shown(o) == <<o.scheme, IF UsesTLS(o.scheme) THEN o.sni ELSE Blank>>
           Backup(x) == x.backup_enabled /\ x.backup.scheme # Blank
           Kinds(fs) == [i \in DOMAIN fs |-> <<fs[i].port, fs[i].host, fs[i].tls>>]
           V(x) == [names |-> ToSet(x.domains) \ {Blank}, enabled |-> x.enabled, nodes |-> x.nodes,
                    primary |-> Shown(x.primary),
                    backup |-> IF Backup(x) THEN Shown(x.backup) ELSE <<>>,
                    passthrough |-> x.passthrough, body_size |-> x.body_size,
                    ttl |-> IF x.inherit THEN Null ELSE x.ttl, tcp_only |-> x.tcp_only,
                    forwards |-> Kinds(x.forwards)]
<1>1. \A x : View(x) = V(x)
  BY DEF View
<1>2. draft' = d /\ Stored(s) /\ Valid(p)
  BY AcceptedIsStored DEF Save, SiteFormInv
<1>3. /\ draft.domains \in Seq(Domains \cup {Blank}) /\ draft.forwards \in Seq(Forward)
      /\ draft.primary \in Origin /\ draft.backup \in Origin /\ draft.backup_enabled \in BOOLEAN
  BY DEF SiteFormInv, FormTypes, OriginsInv, DraftsOf
<1>4. /\ s.domains = splitList(draft.domains) /\ s.enabled = draft.enabled /\ s.nodes = draft.nodes
      /\ s.primary = sentOrigin(draft.primary)
      /\ s.backup = IF Backup(draft) THEN sentOrigin(draft.backup) ELSE NoOrigin
      /\ s.passthrough = draft.passthrough /\ s.body_size = draft.body_size
      /\ s.ttl = (IF draft.inherit THEN Null ELSE draft.ttl)
      /\ s.tcp_only = draft.tcp_only /\ s.forwards = NormalizedForwards(draft.forwards)
  BY DEF sitePayload, Normalized, NormalizedForwards
<1>5. /\ d.domains = s.domains /\ d.enabled = s.enabled /\ d.nodes = s.nodes
      /\ d.primary = s.primary /\ d.backup_enabled = (s.backup # NoOrigin) /\ d.backup = s.backup
      /\ d.passthrough = s.passthrough /\ d.body_size = s.body_size
      /\ d.inherit = (s.ttl = Null) /\ d.ttl = (IF s.ttl = Null THEN DefaultTTL ELSE s.ttl)
      /\ d.tcp_only = s.tcp_only /\ d.forwards = s.forwards
  BY <1>2, DrawnTypes DEF draftFromSite
<1> HIDE DEF p, s, d
<1>6. ToSet(d.domains) \ {Blank} = ToSet(draft.domains) \ {Blank}
  BY <1>3, <1>4, <1>5, SplitText, SiteFormAssumption
<1>7. ASSUME NEW o \in Origin PROVE Shown(sentOrigin(o)) = Shown(o) /\ sentOrigin(o).scheme = o.scheme
  BY DEF sentOrigin, Origin
<1> HIDE DEF Shown
<1>8. Shown(d.primary) = Shown(draft.primary)
  BY <1>3, <1>4, <1>5, <1>7
<1>9. (IF Backup(d) THEN Shown(d.backup) ELSE <<>>) = (IF Backup(draft) THEN Shown(draft.backup) ELSE <<>>)
  <2>1. CASE Backup(draft)
    <3>1. d.backup = sentOrigin(draft.backup) /\ d.backup.scheme = draft.backup.scheme
      BY <1>3, <1>4, <1>5, <1>7, <2>1
    <3>2. d.backup # NoOrigin
      BY <2>1, <3>1 DEF NoOrigin
    <3>3. Backup(d)
      BY <1>5, <2>1, <3>1, <3>2
    <3> QED
      BY <1>3, <1>7, <2>1, <3>1, <3>3
  <2>2. CASE ~Backup(draft)
    <3>1. ~Backup(d)
      BY <1>4, <1>5, <2>2
    <3> QED
      BY <2>2, <3>1
  <2> QED
    BY <2>1, <2>2
<1>10. (IF d.inherit THEN Null ELSE d.ttl) = (IF draft.inherit THEN Null ELSE draft.ttl)
  BY <1>4, <1>5
<1>11. Kinds(d.forwards) = Kinds(draft.forwards)
  <2>1. d.forwards = NormalizedForwards(draft.forwards)
    BY <1>4, <1>5
  <2>2. /\ DOMAIN d.forwards = DOMAIN draft.forwards
        /\ \A i \in DOMAIN draft.forwards :
               /\ d.forwards[i].port = draft.forwards[i].port
               /\ d.forwards[i].host = draft.forwards[i].host
               /\ d.forwards[i].tls = draft.forwards[i].tls
    BY <1>3, <2>1, NormalForwards
  <2> QED
    BY <2>2
<1> HIDE DEF Backup, Kinds
<1>12. V(d) = V(draft)
  BY <1>4, <1>5, <1>6, <1>8, <1>9, <1>10, <1>11
<1> HIDE DEF V
<1> QED
  BY <1>1, <1>2, <1>12

\* The untouched form of a stored site is accepted and stores the same site:
\* for any domains, nodes, ports and number of forwards, texts of any length.
THEOREM UntouchedFormStoresSame == PageSpec => []UntouchedSaveKeepsSite
<1>1. PageInit => Init
  BY DEF PageInit
<1> QED
  BY <1>1, SiteFormInitial, SiteFormStep, StoredFormKeepsSite, VisitsAreSteps, PTL DEF PageSpec

\* A save that is accepted changes nothing that the form shows.
THEOREM SaveShowsTheSame == PageSpec => SaveKeepsWhatIsShown
<1>1. PageInit => Init
  BY DEF PageInit
<1>2. SiteFormInv => [draft' # draft /\ Save => View(draft') = View(draft)]_vars
  BY SavedView
<1> QED
  BY <1>1, <1>2, SiteFormInitial, SiteFormStep, VisitsAreSteps, PTL
  DEF PageSpec, SaveKeepsWhatIsShown

-----------------------------------------------------------------------------
\* The message center.

\* A message that will not be listed again: its row is dismissed, or it is
\* gone and the time of the message is over.
AwayFrom(table, now, id) ==
    /\ id[1] \in Sources /\ id[2] \in Nat
    /\ \/ table[id[1]] = [state |-> "dismissed", created |-> id[2]]
       \/ id[2] < now /\ (table[id[1]] = NoRow \/ id[2] < table[id[1]].created)

Away(id) == AwayFrom(rows, clock, id)

\* The rows, the requests and the answer on its way.
MessageTypes ==
    /\ clock \in Nat \ {0}
    /\ updated \in [Sources -> Nat]
    /\ rows \in [Sources -> [state : {"none", "unread", "read", "dismissed"}, created : Nat]]
    /\ \A s \in Sources : rows[s].created <= clock
    /\ \A c \in calls : c = [kind |-> c.kind, id |-> c.id, phase |-> c.phase]

\* A deleted message is away as soon as the request is handled, and is in no
\* answer that is still to be received once the console knows.
MessageInv ==
    /\ MessageTypes
    /\ \A id \in deleted : Away(id)
    /\ \A c \in calls : c.kind = "delete" /\ c.phase = "done" => Away(c.id)
    /\ reading.phase = "answered" =>
           \A i \in DOMAIN reading.page.messages : reading.page.messages[i].id \notin deleted

\* Every message of a list is one of a listed row.
LEMMA ListedMessages ==
    ASSUME NEW table, NEW list \in NewestFirst(table), NEW i \in DOMAIN list
    PROVE  \E s \in Listed(table) : list[i].id = <<s, table[s].created>>
<1> DEFINE messages == {[id |-> <<s, table[s].created>>, read |-> table[s].state = "read"] :
                          s \in Listed(table)}
           D == 1 .. Cardinality(messages)
<1>1. PICK q \in SetToSeqs(messages) : list = SubSeq(q, 1, Min({MessageLimit, Len(q)}))
  BY DEF NewestFirst
<1>2. q \in [D -> messages]
  BY <1>1 DEF SetToSeqs
<1>3. Cardinality(messages) \in Nat
  <2> DEFINE message == [s \in Listed(table) |->
                           [id |-> <<s, table[s].created>>, read |-> table[s].state = "read"]]
  <2>1. Listed(table) \in SUBSET Sources
    BY DEF Listed
  <2>2. IsFiniteSet(Listed(table))
    BY <2>1, MessageAssumption, FS_Subset
  <2>3. message \in Surjection(Listed(table), messages)
    BY DEF Surjection
  <2> HIDE DEF message, messages
  <2> QED
    BY <2>2, <2>3, FS_Surjection, FS_CardinalityType
<1> HIDE DEF messages
<1>4. q \in Seq(messages) /\ Len(q) = Cardinality(messages) /\ DOMAIN q = D
  BY <1>2, <1>3
<1>5. Min({MessageLimit, Len(q)}) \in Nat /\ Min({MessageLimit, Len(q)}) <= Len(q)
  <2>1. Len(q) \in Nat /\ MessageLimit \in Nat
    BY <1>3, <1>4, MessageAssumption
  <2>2. \E x \in {MessageLimit, Len(q)} : \A y \in {MessageLimit, Len(q)} : x <= y
    BY <2>1
  <2> QED
    BY <2>1, <2>2 DEF Min
<1>6. i \in DOMAIN q /\ list[i] = q[i]
  BY <1>1, <1>3, <1>4, <1>5
<1>7. list[i] \in messages
  BY <1>4, <1>6
<1> QED
  BY <1>7 DEF messages

\* What a step may do to a row: keep it, change its state, insert it with the
\* time, or drop it when it is older.
RowStep(s) ==
    \/ rows'[s] = rows[s]
    \/ rows[s] # NoRow /\ rows[s].state # "dismissed" /\ rows'[s].created = rows[s].created
    \/ rows[s] = NoRow /\ rows'[s].created = clock
    \/ rows[s].created < clock /\ rows'[s] = NoRow

\* A message that is away stays away.
LEMMA StaysAway ==
    ASSUME MessageTypes, MessageTypes', clock <= clock', \A s \in Sources : RowStep(s),
           NEW id, Away(id)
    PROVE  Away(id)'
<1> DEFINE s == id[1]
           t == id[2]
<1>1. s \in Sources /\ t \in Nat
  BY DEF Away, AwayFrom
<1>2. /\ rows[s] \in [state : {"none", "unread", "read", "dismissed"}, created : Nat]
      /\ rows'[s] \in [state : {"none", "unread", "read", "dismissed"}, created : Nat]
      /\ clock \in Nat /\ clock' \in Nat
  BY <1>1 DEF MessageTypes
<1>3. RowStep(s)
  BY <1>1
<1>4. \/ rows[s] = [state |-> "dismissed", created |-> t]
      \/ t < clock /\ (rows[s] = NoRow \/ t < rows[s].created)
  BY DEF Away, AwayFrom
<1>5. \/ rows'[s] = [state |-> "dismissed", created |-> t]
      \/ t < clock' /\ (rows'[s] = NoRow \/ t < rows'[s].created)
  <2> HIDE DEF s, t
  <2> QED
    BY <1>1, <1>2, <1>3, <1>4 DEF RowStep, NoRow
<1> QED
  BY <1>1, <1>5 DEF Away, AwayFrom

\* A message that is away is in no list of the rows.
LEMMA AwayIsNotListed ==
    ASSUME NEW table, NEW now, NEW id, AwayFrom(table, now, id),
           NEW list \in NewestFirst(table), NEW i \in DOMAIN list
    PROVE  list[i].id # id
<1>1. PICK s \in Listed(table) : list[i].id = <<s, table[s].created>>
  BY ListedMessages
<1>2. table[s].state \in {"unread", "read"}
  BY <1>1 DEF Listed
<1>3. ASSUME list[i].id = id PROVE FALSE
  <2>1. id[1] = s /\ id[2] = table[s].created
    BY <1>1, <1>3
  <2> QED
    BY <1>2, <2>1 DEF AwayFrom, NoRow
<1> QED
  BY <1>3

\* At the start there is no row, no request and no answer.
LEMMA MessageInitial == MessageInit => MessageInv
  BY DEF MessageInit, MessageInv, MessageTypes, NoRow, NotReading, NoInbox

\* A step with which rows only change as they may, and whose requests that were
\* not handled before are not handled deletions, or of messages that are away.
LEMMA MessagesKept ==
    ASSUME MessageInv, MessageTypes', clock <= clock', \A s \in Sources : RowStep(s),
           \A id \in deleted' : id \in deleted \/ Away(id),
           \A c \in calls' : c.kind = "delete" /\ c.phase = "done" => c \in calls \/ Away(c.id)',
           reading'.phase = "answered" => UNCHANGED <<reading, deleted>>
    PROVE  MessageInv'
<1>1. \A id \in deleted' : Away(id)'
  BY StaysAway DEF MessageInv
<1>2. \A c \in calls' : c.kind = "delete" /\ c.phase = "done" => Away(c.id)'
  BY StaysAway DEF MessageInv
<1>3. reading'.phase = "answered" =>
          \A i \in DOMAIN reading'.page.messages : reading'.page.messages[i].id \notin deleted'
  BY DEF MessageInv
<1> QED
  BY <1>1, <1>2, <1>3 DEF MessageInv

\* The request that a handler answers keeps its shape.
LEMMA AnsweredCall ==
    ASSUME MessageTypes, NEW c \in calls, NEW done, Finish(c, done)
    PROVE  /\ \A d \in calls' : d = [kind |-> d.kind, id |-> d.id, phase |-> d.phase]
           /\ \A d \in calls' : d \in calls \/ d = [kind |-> c.kind, id |-> c.id, phase |-> done]
           /\ UNCHANGED <<clock, updated, reading, deleted>>
<1>1. c = [kind |-> c.kind, id |-> c.id, phase |-> c.phase]
  BY DEF MessageTypes
<1>2. [c EXCEPT !.phase = done] = [kind |-> c.kind, id |-> c.id, phase |-> done]
  BY <1>1
<1> QED
  BY <1>2 DEF Finish, MessageTypes

\* A step of the message center keeps deleted messages away.
LEMMA MessageStep == MessageInv /\ [MessageNext]_messageVars => MessageInv'
<1> SUFFICES ASSUME MessageInv, [MessageNext]_messageVars
             PROVE  MessageInv'
  OBVIOUS
<1> DEFINE Row == [state : {"none", "unread", "read", "dismissed"}, created : Nat]
<1>0. /\ MessageTypes
      /\ \A s \in Sources : rows[s] \in Row /\ rows[s].created <= clock /\ updated[s] \in Nat
      /\ clock \in Nat \ {0}
  BY DEF MessageInv, MessageTypes
\* The rows, their times and the history are left alone.
<1>1. ASSUME UNCHANGED <<rows, clock, deleted>>, updated' \in [Sources -> Nat],
             UNCHANGED reading \/ reading'.phase = "idle",
             \A c \in calls' : \/ c \in calls
                              \/ /\ c = [kind |-> c.kind, id |-> c.id, phase |-> c.phase]
                                 /\ c.phase # "done"
      PROVE  MessageInv'
  <2>1. MessageTypes'
    BY <1>0, <1>1 DEF MessageTypes
  <2>2. clock <= clock' /\ \A s \in Sources : RowStep(s)
    BY <1>0, <1>1 DEF RowStep
  <2> QED
    BY <1>1, <2>1, <2>2, MessagesKept
<1>2. CASE PassTime
  <2>1. MessageTypes'
    BY <1>0, <1>2 DEF PassTime, MessageTypes
  <2>2. clock <= clock' /\ \A s \in Sources : RowStep(s)
    BY <1>0, <1>2 DEF RowStep, PassTime
  <2> QED
    BY <1>2, <2>1, <2>2, MessagesKept DEF PassTime
<1>3. ASSUME NEW s \in Sources, WriteSource(s) PROVE MessageInv'
  BY <1>0, <1>1, <1>3 DEF WriteSource, MessageTypes
<1>4. CASE listMessages
  <2>1. \A s \in Sources : rows'[s] = Reconciled(s)
    BY <1>4 DEF listMessages
  <2>2. ASSUME NEW s \in Sources
        PROVE  RowStep(s) /\ rows'[s] \in Row /\ rows'[s].created <= clock
    <3>1. rows[s] \in Row /\ rows[s].created <= clock /\ updated[s] \in Nat /\ clock \in Nat
      BY <1>0
    <3>2. rows'[s] = Reconciled(s)
      BY <2>1
    <3> QED
      BY <3>1, <3>2 DEF RowStep, Reconciled, NoRow
  <2>3. MessageTypes'
    BY <1>0, <1>4, <2>2 DEF listMessages, MessageTypes
  <2>4. \A id \in deleted' : Away(id)'
    BY <1>0, <1>4, <2>2, <2>3, StaysAway DEF MessageInv, listMessages
  <2>5. \A c \in calls' : c.kind = "delete" /\ c.phase = "done" => Away(c.id)'
    BY <1>0, <1>4, <2>2, <2>3, StaysAway DEF MessageInv, listMessages
  <2>6. PICK list \in NewestFirst(rows') : reading'.page.messages = list
    BY <1>4 DEF listMessages
  <2>7. \A i \in DOMAIN list : list[i].id \notin deleted'
    BY <2>4, <2>6, AwayIsNotListed DEF Away
  <2> QED
    BY <2>3, <2>4, <2>5, <2>6, <2>7 DEF MessageInv
\* A handler that changes one row, or all, and answers a request.
<1>5. ASSUME NEW c \in calls, NEW done, Finish(c, done), rows' \in [Sources -> Row],
             \A s \in Sources : RowStep(s) /\ rows'[s].created <= clock,
             c.kind = "delete" /\ done = "done" => AwayFrom(rows', clock, c.id)
      PROVE  MessageInv'
  <2>1. MessageTypes'
    BY <1>0, <1>5, AnsweredCall DEF MessageTypes
  <2>2. \A d \in calls' : d.kind = "delete" /\ d.phase = "done" => d \in calls \/ Away(d.id)'
    BY <1>0, <1>5, AnsweredCall DEF Away
  <2> QED
    BY <1>0, <1>5, <2>1, <2>2, AnsweredCall, MessagesKept
<1>6. ASSUME NEW c \in calls, NotFound(c) PROVE MessageInv'
  BY <1>0, <1>5, <1>6 DEF NotFound, RowStep, MessageTypes
<1>7. ASSUME NEW c \in calls, MarkMessageRead(c) PROVE MessageInv'
  <2>1. c.id[1] \in Sources /\ rows[c.id[1]].state \in {"unread", "read"}
    BY <1>7 DEF MarkMessageRead, Found, Listed
  <2>2. rows' \in [Sources -> Row] /\ \A s \in Sources : RowStep(s) /\ rows'[s].created <= clock
    BY <1>0, <1>7, <2>1 DEF MarkMessageRead, RowStep, MessageTypes, NoRow
  <2> QED
    BY <1>5, <1>7, <2>2 DEF MarkMessageRead
<1>8. ASSUME NEW c \in calls, MarkAllMessagesRead(c) PROVE MessageInv'
  <2>1. rows' \in [Sources -> Row] /\ \A s \in Sources : RowStep(s) /\ rows'[s].created <= clock
    BY <1>0, <1>8 DEF MarkAllMessagesRead, RowStep, MessageTypes, NoRow
  <2> QED
    BY <1>5, <1>8, <2>1 DEF MarkAllMessagesRead
<1>9. ASSUME NEW c \in calls, DeleteMessage(c) PROVE MessageInv'
  <2>1. /\ c.id[1] \in Sources /\ rows[c.id[1]].state \in {"unread", "read"}
        /\ rows[c.id[1]].created = c.id[2]
    BY <1>9 DEF DeleteMessage, Found, Listed
  <2>2. rows' \in [Sources -> Row] /\ \A s \in Sources : RowStep(s) /\ rows'[s].created <= clock
    BY <1>0, <1>9, <2>1 DEF DeleteMessage, Dismissed, RowStep, MessageTypes, NoRow
  <2>3. AwayFrom(rows', clock, c.id)
    BY <1>0, <1>9, <2>1 DEF DeleteMessage, Dismissed, AwayFrom, MessageTypes
  <2> QED
    BY <1>5, <1>9, <2>2, <2>3 DEF DeleteMessage
<1>10. ASSUME NEW c \in calls, invalidate(c) PROVE MessageInv'
  <2>1. MessageTypes' /\ clock <= clock' /\ \A s \in Sources : RowStep(s)
    BY <1>0, <1>10 DEF invalidate, MessageTypes, RowStep
  <2>2. \A id \in deleted' : id \in deleted \/ Away(id)
    BY <1>10 DEF invalidate, MessageInv
  <2> QED
    BY <1>10, <2>1, <2>2, MessagesKept DEF invalidate, NotReading
<1>11. ASSUME NEW c \in calls, CallFails(c) PROVE MessageInv'
  BY <1>0, <1>1, <1>11 DEF CallFails, MessageTypes
<1>12. CASE ReceiveMessages
  BY <1>0, <1>1, <1>12 DEF ReceiveMessages, MessageTypes, NotReading
<1>13. CASE LoseMessages
  BY <1>0, <1>1, <1>13 DEF LoseMessages, MessageTypes, NotReading
<1>14. CASE TurnPage
  BY <1>0, <1>1, <1>14 DEF TurnPage, MessageTypes
<1>15. CASE markAll
  BY <1>0, <1>1, <1>15 DEF markAll, Call, MessageTypes
<1>16. ASSUME NEW f, setFilter(f) PROVE MessageInv'
  BY <1>0, <1>1, <1>16 DEF setFilter, MessageTypes
<1>17. ASSUME NEW m, openMessage(m) \/ remove(m) PROVE MessageInv'
  BY <1>0, <1>1, <1>17 DEF openMessage, remove, Call, MessageTypes
<1>18. CASE UNCHANGED messageVars
  BY <1>0, <1>1, <1>18 DEF messageVars, MessageTypes
<1> QED
  BY <1>2, <1>3, <1>4, <1>6, <1>7, <1>8, <1>9, <1>10, <1>11, <1>12, <1>13, <1>14, <1>15, <1>16,
     <1>17, <1>18
  DEF MessageNext

\* Only receiving an answer changes the list.
LEMMA ReceivedList ==
    ASSUME MessageInv, [MessageNext]_messageVars, inbox' # inbox
    PROVE  \A i \in DOMAIN inbox'.messages : inbox'.messages[i].id \notin deleted
<1>1. ReceiveMessages
  BY DEF MessageNext, messageVars, PassTime, WriteSource, listMessages, NotFound, MarkMessageRead,
         MarkAllMessagesRead, DeleteMessage, Finish, invalidate, CallFails, LoseMessages, TurnPage,
         markAll, setFilter, openMessage, remove
<1> QED
  BY <1>1 DEF ReceiveMessages, MessageInv

\* A message whose deletion the console saw succeed is in no list that it
\* receives afterwards: for any sources, limits and times.
THEOREM DeletedIsNotListed == PageSpec => DeletedStaysAway
<1>1. PageInit => MessageInit
  BY DEF PageInit
<1>2. MessageInv /\ [MessageNext]_messageVars =>
          [inbox' # inbox =>
             \A i \in DOMAIN inbox'.messages : inbox'.messages[i].id \notin deleted]_messageVars
  BY ReceivedList
<1> QED
  BY <1>1, <1>2, MessageInitial, MessageStep, VisitsAreSteps, PTL DEF PageSpec, DeletedStaysAway

-----------------------------------------------------------------------------
\* The access logs.

\* Where pages begin.
Offsets == {LogPageSize * k : k \in Nat}

\* The entries found, as far as their order goes.
LogsTypes ==
    /\ time \in Nat
    /\ log \subseteq Entry /\ IsFiniteSet(log)
    /\ search.to \in Nat /\ search.to <= time
    /\ offset \in Offsets /\ DOMAIN pages \subseteq Offsets

\* What is cached, and what is on its way, are pages of what the search finds
\* now, unless an entry came late.
PagesAreCurrent ==
    ~late => /\ \A o \in DOMAIN pages : pages[o] = Search(search, o)
             /\ loading.phase = "answered" => loading.page = Search(search, offset)

LogsInv == LogsTypes /\ PagesAreCurrent

\* The order of the query puts any two entries in one order, and is transitive.
LEMMA OrderOfEntries ==
    ASSUME NEW a \in Entry, NEW b \in Entry, NEW c \in Entry
    PROVE  /\ a = b \/ Before(a, b) \/ Before(b, a)
           /\ ~Before(a, a)
           /\ Before(a, b) /\ Before(b, c) => Before(a, c)
<1>1. /\ a.time \in Nat /\ b.time \in Nat /\ c.time \in Nat
      /\ a.site \in Nat /\ b.site \in Nat /\ c.site \in Nat
  <2>1. \A n \in 1 .. MaxTime : n \in Nat
    BY LogsAssumption
  <2>2. \A n \in LogSites : n \in Nat
    BY LogsAssumption
  <2> QED
    BY <2>1, <2>2 DEF Entry
<1>2. a.time = b.time /\ a.site = b.site => a = b
  BY DEF Entry
<1> QED
  BY <1>1, <1>2 DEF Before

\* The entries found have the positions from 1 to their number, one each.
LEMMA PositionsAreDistinct ==
    ASSUME NEW s, log \subseteq Entry, IsFiniteSet(log)
    PROVE  /\ IsFiniteSet(Matches(s)) /\ Cardinality(Matches(s)) \in Nat
           /\ \A e \in Matches(s) : Position(s, e) \in 1 .. Cardinality(Matches(s))
           /\ \A e, f \in Matches(s) : Position(s, e) = Position(s, f) => e = f
           /\ \A n \in 1 .. Cardinality(Matches(s)) : \E e \in Matches(s) : Position(s, e) = n
<1> DEFINE M == Matches(s)
           B(e) == {x \in M : Before(x, e)}
<1>1. M \subseteq Entry /\ M \in SUBSET log
  BY DEF Matches
<1>2. IsFiniteSet(M) /\ Cardinality(M) \in Nat
  BY <1>1, FS_Subset, FS_CardinalityType
<1>3. \A e \in M : IsFiniteSet(B(e)) /\ Cardinality(B(e)) \in Nat
  <2> SUFFICES ASSUME NEW e \in M PROVE IsFiniteSet(B(e)) /\ Cardinality(B(e)) \in Nat
    OBVIOUS
  <2>1. B(e) \in SUBSET M
    OBVIOUS
  <2> HIDE DEF B, M
  <2> QED
    BY <1>2, <2>1, FS_Subset, FS_CardinalityType
<1>4. ASSUME NEW e \in M PROVE Cardinality(B(e)) < Cardinality(M)
  <2>1. B(e) \in SUBSET M /\ e \notin B(e)
    BY <1>1, OrderOfEntries
  <2>2. Cardinality(B(e)) <= Cardinality(M) /\ Cardinality(B(e)) # Cardinality(M)
    <3> HIDE DEF B, M
    <3> QED
      BY <1>2, <2>1, FS_Subset
  <2> HIDE DEF B, M
  <2> QED
    BY <1>2, <1>3, <2>2
<1>5. ASSUME NEW e \in M, NEW f \in M, Before(e, f) PROVE Cardinality(B(e)) < Cardinality(B(f))
  <2>1. B(e) \in SUBSET B(f) /\ e \in B(f) /\ e \notin B(e)
    BY <1>1, <1>5, OrderOfEntries
  <2>2. IsFiniteSet(B(f)) /\ Cardinality(B(f)) \in Nat /\ Cardinality(B(e)) \in Nat
    BY <1>3
  <2>3. Cardinality(B(e)) <= Cardinality(B(f)) /\ Cardinality(B(e)) # Cardinality(B(f))
    <3> HIDE DEF B, M
    <3> QED
      BY <2>1, <2>2, FS_Subset
  <2> HIDE DEF B, M
  <2> QED
    BY <2>2, <2>3
<1>6. \A e \in M : Position(s, e) = Cardinality(B(e)) + 1
  BY DEF Position
<1> HIDE DEF B
<1>7. \A e \in M : Position(s, e) \in 1 .. Cardinality(M)
  <2> HIDE DEF M
  <2> QED
    BY <1>2, <1>3, <1>4, <1>6
<1>8. ASSUME NEW e \in M, NEW f \in M, Position(s, e) = Position(s, f) PROVE e = f
  <2>1. e = f \/ Before(e, f) \/ Before(f, e)
    BY <1>1, OrderOfEntries
  <2>2. Cardinality(B(e)) = Cardinality(B(f))
    BY <1>3, <1>6, <1>8
  <2> HIDE DEF M
  <2> QED
    BY <1>3, <1>5, <2>1, <2>2
<1>9. \A n \in 1 .. Cardinality(M) : \E e \in M : Position(s, e) = n
  <2> DEFINE place == [e \in M |-> Position(s, e)]
  <2> HIDE DEF M
  <2>1. place \in [M -> Nat \ {0}] /\ \A e \in M : place[e] <= Cardinality(M)
    BY <1>2, <1>7
  <2>2. \A e, f \in M : place[e] = place[f] => e = f
    BY <1>8
  <2>3. \A e \in M : place[e] = Position(s, e)
    OBVIOUS
  <2> HIDE DEF place
  <2> QED
    BY <1>2, <2>1, <2>2, <2>3, Numbered
<1> QED
  BY <1>2, <1>7, <1>8, <1>9

\* A page that is not the last one is full.
LEMMA FullPage ==
    ASSUME NEW s, NEW o \in Nat, log \subseteq Entry, IsFiniteSet(log), Search(s, o).has_more
    PROVE  Cardinality(Search(s, o).logs) = LogPageSize
<1> DEFINE M == Matches(s)
           T == {e \in M : Position(s, e) \in o + 1 .. o + LogPageSize}
           S == o + 1 .. o + LogPageSize
           place == [e \in T |-> Position(s, e)]
<1>1. Search(s, o).logs = T /\ Cardinality(M) > o + LogPageSize
  BY DEF Search
<1>2. IsFiniteSet(S) /\ Cardinality(S) = LogPageSize
  <2>1. o + 1 \in Int /\ o + LogPageSize \in Int
    BY LogsAssumption
  <2> QED
    BY <2>1, LogsAssumption, FS_Interval
<1>3. Cardinality(M) \in Nat /\ \A n \in 1 .. Cardinality(M) : \E e \in M : Position(s, e) = n
  BY PositionsAreDistinct
<1>4. \A e, f \in T : Position(s, e) = Position(s, f) => e = f
  BY PositionsAreDistinct
<1> HIDE DEF M
<1>5. \A n \in S : \E e \in T : Position(s, e) = n
  BY <1>1, <1>3, LogsAssumption
<1>6. place \in Injection(T, S) /\ place \in Surjection(T, S)
  BY <1>4, <1>5 DEF Injection, IsInjective, Surjection
<1> HIDE DEF T, S, place
<1> QED
  BY <1>1, <1>2, <1>6, FS_Injection

\* The pages up to the last one hold what the search finds.
LEMMA AllPages ==
    ASSUME NEW s, NEW o \in Offsets, log \subseteq Entry, IsFiniteSet(log),
           ~Search(s, o).has_more, NEW e \in Matches(s)
    PROVE  \E p \in 0 .. o : p % LogPageSize = 0 /\ e \in Search(s, p).logs
<1> DEFINE r == Position(s, e)
           P == LogPageSize
<1>1. r \in Nat \ {0} /\ r <= Cardinality(Matches(s)) /\ Cardinality(Matches(s)) \in Nat
  BY PositionsAreDistinct
<1>2. PICK k \in Nat : o = P * k
  BY DEF Offsets
<1>3. P \in Nat \ {0} /\ o \in Nat
  BY <1>2, LogsAssumption, NextMultiple
<1>4. r <= P * k + P
  <2>1. ~(Cardinality(Matches(s)) > o + P)
    BY DEF Search
  <2> HIDE DEF r, P
  <2>2. Cardinality(Matches(s)) <= o + P
    BY <1>1, <1>3, <2>1
  <2> QED
    BY <1>1, <1>2, <1>3, <2>2
<1>5. PICK q \in Nat : /\ P * q \in Nat /\ (P * q) % P = 0
                        /\ P * q < r /\ r <= P * q + P /\ P * q <= P * k
  <2> HIDE DEF r, P
  <2> QED
    BY <1>1, <1>3, <1>4, PageOfPosition
<1> DEFINE p == P * q
<1>6. p \in 0 .. o /\ p % P = 0 /\ p < r /\ r <= p + P
  BY <1>2, <1>3, <1>5
<1> HIDE DEF p
<1>7. e \in Search(s, p).logs
  <2>1. r \in p + 1 .. p + P
    BY <1>1, <1>3, <1>6
  <2> QED
    BY <2>1 DEF Search
<1> QED
  BY <1>6, <1>7

\* Pages of different offsets share no entry.
LEMMA PagesAreDisjoint ==
    ASSUME NEW s, NEW o \in Offsets, NEW p \in Offsets, o # p, log \subseteq Entry, IsFiniteSet(log)
    PROVE  Search(s, o).logs \cap Search(s, p).logs = {}
<1>1. PICK k \in Nat : o = LogPageSize * k
  BY DEF Offsets
<1>2. PICK l \in Nat : p = LogPageSize * l
  BY DEF Offsets
<1>3. o \in Nat /\ p \in Nat /\ LogPageSize \in Nat \ {0}
  BY <1>1, <1>2, LogsAssumption, NextMultiple
<1>4. o + LogPageSize <= p \/ p + LogPageSize <= o
  <2>1. k < l \/ l < k
    BY <1>1, <1>2
  <2>2. CASE k < l
    BY <1>1, <1>2, <1>3, <2>2
  <2>3. CASE l < k
    BY <1>1, <1>2, <1>3, <2>3
  <2> QED
    BY <2>1, <2>2, <2>3
<1>5. \A n \in Nat : ~(n \in o + 1 .. o + LogPageSize /\ n \in p + 1 .. p + LogPageSize)
  BY <1>3, <1>4
<1>6. \A e \in Matches(s) : Position(s, e) \in Nat
  BY PositionsAreDistinct
<1> QED
  BY <1>5, <1>6 DEF Search

\* Pages that are current share nothing, are full and skip nothing.
LEMMA CurrentPagesDoNotShift == LogsInv => PagesDoNotShift
<1> SUFFICES ASSUME LogsInv, ~late, NEW o \in DOMAIN pages
             PROVE  /\ \A p \in DOMAIN pages : o # p => pages[o].logs \cap pages[p].logs = {}
                    /\ IF pages[o].has_more
                       THEN Cardinality(pages[o].logs) = LogPageSize
                       ELSE {p \in 0 .. o : p % LogPageSize = 0} \subseteq DOMAIN pages =>
                                Matches(search) = UNION {pages[p].logs : p \in DOMAIN pages}
  BY DEF PagesDoNotShift
<1>1. /\ log \subseteq Entry /\ IsFiniteSet(log)
      /\ DOMAIN pages \subseteq Offsets
      /\ \A p \in DOMAIN pages : pages[p] = Search(search, p)
  BY DEF LogsInv, LogsTypes, PagesAreCurrent
<1>2. \A p \in DOMAIN pages : o # p => pages[o].logs \cap pages[p].logs = {}
  BY <1>1, PagesAreDisjoint
<1>3. ASSUME pages[o].has_more PROVE Cardinality(pages[o].logs) = LogPageSize
  <2>1. o \in Nat
    BY <1>1, LogsAssumption, NextMultiple DEF Offsets
  <2> QED
    BY <1>1, <1>3, <2>1, FullPage
<1>4. ASSUME ~pages[o].has_more, {p \in 0 .. o : p % LogPageSize = 0} \subseteq DOMAIN pages
      PROVE  Matches(search) = UNION {pages[p].logs : p \in DOMAIN pages}
  <2>1. ASSUME NEW e \in Matches(search) PROVE \E p \in DOMAIN pages : e \in pages[p].logs
    <3>1. ~Search(search, o).has_more
      BY <1>1, <1>4
    <3>2. PICK p \in 0 .. o : p % LogPageSize = 0 /\ e \in Search(search, p).logs
      BY <1>1, <3>1, AllPages
    <3> QED
      BY <1>1, <1>4, <3>2
  <2>2. \A p \in DOMAIN pages : pages[p].logs \subseteq Matches(search)
    BY <1>1 DEF Search
  <2> QED
    BY <2>1, <2>2
<1> QED
  BY <1>2, <1>3, <1>4

\* At the start nothing is logged and no page was read.
LEMMA LogsInitial == LogsInit => LogsInv
<1> SUFFICES ASSUME LogsInit PROVE LogsInv
  OBVIOUS
<1>1. log \subseteq Entry /\ IsFiniteSet(log)
  BY FS_EmptySet DEF LogsInit
<1>2. time \in Nat /\ search.to \in Nat /\ search.to <= time
  BY DEF LogsInit, appliedSearch
<1>3. offset \in Offsets /\ DOMAIN pages = {}
  BY LogsAssumption, NextMultiple DEF LogsInit, Offsets
<1>4. loading.phase # "answered"
  BY DEF LogsInit, Loading, NotLoading
<1> QED
  BY <1>1, <1>2, <1>3, <1>4 DEF LogsInv, LogsTypes, PagesAreCurrent

\* A step that leaves what the search finds alone keeps its pages current.
LEMMA SameMatches ==
    ASSUME LogsInv, LogsTypes', UNCHANGED search, Matches(search)' = Matches(search),
           ~late' => ~late,
           \A o \in DOMAIN pages' :
               \/ o \in DOMAIN pages /\ pages'[o] = pages[o]
               \/ loading.phase = "answered" /\ o = offset /\ pages'[o] = loading.page,
           loading'.phase = "answered" =>
               /\ UNCHANGED offset
               /\ UNCHANGED loading \/ loading'.page = Search(search, offset)
    PROVE  LogsInv'
<1>1. \A o : Search(search, o)' = Search(search, o)
  BY DEF Search, Position
<1> SUFFICES ASSUME ~late'
             PROVE  /\ \A o \in DOMAIN pages' : pages'[o] = Search(search, o)
                    /\ loading'.phase = "answered" => loading'.page = Search(search, offset')
  BY <1>1 DEF LogsInv, PagesAreCurrent
<1> QED
  BY DEF LogsInv, PagesAreCurrent

\* A step of the access log page keeps its pages current.
LEMMA LogsStep == LogsInv /\ [LogsNext]_logVars => LogsInv'
<1> SUFFICES ASSUME LogsInv, [LogsNext]_logVars
             PROVE  LogsInv'
  OBVIOUS
<1> USE DEF LogsInv
<1>1. CASE Tick
  <2>1. LogsTypes'
    BY <1>1 DEF LogsInv, Tick, LogsTypes, Entry, Offsets
  <2>2. Matches(search)' = Matches(search)
    BY <1>1 DEF Tick, Matches, InRange
  <2> QED
    BY <1>1, <2>1, <2>2, SameMatches DEF Tick
<1>2. ASSUME NEW e \in Entry, Upload(e) PROVE LogsInv'
  <2>1. LogsTypes'
    <3>1. IsFiniteSet(log')
      BY <1>2, FS_AddElement DEF Upload, LogsTypes
    <3> QED
      BY <1>2, <3>1 DEF Upload, LogsTypes, Entry, Offsets
  <2>2. CASE late'
    BY <2>1, <2>2 DEF PagesAreCurrent
  <2>3. CASE ~late'
    <3>1. ~late /\ ~(e.time < time /\ e.time < search.to)
      BY <1>2, <2>3 DEF Upload
    <3>2. e.time \in Nat
      BY LogsAssumption DEF Entry
    <3>3. ~(e.time < search.to)
      BY <1>2, <3>1, <3>2 DEF Upload, LogsTypes
    <3>4. Matches(search)' = Matches(search)
      BY <1>2, <3>3 DEF Upload, Matches, InRange
    <3> QED
      BY <1>2, <2>1, <3>1, <3>4, SameMatches DEF Upload
  <2> QED
    BY <2>2, <2>3
<1>3. ASSUME NEW f, setDraft(f) PROVE LogsInv'
  <2>1. LogsTypes'
    BY <1>3 DEF setDraft, LogsTypes, Entry, Offsets
  <2>2. Matches(search)' = Matches(search)
    BY <1>3 DEF setDraft, Matches, InRange
  <2> QED
    BY <1>3, <2>1, <2>2, SameMatches DEF setDraft
<1>4. ASSUME NEW f, apply(appliedSearch(f)) PROVE LogsInv'
  <2>1. LogsTypes'
    <3>1. search'.to \in Nat /\ search'.to <= time'
      BY <1>4 DEF apply, appliedSearch, LogsTypes
    <3>2. offset' \in Offsets
      BY <1>4, LogsAssumption, NextMultiple DEF apply, Offsets
    <3>3. DOMAIN pages' \subseteq Offsets
      BY <1>4 DEF apply, LogsTypes
    <3>4. UNCHANGED <<time, log>>
      BY <1>4 DEF apply
    <3> QED
      BY <3>1, <3>2, <3>3, <3>4 DEF LogsTypes, Entry, Offsets
  <2>2. loading'.phase # "answered"
    BY <1>4 DEF apply, NotLoading, Loading
  <2>3. CASE search' = search
    <3>1. Matches(search)' = Matches(search)
      BY <1>4, <2>3 DEF apply, Matches, InRange
    <3> QED
      BY <1>4, <2>1, <2>2, <2>3, <3>1, SameMatches DEF apply
  <2>4. CASE search' # search
    <3>1. DOMAIN pages' = {}
      BY <1>4, <2>4 DEF apply
    <3> QED
      BY <2>1, <2>2, <3>1 DEF PagesAreCurrent
  <2> QED
    BY <2>3, <2>4
<1>5. CASE submit
  BY <1>4, <1>5 DEF submit
<1>6. CASE reset
  BY <1>4, <1>6 DEF reset
<1>7. CASE ServeSearch
  <2>1. LogsTypes'
    BY <1>7 DEF ServeSearch, LogsTypes, Entry, Offsets
  <2>2. Matches(search)' = Matches(search)
    BY <1>7 DEF ServeSearch, Matches, InRange
  <2>3. loading'.page = Search(search, offset)
    BY <1>7 DEF ServeSearch
  <2> QED
    BY <1>7, <2>1, <2>2, <2>3, SameMatches DEF ServeSearch
<1>8. CASE ReceiveLogs
  <2>1. LogsTypes'
    BY <1>8 DEF ReceiveLogs, LogsTypes, Entry, Offsets
  <2>2. Matches(search)' = Matches(search)
    BY <1>8 DEF ReceiveLogs, Matches, InRange
  <2>3. loading'.phase # "answered"
    BY <1>8 DEF ReceiveLogs, NotLoading
  <2> QED
    BY <1>8, <2>1, <2>2, <2>3, SameMatches DEF ReceiveLogs
<1>9. CASE LogsFail
  <2>1. LogsTypes'
    BY <1>9 DEF LogsFail, LogsTypes, Entry, Offsets
  <2>2. Matches(search)' = Matches(search)
    BY <1>9 DEF LogsFail, Matches, InRange
  <2>3. loading'.phase # "answered"
    BY <1>9 DEF LogsFail, NotLoading
  <2> QED
    BY <1>9, <2>1, <2>2, <2>3, SameMatches DEF LogsFail
<1>10. ASSUME NEW o \in Offsets, setOffset(o) PROVE LogsInv'
  <2>1. LogsTypes'
    BY <1>10 DEF setOffset, LogsTypes, Entry, Offsets
  <2>2. Matches(search)' = Matches(search)
    BY <1>10 DEF setOffset, Matches, InRange
  <2>3. loading'.phase # "answered"
    BY <1>10 DEF setOffset, NotLoading, Loading
  <2> QED
    BY <1>10, <2>1, <2>2, <2>3, SameMatches DEF setOffset
<1>11. PICK k \in Nat : offset = LogPageSize * k
  BY DEF LogsTypes, Offsets
<1>12. CASE previousPage
  <2>1. (IF offset > LogPageSize THEN offset - LogPageSize ELSE 0) \in Offsets
    BY <1>11, LogsAssumption, NextMultiple DEF Offsets
  <2> QED
    BY <1>10, <1>12, <2>1 DEF previousPage
<1>13. CASE nextPage
  <2>1. offset + LogPageSize \in Offsets
    BY <1>11, LogsAssumption, NextMultiple DEF Offsets
  <2> QED
    BY <1>10, <1>13, <2>1 DEF nextPage
<1>14. CASE UNCHANGED logVars
  <2>1. LogsTypes'
    BY <1>14 DEF logVars, LogsTypes, Entry, Offsets
  <2>2. Matches(search)' = Matches(search)
    BY <1>14 DEF logVars, Matches, InRange
  <2> QED
    BY <1>14, <2>1, <2>2, SameMatches DEF logVars
<1> QED
  BY <1>1, <1>2, <1>3, <1>5, <1>6, <1>7, <1>8, <1>9, <1>12, <1>13, <1>14 DEF LogsNext

\* Turning the pages of a search repeats and skips no entry, unless one came
\* late: for any sites, times, ranges and page size.
THEOREM PagesStay == PageSpec => []PagesDoNotShift
<1>1. PageInit => LogsInit
  BY DEF PageInit
<1> QED
  BY <1>1, LogsInitial, LogsStep, CurrentPagesDoNotShift, VisitsAreSteps, PTL DEF PageSpec

=============================================================================
