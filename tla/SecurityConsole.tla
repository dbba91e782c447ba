-------------------------- MODULE SecurityConsole --------------------------
(***************************************************************************)
(* The console's security page (security-page.tsx) during one visit, with  *)
(* the handlers of internal/control/security.go.  The page polls an        *)
(* overview of everything every 15 seconds; each change it makes answers   *)
(* with a whole new overview, which replaces the cached one while a poll   *)
(* may be under way.  Access policies and rate limits are edited in        *)
(* dialogs whose state starts from the policy in the cached overview.      *)
(*                                                                         *)
(* An overview is abstracted to the number of changes it reflects.  The    *)
(* policies in it are whatever the server's normalisation lets through, so *)
(* opening one for editing takes any normalised policy.                    *)
(***************************************************************************)
EXTENDS Naturals, FiniteSets

CONSTANTS
    MaxVersion,   \* bound: changes to the overview during the visit
    MaxRequests   \* bound: requests under way

VARIABLES
    version,    \* changes to policies, bans, events and coverage so far
    overview,     \* the version of the cached overview
    poll,       \* the poll under way: [phase, version read]
    dialogs,    \* the open dialogs: policy, rate and remove
    policy,     \* the state of the access policy dialog
    rate,       \* the state of the rate limit dialog
    requests    \* mutations under way

securityVars == <<version, overview, poll, dialogs, policy, rate, requests>>
-----------------------------------------------------------------------------
Classes == {2, 4, 5}      \* 3xx is treated like 2xx
Durations == {0, 3600}    \* 0 is the duration of a policy that only blocks
Thresholds == {3, 101}    \* 101 is over the greatest number of 429 answers

Policy == [action: {"block", "ban"}, duration: Durations]
Rate == [conditional: BOOLEAN, classes: SUBSET Classes, ban: BOOLEAN,
         after: Thresholds]

\* What NormalizeSecurityPolicy accepts, apart from the name, the pattern and
\* the priority, and what it makes of it.
ValidPolicy(p) == p.action = "ban" => p.duration # 0
NormalizeSecurityPolicy(p) ==
    IF p.action = "block" THEN [p EXCEPT !.duration = 0] ELSE p

\* What NormalizeRateLimitPolicy accepts.
ValidRate(r) ==
    /\ r.after <= 100
    /\ r.ban => r.conditional
    /\ r.conditional => r.classes # {}
    /\ r.ban => r.classes \subseteq {4, 5}

\* What it makes of it; omitempty leaves the empty classes out of the
\* overview, and the dialog then starts with 4xx and 5xx.
NormalizeRateLimitPolicy(r) ==
    [r EXCEPT !.classes = IF r.conditional THEN @ ELSE {4, 5}]

StoredPolicies == {NormalizeSecurityPolicy(p): p \in {q \in Policy: ValidPolicy(q)}}
StoredRates == {NormalizeRateLimitPolicy(r): r \in {q \in Rate: ValidRate(q)}}

NewPolicy == [action |-> "ban", duration |-> 3600]
NewRate == [conditional |-> FALSE, classes |-> {4, 5}, ban |-> FALSE, after |-> 3]

\* What the page does with a rate limit's state when it sends it.
SentRate == [rate EXCEPT !.classes = IF rate.conditional THEN @ ELSE {}]
-----------------------------------------------------------------------------
Idle == [phase |-> "idle", version |-> 0]

SecurityInit ==
    /\ version = 0
    /\ overview = 0
    /\ poll = Idle
    /\ dialogs = {}
    /\ policy = NewPolicy
    /\ rate = NewRate
    /\ requests = {}

\* A request is told apart from the others by its number.  "live" says that
\* the dialog that sent it is still mounted.
Request(kind, body) ==
    /\ Cardinality(requests) < MaxRequests
    /\ \E n \in 1..MaxRequests:
         /\ n \notin {r.n: r \in requests}
         /\ \A m \in 1..(n - 1): m \in {r.n: r \in requests}
         /\ requests' = requests \cup
              {[n |-> n, kind |-> kind, body |-> body, live |-> TRUE,
                answer |-> 0, handled |-> FALSE]}

isPending(kind) == \E r \in requests: r.kind = kind /\ r.live

\* Closing a dialog or opening it for another policy mounts it anew.
Unmounted(kind) ==
    {[r EXCEPT !.live = r.live /\ r.kind # kind]: r \in requests}
-----------------------------------------------------------------------------
(***************************************************************************)
(* The page and its tabs.                                                  *)
(***************************************************************************)
\* deploy.mutate(), behind the header's button.
deploy ==
    /\ ~isPending("deploy")
    /\ Request("deploy", NewPolicy)
    /\ UNCHANGED <<version, overview, poll, dialogs, policy, rate>>

\* unban.mutate(ip), behind the button of a row of active bans.
unban ==
    /\ ~isPending("unban")
    /\ Request("unban", NewPolicy)
    /\ UNCHANGED <<version, overview, poll, dialogs, policy, rate>>

\* setPolicy("new") and setPolicy(item), with no dialog over the page.
OpenPolicy ==
    /\ dialogs = {}
    /\ dialogs' = {"policy"}
    /\ policy' \in {NewPolicy} \cup StoredPolicies
    /\ UNCHANGED <<version, overview, poll, rate, requests>>

\* setRateLimit("new") and setRateLimit(item).
OpenRate ==
    /\ dialogs = {}
    /\ dialogs' = {"rate"}
    /\ rate' \in {NewRate} \cup StoredRates
    /\ UNCHANGED <<version, overview, poll, policy, requests>>

\* setRemove(...), from a row of policies or of rate limits.
OpenRemove ==
    /\ dialogs = {}
    /\ dialogs' = {"remove"}
    /\ UNCHANGED <<version, overview, poll, policy, rate, requests>>

\* The cancel button, the Escape key or a click beside the dialog, also
\* while its request is under way.
Close(kind) ==
    /\ kind \in dialogs
    /\ dialogs' = dialogs \ {kind}
    /\ requests' = IF kind = "remove" THEN requests ELSE Unmounted(kind)
    /\ policy' = IF kind = "policy" THEN NewPolicy ELSE policy
    /\ rate' = IF kind = "rate" THEN NewRate ELSE rate
    /\ UNCHANGED <<version, overview, poll>>

\* onConfirm of the remove dialog; its button is disabled while busy.
ConfirmRemove ==
    /\ "remove" \in dialogs
    /\ ~isPending("remove")
    /\ Request("remove", NewPolicy)
    /\ UNCHANGED <<version, overview, poll, dialogs, policy, rate>>

\* The action and the duration of the access policy dialog: the duration is
\* shown, and then offered without 0, only while the action is a ban.
EditPolicy ==
    /\ "policy" \in dialogs
    /\ \/ \E a \in {"block", "ban"}: policy' = [policy EXCEPT !.action = a]
       \/ /\ policy.action = "ban"
          /\ policy' = [policy EXCEPT !.duration = 3600]
    /\ policy' # policy
    /\ UNCHANGED <<version, overview, poll, dialogs, rate, requests>>

SubmitPolicy ==
    /\ "policy" \in dialogs
    /\ ~isPending("policy")
    /\ Request("policy", policy)
    /\ UNCHANGED <<version, overview, poll, dialogs, policy, rate>>
-----------------------------------------------------------------------------
(***************************************************************************)
(* The rate limit dialog.                                                  *)
(***************************************************************************)
RateEdit(r) ==
    /\ "rate" \in dialogs
    /\ rate' = r
    /\ rate' # rate
    /\ UNCHANGED <<version, overview, poll, dialogs, policy, requests>>

\* The switch that counts only some answers, disabled while a ban is on.
SwitchConditional ==
    ~rate.ban /\ RateEdit([rate EXCEPT !.conditional = ~@])

\* The boxes of the classes, shown when only some answers count; those that
\* a ban does not allow are disabled while it is on.
ToggleClass(c) ==
    /\ rate.conditional
    /\ ~(rate.ban /\ c < 4)
    /\ RateEdit([rate EXCEPT !.classes = IF c \in @ THEN @ \ {c} ELSE @ \cup {c}])

\* The ban switch turned on: it turns the condition on and leaves only the
\* classes a ban allows, all of them if none is left.
withBan(r) ==
    [r EXCEPT !.ban = TRUE, !.conditional = TRUE,
              !.classes = IF @ \cap {4, 5} # {} THEN @ \cap {4, 5} ELSE {4, 5}]

SwitchBan ==
    RateEdit(IF rate.ban THEN [rate EXCEPT !.ban = FALSE] ELSE withBan(rate))

\* The number of 429 answers, shown while a ban is on.
EditAfter(x) == rate.ban /\ RateEdit([rate EXCEPT !.after = x])

\* Mutant: the submit button checks the fields of the ban only.
canSubmitBanOnly == rate.ban => rate.classes \subseteq {4, 5} /\ rate.after <= 100

\* When the submit button is enabled, apart from a pending mutation.
canSubmit ==
    /\ rate.conditional => rate.classes # {}
    /\ rate.ban => /\ rate.conditional
                   /\ rate.classes \subseteq {4, 5}
                   /\ rate.after <= 100

SubmitRate ==
    /\ "rate" \in dialogs
    /\ ~isPending("rate")
    /\ canSubmit
    /\ Request("rate", SentRate)
    /\ UNCHANGED <<version, overview, poll, dialogs, policy, rate>>
-----------------------------------------------------------------------------
(***************************************************************************)
(* The control plane: a policy is stored, everything is published and the  *)
(* answer is the overview then.  A failed publication is part of the       *)
(* overview.                                                               *)
(***************************************************************************)
Accepted(r) ==
    CASE r.kind = "rate" -> ValidRate(r.body)
      [] r.kind = "policy" -> ValidPolicy(r.body)
      [] OTHER -> TRUE

Handle(r) ==
    /\ ~r.handled
    /\ Accepted(r)
    /\ version < MaxVersion
    /\ version' = version + 1
    /\ requests' = (requests \ {r}) \cup
                     {[r EXCEPT !.handled = TRUE, !.answer = version',
                                !.body = NewPolicy]}
    /\ UNCHANGED <<overview, poll, dialogs, policy, rate>>

\* Another administrator, a ban or an event of an edge, an applied version.
OtherChange ==
    /\ version < MaxVersion
    /\ version' = version + 1
    /\ UNCHANGED <<overview, poll, dialogs, policy, rate, requests>>

\* onSuccess: the overview is replaced and the dialog of this kind is closed,
\* also when it was opened anew since.
Receive(r) ==
    /\ r.handled
    /\ overview' = r.answer
    /\ dialogs' = dialogs \ {r.kind}
    /\ policy' = IF r.kind = "policy" THEN NewPolicy ELSE policy
    /\ rate' = IF r.kind = "rate" THEN NewRate ELSE rate
    /\ requests' = IF r.kind \in {"policy", "rate"}
                   THEN Unmounted(r.kind) \ {r, [r EXCEPT !.live = FALSE]}
                   ELSE requests \ {r}
    /\ UNCHANGED <<version, poll>>

\* onError: refused, or the answer was lost before or after the change.
ReceiveError(r) ==
    /\ requests' = requests \ {r}
    /\ UNCHANGED <<version, overview, poll, dialogs, policy, rate>>

\* The poll of the overview, every 15 seconds.
Poll ==
    /\ poll.phase = "idle"
    /\ poll' = [phase |-> "read", version |-> version]
    /\ UNCHANGED <<version, overview, dialogs, policy, rate, requests>>

ReceivePoll ==
    /\ poll.phase = "read"
    /\ \/ overview' = poll.version
       \/ UNCHANGED overview        \* the poll failed
    /\ poll' = Idle
    /\ UNCHANGED <<version, dialogs, policy, rate, requests>>

SecurityNext ==
    \/ deploy \/ unban
    \/ OpenPolicy \/ OpenRate \/ OpenRemove
    \/ \E kind \in {"policy", "rate", "remove"}: Close(kind)
    \/ ConfirmRemove
    \/ EditPolicy \/ SubmitPolicy
    \/ SwitchConditional \/ SwitchBan
    \/ \E c \in Classes: ToggleClass(c)
    \/ \E x \in Thresholds: EditAfter(x)
    \/ SubmitRate
    \/ OtherChange
    \/ \E r \in requests: Handle(r) \/ Receive(r) \/ ReceiveError(r)
    \/ Poll \/ ReceivePoll

-----------------------------------------------------------------------------
SecurityTypeOK ==
    /\ version \in 0..MaxVersion
    /\ overview \in 0..MaxVersion
    /\ poll \in [phase: {"idle", "read"}, version: 0..MaxVersion]
    /\ dialogs \subseteq {"policy", "rate", "remove"}
    /\ policy \in Policy
    /\ rate \in Rate
    /\ \A r \in requests: r.n \in 1..MaxRequests /\ r.body \in Rate \cup Policy

(***************************************************************************)
(* The conditions of the submit button are those of the server: a rate     *)
(* limit the dialog sends is accepted, except for a number of 429 answers  *)
(* out of range that the dialog hides while the ban is off.                *)
(***************************************************************************)
SentRateIsAccepted ==
    \A r \in requests:
        /\ r.kind = "rate" /\ ~r.handled
        /\ r.body.ban \/ r.body.after <= 100
        => ValidRate(r.body)
=============================================================================
