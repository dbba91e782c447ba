------------------------------ MODULE SiteForm ------------------------------
(***************************************************************************)
(* The form of a site (features/sites/site-detail-page.tsx): how a stored  *)
(* site becomes a draft, what the fields do to the draft, which fields are *)
(* shown, what is sent, and what the control plane makes of it             *)
(* (siteRequest.site and NormalizeAndValidateSite).                        *)
(*                                                                         *)
(* A saved form is answered at once; the page around it, with its requests *)
(* under way, is SiteEditor.  A behaviour edits one section of the form,   *)
(* so that the sections add up instead of multiplying.                     *)
(***************************************************************************)
EXTENDS Naturals, Sequences, SequencesExt

CONSTANTS
    Domains,        \* host names typed into the text of domains
    Nodes,          \* edge nodes
    Ports,          \* listen ports a forward may use, without 0
    MaxForwards     \* MaxTCPForwardsPerSite, 32 in the code

Blank == "blank"                \* an empty field, or a piece of text that trims to nothing

ASSUME SiteFormAssumption ==
    /\ Blank \notin Domains
    /\ Ports \subseteq Nat \ {0} /\ Ports # {}
    /\ MaxForwards \in Nat \ {0}

VARIABLES
    editing,    \* the section of the form this behaviour edits
    revoked,    \* nodes revoked, uninstalling or uninstalled
    site,       \* the row of table sites
    draft       \* useState draft

vars == <<editing, revoked, site, draft>>

Sections == {"basic", "origins", "limits", "nodes", "forwards"}

Null == 0                       \* no TTL of its own
DefaultTTL == 60
TTLs == {30, 60, 300}           \* 30 is outside 60..300
BodySizes == {128, 200, 256}    \* 200 is none of the presets
Schemes == {"http", "https", "grpcs", Blank}
Origin == [scheme : Schemes, sni : {Blank, "sni"}]
NoOrigin == [scheme |-> Blank, sni |-> Blank]
Forward == [port : Ports \cup {0}, host : {"name", "ip"}, tls : BOOLEAN, sni : {Blank, "name"}]

\* interface SiteDraft; Texts are the pieces between the separators.
Texts == UNION {[1..n -> Domains \cup {Blank}] : n \in 1..2}
Draft == [domains : Texts, enabled : BOOLEAN, nodes : SUBSET Nodes,
          primary : Origin, backup_enabled : BOOLEAN, backup : Origin, passthrough : BOOLEAN,
          body_size : BodySizes, inherit : BOOLEAN, ttl : TTLs,
          tcp_only : BOOLEAN, forwards : BoundedSeq(Forward, MaxForwards)]

\* interface Site, the fields of the form; no backup origin is NoOrigin.
Site == [domains : Seq(Domains), enabled : BOOLEAN, nodes : SUBSET Nodes,
         primary : Origin, backup : Origin, passthrough : BOOLEAN,
         body_size : BodySizes, ttl : {Null} \cup TTLs,
         tcp_only : BOOLEAN, forwards : Seq(Forward)]

\* Types of the form and of the stored site.
TypeOK ==
    /\ editing \in Sections
    /\ revoked \subseteq Nodes
    /\ site \in Site
    /\ draft \in Draft

-----------------------------------------------------------------------------
(* From the stored site to the form and back.                              *)

\* /^(https|wss|grpcs):/ on a URL.
UsesTLS(scheme) == scheme \in {"https", "grpcs"}

\* domains.join(", "): an empty list is one blank text.
join(names) == IF names = <<>> THEN <<Blank>> ELSE names

\* The pieces of a text that are not blank, in their order.
splitList(text) ==
    LET kept == {i \in DOMAIN text : text[i] # Blank}
        place(i) == Cardinality({j \in kept : j <= i})
    IN  [n \in 1 .. Cardinality(kept) |-> text[CHOOSE i \in kept : place(i) = n]]

\* Mutant: a site without a TTL of its own is drawn with the default one.
draftFromSiteOwnTTL(s) ==
    [domains |-> join(s.domains), enabled |-> s.enabled, nodes |-> s.nodes,
     primary |-> s.primary, backup_enabled |-> s.backup # NoOrigin, backup |-> s.backup,
     passthrough |-> s.passthrough, body_size |-> s.body_size,
     inherit |-> FALSE, ttl |-> IF s.ttl = Null THEN DefaultTTL ELSE s.ttl,
     tcp_only |-> s.tcp_only, forwards |-> s.forwards]

draftFromSite(s) ==
    [domains |-> join(s.domains), enabled |-> s.enabled, nodes |-> s.nodes,
     primary |-> s.primary, backup_enabled |-> s.backup # NoOrigin, backup |-> s.backup,
     passthrough |-> s.passthrough, body_size |-> s.body_size,
     inherit |-> s.ttl = Null, ttl |-> IF s.ttl = Null THEN DefaultTTL ELSE s.ttl,
     tcp_only |-> s.tcp_only, forwards |-> s.forwards]

\* Mutant: the server name is sent whatever the URL.
sentOriginAlways(o) == o

\* Mutant: the server name is never sent.
sentOriginNever(o) == [o EXCEPT !.sni = Blank]

\* The server name of an origin is sent only for a URL with TLS.
sentOrigin(o) == [o EXCEPT !.sni = IF UsesTLS(o.scheme) THEN @ ELSE Blank]

sitePayload(d) ==
    [domains |-> splitList(d.domains), enabled |-> d.enabled, nodes |-> d.nodes,
     primary |-> sentOrigin(d.primary),
     backup |-> IF d.backup_enabled /\ d.backup.scheme # Blank THEN sentOrigin(d.backup) ELSE NoOrigin,
     passthrough |-> d.passthrough, body_size |-> d.body_size,
     ttl |-> IF d.inherit THEN Null ELSE d.ttl,
     tcp_only |-> d.tcp_only, forwards |-> d.forwards]

-----------------------------------------------------------------------------
(* The control plane: NormalizeAndValidateSite and validateSiteNodes.      *)

ValidateOrigin(o) ==
    /\ o.scheme # Blank
    /\ o.sni # Blank => UsesTLS(o.scheme)

ValidForward(f) ==
    /\ f.port # 0
    /\ ~f.tls => f.sni = Blank
    /\ f.tls /\ f.sni = Blank => f.host # "ip"

\* A blank server name of a forward with TLS becomes the upstream host.
NormalizedForward(f) == [f EXCEPT !.sni = IF f.tls THEN "name" ELSE Blank]

normalizeTCPForwards(fs) ==
    /\ Len(fs) <= MaxForwards
    /\ \A i \in DOMAIN fs : ValidForward(fs[i])
    /\ \A i, j \in DOMAIN fs : fs[i].port = fs[j].port => i = j

ValidOrigins(p) ==
    \/ p.tcp_only /\ p.forwards # <<>>
    \/ /\ ~p.tcp_only
       /\ ValidateOrigin(p.primary)
       /\ p.passthrough => p.primary.scheme \in {"http", "https"}
       /\ p.backup # NoOrigin => ValidateOrigin(p.backup) /\ p.backup.scheme = p.primary.scheme

Valid(p) ==
    /\ p.domains # <<>> /\ IsInjective(p.domains)
    /\ p.nodes # {} /\ p.nodes \cap revoked = {}
    /\ p.body_size # 200
    /\ p.ttl # 30
    /\ normalizeTCPForwards(p.forwards)
    /\ ValidOrigins(p)

Normalized(p) == [p EXCEPT !.forwards = [i \in DOMAIN @ |-> NormalizedForward(@[i])]]

-----------------------------------------------------------------------------
(* The fields.  The tab "http" is shown for a site that is not TCP-only.   *)

FirstForward == [port |-> CHOOSE p \in Ports : TRUE, host |-> "name", tls |-> TRUE, sni |-> "name"]

Init ==
    /\ editing \in Sections
    /\ revoked = {}
    /\ \E d \in Domains, n \in Nodes :
          site = [domains |-> <<d>>, enabled |-> TRUE, nodes |-> {n},
                  primary |-> [scheme |-> "https", sni |-> Blank], backup |-> NoOrigin,
                  passthrough |-> FALSE, body_size |-> 128, ttl |-> Null,
                  tcp_only |-> FALSE, forwards |-> <<FirstForward>>]
    /\ draft = draftFromSite(site)

Edits(section) == editing = section /\ UNCHANGED <<editing, revoked, site>>

EditBasic ==
    /\ Edits("basic")
    /\ \/ \E text \in Texts : draft' = [draft EXCEPT !.domains = text]
       \/ draft' = [draft EXCEPT !.enabled = ~@]

\* The field of the server name is drawn for a URL with TLS; a new URL leaves
\* what was typed there.
OriginEdits(o) ==
    {[o EXCEPT !.scheme = x] : x \in Schemes}
        \cup IF UsesTLS(o.scheme) THEN {[o EXCEPT !.sni = x] : x \in {Blank, "sni"}} ELSE {}

EditOrigins ==
    /\ Edits("origins")
    /\ \/ draft' = [draft EXCEPT !.tcp_only = ~@]
       \/ /\ ~draft.tcp_only
          /\ \/ \E o \in OriginEdits(draft.primary) : draft' = [draft EXCEPT !.primary = o]
             \/ draft' = [draft EXCEPT !.backup_enabled = ~@]
             \/ /\ draft.backup_enabled
                /\ \E o \in OriginEdits(draft.backup) : draft' = [draft EXCEPT !.backup = o]
             \/ draft' = [draft EXCEPT !.passthrough = ~@]

EditLimits ==
    /\ Edits("limits")
    /\ \/ \E n \in BodySizes : draft' = [draft EXCEPT !.body_size = n]
       \/ draft' = [draft EXCEPT !.inherit = ~@]
       \/ ~draft.inherit /\ \E n \in TTLs : draft' = [draft EXCEPT !.ttl = n]

\* The nodes the selector lists.
available == Nodes \ revoked

EditNodes ==
    /\ Edits("nodes")
    /\ \E n \in available :
          draft' = [draft EXCEPT !.nodes = IF n \in @ THEN @ \ {n} ELSE @ \cup {n}]

emptyForward == [port |-> 0, host |-> "name", tls |-> TRUE, sni |-> Blank]

AddForward ==
    /\ Edits("forwards")
    /\ Len(draft.forwards) < MaxForwards
    /\ draft' = [draft EXCEPT !.forwards = Append(@, emptyForward)]

\* Here too the server name is drawn for TLS only.
UpdateForward ==
    /\ Edits("forwards")
    /\ \E i \in DOMAIN draft.forwards :
          LET f == draft.forwards[i] IN
          \E g \in {[f EXCEPT !.port = x] : x \in Ports} \cup {[f EXCEPT !.host = x] : x \in {"name", "ip"}}
                      \cup {[f EXCEPT !.tls = ~@]}
                      \cup (IF f.tls THEN {[f EXCEPT !.sni = x] : x \in {Blank, "name"}} ELSE {}) :
             draft' = [draft EXCEPT !.forwards[i] = g]

RemoveForward ==
    /\ Edits("forwards")
    /\ \E i \in DOMAIN draft.forwards : draft' = [draft EXCEPT !.forwards = RemoveAt(@, i)]

-----------------------------------------------------------------------------
(* Saving.                                                                 *)

\* updateSite, and the onSuccess of save: the form shows what was stored.
Save ==
    LET payload == sitePayload(draft) IN
    /\ Valid(payload)
    /\ site' = Normalized(payload)
    /\ draft' = draftFromSite(site')
    /\ UNCHANGED <<editing, revoked>>

\* The error is a message; the form keeps what was typed.
SaveRejected ==
    /\ ~Valid(sitePayload(draft))
    /\ UNCHANGED vars

\* Another page revokes a node, or authorises it again.
ChangeNode ==
    /\ editing = "nodes"
    /\ \E n \in Nodes : revoked' = IF n \in revoked THEN revoked \ {n} ELSE revoked \cup {n}
    /\ UNCHANGED <<editing, site, draft>>

Next ==
    \/ EditBasic \/ EditOrigins \/ EditLimits \/ EditNodes
    \/ AddForward \/ UpdateForward \/ RemoveForward
    \/ Save \/ SaveRejected \/ ChangeNode

Spec == Init /\ [][Next]_vars

-----------------------------------------------------------------------------
(* Properties.                                                             *)

\* Saving the untouched form of a stored site is accepted and stores the same
\* site again: what draftFromSite draws, sitePayload sends back, and the
\* normalisation of what is already normalised changes nothing.
UntouchedSaveKeepsSite ==
    site.nodes \cap revoked = {} =>
        LET payload == sitePayload(draftFromSite(site)) IN
        Valid(payload) /\ Normalized(payload) = site

\* The draft with every origin field blank that the form does not show.
ShownOrigins(d) ==
    LET shown(o) == IF UsesTLS(o.scheme) THEN o ELSE [o EXCEPT !.sni = Blank] IN
    [d EXCEPT !.primary = IF d.tcp_only THEN NoOrigin ELSE shown(@),
              !.backup = IF d.tcp_only \/ ~d.backup_enabled THEN NoOrigin ELSE shown(@)]

\* What was typed into origin fields that the form no longer shows (the server
\* name of a URL without TLS, a backup origin switched off, the whole HTTP tab
\* of a TCP-only site) never decides whether the site is accepted.
HiddenOriginsAreIgnored ==
    Valid(sitePayload(draft)) <=> Valid(sitePayload(ShownOrigins(draft)))

\* What the form shows, without the blanks that are left out or completed.
View(d) ==
    LET origin(o) == <<o.scheme, IF UsesTLS(o.scheme) THEN o.sni ELSE Blank>>
        backup == d.backup_enabled /\ d.backup.scheme # Blank
    IN [names |-> ToSet(d.domains) \ {Blank}, enabled |-> d.enabled, nodes |-> d.nodes,
        primary |-> origin(d.primary), backup |-> IF backup THEN origin(d.backup) ELSE <<>>,
        passthrough |-> d.passthrough, body_size |-> d.body_size,
        ttl |-> IF d.inherit THEN Null ELSE d.ttl, tcp_only |-> d.tcp_only,
        forwards |-> [i \in DOMAIN d.forwards |->
                         <<d.forwards[i].port, d.forwards[i].host, d.forwards[i].tls>>]]

\* An accepted save redraws the form without changing anything it showed.
SaveKeepsWhatIsShown == [][draft' # draft /\ Save => View(draft') = View(draft)]_vars

\* README.md, "Edge uninstall", steps 1 and 2: a node that is paused or revoked
\* is then removed from every site.  Every node the draft assigns can be
\* unchecked in the selector.
RetiredNodeCanBeRemoved == draft.nodes \subseteq available

=============================================================================
