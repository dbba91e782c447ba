--------------------------- MODULE ConsoleSession ---------------------------
(***************************************************************************)
(* The login of the console: features/auth, lib/api.ts and the session     *)
(* handlers of internal/control/server.go.  The tabs of one browser share  *)
(* the session cookie; each has its own stage, CSRF token and query cache. *)
(*                                                                         *)
(* A request carries the cookie and the token of the moment it is sent and *)
(* is served at once; its answer, with its Set-Cookie, arrives any time    *)
(* later or never.                                                         *)
(***************************************************************************)

CONSTANTS
    Tabs,
    NoTab,          \* not a tab
    Sessions,       \* session tokens; each has a CSRF token of its own
    NoSession       \* no cookie, or the empty CSRF token

ASSUME SessionAssumption == NoSession \notin Sessions
ASSUME TabAssumption == NoTab \notin Tabs

VARIABLES
    admin,      \* the tab whose setup created the administrator
    sessions,   \* the rows of table sessions that have not expired
    cookie,     \* cdn_session in the browser
    stage,      \* useState stage
    csrf,       \* csrfToken of lib/api.ts
    cache,      \* the query cache: none, fresh, or of an earlier login
    setup,      \* setupResult is shown
    answer      \* answer[t][k]: the request of kind k of tab t

vars == <<admin, sessions, cookie, stage, csrf, cache, setup, answer>>

Stages == {"boot", "setup", "login", "authenticated", "error"}
Kinds == {"boot", "form", "get", "logout"}
NoAnswer == [res |-> "none", session |-> NoSession]
Dropped == [res |-> "dropped", session |-> NoSession]
Answer == [res : {"none", "ok", "401", "403", "409", "fail", "checked", "created", "initialized", "empty", "dropped"},
           session : Sessions \cup {NoSession}]

\* Types of the variables.
TypeOK ==
    /\ admin \in Tabs \cup {NoTab}
    /\ sessions \subseteq Sessions
    /\ cookie \in Sessions \cup {NoSession}
    /\ stage \in [Tabs -> Stages]
    /\ csrf \in [Tabs -> Sessions \cup {NoSession}]
    /\ cache \in [Tabs -> {"none", "fresh", "old"}]
    /\ setup \in [Tabs -> BOOLEAN]
    /\ answer \in [Tabs -> [Kinds -> Answer]]

Init ==
    /\ admin = NoTab
    /\ sessions = {}
    /\ cookie = NoSession
    /\ stage = [t \in Tabs |-> "boot"]
    /\ csrf = [t \in Tabs |-> NoSession]
    /\ cache = [t \in Tabs |-> "none"]
    /\ setup = [t \in Tabs |-> FALSE]
    /\ answer = [t \in Tabs |-> [k \in Kinds |-> NoAnswer]]

Idle(t, k) == answer[t][k] = NoAnswer
Answers(t, k, res, s) == answer' = [answer EXCEPT ![t][k] = [res |-> res, session |-> s]]
Received(t, k) == answer' = [answer EXCEPT ![t][k] = NoAnswer]

\* requireAdmin: the cookie names a session that has not expired.
LoggedIn == cookie \in sessions

\* requireAdmin for a request that is not a GET.
Authorised(t) == LoggedIn /\ csrf[t] = cookie

-----------------------------------------------------------------------------
(* Leaving the console.                                                    *)

\* Mutant: the query cache is kept.
clearNothing(t, k) ==
    /\ cache' = [cache EXCEPT ![t] = IF @ = "none" THEN "none" ELSE "old"]
    /\ Received(t, k)

\* queryClient.clear(), on the answer of kind k: a query under way is forgotten
\* with its data, although its 401 would still raise the event.
clear(t, k) ==
    /\ cache' = [cache EXCEPT ![t] = "none"]
    /\ answer' = [answer EXCEPT ![t] =
                     [j \in Kinds |-> IF j = k THEN NoAnswer
                                      ELSE IF j = "get" /\ answer[t][j].res = "ok" THEN Dropped
                                      ELSE answer[t][j]]]

\* The listener of cdn:unauthorized; logout ends in the same way.
unauthorized(t, k) ==
    /\ csrf' = [csrf EXCEPT ![t] = NoSession]
    /\ stage' = [stage EXCEPT ![t] = "login"]
    /\ clear(t, k)

-----------------------------------------------------------------------------
(* bootstrap: GET /api/session, then GET /api/setup/status.                *)

AskSession(t) ==
    /\ stage[t] = "boot" /\ Idle(t, "boot")
    /\ IF LoggedIn THEN Answers(t, "boot", "ok", cookie)
       ELSE Answers(t, "boot", "401", NoSession)
    /\ UNCHANGED <<admin, sessions, cookie, stage, csrf, cache, setup>>

BootSession(t) ==
    /\ answer[t]["boot"].res = "ok"
    /\ Received(t, "boot")
    /\ csrf' = [csrf EXCEPT ![t] = answer[t]["boot"].session]
    /\ stage' = [stage EXCEPT ![t] = "authenticated"]
    /\ UNCHANGED <<admin, sessions, cookie, cache, setup>>

\* This 401 is read from a plain fetch and raises no event.
AskSetupStatus(t) ==
    /\ answer[t]["boot"].res = "401"
    /\ Answers(t, "boot", IF admin = NoTab THEN "empty" ELSE "initialized", NoSession)
    /\ UNCHANGED <<admin, sessions, cookie, stage, csrf, cache, setup>>

BootStatus(t) ==
    /\ answer[t]["boot"].res \in {"initialized", "empty"}
    /\ Received(t, "boot")
    /\ stage' = [stage EXCEPT ![t] = IF answer[t]["boot"].res = "empty" THEN "setup" ELSE "login"]
    /\ UNCHANGED <<admin, sessions, cookie, csrf, cache, setup>>

BootFails(t) ==
    /\ stage[t] = "boot"
    /\ Received(t, "boot")
    /\ stage' = [stage EXCEPT ![t] = "error"]
    /\ UNCHANGED <<admin, sessions, cookie, csrf, cache, setup>>

Retry(t) ==
    /\ stage[t] = "error"
    /\ stage' = [stage EXCEPT ![t] = "boot"]
    /\ UNCHANGED <<admin, sessions, cookie, csrf, cache, setup, answer>>

-----------------------------------------------------------------------------
(* Setup.  The handler checks for an administrator, hashes the password,   *)
(* and checks again in the transaction that creates one.                   *)

SubmitSetup(t) ==
    /\ stage[t] = "setup" /\ ~setup[t] /\ Idle(t, "form")
    /\ Answers(t, "form", IF admin = NoTab THEN "checked" ELSE "409", NoSession)
    /\ UNCHANGED <<admin, sessions, cookie, stage, csrf, cache, setup>>

\* Mutant: the transaction does not check again.
NoAdminUnchecked == TRUE

NoAdmin == admin = NoTab

CreateInitialAdmin(t) ==
    /\ answer[t]["form"].res = "checked"
    /\ IF NoAdmin
       THEN admin' = t /\ Answers(t, "form", "created", NoSession)
       ELSE Answers(t, "form", "409", NoSession) /\ UNCHANGED admin
    /\ UNCHANGED <<sessions, cookie, stage, csrf, cache, setup>>

SetupDone(t) ==
    /\ answer[t]["form"].res = "created"
    /\ Received(t, "form")
    /\ setup' = [setup EXCEPT ![t] = TRUE]
    /\ UNCHANGED <<admin, sessions, cookie, stage, csrf, cache>>

onSetupComplete(t) ==
    /\ setup[t]
    /\ setup' = [setup EXCEPT ![t] = FALSE]
    /\ stage' = [stage EXCEPT ![t] = "login"]
    /\ UNCHANGED <<admin, sessions, cookie, csrf, cache, answer>>

-----------------------------------------------------------------------------
(* Login and logout.                                                       *)

\* A token nobody holds.
Fresh == Sessions \ (sessions \cup {cookie} \cup {csrf[t] : t \in Tabs}
                     \cup {answer[t][k].session : t \in Tabs, k \in Kinds})

SubmitLogin(t) ==
    /\ stage[t] = "login" /\ Idle(t, "form")
    /\ \/ /\ admin # NoTab
          /\ \E s \in Fresh : sessions' = sessions \cup {s} /\ Answers(t, "form", "ok", s)
       \/ Answers(t, "form", "401", NoSession) /\ UNCHANGED sessions
    /\ UNCHANGED <<admin, cookie, stage, csrf, cache, setup>>

LoginDone(t) ==
    /\ answer[t]["form"].res = "ok"
    /\ Received(t, "form")
    /\ cookie' = answer[t]["form"].session
    /\ csrf' = [csrf EXCEPT ![t] = answer[t]["form"].session]
    /\ stage' = [stage EXCEPT ![t] = "authenticated"]
    /\ UNCHANGED <<admin, sessions, cache, setup>>

\* The notice of a refused form; a 401 raises the event as every other does.
FormRefused(t) ==
    /\ answer[t]["form"].res \in {"401", "409"}
    /\ IF answer[t]["form"].res = "401" THEN unauthorized(t, "form")
       ELSE Received(t, "form") /\ UNCHANGED <<stage, csrf, cache>>
    /\ UNCHANGED <<admin, sessions, cookie, setup>>

SubmitLogout(t) ==
    /\ stage[t] = "authenticated" /\ Idle(t, "logout")
    /\ \/ Authorised(t) /\ sessions' = sessions \ {cookie} /\ Answers(t, "logout", "ok", cookie)
       \/ ~LoggedIn /\ Answers(t, "logout", "401", NoSession) /\ UNCHANGED sessions
       \/ LoggedIn /\ ~Authorised(t) /\ Answers(t, "logout", "403", NoSession) /\ UNCHANGED sessions
       \/ Answers(t, "logout", "fail", NoSession) /\ UNCHANGED sessions
    /\ UNCHANGED <<admin, cookie, stage, csrf, cache, setup>>

\* The finally block runs whatever the answer is; a successful answer also
\* removes the cookie the browser has by then.
LogoutDone(t) ==
    /\ ~Idle(t, "logout")
    /\ cookie' = IF answer[t]["logout"].res = "ok" THEN NoSession ELSE cookie
    /\ unauthorized(t, "logout")
    /\ UNCHANGED <<admin, sessions, setup>>

-----------------------------------------------------------------------------
(* Polling: useMessages of the application shell, every ten seconds.       *)

Poll(t) ==
    /\ stage[t] = "authenticated" /\ Idle(t, "get")
    /\ Answers(t, "get", IF LoggedIn THEN "ok" ELSE "401", NoSession)
    /\ UNCHANGED <<admin, sessions, cookie, stage, csrf, cache, setup>>

PollDone(t) ==
    /\ answer[t]["get"].res \in {"ok", "dropped"}
    /\ cache' = IF answer[t]["get"].res = "ok" THEN [cache EXCEPT ![t] = "fresh"] ELSE cache
    /\ Received(t, "get")
    /\ UNCHANGED <<admin, sessions, cookie, stage, csrf, setup>>

\* Mutant: the event is not raised.
PollUnauthorizedSilent(t) ==
    /\ answer[t]["get"].res = "401"
    /\ Received(t, "get")
    /\ UNCHANGED <<admin, sessions, cookie, stage, csrf, cache, setup>>

PollUnauthorized(t) ==
    /\ answer[t]["get"].res = "401"
    /\ unauthorized(t, "get")
    /\ UNCHANGED <<admin, sessions, cookie, setup>>

-----------------------------------------------------------------------------

\* A request or its answer is lost; a form shows a notice.
Lose(t) ==
    /\ \E k \in {"form", "get"} : ~Idle(t, k) /\ Received(t, k)
    /\ UNCHANGED <<admin, sessions, cookie, stage, csrf, cache, setup>>

Reload(t) ==
    /\ stage[t] # "boot"
    /\ stage' = [stage EXCEPT ![t] = "boot"]
    /\ csrf' = [csrf EXCEPT ![t] = NoSession]
    /\ cache' = [cache EXCEPT ![t] = "none"]
    /\ setup' = [setup EXCEPT ![t] = FALSE]
    /\ answer' = [answer EXCEPT ![t] = [k \in Kinds |-> NoAnswer]]
    /\ UNCHANGED <<admin, sessions, cookie>>

\* Twelve hours pass.
Expire(s) ==
    /\ s \in sessions
    /\ sessions' = sessions \ {s}
    /\ UNCHANGED <<admin, cookie, stage, csrf, cache, setup, answer>>

Boot(t) == AskSession(t) \/ BootSession(t) \/ AskSetupStatus(t) \/ BootStatus(t) \/ BootFails(t)
Receive(t) == PollDone(t) \/ PollUnauthorized(t)

Tab(t) ==
    \/ Boot(t) \/ Retry(t)
    \/ SubmitSetup(t) \/ CreateInitialAdmin(t) \/ SetupDone(t) \/ onSetupComplete(t)
    \/ SubmitLogin(t) \/ LoginDone(t) \/ FormRefused(t)
    \/ SubmitLogout(t) \/ LogoutDone(t)
    \/ Poll(t) \/ Receive(t)
    \/ Lose(t) \/ Reload(t)

Next == (\E t \in Tabs : Tab(t)) \/ (\E s \in Sessions : Expire(s))

Spec == Init /\ [][Next]_vars

\* fetch ends, the shell polls, and not every poll is lost.
Fairness ==
    \A t \in Tabs : WF_vars(Boot(t)) /\ WF_vars(Poll(t)) /\ SF_vars(Receive(t))

FairSpec == Spec /\ Fairness

-----------------------------------------------------------------------------
(* Properties.                                                             *)

\* A tab shows the console exactly while it has a CSRF token, whatever
\* late answers arrive (unauthorized, logout and login of auth-provider.tsx).
ConsoleHasToken == \A t \in Tabs : stage[t] = "authenticated" <=> csrf[t] # NoSession

\* Nothing that was read before a logout or a 401 is in the cache afterwards,
\* neither on the login screen nor after the next login
\* (queryClient.clear, auth-provider.tsx:77 and :107).
CacheIsOfThisLogin ==
    \A t \in Tabs : /\ cache[t] # "old"
                    /\ stage[t] # "authenticated" => cache[t] = "none"

\* Of two setups at the same time one wins, and the TOTP secret a tab shows is
\* the administrator's (CreateInitialAdmin checks again in its transaction,
\* store.go:555).
ShownSecretIsTheAdmins == \A t \in Tabs : setup[t] => admin = t

\* When the session in the browser is over, no tab goes on showing the console
\* (the poll of useMessages and the event of lib/api.ts:45).
ExpiryIsNoticed ==
    \A t \in Tabs : (stage[t] = "authenticated" /\ ~LoggedIn)
                       ~> (stage[t] # "authenticated" \/ LoggedIn)
=============================================================================
