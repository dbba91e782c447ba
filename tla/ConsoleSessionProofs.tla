------------------------ MODULE ConsoleSessionProofs ------------------------
(***************************************************************************)
(* The proof that the three invariants of ConsoleSession hold for any      *)
(* number of tabs and sessions.                                            *)
(*                                                                         *)
(* None of them is inductive: what a step makes of a tab depends on the    *)
(* answer that arrives.  Inv says of every tab which answers can be on     *)
(* their way in which stage, and that an answer that grants something was  *)
(* true when it was given and still is: the login stage is left only by    *)
(* the answer of its own form, and nobody else becomes administrator.      *)
(***************************************************************************)
EXTENDS ConsoleSession, TLAPS

\* Which answers a tab can be waiting for.
AnswersInStage(t) ==
    /\ answer[t]["boot"].res # "none" => stage[t] = "boot"
    /\ answer[t]["form"].res # "none" => stage[t] \in {"setup", "login"}
    /\ stage[t] \in {"boot", "error", "setup"} =>
          answer[t]["get"] = NoAnswer /\ answer[t]["logout"] = NoAnswer
    /\ answer[t]["get"].res = "ok" => stage[t] = "authenticated"

\* A tab has one form, of its stage.
FormOfStage(t) ==
    /\ answer[t]["form"].res \in {"ok", "401"} => stage[t] = "login"
    /\ answer[t]["form"].res \in {"checked", "created", "409"} => stage[t] = "setup"

\* A granted session is a session, and only one setup was told that it created
\* the administrator.
AnswersAreTrue(t) ==
    /\ answer[t]["boot"].res = "ok" => answer[t]["boot"].session \in Sessions
    /\ answer[t]["form"].res = "ok" => answer[t]["form"].session \in Sessions
    /\ answer[t]["form"].res = "created" => admin = t

\* The state of one tab.
TabInv(t) ==
    /\ AnswersInStage(t)
    /\ FormOfStage(t)
    /\ AnswersAreTrue(t)
    /\ setup[t] => admin = t /\ stage[t] = "setup" /\ answer[t]["form"].res = "none"
    /\ stage[t] = "authenticated" <=> csrf[t] # NoSession
    /\ cache[t] # "old"
    /\ stage[t] # "authenticated" => cache[t] = "none"

\* The inductive invariant.
Inv == TypeOK /\ \A t \in Tabs : TabInv(t)

Res == {"none", "ok", "401", "403", "409", "fail", "checked", "created", "initialized", "empty", "dropped"}

-----------------------------------------------------------------------------
\* What the operators on answer do to the answers of a tab.

\* The answers that stand for nothing.
LEMMA NoAnswerType == NoAnswer \in Answer /\ Dropped \in Answer
BY DEF NoAnswer, Dropped, Answer

\* One answer of one tab is replaced.
LEMMA AnswersSet ==
    ASSUME TypeOK, NEW t \in Tabs, NEW k \in Kinds, NEW res \in Res,
           NEW s \in Sessions \cup {NoSession}, Answers(t, k, res, s)
    PROVE  /\ answer' \in [Tabs -> [Kinds -> Answer]]
           /\ answer'[t][k].res = res /\ answer'[t][k].session = s
           /\ \A j \in Kinds : j # k => answer'[t][j] = answer[t][j]
           /\ \A u \in Tabs : u # t => answer'[u] = answer[u]
<1>1. [res |-> res, session |-> s] \in Answer
    BY DEF Res, Answer
<1>2. PICK a \in Answer : a.res = res /\ a.session = s /\ answer' = [answer EXCEPT ![t][k] = a]
    BY <1>1 DEF Answers
<1> QED
    BY <1>2 DEF TypeOK

\* Taking an answer empties the place it was in.
LEMMA ReceivedSet ==
    ASSUME TypeOK, NEW t \in Tabs, NEW k \in Kinds, Received(t, k)
    PROVE  /\ answer' \in [Tabs -> [Kinds -> Answer]]
           /\ answer'[t][k].res = "none" /\ answer'[t][k] = NoAnswer
           /\ \A j \in Kinds : j # k => answer'[t][j] = answer[t][j]
           /\ \A u \in Tabs : u # t => answer'[u] = answer[u]
<1>1. NoAnswer.res = "none"
    BY DEF NoAnswer
<1> QED
    BY <1>1, NoAnswerType DEF Received, TypeOK

-----------------------------------------------------------------------------
\* A step of one tab leaves the others as they are; it may make somebody the
\* administrator only while there is none.
LEMMA OneTab ==
    ASSUME Inv, NEW t \in Tabs, TypeOK', TabInv(t)',
           admin' = admin \/ admin = NoTab,
           \A u \in Tabs : u # t =>
               /\ stage'[u] = stage[u] /\ csrf'[u] = csrf[u] /\ cache'[u] = cache[u]
               /\ setup'[u] = setup[u] /\ answer'[u] = answer[u]
    PROVE  Inv'
<1>1. ASSUME NEW u \in Tabs, u # t PROVE TabInv(u)'
    <2>1. TabInv(u)
        BY DEF Inv
    <2>2. admin' = u <=> admin = u \/ (admin = NoTab /\ admin' = u)
        BY TabAssumption
    <2>3. setup[u] \/ answer[u]["form"].res = "created" => admin' = u
        BY <2>1, TabAssumption DEF TabInv, AnswersAreTrue
    <2> QED
        BY <1>1, <2>1, <2>3 DEF TabInv, AnswersInStage, FormOfStage, AnswersAreTrue
<1> QED
    BY <1>1 DEF Inv

-----------------------------------------------------------------------------
\* The listener of cdn:unauthorized leaves a consistent login screen: no token,
\* no cache, and no query under way that could still fill the cache.
LEMMA UnauthorizedLeaves ==
    ASSUME Inv, NEW t \in Tabs, NEW k \in {"form", "get", "logout"},
           stage[t] \in {"login", "authenticated"},
           unauthorized(t, k), UNCHANGED <<admin, sessions, setup>>,
           cookie' \in Sessions \cup {NoSession}
    PROVE  Inv'
<1>1. TypeOK
    BY DEF Inv
<1>2. answer \in [Tabs -> [Kinds -> Answer]] /\ k \in Kinds
    BY <1>1 DEF TypeOK, Kinds
<1> DEFINE row == [j \in Kinds |-> IF j = k THEN NoAnswer
                                   ELSE IF j = "get" /\ answer[t][j].res = "ok" THEN Dropped
                                   ELSE answer[t][j]]
<1>3. row \in [Kinds -> Answer]
    BY <1>2, NoAnswerType
<1>4. /\ answer' = [answer EXCEPT ![t] = row]
      /\ csrf' = [csrf EXCEPT ![t] = NoSession]
      /\ stage' = [stage EXCEPT ![t] = "login"]
      /\ cache' = [cache EXCEPT ![t] = "none"]
    BY DEF unauthorized, clear
<1>a. /\ TabInv(t) /\ ~setup[t] /\ answer[t]["boot"].res = "none"
      /\ answer[t]["form"].res \notin {"checked", "created", "409"}
    BY DEF Inv, TabInv, AnswersInStage, FormOfStage
<1>5. /\ row["boot"].res = "none" /\ row["get"].res # "ok"
      /\ row["form"] = answer[t]["form"] \/ row["form"].res = "none"
    BY <1>a DEF Kinds, NoAnswer, Dropped
<1> HIDE DEF row
<1>6. /\ answer' \in [Tabs -> [Kinds -> Answer]] /\ answer'[t] = row
      /\ \A u \in Tabs : u # t => answer'[u] = answer[u]
    BY <1>2, <1>3, <1>4
<1>7. /\ csrf'[t] = NoSession /\ stage'[t] = "login" /\ cache'[t] = "none"
      /\ \A u \in Tabs : u # t => csrf'[u] = csrf[u] /\ stage'[u] = stage[u] /\ cache'[u] = cache[u]
    BY <1>1, <1>4 DEF TypeOK
<1>8. TypeOK'
    BY <1>1, <1>4, <1>6 DEF TypeOK, Stages
<1>9. TabInv(t)'
    BY <1>a, <1>5, <1>6, <1>7 DEF TabInv, AnswersInStage, FormOfStage, AnswersAreTrue
<1> QED
    BY <1>6, <1>7, <1>8, <1>9, OneTab

-----------------------------------------------------------------------------
\* The handlers, one lemma each group of them.

\* A tab that loads asks who it is, and may ask again.
LEMMA InvBoot ==
    ASSUME Inv, NEW t \in Tabs, Boot(t) \/ Retry(t) PROVE Inv'
<1>1. TypeOK /\ TabInv(t)
    BY DEF Inv
<1>a. {"boot", "form", "get", "logout"} \subseteq Kinds
    BY DEF Kinds
<1>2. CASE AskSession(t)
    <2>1. PICK res \in {"ok", "401"}, s \in Sessions \cup {NoSession} :
            Answers(t, "boot", res, s) /\ (res = "ok" => s \in Sessions)
        BY <1>1, <1>2 DEF AskSession, LoggedIn, TypeOK
    <2>2. res \in Res
        BY DEF Res
    <2>3. /\ answer' \in [Tabs -> [Kinds -> Answer]]
          /\ answer'[t]["boot"].res = res /\ answer'[t]["boot"].session = s
          /\ \A j \in Kinds : j # "boot" => answer'[t][j] = answer[t][j]
          /\ \A u \in Tabs : u # t => answer'[u] = answer[u]
        BY <1>1, <1>a, <2>1, <2>2, AnswersSet
    <2>4. stage[t] = "boot" /\ UNCHANGED <<admin, sessions, cookie, stage, csrf, cache, setup>>
        BY <1>2 DEF AskSession
    <2>5. TypeOK'
        BY <1>1, <2>3, <2>4 DEF TypeOK
    <2>6. TabInv(t)'
        BY <1>1, <1>a, <2>1, <2>3, <2>4
           DEF TabInv, AnswersInStage, FormOfStage, AnswersAreTrue
    <2> QED
        BY <2>3, <2>4, <2>5, <2>6, OneTab
<1>3. CASE AskSetupStatus(t)
    <2>1. PICK res \in {"empty", "initialized"}, s \in {NoSession} : Answers(t, "boot", res, s)
        BY <1>3 DEF AskSetupStatus
    <2>2. res \in Res
        BY DEF Res
    <2>3. /\ answer' \in [Tabs -> [Kinds -> Answer]]
          /\ answer'[t]["boot"].res = res
          /\ \A j \in Kinds : j # "boot" => answer'[t][j] = answer[t][j]
          /\ \A u \in Tabs : u # t => answer'[u] = answer[u]
        BY <1>1, <1>a, <2>1, <2>2, AnswersSet
    <2>4. /\ answer[t]["boot"].res = "401"
          /\ UNCHANGED <<admin, sessions, cookie, stage, csrf, cache, setup>>
        BY <1>3 DEF AskSetupStatus
    <2>5. TypeOK'
        BY <1>1, <2>3, <2>4 DEF TypeOK
    <2>6. TabInv(t)'
        BY <1>1, <1>a, <2>1, <2>3, <2>4
           DEF TabInv, AnswersInStage, FormOfStage, AnswersAreTrue
    <2> QED
        BY <2>3, <2>4, <2>5, <2>6, OneTab
<1>4. CASE BootSession(t)
    <2>1. /\ answer' \in [Tabs -> [Kinds -> Answer]]
          /\ answer'[t]["boot"].res = "none"
          /\ \A j \in Kinds : j # "boot" => answer'[t][j] = answer[t][j]
          /\ \A u \in Tabs : u # t => answer'[u] = answer[u]
        BY <1>1, <1>4, <1>a, ReceivedSet DEF BootSession
    <2>2. /\ answer[t]["boot"].res = "ok" /\ UNCHANGED <<admin, sessions, cookie, cache, setup>>
          /\ csrf' = [csrf EXCEPT ![t] = answer[t]["boot"].session]
          /\ stage' = [stage EXCEPT ![t] = "authenticated"]
        BY <1>4 DEF BootSession
    <2>3. answer[t]["boot"].session \in Sessions /\ stage[t] = "boot"
        BY <1>1, <2>2 DEF TabInv, AnswersAreTrue, AnswersInStage
    <2>4. /\ csrf'[t] # NoSession /\ stage'[t] = "authenticated"
          /\ \A u \in Tabs : u # t => csrf'[u] = csrf[u] /\ stage'[u] = stage[u]
        BY <1>1, <2>2, <2>3, SessionAssumption DEF TypeOK
    <2>5. TypeOK'
        BY <1>1, <2>1, <2>2, <2>3 DEF TypeOK, Stages
    <2>6. TabInv(t)'
        BY <1>1, <1>a, <2>1, <2>2, <2>3, <2>4
           DEF TabInv, AnswersInStage, FormOfStage, AnswersAreTrue
    <2> QED
        BY <2>1, <2>2, <2>4, <2>5, <2>6, OneTab
<1>5. CASE BootStatus(t) \/ BootFails(t)
    <2>1. /\ answer' \in [Tabs -> [Kinds -> Answer]]
          /\ answer'[t]["boot"].res = "none"
          /\ \A j \in Kinds : j # "boot" => answer'[t][j] = answer[t][j]
          /\ \A u \in Tabs : u # t => answer'[u] = answer[u]
        BY <1>1, <1>5, <1>a, ReceivedSet DEF BootStatus, BootFails
    <2>2. PICK st \in {"setup", "login", "error"} :
            stage' = [stage EXCEPT ![t] = st] /\ UNCHANGED <<admin, sessions, cookie, csrf, cache, setup>>
        BY <1>5 DEF BootStatus, BootFails
    <2>3. stage[t] = "boot"
        BY <1>1, <1>5 DEF BootStatus, BootFails, TabInv, AnswersInStage
    <2>4. stage'[t] = st /\ \A u \in Tabs : u # t => stage'[u] = stage[u]
        BY <1>1, <2>2 DEF TypeOK
    <2>5. TypeOK'
        BY <1>1, <2>1, <2>2 DEF TypeOK, Stages
    <2>6. TabInv(t)'
        BY <1>1, <1>a, <2>1, <2>2, <2>3, <2>4
           DEF TabInv, AnswersInStage, FormOfStage, AnswersAreTrue
    <2> QED
        BY <2>1, <2>2, <2>4, <2>5, <2>6, OneTab
<1>6. CASE Retry(t)
    <2>1. /\ stage[t] = "error" /\ stage' = [stage EXCEPT ![t] = "boot"]
          /\ UNCHANGED <<admin, sessions, cookie, csrf, cache, setup, answer>>
        BY <1>6 DEF Retry
    <2>2. stage'[t] = "boot" /\ \A u \in Tabs : u # t => stage'[u] = stage[u]
        BY <1>1, <2>1 DEF TypeOK
    <2>3. TypeOK'
        BY <1>1, <2>1 DEF TypeOK, Stages
    <2>4. TabInv(t)'
        BY <1>1, <2>1, <2>2 DEF TabInv, AnswersInStage, FormOfStage, AnswersAreTrue
    <2> QED
        BY <2>1, <2>2, <2>3, <2>4, OneTab
<1> QED
    BY <1>2, <1>3, <1>4, <1>5, <1>6 DEF Boot

\* The setup, from its request to the secret shown to the administrator.
LEMMA InvSetup ==
    ASSUME Inv, NEW t \in Tabs,
           SubmitSetup(t) \/ CreateInitialAdmin(t) \/ SetupDone(t) \/ onSetupComplete(t)
    PROVE  Inv'
<1>1. TypeOK /\ TabInv(t)
    BY DEF Inv
<1>a. {"boot", "form", "get", "logout"} \subseteq Kinds
    BY DEF Kinds
<1>2. CASE SubmitSetup(t) \/ CreateInitialAdmin(t)
    <2>1. PICK res \in {"checked", "409", "created"}, s \in {NoSession} :
            /\ Answers(t, "form", res, s)
            /\ admin' = admin \/ admin = NoTab
            /\ admin' \in Tabs \cup {NoTab}
            /\ res = "created" => admin' = t
        BY <1>1, <1>2 DEF SubmitSetup, CreateInitialAdmin, NoAdmin, TypeOK
    <2>2. res \in Res
        BY DEF Res
    <2>3. /\ answer' \in [Tabs -> [Kinds -> Answer]]
          /\ answer'[t]["form"].res = res
          /\ \A j \in Kinds : j # "form" => answer'[t][j] = answer[t][j]
          /\ \A u \in Tabs : u # t => answer'[u] = answer[u]
        BY <1>1, <1>a, <2>1, <2>2, AnswersSet
    <2>4. stage[t] = "setup" /\ ~setup[t] /\ UNCHANGED <<sessions, cookie, stage, csrf, cache, setup>>
        BY <1>1, <1>2 DEF SubmitSetup, CreateInitialAdmin, TabInv, FormOfStage
    <2>5. TypeOK'
        BY <1>1, <2>1, <2>3, <2>4 DEF TypeOK
    <2>6. TabInv(t)'
        BY <1>1, <1>a, <2>1, <2>3, <2>4
           DEF TabInv, AnswersInStage, FormOfStage, AnswersAreTrue
    <2> QED
        BY <2>1, <2>3, <2>4, <2>5, <2>6, OneTab
<1>3. CASE SetupDone(t)
    <2>1. /\ answer' \in [Tabs -> [Kinds -> Answer]]
          /\ answer'[t]["form"].res = "none"
          /\ \A j \in Kinds : j # "form" => answer'[t][j] = answer[t][j]
          /\ \A u \in Tabs : u # t => answer'[u] = answer[u]
        BY <1>1, <1>3, <1>a, ReceivedSet DEF SetupDone
    <2>2. /\ answer[t]["form"].res = "created" /\ setup' = [setup EXCEPT ![t] = TRUE]
          /\ UNCHANGED <<admin, sessions, cookie, stage, csrf, cache>>
        BY <1>3 DEF SetupDone
    <2>3. admin = t /\ stage[t] = "setup"
        BY <1>1, <2>2 DEF TabInv, AnswersAreTrue, FormOfStage
    <2>4. \A u \in Tabs : u # t => setup'[u] = setup[u]
        BY <1>1, <2>2 DEF TypeOK
    <2>5. TypeOK'
        BY <1>1, <2>1, <2>2 DEF TypeOK
    <2>6. TabInv(t)'
        BY <1>1, <1>a, <2>1, <2>2, <2>3
           DEF TabInv, AnswersInStage, FormOfStage, AnswersAreTrue
    <2> QED
        BY <2>1, <2>2, <2>4, <2>5, <2>6, OneTab
<1>4. CASE onSetupComplete(t)
    <2>1. /\ setup[t] /\ setup' = [setup EXCEPT ![t] = FALSE]
          /\ stage' = [stage EXCEPT ![t] = "login"]
          /\ UNCHANGED <<admin, sessions, cookie, csrf, cache, answer>>
        BY <1>4 DEF onSetupComplete
    <2>2. /\ ~setup'[t] /\ stage'[t] = "login"
          /\ \A u \in Tabs : u # t => setup'[u] = setup[u] /\ stage'[u] = stage[u]
        BY <1>1, <2>1 DEF TypeOK
    <2>3. TypeOK'
        BY <1>1, <2>1 DEF TypeOK, Stages
    <2>4. TabInv(t)'
        BY <1>1, <2>1, <2>2 DEF TabInv, AnswersInStage, FormOfStage, AnswersAreTrue
    <2> QED
        BY <2>1, <2>2, <2>3, <2>4, OneTab
<1> QED
    BY <1>2, <1>3, <1>4

\* A login, accepted or refused.
LEMMA InvLogin ==
    ASSUME Inv, NEW t \in Tabs, SubmitLogin(t) \/ LoginDone(t) \/ FormRefused(t)
    PROVE  Inv'
<1>1. TypeOK /\ TabInv(t)
    BY DEF Inv
<1>a. {"boot", "form", "get", "logout"} \subseteq Kinds
    BY DEF Kinds
<1>2. CASE SubmitLogin(t)
    <2>1. PICK res \in {"ok", "401"}, s \in Sessions \cup {NoSession} :
            /\ Answers(t, "form", res, s)
            /\ res = "ok" => s \in Sessions
            /\ sessions' \subseteq Sessions
        BY <1>1, <1>2 DEF SubmitLogin, Fresh, TypeOK
    <2>2. res \in Res
        BY DEF Res
    <2>3. /\ answer' \in [Tabs -> [Kinds -> Answer]]
          /\ answer'[t]["form"].res = res /\ answer'[t]["form"].session = s
          /\ \A j \in Kinds : j # "form" => answer'[t][j] = answer[t][j]
          /\ \A u \in Tabs : u # t => answer'[u] = answer[u]
        BY <1>1, <1>a, <2>1, <2>2, AnswersSet
    <2>4. stage[t] = "login" /\ UNCHANGED <<admin, cookie, stage, csrf, cache, setup>>
        BY <1>2 DEF SubmitLogin
    <2>5. TypeOK'
        BY <1>1, <2>1, <2>3, <2>4 DEF TypeOK
    <2>6. TabInv(t)'
        BY <1>1, <1>a, <2>1, <2>3, <2>4
           DEF TabInv, AnswersInStage, FormOfStage, AnswersAreTrue
    <2> QED
        BY <2>3, <2>4, <2>5, <2>6, OneTab
<1>3. CASE LoginDone(t)
    <2>1. /\ answer' \in [Tabs -> [Kinds -> Answer]]
          /\ answer'[t]["form"].res = "none"
          /\ \A j \in Kinds : j # "form" => answer'[t][j] = answer[t][j]
          /\ \A u \in Tabs : u # t => answer'[u] = answer[u]
        BY <1>1, <1>3, <1>a, ReceivedSet DEF LoginDone
    <2>2. /\ answer[t]["form"].res = "ok" /\ UNCHANGED <<admin, sessions, cache, setup>>
          /\ cookie' = answer[t]["form"].session
          /\ csrf' = [csrf EXCEPT ![t] = answer[t]["form"].session]
          /\ stage' = [stage EXCEPT ![t] = "authenticated"]
        BY <1>3 DEF LoginDone
    <2>3. answer[t]["form"].session \in Sessions /\ stage[t] = "login"
        BY <1>1, <2>2 DEF TabInv, AnswersAreTrue, FormOfStage
    <2>4. /\ csrf'[t] # NoSession /\ stage'[t] = "authenticated"
          /\ \A u \in Tabs : u # t => csrf'[u] = csrf[u] /\ stage'[u] = stage[u]
        BY <1>1, <2>2, <2>3, SessionAssumption DEF TypeOK
    <2>5. TypeOK'
        BY <1>1, <2>1, <2>2, <2>3 DEF TypeOK, Stages
    <2>6. TabInv(t)'
        BY <1>1, <1>a, <2>1, <2>2, <2>3, <2>4
           DEF TabInv, AnswersInStage, FormOfStage, AnswersAreTrue
    <2> QED
        BY <2>1, <2>2, <2>4, <2>5, <2>6, OneTab
<1>4. CASE FormRefused(t) /\ answer[t]["form"].res = "401"
    <2>1. /\ unauthorized(t, "form") /\ UNCHANGED <<admin, sessions, cookie, setup>>
          /\ stage[t] = "login"
        BY <1>1, <1>4 DEF FormRefused, TabInv, FormOfStage
    <2>2. cookie' \in Sessions \cup {NoSession}
        BY <1>1, <2>1 DEF TypeOK
    <2> QED
        BY <2>1, <2>2, UnauthorizedLeaves
<1>5. CASE FormRefused(t) /\ answer[t]["form"].res # "401"
    <2>1. Received(t, "form") /\ UNCHANGED <<admin, sessions, cookie, stage, csrf, cache, setup>>
        BY <1>5 DEF FormRefused
    <2>2. /\ answer' \in [Tabs -> [Kinds -> Answer]]
          /\ answer'[t]["form"].res = "none"
          /\ \A j \in Kinds : j # "form" => answer'[t][j] = answer[t][j]
          /\ \A u \in Tabs : u # t => answer'[u] = answer[u]
        BY <1>1, <1>a, <2>1, ReceivedSet
    <2>3. TypeOK'
        BY <1>1, <2>1, <2>2 DEF TypeOK
    <2>4. TabInv(t)'
        BY <1>1, <1>a, <2>1, <2>2 DEF TabInv, AnswersInStage, FormOfStage, AnswersAreTrue
    <2> QED
        BY <2>1, <2>2, <2>3, <2>4, OneTab
<1> QED
    BY <1>2, <1>3, <1>4, <1>5

\* A logout and its answer.
LEMMA InvLogout ==
    ASSUME Inv, NEW t \in Tabs, SubmitLogout(t) \/ LogoutDone(t)
    PROVE  Inv'
<1>1. TypeOK /\ TabInv(t)
    BY DEF Inv
<1>a. {"boot", "form", "get", "logout"} \subseteq Kinds
    BY DEF Kinds
<1>2. CASE SubmitLogout(t)
    <2>1. PICK res \in {"ok", "401", "403", "fail"}, s \in Sessions \cup {NoSession} :
            Answers(t, "logout", res, s) /\ sessions' \subseteq Sessions
        BY <1>1, <1>2 DEF SubmitLogout, Authorised, LoggedIn, TypeOK
    <2>2. res \in Res
        BY DEF Res
    <2>3. /\ answer' \in [Tabs -> [Kinds -> Answer]]
          /\ answer'[t]["logout"].res = res
          /\ \A j \in Kinds : j # "logout" => answer'[t][j] = answer[t][j]
          /\ \A u \in Tabs : u # t => answer'[u] = answer[u]
        BY <1>1, <1>a, <2>1, <2>2, AnswersSet
    <2>4. stage[t] = "authenticated" /\ UNCHANGED <<admin, cookie, stage, csrf, cache, setup>>
        BY <1>2 DEF SubmitLogout
    <2>5. TypeOK'
        BY <1>1, <2>1, <2>3, <2>4 DEF TypeOK
    <2>6. TabInv(t)'
        BY <1>1, <1>a, <2>1, <2>3, <2>4
           DEF TabInv, AnswersInStage, FormOfStage, AnswersAreTrue
    <2> QED
        BY <2>3, <2>4, <2>5, <2>6, OneTab
<1>3. CASE LogoutDone(t)
    <2>1. /\ unauthorized(t, "logout") /\ UNCHANGED <<admin, sessions, setup>>
          /\ cookie' \in Sessions \cup {NoSession}
        BY <1>1, <1>3 DEF LogoutDone, TypeOK
    <2>2. stage[t] \in {"login", "authenticated"}
        BY <1>1, <1>3 DEF LogoutDone, Idle, TabInv, AnswersInStage, TypeOK, Stages
    <2> QED
        BY <2>1, <2>2, UnauthorizedLeaves
<1> QED
    BY <1>2, <1>3

\* A poll and its answer, with which the tab may be logged out.
LEMMA InvPoll ==
    ASSUME Inv, NEW t \in Tabs, Poll(t) \/ Receive(t)
    PROVE  Inv'
<1>1. TypeOK /\ TabInv(t)
    BY DEF Inv
<1>a. {"boot", "form", "get", "logout"} \subseteq Kinds
    BY DEF Kinds
<1>2. CASE Poll(t)
    <2>1. PICK res \in {"ok", "401"}, s \in {NoSession} : Answers(t, "get", res, s)
        BY <1>2 DEF Poll
    <2>2. res \in Res
        BY DEF Res
    <2>3. /\ answer' \in [Tabs -> [Kinds -> Answer]]
          /\ answer'[t]["get"].res = res
          /\ \A j \in Kinds : j # "get" => answer'[t][j] = answer[t][j]
          /\ \A u \in Tabs : u # t => answer'[u] = answer[u]
        BY <1>1, <1>a, <2>1, <2>2, AnswersSet
    <2>4. /\ stage[t] = "authenticated"
          /\ UNCHANGED <<admin, sessions, cookie, stage, csrf, cache, setup>>
        BY <1>2 DEF Poll
    <2>5. TypeOK'
        BY <1>1, <2>3, <2>4 DEF TypeOK
    <2>6. TabInv(t)'
        BY <1>1, <1>a, <2>1, <2>3, <2>4
           DEF TabInv, AnswersInStage, FormOfStage, AnswersAreTrue
    <2> QED
        BY <2>3, <2>4, <2>5, <2>6, OneTab
<1>3. CASE PollDone(t)
    <2>1. /\ answer' \in [Tabs -> [Kinds -> Answer]]
          /\ answer'[t]["get"].res = "none"
          /\ \A j \in Kinds : j # "get" => answer'[t][j] = answer[t][j]
          /\ \A u \in Tabs : u # t => answer'[u] = answer[u]
        BY <1>1, <1>3, <1>a, ReceivedSet DEF PollDone
    <2>2. /\ UNCHANGED <<admin, sessions, cookie, stage, csrf, setup>>
          /\ \/ UNCHANGED cache
             \/ answer[t]["get"].res = "ok" /\ cache' = [cache EXCEPT ![t] = "fresh"]
        BY <1>3 DEF PollDone
    <2>3. /\ cache'[t] = cache[t] \/ (stage[t] = "authenticated" /\ cache'[t] = "fresh")
          /\ \A u \in Tabs : u # t => cache'[u] = cache[u]
        BY <1>1, <2>2 DEF TypeOK, TabInv, AnswersInStage
    <2>4. TypeOK'
        BY <1>1, <2>1, <2>2 DEF TypeOK
    <2>5. stage[t] \notin {"boot", "error", "setup"}
        BY <1>1, <1>3 DEF PollDone, TabInv, AnswersInStage, NoAnswer
    <2>6. TabInv(t)'
        BY <1>1, <1>a, <2>1, <2>2, <2>3, <2>5
           DEF TabInv, AnswersInStage, FormOfStage, AnswersAreTrue
    <2> QED
        BY <2>1, <2>2, <2>3, <2>4, <2>6, OneTab
<1>4. CASE PollUnauthorized(t)
    <2>1. /\ unauthorized(t, "get") /\ UNCHANGED <<admin, sessions, cookie, setup>>
          /\ answer[t]["get"].res = "401"
        BY <1>4 DEF PollUnauthorized
    <2>2. stage[t] \in {"login", "authenticated"} /\ cookie' \in Sessions \cup {NoSession}
        BY <1>1, <2>1 DEF TabInv, AnswersInStage, NoAnswer, TypeOK, Stages
    <2> QED
        BY <2>1, <2>2, UnauthorizedLeaves
<1> QED
    BY <1>2, <1>3, <1>4 DEF Receive

\* A lost request, and a reload of the page.
LEMMA InvLost ==
    ASSUME Inv, NEW t \in Tabs, Lose(t) \/ Reload(t)
    PROVE  Inv'
<1>1. TypeOK /\ TabInv(t)
    BY DEF Inv
<1>a. {"boot", "form", "get", "logout"} \subseteq Kinds
    BY DEF Kinds
<1>2. CASE Lose(t)
    <2>1. PICK k \in {"form", "get"} : Received(t, k)
        BY <1>2 DEF Lose
    <2>2. /\ answer' \in [Tabs -> [Kinds -> Answer]]
          /\ answer'[t][k].res = "none" /\ answer'[t][k] = NoAnswer
          /\ \A j \in Kinds : j # k => answer'[t][j] = answer[t][j]
          /\ \A u \in Tabs : u # t => answer'[u] = answer[u]
        BY <1>1, <1>a, <2>1, ReceivedSet
    <2>3. UNCHANGED <<admin, sessions, cookie, stage, csrf, cache, setup>>
        BY <1>2 DEF Lose
    <2>4. TypeOK'
        BY <1>1, <2>2, <2>3 DEF TypeOK
    <2>5. TabInv(t)'
        BY <1>1, <1>a, <2>2, <2>3 DEF TabInv, AnswersInStage, FormOfStage, AnswersAreTrue
    <2> QED
        BY <2>2, <2>3, <2>4, <2>5, OneTab
<1>3. CASE Reload(t)
    <2>1. /\ UNCHANGED <<admin, sessions, cookie>>
          /\ stage' = [stage EXCEPT ![t] = "boot"]
          /\ csrf' = [csrf EXCEPT ![t] = NoSession]
          /\ cache' = [cache EXCEPT ![t] = "none"]
          /\ setup' = [setup EXCEPT ![t] = FALSE]
          /\ answer' = [answer EXCEPT ![t] = [k \in Kinds |-> NoAnswer]]
        BY <1>3 DEF Reload
    <2>2. /\ stage'[t] = "boot" /\ csrf'[t] = NoSession /\ cache'[t] = "none" /\ ~setup'[t]
          /\ \A k \in Kinds : answer'[t][k] = NoAnswer
          /\ \A u \in Tabs : u # t =>
               /\ stage'[u] = stage[u] /\ csrf'[u] = csrf[u] /\ cache'[u] = cache[u]
               /\ setup'[u] = setup[u] /\ answer'[u] = answer[u]
        BY <1>1, <2>1 DEF TypeOK
    <2>3. TypeOK'
        BY <1>1, <2>1, NoAnswerType DEF TypeOK, Stages
    <2>4. TabInv(t)'
        BY <1>a, <2>2
           DEF TabInv, AnswersInStage, FormOfStage, AnswersAreTrue, NoAnswer
    <2> QED
        BY <2>1, <2>2, <2>3, <2>4, OneTab
<1> QED
    BY <1>2, <1>3

-----------------------------------------------------------------------------

\* Before anyone has loaded the console.
LEMMA InvInit == Init => Inv
<1> SUFFICES ASSUME Init PROVE Inv
    OBVIOUS
<1>1. TypeOK
    BY NoAnswerType DEF Init, TypeOK, Stages
<1>2. ASSUME NEW t \in Tabs PROVE TabInv(t)
    BY DEF Init, TabInv, AnswersInStage, FormOfStage, AnswersAreTrue, NoAnswer, Kinds
<1> QED
    BY <1>1, <1>2 DEF Inv

\* Every step of a tab or of the server keeps the invariant.
LEMMA InvStep == Inv /\ [Next]_vars => Inv'
<1> SUFFICES ASSUME Inv, [Next]_vars PROVE Inv'
    OBVIOUS
<1>1. CASE UNCHANGED vars
    BY <1>1 DEF vars, Inv, TypeOK, TabInv, AnswersInStage, FormOfStage, AnswersAreTrue
<1>2. ASSUME NEW t \in Tabs, Tab(t) PROVE Inv'
    BY <1>2, InvBoot, InvSetup, InvLogin, InvLogout, InvPoll, InvLost DEF Tab
<1>3. ASSUME NEW s \in Sessions, Expire(s) PROVE Inv'
    <2>1. /\ sessions' \subseteq sessions
          /\ UNCHANGED <<admin, cookie, stage, csrf, cache, setup, answer>>
        BY <1>3 DEF Expire
    <2> QED
        BY <2>1 DEF Inv, TypeOK, TabInv, AnswersInStage, FormOfStage, AnswersAreTrue
<1> QED
    BY <1>1, <1>2, <1>3 DEF Next

\* The invariant holds throughout.
LEMMA Invariance == Spec => []Inv
BY InvInit, InvStep, PTL DEF Spec

\* A tab shows the console exactly while it holds a CSRF token, for any number
\* of tabs and whatever answers arrive late (auth-provider.tsx).
THEOREM TokenWhileShown == Spec => []ConsoleHasToken
<1>1. Inv => ConsoleHasToken
    BY DEF Inv, TabInv, ConsoleHasToken
<1> QED
    BY <1>1, Invariance, PTL

\* Nothing read before a logout or a 401 stays in the query cache or is put
\* there afterwards by a query that was under way.
THEOREM CacheIsCleared == Spec => []CacheIsOfThisLogin
<1>1. Inv => CacheIsOfThisLogin
    BY DEF Inv, TabInv, CacheIsOfThisLogin
<1> QED
    BY <1>1, Invariance, PTL

\* Of any number of setups at once, only the one that created the
\* administrator shows a TOTP secret.
THEOREM OneSetupWins == Spec => []ShownSecretIsTheAdmins
<1>1. Inv => ShownSecretIsTheAdmins
    BY DEF Inv, TabInv, ShownSecretIsTheAdmins
<1> QED
    BY <1>1, Invariance, PTL
=============================================================================
