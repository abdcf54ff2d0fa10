--------------------------- MODULE Browser_proofs ---------------------------
(***************************************************************************)
(* Proofs about what the tabs share and keep beside the chat: the cookies  *)
(* (a session that any tab has been told 401 for is never sent again, and  *)
(* a logout ends the logins under way), the library page, character cards  *)
(* and group turns.  The components share no state.                        *)
(***************************************************************************)
EXTENDS Account, PersonaDesk, PersonaCards, GroupTurn, Lists_proofs, FiniteSetTheorems, SequenceTheorems, TLAPS

-----------------------------------------------------------------------------
(***************************************************************************)
(* The cookies.                                                            *)
(***************************************************************************)

AnyLogin == Logins \cup {NoLogin}
Cookies == {"session", "login"}
Answers == [status : Nat, clear : SUBSET Cookies, cookie : Cookies \cup {"none"}, login : AnyLogin]
CallStages == {"idle", "sent", "waiting", "answered"}
Routes == PageRoutes \cup {"none", "session", "login", "callback"}
Calls == [stage : CallStages, tab : Tabs \cup {"none"}, route : Routes, session : AnyLogin, login : AnyLogin,
          code : AnyLogin, answer : Answers]
Views == {"landing", "loading", "anonymous", "leaving", "provider", "returning", "authenticated"}
LoginStates == [tx : {"new", "begun", "lapsed"}, code : {"fresh", "spent"},
                session : {"none", "open", "refused", "ended"}]

AccountTypeOK ==
  /\ accJar \in [session : AnyLogin, login : AnyLogin]
  /\ accTab \in [Tabs -> [view : Views, login : AnyLogin]]
  /\ accCall \in [AccountCalls -> Calls]
  /\ accLogin \in [Logins -> LoginStates]
  /\ accTold \in [refused : SUBSET Logins, ended : SUBSET Logins]

\* An answer that logs nobody in, and logs out whom it refuses.
Harmless(a) == a.cookie # "session" /\ (a.status = 401 => "session" \in a.clear)

\* An answer on its way that logs login n in, and the traces of its session.
LogsIn(c, n) == accCall[c].answer.cookie = "session" /\ accCall[c].answer.login = n
Used(n) ==
  \/ accJar.session = n
  \/ n \in accTold.refused
  \/ \E c \in AccountCalls : accCall[c].session = n

\* A code buys one answer with a session, and the session is used only after
\* that answer has come in.
AccountInv ==
  /\ AccountTypeOK
  /\ \A c \in AccountCalls :
       accCall[c].answer.status = 401 => accCall[c].answer.cookie # "session" /\ "session" \in accCall[c].answer.clear
  /\ \A n \in Logins :
       /\ accLogin[n].code = "fresh" => ~Used(n) /\ \A c \in AccountCalls : ~LogsIn(c, n)
       /\ \A c \in AccountCalls : LogsIn(c, n) => ~Used(n) /\ \A d \in AccountCalls : LogsIn(d, n) => c = d
  /\ accJar.session \notin accTold.refused

LEMMA LoginsAre == NoLogin \notin Logins /\ AnyLogin \ {NoLogin} = Logins
BY AccountAssumption DEF NoLogin, Logins, AnyLogin

LEMMA AnswersAre ==
  /\ \A s \in Nat, clear \in SUBSET Cookies :
       /\ Clearing(s, clear) \in Answers
       /\ (s = 401 => "session" \in clear) => Harmless(Clearing(s, clear))
  /\ \A s \in Nat : Plain(s) \in Answers /\ (s # 401 => Harmless(Plain(s)))
  /\ Lost \in Answers /\ Harmless(Lost)
  /\ LoginUnavailable \in Answers /\ Harmless(LoginUnavailable)
  /\ LoginFailed \in Answers /\ Harmless(LoginFailed)
  /\ LogoutAnswer \in Answers /\ Harmless(LogoutAnswer)
BY DEF Clearing, Plain, Answer, Lost, LoginUnavailable, LoginFailed, LogoutAnswer, Answers, Harmless, Cookies, AnyLogin

\* What the routes make of a status: 401 comes with the session cleared.
LEMMA GatewayAnswers ==
  ASSUME NEW route \in GatewayRoutes, NEW status \in Upstream
  PROVE  OnGateway(route, status) \in Answers /\ Harmless(OnGateway(route, status))
<1>1. status \in Nat
  BY AccountAssumption
<1>2. MeRoute(status) \in Answers /\ Harmless(MeRoute(status))
  <2>1. CASE status = 200
    BY <2>1, AnswersAre DEF MeRoute
  <2>2. CASE status # 200
    <3>1. MapYanCoreError(status) \in {status, 502, 503}
      BY DEF MapYanCoreError
    <3>2. status = 401 => Classify(status) = "unauthenticated"
      BY DEF Classify
    <3> DEFINE clear == IF Classify(status) = "unauthenticated" THEN {"session"} ELSE {}
    <3>3. clear \in SUBSET Cookies /\ (MapYanCoreError(status) = 401 => "session" \in clear)
      BY <3>1, <3>2 DEF Cookies
    <3>4. MeRoute(status) = Clearing(MapYanCoreError(status), clear)
      BY <2>2 DEF MeRoute, YanCoreErrorResponse
    <3> HIDE DEF clear
    <3> QED
      BY <1>1, <3>1, <3>3, <3>4, AnswersAre
  <2> QED
    BY <2>1, <2>2
<1>3. QuotaRoute(status) \in Answers /\ Harmless(QuotaRoute(status))
  <2>1. QuotaRoute(status) \in {Plain(200), Plain(409), Plain(502)}
    BY DEF QuotaRoute
  <2> QED
    BY <2>1, AnswersAre
<1>4. EmbedRoute(status) \in Answers /\ Harmless(EmbedRoute(status))
  <2>1. EmbedRoute(status) \in {Plain(200), Plain(400)}
    BY DEF EmbedRoute
  <2> QED
    BY <2>1, AnswersAre
<1>5. OnGateway(route, status) \in {MeRoute(status), QuotaRoute(status), EmbedRoute(status)}
  BY DEF OnGateway, GatewayRoutes
<1> QED
  BY <1>2, <1>3, <1>4, <1>5

LEMMA SessionAnswers ==
  ASSUME NEW call, NEW a \in Answers, Harmless(a)
  PROVE  RequireAiSession(call, a) \in Answers /\ Harmless(RequireAiSession(call, a))
BY AnswersAre DEF RequireAiSession, Cookies

LEMMA IdleIs == IdleCall \in Calls /\ Harmless(IdleCall.answer) /\ IdleCall.session = NoLogin
BY AnswersAre DEF IdleCall, Calls, CallStages, Routes, AnyLogin

\* Steps after which no more answers log in and no session is used anew.
LEMMA SessionsRest ==
  ASSUME AccountInv, AccountTypeOK',
         \A c \in AccountCalls : /\ accCall'[c].answer = accCall[c].answer \/ Harmless(accCall'[c].answer)
                                 /\ accCall'[c].session \in {accCall[c].session, accJar.session, NoLogin},
         accJar'.session \in {accJar.session, NoLogin},
         accTold'.refused = accTold.refused,
         \A n \in Logins : accLogin'[n].code = "fresh" => accLogin[n].code = "fresh"
  PROVE  AccountInv'
<1>1. \A c \in AccountCalls, n \in Logins : LogsIn(c, n)' => LogsIn(c, n)
  BY DEF LogsIn, Harmless
<1>2. \A n \in Logins : Used(n)' => Used(n)
  BY LoginsAre DEF Used
<1>3. accJar'.session \notin accTold'.refused
  <2>1. accTold.refused \subseteq Logins
    BY DEF AccountInv, AccountTypeOK
  <2> QED
    BY <2>1, LoginsAre DEF AccountInv
<1>4. \A c \in AccountCalls :
        accCall'[c].answer.status = 401 => accCall'[c].answer.cookie # "session" /\ "session" \in accCall'[c].answer.clear
  BY DEF AccountInv, Harmless
<1>5. \A n \in Logins :
        /\ accLogin'[n].code = "fresh" => ~Used(n)' /\ \A c \in AccountCalls : ~LogsIn(c, n)'
        /\ \A c \in AccountCalls : LogsIn(c, n)' => ~Used(n)' /\ \A d \in AccountCalls : LogsIn(d, n)' => c = d
  BY <1>1, <1>2 DEF AccountInv
<1> QED
  BY <1>3, <1>4, <1>5 DEF AccountInv

-----------------------------------------------------------------------------
LEMMA AnsweredKeeps ==
  ASSUME AccountTypeOK, NEW c \in AccountCalls, NEW a \in Answers, AnswerCall(c, a)
  PROVE  /\ accCall' \in [AccountCalls -> Calls] /\ accCall'[c].answer = a
         /\ \A d \in AccountCalls : accCall'[d].session = accCall[d].session /\ (d # c => accCall'[d] = accCall[d])
<1> DEFINE mid == [accCall EXCEPT ![c].stage = "answered"]
<1>1. mid \in [AccountCalls -> Calls]
      /\ \A d \in AccountCalls : mid[d].session = accCall[d].session /\ (d # c => mid[d] = accCall[d])
  BY DEF AccountTypeOK, Calls, CallStages
<1>2. accCall' = [mid EXCEPT ![c].answer = a]
  BY DEF AnswerCall
<1> HIDE DEF mid
<1>3. accCall' \in [AccountCalls -> Calls]
  BY <1>1, <1>2 DEF Calls
<1>4. accCall'[c].answer = a /\ accCall'[c].session = mid[c].session
  BY <1>1, <1>2 DEF Calls
<1>5. \A d \in AccountCalls : d # c => accCall'[d] = mid[d]
  BY <1>1, <1>2
<1> QED
  BY <1>1, <1>3, <1>4, <1>5

\* The server answers call c with something harmless.
LEMMA AnswerRests ==
  ASSUME AccountInv, NEW c \in AccountCalls, NEW a \in Answers, Harmless(a), AnswerCall(c, a),
         accLogin' \in [Logins -> LoginStates],
         \A n \in Logins : accLogin'[n].code = "fresh" => accLogin[n].code = "fresh"
  PROVE  AccountInv'
<1>1. /\ accCall' = [accCall EXCEPT ![c].stage = "answered", ![c].answer = a]
      /\ UNCHANGED <<accJar, accTab, accTold>> /\ AccountTypeOK
  BY DEF AnswerCall, AccountInv
<1>2. accCall' \in [AccountCalls -> Calls]
  BY <1>1, AnsweredKeeps
<1>3. \A d \in AccountCalls : /\ accCall'[d].answer = accCall[d].answer \/ Harmless(accCall'[d].answer)
                              /\ accCall'[d].session = accCall[d].session
  BY <1>1, AnsweredKeeps
<1>4. AccountTypeOK'
  BY <1>1, <1>2 DEF AccountTypeOK
<1> QED
  BY <1>1, <1>3, <1>4, SessionsRest

LEMMA SentIs ==
  ASSUME AccountTypeOK, NEW t \in Tabs, NEW route \in Routes, NEW code \in AnyLogin
  PROVE  /\ Sent(t, route, code) \in Calls
         /\ Sent(t, route, code).session = accJar.session /\ Harmless(Sent(t, route, code).answer)
BY IdleIs DEF Sent, AccountTypeOK, Calls, CallStages

\* The tab goes to another page, or makes a call.
LEMMA NavigateRests ==
  ASSUME AccountInv, NEW t \in Tabs, NEW route \in Routes, NEW code \in AnyLogin, NEW view \in Views,
         Navigate(t, route, code, view)
  PROVE  AccountInv'
<1>1. PICK c \in AccountCalls :
        accCall' = [d \in AccountCalls |-> IF d = c THEN Sent(t, route, code)
                                          ELSE IF accCall[d].tab = t THEN IdleCall ELSE accCall[d]]
  BY DEF Navigate
<1>2. /\ accTab' = [accTab EXCEPT ![t] = [view |-> view, login |-> code]]
      /\ UNCHANGED <<accJar, accLogin, accTold>> /\ AccountTypeOK
  BY DEF Navigate, AccountInv
<1>3. \A d \in AccountCalls : /\ accCall'[d] \in Calls
                              /\ accCall'[d].answer = accCall[d].answer \/ Harmless(accCall'[d].answer)
                              /\ accCall'[d].session \in {accCall[d].session, accJar.session, NoLogin}
  BY <1>1, <1>2, SentIs, IdleIs DEF AccountTypeOK
<1>4. AccountTypeOK'
  <2>1. accCall' \in [AccountCalls -> Calls]
    BY <1>1, <1>3
  <2> QED
    BY <1>2, <2>1 DEF AccountTypeOK
<1> QED
  BY <1>2, <1>3, <1>4, SessionsRest

LEMMA PageSteps ==
  ASSUME AccountInv, NEW t \in Tabs,
         OpenPage(t) \/ ClickLogin(t) \/ ComeBack(t) \/ \E route \in PageRoutes : CallRoute(t, route)
  PROVE  AccountInv'
<1>1. CASE OpenPage(t) \/ ClickLogin(t) \/ ComeBack(t)
  <2>1. accTab[t].login \in AnyLogin /\ NoLogin \in AnyLogin
    BY DEF AccountInv, AccountTypeOK, AnyLogin
  <2>2. \E route \in Routes, code \in AnyLogin, view \in Views : Navigate(t, route, code, view)
    BY <1>1, <2>1 DEF OpenPage, ClickLogin, ComeBack, Routes, Views
  <2> QED
    BY <2>2, NavigateRests
<1>2. ASSUME NEW route \in PageRoutes, CallRoute(t, route)
      PROVE  AccountInv'
  <2>1. PICK c \in AccountCalls : accCall' = [accCall EXCEPT ![c] = Sent(t, route, NoLogin)]
    BY <1>2 DEF CallRoute
  <2>2. UNCHANGED <<accJar, accTab, accLogin, accTold>> /\ AccountTypeOK
    BY <1>2 DEF CallRoute, AccountInv
  <2>3. /\ Sent(t, route, NoLogin) \in Calls /\ Harmless(Sent(t, route, NoLogin).answer)
        /\ Sent(t, route, NoLogin).session = accJar.session
    BY <2>2, SentIs DEF Routes, AnyLogin
  <2>4. \A d \in AccountCalls : /\ accCall'[d] \in Calls
                                /\ accCall'[d].answer = accCall[d].answer \/ Harmless(accCall'[d].answer)
                                /\ accCall'[d].session \in {accCall[d].session, accJar.session, NoLogin}
    BY <2>1, <2>2, <2>3 DEF AccountTypeOK
  <2>5. AccountTypeOK'
    BY <2>1, <2>2, <2>3 DEF AccountTypeOK
  <2> QED
    BY <2>2, <2>4, <2>5, SessionsRest
<1> QED
  BY <1>1, <1>2

LEMMA ServerSteps ==
  ASSUME AccountInv, NEW c \in AccountCalls, Serve(c) \/ LoseReply(c)
  PROVE  AccountInv'
<1> USE AnswersAre
<1>1. AccountTypeOK /\ (UNCHANGED accLogin => accLogin' \in [Logins -> LoginStates])
  BY DEF AccountInv, AccountTypeOK
<1>2. CASE ServeLocal(c)
  <2>1. AnswerCall(c, RequireAiSession(accCall[c], Plain(200))) /\ UNCHANGED accLogin
    BY <1>2 DEF ServeLocal
  <2>2. Plain(200) \in Answers /\ Harmless(Plain(200))
    OBVIOUS
  <2>3. RequireAiSession(accCall[c], Plain(200)) \in Answers /\ Harmless(RequireAiSession(accCall[c], Plain(200)))
    BY <2>2, SessionAnswers
  <2> QED
    BY <1>1, <2>1, <2>3, AnswerRests
<1>3. CASE ServeGateway(c)
  <2>1. accCall[c].route \in GatewayRoutes /\ UNCHANGED accLogin
    BY <1>3 DEF ServeGateway
  <2>2. PICK status \in SaysOf(accCall[c]) :
          AnswerCall(c, RequireAiSession(accCall[c], OnGateway(accCall[c].route, status)))
    BY <1>3 DEF ServeGateway
  <2>3. status \in Upstream
    BY AccountAssumption DEF SaysOf
  <2> DEFINE a == RequireAiSession(accCall[c], OnGateway(accCall[c].route, status))
  <2>4. a \in Answers /\ Harmless(a)
    BY <2>1, <2>3, GatewayAnswers, SessionAnswers
  <2> QED
    BY <1>1, <2>1, <2>2, <2>4, AnswerRests
<1>4. CASE ServeLogout(c)
  BY <1>1, <1>4, AnswerRests DEF ServeLogout
<1>5. CASE AwaitDiscovery(c)
  <2>1. accCall' = [accCall EXCEPT ![c].stage = "waiting"] /\ UNCHANGED <<accJar, accTab, accLogin, accTold>>
    BY <1>5 DEF AwaitDiscovery
  <2>2. /\ accCall' \in [AccountCalls -> Calls]
        /\ \A d \in AccountCalls : accCall'[d].answer = accCall[d].answer /\ accCall'[d].session = accCall[d].session
    BY <1>1, <2>1 DEF AccountTypeOK, Calls, CallStages
  <2>3. AccountTypeOK'
    BY <1>1, <2>1, <2>2 DEF AccountTypeOK
  <2> QED
    BY <2>1, <2>2, <2>3, SessionsRest
<1>6. CASE ServeLogin(c)
  <2>1. PICK n \in Logins : accLogin' = [accLogin EXCEPT ![n].tx = "begun"] /\ AnswerCall(c, Answer(302, {}, "login", n))
    BY <1>6 DEF ServeLogin
  <2>2. Answer(302, {}, "login", n) \in Answers /\ Harmless(Answer(302, {}, "login", n))
    BY DEF Answer, Answers, Harmless, Cookies, AnyLogin
  <2>3. accLogin' \in [Logins -> LoginStates] /\ \A m \in Logins : accLogin'[m].code = accLogin[m].code
    BY <1>1, <2>1 DEF AccountTypeOK, LoginStates
  <2> QED
    BY <2>1, <2>2, <2>3, AnswerRests
<1>7. CASE ServeStrayCallback(c)
  <2>1. AnswerCall(c, Plain(302)) /\ UNCHANGED accLogin
    BY <1>7 DEF ServeStrayCallback
  <2>2. Plain(302) \in Answers /\ Harmless(Plain(302))
    OBVIOUS
  <2> QED
    BY <1>1, <2>1, <2>2, AnswerRests
<1>8. CASE ServeCallback(c)
  <2>1. PICK n \in Logins : n = accCall[c].login
    BY <1>1, <1>8, LoginsAre DEF ServeCallback, ValidTransaction, AccountTypeOK, Calls
  <2>2. CASE AnswerCall(c, LoginFailed)
    <3>1. accLogin' \in {accLogin, [accLogin EXCEPT ![n].code = "spent"]}
              \/ accLogin' = [accLogin EXCEPT ![n].code = "spent", ![n].session = "open"]
      BY <1>8, <2>1 DEF ServeCallback
    <3>2. PICK l \in LoginStates : l.code \in {"spent", accLogin[n].code} /\ accLogin' = [accLogin EXCEPT ![n] = l]
      <4>1. accLogin \in [Logins -> LoginStates] /\ accLogin[n] \in LoginStates
        BY <1>1, <2>1 DEF AccountTypeOK
      <4>2. CASE accLogin' = accLogin
        BY <4>1, <4>2
      <4>3. CASE accLogin' = [accLogin EXCEPT ![n].code = "spent"]
        <5>1. [accLogin[n] EXCEPT !.code = "spent"] \in LoginStates
          BY <4>1 DEF LoginStates
        <5>2. [accLogin[n] EXCEPT !.code = "spent"].code = "spent"
          BY <4>1 DEF LoginStates
        <5> QED BY <4>1, <4>3, <5>1, <5>2
      <4>4. CASE accLogin' = [accLogin EXCEPT ![n].code = "spent", ![n].session = "open"]
        <5>1. [accLogin[n] EXCEPT !.code = "spent", !.session = "open"] \in LoginStates
          BY <4>1 DEF LoginStates
        <5>2. [accLogin[n] EXCEPT !.code = "spent", !.session = "open"].code = "spent"
          BY <4>1 DEF LoginStates
        <5>3. accLogin' = [accLogin EXCEPT ![n] = [accLogin[n] EXCEPT !.code = "spent", !.session = "open"]]
          BY <4>1, <4>4 DEF LoginStates
        <5> QED BY <4>1, <5>1, <5>2, <5>3
      <4> QED
        BY <3>1, <4>2, <4>3, <4>4
    <3>3. accLogin' \in [Logins -> LoginStates] /\ \A m \in Logins : accLogin'[m].code = "fresh" => accLogin[m].code = "fresh"
      BY <1>1, <2>1, <3>2 DEF AccountTypeOK
    <3> QED
      BY <2>2, <3>3, AnswerRests
  <2>3. CASE AnswerCall(c, Answer(302, {"login"}, "session", n)) /\ accLogin[n].code = "fresh"
             /\ accLogin' = [accLogin EXCEPT ![n].code = "spent", ![n].session = "open"]
    <3> DEFINE a == Answer(302, {"login"}, "session", n)
    <3>1. a \in Answers /\ a.cookie = "session" /\ a.login = n /\ a.status # 401
      BY <2>1 DEF Answer, Answers, Cookies, AnyLogin
    <3>2. AnswerCall(c, a) /\ UNCHANGED <<accJar, accTab, accTold>>
      BY <2>3 DEF AnswerCall
    <3> HIDE DEF a
    <3>3. /\ accCall' \in [AccountCalls -> Calls] /\ accCall'[c].answer = a
          /\ \A d \in AccountCalls : accCall'[d].session = accCall[d].session /\ (d # c => accCall'[d].answer = accCall[d].answer)
      BY <1>1, <3>1, <3>2, AnsweredKeeps
    <3>4. /\ accLogin' \in [Logins -> LoginStates] /\ accLogin'[n].code = "spent"
          /\ \A m \in Logins : m # n => accLogin'[m] = accLogin[m]
      BY <1>1, <2>1, <2>3 DEF AccountTypeOK, LoginStates
    <3>5. AccountTypeOK'
      BY <1>1, <3>2, <3>3, <3>4 DEF AccountTypeOK
    <3>6. ~Used(n) /\ \A d \in AccountCalls : ~LogsIn(d, n)
      BY <2>1, <2>3 DEF AccountInv
    <3>7. \A m \in Logins : Used(m)' <=> Used(m)
      BY <3>2, <3>3 DEF Used
    <3>8. \A m \in Logins, d \in AccountCalls : LogsIn(d, m)' <=> (LogsIn(d, m) \/ (d = c /\ m = n)) /\ (d = c => m = n)
      BY <3>1, <3>3 DEF LogsIn
    <3>9. \A m \in Logins :
            /\ accLogin'[m].code = "fresh" => ~Used(m)' /\ \A d \in AccountCalls : ~LogsIn(d, m)'
            /\ \A d \in AccountCalls : LogsIn(d, m)' => ~Used(m)' /\ \A e \in AccountCalls : LogsIn(e, m)' => d = e
      <4>1. ASSUME NEW m \in Logins, m # n
            PROVE  /\ accLogin'[m].code = "fresh" => ~Used(m)' /\ \A d \in AccountCalls : ~LogsIn(d, m)'
                   /\ \A d \in AccountCalls : LogsIn(d, m)' => ~Used(m)' /\ \A e \in AccountCalls : LogsIn(e, m)' => d = e
        BY <3>4, <3>7, <3>8, <4>1 DEF AccountInv
      <4>2. /\ accLogin'[n].code # "fresh" /\ ~Used(n)'
            /\ \A d \in AccountCalls : LogsIn(d, n)' => d = c
        BY <2>1, <3>4, <3>6, <3>7, <3>8
      <4> QED
        BY <4>1, <4>2
    <3>10. \A d \in AccountCalls :
             accCall'[d].answer.status = 401 => accCall'[d].answer.cookie # "session" /\ "session" \in accCall'[d].answer.clear
      BY <3>1, <3>3 DEF AccountInv
    <3> QED
      BY <3>2, <3>5, <3>9, <3>10 DEF AccountInv
  <2> QED
    BY <1>8, <2>1, <2>2, <2>3 DEF ServeCallback
<1>9. CASE LoseReply(c)
  BY <1>1, <1>9, AnswerRests DEF LoseReply
<1> QED
  BY <1>2, <1>3, <1>4, <1>5, <1>6, <1>7, <1>8, <1>9 DEF Serve

\* The browser takes in an answer: the only step that sets the cookie.
LEMMA ReceiveKeeps ==
  ASSUME AccountInv, NEW c \in AccountCalls, Receive(c)
  PROVE  AccountInv'
<1> DEFINE call == accCall[c]
           a == call.answer
<1>1. AccountTypeOK /\ call \in Calls /\ a \in Answers
  BY DEF AccountInv, AccountTypeOK, Calls
<1>2. /\ accJar' = [session |-> Cookie("session", a), login |-> Cookie("login", a)]
      /\ accTab' = [accTab EXCEPT ![call.tab] = ViewAfter(call, accTab[call.tab])]
      /\ accCall' = [accCall EXCEPT ![c] = IdleCall]
      /\ accTold'.refused = accTold.refused \cup (IF a.status = 401 THEN {call.session} \ {NoLogin} ELSE {})
      /\ UNCHANGED accLogin
  BY DEF Receive
<1>3. Cookie("session", a) \in AnyLogin /\ Cookie("login", a) \in AnyLogin
  BY <1>1 DEF Cookie, Answers, AccountTypeOK, AnyLogin
<1>4. accTab' \in [Tabs -> [view : Views, login : AnyLogin]]
  <2>1. CASE call.tab \notin Tabs
    BY <1>1, <1>2, <2>1 DEF AccountTypeOK
  <2>2. CASE call.tab \in Tabs
    <3> DEFINE tab == accTab[call.tab]
    <3>1. tab \in [view : Views, login : AnyLogin] /\ call.session \in AnyLogin /\ a.login \in AnyLogin /\ NoLogin \in AnyLogin
      BY <1>1, <2>2 DEF AccountTypeOK, Calls, Answers, AnyLogin
    <3>2. ViewAfter(call, tab) = tab \/
          \E v \in Views, n \in AnyLogin : ViewAfter(call, tab) = [view |-> v, login |-> n]
      BY <3>1 DEF ViewAfter, Views
    <3>3. ViewAfter(call, tab) \in [view : Views, login : AnyLogin]
      <4>1. \A v \in Views, n \in AnyLogin : [view |-> v, login |-> n] \in [view : Views, login : AnyLogin]
        OBVIOUS
      <4> QED
        BY <3>1, <3>2, <4>1
    <3> QED
      BY <1>1, <1>2, <2>2, <3>3 DEF AccountTypeOK
  <2> QED
    BY <2>1, <2>2
<1>5. accTold' \in [refused : SUBSET Logins, ended : SUBSET Logins]
  <2>1. PICK ended \in SUBSET Logins :
          accTold' = [refused |-> accTold.refused \cup (IF a.status = 401 THEN {call.session} \ {NoLogin} ELSE {}),
                      ended |-> accTold.ended \cup ended]
    BY DEF Receive
  <2>2. call.session \in AnyLogin
    BY <1>1 DEF Calls
  <2> QED
    BY <1>1, <2>1, <2>2, LoginsAre DEF AccountTypeOK
<1>6. /\ accCall' \in [AccountCalls -> Calls]
      /\ accCall'[c] = IdleCall /\ \A d \in AccountCalls : d # c => accCall'[d] = accCall[d]
  BY <1>1, <1>2, IdleIs DEF AccountTypeOK
<1>7. AccountTypeOK'
  BY <1>1, <1>2, <1>3, <1>4, <1>5, <1>6 DEF AccountTypeOK
<1>8. a.status = 401 => a.cookie # "session" /\ "session" \in a.clear
  BY DEF AccountInv
<1>9. /\ accJar'.session = Cookie("session", a)
      /\ a.cookie = "session" => accJar'.session = a.login /\ accTold'.refused = accTold.refused
      /\ a.cookie # "session" => accJar'.session \in {accJar.session, NoLogin}
      /\ a.status = 401 => accJar'.session = NoLogin
  BY <1>2, <1>8 DEF Cookie
<1>10. \A n \in Logins, d \in AccountCalls : LogsIn(d, n)' <=> LogsIn(d, n) /\ d # c
  BY <1>6, IdleIs DEF LogsIn, Harmless
<1>11. \A n \in Logins : Used(n)' => Used(n) \/ LogsIn(c, n)
  <2> SUFFICES ASSUME NEW n \in Logins, Used(n)', ~Used(n) PROVE LogsIn(c, n)
    OBVIOUS
  <2>1. accJar.session # n /\ n \notin accTold.refused /\ \A d \in AccountCalls : accCall[d].session # n
    BY DEF Used
  <2>2. n # NoLogin
    BY LoginsAre
  <2>3. n \notin accTold'.refused
    BY <1>2, <2>1
  <2>4. \A d \in AccountCalls : accCall'[d].session # n
    BY <1>6, <2>1, <2>2, IdleIs
  <2>5. accJar'.session = n
    BY <2>3, <2>4 DEF Used
  <2> QED
    BY <1>9, <2>1, <2>2, <2>5 DEF LogsIn
<1>12. \A n \in Logins :
         /\ accLogin'[n].code = "fresh" => ~Used(n)' /\ \A d \in AccountCalls : ~LogsIn(d, n)'
         /\ \A d \in AccountCalls : LogsIn(d, n)' => ~Used(n)' /\ \A e \in AccountCalls : LogsIn(e, n)' => d = e
  BY <1>2, <1>10, <1>11 DEF AccountInv
<1>13. accJar'.session \notin accTold'.refused
  <2>1. accTold.refused \subseteq Logins /\ accTold'.refused \subseteq Logins
    BY <1>1, <1>5 DEF AccountTypeOK
  <2>2. CASE a.cookie = "session"
    <3>1. accJar'.session = a.login /\ accTold'.refused = accTold.refused
      BY <1>9, <2>2
    <3>2. a.login \in Logins => ~Used(a.login)
      BY <2>2 DEF AccountInv, LogsIn
    <3> QED
      BY <2>1, <3>1, <3>2 DEF Used
  <2>3. CASE a.status = 401
    BY <1>9, <2>1, <2>3, LoginsAre
  <2>4. CASE a.cookie # "session" /\ a.status # 401
    BY <1>2, <1>9, <2>1, <2>4, LoginsAre DEF AccountInv
  <2> QED
    BY <2>2, <2>3, <2>4
<1>14. \A d \in AccountCalls :
         accCall'[d].answer.status = 401 => accCall'[d].answer.cookie # "session" /\ "session" \in accCall'[d].answer.clear
  BY <1>6, IdleIs DEF AccountInv, Harmless
<1> QED
  BY <1>7, <1>12, <1>13, <1>14 DEF AccountInv

LEMMA FaultSteps ==
  ASSUME AccountInv,
         DiscoverySettles \/ RestartServer \/ (\E n \in Logins : TimePasses(n) \/ RevokeGrant(n)) \/ UNCHANGED accountVars
  PROVE  AccountInv'
<1>1. AccountTypeOK
  BY DEF AccountInv
<1>2. CASE DiscoverySettles
  <2>1. PICK ok \in BOOLEAN : accCall' = [c \in AccountCalls |->
            IF accCall[c].stage # "waiting" THEN accCall[c]
            ELSE IF ok THEN [accCall[c] EXCEPT !.stage = "sent"]
            ELSE [accCall[c] EXCEPT !.stage = "answered",
                    !.answer = IF accCall[c].route = "login" THEN LoginUnavailable ELSE LoginFailed]]
    BY <1>2 DEF DiscoverySettles
  <2>2. UNCHANGED <<accJar, accTab, accLogin, accTold>>
    BY <1>2 DEF DiscoverySettles
  <2>3. \A c \in AccountCalls : accCall[c] \in Calls
    BY <1>1 DEF AccountTypeOK
  <2>4. \A c \in AccountCalls : /\ accCall'[c] \in Calls /\ accCall'[c].session = accCall[c].session
                                /\ accCall'[c].answer \in {accCall[c].answer, LoginUnavailable, LoginFailed}
    BY <2>1, <2>3, AnswersAre DEF Calls, CallStages
  <2>5. AccountTypeOK'
    <3>1. accCall' \in [AccountCalls -> Calls]
      BY <2>1, <2>4
    <3> QED
      BY <1>1, <2>2, <3>1 DEF AccountTypeOK
  <2> QED
    BY <2>2, <2>4, <2>5, AnswersAre, SessionsRest
<1>3. CASE RestartServer
  <2>1. accCall' = [c \in AccountCalls |-> IF accCall[c].stage \in {"sent", "waiting"}
                                 THEN [accCall[c] EXCEPT !.stage = "answered", !.answer = Lost] ELSE accCall[c]]
    BY <1>3 DEF RestartServer
  <2>2. UNCHANGED <<accJar, accTab, accLogin, accTold>>
    BY <1>3 DEF RestartServer
  <2>3. \A c \in AccountCalls : accCall[c] \in Calls
    BY <1>1 DEF AccountTypeOK
  <2>4. \A c \in AccountCalls : /\ accCall'[c] \in Calls /\ accCall'[c].session = accCall[c].session
                                /\ accCall'[c].answer \in {accCall[c].answer, Lost}
    BY <2>1, <2>3, AnswersAre DEF Calls, CallStages
  <2>5. AccountTypeOK'
    <3>1. accCall' \in [AccountCalls -> Calls]
      BY <2>1, <2>4
    <3> QED
      BY <1>1, <2>2, <3>1 DEF AccountTypeOK
  <2> QED
    BY <2>2, <2>4, <2>5, AnswersAre, SessionsRest
<1>4. ASSUME NEW n \in Logins, TimePasses(n) \/ RevokeGrant(n)
      PROVE  AccountInv'
  <2>1. UNCHANGED <<accTab, accCall, accTold>>
    BY <1>4 DEF TimePasses, RevokeGrant
  <2>2. \/ accLogin' = [accLogin EXCEPT ![n].tx = "lapsed"]
        \/ accLogin' = [accLogin EXCEPT ![n].session = "ended"]
        \/ accLogin' = [accLogin EXCEPT ![n].session = "refused"]
    BY <1>4 DEF TimePasses, RevokeGrant
  <2>3. accLogin' \in [Logins -> LoginStates] /\ \A m \in Logins : accLogin'[m].code = accLogin[m].code
    BY <1>1, <2>2 DEF AccountTypeOK, LoginStates
  <2>4. accJar' = accJar \/ Drop("login", n) \/ Drop("session", n)
    BY <1>4 DEF TimePasses, RevokeGrant
  <2>5. accJar' \in [session : AnyLogin, login : AnyLogin] /\ accJar'.session \in {accJar.session, NoLogin}
    BY <1>1, <2>4 DEF Drop, AccountTypeOK, AnyLogin
  <2>6. AccountTypeOK'
    BY <1>1, <2>1, <2>3, <2>5 DEF AccountTypeOK
  <2> QED
    BY <2>1, <2>3, <2>5, <2>6, SessionsRest
<1>5. CASE UNCHANGED accountVars
  <2>1. AccountTypeOK'
    BY <1>1, <1>5 DEF accountVars, AccountTypeOK
  <2> QED
    BY <1>5, <2>1, SessionsRest DEF accountVars
<1> QED
  BY <1>2, <1>3, <1>4, <1>5

LEMMA AccountInvariant == AccountSpec => []AccountInv
<1>1. AccountInit => AccountInv
  <2> SUFFICES ASSUME AccountInit PROVE AccountInv
    OBVIOUS
  <2>1. AccountTypeOK
    BY IdleIs DEF AccountInit, AccountTypeOK, AnyLogin, Views, LoginStates
  <2>2. /\ \A c \in AccountCalls : Harmless(accCall[c].answer) /\ accCall[c].session = NoLogin
        /\ accJar.session = NoLogin /\ accTold.refused = {}
    BY IdleIs DEF AccountInit
  <2>3. \A n \in Logins : ~Used(n) /\ \A c \in AccountCalls : ~LogsIn(c, n)
    BY <2>2, LoginsAre DEF Used, LogsIn, Harmless
  <2> QED
    BY <2>1, <2>2, <2>3 DEF AccountInv, Harmless
<1>2. AccountInv /\ [AccountNext]_accountVars => AccountInv'
  BY PageSteps, ServerSteps, ReceiveKeeps, FaultSteps DEF AccountNext
<1> QED
  BY <1>1, <1>2, PTL DEF AccountSpec

(***************************************************************************)
(* A session that has been refused with 401 is never sent again, whatever  *)
(* tabs, logins, restarts and late answers there are: a code buys one      *)
(* answer with a session, and a session is used only after it (lib/oidc.ts,*)
(* lib/session.ts, lib/server-errors.ts).                                  *)
(***************************************************************************)
THEOREM RefusedSessionIsGone == AccountSpec => []RefusedSessionGone
<1>1. AccountInv => RefusedSessionGone
  BY DEF AccountInv, RefusedSessionGone
<1> QED
  BY <1>1, AccountInvariant, PTL

-----------------------------------------------------------------------------
(* Logins under way when the browser logs out.                             *)

\* A login nothing can bring back: no cookie has it, no callback was sent
\* with it, and no answer carries it.
Gone(n) ==
  /\ accJar.session # n /\ accJar.login # n
  /\ \A c \in AccountCalls :
       accCall[c].answer.login # n /\ (accCall[c].route = "callback" => accCall[c].login # n)

ClearsBoth(a) == a.clear = Cookies /\ a.cookie = "none"

\* A logout that has been answered clears both cookies, and a login that was
\* not on its way then does not come back: it is not new, so no answer of the
\* login route is about it.
EndedInv ==
  /\ \A c \in AccountCalls :
       accCall[c].route = "logout" /\ accCall[c].answer.status = 200 => ClearsBoth(accCall[c].answer)
  /\ \A n \in accTold.ended : accLogin[n].tx # "new" /\ Gone(n)

\* What a call becomes, unless its answer is taken in.
CallMovesOn(c) ==
  /\ accCall'[c].route = "callback" =>
       \/ accCall'[c].login = accJar.login
       \/ accCall[c].route = "callback" /\ accCall'[c].login = accCall[c].login
  /\ \/ accCall'[c].answer.login \in {accCall[c].answer.login, NoLogin}
     \/ accCall[c].route = "callback" /\ accCall'[c].answer.login = accCall[c].login
     \/ \E n \in Logins : accLogin[n].tx = "new" /\ accCall'[c].answer.login = n
  /\ accCall'[c].route = "logout" /\ accCall'[c].answer.status = 200 =>
       ClearsBoth(accCall'[c].answer) \/ (accCall[c].route = "logout" /\ accCall'[c].answer = accCall[c].answer)

LEMMA EndedRests ==
  ASSUME AccountTypeOK, EndedInv, \A c \in AccountCalls : CallMovesOn(c),
         accJar'.session \in {accJar.session, NoLogin}, accJar'.login \in {accJar.login, NoLogin},
         accTold'.ended = accTold.ended,
         \A n \in Logins : accLogin'[n].tx = "new" => accLogin[n].tx = "new"
  PROVE  EndedInv'
<1>1. ASSUME NEW c \in AccountCalls, accCall'[c].route = "logout", accCall'[c].answer.status = 200
      PROVE  ClearsBoth(accCall'[c].answer)
  BY <1>1 DEF CallMovesOn, EndedInv
<1>2. ASSUME NEW n \in accTold.ended
      PROVE  accLogin'[n].tx # "new" /\ Gone(n)'
  <2>1. n \in Logins /\ n # NoLogin /\ accLogin[n].tx # "new" /\ Gone(n)
    BY LoginsAre DEF AccountTypeOK, EndedInv
  <2>2. ASSUME NEW c \in AccountCalls
        PROVE  accCall'[c].answer.login # n /\ (accCall'[c].route = "callback" => accCall'[c].login # n)
    BY <2>1 DEF CallMovesOn, Gone
  <2>3. accJar'.session # n /\ accJar'.login # n
    BY <2>1 DEF Gone
  <2> QED BY <2>1, <2>2, <2>3 DEF Gone
<1> QED BY <1>1, <1>2 DEF EndedInv

LEMMA EndedAnswered ==
  ASSUME AccountTypeOK, EndedInv, NEW c \in AccountCalls, NEW a \in Answers, AnswerCall(c, a),
         \/ a.login = NoLogin
         \/ accCall[c].route = "callback" /\ a.login = accCall[c].login
         \/ \E n \in Logins : accLogin[n].tx = "new" /\ a.login = n,
         accCall[c].route = "logout" /\ a.status = 200 => ClearsBoth(a),
         \A n \in Logins : accLogin'[n].tx = "new" => accLogin[n].tx = "new"
  PROVE  EndedInv'
<1>1. accCall' \in [AccountCalls -> Calls] /\ accCall'[c].answer = a
      /\ \A d \in AccountCalls : d # c => accCall'[d] = accCall[d]
  BY AnsweredKeeps
<1>2. accCall'[c].route = accCall[c].route /\ accCall'[c].login = accCall[c].login
  <2> DEFINE r == [accCall[c] EXCEPT !.stage = "answered", !.answer = a]
  <2>1. accCall[c] \in Calls
    BY DEF AccountTypeOK
  <2>2. r.route = accCall[c].route /\ r.login = accCall[c].login
    BY <2>1 DEF Calls
  <2>3. accCall'[c] = r
    BY <2>1 DEF AnswerCall, AccountTypeOK, Calls
  <2> QED BY <2>2, <2>3
<1>3. \A d \in AccountCalls : CallMovesOn(d)
  BY <1>1, <1>2 DEF CallMovesOn
<1> QED
  BY <1>3, EndedRests DEF AnswerCall

LEMMA EndedServer ==
  ASSUME AccountTypeOK, EndedInv, NEW c \in AccountCalls, Serve(c) \/ LoseReply(c)
  PROVE  EndedInv'
<1> USE AnswersAre
<1>1. \A a \in Answers : a.status # 200 => (accCall[c].route = "logout" /\ a.status = 200 => ClearsBoth(a))
  OBVIOUS
<1>2. CASE ServeLocal(c)
  <2>1. RequireAiSession(accCall[c], Plain(200)) \in Answers /\ RequireAiSession(accCall[c], Plain(200)).login = NoLogin
    BY SessionAnswers DEF RequireAiSession, Clearing, Plain, Answer, Answers, AnyLogin, Cookies
  <2> QED BY <1>2, <2>1, EndedAnswered DEF ServeLocal
<1>3. CASE ServeGateway(c)
  <2>1. PICK status \in SaysOf(accCall[c]) :
          AnswerCall(c, RequireAiSession(accCall[c], OnGateway(accCall[c].route, status)))
    BY <1>3 DEF ServeGateway
  <2>2. status \in Upstream /\ accCall[c].route \in GatewayRoutes
    BY <1>3, AccountAssumption DEF ServeGateway, SaysOf
  <2> DEFINE a == RequireAiSession(accCall[c], OnGateway(accCall[c].route, status))
  <2>3. a \in Answers
    BY <2>2, GatewayAnswers, SessionAnswers
  <2>4. \E s, clear : a = Clearing(s, clear)
    <3>1. \E s, clear : OnGateway(accCall[c].route, status) = Clearing(s, clear)
      BY <2>2 DEF OnGateway, MeRoute, QuotaRoute, EmbedRoute, YanCoreErrorResponse, Plain, GatewayRoutes
    <3> QED BY <3>1 DEF RequireAiSession
  <2>5. a.login = NoLogin
    BY <2>4 DEF Clearing, Answer
  <2>6. accCall[c].route # "logout"
    BY <2>2 DEF GatewayRoutes
  <2> HIDE DEF a
  <2> QED BY <1>3, <2>1, <2>3, <2>5, <2>6, EndedAnswered DEF ServeGateway, a
<1>4. CASE ServeLogout(c)
  <2>1. LogoutAnswer.login = NoLogin /\ ClearsBoth(LogoutAnswer)
    BY DEF LogoutAnswer, Clearing, Answer, ClearsBoth, Cookies
  <2> QED BY <1>4, <2>1, EndedAnswered DEF ServeLogout
<1>5. CASE AwaitDiscovery(c)
  <2>1. accCall' = [accCall EXCEPT ![c].stage = "waiting"] /\ UNCHANGED <<accJar, accLogin, accTold>>
    BY <1>5 DEF AwaitDiscovery
  <2>2. \A d \in AccountCalls : /\ accCall'[d].answer = accCall[d].answer /\ accCall'[d].route = accCall[d].route
                                /\ accCall'[d].login = accCall[d].login
    BY <2>1 DEF AccountTypeOK, Calls
  <2>3. \A d \in AccountCalls : CallMovesOn(d)
    BY <2>2 DEF CallMovesOn
  <2> QED BY <2>1, <2>3, EndedRests
<1>6. CASE ServeLogin(c)
  <2>1. PICK n \in Logins : /\ accLogin[n].tx = "new" /\ accLogin' = [accLogin EXCEPT ![n].tx = "begun"]
                            /\ AnswerCall(c, Answer(302, {}, "login", n))
    BY <1>6 DEF ServeLogin
  <2>2. /\ Answer(302, {}, "login", n) \in Answers /\ Answer(302, {}, "login", n).login = n
        /\ Answer(302, {}, "login", n).status # 200
    BY DEF Answer, Answers, Cookies, AnyLogin
  <2>3. \A m \in Logins : accLogin'[m].tx = "new" => accLogin[m].tx = "new"
    BY <2>1 DEF AccountTypeOK, LoginStates
  <2> QED BY <2>1, <2>2, <2>3, EndedAnswered
<1>7. CASE ServeStrayCallback(c)
  <2>1. Plain(302).login = NoLogin /\ Plain(302).status # 200 /\ Plain(302) \in Answers
    BY DEF Plain, Clearing, Answer
  <2> QED BY <1>7, <2>1, EndedAnswered DEF ServeStrayCallback
<1>8. CASE ServeCallback(c)
  <2> DEFINE n == accCall[c].login
  <2>1. accCall[c].route = "callback" /\ n \in Logins
    BY <1>8, LoginsAre DEF ServeCallback, ValidTransaction, AccountTypeOK, Calls
  <2>2. \A m \in Logins : accLogin'[m].tx = accLogin[m].tx
    BY <1>8, <2>1 DEF ServeCallback, AccountTypeOK, LoginStates
  <2>3. PICK a \in {LoginFailed, Answer(302, {"login"}, "session", n)} : AnswerCall(c, a)
    BY <1>8 DEF ServeCallback
  <2>4. a \in Answers /\ a.login \in {NoLogin, n}
    BY <2>1, <2>3 DEF LoginFailed, Clearing, Answer, Answers, Cookies, AnyLogin
  <2> QED BY <2>1, <2>2, <2>3, <2>4, EndedAnswered
<1>9. CASE LoseReply(c)
  <2>1. Lost.login = NoLogin /\ Lost.status # 200
    BY DEF Lost, Plain, Clearing, Answer
  <2> QED BY <1>9, <2>1, EndedAnswered DEF LoseReply
<1> QED
  BY <1>2, <1>3, <1>4, <1>5, <1>6, <1>7, <1>8, <1>9 DEF Serve

LEMMA EndedPages ==
  ASSUME AccountTypeOK, EndedInv, NEW t \in Tabs,
         OpenPage(t) \/ ClickLogin(t) \/ ComeBack(t) \/ \E route \in PageRoutes : CallRoute(t, route)
  PROVE  EndedInv'
<1>1. /\ Lost.login = NoLogin /\ Lost.status # 200 /\ IdleCall.answer = Lost /\ IdleCall.route = "none"
      /\ \A route, code : /\ Sent(t, route, code).answer = Lost /\ Sent(t, route, code).login = accJar.login
  BY DEF Lost, Plain, Clearing, Answer, IdleCall, Sent
<1>2. \A d \in AccountCalls :
        accCall'[d] \in {accCall[d], IdleCall} \/ \E route, code : accCall'[d] = Sent(t, route, code)
  <2>1. CASE OpenPage(t) \/ ClickLogin(t) \/ ComeBack(t)
    BY <2>1 DEF OpenPage, ClickLogin, ComeBack, Navigate
  <2>2. ASSUME NEW route \in PageRoutes, CallRoute(t, route)
        PROVE  \A d \in AccountCalls : accCall'[d] = accCall[d] \/ accCall'[d] = Sent(t, route, NoLogin)
    BY <2>2 DEF CallRoute, AccountTypeOK
  <2> QED BY <2>1, <2>2
<1>3. ASSUME NEW d \in AccountCalls PROVE CallMovesOn(d)
  BY <1>1, <1>2 DEF CallMovesOn
<1>4. UNCHANGED <<accJar, accLogin, accTold>>
  BY DEF OpenPage, ClickLogin, ComeBack, Navigate, CallRoute
<1> QED BY <1>3, <1>4, EndedRests

LEMMA EndedFaults ==
  ASSUME AccountTypeOK, EndedInv,
         DiscoverySettles \/ RestartServer \/ (\E n \in Logins : TimePasses(n) \/ RevokeGrant(n)) \/ UNCHANGED accountVars
  PROVE  EndedInv'
<1> DEFINE SameCall(d) == accCall'[d].route = accCall[d].route /\ accCall'[d].login = accCall[d].login
<1>1. /\ Lost.login = NoLogin /\ Lost.status # 200 /\ LoginUnavailable.login = NoLogin /\ LoginUnavailable.status # 200
      /\ LoginFailed.login = NoLogin /\ LoginFailed.status # 200
  BY DEF Lost, LoginUnavailable, LoginFailed, Plain, Clearing, Answer
<1>2. \A d \in AccountCalls : SameCall(d) /\ accCall'[d].answer \in {accCall[d].answer, Lost, LoginUnavailable, LoginFailed}
  <2>1. \A d \in AccountCalls : accCall[d] \in Calls
    BY DEF AccountTypeOK
  <2>2. CASE DiscoverySettles
    <3>1. PICK ok \in BOOLEAN : accCall' = [c \in AccountCalls |->
              IF accCall[c].stage # "waiting" THEN accCall[c]
              ELSE IF ok THEN [accCall[c] EXCEPT !.stage = "sent"]
              ELSE [accCall[c] EXCEPT !.stage = "answered",
                      !.answer = IF accCall[c].route = "login" THEN LoginUnavailable ELSE LoginFailed]]
      BY <2>2 DEF DiscoverySettles
    <3> QED BY <2>1, <3>1 DEF Calls
  <2>3. CASE RestartServer
    BY <2>1, <2>3 DEF RestartServer, Calls
  <2>4. CASE (\E n \in Logins : TimePasses(n) \/ RevokeGrant(n)) \/ UNCHANGED accountVars
    BY <2>4 DEF TimePasses, RevokeGrant, accountVars
  <2> QED BY <2>2, <2>3, <2>4
<1>3. \A d \in AccountCalls : CallMovesOn(d)
  BY <1>1, <1>2 DEF CallMovesOn
<1>4. accTold' = accTold /\ \A n \in Logins : accLogin'[n].tx = "new" => accLogin[n].tx = "new"
  <2>1. CASE DiscoverySettles \/ RestartServer \/ UNCHANGED accountVars
    BY <2>1 DEF DiscoverySettles, RestartServer, accountVars
  <2>2. ASSUME NEW n \in Logins, TimePasses(n) \/ RevokeGrant(n)
        PROVE  accTold' = accTold /\ \A m \in Logins : accLogin'[m].tx = "new" => accLogin[m].tx = "new"
    BY <2>2 DEF TimePasses, RevokeGrant, AccountTypeOK, LoginStates
  <2> QED BY <2>1, <2>2
<1>5. accJar'.session \in {accJar.session, NoLogin} /\ accJar'.login \in {accJar.login, NoLogin}
  <2>1. CASE DiscoverySettles \/ RestartServer \/ UNCHANGED accountVars
    BY <2>1 DEF DiscoverySettles, RestartServer, accountVars
  <2>2. ASSUME NEW n \in Logins, TimePasses(n) \/ RevokeGrant(n)
        PROVE  accJar'.session \in {accJar.session, NoLogin} /\ accJar'.login \in {accJar.login, NoLogin}
    BY <2>2 DEF TimePasses, RevokeGrant, Drop, AccountTypeOK
  <2> QED BY <2>1, <2>2
<1> QED BY <1>3, <1>4, <1>5, EndedRests

LEMMA EndedReceive ==
  ASSUME AccountTypeOK, EndedInv, NEW c \in AccountCalls, Receive(c)
  PROVE  EndedInv'
<1> DEFINE a == accCall[c].answer
           Ended == {n \in Logins : accLogin[n].tx # "new" /\ ~OnItsWay(n, AccountCalls)}
           out == accCall[c].route = "logout" /\ a.status = 200
<1>1. /\ accJar' = [session |-> Cookie("session", a), login |-> Cookie("login", a)]
      /\ accCall' = [accCall EXCEPT ![c] = IdleCall]
      /\ accTold'.ended = accTold.ended \cup (IF out THEN Ended ELSE {})
      /\ UNCHANGED accLogin
  BY DEF Receive
<1>2. accCall'[c] = IdleCall /\ \A d \in AccountCalls : d # c => accCall'[d] = accCall[d]
  BY <1>1 DEF AccountTypeOK
<1>3. IdleCall.route = "none" /\ IdleCall.answer.login = NoLogin
  BY DEF IdleCall, Lost, Plain, Clearing, Answer
<1>4. \A d \in AccountCalls :
        accCall'[d].route = "logout" /\ accCall'[d].answer.status = 200 => ClearsBoth(accCall'[d].answer)
  BY <1>2, <1>3 DEF EndedInv
<1>5. accJar'.session \in {accJar.session, NoLogin, a.login} /\ accJar'.login \in {accJar.login, NoLogin, a.login}
  BY <1>1 DEF Cookie
<1>6. out => accJar'.session = NoLogin /\ accJar'.login = NoLogin
  <2>1. out => ClearsBoth(a)
    BY DEF EndedInv
  <2> QED BY <1>1, <2>1 DEF ClearsBoth, Cookie, Cookies
<1>7. ASSUME NEW n \in accTold'.ended PROVE accLogin'[n].tx # "new" /\ Gone(n)'
  <2>1. CASE n \in accTold.ended
    <3>1. n # NoLogin /\ accLogin[n].tx # "new" /\ Gone(n)
      BY <2>1, LoginsAre DEF AccountTypeOK, EndedInv
    <3> QED BY <1>1, <1>2, <1>3, <1>5, <3>1 DEF Gone
  <2>2. CASE out /\ n \in Ended
    <3>1. n \in Logins /\ n # NoLogin /\ accLogin[n].tx # "new" /\ ~OnItsWay(n, AccountCalls)
      BY <2>2, LoginsAre
    <3> QED BY <1>1, <1>2, <1>3, <1>6, <2>2, <3>1 DEF Gone, OnItsWay
  <2> QED BY <1>1, <1>7, <2>1, <2>2
<1> QED BY <1>4, <1>7 DEF EndedInv

(***************************************************************************)
(* A logout ends the logins that are under way: after its answer has come  *)
(* in, no login begun before it logs this browser in, unless its callback  *)
(* or that callback's answer was on its way at that moment (the logout     *)
(* route, lib/session.ts).                                                 *)
(***************************************************************************)
THEOREM LogoutEndsThem == AccountSpec => []LogoutEndsLogins
<1>1. AccountInit => EndedInv
  BY DEF AccountInit, EndedInv, IdleCall
<1>2. AccountInv /\ EndedInv /\ [AccountNext]_accountVars => EndedInv'
  <2>1. AccountInv => AccountTypeOK
    BY DEF AccountInv
  <2> QED BY <2>1, EndedPages, EndedServer, EndedReceive, EndedFaults DEF AccountNext
<1>3. EndedInv => LogoutEndsLogins
  BY DEF EndedInv, Gone, LogoutEndsLogins
<1> QED
  BY <1>1, <1>2, <1>3, AccountInvariant, PTL DEF AccountSpec

-----------------------------------------------------------------------------
(***************************************************************************)
(* The stars of the library page, for any number of personas and calls.    *)
(***************************************************************************)
DeskShape == "favorites" \in DOMAIN deskTab /\ DOMAIN deskCall = DeskCalls

\* The stars of t are those of u, but for one.
OneStarApart(t, u) == u.favorites = t.favorites \/ \E p : u.favorites = Toggled(t.favorites, p)

LEMMA StarsApart ==
  ASSUME NEW F, NEW G, G = F \/ \E p : G = Toggled(F, p)
  PROVE  Cardinality((F \ G) \cup (G \ F)) <= 1
<1>1. CASE G = F
  <2>1. (F \ G) \cup (G \ F) = {}
    BY <1>1
  <2> QED BY <2>1, FS_EmptySet
<1>2. CASE \E p : G = Toggled(F, p)
  <2>1. PICK p : G = Toggled(F, p)
    BY <1>2
  <2>2. (F \ G) \cup (G \ F) = {p}
    BY <2>1 DEF Toggled
  <2>3. Cardinality({p}) = 1
    BY FS_Singleton
  <2> QED BY <2>2, <2>3
<1> QED BY <1>1, <1>2

\* What a click does to the stars.
LEMMA DeskClicksKeep ==
  ASSUME DeskShape, Clicks
  PROVE  /\ "favorites" \in DOMAIN deskTab' /\ DOMAIN deskCall' = DeskCalls
         /\ OneStarApart(deskTab, deskTab')
<1>1. ASSUME NEW p, ToggleFavorite(p)
      PROVE  "favorites" \in DOMAIN deskTab' /\ DOMAIN deskCall' = DeskCalls /\ OneStarApart(deskTab, deskTab')
  BY <1>1 DEF ToggleFavorite, Click, DeskShape, OneStarApart
<1>2. ASSUME \/ \E p \in deskTab.personas : OpenPersonaDetail(p) \/ SavePersonaEdit(p) \/ DeleteLibraryPersona(p)
             \/ \E p \in deskTab.personas, left \in 0 .. 1 : AddKnowledge(p, left)
             \/ \E d \in deskTab.knowledge : deskTab.detail # Closed /\ DeleteKnowledgeDocument(d)
             \/ \E d \in deskTab.userKnowledge : DeleteUserKnowledgeDocument(d)
             \/ \E w \in deskTab.worlds : EditWorld(w) \/ RemoveWorld(w)
             \/ CreateLibraryPersona \/ DuplicatePersona \/ ImportCard
             \/ AddUserKnowledge \/ OpenUserKnowledgeDrawer \/ SaveWorld
      PROVE  "favorites" \in DOMAIN deskTab' /\ DOMAIN deskCall' = DeskCalls /\ OneStarApart(deskTab, deskTab')
  BY <1>2 DEF OpenPersonaDetail, SavePersonaEdit, DeleteLibraryPersona, AddKnowledge, DeleteKnowledgeDocument,
     DeleteUserKnowledgeDocument, EditWorld, RemoveWorld, CreateLibraryPersona, DuplicatePersona, ImportCard,
     AddUserKnowledge, OpenUserKnowledgeDrawer, SaveWorld, Click, DeskShape, OneStarApart
<1> QED BY <1>1, <1>2 DEF Clicks

LEMMA DeskReceiveKeeps ==
  ASSUME DeskShape, NEW n \in DeskCalls, ReceiveAnswer(n)
  PROVE  /\ "favorites" \in DOMAIN deskTab' /\ DOMAIN deskCall' = DeskCalls
         /\ OneStarApart(deskTab, deskTab') \/ (deskCall[n].op = "getFavorites" /\ deskCall'[n] # deskCall[n])
<1>1. PICK c : c = deskCall[n]
  OBVIOUS
<1>2. PICK t : t = IF c.stage = "ok" THEN Shown(deskTab, c) ELSE RolledBack(deskTab, c)
  OBVIOUS
<1>3. deskTab' = Finished(t, c) /\ deskCall' = [deskCall EXCEPT ![n] = Following(c)]
  BY <1>1, <1>2 DEF ReceiveAnswer
<1>4. DOMAIN t = DOMAIN deskTab
  BY <1>2 DEF Shown, RolledBack
<1>5. c.op # "getFavorites" => OneStarApart(deskTab, t)
  <2> SUFFICES ASSUME c.op # "getFavorites" PROVE OneStarApart(deskTab, t)
    OBVIOUS
  <2>1. CASE c.stage = "ok"
    <3>1. Shown(deskTab, c).favorites = deskTab.favorites
      BY DEF Shown, DeskShape
    <3> QED BY <1>2, <2>1, <3>1 DEF OneStarApart
  <2>2. CASE c.stage # "ok"
    BY <1>2, <2>2 DEF RolledBack, OneStarApart, DeskShape
  <2> QED BY <2>1, <2>2
<1>6. DOMAIN deskTab' = DOMAIN t /\ ("favorites" \in DOMAIN t => deskTab'.favorites = t.favorites)
  BY <1>3 DEF Finished
<1>7. c.op = "getFavorites" => Following(c).op = "none"
  BY DEF Following, DeskIdle
<1> QED BY <1>1, <1>3, <1>4, <1>5, <1>6, <1>7 DEF DeskShape, OneStarApart

LEMMA DeskStep ==
  ASSUME DeskShape, DeskNext
  PROVE  /\ DeskShape'
         /\ \/ OneStarApart(deskTab, deskTab')
            \/ \E n \in DeskCalls : deskCall[n].op = "getFavorites" /\ deskCall'[n] # deskCall[n]
<1>1. CASE Clicks
  BY <1>1, DeskClicksKeep DEF DeskShape
<1>2. ASSUME NEW op \in deskTab.boot, BootLoad(op)
      PROVE  DeskShape' /\ OneStarApart(deskTab, deskTab')
  BY <1>2 DEF BootLoad, DeskShape, OneStarApart
<1>3. ASSUME NEW n \in DeskCalls, ServeDesk(n) \/ DeskFault(n)
      PROVE  DeskShape' /\ OneStarApart(deskTab, deskTab')
  BY <1>3 DEF ServeDesk, DeskFault, DeskShape, OneStarApart
<1>4. ASSUME NEW n \in DeskCalls, ReceiveAnswer(n)
      PROVE  /\ DeskShape'
             /\ \/ OneStarApart(deskTab, deskTab')
                \/ deskCall[n].op = "getFavorites" /\ deskCall'[n] # deskCall[n]
  BY <1>4, DeskReceiveKeeps DEF DeskShape
<1> QED BY <1>1, <1>2, <1>3, <1>4 DEF DeskNext, DeskHandle

(***************************************************************************)
(* Only a load changes more than one star of the library at a time: a      *)
(* toggle that fails while others were clicked takes back its own star and *)
(* no other, whatever else is in flight.                                   *)
(***************************************************************************)
THEOREM DeskOneStar == DeskSpec => OneStarAtATime
<1> DEFINE OneStar ==
      (\A n \in DeskCalls : deskCall[n].op = "getFavorites" => deskCall'[n] = deskCall[n]) =>
        Cardinality((deskTab.favorites \ deskTab.favorites') \cup (deskTab.favorites' \ deskTab.favorites)) <= 1
<1>1. DeskInit => DeskShape
  BY DEF DeskInit, DeskShape
<1>2. DeskShape /\ [DeskNext]_deskVars => DeskShape'
  <2> SUFFICES ASSUME DeskShape, [DeskNext]_deskVars PROVE DeskShape'
    OBVIOUS
  <2>1. CASE DeskNext
    BY <2>1, DeskStep
  <2>2. CASE UNCHANGED deskVars
    BY <2>2 DEF deskVars, DeskShape
  <2> QED BY <2>1, <2>2
<1>3. DeskShape /\ [DeskNext]_deskVars => [OneStar]_deskVars
  <2> SUFFICES ASSUME DeskShape, DeskNext,
                      \A n \in DeskCalls : deskCall[n].op = "getFavorites" => deskCall'[n] = deskCall[n]
               PROVE  Cardinality((deskTab.favorites \ deskTab.favorites')
                                  \cup (deskTab.favorites' \ deskTab.favorites)) <= 1
    OBVIOUS
  <2>1. OneStarApart(deskTab, deskTab')
    BY DeskStep
  <2>2. PICK F, G : F = deskTab.favorites /\ G = deskTab'.favorites
    OBVIOUS
  <2>3. G = F \/ \E p : G = Toggled(F, p)
    BY <2>1, <2>2 DEF OneStarApart
  <2>4. Cardinality((F \ G) \cup (G \ F)) <= 1
    BY <2>3, StarsApart
  <2> QED BY <2>2, <2>4
<1> QED BY <1>1, <1>2, <1>3, PTL DEF DeskSpec, OneStarAtATime
-----------------------------------------------------------------------------
(***************************************************************************)
(* Character cards, for any limits and texts of any length.                *)
(***************************************************************************)
Letters == UNION {ToSet(tag) : tag \in TagNames}
TextRecords == [pad : Nat, length : Nat, blanks : SUBSET (Nat \ {0, 1})]
TagLists == Seq(Seq(Letters))
CardRecords ==
  [name : TextRecords, description : TextRecords, personality : TextRecords, firstMessage : TextRecords,
   style : TextRecords, worldScenario : TextRecords, world : TextRecords, cover : Covers,
   faction : TextRecords, tags : TagLists]
Inputs ==
  [name : TextRecords, description : TextRecords, firstMessage : TextRecords, style : TextRecords,
   world : TextRecords, cover : Covers, faction : TextRecords, tags : TagLists]

\* What was made was made the way createPersona makes it, from the card if
\* there is one.
CardsInv ==
  /\ cardGiven \in CardRecords
  /\ personaMade.input \in Inputs
  /\ personaMade.stored = Stored(personaMade.input)
  /\ cardGiven # BlankCard => personaMade.input = CharaCardV3ToPersonaInput(cardGiven)

Distinct(s) == \A i, j \in DOMAIN s : s[i] = s[j] => i = j

LEMMA LimitsAre ==
  \A f \in {"name", "description", "firstMessage", "style", "world", "faction", "tags", "tag"} :
    /\ Limit[f] \in Nat \ {0} /\ CardCap(f) \in Nat \ {0}
    /\ SameLimits => CardCap(f) = Limit[f]
BY CardsAssumption DEF CardCap, SameLimits

LEMMA TagSeqsAre == TagSeqs \subseteq TagLists
<1>1. ASSUME NEW tag \in TagNames PROVE tag \in Seq(Letters)
  <2>1. tag \in Seq(ToSet(tag)) /\ ToSet(tag) \subseteq Letters
    BY CardsAssumption DEF Letters
  <2> QED BY <2>1, SeqMonotonic
<1>2. ASSUME NEW n \in Nat, NEW tags \in [1 .. n -> TagNames] PROVE tags \in TagLists
  <2>1. tags \in [1 .. n -> Seq(Letters)]
    BY <1>1
  <2> QED BY <2>1, SeqDef DEF TagLists
<1>3. 0 .. MaxCardTags \subseteq Nat
  BY CardsAssumption
<1> QED BY <1>2, <1>3 DEF TagSeqs

LEMMA FirstOfIs ==
  ASSUME NEW S, NEW s \in Seq(S), NEW n \in Nat
  PROVE  /\ FirstOf(s, n) \in Seq(S) /\ Len(FirstOf(s, n)) = Shorter(Len(s), n)
         /\ \A i \in 1 .. Len(FirstOf(s, n)) : i \in 1 .. Len(s) /\ FirstOf(s, n)[i] = s[i]
         /\ Len(s) <= n => FirstOf(s, n) = s
<1> DEFINE m == Shorter(Len(s), n)
<1>1. Len(s) \in Nat /\ m \in Nat /\ m <= Len(s) /\ (Len(s) <= n => m = Len(s))
  BY LenProperties DEF Shorter
<1>2. FirstOf(s, n) = SubSeq(s, 1, m)
  BY DEF FirstOf
<1> HIDE DEF m
<1>3. \A i \in 1 .. m : s[i] \in S
  BY <1>1, ElementOfSeq
<1>4. /\ SubSeq(s, 1, m) \in Seq(S)
      /\ Len(SubSeq(s, 1, m)) = (IF 1 <= m THEN m - 1 + 1 ELSE 0)
      /\ \A i \in 1 .. m - 1 + 1 : SubSeq(s, 1, m)[i] = s[1 + i - 1]
  BY <1>1, <1>3, SubSeqProperties
<1>5. Len(SubSeq(s, 1, m)) = m /\ \A i \in 1 .. m : i \in 1 .. Len(s) /\ SubSeq(s, 1, m)[i] = s[i]
  BY <1>1, <1>4
<1>6. Len(s) <= n => SubSeq(s, 1, m) = s
  BY <1>1, SubSeqFull
<1> QED BY <1>2, <1>4, <1>5, <1>6 DEF m

\* A set keeps each entry once, and all of a list without repeats.
LEMMA NoRepeatsIs ==
  ASSUME NEW S, NEW s \in Seq(S)
  PROVE  /\ NoRepeats(s) \in Seq(S) /\ Len(NoRepeats(s)) <= Len(s)
         /\ ToSet(NoRepeats(s)) \subseteq ToSet(s)
         /\ Distinct(NoRepeats(s))
         /\ Distinct(s) => NoRepeats(s) = s
<1> DEFINE kept == {i \in DOMAIN s : \A j \in 1 .. i - 1 : s[j] # s[i]}
           t == Filtered(s, kept)
<1>1. kept \subseteq DOMAIN s /\ t = NoRepeats(s)
  BY DEF NoRepeats
<1>2. DOMAIN s = 1 .. Len(s) /\ Len(s) \in Nat
  BY LenProperties
<1>3. \A i, j \in kept : s[i] = s[j] => i = j
  <2> SUFFICES ASSUME NEW i \in kept, NEW j \in kept, s[i] = s[j] PROVE i = j
    OBVIOUS
  <2>1. i \in Nat /\ j \in Nat /\ 1 <= i /\ 1 <= j
    BY <1>2
  <2>2. ~(i < j) /\ ~(j < i)
    BY <2>1
  <2> QED BY <2>1, <2>2
<1>4. Distinct(s) => kept = DOMAIN s
  <2> SUFFICES ASSUME Distinct(s), NEW i \in DOMAIN s, NEW j \in 1 .. i - 1, s[j] = s[i] PROVE FALSE
    OBVIOUS
  <2>1. j \in DOMAIN s /\ j # i
    BY <1>2
  <2> QED BY <2>1 DEF Distinct
<1> HIDE DEF kept, t
<1>5. t \in Seq(S) /\ Len(t) <= Len(s) /\ \E place \in [DOMAIN t -> kept] : Picks(place, s, kept, t)
  BY <1>1, FilteredIs DEF t
<1>6. PICK place \in [DOMAIN t -> kept] : Picks(place, s, kept, t)
  BY <1>5
<1>7. \A n \in DOMAIN t : t[n] = s[place[n]] /\ place[n] \in kept /\ place[n] \in DOMAIN s
  BY <1>1, <1>6 DEF Picks
<1>8. Distinct(t)
  <2> SUFFICES ASSUME NEW m \in DOMAIN t, NEW n \in DOMAIN t, t[m] = t[n] PROVE m = n
    BY DEF Distinct
  <2>1. m \in Nat /\ n \in Nat /\ place[m] \in Nat
    BY <1>2, <1>5, <1>7, LenProperties
  <2>2. place[m] = place[n]
    BY <1>3, <1>7
  <2>3. ~(m < n) /\ ~(n < m)
    BY <1>6, <2>1, <2>2 DEF Picks
  <2> QED BY <2>1, <2>3
<1>9. ToSet(t) \subseteq ToSet(s)
  BY <1>7 DEF ToSet
<1>10. Distinct(s) => t = s
  BY <1>4, FilteredAll DEF t
<1> QED BY <1>1, <1>5, <1>8, <1>9, <1>10

LEMMA NotEmptyIs ==
  ASSUME NEW S, NEW s \in Seq(S)
  PROVE  /\ NotEmpty(s) \in Seq(S)
         /\ \A n \in DOMAIN NotEmpty(s) : NotEmpty(s)[n] # <<>>
         /\ (\A i \in DOMAIN s : s[i] # <<>>) => NotEmpty(s) = s
<1> DEFINE kept == {i \in DOMAIN s : s[i] # <<>>}
           t == Filtered(s, kept)
<1>1. kept \subseteq DOMAIN s /\ t = NotEmpty(s)
  BY DEF NotEmpty
<1>2. \A i \in kept : s[i] # <<>>
  OBVIOUS
<1>3. (\A i \in DOMAIN s : s[i] # <<>>) => kept = DOMAIN s
  OBVIOUS
<1> HIDE DEF kept, t
<1>4. t \in Seq(S) /\ \E place \in [DOMAIN t -> kept] : Picks(place, s, kept, t)
  BY <1>1, FilteredIs DEF t
<1>5. PICK place \in [DOMAIN t -> kept] : Picks(place, s, kept, t)
  BY <1>4
<1>6. \A n \in DOMAIN t : t[n] # <<>>
  BY <1>2, <1>5 DEF Picks
<1>7. kept = DOMAIN s => t = s
  BY FilteredAll DEF t
<1> QED BY <1>1, <1>3, <1>4, <1>6, <1>7

\* Tags as isValidPersonaInput wants them.
TagsFit(tags) == Len(tags) <= Limit["tags"] /\ \A i \in DOMAIN tags : 0 < Len(tags[i]) /\ Len(tags[i]) <= Limit["tag"]

\* The import makes any tags fit, and leaves alone those that do.
LEMMA ImportedTagsAre ==
  ASSUME NEW tags \in TagLists
  PROVE  /\ ImportedTags(tags) \in TagLists
         /\ SameLimits => TagsFit(ImportedTags(tags))
         /\ SameLimits /\ TagsFit(tags) => ImportedTags(tags) = tags
<1> DEFINE full == NotEmpty(tags)
           kept == FirstOf(full, CardCap("tags"))
           cut == [i \in DOMAIN kept |-> CutTag(kept[i])]
<1>1. full \in TagLists /\ \A n \in DOMAIN full : full[n] # <<>>
  BY NotEmptyIs DEF TagLists
<1>2. ImportedTags(tags) = cut
  BY DEF ImportedTags
<1> HIDE DEF full
<1>3. /\ kept \in TagLists /\ Len(kept) = Shorter(Len(full), CardCap("tags"))
      /\ \A i \in 1 .. Len(kept) : i \in 1 .. Len(full) /\ kept[i] = full[i]
      /\ Len(full) <= CardCap("tags") => kept = full
  BY <1>1, LimitsAre, FirstOfIs DEF TagLists
<1> HIDE DEF kept
<1>4. DOMAIN kept = 1 .. Len(kept) /\ Len(kept) \in Nat /\ DOMAIN full = 1 .. Len(full) /\ Len(full) \in Nat
  BY <1>1, <1>3, LenProperties DEF TagLists
<1>5. SameLimits => Len(kept) <= Limit["tags"]
  BY <1>3, <1>4, LimitsAre DEF Shorter
<1>6. ASSUME NEW i \in DOMAIN kept
      PROVE  /\ CutTag(kept[i]) \in Seq(Letters)
             /\ 0 < Len(CutTag(kept[i]))
             /\ SameLimits => Len(CutTag(kept[i])) <= Limit["tag"]
             /\ SameLimits /\ Len(kept[i]) <= Limit["tag"] => CutTag(kept[i]) = kept[i]
  <2>1. kept[i] \in Seq(Letters) /\ kept[i] # <<>>
    BY <1>1, <1>3, <1>4, ElementOfSeq DEF TagLists
  <2>2. Len(kept[i]) \in Nat \ {0} /\ CardCap("tag") \in Nat \ {0}
      /\ (SameLimits => CardCap("tag") = Limit["tag"])
    BY <2>1, LimitsAre, EmptySeq
  <2>3. CutTag(kept[i]) = FirstOf(kept[i], CardCap("tag"))
    BY DEF CutTag, FirstOf
  <2>4. /\ FirstOf(kept[i], CardCap("tag")) \in Seq(Letters)
        /\ Len(FirstOf(kept[i], CardCap("tag"))) = Shorter(Len(kept[i]), CardCap("tag"))
        /\ Len(kept[i]) <= CardCap("tag") => FirstOf(kept[i], CardCap("tag")) = kept[i]
    BY <2>1, <2>2, FirstOfIs
  <2> QED BY <2>2, <2>3, <2>4 DEF Shorter
<1>7. cut \in [1 .. Len(kept) -> Seq(Letters)] /\ \A i \in 1 .. Len(kept) : cut[i] = CutTag(kept[i])
  BY <1>4, <1>6
<1> HIDE DEF cut
<1>8. cut \in TagLists /\ Len(cut) = Len(kept) /\ DOMAIN cut = 1 .. Len(kept)
  <2>1. cut \in TagLists
    BY <1>4, <1>7, SeqDef DEF TagLists
  <2> QED BY <1>4, <1>7, <2>1, LenProperties DEF TagLists
<1>9. SameLimits => TagsFit(cut)
  BY <1>4, <1>5, <1>6, <1>7, <1>8 DEF TagsFit
<1>10. ASSUME SameLimits, TagsFit(tags) PROVE cut = tags
  <2>1. \A i \in DOMAIN tags : tags[i] # <<>> /\ Len(tags[i]) <= Limit["tag"]
    BY <1>10, EmptySeq DEF TagsFit
  <2>2. full = tags
    BY <2>1, NotEmptyIs DEF full, TagLists
  <2>3. kept = tags
    BY <1>3, <1>10, <2>2, LimitsAre DEF TagsFit
  <2>4. \A i \in 1 .. Len(kept) : cut[i] = kept[i]
    BY <1>4, <1>6, <1>7, <1>10, <2>1, <2>3
  <2> QED BY <1>3, <1>8, <2>3, <2>4, SeqEqual DEF TagLists
<1> QED BY <1>2, <1>8, <1>9, <1>10

LEMMA BuiltTagsAre ==
  ASSUME NEW tags \in TagLists, TagsFit(tags)
  PROVE  LET built == FirstOf(NoRepeats(tags), Limit["tags"])
         IN  /\ built \in TagLists /\ TagsFit(built) /\ Distinct(built)
             /\ Distinct(tags) => built = tags
<1> DEFINE once == NoRepeats(tags)
           built == FirstOf(once, Limit["tags"])
<1>1. once \in TagLists /\ Len(once) <= Len(tags) /\ ToSet(once) \subseteq ToSet(tags) /\ Distinct(once)
      /\ (Distinct(tags) => once = tags)
  BY NoRepeatsIs DEF TagLists
<1> HIDE DEF once
<1>2. Len(once) \in Nat /\ Len(tags) \in Nat /\ Limit["tags"] \in Nat
  BY <1>1, LenProperties, LimitsAre DEF TagLists
<1>3. built = once
  BY <1>1, <1>2, FirstOfIs DEF TagsFit, TagLists
<1>4. TagsFit(once)
  BY <1>1, <1>2 DEF TagsFit, ToSet
<1> QED BY <1>1, <1>3, <1>4 DEF once

\* The last of the first max letters is there, as the first letter is none of
\* the white space inside.
LEMMA LastLetterIs ==
  ASSUME NEW t \in TextRecords, NEW max \in Nat \ {0}
  PROVE  LastLetter(t, max) \in (1 .. max) \ t.blanks
<1> DEFINE letters == (1 .. max) \ t.blanks
           after == {k \in 0 .. max : max - k \in letters}
<1>1. 1 \in letters
  BY DEF TextRecords
<1>2. after \in SUBSET Nat /\ max - 1 \in after
  BY <1>1
<1>3. PICK k \in after : \A j \in after : k <= j
  <2> HIDE DEF after
  <2> QED BY <1>2, LeastOf
<1>4. ASSUME NEW j \in letters PROVE j <= max - k
  <2>1. max - j \in 0 .. max /\ max - (max - j) = j
    OBVIOUS
  <2>2. max - j \in after
    BY <2>1
  <2>3. k \in Nat /\ j \in Nat /\ max \in Nat
    OBVIOUS
  <2> HIDE DEF after
  <2>4. k <= max - j
    BY <1>3, <2>2
  <2> QED BY <2>3, <2>4
<1>5. max - k \in letters
  BY <1>3
<1>6. \E i \in letters : \A j \in letters : j <= i
  BY <1>4, <1>5
<1>7. LastLetter(t, max) = CHOOSE i \in letters : \A j \in letters : j <= i
  BY DEF LastLetter
<1> HIDE DEF letters
<1>8. LastLetter(t, max) \in letters
  BY <1>6, <1>7
<1> QED BY <1>8 DEF letters

\* A cut text may end in white space, but there is a letter before it.
CutIs(t, max) ==
  /\ Cut(t, max) \in TextRecords
  /\ Cut(t, max).pad + Cut(t, max).length = Shorter(t.length, max)
  /\ t.length > 0 => Cut(t, max).length > 0
  /\ t.length <= max => Cut(t, max) = t

LEMMA CutsAre ==
  ASSUME NEW t \in TextRecords, t.pad = 0, NEW max \in Nat \ {0}
  PROVE  CutIs(t, max)
<1>1. t.length \in Nat
  BY DEF TextRecords
<1>2. CASE t.length <= max
  <2>1. Cut(t, max) = t
    BY <1>2 DEF Cut
  <2>2. 0 + t.length = t.length /\ Shorter(t.length, max) = t.length
    BY <1>1, <1>2 DEF Shorter
  <2> QED BY <2>1, <2>2 DEF CutIs
<1>3. CASE ~(t.length <= max)
  <2> DEFINE last == LastLetter(t, max)
             tail == t.blanks \cap (1 .. last)
             cut == Text(max - last, last, tail)
  <2>1. last \in 1 .. max
    BY LastLetterIs
  <2>2. Cut(t, max) = cut
    BY <1>3 DEF Cut
  <2>3. tail \subseteq Nat \ {0, 1}
    BY DEF TextRecords
  <2> HIDE DEF last, tail
  <2>4. cut.pad = max - last /\ cut.length = last /\ cut \in TextRecords
    BY <2>1, <2>3 DEF Text, TextRecords
  <2> HIDE DEF cut
  <2>5. Shorter(t.length, max) = max
    BY <1>1, <1>3 DEF Shorter
  <2>6. last \in Nat /\ 1 <= last /\ last <= max
    BY <2>1
  <2> QED BY <1>3, <2>2, <2>4, <2>5, <2>6 DEF CutIs
<1> QED BY <1>2, <1>3

LEMMA JoinedIs ==
  ASSUME NEW t \in TextRecords, NEW u \in TextRecords, t.pad = 0, u.pad = 0
  PROVE  Joined(t, u) \in TextRecords /\ Joined(t, u).pad = 0 /\ Joined(t, u).length >= t.length
<1>1. t.length \in Nat /\ u.length \in Nat /\ t.blanks \subseteq Nat \ {0, 1} /\ u.blanks \subseteq Nat \ {0, 1}
  BY DEF TextRecords
<1>2. CASE t.length = 0
  <2>1. Joined(t, u) = u
    BY <1>2 DEF Joined
  <2> QED BY <1>1, <1>2, <2>1
<1>3. CASE t.length # 0 /\ u.length = 0
  <2>1. Joined(t, u) = t
    BY <1>3 DEF Joined
  <2> QED BY <1>1, <2>1
<1>4. CASE t.length # 0 /\ u.length # 0
  <2> DEFINE newline == t.length + 1
             blanks == t.blanks \cup {newline} \cup {newline + i : i \in u.blanks}
             n == newline + u.length
  <2>1. Joined(t, u) = [pad |-> 0, length |-> n, blanks |-> blanks]
    BY <1>4 DEF Joined, Text
  <2>2. newline \in Nat \ {0, 1} /\ n \in Nat /\ n >= t.length
    BY <1>1, <1>4
  <2>3. \A i \in u.blanks : newline + i \in Nat \ {0, 1}
    <3> HIDE DEF newline
    <3>1. \A i \in u.blanks : i \in Nat
      BY <1>1
    <3> QED BY <2>2, <3>1
  <2>4. blanks \subseteq Nat \ {0, 1}
    <3> HIDE DEF newline
    <3> QED BY <1>1, <2>2, <2>3
  <2> HIDE DEF blanks, n
  <2> QED BY <2>1, <2>2, <2>4 DEF TextRecords
<1> QED BY <1>2, <1>3, <1>4

LEMMA GreetingIs ==
  ASSUME NEW t \in TextRecords
  PROVE  Greeting(t) \in TextRecords /\ Greeting(t).pad = 0 /\ Greeting(t).length = t.length + GreetingLength
<1> DEFINE blanks == {i + 5 : i \in t.blanks}
           n == t.length + GreetingLength
<1>1. n \in Nat
  BY DEF TextRecords, GreetingLength
<1>2. blanks \subseteq Nat \ {0, 1}
  BY DEF TextRecords
<1>3. Greeting(t) = [pad |-> 0, length |-> n, blanks |-> blanks]
  BY DEF Greeting, Text
<1> HIDE DEF n, blanks
<1>4. Greeting(t) \in TextRecords /\ Greeting(t).pad = 0 /\ Greeting(t).length = n
  BY <1>1, <1>2, <1>3 DEF TextRecords
<1> QED BY <1>4 DEF n

\* Texts.
LEMMA TextsAre ==
  /\ \A t \in TextRecords : Trim(t) \in TextRecords /\ Trim(t).pad = 0 /\ Trim(t).length = t.length
  /\ \A t \in TextRecords : t.pad = 0 => Trim(t) = t
  /\ NoText \in TextRecords /\ NoText.pad = 0 /\ NoText.length = 0
  /\ \A n \in Nat : Dense(n) \in TextRecords /\ Dense(n).pad = 0 /\ Dense(n).length = n
<1>1. \A t \in TextRecords : t = [pad |-> t.pad, length |-> t.length, blanks |-> t.blanks]
                             /\ t.pad \in Nat /\ t.length \in Nat /\ t.blanks \subseteq Nat \ {0, 1}
  BY DEF TextRecords
<1>2. ASSUME NEW t \in TextRecords PROVE Trim(t) \in TextRecords /\ Trim(t).pad = 0 /\ Trim(t).length = t.length
  BY <1>1 DEF Trim, Text, TextRecords
<1>3. ASSUME NEW t \in TextRecords, t.pad = 0 PROVE Trim(t) = t
  BY <1>1, <1>3 DEF Trim, Text
<1>4. \A n \in Nat : Dense(n) \in TextRecords /\ Dense(n).pad = 0 /\ Dense(n).length = n
  BY DEF Dense, Text, TextRecords
<1>5. NoText \in TextRecords /\ NoText.pad = 0 /\ NoText.length = 0
  BY <1>4 DEF NoText
<1> QED BY <1>2, <1>3, <1>4, <1>5

\* isValidPersonaInput, field by field.
LEMMA ValidIs ==
  ASSUME NEW in \in Inputs
  PROVE  IsValidPersonaInput(in) <=>
           /\ in.name.length > 0 /\ in.name.pad + in.name.length <= Limit["name"]
           /\ in.description.length > 0 /\ in.description.pad + in.description.length <= Limit["description"]
           /\ in.firstMessage.pad + in.firstMessage.length <= Limit["firstMessage"]
           /\ in.style.pad + in.style.length <= Limit["style"]
           /\ in.world.pad + in.world.length <= Limit["world"]
           /\ in.faction.pad + in.faction.length <= Limit["faction"]
           /\ in.cover \in {"none", "aurora"}
           /\ TagsFit(in.tags)
<1>1. in.name \in TextRecords /\ in.description \in TextRecords
  BY DEF Inputs
<1>2. (NotBlank(in.name) <=> in.name.length > 0) /\ (NotBlank(in.description) <=> in.description.length > 0)
  BY <1>1, TextsAre DEF NotBlank
<1>3. (\A f \in Optional : Size(in[f]) <= Limit[f]) <=>
        Size(in.style) <= Limit["style"] /\ Size(in.world) <= Limit["world"]
  BY DEF Optional
<1>4. (Len(in.tags) <= Limit["tags"] /\ \A tag \in ToSet(in.tags) : 0 < Len(tag) /\ Len(tag) <= Limit["tag"])
        <=> TagsFit(in.tags)
  BY DEF TagsFit, ToSet
<1>5. (in.cover \in CoverOptions \cup {"none"}) <=> in.cover \in {"none", "aurora"}
  BY DEF CoverOptions
<1> QED BY <1>2, <1>3, <1>4, <1>5 DEF IsValidPersonaInput, Size

LEMMA RefusedIs == Refused \in Inputs /\ Refused.name.length = 0
<1>1. <<>> \in TagLists
  BY EmptySeq DEF TagLists
<1> QED BY <1>1, TextsAre DEF Refused, Inputs, Covers

LEMMA BuiltIs ==
  ASSUME NEW in \in Inputs, IsValidPersonaInput(in)
  PROVE  LET old == BuildPersona(in)
         IN  /\ old \in Inputs /\ old # Refused /\ IsValidPersonaInput(old)
             /\ old.name = Trim(in.name) /\ old.description = Trim(in.description)
             /\ old.firstMessage = Trim(in.firstMessage) /\ old.style = Trim(in.style)
             /\ old.world = Trim(in.world) /\ old.cover = in.cover /\ old.faction = NoText
             /\ Distinct(old.tags) /\ (Distinct(in.tags) => old.tags = in.tags)
<1> DEFINE old == BuildPersona(in)
           built == FirstOf(NoRepeats(in.tags), Limit["tags"])
<1>1. /\ in.name \in TextRecords /\ in.description \in TextRecords /\ in.firstMessage \in TextRecords
      /\ in.style \in TextRecords /\ in.world \in TextRecords /\ in.faction \in TextRecords
      /\ in.cover \in Covers /\ in.tags \in TagLists
  BY DEF Inputs
<1>2. TagsFit(in.tags)
  BY ValidIs
<1>3. built \in TagLists /\ TagsFit(built) /\ Distinct(built) /\ (Distinct(in.tags) => built = in.tags)
  BY <1>1, <1>2, BuiltTagsAre
<1>4. /\ old.name = Trim(in.name) /\ old.description = Trim(in.description)
      /\ old.firstMessage = Trim(in.firstMessage) /\ old.style = Trim(in.style)
      /\ old.world = Trim(in.world) /\ old.cover = in.cover /\ old.faction = NoText
      /\ old.tags = built
  BY DEF BuildPersona
<1>5. old \in Inputs
  <2> HIDE DEF built
  <2>1. /\ Trim(in.name) \in TextRecords /\ Trim(in.description) \in TextRecords
        /\ Trim(in.firstMessage) \in TextRecords /\ Trim(in.style) \in TextRecords
        /\ Trim(in.world) \in TextRecords /\ NoText \in TextRecords
    BY <1>1, TextsAre
  <2>2. old = [name |-> Trim(in.name), description |-> Trim(in.description), firstMessage |-> Trim(in.firstMessage),
               style |-> Trim(in.style), world |-> Trim(in.world), cover |-> in.cover, faction |-> NoText, tags |-> built]
    BY DEF BuildPersona, built
  <2> HIDE DEF old
  <2> QED BY <1>1, <1>3, <2>1, <2>2 DEF Inputs
<1> HIDE DEF old, built
<1>6. \A t \in TextRecords : t.pad \in Nat /\ t.length \in Nat /\ Trim(t).pad = 0 /\ Trim(t).length = t.length
  BY TextsAre DEF TextRecords
<1>7. NoText.pad = 0 /\ NoText.length = 0
  BY TextsAre
<1>8. Limit["faction"] \in Nat /\ Limit["name"] \in Nat /\ Limit["description"] \in Nat
      /\ Limit["firstMessage"] \in Nat /\ Limit["style"] \in Nat /\ Limit["world"] \in Nat
  BY LimitsAre
<1>9. IsValidPersonaInput(old)
  <2>1. old.name.length > 0 /\ old.name.pad + old.name.length <= Limit["name"]
    BY <1>1, <1>4, <1>6, <1>8, ValidIs
  <2>2. old.description.length > 0 /\ old.description.pad + old.description.length <= Limit["description"]
    BY <1>1, <1>4, <1>6, <1>8, ValidIs
  <2>3. old.firstMessage.pad + old.firstMessage.length <= Limit["firstMessage"]
    BY <1>1, <1>4, <1>6, <1>8, ValidIs
  <2>4. old.style.pad + old.style.length <= Limit["style"]
    BY <1>1, <1>4, <1>6, <1>8, ValidIs
  <2>5. old.world.pad + old.world.length <= Limit["world"]
    BY <1>1, <1>4, <1>6, <1>8, ValidIs
  <2>6. old.faction.pad + old.faction.length <= Limit["faction"]
    BY <1>4, <1>7, <1>8
  <2>7. old.cover \in {"none", "aurora"} /\ TagsFit(old.tags)
    BY <1>3, <1>4, ValidIs
  <2> QED BY <1>5, <2>1, <2>2, <2>3, <2>4, <2>5, <2>6, <2>7, ValidIs
<1>10. old # Refused
  <2>1. old.name.length > 0
    BY <1>5, <1>9, ValidIs
  <2> QED BY <2>1, RefusedIs
<1> QED BY <1>3, <1>4, <1>5, <1>9, <1>10 DEF old

\* What a card is read as, field by field, if it is not refused.
ReadAs(card, in) ==
  /\ in.name = Cut(Trim(card.name), CardCap("name"))
  /\ in.description = Cut(Joined(Trim(card.description), Trim(card.personality)), CardCap("description"))
  /\ in.firstMessage = LET first == Cut(Trim(card.firstMessage), CardCap("firstMessage"))
                       IN  IF Size(first) > 0 THEN first ELSE Greeting(Trim(card.name))
  /\ in.style = Cut(Trim(card.style), CardCap("style"))
  /\ in.world = Cut(Trim(IF Trim(card.worldScenario).length > 0 THEN card.worldScenario ELSE card.world), CardCap("world"))
  /\ in.cover = (IF card.cover \in CoverOptions THEN card.cover ELSE "none")
  /\ in.faction = Cut(Trim(card.faction), CardCap("faction"))
  /\ in.tags = ImportedTags(card.tags)

CardAccepted(card) ==
  /\ Trim(card.name).length # 0
  /\ Size(Cut(Joined(Trim(card.description), Trim(card.personality)), CardCap("description"))) # 0

LEMMA ReadIs ==
  ASSUME NEW card \in CardRecords
  PROVE  LET in == CharaCardV3ToPersonaInput(card)
         IN  /\ in \in Inputs
             /\ ~CardAccepted(card) => in = Refused
             /\ CardAccepted(card) => ReadAs(card, in)
<1> DEFINE name == Trim(card.name)
           description == Cut(Joined(Trim(card.description), Trim(card.personality)), CardCap("description"))
           first == Cut(Trim(card.firstMessage), CardCap("firstMessage"))
           greeting == IF Size(first) > 0 THEN first ELSE Greeting(name)
           style == Cut(Trim(card.style), CardCap("style"))
           wanted == IF Trim(card.worldScenario).length > 0 THEN card.worldScenario ELSE card.world
           world == Cut(Trim(wanted), CardCap("world"))
           cover == IF card.cover \in CoverOptions THEN card.cover ELSE "none"
           faction == Cut(Trim(card.faction), CardCap("faction"))
           tags == ImportedTags(card.tags)
           short == Cut(name, CardCap("name"))
           made == [name |-> short, description |-> description, firstMessage |-> greeting, style |-> style,
                    world |-> world, cover |-> cover, faction |-> faction, tags |-> tags]
<1>1. CharaCardV3ToPersonaInput(card) = IF name.length = 0 \/ Size(description) = 0 THEN Refused ELSE made
  BY DEF CharaCardV3ToPersonaInput
<1>2. /\ card.name \in TextRecords /\ card.description \in TextRecords /\ card.personality \in TextRecords
      /\ card.firstMessage \in TextRecords /\ card.style \in TextRecords /\ card.worldScenario \in TextRecords
      /\ card.world \in TextRecords /\ card.faction \in TextRecords /\ card.cover \in Covers /\ card.tags \in TagLists
  BY DEF CardRecords
<1>3. \A t \in TextRecords :
        \A f \in {"name", "description", "firstMessage", "style", "world", "faction"} :
          Cut(Trim(t), CardCap(f)) \in TextRecords
  <2> SUFFICES ASSUME NEW t \in TextRecords,
                      NEW f \in {"name", "description", "firstMessage", "style", "world", "faction"}
               PROVE  Cut(Trim(t), CardCap(f)) \in TextRecords
    OBVIOUS
  <2>1. Trim(t) \in TextRecords /\ Trim(t).pad = 0 /\ CardCap(f) \in Nat \ {0}
    BY TextsAre, LimitsAre
  <2> QED BY <2>1, CutsAre DEF CutIs
<1>4. short \in TextRecords /\ description \in TextRecords /\ style \in TextRecords /\ faction \in TextRecords
  <2>1. Joined(Trim(card.description), Trim(card.personality)) \in TextRecords
        /\ Joined(Trim(card.description), Trim(card.personality)).pad = 0
    BY <1>2, TextsAre, JoinedIs
  <2>2. description \in TextRecords
    BY <2>1, LimitsAre, CutsAre DEF CutIs
  <2> QED BY <1>2, <1>3, <2>2
<1>5. world \in TextRecords
  BY <1>2, <1>3
<1>6. greeting \in TextRecords
  <2>1. first \in TextRecords /\ name \in TextRecords
    BY <1>2, <1>3, TextsAre
  <2> HIDE DEF first, name
  <2> QED BY <2>1, GreetingIs
<1>7. cover \in Covers /\ tags \in TagLists
  BY <1>2, ImportedTagsAre DEF Covers, CoverOptions
<1>8. made \in Inputs
  <2> HIDE DEF name, description, greeting, style, world, cover, faction, tags, short
  <2> QED BY <1>4, <1>5, <1>6, <1>7 DEF Inputs
<1>9. ReadAs(card, made)
  BY DEF ReadAs
<1>10. CardAccepted(card) <=> ~(name.length = 0 \/ Size(description) = 0)
  BY DEF CardAccepted
<1> HIDE DEF made
<1> QED BY <1>1, <1>8, <1>9, <1>10, RefusedIs

\* The lengths of what is read from a card never have it refused, but for a
\* greeting.
LEMMA ReadIsValid ==
  ASSUME NEW card \in CardRecords, NEW in \in Inputs, CardAccepted(card), ReadAs(card, in), SameLimits,
         Trim(card.firstMessage).length = 0 => Trim(card.name).length + GreetingLength <= Limit["firstMessage"]
  PROVE  IsValidPersonaInput(in)
<1>1. /\ card.name \in TextRecords /\ card.description \in TextRecords /\ card.personality \in TextRecords
      /\ card.firstMessage \in TextRecords /\ card.style \in TextRecords /\ card.worldScenario \in TextRecords
      /\ card.world \in TextRecords /\ card.faction \in TextRecords /\ card.cover \in Covers /\ card.tags \in TagLists
  BY DEF CardRecords
<1>2. \A f \in {"name", "description", "firstMessage", "style", "world", "faction", "tags", "tag"} :
        Limit[f] \in Nat \ {0} /\ CardCap(f) = Limit[f]
  BY LimitsAre
<1>3. ASSUME NEW t \in TextRecords, t.pad = 0, NEW max \in Nat \ {0}
      PROVE  /\ Cut(t, max).pad + Cut(t, max).length <= max
             /\ t.length > 0 <=> Size(Cut(t, max)) > 0
             /\ t.length > 0 => Cut(t, max).length > 0
  <2>1. CutIs(t, max)
    BY <1>3, CutsAre
  <2>2. t.length \in Nat
    BY DEF TextRecords
  <2> QED BY <2>1, <2>2 DEF CutIs, Shorter, Size
<1>4. \A t \in TextRecords : Trim(t) \in TextRecords /\ Trim(t).pad = 0 /\ t.length \in Nat
  BY TextsAre DEF TextRecords
<1>11. ASSUME NEW t \in TextRecords,
              NEW f \in {"name", "description", "firstMessage", "style", "world", "faction"},
              NEW cut, cut = Cut(Trim(t), CardCap(f))
       PROVE  cut.pad + cut.length <= Limit[f] /\ (Trim(t).length > 0 => cut.length > 0)
  <2>1. Trim(t) \in TextRecords /\ Trim(t).pad = 0
    BY <1>4
  <2>2. CardCap(f) \in Nat \ {0} /\ CardCap(f) = Limit[f]
    BY <1>2
  <2> QED BY <1>3, <1>11, <2>1, <2>2
<1>5. in.name.length > 0 /\ in.name.pad + in.name.length <= Limit["name"]
  <2>1. Trim(card.name).length > 0
    BY <1>1, <1>4 DEF CardAccepted
  <2>2. in.name = Cut(Trim(card.name), CardCap("name"))
    BY DEF ReadAs
  <2> QED BY <1>1, <1>11, <2>1, <2>2
<1>6. in.description.length > 0 /\ in.description.pad + in.description.length <= Limit["description"]
  <2> DEFINE both == Joined(Trim(card.description), Trim(card.personality))
  <2>1. both \in TextRecords /\ both.pad = 0
    BY <1>1, <1>4, JoinedIs
  <2>2. in.description = Cut(both, CardCap("description")) /\ Size(in.description) # 0
    BY DEF ReadAs, CardAccepted
  <2>3. CardCap("description") \in Nat \ {0} /\ CardCap("description") = Limit["description"]
    BY <1>2
  <2> HIDE DEF both
  <2>4. Size(in.description) \in Nat
    BY DEF Inputs, TextRecords, Size
  <2>5. Size(in.description) > 0
    BY <2>2, <2>4
  <2> QED BY <1>3, <2>1, <2>2, <2>3, <2>5
<1>7. in.firstMessage.pad + in.firstMessage.length <= Limit["firstMessage"]
  <2> DEFINE first == Cut(Trim(card.firstMessage), CardCap("firstMessage"))
  <2>1. /\ first.pad + first.length <= Limit["firstMessage"]
        /\ Trim(card.firstMessage).length > 0 <=> Size(first) > 0
    BY <1>1, <1>2, <1>3, <1>4
  <2>2. CASE Size(first) > 0
    BY <2>1, <2>2 DEF ReadAs
  <2>3. CASE ~(Size(first) > 0)
    <3>1. in.firstMessage = Greeting(Trim(card.name))
      BY <2>3 DEF ReadAs
    <3>2. Trim(card.name) \in TextRecords /\ Trim(card.name).length \in Nat /\ Trim(card.firstMessage).length \in Nat
      BY <1>1, <1>4
    <3>3. Trim(card.name).length + GreetingLength \in Nat
      BY <3>2 DEF GreetingLength
    <3>4. in.firstMessage.pad = 0 /\ in.firstMessage.length = Trim(card.name).length + GreetingLength
      BY <3>1, <3>2, GreetingIs
    <3>5. Trim(card.firstMessage).length = 0
      BY <2>1, <2>3, <3>2
    <3> QED BY <3>3, <3>4, <3>5
  <2> QED BY <2>2, <2>3
<1>8. in.style.pad + in.style.length <= Limit["style"] /\ in.faction.pad + in.faction.length <= Limit["faction"]
  <2>1. in.style = Cut(Trim(card.style), CardCap("style")) /\ in.faction = Cut(Trim(card.faction), CardCap("faction"))
    BY DEF ReadAs
  <2> QED BY <1>1, <1>11, <2>1
<1>9. in.world.pad + in.world.length <= Limit["world"]
  <2> DEFINE wanted == IF Trim(card.worldScenario).length > 0 THEN card.worldScenario ELSE card.world
  <2>1. wanted \in TextRecords
    BY <1>1
  <2>2. in.world = Cut(Trim(wanted), CardCap("world"))
    BY DEF ReadAs
  <2> HIDE DEF wanted
  <2> QED BY <1>11, <2>1, <2>2
<1>10. in.cover \in {"none", "aurora"} /\ TagsFit(in.tags)
  BY <1>1, ImportedTagsAre DEF ReadAs, CoverOptions
<1> QED BY <1>5, <1>6, <1>7, <1>8, <1>9, <1>10, ValidIs

LEMMA SameInputs ==
  ASSUME NEW p \in Inputs, NEW q \in Inputs,
         p.name = q.name, p.description = q.description, p.firstMessage = q.firstMessage, p.style = q.style,
         p.world = q.world, p.cover = q.cover, p.faction = q.faction, p.tags = q.tags
  PROVE  p = q
BY DEF Inputs

\* What export and import make of a stored persona.
LEMMA RoundTrip ==
  ASSUME NEW in \in Inputs, IsValidPersonaInput(in), SameLimits, BuildPersona(in).firstMessage.length > 0
  PROVE  LET old == BuildPersona(in)
             new == Stored(CharaCardV3ToPersonaInput(PersonaToCharaCardV3(old)))
         IN  /\ new # Refused
             /\ new.description = Trim(Cut(Joined(old.description, old.style), Limit["description"]))
             /\ [new EXCEPT !.description = old.description] = old
<1> DEFINE old == BuildPersona(in)
           card == PersonaToCharaCardV3(old)
           read == CharaCardV3ToPersonaInput(card)
           new == Stored(read)
<1>1. /\ old \in Inputs /\ old # Refused /\ IsValidPersonaInput(old) /\ old.faction = NoText /\ Distinct(old.tags)
      /\ old.name.pad = 0 /\ old.description.pad = 0 /\ old.firstMessage.pad = 0 /\ old.style.pad = 0 /\ old.world.pad = 0
  <2>1. /\ in.name \in TextRecords /\ in.description \in TextRecords /\ in.firstMessage \in TextRecords
        /\ in.style \in TextRecords /\ in.world \in TextRecords
    BY DEF Inputs
  <2>2. /\ old.name = Trim(in.name) /\ old.description = Trim(in.description)
        /\ old.firstMessage = Trim(in.firstMessage) /\ old.style = Trim(in.style) /\ old.world = Trim(in.world)
        /\ old \in Inputs /\ old # Refused /\ IsValidPersonaInput(old) /\ old.faction = NoText /\ Distinct(old.tags)
    BY BuiltIs
  <2> HIDE DEF old
  <2> QED BY <2>1, <2>2, TextsAre
<1>0. old.firstMessage.length > 0
  OBVIOUS
<1>2. card = [name |-> old.name, description |-> old.description, personality |-> old.style,
              firstMessage |-> old.firstMessage, style |-> old.style,
              worldScenario |-> old.world, world |-> old.world,
              cover |-> old.cover, faction |-> old.faction, tags |-> old.tags]
  BY DEF PersonaToCharaCardV3
<1> HIDE DEF old, card
<1>3. /\ old.name \in TextRecords /\ old.description \in TextRecords /\ old.firstMessage \in TextRecords
      /\ old.style \in TextRecords /\ old.world \in TextRecords /\ old.cover \in Covers /\ old.tags \in TagLists
      /\ old.faction \in TextRecords
  BY <1>1 DEF Inputs
<1>4. card \in CardRecords
  BY <1>2, <1>3 DEF CardRecords
<1>5. /\ card.name = old.name /\ card.description = old.description /\ card.personality = old.style
      /\ card.firstMessage = old.firstMessage /\ card.style = old.style /\ card.worldScenario = old.world
      /\ card.world = old.world /\ card.cover = old.cover /\ card.faction = NoText /\ card.tags = old.tags
  BY <1>1, <1>2
<1>6. /\ \A f \in {"name", "description", "firstMessage", "style", "world", "faction", "tags", "tag"} :
            Limit[f] \in Nat \ {0} /\ CardCap(f) = Limit[f]
  BY LimitsAre
<1>7. \A t \in TextRecords : t.pad = 0 => Trim(t) = t
  BY TextsAre
<1>8. \A t \in TextRecords, max \in Nat \ {0} : t.pad = 0 /\ t.length <= max => Cut(Trim(t), max) = t
  BY TextsAre, CutsAre DEF CutIs
<1>9. \A t \in TextRecords : t.pad \in Nat /\ t.length \in Nat
  BY DEF TextRecords
<1>10. /\ old.name.length > 0 /\ old.name.length <= Limit["name"] /\ old.description.length > 0
       /\ old.firstMessage.length <= Limit["firstMessage"]
       /\ old.style.length <= Limit["style"] /\ old.world.length <= Limit["world"]
       /\ old.cover \in {"none", "aurora"} /\ TagsFit(old.tags)
  BY <1>1, <1>3, <1>9, ValidIs
<1>11. CardAccepted(card)
  <2>1. Trim(card.name).length # 0
    BY <1>1, <1>3, <1>5, <1>7, <1>10
  <2> DEFINE both == Joined(old.description, old.style)
  <2>2. both \in TextRecords /\ both.pad = 0 /\ both.length >= old.description.length
    BY <1>1, <1>3, JoinedIs
  <2>3. Joined(Trim(card.description), Trim(card.personality)) = both
    BY <1>1, <1>3, <1>5, <1>7
  <2> HIDE DEF both
  <2>4. CutIs(both, CardCap("description"))
    BY <1>6, <2>2, CutsAre
  <2>5. Cut(both, CardCap("description")) \in TextRecords /\ Cut(both, CardCap("description")).length > 0
    BY <1>3, <1>9, <1>10, <2>2, <2>4 DEF CutIs
  <2>6. Size(Cut(both, CardCap("description"))) # 0
    BY <2>5 DEF Size, TextRecords
  <2> QED BY <2>1, <2>3, <2>6 DEF CardAccepted
<1>12. read \in Inputs /\ ReadAs(card, read)
  BY <1>4, <1>11, ReadIs
<1> HIDE DEF read
<1>13. read.name = old.name /\ read.style = old.style
  <2>1. Cut(Trim(old.name), CardCap("name")) = old.name /\ Cut(Trim(old.style), CardCap("style")) = old.style
    BY <1>1, <1>3, <1>6, <1>8, <1>10
  <2> QED BY <1>5, <1>12, <2>1 DEF ReadAs
<1>14. read.description = Cut(Joined(old.description, old.style), CardCap("description"))
  BY <1>1, <1>3, <1>5, <1>7, <1>12 DEF ReadAs
<1>15. read.firstMessage = old.firstMessage
  <2>1. Cut(Trim(old.firstMessage), CardCap("firstMessage")) = old.firstMessage
    BY <1>1, <1>3, <1>6, <1>8, <1>10
  <2>2. Size(old.firstMessage) > 0
    BY <1>0, <1>1, <1>3, <1>9 DEF Size
  <2> QED BY <1>5, <1>12, <2>1, <2>2 DEF ReadAs
<1>16. read.world = old.world
  <2>1. Cut(Trim(old.world), CardCap("world")) = old.world
    BY <1>1, <1>3, <1>6, <1>8, <1>10
  <2> QED BY <1>5, <1>12, <2>1 DEF ReadAs
<1>17. read.cover = old.cover
  BY <1>5, <1>10, <1>12 DEF ReadAs, CoverOptions
<1>18. read.faction = NoText
  <2>1. NoText \in TextRecords /\ NoText.pad = 0 /\ NoText.length = 0
    BY TextsAre
  <2>2. Cut(Trim(NoText), CardCap("faction")) = NoText
    BY <1>6, <1>8, <2>1
  <2> QED BY <1>5, <1>12, <2>2 DEF ReadAs
<1>19. read.tags = old.tags
  BY <1>3, <1>5, <1>10, <1>12, ImportedTagsAre DEF ReadAs
<1>20. read.description \in TextRecords /\ read.description.length > 0
       /\ read.description.pad + read.description.length <= Limit["description"]
  <2> DEFINE both == Joined(old.description, old.style)
  <2>1. both \in TextRecords /\ both.pad = 0 /\ both.length >= old.description.length
    BY <1>1, <1>3, JoinedIs
  <2> HIDE DEF both
  <2>2. read.description = Cut(both, CardCap("description"))
    BY <1>14 DEF both
  <2>3. CutIs(both, CardCap("description"))
    BY <1>6, <2>1, CutsAre
  <2>4. both.length > 0 /\ both.length \in Nat
    BY <1>3, <1>9, <1>10, <2>1
  <2> QED BY <1>6, <2>2, <2>3, <2>4 DEF CutIs, Shorter
<1>21. IsValidPersonaInput(read)
  <2>1. NoText.pad = 0 /\ NoText.length = 0
    BY TextsAre
  <2>2. /\ read.name.length > 0 /\ read.name.pad + read.name.length <= Limit["name"]
        /\ read.style.pad + read.style.length <= Limit["style"]
    BY <1>1, <1>3, <1>9, <1>10, <1>13
  <2>3. read.description.length > 0 /\ read.description.pad + read.description.length <= Limit["description"]
    BY <1>20
  <2>4. /\ read.firstMessage.pad + read.firstMessage.length <= Limit["firstMessage"]
        /\ read.world.pad + read.world.length <= Limit["world"]
    BY <1>1, <1>3, <1>9, <1>10, <1>15, <1>16
  <2>5. read.faction.pad + read.faction.length <= Limit["faction"]
    BY <1>6, <1>18, <2>1
  <2>6. read.cover \in {"none", "aurora"} /\ TagsFit(read.tags)
    BY <1>10, <1>17, <1>19
  <2> QED BY <1>12, <2>2, <2>3, <2>4, <2>5, <2>6, ValidIs
<1>22. read # Refused /\ new = BuildPersona(read)
  <2>1. read # Refused
    BY <1>10, <1>13, RefusedIs
  <2> QED BY <1>21, <2>1 DEF Stored
<1>23. /\ new \in Inputs /\ new # Refused
       /\ new.name = Trim(read.name) /\ new.description = Trim(read.description)
       /\ new.firstMessage = Trim(read.firstMessage) /\ new.style = Trim(read.style)
       /\ new.world = Trim(read.world) /\ new.cover = read.cover /\ new.faction = NoText
       /\ (Distinct(read.tags) => new.tags = read.tags)
  BY <1>12, <1>21, <1>22, BuiltIs
<1> HIDE DEF new
<1>24. /\ new.name = old.name /\ new.firstMessage = old.firstMessage /\ new.style = old.style
       /\ new.world = old.world /\ new.cover = old.cover /\ new.faction = old.faction /\ new.tags = old.tags
       /\ new.description = Trim(Cut(Joined(old.description, old.style), Limit["description"]))
  BY <1>1, <1>3, <1>6, <1>7, <1>13, <1>14, <1>15, <1>16, <1>17, <1>19, <1>23
<1>25. [new EXCEPT !.description = old.description] = old
  <2> DEFINE mixed == [new EXCEPT !.description = old.description]
  <2>1. /\ mixed.name = new.name /\ mixed.firstMessage = new.firstMessage /\ mixed.style = new.style
        /\ mixed.world = new.world /\ mixed.cover = new.cover /\ mixed.faction = new.faction
        /\ mixed.tags = new.tags /\ mixed.description = old.description
    BY <1>23 DEF Inputs
  <2>2. mixed \in Inputs
    BY <1>3, <1>23 DEF Inputs
  <2> HIDE DEF mixed
  <2>3. mixed = old
    BY <1>1, <1>24, <2>1, <2>2, SameInputs
  <2> QED BY <2>3 DEF mixed
<1> QED BY <1>23, <1>24, <1>25 DEF old, card, read, new

LEMMA CardsAre ==
  ASSUME CardsInv, SameLimits
  PROVE  CardsCorrect
<1> DEFINE in == personaMade.input
<1>1. in \in Inputs /\ personaMade.stored = Stored(in)
  BY DEF CardsInv
<1>2. ASSUME personaMade.stored # Refused
      PROVE  IsValidPersonaInput(in) /\ personaMade.stored = BuildPersona(in)
  BY <1>1, <1>2 DEF Stored
<1>3. StoredIsReadable
  BY <1>1, <1>2, BuiltIs DEF StoredIsReadable
<1>4. CardsRoundTrip
  <2> SUFFICES ASSUME personaMade.stored # Refused, personaMade.stored.firstMessage.length > 0
               PROVE  LET old == personaMade.stored
                          new == Stored(CharaCardV3ToPersonaInput(PersonaToCharaCardV3(old)))
                      IN  /\ new # Refused
                          /\ new.description = Trim(Cut(Joined(old.description, old.style), Limit["description"]))
                          /\ [new EXCEPT !.description = old.description] = old
    BY DEF CardsRoundTrip
  <2>1. IsValidPersonaInput(in) /\ personaMade.stored = BuildPersona(in)
    BY <1>2
  <2> HIDE DEF in
  <2> QED BY <1>1, <2>1, RoundTrip
<1>5. ImportIsAccepted
  <2> SUFFICES ASSUME in # Refused, cardGiven # BlankCard,
                      Trim(cardGiven.firstMessage).length = 0
                        => Trim(cardGiven.name).length + GreetingLength <= Limit["firstMessage"]
               PROVE  personaMade.stored # Refused
    BY DEF ImportIsAccepted
  <2>1. cardGiven \in CardRecords /\ in = CharaCardV3ToPersonaInput(cardGiven)
    BY DEF CardsInv
  <2>2. CardAccepted(cardGiven) /\ ReadAs(cardGiven, in)
    BY <2>1, ReadIs
  <2>3. IsValidPersonaInput(in)
    BY <1>1, <2>1, <2>2, ReadIsValid
  <2>4. personaMade.stored = BuildPersona(in)
    BY <1>1, <2>3 DEF Stored
  <2> QED BY <1>1, <2>3, <2>4, BuiltIs
<1> QED BY <1>3, <1>4, <1>5 DEF CardsCorrect

LEMMA BlankCardIs == BlankCard \in CardRecords
<1>1. <<>> \in TagLists
  BY EmptySeq DEF TagLists
<1>2. Dense(1) \in TextRecords /\ NoText \in TextRecords
  BY TextsAre
<1> QED BY <1>1, <1>2 DEF BlankCard, CardRecords, Covers

LEMMA MadeIs ==
  ASSUME NEW given \in CardRecords, NEW in \in Inputs, Make(given, in),
         given # BlankCard => in = CharaCardV3ToPersonaInput(given)
  PROVE  CardsInv'
<1>1. cardGiven' = given /\ personaMade'.input = in
  BY DEF Make
<1>2. personaMade'.stored = IF in = Refused THEN Refused ELSE Stored(in)
  BY DEF Make
<1>3. personaMade'.stored = Stored(in)
  BY <1>2 DEF Stored
<1> QED BY <1>1, <1>3 DEF CardsInv

LEMMA CardsStep ==
  ASSUME CardsInv, [CardNext]_cardVars
  PROVE  CardsInv'
<1>1. Texts \subseteq TextRecords
  <2> SUFFICES ASSUME NEW text \in [pad : Padding, length : TextLengths, blanks : SUBSET Blanks]
               PROVE  [text EXCEPT !.blanks = @ \cap (2 .. text.length - 1)] \in TextRecords
    BY DEF Texts
  <2>1. text.pad \in Nat /\ text.length \in Nat
    BY CardsAssumption
  <2>2. text.blanks \cap (2 .. text.length - 1) \subseteq Nat \ {0, 1}
    BY <2>1
  <2> QED BY <2>1, <2>2 DEF TextRecords
<1>2. CASE ImportACard
  <2>1. PICK card \in CardRecords : Make(card, CharaCardV3ToPersonaInput(card))
    <3>1. ASSUME NEW name \in Texts, NEW description \in Texts, NEW personality \in Texts, NEW first \in Texts
          PROVE  [BlankCard EXCEPT !.name = name, !.description = description,
                                   !.personality = personality, !.firstMessage = first] \in CardRecords
      BY <1>1, <3>1, BlankCardIs DEF CardRecords
    <3>2. ASSUME NEW style \in Texts, NEW world \in Texts, NEW scenario \in Texts
          PROVE  [BlankCard EXCEPT !.style = style, !.faction = style, !.world = world,
                                   !.worldScenario = scenario] \in CardRecords
      BY <1>1, <3>2, BlankCardIs DEF CardRecords
    <3>3. ASSUME NEW cover \in Covers, NEW tags \in TagSeqs
          PROVE  [BlankCard EXCEPT !.cover = cover, !.tags = tags] \in CardRecords
      BY <3>3, BlankCardIs, TagSeqsAre DEF CardRecords
    <3> QED BY <1>2, <3>1, <3>2, <3>3 DEF ImportACard
  <2>2. CharaCardV3ToPersonaInput(card) \in Inputs
    BY ReadIs
  <2> QED BY <2>1, <2>2, MadeIs
<1>3. CASE FillInForm
  <2> DEFINE FilledIn(name, description, style, tags) ==
               [name |-> name, description |-> description, firstMessage |-> style, style |-> style,
                world |-> style, cover |-> "aurora", faction |-> NoText, tags |-> NotEmpty(tags)]
  <2>1. ASSUME NEW name \in TextRecords, NEW description \in TextRecords, NEW style \in TextRecords,
               NEW tags \in TagLists
        PROVE  FilledIn(name, description, style, tags) \in Inputs
    <3>1. NotEmpty(tags) \in TagLists
      BY NotEmptyIs DEF TagLists
    <3>2. NoText \in TextRecords
      BY TextsAre
    <3> QED BY <3>1, <3>2 DEF Inputs, Covers
  <2>2. <<>> \in TagLists /\ Dense(1) \in TextRecords /\ NoText \in TextRecords
    BY EmptySeq, TextsAre DEF TagLists
  <2>3. \/ \E name, description, style \in Texts : Make(BlankCard, FilledIn(name, description, style, <<>>))
        \/ \E tags \in TagSeqs : Make(BlankCard, FilledIn(Dense(1), Dense(1), NoText, tags))
    BY <1>3 DEF FillInForm
  <2> HIDE DEF FilledIn
  <2>4. \E in \in Inputs : Make(BlankCard, in)
    BY <1>1, <2>1, <2>2, <2>3, TagSeqsAre
  <2> QED BY <2>4, BlankCardIs, MadeIs
<1>4. CASE UNCHANGED cardVars
  BY <1>4 DEF CardsInv, cardVars
<1> QED BY <1>2, <1>3, <1>4 DEF CardNext

CardSpec == CardInit /\ [][CardNext]_cardVars

\* As long as the limits of chara-card.ts are those of personas.ts: what comes out
\* of a card is never refused for its lengths, but for a greeting made of too long
\* a name; what createPersona stores is valid when it is read again; and export and
\* import give the same persona but for its description.
THEOREM CardsKeepTheirWay == SameLimits => (CardSpec => []CardsCorrect)
<1> SUFFICES ASSUME SameLimits PROVE CardSpec => []CardsCorrect
  OBVIOUS
<1>1. CardInit => CardsInv
  BY BlankCardIs, RefusedIs DEF CardInit, NothingMade, CardsInv, Stored
<1>2. CardsInv /\ [CardNext]_cardVars => CardsInv'
  BY CardsStep
<1>3. CardsInv => CardsCorrect
  BY CardsAre
<1> QED BY <1>1, <1>2, <1>3, PTL DEF CardSpec

-----------------------------------------------------------------------------
(***************************************************************************)
(* Group turns: replies are stored with their question, and a turn that is *)
(* over leaves no empty bubble behind.                                     *)
(***************************************************************************)
Phases == {"idle", "saving", "scheduling", "speaking", "reloading", "over"}
VoiceStates == {"none", "silent", "talking", "keeping", "over", "failed"}
Places == Groups \cup {Nowhere}
Messages == [round : Rounds, by : Voices \cup {You}]

Bubbles == [round : Rounds, by : Voices \cup {You}, full : BOOLEAN]
TabStates == [at : Places, shown : SUBSET Bubbles, pending : BOOLEAN, abort : Rounds, loggedIn : BOOLEAN]

MoveOK(move) ==
  /\ move \in [what : {"none", "open", "show", "delete"}, id : Places, read : SUBSET Bubbles, seen : BOOLEAN]
  /\ move.what # "none" => move.id \in Groups

RoundsOK(rounds) ==
  /\ rounds \in [Rounds -> [phase : Phases, at : Places, stopped : BOOLEAN, refused : BOOLEAN]]
  /\ \A t \in Rounds : rounds[t].phase # "idle" => rounds[t].at \in Groups

GroupTypeOK ==
  /\ groupFile \in [Groups -> [kept : BOOLEAN, messages : Seq(Messages)]]
  /\ groupTab \in TabStates
  /\ RoundsOK(groupRound)
  /\ groupVoice \in [Rounds -> [Voices -> VoiceStates]]
  /\ MoveOK(groupMove)

\* What a conversation holds belongs to the rounds begun in it, replies after
\* their question.
MessagesBelong ==
  \A g \in Groups : \A i \in DOMAIN groupFile[g].messages :
    LET m == groupFile[g].messages[i]
    IN  /\ groupRound[m.round].at = g /\ groupRound[m.round].phase # "idle"
        /\ m.by # You /\ m.round > 0 => \E j \in 1 .. i - 1 : groupFile[g].messages[j] = GroupMessage(m.round, You)

\* A turn that has come to its speakers has its question stored, unless the
\* conversation is gone.
QuestionStored ==
  \A t \in Rounds :
    t > 0 /\ groupRound[t].phase \in {"scheduling", "speaking"} /\ groupFile[groupRound[t].at].kept =>
      \E j \in DOMAIN groupFile[groupRound[t].at].messages :
        groupFile[groupRound[t].at].messages[j] = GroupMessage(t, You)

\* Speakers speak in the phase for it only.
QuietOutsideSpeaking ==
  \A t \in Rounds, v \in Voices :
    groupRound[t].phase # "speaking" => groupVoice[t][v] \in {"none", "over", "failed"}

GroupInv == GroupTypeOK /\ MessagesBelong /\ QuestionStored /\ QuietOutsideSpeaking

-----------------------------------------------------------------------------
LEMMA AbortKeeps ==
  ASSUME NEW tab, NEW rounds, RoundsOK(rounds)
  PROVE  LET r == AbortedBy(tab, rounds)
         IN  /\ RoundsOK(r)
             /\ \A t \in Rounds : /\ r[t].phase = rounds[t].phase /\ r[t].at = rounds[t].at
                                  /\ rounds[t].stopped => r[t].stopped
BY DEF AbortedBy, RoundsOK

LEMMA RoundsAre == 0 \in Rounds /\ (1 .. MaxTurns) \subseteq Rounds
BY GroupAssumption DEF Rounds

LEMMA TabsStay ==
  ASSUME NEW tab \in TabStates
  PROVE  /\ LoggedOut(tab) \in TabStates
         /\ \A t \in Rounds, ok \in BOOLEAN : LeftTurn(tab, t, ok) \in TabStates
         /\ \A t, v : Without(tab, t, v) \in TabStates
         /\ \A s \in SUBSET Bubbles : [tab EXCEPT !.shown = s] \in TabStates
         /\ \A s \in SUBSET Bubbles, p \in BOOLEAN, a \in Rounds :
              [tab EXCEPT !.shown = s, !.pending = p, !.abort = a] \in TabStates
         /\ \A g \in Places, s \in SUBSET Bubbles : [tab EXCEPT !.at = g, !.shown = s] \in TabStates
<1>1. LoggedOut(tab) \in TabStates
  BY DEF LoggedOut, TabStates, Places
<1>2. \A t \in Rounds, ok \in BOOLEAN : LeftTurn(tab, t, ok) \in TabStates
  BY RoundsAre DEF LeftTurn, TabStates
<1>3. \A t, v : Without(tab, t, v) \in TabStates
  BY DEF Without, TabStates
<1>4. \A s \in SUBSET Bubbles : [tab EXCEPT !.shown = s] \in TabStates
  BY DEF TabStates
<1>5. \A s \in SUBSET Bubbles, p \in BOOLEAN, a \in Rounds :
        [tab EXCEPT !.shown = s, !.pending = p, !.abort = a] \in TabStates
  BY DEF TabStates
<1>6. \A g \in Places, s \in SUBSET Bubbles : [tab EXCEPT !.at = g, !.shown = s] \in TabStates
  BY DEF TabStates
<1> QED
  BY <1>1, <1>2, <1>3, <1>4, <1>5, <1>6

LEMMA MessageRounds ==
  ASSUME GroupTypeOK, NEW g \in Groups, NEW i \in DOMAIN groupFile[g].messages
  PROVE  groupFile[g].messages[i].round \in Rounds
<1>1. groupFile[g].messages \in Seq(Messages)
  BY DEF GroupTypeOK
<1>2. groupFile[g].messages[i] \in Messages
  BY <1>1, ElementOfSeq, LenProperties
<1> QED
  BY <1>2 DEF Messages

\* Steps that store nothing.
LEMMA FileRests ==
  ASSUME GroupInv, UNCHANGED groupFile,
         groupTab' \in TabStates, RoundsOK(groupRound'), MoveOK(groupMove'),
         groupVoice' \in [Rounds -> [Voices -> VoiceStates]],
         \A t \in Rounds : groupRound[t].phase # "idle" =>
                             groupRound'[t].phase # "idle" /\ groupRound'[t].at = groupRound[t].at,
         \A t \in Rounds : groupRound'[t].phase \in {"scheduling", "speaking"} =>
                             groupRound[t].phase \in {"scheduling", "speaking"},
         \A t \in Rounds, v \in Voices :
           groupRound'[t].phase # "speaking" => groupVoice'[t][v] \in {"none", "over", "failed"}
  PROVE  GroupInv'
<1>1. GroupTypeOK'
  BY DEF GroupInv, GroupTypeOK
<1>2. MessagesBelong'
  <2>1. \A g \in Groups : \A i \in DOMAIN groupFile[g].messages : groupFile[g].messages[i].round \in Rounds
    BY MessageRounds DEF GroupInv
  <2> QED
    BY <2>1 DEF GroupInv, MessagesBelong
<1>3. QuestionStored'
  BY DEF GroupInv, QuestionStored
<1>4. QuietOutsideSpeaking'
  BY DEF QuietOutsideSpeaking
<1> QED
  BY <1>1, <1>2, <1>3, <1>4 DEF GroupInv

\* One message more, in conversation g.
LEMMA FileGrows ==
  ASSUME GroupTypeOK, NEW g \in Groups, NEW m \in Messages, NEW f, f = WithMessage(g, m)
  PROVE  LET old == groupFile[g].messages
         IN  /\ f \in [Groups -> [kept : BOOLEAN, messages : Seq(Messages)]]
             /\ \A h \in Groups : f[h].kept = groupFile[h].kept /\ (h # g => f[h] = groupFile[h])
             /\ Len(old) \in Nat /\ DOMAIN old = 1 .. Len(old)
             /\ DOMAIN f[g].messages = 1 .. Len(old) + 1
             /\ \A i \in 1 .. Len(old) : f[g].messages[i] = old[i]
             /\ f[g].messages[Len(old) + 1] = m
<1> DEFINE old == groupFile[g].messages
<1>1. old \in Seq(Messages) /\ groupFile \in [Groups -> [kept : BOOLEAN, messages : Seq(Messages)]]
  BY DEF GroupTypeOK
<1> HIDE DEF old
<1>2. /\ Append(old, m) \in Seq(Messages) /\ Len(old) \in Nat /\ DOMAIN old = 1 .. Len(old)
      /\ DOMAIN Append(old, m) = 1 .. Len(old) + 1
      /\ \A i \in 1 .. Len(old) : Append(old, m)[i] = old[i]
      /\ Append(old, m)[Len(old) + 1] = m
  BY <1>1, AppendProperties, LenProperties
<1>3. f = [groupFile EXCEPT ![g].messages = Append(old, m)]
  BY DEF WithMessage, old
<1>4. /\ f \in [Groups -> [kept : BOOLEAN, messages : Seq(Messages)]]
      /\ \A h \in Groups : f[h].kept = groupFile[h].kept /\ (h # g => f[h] = groupFile[h])
      /\ f[g].messages = Append(old, m)
  <2> DEFINE a == Append(old, m)
  <2>1. a \in Seq(Messages) /\ f = [groupFile EXCEPT ![g].messages = a]
    BY <1>2, <1>3
  <2> HIDE DEF a
  <2>2. groupFile[g] \in [kept : BOOLEAN, messages : Seq(Messages)]
    BY <1>1
  <2>3. f = [groupFile EXCEPT ![g] = [groupFile[g] EXCEPT !.messages = a]]
    BY <2>1
  <2>4. /\ [groupFile[g] EXCEPT !.messages = a] \in [kept : BOOLEAN, messages : Seq(Messages)]
        /\ [groupFile[g] EXCEPT !.messages = a].messages = a
        /\ [groupFile[g] EXCEPT !.messages = a].kept = groupFile[g].kept
    BY <2>1, <2>2
  <2> QED
    BY <1>1, <2>3, <2>4 DEF a
<1>5. /\ f \in [Groups -> [kept : BOOLEAN, messages : Seq(Messages)]]
      /\ \A h \in Groups : f[h].kept = groupFile[h].kept /\ (h # g => f[h] = groupFile[h])
      /\ Len(old) \in Nat /\ DOMAIN old = 1 .. Len(old)
      /\ DOMAIN f[g].messages = 1 .. Len(old) + 1
      /\ \A i \in 1 .. Len(old) : f[g].messages[i] = old[i]
      /\ f[g].messages[Len(old) + 1] = m
  BY <1>2, <1>4
<1> QED
  BY <1>5 DEF old

\* A message joins the conversation its round was begun in, a reply after its
\* question.
LEMMA MessageJoins ==
  ASSUME GroupInv, NEW t \in Rounds, NEW by \in Voices \cup {You},
         groupRound[t].phase # "idle",
         LET g == groupRound[t].at
         IN  /\ groupFile' = WithMessage(g, GroupMessage(t, by))
             /\ by # You /\ t > 0 => \E j \in DOMAIN groupFile[g].messages :
                                        groupFile[g].messages[j] = GroupMessage(t, You),
         groupTab' \in TabStates, RoundsOK(groupRound'), MoveOK(groupMove'),
         groupVoice' \in [Rounds -> [Voices -> VoiceStates]],
         \A u \in Rounds : groupRound'[u].at = groupRound[u].at /\ (groupRound[u].phase # "idle" => groupRound'[u].phase # "idle"),
         \A u \in Rounds : groupRound'[u].phase \in {"scheduling", "speaking"} =>
                             groupRound[u].phase \in {"scheduling", "speaking"} \/ (u = t /\ by = You),
         \A u \in Rounds, v \in Voices :
           groupRound'[u].phase # "speaking" => groupVoice'[u][v] \in {"none", "over", "failed"}
  PROVE  GroupInv'
<1> DEFINE g == groupRound[t].at
           m == GroupMessage(t, by)
           old == groupFile[g].messages
           n == Len(old)
<1>1. g \in Groups /\ m \in Messages /\ m.round = t /\ m.by = by
  BY DEF GroupInv, GroupTypeOK, RoundsOK, Messages, GroupMessage
<1>2. /\ groupFile' \in [Groups -> [kept : BOOLEAN, messages : Seq(Messages)]]
      /\ \A h \in Groups : groupFile'[h].kept = groupFile[h].kept /\ (h # g => groupFile'[h] = groupFile[h])
      /\ n \in Nat /\ DOMAIN old = 1 .. n
      /\ DOMAIN groupFile'[g].messages = 1 .. n + 1
      /\ \A i \in 1 .. n : groupFile'[g].messages[i] = old[i]
      /\ groupFile'[g].messages[n + 1] = m
  <2> HIDE DEF g, m
  <2>1. groupFile' = WithMessage(g, m)
    BY DEF g, m
  <2> QED
    BY <1>1, <2>1, FileGrows DEF GroupInv
<1>3. /\ by # You /\ t > 0 => \E j \in 1 .. n : old[j] = GroupMessage(t, You)
      /\ by = You => m = GroupMessage(t, You)
  BY <1>2
<1>4. /\ \A h \in Groups : \A i \in DOMAIN groupFile[h].messages : groupFile[h].messages[i].round \in Rounds
      /\ MessagesBelong /\ QuestionStored
  BY MessageRounds DEF GroupInv
<1> HIDE DEF g, m, n, old
<1>5. GroupTypeOK'
  BY <1>2 DEF GroupTypeOK
<1>6. MessagesBelong'
  <2> SUFFICES ASSUME NEW h \in Groups, NEW i \in DOMAIN groupFile'[h].messages
               PROVE  LET x == groupFile'[h].messages[i]
                      IN  /\ groupRound'[x.round].at = h /\ groupRound'[x.round].phase # "idle"
                          /\ x.by # You /\ x.round > 0 =>
                               \E j \in 1 .. i - 1 : groupFile'[h].messages[j] = GroupMessage(x.round, You)
    BY DEF MessagesBelong
  <2>1. CASE h # g
    <3>1. groupFile'[h] = groupFile[h] /\ i \in DOMAIN groupFile[h].messages
      BY <1>2, <2>1
    <3>2. LET x == groupFile[h].messages[i]
          IN  /\ x.round \in Rounds /\ groupRound[x.round].at = h /\ groupRound[x.round].phase # "idle"
              /\ x.by # You /\ x.round > 0 =>
                   \E j \in 1 .. i - 1 : groupFile[h].messages[j] = GroupMessage(x.round, You)
      BY <1>4, <3>1 DEF MessagesBelong
    <3> QED
      BY <3>1, <3>2
  <2>2. CASE h = g /\ i \in 1 .. n
    <3>1. groupFile'[h].messages[i] = groupFile[h].messages[i] /\ i \in DOMAIN groupFile[h].messages
      BY <1>2, <2>2 DEF old
    <3>2. \A j \in 1 .. i - 1 : groupFile'[h].messages[j] = groupFile[h].messages[j]
      BY <1>2, <2>2 DEF old
    <3>3. LET x == groupFile[h].messages[i]
          IN  /\ x.round \in Rounds /\ groupRound[x.round].at = h /\ groupRound[x.round].phase # "idle"
              /\ x.by # You /\ x.round > 0 =>
                   \E j \in 1 .. i - 1 : groupFile[h].messages[j] = GroupMessage(x.round, You)
      BY <1>4, <3>1 DEF MessagesBelong
    <3> QED
      BY <3>1, <3>2, <3>3
  <2>3. CASE h = g /\ i = n + 1
    <3>1. groupFile'[h].messages[i] = m
      BY <1>2, <2>3
    <3>2. groupRound'[t].at = h /\ groupRound'[t].phase # "idle"
      BY <2>3 DEF g
    <3>3. by # You /\ t > 0 => \E j \in 1 .. i - 1 : groupFile'[h].messages[j] = GroupMessage(t, You)
      BY <1>2, <1>3, <2>3
    <3> QED
      BY <1>1, <3>1, <3>2, <3>3
  <2>4. h = g => i \in 1 .. n \/ i = n + 1
    BY <1>2
  <2> QED
    BY <2>1, <2>2, <2>3, <2>4
<1>7. QuestionStored'
  <2> SUFFICES ASSUME NEW u \in Rounds, u > 0, groupRound'[u].phase \in {"scheduling", "speaking"},
                      groupFile'[groupRound'[u].at].kept
               PROVE  \E j \in DOMAIN groupFile'[groupRound'[u].at].messages :
                        groupFile'[groupRound'[u].at].messages[j] = GroupMessage(u, You)
    BY DEF QuestionStored
  <2> DEFINE h == groupRound[u].at
  <2>1. groupRound'[u].at = h
    OBVIOUS
  <2>2. CASE u = t /\ by = You
    <3>1. h = g /\ n + 1 \in DOMAIN groupFile'[g].messages /\ groupFile'[g].messages[n + 1] = GroupMessage(u, You)
      BY <1>2, <1>3, <2>2 DEF g
    <3> QED
      BY <2>1, <3>1
  <2>3. CASE groupRound[u].phase \in {"scheduling", "speaking"}
    <3>1. h \in Groups
      BY <2>3 DEF GroupInv, GroupTypeOK, RoundsOK
    <3>2. groupFile[h].kept
      BY <1>2, <2>1, <3>1
    <3>3. PICK j \in DOMAIN groupFile[h].messages : groupFile[h].messages[j] = GroupMessage(u, You)
      BY <1>4, <2>3, <3>2 DEF QuestionStored
    <3>4. j \in DOMAIN groupFile'[h].messages /\ groupFile'[h].messages[j] = GroupMessage(u, You)
      <4>1. CASE h # g
        BY <1>2, <3>1, <3>3, <4>1
      <4>2. CASE h = g
        <5>1. old = groupFile[h].messages
          BY <4>2 DEF old
        <5>2. j \in 1 .. n /\ j \in 1 .. n + 1
          BY <1>2, <3>3, <5>1
        <5>3. groupFile'[g].messages[j] = old[j]
          BY <1>2, <5>2
        <5> QED
          BY <1>2, <3>3, <4>2, <5>1, <5>2, <5>3
      <4> QED
        BY <4>1, <4>2
    <3> QED
      BY <2>1, <3>4
  <2> QED
    BY <2>2, <2>3
<1>8. QuietOutsideSpeaking'
  BY DEF QuietOutsideSpeaking
<1> QED
  BY <1>5, <1>6, <1>7, <1>8 DEF GroupInv

-----------------------------------------------------------------------------
LEMMA InvTypes ==
  ASSUME GroupInv
  PROVE  /\ groupTab \in TabStates /\ RoundsOK(groupRound) /\ MoveOK(groupMove)
         /\ groupVoice \in [Rounds -> [Voices -> VoiceStates]]
         /\ \A t \in Rounds, v \in Voices :
              groupRound[t].phase # "speaking" => groupVoice[t][v] \in {"none", "over", "failed"}
BY DEF GroupInv, GroupTypeOK, QuietOutsideSpeaking

\* A call fails: the round is over, the others are where they were.
LEMMA RoundFails ==
  ASSUME GroupInv, NEW t \in Rounds, groupRound[t].phase \in {"saving", "scheduling"}, FailGroupRound(t),
         UNCHANGED <<groupFile, groupVoice, groupMove>>
  PROVE  GroupInv'
<1>1. PICK expired \in BOOLEAN :
        /\ groupTab' = LeftTurn(IF expired THEN LoggedOut(groupTab) ELSE groupTab, t, FALSE)
        /\ groupRound' = [(IF expired THEN AbortedBy(groupTab, groupRound) ELSE groupRound) EXCEPT ![t].phase = "over"]
  BY DEF FailGroupRound
<1> DEFINE r == IF expired THEN AbortedBy(groupTab, groupRound) ELSE groupRound
<1>2. RoundsOK(r) /\ \A u \in Rounds : r[u].phase = groupRound[u].phase /\ r[u].at = groupRound[u].at
  BY AbortKeeps, InvTypes
<1>3. groupRound' = [r EXCEPT ![t].phase = "over"]
  BY <1>1
<1> HIDE DEF r
<1>4. /\ RoundsOK(groupRound') /\ groupRound'[t].phase = "over"
      /\ \A u \in Rounds : groupRound'[u].at = groupRound[u].at /\ (u # t => groupRound'[u].phase = groupRound[u].phase)
  BY <1>2, <1>3, InvTypes DEF Phases, RoundsOK
<1>5. groupTab' \in TabStates
  BY <1>1, TabsStay, InvTypes
<1>6. MoveOK(groupMove') /\ groupVoice' \in [Rounds -> [Voices -> VoiceStates]]
  BY InvTypes
<1>7. \A u \in Rounds, v \in Voices : groupRound'[u].phase # "speaking" => groupVoice'[u][v] \in {"none", "over", "failed"}
  BY <1>4, InvTypes
<1> QED
  BY <1>4, <1>5, <1>6, <1>7, FileRests

\* Only what the speakers and the page hold has changed, and flags of rounds.
LEMMA RoundsRest ==
  ASSUME GroupInv, UNCHANGED groupFile, groupTab' \in TabStates, MoveOK(groupMove'),
         groupRound' = groupRound \/ groupRound' = AbortedBy(groupTab, groupRound),
         groupVoice' \in [Rounds -> [Voices -> VoiceStates]],
         \A t \in Rounds, v \in Voices :
           groupVoice'[t][v] = groupVoice[t][v] \/ groupRound[t].phase = "speaking" \/ groupVoice'[t][v] \in {"none", "over", "failed"}
  PROVE  GroupInv'
<1>1. RoundsOK(groupRound') /\ \A t \in Rounds : groupRound'[t].phase = groupRound[t].phase /\ groupRound'[t].at = groupRound[t].at
  BY AbortKeeps, InvTypes
<1>2. \A t \in Rounds, v \in Voices : groupRound'[t].phase # "speaking" => groupVoice'[t][v] \in {"none", "over", "failed"}
  BY <1>1, InvTypes
<1> QED
  BY <1>1, <1>2, FileRests

\* A speaker comes to a new state.
LEMMA VoiceSays ==
  ASSUME GroupInv, NEW t \in Rounds, NEW v \in Voices, NEW state \in VoiceStates, Says(t, v, state),
         groupVoice[t][v] \in {"silent", "talking", "keeping"}
  PROVE  /\ groupVoice' \in [Rounds -> [Voices -> VoiceStates]]
         /\ groupRound[t].phase = "speaking"
         /\ \A u \in Rounds, w \in Voices : groupVoice'[u][w] = groupVoice[u][w] \/ groupRound[u].phase = "speaking"
BY InvTypes DEF Says

-----------------------------------------------------------------------------
LEMMA GroupStep ==
  ASSUME GroupInv, [GroupNext]_groupVars
  PROVE  GroupInv'
<1>1. ASSUME NEW t \in Rounds, t > 0, AskGroup(t)
      PROVE  GroupInv'
  <2> DEFINE asked == [phase |-> "saving", at |-> groupTab.at, stopped |-> FALSE,
                       refused |-> \E b \in groupTab.shown : ~b.full]
  <2>1. groupRound' = [groupRound EXCEPT ![t] = asked] /\ groupRound[t].phase = "idle"
    BY <1>1 DEF AskGroup
  <2>2. groupTab.at \in Groups
    BY <1>1, InvTypes DEF AskGroup, TabStates, Places
  <2>3. asked \in [phase : Phases, at : Places, stopped : BOOLEAN, refused : BOOLEAN]
        /\ asked.phase = "saving" /\ asked.at \in Groups
    BY <2>2 DEF Phases, Places
  <2> HIDE DEF asked
  <2>4. RoundsOK(groupRound') /\ groupRound'[t].phase = "saving" /\ \A u \in Rounds : u # t => groupRound'[u] = groupRound[u]
    BY <2>1, <2>3, InvTypes DEF RoundsOK
  <2>5. groupTab' \in TabStates
    <3>1. Bubble(t, You, TRUE) \in Bubbles
      BY DEF Bubble, Bubbles
    <3>2. groupTab.shown \cup {Bubble(t, You, TRUE)} \in SUBSET Bubbles
      BY <3>1, InvTypes DEF TabStates
    <3>3. groupTab' = [groupTab EXCEPT !.shown = groupTab.shown \cup {Bubble(t, You, TRUE)}, !.pending = TRUE, !.abort = t]
      BY <1>1 DEF AskGroup
    <3> QED
      BY <3>2, <3>3, TabsStay, InvTypes
  <2>6. \A u \in Rounds, v \in Voices : groupRound'[u].phase # "speaking" => groupVoice'[u][v] \in {"none", "over", "failed"}
    BY <1>1, <2>1, <2>4, InvTypes DEF AskGroup
  <2>7. UNCHANGED groupFile /\ MoveOK(groupMove') /\ groupVoice' \in [Rounds -> [Voices -> VoiceStates]]
    BY <1>1, InvTypes DEF AskGroup
  <2> QED
    BY <2>1, <2>4, <2>5, <2>6, <2>7, FileRests
<1>2. ASSUME NEW t \in Rounds, SaveGroupQuestion(t)
      PROVE  GroupInv'
  <2>1. /\ groupFile' = WithMessage(groupRound[t].at, GroupMessage(t, You))
        /\ groupRound' = [groupRound EXCEPT ![t].phase = "scheduling"] /\ groupRound[t].phase = "saving"
        /\ UNCHANGED <<groupTab, groupVoice, groupMove>>
    BY <1>2 DEF SaveGroupQuestion
  <2>2. /\ RoundsOK(groupRound') /\ groupRound'[t].phase = "scheduling"
        /\ \A u \in Rounds : groupRound'[u].at = groupRound[u].at /\ (u # t => groupRound'[u].phase = groupRound[u].phase)
    BY <2>1, InvTypes DEF Phases, RoundsOK
  <2>3. \A u \in Rounds, v \in Voices : groupRound'[u].phase # "speaking" => groupVoice'[u][v] \in {"none", "over", "failed"}
    BY <2>1, <2>2, InvTypes
  <2>4. groupTab' \in TabStates /\ MoveOK(groupMove') /\ groupVoice' \in [Rounds -> [Voices -> VoiceStates]]
    BY <2>1, InvTypes
  <2> DEFINE by == You
  <2>5. by \in Voices \cup {You} /\ by = You
    OBVIOUS
  <2>6. groupFile' = WithMessage(groupRound[t].at, GroupMessage(t, by))
    BY <2>1
  <2> HIDE DEF by
  <2>7. groupRound[t].phase # "idle"
    BY <2>1
  <2> QED
    BY <2>2, <2>3, <2>4, <2>5, <2>6, <2>7, MessageJoins
<1>3. ASSUME NEW t \in Rounds, SaveGroupQuestionFails(t) \/ ScheduleFails(t)
      PROVE  GroupInv'
  BY <1>3, RoundFails DEF SaveGroupQuestionFails, ScheduleFails
<1>4. ASSUME NEW t \in Rounds, ScheduleArrives(t)
      PROVE  GroupInv'
  <2>1. PICK chosen \in SUBSET Voices :
          /\ groupTab' = [groupTab EXCEPT !.shown = groupTab.shown \cup {Bubble(t, v, FALSE) : v \in chosen}]
          /\ groupVoice' = [groupVoice EXCEPT ![t] = [v \in Voices |-> IF v \in chosen THEN "silent" ELSE "none"]]
    BY <1>4 DEF ScheduleArrives
  <2>2. groupRound' = [groupRound EXCEPT ![t].phase = "speaking"] /\ groupRound[t].phase = "scheduling" /\ UNCHANGED <<groupFile, groupMove>>
    BY <1>4 DEF ScheduleArrives
  <2>3. /\ RoundsOK(groupRound') /\ groupRound'[t].phase = "speaking"
        /\ \A u \in Rounds : groupRound'[u].at = groupRound[u].at /\ (u # t => groupRound'[u].phase = groupRound[u].phase)
    BY <2>2, InvTypes DEF Phases, RoundsOK
  <2>4. groupTab' \in TabStates
    <3>1. groupTab.shown \cup {Bubble(t, v, FALSE) : v \in chosen} \in SUBSET Bubbles
      <4>1. \A v \in chosen : Bubble(t, v, FALSE) \in Bubbles
        BY DEF Bubble, Bubbles
      <4>2. groupTab.shown \in SUBSET Bubbles
        BY InvTypes DEF TabStates
      <4> QED
        BY <4>1, <4>2
    <3> QED
      BY <2>1, <3>1, TabsStay, InvTypes
  <2>5. groupVoice' \in [Rounds -> [Voices -> VoiceStates]] /\ \A u \in Rounds : u # t => groupVoice'[u] = groupVoice[u]
    BY <2>1, InvTypes DEF VoiceStates
  <2>6. \A u \in Rounds, v \in Voices : groupRound'[u].phase # "speaking" => groupVoice'[u][v] \in {"none", "over", "failed"}
    BY <2>3, <2>5, InvTypes
  <2>7. MoveOK(groupMove')
    BY <2>2, InvTypes
  <2> QED
    BY <2>2, <2>3, <2>4, <2>5, <2>6, <2>7, FileRests
<1>5. ASSUME NEW t \in Rounds, AllSettled(t)
      PROVE  GroupInv'
  <2>1. PICK phase \in {"over", "reloading"} : groupRound' = [groupRound EXCEPT ![t].phase = phase]
    BY <1>5 DEF AllSettled
  <2>2. /\ groupRound[t].phase = "speaking" /\ \A v \in Voices : groupVoice[t][v] \in {"none", "over", "failed"}
        /\ UNCHANGED <<groupFile, groupVoice, groupMove>>
    BY <1>5 DEF AllSettled
  <2>3. /\ RoundsOK(groupRound') /\ groupRound'[t].phase = phase
        /\ \A u \in Rounds : groupRound'[u].at = groupRound[u].at /\ (u # t => groupRound'[u].phase = groupRound[u].phase)
    BY <2>1, <2>2, InvTypes DEF Phases, RoundsOK
  <2>4. Cleaned(t) \in TabStates
    <3>1. {b \in groupTab.shown : b.round # t \/ b.full} \in SUBSET Bubbles
      BY InvTypes DEF TabStates
    <3> QED
      BY <3>1, TabsStay, InvTypes DEF Cleaned
  <2>5. groupTab' \in TabStates
    BY <1>5, <2>4, TabsStay DEF AllSettled
  <2>6. \A u \in Rounds, v \in Voices : groupRound'[u].phase # "speaking" => groupVoice'[u][v] \in {"none", "over", "failed"}
    BY <2>2, <2>3, InvTypes
  <2>7. MoveOK(groupMove') /\ groupVoice' \in [Rounds -> [Voices -> VoiceStates]] /\ UNCHANGED groupFile
    BY <2>2, InvTypes
  <2> QED
    BY <2>2, <2>3, <2>5, <2>6, <2>7, FileRests
<1>6. ASSUME NEW t \in Rounds, GroupReloaded(t)
      PROVE  GroupInv'
  <2>1. PICK expired \in BOOLEAN :
          /\ groupTab' = LeftTurn(IF expired THEN LoggedOut(groupTab) ELSE groupTab, t, TRUE)
          /\ groupRound' = [(IF expired THEN AbortedBy(groupTab, groupRound) ELSE groupRound) EXCEPT ![t].phase = "over"]
    BY <1>6 DEF GroupReloaded
  <2>2. groupRound[t].phase = "reloading" /\ UNCHANGED <<groupFile, groupVoice, groupMove>>
    BY <1>6 DEF GroupReloaded
  <2> DEFINE r == IF expired THEN AbortedBy(groupTab, groupRound) ELSE groupRound
  <2>3. RoundsOK(r) /\ \A u \in Rounds : r[u].phase = groupRound[u].phase /\ r[u].at = groupRound[u].at
    BY AbortKeeps, InvTypes
  <2>4. groupRound' = [r EXCEPT ![t].phase = "over"]
    BY <2>1
  <2> HIDE DEF r
  <2>5. /\ RoundsOK(groupRound') /\ groupRound'[t].phase = "over"
        /\ \A u \in Rounds : groupRound'[u].at = groupRound[u].at /\ (u # t => groupRound'[u].phase = groupRound[u].phase)
    BY <2>2, <2>3, <2>4, InvTypes DEF Phases, RoundsOK
  <2>6. groupTab' \in TabStates
    BY <2>1, TabsStay, InvTypes
  <2>7. MoveOK(groupMove') /\ groupVoice' \in [Rounds -> [Voices -> VoiceStates]]
    BY <2>2, InvTypes
  <2>8. \A u \in Rounds, v \in Voices : groupRound'[u].phase # "speaking" => groupVoice'[u][v] \in {"none", "over", "failed"}
    BY <2>2, <2>5, InvTypes
  <2> QED
    BY <2>2, <2>5, <2>6, <2>7, <2>8, FileRests
<1>7. ASSUME NEW t \in Rounds, NEW v \in Voices,
             VoiceDelta(t, v) \/ VoiceEnds(t, v) \/ VoiceBreaks(t, v) \/ KeepReplyFails(t, v)
      PROVE  GroupInv'
  <2>1. /\ groupVoice[t][v] \in {"silent", "talking", "keeping"}
        /\ \E state \in VoiceStates : Says(t, v, state)
        /\ UNCHANGED <<groupFile, groupMove>>
        /\ groupRound' = groupRound \/ groupRound' = AbortedBy(groupTab, groupRound)
    BY <1>7 DEF VoiceDelta, VoiceEnds, VoiceBreaks, KeepReplyFails, StillStreams, VoiceStates
  <2>2. \/ groupTab' = groupTab \/ groupTab' = LoggedOut(groupTab) \/ groupTab' = Without(groupTab, t, v)
        \/ groupTab' = [Without(groupTab, t, v) EXCEPT !.shown = @ \cup {Bubble(t, v, TRUE)}]
    BY <1>7 DEF VoiceDelta, VoiceEnds, VoiceBreaks, KeepReplyFails
  <2>3. Without(groupTab, t, v) \in TabStates
    BY TabsStay, InvTypes
  <2>4. Without(groupTab, t, v).shown \cup {Bubble(t, v, TRUE)} \in SUBSET Bubbles
    <3>1. Bubble(t, v, TRUE) \in Bubbles
      BY DEF Bubble, Bubbles
    <3> DEFINE w == Without(groupTab, t, v)
    <3>2. w \in TabStates
      BY <2>3
    <3> HIDE DEF w
    <3>3. w.shown \in SUBSET Bubbles
      BY <3>2 DEF TabStates
    <3> QED
      BY <3>1, <3>3 DEF w
  <2>5. groupTab' \in TabStates
    BY <2>2, <2>3, <2>4, TabsStay, InvTypes
  <2>6. MoveOK(groupMove')
    BY <2>1, InvTypes
  <2> QED
    BY <2>1, <2>5, <2>6, VoiceSays, RoundsRest
<1>8. ASSUME NEW t \in Rounds, NEW v \in Voices, KeepReply(t, v)
      PROVE  GroupInv'
  <2>1. /\ groupVoice[t][v] = "keeping" /\ groupFile[groupRound[t].at].kept
        /\ groupFile' = WithMessage(groupRound[t].at, GroupMessage(t, v))
        /\ Says(t, v, "over") /\ UNCHANGED <<groupTab, groupRound, groupMove>>
    BY <1>8 DEF KeepReply, Kept
  <2>2. /\ groupVoice' \in [Rounds -> [Voices -> VoiceStates]] /\ groupRound[t].phase = "speaking"
        /\ \A u \in Rounds, w \in Voices : groupVoice'[u][w] = groupVoice[u][w] \/ groupRound[u].phase = "speaking"
    BY <2>1, VoiceSays DEF VoiceStates
  <2>3. t > 0 => \E j \in DOMAIN groupFile[groupRound[t].at].messages :
                    groupFile[groupRound[t].at].messages[j] = GroupMessage(t, You)
    BY <2>1, <2>2 DEF GroupInv, QuestionStored
  <2>4. \A u \in Rounds, w \in Voices : groupRound'[u].phase # "speaking" => groupVoice'[u][w] \in {"none", "over", "failed"}
    BY <2>1, <2>2, InvTypes
  <2>5. groupTab' \in TabStates /\ RoundsOK(groupRound') /\ MoveOK(groupMove')
    BY <2>1, InvTypes
  <2>6. \A u \in Rounds : groupRound'[u].at = groupRound[u].at /\ groupRound'[u].phase = groupRound[u].phase
    BY <2>1
  <2>7. v \in Voices \cup {You} /\ groupRound[t].phase # "idle"
    BY <2>2
  <2>8. groupFile' = WithMessage(groupRound[t].at, GroupMessage(t, v))
    BY <2>1
  <2> QED
    <3>1. LET g == groupRound[t].at
          IN  /\ groupFile' = WithMessage(g, GroupMessage(t, v))
              /\ v # You /\ t > 0 => \E j \in DOMAIN groupFile[g].messages :
                                         groupFile[g].messages[j] = GroupMessage(t, You)
      BY <2>3, <2>8
    <3>2. \A u \in Rounds : groupRound'[u].phase \in {"scheduling", "speaking"} =>
                               groupRound[u].phase \in {"scheduling", "speaking"} \/ (u = t /\ v = You)
      BY <2>6
    <3>3. \A u \in Rounds : groupRound'[u].at = groupRound[u].at /\ (groupRound[u].phase # "idle" => groupRound'[u].phase # "idle")
      BY <2>6
    <3> QED
      BY <2>2, <2>4, <2>5, <2>7, <3>1, <3>2, <3>3, MessageJoins
<1>9. CASE StopGroup \/ (\E g \in Groups : OpenGroup(g) \/ DeleteGroup(g)) \/ ReadGroup \/ ShowGroup \/ UNCHANGED groupVars
  <2>1. UNCHANGED <<groupFile, groupVoice>> /\ (groupRound' = groupRound \/ groupRound' = AbortedBy(groupTab, groupRound))
    BY <1>9 DEF StopGroup, OpenGroup, DeleteGroup, ReadGroup, ShowGroup, groupVars
  <2>2. MoveOK(groupMove')
    <3>1. MoveOK(groupMove) /\ MoveOK(NoMove)
      BY InvTypes DEF NoMove, MoveOK, Places
    <3>2. CASE \E g \in Groups : OpenGroup(g) \/ DeleteGroup(g)
      <4>1. PICK g \in Groups : OpenGroup(g) \/ DeleteGroup(g)
        BY <3>2
      <4>2. CASE OpenGroup(g)
        <5>1. groupMove' = [NoMove EXCEPT !.what = "open", !.id = g]
          BY <4>2 DEF OpenGroup
        <5> QED
          BY <5>1 DEF NoMove, MoveOK, Places
      <4>3. CASE DeleteGroup(g)
        <5>1. PICK seen \in BOOLEAN : groupMove' = [NoMove EXCEPT !.what = "delete", !.id = g, !.seen = seen]
          BY <4>3 DEF DeleteGroup
        <5> QED
          BY <5>1 DEF NoMove, MoveOK, Places
      <4> QED
        BY <4>1, <4>2, <4>3
    <3>3. CASE ReadGroup
      <4>1. CASE groupMove' = NoMove
        BY <3>1, <4>1
      <4>2. CASE groupMove' # NoMove
        <5> DEFINE g == groupMove.id
                   msgs == groupFile[g].messages
                   read == {Bubble(m.round, m.by, TRUE) : m \in {msgs[i] : i \in DOMAIN msgs}}
        <5>1. groupMove' = [groupMove EXCEPT !.what = "show", !.read = read] /\ g \in Groups
          BY <3>1, <3>3, <4>2 DEF ReadGroup, MoveOK
        <5>2. \A i \in DOMAIN msgs : msgs[i] \in Messages
          <6>1. msgs \in Seq(Messages)
            BY <5>1 DEF GroupInv, GroupTypeOK
          <6> QED
            BY <6>1, ElementOfSeq, LenProperties
        <5>3. read \in SUBSET Bubbles
          <6>1. \A m \in Messages : Bubble(m.round, m.by, TRUE) \in Bubbles
            BY DEF Bubble, Bubbles, Messages
          <6> HIDE DEF msgs
          <6> QED
            BY <5>2, <6>1
        <5> HIDE DEF g, read
        <5>4. groupMove' \in [what : {"none", "open", "show", "delete"}, id : Places, read : SUBSET Bubbles, seen : BOOLEAN]
              /\ groupMove'.id = groupMove.id
          BY <3>1, <5>1, <5>3 DEF MoveOK
        <5> QED
          BY <5>1, <5>4 DEF MoveOK, g
      <4> QED
        BY <4>1, <4>2
    <3> QED
      BY <1>9, <3>1, <3>2, <3>3 DEF StopGroup, ShowGroup, groupVars
  <2>3. groupTab' \in TabStates
    <3>1. CASE ShowGroup
      <4>1. groupTab' = [groupTab EXCEPT !.at = groupMove.id, !.shown = groupMove.read]
        BY <3>1 DEF ShowGroup
      <4> QED
        BY <4>1, TabsStay, InvTypes DEF MoveOK
    <3> QED
      BY <1>9, <3>1, InvTypes DEF StopGroup, OpenGroup, DeleteGroup, ReadGroup, groupVars
  <2> QED
    BY <2>1, <2>2, <2>3, RoundsRest, InvTypes
<1>10. CASE GroupDeleted
  <2>1. MoveOK(groupMove') /\ UNCHANGED <<groupRound, groupVoice>> /\ groupMove.id \in Groups
    BY <1>10, InvTypes DEF GroupDeleted, NoMove, MoveOK, Places
  <2>2. groupTab' \in TabStates
    <3>1. Nowhere \in Places /\ {} \in SUBSET Bubbles /\ groupTab \in TabStates
      BY InvTypes DEF Places
    <3>2. [groupTab EXCEPT !.at = Nowhere, !.shown = {}] \in TabStates
      BY <3>1, TabsStay
    <3>3. groupTab' = groupTab \/ groupTab' = [groupTab EXCEPT !.at = Nowhere, !.shown = {}]
      BY <1>10 DEF GroupDeleted
    <3> QED
      BY <3>1, <3>2, <3>3
  <2>3. CASE UNCHANGED groupFile
    BY <2>1, <2>2, <2>3, RoundsRest, InvTypes
  <2>4. CASE groupFile' = [groupFile EXCEPT ![groupMove.id] = [kept |-> FALSE, messages |-> <<>>]]
    <3> DEFINE g == groupMove.id
               none == <<>>
    <3>1. none \in Seq(Messages) /\ DOMAIN none = {}
      BY EmptySeq
    <3> HIDE DEF none
    <3>2. groupFile' = [groupFile EXCEPT ![g] = [kept |-> FALSE, messages |-> none]]
      BY <2>4 DEF none
    <3>3. /\ groupFile' \in [Groups -> [kept : BOOLEAN, messages : Seq(Messages)]]
          /\ ~groupFile'[g].kept /\ DOMAIN groupFile'[g].messages = {}
          /\ \A h \in Groups : h # g => groupFile'[h] = groupFile[h]
      BY <2>1, <3>1, <3>2 DEF GroupInv, GroupTypeOK
    <3> HIDE DEF g
    <3>4. GroupTypeOK'
      BY <2>1, <2>2, <3>3, InvTypes DEF GroupTypeOK
    <3>5. MessagesBelong'
      <4>1. ASSUME NEW h \in Groups, NEW i \in DOMAIN groupFile'[h].messages
            PROVE  LET m == groupFile'[h].messages[i]
                   IN  /\ groupRound'[m.round].at = h /\ groupRound'[m.round].phase # "idle"
                       /\ m.by # You /\ m.round > 0 =>
                            \E j \in 1 .. i - 1 : groupFile'[h].messages[j] = GroupMessage(m.round, You)
        <5>1. h # g /\ groupFile'[h] = groupFile[h] /\ groupRound' = groupRound
          BY <2>1, <3>3
        <5> QED
          BY <5>1 DEF GroupInv, MessagesBelong
      <4> QED
        BY <4>1 DEF MessagesBelong
    <3>6. QuestionStored'
      <4>1. \A t \in Rounds : groupRound[t].phase \in {"scheduling", "speaking"} => groupRound[t].at \in Groups
        BY InvTypes DEF RoundsOK
      <4> QED
        BY <2>1, <3>3, <4>1 DEF GroupInv, QuestionStored
    <3>7. QuietOutsideSpeaking'
      BY <2>1 DEF GroupInv, QuietOutsideSpeaking
    <3> QED
      BY <3>4, <3>5, <3>6, <3>7 DEF GroupInv
  <2> QED
    BY <1>10, <2>3, <2>4 DEF GroupDeleted
<1>11. \A t \in 1 .. MaxTurns : t \in Rounds /\ t > 0
  BY RoundsAre
<1> QED
  BY <1>1, <1>2, <1>3, <1>4, <1>5, <1>6, <1>7, <1>8, <1>9, <1>10, <1>11 DEF GroupNext, RoundStep

LEMMA GroupStarts == GroupInit => GroupInv
<1> SUFFICES ASSUME GroupInit PROVE GroupInv
  OBVIOUS
<1>1. NewGroup \in Groups /\ 0 \in Rounds
  BY GroupAssumption, RoundsAre
<1>2. <<>> \in Seq(Messages)
  BY EmptySeq
<1>3. groupFile \in [Groups -> [kept : BOOLEAN, messages : Seq(Messages)]] /\ \A g \in Groups : groupFile[g].messages = <<>>
  BY <1>2 DEF GroupInit
<1>4. /\ groupTab \in TabStates /\ RoundsOK(groupRound) /\ MoveOK(groupMove)
      /\ groupVoice \in [Rounds -> [Voices -> VoiceStates]]
  BY <1>1 DEF GroupInit, TabStates, RoundsOK, MoveOK, NoMove, Places, Phases, VoiceStates
<1>5. MessagesBelong
  BY <1>3 DEF MessagesBelong
<1>6. QuestionStored /\ QuietOutsideSpeaking
  BY DEF GroupInit, QuestionStored, QuietOutsideSpeaking, Rounds
<1> QED
  BY <1>3, <1>4, <1>5, <1>6 DEF GroupInv, GroupTypeOK

(***************************************************************************)
(* Replies are stored in the conversation of their question and after it   *)
(* (hooks/use-conversation-state.ts, runGroupTurn), for any number of      *)
(* conversations, voices and turns.                                        *)
(***************************************************************************)
THEOREM GroupRepliesBelong == GroupSpec => []RepliesFollowQuestions
<1>1. GroupInit => GroupInv
  BY GroupStarts
<1>2. GroupInv /\ [GroupNext]_groupVars => GroupInv'
  BY GroupStep
<1>3. GroupInv => RepliesFollowQuestions
  BY DEF GroupInv, MessagesBelong, RepliesFollowQuestions
<1> QED
  BY <1>1, <1>2, <1>3, PTL DEF GroupSpec

-----------------------------------------------------------------------------
(* Empty bubbles. *)

Empty(t, v) == Bubble(t, v, FALSE)

\* An empty bubble of a turn waits for a speaker that is about to talk, or has
\* failed and will be cleaned up; what is read from the file is full.
BubblesInv ==
  /\ \A b \in groupTab.shown : b.round > 0 /\ ~b.full =>
       /\ groupRound[b.round].phase = "speaking" /\ b.by \in Voices
       /\ groupVoice[b.round][b.by] \in {"silent", "failed"}
  /\ \A b \in groupMove.read : b.full

\* Steps after which the empty bubbles on screen are some of those before.
LEMMA BubblesRest ==
  ASSUME GroupInv, BubblesInv, groupTab' \in TabStates,
         \A b \in groupTab'.shown : ~b.full => b \in groupTab.shown,
         \A t \in Rounds : t > 0 /\ groupRound[t].phase = "speaking" =>
           \/ groupRound'[t].phase = "speaking"
           \/ \A b \in groupTab'.shown : b.round = t => b.full,
         \A t \in Rounds, v \in Voices : t > 0 /\ groupVoice[t][v] \in {"silent", "failed"} =>
           groupVoice'[t][v] \in {"silent", "failed"} \/ Empty(t, v) \notin groupTab'.shown,
         \A b \in groupMove'.read : b.full
  PROVE  BubblesInv'
<1>1. ASSUME NEW b \in groupTab'.shown, b.round > 0, ~b.full
      PROVE  /\ groupRound'[b.round].phase = "speaking" /\ b.by \in Voices
             /\ groupVoice'[b.round][b.by] \in {"silent", "failed"}
  <2>1. b \in groupTab.shown /\ b \in Bubbles /\ b.round \in Rounds /\ b.full = FALSE
    BY <1>1 DEF TabStates, Bubbles
  <2>2. b = Empty(b.round, b.by)
    BY <2>1 DEF Empty, Bubble, Bubbles
  <2>3. /\ groupRound[b.round].phase = "speaking" /\ b.by \in Voices
        /\ groupVoice[b.round][b.by] \in {"silent", "failed"}
    BY <1>1, <2>1 DEF BubblesInv
  <2> QED BY <1>1, <2>1, <2>2, <2>3
<1> QED BY <1>1 DEF BubblesInv

LEMMA PhasesAfter ==
  ASSUME GroupInv, NEW t \in Rounds, NEW phase, NEW r,
         r = groupRound \/ r = AbortedBy(groupTab, groupRound)
  PROVE  \A u \in Rounds : u # t => [r EXCEPT ![t].phase = phase][u].phase = groupRound[u].phase
BY AbortKeeps, InvTypes DEF RoundsOK

\* A round ends, or goes on to another phase, when it is not speaking.
LEMMA BubblesPhase ==
  ASSUME GroupInv, BubblesInv, NEW t \in Rounds, groupRound[t].phase # "speaking",
         NEW phase, NEW r, r = groupRound \/ r = AbortedBy(groupTab, groupRound),
         groupRound' = [r EXCEPT ![t].phase = phase], groupTab' \in TabStates,
         groupTab'.shown \subseteq groupTab.shown, UNCHANGED <<groupVoice, groupMove>>
  PROVE  BubblesInv'
<1>1. \A u \in Rounds : groupRound[u].phase = "speaking" => groupRound'[u].phase = "speaking"
  BY PhasesAfter
<1>2. \A b \in groupMove'.read : b.full
  BY DEF BubblesInv
<1> QED BY <1>1, <1>2, BubblesRest

LEMMA ShownAre ==
  ASSUME NEW tab \in TabStates
  PROVE  /\ LoggedOut(tab).shown = {}
         /\ \A t, ok : LeftTurn(tab, t, ok).shown = tab.shown
         /\ \A s : [tab EXCEPT !.shown = s].shown = s
BY DEF LoggedOut, LeftTurn, TabStates

LEMMA BubblesFail ==
  ASSUME GroupInv, GroupInv', BubblesInv, NEW t \in Rounds, groupRound[t].phase # "speaking",
         FailGroupRound(t) \/ GroupReloaded(t), UNCHANGED <<groupVoice, groupMove>>
  PROVE  BubblesInv'
<1>1. PICK expired \in BOOLEAN, ok \in BOOLEAN :
        /\ groupTab' = LeftTurn(IF expired THEN LoggedOut(groupTab) ELSE groupTab, t, ok)
        /\ groupRound' = [(IF expired THEN AbortedBy(groupTab, groupRound) ELSE groupRound) EXCEPT ![t].phase = "over"]
  BY DEF FailGroupRound, GroupReloaded
<1>2. groupTab'.shown \subseteq groupTab.shown /\ groupTab' \in TabStates
  <2>1. groupTab' \in TabStates
    BY InvTypes DEF GroupInv, GroupTypeOK
  <2>2. groupTab \in TabStates /\ LoggedOut(groupTab) \in TabStates
    BY TabsStay, InvTypes
  <2>3. /\ LeftTurn(groupTab, t, ok).shown = groupTab.shown
        /\ LeftTurn(LoggedOut(groupTab), t, ok).shown = {}
    BY <2>2, ShownAre
  <2> QED BY <1>1, <2>1, <2>3
<1>3. PICK r \in {groupRound, AbortedBy(groupTab, groupRound)} : groupRound' = [r EXCEPT ![t].phase = "over"]
  BY <1>1
<1> QED BY <1>2, <1>3, BubblesPhase

LEMMA BubblesStep ==
  ASSUME GroupInv, GroupInv', BubblesInv, [GroupNext]_groupVars
  PROVE  BubblesInv'
<1>0. groupTab \in TabStates /\ groupTab' \in TabStates /\ RoundsOK(groupRound)
      /\ groupVoice \in [Rounds -> [Voices -> VoiceStates]]
  BY DEF GroupInv, GroupTypeOK
<1>1. ASSUME NEW t \in Rounds, t > 0, AskGroup(t)
      PROVE  BubblesInv'
  <2>1. PICK asked : groupRound' = [groupRound EXCEPT ![t] = asked]
    BY <1>1 DEF AskGroup
  <2>2. groupRound[t].phase = "idle" /\ UNCHANGED <<groupVoice, groupMove>>
        /\ groupTab' = [groupTab EXCEPT !.shown = groupTab.shown \cup {Bubble(t, You, TRUE)}, !.pending = TRUE, !.abort = t]
    BY <1>1 DEF AskGroup
  <2>3. groupTab'.shown = groupTab.shown \cup {Bubble(t, You, TRUE)} /\ Bubble(t, You, TRUE).full
    BY <1>0, <2>2 DEF TabStates, Bubble
  <2>4. \A u \in Rounds : groupRound[u].phase = "speaking" => groupRound'[u].phase = "speaking"
    BY <1>0, <2>1, <2>2 DEF RoundsOK
  <2>5. \A b \in groupMove'.read : b.full
    BY <2>2 DEF BubblesInv
  <2> QED BY <1>0, <2>2, <2>3, <2>4, <2>5, BubblesRest
<1>2. ASSUME NEW t \in Rounds, SaveGroupQuestion(t)
      PROVE  BubblesInv'
  <2>1. /\ groupRound' = [groupRound EXCEPT ![t].phase = "scheduling"] /\ groupRound[t].phase # "speaking"
        /\ groupTab' = groupTab /\ UNCHANGED <<groupVoice, groupMove>>
    BY <1>2 DEF SaveGroupQuestion
  <2> QED BY <1>0, <2>1, BubblesPhase
<1>3. ASSUME NEW t \in Rounds, SaveGroupQuestionFails(t) \/ ScheduleFails(t) \/ GroupReloaded(t)
      PROVE  BubblesInv'
  <2>1. groupRound[t].phase # "speaking" /\ (FailGroupRound(t) \/ GroupReloaded(t)) /\ UNCHANGED <<groupVoice, groupMove>>
    BY <1>3 DEF SaveGroupQuestionFails, ScheduleFails, GroupReloaded
  <2> QED BY <2>1, BubblesFail
<1>4. ASSUME NEW t \in Rounds, ScheduleArrives(t)
      PROVE  BubblesInv'
  <2>1. PICK chosen \in SUBSET Voices :
          /\ groupTab' = [groupTab EXCEPT !.shown = groupTab.shown \cup {Empty(t, v) : v \in chosen}]
          /\ groupVoice' = [groupVoice EXCEPT ![t] = [v \in Voices |-> IF v \in chosen THEN "silent" ELSE "none"]]
    BY <1>4 DEF ScheduleArrives, Empty
  <2>2. groupRound' = [groupRound EXCEPT ![t].phase = "speaking"] /\ groupRound[t].phase = "scheduling" /\ UNCHANGED groupMove
    BY <1>4 DEF ScheduleArrives
  <2>3. groupTab'.shown = groupTab.shown \cup {Empty(t, v) : v \in chosen}
    BY <1>0, <2>1, ShownAre
  <2>4. groupRound'[t].phase = "speaking" /\ \A u \in Rounds : u # t => groupRound'[u] = groupRound[u]
    BY <1>0, <2>2 DEF RoundsOK
  <2>5. \A v \in chosen : groupVoice'[t][v] = "silent"
    BY <1>0, <2>1
  <2>6. \A u \in Rounds : u # t => groupVoice'[u] = groupVoice[u]
    BY <1>0, <2>1
  <2>7. ASSUME NEW b \in groupTab'.shown, b.round > 0, ~b.full
        PROVE  /\ groupRound'[b.round].phase = "speaking" /\ b.by \in Voices
               /\ groupVoice'[b.round][b.by] \in {"silent", "failed"}
    <3>1. CASE b \in groupTab.shown
      <4>1. /\ groupRound[b.round].phase = "speaking" /\ b.by \in Voices /\ b.round \in Rounds
            /\ groupVoice[b.round][b.by] \in {"silent", "failed"}
        BY <1>0, <2>7, <3>1 DEF BubblesInv, TabStates, Bubbles
      <4> QED BY <2>2, <2>4, <2>6, <4>1
    <3>2. CASE \E v \in chosen : b = Empty(t, v)
      <4>1. PICK v \in chosen : b = Empty(t, v)
        BY <3>2
      <4>2. b.round = t /\ b.by = v
        BY <4>1 DEF Empty, Bubble
      <4> QED BY <2>4, <2>5, <4>2
    <3> QED BY <2>3, <2>7, <3>1, <3>2
  <2> QED BY <2>2, <2>7 DEF BubblesInv
<1>5. ASSUME NEW t \in Rounds, AllSettled(t)
      PROVE  BubblesInv'
  <2>1. PICK phase \in {"over", "reloading"} : groupRound' = [groupRound EXCEPT ![t].phase = phase]
    BY <1>5 DEF AllSettled
  <2>2. /\ groupRound[t].phase = "speaking" /\ \A v \in Voices : groupVoice[t][v] \in {"none", "over", "failed"}
        /\ UNCHANGED <<groupVoice, groupMove>>
    BY <1>5 DEF AllSettled
  <2>3. groupTab'.shown = Cleaned(t).shown
    <3>1. Cleaned(t) \in TabStates
      <4>1. {b \in groupTab.shown : b.round # t \/ b.full} \in SUBSET Bubbles
        BY <1>0 DEF TabStates
      <4> QED BY <1>0, <4>1, TabsStay DEF Cleaned
    <3>2. LeftTurn(Cleaned(t), t, FALSE).shown = Cleaned(t).shown
      BY <3>1 DEF LeftTurn, TabStates
    <3> QED BY <1>5, <3>2 DEF AllSettled
  <2>4. groupTab'.shown \subseteq groupTab.shown /\ \A b \in groupTab'.shown : t > 0 /\ b.round = t => b.full
    <3>1. CASE FailedVoices(t) # {}
      <4>1. groupTab'.shown = {b \in groupTab.shown : b.round # t \/ b.full}
        BY <1>0, <2>3, <3>1, ShownAre DEF Cleaned
      <4> QED BY <4>1
    <3>2. CASE FailedVoices(t) = {}
      <4>1. groupTab'.shown = groupTab.shown
        BY <2>3, <3>2 DEF Cleaned
      <4>2. \A v \in Voices : groupVoice[t][v] \notin {"silent", "failed"}
        BY <2>2, <3>2 DEF FailedVoices
      <4> QED BY <4>1, <4>2 DEF BubblesInv
    <3> QED BY <3>1, <3>2
  <2>5. \A u \in Rounds : u # t => groupRound'[u].phase = groupRound[u].phase
    BY <2>1, PhasesAfter
  <2>6. \A b \in groupMove'.read : b.full
    BY <2>2 DEF BubblesInv
  <2> QED BY <1>0, <2>2, <2>4, <2>5, <2>6, BubblesRest
<1>6. ASSUME NEW t \in Rounds, NEW v \in Voices,
             VoiceDelta(t, v) \/ VoiceEnds(t, v) \/ VoiceBreaks(t, v) \/ KeepReply(t, v) \/ KeepReplyFails(t, v)
      PROVE  BubblesInv'
  <2>1. groupMove' = groupMove /\ (groupRound' = groupRound \/ groupRound' = AbortedBy(groupTab, groupRound))
    BY <1>6 DEF VoiceDelta, VoiceEnds, VoiceBreaks, KeepReply, KeepReplyFails
  <2>2. \A u \in Rounds : groupRound'[u].phase = groupRound[u].phase
    BY <1>0, <2>1, AbortKeeps
  <2>3. PICK state \in VoiceStates : Says(t, v, state)
    BY <1>6 DEF VoiceDelta, VoiceEnds, VoiceBreaks, KeepReply, KeepReplyFails, VoiceStates
  <2>4. groupVoice'[t][v] = state
        /\ \A u \in Rounds, w \in Voices : u # t \/ w # v => groupVoice'[u][w] = groupVoice[u][w]
    BY <1>0, <2>3 DEF Says
  <2>5. /\ Without(groupTab, t, v).shown = groupTab.shown \ {Bubble(t, v, TRUE), Empty(t, v)}
        /\ Bubble(t, v, TRUE).full /\ Bubble(t, v, TRUE) # Empty(t, v)
        /\ LoggedOut(groupTab).shown = {}
        /\ Without(groupTab, t, v) \in TabStates
    BY <1>0, ShownAre, TabsStay DEF Without, Empty, Bubble
  <2>6. CASE VoiceDelta(t, v)
    <3>1. Empty(t, v) \notin groupTab'.shown
          /\ \A b \in groupTab'.shown : ~b.full => b \in groupTab.shown
      <4>1. CASE Empty(t, v) \notin groupTab.shown
        BY <2>6, <4>1 DEF VoiceDelta, Empty
      <4>2. CASE Empty(t, v) \in groupTab.shown
        <5>1. groupTab' = [Without(groupTab, t, v) EXCEPT !.shown = Without(groupTab, t, v).shown \cup {Bubble(t, v, TRUE)}]
          BY <2>6, <4>2 DEF VoiceDelta, Empty
        <5>2. groupTab'.shown = Without(groupTab, t, v).shown \cup {Bubble(t, v, TRUE)}
          BY <2>5, <5>1, ShownAre
        <5> QED BY <2>5, <5>2
      <4> QED BY <4>1, <4>2
    <3> QED BY <1>0, <2>1, <2>2, <2>4, <3>1, BubblesRest DEF BubblesInv
  <2>7. CASE ~VoiceDelta(t, v)
    <3>1. /\ groupTab'.shown \subseteq groupTab.shown
          /\ t > 0 /\ groupVoice[t][v] \in {"silent", "failed"} => state = "failed"
      <4>1. groupTab' = groupTab \/ groupTab' = LoggedOut(groupTab) \/ groupTab' = Without(groupTab, t, v)
        BY <1>6, <2>7 DEF VoiceEnds, VoiceBreaks, KeepReply, KeepReplyFails
      <4>2. t > 0 /\ groupVoice[t][v] \in {"silent", "failed"} => Says(t, v, "failed")
        BY <1>6, <2>7 DEF VoiceEnds, VoiceBreaks, KeepReply, KeepReplyFails, StillStreams
      <4>3. \A s : Says(t, v, s) => groupVoice'[t][v] = s
        BY <1>0 DEF Says
      <4> QED BY <2>4, <2>5, <4>1, <4>2, <4>3
    <3> QED BY <1>0, <2>1, <2>2, <2>4, <3>1, BubblesRest DEF BubblesInv
  <2> QED BY <2>6, <2>7
<1>7. CASE StopGroup \/ (\E g \in Groups : OpenGroup(g) \/ DeleteGroup(g)) \/ ReadGroup \/ ShowGroup \/ GroupDeleted
           \/ UNCHANGED groupVars
  <2>1. groupVoice' = groupVoice /\ (groupRound' = groupRound \/ groupRound' = AbortedBy(groupTab, groupRound))
    BY <1>7 DEF StopGroup, OpenGroup, DeleteGroup, ReadGroup, ShowGroup, GroupDeleted, groupVars
  <2>2. \A u \in Rounds : groupRound'[u].phase = groupRound[u].phase
    BY <1>0, <2>1, AbortKeeps
  <2>3. \A b \in groupMove'.read : b.full
    <3>1. NoMove.read = {} /\ \A b \in groupMove.read : b.full
      BY DEF NoMove, BubblesInv
    <3>2. CASE ReadGroup
      <4> DEFINE msgs == groupFile[groupMove.id].messages
                 read == {Bubble(m.round, m.by, TRUE) : m \in {msgs[i] : i \in DOMAIN msgs}}
      <4>1. groupMove' = NoMove \/ groupMove' = [groupMove EXCEPT !.what = "show", !.read = read]
        BY <3>2 DEF ReadGroup
      <4>2. \A b \in read : b.full
        BY DEF Bubble
      <4> HIDE DEF read
      <4>3. [groupMove EXCEPT !.what = "show", !.read = read].read = read
        BY InvTypes DEF MoveOK
      <4> QED BY <3>1, <4>1, <4>2, <4>3
    <3>3. CASE \E g \in Groups : OpenGroup(g) \/ DeleteGroup(g)
      <4>1. groupMove'.read = {}
        BY <3>3 DEF OpenGroup, DeleteGroup, NoMove
      <4> QED BY <4>1
    <3> QED BY <1>7, <3>1, <3>2, <3>3 DEF StopGroup, ShowGroup, GroupDeleted, groupVars
  <2>4. \A b \in groupTab'.shown : ~b.full => b \in groupTab.shown
    <3>1. CASE ShowGroup
      <4>1. groupTab' = [groupTab EXCEPT !.at = groupMove.id, !.shown = groupMove.read]
        BY <3>1 DEF ShowGroup
      <4>2. groupTab'.shown = groupMove.read
        BY <1>0, <4>1 DEF TabStates
      <4> QED BY <4>2 DEF BubblesInv
    <3>2. CASE GroupDeleted
      <4>1. groupTab' = groupTab \/ groupTab' = [groupTab EXCEPT !.at = Nowhere, !.shown = {}]
        BY <3>2 DEF GroupDeleted
      <4>2. groupTab'.shown \in {groupTab.shown, {}}
        BY <1>0, <4>1 DEF TabStates
      <4> QED BY <4>2
    <3> QED BY <1>7, <3>1, <3>2 DEF StopGroup, OpenGroup, DeleteGroup, ReadGroup, groupVars
  <2> QED BY <1>0, <2>1, <2>2, <2>3, <2>4, BubblesRest
<1>8. \A t \in 1 .. MaxTurns : t \in Rounds /\ t > 0
  BY RoundsAre
<1> QED
  BY <1>1, <1>2, <1>3, <1>4, <1>5, <1>6, <1>7, <1>8 DEF GroupNext, RoundStep

(***************************************************************************)
(* A turn that is over leaves no empty bubble on screen, however its       *)
(* speakers ended and whatever conversations were opened, deleted or left  *)
(* meanwhile (the finally of runGroupTurn and the clean-up before it).     *)
(***************************************************************************)
THEOREM GroupNoEmptyBubble == GroupSpec => []NoEmptyBubbleLeft
<1>1. GroupInit => GroupInv /\ BubblesInv
  <2>1. GroupInit => BubblesInv
    BY DEF GroupInit, BubblesInv, NoMove
  <2> QED BY <2>1, GroupStarts
<1>2. GroupInv /\ BubblesInv /\ [GroupNext]_groupVars => GroupInv' /\ BubblesInv'
  BY GroupStep, BubblesStep
<1>3. BubblesInv => NoEmptyBubbleLeft
  BY DEF BubblesInv, NoEmptyBubbleLeft
<1> QED
  BY <1>1, <1>2, <1>3, PTL DEF GroupSpec
=============================================================================
