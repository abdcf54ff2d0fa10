------------------------------ MODULE Account ------------------------------
(***************************************************************************)
(* Logging in, calling and logging out: the cookies of one browser         *)
(* (lib/session.ts), its tabs (hooks/use-account-state.ts over             *)
(* lib/account.ts), the auth and account routes, the shared discovery of   *)
(* lib/oidc.ts and the error classes of the gateway client.  Sealing,      *)
(* PKCE and the ID token are external: the provider accepts a code once,   *)
(* for the transaction it was made for.                                    *)
(***************************************************************************)
EXTENDS Naturals, FiniteSets

CONSTANTS
  Tabs,
  AccountCalls,       \* slots for requests in flight: 1, 2, ...
  PageRoutes,      \* what a page calls: "store", "mapped", "quota", "embed", "logout"
  MaxLogins,   \* login transactions, numbered from 1
  MaxFaults,   \* bound: lost replies, restarts, revocations and expiries
  Upstream     \* statuses the gateway may answer, 0 for no answer

ASSUME AccountAssumption == MaxLogins \in Nat \ {0} /\ MaxFaults \in Nat /\ {200, 401} \subseteq Upstream /\ Upstream \subseteq Nat

VARIABLES
  accJar,        \* the cookies: number of the login, 0 when absent
  accTab,        \* each tab: what it shows, and of which login
  accCall,       \* requests, with the cookies they were sent with
  accLogin,      \* each login: its transaction, its code, its session
  accDiscovery,  \* cachedOidcConfig
  accTold,       \* what the browser has been told: refused and ended logins
  accFaults      \* how many faults there have been
accountVars == <<accJar, accTab, accCall, accLogin, accDiscovery, accTold, accFaults>>

Logins == 1 .. MaxLogins
NoLogin == 0

\* An answer: its status, the cookies it clears, the one it sets.
Answer(status, clear, cookie, n) == [status |-> status, clear |-> clear, cookie |-> cookie, login |-> n]
Clearing(status, clear) == Answer(status, clear, "none", NoLogin)
Plain(status) == Clearing(status, {})
Lost == Plain(0)
IdleCall == [stage |-> "idle", tab |-> "none", route |-> "none", session |-> NoLogin, login |-> NoLogin,
             code |-> NoLogin, answer |-> Lost]

AccountInit ==
  /\ accJar = [session |-> NoLogin, login |-> NoLogin]
  /\ accTab = [t \in Tabs |-> [view |-> "landing", login |-> NoLogin]]
  /\ accCall = [c \in AccountCalls |-> IdleCall]
  /\ accLogin = [n \in Logins |-> [tx |-> "new", code |-> "fresh", session |-> "none"]]
  /\ accDiscovery = "none"
  /\ accTold = [refused |-> {}, ended |-> {}]
  /\ accFaults = 0

Sent(t, route, code) ==
  [IdleCall EXCEPT !.stage = "sent", !.tab = t, !.route = route, !.code = code,
                   !.session = accJar.session, !.login = accJar.login]

\* A navigation drops the page and all it was waiting for.
Navigate(t, route, code, view) ==
  /\ accTab' = [accTab EXCEPT ![t] = [view |-> view, login |-> code]]
  /\ \E c \in AccountCalls :
       /\ accCall[c].tab \in {t, "none"} /\ \A d \in AccountCalls : d < c => accCall[d].tab \notin {t, "none"}
       /\ accCall' = [d \in AccountCalls |-> IF d = c THEN Sent(t, route, code)
                                      ELSE IF accCall[d].tab = t THEN IdleCall ELSE accCall[d]]
  /\ UNCHANGED <<accJar, accLogin, accDiscovery, accTold, accFaults>>

OpenPage(t) == accTab[t].view = "landing" /\ Navigate(t, "session", NoLogin, "loading")

ClickLogin(t) ==
  /\ accTab[t].view = "anonymous"
  /\ Cardinality({n \in Logins : accLogin[n].tx = "new"}) > Cardinality({c \in AccountCalls : accCall[c].route = "login"})
  /\ Navigate(t, "login", NoLogin, "leaving")

\* The provider sends the browser back, and again if the reply was lost.
ComeBack(t) == accTab[t].view = "provider" /\ Navigate(t, "callback", accTab[t].login, "returning")

CallRoute(t, route) ==
  /\ accTab[t].view = "authenticated"
  /\ \E c \in AccountCalls :
       /\ accCall[c].stage = "idle" /\ \A d \in AccountCalls : d < c => accCall[d].stage # "idle"
       /\ accCall' = [accCall EXCEPT ![c] = Sent(t, route, NoLogin)]
  /\ UNCHANGED <<accJar, accTab, accLogin, accDiscovery, accTold, accFaults>>

-----------------------------------------------------------------------------
(* The server. *)

\* The gateway's statuses by error code; no answer at all counts as unavailable.
Classify(status) ==
  CASE status = 401 -> "unauthenticated" [] status = 403 -> "forbidden" [] status = 404 -> "not_found"
    [] status = 402 -> "quota_exhausted" [] status = 429 -> "rate_limited" [] status = 504 -> "timeout"
    [] status \in {0, 502, 503} -> "upstream_unavailable" [] OTHER -> "invalid_response"

MapYanCoreError(status) ==
  CASE Classify(status) \in {"unauthenticated", "forbidden", "not_found", "quota_exhausted", "rate_limited", "timeout"}
         -> status
    [] status = 503 -> 503
    [] OTHER -> 502

\* Mutant of YanCoreErrorResponse: clearSession is not acted upon.
YanCoreErrorResponseKeeping(status) == Plain(MapYanCoreError(status))

YanCoreErrorResponse(status) ==
  Clearing(MapYanCoreError(status), IF Classify(status) = "unauthenticated" THEN {"session"} ELSE {})

ValidSession(call) == call.session # NoLogin /\ accLogin[call.session].session # "ended"

RequireAiSession(call, answer) == IF ValidSession(call) THEN answer ELSE Clearing(401, {"session"})

\* What each kind of route makes of the gateway's status: the account's own
\* routes, the grant of quota, the upload of a document.
GatewayRoutes == {"mapped", "quota", "embed"}
MeRoute(status) == IF status = 200 THEN Plain(200) ELSE YanCoreErrorResponse(status)
QuotaRoute(status) == Plain(CASE status \in {200, 409} -> status [] OTHER -> 502)
EmbedRoute(status) == Plain(IF status = 200 THEN 200 ELSE 400)
OnGateway(route, status) ==
  CASE route = "mapped" -> MeRoute(status)
    [] route = "quota" -> QuotaRoute(status)
    [] route = "embed" -> EmbedRoute(status)

AnswerCall(c, answer) ==
  /\ accCall' = [accCall EXCEPT ![c].stage = "answered", ![c].answer = answer]
  /\ UNCHANGED <<accJar, accTab, accTold>>

ServeLocal(c) ==
  /\ accCall[c].stage = "sent" /\ accCall[c].route \in {"session", "store"}
  /\ AnswerCall(c, RequireAiSession(accCall[c], Plain(200)))
  /\ UNCHANGED <<accLogin, accDiscovery, accFaults>>

\* What the gateway may say of a grant.
SaysOf(call) ==
  IF ValidSession(call) /\ accLogin[call.session].session = "refused" THEN {401} ELSE Upstream \ {401}

ServeGateway(c) ==
  /\ accCall[c].stage = "sent" /\ accCall[c].route \in GatewayRoutes
  /\ \E status \in SaysOf(accCall[c]) :
       AnswerCall(c, RequireAiSession(accCall[c], OnGateway(accCall[c].route, status)))
  /\ UNCHANGED <<accLogin, accDiscovery, accFaults>>

\* Mutant of LogoutAnswer: a login under way is left alone.
LogoutAnswerSessionOnly == Clearing(200, {"session"})

LogoutAnswer == Clearing(200, {"session", "login"})

ServeLogout(c) ==
  /\ accCall[c].stage = "sent" /\ accCall[c].route = "logout"
  /\ AnswerCall(c, LogoutAnswer)
  /\ UNCHANGED <<accLogin, accDiscovery, accFaults>>

ValidTransaction(call) == call.login # NoLogin /\ accLogin[call.login].tx = "begun"
LoginUnavailable == Plain(503)
LoginFailed == Clearing(302, {"login"})

\* Login and callback share one discovery; the first to need it starts it.
AwaitDiscovery(c) ==
  /\ accCall[c].stage = "sent" /\ accDiscovery # "loaded"
  /\ accCall[c].route = "login" \/ (accCall[c].route = "callback" /\ ValidTransaction(accCall[c]))
  /\ accDiscovery' = "loading"
  /\ accCall' = [accCall EXCEPT ![c].stage = "waiting"]
  /\ UNCHANGED <<accJar, accTab, accLogin, accTold, accFaults>>

\* A discovery that fails fails all that wait for it, and is forgotten.
DiscoverySettles ==
  /\ accDiscovery = "loading"
  /\ \E ok \in BOOLEAN :
       /\ accDiscovery' = IF ok THEN "loaded" ELSE "none"
       /\ accCall' = [c \in AccountCalls |->
            IF accCall[c].stage # "waiting" THEN accCall[c]
            ELSE IF ok THEN [accCall[c] EXCEPT !.stage = "sent"]
            ELSE [accCall[c] EXCEPT !.stage = "answered",
                    !.answer = IF accCall[c].route = "login" THEN LoginUnavailable ELSE LoginFailed]]
  /\ UNCHANGED <<accJar, accTab, accLogin, accTold, accFaults>>

ServeLogin(c) ==
  /\ accCall[c].stage = "sent" /\ accCall[c].route = "login" /\ accDiscovery = "loaded"
  /\ \E n \in Logins :
       /\ accLogin[n].tx = "new" /\ \A m \in 1 .. n - 1 : accLogin[m].tx # "new"
       /\ accLogin' = [accLogin EXCEPT ![n].tx = "begun"]
       /\ AnswerCall(c, Answer(302, {}, "login", n))
  /\ UNCHANGED <<accDiscovery, accFaults>>

\* Without its transaction a callback goes home and clears nothing.
ServeStrayCallback(c) ==
  /\ accCall[c].stage = "sent" /\ accCall[c].route = "callback" /\ ~ValidTransaction(accCall[c])
  /\ AnswerCall(c, Plain(302))
  /\ UNCHANGED <<accLogin, accDiscovery, accFaults>>

\* The state must be that of the cookie's transaction, the code unspent, and
\* the exchange for a grant may fail.
ServeCallback(c) ==
  LET n == accCall[c].login
      mine == accCall[c].code = n /\ accLogin[n].code = "fresh"
  IN  /\ accCall[c].stage = "sent" /\ accCall[c].route = "callback" /\ accDiscovery = "loaded"
      /\ ValidTransaction(accCall[c])
      /\ \/ /\ mine
            /\ accLogin' = [accLogin EXCEPT ![n].code = "spent", ![n].session = "open"]
            /\ AnswerCall(c, Answer(302, {"login"}, "session", n))
         \/ /\ accLogin' = IF mine THEN [accLogin EXCEPT ![n].code = "spent"] ELSE accLogin
            /\ AnswerCall(c, LoginFailed)
      /\ UNCHANGED <<accDiscovery, accFaults>>

-----------------------------------------------------------------------------
(* The browser. *)

Cookie(name, answer) ==
  IF answer.cookie = name THEN answer.login ELSE IF name \in answer.clear THEN NoLogin ELSE accJar[name]

\* A login is still on its way while a request or an answer carries it.
OnItsWay(n, calls) ==
  \E c \in calls : (accCall[c].route = "callback" /\ accCall[c].login = n) \/ accCall[c].answer.login = n

\* Mutant of ViewAfter: the page does not settle on an answer it cannot use.
ViewAfterSuccessOnly(call, tab) ==
  LET status == call.answer.status
  IN  CASE call.route = "session" /\ status = 200 -> [view |-> "authenticated", login |-> call.session]
        [] call.route = "session" /\ status = 401 -> [view |-> "anonymous", login |-> NoLogin]
        [] call.route = "login" -> IF status = 302 THEN [view |-> "provider", login |-> call.answer.login]
                                   ELSE [view |-> "landing", login |-> NoLogin]
        [] call.route = "callback" -> IF status = 0 THEN [tab EXCEPT !.view = "provider"]
                                      ELSE [view |-> "landing", login |-> NoLogin]
        [] call.route = "logout" -> [view |-> "anonymous", login |-> NoLogin]
        [] OTHER -> IF status = 401 THEN [view |-> "anonymous", login |-> NoLogin] ELSE tab

\* handleSessionExpired after a 401 of any route; logging out never fails.
ViewAfter(call, tab) ==
  LET status == call.answer.status
      Show(view, n) == [view |-> view, login |-> n]
  IN  CASE call.route = "session" -> IF status = 200 THEN Show("authenticated", call.session) ELSE Show("anonymous", NoLogin)
        [] call.route = "login" -> IF status = 302 THEN Show("provider", call.answer.login) ELSE Show("landing", NoLogin)
        [] call.route = "callback" -> IF status = 0 THEN Show("provider", tab.login) ELSE Show("landing", NoLogin)
        [] call.route = "logout" -> Show("anonymous", NoLogin)
        [] OTHER -> IF status = 401 THEN Show("anonymous", NoLogin) ELSE tab

Receive(c) ==
  LET call == accCall[c]
      answer == call.answer
  IN  /\ call.stage = "answered"
      /\ accJar' = [session |-> Cookie("session", answer), login |-> Cookie("login", answer)]
      /\ accTab' = [accTab EXCEPT ![call.tab] = ViewAfter(call, @)]
      /\ accCall' = [accCall EXCEPT ![c] = IdleCall]
      /\ accTold' = [refused |-> accTold.refused \cup (IF answer.status = 401 THEN {call.session} \ {NoLogin} ELSE {}),
                     ended |-> accTold.ended \cup
                       IF call.route = "logout" /\ answer.status = 200
                       THEN {n \in Logins : accLogin[n].tx # "new" /\ ~OnItsWay(n, AccountCalls)} ELSE {}]
      /\ UNCHANGED <<accLogin, accDiscovery, accFaults>>

-----------------------------------------------------------------------------
(* Faults and time. *)

Fault == accFaults < MaxFaults /\ accFaults' = accFaults + 1

LoseReply(c) ==
  /\ Fault
  /\ accCall[c].stage \in {"sent", "waiting"} \/ (accCall[c].stage = "answered" /\ accCall[c].answer # Lost)
  /\ AnswerCall(c, Lost)
  /\ UNCHANGED <<accLogin, accDiscovery>>

\* The sessions are in the cookies: a restart only loses the discovery.
RestartServer ==
  /\ Fault
  /\ accDiscovery # "none"
  /\ accDiscovery' = "none"
  /\ accCall' = [c \in AccountCalls |-> IF accCall[c].stage \in {"sent", "waiting"}
                                 THEN [accCall[c] EXCEPT !.stage = "answered", !.answer = Lost] ELSE accCall[c]]
  /\ UNCHANGED <<accJar, accTab, accLogin, accTold>>

\* Five minutes for a login, the grant's life for a session; a cookie goes
\* with what it holds.
Drop(cookie, n) == accJar' = [accJar EXCEPT ![cookie] = IF @ = n THEN NoLogin ELSE @]

TimePasses(n) ==
  /\ Fault
  /\ \/ /\ accLogin[n].tx = "begun"
        /\ accLogin' = [accLogin EXCEPT ![n].tx = "lapsed"] /\ Drop("login", n)
     \/ /\ accLogin[n].session \in {"open", "refused"}
        /\ accLogin' = [accLogin EXCEPT ![n].session = "ended"] /\ Drop("session", n)
  /\ UNCHANGED <<accTab, accCall, accDiscovery, accTold>>

RevokeGrant(n) ==
  /\ Fault
  /\ accLogin[n].session = "open"
  /\ accLogin' = [accLogin EXCEPT ![n].session = "refused"]
  /\ UNCHANGED <<accJar, accTab, accCall, accDiscovery, accTold>>

Serve(c) ==
  \/ ServeLocal(c) \/ ServeGateway(c) \/ ServeLogout(c) \/ AwaitDiscovery(c)
  \/ ServeLogin(c) \/ ServeStrayCallback(c) \/ ServeCallback(c)

AccountNext ==
  \/ \E t \in Tabs : \/ OpenPage(t) \/ ClickLogin(t) \/ ComeBack(t)
                     \/ \E route \in PageRoutes : CallRoute(t, route)
  \/ \E c \in AccountCalls : Serve(c) \/ Receive(c) \/ LoseReply(c)
  \/ DiscoverySettles \/ RestartServer
  \/ \E n \in Logins : TimePasses(n) \/ RevokeGrant(n)

\* The server answers (its own calls time out), the browser gets the answers.
AccountFairness ==
  /\ \A c \in AccountCalls : WF_accountVars(Serve(c)) /\ WF_accountVars(Receive(c))
  /\ WF_accountVars(DiscoverySettles)
AccountSpec == AccountInit /\ [][AccountNext]_accountVars /\ AccountFairness

-----------------------------------------------------------------------------
(***************************************************************************)
(* docs/gateway.md:51: who is not authenticated has the cookie cleared.    *)
(* Once any tab has been told 401 for a session, by the routes or for the  *)
(* gateway, no tab of the browser sends that session again.                *)
(***************************************************************************)
RefusedSessionGone == accJar.session \notin accTold.refused

(***************************************************************************)
(* Logging out ends the logins under way too: a login that another tab had *)
(* begun can log the browser in again only if its last step was already on *)
(* its way when the answer to the logout came in.                          *)
(***************************************************************************)
LogoutEndsLogins == accJar.session \notin accTold.ended

\* A page that is opened gets to know whether it is logged in.
NoTabLoadsForEver == \A t \in Tabs : accTab[t].view = "loading" ~> accTab[t].view # "loading"
=============================================================================
