--------------------------- MODULE ClientSession ---------------------------
(***************************************************************************)
(* A user's session as the web client keeps it.  Tabs of one browser share *)
(* the two cookies of server/auth-cookies.ts.  Requests of a page go       *)
(* through the routes under app/api/v1 to Go; services/api.v1.ts and       *)
(* AuthService.ts renew the session once for all the calls it refused, and *)
(* server/session.ts decides which page an address shows.                  *)
(*                                                                         *)
(* A session is its number: Go accepts the tokens of those in live.  A     *)
(* token that lapses on the way, a cookie the browser drops, a lost answer *)
(* and an unreachable Go are faults, of which there are MaxFaults.         *)
(***************************************************************************)
EXTENDS Naturals

CONSTANTS
  Tab,          \* open tabs
  Call,         \* calls of pages in progress at a time
  TabOf,        \* TabOf[c]: the tab that makes call c
  Role,         \* roles the account may have
  Asked,        \* model bound: addresses a user asks for
  MaxLogins,    \* model bound: sessions opened
  MaxFaults,    \* model bound: faults and interventions of an administrator
  Absent        \* no cookie, no answer

(* The roles each private page admits. *)
Allowed ==
  [operations |-> {"operador", "admin", "root", "demo"},
   admin |-> {"admin", "root"},
   audit |-> {"admin", "auditor", "root"},
   privacy |-> {"operador", "admin", "auditor", "root"},
   root |-> {"root"},
   password |-> {"operador", "admin", "auditor", "root", "demo"}]

Place == DOMAIN Allowed \cup {"login", "renew", "reset"}

ASSUME SessionAssumption ==
  /\ TabOf \in [Call -> Tab]
  /\ Role \subseteq {"operador", "admin", "auditor", "root", "demo"}
  /\ Asked \subseteq Place
  /\ MaxLogins \in Nat /\ MaxFaults \in Nat
  /\ Absent \notin 1..MaxLogins

VARIABLES
  account,   \* what Go knows: role, mustChangePassword, sessions it accepts, sessions opened
  jar,       \* the two cookies
  call,      \* call[c]: a call, from the page to Go and back
  renewal,   \* renewal[w]: POST /auth/refresh, of a tab's calls or of its renewal page
  logout,    \* logout[t]: POST /auth/logout
  login,     \* login[t]: POST /auth/login
  page,      \* page[t]: the address of the tab and whether it is shown yet
  faults     \* faults left

sessionVars == <<account, jar, call, renewal, logout, login, page, faults>>

Session == 1..MaxLogins
Cookie == Session \cup {Absent}
Renewal == Tab \X {"calls", "page"}

NoCookies == [access |-> Absent, refresh |-> Absent]
Pair(s) == [access |-> s, refresh |-> s]
Idle == [kind |-> Absent, stage |-> "idle", sent |-> NoCookies, retried |-> FALSE,
         tokens |-> Absent, done |-> FALSE]
Quiet == [stage |-> "idle", sent |-> Absent, answer |-> Absent]

Cookies == [access : Cookie, refresh : Cookie]
Account == [role : Role, must : BOOLEAN, live : SUBSET Session, opened : 0..MaxLogins]
CallState == [kind : {Absent, "read", "write", "change"},
              stage : {"idle", "sent", "renewing", "again", "waiting"},
              sent : Cookies, retried : BOOLEAN, tokens : Cookie, done : BOOLEAN]
RenewalState == [stage : {"idle", "sent", "replied"}, sent : Cookie,
                 answer : {Absent, "ok", "refused", "down"}]
LogoutState == [stage : {"idle", "sent"}, sent : Cookies]
PageState == [at : Place, stage : {"asked", "shown"}, return : Place]

SessionTypeOK ==
  /\ account \in Account
  /\ jar \in Cookies
  /\ call \in [Call -> CallState]
  /\ renewal \in [Renewal -> RenewalState]
  /\ logout \in [Tab -> LogoutState]
  /\ login \in [Tab -> BOOLEAN]
  /\ page \in [Tab -> PageState]
  /\ faults \in 0..MaxFaults

NoLogout == [stage |-> "idle", sent |-> NoCookies]
At(p) == [at |-> p, stage |-> "asked", return |-> "operations"]

(* A browser without cookies on the login page. *)
SessionInit ==
  /\ account \in [role : Role, must : BOOLEAN, live : {{}}, opened : {0}]
  /\ jar = NoCookies
  /\ call = [c \in Call |-> Idle]
  /\ renewal = [w \in Renewal |-> Quiet]
  /\ logout = [t \in Tab |-> NoLogout]
  /\ login = [t \in Tab |-> FALSE]
  /\ page = [t \in Tab |-> At("login")]
  /\ faults = MaxFaults

Fault == faults > 0 /\ faults' = faults - 1

(* Variant: auditors have no page of their own. *)
HomeWithoutAudit(role) == IF role = "root" THEN "root" ELSE "operations"

(* The page a role starts from. *)
Home(role) == CASE role = "root" -> "root" [] role = "auditor" -> "audit" [] OTHER -> "operations"
Go(t, p) == page' = [page EXCEPT ![t] = At(p)]

-----------------------------------------------------------------------------
(* Calls of the pages.                                                     *)

(* A page sends a request with the cookies of this moment. *)
Send(c, k) ==
  /\ call[c].stage = "idle"
  /\ page[TabOf[c]].stage = "shown"
  /\ call' = [call EXCEPT ![c] = [Idle EXCEPT !.kind = k, !.stage = "sent", !.sent = jar]]
  /\ UNCHANGED <<account, jar, renewal, logout, login, page, faults>>

StartCall(c, k) ==
  /\ page[TabOf[c]].at \in DOMAIN Allowed \ {"password"}
  /\ Send(c, k)

(* The form of a new password is disabled while one is being changed. *)
FormFree(t) == \A c \in Call : TabOf[c] = t /\ call[c].kind = "change" => call[c].stage = "idle"

SubmitPassword(c) ==
  /\ page[TabOf[c]].at = "password"
  /\ FormFree(TabOf[c])
  /\ Send(c, "change")

(* The token proxy sends: the cookie or, the second time, the renewed one. *)
Token(c) == IF call[c].stage = "again" THEN call[c].tokens ELSE call[c].sent.access

(* proxy renews by itself only for a read that carried both cookies. *)
ProxyRenews(c) ==
  /\ call[c].stage = "sent"
  /\ call[c].kind = "read"
  /\ call[c].sent.access # Absent
  /\ call[c].sent.refresh # Absent

(* Variant: whatever failed is sent again. *)
ResendsFailures(c, a) == a \in {"refused", "down"} /\ ~call[c].retried

(* The interceptor resends what was refused, once, after a renewal that    *)
(* every refused call of the tab shares.                                   *)
Resends(c, a) == a = "refused" /\ ~call[c].retried

JoinRenewal(t, cookies) ==
  renewal' = [renewal EXCEPT ![<<t, "calls">>] =
                IF @.stage = "idle" THEN [Quiet EXCEPT !.stage = "sent", !.sent = cookies.refresh] ELSE @]

StartLogout(t, cookies) ==
  logout' = [logout EXCEPT ![t] = IF @.stage = "idle" THEN [@ EXCEPT !.stage = "sent", !.sent = cookies] ELSE @]

(* The page has answer a to call c, whose work is done or not: a refusal   *)
(* is sent again after a renewal, and cookies that proxy renewed are kept  *)
(* in either case.                                                         *)
Settle(c, a, done) ==
  LET t == TabOf[c] IN
  /\ jar' = IF a = "changed" THEN NoCookies
            ELSE IF call[c].tokens # Absent /\ a # "down" THEN Pair(call[c].tokens) ELSE jar
  /\ IF Resends(c, a)
     THEN /\ call' = [call EXCEPT ![c] = [Idle EXCEPT !.kind = call[c].kind, !.stage = "waiting",
                                           !.retried = TRUE, !.done = done]]
          /\ JoinRenewal(t, jar')
     ELSE call' = [call EXCEPT ![c] = [Idle EXCEPT !.done = done]] /\ UNCHANGED renewal
  /\ IF a = "must" THEN Go(t, "password") ELSE UNCHANGED page
  /\ IF a = "changed" THEN StartLogout(t, jar') ELSE UNCHANGED logout
  /\ UNCHANGED login

(* Go accepts the token: it does what the call asks, unless a password     *)
(* must be changed first.  A changed password ends every session.          *)
Accept(c) ==
  /\ call[c].stage \in {"sent", "again"}
  /\ Token(c) \in account.live
  /\ CASE call[c].kind = "change" ->
            \/ /\ account' = [account EXCEPT !.live = {}, !.must = FALSE]
               /\ Settle(c, "changed", TRUE)
            \/ Settle(c, "refused", FALSE) /\ UNCHANGED account
       [] call[c].kind # "change" /\ account.must -> Settle(c, "must", FALSE) /\ UNCHANGED account
       [] OTHER -> Settle(c, "ok", call[c].kind = "write") /\ UNCHANGED account
  /\ UNCHANGED faults

(* Go refuses the token: its session has ended or, a fault, it lapsed on   *)
(* the way.                                                                *)
Refuse(c) ==
  /\ call[c].stage \in {"sent", "again"}
  /\ IF Token(c) \in account.live THEN Fault ELSE UNCHANGED faults
  /\ IF ProxyRenews(c)
     THEN /\ call' = [call EXCEPT ![c].stage = "renewing"]
          /\ UNCHANGED <<jar, renewal, logout, login, page>>
     ELSE Settle(c, "refused", FALSE)
  /\ UNCHANGED account

(* refreshTokens within proxy, and the second send.                        *)
Renewed(c) ==
  /\ call[c].stage = "renewing"
  /\ IF call[c].sent.refresh \in account.live
     THEN /\ call' = [call EXCEPT ![c].stage = "again", ![c].tokens = call[c].sent.refresh]
          /\ UNCHANGED <<jar, renewal, logout, login, page>>
     ELSE Settle(c, "refused", FALSE)
  /\ UNCHANGED <<account, faults>>

(* Go is not reached, or its answer is lost after the work was done: the   *)
(* page has a 503 without cookies, or nothing.                             *)
Outage(c) ==
  /\ call[c].stage \in {"sent", "renewing", "again"}
  /\ Fault
  /\ \E served \in BOOLEAN :
       /\ served => Token(c) \in account.live /\ call[c].kind # "read"
       /\ Settle(c, "down", served)
       /\ account' = IF served /\ call[c].kind = "change"
                     THEN [account EXCEPT !.live = {}, !.must = FALSE] ELSE account

-----------------------------------------------------------------------------
(* Renewals.                                                               *)

(* POST /auth/refresh: without a cookie it answers by itself. *)
RenewalAnswered(w) ==
  /\ renewal[w].stage = "sent"
  /\ \/ renewal' = [renewal EXCEPT ![w].stage = "replied",
                      ![w].answer = IF renewal[w].sent \in account.live THEN "ok" ELSE "refused"]
        /\ UNCHANGED faults
     \/ renewal' = [renewal EXCEPT ![w].stage = "replied", ![w].answer = "down"] /\ Fault
  /\ UNCHANGED <<account, jar, call, logout, login, page>>

(* Variant: any failure clears the cookies. *)
CookiesAfterFailure(w) == IF renewal[w].answer = "ok" THEN Pair(renewal[w].sent) ELSE NoCookies

(* The cookies an answer leaves: only a refusal clears them. *)
CookiesAfter(w) ==
  CASE renewal[w].answer = "ok" -> Pair(renewal[w].sent)
    [] renewal[w].answer = "refused" -> NoCookies
    [] OTHER -> jar

(* Variant: only one of the calls that share a renewal hears of it. *)
WaitingFirst(t) ==
  LET W == {c \in Call : TabOf[c] = t /\ call[c].stage = "waiting"} IN
  {c \in W : c = CHOOSE d \in W : TRUE}

Waiting(t) == {c \in Call : TabOf[c] = t /\ call[c].stage = "waiting"}

(* What a document leaves behind when another address replaces it. *)
Leave(t) ==
  /\ call' = [c \in Call |-> IF TabOf[c] = t THEN Idle ELSE call[c]]
  /\ renewal' = [w \in Renewal |-> IF w[1] = t THEN Quiet ELSE renewal[w]]
  /\ login' = [login EXCEPT ![t] = FALSE]

(* The answer reaches AuthService.  The waiting calls are sent again or,   *)
(* after any failure, the session is revoked and the login page replaces   *)
(* the document, whichever comes first.                                    *)
CallsRenewed(t) ==
  LET w == <<t, "calls">> IN
  /\ renewal[w].stage = "replied"
  /\ jar' = CookiesAfter(w)
  /\ IF renewal[w].answer = "ok"
     THEN /\ call' = [c \in Call |-> IF c \in Waiting(t)
                        THEN [call[c] EXCEPT !.stage = "sent", !.sent = jar'] ELSE call[c]]
          /\ renewal' = [renewal EXCEPT ![w] = Quiet]
          /\ UNCHANGED <<logout, login, page>>
     ELSE Leave(t) /\ StartLogout(t, jar') /\ Go(t, "login")
  /\ UNCHANGED <<account, faults>>

(* The answer reaches the renewal page: on to where the user was going. *)
PageRenewed(t) ==
  LET w == <<t, "page">> IN
  /\ renewal[w].stage = "replied"
  /\ jar' = CookiesAfter(w)
  /\ renewal' = [renewal EXCEPT ![w] = Quiet]
  /\ Go(t, IF renewal[w].answer = "ok" THEN page[t].return ELSE "login")
  /\ UNCHANGED <<account, call, logout, login, faults>>

-----------------------------------------------------------------------------
(* Logging in and out.                                                     *)

(* AuthContext.logout, from a button of the header. *)
LogOut(t) ==
  /\ page[t].stage = "shown"
  /\ page[t].at \in DOMAIN Allowed
  /\ logout[t].stage = "idle"
  /\ StartLogout(t, jar)
  /\ UNCHANGED <<account, jar, call, renewal, login, page, faults>>

(* Go ends every session of the account if either token is still good.     *)
(* The route clears the cookies whatever Go said, if its answer arrives;   *)
(* in any case the login page replaces the document.                       *)
LoggedOut(t) ==
  /\ logout[t].stage = "sent"
  /\ \E reached, seen \in BOOLEAN :
       /\ IF reached /\ seen THEN UNCHANGED faults ELSE Fault
       /\ account' = IF reached /\ {logout[t].sent.access, logout[t].sent.refresh} \cap account.live # {}
                     THEN [account EXCEPT !.live = {}] ELSE account
       /\ jar' = IF seen THEN NoCookies ELSE jar
  /\ logout' = [logout EXCEPT ![t] = NoLogout]
  /\ Leave(t)
  /\ Go(t, "login")

(* handleSubmit of Login.tsx. *)
LogIn(t) ==
  /\ page[t].at = "login"
  /\ page[t].stage = "shown"
  /\ ~login[t]
  /\ account.opened < MaxLogins
  /\ login' = [login EXCEPT ![t] = TRUE]
  /\ UNCHANGED <<account, jar, call, renewal, logout, page, faults>>

(* Go opens a session and the page of the role is asked for, or the        *)
(* password is refused, or the answer is lost.                             *)
LoggedIn(t) ==
  /\ login[t]
  /\ login' = [login EXCEPT ![t] = FALSE]
  /\ LET s == account.opened + 1
         opened == account' = [account EXCEPT !.live = @ \cup {s}, !.opened = s] IN
       \/ s \in Session /\ opened /\ jar' = Pair(s) /\ Go(t, Home(account.role)) /\ UNCHANGED faults
       \/ s \in Session /\ opened /\ Fault /\ UNCHANGED <<jar, page>>
       \/ UNCHANGED <<account, jar, page, faults>>
  /\ UNCHANGED <<call, renewal, logout>>

-----------------------------------------------------------------------------
(* Pages.                                                                  *)

(* A user asks for an address. *)
Visit(t, p) ==
  /\ page[t].stage = "shown"
  /\ page[t].at # "renew"
  /\ page[t].at # p
  /\ ~login[t]
  /\ Go(t, p)
  /\ UNCHANGED <<account, jar, call, renewal, logout, login, faults>>

(* What requireUser and the login page show, and where they send a user    *)
(* otherwise.                                                              *)
Admits(p, user) ==
  CASE p = "login" -> ~user
    [] p \in {"renew", "reset"} -> TRUE
    [] OTHER -> user /\ (account.must => p = "password") /\ account.role \in Allowed[p]

Redirect(user) ==
  CASE ~user -> IF jar.refresh # Absent THEN "renew" ELSE "login"
    [] user /\ account.must -> "password"
    [] OTHER -> Home(account.role)

(* The server renders the address.  readCurrentUser knows no user without  *)
(* a good access cookie, or while Go is out.  The renewal page asks for    *)
(* its tokens at once.  A login page loaded as a new document leaves a     *)
(* logout behind, one reached by a link does not.                          *)
Show(t) ==
  LET p == page[t].at IN
  /\ page[t].stage = "asked"
  /\ \E user \in BOOLEAN :
       /\ user => jar.access \in account.live
       /\ IF jar.access \in account.live /\ ~user THEN Fault ELSE UNCHANGED faults
       /\ page' = [page EXCEPT ![t] =
                     IF Admits(p, user) THEN [@ EXCEPT !.stage = "shown"]
                     ELSE IF Redirect(user) = "renew" THEN [At("renew") EXCEPT !.return = p]
                     ELSE At(Redirect(user))]
  /\ renewal' = IF p = "renew"
                THEN [renewal EXCEPT ![<<t, "page">>] = [Quiet EXCEPT !.stage = "sent", !.sent = jar.refresh]]
                ELSE renewal
  /\ logout' \in {logout} \cup {[logout EXCEPT ![t] = NoLogout] : x \in {p} \cap {"login"}}
  /\ UNCHANGED <<account, jar, call, login>>

-----------------------------------------------------------------------------
(* The rest of the world.                                                  *)

(* The page a mailed link opens sets a new password, then asks for the     *)
(* login page.                                                             *)
UseLink(t) ==
  /\ page[t].at = "reset"
  /\ page[t].stage = "shown"
  /\ Fault
  /\ account' = [account EXCEPT !.live = {}, !.must = FALSE]
  /\ Go(t, "login")
  /\ UNCHANGED <<jar, call, renewal, logout, login>>

(* An administrator changes the role or resets the password, or the seven  *)
(* days of a session are over.                                             *)
SessionsEnd ==
  /\ Fault
  /\ \/ \E r \in Role, m \in BOOLEAN : account' = [account EXCEPT !.role = r, !.must = m, !.live = {}]
     \/ \E s \in account.live : account' = [account EXCEPT !.live = @ \ {s}]
  /\ UNCHANGED <<jar, call, renewal, logout, login, page>>

(* The browser drops a cookie whose age is over: the access token's first. *)
DropCookie ==
  /\ Fault
  /\ jar' \in {[jar EXCEPT !.access = Absent], NoCookies} \ {jar}
  /\ UNCHANGED <<account, call, renewal, logout, login, page>>

SessionNext ==
  \/ \E c \in Call : \/ \E k \in {"read", "write"} : StartCall(c, k)
                     \/ SubmitPassword(c)
                     \/ Accept(c) \/ Refuse(c) \/ Renewed(c) \/ Outage(c)
  \/ \E w \in Renewal : RenewalAnswered(w)
  \/ \E t \in Tab : \/ CallsRenewed(t) \/ PageRenewed(t)
                    \/ LogOut(t) \/ LoggedOut(t)
                    \/ LogIn(t) \/ LoggedIn(t)
                    \/ \E p \in Asked : Visit(t, p)
                    \/ Show(t) \/ UseLink(t)
  \/ SessionsEnd
  \/ DropCookie

(* Every request is answered, every answer arrives or is lost, every       *)
(* address is served.  Nothing is asked of users.                          *)
Fairness ==
  /\ \A c \in Call : WF_sessionVars(Accept(c) \/ Refuse(c) \/ Renewed(c))
  /\ \A w \in Renewal : WF_sessionVars(RenewalAnswered(w))
  /\ \A t \in Tab : /\ WF_sessionVars(CallsRenewed(t)) /\ WF_sessionVars(PageRenewed(t))
                    /\ WF_sessionVars(LoggedOut(t)) /\ WF_sessionVars(LoggedIn(t)) /\ WF_sessionVars(Show(t))

SessionSpec == SessionInit /\ [][SessionNext]_sessionVars /\ Fairness

-----------------------------------------------------------------------------
(* Two renewals, of the proxy and of the interceptor, stand behind one     *)
(* submission, and an answer may be lost after the work was done: what has *)
(* been carried out is never sent again.                                   *)
CarriedOutOnce == \A c \in Call : call[c].done => call[c].stage = "idle"

(* The browser loses a session that lives on. *)
Lost == jar.refresh \in account.live \cap account'.live /\ jar'.refresh = Absent

Cause ==
  \/ faults' < faults
  \/ \E w \in Renewal : renewal[w].stage = "replied" /\ renewal[w].sent \notin account.live
  \/ \E t \in Tab : logout[t].stage = "sent" /\ logout[t].sent.refresh \notin account.live

(* A session that lives on leaves the browser for a reason only: a fault   *)
(* of that moment, or the refusal of tokens that were dead already, of a   *)
(* renewal or of a logout.  An unreachable Go costs nobody the session.    *)
LostForCause == [][Lost => Cause]_sessionVars

(* A call is settled, even one that waits for a renewal others began. *)
CallsSettle == \A c \in Call : call[c].stage # "idle" ~> call[c].stage = "idle"

(* No address redirects in a circle: every tab ends on a page that its     *)
(* user may see.                                                           *)
NavigationSettles == \A t \in Tab : page[t].stage = "asked" ~> page[t].stage = "shown" /\ page[t].at # "renew"
=============================================================================
