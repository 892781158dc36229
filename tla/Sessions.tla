---- MODULE Sessions ----
(***************************************************************************)
(* The session of the dashboard's user: auth.Sessions of                   *)
(* internal/auth/auth.go with requireSession, loginPost, logout and        *)
(* validCSRF of internal/httpserver/server.go.  The server keeps no        *)
(* session: a cookie is a signed name and the time it ends, the token in   *)
(* the forms of a page is a signed name.  The secret that signs them is    *)
(* configured, or drawn anew by every process.                             *)
(*                                                                         *)
(* A browser has one cookie for all its tabs.  A tab sends one request at  *)
(* a time, with the cookie of that moment; it is served later, and later   *)
(* still its reply is read: requests of several tabs cross each other.     *)
(***************************************************************************)
EXTENDS Integers, Sequences

CONSTANTS
  Tab,
  Usernames,      \* what UI_USERNAME may be: sequences of characters
  SessionTTL,     \* sessionTTL, in hours
  NoCookie,
  LoginPage,      \* what a tab shows that has no page with forms
  Ready,          \* the tab has no request under way
  MaxHours,       \* bound: the clock
  MaxProcesses    \* bound: processes

ASSUME SessionTTLAssumption == SessionTTL \in Nat

\* What a browser may hold, and what a tab asks and is answered.
Cookies == [name : Usernames, exp : Nat, signedBy : Nat]
Forms == [name : Usernames, signedBy : Nat]
Asked == [is : {"login", "page", "act", "logout"},
          cookie : Cookies \cup {NoCookie}, token : Forms \cup {LoginPage}]
Answered == [is : {"reply"}, set : SUBSET (Cookies \cup {NoCookie}), shows : Forms \cup {LoginPage}]

ASSUME NobodyAssumption ==
  NoCookie \notin Cookies /\ LoginPage \notin Forms /\ Ready \notin Asked \cup Answered

VARIABLES
  username,  \* UI_USERNAME
  random,    \* SESSION_SECRET is not set
  process,   \* the number of the process
  hour,
  cookie,    \* of the browser
  tab,       \* what each tab shows: LoginPage or the token in the forms of a page
  way,       \* the request or the reply of each tab
  logins     \* history: process and time of each login

sessionVars == <<username, random, process, hour, cookie, tab, way, logins>>

----
(* auth.Sessions.                                                          *)

\* The secret: one that is configured signs for every process.
Secret == IF random THEN process ELSE 0

SessionCookie == [name |-> username, exp |-> hour + SessionTTL, signedBy |-> Secret]

\* Mutant: a token that ends.
TokenOfTheHour == [name |-> username, signedBy |-> Secret, at |-> hour]

CSRFToken == [name |-> username, signedBy |-> Secret]

\* The name is cut at the first separator, if it has one.
Separable(name) == \A i \in DOMAIN name : name[i] \notin {".", "|"}

\* Mutant: the end of the session is left to the browser.
EndlessSession(token) ==
  /\ token # NoCookie
  /\ token.signedBy = Secret
  /\ Separable(token.name)
  /\ token.name = username

\* UsernameFromRequest.
IsSession(token) ==
  /\ token # NoCookie
  /\ token.signedBy = Secret
  /\ Separable(token.name)
  /\ token.name = username
  /\ hour <= token.exp

\* What validCSRF asks of the request's cookie and of its form.
ValidCSRF(c, token) == IsSession(c) /\ token # LoginPage /\ token = CSRFToken

----
(* Tabs and the server.                                                    *)

\* The browser drops a cookie whose Expires has passed.
Jar == IF cookie # NoCookie /\ hour < cookie.exp THEN cookie ELSE NoCookie

\* The login form with the right password, a page or a poll for a part of one,
\* and the forms of a page.
Send(t, what) ==
  /\ way[t] = Ready
  /\ what \in {"login", "page"} \/ tab[t] # LoginPage
  /\ way' = [way EXCEPT ![t] = [is |-> what, cookie |-> Jar, token |-> tab[t]]]
  /\ UNCHANGED <<username, random, process, hour, cookie, tab, logins>>

Pending(t, what) == way[t] # Ready /\ way[t].is = what

\* The reply may set the cookie, and the tab shows what it brings.
Reply(t, set, shows) ==
  way' = [way EXCEPT ![t] = [is |-> "reply", set |-> set, shows |-> shows]]

LoginPost(t) ==
  /\ Pending(t, "login")
  /\ Reply(t, {SessionCookie}, LoginPage)
  /\ logins' = logins \cup {[process |-> process, at |-> hour]}
  /\ UNCHANGED <<username, random, process, hour, cookie, tab>>

\* requireSession sends whoever has none to the login.
GetPage(t) ==
  /\ Pending(t, "page")
  /\ Reply(t, {}, IF IsSession(way[t].cookie) THEN CSRFToken ELSE LoginPage)
  /\ UNCHANGED <<username, random, process, hour, cookie, tab, logins>>

\* A cleanup or a purge is done; the page it redirects to is another request.
Act(t) ==
  /\ Pending(t, "act")
  /\ ValidCSRF(way[t].cookie, way[t].token)
  /\ Reply(t, {}, way[t].token)
  /\ UNCHANGED <<username, random, process, hour, cookie, tab, logins>>

Logout(t) ==
  /\ Pending(t, "logout")
  /\ ValidCSRF(way[t].cookie, way[t].token)
  /\ Reply(t, {NoCookie}, LoginPage)
  /\ UNCHANGED <<username, random, process, hour, cookie, tab, logins>>

\* No session: the login page; an old token: 403.
Refuse(t) ==
  /\ Pending(t, "act") \/ Pending(t, "logout")
  /\ ~ValidCSRF(way[t].cookie, way[t].token)
  /\ Reply(t, {}, LoginPage)
  /\ UNCHANGED <<username, random, process, hour, cookie, tab, logins>>

Receive(t) ==
  /\ Pending(t, "reply")
  /\ cookie' = IF way[t].set = {} THEN cookie ELSE CHOOSE c \in way[t].set : TRUE
  /\ tab' = [tab EXCEPT ![t] = way[t].shows]
  /\ way' = [way EXCEPT ![t] = Ready]
  /\ UNCHANGED <<username, random, process, hour, logins>>

HourPasses ==
  /\ hour < MaxHours
  /\ hour' = hour + 1
  /\ UNCHANGED <<username, random, process, cookie, tab, way, logins>>

\* Requests that were not served are sent again by nobody.
NewProcess ==
  /\ process < MaxProcesses
  /\ process' = process + 1
  /\ way' = [t \in Tab |-> IF way[t] = Ready \/ Pending(t, "reply") THEN way[t] ELSE Ready]
  /\ UNCHANGED <<username, random, hour, cookie, tab, logins>>

SessionInit ==
  /\ username \in Usernames
  /\ random \in BOOLEAN
  /\ process = 1
  /\ hour = 0
  /\ cookie = NoCookie
  /\ tab = [t \in Tab |-> LoginPage]
  /\ way = [t \in Tab |-> Ready]
  /\ logins = {}

SessionNext ==
  \/ \E t \in Tab :
       \/ \E what \in {"login", "page", "act", "logout"} : Send(t, what)
       \/ LoginPost(t) \/ GetPage(t) \/ Act(t) \/ Logout(t) \/ Refuse(t) \/ Receive(t)
  \/ HourPasses \/ NewProcess

SessionSpec == SessionInit /\ [][SessionNext]_sessionVars

----

\* Logins whose session has not ended, and whose secret is in use.
Alive == {l \in logins : hour - l.at <= SessionTTL /\ (random => l.process = process)}

\* A cleanup or purge is done for a browser that logged in within the term of a
\* session, by this process if its secret is its own, however requests, logouts
\* and restarts cross each other.
ActsFollowLogins ==
  [][\A t \in Tab : Act(t) \/ (GetPage(t) /\ way'[t].shows # LoginPage) => Alive # {}]_sessionVars

\* A form is refused only to a tab without a session or with a page of another
\* secret: a page stays usable across logout and login, in whichever tab.
FormsOutliveSessions ==
  [][\A t \in Tab :
       Refuse(t) /\ Separable(username) /\ way[t].cookie # NoCookie =>
         \/ hour > way[t].cookie.exp
         \/ random /\ process > 1]_sessionVars

====
