------------------------------- MODULE Session -------------------------------
(***************************************************************************)
(* The session of one user in one browser: the refresh cookie that all its *)
(* tabs share, the access token each tab keeps in memory (auth-store), the *)
(* api-client that renews it on a 401, the dashboard layout and the edge   *)
(* middleware that send a page to the login form or away from it, and      *)
(* AuthService, which rotates refresh tokens in three statements.          *)
(*                                                                         *)
(* A request is a task of its tab.  The browser attaches the cookie when a *)
(* request leaves and stores the new one when the answer comes; nothing    *)
(* keeps requests, of one tab or of several, from overtaking each other.   *)
(***************************************************************************)
EXTENDS Naturals, FiniteSets

CONSTANTS
    Tabs,
    Slots,       \* requests that can be on their way at once: tab and number
    MaxTokens    \* bound: refresh tokens issued

ASSUME SlotsAssumption == MaxTokens \in Nat \ {0} /\ Slots \subseteq Tabs \X Nat

VARIABLES
    cookie,    \* the refresh token in the browser, 0 for none
    revoked,   \* refresh_tokens with revokedAt
    parent,    \* parent[n]: the token n was exchanged for, 0 for a login
    access,    \* access[t]: "none", "live", "stale" (expired)
    page,      \* "closed", "boot" (not hydrated), "dash", "held", "login"
    task,      \* task[t, i]: what the request waits for
    wasted     \* history: tokens revoked by a request whose answer was lost

vars == <<cookie, revoked, parent, access, page, task, wasted>>

Tab(s) == s[1]
Idle == [at |-> "idle", kind |-> "call", token |-> 0]
Token == 0 .. MaxTokens
Issued == DOMAIN parent

TypeOK ==
    /\ cookie \in Issued \cup {0} /\ revoked \subseteq Issued
    /\ Issued = 1 .. Cardinality(Issued) /\ Issued \subseteq Token
    /\ \A n \in Issued : parent[n] \in 0 .. n - 1
    /\ access \in [Tabs -> {"none", "live", "stale"}]
    /\ page \in [Tabs -> {"closed", "boot", "dash", "held", "login"}]
    /\ task \in [Slots -> [at : {"idle", "sent", "asked", "found", "spent", "issued",
                                 "again", "signing", "leaving", "left"},
                           kind : {"call", "boot", "login", "logout"}, token : Token]]
    /\ wasted \subseteq revoked

(* A browser as somebody left it, with a session or without.               *)
Init ==
    /\ cookie \in {0, 1} /\ revoked = {} /\ parent = [n \in 1 .. cookie |-> 0]
    /\ access = [t \in Tabs |-> "none"] /\ page = [t \in Tabs |-> "closed"]
    /\ task = [s \in Slots |-> Idle] /\ wasted = {}

-----------------------------------------------------------------------------
Moves(s, at, token) == task' = [task EXCEPT ![s].at = at, ![s].token = token]
Ends(s) == task' = [task EXCEPT ![s] = Idle]
Starts(s, at, kind) ==
    /\ task[s].at = "idle"
    /\ task' = [task EXCEPT ![s] = [at |-> at, kind |-> kind, token |-> cookie]]

SetIn(f, t, x) == [f EXCEPT ![t] = x]

(* The middleware lets nobody without a cookie to the dashboard, and nobody *)
(* with one to the login form.                                              *)
Lands == IF cookie = 0 THEN "login" ELSE "boot"

(* A document is opened or reloaded (its requests have ended, or were lost): *)
(* the store is empty, and useBootstrapSession asks for a session.          *)
Open(s) ==
    LET t == Tab(s) IN
    /\ \A r \in Slots : Tab(r) = t => task[r].at = "idle"
    /\ page' = SetIn(page, t, Lands) /\ access' = SetIn(access, t, "none")
    /\ IF cookie = 0 THEN UNCHANGED task ELSE Starts(s, "asked", "boot")
    /\ UNCHANGED <<cookie, revoked, parent, wasted>>

(* DashboardLayout sends a page without a session to the login form; the    *)
(* middleware answers that navigation, too, and a page it sends back stays  *)
(* mounted, hydrated and blank.                                             *)
ToLogin(t) ==
    /\ page[t] = "dash" /\ access[t] = "none"
    /\ page' = SetIn(page, t, IF cookie = 0 THEN "login" ELSE "held")
    /\ UNCHANGED <<cookie, revoked, parent, access, task, wasted>>

Expire(t) ==
    /\ access[t] = "live"
    /\ access' = SetIn(access, t, "stale")
    /\ UNCHANGED <<cookie, revoked, parent, page, task, wasted>>

-----------------------------------------------------------------------------
(* A request of the page, and the guard's verdict on its bearer token.      *)
Call(s) ==
    /\ page[Tab(s)] = "dash" /\ access[Tab(s)] # "none"
    /\ Starts(s, "sent", "call")
    /\ UNCHANGED <<cookie, revoked, parent, access, page, wasted>>

CallPasses(s) ==
    /\ task[s].at \in {"sent", "again"} /\ access[Tab(s)] = "live"
    /\ Ends(s)
    /\ UNCHANGED <<cookie, revoked, parent, access, page, wasted>>

(* On a 401 the client asks for a session, once per request.                *)
CallRefused(s) ==
    /\ task[s].at \in {"sent", "again"} /\ access[Tab(s)] # "live"
    /\ IF task[s].at = "sent" THEN Moves(s, "asked", cookie) ELSE Ends(s)
    /\ UNCHANGED <<cookie, revoked, parent, access, page, wasted>>

-----------------------------------------------------------------------------
(* AuthService.refresh: find, revoke, create.                               *)
Valid(token) == token # 0 /\ token \notin revoked

Find(s) ==
    /\ task[s].at = "asked" /\ Valid(task[s].token)
    /\ Moves(s, "found", task[s].token)
    /\ UNCHANGED <<cookie, revoked, parent, access, page, wasted>>

Revoke(s) ==
    /\ task[s].at = "found"
    /\ revoked' = revoked \cup {task[s].token}
    /\ Moves(s, "spent", task[s].token)
    /\ UNCHANGED <<cookie, parent, access, page, wasted>>

(* issueTokens, for a rotation and for a login or a registration.           *)
Issue(s) ==
    /\ task[s].at \in {"spent", "signing"}
    /\ LET n == Cardinality(Issued) + 1
       IN /\ n <= MaxTokens
          /\ parent' = [m \in Issued \cup {n} |->
                IF m # n THEN parent[m]
                ELSE IF task[s].at = "spent" THEN task[s].token ELSE 0]
          /\ Moves(s, "issued", n)
    /\ UNCHANGED <<cookie, revoked, access, page, wasted>>

Shows(s, from) == IF page[Tab(s)] \in from THEN SetIn(page, Tab(s), "dash") ELSE page

NewCookie_OfLogin(s) == IF task[s].kind = "login" THEN task[s].token ELSE cookie
NewCookie(s) == task[s].token

(* setSession; a call is sent again, a login goes on to the dashboard.      *)
SessionArrives(s) ==
    /\ task[s].at = "issued"
    /\ cookie' = NewCookie(s)
    /\ access' = SetIn(access, Tab(s), "live")
    /\ IF task[s].kind = "call" THEN Moves(s, "again", 0) ELSE Ends(s)
    /\ page' = IF task[s].kind = "login" THEN SetIn(page, Tab(s), "dash")
             ELSE Shows(s, {"boot", "held"})
    /\ UNCHANGED <<revoked, parent, wasted>>

(* The refresh is refused, or the network or the database fails: clear().   *)
Clears_Retries(s) ==
    /\ access' = SetIn(access, Tab(s), "none") /\ page' = Shows(s, {"boot"})
    /\ IF task[s].kind = "call" THEN Moves(s, "sent", 0) ELSE Ends(s)
Clears(s) == access' = SetIn(access, Tab(s), "none") /\ page' = Shows(s, {"boot"}) /\ Ends(s)

RefreshRefused(s) ==
    /\ task[s].at = "asked" /\ ~Valid(task[s].token)
    /\ Clears(s)
    /\ UNCHANGED <<cookie, revoked, parent, wasted>>

RefreshLost(s) ==
    /\ task[s].at \in {"asked", "found", "spent", "issued"} /\ task[s].kind # "login"
    /\ Clears(s)
    /\ wasted' = wasted \cup
          CASE task[s].at = "spent" -> {task[s].token}
            [] task[s].at = "issued" -> {parent[task[s].token]}
            [] OTHER -> {}
    /\ UNCHANGED <<cookie, revoked, parent>>

-----------------------------------------------------------------------------
Login(s) ==
    /\ page[Tab(s)] = "login"
    /\ Starts(s, "signing", "login")
    /\ UNCHANGED <<cookie, revoked, parent, access, page, wasted>>

LoginFails(s) ==
    /\ \/ task[s].at = "signing"
       \/ task[s].at = "issued" /\ task[s].kind = "login"
    /\ Ends(s)
    /\ UNCHANGED <<cookie, revoked, parent, access, page, wasted>>

Logout(s) ==
    /\ page[Tab(s)] = "dash" /\ access[Tab(s)] # "none"
    /\ Starts(s, "leaving", "logout")
    /\ UNCHANGED <<cookie, revoked, parent, access, page, wasted>>

LogoutRevokes(s) ==
    /\ task[s].at = "leaving"
    /\ revoked' = revoked \cup ({task[s].token} \ {0})
    /\ Moves(s, "left", task[s].token)
    /\ UNCHANGED <<cookie, parent, access, page, wasted>>

(* The answer removes the cookie; the store is emptied in any case.         *)
LogoutDone(s) ==
    /\ task[s].at = "left"
    /\ cookie' = 0
    /\ access' = SetIn(access, Tab(s), "none") /\ Ends(s)
    /\ UNCHANGED <<revoked, parent, page, wasted>>

LogoutLost(s) ==
    /\ task[s].at \in {"leaving", "left"}
    /\ wasted' = IF task[s].at = "left" THEN wasted \cup ({task[s].token} \ {0}) ELSE wasted
    /\ access' = SetIn(access, Tab(s), "none") /\ Ends(s)
    /\ UNCHANGED <<cookie, revoked, parent, page>>

-----------------------------------------------------------------------------
Served(s) ==
    \/ CallPasses(s) \/ CallRefused(s)
    \/ Find(s) \/ Revoke(s) \/ Issue(s) \/ SessionArrives(s)
    \/ RefreshRefused(s) \/ RefreshLost(s)
    \/ LoginFails(s) \/ LogoutRevokes(s) \/ LogoutDone(s) \/ LogoutLost(s)

Next ==
    \/ \E s \in Slots : Open(s) \/ Call(s) \/ Login(s) \/ Logout(s) \/ Served(s)
    \/ \E t \in Tabs : ToLogin(t) \/ Expire(t)

(* A request is answered or fails.                                          *)
Spec == Init /\ [][Next]_vars /\ \A s \in Slots : WF_vars(Served(s))

-----------------------------------------------------------------------------
(* However the requests of the tabs overtake each other, the cookie that is *)
(* left in the browser is good for another session: it is worth nothing     *)
(* only while the answer that replaces or removes it is on its way, or      *)
(* after that answer was lost.                                              *)
Replaced(s, token) ==
    \/ task[s].at \in {"spent", "left"} /\ task[s].token = token
    \/ task[s].at = "issued" /\ parent[task[s].token] = token

CookieLives ==
    cookie \in revoked => cookie \in wasted \/ \E s \in Slots : Replaced(s, cookie)

(* Every request ends: a refresh is not answered by another refresh.        *)
CallEnds == \A s \in Slots : task[s].at = "sent" ~> task[s].at = "idle"

(* The middleware sends only a page with a session from the login form to   *)
(* the dashboard (middleware.ts: "if already authed, bounce").              *)
BouncedIsAuthed == \A t \in Tabs : page[t] # "held"
=============================================================================
