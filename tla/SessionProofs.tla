--------------------------- MODULE SessionProofs ---------------------------
(***************************************************************************)
(* Session, for any number of tabs, requests and tokens: however requests  *)
(* overtake each other, the cookie left in the browser is good.            *)
(***************************************************************************)
EXTENDS Session, FiniteSetTheorems, TLAPS

States == {"idle", "sent", "asked", "found", "spent", "issued", "again", "signing", "leaving",
           "left"}
Tasks == [at : States, kind : {"call", "boot", "login", "logout"}, token : Nat]

(* Tokens are numbered in the order in which they are issued.               *)
TokensInv ==
    /\ \E n \in Nat : Issued = 1 .. n
    /\ cookie \in Issued \cup {0}
    /\ revoked \subseteq Issued
    /\ task \in [Slots -> Tasks]
    /\ \A s \in Slots : task[s].token \in Issued \cup {0}

(* A token on its way to the browser belongs to that answer alone, so nobody *)
(* can have revoked it; the answer to a login replaces no token.            *)
AnswerInv ==
    /\ \A s \in Slots : task[s].at = "issued" =>
          /\ task[s].token \in Issued \ (revoked \cup {cookie})
          /\ \A r \in Slots : r # s => task[r].token # task[s].token
          /\ task[s].kind = "login" => parent[task[s].token] = 0
    /\ \A s \in Slots : task[s].kind = "login" => task[s].at \in {"signing", "issued"}
    /\ \A s \in Slots : task[s].at = "signing" => task[s].kind = "login"
    /\ \A s \in Slots : task[s].at \in {"found", "spent"} => task[s].token # 0

SessionInv == TokensInv /\ AnswerInv /\ CookieLives

LEMMA NextToken ==
    ASSUME TokensInv
    PROVE  /\ Cardinality(Issued) \in Nat
           /\ Issued = 1 .. Cardinality(Issued)
<1>1. PICK n \in Nat : Issued = 1 .. n
    BY DEF TokensInv
<1>2. Cardinality(1 .. n) = n
    BY <1>1, FS_Interval
<1> QED BY <1>1, <1>2

LEMMA SessionInit == Init => SessionInv
<1> SUFFICES ASSUME Init PROVE SessionInv
    OBVIOUS
<1>1. Issued = 1 .. cookie /\ cookie \in Nat
    BY DEF Init, Issued
<1>2. TokensInv
    BY <1>1 DEF Init, TokensInv, Idle, Tasks, States
<1> QED BY <1>2 DEF Init, SessionInv, AnswerInv, CookieLives, Idle

(* One request makes progress: the others stay what they were.              *)
LEMMA Moved ==
    ASSUME TokensInv, NEW s \in Slots, NEW at \in States, NEW token \in Nat, Moves(s, at, token)
    PROVE  /\ task' \in [Slots -> Tasks]
           /\ task'[s].at = at /\ task'[s].token = token /\ task'[s].kind = task[s].kind
           /\ \A r \in Slots : r # s => task'[r] = task[r]
<1>1. task' = [task EXCEPT ![s] = [@ EXCEPT !.at = at, !.token = token]]
    BY DEF Moves, TokensInv, Tasks
<1> QED BY <1>1 DEF TokensInv, Tasks

LEMMA Ended ==
    ASSUME TokensInv, NEW s \in Slots, Ends(s)
    PROVE  /\ task' \in [Slots -> Tasks]
           /\ task'[s].at = "idle" /\ task'[s].token = 0 /\ task'[s].kind = "call"
           /\ \A r \in Slots : r # s => task'[r] = task[r]
BY DEF Ends, Idle, TokensInv, Tasks, States

LEMMA Started ==
    ASSUME TokensInv, NEW s \in Slots, NEW at \in States,
           NEW kind \in {"call", "boot", "login", "logout"}, Starts(s, at, kind)
    PROVE  /\ task' \in [Slots -> Tasks]
           /\ task[s].at = "idle"
           /\ task'[s].at = at /\ task'[s].token = cookie /\ task'[s].kind = kind
           /\ \A r \in Slots : r # s => task'[r] = task[r]
<1>1. cookie \in Nat
    BY DEF TokensInv
<1> QED BY <1>1 DEF Starts, TokensInv, Tasks

(* A request that is not between its revocation and its answer may become   *)
(* any other that is not, and that takes no token out of an answer.         *)
LEMMA QuietStep ==
    ASSUME SessionInv, NEW s \in Slots, task' \in [Slots -> Tasks],
           \A r \in Slots : r # s => task'[r] = task[r],
           task[s].at \notin {"spent", "left", "issued"},
           task'[s].at \notin {"spent", "left", "issued"},
           task'[s].token \in {0, cookie, task[s].token},
           task'[s].at = "signing" <=> task'[s].kind = "login",
           task'[s].at = "found" => task'[s].token # 0,
           UNCHANGED <<cookie, revoked, parent, wasted>>
    PROVE  SessionInv'
<1> USE DEF SessionInv
<1>1. TokensInv'
    BY DEF TokensInv, Issued
<1>2. AnswerInv'
    BY <1>1 DEF AnswerInv, TokensInv, Issued
<1>3. CookieLives'
    BY DEF CookieLives, Replaced
<1> QED BY <1>1, <1>2, <1>3

LEMMA PageStep ==
    ASSUME SessionInv,
           \/ UNCHANGED <<cookie, revoked, parent, task, wasted>>
           \/ \E s \in Slots : Open(s) \/ Call(s) \/ Login(s) \/ Logout(s)
    PROVE  SessionInv'
<1>1. CASE UNCHANGED <<cookie, revoked, parent, task, wasted>>
    BY <1>1 DEF SessionInv, TokensInv, AnswerInv, CookieLives, Replaced, Issued
<1>2. ASSUME NEW s \in Slots, NEW at \in States, NEW kind \in {"call", "boot", "login", "logout"},
             Starts(s, at, kind), <<at, kind>> \in {<<"asked", "boot">>, <<"sent", "call">>,
                                        <<"signing", "login">>, <<"leaving", "logout">>},
             UNCHANGED <<cookie, revoked, parent, wasted>>
      PROVE  SessionInv'
    BY <1>2, Started, QuietStep DEF SessionInv
<1>3. ASSUME NEW s \in Slots, Open(s) \/ Call(s) \/ Login(s) \/ Logout(s)
      PROVE  SessionInv'
    BY <1>1, <1>2, <1>3 DEF Open, Call, Login, Logout, States
<1> QED BY <1>1, <1>3

LEMMA CallStep ==
    ASSUME SessionInv, NEW s \in Slots,
           CallPasses(s) \/ CallRefused(s) \/ Find(s) \/ RefreshRefused(s)
    PROVE  SessionInv'
<1>0. TokensInv /\ AnswerInv /\ task[s] \in Tasks /\ cookie \in Nat
    BY DEF SessionInv, TokensInv
<1>1. CASE CallPasses(s) \/ RefreshRefused(s) \/ (CallRefused(s) /\ task[s].at = "again")
    <2>1. Ends(s) /\ task[s].at \in {"sent", "again", "asked"}
          /\ UNCHANGED <<cookie, revoked, parent, wasted>>
        BY <1>1 DEF CallPasses, RefreshRefused, Clears, CallRefused
    <2> QED BY <1>0, <2>1, Ended, QuietStep
<1>2. CASE CallRefused(s) /\ task[s].at = "sent"
    <2>1. Moves(s, "asked", cookie) /\ UNCHANGED <<cookie, revoked, parent, wasted>>
        BY <1>2 DEF CallRefused
    <2>2. task[s].kind # "login"
        BY <1>0, <1>2 DEF AnswerInv
    <2>3. "asked" \in States
        BY DEF States
    <2> QED BY <1>0, <1>2, <2>1, <2>2, <2>3, Moved, QuietStep
<1>3. CASE Find(s)
    <2>1. /\ Moves(s, "found", task[s].token) /\ UNCHANGED <<cookie, revoked, parent, wasted>>
          /\ task[s].at = "asked" /\ task[s].token # 0
        BY <1>3 DEF Find, Valid
    <2>2. task[s].kind # "login" /\ task[s].token \in Nat
        BY <1>0, <2>1 DEF AnswerInv, Tasks
    <2>3. "found" \in States
        BY DEF States
    <2> QED BY <1>0, <2>1, <2>2, <2>3, Moved, QuietStep
<1> QED BY <1>1, <1>2, <1>3 DEF CallRefused

(* The statement that revokes: the token is one the cookie may be.          *)
LEMMA RevokeStep ==
    ASSUME SessionInv, NEW s \in Slots, Revoke(s) \/ LogoutRevokes(s)
    PROVE  SessionInv'
<1>0. TokensInv /\ AnswerInv /\ CookieLives /\ task[s].token \in Nat
    BY DEF SessionInv, TokensInv, Tasks
<1>1. PICK at \in {"spent", "left"} :
          /\ Moves(s, at, task[s].token)
          /\ task[s].at \in {"found", "leaving"}
          /\ at = "spent" => task[s].at = "found"
          /\ UNCHANGED <<cookie, parent, wasted>>
    BY DEF Revoke, LogoutRevokes
<1>2. revoked' = revoked \cup ({task[s].token} \ {0})
    BY <1>0, <1>1 DEF Revoke, LogoutRevokes, AnswerInv
<1>3. /\ task' \in [Slots -> Tasks]
      /\ task'[s].at = at /\ task'[s].token = task[s].token /\ task'[s].kind = task[s].kind
      /\ \A r \in Slots : r # s => task'[r] = task[r]
    BY <1>0, <1>1, Moved DEF States
<1>4. TokensInv'
    BY <1>0, <1>1, <1>2, <1>3 DEF TokensInv, Issued
<1>5. AnswerInv'
    BY <1>0, <1>1, <1>2, <1>3 DEF AnswerInv, Issued
<1>6. CookieLives'
    BY <1>0, <1>1, <1>2, <1>3 DEF CookieLives, Replaced
<1> QED BY <1>4, <1>5, <1>6 DEF SessionInv

(* The token created is new, and it stands for the one it was exchanged for. *)
LEMMA IssueStep ==
    ASSUME SessionInv, NEW s \in Slots, Issue(s)
    PROVE  SessionInv'
<1> DEFINE n == Cardinality(Issued) + 1
           from == IF task[s].at = "spent" THEN task[s].token ELSE 0
<1>0. TokensInv /\ AnswerInv /\ CookieLives
    BY DEF SessionInv
<1>1. n \in Nat \ {0} /\ Issued = 1 .. n - 1 /\ n \notin Issued
    BY <1>0, NextToken
<1>2. /\ task[s].at \in {"spent", "signing"} /\ parent' = [m \in Issued \cup {n} |-> IF m # n THEN parent[m] ELSE from]
      /\ Moves(s, "issued", n) /\ UNCHANGED <<cookie, revoked, wasted>>
    BY DEF Issue
<1> HIDE DEF n, from
<1>3. /\ Issued' = Issued \cup {n} /\ parent'[n] = from
      /\ \A k \in Issued : parent'[k] = parent[k]
    BY <1>1, <1>2 DEF Issued
<1>4. /\ task' \in [Slots -> Tasks]
      /\ task'[s].at = "issued" /\ task'[s].token = n /\ task'[s].kind = task[s].kind
      /\ \A r \in Slots : r # s => task'[r] = task[r]
    <2>1. "issued" \in States /\ n \in Nat
        BY <1>1 DEF States
    <2> QED BY <1>0, <1>2, <2>1, Moved
<1>5. Issued' = 1 .. n
    BY <1>1, <1>3
<1>6. TokensInv'
    BY <1>0, <1>1, <1>2, <1>3, <1>4, <1>5 DEF TokensInv
<1>7. AnswerInv'
    <2>1. n \notin revoked /\ n # cookie /\ n # 0 /\ \A r \in Slots : task[r].token # n
        BY <1>0, <1>1 DEF TokensInv
    <2>2. task[s].kind = "login" => from = 0
        BY <1>0, <1>2 DEF AnswerInv, from
    <2>3. ASSUME NEW r \in Slots, r # s
          PROVE  task'[r] = task[r] /\ task[r].token # n
                 /\ (task[r].at = "issued" => parent'[task[r].token] = parent[task[r].token])
        BY <1>0, <1>3, <1>4, <2>1, <2>3 DEF AnswerInv
    <2> QED BY <1>0, <1>2, <1>3, <1>4, <2>1, <2>2, <2>3 DEF AnswerInv
<1>8. CookieLives'
    <2>1. ASSUME NEW r \in Slots, Replaced(r, cookie) PROVE Replaced(r, cookie)'
        BY <1>0, <1>2, <1>3, <1>4, <2>1 DEF Replaced, AnswerInv, from
    <2> QED BY <1>0, <1>2, <2>1 DEF CookieLives
<1> QED BY <1>6, <1>7, <1>8 DEF SessionInv

(* The answer sets the cookie, and the request goes on or is over.          *)
LEMMA ArriveStep ==
    ASSUME SessionInv, NEW s \in Slots, SessionArrives(s)
    PROVE  SessionInv'
<1>0. TokensInv /\ AnswerInv /\ CookieLives
    BY DEF SessionInv
<1>1. /\ task[s].at = "issued" /\ cookie' = task[s].token
      /\ UNCHANGED <<revoked, parent, wasted>>
    BY DEF SessionArrives, NewCookie
<1>2. /\ task' \in [Slots -> Tasks]
      /\ task'[s].at \in {"again", "idle"} /\ task'[s].token = 0 /\ task'[s].kind # "login"
      /\ \A r \in Slots : r # s => task'[r] = task[r]
    <2>1. CASE task[s].kind = "call" /\ Moves(s, "again", 0)
        BY <1>0, <2>1, Moved DEF States
    <2>2. CASE Ends(s)
        BY <1>0, <2>2, Ended
    <2> QED BY <2>1, <2>2 DEF SessionArrives
<1>3. cookie' \in Issued \ revoked /\ \A r \in Slots : r # s => task[r].token # cookie'
    BY <1>0, <1>1 DEF AnswerInv
<1>4. TokensInv'
    BY <1>0, <1>1, <1>2, <1>3 DEF TokensInv, Issued
<1>5. AnswerInv'
    <2>1. 0 \notin Issued
        BY <1>0 DEF TokensInv
    <2> QED BY <1>0, <1>1, <1>2, <1>3, <2>1 DEF AnswerInv, Issued
<1>6. CookieLives'
    BY <1>1, <1>3 DEF CookieLives
<1> QED BY <1>4, <1>5, <1>6 DEF SessionInv

(* A request that is given up: what it revoked is wasted.                   *)
LEMMA LoseStep ==
    ASSUME SessionInv, NEW s \in Slots,
           RefreshLost(s) \/ LoginFails(s) \/ LogoutDone(s) \/ LogoutLost(s)
    PROVE  SessionInv'
<1>0. TokensInv /\ AnswerInv /\ CookieLives
    BY DEF SessionInv
<1>1. /\ Ends(s) /\ cookie' \in {cookie, 0} /\ UNCHANGED <<revoked, parent>>
      /\ wasted \subseteq wasted'
    BY DEF RefreshLost, Clears, LoginFails, LogoutDone, LogoutLost
<1>2. /\ task' \in [Slots -> Tasks]
      /\ task'[s].at = "idle" /\ task'[s].token = 0 /\ task'[s].kind = "call"
      /\ \A r \in Slots : r # s => task'[r] = task[r]
    BY <1>0, <1>1, Ended
<1>3. TokensInv'
    BY <1>0, <1>1, <1>2 DEF TokensInv, Issued
<1>4. AnswerInv'
    BY <1>0, <1>1, <1>2 DEF AnswerInv, TokensInv, Issued
<1>5. 0 \notin revoked
    BY <1>0 DEF TokensInv
<1>6. ASSUME cookie' = cookie, cookie \in revoked, Replaced(s, cookie)
      PROVE  cookie \in wasted'
    BY <1>0, <1>5, <1>6 DEF Replaced, RefreshLost, LoginFails, LogoutDone, LogoutLost, AnswerInv
<1>7. CookieLives'
    BY <1>0, <1>1, <1>2, <1>5, <1>6 DEF CookieLives, Replaced
<1> QED BY <1>3, <1>4, <1>7 DEF SessionInv

LEMMA SessionStep == SessionInv /\ [Next]_vars => SessionInv'
BY PageStep, CallStep, RevokeStep, IssueStep, ArriveStep, LoseStep
DEF Next, Served, vars, ToLogin, Expire

(* AuthService.refresh rotates in three statements and the browser stores   *)
(* what is answered: the cookie that is left in it is good for another      *)
(* session unless its replacement is on its way or was lost.                *)
THEOREM CookieAlive == Spec => []CookieLives
<1>1. SessionInv => CookieLives
    BY DEF SessionInv
<1> QED BY <1>1, SessionInit, SessionStep, PTL DEF Spec

-----------------------------------------------------------------------------
(* What a request has spent is revoked, and so is what the token that it is *)
(* about to bring was exchanged for.                                        *)
SpentInv ==
    \A s \in Slots :
        /\ task[s].at = "spent" => task[s].token \in revoked
        /\ task[s].at = "left" => task[s].token \in revoked \cup {0}
        /\ task[s].at = "issued" /\ task[s].kind # "login" => parent[task[s].token] \in revoked

LEMMA TypedInit == Init => TypeOK /\ SpentInv
<1> SUFFICES ASSUME Init PROVE TypeOK /\ SpentInv
    OBVIOUS
<1>1. Issued = 1 .. cookie /\ cookie \in 0 .. 1 /\ MaxTokens \in Nat \ {0}
    BY SlotsAssumption DEF Init, Issued
<1>2. Cardinality(1 .. cookie) = cookie
    <2>1. cookie = 0 \/ cookie = 1
        BY <1>1
    <2>2. 1 .. 0 = {} /\ 1 .. 1 = {1}
        OBVIOUS
    <2>3. Cardinality(1 .. 0) = 0 /\ Cardinality(1 .. 1) = 1
        BY <2>2, FS_EmptySet, FS_Singleton
    <2> QED BY <2>1, <2>3
<1>3. \A n \in Issued : parent[n] = 0 /\ n = 1
    BY <1>1 DEF Init
<1>4. Issued = 1 .. Cardinality(Issued) /\ Issued \subseteq Token
    BY <1>1, <1>2 DEF Token
<1>5. \A n \in Issued : parent[n] \in 0 .. n - 1
    BY <1>3
<1>6. /\ task \in [Slots -> [at : {"idle"}, kind : {"call"}, token : Token]]
      /\ \A s \in Slots : task[s].at = "idle"
    BY SlotsAssumption DEF Init, Idle, Token
<1>7. /\ cookie \in Issued \cup {0} /\ revoked = {} /\ wasted = {}
      /\ access \in [Tabs -> {"none"}] /\ page \in [Tabs -> {"closed"}]
    BY <1>1 DEF Init
<1>8. SpentInv
    BY <1>6 DEF SpentInv
<1> HIDE DEF Issued, Token
<1> QED BY <1>4, <1>5, <1>6, <1>7, <1>8 DEF TypeOK

(* Where no token is issued, revoked or wasted.                             *)
LEMMA OneMoved ==
    ASSUME SpentInv, NEW s \in Slots, task' \in [Slots -> Tasks],
           \A r \in Slots : r # s => task'[r] = task[r],
           task'[s].at \notin {"spent", "left", "issued"},
           UNCHANGED <<revoked, parent>>
    PROVE  SpentInv'
BY DEF SpentInv

LEMMA SpentStep ==
    ASSUME SessionInv, SessionInv', SpentInv, wasted \subseteq revoked, [Next]_vars
    PROVE  SpentInv' /\ wasted' \subseteq revoked'
<1>0. TokensInv /\ AnswerInv /\ \A s \in Slots : task[s].token \in Nat
    BY DEF SessionInv, TokensInv, Tasks
<1>1. CASE UNCHANGED <<revoked, parent, task, wasted>>
    BY <1>1 DEF SpentInv
<1>2. ASSUME NEW s \in Slots, NEW at \in States \ {"spent", "left", "issued"},
             NEW kind \in {"call", "boot", "login", "logout"},
             \/ Starts(s, at, kind)
             \/ Ends(s)
             \/ \E token \in Nat : Moves(s, at, token),
             UNCHANGED <<revoked, parent>>
      PROVE  SpentInv'
    <2>1. CASE Starts(s, at, kind)
        BY <1>0, <1>2, <2>1, Started, OneMoved
    <2>2. CASE Ends(s)
        BY <1>0, <1>2, <2>2, Ended, OneMoved
    <2>3. CASE \E token \in Nat : Moves(s, at, token)
        BY <1>0, <1>2, <2>3, Moved, OneMoved
    <2> QED BY <1>2, <2>1, <2>2, <2>3
<1>3. ASSUME NEW s \in Slots, Revoke(s) \/ LogoutRevokes(s)
      PROVE  SpentInv' /\ wasted' \subseteq revoked'
    <2>1. PICK at \in {"spent", "left"} :
              /\ Moves(s, at, task[s].token) /\ UNCHANGED <<parent, wasted>>
              /\ at = "spent" => task[s].at = "found"
        BY <1>3 DEF Revoke, LogoutRevokes
    <2>2. revoked' = revoked \cup ({task[s].token} \ {0})
        BY <1>0, <1>3 DEF Revoke, LogoutRevokes, AnswerInv
    <2>3. /\ task'[s].at = at /\ task'[s].token = task[s].token
          /\ \A r \in Slots : r # s => task'[r] = task[r]
        BY <1>0, <2>1, Moved DEF States
    <2> QED BY <1>0, <2>1, <2>2, <2>3 DEF SpentInv, AnswerInv
<1>4. ASSUME NEW s \in Slots, Issue(s)
      PROVE  SpentInv' /\ wasted' \subseteq revoked'
    <2> DEFINE n == Cardinality(Issued) + 1
               from == IF task[s].at = "spent" THEN task[s].token ELSE 0
    <2>1. n \in Nat \ {0} /\ Issued = 1 .. n - 1 /\ n \notin Issued
        BY <1>0, NextToken
    <2>2. /\ task[s].at \in {"spent", "signing"} /\ Moves(s, "issued", n)
          /\ parent' = [m \in Issued \cup {n} |-> IF m # n THEN parent[m] ELSE from]
          /\ UNCHANGED <<revoked, wasted>>
        BY <1>4 DEF Issue
    <2> HIDE DEF n
    <2>3. "issued" \in States
        BY DEF States
    <2>4. /\ task'[s].at = "issued" /\ task'[s].token = n /\ task'[s].kind = task[s].kind
          /\ \A r \in Slots : r # s => task'[r] = task[r]
        BY <1>0, <2>1, <2>2, <2>3, Moved
    <2>5. /\ parent'[n] = from /\ \A k \in Issued : parent'[k] = parent[k]
          /\ \A r \in Slots : task[r].at = "issued" => task[r].token \in Issued
        BY <1>0, <2>1, <2>2 DEF AnswerInv
    <2>6. task[s].kind # "login" => from \in revoked
        BY <1>0, <2>2 DEF AnswerInv, SpentInv
    <2> QED BY <2>2, <2>4, <2>5, <2>6 DEF SpentInv
<1>5. ASSUME NEW s \in Slots,
             RefreshLost(s) \/ LoginFails(s) \/ LogoutDone(s) \/ LogoutLost(s)
      PROVE  SpentInv' /\ wasted' \subseteq revoked'
    <2>1. Ends(s) /\ UNCHANGED <<revoked, parent>>
        BY <1>5 DEF RefreshLost, Clears, LoginFails, LogoutDone, LogoutLost
    <2>2. SpentInv'
        BY <1>0, <2>1, Ended, OneMoved
    <2>3. wasted' \subseteq revoked
        BY <1>5 DEF RefreshLost, LoginFails, LogoutDone, LogoutLost, SpentInv
    <2> QED BY <2>1, <2>2, <2>3
<1>6. ASSUME NEW s \in Slots,
             \/ Open(s) \/ Call(s) \/ Login(s) \/ Logout(s) \/ CallPasses(s) \/ CallRefused(s)
             \/ Find(s) \/ SessionArrives(s) \/ RefreshRefused(s)
      PROVE  SpentInv' /\ wasted' \subseteq revoked'
    <2>1. UNCHANGED <<revoked, parent, wasted>>
        BY <1>6 DEF Open, Call, Login, Logout, CallPasses, CallRefused, Find, SessionArrives,
           RefreshRefused
    <2>2. \/ task' = task \/ Ends(s)
          \/ Starts(s, "asked", "boot") \/ Starts(s, "sent", "call")
          \/ Starts(s, "signing", "login") \/ Starts(s, "leaving", "logout")
          \/ Moves(s, "asked", cookie) \/ Moves(s, "found", task[s].token) \/ Moves(s, "again", 0)
        BY <1>6 DEF Open, Call, Login, Logout, CallPasses, CallRefused, Find, SessionArrives,
           RefreshRefused, Clears
    <2>3. /\ {"asked", "sent", "signing", "leaving", "found", "again"}
                \subseteq States \ {"spent", "left", "issued"}
          /\ cookie \in Nat /\ task[s].token \in Nat
        BY <1>0 DEF States, TokensInv
    <2> QED BY <1>1, <1>2, <2>1, <2>2, <2>3
<1> QED BY <1>1, <1>3, <1>4, <1>5, <1>6 DEF Next, Served, vars, ToLogin, Expire

LEMMA TypedStep ==
    ASSUME SessionInv, SessionInv', SpentInv, TypeOK, [Next]_vars
    PROVE  TypeOK'
<1>1. /\ cookie' \in Issued' \cup {0} /\ revoked' \subseteq Issued'
      /\ task' \in [Slots -> Tasks] /\ \A s \in Slots : task'[s].token \in Issued' \cup {0}
    BY DEF SessionInv, TokensInv
<1> DEFINE Numbered ==
               /\ Issued = 1 .. Cardinality(Issued) /\ Issued \subseteq Token
               /\ \A n \in Issued : parent[n] \in 0 .. n - 1
<1>2. Numbered'
    <2>1. CASE parent' = parent
        <3>1. Issued' = Issued
            BY <2>1 DEF Issued
        <3> QED BY <2>1, <3>1 DEF TypeOK
    <2>2. ASSUME NEW s \in Slots, Issue(s) PROVE Numbered'
        <3> DEFINE n == Cardinality(Issued) + 1
                   from == IF task[s].at = "spent" THEN task[s].token ELSE 0
        <3>1. n \in Nat \ {0} /\ Issued = 1 .. n - 1 /\ n \notin Issued
            BY NextToken DEF SessionInv
        <3>2. n <= MaxTokens /\ parent' = [m \in Issued \cup {n} |-> IF m # n THEN parent[m] ELSE from]
            BY <2>2 DEF Issue
        <3>3. from \in 0 .. n - 1
            BY <3>1 DEF SessionInv, TokensInv
        <3> HIDE DEF n, from
        <3>4. Issued' = Issued \cup {n}
            BY <3>2 DEF Issued
        <3>5. Issued' = 1 .. n
            BY <3>1, <3>4
        <3>6. Cardinality(1 .. n) = n
            BY <3>1, FS_Interval
        <3>7. \A k \in Issued' : parent'[k] \in 0 .. k - 1
            BY <3>1, <3>2, <3>3, <3>4 DEF TypeOK
        <3>8. Issued' \subseteq Token
            BY <3>1, <3>2, <3>5, SlotsAssumption DEF Token
        <3>9. Issued' = 1 .. Cardinality(Issued')
            BY <3>5, <3>6, Zenon
        <3> QED BY <3>7, <3>8, <3>9 DEF Token
    <2> HIDE DEF Numbered
    <2>3. parent' = parent \/ \E s \in Slots : Issue(s)
        BY DEF Next, Served, vars, Open, Call, Login, Logout, CallPasses, CallRefused,
           Find, Revoke, SessionArrives, RefreshRefused, RefreshLost, LoginFails, LogoutRevokes,
           LogoutDone, LogoutLost, ToLogin, Expire, Clears
    <2> QED BY <2>1, <2>2, <2>3
<1>6. \A s \in Slots : Tab(s) \in Tabs
    BY SlotsAssumption DEF Tab
<1>3. /\ access' \in [Tabs -> {"none", "live", "stale"}]
      /\ page' \in [Tabs -> {"closed", "boot", "dash", "held", "login"}]
    <2>1. access' = access \/ \E t \in Tabs, x \in {"none", "live", "stale"} :
                                  access' = SetIn(access, t, x)
        BY <1>6 DEF Next, Served, vars, Open, Call, Login, Logout, CallPasses, CallRefused,
           Find, Revoke, Issue, SessionArrives, RefreshRefused, RefreshLost, LoginFails,
           LogoutRevokes, LogoutDone, LogoutLost, ToLogin, Expire, Clears
    <2> DEFINE OneShown ==
               \/ page' = page
               \/ \E t \in Tabs, x \in {"boot", "dash", "held", "login"} : page' = SetIn(page, t, x)
    <2>2. OneShown
        <3>1. ASSUME NEW s \in Slots, Open(s) PROVE OneShown
            BY <1>6, <3>1 DEF Open, Lands
        <3>2. ASSUME NEW s \in Slots, SessionArrives(s) PROVE OneShown
            BY <1>6, <3>2 DEF SessionArrives, Shows
        <3>3. ASSUME NEW s \in Slots, RefreshRefused(s) \/ RefreshLost(s) PROVE OneShown
            BY <1>6, <3>3 DEF RefreshRefused, RefreshLost, Clears, Shows
        <3>4. ASSUME NEW t \in Tabs, ToLogin(t) PROVE OneShown
            BY <3>4 DEF ToLogin
        <3> QED
            BY <3>1, <3>2, <3>3, <3>4 DEF Next, Served, vars, Call, Login, Logout, CallPasses,
               CallRefused, Find, Revoke, Issue, LoginFails, LogoutRevokes, LogoutDone,
               LogoutLost, Expire
    <2> QED BY <2>1, <2>2 DEF TypeOK, SetIn
<1>4. wasted' \subseteq revoked'
    BY SpentStep DEF TypeOK
<1>5. 0 \in Token
    BY SlotsAssumption DEF Token
<1> QED BY <1>1, <1>2, <1>3, <1>4, <1>5 DEF TypeOK, Tasks, States

(* Tokens are issued in order, each in exchange for an earlier one or for   *)
(* none, and a token whose replacement was lost on the way had been revoked *)
(* for it.                                                                  *)
THEOREM SessionTyped == Spec => []TypeOK
<1>1. SessionInv /\ SessionInv' /\ SpentInv /\ TypeOK /\ [Next]_vars => SpentInv' /\ TypeOK'
    BY SpentStep, TypedStep DEF TypeOK
<1> QED BY <1>1, SessionInit, SessionStep, TypedInit, PTL DEF Spec
=============================================================================
