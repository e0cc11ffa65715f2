------------------------------- MODULE Rejoin -------------------------------
(***************************************************************************)
(* How one kicked participant asks to come back: RejoinRequestsService,    *)
(* the room endpoint, KickedRejoinScreen in each of the participant's tabs,*)
(* and the cards (RejoinRequestsToast) in each host client.                *)
(*                                                                         *)
(* A kicked client has no socket, so it polls.  Every statement of a call  *)
(* is an action of its own: submitting reads the participant, looks for a  *)
(* pending row, writes; a poll reads the participant, then the pending     *)
(* row; a decision reads the row, writes it, and an approval then clears   *)
(* the kick.  A poll that fails is one that has not been made yet.         *)
(***************************************************************************)
EXTENDS Naturals, Sequences

CONSTANTS
    Tabs,          \* the participant's pages
    Hosts,         \* the host's pages
    MaxRequests,   \* bound: rows of rejoin_requests
    MaxKicks       \* bound: further kicks after the first one

ASSUME BoundsAssumption == MaxRequests \in Nat /\ MaxKicks \in Nat

VARIABLES
    request,   \* rejoin_requests of the participant: their status, in order
    kicked,    \* meetingParticipant.wasKicked
    screen,    \* what each tab shows
    pendingId, \* the request each tab waits for, 0 when none
    call,      \* the HTTP call of each tab, and what it has read
    card,      \* the request each host page shows, 0 when none
    act,       \* act[h][i]: how far a decision of page h on request i has got
    kicks

tabVars == <<screen, pendingId, call>>
hostVars == <<card, act>>
vars == <<request, kicked, tabVars, hostVars, kicks>>

Ids == 1 .. MaxRequests
Status == {"PENDING", "APPROVED", "REJECTED"}
Idle == [at |-> "idle"]

TypeOK ==
    /\ request \in Seq(Status) /\ Len(request) <= MaxRequests
    /\ kicked \in BOOLEAN /\ kicks \in 0 .. MaxKicks
    /\ screen \in [Tabs -> {"loading", "form", "pending", "rejected", "live"}]
    /\ pendingId \in [Tabs -> 0 .. MaxRequests]
    /\ call \in [Tabs -> {Idle} \cup [at : {"looking", "polling"}]
                         \cup [at : {"writing"}, existing : 0 .. MaxRequests]]
    /\ card \in [Hosts -> 0 .. MaxRequests]
    /\ act \in [Hosts -> [Ids -> {"none", "APPROVED", "REJECTED", "lift"}]]

Init ==
    /\ request = <<>> /\ kicked = TRUE /\ kicks = 0
    /\ screen = [t \in Tabs |-> "form"]
    /\ pendingId = [t \in Tabs |-> 0]
    /\ call = [t \in Tabs |-> Idle]
    /\ card = [h \in Hosts |-> 0]
    /\ act = [h \in Hosts |-> [i \in Ids |-> "none"]]

Pending == {i \in 1 .. Len(request) : request[i] = "PENDING"}

Shows(t, s) == screen' = [screen EXCEPT ![t] = s]
Calls(t, c) == call' = [call EXCEPT ![t] = c]
WaitsFor(t, i) == pendingId' = [pendingId EXCEPT ![t] = i]

-----------------------------------------------------------------------------
(* createRequest.  Who is not kicked any more gets 409, and nothing changes. *)
Submit(t) ==
    /\ screen[t] \in {"form", "rejected"} /\ call[t] = Idle
    /\ kicked
    /\ Calls(t, [at |-> "looking"])
    /\ UNCHANGED <<request, kicked, screen, pendingId, hostVars, kicks>>

FirstPending == IF Pending = {} THEN 0 ELSE CHOOSE i \in Pending : TRUE

FindPending(t) ==
    /\ call[t].at = "looking"
    /\ Calls(t, [at |-> "writing", existing |-> FirstPending])
    /\ UNCHANGED <<request, kicked, screen, pendingId, hostVars, kicks>>

(* update or create, meeting:rejoin-requested to the hosts, the answer.     *)
WriteRequest(t) ==
    /\ call[t].at = "writing"
    /\ \E i \in Ids :
        /\ \/ i = call[t].existing /\ request' = request
           \/ /\ call[t].existing = 0 /\ i = Len(request) + 1
              /\ request' = Append(request, "PENDING")
        /\ card' = [h \in Hosts |-> i]
        /\ WaitsFor(t, i)
    /\ Shows(t, "pending") /\ Calls(t, Idle)
    /\ UNCHANGED <<kicked, act, kicks>>

-----------------------------------------------------------------------------
(* GET /room: by the poll of a pending screen, or by a page that loads.     *)
Reload(t) ==
    /\ screen[t] \in {"form", "pending", "rejected"} /\ call[t] = Idle
    /\ Shows(t, "loading") /\ WaitsFor(t, 0)
    /\ UNCHANGED <<request, kicked, call, hostVars, kicks>>

ReadParticipant(t) ==
    /\ screen[t] \in {"loading", "pending"} /\ call[t] = Idle
    /\ \/ kicked /\ Calls(t, [at |-> "polling"]) /\ UNCHANGED <<screen, pendingId>>
       \/ /\ ~kicked /\ call' = call
          /\ Shows(t, IF screen[t] = "loading" THEN "live" ELSE "loading")
          /\ WaitsFor(t, 0)
    /\ UNCHANGED <<request, kicked, hostVars, kicks>>

ReadPending_Mine(t) ==
    /\ call[t].at = "polling"
    /\ Calls(t, Idle)
    /\ \/ /\ screen[t] = "loading"
          /\ Shows(t, IF FirstPending = 0 THEN "form" ELSE "pending")
          /\ WaitsFor(t, FirstPending)
       \/ /\ screen[t] = "pending" /\ FirstPending # pendingId[t]
          /\ Shows(t, "rejected") /\ WaitsFor(t, 0)
       \/ /\ screen[t] = "pending" /\ FirstPending = pendingId[t]
          /\ UNCHANGED <<screen, pendingId>>
    /\ UNCHANGED <<request, kicked, hostVars, kicks>>

ReadPending_Patient(t) ==
    /\ call[t].at = "polling"
    /\ Calls(t, Idle)
    /\ \/ /\ screen[t] = "loading"
          /\ Shows(t, IF FirstPending = 0 THEN "form" ELSE "pending")
          /\ WaitsFor(t, FirstPending)
       \/ screen[t] = "pending" /\ UNCHANGED <<screen, pendingId>>
    /\ UNCHANGED <<request, kicked, hostVars, kicks>>

(* The answer: a load shows what it found; a poll that finds nothing pending *)
(* takes it for a rejection, and one that finds anything goes on.            *)
ReadPending(t) ==
    /\ call[t].at = "polling"
    /\ Calls(t, Idle)
    /\ \/ /\ screen[t] = "loading"
          /\ Shows(t, IF FirstPending = 0 THEN "form" ELSE "pending")
          /\ WaitsFor(t, FirstPending)
       \/ /\ screen[t] = "pending" /\ FirstPending = 0
          /\ Shows(t, "rejected") /\ WaitsFor(t, 0)
       \/ /\ screen[t] = "pending" /\ FirstPending # 0
          /\ UNCHANGED <<screen, pendingId>>
    /\ UNCHANGED <<request, kicked, hostVars, kicks>>

-----------------------------------------------------------------------------
Progress(h, i, s) == act' = [act EXCEPT ![h][i] = s]
Echo(i) == card' = [h \in Hosts |-> IF card[h] = i THEN 0 ELSE card[h]]

(* resolveRequest reads the row; one already decided is only answered.      *)
Open_Always(i) == TRUE
Open(i) == request[i] = "PENDING"

Decide(h, i, decision) ==
    /\ card[h] = i /\ act[h][i] = "none"
    /\ \/ Open(i) /\ Progress(h, i, decision) /\ card' = card
       \/ ~Open(i) /\ act' = act /\ card' = [card EXCEPT ![h] = 0]
    /\ UNCHANGED <<request, kicked, tabVars, kicks>>

WriteDecision(h, i) ==
    /\ act[h][i] \in {"APPROVED", "REJECTED"}
    /\ request' = [request EXCEPT ![i] = act[h][i]]
    /\ \/ act[h][i] = "APPROVED" /\ Progress(h, i, "lift") /\ card' = card
       \/ act[h][i] = "REJECTED" /\ Progress(h, i, "none") /\ Echo(i)
    /\ UNCHANGED <<kicked, tabVars, kicks>>

Lift(h, i) ==
    /\ act[h][i] = "lift"
    /\ kicked' = FALSE /\ Progress(h, i, "none") /\ Echo(i)
    /\ UNCHANGED <<request, tabVars, kicks>>

(* The second statement of an approval fails: the card stays, with an error. *)
LiftFails(h, i) ==
    /\ act[h][i] = "lift"
    /\ Progress(h, i, "none")
    /\ UNCHANGED <<request, kicked, tabVars, card, kicks>>

(* The card's cross, or a reload of the host's page: nothing is fetched.    *)
Dismiss(h) ==
    /\ card[h] # 0
    /\ card' = [card EXCEPT ![h] = 0]
    /\ UNCHANGED <<request, kicked, tabVars, act, kicks>>

(* Kicked again: the pages in the room show the form.                       *)
Kick ==
    /\ ~kicked /\ kicks < MaxKicks
    /\ kicked' = TRUE /\ kicks' = kicks + 1
    /\ screen' = [t \in Tabs |-> IF screen[t] = "live" THEN "form" ELSE screen[t]]
    /\ UNCHANGED <<request, pendingId, call, hostVars>>

TabCall(t) == FindPending(t) \/ WriteRequest(t) \/ ReadParticipant(t) \/ ReadPending(t)
HostCall(h, i) == WriteDecision(h, i) \/ Lift(h, i)

Next ==
    \/ \E t \in Tabs : Submit(t) \/ Reload(t) \/ TabCall(t)
    \/ \E h \in Hosts, i \in 1 .. Len(request) :
        \/ \E d \in {"APPROVED", "REJECTED"} : Decide(h, i, d)
        \/ HostCall(h, i) \/ LiftFails(h, i)
    \/ \E h \in Hosts : Dismiss(h)
    \/ Kick

(* Calls are answered and the pending screen keeps polling; nobody has to   *)
(* submit, decide or reload.                                                *)
Fairness == \A t \in Tabs : WF_vars(TabCall(t))

Spec == Init /\ [][Next]_vars /\ Fairness

-----------------------------------------------------------------------------
(* One host page: a request is decided once, however often it is sent       *)
(* again, shown again and clicked again ("Idempotent - if already resolved, *)
(* just return the existing state").                                        *)
DecidedOnce ==
    [][\A i \in 1 .. Len(request) :
        request[i] # "PENDING" => request'[i] = request[i]]_vars

(* A tab that is told of a rejection waited for a request that was decided; *)
(* a request still open is never shown as refused.                          *)
NoHastyRejection ==
    [][\A t \in Tabs : screen[t] = "pending" /\ screen'[t] = "rejected"
        => request[pendingId[t]] # "PENDING"]_vars

(* The waiting screen is left once everything has been decided, although    *)
(* no message can reach the page.                                           *)
PendingIsAnswered ==
    \A t \in Tabs :
        screen[t] = "pending" /\ Pending = {} ~> screen[t] # "pending" \/ Pending # {}

(* "wasKicked=true, no pendingRejoinRequestId: host RESOLVED our pending    *)
(* row but left us kicked - REJECTED."                                      *)
RejectionIsReal ==
    [][\A t \in Tabs : screen[t] = "pending" /\ screen'[t] = "rejected"
        => request[pendingId[t]] = "REJECTED"]_vars
=============================================================================
