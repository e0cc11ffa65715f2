---------------------------- MODULE RejoinProofs ----------------------------
(***************************************************************************)
(* Rejoin, for any number of tabs, requests and kicks: no tab is turned    *)
(* away while its request is open, and, with one host page, no decision is *)
(* ever replaced by another.                                               *)
(***************************************************************************)
EXTENDS Rejoin, TLAPS

(* What is proved about.  A tab that waits, waits for a row that exists, and *)
(* so does a submission that found one.                                     *)
RowsInv ==
    /\ request \in Seq(Status)
    /\ screen \in [Tabs -> {"loading", "form", "pending", "rejected", "live"}]
    /\ pendingId \in [Tabs -> Nat]
    /\ DOMAIN call = Tabs

WaitInv ==
    /\ \A t \in Tabs : screen[t] = "pending" => pendingId[t] \in 1 .. Len(request)
    /\ \A t \in Tabs : call[t].at = "writing" =>
          call[t].existing \in 0 .. Len(request)

Inv == RowsInv /\ WaitInv

LEMMA FirstPendingFound ==
    ASSUME request \in Seq(Status)
    PROVE  /\ FirstPending \in 0 .. Len(request)
           /\ FirstPending = 0 => \A i \in 1 .. Len(request) : request[i] # "PENDING"
<1>1. CASE Pending = {}
    BY <1>1 DEF FirstPending, Pending
<1>2. CASE Pending # {}
    <2>1. FirstPending \in Pending
        BY <1>2 DEF FirstPending
    <2> QED BY <2>1 DEF Pending
<1> QED BY <1>1, <1>2

LEMMA InitInv == Init => Inv
BY DEF Init, Inv, RowsInv, WaitInv, Idle, Status

(* Only a decision and a submission write the table: neither shortens it.   *)
LEMMA TableGrows ==
    ASSUME Inv, [Next]_vars
    PROVE  /\ request' \in Seq(Status)
           /\ Len(request) <= Len(request')
<1> USE DEF Inv, RowsInv
<1>1. ASSUME NEW t \in Tabs, WriteRequest(t)
      PROVE  request' \in Seq(Status) /\ Len(request) <= Len(request')
    BY <1>1 DEF WriteRequest, Status
<1>2. ASSUME NEW h \in Hosts, NEW i \in 1 .. Len(request), WriteDecision(h, i)
      PROVE  request' \in Seq(Status) /\ Len(request) <= Len(request')
    BY <1>2 DEF WriteDecision, Status
<1>3. CASE request' = request
    BY <1>3
<1> QED
    BY <1>1, <1>2, <1>3 DEF Next, vars, TabCall, HostCall, Submit, Reload, FindPending,
       ReadParticipant, ReadPending, Decide, Lift, LiftFails, Dismiss, Kick

LEMMA NextInv == Inv /\ [Next]_vars => Inv'
<1> SUFFICES ASSUME Inv, [Next]_vars PROVE Inv'
    OBVIOUS
<1> USE DEF Inv, RowsInv, WaitInv, Shows, Calls, WaitsFor, Idle
<1>1. request' \in Seq(Status) /\ Len(request) <= Len(request')
    BY TableGrows
<1>2. Len(request) \in Nat /\ Len(request') \in Nat
    BY <1>1
<1>3. ASSUME NEW t \in Tabs, Submit(t) PROVE Inv'
    BY <1>3 DEF Submit
<1>4. ASSUME NEW t \in Tabs, FindPending(t) PROVE Inv'
    BY <1>4, FirstPendingFound DEF FindPending
<1>5. ASSUME NEW t \in Tabs, WriteRequest(t) PROVE Inv'
    <2>1. PICK i \in Ids :
              /\ \/ i = call[t].existing /\ request' = request
                 \/ /\ call[t].existing = 0 /\ i = Len(request) + 1
                    /\ request' = Append(request, "PENDING")
              /\ WaitsFor(t, i)
        BY <1>5 DEF WriteRequest
    <2>2. i \in Nat /\ i \in 1 .. Len(request')
        BY <2>1, <1>5, <1>1 DEF WriteRequest, Ids
    <2> QED BY <2>1, <2>2, <1>1, <1>2, <1>5 DEF WriteRequest
<1>6. ASSUME NEW t \in Tabs, Reload(t) PROVE Inv'
    BY <1>6 DEF Reload
<1>7. ASSUME NEW t \in Tabs, ReadParticipant(t) PROVE Inv'
    <2>1. CASE UNCHANGED <<screen, pendingId>>
        BY <1>7, <2>1 DEF ReadParticipant
    <2>2. CASE call' = call /\ WaitsFor(t, 0) /\ \E s \in {"live", "loading"} : Shows(t, s)
        <3>1. PICK s \in {"live", "loading"} : Shows(t, s)
            BY <2>2
        <3> QED BY <1>7, <2>2, <3>1 DEF ReadParticipant
    <2> QED BY <1>7, <2>1, <2>2 DEF ReadParticipant
<1>8. ASSUME NEW t \in Tabs, ReadPending(t) PROVE Inv'
    <2>1. FirstPending \in 0 .. Len(request)
        BY FirstPendingFound
    <2>2. CASE (Shows(t, "form") \/ Shows(t, "rejected")) /\ WaitsFor(t, 0)
        BY <1>8, <2>2 DEF ReadPending
    <2>3. CASE FirstPending # 0 /\ Shows(t, "pending") /\ WaitsFor(t, FirstPending)
        BY <1>8, <2>1, <2>3 DEF ReadPending
    <2>4. CASE UNCHANGED <<screen, pendingId>>
        BY <1>8, <2>4 DEF ReadPending
    <2> QED BY <1>8, <2>2, <2>3, <2>4 DEF ReadPending
<1>9. CASE Kick
    BY <1>9 DEF Kick
<1>10. CASE UNCHANGED tabVars
    BY <1>10, <1>1, <1>2 DEF tabVars
<1> QED
    BY <1>3, <1>4, <1>5, <1>6, <1>7, <1>8, <1>9, <1>10 DEF Next, vars, TabCall, HostCall,
       Decide, WriteDecision, Lift, LiftFails, Dismiss

LEMMA InvHolds == Spec => []Inv
BY InitInv, NextInv, PTL DEF Spec

(* A tab that is told of a rejection waited for a request that was decided: *)
(* KickedRejoinScreen takes "nothing pending" for a rejection, and what it  *)
(* waits for is a row of the table.                                         *)
THEOREM NobodyHastilyRejected == Spec => NoHastyRejection
<1>1. ASSUME Inv, [Next]_vars, NEW t \in Tabs, screen[t] = "pending", screen'[t] = "rejected"
      PROVE  request[pendingId[t]] # "PENDING"
    <2>1. ReadPending(t) /\ FirstPending = 0
        BY <1>1 DEF Inv, RowsInv, Next, vars, TabCall, HostCall, Submit, Reload, FindPending,
           WriteRequest, ReadParticipant, ReadPending, Decide, WriteDecision, Lift, LiftFails,
           Dismiss, Kick, Shows, tabVars
    <2> QED BY <1>1, <2>1, FirstPendingFound DEF Inv, RowsInv, WaitInv
<1>2. Inv /\ [Next]_vars =>
        (\A t \in Tabs : screen[t] = "pending" /\ screen'[t] = "rejected"
            => request[pendingId[t]] # "PENDING")
    BY <1>1
<1> QED BY <1>2, InvHolds, PTL DEF Spec, NoHastyRejection

-----------------------------------------------------------------------------
Deciding == {"none", "APPROVED", "REJECTED", "lift"}

(* One host page.  Between the read and the write of a decision the request *)
(* stays open: nobody else writes it.                                       *)
DecidingInv ==
    /\ act \in [Hosts -> [Ids -> Deciding]]
    /\ Len(request) <= MaxRequests
    /\ \A h \in Hosts : \A i \in 1 .. Len(request) :
          act[h][i] \in {"APPROVED", "REJECTED"} => request[i] = "PENDING"
    /\ \A h \in Hosts : \A i \in Ids : i > Len(request) => act[h][i] = "none"

(* Exactly one decision makes progress.                                     *)
LEMMA ProgressMade ==
    ASSUME act \in [Hosts -> [Ids -> Deciding]],
           NEW h \in Hosts, NEW i \in Ids, NEW s \in Deciding, Progress(h, i, s)
    PROVE  /\ act' \in [Hosts -> [Ids -> Deciding]]
           /\ act'[h][i] = s
           /\ \A g \in Hosts : \A j \in Ids : <<g, j>> # <<h, i>> => act'[g][j] = act[g][j]
BY DEF Progress

(* What DecidedOnce says of one step.                                       *)
Kept == \A i \in 1 .. Len(request) : request[i] # "PENDING" => request'[i] = request[i]

LEMMA DecidingStep ==
    ASSUME \A g, h \in Hosts : g = h, Inv, DecidingInv, [Next]_vars
    PROVE  DecidingInv' /\ Kept
<1> USE BoundsAssumption DEF Inv, RowsInv, DecidingInv, Ids, Kept, Deciding
<1>1. ASSUME NEW t \in Tabs, WriteRequest(t) PROVE DecidingInv' /\ Kept
    <2>1. CASE request' = request
        BY <1>1, <2>1 DEF WriteRequest
    <2>2. CASE request' = Append(request, "PENDING") /\ Len(request) + 1 \in Ids
        <3>1. /\ Len(request') = Len(request) + 1
              /\ \A i \in 1 .. Len(request) : request'[i] = request[i]
              /\ request'[Len(request) + 1] = "PENDING"
            BY <2>2
        <3> QED BY <1>1, <2>2, <3>1 DEF WriteRequest
    <2> QED BY <1>1, <2>1, <2>2 DEF WriteRequest
<1>2. ASSUME NEW h \in Hosts, NEW i \in 1 .. Len(request), NEW d \in {"APPROVED", "REJECTED"},
             Decide(h, i, d)
      PROVE  DecidingInv' /\ Kept
    <2>1. request' = request
        BY <1>2 DEF Decide
    <2>2. CASE act' = act
        BY <2>1, <2>2
    <2>3. CASE request[i] = "PENDING" /\ Progress(h, i, d)
        BY <2>1, <2>3, ProgressMade
    <2> QED BY <1>2, <2>2, <2>3 DEF Decide, Open
<1>3. ASSUME NEW h \in Hosts, NEW i \in 1 .. Len(request), WriteDecision(h, i)
      PROVE  DecidingInv' /\ Kept
    <2>1. PICK s \in {"lift", "none"} : Progress(h, i, s)
        BY <1>3 DEF WriteDecision
    <2>2. /\ request[i] = "PENDING"
          /\ Len(request') = Len(request)
          /\ \A j \in 1 .. Len(request) : j # i => request'[j] = request[j]
        BY <1>3 DEF WriteDecision
    <2>3. /\ act' \in [Hosts -> [Ids -> Deciding]]
          /\ act'[h][i] = s
          /\ \A g \in Hosts : \A j \in Ids : j # i => act'[g][j] = act[g][j]
        BY <2>1, ProgressMade
    <2> QED BY <2>2, <2>3
<1>4. ASSUME NEW h \in Hosts, NEW i \in 1 .. Len(request), Lift(h, i) \/ LiftFails(h, i)
      PROVE  DecidingInv' /\ Kept
    <2>1. request' = request /\ Progress(h, i, "none")
        BY <1>4 DEF Lift, LiftFails
    <2> QED BY <2>1, ProgressMade
<1>5. CASE UNCHANGED <<request, act>>
    BY <1>5
<1>6. ASSUME NEW t \in Tabs, Submit(t) \/ Reload(t) \/ FindPending(t) \/ ReadParticipant(t)
                            \/ ReadPending(t)
      PROVE  UNCHANGED <<request, act>>
    BY <1>6 DEF Submit, Reload, FindPending, ReadParticipant, ReadPending, hostVars
<1>7. Kick \/ (\E h \in Hosts : Dismiss(h)) \/ UNCHANGED vars => UNCHANGED <<request, act>>
    BY DEF Kick, Dismiss, vars, hostVars
<1> QED BY <1>1, <1>2, <1>3, <1>4, <1>5, <1>6, <1>7 DEF Next, TabCall, HostCall

(* With one host page a request is decided once, however often it is sent,  *)
(* shown and clicked again (resolveRequest reads the row before it writes).  *)
THEOREM OneDecision ==
    ASSUME \A g, h \in Hosts : g = h
    PROVE  Spec => DecidedOnce
<1>1. Init => DecidingInv
    BY BoundsAssumption DEF Init, DecidingInv, Deciding, Ids
<1>2. Inv /\ DecidingInv /\ [Next]_vars => DecidingInv'
    BY DecidingStep
<1>3. Inv /\ DecidingInv /\ [Next]_vars =>
        (\A i \in 1 .. Len(request) : request[i] # "PENDING" => request'[i] = request[i])
    BY DecidingStep DEF Kept
<1> QED BY <1>1, <1>2, <1>3, InvHolds, PTL DEF Spec, DecidedOnce

-----------------------------------------------------------------------------
(* Calls, cards and decisions name requests that the bound allows.          *)
Calling ==
    {Idle} \cup [at : {"looking", "polling"}]
        \cup [at : {"writing"}, existing : 0 .. MaxRequests]

LEMMA TabTyped ==
    ASSUME Inv, TypeOK, [Next]_vars
    PROVE  pendingId' \in [Tabs -> 0 .. MaxRequests] /\ call' \in [Tabs -> Calling]
<1> USE BoundsAssumption DEF TypeOK, Calling, Ids
<1>1. FirstPending \in 0 .. MaxRequests
    BY FirstPendingFound DEF Inv, RowsInv
<1>2. \/ pendingId' = pendingId
      \/ \E t \in Tabs, i \in 0 .. MaxRequests : WaitsFor(t, i)
    BY <1>1 DEF Next, vars, tabVars, TabCall, HostCall, Submit, Reload, FindPending,
       WriteRequest, ReadParticipant, ReadPending, Decide, WriteDecision, Lift, LiftFails,
       Dismiss, Kick
<1>3. \/ call' = call
      \/ \E t \in Tabs, c \in Calling : Calls(t, c)
    <2>1. /\ Idle \in Calling /\ [at |-> "looking"] \in Calling /\ [at |-> "polling"] \in Calling
          /\ [at |-> "writing", existing |-> FirstPending] \in Calling
        BY <1>1
    <2> HIDE DEF Calling
    <2> QED
        BY <2>1 DEF Next, vars, tabVars, TabCall, HostCall, Submit, Reload, FindPending,
           WriteRequest, ReadParticipant, ReadPending, Decide, WriteDecision, Lift, LiftFails,
           Dismiss, Kick
<1> HIDE DEF Calling
<1>4. call \in [Tabs -> Calling]
    BY DEF Calling
<1> QED BY <1>2, <1>3, <1>4 DEF WaitsFor, Calls

LEMMA HostTyped ==
    ASSUME Inv, TypeOK, [Next]_vars
    PROVE  card' \in [Hosts -> 0 .. MaxRequests] /\ act' \in [Hosts -> [Ids -> Deciding]]
<1> USE BoundsAssumption DEF Ids
<1>1. /\ card \in [Hosts -> 0 .. MaxRequests] /\ act \in [Hosts -> [Ids -> Deciding]]
      /\ Len(request) \in 0 .. MaxRequests
    BY DEF TypeOK, Deciding, Inv, RowsInv
<1>2. \/ card' = card
      \/ \E i \in Ids : card' = [h \in Hosts |-> i]
      \/ \E i \in Ids : Echo(i)
      \/ \E h \in Hosts : card' = [card EXCEPT ![h] = 0]
    BY <1>1 DEF Next, vars, hostVars, TabCall, HostCall, Submit, Reload, FindPending,
       WriteRequest, ReadParticipant, ReadPending, Decide, WriteDecision, Lift, LiftFails,
       Dismiss, Kick
<1>3. \/ act' = act
      \/ \E h \in Hosts, i \in Ids, s \in Deciding : Progress(h, i, s)
    BY <1>1 DEF Next, vars, hostVars, TabCall, HostCall, Submit, Reload, FindPending,
       WriteRequest, ReadParticipant, ReadPending, Decide, WriteDecision, Lift, LiftFails,
       Dismiss, Kick, Deciding
<1>4. card' \in [Hosts -> 0 .. MaxRequests]
    <2>1. 0 \in 0 .. MaxRequests /\ Ids \subseteq 0 .. MaxRequests
        OBVIOUS
    <2> DEFINE Card == 0 .. MaxRequests
    <2>2. card \in [Hosts -> Card] /\ 0 \in Card /\ Ids \subseteq Card
        BY <1>1, <2>1
    <2> HIDE DEF Card, Ids
    <2>3. card' \in [Hosts -> Card]
        BY <1>2, <2>2 DEF Echo
    <2> QED BY <2>3 DEF Card
<1>5. act' \in [Hosts -> [Ids -> Deciding]]
    BY <1>1, <1>3, ProgressMade
<1> QED BY <1>4, <1>5

(* Whatever tabs and host pages do at once, they only ever wait for, show   *)
(* and decide requests of the table.                                        *)
THEOREM RejoinTyped == Spec => []TypeOK
<1>1. Init => TypeOK
    BY BoundsAssumption DEF Init, TypeOK, Idle
<1>2. Inv /\ Inv' /\ TypeOK /\ [Next]_vars => TypeOK'
    <2> SUFFICES ASSUME Inv, Inv', TypeOK, [Next]_vars PROVE TypeOK'
        OBVIOUS
    <2>1. Len(request') <= MaxRequests
        <3>1. ASSUME NEW t \in Tabs, WriteRequest(t) PROVE Len(request') <= MaxRequests
            BY <3>1, BoundsAssumption DEF WriteRequest, Ids, TypeOK
        <3>2. ASSUME NEW h \in Hosts, NEW i \in 1 .. Len(request), WriteDecision(h, i)
              PROVE  Len(request') <= MaxRequests
            BY <3>2 DEF WriteDecision, TypeOK
        <3>3. CASE request' = request
            BY <3>3 DEF TypeOK
        <3> QED
            BY <3>1, <3>2, <3>3 DEF Next, vars, TabCall, HostCall, Submit, Reload, FindPending,
               ReadParticipant, ReadPending, Decide, Lift, LiftFails, Dismiss, Kick
    <2>2. kicked' \in BOOLEAN /\ kicks' \in 0 .. MaxKicks
        <3>1. \/ UNCHANGED <<kicked, kicks>>
              \/ kicked' = FALSE /\ kicks' = kicks
              \/ kicked' = TRUE /\ kicks < MaxKicks /\ kicks' = kicks + 1
            BY DEF Next, vars, TabCall, HostCall, Submit, Reload, FindPending, WriteRequest,
               ReadParticipant, ReadPending, Decide, WriteDecision, Lift, LiftFails, Dismiss, Kick
        <3>2. kicked \in BOOLEAN /\ kicks \in 0 .. MaxKicks /\ MaxKicks \in Nat
            BY BoundsAssumption DEF TypeOK
        <3>3. kicked' \in BOOLEAN
            BY <3>1, <3>2, Zenon
        <3>4. kicks' \in 0 .. MaxKicks
            <4>1. kicks' = kicks \/ (kicks < MaxKicks /\ kicks' = kicks + 1)
                BY <3>1
            <4> QED BY <3>2, <4>1
        <3> QED BY <3>3, <3>4
    <2> QED BY <2>1, <2>2, TabTyped, HostTyped DEF TypeOK, Inv, RowsInv, Calling, Deciding
<1> QED BY <1>1, <1>2, InvHolds, PTL DEF Spec
=============================================================================
