------------------------------ MODULE Meetings ------------------------------
(***************************************************************************)
(* The life of one meeting in Postgres: its row (status, timestamps, lock  *)
(* and password) and one meeting_participants row per seat taken, with the *)
(* attendance that MeetingsService, HostActionsService and AutoEndService  *)
(* account for there.                                                      *)
(*                                                                         *)
(* No call uses one transaction for what it reads and what it then writes: *)
(* each statement is a step of its own, and a call keeps what it read (the *)
(* meeting, a row, the time) until its last write.  A call that waits is a *)
(* task in one of the Slots; `Serial' says whether calls may overlap, which *)
(* nothing in the code prevents.  Presence is abstract here: a seat is      *)
(* online in Redis or not (Presence.tla has the detail).                   *)
(***************************************************************************)
EXTENDS Integers, Sequences, FiniteSets

CONSTANTS
    Users,          \* registered users
    Host,           \* the user who created the meeting
    Admins,         \* users whose role is ADMIN
    Gates,          \* what may be put before newcomers: "lock", "password"
    MaxSeats,       \* bound on the participant rows of the meeting
    Slots,          \* bound: that many calls wait for Postgres at once
    Serial,         \* may calls not overlap?
    MaxTime,        \* bound on the clock
    MinDuration,    \* MIN_DURATION_MIN (60)
    IdleGrace,      \* IDLE_GRACE_MIN (3)
    None            \* null

Time == 0 .. MaxTime
Ids == 1 .. MaxSeats
Statuses == {"SCHEDULED", "LIVE", "ENDED"}
Meeting == [status: Statuses, started: Time \cup {None}, ended: Time \cup {None},
            duration: Time \cup {None}, active: Time \cup {None}, gates: SUBSET Gates]

(* A meeting_participants row; `user' is None for a guest, `last' is         *)
(* lastJoinedAt, `left' says whether leftAt is set, `total' is               *)
(* totalDurationSeconds.                                                     *)
Seat == [user: Users \cup {None}, joined: Time, last: Time \cup {None},
         left: BOOLEAN, total: Nat, kicked: BOOLEAN]

ASSUME UsersAssumption == Host \in Users /\ Admins \subseteq Users
ASSUME GatesAssumption == Gates \subseteq {"lock", "password"}
ASSUME SlotsAssumption == IsFiniteSet(Slots) /\ Slots # {} /\ Serial \in BOOLEAN
ASSUME BoundAssumption == MaxSeats \in Nat \ {0} /\ MaxTime \in Nat
ASSUME GraceAssumption == MinDuration \in Nat /\ IdleGrace \in Nat
ASSUME NoneAssumption == None \notin Users \cup Time \cup Meeting \cup Seat \cup (Gates \X BOOLEAN)

VARIABLES
    meeting,    \* the meetings row
    seats,      \* the meeting_participants rows, in the order of creation
    online,     \* the seats Redis holds online
    leaving,    \* leaving[i]: where recordParticipantLeft(i) stands, or None
    task,       \* task[t]: the call that waits in slot t, or None
    now         \* the clock

vars == <<meeting, seats, online, leaving, task, now>>

(* What the next statement of a call is: "lookup" and "sit" and "touch" of   *)
(* a join; "presence", "refresh", "list", "credit", "close" and "dismiss" of *)
(* an end or a sweep; "target", "kick" and "drop" of a kick; "gate".         *)
Stages == {"lookup", "sit", "touch", "presence", "refresh", "list", "credit",
           "close", "dismiss", "target", "kick", "drop", "gate"}

(* `m' is the meeting as the call read it, `user' who joins, `id' the seat    *)
(* joined or kicked and `rows' the seats as read, `at' the call's new Date(), *)
(* `change' the gate to put up or take down.                                 *)
Task == [stage: Stages, m: Meeting, user: Users \cup {None}, id: 0 .. MaxSeats,
         rows: [Ids -> Seat \cup {None}], at: Time, change: (Gates \X BOOLEAN) \cup {None}]

(* What recordParticipantLeft has read, if anything, and when.               *)
Leaver == [row: Seat \cup {None}, at: Time]

-----------------------------------------------------------------------------
Read(ids) == [i \in Ids |-> IF i \in ids THEN seats[i] ELSE None]
NewTask(stage, user, id, change) ==
    [stage |-> stage, m |-> meeting, user |-> user, id |-> id,
     rows |-> Read({}), at |-> now, change |-> change]

Idle(t) == task[t] = None
At(t, stage) == ~Idle(t) /\ task[t].stage = stage
Quiet == (\A t \in Slots : Idle(t)) /\ \A i \in Ids : leaving[i] = None

Begin(new) ==
    /\ Serial => Quiet
    /\ \E t \in Slots : Idle(t) /\ task' = [task EXCEPT ![t] = new]
Finish(t) == task' = [task EXCEPT ![t] = None]
Becomes(t, j) == task' = [task EXCEPT ![t] = j]
GoOn(t, stage) == Becomes(t, [task[t] EXCEPT !.stage = stage])

SeatsOf(u) == {i \in DOMAIN seats : seats[i].user = u}

(* HostAuthzService.assertCanHost: the owner or an admin, who has joined.    *)
MayHost(u) == u \in {Host} \cup Admins /\ SeatsOf(u) # {}

OrElse(x, y) == IF x = None THEN y ELSE x

(* Whole seconds of the open session of a row, 0 when there is none.         *)
Seconds(row, at) == IF row.last = None \/ row.last > at THEN 0 ELSE at - row.last

-----------------------------------------------------------------------------
(* create: a meeting scheduled for later, or live at once.                   *)
Init ==
    /\ \E status \in {"SCHEDULED", "LIVE"} :
          meeting = [status |-> status, started |-> IF status = "LIVE" THEN 0 ELSE None,
                     ended |-> None, duration |-> None, active |-> None, gates |-> {}]
    /\ seats = <<>>
    /\ online = {}
    /\ leaving = [i \in Ids |-> None]
    /\ task = [t \in Slots |-> None]
    /\ now = 0

Tick == now < MaxTime /\ now' = now + 1 /\ UNCHANGED <<meeting, seats, online, leaving, task>>

(* Bound: there is a row left for one more newcomer.                         *)
RoomLeft ==
    Len(seats) + Cardinality({t \in Slots : (At(t, "lookup") \/ At(t, "sit")) /\ task[t].id = 0})
        < MaxSeats

(* Mutation: assertJoinable lets everybody pass.                             *)
Joinable_Always(m) == TRUE

(* assertJoinable (nothing in the code cancels a meeting).                   *)
Joinable(m) == m.status # "ENDED"

(* joinAsGuest: the gates are those of the meeting as read, for every guest. *)
JoinAsGuest(secret) ==
    /\ Joinable(meeting)
    /\ "lock" \notin meeting.gates
    /\ "password" \in meeting.gates => secret
    /\ RoomLeft
    /\ Begin(NewTask("sit", None, 0, None))
    /\ UNCHANGED <<meeting, seats, online, leaving, now>>

JoinAsRegistered(u) ==
    /\ Joinable(meeting)
    /\ SeatsOf(u) # {} \/ RoomLeft
    /\ Begin(NewTask("lookup", u, 0, None))
    /\ UNCHANGED <<meeting, seats, online, leaving, now>>

(* Mutation: the kicked are let in again.                                    *)
Admitted_Kicked(u, i, m, secret) ==
    \/ i # 0 \/ u \in {Host} \cup Admins
    \/ "lock" \notin m.gates /\ ("password" \in m.gates => secret)

(* Mutation: a registered user is not asked about the gates.                 *)
Admitted_NoGate(u, i, m, secret) == i # 0 => ~seats[i].kicked

(* The gates before a registered user whose seat is i (0: none yet).         *)
Admitted(u, i, m, secret) ==
    IF i # 0 THEN ~seats[i].kicked
    ELSE \/ u \in {Host} \cup Admins
         \/ "lock" \notin m.gates /\ ("password" \in m.gates => secret)

(* Mutation: only a row that has not left is found.                          *)
Existing_Present(u) ==
    LET mine == {i \in SeatsOf(u) : ~seats[i].left} IN IF mine = {} THEN {0} ELSE mine

(* findFirst: any of the user's rows (there is no order), or none.           *)
Existing(u) == IF SeatsOf(u) = {} THEN {0} ELSE SeatsOf(u)

Lookup(t, secret) ==
    LET u == task[t].user IN
    /\ At(t, "lookup")
    /\ \E i \in Existing(u) :
          IF Admitted(u, i, task[t].m, secret)
          THEN Becomes(t, [task[t] EXCEPT !.stage = "sit", !.id = i, !.at = now])
          ELSE Finish(t)
    /\ UNCHANGED <<meeting, seats, online, leaving, now>>

(* The row is created, or revived with a new lastJoinedAt.                   *)
Sit(t) ==
    LET j == task[t] IN
    /\ At(t, "sit")
    /\ IF j.id = 0
       THEN seats' = Append(seats, [user |-> j.user, joined |-> j.at, last |-> j.at,
                                  left |-> FALSE, total |-> 0, kicked |-> FALSE])
       ELSE seats' = [seats EXCEPT ![j.id] = [@ EXCEPT !.left = FALSE, !.last = j.at]]
    /\ Becomes(t, [j EXCEPT !.stage = "touch",
                            !.id = IF @ = 0 THEN Len(seats) + 1 ELSE @])
    /\ UNCHANGED <<meeting, online, leaving, now>>

(* Mutation: the host's first join does not stamp startedAt.                 *)
Opened_NotStarted(j) == [meeting EXCEPT !.status = "LIVE", !.active = j.at]

(* The host's join of a scheduled meeting: it goes live.                     *)
Opened(j) == [meeting EXCEPT !.status = "LIVE", !.active = j.at,
                             !.started = OrElse(j.m.started, j.at)]

(* Every other join writes activity and startedAt, a guest's the status too,  *)
(* all three computed from the meeting as it was READ.                       *)
Touched(j) ==
    IF j.user = None
    THEN [meeting EXCEPT !.active = j.at, !.started = OrElse(j.m.started, j.at),
                         !.status = IF j.m.status = "SCHEDULED" THEN "LIVE" ELSE j.m.status]
    ELSE [meeting EXCEPT !.active = j.at,
                         !.started = IF j.m.status = "LIVE" THEN OrElse(j.m.started, j.at)
                                     ELSE j.m.started]

Touch(t) ==
    LET j == task[t] IN
    /\ At(t, "touch")
    /\ meeting' = IF j.m.status = "SCHEDULED" /\ j.user = Host THEN Opened(j) ELSE Touched(j)
    /\ Finish(t)
    /\ UNCHANGED <<seats, online, leaving, now>>
-----------------------------------------------------------------------------
(* The gateway's handshake asks for a row that is not kicked, of a meeting in *)
(* any status; a guest's token is the answer to the join.                    *)
Authenticated(i) ==
    /\ ~seats[i].kicked
    /\ seats[i].user = None => ~\E t \in Slots : At(t, "touch") /\ task[t].id = i

(* meeting:join on the gateway: presence and the activity clock, but nothing *)
(* of the attendance, is written.                                            *)
Enter(i) ==
    /\ i \in DOMAIN seats \ online
    /\ Authenticated(i)
    /\ leaving[i] = None
    /\ online' = online \cup {i}
    /\ meeting' = [meeting EXCEPT !.active = now]
    /\ UNCHANGED <<seats, leaving, task, now>>

(* recordParticipantLeft is about to read its row.                           *)
Leaving == [row |-> None, at |-> 0]

(* meeting:leave, or the last socket's disconnect.                           *)
Exit(i) ==
    /\ Serial => Quiet
    /\ i \in online
    /\ online' = online \ {i}
    /\ leaving' = [leaving EXCEPT ![i] = Leaving]
    /\ UNCHANGED <<meeting, seats, task, now>>

(* recordParticipantLeft, in two statements (and its touch of the meeting).  *)
ReadLeaver(i) ==
    /\ leaving[i] # None /\ leaving[i].row = None
    /\ leaving' = [leaving EXCEPT ![i] = [row |-> seats[i], at |-> now]]
    /\ UNCHANGED <<meeting, seats, online, task, now>>

(* Mutation: lastJoinedAt is not cleared.                                    *)
Closed_StillOpen(i, row, at) == [seats[i] EXCEPT !.left = TRUE, !.total = @ + Seconds(row, at)]

(* A session is closed: credited as it was READ, never to be counted again.  *)
Closed(i, row, at) == [seats[i] EXCEPT !.left = TRUE, !.last = None,
                                       !.total = @ + Seconds(row, at)]

WriteLeaver(i) ==
    /\ leaving[i] # None /\ leaving[i].row # None
    /\ seats' = [seats EXCEPT ![i] = Closed(i, leaving[i].row, leaving[i].at)]
    /\ meeting' = [meeting EXCEPT !.active = leaving[i].at]
    /\ leaving' = [leaving EXCEPT ![i] = None]
    /\ UNCHANGED <<online, task, now>>
-----------------------------------------------------------------------------
(* HostActionsService.end; ending an ended meeting does nothing.             *)
End(u) ==
    /\ MayHost(u)
    /\ meeting.status # "ENDED"
    /\ Begin(NewTask("list", None, 0, None))
    /\ UNCHANGED <<meeting, seats, online, leaving, now>>

(* Mutation: a meeting nobody was ever active in is not a candidate.         *)
Inactive_Stamped(m) == m.active # None /\ m.active < now - IdleGrace
Inactive(m) == m.active # None => m.active < now - IdleGrace
Candidate(m) ==
    /\ m.status = "LIVE"
    /\ m.started # None /\ m.started < now - MinDuration
    /\ Inactive(m)

(* AutoEndService.sweep, once a minute.                                      *)
Sweep ==
    /\ Candidate(meeting)
    /\ Begin(NewTask("presence", None, 0, None))
    /\ UNCHANGED <<meeting, seats, online, leaving, now>>

AskPresence(t) ==
    /\ At(t, "presence")
    /\ Becomes(t, [task[t] EXCEPT !.stage = IF online # {} THEN "refresh" ELSE "list",
                                  !.at = now])
    /\ UNCHANGED <<meeting, seats, online, leaving, now>>

Refresh(t) ==
    /\ At(t, "refresh")
    /\ meeting' = [meeting EXCEPT !.active = task[t].at]
    /\ Finish(t)
    /\ UNCHANGED <<seats, online, leaving, now>>

(* The open sessions, to be finalized in one transaction.                    *)
ListOpen(t) ==
    /\ At(t, "list")
    /\ Becomes(t, [task[t] EXCEPT !.stage = "credit",
                                  !.rows = Read({i \in DOMAIN seats : seats[i].last # None})])
    /\ UNCHANGED <<meeting, seats, online, leaving, now>>

CreditOpen(t) ==
    /\ At(t, "credit")
    /\ seats' = [i \in DOMAIN seats |->
                   IF task[t].rows[i] # None THEN Closed(i, task[t].rows[i], task[t].at)
                   ELSE seats[i]]
    /\ GoOn(t, "close")
    /\ UNCHANGED <<meeting, online, leaving, now>>

Duration(m, at) == IF m.started = None THEN None ELSE at - m.started

Close(t) ==
    LET e == task[t] IN
    /\ At(t, "close")
    /\ meeting' = [meeting EXCEPT !.status = "ENDED", !.ended = e.at, !.active = e.at,
                                  !.duration = Duration(e.m, e.at)]
    /\ GoOn(t, "dismiss")
    /\ UNCHANGED <<seats, online, leaving, now>>

(* LiveKit's room is deleted; broadcastEnded disconnects every socket.       *)
Dismiss(t) ==
    /\ At(t, "dismiss")
    /\ online' = {}
    /\ leaving' = [i \in Ids |-> IF i \in online THEN Leaving ELSE leaving[i]]
    /\ Finish(t)
    /\ UNCHANGED <<meeting, seats, now>>
-----------------------------------------------------------------------------
(* HostActionsService.kick of seat i, unless it is the host's or one's own.  *)
Kick(u, i) ==
    /\ MayHost(u)
    /\ meeting.status # "ENDED"
    /\ i \in DOMAIN seats /\ seats[i].user \notin {u, Host}
    /\ Begin(NewTask("target", None, i, None))
    /\ UNCHANGED <<meeting, seats, online, leaving, now>>

ReadTarget(t) ==
    LET i == task[t].id IN
    /\ At(t, "target")
    /\ Becomes(t, [task[t] EXCEPT !.stage = IF seats[i].kicked THEN "drop" ELSE "kick",
                                  !.rows = Read({i}), !.at = now])
    /\ UNCHANGED <<meeting, seats, online, leaving, now>>

(* A kick closes the open session like a leave does.                         *)
WriteKick(t) ==
    LET i == task[t].id IN
    /\ At(t, "kick")
    /\ seats' = [seats EXCEPT ![i] = [Closed(i, task[t].rows[i], task[t].at) EXCEPT !.kicked = TRUE]]
    /\ GoOn(t, "drop")
    /\ UNCHANGED <<meeting, online, leaving, now>>

(* forgetParticipant, LiveKit, broadcastKicked: the sockets are closed.  Their *)
(* disconnect finds no presence row, so it only marks activity; the repeated   *)
(* kick forgets nothing, so there it is an ordinary disconnect.                *)
Drop(t) ==
    LET i == task[t].id
        again == task[t].rows[i].kicked IN
    /\ At(t, "drop")
    /\ online' = online \ {i}
    /\ leaving' = IF again /\ i \in online THEN [leaving EXCEPT ![i] = Leaving] ELSE leaving
    /\ meeting' = IF ~again /\ i \in online THEN [meeting EXCEPT !.active = now] ELSE meeting
    /\ Finish(t)
    /\ UNCHANGED <<seats, now>>

(* resolveRequest, APPROVED: the statement that lifts the kick.              *)
Approve(u, i) ==
    /\ MayHost(u)
    /\ Serial => Quiet
    /\ i \in DOMAIN seats /\ seats[i].kicked
    /\ seats' = [seats EXCEPT ![i] = [@ EXCEPT !.kicked = FALSE, !.left = FALSE]]
    /\ UNCHANGED <<meeting, online, leaving, task, now>>

(* lock, unlock, setPassword, clearPassword; a repeated lock or unlock       *)
(* returns at once.                                                          *)
SetGate(u, g, on) ==
    /\ MayHost(u)
    /\ meeting.status # "ENDED"
    /\ g = "lock" => (g \in meeting.gates) # on
    /\ Begin(NewTask("gate", None, 0, <<g, on>>))
    /\ UNCHANGED <<meeting, seats, online, leaving, now>>

WriteGate(t) ==
    /\ At(t, "gate")
    /\ meeting' = [meeting EXCEPT !.gates =
                      IF task[t].change[2] THEN @ \cup {task[t].change[1]}
                      ELSE @ \ {task[t].change[1]}]
    /\ Finish(t)
    /\ UNCHANGED <<seats, online, leaving, now>>
-----------------------------------------------------------------------------
Answer(t) ==
    \/ \E secret \in BOOLEAN : Lookup(t, secret)
    \/ Sit(t) \/ Touch(t)
    \/ AskPresence(t) \/ Refresh(t)
    \/ ListOpen(t) \/ CreditOpen(t) \/ Close(t) \/ Dismiss(t)
    \/ ReadTarget(t) \/ WriteKick(t) \/ Drop(t)
    \/ WriteGate(t)

Farewell(i) == ReadLeaver(i) \/ WriteLeaver(i)

Next ==
    \/ \E secret \in BOOLEAN : JoinAsGuest(secret)
    \/ \E u \in Users : JoinAsRegistered(u) \/ End(u)
    \/ \E u \in Users, i \in Ids : Kick(u, i) \/ Approve(u, i)
    \/ \E u \in Users, g \in Gates, on \in BOOLEAN : SetGate(u, g, on)
    \/ \E i \in Ids : Enter(i) \/ Exit(i) \/ Farewell(i)
    \/ \E t \in Slots : Answer(t)
    \/ Sweep
    \/ Tick

(* Postgres answers, and the cron job does run: it needs no free slot, which  *)
(* is why its fairness is strong.                                            *)
Fairness ==
    /\ \A t \in Slots : WF_vars(Answer(t))
    /\ \A i \in Ids : WF_vars(Farewell(i))
    /\ SF_vars(Sweep)

Spec == Init /\ [][Next]_vars /\ Fairness

-----------------------------------------------------------------------------
TypeOK ==
    /\ meeting \in Meeting
    /\ seats \in Seq(Seat) /\ Len(seats) <= MaxSeats
    /\ online \in SUBSET DOMAIN seats
    /\ leaving \in [Ids -> Leaver \cup {None}]
    /\ task \in [Slots -> Task \cup {None}]
    /\ now \in Time

(* "Re-joining returns the existing participant": one row per user.          *)
OneSeatEach == \A u \in Users : Cardinality(SeatsOf(u)) <= 1

(* When calls do not overlap, the row of an ended meeting has no open        *)
(* session: whatever end, sweep, kick, leave and join do, attendance is      *)
(* finalized before the meeting clock stops and nobody joins after it.       *)
EndedIsClosed == meeting.status = "ENDED" =>
    \A i \in DOMAIN seats : seats[i].last = None

(* Nobody attends longer than since the first join: no two of leave, kick,   *)
(* end and sweep credit the same session.                                    *)
AttendanceBounded == \A i \in DOMAIN seats :
    seats[i].total + Seconds(seats[i], now) <= now - seats[i].joined

(* durationSeconds is "computed from startedAt..endedAt" (schema.prisma), the *)
(* timestamps being those of the row, not of some older version of it.       *)
DurationMatches == meeting.status = "ENDED" =>
    meeting.duration = IF meeting.started = None THEN None ELSE meeting.ended - meeting.started

(* A kicked participant has no open session: kick acts like a forced leave   *)
(* and no join gets round it.                                                *)
KickedIsOut == \A i \in DOMAIN seats : seats[i].kicked => seats[i].last = None

(* "When true, only hosts/admins (or already-joined participants) can enter" *)
(* (schema.prisma): a locked meeting gets no new row but theirs.             *)
LockHolds == [][Len(seats') > Len(seats) /\ "lock" \in meeting.gates
                  => seats'[Len(seats')].user \in {Host} \cup Admins]_vars

(* What is accounted of an ended meeting is final: a late leave, kick or     *)
(* sweep credits nobody again and a late join opens nothing, so that every   *)
(* report made of the rows afterwards says the same.                         *)
AccountsKept ==
    /\ \A f \in {"status", "started", "ended", "duration"} : meeting'[f] = meeting[f]
    /\ DOMAIN seats' = DOMAIN seats
    /\ \A i \in DOMAIN seats :
          seats'[i].total = seats[i].total /\ seats'[i].last = seats[i].last
EndIsFinal == [][meeting.status = "ENDED" => AccountsKept]_vars

(* A live meeting has a startedAt ("legacy LIVE rows that somehow never got  *)
(* one (shouldn't happen ...)", meetings.service.ts): the sweep skips a      *)
(* meeting without one for ever.                                             *)
LiveHasStarted == meeting.status = "LIVE" => meeting.started # None

(* The timestamps of the row fit its status, whatever older version of the  *)
(* row the calls that write them have read.                                 *)
ClockRight == LiveHasStarted /\ DurationMatches

(* An abandoned meeting (live, old enough, idle long enough, nobody online)  *)
(* is ended by the sweep, unless somebody is active in it again.             *)
Abandoned ==
    /\ meeting.status = "LIVE" /\ online = {}
    /\ meeting.started # None => meeting.started < now - MinDuration
    /\ meeting.active # None => meeting.active < now - IdleGrace
AbandonedEnds == Abandoned ~> ~Abandoned

-----------------------------------------------------------------------------
(* What the documentation promises and the code does not keep (no run).      *)

(* totalDurationSeconds is "cumulative time the participant has been online  *)
(* in this meeting across all reconnects" (schema.prisma): who is online has *)
(* an open session to be credited.                                           *)
OnlineIsCredited == Quiet => \A i \in online : seats[i].last # None
=============================================================================
