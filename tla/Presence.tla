------------------------------ MODULE Presence ------------------------------
(***************************************************************************)
(* Who is in a meeting room: PresenceService (one Redis hash per room, one *)
(* field per participant), the handlers of MeetingGateway that drive it,   *)
(* the kick that reaches into it from HTTP, and the roster every connected *)
(* web client builds from the gateway's broadcasts.                        *)
(*                                                                         *)
(* Every presence operation is HGET, then HSET or HDEL, then EXPIRE, each  *)
(* an await.  The API process has ONE Redis connection, so commands are    *)
(* executed and answered in the order they were issued: `pipe' is that     *)
(* queue, and a step that consumes its head runs the command and then the  *)
(* handler up to its next await.  Nothing but this process writes the hash,*)
(* so executing a command when it is answered loses no behaviour.          *)
(*                                                                         *)
(* Every handler treats its own row as private between the HGET and the    *)
(* HSET.  The comment on PresenceService relies on that being so ("the     *)
(* owner's gateway connection mutates their own field, so concurrent       *)
(* writes on the same field are rare"); nothing enforces it.  Overlap      *)
(* says whether two handlers may work on one field at once.                *)
(*                                                                         *)
(* What the same handlers write to Postgres when all this is done (the      *)
(* attendance, the activity clock) is in Meetings.tla.  The disconnects of  *)
(* broadcastEnded are, here, like any other.                               *)
(***************************************************************************)
EXTENDS Integers, Sequences, FiniteSets

CONSTANTS
    Sockets,        \* server-side sockets; each is one connection, used once
    Participants,
    Owner,          \* Owner[s]: the participant socket s authenticates as
    Flags,          \* the media flags of a row: mic, camera
    Kickable,       \* participants that are not hosts
    Overlap,        \* may two handlers of one participant overlap at Redis?
    MaxPending,     \* bound: no new event while this many commands wait
    None            \* no row, no socket, no argument, not on a roster

Row == [count: Nat, flags: SUBSET Flags]

ASSUME SocketsAssumption == IsFiniteSet(Sockets)
ASSUME OwnerAssumption == Owner \in [Sockets -> Participants]
ASSUME SwitchAssumption == Overlap \in BOOLEAN /\ Kickable \subseteq Participants
ASSUME FlagsAssumption == "isOnline" \notin Flags
ASSUME BoundAssumption == MaxPending \in Nat \ {0}
ASSUME NoneAssumption ==
    /\ None \notin Sockets /\ None \notin Row /\ None \notin Flags \X BOOLEAN
    /\ None \notin [online : BOOLEAN, flags : SUBSET Flags]

VARIABLES
    row,        \* the Redis hash: row[p] is p's stored state, or None
    conn,       \* where each connection is in its life
    inRoom,     \* socket.data.inRoom
    kicked,     \* meetingParticipant.wasKicked (Postgres)
    removing,   \* kicks between forgetParticipant and broadcastKicked
    pipe,       \* Redis commands issued and not yet answered, oldest first
    view        \* view[s]: the roster of the client at the other end of s

vars == <<row, conn, inRoom, kicked, removing, pipe, view>>

(* "connected" has not sent meeting:join, "joined" has; "leaving" has sent  *)
(* meeting:leave and will disconnect, which makes it "left"; "dropped" was  *)
(* disconnected by broadcastKicked.                                        *)
Stages == {"new", "connected", "joined", "leaving", "left", "closed", "dropped"}
Open == {"connected", "joined", "leaving"}

Tasks == {"join", "leave", "disconnect", "toggle", "kick", "snapshot", "refresh"}
Commands == {"hget", "hset", "hdel", "expire", "hgetall"}

(* A command in flight with what its handler has on its stack: `read' is the *)
(* row its HGET returned, `arg' the flag a toggle sets and its new value.    *)
Job == [task: Tasks, cmd: Commands, s: Sockets \cup {None}, p: Participants,
        read: Row \cup {None}, arg: (Flags \X BOOLEAN) \cup {None}]

(* What a client knows of a participant: the public ParticipantState.       *)
Item == [online: BOOLEAN, flags: SUBSET Flags] \cup {None}

-----------------------------------------------------------------------------
NewJob(task, s, p, arg) ==
    [task |-> task, cmd |-> "hget", s |-> s, p |-> p, read |-> None, arg |-> arg]

(* listParticipants: one HGETALL for a single socket or for the whole room. *)
ListJob(task, s, p) ==
    [task |-> task, cmd |-> "hgetall", s |-> s, p |-> p, read |-> None, arg |-> None]

(* Sockets the socket.io room delivers to.                                  *)
Room == {s \in Sockets : inRoom[s] /\ conn[s] \in Open}
RoomOf(p) == {s \in Room : Owner[s] = p}

(* A handler of p is between its HGET and its last Redis reply.             *)
Busy(p) == \E i \in DOMAIN pipe : pipe[i].p = p /\ pipe[i].cmd # "hgetall"
MayStart(p) == Len(pipe) < MaxPending /\ (Overlap \/ ~Busy(p))

(* Mutation: the Math.max(0, ...) is dropped.                               *)
Min1_NoFloor(n) == n - 1

Min1(n) == IF n > 0 THEN n - 1 ELSE 0

SetFlag(flags, f, on) == IF on THEN flags \cup {f} ELSE flags \ {f}

(* Mutation: addConnection overwrites the row as if it were the first tab.  *)
Written_FirstTab(j) ==
    IF j.task = "join" THEN [count |-> 1, flags |-> {}]
    ELSE IF j.task = "disconnect" THEN [j.read EXCEPT !.count = Min1(@)]
    ELSE [j.read EXCEPT !.flags = SetFlag(@, j.arg[1], j.arg[2])]

(* The value each operation writes back, computed from the row it READ.     *)
Written(j) ==
    IF j.task = "join" THEN
        IF j.read = None THEN [count |-> 1, flags |-> {}]
        ELSE [j.read EXCEPT !.count = @ + 1]
    ELSE IF j.task = "disconnect" THEN [j.read EXCEPT !.count = Min1(@)]
    ELSE [j.read EXCEPT !.flags = SetFlag(@, j.arg[1], j.arg[2])]

(* Mutation: a row kept at count 0 is taken for somebody still online.       *)
WasNewlyOnline_NoRow(j) == j.read = None

WasNewlyOnline(j) == j.read = None \/ j.read.count = 0
WentOffline(j) == j.read.count > 0 /\ Min1(j.read.count) = 0

ToPublic(r) == IF r = None THEN None ELSE [online |-> r.count > 0, flags |-> r.flags]
Listed == [p \in Participants |-> ToPublic(row[p])]

(* A client that is not in a room knows nobody: whatever it knew before is   *)
(* replaced by the roster it is sent when it joins again.                    *)
Nobody == [p \in Participants |-> None]

(* Broadcasts, as the receiving clients apply them to their roster.         *)
Show(to, p, item) ==
    view' = [t \in Sockets |-> IF t \in to THEN [view[t] EXCEPT ![p] = item] ELSE view[t]]
Patched(item, f, on) ==
    IF f = "isOnline" THEN [item EXCEPT !.online = on]
    ELSE [item EXCEPT !.flags = SetFlag(@, f, on)]
Patch(to, p, f, on) ==
    view' = [t \in Sockets |->
                IF t \in to /\ view[t][p] # None
                THEN [view[t] EXCEPT ![p] = Patched(@, f, on)] ELSE view[t]]
Replace(to) == view' = [t \in Sockets |-> IF t \in to THEN Listed ELSE view[t]]

(* The handler at the head of the queue resumes and issues `more'.          *)
Current == Head(pipe)
Resume(more) == pipe' = Tail(pipe) \o more

-----------------------------------------------------------------------------
Init ==
    /\ row = [p \in Participants |-> None]
    /\ conn = [s \in Sockets |-> "new"]
    /\ inRoom = [s \in Sockets |-> FALSE]
    /\ kicked = [p \in Participants |-> FALSE]
    /\ removing = {}
    /\ pipe = <<>>
    /\ view = [s \in Sockets |-> Nobody]

(* SocketAuthService.authenticate: the tokens say who it is, the row is read. *)
Authenticated(p) == ~kicked[p]

(* The namespace middleware: a kicked participant is refused the handshake. *)
Connect(s) ==
    /\ conn[s] = "new"
    /\ Authenticated(Owner[s])
    /\ conn' = [conn EXCEPT ![s] = "connected"]
    /\ UNCHANGED <<row, inRoom, kicked, removing, pipe, view>>

(* meeting:join.  The web client sends it once per connection.              *)
Join(s) ==
    /\ conn[s] = "connected"
    /\ MayStart(Owner[s])
    /\ conn' = [conn EXCEPT ![s] = "joined"]
    /\ pipe' = Append(pipe, NewJob("join", s, Owner[s], None))
    /\ UNCHANGED <<row, inRoom, kicked, removing, view>>

(* Mutation: without the idempotence check every JOIN adds a connection.     *)
JoinAgain_Counts(s) ==
    /\ conn[s] = "joined" /\ inRoom[s]
    /\ MayStart(Owner[s])
    /\ pipe' = Append(pipe, NewJob("join", s, Owner[s], None))
    /\ UNCHANGED <<row, conn, inRoom, kicked, removing, view>>

(* meeting:join on a socket already in the room: the roster is sent again.  *)
JoinAgain(s) ==
    /\ conn[s] = "joined" /\ inRoom[s]
    /\ Len(pipe) < MaxPending
    /\ pipe' = Append(pipe, ListJob("snapshot", s, Owner[s]))
    /\ UNCHANGED <<row, conn, inRoom, kicked, removing, view>>

(* meeting:leave, which the client sends just before it disconnects.  While  *)
(* the JOIN handler has not finished, inRoom is FALSE and nothing is done.   *)
Leave(s) ==
    /\ conn[s] \in {"connected", "joined"}
    /\ MayStart(Owner[s])
    /\ conn' = [conn EXCEPT ![s] = "leaving"]
    /\ pipe' = IF inRoom[s] THEN Append(pipe, NewJob("leave", s, Owner[s], None)) ELSE pipe
    /\ UNCHANGED <<row, inRoom, kicked, removing, view>>

(* handleDisconnect: the transport closed, by the client or by a timeout.   *)
Disconnect(s) ==
    /\ conn[s] \in Open
    /\ MayStart(Owner[s])
    /\ conn' = [conn EXCEPT ![s] = IF @ = "leaving" THEN "left" ELSE "closed"]
    /\ pipe' = IF inRoom[s] THEN Append(pipe, NewJob("disconnect", s, Owner[s], None)) ELSE pipe
    /\ view' = [view EXCEPT ![s] = Nobody]
    /\ UNCHANGED <<row, inRoom, kicked, removing>>

(* participant:mic-toggle / camera-toggle; refused unless in the room.      *)
Toggle(s, f, on) ==
    /\ conn[s] = "joined" /\ inRoom[s]
    /\ MayStart(Owner[s])
    /\ pipe' = Append(pipe, NewJob("toggle", s, Owner[s], <<f, on>>))
    /\ UNCHANGED <<row, conn, inRoom, kicked, removing, view>>

(* HostActionsService.kick up to forgetParticipant's HGET.                  *)
Kick(p) ==
    /\ p \in Kickable /\ ~kicked[p]
    /\ MayStart(p)
    /\ kicked' = [kicked EXCEPT ![p] = TRUE]
    /\ pipe' = Append(pipe, NewJob("kick", None, p, None))
    /\ UNCHANGED <<row, conn, inRoom, removing, view>>

(* broadcastKicked: the others drop p from their roster, and every socket    *)
(* of p that is in the room is disconnected, its handleDisconnect starting   *)
(* at once.  With Overlap off, two of them may start together only when      *)
(* there is no row for them to write.                                        *)
BroadcastKicked(p) ==
    LET gone == RoomOf(p)
        n == Cardinality(gone) IN
    /\ Overlap \/ (~Busy(p) /\ (row[p] = None \/ n <= 1))
    /\ view' = [t \in Sockets |->
                   IF t \in gone THEN Nobody
                   ELSE IF t \in Room THEN [view[t] EXCEPT ![p] = None] ELSE view[t]]
    /\ conn' = [s \in Sockets |-> IF s \in gone THEN "dropped" ELSE conn[s]]
    /\ \E order \in [1 .. n -> gone] :
          /\ gone = {order[i] : i \in 1 .. n}
          /\ pipe' = pipe \o [i \in 1 .. n |-> NewJob("disconnect", order[i], p, None)]
    /\ UNCHANGED <<row, inRoom, kicked>>

(* LiveKit has answered (or failed, which is caught): the kick completes.   *)
FinishKick(p) ==
    /\ p \in removing
    /\ removing' = removing \ {p}
    /\ BroadcastKicked(p)

(* kick of a participant already kicked: only the broadcast is repeated.    *)
KickAgain(p) ==
    /\ p \in Kickable /\ kicked[p]
    /\ Len(pipe) < MaxPending
    /\ BroadcastKicked(p)
    /\ UNCHANGED removing

(* RejoinRequestsService.resolveRequest with APPROVED lets p connect again. *)
Approve(p) ==
    /\ kicked[p]
    /\ kicked' = [kicked EXCEPT ![p] = FALSE]
    /\ UNCHANGED <<row, conn, inRoom, removing, pipe, view>>

-----------------------------------------------------------------------------
(* Redis answers the oldest command.                                        *)

Answered(cmd, tasks) == pipe # <<>> /\ Current.cmd = cmd /\ Current.task \in tasks

(* onLeave after forgetParticipant: leave the room, tell it, list it again. *)
LeaveRoom(s, p) ==
    /\ inRoom' = [inRoom EXCEPT ![s] = FALSE]
    /\ Show(Room \ {s}, p, None)
    /\ Resume(<<ListJob("refresh", s, p)>>)
    /\ UNCHANGED <<conn, kicked, removing>>

(* HGET found the row, or JOIN found none and will create it.               *)
ReadRow ==
    /\ Answered("hget", Tasks)
    /\ row[Current.p] # None \/ Current.task = "join"
    /\ Resume(<<[Current EXCEPT
                   !.read = row[Current.p],
                   !.cmd = IF Current.task \in {"leave", "kick"} THEN "hdel" ELSE "hset"]>>)
    /\ UNCHANGED <<row, conn, inRoom, kicked, removing, view>>

(* HGET found nothing: removeConnection and setMediaFlag return at once.    *)
ReadNothing ==
    /\ Answered("hget", {"disconnect", "toggle"})
    /\ row[Current.p] = None
    /\ Resume(<<>>)
    /\ UNCHANGED <<row, conn, inRoom, kicked, removing, view>>

WriteRow ==
    /\ Answered("hset", {"join", "disconnect", "toggle"})
    /\ row' = [row EXCEPT ![Current.p] = Written(Current)]
    /\ Resume(<<[Current EXCEPT !.cmd = "expire"]>>)
    /\ UNCHANGED <<conn, inRoom, kicked, removing, view>>

(* forgetParticipant has returned to onLeave, with or without a row.        *)
LeaveForgot ==
    /\ \/ Answered("hdel", {"leave"})
       \/ Answered("hget", {"leave"}) /\ row[Current.p] = None
    /\ row' = [row EXCEPT ![Current.p] = None]
    /\ LeaveRoom(Current.s, Current.p)

(* forgetParticipant has returned to kick, which now calls LiveKit.         *)
KickForgot ==
    /\ \/ Answered("hdel", {"kick"})
       \/ Answered("hget", {"kick"}) /\ row[Current.p] = None
    /\ row' = [row EXCEPT ![Current.p] = None]
    /\ removing' = removing \cup {Current.p}
    /\ Resume(<<>>)
    /\ UNCHANGED <<conn, inRoom, kicked, view>>

(* addConnection returned: enter the room, announce, ask for the roster.    *)
JoinDone ==
    /\ Answered("expire", {"join"})
    /\ inRoom' = [inRoom EXCEPT ![Current.s] = TRUE]
    /\ IF WasNewlyOnline(Current)
       THEN Show(Room \ {Current.s}, Current.p, ToPublic(Written(Current)))
       ELSE Patch(Room \ {Current.s}, Current.p, "isOnline", TRUE)
    /\ Resume(<<ListJob("snapshot", Current.s, Current.p)>>)
    /\ UNCHANGED <<row, conn, kicked, removing>>

(* removeConnection returned: the last socket's close is announced.         *)
DisconnectDone ==
    /\ Answered("expire", {"disconnect"})
    /\ IF WentOffline(Current) THEN Show(Room, Current.p, None) ELSE UNCHANGED view
    /\ Resume(<<>>)
    /\ UNCHANGED <<row, conn, inRoom, kicked, removing>>

(* setMediaFlag returned: the room gets the changed flag.                   *)
ToggleDone ==
    /\ Answered("expire", {"toggle"})
    /\ Patch(Room, Current.p, Current.arg[1], Current.arg[2])
    /\ Resume(<<>>)
    /\ UNCHANGED <<row, conn, inRoom, kicked, removing>>

(* emitSnapshot answers one socket, onLeave refreshes the whole room.       *)
Audience(j) ==
    IF j.task = "snapshot" THEN {s \in Sockets : s = j.s /\ conn[s] \in Open} ELSE Room

(* HGETALL answered: the clients replace their roster.                      *)
SendRoster ==
    /\ Answered("hgetall", {"snapshot", "refresh"})
    /\ Replace(Audience(Current))
    /\ Resume(<<>>)
    /\ UNCHANGED <<row, conn, inRoom, kicked, removing>>

Reply ==
    \/ ReadRow \/ ReadNothing \/ WriteRow
    \/ LeaveForgot \/ KickForgot
    \/ JoinDone \/ DisconnectDone \/ ToggleDone \/ SendRoster

-----------------------------------------------------------------------------
Next ==
    \/ \E s \in Sockets : Connect(s) \/ Join(s) \/ JoinAgain(s) \/ Leave(s) \/ Disconnect(s)
    \/ \E s \in Sockets, f \in Flags, on \in BOOLEAN : Toggle(s, f, on)
    \/ \E p \in Participants : Kick(p) \/ FinishKick(p) \/ KickAgain(p) \/ Approve(p)
    \/ Reply

(* Redis answers and LiveKit answers or times out; nobody has to click.     *)
Fairness == WF_vars(Reply) /\ \A p \in Participants : WF_vars(FinishKick(p))

Spec == Init /\ [][Next]_vars /\ Fairness

(* The API process dies and is started again: every connection, every       *)
(* handler and every unanswered command is gone, Redis and Postgres stay.   *)
Crash ==
    /\ \E s \in Sockets : conn[s] \in Open
    /\ conn' = [s \in Sockets |-> IF conn[s] \in Open THEN "closed" ELSE conn[s]]
    /\ inRoom' = [s \in Sockets |-> FALSE]
    /\ removing' = {}
    /\ pipe' = <<>>
    /\ view' = [s \in Sockets |-> Nobody]
    /\ UNCHANGED <<row, kicked>>

CrashSpec == Init /\ [][Next \/ Crash]_vars /\ Fairness

-----------------------------------------------------------------------------
(* Every variable has the shape its comment says.                           *)
TypeOK ==
    /\ row \in [Participants -> Row \cup {None}]
    /\ conn \in [Sockets -> Stages]
    /\ inRoom \in [Sockets -> BOOLEAN]
    /\ kicked \in [Participants -> BOOLEAN]
    /\ removing \in SUBSET Participants
    /\ pipe \in Seq(Job)
    /\ view \in [Sockets -> [Participants -> Item]]

Quiet == pipe = <<>> /\ removing = {}
Online(p) == row[p] # None /\ row[p].count > 0
Count(p) == IF row[p] = None THEN 0 ELSE row[p].count
SocketsOf(p) == {s \in Sockets : Owner[s] = p}

(* A presence row never counts more connections than its participant ever   *)
(* opened, however the handlers of its tabs overlap: no reconnecting and no  *)
(* lost update can inflate connectionCount.                                  *)
CountBounded == \A p \in Participants :
    Count(p) <= Cardinality({s \in SocketsOf(p) : conn[s] # "new"})

(* While no handler of p is in flight, its row counts no socket that is not  *)
(* in the room: there is no ghost that keeps a meeting from being auto-ended.*)
NoGhost == \A p \in Participants :
    ~Busy(p) => Count(p) <= Cardinality(RoomOf(p))

(* A participant whose tabs were only ever closed, none through meeting:leave *)
(* or a kick, is counted exactly: addConnection and removeConnection balance. *)
CountExact == \A p \in Participants :
    /\ ~Busy(p)
    /\ p \notin removing
    /\ \A s \in SocketsOf(p) : conn[s] \notin {"leaving", "left", "dropped"}
    => Count(p) = Cardinality(RoomOf(p))

(* When nothing is in flight, every client in the room shows as online       *)
(* exactly the participants that Redis holds online, with their flags: the   *)
(* incremental broadcasts add up to what a late joiner is sent.              *)
RostersConverge == Quiet =>
    \A s \in Room, p \in Participants :
        LET item == view[s][p] IN
        IF Online(p) THEN item = ToPublic(row[p]) ELSE item = None \/ ~item.online

-----------------------------------------------------------------------------
(* What the code's comments promise and the runs refute once handlers of one *)
(* participant overlap, or, for the first two, even when they do not.        *)

(* isOnline is "true while at least one socket is open for this participant" *)
(* (shared/src/types/realtime.ts).                                           *)
OnlineWhileOpen == Quiet => \A s \in Room : Online(Owner[s])

(* A kicked participant does not "slip back into presence after a kick"      *)
(* (socket-auth.service.ts).                                                 *)
KickedStaysOut == Quiet => \A p \in Participants : kicked[p] => ~Online(p)

(* removeConnection: "if it was their last socket, mark them offline"        *)
(* (presence.service.ts).                                                    *)
LastSocketOffline == Quiet => \A p \in Participants :
    (\A s \in SocketsOf(p) : conn[s] \notin Open) => ~Online(p)
=============================================================================
