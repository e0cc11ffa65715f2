--------------------------- MODULE PresenceProofs ---------------------------
(***************************************************************************)
(* Theorems about Presence for every set of sockets and participants:      *)
(* type correctness, whatever handlers overlap, and CountBounded, even when *)
(* the process dies; and when those of one participant do not overlap,      *)
(* NoGhost (a row never outlives its sockets), RostersConverge and          *)
(* CountExact.                                                              *)
(***************************************************************************)
EXTENDS Presence, FiniteSetTheorems, TLAPS

(* The jobs that can be in flight: a list is only read, an HDEL belongs to a *)
(* leave or a kick, whoever writes a row has read one (only JOIN makes one), *)
(* and all but a kick act for a socket on the row of its owner.             *)
GoodJob ==
    {j \in Job :
        /\ j.cmd = "hgetall" <=> j.task \in {"snapshot", "refresh"}
        /\ j.cmd = "hdel" => j.task \in {"leave", "kick"}
        /\ j.cmd \in {"hset", "expire"} =>
              /\ j.task \in {"join", "disconnect", "toggle"}
              /\ j.task # "join" => j.read # None
        /\ j.task = "toggle" => j.arg # None
        /\ j.task # "kick" => j.s # None /\ Owner[j.s] = j.p}

TypeInv == TypeOK /\ pipe \in Seq(GoodJob)

-----------------------------------------------------------------------------
LEMMA TailAppend ==
    ASSUME NEW S, NEW q \in Seq(S), q # <<>>, NEW e \in S
    PROVE  /\ Tail(q) \o <<e>> \in Seq(S)
           /\ Len(Tail(q) \o <<e>>) = Len(q)
           /\ \A i \in 1 .. Len(q) - 1 : (Tail(q) \o <<e>>)[i] = q[i + 1]
           /\ (Tail(q) \o <<e>>)[Len(q)] = e
    OBVIOUS

LEMMA TailOnly ==
    ASSUME NEW S, NEW q \in Seq(S), q # <<>>
    PROVE  /\ Tail(q) \o <<>> = Tail(q)
           /\ Tail(q) \in Seq(S)
           /\ Len(Tail(q)) = Len(q) - 1
           /\ \A i \in 1 .. Len(q) - 1 : Tail(q)[i] = q[i + 1]
    OBVIOUS

LEMMA HeadTyped ==
    ASSUME NEW S, NEW q \in Seq(S), q # <<>>
    PROVE  Head(q) \in S /\ Head(q) = q[1] /\ 1 \in 1 .. Len(q)
    OBVIOUS

LEMMA ConcatTyped ==
    ASSUME NEW S, NEW q \in Seq(S), NEW r \in Seq(S)
    PROVE  q \o r \in Seq(S)
    OBVIOUS

LEMMA SeqDef ==
    ASSUME NEW S, NEW n \in Nat, NEW f \in [1 .. n -> S]
    PROVE  f \in Seq(S)
    OBVIOUS

LEMMA NewJobGood ==
    ASSUME NEW task \in {"join", "leave", "disconnect"}, NEW s \in Sockets
    PROVE  NewJob(task, s, Owner[s], None) \in GoodJob
    BY NoneAssumption, OwnerAssumption DEF NewJob, GoodJob, Job, Tasks, Commands

LEMMA ToggleJobGood ==
    ASSUME NEW s \in Sockets, NEW f \in Flags, NEW on \in BOOLEAN, <<f, on>> # None
    PROVE  NewJob("toggle", s, Owner[s], <<f, on>>) \in GoodJob
    BY NoneAssumption, OwnerAssumption DEF NewJob, GoodJob, Job, Tasks, Commands

LEMMA ListJobGood ==
    ASSUME NEW task \in {"snapshot", "refresh"}, NEW s \in Sockets, NEW p, Owner[s] = p
    PROVE  ListJob(task, s, p) \in GoodJob
    BY NoneAssumption, OwnerAssumption DEF ListJob, GoodJob, Job, Tasks, Commands

LEMMA WrittenTyped ==
    ASSUME NEW j \in GoodJob, j.cmd \in {"hset", "expire"}
    PROVE  Written(j) \in Row
    BY NoneAssumption DEF Written, GoodJob, Job, Row, Min1, SetFlag

LEMMA ItemTyped ==
    /\ \A r \in Row \cup {None} : ToPublic(r) \in Item
    /\ None \in Item
    /\ Nobody \in [Participants -> Item]
    /\ TypeOK => Listed \in [Participants -> Item]
    BY NoneAssumption DEF ToPublic, Item, Row, Nobody, Listed, TypeOK

LEMMA ShowTyped ==
    ASSUME TypeOK, NEW to, NEW p \in Participants, NEW item \in Item, Show(to, p, item)
    PROVE  view' \in [Sockets -> [Participants -> Item]]
    BY DEF TypeOK, Show

LEMMA CurrentGood ==
    ASSUME TypeInv, pipe # <<>>
    PROVE  /\ Current \in GoodJob
           /\ Current = pipe[1]
           /\ Current.p \in Participants
           /\ Current.task # "kick" => Current.s \in Sockets /\ Owner[Current.s] = Current.p
           /\ Tail(pipe) \in Seq(GoodJob)
    <1>1. Current \in GoodJob /\ Current = pipe[1]
        BY HeadTyped, Zenon DEF TypeInv, Current
    <1>2. Tail(pipe) \in Seq(GoodJob)
        BY TailOnly, Zenon DEF TypeInv
    <1>. QED  BY <1>1, <1>2 DEF GoodJob, Job

(* Replacing the head of the queue by one job, or by none, keeps it typed.   *)
LEMMA ResumeTyped ==
    ASSUME TypeInv, pipe # <<>>
    PROVE  /\ Resume(<<>>) => pipe' \in Seq(GoodJob)
           /\ \A j \in GoodJob : Resume(<<j>>) => pipe' \in Seq(GoodJob)
    <1>1. Resume(<<>>) => pipe' \in Seq(GoodJob)
        BY TailOnly, Zenon DEF TypeInv, Resume
    <1>2. \A j \in GoodJob : Resume(<<j>>) => pipe' \in Seq(GoodJob)
        BY TailAppend, Zenon DEF TypeInv, Resume
    <1>. QED  BY <1>1, <1>2

LEMMA GoodJobsAreJobs == \A q \in Seq(GoodJob) : q \in Seq(Job)
    BY GoodJob \subseteq Job DEF GoodJob

LEMMA AppendTyped ==
    ASSUME NEW q \in Seq(GoodJob), NEW j \in GoodJob
    PROVE  Append(q, j) \in Seq(GoodJob)
    OBVIOUS

-----------------------------------------------------------------------------
(* The events from outside keep the types.                                  *)
LEMMA EventsTyped ==
    ASSUME TypeInv, NEW s \in Sockets,
           \/ Connect(s) \/ Join(s) \/ JoinAgain(s) \/ Leave(s) \/ Disconnect(s)
    PROVE  TypeInv'
    <1>. USE DEF TypeInv, TypeOK, Stages, Open
    <1>0. Owner[s] \in Participants
        BY OwnerAssumption
    <1>1. CASE Connect(s)
        BY <1>1 DEF Connect
    <1>2. CASE Join(s)
        <2>1. pipe' \in Seq(GoodJob)
            BY <1>2, NewJobGood, AppendTyped DEF Join
        <2>. QED  BY <1>2, <2>1, GoodJobsAreJobs DEF Join
    <1>3. CASE JoinAgain(s)
        <2>1. pipe' \in Seq(GoodJob)
            BY <1>0, <1>3, ListJobGood, AppendTyped DEF JoinAgain
        <2>. QED  BY <1>3, <2>1, GoodJobsAreJobs DEF JoinAgain
    <1>4. CASE Leave(s)
        <2>1. pipe' \in Seq(GoodJob)
            BY <1>4, NewJobGood, AppendTyped DEF Leave
        <2>. QED  BY <1>4, <2>1, GoodJobsAreJobs DEF Leave
    <1>5. CASE Disconnect(s)
        <2>1. pipe' \in Seq(GoodJob)
            BY <1>5, NewJobGood, AppendTyped DEF Disconnect
        <2>2. view' \in [Sockets -> [Participants -> Item]]
            BY <1>5, ItemTyped DEF Disconnect
        <2>. QED  BY <1>5, <2>1, <2>2, GoodJobsAreJobs DEF Disconnect
    <1>. QED  BY <1>1, <1>2, <1>3, <1>4, <1>5

LEMMA ToggleTyped ==
    ASSUME TypeInv, NEW s \in Sockets, NEW f \in Flags, NEW on \in BOOLEAN, Toggle(s, f, on)
    PROVE  TypeInv'
    <1>1. <<f, on>> # None
        BY NoneAssumption
    <1>2. pipe' \in Seq(GoodJob)
        BY <1>1, ToggleJobGood, AppendTyped DEF Toggle, TypeInv
    <1>. QED  BY <1>2, GoodJobsAreJobs DEF Toggle, TypeInv, TypeOK

LEMMA BroadcastTyped ==
    ASSUME TypeInv, NEW p \in Participants, BroadcastKicked(p)
    PROVE  /\ pipe' \in Seq(GoodJob) /\ pipe' \in Seq(Job)
           /\ conn' \in [Sockets -> Stages]
           /\ view' \in [Sockets -> [Participants -> Item]]
           /\ row' = row /\ inRoom' = inRoom /\ kicked' = kicked
    <1>. DEFINE gone == RoomOf(p)
                n == Cardinality(gone)
    <1>1. \A s \in gone : s \in Sockets /\ Owner[s] = p
        BY DEF RoomOf, Room
    <1>2. n \in Nat
        <2>1. IsFiniteSet(gone)
            BY <1>1, SocketsAssumption, FS_Subset
        <2>. QED  BY <2>1, FS_CardinalityType
    <1>3. pipe' \in Seq(GoodJob)
        <2>1. PICK order \in [1 .. n -> gone] :
                  pipe' = pipe \o [i \in 1 .. n |-> NewJob("disconnect", order[i], p, None)]
            BY DEF BroadcastKicked
        <2>2. \A s \in gone : NewJob("disconnect", s, p, None) \in GoodJob
            BY <1>1, NewJobGood
        <2>3. [i \in 1 .. n |-> NewJob("disconnect", order[i], p, None)] \in [1 .. n -> GoodJob]
            BY <2>2
        <2>4. [i \in 1 .. n |-> NewJob("disconnect", order[i], p, None)] \in Seq(GoodJob)
            BY <2>3, <1>2, SeqDef
        <2>. HIDE DEF n
        <2>. QED  BY <2>1, <2>4, Zenon, ConcatTyped DEF TypeInv
    <1>4. conn' \in [Sockets -> Stages]
        BY DEF BroadcastKicked, TypeInv, TypeOK, Stages
    <1>5. view' \in [Sockets -> [Participants -> Item]]
        BY ItemTyped DEF BroadcastKicked, TypeInv, TypeOK
    <1>. QED  BY <1>3, <1>4, <1>5, GoodJobsAreJobs DEF BroadcastKicked

LEMMA KicksTyped ==
    ASSUME TypeInv, NEW p \in Participants,
           Kick(p) \/ FinishKick(p) \/ KickAgain(p) \/ Approve(p)
    PROVE  TypeInv'
    <1>. USE DEF TypeInv, TypeOK
    <1>1. CASE Kick(p)
        <2>1. NewJob("kick", None, p, None) \in GoodJob
            BY NoneAssumption DEF NewJob, GoodJob, Job, Tasks, Commands
        <2>2. pipe' \in Seq(GoodJob)
            BY <1>1, <2>1, AppendTyped DEF Kick
        <2>. QED  BY <1>1, <2>2, GoodJobsAreJobs DEF Kick
    <1>2. CASE FinishKick(p)
        BY <1>2, BroadcastTyped DEF FinishKick
    <1>3. CASE KickAgain(p)
        BY <1>3, BroadcastTyped DEF KickAgain
    <1>4. CASE Approve(p)
        BY <1>4 DEF Approve
    <1>. QED  BY <1>1, <1>2, <1>3, <1>4

-----------------------------------------------------------------------------
(* Every way a handler can go on when Redis answers keeps the types.        *)
LEMMA ReplyTyped ==
    ASSUME TypeInv, Reply
    PROVE  TypeInv'
    <1>. DEFINE j == Current
    <1>1. pipe # <<>>
        BY DEF Reply, ReadRow, ReadNothing, WriteRow, LeaveForgot, KickForgot,
               JoinDone, DisconnectDone, ToggleDone, SendRoster, Answered
    <1>2. /\ j \in GoodJob /\ j.p \in Participants
          /\ j.task # "kick" => j.s \in Sockets /\ Owner[j.s] = j.p
        BY <1>1, CurrentGood
    <1>3. ASSUME pipe' \in Seq(GoodJob) PROVE pipe' \in Seq(Job)
        BY <1>3, GoodJobsAreJobs
    <1>4. CASE ReadRow
        <2>. DEFINE k == [j EXCEPT !.read = row[j.p],
                                   !.cmd = IF j.task \in {"leave", "kick"} THEN "hdel" ELSE "hset"]
        <2>1. j.cmd = "hget" /\ (row[j.p] # None \/ j.task = "join")
            BY <1>4 DEF ReadRow, Answered
        <2>2. row[j.p] \in Row \cup {None}
            BY <1>2 DEF TypeInv, TypeOK
        <2>3. k \in GoodJob
            BY <1>2, <2>1, <2>2 DEF GoodJob, Job, Tasks, Commands
        <2>4. pipe' \in Seq(GoodJob)
            BY <1>1, <1>4, <2>3, ResumeTyped DEF ReadRow
        <2>. QED  BY <1>3, <1>4, <2>4 DEF ReadRow, TypeInv, TypeOK
    <1>5. CASE ReadNothing
        <2>1. pipe' \in Seq(GoodJob)
            BY <1>1, <1>5, ResumeTyped DEF ReadNothing
        <2>. QED  BY <1>3, <1>5, <2>1 DEF ReadNothing, TypeInv, TypeOK
    <1>6. CASE WriteRow
        <2>1. Written(j) \in Row
            BY <1>2, <1>6, WrittenTyped DEF WriteRow, Answered
        <2>2. [j EXCEPT !.cmd = "expire"] \in GoodJob
            BY <1>2, <1>6 DEF WriteRow, Answered, GoodJob, Job, Tasks, Commands
        <2>3. pipe' \in Seq(GoodJob)
            BY <1>1, <1>6, <2>2, ResumeTyped DEF WriteRow
        <2>. QED  BY <1>2, <1>3, <1>6, <2>1, <2>3 DEF WriteRow, TypeInv, TypeOK
    <1>7. CASE LeaveForgot
        <2>1. j.s \in Sockets /\ Owner[j.s] = j.p
            BY <1>2, <1>7 DEF LeaveForgot, Answered
        <2>2. pipe' \in Seq(GoodJob)
            BY <1>1, <1>2, <1>7, <2>1, ListJobGood, ResumeTyped DEF LeaveForgot, LeaveRoom
        <2>3. view' \in [Sockets -> [Participants -> Item]]
            BY <1>2, <1>7, ItemTyped, ShowTyped DEF LeaveForgot, LeaveRoom, TypeInv
        <2>. QED  BY <1>2, <1>3, <1>7, <2>2, <2>3 DEF LeaveForgot, LeaveRoom, TypeInv, TypeOK
    <1>8. CASE KickForgot
        <2>1. pipe' \in Seq(GoodJob)
            BY <1>1, <1>8, ResumeTyped DEF KickForgot
        <2>. QED  BY <1>2, <1>3, <1>8, <2>1 DEF KickForgot, TypeInv, TypeOK
    <1>9. CASE JoinDone
        <2>1. j.s \in Sockets /\ Owner[j.s] = j.p /\ Written(j) \in Row
            BY <1>2, <1>9, WrittenTyped DEF JoinDone, Answered
        <2>2. pipe' \in Seq(GoodJob)
            BY <1>1, <1>2, <1>9, <2>1, ListJobGood, ResumeTyped DEF JoinDone
        <2>3. view' \in [Sockets -> [Participants -> Item]]
            <3>1. CASE WasNewlyOnline(j)
                BY <1>2, <1>9, <2>1, <3>1, ItemTyped, ShowTyped DEF JoinDone, TypeInv
            <3>2. CASE ~WasNewlyOnline(j)
                <4>1. \A i \in Item \ {None} : Patched(i, "isOnline", TRUE) \in Item
                    BY DEF Item, Patched
                <4>2. view' = [t \in Sockets |->
                                 IF t \in Room \ {j.s} /\ view[t][j.p] # None
                                 THEN [view[t] EXCEPT ![j.p] = Patched(view[t][j.p], "isOnline", TRUE)]
                                 ELSE view[t]]
                    BY <1>9, <3>2 DEF JoinDone, Patch
                <4>. QED  BY <1>2, <4>1, <4>2 DEF TypeInv, TypeOK
            <3>. QED  BY <3>1, <3>2
        <2>. QED  BY <1>3, <1>9, <2>1, <2>2, <2>3 DEF JoinDone, TypeInv, TypeOK
    <1>10. CASE DisconnectDone
        <2>1. pipe' \in Seq(GoodJob)
            BY <1>1, <1>10, ResumeTyped DEF DisconnectDone
        <2>2. view' \in [Sockets -> [Participants -> Item]]
            BY <1>2, <1>10, ItemTyped, ShowTyped DEF DisconnectDone, TypeInv, TypeOK
        <2>. QED  BY <1>3, <1>10, <2>1, <2>2 DEF DisconnectDone, TypeInv, TypeOK
    <1>11. CASE ToggleDone
        <2>1. pipe' \in Seq(GoodJob)
            BY <1>1, <1>11, ResumeTyped DEF ToggleDone
        <2>2. j.arg \in Flags \X BOOLEAN
            BY <1>2, <1>11 DEF ToggleDone, Answered, GoodJob, Job
        <2>3. view' \in [Sockets -> [Participants -> Item]]
            <3>. DEFINE Set(i) == Patched(i, j.arg[1], j.arg[2])
            <3>1. \A i \in Item \ {None} : Set(i) \in Item
                BY <2>2 DEF Item, Patched, SetFlag
            <3>2. view' = [t \in Sockets |->
                             IF t \in Room /\ view[t][j.p] # None
                             THEN [view[t] EXCEPT ![j.p] = Set(view[t][j.p])] ELSE view[t]]
                BY <1>11 DEF ToggleDone, Patch
            <3>. HIDE DEF Set
            <3>. QED  BY <1>2, <3>1, <3>2 DEF TypeInv, TypeOK
        <2>. QED  BY <1>3, <1>11, <2>1, <2>3 DEF ToggleDone, TypeInv, TypeOK
    <1>12. CASE SendRoster
        <2>1. pipe' \in Seq(GoodJob)
            BY <1>1, <1>12, ResumeTyped DEF SendRoster
        <2>2. view' \in [Sockets -> [Participants -> Item]]
            BY <1>12, ItemTyped DEF SendRoster, Replace, TypeInv, TypeOK
        <2>. QED  BY <1>3, <1>12, <2>1, <2>2 DEF SendRoster, TypeInv, TypeOK
    <1>. QED
        BY <1>4, <1>5, <1>6, <1>7, <1>8, <1>9, <1>10, <1>11, <1>12 DEF Reply

LEMMA InitTyped == Init => TypeInv
    BY ItemTyped DEF Init, TypeInv, TypeOK, Stages

LEMMA NextTyped == TypeInv /\ [Next]_vars => TypeInv'
    <1>. SUFFICES ASSUME TypeInv, [Next]_vars PROVE TypeInv'
        OBVIOUS
    <1>1. ASSUME NEW s \in Sockets,
                 Connect(s) \/ Join(s) \/ JoinAgain(s) \/ Leave(s) \/ Disconnect(s)
          PROVE  TypeInv'
        BY <1>1, EventsTyped
    <1>2. ASSUME NEW s \in Sockets, NEW f \in Flags, NEW on \in BOOLEAN, Toggle(s, f, on)
          PROVE  TypeInv'
        BY <1>2, ToggleTyped
    <1>3. ASSUME NEW p \in Participants,
                 Kick(p) \/ FinishKick(p) \/ KickAgain(p) \/ Approve(p)
          PROVE  TypeInv'
        BY <1>3, KicksTyped
    <1>4. CASE Reply
        BY <1>4, ReplyTyped
    <1>5. CASE UNCHANGED vars
        BY <1>5 DEF vars, TypeInv, TypeOK
    <1>. QED  BY <1>1, <1>2, <1>3, <1>4, <1>5 DEF Next

(* Every variable keeps its shape, whatever overlaps: in particular no       *)
(* handler writes back a row it has not read, and connectionCount is never   *)
(* negative.                                                                *)
THEOREM TypeCorrect == Spec => []TypeOK
    <1>1. TypeInv => TypeOK
        BY DEF TypeInv
    <1>. QED  BY <1>1, InitTyped, NextTyped, PTL DEF Spec

-----------------------------------------------------------------------------
(* When the handlers of one participant do not overlap, NoGhost is not yet   *)
(* inductive: a handler in the middle of its work has counted a socket that  *)
(* is not in the room yet, or not yet uncounted one that is gone.            *)

Working(i) == i \in 1 .. Len(pipe) /\ pipe[i].cmd # "hgetall"

(* At most one handler works on a row, save for the disconnects that a kick  *)
(* starts together once it has deleted the row.                             *)
Alone == \A i, k \in 1 .. Len(pipe) :
    Working(i) /\ Working(k) /\ i # k /\ pipe[i].p = pipe[k].p =>
        /\ row[pipe[i].p] = None
        /\ pipe[i].task = "disconnect" /\ pipe[i].cmd = "hget"

(* Hence what a handler has read is still there when it writes.             *)
Fresh == \A i \in 1 .. Len(pipe) :
    pipe[i].cmd = "hset" => pipe[i].read = row[pipe[i].p]

(* A socket whose JOIN is being handled is open and not yet in the room.    *)
Joining == \A i \in 1 .. Len(pipe) :
    pipe[i].task = "join" =>
        conn[pipe[i].s] = "joined" /\ ~inRoom[pipe[i].s]

(* A handler owes its row one: it has counted a socket that is yet to enter, *)
(* or is yet to uncount one that has left.                                  *)
Owes(i) ==
    \/ pipe[i].task = "join" /\ pipe[i].cmd = "expire"
    \/ pipe[i].task = "disconnect" /\ pipe[i].cmd \in {"hget", "hset"}

CountedFor(p) ==
    /\ Count(p) <= Cardinality(RoomOf(p)) + 1
    /\ (\A i \in 1 .. Len(pipe) : pipe[i].p = p => ~Owes(i)) =>
           Count(p) <= Cardinality(RoomOf(p))

Counted == \A p \in Participants : CountedFor(p)

(* Nobody is in the room before sending meeting:join.                       *)
Entered == \A s \in Sockets : inRoom[s] => conn[s] \notin {"new", "connected"}

OrderInv == Alone /\ Fresh /\ Joining /\ Entered
GhostInv == OrderInv /\ Counted

LEMMA SocketSets ==
    ASSUME NEW A \in SUBSET Sockets, NEW B \in SUBSET Sockets
    PROVE  /\ IsFiniteSet(A)
           /\ Cardinality(A) \in Nat
           /\ A \subseteq B => Cardinality(A) <= Cardinality(B)
           /\ \A s \in Sockets \ A : Cardinality(A \cup {s}) = Cardinality(A) + 1
           /\ \A s \in A : Cardinality(A \ {s}) = Cardinality(A) - 1
    <1>1. IsFiniteSet(A) /\ IsFiniteSet(B)
        BY SocketsAssumption, FS_Subset
    <1>2. A \subseteq B => Cardinality(A) <= Cardinality(B)
        BY <1>1, FS_Subset
    <1>. QED  BY <1>1, <1>2, FS_CardinalityType, FS_AddElement, FS_RemoveElement

LEMMA RoomSets ==
    \A p : /\ RoomOf(p) \in SUBSET Sockets /\ RoomOf(p)' \in SUBSET Sockets
           /\ Cardinality(RoomOf(p)) \in Nat /\ Cardinality(RoomOf(p)') \in Nat
           /\ RoomOf(p) \subseteq RoomOf(p)' =>
                 Cardinality(RoomOf(p)) <= Cardinality(RoomOf(p)')
    <1>1. \A p : RoomOf(p) \in SUBSET Sockets /\ RoomOf(p)' \in SUBSET Sockets
        BY DEF RoomOf, Room
    <1>. QED  BY <1>1, SocketSets

LEMMA CountTyped ==
    ASSUME TypeInv, NEW p \in Participants
    PROVE  Count(p) \in Nat
    BY NoneAssumption DEF Count, TypeInv, TypeOK, Row

(* A participant whose row is left alone, whose debt is not forgotten and who *)
(* loses nobody from the room stays counted.                                *)
LEMMA KeepsCounted ==
    ASSUME TypeInv, Counted, NEW p \in Participants,
           RoomOf(p) \subseteq RoomOf(p)', row'[p] = row[p],
           \A i \in 1 .. Len(pipe) : pipe[i].p = p /\ Owes(i) =>
              \E k \in 1 .. Len(pipe') : pipe'[k].p = p /\ Owes(k)'
    PROVE  CountedFor(p)'
    <1>1. /\ Count(p) \in Nat /\ Count(p)' = Count(p)
          /\ Cardinality(RoomOf(p)) \in Nat /\ Cardinality(RoomOf(p)') \in Nat
          /\ Cardinality(RoomOf(p)) <= Cardinality(RoomOf(p)')
        BY CountTyped, RoomSets DEF Count
    <1>2. CountedFor(p)
        BY DEF Counted
    <1>. HIDE DEF Owes
    <1>3. Count(p)' <= Cardinality(RoomOf(p)') + 1
        BY <1>1, <1>2 DEF CountedFor
    <1>4. (\A i \in 1 .. Len(pipe') : pipe'[i].p = p => ~Owes(i)')
             => Count(p)' <= Cardinality(RoomOf(p)')
        BY <1>1, <1>2 DEF CountedFor
    <1>. QED  BY <1>3, <1>4 DEF CountedFor

LEMMA KeepsDebt ==
    ASSUME NEW p \in Participants,
           \A i \in 1 .. Len(pipe) :
              pipe[i].p = p => \E k \in 1 .. Len(pipe') : pipe'[k] = pipe[i]
    PROVE  \A i \in 1 .. Len(pipe) : pipe[i].p = p /\ Owes(i) =>
              \E k \in 1 .. Len(pipe') : pipe'[k].p = p /\ Owes(k)'
    <1>. SUFFICES ASSUME NEW i \in 1 .. Len(pipe), pipe[i].p = p, Owes(i)
                  PROVE  \E k \in 1 .. Len(pipe') : pipe'[k].p = p /\ Owes(k)'
        OBVIOUS
    <1>1. PICK k \in 1 .. Len(pipe') : pipe'[k] = pipe[i]
        OBVIOUS
    <1>. QED  BY <1>1 DEF Owes

LEMMA Appended ==
    ASSUME NEW S, NEW q \in Seq(S), NEW r \in Seq(S)
    PROVE  /\ Len(q) \in Nat /\ Len(r) \in Nat /\ Len(q \o r) = Len(q) + Len(r)
           /\ \A i \in 1 .. Len(q) : i \in 1 .. Len(q \o r) /\ (q \o r)[i] = q[i]
           /\ \A k \in 1 .. Len(q \o r) :
                 \/ k \in 1 .. Len(q) /\ (q \o r)[k] = q[k]
                 \/ k - Len(q) \in 1 .. Len(r) /\ (q \o r)[k] = r[k - Len(q)]
           /\ \A k \in 1 .. Len(r) :
                 Len(q) + k \in 1 .. Len(q \o r) /\ (q \o r)[Len(q) + k] = r[k]
    OBVIOUS

LEMMA AsConcat ==
    ASSUME NEW S, NEW q \in Seq(S), NEW j \in S
    PROVE  /\ Append(q, j) = q \o <<j>> /\ q = q \o <<>>
           /\ <<j>> \in Seq(S) /\ Len(<<j>>) = 1 /\ \A k \in 1 .. 1 : <<j>>[k] = j
           /\ <<>> \in Seq(S) /\ Len(<<>>) = 0
    OBVIOUS

LEMMA JobAt ==
    ASSUME TypeInv, NEW i \in 1 .. Len(pipe)
    PROVE  /\ pipe[i] \in GoodJob /\ pipe[i].p \in Participants
           /\ pipe[i].cmd = "hgetall" <=> pipe[i].task \in {"snapshot", "refresh"}
           /\ pipe[i].task # "kick" => pipe[i].s \in Sockets /\ Owner[pipe[i].s] = pipe[i].p
    <1>1. pipe[i] \in GoodJob
        BY DEF TypeInv
    <1>. QED  BY <1>1 DEF GoodJob, Job

LEMMA NoHandler ==
    ASSUME TypeInv, NEW p \in Participants, ~Busy(p)
    PROVE  \A i \in 1 .. Len(pipe) : pipe[i].p = p => pipe[i].cmd = "hgetall"
    BY DEF Busy, TypeInv

LEMMA NotBusy ==
    ASSUME TypeInv, Counted, NEW p \in Participants, ~Busy(p)
    PROVE  Count(p) <= Cardinality(RoomOf(p))
    <1>1. \A i \in 1 .. Len(pipe) : pipe[i].p = p => pipe[i].cmd = "hgetall"
        BY NoHandler
    <1>2. \A i \in 1 .. Len(pipe) : pipe[i].p = p => ~Owes(i)
        BY <1>1 DEF Owes
    <1>. QED  BY <1>1, <1>2 DEF Counted, CountedFor

(* An event about p starts the handlers r, when none of p is at work.       *)
LEMMA AppendStep ==
    ASSUME TypeInv, OrderInv, NEW p \in Participants, NEW r \in Seq(GoodJob),
           pipe' = pipe \o r, row' = row, inRoom' = inRoom,
           \A k \in 1 .. Len(r) :
              /\ r[k].p = p
              /\ r[k].cmd = "hgetall" \/ (r[k].cmd = "hget" /\ ~Busy(p))
              /\ r[k].task = "join" => conn'[r[k].s] = "joined" /\ ~inRoom[r[k].s],
           \/ Len(r) <= 1
           \/ /\ row[p] = None
              /\ \A k \in 1 .. Len(r) : r[k].task = "disconnect" /\ r[k].cmd = "hget",
           \A i \in 1 .. Len(pipe) : pipe[i].task = "join" => conn'[pipe[i].s] = "joined",
           \A s \in Sockets : inRoom[s] => conn'[s] \notin {"new", "connected"}
    PROVE  /\ OrderInv'
           /\ /\ Counted
              /\ \A q \in Participants : q # p => RoomOf(q) \subseteq RoomOf(q)'
              /\ RoomOf(p) \subseteq RoomOf(p)' \/ CountedFor(p)'
              => Counted'
    <1>1. /\ Len(pipe) \in Nat /\ Len(r) \in Nat /\ Len(pipe') = Len(pipe) + Len(r)
          /\ \A i \in 1 .. Len(pipe) : i \in 1 .. Len(pipe') /\ pipe'[i] = pipe[i]
          /\ \A k \in 1 .. Len(pipe') :
                \/ k \in 1 .. Len(pipe) /\ pipe'[k] = pipe[k]
                \/ k - Len(pipe) \in 1 .. Len(r) /\ pipe'[k] = r[k - Len(pipe)]
        <2>1. pipe \in Seq(GoodJob)
            BY DEF TypeInv
        <2>2. /\ Len(pipe) \in Nat /\ Len(r) \in Nat /\ Len(pipe \o r) = Len(pipe) + Len(r)
              /\ \A i \in 1 .. Len(pipe) : i \in 1 .. Len(pipe \o r) /\ (pipe \o r)[i] = pipe[i]
              /\ \A k \in 1 .. Len(pipe \o r) :
                    \/ k \in 1 .. Len(pipe) /\ (pipe \o r)[k] = pipe[k]
                    \/ k - Len(pipe) \in 1 .. Len(r) /\ (pipe \o r)[k] = r[k - Len(pipe)]
            BY <2>1, Appended
        <2>. QED  BY <2>2
    <1>2. ~Busy(p) => \A i \in 1 .. Len(pipe) : pipe[i].p = p => pipe[i].cmd = "hgetall"
        BY NoHandler
    <1>3. Alone'
        <2>. SUFFICES ASSUME NEW i \in 1 .. Len(pipe'), NEW k \in 1 .. Len(pipe'),
                             Working(i)', Working(k)', i # k, pipe'[i].p = pipe'[k].p
                      PROVE  /\ row[pipe'[i].p] = None
                             /\ pipe'[i].task = "disconnect" /\ pipe'[i].cmd = "hget"
            BY Zenon DEF Alone
        <2>. pipe'[i].cmd # "hgetall" /\ pipe'[k].cmd # "hgetall"
            BY DEF Working
        <2>1. CASE i \in 1 .. Len(pipe) /\ k \in 1 .. Len(pipe)
            <3>1. pipe'[i] = pipe[i] /\ pipe'[k] = pipe[k]
                BY <1>1, <2>1
            <3>2. Alone /\ Working(i) /\ Working(k)
                BY <2>1, <3>1 DEF OrderInv, Working
            <3>. QED  BY <2>1, <3>1, <3>2 DEF Alone
        <2>2. CASE i - Len(pipe) \in 1 .. Len(r) /\ pipe'[i] = r[i - Len(pipe)]
            <3>1. pipe'[i].p = p /\ ~Busy(p)
                BY <2>2
            <3>2. k - Len(pipe) \in 1 .. Len(r)
                BY <1>1, <1>2, <3>1
            <3>3. Len(r) > 1
                BY <1>1, <2>2, <3>2
            <3>. QED  BY <2>2, <3>1, <3>3
        <2>3. CASE k - Len(pipe) \in 1 .. Len(r) /\ pipe'[k] = r[k - Len(pipe)]
            <3>1. pipe'[k].p = p /\ ~Busy(p)
                BY <2>3
            <3>2. i - Len(pipe) \in 1 .. Len(r) /\ pipe'[i] = r[i - Len(pipe)]
                BY <1>1, <1>2, <3>1
            <3>3. Len(r) > 1
                BY <1>1, <2>3, <3>2
            <3>. QED  BY <3>1, <3>2, <3>3
        <2>. QED  BY <1>1, <2>1, <2>2, <2>3
    <1>4. Fresh'
        BY <1>1 DEF OrderInv, Fresh
    <1>5. Joining'
        BY <1>1 DEF OrderInv, Joining
    <1>6. Entered'
        BY DEF OrderInv, Entered
    <1>7. ASSUME Counted,
                 \A q \in Participants : q # p => RoomOf(q) \subseteq RoomOf(q)',
                 RoomOf(p) \subseteq RoomOf(p)' \/ CountedFor(p)'
          PROVE  Counted'
        BY <1>1, <1>7, KeepsDebt, KeepsCounted DEF Counted
    <1>. QED  BY <1>3, <1>4, <1>5, <1>6, <1>7 DEF OrderInv

LEMMA AppendOne ==
    ASSUME TypeInv, NEW j \in GoodJob, pipe' = pipe \/ pipe' = Append(pipe, j)
    PROVE  \E r \in Seq(GoodJob) :
              pipe' = pipe \o r /\ Len(r) <= 1 /\ \A k \in 1 .. Len(r) : r[k] = j
    <1>1. pipe \in Seq(GoodJob)
        BY DEF TypeInv
    <1>2. /\ Append(pipe, j) = pipe \o <<j>> /\ pipe = pipe \o <<>>
          /\ <<j>> \in Seq(GoodJob) /\ Len(<<j>>) = 1 /\ \A k \in 1 .. 1 : <<j>>[k] = j
          /\ <<>> \in Seq(GoodJob) /\ Len(<<>>) = 0
        BY <1>1, AsConcat
    <1>3. CASE pipe' = pipe
        <2>1. pipe' = pipe \o <<>> /\ Len(<<>>) <= 1 /\ \A k \in 1 .. Len(<<>>) : <<>>[k] = j
            BY <1>2, <1>3
        <2>. QED  BY <1>2, <2>1
    <1>4. CASE pipe' = Append(pipe, j)
        <2>1. pipe' = pipe \o <<j>> /\ Len(<<j>>) <= 1 /\ \A k \in 1 .. Len(<<j>>) : <<j>>[k] = j
            BY <1>2, <1>4
        <2>. QED  BY <1>2, <2>1
    <1>. QED  BY <1>3, <1>4

LEMMA ConnectGhost ==
    ASSUME TypeInv, OrderInv, NEW s \in Sockets, Connect(s)
    PROVE  OrderInv' /\ (Counted => Counted')
    <1>. USE DEF Connect
    <1>1. Alone' /\ Fresh'
        BY DEF OrderInv, Alone, Fresh, Working
    <1>2. Joining' /\ Entered'
        BY DEF OrderInv, Joining, Entered, TypeInv, TypeOK
    <1>3. \A p : RoomOf(p)' = RoomOf(p)
        BY DEF RoomOf, Room, Open, OrderInv, Entered, TypeInv, TypeOK
    <1>4. Counted => Counted'
        BY <1>3 DEF Counted, CountedFor, Count, Owes
    <1>. QED  BY <1>1, <1>2, <1>4 DEF OrderInv

(* Join, Leave and Toggle start a handler without closing a connection.     *)
LEMMA StartGhost ==
    ASSUME ~Overlap, TypeInv, OrderInv, NEW s \in Sockets,
           \/ Join(s) \/ JoinAgain(s) \/ Leave(s)
           \/ \E f \in Flags, on \in BOOLEAN : Toggle(s, f, on)
    PROVE  OrderInv' /\ (Counted => Counted')
    <1>. DEFINE o == Owner[s]
    <1>1. o \in Participants /\ row' = row /\ inRoom' = inRoom
        BY OwnerAssumption DEF Join, JoinAgain, Leave, Toggle
    <1>2. JoinAgain(s) \/ ~Busy(o)
        BY DEF Join, Leave, Toggle, MayStart
    <1>3. \A p \in Participants : RoomOf(p) \subseteq RoomOf(p)'
        BY DEF Join, JoinAgain, Leave, Toggle, RoomOf, Room, Open, TypeInv, TypeOK
    <1>4. \A t \in Sockets : inRoom[t] => conn'[t] \notin {"new", "connected"}
        BY DEF Join, JoinAgain, Leave, Toggle, OrderInv, Entered, TypeInv, TypeOK
    <1>5. \A i \in 1 .. Len(pipe) : pipe[i].task = "join" => conn'[pipe[i].s] = "joined"
        <2>1. CASE JoinAgain(s)
            BY <2>1 DEF JoinAgain, OrderInv, Joining
        <2>2. CASE ~Busy(o)
            <3>1. \A i \in 1 .. Len(pipe) : pipe[i].task = "join" => pipe[i].s # s
                BY <1>1, <2>2, NoHandler, JobAt
            <3>. QED
                BY <3>1, JobAt DEF Join, JoinAgain, Leave, Toggle, OrderInv, Joining, TypeInv, TypeOK
        <2>. QED  BY <1>2, <2>1, <2>2
    <1>6. PICK j \in GoodJob :
             /\ j.p = o /\ (pipe' = pipe \/ pipe' = Append(pipe, j))
             /\ j.cmd = "hgetall" \/ (j.cmd = "hget" /\ ~Busy(o))
             /\ j.task = "join" => conn'[j.s] = "joined" /\ ~inRoom[j.s]
        <2>1. CASE Join(s)
            <3>1. conn'[s] = "joined" /\ ~inRoom[s]
                BY <2>1 DEF Join, OrderInv, Entered, TypeInv, TypeOK
            <3>2. NewJob("join", s, o, None) \in GoodJob
                BY NewJobGood
            <3>. QED  BY <1>2, <2>1, <3>1, <3>2 DEF Join, JoinAgain, NewJob
        <2>2. CASE JoinAgain(s)
            <3>1. ListJob("snapshot", s, o) \in GoodJob
                BY ListJobGood
            <3>. QED  BY <2>2, <3>1 DEF JoinAgain, ListJob
        <2>3. CASE Leave(s)
            <3>1. NewJob("leave", s, o, None) \in GoodJob
                BY NewJobGood
            <3>2. ~Busy(o)
                BY <2>3 DEF Leave, MayStart
            <3>. QED  BY <2>3, <3>1, <3>2 DEF Leave, NewJob
        <2>4. ASSUME NEW f \in Flags, NEW on \in BOOLEAN, Toggle(s, f, on)
              PROVE  \E j \in GoodJob :
                        /\ j.p = o /\ (pipe' = pipe \/ pipe' = Append(pipe, j))
                        /\ j.cmd = "hgetall" \/ (j.cmd = "hget" /\ ~Busy(o))
                        /\ j.task = "join" => conn'[j.s] = "joined" /\ ~inRoom[j.s]
            <3>1. <<f, on>> # None
                BY NoneAssumption
            <3>2. NewJob("toggle", s, o, <<f, on>>) \in GoodJob
                BY <3>1, ToggleJobGood
            <3>3. ~Busy(o)
                BY <2>4 DEF Toggle, MayStart
            <3>. QED  BY <2>4, <3>2, <3>3 DEF Toggle, NewJob
        <2>. QED  BY <2>1, <2>2, <2>3, <2>4
    <1>7. PICK r \in Seq(GoodJob) :
             /\ pipe' = pipe \o r /\ Len(r) <= 1
             /\ \A k \in 1 .. Len(r) : r[k] = j
        BY <1>6, AppendOne
    <1>. HIDE DEF o
    <1>. QED  BY <1>1, <1>3, <1>4, <1>5, <1>6, <1>7, AppendStep

(* handleDisconnect: the socket leaves the room, its handler owes the row one. *)
LEMMA DisconnectGhost ==
    ASSUME ~Overlap, TypeInv, OrderInv, NEW s \in Sockets, Disconnect(s)
    PROVE  OrderInv' /\ (Counted => Counted')
    <1>. DEFINE o == Owner[s]
                j == NewJob("disconnect", s, o, None)
    <1>1. /\ o \in Participants /\ row' = row /\ inRoom' = inRoom
          /\ conn' = [conn EXCEPT ![s] = IF @ = "leaving" THEN "left" ELSE "closed"]
          /\ ~Busy(o)
        BY OwnerAssumption DEF Disconnect, MayStart
    <1>2. /\ j \in GoodJob /\ j.p = o /\ j.cmd = "hget" /\ j.task = "disconnect"
        BY NewJobGood DEF NewJob
    <1>3. \A t \in Sockets : inRoom[t] => conn'[t] \notin {"new", "connected"}
        BY <1>1 DEF OrderInv, Entered, TypeInv, TypeOK
    <1>4. \A i \in 1 .. Len(pipe) : pipe[i].task = "join" => conn'[pipe[i].s] = "joined"
        <2>1. \A i \in 1 .. Len(pipe) : pipe[i].task = "join" => pipe[i].s # s
            BY <1>1, NoHandler, JobAt
        <2>. QED  BY <1>1, <2>1, JobAt DEF OrderInv, Joining, TypeInv, TypeOK
    <1>5. \A q \in Participants : q # o => RoomOf(q) \subseteq RoomOf(q)'
        BY <1>1 DEF RoomOf, Room, Open, TypeInv, TypeOK
    <1>6. ASSUME Counted
          PROVE  RoomOf(o) \subseteq RoomOf(o)' \/ CountedFor(o)'
        <2>1. CASE ~inRoom[s]
            BY <1>1, <2>1 DEF RoomOf, Room, Open, TypeInv, TypeOK
        <2>2. CASE inRoom[s]
            <3>1. s \in RoomOf(o) /\ RoomOf(o)' = RoomOf(o) \ {s}
                BY <1>1, <2>2 DEF Disconnect, RoomOf, Room, Open, TypeInv, TypeOK
            <3>2. Cardinality(RoomOf(o)') = Cardinality(RoomOf(o)) - 1
                BY <3>1, RoomSets, SocketSets
            <3>3. /\ Count(o) <= Cardinality(RoomOf(o)) /\ Count(o)' = Count(o)
                  /\ Count(o) \in Nat /\ Cardinality(RoomOf(o)) \in Nat
                BY <1>1, <1>6, NotBusy, CountTyped, RoomSets DEF Count
            <3>4. \E k \in 1 .. Len(pipe') : pipe'[k] = j
                <4>1. Len(pipe') \in 1 .. Len(pipe') /\ pipe'[Len(pipe')] = j
                    BY <1>2, <2>2 DEF Disconnect, TypeInv
                <4>. QED  BY <4>1
            <3>5. PICK k \in 1 .. Len(pipe') : pipe'[k] = j
                BY <3>4
            <3>6. pipe'[k].p = o /\ Owes(k)'
                BY <1>2, <3>5 DEF Owes
            <3>. QED  BY <3>2, <3>3, <3>6 DEF CountedFor
        <2>. QED  BY <2>1, <2>2
    <1>7. pipe' = pipe \/ pipe' = Append(pipe, j)
        BY DEF Disconnect
    <1>8. PICK r \in Seq(GoodJob) :
             pipe' = pipe \o r /\ Len(r) <= 1 /\ \A k \in 1 .. Len(r) : r[k] = j
        BY <1>2, <1>7, AppendOne
    <1>. HIDE DEF o, j
    <1>. QED  BY <1>1, <1>2, <1>3, <1>4, <1>5, <1>6, <1>8, AppendStep

LEMMA KickGhost ==
    ASSUME ~Overlap, TypeInv, OrderInv, NEW p \in Participants, Kick(p)
    PROVE  OrderInv' /\ (Counted => Counted')
    <1>. DEFINE j == NewJob("kick", None, p, None)
    <1>1. /\ row' = row /\ inRoom' = inRoom /\ conn' = conn /\ ~Busy(p)
          /\ pipe' = Append(pipe, j)
        BY DEF Kick, MayStart
    <1>2. /\ j \in GoodJob /\ j.p = p /\ j.cmd = "hget" /\ j.task = "kick"
        BY NoneAssumption DEF NewJob, GoodJob, Job, Tasks, Commands
    <1>3. \A q \in Participants : RoomOf(q) \subseteq RoomOf(q)'
        BY <1>1 DEF RoomOf, Room
    <1>4. \A s \in Sockets : inRoom[s] => conn'[s] \notin {"new", "connected"}
        BY <1>1 DEF OrderInv, Entered
    <1>5. \A i \in 1 .. Len(pipe) : pipe[i].task = "join" => conn'[pipe[i].s] = "joined"
        BY <1>1 DEF OrderInv, Joining
    <1>6. PICK r \in Seq(GoodJob) :
             pipe' = pipe \o r /\ Len(r) <= 1 /\ \A k \in 1 .. Len(r) : r[k] = j
        BY <1>1, <1>2, AppendOne
    <1>. HIDE DEF j
    <1>. QED  BY <1>1, <1>2, <1>3, <1>4, <1>5, <1>6, AppendStep

(* broadcastKicked empties the room of p and starts a handler per socket.   *)
LEMMA BroadcastGhost ==
    ASSUME ~Overlap, TypeInv, OrderInv, NEW p \in Participants, BroadcastKicked(p)
    PROVE  OrderInv' /\ (Counted => Counted')
    <1>. DEFINE gone == RoomOf(p)
                n == Cardinality(gone)
    <1>1. /\ row' = row /\ inRoom' = inRoom /\ ~Busy(p)
          /\ row[p] = None \/ n <= 1
          /\ conn' = [s \in Sockets |-> IF s \in gone THEN "dropped" ELSE conn[s]]
        BY DEF BroadcastKicked
    <1>2. n \in Nat /\ \A s \in gone : s \in Sockets /\ Owner[s] = p
        BY RoomSets DEF RoomOf, Room
    <1>3. PICK order \in [1 .. n -> gone] :
              pipe' = pipe \o [i \in 1 .. n |-> NewJob("disconnect", order[i], p, None)]
        BY DEF BroadcastKicked
    <1>. DEFINE r == [i \in 1 .. n |-> NewJob("disconnect", order[i], p, None)]
    <1>. HIDE DEF n
    <1>4. /\ r \in Seq(GoodJob) /\ Len(r) = n
          /\ \A k \in 1 .. n : r[k].p = p /\ r[k].cmd = "hget" /\ r[k].task = "disconnect"
        <2>1. \A k \in 1 .. n : NewJob("disconnect", order[k], p, None) \in GoodJob
            BY <1>2, NewJobGood
        <2>2. r \in [1 .. n -> GoodJob]
            BY <2>1
        <2>3. r \in Seq(GoodJob) /\ Len(r) = n
            BY <1>2, <2>2, SeqDef
        <2>. QED  BY <2>3 DEF NewJob
    <1>5. \A s \in Sockets : inRoom[s] => conn'[s] \notin {"new", "connected"}
        BY <1>1 DEF OrderInv, Entered
    <1>6. \A i \in 1 .. Len(pipe) : pipe[i].task = "join" => conn'[pipe[i].s] = "joined"
        BY <1>1, JobAt DEF OrderInv, Joining, RoomOf, Room
    <1>7. \A q \in Participants : q # p => RoomOf(q) \subseteq RoomOf(q)'
        BY <1>1, <1>2 DEF RoomOf, Room
    <1>8. ASSUME Counted
          PROVE  CountedFor(p)'
        <2>1. RoomOf(p)' = {}
            BY <1>1 DEF RoomOf, Room, Open
        <2>2. Cardinality(RoomOf(p)') = 0
            BY <2>1, FS_EmptySet
        <2>3. Count(p)' = Count(p) /\ Count(p) \in Nat /\ Count(p) <= n
            BY <1>1, <1>8, NotBusy, CountTyped DEF Count, n
        <2>4. CASE Count(p) = 0
            BY <2>2, <2>3, <2>4 DEF CountedFor
        <2>5. CASE Count(p) # 0
            <3>1. n = 1 /\ Count(p) = 1
                BY <1>1, <1>2, <2>3, <2>5 DEF Count
            <3>2. \E k \in 1 .. Len(pipe') : pipe'[k] = r[1]
                <4>1. pipe \in Seq(GoodJob) /\ r \in Seq(GoodJob) /\ 1 \in 1 .. Len(r)
                    BY <1>4, <3>1 DEF TypeInv
                <4>2. pipe' = pipe \o r
                    BY <1>3
                <4>. HIDE DEF r
                <4>3. Len(pipe) + 1 \in 1 .. Len(pipe \o r) /\ (pipe \o r)[Len(pipe) + 1] = r[1]
                    BY <4>1, Appended
                <4>. QED  BY <4>2, <4>3
            <3>3. PICK k \in 1 .. Len(pipe') : pipe'[k] = r[1]
                BY <3>2
            <3>4. pipe'[k].p = p /\ Owes(k)'
                BY <1>4, <3>1, <3>3 DEF Owes
            <3>. QED  BY <2>2, <2>3, <3>1, <3>4 DEF CountedFor
        <2>. QED  BY <2>4, <2>5
    <1>9. Len(r) <= 1 \/ row[p] = None
        BY <1>1, <1>4
    <1>10. pipe' = pipe \o r
        BY <1>3
    <1>. HIDE DEF r, gone
    <1>. QED  BY <1>1, <1>4, <1>5, <1>6, <1>7, <1>8, <1>9, <1>10, AppendStep

-----------------------------------------------------------------------------
(* What is in the queue when its head has been answered.                    *)
LEMMA Dropped ==
    ASSUME NEW S, NEW q \in Seq(S), q # <<>>
    PROVE  /\ Len(q) \in Nat /\ Head(q) = q[1]
           /\ \A k \in 1 .. Len(Tail(q)) : k + 1 \in 2 .. Len(q) /\ Tail(q)[k] = q[k + 1]
           /\ \A i \in 2 .. Len(q) : i - 1 \in 1 .. Len(Tail(q)) /\ Tail(q)[i - 1] = q[i]
    <1>1. Len(q) \in Nat /\ Head(q) = q[1] /\ Len(Tail(q)) = Len(q) - 1
          /\ \A k \in 1 .. Len(q) - 1 : Tail(q)[k] = q[k + 1]
        OBVIOUS
    <1>. DEFINE u == Tail(q)
    <1>. HIDE DEF u
    <1>2. \A i \in 2 .. Len(q) : i - 1 \in 1 .. Len(q) - 1 /\ (i - 1) + 1 = i
        BY <1>1
    <1>. QED  BY <1>1, <1>2

(* The handler at the head works alone, unless it found nothing to uncount.  *)
LEMMA HeadAlone ==
    ASSUME TypeInv, Alone, pipe # <<>>, Current.cmd # "hgetall",
           \/ row[Current.p] # None
           \/ Current.task # "disconnect"
           \/ Current.cmd # "hget"
    PROVE  \A i \in 2 .. Len(pipe) : pipe[i].cmd # "hgetall" => pipe[i].p # Current.p
    <1>1. Current = pipe[1] /\ 1 \in 1 .. Len(pipe) /\ Len(pipe) \in Nat
        BY CurrentGood DEF TypeInv
    <1>. QED  BY <1>1 DEF Alone, Working

(* A handler that ends without changing anything but the rosters.           *)
LEMMA EndGhost ==
    ASSUME TypeInv, OrderInv, pipe # <<>>, Resume(<<>>),
           row' = row, conn' = conn, inRoom' = inRoom,
           NEW c \in Participants, c = Current.p, ~Owes(1) \/ row[c] = None
    PROVE  OrderInv' /\ (Counted => Counted')
    <1>1. /\ Len(pipe) \in Nat /\ Current = pipe[1]
          /\ \A k \in 1 .. Len(pipe') : k + 1 \in 2 .. Len(pipe) /\ pipe'[k] = pipe[k + 1]
          /\ \A i \in 2 .. Len(pipe) : i - 1 \in 1 .. Len(pipe') /\ pipe'[i - 1] = pipe[i]
        <2>1. pipe \in Seq(GoodJob)
            BY DEF TypeInv
        <2>2. pipe' = Tail(pipe)
            BY <2>1 DEF Resume
        <2>. QED  BY <2>1, <2>2, Dropped DEF Current
    <1>2. \A k \in 1 .. Len(pipe') : \E i \in 1 .. Len(pipe) : i = k + 1 /\ pipe'[k] = pipe[i]
        BY <1>1
    <1>3. Alone'
        <2>. SUFFICES ASSUME NEW i \in 1 .. Len(pipe'), NEW k \in 1 .. Len(pipe'),
                             pipe'[i].cmd # "hgetall", pipe'[k].cmd # "hgetall",
                             i # k, pipe'[i].p = pipe'[k].p
                      PROVE  /\ row[pipe'[i].p] = None
                             /\ pipe'[i].task = "disconnect" /\ pipe'[i].cmd = "hget"
            BY DEF Alone, Working
        <2>1. i + 1 # k + 1
            OBVIOUS
        <2>. QED  BY <1>2, <2>1 DEF OrderInv, Alone, Working
    <1>4. Fresh' /\ Joining' /\ Entered'
        BY <1>2 DEF OrderInv, Fresh, Joining, Entered
    <1>5. \A p : RoomOf(p)' = RoomOf(p)
        BY DEF RoomOf, Room
    <1>6. ASSUME Counted, NEW p \in Participants, p # c \/ ~Owes(1)
          PROVE  CountedFor(p)'
        <2>1. \A i \in 1 .. Len(pipe) : pipe[i].p = p /\ Owes(i) =>
                  \E k \in 1 .. Len(pipe') : pipe'[k].p = p /\ Owes(k)'
            <3>. SUFFICES ASSUME NEW i \in 1 .. Len(pipe), pipe[i].p = p, Owes(i)
                          PROVE  \E k \in 1 .. Len(pipe') : pipe'[k].p = p /\ Owes(k)'
                OBVIOUS
            <3>1. i \in 2 .. Len(pipe)
                BY <1>1, <1>6
            <3>2. PICK k \in 1 .. Len(pipe') : pipe'[k] = pipe[i]
                BY <1>1, <3>1
            <3>. QED  BY <3>2 DEF Owes
        <2>. QED  BY <1>5, <1>6, <2>1, KeepsCounted
    <1>7. ASSUME row[c] = None
          PROVE  CountedFor(c)'
        <2>1. Count(c)' = 0
            BY <1>7 DEF Count
        <2>. QED  BY <2>1, RoomSets DEF CountedFor
    <1>8. Counted => Counted'
        BY <1>6, <1>7 DEF Counted
    <1>. QED  BY <1>3, <1>4, <1>8 DEF OrderInv

LEMMA Moved ==
    ASSUME TypeInv, pipe # <<>>, NEW j \in GoodJob, NEW r, r = <<>> \/ r = <<j>>, Resume(r)
    PROVE  /\ Len(pipe) \in Nat /\ Current = pipe[1] /\ 1 \in 1 .. Len(pipe)
           /\ \A k \in 1 .. Len(pipe') :
                 \/ k + 1 \in 2 .. Len(pipe) /\ pipe'[k] = pipe[k + 1]
                 \/ r = <<j>> /\ k = Len(pipe') /\ pipe'[k] = j
           /\ \A i \in 2 .. Len(pipe) : i - 1 \in 1 .. Len(pipe') /\ pipe'[i - 1] = pipe[i]
           /\ r = <<j>> => Len(pipe') \in 1 .. Len(pipe') /\ pipe'[Len(pipe')] = j
    <1>. DEFINE u == Tail(pipe)
    <1>1. pipe \in Seq(GoodJob) /\ u \in Seq(GoodJob)
        BY CurrentGood DEF TypeInv
    <1>2. /\ Len(pipe) \in Nat /\ Head(pipe) = pipe[1] /\ 1 \in 1 .. Len(pipe)
          /\ \A k \in 1 .. Len(u) : k + 1 \in 2 .. Len(pipe) /\ u[k] = pipe[k + 1]
          /\ \A i \in 2 .. Len(pipe) : i - 1 \in 1 .. Len(u) /\ u[i - 1] = pipe[i]
        BY <1>1, Dropped, CurrentGood
    <1>. HIDE DEF u
    <1>3. pipe' = u \o r
        BY DEF Resume, u
    <1>4. CASE r = <<>>
        <2>1. pipe' = u /\ r # <<j>>
            BY <1>1, <1>3, <1>4
        <2>. QED  BY <1>2, <2>1 DEF Current
    <1>5. CASE r = <<j>>
        <2>1. /\ Len(pipe') = Len(u) + 1 /\ Len(u) \in Nat
              /\ \A k \in 1 .. Len(u) : pipe'[k] = u[k]
              /\ pipe'[Len(u) + 1] = j
            BY <1>1, <1>3, <1>5
        <2>2. \A k \in 1 .. Len(pipe') : k \in 1 .. Len(u) \/ k = Len(pipe')
            BY <2>1
        <2>3. \A k \in 1 .. Len(u) : k \in 1 .. Len(pipe')
            BY <2>1
        <2>4. Len(pipe') \in 1 .. Len(pipe') /\ pipe'[Len(pipe')] = j
            BY <2>1
        <2>5. \A k \in 1 .. Len(u) :
                  k \in 1 .. Len(pipe') /\ pipe'[k] = pipe[k + 1] /\ k + 1 \in 2 .. Len(pipe)
            BY <1>2, <2>1, <2>3
        <2>6. \A i \in 2 .. Len(pipe) : i - 1 \in 1 .. Len(u) /\ pipe'[i - 1] = pipe[i]
            BY <1>2, <2>1
        <2>7. \A i \in 2 .. Len(pipe) : i - 1 \in 1 .. Len(pipe') /\ pipe'[i - 1] = pipe[i]
            BY <2>3, <2>6
        <2>. QED  BY <1>2, <1>5, <2>2, <2>4, <2>5, <2>7 DEF Current
    <1>. QED  BY <1>4, <1>5

(* A handler that works alone on the row of c goes on to its next command.  *)
LEMMA SoloStep ==
    ASSUME TypeInv, OrderInv, pipe # <<>>,
           NEW c \in Participants, c = Current.p,
           \A i \in 2 .. Len(pipe) : pipe[i].cmd # "hgetall" => pipe[i].p # c,
           NEW j \in GoodJob, NEW r, r = <<>> \/ r = <<j>>, Resume(r),
           j.p = c,
           j.cmd = "hset" => j.read = row'[c],
           j.task = "join" => conn[j.s] = "joined" /\ ~inRoom'[j.s],
           conn' = conn,
           \A q \in Participants : q # c => row'[q] = row[q],
           \A s \in Sockets : inRoom'[s] # inRoom[s] =>
              Owner[s] = c /\ (inRoom'[s] => conn[s] = "joined"),
           inRoom' \in [Sockets -> BOOLEAN]
    PROVE  OrderInv' /\ (Counted /\ CountedFor(c)' => Counted')
    <1>1. /\ Len(pipe) \in Nat /\ Current = pipe[1] /\ 1 \in 1 .. Len(pipe)
          /\ \A k \in 1 .. Len(pipe') :
                \/ k + 1 \in 2 .. Len(pipe) /\ pipe'[k] = pipe[k + 1]
                \/ r = <<j>> /\ k = Len(pipe') /\ pipe'[k] = j
          /\ \A i \in 2 .. Len(pipe) : i - 1 \in 1 .. Len(pipe') /\ pipe'[i - 1] = pipe[i]
        BY Moved
    <1>2. \A k \in 1 .. Len(pipe') :
             \/ \E i \in 2 .. Len(pipe) : i = k + 1 /\ pipe'[k] = pipe[i] /\ i \in 1 .. Len(pipe)
             \/ k = Len(pipe') /\ pipe'[k] = j
        BY <1>1
    <1>3. Alone'
        <2>. SUFFICES ASSUME NEW i \in 1 .. Len(pipe'), NEW k \in 1 .. Len(pipe'),
                             pipe'[i].cmd # "hgetall", pipe'[k].cmd # "hgetall",
                             i # k, pipe'[i].p = pipe'[k].p
                      PROVE  /\ row'[pipe'[i].p] = None
                             /\ pipe'[i].task = "disconnect" /\ pipe'[i].cmd = "hget"
            BY DEF Alone, Working
        <2>1. pipe'[i].p # c
            <3>. SUFFICES ASSUME pipe'[i].p = c PROVE FALSE
                OBVIOUS
            <3>. QED  BY <1>2
        <2>2. /\ i + 1 \in 1 .. Len(pipe) /\ pipe'[i] = pipe[i + 1]
              /\ k + 1 \in 1 .. Len(pipe) /\ pipe'[k] = pipe[k + 1]
              /\ i + 1 # k + 1
            BY <1>2, <2>1
        <2>3. pipe[i + 1].p \in Participants
            BY <2>2, JobAt
        <2>. QED  BY <2>1, <2>2, <2>3 DEF OrderInv, Alone, Working
    <1>4. Fresh'
        <2>. SUFFICES ASSUME NEW k \in 1 .. Len(pipe'), pipe'[k].cmd = "hset"
                      PROVE  pipe'[k].read = row'[pipe'[k].p]
            BY DEF Fresh
        <2>1. CASE pipe'[k] = j
            BY <2>1
        <2>2. ASSUME NEW i \in 2 .. Len(pipe), i \in 1 .. Len(pipe), pipe'[k] = pipe[i]
              PROVE  pipe'[k].read = row'[pipe'[k].p]
            BY <2>2, JobAt DEF OrderInv, Fresh
        <2>. QED  BY <1>2, <2>1, <2>2
    <1>5. Joining'
        <2>. SUFFICES ASSUME NEW k \in 1 .. Len(pipe'), pipe'[k].task = "join"
                      PROVE  conn'[pipe'[k].s] = "joined" /\ ~inRoom'[pipe'[k].s]
            BY DEF Joining
        <2>1. CASE pipe'[k] = j
            BY <2>1
        <2>2. ASSUME NEW i \in 2 .. Len(pipe), i \in 1 .. Len(pipe), pipe'[k] = pipe[i]
              PROVE  conn'[pipe'[k].s] = "joined" /\ ~inRoom'[pipe'[k].s]
            <3>1. pipe[i].s \in Sockets /\ Owner[pipe[i].s] = pipe[i].p /\ pipe[i].p # c
                BY <2>2, JobAt
            <3>. QED  BY <2>2, <3>1 DEF OrderInv, Joining
        <2>. QED  BY <1>2, <2>1, <2>2
    <1>6. Entered'
        BY DEF OrderInv, Entered
    <1>7. ASSUME Counted, NEW p \in Participants, p # c
          PROVE  CountedFor(p)'
        <2>1. \A i \in 1 .. Len(pipe) : pipe[i].p = p =>
                 \E k \in 1 .. Len(pipe') : pipe'[k] = pipe[i]
            <3>. SUFFICES ASSUME NEW i \in 1 .. Len(pipe), pipe[i].p = p
                          PROVE  \E k \in 1 .. Len(pipe') : pipe'[k] = pipe[i]
                OBVIOUS
            <3>1. i \in 2 .. Len(pipe)
                BY <1>1, <1>7
            <3>. QED  BY <1>1, <3>1
        <2>2. RoomOf(p) \subseteq RoomOf(p)'
            BY <1>7 DEF RoomOf, Room, TypeInv, TypeOK
        <2>. QED  BY <1>7, <2>1, <2>2, KeepsDebt, KeepsCounted
    <1>8. Counted /\ CountedFor(c)' => Counted'
        BY <1>7 DEF Counted
    <1>. QED  BY <1>3, <1>4, <1>5, <1>6, <1>8 DEF OrderInv

LEMMA ReplyHead ==
    ASSUME TypeInv, Reply
    PROVE  /\ pipe # <<>> /\ Current \in GoodJob /\ Current = pipe[1] /\ 1 \in 1 .. Len(pipe)
           /\ Current.p \in Participants
           /\ Current.task # "kick" => Current.s \in Sockets /\ Owner[Current.s] = Current.p
    <1>1. pipe # <<>>
        BY DEF Reply, ReadRow, ReadNothing, WriteRow, LeaveForgot, KickForgot,
               JoinDone, DisconnectDone, ToggleDone, SendRoster, Answered
    <1>. QED  BY <1>1, CurrentGood, HeadTyped DEF TypeInv

(* What the row of c counts when only the head of the queue works on it.    *)
LEMMA HeadDebt ==
    ASSUME TypeInv, Counted, pipe # <<>>, NEW c \in Participants, c = Current.p,
           \A i \in 2 .. Len(pipe) : pipe[i].cmd # "hgetall" => pipe[i].p # c
    PROVE  /\ Count(c) \in Nat /\ Cardinality(RoomOf(c)) \in Nat
           /\ Cardinality(RoomOf(c)') \in Nat
           /\ Count(c) <= Cardinality(RoomOf(c)) + 1
           /\ ~Owes(1) => Count(c) <= Cardinality(RoomOf(c))
    <1>1. \A i \in 1 .. Len(pipe) : pipe[i].p = c /\ Owes(i) => i = 1
        BY DEF Owes, TypeInv
    <1>. QED  BY <1>1, CountTyped, RoomSets DEF Counted, CountedFor

LEMMA ReadRowGhost ==
    ASSUME TypeInv, OrderInv, Reply, ReadRow
    PROVE  OrderInv' /\ (Counted => Counted')
    <1>. DEFINE h == Current
                j == [h EXCEPT !.read = row[h.p],
                               !.cmd = IF h.task \in {"leave", "kick"} THEN "hdel" ELSE "hset"]
    <1>1. PICK c \in Participants : c = h.p
        BY ReplyHead
    <1>2. /\ h \in GoodJob /\ h.cmd = "hget" /\ (row[c] # None \/ h.task = "join")
          /\ row' = row /\ conn' = conn /\ inRoom' = inRoom /\ Resume(<<j>>)
        BY <1>1, ReplyHead DEF ReadRow, Answered
    <1>3. \A i \in 2 .. Len(pipe) : pipe[i].cmd # "hgetall" => pipe[i].p # c
        BY <1>1, <1>2, ReplyHead, HeadAlone DEF OrderInv
    <1>4. /\ j \in GoodJob /\ j.p = c /\ j.task = h.task /\ j.s = h.s
          /\ j.read = row[c] /\ j.cmd \in {"hdel", "hset"}
          /\ h.task = "disconnect" => j.cmd = "hset"
        <2>1. row[c] \in Row \cup {None}
            BY DEF TypeInv, TypeOK
        <2>. QED  BY <1>1, <1>2, <2>1 DEF GoodJob, Job, Tasks, Commands
    <1>. HIDE DEF j
    <1>5. ASSUME Counted
          PROVE  CountedFor(c)'
        <2>1. \A i \in 1 .. Len(pipe) : pipe[i].p = c /\ Owes(i) =>
                 \E k \in 1 .. Len(pipe') : pipe'[k].p = c /\ Owes(k)'
            <3>. SUFFICES ASSUME NEW i \in 1 .. Len(pipe), pipe[i].p = c, Owes(i)
                          PROVE  \E k \in 1 .. Len(pipe') : pipe'[k].p = c /\ Owes(k)'
                OBVIOUS
            <3>1. pipe[i] = h /\ h.task = "disconnect"
                BY <1>2, <1>3, ReplyHead DEF Owes, TypeInv
            <3>2. PICK k \in 1 .. Len(pipe') : pipe'[k] = j
                BY <1>2, <1>4, ReplyHead, Moved
            <3>. QED  BY <1>4, <3>1, <3>2 DEF Owes
        <2>2. RoomOf(c) \subseteq RoomOf(c)'
            BY <1>2 DEF RoomOf, Room
        <2>. QED  BY <1>2, <1>5, <2>1, <2>2, KeepsCounted
    <1>6. j.task = "join" => conn[j.s] = "joined" /\ ~inRoom[j.s]
        BY <1>4, ReplyHead DEF OrderInv, Joining
    <1>7. inRoom' \in [Sockets -> BOOLEAN]
        BY <1>2 DEF TypeInv, TypeOK
    <1>. QED  BY <1>1, <1>2, <1>3, <1>4, <1>5, <1>6, <1>7, ReplyHead, SoloStep

LEMMA WriteRowGhost ==
    ASSUME TypeInv, OrderInv, Reply, WriteRow
    PROVE  OrderInv' /\ (Counted => Counted')
    <1>. DEFINE h == Current
                j == [h EXCEPT !.cmd = "expire"]
    <1>1. PICK c \in Participants : c = h.p
        BY ReplyHead
    <1>2. /\ h \in GoodJob /\ h.cmd = "hset" /\ h.task \in {"join", "disconnect", "toggle"}
          /\ row' = [row EXCEPT ![c] = Written(h)]
          /\ conn' = conn /\ inRoom' = inRoom /\ Resume(<<j>>)
        BY <1>1, ReplyHead DEF WriteRow, Answered
    <1>3. \A i \in 2 .. Len(pipe) : pipe[i].cmd # "hgetall" => pipe[i].p # c
        BY <1>1, <1>2, ReplyHead, HeadAlone DEF OrderInv
    <1>4. j \in GoodJob /\ j.p = c /\ j.task = h.task /\ j.s = h.s /\ j.cmd = "expire"
        BY <1>1, <1>2 DEF GoodJob, Job, Tasks, Commands
    <1>. HIDE DEF j
    <1>5. h.read = row[c]
        BY <1>1, <1>2, ReplyHead DEF OrderInv, Fresh
    <1>6. row'[c] = Written(h) /\ Written(h) \in Row /\ Count(c)' = Written(h).count
        BY <1>2, WrittenTyped, NoneAssumption DEF TypeInv, TypeOK, Count
    <1>7. RoomOf(c)' = RoomOf(c)
        BY <1>2 DEF RoomOf, Room
    <1>8. Counted =>
             /\ Count(c) \in Nat /\ Cardinality(RoomOf(c)) \in Nat
             /\ Count(c) <= Cardinality(RoomOf(c)) + 1
             /\ ~Owes(1) => Count(c) <= Cardinality(RoomOf(c))
        BY <1>1, <1>3, ReplyHead, HeadDebt
    <1>9. ASSUME Counted
          PROVE  CountedFor(c)'
        <2>1. CASE h.task = "join"
            <3>1. Written(h).count = Count(c) + 1
                BY <1>2, <1>5, <1>6, <2>1, NoneAssumption DEF Written, Count, TypeInv, TypeOK, Row
            <3>2. ~Owes(1)
                BY <1>2, <2>1, ReplyHead DEF Owes
            <3>3. PICK k \in 1 .. Len(pipe') : pipe'[k] = j
                BY <1>2, <1>4, ReplyHead, Moved
            <3>4. pipe'[k].p = c /\ Owes(k)'
                BY <1>4, <2>1, <3>3 DEF Owes
            <3>. QED  BY <1>6, <1>7, <1>8, <1>9, <3>1, <3>2, <3>4 DEF CountedFor
        <2>2. CASE h.task = "disconnect"
            <3>1. row[c] # None /\ row[c] \in Row
                BY <1>2, <1>5, <2>2 DEF GoodJob, TypeInv, TypeOK
            <3>2. Written(h).count = Min1(Count(c))
                BY <1>5, <2>2, <3>1 DEF Written, Count, Row
            <3>. QED  BY <1>6, <1>7, <1>8, <1>9, <3>2 DEF CountedFor, Min1
        <2>3. CASE h.task = "toggle"
            <3>1. row[c] # None /\ row[c] \in Row
                BY <1>2, <1>5, <2>3 DEF GoodJob, TypeInv, TypeOK
            <3>2. Written(h).count = Count(c)
                BY <1>5, <2>3, <3>1 DEF Written, Count, Row
            <3>3. ~Owes(1)
                BY <2>3, ReplyHead DEF Owes
            <3>. QED  BY <1>6, <1>7, <1>8, <1>9, <3>2, <3>3 DEF CountedFor
        <2>. QED  BY <1>2, <2>1, <2>2, <2>3
    <1>10. j.task = "join" => conn[j.s] = "joined" /\ ~inRoom[j.s]
        BY <1>4, ReplyHead DEF OrderInv, Joining
    <1>11. /\ inRoom' \in [Sockets -> BOOLEAN]
           /\ \A q \in Participants : q # c => row'[q] = row[q]
        BY <1>2 DEF TypeInv, TypeOK
    <1>. QED  BY <1>1, <1>2, <1>3, <1>4, <1>9, <1>10, <1>11, ReplyHead, SoloStep

(* forgetParticipant leaves nothing to count.                               *)
LEMMA ForgotGhost ==
    ASSUME TypeInv, OrderInv, Reply, LeaveForgot \/ KickForgot
    PROVE  OrderInv' /\ (Counted => Counted')
    <1>. DEFINE h == Current
    <1>1. PICK c \in Participants : c = h.p
        BY ReplyHead
    <1>2. /\ h \in GoodJob /\ h.task \in {"leave", "kick"} /\ h.cmd \in {"hget", "hdel"}
          /\ row' = [row EXCEPT ![c] = None] /\ conn' = conn
        BY <1>1, ReplyHead DEF LeaveForgot, KickForgot, LeaveRoom, Answered
    <1>3. \A i \in 2 .. Len(pipe) : pipe[i].cmd # "hgetall" => pipe[i].p # c
        BY <1>1, <1>2, ReplyHead, HeadAlone DEF OrderInv
    <1>4. \E j \in GoodJob : /\ Resume(<<>>) \/ Resume(<<j>>)
                             /\ j.p = c /\ j.cmd # "hset" /\ j.task # "join"
        <2>1. CASE LeaveForgot
            <3>1. h.task = "leave" /\ Resume(<<ListJob("refresh", h.s, c)>>)
                BY <1>1, <2>1 DEF LeaveForgot, LeaveRoom, Answered
            <3>2. ListJob("refresh", h.s, c) \in GoodJob
                BY <1>1, <3>1, ReplyHead, ListJobGood
            <3>. QED  BY <3>1, <3>2 DEF ListJob
        <2>2. CASE KickForgot
            BY <1>1, <1>2, <2>2 DEF KickForgot
        <2>. QED  BY <2>1, <2>2
    <1>5. PICK j \in GoodJob : /\ Resume(<<>>) \/ Resume(<<j>>)
                               /\ j.p = c /\ j.cmd # "hset" /\ j.task # "join"
        BY <1>4
    <1>6. CountedFor(c)'
        <2>1. Count(c)' = 0
            BY <1>2 DEF Count, TypeInv, TypeOK
        <2>. QED  BY <2>1, RoomSets DEF CountedFor
    <1>7. /\ inRoom' \in [Sockets -> BOOLEAN]
          /\ \A s \in Sockets : inRoom'[s] # inRoom[s] =>
                Owner[s] = c /\ (inRoom'[s] => conn[s] = "joined")
        <2>1. CASE LeaveForgot
            <3>1. h.s \in Sockets /\ Owner[h.s] = c /\ inRoom' = [inRoom EXCEPT ![h.s] = FALSE]
                BY <1>1, <2>1, ReplyHead DEF LeaveForgot, LeaveRoom, Answered
            <3>. QED  BY <3>1 DEF TypeInv, TypeOK
        <2>2. CASE KickForgot
            BY <2>2 DEF KickForgot, TypeInv, TypeOK
        <2>. QED  BY <2>1, <2>2
    <1>8. \A q \in Participants : q # c => row'[q] = row[q]
        BY <1>2 DEF TypeInv, TypeOK
    <1>. QED  BY <1>1, <1>2, <1>3, <1>5, <1>6, <1>7, <1>8, ReplyHead, SoloStep

(* The counted socket enters the room.                                      *)
LEMMA JoinDoneGhost ==
    ASSUME TypeInv, OrderInv, Reply, JoinDone
    PROVE  OrderInv' /\ (Counted => Counted')
    <1>. DEFINE h == Current
                j == ListJob("snapshot", h.s, h.p)
    <1>1. PICK c \in Participants : c = h.p
        BY ReplyHead
    <1>2. /\ h.task = "join" /\ h.cmd = "expire" /\ h.s \in Sockets /\ Owner[h.s] = c
          /\ row' = row /\ conn' = conn /\ inRoom' = [inRoom EXCEPT ![h.s] = TRUE]
          /\ Resume(<<j>>)
        BY <1>1, ReplyHead DEF JoinDone, Answered
    <1>3. \A i \in 2 .. Len(pipe) : pipe[i].cmd # "hgetall" => pipe[i].p # c
        BY <1>1, <1>2, ReplyHead, HeadAlone DEF OrderInv
    <1>4. j \in GoodJob /\ j.p = c /\ j.task = "snapshot" /\ j.cmd = "hgetall"
        BY <1>1, <1>2, ListJobGood DEF ListJob
    <1>. HIDE DEF j
    <1>5. conn[h.s] = "joined" /\ ~inRoom[h.s]
        BY <1>2, ReplyHead DEF OrderInv, Joining
    <1>6. ASSUME Counted
          PROVE  CountedFor(c)'
        <2>1. h.s \notin RoomOf(c) /\ RoomOf(c)' = RoomOf(c) \cup {h.s}
            BY <1>2, <1>5 DEF RoomOf, Room, Open, TypeInv, TypeOK
        <2>2. Cardinality(RoomOf(c)') = Cardinality(RoomOf(c)) + 1
            BY <1>2, <2>1, RoomSets, SocketSets
        <2>3. /\ Count(c) \in Nat /\ Cardinality(RoomOf(c)) \in Nat
              /\ Count(c) <= Cardinality(RoomOf(c)) + 1
            BY <1>1, <1>3, <1>6, ReplyHead, HeadDebt
        <2>4. Count(c)' = Count(c)
            BY <1>2 DEF Count
        <2>. QED  BY <2>2, <2>3, <2>4 DEF CountedFor
    <1>7. /\ inRoom' \in [Sockets -> BOOLEAN]
          /\ \A s \in Sockets : inRoom'[s] # inRoom[s] =>
                Owner[s] = c /\ (inRoom'[s] => conn[s] = "joined")
        BY <1>2, <1>5 DEF TypeInv, TypeOK
    <1>. QED  BY <1>1, <1>2, <1>3, <1>4, <1>6, <1>7, ReplyHead, SoloStep

LEMMA ReplyGhost ==
    ASSUME TypeInv, OrderInv, Reply
    PROVE  OrderInv' /\ (Counted => Counted')
    <1>1. PICK c \in Participants : c = Current.p
        BY ReplyHead
    <1>2. CASE ReadNothing
        BY <1>1, <1>2, ReplyHead, EndGhost DEF ReadNothing
    <1>3. CASE DisconnectDone \/ ToggleDone \/ SendRoster
        <2>1. ~Owes(1)
            BY <1>3, ReplyHead DEF Owes, DisconnectDone, ToggleDone, SendRoster, Answered
        <2>2. Resume(<<>>) /\ row' = row /\ conn' = conn /\ inRoom' = inRoom
            BY <1>3 DEF DisconnectDone, ToggleDone, SendRoster
        <2>. QED  BY <1>1, <2>1, <2>2, ReplyHead, EndGhost
    <1>. QED
        BY <1>2, <1>3, ReadRowGhost, WriteRowGhost, ForgotGhost, JoinDoneGhost DEF Reply

-----------------------------------------------------------------------------
LEMMA InitGhost == Init => GhostInv
    <1>. SUFFICES ASSUME Init PROVE GhostInv
        OBVIOUS
    <1>1. Alone /\ Fresh /\ Joining /\ Entered
        BY DEF Init, Alone, Working, Fresh, Joining, Entered
    <1>2. \A p \in Participants : Count(p) = 0
        BY DEF Init, Count
    <1>3. Counted
        BY <1>2, RoomSets DEF Counted, CountedFor
    <1>. QED  BY <1>1, <1>3 DEF GhostInv, OrderInv

LEMMA NextOrder ==
    ASSUME ~Overlap, TypeInv, OrderInv, [Next]_vars
    PROVE  OrderInv' /\ (Counted => Counted')
    <1>1. ASSUME NEW s \in Sockets, Connect(s)
          PROVE  OrderInv' /\ (Counted => Counted')
        BY <1>1, ConnectGhost
    <1>2. ASSUME NEW s \in Sockets,
                 \/ Join(s) \/ JoinAgain(s) \/ Leave(s)
                 \/ \E f \in Flags, on \in BOOLEAN : Toggle(s, f, on)
          PROVE  OrderInv' /\ (Counted => Counted')
        BY <1>2, StartGhost
    <1>3. ASSUME NEW s \in Sockets, Disconnect(s)
          PROVE  OrderInv' /\ (Counted => Counted')
        BY <1>3, DisconnectGhost
    <1>4. ASSUME NEW p \in Participants, Kick(p)
          PROVE  OrderInv' /\ (Counted => Counted')
        BY <1>4, KickGhost
    <1>5. ASSUME NEW p \in Participants, FinishKick(p) \/ KickAgain(p)
          PROVE  OrderInv' /\ (Counted => Counted')
        BY <1>5, BroadcastGhost DEF FinishKick, KickAgain
    <1>6. CASE \/ UNCHANGED vars
               \/ \E p \in Participants : Approve(p)
        <2>1. row' = row /\ conn' = conn /\ inRoom' = inRoom /\ pipe' = pipe
            BY <1>6 DEF vars, Approve
        <2>2. Alone' /\ Fresh' /\ Joining' /\ Entered'
            BY <2>1 DEF OrderInv, Alone, Working, Fresh, Joining, Entered
        <2>3. Counted => Counted'
            BY <2>1 DEF Counted, CountedFor, Count, RoomOf, Room, Owes
        <2>. QED  BY <2>2, <2>3 DEF OrderInv
    <1>7. CASE Reply
        BY <1>7, ReplyGhost
    <1>. HIDE DEF OrderInv, Counted
    <1>. QED  BY <1>1, <1>2, <1>3, <1>4, <1>5, <1>6, <1>7 DEF Next

LEMMA NextGhost == ~Overlap /\ TypeInv /\ GhostInv /\ [Next]_vars => GhostInv'
    BY NextOrder DEF GhostInv

(* However many tabs open, reload, leave or are kicked, and whatever the     *)
(* toggles do: as long as the handlers of one participant run one after the  *)
(* other, a row never counts a socket that is no longer in the room, so no   *)
(* ghost keeps a meeting alive.                                             *)
THEOREM NoGhosts == ASSUME ~Overlap PROVE Spec => []NoGhost
    <1>1. TypeInv /\ GhostInv => NoGhost
        BY NotBusy DEF GhostInv, NoGhost
    <1>2. Init => TypeInv /\ GhostInv
        BY InitTyped, InitGhost
    <1>3. TypeInv /\ GhostInv /\ [Next]_vars => (TypeInv /\ GhostInv)'
        BY NextTyped, NextGhost
    <1>. QED  BY <1>1, <1>2, <1>3, PTL DEF Spec

-----------------------------------------------------------------------------
(* What bounds connectionCount when the handlers of one participant do      *)
(* overlap and the process may die.  A lost update loses a connection, it    *)
(* never invents one: what a handler has on its stack was once in the row,   *)
(* and each JOIN adds one for a socket that no JOIN had added before.        *)

(* A JOIN that has not written its row yet.                                 *)
Unwritten(i) == pipe[i].task = "join" /\ pipe[i].cmd \in {"hget", "hset"}

(* The sockets of p that a row of p may have counted, once.                 *)
Past(p) == {s \in SocketsOf(p) :
    /\ conn[s] \notin {"new", "connected"}
    /\ \A i \in 1 .. Len(pipe) : Unwritten(i) => pipe[i].s # s}

RowBound == \A p \in Participants : Count(p) <= Cardinality(Past(p))

StackBound == \A i \in 1 .. Len(pipe) :
    pipe[i].cmd = "hset" /\ pipe[i].read # None =>
        pipe[i].read.count <= Cardinality(Past(pipe[i].p))

(* A socket sends its first meeting:join once.                              *)
JoinedOnce ==
    /\ \A i \in 1 .. Len(pipe) : Unwritten(i) => conn[pipe[i].s] \notin {"new", "connected"}
    /\ \A i, k \in 1 .. Len(pipe) :
          Unwritten(i) /\ Unwritten(k) /\ i # k => pipe[i].s # pipe[k].s

BoundInv == RowBound /\ StackBound /\ JoinedOnce

LEMMA PastSets ==
    \A p : /\ Past(p) \in SUBSET Sockets /\ Past(p)' \in SUBSET Sockets
           /\ Cardinality(Past(p)) \in Nat /\ Cardinality(Past(p)') \in Nat
           /\ Past(p) \subseteq Past(p)' => Cardinality(Past(p)) <= Cardinality(Past(p)')
    <1>1. \A p : Past(p) \in SUBSET Sockets /\ Past(p)' \in SUBSET Sockets
        BY DEF Past, SocketsOf
    <1>. QED  BY <1>1, SocketSets

(* Any number of handlers may start: only a JOIN of a socket that has just   *)
(* connected is new to the bound.                                           *)
LEMMA StartedBound ==
    ASSUME TypeInv, BoundInv, NEW r \in Seq(GoodJob), pipe' = pipe \o r, row' = row,
           \A k \in 1 .. Len(r) :
              /\ r[k].cmd # "hset"
              /\ r[k].task = "join" =>
                    /\ Len(r) = 1 /\ conn[r[k].s] = "connected"
                    /\ conn'[r[k].s] \notin {"new", "connected"},
           \A s \in Sockets : conn[s] \notin {"new", "connected"} =>
                                 conn'[s] \notin {"new", "connected"}
    PROVE  BoundInv'
    <1>1. /\ Len(pipe) \in Nat /\ Len(r) \in Nat
          /\ \A i \in 1 .. Len(pipe) : i \in 1 .. Len(pipe') /\ pipe'[i] = pipe[i]
          /\ \A k \in 1 .. Len(pipe') :
                \/ k \in 1 .. Len(pipe) /\ pipe'[k] = pipe[k]
                \/ k - Len(pipe) \in 1 .. Len(r) /\ pipe'[k] = r[k - Len(pipe)]
        <2>1. pipe \in Seq(GoodJob)
            BY DEF TypeInv
        <2>. QED  BY <2>1, Appended
    <1>2. \A i \in 1 .. Len(pipe) : Unwritten(i) =>
              pipe[i].s \in Sockets /\ conn[pipe[i].s] \notin {"new", "connected"}
        BY JobAt DEF BoundInv, JoinedOnce, Unwritten
    <1>3. \A k \in 1 .. Len(pipe') : Unwritten(k)' =>
              \/ k \in 1 .. Len(pipe) /\ pipe'[k] = pipe[k] /\ Unwritten(k)
              \/ /\ k = Len(pipe) + 1 /\ conn[pipe'[k].s] = "connected"
                 /\ conn'[pipe'[k].s] \notin {"new", "connected"}
        BY <1>1 DEF Unwritten
    <1>4. \A p \in Participants : Past(p) \subseteq Past(p)'
        <2>. SUFFICES ASSUME NEW p \in Participants, NEW s \in Past(p) PROVE s \in Past(p)'
            OBVIOUS
        <2>1. s \in Sockets /\ s \in SocketsOf(p) /\ conn[s] \notin {"new", "connected"}
            BY DEF Past, SocketsOf
        <2>2. \A k \in 1 .. Len(pipe') : Unwritten(k)' => pipe'[k].s # s
            BY <1>3, <2>1 DEF Past
        <2>. QED  BY <2>1, <2>2 DEF Past, SocketsOf
    <1>5. \A p \in Participants :
             /\ Count(p) \in Nat /\ Count(p)' = Count(p)
             /\ Cardinality(Past(p)) \in Nat /\ Cardinality(Past(p)') \in Nat
             /\ Cardinality(Past(p)) <= Cardinality(Past(p)')
        BY <1>4, PastSets, CountTyped DEF Count
    <1>6. RowBound'
        BY <1>5 DEF BoundInv, RowBound
    <1>7. StackBound'
        <2>. SUFFICES ASSUME NEW k \in 1 .. Len(pipe'), pipe'[k].cmd = "hset", pipe'[k].read # None,
                             NEW p \in Participants, p = pipe'[k].p
                      PROVE  pipe'[k].read.count <= Cardinality(Past(p)')
            <3>1. \A k \in 1 .. Len(pipe') : pipe'[k].cmd = "hset" => pipe'[k].p \in Participants
                BY <1>1, JobAt
            <3>. QED  BY <3>1 DEF StackBound
        <2>1. k \in 1 .. Len(pipe) /\ pipe'[k] = pipe[k]
            BY <1>1
        <2>2. pipe[k].read \in Row
            BY <2>1, JobAt DEF GoodJob, Job
        <2>3. pipe[k].read.count <= Cardinality(Past(p)) /\ pipe[k].read.count \in Nat
            BY <2>1, <2>2 DEF BoundInv, StackBound, Row
        <2>. QED  BY <1>5, <2>1, <2>3
    <1>8. JoinedOnce'
        BY <1>1, <1>2, <1>3 DEF BoundInv, JoinedOnce
    <1>. QED  BY <1>6, <1>7, <1>8 DEF BoundInv

(* A handler goes on: its JOIN, if it is one, is written or still to write.  *)
LEMMA ResumedPast ==
    ASSUME TypeInv, BoundInv, pipe # <<>>, NEW j \in GoodJob,
           NEW r, r = <<>> \/ r = <<j>>, Resume(r), conn' = conn,
           j.task = "join" /\ j.cmd \in {"hget", "hset"} => Unwritten(1) /\ j.s = Current.s
    PROVE  /\ JoinedOnce'
           /\ \A p \in Participants : Past(p) \subseteq Past(p)'
           /\ Unwritten(1) /\ ~(r = <<j>> /\ j.task = "join" /\ j.cmd \in {"hget", "hset"}) =>
                  \A p \in Participants : p = Current.p => Current.s \in Past(p)' \ Past(p)
    <1>1. /\ Len(pipe) \in Nat /\ Current = pipe[1] /\ 1 \in 1 .. Len(pipe)
          /\ \A k \in 1 .. Len(pipe') :
                \/ k + 1 \in 2 .. Len(pipe) /\ pipe'[k] = pipe[k + 1]
                \/ r = <<j>> /\ k = Len(pipe') /\ pipe'[k] = j
        BY Moved
    <1>2. \A k \in 1 .. Len(pipe') : Unwritten(k)' =>
             \/ /\ k + 1 \in 2 .. Len(pipe) /\ k + 1 \in 1 .. Len(pipe)
                /\ pipe'[k] = pipe[k + 1] /\ Unwritten(k + 1)
             \/ /\ r = <<j>> /\ k = Len(pipe') /\ pipe'[k].s = pipe[1].s /\ Unwritten(1)
                /\ j.task = "join" /\ j.cmd \in {"hget", "hset"}
        BY <1>1 DEF Unwritten
    <1>3. \A k \in 1 .. Len(pipe') : Unwritten(k)' =>
             \E i \in 1 .. Len(pipe) : Unwritten(i) /\ pipe'[k].s = pipe[i].s
        BY <1>1, <1>2
    <1>4. \A p \in Participants : Past(p) \subseteq Past(p)'
        BY <1>3 DEF Past, SocketsOf
    <1>5. JoinedOnce'
        <2>1. \A k \in 1 .. Len(pipe') : Unwritten(k)' => conn[pipe'[k].s] \notin {"new", "connected"}
            BY <1>3 DEF BoundInv, JoinedOnce
        <2>2. ASSUME NEW k \in 1 .. Len(pipe'), NEW i \in 1 .. Len(pipe'),
                     Unwritten(k)', Unwritten(i)', i # k
              PROVE  pipe'[k].s # pipe'[i].s
            <3>1. \A m \in 2 .. Len(pipe) : m # 1
                OBVIOUS
            <3>2. k + 1 # i + 1
                BY <2>2
            <3>. QED  BY <1>1, <1>2, <2>2, <3>1, <3>2 DEF BoundInv, JoinedOnce
        <2>. QED  BY <2>1, <2>2 DEF JoinedOnce
    <1>6. ASSUME Unwritten(1), ~(r = <<j>> /\ j.task = "join" /\ j.cmd \in {"hget", "hset"}),
                 NEW p \in Participants, p = Current.p, NEW t, t = Current.s
          PROVE  t \in Past(p)' \ Past(p)
        <2>1. t \in Sockets /\ Owner[t] = p /\ conn[t] \notin {"new", "connected"}
            BY <1>1, <1>6, JobAt DEF BoundInv, JoinedOnce, Unwritten
        <2>2. t \notin Past(p)
            BY <1>1, <1>6 DEF Past
        <2>3. \A k \in 1 .. Len(pipe') : Unwritten(k)' => pipe'[k].s # t
            <3>1. \A m \in 2 .. Len(pipe) : m # 1
                OBVIOUS
            <3>. QED  BY <1>1, <1>2, <1>6, <3>1 DEF BoundInv, JoinedOnce
        <2>. QED  BY <2>1, <2>2, <2>3 DEF Past, SocketsOf
    <1>. QED  BY <1>4, <1>5, <1>6

(* Nothing from outside writes a row.                                       *)
LEMMA EventsBound ==
    ASSUME TypeInv, BoundInv, NEW s \in Sockets,
           \/ Connect(s) \/ Join(s) \/ JoinAgain(s) \/ Leave(s) \/ Disconnect(s)
           \/ \E f \in Flags, on \in BOOLEAN : Toggle(s, f, on)
    PROVE  BoundInv'
    <1>. DEFINE o == Owner[s]
    <1>1. /\ row' = row
          /\ \A t \in Sockets : conn[t] \notin {"new", "connected"} =>
                                   conn'[t] \notin {"new", "connected"}
        BY DEF Connect, Join, JoinAgain, Leave, Disconnect, Toggle, TypeInv, TypeOK
    <1>2. \E j \in GoodJob :
             /\ pipe' = pipe \/ pipe' = Append(pipe, j)
             /\ j.cmd # "hset"
             /\ j.task = "join" => conn[j.s] = "connected" /\ conn'[j.s] \notin {"new", "connected"}
        <2>1. CASE Join(s)
            <3>1. NewJob("join", s, o, None) \in GoodJob
                BY NewJobGood
            <3>2. conn[s] = "connected" /\ conn'[s] = "joined"
                BY <2>1 DEF Join, TypeInv, TypeOK
            <3>. QED  BY <2>1, <3>1, <3>2 DEF Join, NewJob
        <2>2. CASE Connect(s) \/ JoinAgain(s)
            <3>1. ListJob("snapshot", s, o) \in GoodJob
                BY ListJobGood
            <3>. QED  BY <2>2, <3>1 DEF Connect, JoinAgain, ListJob
        <2>3. CASE Leave(s)
            <3>1. NewJob("leave", s, o, None) \in GoodJob
                BY NewJobGood
            <3>. QED  BY <2>3, <3>1 DEF Leave, NewJob
        <2>4. CASE Disconnect(s)
            <3>1. NewJob("disconnect", s, o, None) \in GoodJob
                BY NewJobGood
            <3>. QED  BY <2>4, <3>1 DEF Disconnect, NewJob
        <2>5. ASSUME NEW f \in Flags, NEW on \in BOOLEAN, Toggle(s, f, on)
              PROVE  \E j \in GoodJob :
                        /\ pipe' = pipe \/ pipe' = Append(pipe, j)
                        /\ j.cmd # "hset"
                        /\ j.task = "join" =>
                              conn[j.s] = "connected" /\ conn'[j.s] \notin {"new", "connected"}
            <3>1. <<f, on>> # None
                BY NoneAssumption
            <3>2. NewJob("toggle", s, o, <<f, on>>) \in GoodJob
                BY <3>1, ToggleJobGood
            <3>. QED  BY <2>5, <3>2 DEF Toggle, NewJob
        <2>. QED  BY <2>1, <2>2, <2>3, <2>4, <2>5
    <1>3. PICK j \in GoodJob :
             /\ pipe' = pipe \/ pipe' = Append(pipe, j)
             /\ j.cmd # "hset"
             /\ j.task = "join" => conn[j.s] = "connected" /\ conn'[j.s] \notin {"new", "connected"}
        BY <1>2
    <1>4. PICK r \in Seq(GoodJob) :
             pipe' = pipe \o r /\ Len(r) <= 1 /\ \A k \in 1 .. Len(r) : r[k] = j
        BY <1>3, AppendOne
    <1>5. Len(r) \in Nat /\ Len(r) <= 1
        BY <1>4, Appended
    <1>6. \A k \in 1 .. Len(r) : Len(r) = 1
        <2>. DEFINE n == Len(r)
        <2>1. n \in Nat /\ n <= 1
            BY <1>5
        <2>. HIDE DEF n
        <2>2. \A k \in 1 .. n : n = 1
            BY <2>1
        <2>. QED  BY <2>2 DEF n
    <1>. QED  BY <1>1, <1>3, <1>4, <1>6, StartedBound

LEMMA KicksBound ==
    ASSUME TypeInv, BoundInv, NEW p \in Participants,
           Kick(p) \/ FinishKick(p) \/ KickAgain(p) \/ Approve(p)
    PROVE  BoundInv'
    <1>1. CASE Kick(p) \/ Approve(p)
        <2>. DEFINE j == NewJob("kick", None, p, None)
        <2>1. /\ j \in GoodJob /\ j.cmd = "hget" /\ j.task = "kick"
            BY NoneAssumption DEF NewJob, GoodJob, Job, Tasks, Commands
        <2>2. /\ row' = row /\ conn' = conn
              /\ pipe' = pipe \/ pipe' = Append(pipe, j)
            BY <1>1 DEF Kick, Approve
        <2>. HIDE DEF j
        <2>3. PICK r \in Seq(GoodJob) :
                 pipe' = pipe \o r /\ Len(r) <= 1 /\ \A k \in 1 .. Len(r) : r[k] = j
            BY <2>1, <2>2, AppendOne
        <2>. QED  BY <2>1, <2>2, <2>3, StartedBound
    <1>2. CASE BroadcastKicked(p)
        <2>. DEFINE gone == RoomOf(p)
                    n == Cardinality(gone)
        <2>1. /\ row' = row
              /\ conn' = [s \in Sockets |-> IF s \in gone THEN "dropped" ELSE conn[s]]
            BY <1>2 DEF BroadcastKicked
        <2>2. n \in Nat /\ \A s \in gone : s \in Sockets /\ Owner[s] = p
            BY RoomSets DEF RoomOf, Room
        <2>3. PICK order \in [1 .. n -> gone] :
                  pipe' = pipe \o [i \in 1 .. n |-> NewJob("disconnect", order[i], p, None)]
            BY <1>2 DEF BroadcastKicked
        <2>. DEFINE r == [i \in 1 .. n |-> NewJob("disconnect", order[i], p, None)]
        <2>. HIDE DEF n
        <2>4. /\ r \in Seq(GoodJob) /\ Len(r) = n
              /\ \A k \in 1 .. n : r[k].cmd = "hget" /\ r[k].task = "disconnect"
            <3>1. \A k \in 1 .. n : NewJob("disconnect", order[k], p, None) \in GoodJob
                BY <2>2, NewJobGood
            <3>2. r \in [1 .. n -> GoodJob]
                BY <3>1
            <3>3. r \in Seq(GoodJob) /\ Len(r) = n
                BY <2>2, <3>2, SeqDef
            <3>. QED  BY <3>3 DEF NewJob
        <2>5. \A s \in Sockets : conn[s] \notin {"new", "connected"} =>
                                    conn'[s] \notin {"new", "connected"}
            BY <2>1
        <2>6. pipe' = pipe \o r
            BY <2>3
        <2>. HIDE DEF r
        <2>. QED  BY <2>1, <2>4, <2>5, <2>6, StartedBound
    <1>. QED  BY <1>1, <1>2 DEF FinishKick, KickAgain

(* A handler that goes on with j, or ends, keeps the bound when what j has   *)
(* read and what the row now counts are bounded.                            *)
LEMMA ResumedBound ==
    ASSUME TypeInv, BoundInv, pipe # <<>>, NEW j \in GoodJob,
           NEW r, r = <<>> \/ r = <<j>>, Resume(r), conn' = conn,
           j.task = "join" /\ j.cmd \in {"hget", "hset"} => Unwritten(1) /\ j.s = Current.s,
           j.cmd = "hset" /\ j.read # None => j.read.count <= Cardinality(Past(j.p)),
           \A p \in Participants : Count(p)' <= Cardinality(Past(p)')
    PROVE  BoundInv'
    <1>1. JoinedOnce' /\ \A p \in Participants : Past(p) \subseteq Past(p)'
        BY ResumedPast
    <1>2. \A p \in Participants :
             /\ Cardinality(Past(p)) \in Nat /\ Cardinality(Past(p)') \in Nat
             /\ Cardinality(Past(p)) <= Cardinality(Past(p)')
        BY <1>1, PastSets
    <1>3. \A k \in 1 .. Len(pipe') :
             \/ k + 1 \in 1 .. Len(pipe) /\ pipe'[k] = pipe[k + 1]
             \/ pipe'[k] = j
        BY Moved
    <1>4. \A k \in 1 .. Len(pipe') : pipe'[k] \in GoodJob
        BY <1>3, JobAt
    <1>5. StackBound'
        <2>. SUFFICES ASSUME NEW k \in 1 .. Len(pipe'), pipe'[k].cmd = "hset", pipe'[k].read # None,
                             NEW p \in Participants, p = pipe'[k].p
                      PROVE  pipe'[k].read.count <= Cardinality(Past(p)')
            <3>1. \A k \in 1 .. Len(pipe') : pipe'[k].p \in Participants
                BY <1>4 DEF GoodJob, Job
            <3>. QED  BY <3>1 DEF StackBound
        <2>1. pipe'[k].read.count <= Cardinality(Past(p))
            BY <1>3 DEF BoundInv, StackBound
        <2>2. pipe'[k].read \in Row
            BY <1>4 DEF GoodJob, Job
        <2>. QED  BY <1>2, <2>1, <2>2 DEF Row
    <1>6. RowBound'
        BY DEF RowBound
    <1>. QED  BY <1>1, <1>5, <1>6 DEF BoundInv

LEMMA ReplyBound ==
    ASSUME TypeInv, BoundInv, Reply
    PROVE  BoundInv'
    <1>. DEFINE h == Current
    <1>1. PICK c \in Participants : c = h.p
        BY ReplyHead
    <1>2. /\ pipe # <<>> /\ h \in GoodJob /\ h = pipe[1] /\ 1 \in 1 .. Len(pipe)
          /\ h.task # "kick" => h.s \in Sockets /\ Owner[h.s] = c
        BY <1>1, ReplyHead
    (* A row that is left alone or deleted stays bounded.                   *)
    <1>3. ASSUME NEW j \in GoodJob, NEW r, r = <<>> \/ r = <<j>>, Resume(r), conn' = conn,
                 j.task = "join" /\ j.cmd \in {"hget", "hset"} => Unwritten(1) /\ j.s = h.s,
                 \A p \in Participants : row'[p] = row[p] \/ row'[p] = None
          PROVE  \A p \in Participants : Count(p)' <= Cardinality(Past(p)')
        <2>1. \A p \in Participants : Past(p) \subseteq Past(p)'
            BY <1>2, <1>3, ResumedPast
        <2>2. ASSUME NEW p \in Participants PROVE Count(p)' <= Cardinality(Past(p)')
            <3>1. /\ Cardinality(Past(p)) \in Nat /\ Cardinality(Past(p)') \in Nat
                  /\ Cardinality(Past(p)) <= Cardinality(Past(p)')
                  /\ Count(p) \in Nat /\ Count(p) <= Cardinality(Past(p))
                BY <2>1, PastSets, CountTyped DEF BoundInv, RowBound
            <3>2. Count(p)' = Count(p) \/ Count(p)' = 0
                BY <1>3 DEF Count
            <3>. QED  BY <3>1, <3>2
        <2>. QED  BY <2>2
    <1>4. CASE ReadRow
        <2>. DEFINE j == [h EXCEPT !.read = row[h.p],
                                   !.cmd = IF h.task \in {"leave", "kick"} THEN "hdel" ELSE "hset"]
        <2>1. /\ h.cmd = "hget" /\ (row[c] # None \/ h.task = "join")
              /\ row' = row /\ conn' = conn /\ Resume(<<j>>)
            BY <1>1, <1>4 DEF ReadRow, Answered
        <2>2. row[c] \in Row \cup {None}
            BY DEF TypeInv, TypeOK
        <2>3. /\ j \in GoodJob /\ j.p = c /\ j.task = h.task /\ j.s = h.s /\ j.read = row[c]
            BY <1>1, <1>2, <2>1, <2>2 DEF GoodJob, Job, Tasks, Commands
        <2>. HIDE DEF j
        <2>4. j.task = "join" => Unwritten(1)
            BY <1>2, <2>1, <2>3 DEF Unwritten
        <2>5. j.read # None => j.read.count <= Cardinality(Past(j.p))
            BY <2>3 DEF BoundInv, RowBound, Count
        <2>6. \A p \in Participants : Count(p)' <= Cardinality(Past(p)')
            BY <1>3, <2>1, <2>3, <2>4
        <2>. QED  BY <1>2, <2>1, <2>3, <2>4, <2>5, <2>6, ResumedBound
    <1>5. CASE WriteRow
        <2>. DEFINE j == [h EXCEPT !.cmd = "expire"]
        <2>1. /\ h.cmd = "hset" /\ h.task \in {"join", "disconnect", "toggle"}
              /\ row' = [row EXCEPT ![c] = Written(h)] /\ conn' = conn /\ Resume(<<j>>)
            BY <1>1, <1>5 DEF WriteRow, Answered
        <2>2. j \in GoodJob /\ j.p = c /\ j.task = h.task /\ j.s = h.s /\ j.cmd = "expire"
            BY <1>1, <1>2, <2>1 DEF GoodJob, Job, Tasks, Commands
        <2>. HIDE DEF j
        <2>3. /\ \A p \in Participants : Past(p) \subseteq Past(p)'
              /\ Unwritten(1) => h.s \in Past(c)' \ Past(c)
            BY <1>1, <1>2, <2>1, <2>2, ResumedPast
        <2>4. Written(h) \in Row /\ Count(c)' = Written(h).count
            BY <1>2, <2>1, WrittenTyped, NoneAssumption DEF TypeInv, TypeOK, Count
        <2>5. \A p : /\ Cardinality(Past(p)) \in Nat /\ Cardinality(Past(p)') \in Nat
                     /\ Past(p) \subseteq Past(p)' => Cardinality(Past(p)) <= Cardinality(Past(p)')
            BY PastSets
        <2>6. h.read \in Row \cup {None}
            BY <1>2 DEF GoodJob, Job
        <2>7. h.read # None => h.read.count <= Cardinality(Past(c)) /\ h.read.count \in Nat
            BY <1>1, <1>2, <2>1, <2>6 DEF BoundInv, StackBound, Row
        <2>8. Count(c)' <= Cardinality(Past(c)')
            <3>1. CASE h.task = "join"
                <4>1. h.s \in Past(c)' \ Past(c)
                    BY <1>2, <2>1, <2>3, <3>1 DEF Unwritten
                <4>2. /\ Past(c) \in SUBSET Sockets /\ Past(c)' \in SUBSET Sockets
                      /\ Past(c) \cup {h.s} \in SUBSET Sockets
                      /\ Past(c) \cup {h.s} \subseteq Past(c)' /\ h.s \in Sockets \ Past(c)
                    BY <2>3, <4>1, PastSets
                <4>3. Cardinality(Past(c)) + 1 <= Cardinality(Past(c)')
                    <5>1. Cardinality(Past(c) \cup {h.s}) = Cardinality(Past(c)) + 1
                        BY <4>2, SocketSets
                    <5>2. Cardinality(Past(c) \cup {h.s}) <= Cardinality(Past(c)')
                        BY <4>2, SocketSets
                    <5>. QED  BY <5>1, <5>2
                <4>4. CASE h.read = None
                    <5>1. Written(h).count = 1
                        BY <3>1, <4>4 DEF Written
                    <5>. QED  BY <2>4, <2>5, <4>3, <5>1
                <4>5. CASE h.read # None
                    <5>1. Written(h).count = h.read.count + 1
                        BY <2>6, <3>1, <4>5 DEF Written, Row
                    <5>. QED  BY <2>4, <2>5, <2>7, <4>3, <4>5, <5>1
                <4>. QED  BY <4>4, <4>5
            <3>2. CASE h.task # "join"
                <4>1. h.read # None
                    BY <1>2, <2>1, <3>2 DEF GoodJob
                <4>2. Written(h).count \in {h.read.count, Min1(h.read.count)}
                    BY <2>6, <3>2, <4>1 DEF Written, Row
                <4>3. Written(h).count <= h.read.count
                    BY <2>7, <4>1, <4>2 DEF Min1
                <4>. QED  BY <2>3, <2>4, <2>5, <2>7, <4>1, <4>3 DEF Row
            <3>. QED  BY <3>1, <3>2
        <2>9. ASSUME NEW p \in Participants
              PROVE  Count(p)' <= Cardinality(Past(p)')
            <3>1. CASE p = c
                BY <2>8, <3>1
            <3>2. CASE p # c
                <4>1. Count(p)' = Count(p) /\ Count(p) \in Nat /\ Count(p) <= Cardinality(Past(p))
                    BY <2>1, <3>2, CountTyped DEF Count, TypeInv, TypeOK, BoundInv, RowBound
                <4>. QED  BY <2>3, <2>5, <4>1
            <3>. QED  BY <3>1, <3>2
        <2>. QED  BY <1>2, <2>1, <2>2, <2>9, ResumedBound
    <1>6. CASE ReadNothing \/ KickForgot \/ DisconnectDone \/ ToggleDone \/ SendRoster
        <2>1. Resume(<<>>) /\ conn' = conn
            BY <1>6 DEF ReadNothing, KickForgot, DisconnectDone, ToggleDone, SendRoster
        <2>2. \A p \in Participants : row'[p] = row[p] \/ row'[p] = None
            BY <1>1, <1>6 DEF ReadNothing, KickForgot, DisconnectDone, ToggleDone, SendRoster,
                              TypeInv, TypeOK
        <2>. DEFINE j == [h EXCEPT !.cmd = "hget", !.task = "kick"]
        <2>3. j \in GoodJob /\ j.task # "join" /\ j.cmd # "hset"
            BY <1>2 DEF GoodJob, Job, Tasks, Commands
        <2>. HIDE DEF j
        <2>4. \A p \in Participants : Count(p)' <= Cardinality(Past(p)')
            BY <1>3, <2>1, <2>2, <2>3
        <2>. QED  BY <1>2, <2>1, <2>3, <2>4, ResumedBound
    <1>7. CASE LeaveForgot \/ JoinDone
        <2>1. PICK task \in {"snapshot", "refresh"} :
                 h.task # "kick" /\ conn' = conn /\ Resume(<<ListJob(task, h.s, c)>>)
            BY <1>1, <1>7 DEF LeaveForgot, LeaveRoom, JoinDone, Answered
        <2>. DEFINE j == ListJob(task, h.s, c)
        <2>2. j \in GoodJob /\ j.task = task /\ j.cmd = "hgetall"
            BY <1>2, <2>1, ListJobGood DEF ListJob
        <2>. HIDE DEF j
        <2>3. \A p \in Participants : row'[p] = row[p] \/ row'[p] = None
            BY <1>1, <1>7 DEF LeaveForgot, JoinDone, TypeInv, TypeOK
        <2>4. j.task # "join" /\ j.cmd # "hset" /\ Resume(<<j>>)
            BY <2>1, <2>2 DEF j
        <2>5. \A p \in Participants : Count(p)' <= Cardinality(Past(p)')
            BY <1>3, <2>1, <2>2, <2>3, <2>4
        <2>. QED  BY <1>2, <2>1, <2>2, <2>4, <2>5, ResumedBound
    <1>. QED  BY <1>4, <1>5, <1>6, <1>7 DEF Reply

LEMMA InitBound == Init => BoundInv
    <1>. SUFFICES ASSUME Init PROVE BoundInv
        OBVIOUS
    <1>1. StackBound /\ JoinedOnce
        BY DEF Init, StackBound, JoinedOnce
    <1>2. RowBound
        BY PastSets DEF Init, RowBound, Count
    <1>. QED  BY <1>1, <1>2 DEF BoundInv

(* After a restart the rows are those that were there, and every socket that *)
(* had been counted still has been.                                         *)
LEMMA CrashBound ==
    ASSUME TypeInv, BoundInv, Crash
    PROVE  TypeInv' /\ BoundInv'
    <1>1. /\ row' = row /\ pipe' = <<>> /\ kicked' = kicked /\ removing' = {}
          /\ conn' = [s \in Sockets |-> IF conn[s] \in Open THEN "closed" ELSE conn[s]]
          /\ inRoom' = [s \in Sockets |-> FALSE] /\ view' = [s \in Sockets |-> Nobody]
        BY DEF Crash
    <1>2. TypeInv'
        <2>1. pipe' \in Seq(GoodJob) /\ pipe' \in Seq(Job)
            BY <1>1
        <2>2. view' \in [Sockets -> [Participants -> Item]]
            BY <1>1, ItemTyped
        <2>3. conn' \in [Sockets -> Stages]
            BY <1>1 DEF TypeInv, TypeOK, Stages
        <2>. QED  BY <1>1, <2>1, <2>2, <2>3 DEF TypeInv, TypeOK
    <1>3. StackBound' /\ JoinedOnce'
        BY <1>1 DEF StackBound, JoinedOnce
    <1>4. \A p \in Participants : Past(p) \subseteq Past(p)'
        BY <1>1 DEF Past, SocketsOf
    <1>5. RowBound'
        BY <1>1, <1>4, PastSets, CountTyped DEF BoundInv, RowBound, Count
    <1>. QED  BY <1>2, <1>3, <1>5 DEF BoundInv

LEMMA NextBound == TypeInv /\ BoundInv /\ [Next \/ Crash]_vars => TypeInv' /\ BoundInv'
    <1>. SUFFICES ASSUME TypeInv, BoundInv, [Next \/ Crash]_vars PROVE TypeInv' /\ BoundInv'
        OBVIOUS
    <1>1. CASE Crash
        BY <1>1, CrashBound
    <1>2. CASE Next
        <2>1. BoundInv'
            BY <1>2, EventsBound, KicksBound, ReplyBound DEF Next
        <2>. QED  BY <1>2, <2>1, NextTyped
    <1>3. CASE UNCHANGED vars
        <2>1. TypeInv'
            BY <1>3, NextTyped
        <2>2. /\ row' = row /\ conn' = conn /\ pipe' = pipe
            BY <1>3 DEF vars
        <2>3. \A p : Past(p)' = Past(p) /\ Count(p)' = Count(p)
            BY <2>2 DEF Past, SocketsOf, Unwritten, Count
        <2>4. RowBound' /\ JoinedOnce'
            BY <2>2, <2>3 DEF BoundInv, RowBound, JoinedOnce, Unwritten
        <2>5. StackBound'
            BY <2>2, <2>3 DEF BoundInv, StackBound
        <2>. QED  BY <2>1, <2>4, <2>5 DEF BoundInv
    <1>. QED  BY <1>1, <1>2, <1>3

(* However the handlers of a participant's tabs overlap, and however often   *)
(* the API process dies and starts again: a row counts no more connections   *)
(* than its participant opened.  No Math.max, no lost update and no stale    *)
(* write-back after a leave or a kick can inflate connectionCount.           *)
THEOREM CountsBounded == CrashSpec => []CountBounded
    <1>1. TypeInv /\ BoundInv => CountBounded
        <2>. SUFFICES ASSUME TypeInv, BoundInv, NEW p \in Participants
                      PROVE  Count(p) <= Cardinality({s \in SocketsOf(p) : conn[s] # "new"})
            BY DEF CountBounded
        <2>. DEFINE opened == {s \in SocketsOf(p) : conn[s] # "new"}
        <2>. SUFFICES Count(p) <= Cardinality(opened)
            OBVIOUS
        <2>1. Past(p) \subseteq opened /\ opened \in SUBSET Sockets /\ Past(p) \in SUBSET Sockets
            BY DEF Past, SocketsOf
        <2>2. Cardinality(Past(p)) <= Cardinality(opened) /\ Cardinality(opened) \in Nat
              /\ Cardinality(Past(p)) \in Nat
            BY <2>1, SocketSets
        <2>3. Count(p) <= Cardinality(Past(p)) /\ Count(p) \in Nat
            BY CountTyped DEF BoundInv, RowBound
        <2>. HIDE DEF opened
        <2>. QED  BY <2>2, <2>3
    <1>2. Init => TypeInv /\ BoundInv
        BY InitTyped, InitBound
    <1>. QED  BY <1>1, <1>2, NextBound, PTL DEF CrashSpec

-----------------------------------------------------------------------------
(* Why the rosters converge when the handlers of one participant do not      *)
(* overlap.  Between the write of a row and the broadcast that tells of it,  *)
(* a client may show the row as it was before or as it is now; between       *)
(* forgetParticipant and broadcastKicked, anything; and a socket that has    *)
(* just entered shows nothing of use until its snapshot arrives.             *)

(* What a client shows of a participant is right for the row r.             *)
Shows(item, r) ==
    IF r # None /\ r.count > 0 THEN item = ToPublic(r) ELSE item = None \/ ~item.online

ToBeTold(t, p) == \E i \in 1 .. Len(pipe) :
    pipe[i].p = p /\ pipe[i].cmd = "expire" /\ Shows(view[t][p], pipe[i].read)

(* broadcastKicked took p off the roster ahead of its last disconnect.      *)
ToBeGone(t, p) == \E i \in 1 .. Len(pipe) :
    /\ pipe[i].p = p /\ pipe[i].task = "disconnect" /\ pipe[i].cmd \in {"hget", "hset"}
    /\ view[t][p] = None /\ Count(p) <= 1

Awaiting(t) == \E i \in 1 .. Len(pipe) : pipe[i].task = "snapshot" /\ pipe[i].s = t

RosterFor(t, p) ==
    \/ p \in removing
    \/ Shows(view[t][p], row[p])
    \/ ToBeTold(t, p)
    \/ ToBeGone(t, p)
    \/ Awaiting(t)

RosterInv == \A t \in Room, p \in Participants : RosterFor(t, p)

(* A handler that announces what it wrote finds the row as it wrote it.      *)
Announced == \A i \in 1 .. Len(pipe) :
    pipe[i].cmd = "expire" => row[pipe[i].p] = Written(pipe[i])

(* What a client shows of p stays right when p's row, p's handlers and the   *)
(* client's own pending snapshot are left alone.                            *)
LEMMA KeepsRoster ==
    ASSUME NEW t, NEW p, RosterFor(t, p),
           view'[t][p] = view[t][p], row'[p] = row[p], p \in removing => p \in removing',
           \A i \in 1 .. Len(pipe) :
              \/ pipe[i].p = p /\ pipe[i].cmd # "hgetall"
              \/ pipe[i].task = "snapshot" /\ pipe[i].s = t
              => \E k \in 1 .. Len(pipe') : pipe'[k] = pipe[i]
    PROVE  RosterFor(t, p)'
    <1>1. CASE p \in removing
        BY <1>1 DEF RosterFor
    <1>2. CASE Shows(view[t][p], row[p])
        BY <1>2 DEF RosterFor, Shows, ToPublic
    <1>3. CASE ToBeTold(t, p)
        <2>1. PICK i \in 1 .. Len(pipe) :
                 pipe[i].p = p /\ pipe[i].cmd = "expire" /\ Shows(view[t][p], pipe[i].read)
            BY <1>3 DEF ToBeTold
        <2>2. PICK k \in 1 .. Len(pipe') : pipe'[k] = pipe[i]
            BY <2>1
        <2>. QED  BY <2>1, <2>2 DEF RosterFor, ToBeTold, Shows, ToPublic
    <1>4. CASE ToBeGone(t, p)
        <2>1. PICK i \in 1 .. Len(pipe) :
                 /\ pipe[i].p = p /\ pipe[i].task = "disconnect" /\ pipe[i].cmd \in {"hget", "hset"}
                 /\ view[t][p] = None /\ Count(p) <= 1
            BY <1>4 DEF ToBeGone
        <2>2. PICK k \in 1 .. Len(pipe') : pipe'[k] = pipe[i]
            BY <2>1
        <2>. QED  BY <2>1, <2>2 DEF RosterFor, ToBeGone, Count
    <1>5. CASE Awaiting(t)
        <2>1. PICK i \in 1 .. Len(pipe) : pipe[i].task = "snapshot" /\ pipe[i].s = t
            BY <1>5 DEF Awaiting
        <2>2. PICK k \in 1 .. Len(pipe') : pipe'[k] = pipe[i]
            BY <2>1
        <2>. QED  BY <2>1, <2>2 DEF RosterFor, Awaiting
    <1>. QED  BY <1>1, <1>2, <1>3, <1>4, <1>5 DEF RosterFor

(* An event starts handlers; whoever stays in the room shows what it showed. *)
LEMMA StartedRoster ==
    ASSUME TypeInv, RosterInv, Announced, NEW r \in Seq(GoodJob), pipe' = pipe \o r,
           row' = row, Room' \subseteq Room,
           \A k \in 1 .. Len(r) : r[k].cmd # "expire",
           NEW P \in SUBSET Participants,
           \A t \in Room', p \in P :
              view'[t][p] = view[t][p] /\ (p \in removing => p \in removing')
    PROVE  /\ Announced'
           /\ \A t \in Room', p \in P : RosterFor(t, p)'
    <1>1. /\ \A i \in 1 .. Len(pipe) : i \in 1 .. Len(pipe') /\ pipe'[i] = pipe[i]
          /\ \A k \in 1 .. Len(pipe') :
                \/ k \in 1 .. Len(pipe) /\ pipe'[k] = pipe[k]
                \/ k - Len(pipe) \in 1 .. Len(r) /\ pipe'[k] = r[k - Len(pipe)]
        <2>1. pipe \in Seq(GoodJob)
            BY DEF TypeInv
        <2>. QED  BY <2>1, Appended
    <1>2. Announced'
        BY <1>1 DEF Announced
    <1>3. ASSUME NEW t \in Room', NEW p \in P
          PROVE  RosterFor(t, p)'
        <2>1. \A i \in 1 .. Len(pipe) : \E k \in 1 .. Len(pipe') : pipe'[k] = pipe[i]
            BY <1>1
        <2>2. RosterFor(t, p)
            BY DEF RosterInv
        <2>. QED  BY <2>1, <2>2, KeepsRoster
    <1>. QED  BY <1>2, <1>3

(* Whether a client's own connection or another's opens, closes or speaks:   *)
(* the others go on showing what they showed.                               *)
LEMMA EventsRoster ==
    ASSUME TypeInv, OrderInv, RosterInv, Announced, NEW s \in Sockets,
           \/ Connect(s) \/ Join(s) \/ JoinAgain(s) \/ Leave(s) \/ Disconnect(s)
           \/ \E f \in Flags, on \in BOOLEAN : Toggle(s, f, on)
    PROVE  RosterInv' /\ Announced'
    <1>. DEFINE o == Owner[s]
    <1>1. row' = row /\ inRoom' = inRoom /\ removing' = removing
        BY DEF Connect, Join, JoinAgain, Leave, Disconnect, Toggle
    <1>2. Room' \subseteq Room /\ \A t \in Room' : view'[t] = view[t]
        <2>1. CASE Connect(s)
            BY <1>1, <2>1 DEF Connect, Room, Open, OrderInv, Entered, TypeInv, TypeOK
        <2>2. CASE Disconnect(s)
            BY <1>1, <2>2 DEF Disconnect, Room, Open, TypeInv, TypeOK
        <2>3. CASE \/ Join(s) \/ JoinAgain(s) \/ Leave(s)
                   \/ \E f \in Flags, on \in BOOLEAN : Toggle(s, f, on)
            BY <1>1, <2>3 DEF Join, JoinAgain, Leave, Toggle, Room, Open, TypeInv, TypeOK
        <2>. QED  BY <2>1, <2>2, <2>3
    <1>3. \E j \in GoodJob : (pipe' = pipe \/ pipe' = Append(pipe, j)) /\ j.cmd # "expire"
        <2>1. CASE Join(s)
            <3>1. NewJob("join", s, o, None) \in GoodJob
                BY NewJobGood
            <3>. QED  BY <2>1, <3>1 DEF Join, NewJob
        <2>2. CASE Connect(s) \/ JoinAgain(s)
            <3>1. ListJob("snapshot", s, o) \in GoodJob
                BY ListJobGood
            <3>. QED  BY <2>2, <3>1 DEF Connect, JoinAgain, ListJob
        <2>3. CASE Leave(s)
            <3>1. NewJob("leave", s, o, None) \in GoodJob
                BY NewJobGood
            <3>. QED  BY <2>3, <3>1 DEF Leave, NewJob
        <2>4. CASE Disconnect(s)
            <3>1. NewJob("disconnect", s, o, None) \in GoodJob
                BY NewJobGood
            <3>. QED  BY <2>4, <3>1 DEF Disconnect, NewJob
        <2>5. ASSUME NEW f \in Flags, NEW on \in BOOLEAN, Toggle(s, f, on)
              PROVE  \E j \in GoodJob :
                        (pipe' = pipe \/ pipe' = Append(pipe, j)) /\ j.cmd # "expire"
            <3>1. <<f, on>> # None
                BY NoneAssumption
            <3>2. NewJob("toggle", s, o, <<f, on>>) \in GoodJob
                BY <3>1, ToggleJobGood
            <3>. QED  BY <2>5, <3>2 DEF Toggle, NewJob
        <2>. QED  BY <2>1, <2>2, <2>3, <2>4, <2>5
    <1>4. PICK j \in GoodJob : (pipe' = pipe \/ pipe' = Append(pipe, j)) /\ j.cmd # "expire"
        BY <1>3
    <1>5. PICK r \in Seq(GoodJob) :
             pipe' = pipe \o r /\ Len(r) <= 1 /\ \A k \in 1 .. Len(r) : r[k] = j
        BY <1>4, AppendOne
    <1>6. Announced' /\ \A t \in Room', p \in Participants : RosterFor(t, p)'
        BY <1>1, <1>2, <1>4, <1>5, StartedRoster
    <1>. QED  BY <1>6 DEF RosterInv

(* broadcastKicked takes p off every roster; if p is still counted, its last *)
(* socket has just been disconnected.                                       *)
LEMMA KicksRoster ==
    ASSUME ~Overlap, TypeInv, GhostInv, RosterInv, Announced, NEW p \in Participants,
           Kick(p) \/ FinishKick(p) \/ KickAgain(p) \/ Approve(p)
    PROVE  RosterInv' /\ Announced'
    <1>1. CASE Kick(p) \/ Approve(p)
        <2>. DEFINE j == NewJob("kick", None, p, None)
        <2>1. j \in GoodJob /\ j.cmd = "hget"
            BY NoneAssumption DEF NewJob, GoodJob, Job, Tasks, Commands
        <2>2. /\ row' = row /\ conn' = conn /\ inRoom' = inRoom /\ removing' = removing
              /\ view' = view /\ (pipe' = pipe \/ pipe' = Append(pipe, j))
            BY <1>1 DEF Kick, Approve
        <2>. HIDE DEF j
        <2>3. PICK r \in Seq(GoodJob) :
                 pipe' = pipe \o r /\ Len(r) <= 1 /\ \A k \in 1 .. Len(r) : r[k] = j
            BY <2>1, <2>2, AppendOne
        <2>4. Room' \subseteq Room
            BY <2>2 DEF Room
        <2>5. Announced' /\ \A t \in Room', q \in Participants : RosterFor(t, q)'
            BY <2>1, <2>2, <2>3, <2>4, StartedRoster
        <2>. QED  BY <2>5 DEF RosterInv
    <1>2. CASE FinishKick(p) \/ KickAgain(p)
        <2>. DEFINE gone == RoomOf(p)
                    n == Cardinality(gone)
        <2>1. /\ row' = row /\ inRoom' = inRoom /\ ~Busy(p)
              /\ row[p] = None \/ n <= 1
              /\ conn' = [s \in Sockets |-> IF s \in gone THEN "dropped" ELSE conn[s]]
              /\ view' = [t \in Sockets |->
                             IF t \in gone THEN Nobody
                             ELSE IF t \in Room THEN [view[t] EXCEPT ![p] = None] ELSE view[t]]
            BY <1>2 DEF FinishKick, KickAgain, BroadcastKicked
        <2>2. n \in Nat /\ \A s \in gone : s \in Sockets /\ Owner[s] = p
            BY RoomSets DEF RoomOf, Room
        <2>3. PICK order \in [1 .. n -> gone] :
                  pipe' = pipe \o [i \in 1 .. n |-> NewJob("disconnect", order[i], p, None)]
            BY <1>2 DEF FinishKick, KickAgain, BroadcastKicked
        <2>4. Room' \subseteq Room \ gone /\ Room \subseteq Sockets
            BY <2>1 DEF Room, Open
        <2>5. \A t \in Room', q \in Participants \ {p} :
                 view'[t][q] = view[t][q] /\ (q \in removing => q \in removing')
            BY <1>2, <2>1, <2>4 DEF FinishKick, KickAgain, TypeInv, TypeOK
        <2>6. \A t \in Room' : view'[t][p] = None
            BY <2>1, <2>4 DEF TypeInv, TypeOK
        <2>7. Count(p) \in Nat /\ Count(p)' = Count(p) /\ Count(p) <= n
            BY <2>1, NotBusy, CountTyped DEF GhostInv, Count
        <2>. DEFINE r == [i \in 1 .. n |-> NewJob("disconnect", order[i], p, None)]
        <2>. HIDE DEF n, gone
        <2>8. /\ r \in Seq(GoodJob) /\ Len(r) = n
              /\ \A k \in 1 .. n : /\ r[k].cmd = "hget" /\ r[k].task = "disconnect"
                                   /\ r[k].p = p
            <3>1. \A k \in 1 .. n : NewJob("disconnect", order[k], p, None) \in GoodJob
                BY <2>2, NewJobGood
            <3>2. r \in [1 .. n -> GoodJob]
                BY <3>1
            <3>3. r \in Seq(GoodJob) /\ Len(r) = n
                BY <2>2, <3>2, SeqDef
            <3>. QED  BY <3>3 DEF NewJob
        <2>9. pipe' = pipe \o r
            BY <2>3
        <2>. HIDE DEF r
        <2>10. Announced' /\ \A t \in Room', q \in Participants \ {p} : RosterFor(t, q)'
            <3>1. Room' \subseteq Room /\ \A k \in 1 .. Len(r) : r[k].cmd # "expire"
                BY <2>4, <2>8
            <3>. QED  BY <2>1, <2>5, <2>8, <2>9, <3>1, StartedRoster
        <2>11. ASSUME NEW t \in Room'
               PROVE  RosterFor(t, p)'
            <3>1. CASE Count(p) = 0
                <4>1. row'[p] = None \/ row'[p].count = 0
                    BY <2>1, <3>1 DEF Count
                <4>2. Shows(view'[t][p], row'[p])
                    BY <2>6, <4>1 DEF Shows
                <4>. QED  BY <4>2 DEF RosterFor
            <3>2. CASE Count(p) # 0
                <4>1. n = 1 /\ Count(p) = 1
                    BY <2>1, <2>2, <2>7, <3>2 DEF Count
                <4>2. pipe \in Seq(GoodJob) /\ 1 \in 1 .. Len(r)
                    BY <2>8, <4>1 DEF TypeInv
                <4>3. Len(pipe) + 1 \in 1 .. Len(pipe') /\ pipe'[Len(pipe) + 1] = r[1]
                    BY <2>8, <2>9, <4>2, Appended
                <4>4. \E k \in 1 .. Len(pipe') :
                         pipe'[k].p = p /\ pipe'[k].task = "disconnect" /\ pipe'[k].cmd = "hget"
                    BY <2>8, <4>1, <4>3
                <4>5. ToBeGone(t, p)'
                    BY <2>6, <2>7, <4>1, <4>4 DEF ToBeGone
                <4>. QED  BY <4>5 DEF RosterFor
            <3>. QED  BY <3>1, <3>2
        <2>. QED  BY <2>10, <2>11 DEF RosterInv
    <1>. QED  BY <1>1, <1>2

(* The handler at the head goes on with j, or ends: the other announcements  *)
(* still find their rows, and what is shown of the other participants stays. *)
LEMMA ResumedRoster ==
    ASSUME TypeInv, RosterInv, Announced, pipe # <<>>,
           NEW c \in Participants, c = Current.p,
           NEW j \in GoodJob, NEW r, r = <<>> \/ r = <<j>>, Resume(r), j.p = c,
           \A q \in Participants : q # c => row'[q] = row[q],
           \/ row'[c] = row[c]
           \/ \A i \in 2 .. Len(pipe) : pipe[i].cmd # "hgetall" => pipe[i].p # c,
           j.cmd = "expire" => row'[c] = Written(j)
    PROVE  /\ Announced'
           /\ \A i \in 2 .. Len(pipe) : \E k \in 1 .. Len(pipe') : pipe'[k] = pipe[i]
           /\ r = <<j>> => \E k \in 1 .. Len(pipe') : pipe'[k] = j
           /\ \A t \in Room, q \in Participants \ {c} :
                 /\ view'[t][q] = view[t][q]
                 /\ q \in removing => q \in removing'
                 /\ ~(Current.task = "snapshot" /\ Current.s = t)
                 => RosterFor(t, q)'
    <1>1. /\ Len(pipe) \in Nat /\ Current = pipe[1] /\ 1 \in 1 .. Len(pipe)
          /\ \A k \in 1 .. Len(pipe') :
                \/ k + 1 \in 2 .. Len(pipe) /\ pipe'[k] = pipe[k + 1]
                \/ r = <<j>> /\ k = Len(pipe') /\ pipe'[k] = j
          /\ \A i \in 2 .. Len(pipe) : i - 1 \in 1 .. Len(pipe') /\ pipe'[i - 1] = pipe[i]
          /\ r = <<j>> => Len(pipe') \in 1 .. Len(pipe') /\ pipe'[Len(pipe')] = j
        BY Moved
    <1>2. Announced'
        <2>. SUFFICES ASSUME NEW k \in 1 .. Len(pipe'), pipe'[k].cmd = "expire"
                      PROVE  row'[pipe'[k].p] = Written(pipe'[k])
            BY DEF Announced
        <2>1. CASE pipe'[k] = j
            BY <2>1
        <2>2. ASSUME NEW i \in 2 .. Len(pipe), pipe'[k] = pipe[i]
              PROVE  row'[pipe'[k].p] = Written(pipe'[k])
            <3>1. i \in 1 .. Len(pipe)
                BY <1>1
            <3>2. pipe[i].p \in Participants /\ row[pipe[i].p] = Written(pipe[i])
                BY <2>2, <3>1, JobAt DEF Announced
            <3>. QED  BY <2>2, <3>2
        <2>. QED  BY <1>1, <2>1, <2>2
    <1>3. \A i \in 2 .. Len(pipe) : \E k \in 1 .. Len(pipe') : pipe'[k] = pipe[i]
        BY <1>1
    <1>4. ASSUME NEW t \in Room, NEW q \in Participants \ {c}, view'[t][q] = view[t][q],
                 q \in removing => q \in removing',
                 ~(Current.task = "snapshot" /\ Current.s = t)
          PROVE  RosterFor(t, q)'
        <2>1. \A i \in 1 .. Len(pipe) :
                 \/ pipe[i].p = q
                 \/ pipe[i].task = "snapshot" /\ pipe[i].s = t
                 => i \in 2 .. Len(pipe)
            BY <1>1, <1>4
        <2>2. RosterFor(t, q)
            BY DEF RosterInv
        <2>. QED  BY <1>3, <1>4, <2>1, <2>2, KeepsRoster
    <1>. QED  BY <1>1, <1>2, <1>3, <1>4

LEMMA ReadRowRoster ==
    ASSUME TypeInv, OrderInv, RosterInv, Announced, Reply, ReadRow
    PROVE  RosterInv' /\ Announced'
    <1>. DEFINE h == Current
                j == [h EXCEPT !.read = row[h.p],
                               !.cmd = IF h.task \in {"leave", "kick"} THEN "hdel" ELSE "hset"]
    <1>1. PICK c \in Participants : c = h.p
        BY ReplyHead
    <1>2. /\ h \in GoodJob /\ h.cmd = "hget" /\ row' = row /\ conn' = conn /\ view' = view
          /\ removing' = removing /\ inRoom' = inRoom /\ Resume(<<j>>) /\ pipe # <<>>
          /\ (row[c] # None \/ h.task = "join") /\ h = pipe[1]
        BY <1>1, ReplyHead DEF ReadRow, Answered
    <1>3. /\ j \in GoodJob /\ j.p = c /\ j.task = h.task /\ j.cmd \in {"hdel", "hset"}
          /\ h.task = "disconnect" => j.cmd = "hset"
        <2>1. row[c] \in Row \cup {None}
            BY DEF TypeInv, TypeOK
        <2>. QED  BY <1>1, <1>2, <2>1 DEF GoodJob, Job, Tasks, Commands
    <1>. HIDE DEF j
    <1>4. /\ Announced'
          /\ \A i \in 2 .. Len(pipe) : \E k \in 1 .. Len(pipe') : pipe'[k] = pipe[i]
          /\ \E k \in 1 .. Len(pipe') : pipe'[k] = j
          /\ \A t \in Room, q \in Participants \ {c} : RosterFor(t, q)'
        <2>1. h.task # "snapshot"
            BY <1>2 DEF GoodJob
        <2>. QED  BY <1>1, <1>2, <1>3, <2>1, ResumedRoster
    <1>5. Room' = Room
        BY <1>2 DEF Room
    <1>6. ASSUME NEW t \in Room
          PROVE  RosterFor(t, c)'
        <2>1. CASE ToBeGone(t, c)
            <3>1. PICK i \in 1 .. Len(pipe) :
                     /\ pipe[i].p = c /\ pipe[i].task = "disconnect"
                     /\ pipe[i].cmd \in {"hget", "hset"}
                     /\ view[t][c] = None /\ Count(c) <= 1
                BY <2>1 DEF ToBeGone
            <3>2. i = 1 \/ i \in 2 .. Len(pipe)
                OBVIOUS
            <3>3. \E k \in 1 .. Len(pipe') :
                     /\ pipe'[k].p = c /\ pipe'[k].task = "disconnect"
                     /\ pipe'[k].cmd \in {"hget", "hset"}
                BY <1>2, <1>3, <1>4, <3>1, <3>2
            <3>. QED  BY <1>2, <3>1, <3>3 DEF RosterFor, ToBeGone, Count
        <2>2. CASE ToBeTold(t, c)
            <3>1. PICK i \in 1 .. Len(pipe) :
                     pipe[i].p = c /\ pipe[i].cmd = "expire" /\ Shows(view[t][c], pipe[i].read)
                BY <2>2 DEF ToBeTold
            <3>2. i \in 2 .. Len(pipe)
                BY <1>2, <3>1
            <3>3. PICK k \in 1 .. Len(pipe') : pipe'[k] = pipe[i]
                BY <1>4, <3>2
            <3>. QED  BY <1>2, <3>1, <3>3 DEF RosterFor, ToBeTold
        <2>3. CASE Awaiting(t)
            <3>1. PICK i \in 1 .. Len(pipe) : pipe[i].task = "snapshot" /\ pipe[i].s = t
                BY <2>3 DEF Awaiting
            <3>2. i \in 2 .. Len(pipe)
                BY <1>2, <3>1 DEF GoodJob
            <3>3. PICK k \in 1 .. Len(pipe') : pipe'[k] = pipe[i]
                BY <1>4, <3>2
            <3>. QED  BY <3>1, <3>3 DEF RosterFor, Awaiting
        <2>. QED  BY <1>2, <2>1, <2>2, <2>3 DEF RosterInv, RosterFor
    <1>. QED  BY <1>4, <1>5, <1>6 DEF RosterInv

(* The row is written: its participant is shown as it was before, to be told. *)
LEMMA WriteRowRoster ==
    ASSUME TypeInv, OrderInv, RosterInv, Announced, Reply, WriteRow
    PROVE  RosterInv' /\ Announced'
    <1>. DEFINE h == Current
                j == [h EXCEPT !.cmd = "expire"]
    <1>1. PICK c \in Participants : c = h.p
        BY ReplyHead
    <1>2. /\ h \in GoodJob /\ h.cmd = "hset" /\ conn' = conn /\ view' = view
          /\ removing' = removing /\ inRoom' = inRoom /\ Resume(<<j>>) /\ pipe # <<>>
          /\ row' = [row EXCEPT ![c] = Written(h)] /\ h = pipe[1] /\ 1 \in 1 .. Len(pipe)
        BY <1>1, ReplyHead DEF WriteRow, Answered
    <1>3. \A i \in 2 .. Len(pipe) : pipe[i].cmd # "hgetall" => pipe[i].p # c
        BY <1>1, <1>2, HeadAlone DEF OrderInv
    <1>4. /\ j \in GoodJob /\ j.p = c /\ j.task = h.task /\ j.cmd = "expire" /\ j.read = h.read
          /\ Written(j) = Written(h)
        <2>1. h.task \in {"join", "disconnect", "toggle"}
            BY <1>2 DEF GoodJob
        <2>. QED  BY <1>1, <1>2, <2>1 DEF GoodJob, Job, Tasks, Commands, Written
    <1>. HIDE DEF j
    <1>5. h.read = row[c]
        BY <1>1, <1>2 DEF OrderInv, Fresh
    <1>6. /\ row'[c] = Written(h) /\ \A q \in Participants : q # c => row'[q] = row[q]
        BY <1>2 DEF TypeInv, TypeOK
    <1>7. /\ Announced'
          /\ \A i \in 2 .. Len(pipe) : \E k \in 1 .. Len(pipe') : pipe'[k] = pipe[i]
          /\ \E k \in 1 .. Len(pipe') : pipe'[k] = j
          /\ \A t \in Room, q \in Participants \ {c} : RosterFor(t, q)'
        <2>1. h.task # "snapshot"
            BY <1>2 DEF GoodJob
        <2>. QED  BY <1>1, <1>2, <1>3, <1>4, <1>6, <2>1, ResumedRoster
    <1>8. Room' = Room
        BY <1>2 DEF Room
    <1>9. ASSUME NEW t \in Room
          PROVE  RosterFor(t, c)'
        <2>1. CASE Shows(view[t][c], row[c])
            <3>1. PICK k \in 1 .. Len(pipe') : pipe'[k] = j
                BY <1>7
            <3>. QED  BY <1>2, <1>4, <1>5, <2>1, <3>1 DEF RosterFor, ToBeTold
        <2>2. CASE ToBeGone(t, c)
            <3>1. PICK i \in 1 .. Len(pipe) :
                     /\ pipe[i].p = c /\ pipe[i].task = "disconnect"
                     /\ pipe[i].cmd \in {"hget", "hset"}
                     /\ view[t][c] = None /\ Count(c) <= 1
                BY <2>2 DEF ToBeGone
            <3>2. i = 1
                BY <1>3, <3>1
            <3>3. /\ h.task = "disconnect" /\ row[c] # None /\ row[c] \in Row
                  /\ row[c].count <= 1 /\ row[c].count \in Nat
                BY <1>2, <1>5, <3>1, <3>2 DEF GoodJob, Count, TypeInv, TypeOK, Row
            <3>4. Written(h).count = 0
                BY <1>5, <3>3 DEF Written, Min1, Row
            <3>. QED  BY <1>2, <1>6, <3>1, <3>4 DEF RosterFor, Shows
        <2>3. CASE ToBeTold(t, c)
            <3>1. PICK i \in 1 .. Len(pipe) : pipe[i].p = c /\ pipe[i].cmd = "expire"
                BY <2>3 DEF ToBeTold
            <3>2. i = 1 \/ i \in 2 .. Len(pipe)
                OBVIOUS
            <3>. QED  BY <1>2, <1>3, <3>1, <3>2
        <2>4. CASE Awaiting(t)
            <3>1. PICK i \in 1 .. Len(pipe) : pipe[i].task = "snapshot" /\ pipe[i].s = t
                BY <2>4 DEF Awaiting
            <3>2. i \in 2 .. Len(pipe)
                BY <1>2, <3>1 DEF GoodJob
            <3>3. PICK k \in 1 .. Len(pipe') : pipe'[k] = pipe[i]
                BY <1>7, <3>2
            <3>. QED  BY <3>1, <3>3 DEF RosterFor, Awaiting
        <2>. QED  BY <1>2, <2>1, <2>2, <2>3, <2>4 DEF RosterInv, RosterFor
    <1>. QED  BY <1>7, <1>8, <1>9 DEF RosterInv

(* forgetParticipant has deleted the row: leave tells the room at once, kick *)
(* will when LiveKit has answered.                                          *)
LEMMA ForgotRoster ==
    ASSUME TypeInv, OrderInv, RosterInv, Announced, Reply, LeaveForgot \/ KickForgot
    PROVE  RosterInv' /\ Announced'
    <1>. DEFINE h == Current
                j == ListJob("refresh", h.s, h.p)
                j2 == NewJob("kick", None, h.p, None)
    <1>1. PICK c \in Participants : c = h.p
        BY ReplyHead
    <1>2. /\ h \in GoodJob /\ h.task \in {"leave", "kick"} /\ h.cmd \in {"hget", "hdel"}
          /\ row' = [row EXCEPT ![c] = None] /\ conn' = conn /\ pipe # <<>>
        BY <1>1, ReplyHead DEF LeaveForgot, KickForgot, LeaveRoom, Answered
    <1>3. \A i \in 2 .. Len(pipe) : pipe[i].cmd # "hgetall" => pipe[i].p # c
        BY <1>1, <1>2, HeadAlone DEF OrderInv
    <1>4. row'[c] = None /\ \A q \in Participants : q # c => row'[q] = row[q]
        BY <1>2 DEF TypeInv, TypeOK
    <1>5. CASE LeaveForgot
        <2>1. /\ h.s \in Sockets /\ Owner[h.s] = c /\ inRoom' = [inRoom EXCEPT ![h.s] = FALSE]
              /\ removing' = removing /\ Resume(<<j>>)
              /\ Show(Room \ {h.s}, c, None)
            BY <1>1, <1>5, ReplyHead DEF LeaveForgot, LeaveRoom, Answered
        <2>2. Room' \subseteq Room \ {h.s} /\ Room \subseteq Sockets
            BY <1>2, <2>1 DEF Room, TypeInv, TypeOK
        <2>3. \A t \in Room' : view'[t][c] = None
            BY <2>1, <2>2 DEF Show, TypeInv, TypeOK
        <2>4. \A t \in Room, q \in Participants \ {c} : view'[t][q] = view[t][q]
            BY <2>1, <2>2 DEF Show, TypeInv, TypeOK
        <2>5. j \in GoodJob /\ j.p = c /\ j.cmd = "hgetall"
            BY <1>1, <2>1, ListJobGood DEF ListJob
        <2>. HIDE DEF j
        <2>6. Announced' /\ \A t \in Room, q \in Participants \ {c} : RosterFor(t, q)'
            BY <1>1, <1>2, <1>3, <1>4, <2>1, <2>4, <2>5, ResumedRoster
        <2>7. \A t \in Room' : RosterFor(t, c)'
            BY <1>4, <2>3 DEF RosterFor, Shows
        <2>. QED  BY <2>2, <2>6, <2>7 DEF RosterInv
    <1>6. CASE KickForgot
        <2>1. /\ inRoom' = inRoom /\ view' = view /\ removing' = removing \cup {c}
              /\ Resume(<<>>)
            BY <1>1, <1>6 DEF KickForgot
        <2>2. Room' = Room
            BY <1>2, <2>1 DEF Room
        <2>3. j2 \in GoodJob /\ j2.p = c /\ j2.cmd = "hget"
            BY <1>1, NoneAssumption DEF NewJob, GoodJob, Job, Tasks, Commands
        <2>. HIDE DEF j2
        <2>4. Announced' /\ \A t \in Room, q \in Participants \ {c} : RosterFor(t, q)'
            BY <1>1, <1>2, <1>3, <1>4, <2>1, <2>3, ResumedRoster
        <2>5. \A t \in Room' : RosterFor(t, c)'
            BY <2>1 DEF RosterFor
        <2>. QED  BY <2>2, <2>4, <2>5 DEF RosterInv
    <1>. QED  BY <1>5, <1>6

(* What a client shows of c while c's handler is about to announce h.        *)
LEMMA BeforeTold ==
    ASSUME TypeInv, OrderInv, RosterInv, Announced, Reply, Current.cmd = "expire",
           NEW c \in Participants, c = Current.p, NEW t \in Room
    PROVE  /\ row[c] = Written(Current) /\ row[c] # None /\ row[c] \in Row
           /\ \/ c \in removing
              \/ Shows(view[t][c], row[c])
              \/ Shows(view[t][c], Current.read)
              \/ \E i \in 2 .. Len(pipe) : pipe[i].task = "snapshot" /\ pipe[i].s = t
    <1>1. /\ pipe # <<>> /\ Current \in GoodJob /\ Current = pipe[1] /\ 1 \in 1 .. Len(pipe)
        BY ReplyHead
    <1>2. \A i \in 2 .. Len(pipe) : pipe[i].cmd # "hgetall" => pipe[i].p # c
        BY <1>1, HeadAlone DEF OrderInv
    <1>3. \A i \in 1 .. Len(pipe) : pipe[i].cmd # "hgetall" /\ pipe[i].p = c => pipe[i] = Current
        <2>. SUFFICES ASSUME NEW i \in 1 .. Len(pipe), pipe[i].cmd # "hgetall", pipe[i].p = c
                      PROVE  pipe[i] = Current
            OBVIOUS
        <2>1. i = 1 \/ i \in 2 .. Len(pipe)
            OBVIOUS
        <2>. QED  BY <1>1, <1>2, <2>1
    <1>4. row[c] = Written(Current) /\ row[c] # None /\ row[c] \in Row
        BY <1>1, WrittenTyped, NoneAssumption DEF Announced
    <1>5. RosterFor(t, c)
        BY DEF RosterInv
    <1>6. CASE ToBeTold(t, c)
        <2>1. PICK i \in 1 .. Len(pipe) :
                 pipe[i].p = c /\ pipe[i].cmd = "expire" /\ Shows(view[t][c], pipe[i].read)
            BY <1>6 DEF ToBeTold
        <2>2. pipe[i] = Current
            BY <1>3, <2>1
        <2>. QED  BY <1>4, <2>1, <2>2
    <1>7. ~ToBeGone(t, c)
        BY <1>3 DEF ToBeGone
    <1>8. CASE Awaiting(t)
        <2>1. PICK i \in 1 .. Len(pipe) : pipe[i].task = "snapshot" /\ pipe[i].s = t
            BY <1>8 DEF Awaiting
        <2>2. i \in 2 .. Len(pipe)
            BY <1>1, <2>1 DEF GoodJob
        <2>. QED  BY <1>4, <2>1, <2>2
    <1>. QED  BY <1>4, <1>5, <1>6, <1>7, <1>8 DEF RosterFor

(* The newcomer is announced to the others and will get its own snapshot.    *)
LEMMA JoinDoneRoster ==
    ASSUME TypeInv, OrderInv, RosterInv, Announced, Reply, JoinDone
    PROVE  RosterInv' /\ Announced'
    <1>. DEFINE h == Current
                j == ListJob("snapshot", h.s, h.p)
    <1>1. PICK c \in Participants : c = h.p
        BY ReplyHead
    <1>2. /\ h \in GoodJob /\ h.task = "join" /\ h.cmd = "expire"
          /\ h.s \in Sockets /\ Owner[h.s] = c /\ pipe # <<>>
          /\ row' = row /\ conn' = conn /\ removing' = removing
          /\ inRoom' = [inRoom EXCEPT ![h.s] = TRUE] /\ Resume(<<j>>)
        BY <1>1, ReplyHead DEF JoinDone, Answered
    <1>3. j \in GoodJob /\ j.p = c /\ j.task = "snapshot" /\ j.cmd = "hgetall" /\ j.s = h.s
        BY <1>1, <1>2, ListJobGood DEF ListJob
    <1>. HIDE DEF j
    <1>4. Room' \subseteq Room \cup {h.s} /\ Room \subseteq Sockets
        BY <1>2 DEF Room, TypeInv, TypeOK
    <1>5. /\ WasNewlyOnline(h) => Show(Room \ {h.s}, c, ToPublic(Written(h)))
          /\ ~WasNewlyOnline(h) => Patch(Room \ {h.s}, c, "isOnline", TRUE)
        BY <1>1 DEF JoinDone
    <1>6. \A t \in Room, q \in Participants \ {c} : view'[t][q] = view[t][q]
        <2>1. CASE WasNewlyOnline(h)
            BY <1>4, <1>5, <2>1 DEF Show, TypeInv, TypeOK
        <2>2. CASE ~WasNewlyOnline(h)
            <3>1. \A t \in Room : \/ view'[t] = view[t]
                                 \/ \E x : view'[t] = [view[t] EXCEPT ![c] = x]
                BY <1>4, <1>5, <2>2 DEF Patch
            <3>2. ASSUME NEW t \in Room, NEW q \in Participants \ {c}
                  PROVE  view'[t][q] = view[t][q]
                <4>1. view[t] \in [Participants -> Item]
                    BY <1>4 DEF TypeInv, TypeOK
                <4>2. \A x : [view[t] EXCEPT ![c] = x][q] = view[t][q]
                    BY <4>1
                <4>. QED  BY <3>1, <4>2
            <3>. QED  BY <3>2
        <2>. QED  BY <2>1, <2>2
    <1>7. /\ Announced'
          /\ \A i \in 2 .. Len(pipe) : \E k \in 1 .. Len(pipe') : pipe'[k] = pipe[i]
          /\ \E k \in 1 .. Len(pipe') : pipe'[k] = j
          /\ \A t \in Room, q \in Participants \ {c} : RosterFor(t, q)'
        BY <1>1, <1>2, <1>3, <1>6, ResumedRoster
    <1>8. ASSUME NEW s \in Sockets, s = h.s, NEW q \in Participants
          PROVE  RosterFor(s, q)'
        <2>1. \E k \in 1 .. Len(pipe') : pipe'[k].task = "snapshot" /\ pipe'[k].s = s
            BY <1>3, <1>7, <1>8
        <2>. QED  BY <2>1 DEF RosterFor, Awaiting
    <1>9. ASSUME NEW t \in Room, t # h.s
          PROVE  RosterFor(t, c)'
        <2>1. /\ row[c] = Written(h) /\ row[c] # None /\ row[c] \in Row /\ row'[c] = row[c]
              /\ \/ c \in removing
                 \/ Shows(view[t][c], row[c])
                 \/ Shows(view[t][c], h.read)
                 \/ \E i \in 2 .. Len(pipe) : pipe[i].task = "snapshot" /\ pipe[i].s = t
            BY <1>1, <1>2, BeforeTold
        <2>2. CASE c \in removing
            BY <1>2, <2>2 DEF RosterFor
        <2>3. CASE \E i \in 2 .. Len(pipe) : pipe[i].task = "snapshot" /\ pipe[i].s = t
            BY <1>7, <2>3 DEF RosterFor, Awaiting
        <2>4. CASE WasNewlyOnline(h)
            <3>1. view'[t][c] = ToPublic(row[c])
                BY <1>4, <1>5, <1>9, <2>1, <2>4 DEF Show, TypeInv, TypeOK
            <3>2. row[c].count > 0
                BY <1>2, <2>1, <2>4, NoneAssumption DEF WasNewlyOnline, Written, GoodJob, Job, Row
            <3>. QED  BY <2>1, <3>1, <3>2 DEF RosterFor, Shows
        <2>5. CASE ~WasNewlyOnline(h) /\ (Shows(view[t][c], row[c]) \/ Shows(view[t][c], h.read))
            <3>1. h.read # None /\ h.read \in Row /\ h.read.count > 0
                BY <1>2, <2>5 DEF WasNewlyOnline, GoodJob, Job, Row
            <3>2. row[c].count > 0 /\ row[c].flags = h.read.flags
                BY <1>2, <2>1, <3>1 DEF Written, Row
            <3>3. /\ view[t][c] = ToPublic(row[c]) /\ ToPublic(row[c]) \in Item
                  /\ ToPublic(row[c]) = [online |-> TRUE, flags |-> row[c].flags]
                BY <2>1, <2>5, <3>1, <3>2, ItemTyped DEF Shows, ToPublic
            <3>4. Patched(ToPublic(row[c]), "isOnline", TRUE) = ToPublic(row[c])
                <4>1. ASSUME NEW item \in [online : BOOLEAN, flags : SUBSET Flags], item.online
                      PROVE  [item EXCEPT !.online = TRUE] = item
                    BY <4>1
                <4>2. ToPublic(row[c]) \in [online : BOOLEAN, flags : SUBSET Flags]
                    BY <2>1, <3>3 DEF Row
                <4>3. ToPublic(row[c]).online
                    BY <3>3
                <4>4. [ToPublic(row[c]) EXCEPT !.online = TRUE] = ToPublic(row[c])
                    BY <4>1, <4>2, <4>3
                <4>. QED  BY <4>4 DEF Patched
            <3>5. \/ view'[t][c] = view[t][c]
                  \/ view'[t][c] = Patched(view[t][c], "isOnline", TRUE)
                BY <1>4, <1>5, <2>5 DEF Patch, TypeInv, TypeOK
            <3>6. view'[t][c] = ToPublic(row[c])
                BY <3>3, <3>4, <3>5
            <3>. QED  BY <2>1, <3>2, <3>6 DEF RosterFor, Shows
        <2>. QED  BY <2>1, <2>2, <2>3, <2>4, <2>5
    <1>. SUFFICES ASSUME NEW t \in Room', NEW q \in Participants PROVE RosterFor(t, q)'
        BY <1>7 DEF RosterInv
    <1>10. t \in Room \/ t = h.s
        BY <1>4
    <1>11. t \in Sockets
        BY <1>2, <1>4, <1>10
    <1>. QED  BY <1>7, <1>8, <1>9, <1>10, <1>11

(* The last socket's close is told; any other changed nothing that is shown. *)
LEMMA DisconnectDoneRoster ==
    ASSUME TypeInv, OrderInv, RosterInv, Announced, Reply, DisconnectDone
    PROVE  RosterInv' /\ Announced'
    <1>. DEFINE h == Current
    <1>1. PICK c \in Participants : c = h.p
        BY ReplyHead
    <1>2. /\ h \in GoodJob /\ h.task = "disconnect" /\ h.cmd = "expire" /\ pipe # <<>>
          /\ row' = row /\ conn' = conn /\ removing' = removing /\ inRoom' = inRoom
          /\ Resume(<<>>)
          /\ WentOffline(h) => Show(Room, c, None)
          /\ ~WentOffline(h) => view' = view
        BY <1>1, ReplyHead DEF DisconnectDone, Answered
    <1>3. Room' = Room /\ Room \subseteq Sockets
        BY <1>2 DEF Room
    <1>4. \A t \in Room, q \in Participants \ {c} : view'[t][q] = view[t][q]
        BY <1>2, <1>3 DEF Show, TypeInv, TypeOK
    <1>5. /\ Announced'
          /\ \A i \in 2 .. Len(pipe) : \E k \in 1 .. Len(pipe') : pipe'[k] = pipe[i]
          /\ \A t \in Room, q \in Participants \ {c} : RosterFor(t, q)'
        <2>. DEFINE j == [h EXCEPT !.cmd = "hget"]
        <2>1. j \in GoodJob /\ j.p = c /\ j.cmd = "hget"
            BY <1>1, <1>2 DEF GoodJob, Job, Tasks, Commands
        <2>. HIDE DEF j
        <2>. QED  BY <1>1, <1>2, <1>4, <2>1, ResumedRoster
    <1>6. h.read # None /\ h.read \in Row
        BY <1>2 DEF GoodJob, Job
    <1>7. ASSUME NEW t \in Room
          PROVE  RosterFor(t, c)'
        <2>1. /\ row[c] = Written(h) /\ row[c] # None /\ row[c] \in Row /\ row'[c] = row[c]
              /\ \/ c \in removing
                 \/ Shows(view[t][c], row[c])
                 \/ Shows(view[t][c], h.read)
                 \/ \E i \in 2 .. Len(pipe) : pipe[i].task = "snapshot" /\ pipe[i].s = t
            BY <1>1, <1>2, BeforeTold
        <2>2. row[c].count = Min1(h.read.count) /\ row[c].flags = h.read.flags
              /\ row[c].count \in Nat /\ h.read.count \in Nat
            BY <1>2, <1>6, <2>1 DEF Written, Row
        <2>3. CASE c \in removing
            BY <1>2, <2>3 DEF RosterFor
        <2>4. CASE \E i \in 2 .. Len(pipe) : pipe[i].task = "snapshot" /\ pipe[i].s = t
            BY <1>5, <2>4 DEF RosterFor, Awaiting
        <2>5. CASE WentOffline(h)
            <3>1. view'[t][c] = None
                BY <1>2, <1>3, <2>5 DEF Show, TypeInv, TypeOK
            <3>2. row[c].count = 0
                BY <2>2, <2>5 DEF WentOffline
            <3>. QED  BY <2>1, <3>1, <3>2 DEF RosterFor, Shows
        <2>6. CASE ~WentOffline(h) /\ (Shows(view[t][c], row[c]) \/ Shows(view[t][c], h.read))
            <3>1. row[c].count > 0 <=> h.read.count > 0
                BY <2>2, <2>6 DEF WentOffline, Min1
            <3>2. ToPublic(row[c]) = ToPublic(h.read)
                BY <1>6, <2>1, <2>2, <3>1 DEF ToPublic
            <3>3. Shows(view[t][c], row[c])
                BY <1>6, <2>1, <2>6, <3>1, <3>2 DEF Shows
            <3>4. Shows(view'[t][c], row'[c])
                BY <1>2, <2>1, <2>6, <3>3
            <3>. QED  BY <3>4 DEF RosterFor, Shows
        <2>. QED  BY <2>1, <2>3, <2>4, <2>5, <2>6
    <1>. QED  BY <1>3, <1>5, <1>7 DEF RosterInv

LEMMA FlagsSet ==
    ASSUME NEW fl \in SUBSET Flags, NEW f \in Flags, NEW on \in BOOLEAN
    PROVE  /\ SetFlag(fl, f, on) \in SUBSET Flags
           /\ SetFlag(SetFlag(fl, f, on), f, on) = SetFlag(fl, f, on)
    BY DEF SetFlag

LEMMA FlagPatched ==
    ASSUME NEW item \in [online : BOOLEAN, flags : SUBSET Flags],
           NEW f \in Flags, NEW on \in BOOLEAN
    PROVE  /\ Patched(item, f, on) \in [online : BOOLEAN, flags : SUBSET Flags]
           /\ Patched(item, f, on).online = item.online
           /\ Patched(item, f, on).flags = SetFlag(item.flags, f, on)
    <1>. DEFINE new == SetFlag(item.flags, f, on)
    <1>1. new \in SUBSET Flags
        BY FlagsSet
    <1>2. Patched(item, f, on) = [item EXCEPT !.flags = new]
        BY FlagsAssumption DEF Patched
    <1>. HIDE DEF new
    <1>3. /\ Patched(item, f, on) \in [online : BOOLEAN, flags : SUBSET Flags]
          /\ Patched(item, f, on).online = item.online
          /\ Patched(item, f, on).flags = new
        BY <1>1, <1>2
    <1>. QED  BY <1>3 DEF new

(* Whoever shows c, before or after, gets the changed flag.                  *)
LEMMA ToggleDoneRoster ==
    ASSUME TypeInv, OrderInv, RosterInv, Announced, Reply, ToggleDone
    PROVE  RosterInv' /\ Announced'
    <1>. DEFINE h == Current
    <1>1. PICK c \in Participants : c = h.p
        BY ReplyHead
    <1>2. /\ h \in GoodJob /\ h.task = "toggle" /\ h.cmd = "expire" /\ pipe # <<>>
          /\ row' = row /\ conn' = conn /\ removing' = removing /\ inRoom' = inRoom
          /\ Resume(<<>>) /\ Patch(Room, c, h.arg[1], h.arg[2])
        BY <1>1, ReplyHead DEF ToggleDone, Answered
    <1>3. PICK f \in Flags, on \in BOOLEAN : f = h.arg[1] /\ on = h.arg[2]
        BY <1>2 DEF GoodJob, Job
    <1>4. Room' = Room /\ Room \subseteq Sockets
        BY <1>2 DEF Room
    <1>5. ASSUME NEW t \in Room
          PROVE  /\ view[t] \in [Participants -> Item]
                 /\ view'[t] = IF view[t][c] # None
                               THEN [view[t] EXCEPT ![c] = Patched(view[t][c], f, on)] ELSE view[t]
        BY <1>2, <1>3, <1>4 DEF Patch, TypeInv, TypeOK
    <1>6. \A t \in Room, q \in Participants \ {c} : view'[t][q] = view[t][q]
        <2>. SUFFICES ASSUME NEW t \in Room, NEW q \in Participants \ {c}
                      PROVE  view'[t][q] = view[t][q]
            OBVIOUS
        <2>1. \A x : [view[t] EXCEPT ![c] = x][q] = view[t][q]
            BY <1>5
        <2>. QED  BY <1>5, <2>1
    <1>7. /\ Announced'
          /\ \A i \in 2 .. Len(pipe) : \E k \in 1 .. Len(pipe') : pipe'[k] = pipe[i]
          /\ \A t \in Room, q \in Participants \ {c} : RosterFor(t, q)'
        <2>. DEFINE j == [h EXCEPT !.cmd = "hget"]
        <2>1. j \in GoodJob /\ j.p = c /\ j.cmd = "hget"
            BY <1>1, <1>2 DEF GoodJob, Job, Tasks, Commands
        <2>. HIDE DEF j
        <2>. QED  BY <1>1, <1>2, <1>6, <2>1, ResumedRoster
    <1>8. h.read # None /\ h.read \in Row
        BY <1>2 DEF GoodJob, Job
    <1>9. ASSUME NEW t \in Room
          PROVE  RosterFor(t, c)'
        <2>1. /\ row[c] = Written(h) /\ row[c] # None /\ row[c] \in Row /\ row'[c] = row[c]
              /\ \/ c \in removing
                 \/ Shows(view[t][c], row[c])
                 \/ Shows(view[t][c], h.read)
                 \/ \E i \in 2 .. Len(pipe) : pipe[i].task = "snapshot" /\ pipe[i].s = t
            BY <1>1, <1>2, BeforeTold
        <2>2. row[c].count = h.read.count /\ row[c].flags = SetFlag(h.read.flags, f, on)
            BY <1>2, <1>3, <1>8, <2>1 DEF Written, Row
        <2>3. CASE c \in removing
            BY <1>2, <2>3 DEF RosterFor
        <2>4. CASE \E i \in 2 .. Len(pipe) : pipe[i].task = "snapshot" /\ pipe[i].s = t
            BY <1>7, <2>4 DEF RosterFor, Awaiting
        <2>5. CASE Shows(view[t][c], row[c]) \/ Shows(view[t][c], h.read)
            <3>. DEFINE item == view[t][c]
            <3>1. item \in Item /\ (item # None => item \in [online : BOOLEAN, flags : SUBSET Flags])
                BY <1>5 DEF Item
            <3>2. view'[t][c] = IF item # None THEN Patched(item, f, on) ELSE None
                BY <1>5
            <3>3. CASE row[c].count > 0
                <4>1. item = ToPublic(row[c]) \/ item = ToPublic(h.read)
                    BY <1>8, <2>1, <2>2, <2>5, <3>3 DEF Shows
                <4>2. /\ ToPublic(row[c]) = [online |-> TRUE, flags |-> SetFlag(h.read.flags, f, on)]
                      /\ ToPublic(h.read) = [online |-> TRUE, flags |-> h.read.flags]
                    BY <1>8, <2>1, <2>2, <3>3 DEF ToPublic
                <4>3. h.read.flags \in SUBSET Flags
                    BY <1>8 DEF Row
                <4>4. /\ item.online = TRUE
                      /\ SetFlag(item.flags, f, on) = SetFlag(h.read.flags, f, on)
                    BY <4>1, <4>2, <4>3, FlagsSet
                <4>5. item # None
                    <5>1. \A r \in Row : ToPublic(r) \in [online : BOOLEAN, flags : SUBSET Flags]
                        BY NoneAssumption DEF ToPublic, Row
                    <5>. QED  BY <1>8, <2>1, <4>1, <5>1, NoneAssumption
                <4>. HIDE DEF item
                <4>6. /\ Patched(item, f, on) \in [online : BOOLEAN, flags : SUBSET Flags]
                      /\ Patched(item, f, on).online = TRUE
                      /\ Patched(item, f, on).flags = SetFlag(h.read.flags, f, on)
                    BY <3>1, <4>4, <4>5, FlagPatched
                <4>7. Patched(item, f, on) = ToPublic(row[c])
                    BY <4>2, <4>6
                <4>8. Shows(view'[t][c], row'[c])
                    BY <2>1, <3>2, <3>3, <4>5, <4>7 DEF Shows
                <4>. QED  BY <4>8 DEF RosterFor, Shows
            <3>4. CASE ~(row[c].count > 0)
                <4>1. item = None \/ ~item.online
                    BY <1>8, <2>1, <2>2, <2>5, <3>4 DEF Shows
                <4>. HIDE DEF item
                <4>2. view'[t][c] = None \/ ~view'[t][c].online
                    BY <3>1, <3>2, <4>1, FlagPatched
                <4>3. Shows(view'[t][c], row'[c])
                    BY <2>1, <3>4, <4>2 DEF Shows
                <4>. QED  BY <4>3 DEF RosterFor, Shows
            <3>. QED  BY <3>3, <3>4
        <2>. QED  BY <2>1, <2>3, <2>4, <2>5
    <1>. QED  BY <1>4, <1>7, <1>9 DEF RosterInv

(* Whoever is sent a list shows exactly the rows.                            *)
LEMMA SendRosterRoster ==
    ASSUME TypeInv, RosterInv, Announced, Reply, SendRoster
    PROVE  RosterInv' /\ Announced'
    <1>. DEFINE h == Current
    <1>1. PICK c \in Participants : c = h.p
        BY ReplyHead
    <1>2. /\ h \in GoodJob /\ h = pipe[1] /\ h.task \in {"snapshot", "refresh"}
          /\ pipe # <<>> /\ h.cmd = "hgetall"
          /\ row' = row /\ conn' = conn /\ removing' = removing /\ inRoom' = inRoom
          /\ Resume(<<>>) /\ Replace(Audience(h))
        BY <1>1, ReplyHead DEF SendRoster, Answered
    <1>3. Room' = Room /\ Room \subseteq Sockets
        BY <1>2 DEF Room
    <1>4. /\ Announced'
          /\ \A i \in 2 .. Len(pipe) : \E k \in 1 .. Len(pipe') : pipe'[k] = pipe[i]
        <2>. DEFINE j == NewJob("kick", None, c, None)
        <2>1. j \in GoodJob /\ j.p = c /\ j.cmd = "hget"
            BY NoneAssumption DEF NewJob, GoodJob, Job, Tasks, Commands
        <2>. HIDE DEF j
        <2>. QED  BY <1>1, <1>2, <2>1, ResumedRoster
    <1>5. ASSUME NEW t \in Room, NEW p \in Participants
          PROVE  RosterFor(t, p)'
        <2>1. CASE t \in Audience(h)
            <3>1. view'[t][p] = ToPublic(row[p])
                BY <1>2, <1>3, <2>1 DEF Replace, Listed
            <3>2. Shows(ToPublic(row[p]), row[p])
                <4>1. CASE row[p] = None
                    BY <4>1 DEF ToPublic, Shows
                <4>2. CASE row[p] # None
                    BY <4>2 DEF ToPublic, Shows
                <4>. QED  BY <4>1, <4>2
            <3>3. Shows(view'[t][p], row'[p])
                BY <1>2, <3>1, <3>2
            <3>. QED  BY <3>3 DEF RosterFor, Shows
        <2>2. CASE t \notin Audience(h)
            <3>1. view'[t][p] = view[t][p]
                BY <1>2, <1>3, <2>2 DEF Replace
            <3>2. ~(h.task = "snapshot" /\ h.s = t)
                BY <1>3, <2>2 DEF Audience, Room
            <3>3. \A i \in 1 .. Len(pipe) :
                     \/ pipe[i].p = p /\ pipe[i].cmd # "hgetall"
                     \/ pipe[i].task = "snapshot" /\ pipe[i].s = t
                     => i \in 2 .. Len(pipe)
                BY <1>2, <3>2
            <3>4. RosterFor(t, p)
                BY DEF RosterInv
            <3>. QED  BY <1>2, <1>4, <3>1, <3>3, <3>4, KeepsRoster
        <2>. QED  BY <2>1, <2>2
    <1>. QED  BY <1>3, <1>4, <1>5 DEF RosterInv

(* HGET found no row: nobody is to be told, and nobody shows p for long.     *)
LEMMA ReadNothingRoster ==
    ASSUME TypeInv, RosterInv, Announced, Reply, ReadNothing
    PROVE  RosterInv' /\ Announced'
    <1>. DEFINE h == Current
    <1>1. PICK c \in Participants : c = h.p
        BY ReplyHead
    <1>2. /\ h \in GoodJob /\ h = pipe[1] /\ h.task \in {"disconnect", "toggle"}
          /\ pipe # <<>> /\ h.cmd = "hget" /\ row[c] = None
          /\ row' = row /\ conn' = conn /\ removing' = removing /\ inRoom' = inRoom
          /\ view' = view /\ Resume(<<>>)
        BY <1>1, ReplyHead DEF ReadNothing, Answered
    <1>3. Room' = Room
        BY <1>2 DEF Room
    <1>4. /\ Announced'
          /\ \A i \in 2 .. Len(pipe) : \E k \in 1 .. Len(pipe') : pipe'[k] = pipe[i]
          /\ \A t \in Room, q \in Participants \ {c} : RosterFor(t, q)'
        BY <1>1, <1>2, ResumedRoster
    <1>5. ASSUME NEW t \in Room
          PROVE  RosterFor(t, c)'
        <2>1. CASE ToBeGone(t, c)
            <3>1. Shows(view'[t][c], row'[c])
                BY <1>2, <2>1 DEF ToBeGone, Shows
            <3>. QED  BY <3>1 DEF RosterFor, Shows
        <2>2. CASE ToBeTold(t, c)
            <3>1. PICK i \in 1 .. Len(pipe) :
                     pipe[i].p = c /\ pipe[i].cmd = "expire" /\ Shows(view[t][c], pipe[i].read)
                BY <2>2 DEF ToBeTold
            <3>2. i \in 2 .. Len(pipe)
                BY <1>2, <3>1
            <3>3. PICK k \in 1 .. Len(pipe') : pipe'[k] = pipe[i]
                BY <1>4, <3>2
            <3>. QED  BY <1>2, <3>1, <3>3 DEF RosterFor, ToBeTold
        <2>3. CASE Awaiting(t)
            <3>1. PICK i \in 1 .. Len(pipe) : pipe[i].task = "snapshot" /\ pipe[i].s = t
                BY <2>3 DEF Awaiting
            <3>2. i \in 2 .. Len(pipe)
                BY <1>2, <3>1
            <3>3. PICK k \in 1 .. Len(pipe') : pipe'[k] = pipe[i]
                BY <1>4, <3>2
            <3>. QED  BY <3>1, <3>3 DEF RosterFor, Awaiting
        <2>. QED  BY <1>2, <2>1, <2>2, <2>3 DEF RosterInv, RosterFor
    <1>. QED  BY <1>3, <1>4, <1>5 DEF RosterInv

LEMMA CalmRoster ==
    ASSUME TypeInv, OrderInv, RosterInv, Announced,
           \/ Reply \/ UNCHANGED vars
           \/ \E s \in Sockets :
                 Connect(s) \/ Join(s) \/ JoinAgain(s) \/ Leave(s) \/ Disconnect(s)
           \/ \E s \in Sockets, f \in Flags, on \in BOOLEAN : Toggle(s, f, on)
    PROVE  RosterInv' /\ Announced'
    <1>1. CASE UNCHANGED vars
        BY <1>1 DEF vars, RosterInv, RosterFor, Shows, ToBeTold, ToBeGone, Awaiting, ToPublic,
                    Count, Announced, Written, Room
    <1>2. CASE Reply
        BY <1>2, ReadRowRoster, WriteRowRoster, ForgotRoster, JoinDoneRoster,
           DisconnectDoneRoster, ToggleDoneRoster, SendRosterRoster, ReadNothingRoster DEF Reply
    <1>. QED  BY <1>1, <1>2, EventsRoster

LEMMA NextRoster ==
    ~Overlap /\ TypeInv /\ GhostInv /\ RosterInv /\ Announced /\ [Next]_vars
        => RosterInv' /\ Announced'
    BY CalmRoster, KicksRoster DEF Next, GhostInv

(* When nothing is in flight, what a client shows is what is in the row.     *)
LEMMA RostersShown == RosterInv => RostersConverge
    <1>. SUFFICES ASSUME RosterInv, Quiet, NEW s \in Room, NEW p \in Participants
                  PROVE  IF Online(p) THEN view[s][p] = ToPublic(row[p])
                         ELSE view[s][p] = None \/ ~view[s][p].online
        BY DEF RostersConverge
    <1>1. Len(pipe) = 0 /\ removing = {}
        BY DEF Quiet
    <1>2. Shows(view[s][p], row[p])
        BY <1>1 DEF RosterInv, RosterFor, ToBeTold, ToBeGone, Awaiting
    <1>. QED  BY <1>2 DEF Shows, Online

LEMMA InitRoster == Init => RosterInv /\ Announced
    BY DEF Init, RosterInv, Room, Announced

(* Whenever nothing is in flight, every client in the room shows exactly who *)
(* Redis holds online and with which flags: the broadcasts of joins, leaves, *)
(* kicks and toggles, in whatever order they reach a client that came late,  *)
(* add up to the list it would be sent; as long as the handlers of one       *)
(* participant run one after the other.                                     *)
THEOREM RostersRight == ASSUME ~Overlap PROVE Spec => []RostersConverge
    <1>1. Init => RosterInv /\ Announced
        BY InitRoster
    <1>. QED
        BY <1>1, RostersShown, InitTyped, InitGhost, NextTyped, NextGhost, NextRoster, PTL DEF Spec

-----------------------------------------------------------------------------
(* Crashes leave ghosts in the rows, so that Counted is lost; the rosters    *)
(* need it only when somebody is kicked.                                    *)
NoKicks == removing = {} /\ \A i \in 1 .. Len(pipe) : pipe[i].task # "kick"

(* What is in the queue after a command was added, or the head answered.    *)
LEMMA Queued ==
    ASSUME NEW S, NEW q \in Seq(S), NEW j \in S, NEW u,
           \/ u = Append(q, j) \/ u = q
           \/ q # <<>> /\ (u = Tail(q) \o <<j>> \/ u = Tail(q) \o <<>>)
    PROVE  \A k \in 1 .. Len(u) : u[k] = j \/ \E i \in 1 .. Len(q) : u[k] = q[i]
    <1>1. CASE u = Append(q, j) \/ u = q
        BY <1>1
    <1>2. CASE q # <<>> /\ (u = Tail(q) \o <<j>> \/ u = Tail(q) \o <<>>)
        <2>1. /\ Tail(q) \in Seq(S) /\ Len(Tail(q)) = Len(q) - 1 /\ Len(q) \in Nat
              /\ \A k \in 1 .. Len(Tail(q)) : Tail(q)[k] = q[k + 1] /\ k + 1 \in 1 .. Len(q)
            BY <1>2
        <2>. DEFINE t == Tail(q)
        <2>. HIDE DEF t
        <2>2. t \in Seq(S) /\ \A k \in 1 .. Len(t) : \E i \in 1 .. Len(q) : t[k] = q[i]
            BY <2>1 DEF t
        <2>3. u = t \o <<j>> \/ u = t \o <<>>
            BY <1>2 DEF t
        <2>4. CASE u = t \o <<>>
            BY <2>2, <2>4
        <2>5. CASE u = t \o <<j>>
            <3>1. /\ Len(u) = Len(t) + 1 /\ Len(t) \in Nat
                  /\ \A k \in 1 .. Len(t) : u[k] = t[k]
                  /\ u[Len(t) + 1] = j
                BY <2>2, <2>5
            <3>2. \A k \in 1 .. Len(u) : k \in 1 .. Len(t) \/ k = Len(t) + 1
                BY <3>1
            <3>. QED  BY <2>2, <3>1, <3>2
        <2>. QED  BY <2>3, <2>4, <2>5
    <1>. QED  BY <1>1, <1>2

LEMMA StaysCalm ==
    ASSUME Kickable = {}, TypeInv, NoKicks, [Next \/ Crash]_vars
    PROVE  NoKicks'
    <1>1. CASE UNCHANGED vars
        BY <1>1 DEF vars, NoKicks
    <1>2. CASE Crash
        BY <1>2 DEF Crash, NoKicks
    <1>3. ASSUME removing' = removing, NEW j, j.task # "kick",
                 \/ pipe' = Append(pipe, j) \/ pipe' = pipe
                 \/ pipe # <<>> /\ (Resume(<<j>>) \/ Resume(<<>>))
          PROVE  NoKicks'
        <2>1. pipe \in Seq(GoodJob \cup {j}) /\ j \in GoodJob \cup {j}
            BY DEF TypeInv
        <2>2. \A k \in 1 .. Len(pipe') :
                  pipe'[k] = j \/ \E i \in 1 .. Len(pipe) : pipe'[k] = pipe[i]
            BY <1>3, <2>1, Queued DEF Resume
        <2>. QED  BY <1>3, <2>2 DEF NoKicks
    <1>4. ASSUME NEW s \in Sockets,
                 \/ Connect(s) \/ Join(s) \/ JoinAgain(s) \/ Leave(s) \/ Disconnect(s)
                 \/ \E f \in Flags, on \in BOOLEAN : Toggle(s, f, on)
          PROVE  NoKicks'
        <2>1. \A t, a : /\ ListJob("snapshot", s, Owner[s]).task = "snapshot"
                        /\ NewJob(t, s, Owner[s], a).task = t
            BY DEF NewJob, ListJob
        <2>2. /\ removing' = removing
              /\ \/ pipe' = pipe
                 \/ pipe' = Append(pipe, ListJob("snapshot", s, Owner[s]))
                 \/ \E t \in {"join", "leave", "disconnect", "toggle"} : \E a :
                       pipe' = Append(pipe, NewJob(t, s, Owner[s], a))
            BY <1>4 DEF Connect, Join, JoinAgain, Leave, Disconnect, Toggle
        <2>. QED  BY <1>3, <2>1, <2>2
    <1>5. ASSUME NEW p \in Participants, Kick(p) \/ FinishKick(p) \/ KickAgain(p) \/ Approve(p)
          PROVE  NoKicks'
        BY <1>5 DEF Kick, FinishKick, KickAgain, Approve, NoKicks
    <1>6. CASE Reply
        <2>1. pipe # <<>> /\ Current \in GoodJob /\ Current.task # "kick"
            BY <1>6, ReplyHead DEF NoKicks
        <2>2. CASE ReadRow
            <3>. DEFINE j == [Current EXCEPT
                                !.read = row[Current.p],
                                !.cmd = IF Current.task \in {"leave", "kick"}
                                        THEN "hdel" ELSE "hset"]
            <3>1. Resume(<<j>>) /\ removing' = removing
                BY <2>2 DEF ReadRow
            <3>2. j.task # "kick"
                BY <2>1 DEF GoodJob, Job
            <3>. HIDE DEF j
            <3>. QED  BY <1>3, <2>1, <3>1, <3>2
        <2>3. CASE WriteRow
            <3>. DEFINE j == [Current EXCEPT !.cmd = "expire"]
            <3>1. Resume(<<j>>) /\ removing' = removing
                BY <2>3 DEF WriteRow
            <3>2. j.task # "kick"
                BY <2>1 DEF GoodJob, Job
            <3>. HIDE DEF j
            <3>. QED  BY <1>3, <2>1, <3>1, <3>2
        <2>4. CASE KickForgot
            BY <2>1, <2>4 DEF KickForgot, Answered
        <2>5. CASE LeaveForgot \/ JoinDone
            <3>1. \E j : removing' = removing /\ j.task # "kick" /\ Resume(<<j>>)
                BY <2>5 DEF LeaveForgot, LeaveRoom, JoinDone, ListJob
            <3>. QED  BY <1>3, <2>1, <3>1
        <2>6. CASE ReadNothing \/ DisconnectDone \/ ToggleDone \/ SendRoster
            <3>1. removing' = removing /\ Resume(<<>>)
                BY <2>6 DEF ReadNothing, DisconnectDone, ToggleDone, SendRoster
            <3>. QED  BY <1>3, <2>1, <3>1
        <2>. QED  BY <1>6, <2>2, <2>3, <2>4, <2>5, <2>6 DEF Reply
    <1>. QED  BY <1>1, <1>2, <1>4, <1>5, <1>6 DEF Next

(* A crash empties the rooms and the queue, and with them all that rosters   *)
(* could be wrong about.                                                    *)
LEMMA CrashRoster ==
    ASSUME Crash
    PROVE  OrderInv' /\ RosterInv' /\ Announced'
    <1>1. pipe' = <<>> /\ inRoom' = [s \in Sockets |-> FALSE]
        BY DEF Crash
    <1>2. Alone' /\ Fresh' /\ Joining' /\ Announced'
        BY <1>1 DEF Alone, Working, Fresh, Joining, Announced
    <1>3. Entered' /\ Room' = {}
        BY <1>1 DEF Entered, Room
    <1>. QED  BY <1>2, <1>3 DEF OrderInv, RosterInv

(* The process may die and come back at any moment, and the counts of the    *)
(* dead connections stay in Redis: what the clients then show is still, when  *)
(* nothing is in flight, what Redis holds, the ghosts included; as long as    *)
(* nobody is kicked and the handlers of one participant do not overlap.      *)
THEOREM RostersSurvive ==
    ASSUME ~Overlap, Kickable = {}
    PROVE  CrashSpec => []RostersConverge
    <1>. DEFINE I == TypeInv /\ BoundInv /\ OrderInv /\ NoKicks /\ RosterInv /\ Announced
    <1>1. Init => I
        <2>. SUFFICES ASSUME Init PROVE I
            OBVIOUS
        <2>1. NoKicks
            BY DEF Init, NoKicks
        <2>. QED  BY <2>1, InitTyped, InitBound, InitGhost, InitRoster DEF GhostInv
    <1>2. I /\ [Next \/ Crash]_vars => I'
        <2>. SUFFICES ASSUME I, [Next \/ Crash]_vars PROVE I'
            OBVIOUS
        <2>1. TypeInv' /\ BoundInv' /\ NoKicks'
            BY NextBound, StaysCalm
        <2>2. CASE Crash
            BY <2>1, <2>2, CrashRoster
        <2>3. CASE [Next]_vars
            <3>1. OrderInv'
                BY <2>3, NextOrder
            <3>2. \/ Reply \/ UNCHANGED vars
                  \/ \E s \in Sockets :
                        Connect(s) \/ Join(s) \/ JoinAgain(s) \/ Leave(s) \/ Disconnect(s)
                  \/ \E s \in Sockets, f \in Flags, on \in BOOLEAN : Toggle(s, f, on)
                  \/ \E p \in Participants : Approve(p)
                <4>1. \A p \in Participants : ~Kick(p) /\ ~FinishKick(p) /\ ~KickAgain(p)
                    BY DEF NoKicks, Kick, FinishKick, KickAgain
                <4>. QED  BY <2>3, <4>1 DEF Next
            <3>3. CASE \E p \in Participants : Approve(p)
                <4>1. RosterInv' /\ Announced'
                    BY <3>3 DEF Approve, RosterInv, RosterFor, Shows, ToBeTold, ToBeGone,
                                Awaiting, ToPublic, Count, Announced, Written, Room
                <4>. QED  BY <2>1, <3>1, <4>1
            <3>4. CASE ~ \E p \in Participants : Approve(p)
                <4>1. RosterInv' /\ Announced'
                    BY <3>2, <3>4, CalmRoster
                <4>. QED  BY <2>1, <3>1, <4>1
            <3>. QED  BY <3>3, <3>4
        <2>. QED  BY <2>2, <2>3
    <1>3. I => RostersConverge
        BY RostersShown
    <1>. HIDE DEF I
    <1>. QED  BY <1>1, <1>2, <1>3, PTL DEF CrashSpec

-----------------------------------------------------------------------------
(* Why addConnection and removeConnection balance for a participant who      *)
(* neither leaves nor is kicked: GhostInv bounds the count from above, and   *)
(* from below a row counts every socket of the room, and one more while its  *)
(* handler owes it one.                                                     *)
Gentle(p) == \A s \in SocketsOf(p) : conn[s] \notin {"leaving", "left", "dropped"}

Owed(p) == \E i \in 1 .. Len(pipe) : pipe[i].p = p /\ Owes(i)

ExactFor(p) == p \notin removing /\ Gentle(p) =>
    /\ Count(p) >= Cardinality(RoomOf(p))
    /\ Owed(p) => Count(p) >= Cardinality(RoomOf(p)) + 1

(* meeting:leave is handled for a socket that has sent it.                   *)
Leavers == \A i \in 1 .. Len(pipe) :
    pipe[i].task = "leave" => conn[pipe[i].s] \in {"leaving", "left", "dropped"}

ExactInv == Leavers /\ \A p \in Participants : ExactFor(p)

LEMMA StaysGentle ==
    ASSUME NEW p,
           \A s \in Sockets : conn[s] \in {"leaving", "left", "dropped"} =>
                                 conn'[s] \in {"leaving", "left", "dropped"}
    PROVE  Gentle(p)' => Gentle(p)
    BY DEF Gentle, SocketsOf

LEMMA KeepsExact ==
    ASSUME TypeInv, NEW p \in Participants, ExactFor(p), row'[p] = row[p],
           RoomOf(p)' \subseteq RoomOf(p), Owed(p)' => Owed(p),
           p \in removing => p \in removing', Gentle(p)' => Gentle(p)
    PROVE  ExactFor(p)'
    <1>1. Count(p)' = Count(p) /\ Count(p) \in Nat
        BY CountTyped DEF Count
    <1>2. /\ Cardinality(RoomOf(p)) \in Nat /\ Cardinality(RoomOf(p)') \in Nat
          /\ Cardinality(RoomOf(p)') <= Cardinality(RoomOf(p))
        BY RoomSets, SocketSets
    <1>. QED  BY <1>1, <1>2 DEF ExactFor

(* An event starts handlers of p, or none.                                  *)
LEMMA StartedExact ==
    ASSUME TypeInv, ExactInv, NEW p \in Participants, NEW r \in Seq(GoodJob),
           pipe' = pipe \o r, row' = row,
           \A k \in 1 .. Len(r) :
              /\ r[k].p = p
              /\ r[k].task = "leave" => conn'[r[k].s] \in {"leaving", "left", "dropped"},
           \A s \in Sockets : conn[s] \in {"leaving", "left", "dropped"} =>
                                 conn'[s] \in {"leaving", "left", "dropped"},
           \A q \in Participants : q # p =>
              RoomOf(q)' \subseteq RoomOf(q) /\ (q \in removing => q \in removing'),
           \/ ExactFor(p)'
           \/ /\ \A k \in 1 .. Len(r) : r[k].task # "disconnect" /\ r[k].cmd # "expire"
              /\ RoomOf(p)' \subseteq RoomOf(p) /\ (p \in removing => p \in removing')
    PROVE  ExactInv'
    <1>1. /\ \A i \in 1 .. Len(pipe) : i \in 1 .. Len(pipe') /\ pipe'[i] = pipe[i]
          /\ \A k \in 1 .. Len(pipe') :
                \/ k \in 1 .. Len(pipe) /\ pipe'[k] = pipe[k]
                \/ k - Len(pipe) \in 1 .. Len(r) /\ pipe'[k] = r[k - Len(pipe)]
        <2>1. pipe \in Seq(GoodJob)
            BY DEF TypeInv
        <2>. QED  BY <2>1, Appended
    <1>2. Leavers'
        <2>. SUFFICES ASSUME NEW k \in 1 .. Len(pipe'), pipe'[k].task = "leave"
                      PROVE  conn'[pipe'[k].s] \in {"leaving", "left", "dropped"}
            BY DEF Leavers
        <2>1. CASE k \in 1 .. Len(pipe) /\ pipe'[k] = pipe[k]
            <3>1. pipe[k].s \in Sockets
                BY <2>1, JobAt
            <3>. QED  BY <2>1, <3>1 DEF ExactInv, Leavers
        <2>2. CASE k - Len(pipe) \in 1 .. Len(r) /\ pipe'[k] = r[k - Len(pipe)]
            BY <2>2
        <2>. QED  BY <1>1, <2>1, <2>2
    <1>3. ASSUME NEW q \in Participants,
                 q # p \/ \A k \in 1 .. Len(r) : r[k].task # "disconnect" /\ r[k].cmd # "expire"
          PROVE  Owed(q)' => Owed(q)
        <2>. SUFFICES ASSUME Owed(q)' PROVE Owed(q)
            OBVIOUS
        <2>1. PICK k \in 1 .. Len(pipe') : pipe'[k].p = q /\ Owes(k)'
            BY DEF Owed
        <2>2. k \in 1 .. Len(pipe) /\ pipe'[k] = pipe[k]
            BY <1>1, <1>3, <2>1 DEF Owes
        <2>. QED  BY <2>1, <2>2 DEF Owed, Owes
    <1>4. \A q \in Participants : ExactFor(q)'
        BY <1>3, StaysGentle, KeepsExact DEF ExactInv
    <1>. QED  BY <1>2, <1>4 DEF ExactInv

(* The handler at the head goes on with j, or ends.                         *)
LEMMA ResumedExact ==
    ASSUME TypeInv, ExactInv, pipe # <<>>, NEW c \in Participants, c = Current.p,
           NEW j \in GoodJob, NEW r, r = <<>> \/ r = <<j>>, Resume(r), j.p = c,
           conn' = conn, j.task = "leave" => Current.task = "leave" /\ j.s = Current.s,
           \A q \in Participants : q # c =>
              /\ row'[q] = row[q] /\ RoomOf(q)' \subseteq RoomOf(q)
              /\ q \in removing => q \in removing'
    PROVE  /\ \A k \in 1 .. Len(pipe') :
                 \/ \E i \in 2 .. Len(pipe) : i \in 1 .. Len(pipe) /\ pipe'[k] = pipe[i]
                 \/ r = <<j>> /\ pipe'[k] = j
           /\ ExactFor(c)' => ExactInv'
    <1>1. /\ Len(pipe) \in Nat /\ Current = pipe[1] /\ 1 \in 1 .. Len(pipe)
          /\ \A k \in 1 .. Len(pipe') :
                \/ k + 1 \in 2 .. Len(pipe) /\ pipe'[k] = pipe[k + 1]
                \/ r = <<j>> /\ k = Len(pipe') /\ pipe'[k] = j
        BY Moved
    <1>2. \A k \in 1 .. Len(pipe') :
             \/ \E i \in 2 .. Len(pipe) : i \in 1 .. Len(pipe) /\ pipe'[k] = pipe[i]
             \/ r = <<j>> /\ pipe'[k] = j
        BY <1>1
    <1>3. Leavers'
        BY <1>1, <1>2 DEF ExactInv, Leavers
    <1>4. ASSUME NEW q \in Participants, q # c
          PROVE  Owed(q)' => Owed(q)
        <2>. SUFFICES ASSUME Owed(q)' PROVE Owed(q)
            OBVIOUS
        <2>1. PICK k \in 1 .. Len(pipe') : pipe'[k].p = q /\ Owes(k)'
            BY DEF Owed
        <2>2. PICK i \in 1 .. Len(pipe) : pipe'[k] = pipe[i]
            BY <1>2, <1>4, <2>1
        <2>. QED  BY <2>1, <2>2 DEF Owed, Owes
    <1>5. \A q \in Participants : q # c => ExactFor(q)'
        BY <1>4, StaysGentle, KeepsExact DEF ExactInv
    <1>. QED  BY <1>2, <1>3, <1>5 DEF ExactInv

LEMMA EventsExact ==
    ASSUME ~Overlap, TypeInv, GhostInv, ExactInv, NEW s \in Sockets,
           \/ Connect(s) \/ Join(s) \/ JoinAgain(s) \/ Leave(s) \/ Disconnect(s)
           \/ \E f \in Flags, on \in BOOLEAN : Toggle(s, f, on)
    PROVE  ExactInv'
    <1>. DEFINE o == Owner[s]
    <1>1. /\ o \in Participants /\ row' = row /\ inRoom' = inRoom /\ removing' = removing
        BY OwnerAssumption DEF Connect, Join, JoinAgain, Leave, Disconnect, Toggle
    <1>2. \A t \in Sockets : conn[t] \in {"leaving", "left", "dropped"} =>
                                conn'[t] \in {"leaving", "left", "dropped"}
        BY DEF Connect, Join, JoinAgain, Leave, Disconnect, Toggle, Open, TypeInv, TypeOK
    <1>3. \A q \in Participants : RoomOf(q)' \subseteq RoomOf(q)
        <2>1. CASE Connect(s)
            BY <1>1, <2>1 DEF Connect, RoomOf, Room, Open, GhostInv, OrderInv, Entered, TypeInv, TypeOK
        <2>2. CASE Disconnect(s)
            BY <1>1, <2>2 DEF Disconnect, RoomOf, Room, Open, TypeInv, TypeOK
        <2>3. CASE \/ Join(s) \/ JoinAgain(s) \/ Leave(s)
                   \/ \E f \in Flags, on \in BOOLEAN : Toggle(s, f, on)
            BY <1>1, <2>3 DEF Join, JoinAgain, Leave, Toggle, RoomOf, Room, Open, TypeInv, TypeOK
        <2>. QED  BY <2>1, <2>2, <2>3
    <1>4. \E j \in GoodJob :
             /\ pipe' = pipe \/ pipe' = Append(pipe, j)
             /\ j.p = o /\ j.cmd # "expire"
             /\ j.task = "disconnect" => Disconnect(s) /\ inRoom[s]
             /\ j.task = "leave" => conn'[j.s] = "leaving"
        <2>1. CASE Join(s)
            <3>1. NewJob("join", s, o, None) \in GoodJob
                BY NewJobGood
            <3>. QED  BY <2>1, <3>1 DEF Join, NewJob
        <2>2. CASE \/ Connect(s) \/ JoinAgain(s) \/ (Disconnect(s) /\ ~inRoom[s])
            <3>1. ListJob("snapshot", s, o) \in GoodJob
                BY ListJobGood
            <3>. QED  BY <2>2, <3>1 DEF Connect, JoinAgain, ListJob, Disconnect
        <2>3. CASE Leave(s)
            <3>1. NewJob("leave", s, o, None) \in GoodJob /\ conn'[s] = "leaving"
                BY <2>3, NewJobGood DEF Leave, TypeInv, TypeOK
            <3>. QED  BY <2>3, <3>1 DEF Leave, NewJob
        <2>4. CASE Disconnect(s) /\ inRoom[s]
            <3>1. NewJob("disconnect", s, o, None) \in GoodJob
                BY NewJobGood
            <3>. QED  BY <2>4, <3>1 DEF Disconnect, NewJob
        <2>5. ASSUME NEW f \in Flags, NEW on \in BOOLEAN, Toggle(s, f, on)
              PROVE  \E j \in GoodJob :
                        /\ pipe' = pipe \/ pipe' = Append(pipe, j)
                        /\ j.p = o /\ j.cmd # "expire"
                        /\ j.task = "disconnect" => Disconnect(s) /\ inRoom[s]
                        /\ j.task = "leave" => conn'[j.s] = "leaving"
            <3>1. <<f, on>> # None
                BY NoneAssumption
            <3>2. NewJob("toggle", s, o, <<f, on>>) \in GoodJob
                BY <3>1, ToggleJobGood
            <3>. QED  BY <2>5, <3>2 DEF Toggle, NewJob
        <2>. QED  BY <2>1, <2>2, <2>3, <2>4, <2>5
    <1>5. PICK j \in GoodJob :
             /\ pipe' = pipe \/ pipe' = Append(pipe, j)
             /\ j.p = o /\ j.cmd # "expire"
             /\ j.task = "disconnect" => Disconnect(s) /\ inRoom[s]
             /\ j.task = "leave" => conn'[j.s] = "leaving"
        BY <1>4
    <1>6. PICK r \in Seq(GoodJob) :
             pipe' = pipe \o r /\ Len(r) <= 1 /\ \A k \in 1 .. Len(r) : r[k] = j
        BY <1>5, AppendOne
    <1>7. CASE j.task # "disconnect"
        BY <1>1, <1>2, <1>3, <1>5, <1>6, <1>7, StartedExact
    <1>8. CASE j.task = "disconnect"
        <2>1. /\ ~Busy(o) /\ inRoom[s] /\ conn[s] \in Open
              /\ conn' = [conn EXCEPT ![s] = IF @ = "leaving" THEN "left" ELSE "closed"]
            BY <1>5, <1>8 DEF Disconnect, MayStart
        <2>2. s \in RoomOf(o) /\ RoomOf(o)' = RoomOf(o) \ {s}
            BY <1>1, <2>1 DEF RoomOf, Room, Open, TypeInv, TypeOK
        <2>3. /\ Cardinality(RoomOf(o)') = Cardinality(RoomOf(o)) - 1
              /\ Cardinality(RoomOf(o)) \in Nat
            BY <2>2, RoomSets, SocketSets
        <2>4. Count(o)' = Count(o) /\ Count(o) \in Nat
            BY <1>1, CountTyped DEF Count
        <2>5. ExactFor(o)'
            <3>1. Gentle(o)' => Gentle(o)
                BY <1>2, StaysGentle
            <3>. QED  BY <1>1, <2>3, <2>4, <3>1 DEF ExactInv, ExactFor
        <2>. HIDE DEF o
        <2>. QED  BY <1>1, <1>2, <1>3, <1>5, <1>6, <1>8, <2>5, StartedExact
    <1>. QED  BY <1>7, <1>8

LEMMA KicksExact ==
    ASSUME ~Overlap, TypeInv, GhostInv, ExactInv, NEW p \in Participants,
           Kick(p) \/ FinishKick(p) \/ KickAgain(p) \/ Approve(p)
    PROVE  ExactInv'
    <1>1. CASE Kick(p) \/ Approve(p)
        <2>. DEFINE j == NewJob("kick", None, p, None)
        <2>1. j \in GoodJob /\ j.cmd = "hget" /\ j.task = "kick" /\ j.p = p
            BY NoneAssumption DEF NewJob, GoodJob, Job, Tasks, Commands
        <2>2. /\ row' = row /\ conn' = conn /\ inRoom' = inRoom /\ removing' = removing
              /\ pipe' = pipe \/ pipe' = Append(pipe, j)
            BY <1>1 DEF Kick, Approve
        <2>. HIDE DEF j
        <2>3. PICK r \in Seq(GoodJob) :
                 pipe' = pipe \o r /\ Len(r) <= 1 /\ \A k \in 1 .. Len(r) : r[k] = j
            BY <2>1, <2>2, AppendOne
        <2>4. \A q : RoomOf(q)' = RoomOf(q)
            BY <2>2 DEF RoomOf, Room
        <2>. QED  BY <2>1, <2>2, <2>3, <2>4, StartedExact
    <1>2. CASE FinishKick(p) \/ KickAgain(p)
        <2>. DEFINE gone == RoomOf(p)
                    n == Cardinality(gone)
        <2>1. /\ row' = row /\ inRoom' = inRoom /\ ~Busy(p)
              /\ conn' = [s \in Sockets |-> IF s \in gone THEN "dropped" ELSE conn[s]]
            BY <1>2 DEF FinishKick, KickAgain, BroadcastKicked
        <2>2. n \in Nat /\ \A s \in gone : s \in Sockets /\ Owner[s] = p
            BY RoomSets DEF RoomOf, Room
        <2>3. PICK order \in [1 .. n -> gone] :
                  pipe' = pipe \o [i \in 1 .. n |-> NewJob("disconnect", order[i], p, None)]
            BY <1>2 DEF FinishKick, KickAgain, BroadcastKicked
        <2>4. \A q \in Participants : q # p =>
                 RoomOf(q)' \subseteq RoomOf(q) /\ (q \in removing => q \in removing')
            BY <1>2, <2>1, <2>2 DEF FinishKick, KickAgain, RoomOf, Room, Open
        <2>5. RoomOf(p)' = {}
            BY <2>1 DEF RoomOf, Room, Open
        <2>6. gone = {} => n = 0 /\ Cardinality(RoomOf(p)') = 0
            BY <2>5, FS_EmptySet
        <2>7. gone # {} => ~Gentle(p)'
            <3>. SUFFICES ASSUME NEW s \in gone PROVE ~Gentle(p)'
                OBVIOUS
            <3>1. s \in Sockets /\ Owner[s] = p /\ conn'[s] = "dropped"
                BY <2>1, <2>2
            <3>. QED  BY <3>1 DEF Gentle, SocketsOf
        <2>8. \A s \in Sockets : conn[s] \in {"leaving", "left", "dropped"} =>
                                    conn'[s] \in {"leaving", "left", "dropped"}
            BY <2>1
        <2>. DEFINE r == [i \in 1 .. n |-> NewJob("disconnect", order[i], p, None)]
        <2>. HIDE DEF n, gone
        <2>9. /\ r \in Seq(GoodJob) /\ Len(r) = n
              /\ \A k \in 1 .. n : r[k].task = "disconnect" /\ r[k].p = p
            <3>1. \A k \in 1 .. n : NewJob("disconnect", order[k], p, None) \in GoodJob
                BY <2>2, NewJobGood
            <3>2. r \in [1 .. n -> GoodJob]
                BY <3>1
            <3>3. r \in Seq(GoodJob) /\ Len(r) = n
                BY <2>2, <3>2, SeqDef
            <3>. QED  BY <3>3 DEF NewJob
        <2>10. pipe' = pipe \o r
            BY <2>3
        <2>. HIDE DEF r
        <2>11. ExactFor(p)'
            <3>1. CASE gone # {}
                BY <2>7, <3>1 DEF ExactFor
            <3>2. CASE gone = {}
                <4>1. Count(p)' = Count(p) /\ Count(p) \in Nat /\ Cardinality(RoomOf(p)') = 0
                    BY <2>1, <2>6, <3>2, CountTyped DEF Count
                <4>2. ~Owed(p)'
                    <5>1. pipe \in Seq(GoodJob) /\ Len(r) = 0
                        BY <2>6, <2>9, <3>2 DEF TypeInv
                    <5>2. \A k \in 1 .. Len(pipe') : k \in 1 .. Len(pipe) /\ pipe'[k] = pipe[k]
                        BY <2>9, <2>10, <5>1, Appended
                    <5>3. \A i \in 1 .. Len(pipe) : pipe[i].p = p => pipe[i].cmd = "hgetall"
                        BY <2>1, NotBusy, NoHandler DEF GhostInv
                    <5>. QED  BY <5>2, <5>3 DEF Owed, Owes
                <4>. QED  BY <4>1, <4>2 DEF ExactFor
            <3>. QED  BY <3>1, <3>2
        <2>12. \A k \in 1 .. Len(r) : r[k].p = p /\ r[k].task # "leave"
            BY <2>9
        <2>. QED  BY <2>1, <2>4, <2>8, <2>9, <2>10, <2>11, <2>12, StartedExact
    <1>. QED  BY <1>1, <1>2

LEMMA WriteRowExact ==
    ASSUME TypeInv, GhostInv, ExactInv, Reply, WriteRow
    PROVE  ExactInv'
    <1>. DEFINE h == Current
                j == [h EXCEPT !.cmd = "expire"]
    <1>1. PICK c \in Participants : c = h.p
        BY ReplyHead
    <1>2. /\ h \in GoodJob /\ h.cmd = "hset" /\ h.task \in {"join", "disconnect", "toggle"}
          /\ conn' = conn /\ removing' = removing /\ inRoom' = inRoom /\ Resume(<<j>>)
          /\ pipe # <<>> /\ h = pipe[1] /\ 1 \in 1 .. Len(pipe)
          /\ row' = [row EXCEPT ![c] = Written(h)]
        BY <1>1, ReplyHead DEF WriteRow, Answered
    <1>3. \A i \in 2 .. Len(pipe) : pipe[i].cmd # "hgetall" => pipe[i].p # c
        BY <1>1, <1>2, HeadAlone DEF GhostInv, OrderInv
    <1>4. j \in GoodJob /\ j.p = c /\ j.task = h.task /\ j.cmd = "expire" /\ j.s = h.s
        BY <1>1, <1>2 DEF GoodJob, Job, Tasks, Commands
    <1>. HIDE DEF j
    <1>5. \A q : RoomOf(q)' = RoomOf(q) /\ (Gentle(q)' <=> Gentle(q))
        BY <1>2 DEF RoomOf, Room, Gentle
    <1>6. \A q \in Participants : q # c => row'[q] = row[q]
        BY <1>2 DEF TypeInv, TypeOK
    <1>7. /\ \A k \in 1 .. Len(pipe') :
                \/ \E i \in 2 .. Len(pipe) : i \in 1 .. Len(pipe) /\ pipe'[k] = pipe[i]
                \/ pipe'[k] = j
          /\ ExactFor(c)' => ExactInv'
        BY <1>1, <1>2, <1>4, <1>5, <1>6, ResumedExact
    <1>8. Owed(c)' => h.task = "join"
        BY <1>2, <1>3, <1>4, <1>7 DEF Owed, Owes
    <1>9. h.task = "disconnect" => Owed(c)
        BY <1>1, <1>2 DEF Owed, Owes
    <1>10. /\ h.read = row[c] /\ row[c] \in Row \cup {None}
           /\ h.task # "join" => row[c] # None
        BY <1>1, <1>2 DEF GhostInv, OrderInv, Fresh, TypeInv, TypeOK, GoodJob
    <1>11. row'[c] = Written(h) /\ Written(h) \in Row /\ Count(c)' = Written(h).count
        BY <1>2, WrittenTyped, NoneAssumption DEF TypeInv, TypeOK, Count
    <1>12. /\ h.task = "join" => Written(h).count = Count(c) + 1
           /\ h.task = "disconnect" => Written(h).count = Min1(Count(c))
           /\ h.task = "toggle" => Written(h).count = Count(c)
        <2>1. CASE row[c] = None
            BY <1>2, <1>10, <2>1 DEF Written, Count
        <2>2. CASE row[c] # None
            <3>1. row[c] \in Row /\ Count(c) = row[c].count
                BY <1>10, <2>2 DEF Count
            <3>. QED  BY <1>2, <1>10, <2>2, <3>1 DEF Written, Row
        <2>. QED  BY <2>1, <2>2
    <1>13. ExactFor(c)'
        <2>1. Count(c) \in Nat /\ Cardinality(RoomOf(c)) \in Nat /\ ExactFor(c)
            BY CountTyped, RoomSets DEF ExactInv
        <2>. QED
            BY <1>2, <1>5, <1>8, <1>9, <1>11, <1>12, <2>1 DEF ExactFor, Min1
    <1>. QED  BY <1>7, <1>13

LEMMA JoinDoneExact ==
    ASSUME TypeInv, GhostInv, ExactInv, Reply, JoinDone
    PROVE  ExactInv'
    <1>. DEFINE h == Current
                j == ListJob("snapshot", h.s, h.p)
    <1>1. PICK c \in Participants : c = h.p
        BY ReplyHead
    <1>2. /\ h \in GoodJob /\ h.task = "join" /\ h.cmd = "expire"
          /\ h.s \in Sockets /\ Owner[h.s] = c
          /\ pipe # <<>> /\ h = pipe[1] /\ 1 \in 1 .. Len(pipe)
          /\ row' = row /\ conn' = conn /\ removing' = removing
          /\ inRoom' = [inRoom EXCEPT ![h.s] = TRUE] /\ Resume(<<j>>)
        BY <1>1, ReplyHead DEF JoinDone, Answered
    <1>3. \A i \in 2 .. Len(pipe) : pipe[i].cmd # "hgetall" => pipe[i].p # c
        BY <1>1, <1>2, HeadAlone DEF GhostInv, OrderInv
    <1>4. j \in GoodJob /\ j.p = c /\ j.task = "snapshot" /\ j.cmd = "hgetall"
        BY <1>1, <1>2, ListJobGood DEF ListJob
    <1>. HIDE DEF j
    <1>5. \A q \in Participants : q # c => RoomOf(q)' \subseteq RoomOf(q)
        BY <1>2 DEF RoomOf, Room, TypeInv, TypeOK
    <1>6. /\ \A k \in 1 .. Len(pipe') :
                \/ \E i \in 2 .. Len(pipe) : i \in 1 .. Len(pipe) /\ pipe'[k] = pipe[i]
                \/ pipe'[k] = j
          /\ ExactFor(c)' => ExactInv'
        BY <1>1, <1>2, <1>4, <1>5, ResumedExact
    <1>7. ~Owed(c)' /\ Owed(c)
        BY <1>1, <1>2, <1>3, <1>4, <1>6 DEF Owed, Owes
    <1>8. conn[h.s] = "joined" /\ ~inRoom[h.s]
        BY <1>2 DEF GhostInv, OrderInv, Joining
    <1>9. Cardinality(RoomOf(c)') = Cardinality(RoomOf(c)) + 1
        <2>1. h.s \notin RoomOf(c) /\ RoomOf(c)' = RoomOf(c) \cup {h.s}
            BY <1>2, <1>8 DEF RoomOf, Room, Open, TypeInv, TypeOK
        <2>. QED  BY <1>2, <2>1, RoomSets, SocketSets
    <1>10. Count(c)' = Count(c) /\ (Gentle(c)' <=> Gentle(c)) /\ ExactFor(c)
        BY <1>2 DEF Count, Gentle, ExactInv
    <1>11. ExactFor(c)'
        BY <1>2, <1>7, <1>9, <1>10 DEF ExactFor
    <1>. QED  BY <1>6, <1>11

LEMMA ReplyExact ==
    ASSUME TypeInv, GhostInv, ExactInv, Reply
    PROVE  ExactInv'
    <1>. DEFINE h == Current
    <1>1. PICK c \in Participants : c = h.p
        BY ReplyHead
    <1>2. /\ h \in GoodJob /\ h = pipe[1] /\ pipe # <<>> /\ 1 \in 1 .. Len(pipe)
        BY ReplyHead
    (* A step that neither writes a row nor fills the room.                 *)
    <1>3. ASSUME NEW j \in GoodJob, NEW r, r = <<>> \/ r = <<j>>, Resume(r), j.p = c,
                 conn' = conn, inRoom' = inRoom, row' = row, removing' = removing,
                 j.task = "leave" => h.task = "leave" /\ j.s = h.s,
                 \/ r = <<>>
                 \/ j.cmd \in {"hset", "hdel"} /\ j.task = h.task /\ h.cmd = "hget"
          PROVE  ExactInv'
        <2>1. \A q : RoomOf(q)' = RoomOf(q) /\ (Gentle(q)' <=> Gentle(q))
            BY <1>3 DEF RoomOf, Room, Gentle
        <2>2. /\ \A k \in 1 .. Len(pipe') :
                    \/ \E i \in 2 .. Len(pipe) : i \in 1 .. Len(pipe) /\ pipe'[k] = pipe[i]
                    \/ r = <<j>> /\ pipe'[k] = j
              /\ ExactFor(c)' => ExactInv'
            BY <1>1, <1>2, <1>3, <2>1, ResumedExact
        <2>3. Owed(c)' => Owed(c)
            <3>. SUFFICES ASSUME Owed(c)' PROVE Owed(c)
                OBVIOUS
            <3>1. PICK k \in 1 .. Len(pipe') : pipe'[k].p = c /\ Owes(k)'
                BY DEF Owed
            <3>2. CASE \E i \in 2 .. Len(pipe) : i \in 1 .. Len(pipe) /\ pipe'[k] = pipe[i]
                BY <3>1, <3>2 DEF Owed, Owes
            <3>3. CASE r = <<j>> /\ pipe'[k] = j
                <4>1. j.cmd \in {"hset", "hdel"} /\ j.task = h.task /\ h.cmd = "hget"
                    BY <1>3, <3>3
                <4>. QED  BY <1>1, <1>2, <3>1, <3>3, <4>1 DEF Owed, Owes
            <3>. QED  BY <2>2, <3>2, <3>3
        <2>4. ExactFor(c)'
            BY <1>3, <2>1, <2>3, KeepsExact DEF ExactInv
        <2>. QED  BY <2>2, <2>4
    <1>4. CASE ReadRow
        <2>. DEFINE j == [h EXCEPT !.read = row[h.p],
                                   !.cmd = IF h.task \in {"leave", "kick"} THEN "hdel" ELSE "hset"]
        <2>1. /\ h.cmd = "hget" /\ (row[c] # None \/ h.task = "join")
              /\ row' = row /\ conn' = conn /\ inRoom' = inRoom /\ removing' = removing
              /\ Resume(<<j>>)
            BY <1>1, <1>4 DEF ReadRow, Answered
        <2>2. row[c] \in Row \cup {None}
            BY DEF TypeInv, TypeOK
        <2>3. /\ j \in GoodJob /\ j.p = c /\ j.task = h.task /\ j.s = h.s
              /\ j.cmd \in {"hset", "hdel"}
            BY <1>1, <1>2, <2>1, <2>2 DEF GoodJob, Job, Tasks, Commands
        <2>. HIDE DEF j
        <2>. QED  BY <1>3, <2>1, <2>3
    <1>5. CASE ReadNothing \/ DisconnectDone \/ ToggleDone \/ SendRoster
        <2>. DEFINE j == NewJob("kick", None, c, None)
        <2>1. j \in GoodJob /\ j.p = c /\ j.task = "kick"
            BY NoneAssumption DEF NewJob, GoodJob, Job, Tasks, Commands
        <2>. HIDE DEF j
        <2>2. /\ Resume(<<>>)
              /\ row' = row /\ conn' = conn /\ inRoom' = inRoom /\ removing' = removing
            BY <1>5 DEF ReadNothing, DisconnectDone, ToggleDone, SendRoster
        <2>. QED  BY <1>3, <2>1, <2>2
    <1>6. CASE LeaveForgot
        <2>. DEFINE j == ListJob("refresh", h.s, h.p)
        <2>1. /\ h.task = "leave" /\ h.s \in Sockets /\ Owner[h.s] = c /\ conn' = conn
              /\ inRoom' = [inRoom EXCEPT ![h.s] = FALSE] /\ removing' = removing
              /\ row' = [row EXCEPT ![c] = None] /\ Resume(<<j>>)
            BY <1>1, <1>6, ReplyHead DEF LeaveForgot, LeaveRoom, Answered
        <2>2. j \in GoodJob /\ j.p = c /\ j.task = "refresh"
            BY <1>1, <2>1, ListJobGood DEF ListJob
        <2>. HIDE DEF j
        <2>3. \A q \in Participants : q # c =>
                 row'[q] = row[q] /\ RoomOf(q)' \subseteq RoomOf(q)
            BY <2>1 DEF RoomOf, Room, TypeInv, TypeOK
        <2>4. ExactFor(c)' => ExactInv'
            BY <1>1, <1>2, <2>1, <2>2, <2>3, ResumedExact
        <2>5. ~Gentle(c)'
            BY <1>2, <2>1 DEF ExactInv, Leavers, Gentle, SocketsOf
        <2>. QED  BY <2>4, <2>5 DEF ExactFor
    <1>7. CASE KickForgot
        <2>. DEFINE j == NewJob("kick", None, c, None)
        <2>1. j \in GoodJob /\ j.p = c /\ j.task = "kick"
            BY NoneAssumption DEF NewJob, GoodJob, Job, Tasks, Commands
        <2>. HIDE DEF j
        <2>2. /\ Resume(<<>>) /\ conn' = conn /\ inRoom' = inRoom
              /\ row' = [row EXCEPT ![c] = None] /\ removing' = removing \cup {c}
            BY <1>1, <1>7 DEF KickForgot
        <2>3. \A q \in Participants : q # c =>
                 row'[q] = row[q] /\ RoomOf(q)' \subseteq RoomOf(q)
            BY <2>2 DEF RoomOf, Room, TypeInv, TypeOK
        <2>4. ExactFor(c)' => ExactInv'
            BY <1>1, <1>2, <2>1, <2>2, <2>3, ResumedExact
        <2>5. ExactFor(c)'
            BY <2>2 DEF ExactFor
        <2>. QED  BY <2>4, <2>5
    <1>. QED
        BY <1>4, <1>5, <1>6, <1>7, WriteRowExact, JoinDoneExact DEF Reply

LEMMA NextExact == ~Overlap /\ TypeInv /\ GhostInv /\ ExactInv /\ [Next]_vars => ExactInv'
    <1>. SUFFICES ASSUME ~Overlap, TypeInv, GhostInv, ExactInv, [Next]_vars PROVE ExactInv'
        OBVIOUS
    <1>1. CASE UNCHANGED vars
        BY <1>1 DEF vars, ExactInv, ExactFor, Leavers, Gentle, Owed, Owes, Count, RoomOf, Room
    <1>. QED  BY <1>1, EventsExact, KicksExact, ReplyExact DEF Next

(* A participant none of whose tabs left or was kicked is counted exactly:   *)
(* as many connections as it has in the room, however often it reloads, as   *)
(* long as its handlers run one after the other.                            *)
THEOREM CountsExact == ASSUME ~Overlap PROVE Spec => []CountExact
    <1>1. TypeInv /\ GhostInv /\ ExactInv => CountExact
        <2>. SUFFICES ASSUME TypeInv, GhostInv, ExactInv, NEW p \in Participants,
                             ~Busy(p), p \notin removing, Gentle(p)
                      PROVE  Count(p) = Cardinality(RoomOf(p))
            BY DEF CountExact, Gentle
        <2>1. Count(p) <= Cardinality(RoomOf(p))
            BY NotBusy, NoHandler DEF GhostInv
        <2>2. Count(p) >= Cardinality(RoomOf(p))
            BY DEF ExactInv, ExactFor
        <2>. QED  BY <2>1, <2>2, CountTyped, RoomSets
    <1>2. Init => ExactInv
        <2>. SUFFICES ASSUME Init PROVE ExactInv
            OBVIOUS
        <2>1. \A p \in Participants : RoomOf(p) = {} /\ Count(p) = 0 /\ ~Owed(p)
            BY DEF Init, RoomOf, Room, Count, Owed
        <2>2. Cardinality({}) = 0
            BY FS_EmptySet
        <2>3. Leavers
            BY DEF Init, Leavers
        <2>4. \A p \in Participants : ExactFor(p)
            BY <2>1, <2>2 DEF ExactFor
        <2>. QED  BY <2>3, <2>4 DEF ExactInv
    <1>. QED  BY <1>1, <1>2, InitTyped, InitGhost, NextTyped, NextGhost, NextExact, PTL DEF Spec
=============================================================================
