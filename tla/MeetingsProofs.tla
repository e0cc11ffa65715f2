--------------------------- MODULE MeetingsProofs ---------------------------
(***************************************************************************)
(* Theorems about Meetings when calls do not overlap, for every set of     *)
(* users, gates and slots and every bound: one row per user, attendance    *)
(* credited once, the kicked out, the locked door shut, the ended meeting  *)
(* closed and its duration right.                                          *)
(*                                                                         *)
(* None of these is inductive: a call that waits for Postgres writes what   *)
(* it read some statements ago.  The invariant below says of each stage of  *)
(* a call that what it has read is still so, which is what Serial is for.   *)
(***************************************************************************)
EXTENDS Meetings, FiniteSetTheorems, TLAPS

(* The meeting that a call has read is still the row, but for its activity. *)
AsRead(m) ==
    /\ m.status = meeting.status /\ m.status # "ENDED"
    /\ m.started = meeting.started /\ m.gates = meeting.gates

(* A join may still take seat i, or a new row if i is 0.                    *)
MaySit(j) ==
    IF j.id = 0
    THEN /\ Len(seats) < MaxSeats
         /\ j.user # None => SeatsOf(j.user) = {}
         /\ j.user \in {Host} \cup Admins \/ "lock" \notin j.m.gates
    ELSE /\ j.id \in DOMAIN seats /\ ~seats[j.id].kicked
         /\ seats[j.id].total <= j.at - seats[j.id].joined

MayEnd(j) ==
    /\ j.m.started # None => j.m.started <= j.at
    /\ j.stage = "credit" => \A i \in DOMAIN seats :
           j.rows[i] = IF seats[i].last # None THEN seats[i] ELSE None
    /\ j.stage = "close" => \A i \in DOMAIN seats : seats[i].last = None

MayKick(j) ==
    /\ j.id \in DOMAIN seats
    /\ j.stage = "kick" => j.rows[j.id] = seats[j.id]

(* A call that waits is where it can be.                                    *)
Fits(j) ==
    /\ j.at <= now
    /\ j.stage # "dismiss" => AsRead(j.m)
    /\ j.stage = "lookup" => /\ j.user \in Users /\ j.id = 0
                             /\ SeatsOf(j.user) # {} \/ Len(seats) < MaxSeats
    /\ j.stage = "sit" => MaySit(j)
    /\ j.stage \in {"list", "credit", "close"} => MayEnd(j)
    /\ j.stage \in {"target", "kick", "drop"} => MayKick(j)
    /\ j.stage = "gate" => j.change # None

(* One call at a time, and none while somebody leaves.                      *)
OneCall == \A t \in Slots : ~Idle(t) =>
    /\ Fits(task[t])
    /\ \A s \in Slots : ~Idle(s) => s = t
    /\ \A i \in Ids : leaving[i] = None

(* Who leaves has a row, and the row is as it was read.                     *)
Leavers == \A i \in Ids : leaving[i] # None =>
    /\ i \in DOMAIN seats
    /\ leaving[i].row # None => leaving[i].row = seats[i] /\ leaving[i].at <= now

(* What is true of one row, and of the row of the meeting.                  *)
SeatFits(i) ==
    /\ seats[i].total + Seconds(seats[i], now) <= now - seats[i].joined
    /\ seats[i].kicked => seats[i].last = None
    /\ meeting.status = "ENDED" => seats[i].last = None

SeatsFit == \A i \in DOMAIN seats : SeatFits(i)

OneRowEach == \A i, k \in DOMAIN seats :
    seats[i].user # None /\ seats[i].user = seats[k].user => i = k

MeetingFits ==
    /\ meeting.started # None => meeting.started <= now
    /\ LiveHasStarted /\ DurationMatches

Inv == TypeOK /\ OneCall /\ Leavers /\ SeatsFit /\ OneRowEach /\ MeetingFits

-----------------------------------------------------------------------------
LEMMA RowChanged ==
    ASSUME NEW S, NEW q \in Seq(S), NEW i \in DOMAIN q, NEW e \in S
    PROVE  /\ [q EXCEPT ![i] = e] \in Seq(S)
           /\ Len([q EXCEPT ![i] = e]) = Len(q)
           /\ DOMAIN [q EXCEPT ![i] = e] = DOMAIN q
           /\ [q EXCEPT ![i] = e][i] = e
           /\ \A k \in DOMAIN q : k # i => [q EXCEPT ![i] = e][k] = q[k]
    OBVIOUS

LEMMA RowAdded ==
    ASSUME NEW S, NEW q \in Seq(S), NEW e \in S
    PROVE  /\ Append(q, e) \in Seq(S)
           /\ Len(q) \in Nat
           /\ Len(Append(q, e)) = Len(q) + 1
           /\ DOMAIN Append(q, e) = DOMAIN q \cup {Len(q) + 1}
           /\ Len(q) + 1 \notin DOMAIN q
           /\ Append(q, e)[Len(q) + 1] = e
           /\ \A k \in DOMAIN q : Append(q, e)[k] = q[k]
    OBVIOUS

LEMMA RowsMapped ==
    ASSUME NEW S, NEW q \in Seq(S), NEW f \in [DOMAIN q -> S]
    PROVE  f \in Seq(S) /\ Len(f) = Len(q) /\ DOMAIN f = DOMAIN q
    OBVIOUS

LEMMA RowOfTable ==
    ASSUME NEW S, NEW q \in Seq(S), NEW i \in DOMAIN q
    PROVE  i \in 1 .. Len(q) /\ Len(q) \in Nat /\ q[i] \in S
    OBVIOUS

(* The open session of a row grows with the clock, and no faster.           *)
LEMMA SecondsGrow ==
    ASSUME NEW row \in Seat, NEW a \in Time, NEW b \in Nat, a <= b
    PROVE  /\ Seconds(row, a) \in Nat
           /\ Seconds(row, a) <= Seconds(row, b)
           /\ Seconds(row, a + 1) <= Seconds(row, a) + 1
           /\ row.last = None => Seconds(row, a) = 0
           /\ row.last = a => Seconds(row, a) = 0
           /\ row.last = a => Seconds(row, b) = b - a
    <1>1. row.last \in Nat \cup {None} /\ a \in Nat /\ a # None
        BY NoneAssumption, BoundAssumption DEF Seat, Time
    <1>2. CASE row.last = None
        <2>1. Seconds(row, a) = 0 /\ Seconds(row, b) = 0 /\ Seconds(row, a + 1) = 0
            BY <1>2 DEF Seconds
        <2>. QED  BY <1>1, <1>2, <2>1
    <1>3. CASE row.last # None
        <2>. DEFINE n == row.last
        <2>1. n \in Nat /\ n # None
            BY <1>1, <1>3
        <2>2. /\ Seconds(row, a) = IF n > a THEN 0 ELSE a - n
              /\ Seconds(row, b) = IF n > b THEN 0 ELSE b - n
              /\ Seconds(row, a + 1) = IF n > a + 1 THEN 0 ELSE a + 1 - n
            BY <1>1, <2>1 DEF Seconds
        <2>. HIDE DEF n
        <2>3. /\ Seconds(row, a) \in Nat
              /\ Seconds(row, a) <= Seconds(row, b)
              /\ Seconds(row, a + 1) <= Seconds(row, a) + 1
              /\ n = a => Seconds(row, a) = 0
              /\ n = a => Seconds(row, b) = b - a
            BY <1>1, <2>1, <2>2
        <2>. QED  BY <1>3, <2>3 DEF n
    <1>. QED  BY <1>2, <1>3

(* Closing a session credits no more than the clock would have.             *)
LEMMA ClosedRow ==
    ASSUME TypeOK, NEW i \in DOMAIN seats, NEW at \in Time
    PROVE  /\ Closed(i, seats[i], at) \in Seat
           /\ Closed(i, seats[i], at).last = None
           /\ Closed(i, seats[i], at).user = seats[i].user
           /\ Closed(i, seats[i], at).joined = seats[i].joined
           /\ Closed(i, seats[i], at).kicked = seats[i].kicked
           /\ Closed(i, seats[i], at).total = seats[i].total + Seconds(seats[i], at)
    <1>1. seats[i] \in Seat /\ at \in Nat
        BY RowOfTable DEF TypeOK, Time
    <1>2. PICK n \in Nat : n = Seconds(seats[i], at)
        BY <1>1, SecondsGrow
    <1>3. PICK r \in Seat : r = seats[i]
        BY <1>1
    <1>4. Closed(i, seats[i], at) = [r EXCEPT !.left = TRUE, !.last = None, !.total = @ + n]
        BY <1>2, <1>3 DEF Closed
    <1>5. r.total + n \in Nat
        BY DEF Seat
    <1>6. Closed(i, seats[i], at) =
              [user |-> r.user, joined |-> r.joined, last |-> None,
               left |-> TRUE, total |-> r.total + n, kicked |-> r.kicked]
        BY <1>4 DEF Seat
    <1>. QED  BY <1>2, <1>3, <1>5, <1>6 DEF Seat

-----------------------------------------------------------------------------
LEMMA SeatIds ==
    ASSUME TypeOK
    PROVE  /\ Len(seats) \in Nat /\ Len(seats) <= MaxSeats
           /\ DOMAIN seats = 1 .. Len(seats)
           /\ DOMAIN seats \subseteq Ids /\ DOMAIN seats \subseteq 0 .. MaxSeats
           /\ 0 \notin DOMAIN seats
           /\ \A i \in DOMAIN seats : seats[i] \in Seat
           /\ now \in Nat /\ now \in Time
    BY BoundAssumption DEF TypeOK, Ids, Time

LEMMA ReadTyped ==
    ASSUME TypeOK, NEW ids \in SUBSET DOMAIN seats
    PROVE  /\ Read(ids) \in [Ids -> Seat \cup {None}]
           /\ \A i \in DOMAIN seats : Read(ids)[i] = IF i \in ids THEN seats[i] ELSE None
    BY SeatIds DEF Read

LEMMA NewTaskTyped ==
    ASSUME TypeOK, NEW stage \in Stages, NEW user \in Users \cup {None},
           NEW id \in 0 .. MaxSeats, NEW change \in (Gates \X BOOLEAN) \cup {None}
    PROVE  \E j \in Task :
               /\ j = NewTask(stage, user, id, change)
               /\ j.stage = stage /\ j.m = meeting /\ j.user = user /\ j.id = id
               /\ j.at = now /\ j.change = change
    <1>1. Read({}) \in [Ids -> Seat \cup {None}] /\ meeting \in Meeting /\ now \in Time
        BY ReadTyped, SeatIds DEF TypeOK
    <1>2. NewTask(stage, user, id, change) \in Task
        BY <1>1 DEF NewTask, Task
    <1>. QED  BY <1>2 DEF NewTask

LEMMA Nobody ==
    /\ None \in Users \cup {None} /\ None \in (Gates \X BOOLEAN) \cup {None}
    /\ 0 \in 0 .. MaxSeats /\ \A g \in Gates, on \in BOOLEAN : <<g, on>> \in Gates \X BOOLEAN
    /\ {"sit", "lookup", "list", "presence", "target", "gate"} \subseteq Stages
    BY BoundAssumption DEF Stages

(* The room that is left is room for one more row at least.                 *)
LEMMA RoomCounts ==
    ASSUME TypeOK, RoomLeft
    PROVE  Len(seats) < MaxSeats
    <1>. DEFINE waiting == {t \in Slots : (At(t, "lookup") \/ At(t, "sit")) /\ task[t].id = 0}
    <1>1. Cardinality(waiting) \in Nat
        BY SlotsAssumption, FS_Subset, FS_CardinalityType
    <1>2. Len(seats) + Cardinality(waiting) < MaxSeats
        BY DEF RoomLeft
    <1>. HIDE DEF waiting
    <1>. QED  BY <1>1, <1>2, SeatIds, BoundAssumption

(* What is there of the rows when they are not written.                     *)
LEMMA RowsKept ==
    ASSUME Inv, seats' = seats, now' = now,
           meeting'.status = "ENDED" => meeting.status = "ENDED"
    PROVE  SeatsFit' /\ OneRowEach'
    BY DEF Inv, SeatsFit, SeatFits, Seconds, OneRowEach

LEMMA MeetingKept ==
    ASSUME Inv, now' = now, meeting'.status = meeting.status,
           meeting'.started = meeting.started, meeting'.ended = meeting.ended,
           meeting'.duration = meeting.duration
    PROVE  MeetingFits'
    BY DEF Inv, MeetingFits, LiveHasStarted, DurationMatches

LEMMA LeaversKept ==
    ASSUME Inv, seats' = seats, leaving' = leaving, now' = now
    PROVE  Leavers'
    BY DEF Inv, Leavers

(* A call starts when nothing else goes on, so it is the only one.          *)
LEMMA Begun ==
    ASSUME Serial, Inv, NEW j \in Task, Begin(j), Fits(j),
           UNCHANGED <<meeting, seats, online, leaving, now>>
    PROVE  Inv'
    <1>1. Quiet
        BY DEF Begin
    <1>2. PICK t \in Slots : task' = [task EXCEPT ![t] = j]
        BY DEF Begin
    <1>3. task' \in [Slots -> Task \cup {None}] /\ task'[t] = j
          /\ \A s \in Slots : s # t => task'[s] = None
        BY <1>1, <1>2 DEF Inv, TypeOK, Quiet, Idle
    <1>4. Fits(j)'
        BY DEF Fits, AsRead, MaySit, MayEnd, MayKick, SeatsOf
    <1>5. OneCall'
        BY <1>1, <1>3, <1>4 DEF OneCall, Idle, Quiet
    <1>6. TypeOK'
        BY <1>3 DEF Inv, TypeOK
    <1>. QED  BY <1>5, <1>6, RowsKept, MeetingKept, LeaversKept DEF Inv

(* The call that waits, when it is answered: it goes on as j, or ends.      *)
LEMMA Turn ==
    ASSUME Inv, NEW t \in Slots, ~Idle(t)
    PROVE  task[t] \in Task /\ Fits(task[t]) /\ \A i \in Ids : leaving[i] = None
    BY DEF Inv, TypeOK, OneCall, Idle

LEMMA Advanced ==
    ASSUME Inv, NEW t \in Slots, ~Idle(t), NEW j \in Task,
           Becomes(t, j), leaving' = leaving, Fits(j)'
    PROVE  task' \in [Slots -> Task \cup {None}] /\ OneCall'
    <1>1. \A s \in Slots : s # t => task[s] = None
        BY DEF Inv, OneCall, Idle
    <1>2. task' \in [Slots -> Task \cup {None}] /\ task'[t] = j
          /\ \A s \in Slots : s # t => task'[s] = None
        BY <1>1 DEF Inv, TypeOK, Becomes
    <1>. QED  BY <1>2, Turn DEF OneCall, Idle

LEMMA Finished ==
    ASSUME Inv, NEW t \in Slots, ~Idle(t), Finish(t)
    PROVE  task' \in [Slots -> Task \cup {None}] /\ OneCall'
    <1>1. \A s \in Slots : s # t => task[s] = None
        BY DEF Inv, OneCall, Idle
    <1>2. task' \in [Slots -> Task \cup {None}] /\ \A s \in Slots : task'[s] = None
        BY <1>1 DEF Inv, TypeOK, Finish
    <1>. QED  BY <1>2 DEF OneCall, Idle

-----------------------------------------------------------------------------
(* The calls that start.                                                    *)
LEMMA JoinAsGuestInv ==
    ASSUME Serial, Inv, NEW secret \in BOOLEAN, JoinAsGuest(secret)
    PROVE  Inv'
    <1>1. PICK j \in Task :
              /\ j = NewTask("sit", None, 0, None)
              /\ j.stage = "sit" /\ j.m = meeting /\ j.user = None /\ j.id = 0
              /\ j.at = now /\ j.change = None
        BY NewTaskTyped, Nobody DEF Inv
    <1>2. Len(seats) < MaxSeats
        BY RoomCounts DEF JoinAsGuest, Inv
    <1>3. Fits(j)
        BY <1>1, <1>2, SeatIds DEF JoinAsGuest, Joinable, Fits, AsRead, MaySit, Inv
    <1>. QED  BY <1>1, <1>3, Begun DEF JoinAsGuest

LEMMA JoinAsRegisteredInv ==
    ASSUME Serial, Inv, NEW u \in Users, JoinAsRegistered(u)
    PROVE  Inv'
    <1>1. PICK j \in Task :
              /\ j = NewTask("lookup", u, 0, None)
              /\ j.stage = "lookup" /\ j.m = meeting /\ j.user = u /\ j.id = 0
              /\ j.at = now /\ j.change = None
        BY NewTaskTyped, Nobody DEF Inv
    <1>2. SeatsOf(u) # {} \/ Len(seats) < MaxSeats
        BY RoomCounts DEF JoinAsRegistered, Inv
    <1>3. Fits(j)
        BY <1>1, <1>2, SeatIds DEF JoinAsRegistered, Joinable, Fits, AsRead, Inv
    <1>. QED  BY <1>1, <1>3, Begun DEF JoinAsRegistered

LEMMA EndInv ==
    ASSUME Serial, Inv, NEW u \in Users, End(u)
    PROVE  Inv'
    <1>1. PICK j \in Task :
              /\ j = NewTask("list", None, 0, None)
              /\ j.stage = "list" /\ j.m = meeting /\ j.user = None /\ j.id = 0
              /\ j.at = now /\ j.change = None
        BY NewTaskTyped, Nobody DEF Inv
    <1>2. Fits(j)
        BY <1>1, SeatIds DEF End, Fits, AsRead, MayEnd, Inv, MeetingFits
    <1>. QED  BY <1>1, <1>2, Begun DEF End

LEMMA SweepInv ==
    ASSUME Serial, Inv, Sweep
    PROVE  Inv'
    <1>1. PICK j \in Task :
              /\ j = NewTask("presence", None, 0, None)
              /\ j.stage = "presence" /\ j.m = meeting /\ j.user = None /\ j.id = 0
              /\ j.at = now /\ j.change = None
        BY NewTaskTyped, Nobody DEF Inv
    <1>2. Fits(j)
        BY <1>1, SeatIds DEF Sweep, Candidate, Fits, AsRead, Inv
    <1>. QED  BY <1>1, <1>2, Begun DEF Sweep

LEMMA KickInv ==
    ASSUME Serial, Inv, NEW u \in Users, NEW i \in Ids, Kick(u, i)
    PROVE  Inv'
    <1>1. PICK j \in Task :
              /\ j = NewTask("target", None, i, None)
              /\ j.stage = "target" /\ j.m = meeting /\ j.user = None /\ j.id = i
              /\ j.at = now /\ j.change = None
        BY NewTaskTyped, Nobody, BoundAssumption DEF Inv, Ids
    <1>2. Fits(j)
        BY <1>1, SeatIds DEF Kick, Fits, AsRead, MayKick, Inv
    <1>. QED  BY <1>1, <1>2, Begun DEF Kick

LEMMA SetGateInv ==
    ASSUME Serial, Inv, NEW u \in Users, NEW g \in Gates, NEW on \in BOOLEAN, SetGate(u, g, on)
    PROVE  Inv'
    <1>1. PICK j \in Task :
              /\ j = NewTask("gate", None, 0, <<g, on>>)
              /\ j.stage = "gate" /\ j.m = meeting /\ j.user = None /\ j.id = 0
              /\ j.at = now /\ j.change = <<g, on>>
        BY NewTaskTyped, Nobody DEF Inv
    <1>2. <<g, on>> # None
        BY NoneAssumption
    <1>3. Fits(j)
        BY <1>1, <1>2, SeatIds DEF SetGate, Fits, AsRead, Inv
    <1>. QED  BY <1>1, <1>3, Begun DEF SetGate

-----------------------------------------------------------------------------
(* What other steps leave of the call that waits and of the rows.           *)
LEMMA CallsKept ==
    ASSUME Inv, task' = task, leaving' = leaving, seats' = seats, now' \in Nat, now <= now',
           meeting'.status = meeting.status, meeting'.started = meeting.started,
           meeting'.gates = meeting.gates
    PROVE  OneCall'
    <1>1. \A j \in Task : Fits(j) => Fits(j)'
        <2>. SUFFICES ASSUME NEW j \in Task, Fits(j) PROVE Fits(j)'
            OBVIOUS
        <2>1. j.at \in Nat /\ now \in Nat
            BY SeatIds DEF Inv, Task, Time
        <2>2. j.at <= now'
            BY <2>1 DEF Fits
        <2>. QED  BY <2>2 DEF Fits, AsRead, MaySit, MayEnd, MayKick, SeatsOf
    <1>. QED  BY <1>1, Turn DEF Inv, OneCall, Idle

LEMMA NobodyCalls ==
    ASSUME Inv, NEW i \in Ids, leaving[i] # None
    PROVE  \A t \in Slots : Idle(t)
    BY DEF Inv, OneCall

LEMMA NoCalls ==
    ASSUME \A t \in Slots : Idle(t), task' = task
    PROVE  OneCall'
    BY DEF OneCall, Idle

(* Row k is replaced by r.                                                  *)
LEMMA RowReplaced ==
    ASSUME Inv, NEW k \in DOMAIN seats, NEW r \in Seat, seats' = [seats EXCEPT ![k] = r],
           r.user = seats[k].user, now' = now,
           meeting'.status = "ENDED" => meeting.status = "ENDED",
           r.total + Seconds(r, now) <= now - r.joined,
           r.kicked => r.last = None,
           meeting.status = "ENDED" => r.last = None
    PROVE  /\ seats' \in Seq(Seat) /\ Len(seats') = Len(seats) /\ DOMAIN seats' = DOMAIN seats
           /\ SeatsFit' /\ OneRowEach'
    <1>1. /\ seats' \in Seq(Seat) /\ Len(seats') = Len(seats) /\ DOMAIN seats' = DOMAIN seats
          /\ seats'[k] = r /\ \A i \in DOMAIN seats : i # k => seats'[i] = seats[i]
        BY RowChanged DEF Inv, TypeOK
    <1>2. ASSUME NEW i \in DOMAIN seats PROVE SeatFits(i)'
        <2>1. CASE i = k
            BY <1>1, <2>1 DEF SeatFits, Seconds
        <2>2. CASE i # k
            BY <1>1, <2>2 DEF Inv, SeatsFit, SeatFits, Seconds
        <2>. QED  BY <2>1, <2>2
    <1>3. \A i \in DOMAIN seats : seats'[i].user = seats[i].user
        BY <1>1
    <1>4. OneRowEach'
        BY <1>1, <1>3 DEF Inv, OneRowEach
    <1>. QED  BY <1>1, <1>2, <1>4 DEF SeatsFit

LEMMA ClosedFits ==
    ASSUME Inv, NEW i \in DOMAIN seats, NEW at \in Time, at <= now
    PROVE  \E r \in Seat :
               /\ r = Closed(i, seats[i], at)
               /\ r.last = None /\ r.user = seats[i].user /\ r.kicked = seats[i].kicked
               /\ r.total + Seconds(r, now) <= now - r.joined
    <1>1. PICK r \in Seat : r = Closed(i, seats[i], at)
        BY ClosedRow DEF Inv
    <1>2. /\ r.last = None /\ r.user = seats[i].user /\ r.joined = seats[i].joined
          /\ r.kicked = seats[i].kicked /\ r.total = seats[i].total + Seconds(seats[i], at)
        BY <1>1, ClosedRow DEF Inv
    <1>3. seats[i] \in Seat /\ now \in Time /\ now \in Nat
        BY SeatIds DEF Inv
    <1>4. Seconds(r, now) = 0
        BY <1>2, <1>3, SecondsGrow
    <1>5. PICK x \in Nat : x = Seconds(seats[i], at)
        BY <1>3, SecondsGrow
    <1>6. PICK y \in Nat : y = Seconds(seats[i], now)
        BY <1>3, SecondsGrow
    <1>7. x <= y
        BY <1>3, <1>5, <1>6, SecondsGrow
    <1>8. seats[i].total \in Nat /\ seats[i].joined \in Nat
        BY <1>3 DEF Seat, Time
    <1>9. seats[i].total + y <= now - seats[i].joined
        BY <1>6 DEF Inv, SeatsFit, SeatFits
    <1>10. seats[i].total + x + 0 <= now - seats[i].joined
        BY <1>3, <1>7, <1>8, <1>9
    <1>. QED  BY <1>1, <1>2, <1>4, <1>5, <1>10

-----------------------------------------------------------------------------
(* The clock, who enters and who leaves, and the lifted kick.               *)
LEMMA TickInv ==
    ASSUME Inv, Tick
    PROVE  Inv'
    <1>1. /\ now \in Nat /\ now \in Time /\ now' = now + 1 /\ now' \in Time
          /\ seats' = seats /\ meeting' = meeting /\ leaving' = leaving
        BY SeatIds, BoundAssumption DEF Tick, Inv, Time
    <1>2. TypeOK'
        BY <1>1 DEF Tick, Inv, TypeOK
    <1>3. OneCall'
        BY <1>1, CallsKept DEF Tick
    <1>4. Leavers'
        <2>1. \A i \in Ids : leaving[i] # None => leaving[i].at \in Nat
            BY DEF Inv, TypeOK, Leaver, Time
        <2>. QED  BY <1>1, <2>1 DEF Inv, Leavers
    <1>5. ASSUME NEW i \in DOMAIN seats PROVE SeatFits(i)'
        <2>1. seats[i] \in Seat
            BY SeatIds DEF Inv
        <2>2. PICK x \in Nat : x = Seconds(seats[i], now)
            BY <1>1, <2>1, SecondsGrow
        <2>3. Seconds(seats[i], now + 1) \in Nat /\ Seconds(seats[i], now + 1) <= x + 1
            BY <1>1, <2>1, <2>2, SecondsGrow
        <2>4. seats[i].total \in Nat /\ seats[i].joined \in Nat
            BY <2>1 DEF Seat, Time
        <2>5. seats[i].total + Seconds(seats[i], now + 1) <= now + 1 - seats[i].joined
            BY <1>1, <2>2, <2>3, <2>4 DEF Inv, SeatsFit, SeatFits
        <2>6. Seconds(seats[i], now)' = Seconds(seats[i], now + 1)
            BY <1>1 DEF Seconds
        <2>7. (seats[i].total + Seconds(seats[i], now) <= now - seats[i].joined)'
            BY <1>1, <2>3, <2>4, <2>5, <2>6
        <2>8. (seats[i].kicked => seats[i].last = None)'
              /\ (meeting.status = "ENDED" => seats[i].last = None)'
            BY <1>1 DEF Inv, SeatsFit, SeatFits
        <2>. QED  BY <2>7, <2>8 DEF SeatFits
    <1>6. SeatsFit' /\ OneRowEach'
        BY <1>1, <1>5 DEF Inv, SeatsFit, OneRowEach
    <1>7. MeetingFits'
        <2>1. meeting.started # None => meeting.started \in Nat
            BY DEF Inv, TypeOK, Meeting, Time
        <2>. QED  BY <1>1, <2>1 DEF Inv, MeetingFits, LiveHasStarted, DurationMatches
    <1>. QED  BY <1>2, <1>3, <1>4, <1>6, <1>7 DEF Inv

(* A newer activity is all that changes in the row of the meeting.          *)
LEMMA Active ==
    ASSUME Inv, NEW at \in Time, meeting' = [meeting EXCEPT !.active = at]
    PROVE  /\ meeting' \in Meeting
           /\ meeting'.status = meeting.status /\ meeting'.started = meeting.started
           /\ meeting'.ended = meeting.ended /\ meeting'.duration = meeting.duration
           /\ meeting'.gates = meeting.gates
    BY DEF Inv, TypeOK, Meeting

LEMMA EnterInv ==
    ASSUME Inv, NEW i \in Ids, Enter(i)
    PROVE  Inv'
    <1>1. /\ meeting' \in Meeting
          /\ meeting'.status = meeting.status /\ meeting'.started = meeting.started
          /\ meeting'.ended = meeting.ended /\ meeting'.duration = meeting.duration
          /\ meeting'.gates = meeting.gates
        BY Active, SeatIds DEF Enter, Inv
    <1>2. now \in Nat /\ UNCHANGED <<seats, leaving, task, now>>
        BY SeatIds DEF Enter, Inv
    <1>3. TypeOK'
        BY <1>1, <1>2 DEF Enter, Inv, TypeOK
    <1>4. OneCall' /\ Leavers'
        BY <1>1, <1>2, CallsKept, LeaversKept
    <1>5. SeatsFit' /\ OneRowEach' /\ MeetingFits'
        BY <1>1, <1>2, RowsKept, MeetingKept
    <1>. QED  BY <1>3, <1>4, <1>5 DEF Inv

LEMMA LeavingTyped == Leaving \in Leaver /\ Leaving.row = None
    BY BoundAssumption DEF Leaving, Leaver, Time

LEMMA ExitInv ==
    ASSUME Serial, Inv, NEW i \in Ids, Exit(i)
    PROVE  Inv'
    <1>1. /\ \A t \in Slots : Idle(t)
          /\ UNCHANGED <<meeting, seats, task, now>> /\ i \in DOMAIN seats
        BY DEF Exit, Quiet, Inv, TypeOK
    <1>2. leaving' = [leaving EXCEPT ![i] = Leaving] /\ online' = online \ {i}
        BY DEF Exit
    <1>3. TypeOK'
        BY <1>1, <1>2, LeavingTyped DEF Inv, TypeOK
    <1>4. OneCall'
        BY <1>1, NoCalls
    <1>5. Leavers'
        BY <1>1, <1>2, LeavingTyped DEF Inv, TypeOK, Leavers
    <1>. QED  BY <1>1, <1>3, <1>4, <1>5, RowsKept, MeetingKept DEF Inv

LEMMA ReadLeaverInv ==
    ASSUME Inv, NEW i \in Ids, ReadLeaver(i)
    PROVE  Inv'
    <1>1. /\ \A t \in Slots : Idle(t)
          /\ UNCHANGED <<meeting, seats, online, task, now>>
        BY NobodyCalls DEF ReadLeaver
    <1>2. i \in DOMAIN seats /\ now \in Time /\ now \in Nat /\ seats[i] \in Seat
        BY SeatIds DEF ReadLeaver, Inv, Leavers
    <1>3. PICK l \in Leaver : l = [row |-> seats[i], at |-> now]
        BY <1>2 DEF Leaver
    <1>4. leaving' = [leaving EXCEPT ![i] = l] /\ l.row = seats[i] /\ l.at = now
        BY <1>3 DEF ReadLeaver
    <1>5. TypeOK'
        BY <1>1, <1>4 DEF Inv, TypeOK
    <1>6. Leavers'
        BY <1>1, <1>2, <1>4 DEF Inv, TypeOK, Leavers
    <1>. QED  BY <1>1, <1>5, <1>6, NoCalls, RowsKept, MeetingKept DEF Inv

LEMMA WriteLeaverInv ==
    ASSUME Inv, NEW i \in Ids, WriteLeaver(i)
    PROVE  Inv'
    <1>1. /\ \A t \in Slots : Idle(t)
          /\ UNCHANGED <<online, task, now>>
        BY NobodyCalls DEF WriteLeaver
    <1>2. /\ i \in DOMAIN seats /\ leaving[i].row = seats[i]
          /\ leaving[i].at \in Time /\ leaving[i].at <= now
        BY DEF WriteLeaver, Inv, TypeOK, Leavers, Leaver
    <1>3. PICK r \in Seat :
              /\ r = Closed(i, seats[i], leaving[i].at)
              /\ r.last = None /\ r.user = seats[i].user /\ r.kicked = seats[i].kicked
              /\ r.total + Seconds(r, now) <= now - r.joined
        BY <1>2, ClosedFits
    <1>4. seats' = [seats EXCEPT ![i] = r]
        BY <1>2, <1>3 DEF WriteLeaver
    <1>5. /\ meeting' \in Meeting
          /\ meeting'.status = meeting.status /\ meeting'.started = meeting.started
          /\ meeting'.ended = meeting.ended /\ meeting'.duration = meeting.duration
        BY <1>2, Active DEF WriteLeaver
    <1>6. /\ seats' \in Seq(Seat) /\ Len(seats') = Len(seats) /\ DOMAIN seats' = DOMAIN seats
          /\ SeatsFit' /\ OneRowEach'
        BY <1>1, <1>2, <1>3, <1>4, <1>5, RowReplaced
    <1>7. leaving' = [leaving EXCEPT ![i] = None]
        BY DEF WriteLeaver
    <1>8. TypeOK'
        BY <1>1, <1>5, <1>6, <1>7 DEF Inv, TypeOK
    <1>9. \A k \in DOMAIN seats : k # i => seats'[k] = seats[k]
        BY <1>2, <1>3, <1>4, RowChanged DEF Inv, TypeOK
    <1>10. Leavers'
        BY <1>1, <1>6, <1>7, <1>9 DEF Inv, TypeOK, Leavers
    <1>. QED  BY <1>1, <1>5, <1>6, <1>8, <1>10, NoCalls, MeetingKept DEF Inv

LEMMA ApproveInv ==
    ASSUME Serial, Inv, NEW u \in Users, NEW i \in Ids, Approve(u, i)
    PROVE  Inv'
    <1>1. /\ \A t \in Slots : Idle(t)
          /\ \A k \in Ids : leaving[k] = None
          /\ UNCHANGED <<meeting, online, leaving, task, now>>
        BY DEF Approve, Quiet
    <1>2. /\ i \in DOMAIN seats /\ seats[i].kicked /\ seats[i] \in Seat
          /\ seats' = [seats EXCEPT ![i] = [seats[i] EXCEPT !.kicked = FALSE, !.left = FALSE]]
        BY SeatIds DEF Approve, Inv
    <1>3. PICK r \in Seat : r = [seats[i] EXCEPT !.kicked = FALSE, !.left = FALSE]
        BY <1>2 DEF Seat
    <1>4. /\ r.user = seats[i].user /\ r.total = seats[i].total /\ r.joined = seats[i].joined
          /\ r.last = seats[i].last /\ ~r.kicked
        BY <1>2, <1>3 DEF Seat
    <1>5. SeatFits(i)
        BY <1>2 DEF Inv, SeatsFit
    <1>6. r.total + Seconds(r, now) <= now - r.joined
        BY <1>4, <1>5 DEF SeatFits, Seconds
    <1>7. /\ seats' \in Seq(Seat) /\ Len(seats') = Len(seats) /\ DOMAIN seats' = DOMAIN seats
          /\ SeatsFit' /\ OneRowEach'
        BY <1>1, <1>2, <1>3, <1>4, <1>5, <1>6, RowReplaced DEF SeatFits
    <1>8. TypeOK'
        BY <1>1, <1>7 DEF Inv, TypeOK
    <1>9. Leavers'
        BY <1>1 DEF Leavers
    <1>. QED  BY <1>1, <1>7, <1>8, <1>9, NoCalls, MeetingKept DEF Inv

-----------------------------------------------------------------------------
(* The answers of Postgres.                                                 *)

(* A statement that only moves the call on.                                 *)
LEMMA OnlyAdvanced ==
    ASSUME Inv, NEW t \in Slots, ~Idle(t), NEW j \in Task,
           Becomes(t, j), Fits(j),
           UNCHANGED <<meeting, seats, online, leaving, now>>
    PROVE  Inv'
    <1>1. Fits(j)'
        BY DEF Fits, AsRead, MaySit, MayEnd, MayKick, SeatsOf
    <1>2. task' \in [Slots -> Task \cup {None}] /\ OneCall'
        BY <1>1, Advanced
    <1>3. TypeOK'
        BY <1>2 DEF Inv, TypeOK
    <1>. QED  BY <1>2, <1>3, RowsKept, MeetingKept, LeaversKept DEF Inv

LEMMA OnlyFinished ==
    ASSUME Inv, NEW t \in Slots, ~Idle(t), Finish(t),
           UNCHANGED <<meeting, seats, online, leaving, now>>
    PROVE  Inv'
    <1>1. task' \in [Slots -> Task \cup {None}] /\ OneCall'
        BY Finished
    <1>2. TypeOK'
        BY <1>1 DEF Inv, TypeOK
    <1>. QED  BY <1>1, <1>2, RowsKept, MeetingKept, LeaversKept DEF Inv

LEMMA LookupInv ==
    ASSUME Inv, NEW t \in Slots, NEW secret \in BOOLEAN, Lookup(t, secret)
    PROVE  Inv'
    <1>. DEFINE k == task[t]
    <1>1. ~Idle(t) /\ k \in Task /\ Fits(k) /\ k.stage = "lookup"
        BY Turn DEF Lookup, At
    <1>2. UNCHANGED <<meeting, seats, online, leaving, now>>
        BY DEF Lookup
    <1>3. PICK i \in Existing(k.user) :
              /\ Admitted(k.user, i, k.m, secret) =>
                     Becomes(t, [k EXCEPT !.stage = "sit", !.id = i, !.at = now])
              /\ ~Admitted(k.user, i, k.m, secret) => Finish(t)
        BY Zenon DEF Lookup
    <1>. HIDE DEF k
    <1>4. CASE Admitted(k.user, i, k.m, secret)
        <2>1. i \in 0 .. MaxSeats /\ now \in Time /\ now \in Nat
            BY SeatIds, BoundAssumption DEF Existing, SeatsOf, Inv
        <2>2. PICK j \in Task : j = [k EXCEPT !.stage = "sit", !.id = i, !.at = now]
            BY <1>1, <2>1 DEF Task, Stages
        <2>3. j.stage = "sit" /\ j.id = i /\ j.at = now /\ j.user = k.user /\ j.m = k.m
            BY <1>1, <2>2 DEF Task
        <2>4. /\ AsRead(k.m) /\ k.user \in Users
              /\ SeatsOf(k.user) # {} \/ Len(seats) < MaxSeats
            BY <1>1 DEF Fits
        <2>5. MaySit(j)
            <3>1. CASE i = 0
                <4>1. SeatsOf(k.user) = {}
                    BY <3>1, SeatIds DEF Existing, SeatsOf, Inv
                <4>2. k.user \in {Host} \cup Admins \/ "lock" \notin k.m.gates
                    BY <1>4, <3>1 DEF Admitted
                <4>. QED  BY <2>3, <2>4, <3>1, <4>1, <4>2 DEF MaySit
            <3>2. CASE i # 0
                <4>1. i \in DOMAIN seats
                    BY <3>2 DEF Existing, SeatsOf
                <4>2. ~seats[i].kicked
                    BY <1>4, <3>2 DEF Admitted
                <4>3. seats[i] \in Seat /\ SeatFits(i)
                    BY <4>1, SeatIds DEF Inv, SeatsFit
                <4>4. PICK x \in Nat : x = Seconds(seats[i], now)
                    BY <2>1, <4>3, SecondsGrow
                <4>5. seats[i].total \in Nat /\ seats[i].joined \in Nat
                    BY <4>3 DEF Seat, Time
                <4>6. seats[i].total + x <= now - seats[i].joined
                    BY <4>3, <4>4 DEF SeatFits
                <4>7. seats[i].total <= now - seats[i].joined
                    BY <2>1, <4>5, <4>6
                <4>. QED  BY <2>3, <3>2, <4>1, <4>2, <4>7 DEF MaySit
            <3>. QED  BY <3>1, <3>2
        <2>6. Fits(j)
            BY <2>1, <2>3, <2>4, <2>5 DEF Fits
        <2>. QED  BY <1>1, <1>2, <1>3, <1>4, <2>2, <2>6, OnlyAdvanced
    <1>5. CASE ~Admitted(k.user, i, k.m, secret)
        BY <1>1, <1>2, <1>3, <1>5, OnlyFinished
    <1>. QED  BY <1>4, <1>5

(* What a join makes of the row it takes.                                   *)
LEMMA SitInv ==
    ASSUME Inv, NEW t \in Slots, Sit(t)
    PROVE  Inv'
    <1>. DEFINE k == task[t]
    <1>1. ~Idle(t) /\ k \in Task /\ Fits(k) /\ k.stage = "sit"
        BY Turn DEF Sit, At
    <1>2. UNCHANGED <<meeting, online, leaving, now>>
        BY DEF Sit
    <1>3. /\ IF k.id = 0
             THEN seats' = Append(seats, [user |-> k.user, joined |-> k.at, last |-> k.at,
                                  left |-> FALSE, total |-> 0, kicked |-> FALSE])
             ELSE seats' = [seats EXCEPT ![k.id] = [seats[k.id] EXCEPT !.left = FALSE, !.last = k.at]]
          /\ Becomes(t, [k EXCEPT !.stage = "touch",
                                  !.id = IF k.id = 0 THEN Len(seats) + 1 ELSE k.id])
        BY DEF Sit
    <1>. HIDE DEF k
    <1>4. /\ AsRead(k.m) /\ k.at <= now /\ MaySit(k)
          /\ k.at \in Time /\ k.at \in Nat /\ k.user \in Users \cup {None} /\ k.id \in 0 .. MaxSeats
          /\ now \in Time /\ now \in Nat
        BY <1>1, SeatIds DEF Fits, Task, Time, Inv
    <1>5. /\ seats' \in Seq(Seat) /\ Len(seats') <= MaxSeats /\ DOMAIN seats \subseteq DOMAIN seats'
          /\ SeatsFit' /\ OneRowEach'
        <2>1. CASE k.id = 0
            <3>1. PICK r \in Seat : r = [user |-> k.user, joined |-> k.at, last |-> k.at,
                                         left |-> FALSE, total |-> 0, kicked |-> FALSE]
                BY <1>4 DEF Seat
            <3>2. r.user = k.user /\ r.joined = k.at /\ r.last = k.at /\ r.total = 0 /\ ~r.kicked
                BY <3>1
            <3>3. seats' = Append(seats, r)
                BY <1>3, <2>1, <3>1
            <3>4. /\ seats' \in Seq(Seat) /\ Len(seats') = Len(seats) + 1
                  /\ DOMAIN seats' = DOMAIN seats \cup {Len(seats) + 1}
                  /\ Len(seats) + 1 \notin DOMAIN seats
                  /\ seats'[Len(seats) + 1] = r /\ Len(seats) \in Nat
                  /\ \A i \in DOMAIN seats : seats'[i] = seats[i]
                BY <3>3, RowAdded DEF Inv, TypeOK
            <3>5. Len(seats) < MaxSeats /\ (k.user # None => SeatsOf(k.user) = {})
                BY <1>4, <2>1 DEF MaySit
            <3>6. Len(seats') <= MaxSeats
                BY <3>4, <3>5, BoundAssumption
            <3>7. Seconds(r, now) = now - k.at
                BY <1>4, <3>2, SecondsGrow
            <3>8. r.total + Seconds(r, now) <= now - r.joined
                BY <1>4, <3>2, <3>7
            <3>9. meeting.status # "ENDED"
                BY <1>4 DEF AsRead
            <3>10. ASSUME NEW i \in DOMAIN seats' PROVE SeatFits(i)'
                <4>1. CASE i \in DOMAIN seats
                    BY <1>2, <3>4, <4>1 DEF Inv, SeatsFit, SeatFits, Seconds
                <4>2. CASE i = Len(seats) + 1
                    <5>1. (seats[i].total + Seconds(seats[i], now) <= now - seats[i].joined)'
                        BY <1>2, <3>4, <3>8, <4>2
                    <5>. QED  BY <1>2, <3>2, <3>4, <3>9, <4>2, <5>1 DEF SeatFits
                <4>. QED  BY <3>4, <4>1, <4>2
            <3>11. OneRowEach'
                <4>1. \A i \in DOMAIN seats : k.user # None => seats[i].user # k.user
                    BY <3>5 DEF SeatsOf
                <4>. QED  BY <3>2, <3>4, <4>1 DEF Inv, OneRowEach
            <3>. QED  BY <3>4, <3>6, <3>10, <3>11 DEF SeatsFit
        <2>2. CASE k.id # 0
            <3>1. /\ k.id \in DOMAIN seats /\ ~seats[k.id].kicked
                  /\ seats[k.id].total <= k.at - seats[k.id].joined
                BY <1>4, <2>2 DEF MaySit
            <3>2. seats[k.id] \in Seat
                BY <3>1, SeatIds DEF Inv
            <3>3. PICK r \in Seat : r = [seats[k.id] EXCEPT !.left = FALSE, !.last = k.at]
                BY <1>4, <3>2 DEF Seat
            <3>4. /\ r.user = seats[k.id].user /\ r.joined = seats[k.id].joined
                  /\ r.last = k.at /\ r.total = seats[k.id].total /\ ~r.kicked
                BY <3>1, <3>2, <3>3 DEF Seat
            <3>5. seats' = [seats EXCEPT ![k.id] = r]
                BY <1>3, <2>2, <3>3
            <3>6. Seconds(r, now) = now - k.at
                BY <1>4, <3>4, SecondsGrow
            <3>7. r.total \in Nat /\ r.joined \in Nat
                BY DEF Seat, Time
            <3>8. r.total + Seconds(r, now) <= now - r.joined
                BY <1>4, <3>1, <3>4, <3>6, <3>7
            <3>9. meeting.status # "ENDED"
                BY <1>4 DEF AsRead
            <3>10. /\ seats' \in Seq(Seat) /\ Len(seats') = Len(seats) /\ DOMAIN seats' = DOMAIN seats
                   /\ SeatsFit' /\ OneRowEach'
                BY <1>2, <3>1, <3>4, <3>5, <3>8, <3>9, RowReplaced
            <3>. QED  BY <3>10, SeatIds DEF Inv
        <2>. QED  BY <2>1, <2>2
    <1>6. PICK id \in 0 .. MaxSeats : id = IF k.id = 0 THEN Len(seats) + 1 ELSE k.id
        <2>1. k.id = 0 => Len(seats) < MaxSeats
            BY <1>4 DEF MaySit
        <2>2. k.id = 0 => Len(seats) + 1 \in 0 .. MaxSeats
            BY <2>1, SeatIds, BoundAssumption DEF Inv
        <2>. QED  BY <1>4, <2>2
    <1>7. PICK j \in Task : j = [k EXCEPT !.stage = "touch", !.id = id]
        BY <1>1 DEF Task, Stages
    <1>8. j.stage = "touch" /\ j.m = k.m /\ j.at = k.at
        BY <1>1, <1>7 DEF Task
    <1>9. Fits(j)'
        BY <1>2, <1>4, <1>8 DEF Fits, AsRead
    <1>10. Becomes(t, j)
        BY <1>3, <1>6, <1>7
    <1>11. task' \in [Slots -> Task \cup {None}] /\ OneCall'
        BY <1>1, <1>2, <1>9, <1>10, Advanced
    <1>12. Leavers'
        BY <1>1, <1>2, Turn DEF Leavers
    <1>13. TypeOK'
        BY <1>2, <1>5, <1>11 DEF Inv, TypeOK
    <1>. QED  BY <1>2, <1>5, <1>11, <1>12, <1>13, MeetingKept DEF Inv

-----------------------------------------------------------------------------
LEMMA TouchInv ==
    ASSUME Inv, NEW t \in Slots, Touch(t)
    PROVE  Inv'
    <1>. DEFINE k == task[t]
    <1>1. ~Idle(t) /\ k \in Task /\ Fits(k) /\ k.stage = "touch"
        BY Turn DEF Touch, At
    <1>2. UNCHANGED <<seats, online, leaving, now>> /\ Finish(t)
        BY DEF Touch
    <1>3. meeting' = IF k.m.status = "SCHEDULED" /\ k.user = Host THEN Opened(k) ELSE Touched(k)
        BY DEF Touch
    <1>. HIDE DEF k
    <1>4. /\ k.m.status = meeting.status /\ meeting.status # "ENDED"
          /\ k.m.started = meeting.started /\ k.at <= now
          /\ k.at \in Time /\ k.at \in Nat /\ meeting \in Meeting
        BY <1>1 DEF Fits, AsRead, Task, Time, Inv, TypeOK
    <1>5. OrElse(meeting.started, k.at) \in Time
        BY <1>4 DEF OrElse, Meeting
    <1>6. /\ meeting' \in Meeting /\ meeting'.status # "ENDED"
          /\ meeting'.started \in {meeting.started, OrElse(meeting.started, k.at)}
          /\ meeting'.status = "LIVE" => meeting'.started = OrElse(meeting.started, k.at)
        <2>1. CASE k.m.status = "SCHEDULED" /\ k.user = Host
            BY <1>3, <1>4, <1>5, <2>1 DEF Opened, Meeting, Statuses
        <2>2. CASE ~(k.m.status = "SCHEDULED" /\ k.user = Host) /\ k.user = None
            BY <1>3, <1>4, <1>5, <2>2 DEF Touched, Meeting, Statuses
        <2>3. CASE ~(k.m.status = "SCHEDULED" /\ k.user = Host) /\ k.user # None
            BY <1>3, <1>4, <1>5, <2>3 DEF Touched, Meeting, Statuses
        <2>. QED  BY <2>1, <2>2, <2>3
    <1>7. meeting'.started # None => meeting'.started <= now
        BY <1>4, <1>6 DEF OrElse, Inv, MeetingFits
    <1>8. MeetingFits'
        BY <1>2, <1>5, <1>6, <1>7, NoneAssumption DEF MeetingFits, LiveHasStarted, DurationMatches
    <1>9. task' \in [Slots -> Task \cup {None}] /\ OneCall'
        BY <1>1, <1>2, Finished
    <1>10. TypeOK'
        BY <1>2, <1>6, <1>9 DEF Inv, TypeOK
    <1>. QED  BY <1>2, <1>6, <1>8, <1>9, <1>10, RowsKept, LeaversKept DEF Inv

LEMMA AskPresenceInv ==
    ASSUME Inv, NEW t \in Slots, AskPresence(t)
    PROVE  Inv'
    <1>. DEFINE k == task[t]
    <1>1. ~Idle(t) /\ k \in Task /\ Fits(k) /\ k.stage = "presence"
        BY Turn DEF AskPresence, At
    <1>2. UNCHANGED <<meeting, seats, online, leaving, now>>
        BY DEF AskPresence
    <1>3. PICK stage \in {"refresh", "list"} :
              Becomes(t, [k EXCEPT !.stage = stage, !.at = now])
        BY DEF AskPresence
    <1>. HIDE DEF k
    <1>4. now \in Time /\ now \in Nat /\ AsRead(k.m)
        BY <1>1, SeatIds DEF Fits, Inv
    <1>5. PICK j \in Task : j = [k EXCEPT !.stage = stage, !.at = now]
        BY <1>1, <1>4 DEF Task, Stages
    <1>6. j.stage = stage /\ j.at = now /\ j.m = k.m
        BY <1>1, <1>5 DEF Task
    <1>7. j.m.started # None => j.m.started <= now
        BY <1>4, <1>6 DEF AsRead, Inv, MeetingFits
    <1>8. Fits(j)
        BY <1>4, <1>6, <1>7 DEF Fits, MayEnd
    <1>. QED  BY <1>1, <1>2, <1>3, <1>5, <1>8, OnlyAdvanced

LEMMA RefreshInv ==
    ASSUME Inv, NEW t \in Slots, Refresh(t)
    PROVE  Inv'
    <1>1. ~Idle(t) /\ task[t] \in Task
        BY Turn DEF Refresh, At
    <1>2. UNCHANGED <<seats, online, leaving, now>> /\ Finish(t)
        BY DEF Refresh
    <1>3. PICK at \in Time : meeting' = [meeting EXCEPT !.active = at]
        BY <1>1 DEF Refresh, Task
    <1>4. /\ meeting' \in Meeting
          /\ meeting'.status = meeting.status /\ meeting'.started = meeting.started
          /\ meeting'.ended = meeting.ended /\ meeting'.duration = meeting.duration
        BY <1>3, Active
    <1>5. task' \in [Slots -> Task \cup {None}] /\ OneCall'
        BY <1>1, <1>2, Finished
    <1>6. TypeOK'
        BY <1>2, <1>4, <1>5 DEF Inv, TypeOK
    <1>. QED  BY <1>2, <1>4, <1>5, <1>6, RowsKept, MeetingKept, LeaversKept DEF Inv

LEMMA ListOpenInv ==
    ASSUME Inv, NEW t \in Slots, ListOpen(t)
    PROVE  Inv'
    <1>. DEFINE k == task[t]
                sessions == {i \in DOMAIN seats : seats[i].last # None}
    <1>1. ~Idle(t) /\ k \in Task /\ Fits(k) /\ k.stage = "list"
        BY Turn DEF ListOpen, At
    <1>2. UNCHANGED <<meeting, seats, online, leaving, now>>
        BY DEF ListOpen
    <1>3. Becomes(t, [k EXCEPT !.stage = "credit", !.rows = Read(sessions)])
        BY DEF ListOpen
    <1>. HIDE DEF k
    <1>4. /\ Read(sessions) \in [Ids -> Seat \cup {None}]
          /\ \A i \in DOMAIN seats :
                Read(sessions)[i] = IF seats[i].last # None THEN seats[i] ELSE None
        <2>1. sessions \in SUBSET DOMAIN seats
            OBVIOUS
        <2>2. \A i \in DOMAIN seats : i \in sessions <=> seats[i].last # None
            OBVIOUS
        <2>. HIDE DEF sessions
        <2>. QED  BY <2>1, <2>2, ReadTyped DEF Inv
    <1>. HIDE DEF sessions
    <1>5. PICK rows \in [Ids -> Seat \cup {None}] : rows = Read(sessions)
        BY <1>4
    <1>6. PICK j \in Task : j = [k EXCEPT !.stage = "credit", !.rows = rows]
        BY <1>1 DEF Task, Stages
    <1>7. j.stage = "credit" /\ j.at = k.at /\ j.m = k.m /\ j.rows = rows
        BY <1>1, <1>6 DEF Task
    <1>8. Fits(j)
        BY <1>1, <1>4, <1>5, <1>7 DEF Fits, MayEnd
    <1>. QED  BY <1>1, <1>2, <1>3, <1>5, <1>6, <1>8, OnlyAdvanced

(* What finalizing the open sessions makes of every row.                    *)
LEMMA CreditOpenInv ==
    ASSUME Inv, NEW t \in Slots, CreditOpen(t)
    PROVE  Inv'
    <1>. DEFINE k == task[t]
                new(i) == IF k.rows[i] # None THEN Closed(i, k.rows[i], k.at) ELSE seats[i]
    <1>1. ~Idle(t) /\ k \in Task /\ Fits(k) /\ k.stage = "credit"
        BY Turn DEF CreditOpen, At
    <1>2. UNCHANGED <<meeting, online, leaving, now>> /\ GoOn(t, "close")
        BY DEF CreditOpen
    <1>3. seats' = [i \in DOMAIN seats |-> new(i)]
        BY DEF CreditOpen
    <1>4. /\ k.at <= now /\ k.at \in Time /\ AsRead(k.m) /\ MayEnd(k)
          /\ now \in Time /\ now \in Nat
        BY <1>1, SeatIds DEF Fits, Task, Inv
    <1>5. ASSUME NEW i \in DOMAIN seats
          PROVE  /\ new(i) \in Seat /\ new(i).user = seats[i].user /\ new(i).last = None
                 /\ new(i).total + Seconds(new(i), now) <= now - new(i).joined
        <2>1. k.rows[i] = IF seats[i].last # None THEN seats[i] ELSE None
            BY <1>1, <1>4 DEF MayEnd
        <2>2. seats[i] \in Seat /\ seats[i] # None /\ SeatFits(i)
            BY SeatIds, NoneAssumption DEF Inv, SeatsFit
        <2>3. CASE seats[i].last = None
            <3>1. new(i) = seats[i]
                BY <2>1, <2>3
            <3>. QED  BY <2>2, <2>3, <3>1 DEF SeatFits
        <2>4. CASE seats[i].last # None
            <3>1. new(i) = Closed(i, seats[i], k.at)
                BY <2>1, <2>2, <2>4
            <3>2. PICK r \in Seat :
                      /\ r = Closed(i, seats[i], k.at)
                      /\ r.last = None /\ r.user = seats[i].user
                      /\ r.total + Seconds(r, now) <= now - r.joined
                BY <1>4, ClosedFits
            <3>. HIDE DEF new
            <3>. QED  BY <3>1, <3>2
        <2>. QED  BY <2>3, <2>4
    <1>. HIDE DEF new
    <1>6. /\ seats' \in Seq(Seat) /\ Len(seats') = Len(seats) /\ DOMAIN seats' = DOMAIN seats
          /\ \A i \in DOMAIN seats : seats'[i] = new(i)
        <2>1. seats' \in [DOMAIN seats -> Seat]
            BY <1>3, <1>5
        <2>. QED  BY <1>3, <2>1, RowsMapped DEF Inv, TypeOK
    <1>7. SeatsFit'
        BY <1>2, <1>5, <1>6 DEF SeatsFit, SeatFits, Seconds
    <1>8. OneRowEach'
        BY <1>5, <1>6 DEF OneRowEach, Inv
    <1>. HIDE DEF k
    <1>9. PICK j \in Task : j = [k EXCEPT !.stage = "close"]
        BY <1>1 DEF Task, Stages
    <1>10. j.stage = "close" /\ j.at = k.at /\ j.m = k.m
        BY <1>1, <1>9 DEF Task
    <1>11. \A i \in DOMAIN seats' : seats'[i].last = None
        BY <1>5, <1>6
    <1>12. Fits(j)'
        BY <1>1, <1>2, <1>4, <1>10, <1>11 DEF Fits, MayEnd, AsRead
    <1>13. Becomes(t, j)
        BY <1>2, <1>9 DEF GoOn, k
    <1>14. task' \in [Slots -> Task \cup {None}] /\ OneCall'
        BY <1>1, <1>2, <1>9, <1>12, <1>13, Advanced
    <1>15. Leavers'
        BY <1>1, <1>2, Turn DEF Leavers
    <1>16. TypeOK'
        BY <1>2, <1>6, <1>14 DEF Inv, TypeOK
    <1>. QED  BY <1>2, <1>7, <1>8, <1>14, <1>15, <1>16, MeetingKept DEF Inv

LEMMA CloseInv ==
    ASSUME Inv, NEW t \in Slots, Close(t)
    PROVE  Inv'
    <1>. DEFINE k == task[t]
    <1>1. ~Idle(t) /\ k \in Task /\ Fits(k) /\ k.stage = "close"
        BY Turn DEF Close, At
    <1>2. UNCHANGED <<seats, online, leaving, now>> /\ GoOn(t, "dismiss")
        BY DEF Close
    <1>3. meeting' = [meeting EXCEPT !.status = "ENDED", !.ended = k.at, !.active = k.at,
                                     !.duration = Duration(k.m, k.at)]
        BY DEF Close
    <1>4. PICK j \in Task : j = [k EXCEPT !.stage = "dismiss"]
        BY <1>1 DEF Task, Stages
    <1>5. j.stage = "dismiss" /\ j.at = k.at
        BY <1>1, <1>4 DEF Task
    <1>6. Becomes(t, j)
        BY <1>2, <1>4 DEF GoOn
    <1>. HIDE DEF k
    <1>7. /\ k.at <= now /\ k.at \in Time /\ k.at \in Nat
          /\ k.m.started = meeting.started /\ meeting \in Meeting
          /\ meeting.started # None => meeting.started <= k.at
          /\ \A i \in DOMAIN seats : seats[i].last = None
        BY <1>1 DEF Fits, AsRead, MayEnd, Task, Time, Inv, TypeOK
    <1>8. PICK d \in Time \cup {None} :
              d = IF meeting.started = None THEN None ELSE k.at - meeting.started
        BY <1>7, BoundAssumption DEF Meeting, Time
    <1>9. Duration(k.m, k.at) = d
        BY <1>7, <1>8 DEF Duration
    <1>10. /\ meeting' \in Meeting /\ meeting'.status = "ENDED"
           /\ meeting'.started = meeting.started /\ meeting'.ended = k.at /\ meeting'.duration = d
        BY <1>3, <1>7, <1>9 DEF Meeting, Statuses
    <1>11. MeetingFits'
        BY <1>2, <1>8, <1>10 DEF Inv, MeetingFits, LiveHasStarted, DurationMatches
    <1>12. Fits(j)'
        BY <1>2, <1>5, <1>7 DEF Fits
    <1>13. task' \in [Slots -> Task \cup {None}] /\ OneCall'
        BY <1>1, <1>2, <1>6, <1>12, Advanced
    <1>14. SeatsFit' /\ OneRowEach'
        BY <1>2, <1>7 DEF Inv, SeatsFit, SeatFits, OneRowEach, Seconds
    <1>15. TypeOK'
        BY <1>2, <1>10, <1>13 DEF Inv, TypeOK
    <1>. QED  BY <1>2, <1>11, <1>13, <1>14, <1>15, LeaversKept DEF Inv

LEMMA DismissInv ==
    ASSUME Inv, NEW t \in Slots, Dismiss(t)
    PROVE  Inv'
    <1>1. ~Idle(t) /\ \A i \in Ids : leaving[i] = None
        BY Turn DEF Dismiss, At
    <1>2. /\ UNCHANGED <<meeting, seats, now>> /\ Finish(t) /\ online' = {}
          /\ leaving' = [i \in Ids |-> IF i \in online THEN Leaving ELSE leaving[i]]
        BY DEF Dismiss
    <1>3. task' \in [Slots -> Task \cup {None}] /\ OneCall'
        BY <1>1, <1>2, Finished
    <1>4. TypeOK'
        BY <1>2, <1>3, LeavingTyped DEF Inv, TypeOK
    <1>5. Leavers'
        BY <1>1, <1>2, LeavingTyped DEF Inv, TypeOK, Leavers
    <1>. QED  BY <1>2, <1>3, <1>4, <1>5, RowsKept, MeetingKept DEF Inv

-----------------------------------------------------------------------------
LEMMA ReadTargetInv ==
    ASSUME Inv, NEW t \in Slots, ReadTarget(t)
    PROVE  Inv'
    <1>. DEFINE k == task[t]
    <1>1. ~Idle(t) /\ k \in Task /\ Fits(k) /\ k.stage = "target"
        BY Turn DEF ReadTarget, At
    <1>2. UNCHANGED <<meeting, seats, online, leaving, now>>
        BY DEF ReadTarget
    <1>3. PICK stage \in {"drop", "kick"} :
              Becomes(t, [k EXCEPT !.stage = stage, !.rows = Read({k.id}), !.at = now])
        BY DEF ReadTarget
    <1>. HIDE DEF k
    <1>4. k.id \in DOMAIN seats /\ AsRead(k.m) /\ now \in Time /\ now \in Nat
        BY <1>1, SeatIds DEF Fits, MayKick, Inv
    <1>5. PICK rows \in [Ids -> Seat \cup {None}] : rows = Read({k.id}) /\ rows[k.id] = seats[k.id]
        BY <1>4, ReadTyped DEF Inv
    <1>6. PICK j \in Task : j = [k EXCEPT !.stage = stage, !.rows = rows, !.at = now]
        BY <1>1, <1>4 DEF Task, Stages
    <1>7. j.stage = stage /\ j.at = now /\ j.m = k.m /\ j.rows = rows /\ j.id = k.id
        BY <1>1, <1>6 DEF Task
    <1>8. Fits(j)
        BY <1>4, <1>5, <1>7 DEF Fits, MayKick
    <1>. QED  BY <1>1, <1>2, <1>3, <1>5, <1>6, <1>8, OnlyAdvanced

LEMMA WriteKickInv ==
    ASSUME Inv, NEW t \in Slots, WriteKick(t)
    PROVE  Inv'
    <1>. DEFINE k == task[t]
    <1>1. ~Idle(t) /\ k \in Task /\ Fits(k) /\ k.stage = "kick"
        BY Turn DEF WriteKick, At
    <1>2. UNCHANGED <<meeting, online, leaving, now>> /\ GoOn(t, "drop")
        BY DEF WriteKick
    <1>3. seats' = [seats EXCEPT ![k.id] =
                       [Closed(k.id, k.rows[k.id], k.at) EXCEPT !.kicked = TRUE]]
        BY DEF WriteKick
    <1>4. PICK j \in Task : j = [k EXCEPT !.stage = "drop"]
        BY <1>1 DEF Task, Stages
    <1>5. j.stage = "drop" /\ j.at = k.at /\ j.m = k.m /\ j.id = k.id
        BY <1>1, <1>4 DEF Task
    <1>6. Becomes(t, j)
        BY <1>2, <1>4 DEF GoOn
    <1>. HIDE DEF k
    <1>7. /\ k.id \in DOMAIN seats /\ k.rows[k.id] = seats[k.id]
          /\ k.at \in Time /\ k.at <= now /\ AsRead(k.m)
        BY <1>1 DEF Fits, MayKick, Task
    <1>8. PICK c \in Seat :
              /\ c = Closed(k.id, seats[k.id], k.at)
              /\ c.last = None /\ c.user = seats[k.id].user
              /\ c.total + Seconds(c, now) <= now - c.joined
        BY <1>7, ClosedFits
    <1>9. PICK r \in Seat : r = [c EXCEPT !.kicked = TRUE]
        BY DEF Seat
    <1>10. /\ r.last = None /\ r.user = seats[k.id].user
           /\ r.total = c.total /\ r.joined = c.joined /\ r.last = c.last
        BY <1>8, <1>9 DEF Seat
    <1>11. r.total + Seconds(r, now) <= now - r.joined
        BY <1>8, <1>10 DEF Seconds
    <1>12. seats' = [seats EXCEPT ![k.id] = r]
        BY <1>3, <1>7, <1>8, <1>9
    <1>13. /\ seats' \in Seq(Seat) /\ Len(seats') = Len(seats) /\ DOMAIN seats' = DOMAIN seats
           /\ SeatsFit' /\ OneRowEach'
        BY <1>2, <1>7, <1>10, <1>11, <1>12, RowReplaced
    <1>14. Fits(j)'
        BY <1>2, <1>5, <1>7, <1>13 DEF Fits, MayKick, AsRead
    <1>15. task' \in [Slots -> Task \cup {None}] /\ OneCall'
        BY <1>1, <1>2, <1>6, <1>14, Advanced
    <1>16. Leavers'
        BY <1>1, <1>2, Turn DEF Leavers
    <1>17. TypeOK'
        BY <1>2, <1>13, <1>15 DEF Inv, TypeOK
    <1>. QED  BY <1>2, <1>13, <1>15, <1>16, <1>17, MeetingKept DEF Inv

LEMMA DropInv ==
    ASSUME Inv, NEW t \in Slots, Drop(t)
    PROVE  Inv'
    <1>. DEFINE k == task[t]
    <1>1. /\ ~Idle(t) /\ k \in Task /\ Fits(k) /\ k.stage = "drop"
          /\ \A i \in Ids : leaving[i] = None
        BY Turn DEF Drop, At
    <1>2. /\ UNCHANGED <<seats, now>> /\ Finish(t) /\ online' = online \ {k.id}
          /\ leaving' = [leaving EXCEPT ![k.id] = Leaving] \/ leaving' = leaving
          /\ meeting' = [meeting EXCEPT !.active = now] \/ meeting' = meeting
        BY DEF Drop
    <1>. HIDE DEF k
    <1>3. k.id \in DOMAIN seats /\ k.id \in Ids /\ now \in Time
        BY <1>1, SeatIds DEF Fits, MayKick, Inv
    <1>4. /\ meeting' \in Meeting
          /\ meeting'.status = meeting.status /\ meeting'.started = meeting.started
          /\ meeting'.ended = meeting.ended /\ meeting'.duration = meeting.duration
        BY <1>2, <1>3, Active DEF Inv, TypeOK
    <1>5. task' \in [Slots -> Task \cup {None}] /\ OneCall'
        BY <1>1, <1>2, Finished
    <1>6. leaving' \in [Ids -> Leaver \cup {None}]
          /\ \A i \in Ids : leaving'[i] # None => i = k.id /\ leaving'[i] = Leaving
        BY <1>1, <1>2, <1>3, LeavingTyped DEF Inv, TypeOK
    <1>7. TypeOK'
        BY <1>2, <1>4, <1>5, <1>6 DEF Inv, TypeOK
    <1>8. Leavers'
        BY <1>2, <1>3, <1>6, LeavingTyped DEF Leavers
    <1>. QED  BY <1>2, <1>4, <1>5, <1>7, <1>8, RowsKept, MeetingKept DEF Inv

LEMMA WriteGateInv ==
    ASSUME Inv, NEW t \in Slots, WriteGate(t)
    PROVE  Inv'
    <1>. DEFINE k == task[t]
    <1>1. ~Idle(t) /\ k \in Task /\ Fits(k) /\ k.stage = "gate"
        BY Turn DEF WriteGate, At
    <1>2. UNCHANGED <<seats, online, leaving, now>> /\ Finish(t)
        BY DEF WriteGate
    <1>3. k.change \in Gates \X BOOLEAN
        BY <1>1 DEF Fits, Task
    <1>4. PICK gates \in SUBSET Gates : meeting' = [meeting EXCEPT !.gates = gates]
        <2>1. meeting' = [meeting EXCEPT !.gates =
                  IF k.change[2] THEN meeting.gates \cup {k.change[1]}
                  ELSE meeting.gates \ {k.change[1]}]
            BY DEF WriteGate
        <2>2. meeting.gates \in SUBSET Gates /\ k.change[1] \in Gates
            BY <1>3 DEF Inv, TypeOK, Meeting
        <2>. QED  BY <2>1, <2>2
    <1>5. /\ meeting' \in Meeting
          /\ meeting'.status = meeting.status /\ meeting'.started = meeting.started
          /\ meeting'.ended = meeting.ended /\ meeting'.duration = meeting.duration
        BY <1>4 DEF Inv, TypeOK, Meeting
    <1>6. task' \in [Slots -> Task \cup {None}] /\ OneCall'
        BY <1>1, <1>2, Finished
    <1>7. TypeOK'
        BY <1>2, <1>5, <1>6 DEF Inv, TypeOK
    <1>. QED  BY <1>2, <1>5, <1>6, <1>7, RowsKept, MeetingKept, LeaversKept DEF Inv

LEMMA AnswerInv ==
    ASSUME Inv, NEW t \in Slots, Answer(t)
    PROVE  Inv'
    BY LookupInv, SitInv, TouchInv, AskPresenceInv, RefreshInv, ListOpenInv, CreditOpenInv,
       CloseInv, DismissInv, ReadTargetInv, WriteKickInv, DropInv, WriteGateInv DEF Answer

-----------------------------------------------------------------------------
LEMMA InitInv == Init => Inv
    <1>. SUFFICES ASSUME Init PROVE Inv
        OBVIOUS
    <1>1. /\ meeting \in Meeting /\ meeting.status # "ENDED"
          /\ meeting.status = "LIVE" => meeting.started = 0
          /\ meeting.started # None => meeting.started = 0
        BY BoundAssumption, NoneAssumption DEF Init, Meeting, Statuses, Time
    <1>2. /\ seats = <<>> /\ online = {} /\ now = 0 /\ 0 \in Time
          /\ \A i \in Ids : leaving[i] = None
          /\ \A t \in Slots : task[t] = None
          /\ leaving \in [Ids -> Leaver \cup {None}] /\ task \in [Slots -> Task \cup {None}]
        BY BoundAssumption DEF Init, Time
    <1>3. seats \in Seq(Seat) /\ Len(seats) <= MaxSeats /\ DOMAIN seats = {}
        BY <1>2, BoundAssumption
    <1>4. TypeOK
        BY <1>1, <1>2, <1>3 DEF TypeOK
    <1>5. MeetingFits
        BY <1>1, <1>2, NoneAssumption DEF MeetingFits, LiveHasStarted, DurationMatches
    <1>. QED  BY <1>2, <1>3, <1>4, <1>5 DEF Inv, OneCall, Idle, Leavers, SeatsFit, OneRowEach

LEMMA NextInv == Serial /\ Inv /\ [Next]_vars => Inv'
    <1>. SUFFICES ASSUME Serial, Inv, [Next]_vars PROVE Inv'
        OBVIOUS
    <1>1. ASSUME NEW secret \in BOOLEAN, JoinAsGuest(secret) PROVE Inv'
        BY <1>1, JoinAsGuestInv
    <1>2. ASSUME NEW u \in Users, JoinAsRegistered(u) \/ End(u) PROVE Inv'
        BY <1>2, JoinAsRegisteredInv, EndInv
    <1>3. ASSUME NEW u \in Users, NEW i \in Ids, Kick(u, i) \/ Approve(u, i) PROVE Inv'
        BY <1>3, KickInv, ApproveInv
    <1>4. ASSUME NEW u \in Users, NEW g \in Gates, NEW on \in BOOLEAN, SetGate(u, g, on)
          PROVE  Inv'
        BY <1>4, SetGateInv
    <1>5. ASSUME NEW i \in Ids, Enter(i) \/ Exit(i) \/ Farewell(i) PROVE Inv'
        BY <1>5, EnterInv, ExitInv, ReadLeaverInv, WriteLeaverInv DEF Farewell
    <1>6. ASSUME NEW t \in Slots, Answer(t) PROVE Inv'
        BY <1>6, AnswerInv
    <1>7. CASE Sweep
        BY <1>7, SweepInv
    <1>8. CASE Tick
        BY <1>8, TickInv
    <1>9. CASE UNCHANGED vars
        <2>1. UNCHANGED <<meeting, seats, online, leaving, task, now>> /\ now \in Nat
            BY <1>9, SeatIds DEF vars, Inv
        <2>2. OneCall'
            BY <2>1, CallsKept
        <2>3. TypeOK'
            BY <2>1 DEF Inv, TypeOK
        <2>. QED  BY <2>1, <2>2, <2>3, RowsKept, MeetingKept, LeaversKept DEF Inv
    <1>. QED
        BY <1>1, <1>2, <1>3, <1>4, <1>5, <1>6, <1>7, <1>8, <1>9 DEF Next

LEMMA Invariant == ASSUME Serial PROVE Spec => []Inv
    <1>1. Inv /\ [Next]_vars => Inv'
        BY NextInv
    <1>. QED  BY <1>1, InitInv, PTL DEF Spec

(* Whoever joins, leaves, is kicked, let in again or credited, and whatever  *)
(* the sweep does meanwhile: the variables keep their shape, and the bound   *)
(* on the rows is kept by the guards that stand for it.                      *)
THEOREM MeetingsTyped == ASSUME Serial PROVE Spec => []TypeOK
    <1>1. Inv => TypeOK
        BY DEF Inv
    <1>. QED  BY <1>1, Invariant, PTL

(* Joining again returns the row there is: a registered user never has two.  *)
THEOREM OneRowPerUser == ASSUME Serial PROVE Spec => []OneSeatEach
    <1>1. Inv => OneSeatEach
        <2>. SUFFICES ASSUME Inv, NEW u \in Users PROVE Cardinality(SeatsOf(u)) <= 1
            BY DEF OneSeatEach
        <2>1. u # None
            BY NoneAssumption
        <2>2. CASE SeatsOf(u) = {}
            BY <2>2, FS_EmptySet
        <2>3. ASSUME NEW i \in SeatsOf(u) PROVE Cardinality(SeatsOf(u)) <= 1
            <3>1. SeatsOf(u) = {i}
                BY <2>1 DEF SeatsOf, Inv, OneRowEach
            <3>2. Cardinality(SeatsOf(u)) = 1
                BY <3>1, FS_Singleton
            <3>. QED  BY <3>2
        <2>. QED  BY <2>2, <2>3
    <1>. QED  BY <1>1, Invariant, PTL

(* What end, sweep, leave and kick do to the rows: no session of an ended    *)
(* meeting or of a kicked participant is open, and no second is credited     *)
(* twice, whatever the order of those calls.                                *)
THEOREM AttendanceIsRight ==
    ASSUME Serial PROVE Spec => [](AttendanceBounded /\ KickedIsOut /\ EndedIsClosed)
    <1>1. Inv => AttendanceBounded /\ KickedIsOut /\ EndedIsClosed
        BY DEF Inv, SeatsFit, SeatFits, AttendanceBounded, KickedIsOut, EndedIsClosed
    <1>. QED  BY <1>1, Invariant, PTL

(* The three timestamps of the row: a live meeting has started, and an ended *)
(* one lasted from startedAt to endedAt.                                     *)
THEOREM ClockIsRight == ASSUME Serial PROVE Spec => []ClockRight
    <1>1. Inv => ClockRight
        BY DEF Inv, MeetingFits, ClockRight
    <1>. QED  BY <1>1, Invariant, PTL

(* A row that is written is no new row; Sit writes the new ones.             *)
LEMMA LenKept ==
    ASSUME TypeOK, NEW i, NEW e
    PROVE  Len([seats EXCEPT ![i] = e]) = Len(seats)
    <1>1. seats \in Seq(Seat \cup {e})
        BY DEF TypeOK
    <1>2. CASE i \in DOMAIN seats
        BY <1>1, <1>2, RowChanged
    <1>3. CASE i \notin DOMAIN seats
        <2>1. [seats EXCEPT ![i] = e] = seats
            BY <1>1, <1>3
        <2>. QED  BY <2>1
    <1>. QED  BY <1>2, <1>3

LEMMA CreditedLen ==
    ASSUME TypeOK, NEW t, CreditOpen(t)
    PROVE  Len(seats') = Len(seats)
    <1>. DEFINE new(i) == IF task[t].rows[i] # None THEN Closed(i, task[t].rows[i], task[t].at)
                          ELSE seats[i]
    <1>1. seats' = [i \in DOMAIN seats |-> new(i)]
        BY DEF CreditOpen
    <1>. HIDE DEF new
    <1>2. seats' \in [DOMAIN seats -> {new(i) : i \in DOMAIN seats}]
        BY <1>1
    <1>3. PICK S : seats' \in [DOMAIN seats -> S]
        BY <1>2
    <1>4. Len(seats) \in Nat /\ DOMAIN seats = 1 .. Len(seats)
        BY SeatIds
    <1>. QED  BY <1>3, <1>4

LEMMA NewRow ==
    ASSUME Inv, NEW t \in Slots, Sit(t), task[t].id = 0, "lock" \in meeting.gates
    PROVE  seats'[Len(seats')].user \in {Host} \cup Admins
    <1>. DEFINE k == task[t]
    <1>1. k \in Task /\ Fits(k) /\ k.stage = "sit"
        BY Turn DEF Sit, At
    <1>2. AsRead(k.m) /\ MaySit(k)
        BY <1>1 DEF Fits
    <1>3. k.user \in {Host} \cup Admins
        BY <1>2 DEF MaySit, AsRead
    <1>4. PICK r : /\ r.user = k.user /\ seats' = Append(seats, r)
        BY DEF Sit
    <1>. HIDE DEF k
    <1>5. seats'[Len(seats')] = r
        <2>1. seats \in Seq(Seat \cup {r})
            BY DEF Inv, TypeOK
        <2>. QED  BY <1>4, <2>1, RowAdded
    <1>. QED  BY <1>3, <1>4, <1>5

(* Only the host and admins get a new row in a locked meeting: the lock that *)
(* a join has read is the lock when its row is created.                      *)
THEOREM LockKept == ASSUME Serial PROVE Spec => LockHolds
    <1>. DEFINE Holds == Len(seats') > Len(seats) /\ "lock" \in meeting.gates
                           => seats'[Len(seats')].user \in {Host} \cup Admins
    <1>1. Inv /\ [Next]_vars => [Holds]_vars
        <2>. SUFFICES ASSUME Inv, Next, Len(seats') > Len(seats), "lock" \in meeting.gates
                      PROVE  seats'[Len(seats')].user \in {Host} \cup Admins
            OBVIOUS
        <2>1. PICK t \in Slots : Sit(t) /\ task[t].id = 0
            <3>1. Len(seats') # Len(seats)
                BY SeatIds DEF Inv
            <3>2. \A i \in Ids : Enter(i) \/ Exit(i) \/ ReadLeaver(i) => seats' = seats
                BY DEF Enter, Exit, ReadLeaver
            <3>3. \A i \in Ids : WriteLeaver(i) => Len(seats') = Len(seats)
                BY LenKept DEF WriteLeaver, Inv
            <3>4. \A u \in Users, i \in Ids : Kick(u, i) => seats' = seats
                BY DEF Kick
            <3>5. \A u \in Users, i \in Ids : Approve(u, i) => Len(seats') = Len(seats)
                BY LenKept DEF Approve, Inv
            <3>6. /\ \A secret \in BOOLEAN : JoinAsGuest(secret) => seats' = seats
                  /\ \A u \in Users : JoinAsRegistered(u) \/ End(u) => seats' = seats
                  /\ \A u \in Users, g \in Gates, on \in BOOLEAN : SetGate(u, g, on) => seats' = seats
                  /\ Sweep \/ Tick => seats' = seats
                BY DEF JoinAsGuest, JoinAsRegistered, End, SetGate, Sweep, Tick
            <3>7. PICK t \in Slots : Answer(t)
                BY <3>1, <3>2, <3>3, <3>4, <3>5, <3>6 DEF Next, Farewell
            <3>8. \A secret \in BOOLEAN : Lookup(t, secret) => seats' = seats
                BY DEF Lookup
            <3>9. /\ Touch(t) \/ AskPresence(t) \/ Refresh(t) \/ ListOpen(t) \/ Close(t) => seats' = seats
                  /\ Dismiss(t) \/ ReadTarget(t) \/ Drop(t) \/ WriteGate(t) => seats' = seats
                BY DEF Touch, AskPresence, Refresh, ListOpen, Close, Dismiss, ReadTarget, Drop, WriteGate
            <3>10. WriteKick(t) => Len(seats') = Len(seats)
                BY LenKept DEF WriteKick, Inv
            <3>11. CreditOpen(t) => Len(seats') = Len(seats)
                BY CreditedLen DEF Inv
            <3>12. Sit(t)
                BY <3>1, <3>7, <3>8, <3>9, <3>10, <3>11 DEF Answer
            <3>13. task[t].id # 0 => Len(seats') = Len(seats)
                BY <3>12, LenKept DEF Sit, Inv
            <3>. QED  BY <3>1, <3>12, <3>13
        <2>. QED  BY <2>1, NewRow DEF Inv
    <1>2. Spec => [][Holds]_vars
        BY <1>1, Invariant, PTL DEF Spec
    <1>. QED  BY <1>2 DEF LockHolds

(* A call that waits has read a meeting that has not ended, but for the end   *)
(* itself once it has written everything.                                    *)
LEMMA LastOfTheEnd ==
    ASSUME Inv, NEW t \in Slots, Answer(t), meeting.status = "ENDED"
    PROVE  UNCHANGED <<meeting, seats>>
    <1>1. ~Idle(t)
        BY DEF Answer, At, Lookup, Sit, Touch, AskPresence, Refresh, ListOpen, CreditOpen, Close,
               Dismiss, ReadTarget, WriteKick, Drop, WriteGate
    <1>2. task[t].stage = "dismiss"
        BY <1>1, Turn DEF Fits, AsRead
    <1>3. Dismiss(t)
        BY <1>2 DEF Answer, At, Lookup, Sit, Touch, AskPresence, Refresh, ListOpen, CreditOpen, Close,
                    ReadTarget, WriteKick, Drop, WriteGate
    <1>. QED  BY <1>3 DEF Dismiss

(* The row of somebody who left while the meeting ended is closed already.   *)
LEMMA LateLeave ==
    ASSUME Inv, NEW i \in Ids, WriteLeaver(i), meeting.status = "ENDED"
    PROVE  AccountsKept
    <1>1. /\ i \in DOMAIN seats /\ leaving[i].row = seats[i]
          /\ leaving[i].at \in Time /\ leaving[i].at <= now
        BY DEF WriteLeaver, Inv, TypeOK, Leavers, Leaver
    <1>2. seats[i].last = None /\ seats[i] \in Seat /\ now \in Nat
        BY <1>1, SeatIds DEF Inv, SeatsFit, SeatFits
    <1>3. Seconds(seats[i], leaving[i].at) = 0
        BY <1>1, <1>2, SecondsGrow
    <1>4. PICK r \in Seat : r = Closed(i, seats[i], leaving[i].at)
        BY <1>1, ClosedRow DEF Inv
    <1>5. r.last = None /\ r.total = seats[i].total
        <2>1. seats[i].total \in Nat
            BY <1>2 DEF Seat
        <2>. QED  BY <1>1, <1>3, <1>4, <2>1, ClosedRow DEF Inv
    <1>6. seats' = [seats EXCEPT ![i] = r]
        BY <1>1, <1>4 DEF WriteLeaver
    <1>7. /\ DOMAIN seats' = DOMAIN seats /\ seats'[i] = r
          /\ \A k \in DOMAIN seats : k # i => seats'[k] = seats[k]
        BY <1>1, <1>6, RowChanged DEF Inv, TypeOK
    <1>8. \A f \in {"status", "started", "ended", "duration"} : meeting'[f] = meeting[f]
        BY <1>1, Active DEF WriteLeaver
    <1>. QED  BY <1>2, <1>5, <1>7, <1>8 DEF AccountsKept

LEMMA LateApproval ==
    ASSUME Inv, NEW u \in Users, NEW i \in Ids, Approve(u, i)
    PROVE  AccountsKept
    <1>1. /\ i \in DOMAIN seats /\ seats[i] \in Seat /\ meeting' = meeting
          /\ seats' = [seats EXCEPT ![i] = [seats[i] EXCEPT !.kicked = FALSE, !.left = FALSE]]
        BY SeatIds DEF Approve, Inv
    <1>2. PICK r \in Seat : r = [seats[i] EXCEPT !.kicked = FALSE, !.left = FALSE]
        BY <1>1 DEF Seat
    <1>3. r.total = seats[i].total /\ r.last = seats[i].last
        BY <1>1, <1>2 DEF Seat
    <1>4. /\ DOMAIN seats' = DOMAIN seats /\ seats'[i] = r
          /\ \A k \in DOMAIN seats : k # i => seats'[k] = seats[k]
        BY <1>1, <1>2, RowChanged DEF Inv, TypeOK
    <1>. QED  BY <1>1, <1>3, <1>4 DEF AccountsKept

(* Whatever leaves, approvals, joins, kicks and sweeps come after the end:    *)
(* the timestamps and the credited times of an ended meeting stay.           *)
THEOREM AccountsAreFinal == ASSUME Serial PROVE Spec => EndIsFinal
    <1>. DEFINE Final == meeting.status = "ENDED" => AccountsKept
    <1>1. Inv /\ [Next]_vars => [Final]_vars
        <2>. SUFFICES ASSUME Inv, Next, meeting.status = "ENDED" PROVE AccountsKept
            OBVIOUS
        <2>1. ASSUME UNCHANGED <<meeting, seats>> PROVE AccountsKept
            BY <2>1 DEF AccountsKept
        <2>2. ASSUME NEW i \in Ids, Enter(i) PROVE AccountsKept
            <3>1. seats' = seats /\ meeting' = [meeting EXCEPT !.active = now] /\ now \in Time
                BY <2>2, SeatIds DEF Enter, Inv
            <3>. QED  BY <3>1, Active DEF AccountsKept
        <2>3. ASSUME NEW i \in Ids, Exit(i) \/ ReadLeaver(i) PROVE AccountsKept
            BY <2>1, <2>3 DEF Exit, ReadLeaver
        <2>4. ASSUME NEW u \in Users, NEW i \in Ids, Kick(u, i) PROVE AccountsKept
            BY <2>1, <2>4 DEF Kick
        <2>5. CASE \/ \E secret \in BOOLEAN : JoinAsGuest(secret)
                   \/ \E u \in Users : JoinAsRegistered(u) \/ End(u)
                   \/ \E u \in Users, g \in Gates, on \in BOOLEAN : SetGate(u, g, on)
                   \/ Sweep \/ Tick
            BY <2>1, <2>5 DEF JoinAsGuest, JoinAsRegistered, End, SetGate, Sweep, Tick
        <2>6. ASSUME NEW t \in Slots, Answer(t) PROVE AccountsKept
            BY <2>1, <2>6, LastOfTheEnd
        <2>. HIDE DEF Inv, AccountsKept
        <2>. QED  BY <2>2, <2>3, <2>4, <2>5, <2>6, LateLeave, LateApproval DEF Next, Farewell
    <1>2. Spec => [][Final]_vars
        BY <1>1, Invariant, PTL DEF Spec
    <1>. QED  BY <1>2 DEF EndIsFinal
=============================================================================
