----------------------------- MODULE Whiteboard -----------------------------
(***************************************************************************)
(* MeetingWhiteboardService: the operations drawn in a meeting are buffered *)
(* in memory and merged into one Postgres row, by a timer or as soon as    *)
(* the buffer is full; late joiners are sent the row.  Meetings share      *)
(* nothing, so one is modelled.                                            *)
(*                                                                         *)
(* flush, clear and getSnapshot await Postgres, which runs the statements  *)
(* of different calls in any order (Prisma's pool).  A call that waits is  *)
(* a task in one of the Slots; `Serial' says whether a call may start      *)
(* while another one still waits.  Nothing in the code prevents it.        *)
(***************************************************************************)
EXTENDS Integers, Sequences, FiniteSets, SequencesExt

CONSTANTS
    Ops,            \* drawing operations; each is sent, and so recorded, at most once
    Clients,        \* sockets that ask for the snapshot
    Slots,          \* bound: that many calls wait for Postgres at once
    Serial,         \* may calls not overlap?
    MaxBuffer,      \* MAX_BUFFER (32)
    MaxSnapshot,    \* MAX_SNAPSHOT_OPS (2000)
    MayFail,        \* the statements that Postgres may refuse
    MaxFailures,    \* bound on how often it does
    MaxRevision,    \* bound: no clear of a row of this revision
    None

Row == [data : Seq(Ops), revision : Nat]

ASSUME SlotsAssumption == IsFiniteSet(Slots) /\ Slots # {}
ASSUME SerialAssumption == Serial \in BOOLEAN
ASSUME LimitsAssumption == MaxBuffer \in Nat \ {0} /\ MaxSnapshot \in Nat \ {0}
ASSUME FailAssumption == MayFail \subseteq {"read", "write", "wipe", "load"}
ASSUME BoundAssumption == MaxFailures \in Nat /\ MaxRevision \in Nat

VARIABLES
    buffer,     \* buffers.get(meetingId) ?? []
    timer,      \* flushTimers.has(meetingId)
    row,        \* the whiteboard_snapshots row, or None
    task,       \* task[t]: the call that waits in slot t, or None
    recorded,   \* history: the operations recorded since the last clear, and
                \* those that it left in the row because Postgres refused it
    used,       \* history: every operation ever recorded
    failures    \* how often Postgres has refused a statement

vars == <<buffer, timer, row, task, recorded, used, failures>>

(* flush awaits its findUnique ("reading"), then its upsert ("writing");    *)
(* clear its upsert ("wiping"); getSnapshot a flush, its findUnique          *)
(* ("loading"), and "sending" has the answer.  `pending' are the operations *)
(* a flush took, `read' the row a statement returned, `owed' (history) what  *)
(* was on the board when the snapshot was asked for.                        *)
Stages == {"reading", "writing", "wiping", "loading", "sending"}
Task == [stage : Stages, pending : Seq(Ops), read : Row \cup {None},
         client : Clients \cup {None}, owed : SUBSET Ops]

ASSUME NoneAssumption == None \notin Row /\ None \notin Clients /\ None \notin Task

-----------------------------------------------------------------------------
Newest(n, s) == IF Len(s) > n THEN SubSeq(s, Len(s) - n + 1, Len(s)) ELSE s
Data(r) == IF r = None THEN <<>> ELSE r.data
NextRevision(r) == IF r = None THEN 1 ELSE r.revision + 1

NewTask(stage, pending, client, owed) ==
    [stage |-> stage, pending |-> pending, read |-> None, client |-> client, owed |-> owed]

Idle(t) == task[t] = None
At(t, stage) == ~Idle(t) /\ task[t].stage = stage
MayStart(t) == Idle(t) /\ (Serial => \A u \in Slots : Idle(u))
Start(t, new) == MayStart(t) /\ task' = [task EXCEPT ![t] = new]

(* Mutation: what is flushed stays in the buffer.                           *)
TakeBuffer_Kept == UNCHANGED buffer

(* flush, up to its first await: the buffer is taken and replaced.          *)
TakeBuffer == buffer' = <<>>

(* The call in slot t goes on to read the snapshot, or is over.             *)
EndFlush(t) ==
    task' = [task EXCEPT ![t] =
                IF @.client = None THEN None
                ELSE [@ EXCEPT !.stage = "loading", !.pending = <<>>, !.read = None]]

Refused(what) ==
    /\ what \in MayFail /\ failures < MaxFailures
    /\ failures' = failures + 1

-----------------------------------------------------------------------------
Init ==
    /\ buffer = <<>>
    /\ timer = FALSE
    /\ row = None
    /\ task = [t \in Slots |-> None]
    /\ recorded = <<>>
    /\ used = {}
    /\ failures = 0

New(op) ==
    /\ op \in Ops \ used
    /\ used' = used \cup {op}
    /\ recorded' = Append(recorded, op)

(* Mutation: no flush is scheduled, the buffer waits for the limit.          *)
RecordQueued_NoTimer(op) ==
    /\ New(op)
    /\ Len(buffer) + 1 < MaxBuffer
    /\ buffer' = Append(buffer, op)
    /\ UNCHANGED <<timer, row, task, failures>>

(* recordOp below the limit: the operation waits for the timer.             *)
RecordQueued(op) ==
    /\ New(op)
    /\ Len(buffer) + 1 < MaxBuffer
    /\ buffer' = Append(buffer, op)
    /\ timer' = TRUE
    /\ UNCHANGED <<row, task, failures>>

(* recordOp at the limit flushes at once; a running timer keeps running.    *)
RecordFlushed(op) ==
    /\ New(op)
    /\ Len(buffer) + 1 >= MaxBuffer
    /\ \E t \in Slots : Start(t, NewTask("reading", Append(buffer, op), None, {}))
    /\ TakeBuffer
    /\ UNCHANGED <<timer, row, failures>>

Record(op) == RecordQueued(op) \/ RecordFlushed(op)

TimerFires ==
    /\ timer
    /\ timer' = FALSE
    /\ IF buffer = <<>> THEN UNCHANGED <<buffer, task>>
       ELSE /\ \E t \in Slots : Start(t, NewTask("reading", buffer, None, {}))
            /\ TakeBuffer
    /\ UNCHANGED <<row, recorded, used, failures>>

(* clear: buffer and timer are dropped at once, the row when Postgres does. *)
Clear ==
    /\ NextRevision(row) <= MaxRevision
    /\ \E t \in Slots : MayStart(t) /\
          task' = [u \in Slots |-> IF u = t THEN NewTask("wiping", <<>>, None, {})
                                   ELSE IF Idle(u) THEN None ELSE [task[u] EXCEPT !.owed = {}]]
    /\ buffer' = <<>>
    /\ timer' = FALSE
    /\ recorded' = <<>>
    /\ UNCHANGED <<row, used, failures>>

(* Mutation: the snapshot is read without flushing first.                   *)
Request_NoFlush(c) ==
    /\ \E t \in Slots : Start(t, NewTask("loading", <<>>, c, ToSet(recorded)))
    /\ UNCHANGED <<buffer, timer, row, recorded, used, failures>>

(* getSnapshot: what is buffered is flushed before the row is read.         *)
Request(c) ==
    /\ \E t \in Slots :
          Start(t, NewTask(IF buffer = <<>> THEN "loading" ELSE "reading",
                           buffer, c, ToSet(recorded)))
    /\ TakeBuffer
    /\ UNCHANGED <<timer, row, recorded, used, failures>>

-----------------------------------------------------------------------------
(* Postgres answers.                                                        *)

FlushRead(t) ==
    /\ At(t, "reading")
    /\ task' = [task EXCEPT ![t] = [@ EXCEPT !.stage = "writing", !.read = row]]
    /\ UNCHANGED <<buffer, timer, row, recorded, used, failures>>

(* Mutation: the merge forgets what the row already held.                   *)
Merged_PendingOnly(t) == task[t].pending
(* The row as it was READ, with the pending operations, trimmed.            *)
Merged(t) == Newest(MaxSnapshot, Data(task[t].read) \o task[t].pending)

Revised(t) == NextRevision(task[t].read)

FlushWrite(t) ==
    /\ At(t, "writing")
    /\ row' = [data |-> Merged(t), revision |-> Revised(t)]
    /\ EndFlush(t)
    /\ UNCHANGED <<buffer, timer, recorded, used, failures>>

(* Mutation: the operations of a failed flush are pushed back at the end.   *)
PushBack_AtEnd(pending) == buffer' = buffer \o pending

(* The operations of a failed flush go back in front; no timer is started.  *)
PushBack(pending) == buffer' = pending \o buffer

FlushFails(t) ==
    /\ \/ At(t, "reading") /\ Refused("read")
       \/ At(t, "writing") /\ Refused("write")
    /\ PushBack(task[t].pending)
    /\ EndFlush(t)
    /\ UNCHANGED <<timer, row, recorded, used>>

Wipe(t) ==
    /\ At(t, "wiping")
    /\ row' = [data |-> <<>>, revision |-> NextRevision(row)]
    /\ task' = [task EXCEPT ![t] = None]
    /\ UNCHANGED <<buffer, timer, recorded, used, failures>>

(* The error of a failed clear is logged and nothing else: what the row     *)
(* held is still on the board, what was buffered is gone.                   *)
WipeFails(t) ==
    /\ At(t, "wiping") /\ Refused("wipe")
    /\ task' = [task EXCEPT ![t] = None]
    /\ recorded' = Data(row) \o recorded
    /\ UNCHANGED <<buffer, timer, row, used>>

Load(t) ==
    /\ At(t, "loading")
    /\ task' = [task EXCEPT ![t] = [@ EXCEPT !.stage = "sending", !.read = row]]
    /\ UNCHANGED <<buffer, timer, row, recorded, used, failures>>

(* A failed read is answered with the empty board.                          *)
LoadFails(t) ==
    /\ At(t, "loading") /\ Refused("load")
    /\ task' = [task EXCEPT ![t] = [@ EXCEPT !.stage = "sending"]]
    /\ UNCHANGED <<buffer, timer, row, recorded, used>>

Send(t) ==
    /\ At(t, "sending")
    /\ task' = [task EXCEPT ![t] = None]
    /\ UNCHANGED <<buffer, timer, row, recorded, used, failures>>

Answer(t) == FlushRead(t) \/ FlushWrite(t) \/ Wipe(t) \/ Load(t) \/ Send(t)
Failure(t) == FlushFails(t) \/ WipeFails(t) \/ LoadFails(t)

-----------------------------------------------------------------------------
Next ==
    \/ \E op \in Ops : Record(op)
    \/ TimerFires
    \/ Clear
    \/ \E c \in Clients : Request(c)
    \/ \E t \in Slots : Answer(t) \/ Failure(t)

(* Timers fire and Postgres answers; nobody has to draw.                    *)
Fairness == WF_vars(TimerFires) /\ \A t \in Slots : WF_vars(Answer(t))

Spec == Init /\ [][Next]_vars /\ Fairness

-----------------------------------------------------------------------------
TypeOK ==
    /\ buffer \in Seq(Ops)
    /\ timer \in BOOLEAN
    /\ row \in Row \cup {None}
    /\ task \in [Slots -> Task \cup {None}]
    /\ recorded \in Seq(Ops)
    /\ used \in SUBSET Ops
    /\ failures \in Nat

Flushing == {t \in Slots : At(t, "reading") \/ At(t, "writing")}
Wiping == {t \in Slots : At(t, "wiping")}
Pending == IF Flushing = {} THEN <<>> ELSE task[CHOOSE t \in Flushing : TRUE].pending

(* Where the board is: in the row, in the flush under way, in the buffer.    *)
Stored == (IF Wiping # {} THEN <<>> ELSE Data(row)) \o Pending \o buffer

(* What a clear under way leaves on the board if Postgres refuses it.        *)
Erased == IF Wiping # {} THEN Data(row) ELSE <<>>

(* When calls do not overlap, the row, the flush under way and the buffer    *)
(* are together exactly the newest operations since the last clear that was  *)
(* carried out, in order: a retry reorders nothing, only trimming drops, nothing comes back. *)
NothingLost ==
    /\ IsSuffix(Stored, recorded)
    /\ Len(Stored) >= IF Len(recorded) > MaxSnapshot THEN MaxSnapshot ELSE Len(recorded)

(* The same, as an implementation of the abstract board.                    *)
Board == INSTANCE BoardLog WITH log <- Stored, erased <- Erased, Keep <- MaxSnapshot
ImplementsBoard == Board!Spec

(* No operation is on the board twice, nor in a snapshot on its way: what a  *)
(* flush took is either written or back in the buffer, never both, however   *)
(* often it is tried again and whatever other flush reads or writes the row  *)
(* meanwhile.                                                               *)
NoneTwice ==
    /\ IsInjective(Data(row))
    /\ \A t \in Slots : At(t, "sending") => IsInjective(Data(task[t].read))

(* "If anything's still buffered, flush before reading so the snapshot is    *)
(* fully up to date": unless Postgres has refused something, a snapshot holds *)
(* every operation that was on the board when it was asked for, but those    *)
(* trimmed or cleared since.                                                *)
SnapshotComplete == \A t \in Slots : At(t, "sending") /\ failures = 0 =>
    task[t].owed \cap ToSet(Newest(MaxSnapshot, recorded)) \subseteq ToSet(Data(task[t].read))

(* "concurrent persists serialize at the row level": once no call waits, an  *)
(* operation that was neither cleared nor trimmed is in the row or in the    *)
(* buffer, for late joiners to see.                                         *)
PersistsSerialize == (\A t \in Slots : Idle(t)) =>
    ToSet(Newest(MaxSnapshot, recorded)) \subseteq ToSet(Data(row)) \cup ToSet(buffer)

(* What is buffered reaches the row, or is cleared, unless Postgres refuses a *)
(* statement: what a failed flush pushed back waits for the next operation.  *)
EventuallyPersisted == \A op \in Ops :
    op \in ToSet(buffer) ~>
        op \in ToSet(Data(row)) \/ op \notin ToSet(recorded) \/ failures > 0
=============================================================================
