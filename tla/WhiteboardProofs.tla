-------------------------- MODULE WhiteboardProofs --------------------------
(***************************************************************************)
(* The whiteboard, from Postgres to the pages, for any limits of buffer    *)
(* and snapshot, any number of operations, clears and refusals.            *)
(*                                                                         *)
(* Whiteboard: the service implements BoardLog, loses nothing but what it  *)
(* trims and sends late joiners the whole board, when calls do not         *)
(* overlap; nothing is on the board twice even when they do.               *)
(* BoardRoom: the pages of a room agree on that board.                     *)
(***************************************************************************)
EXTENDS Whiteboard, BoardRoom, SequenceTheorems, WellFoundedInduction, TLAPS

-----------------------------------------------------------------------------
(* Sequences.                                                               *)

LEMMA EmptyLeft == ASSUME NEW S, NEW a \in Seq(S) PROVE <<>> \o a = a /\ a \o <<>> = a
OBVIOUS

LEMMA AppendRight ==
    ASSUME NEW S, NEW a \in Seq(S), NEW b \in Seq(S), NEW e \in S
    PROVE  a \o Append(b, e) = Append(a \o b, e)
OBVIOUS

LEMMA DropFacts ==
    ASSUME NEW S, NEW s \in Seq(S), NEW n \in 0 .. Len(s)
    PROVE  /\ SubSeq(s, n + 1, Len(s)) \in Seq(S)
           /\ Len(SubSeq(s, n + 1, Len(s))) = Len(s) - n
           /\ \A i \in 1 .. Len(s) - n : SubSeq(s, n + 1, Len(s))[i] = s[i + n]
OBVIOUS

(* Dropping the first elements of a part drops them of the whole.           *)
LEMMA DropOfConcat ==
    ASSUME NEW S, NEW a \in Seq(S), NEW b \in Seq(S), NEW k \in 0 .. Len(a)
    PROVE  SubSeq(a, k + 1, Len(a)) \o b = SubSeq(a \o b, k + 1, Len(a \o b))
<1> DEFINE c == SubSeq(a, k + 1, Len(a))
           ab == a \o b
           left == c \o b
           right == SubSeq(ab, k + 1, Len(ab))
<1>1. /\ c \in Seq(S) /\ Len(c) = Len(a) - k
      /\ \A i \in 1 .. Len(a) - k : c[i] = a[i + k]
    BY DropFacts
<1>2. /\ ab \in Seq(S) /\ Len(ab) = Len(a) + Len(b)
      /\ \A i \in 1 .. Len(a) + Len(b) :
            ab[i] = IF i <= Len(a) THEN a[i] ELSE b[i - Len(a)]
    BY ConcatProperties
<1> HIDE DEF c, ab
<1>3. /\ left \in Seq(S) /\ Len(left) = Len(c) + Len(b)
      /\ \A i \in 1 .. Len(c) + Len(b) :
            left[i] = IF i <= Len(c) THEN c[i] ELSE b[i - Len(c)]
    BY <1>1, ConcatProperties
<1>4. /\ right \in Seq(S) /\ Len(right) = Len(ab) - k
      /\ \A i \in 1 .. Len(ab) - k : right[i] = ab[i + k]
    <2>1. k \in 0 .. Len(ab)
        BY <1>2
    <2> QED BY <1>2, <2>1, DropFacts
<1> HIDE DEF left, right
<1>5. Len(a) \in Nat /\ Len(b) \in Nat
    OBVIOUS
<1>6. Len(left) = Len(right)
    BY <1>1, <1>2, <1>3, <1>4, <1>5
<1>7. ASSUME NEW i \in 1 .. Len(left) PROVE left[i] = right[i]
    <2>1. i \in 1 .. Len(a) - k + Len(b) /\ i + k \in 1 .. Len(a) + Len(b)
        BY <1>1, <1>3, <1>5
    <2>2. right[i] = IF i + k <= Len(a) THEN a[i + k] ELSE b[i + k - Len(a)]
        BY <2>1, <1>2, <1>4, <1>5
    <2>3. CASE i <= Len(a) - k
        <3>1. left[i] = a[i + k]
            BY <1>1, <1>3, <2>1, <2>3, <1>5
        <3> QED BY <2>2, <2>3, <3>1, <1>5
    <2>4. CASE ~(i <= Len(a) - k)
        <3>1. left[i] = b[i - (Len(a) - k)]
            BY <1>1, <1>3, <2>1, <2>4, <1>5
        <3>2. i - (Len(a) - k) = i + k - Len(a)
            BY <1>5
        <3> QED BY <2>2, <2>4, <3>1, <3>2, <1>5
    <2> QED BY <2>3, <2>4
<1>8. left = right
    BY <1>3, <1>4, <1>6, <1>7, SeqEqual
<1> QED BY <1>8 DEF left, right, c, ab

LEMMA PartBefore ==
    ASSUME NEW S, NEW a \in Seq(S), NEW b \in Seq(S)
    PROVE  Len(a) \in 0 .. Len(a \o b) /\ SubSeq(a \o b, 1, Len(a)) = a
<1> DEFINE ab == a \o b
           c == SubSeq(ab, 1, Len(a))
<1>0. Len(a) \in Nat /\ Len(b) \in Nat
    OBVIOUS
<1>1. /\ ab \in Seq(S) /\ Len(ab) = Len(a) + Len(b)
      /\ \A i \in 1 .. Len(a) : ab[i] = a[i]
    BY <1>0, ConcatProperties
<1> HIDE DEF ab
<1>2. c \in Seq(S) /\ Len(c) = Len(a) /\ \A i \in 1 .. Len(a) : c[i] = ab[i]
    BY <1>0, <1>1
<1> HIDE DEF c
<1>3. c = a
    BY <1>1, <1>2, SeqEqual
<1> QED BY <1>0, <1>1, <1>3 DEF c, ab

(* What is left when n, and then k more, have been dropped.                 *)
LEMMA DropTwice ==
    ASSUME NEW S, NEW s \in Seq(S), NEW n \in 0 .. Len(s), NEW k \in 0 .. Len(s) - n
    PROVE  LET d == SubSeq(s, n + 1, Len(s)) IN
           /\ d \in Seq(S) /\ Len(d) = Len(s) - n
           /\ SubSeq(d, k + 1, Len(d)) = SubSeq(s, n + k + 1, Len(s))
OBVIOUS

LEMMA DropThenAppend ==
    ASSUME NEW S, NEW s \in Seq(S), NEW n \in 0 .. Len(s), NEW e \in S
    PROVE  Append(SubSeq(s, n + 1, Len(s)), e) = SubSeq(Append(s, e), n + 1, Len(Append(s, e)))
OBVIOUS

LEMMA ReverseFacts ==
    ASSUME NEW S, NEW s \in Seq(S)
    PROVE  /\ Reverse(s) \in Seq(S) /\ Len(Reverse(s)) = Len(s)
           /\ \A i \in 1 .. Len(s) : Reverse(s)[i] = s[Len(s) - i + 1]
<1>1. Reverse(s) = [i \in 1 .. Len(s) |-> s[(Len(s) - i) + 1]]
    BY DEF Reverse
<1>2. Len(s) \in Nat /\ \A i \in 1 .. Len(s) : s[i] \in S
    OBVIOUS
<1>3. \A i \in 1 .. Len(s) : Len(s) - i + 1 \in 1 .. Len(s)
    BY <1>2
<1>4. Reverse(s) \in [1 .. Len(s) -> S]
    BY <1>1, <1>2, <1>3
<1>5. Reverse(s) \in Seq(S)
    BY <1>2, <1>4
<1>6. DOMAIN Reverse(s) = 1 .. Len(s) /\ DOMAIN Reverse(s) = 1 .. Len(Reverse(s))
    BY <1>1, <1>5
<1>7. Len(Reverse(s)) = Len(s)
    BY <1>2, <1>5, <1>6
<1> QED BY <1>1, <1>5, <1>7

LEMMA DroppedIsSuffix ==
    ASSUME NEW S, NEW s \in Seq(S), NEW n \in 0 .. Len(s)
    PROVE  IsSuffix(SubSeq(s, n + 1, Len(s)), s)
<1> DEFINE d == SubSeq(s, n + 1, Len(s))
           rd == Reverse(d)
           rs == Reverse(s)
<1>0. Len(s) \in Nat
    OBVIOUS
<1>1. /\ d \in Seq(S) /\ Len(d) = Len(s) - n
      /\ \A i \in 1 .. Len(s) - n : d[i] = s[i + n]
    BY DropFacts
<1> HIDE DEF d
<1>2. /\ rd \in Seq(S) /\ Len(rd) = Len(d)
      /\ \A i \in 1 .. Len(d) : rd[i] = d[Len(d) - i + 1]
    BY <1>1, ReverseFacts
<1>3. /\ rs \in Seq(S) /\ Len(rs) = Len(s)
      /\ \A i \in 1 .. Len(s) : rs[i] = s[Len(s) - i + 1]
    BY ReverseFacts
<1> HIDE DEF rd, rs
<1>4. ASSUME NEW i \in 1 .. Len(rd) PROVE rd[i] = rs[i]
    <2>1. /\ i \in 1 .. Len(s) - n /\ i \in 1 .. Len(s)
          /\ Len(d) - i + 1 \in 1 .. Len(s) - n
          /\ (Len(d) - i + 1) + n = Len(s) - i + 1
        BY <1>0, <1>1, <1>2
    <2> QED BY <1>1, <1>2, <1>3, <2>1
<1>5. Len(rd) \in Nat /\ Len(rd) <= Len(rs)
    BY <1>0, <1>1, <1>2, <1>3
<1>6. SubSeq(rd, 1, Len(rd)) = SubSeq(rs, 1, Len(rd))
    BY <1>2, <1>3, <1>4, <1>5
<1> QED BY <1>5, <1>6 DEF IsSuffix, IsPrefix, rd, rs, d

-----------------------------------------------------------------------------
(* One call at a time.  What a flush has read is still the row when it      *)
(* writes, and while a clear is under way all that was recorded is buffered. *)
CallsInv ==
    /\ buffer \in Seq(Ops)
    /\ recorded \in Seq(Ops)
    /\ row \in Row \cup {None}
    /\ task \in [Slots -> Task \cup {None}]
    /\ \A t, u \in Slots : ~Idle(t) /\ ~Idle(u) => t = u
    /\ \A t \in Slots : At(t, "writing") => task[t].read = row
    /\ \A t \in Slots : At(t, "wiping") => buffer = recorded

(* What the board is, in each stage of the one call.                        *)
StageFacts ==
    /\ (\A t \in Slots : Idle(t)) => Stored = Data(row) \o buffer /\ Erased = <<>>
    /\ \A t \in Slots : At(t, "wiping") => Stored = buffer /\ Erased = Data(row)
    /\ \A t \in Slots : At(t, "reading") \/ At(t, "writing") =>
          Stored = (Data(row) \o task[t].pending) \o buffer /\ Erased = <<>>
    /\ \A t \in Slots : At(t, "loading") \/ At(t, "sending") =>
          Stored = Data(row) \o buffer /\ Erased = <<>>

LEMMA DataTyped == CallsInv => Data(row) \in Seq(Ops)
BY DEF CallsInv, Data, Row

LEMMA BoardOfStage == CallsInv => StageFacts
<1> SUFFICES ASSUME CallsInv PROVE StageFacts
    OBVIOUS
<1>0. Data(row) \in Seq(Ops) /\ buffer \in Seq(Ops) /\ <<>> \in Seq(Ops)
    BY DataTyped DEF CallsInv
<1>1. /\ Data(row) \o <<>> = Data(row)
      /\ <<>> \o <<>> = <<>> /\ <<>> \o buffer = buffer
    BY <1>0, EmptyLeft
<1>2. ASSUME Flushing = {}, Wiping = {}
      PROVE  Stored = Data(row) \o buffer /\ Erased = <<>>
    BY <1>1, <1>2 DEF Stored, Pending, Erased
<1>3. ASSUME \A t \in Slots : Idle(t)
      PROVE  Flushing = {} /\ Wiping = {}
    BY <1>3 DEF Flushing, Wiping, At
<1>4. ASSUME NEW t \in Slots, At(t, "wiping")
      PROVE  Stored = buffer /\ Erased = Data(row)
    <2>1. Wiping # {} /\ Flushing = {}
        BY <1>4 DEF Flushing, Wiping, At, CallsInv
    <2> QED BY <1>1, <2>1 DEF Stored, Pending, Erased
<1>5. ASSUME NEW t \in Slots, At(t, "reading") \/ At(t, "writing")
      PROVE  Stored = (Data(row) \o task[t].pending) \o buffer /\ Erased = <<>>
    <2>1. Wiping = {} /\ Flushing = {t}
        BY <1>5 DEF Flushing, Wiping, At, CallsInv
    <2> QED BY <2>1 DEF Stored, Pending, Erased
<1>6. ASSUME NEW t \in Slots, At(t, "loading") \/ At(t, "sending")
      PROVE  Flushing = {} /\ Wiping = {}
    BY <1>6 DEF Flushing, Wiping, At, CallsInv
<1> QED BY <1>2, <1>3, <1>4, <1>5, <1>6 DEF StageFacts

LEMMA BoardOfStageNext == CallsInv' => StageFacts'
BY BoardOfStage, PTL

(* What is on the board before the operations that are only buffered.       *)
Base == (IF Wiping # {} THEN <<>> ELSE Data(row)) \o Pending

BoardTyped ==
    /\ Base \in Seq(Ops) /\ Stored = Base \o buffer
    /\ Stored \in Seq(Ops) /\ Erased \in Seq(Ops)

LEMMA BaseTyped == CallsInv => BoardTyped
<1> SUFFICES ASSUME CallsInv PROVE BoardTyped
    OBVIOUS
<1>1. Pending \in Seq(Ops)
    <2>1. CASE Flushing = {}
        BY <2>1 DEF Pending
    <2>2. CASE Flushing # {}
        <3>1. PICK t \in Flushing : t = CHOOSE u \in Flushing : TRUE
            BY <2>2
        <3>2. task[t] \in Task
            BY <3>1 DEF Flushing, At, Idle, CallsInv
        <3> QED BY <2>2, <3>1, <3>2 DEF Pending, Task
    <2> QED BY <2>1, <2>2
<1>2. (IF Wiping # {} THEN <<>> ELSE Data(row)) \in Seq(Ops) /\ Erased \in Seq(Ops)
    BY DataTyped DEF Erased
<1>3. Base \in Seq(Ops)
    BY <1>1, <1>2 DEF Base
<1>4. Stored = Base \o buffer
    BY DEF Stored, Base
<1> QED BY <1>2, <1>3, <1>4 DEF CallsInv, BoardTyped

LEMMA BaseTypedNext == CallsInv' => BoardTyped'
BY BaseTyped, PTL

(* A call that starts waits alone; one that goes on was alone.              *)
Alone(t, new) ==
    /\ task' \in [Slots -> Task \cup {None}]
    /\ task'[t] = new
    /\ \A u \in Slots : u # t => task'[u] = None

LEMMA StartsAlone ==
    ASSUME CallsInv, Serial, NEW t \in Slots, NEW new \in Task, Start(t, new)
    PROVE  Alone(t, new) /\ \A u \in Slots : Idle(u)
BY DEF CallsInv, Start, MayStart, Idle, Alone

LEMMA GoesOnAlone ==
    ASSUME CallsInv, NEW t \in Slots, ~Idle(t), NEW new \in Task \cup {None},
           task' = [task EXCEPT ![t] = new]
    PROVE  Alone(t, new)
BY DEF CallsInv, Idle, Alone

LEMMA AloneKeeps ==
    ASSUME NEW t \in Slots, NEW new \in Task \cup {None}, Alone(t, new),
           buffer' \in Seq(Ops), recorded' \in Seq(Ops), row' \in Row \cup {None},
           new # None /\ new.stage = "writing" => new.read = row',
           new # None /\ new.stage = "wiping" => buffer' = recorded'
    PROVE  CallsInv'
BY DEF CallsInv, Alone, Idle, At

LEMMA NewTaskTyped ==
    ASSUME NEW stage \in Stages, NEW pending \in Seq(Ops), NEW c \in Clients \cup {None},
           NEW owed \in SUBSET Ops
    PROVE  /\ NewTask(stage, pending, c, owed) \in Task
           /\ NewTask(stage, pending, c, owed) # None
           /\ NewTask(stage, pending, c, owed).stage = stage
           /\ NewTask(stage, pending, c, owed).pending = pending
BY NoneAssumption DEF NewTask, Task

LEMMA SomeTask ==
    ASSUME NEW stage \in Stages, NEW pending \in Seq(Ops), NEW c \in Clients \cup {None},
           NEW owed \in SUBSET Ops
    PROVE  \E new \in Task : /\ new = NewTask(stage, pending, c, owed)
                             /\ new.stage = stage /\ new.owed = owed
    <1>1. NewTask(stage, pending, c, owed).owed = owed
        BY DEF NewTask
    <1>. QED  BY <1>1, NewTaskTyped

(* The tasks that nobody waits for.                                         *)
LEMMA FlushTask ==
    ASSUME NEW pending \in Seq(Ops)
    PROVE  \E new \in Task : /\ new = NewTask("reading", pending, None, {})
                             /\ new.stage = "reading" /\ new.owed = {}
    <1>. DEFINE new == NewTask("reading", pending, None, {})
    <1>1. None \in Clients \cup {None} /\ {} \in SUBSET Ops /\ "reading" \in Stages
        BY DEF Stages
    <1>2. new \in Task /\ new.stage = "reading"
        BY <1>1, NewTaskTyped
    <1>3. new.owed = {}
        BY DEF NewTask
    <1>. HIDE DEF new
    <1>4. \E x \in Task : x = new /\ x.stage = "reading" /\ x.owed = {}
        BY <1>2, <1>3
    <1>. QED  BY <1>4 DEF new

LEMMA WipeTask ==
    \E new \in Task : /\ new = NewTask("wiping", <<>>, None, {})
                      /\ new.stage = "wiping" /\ new.owed = {}
    <1>. DEFINE new == NewTask("wiping", <<>>, None, {})
    <1>1. /\ None \in Clients \cup {None} /\ {} \in SUBSET Ops /\ "wiping" \in Stages
          /\ <<>> \in Seq(Ops)
        BY DEF Stages
    <1>2. new \in Task /\ new.stage = "wiping"
        <2>1. PICK empty \in Seq(Ops) : empty = <<>>
            BY <1>1
        <2>2. /\ NewTask("wiping", empty, None, {}) \in Task
              /\ NewTask("wiping", empty, None, {}).stage = "wiping"
            BY <1>1, NewTaskTyped
        <2>. QED  BY <2>1, <2>2
    <1>3. new.owed = {}
        BY DEF NewTask
    <1>. HIDE DEF new
    <1>4. \E x \in Task : x = new /\ x.stage = "wiping" /\ x.owed = {}
        BY <1>2, <1>3
    <1>. QED  BY <1>4 DEF new

(* The call in slot t, once its flush is over.                              *)
AfterFlush(t) == IF task[t].client = None THEN None
                 ELSE [task[t] EXCEPT !.stage = "loading", !.pending = <<>>, !.read = None]

LEMMA LoadingTyped ==
    ASSUME NEW k \in Task, NEW e \in Seq(Ops)
    PROVE  /\ [k EXCEPT !.stage = "loading", !.pending = e, !.read = None] \in Task
           /\ [k EXCEPT !.stage = "loading", !.pending = e, !.read = None].stage = "loading"
BY DEF Task, Stages

LEMMA FlushOver ==
    ASSUME CallsInv, NEW t \in Slots, ~Idle(t), EndFlush(t)
    PROVE  /\ Alone(t, AfterFlush(t)) /\ AfterFlush(t) \in Task \cup {None}
           /\ AfterFlush(t) # None => AfterFlush(t).stage = "loading"
<1>1. task[t] \in Task /\ <<>> \in Seq(Ops)
    BY DEF CallsInv, Idle
<1>2. AfterFlush(t) \in Task \cup {None}
      /\ (AfterFlush(t) # None => AfterFlush(t).stage = "loading")
    BY <1>1, LoadingTyped DEF AfterFlush
<1>3. task' = [task EXCEPT ![t] = AfterFlush(t)]
    BY DEF EndFlush, AfterFlush, CallsInv
<1> QED BY <1>2, <1>3, GoesOnAlone

-----------------------------------------------------------------------------
(* What a step does to the board and to what was recorded.                  *)
Added(op) == Board!Add(op) /\ recorded' = Append(recorded, op)
Forgot(n) == n \in 1 .. Len(Stored) /\ Board!Forget(n) /\ recorded' = recorded
ClearedAt(n) == n \in 0 .. Len(Stored) /\ Board!Clear(n) /\ recorded' = <<>>
Done == Board!Cleared /\ recorded' = recorded
Back == Board!NotCleared /\ Stored = recorded /\ recorded' = Erased \o recorded
Steady == UNCHANGED <<Stored, Erased, recorded>>

Change ==
    \/ \E op \in Ops : Added(op)
    \/ \E n \in 1 .. Len(Stored) : Forgot(n)
    \/ \E n \in 0 .. Len(Stored) : ClearedAt(n)
    \/ Done
    \/ Back
    \/ Steady

(* recordOp below the limit.                                                *)
LEMMA QueuedStep ==
    ASSUME CallsInv, NEW op \in Ops, RecordQueued(op)
    PROVE  CallsInv' /\ Change
<1>1. CallsInv'
    BY DEF CallsInv, RecordQueued, New, At, Idle
<1>2. Base' = Base /\ Erased' = Erased
    BY DEF Base, Erased, RecordQueued, Wiping, Pending, Flushing, At, Idle
<1>3. Stored = Base \o buffer /\ Stored' = Base \o Append(buffer, op) /\ Base \in Seq(Ops)
    BY <1>1, <1>2, BaseTyped, BaseTypedNext DEF RecordQueued, BoardTyped
<1>4. Stored' = Append(Stored, op)
    BY <1>3, AppendRight DEF CallsInv
<1>5. Added(op)
    BY <1>2, <1>4 DEF Added, Board!Add, RecordQueued, New
<1> QED BY <1>1, <1>5 DEF Change

(* What a flush that nobody waits for is started with.                      *)
LEMMA NobodyWaits ==
    /\ "reading" \in {"reading", "loading"} /\ "reading" # "loading"
    /\ None \in Clients \cup {None} /\ {} \in SUBSET Ops
OBVIOUS

(* What was buffered, with or without one more operation, is taken.         *)
LEMMA Taken ==
    ASSUME CallsInv, Serial, NEW t \in Slots, NEW taken \in Seq(Ops),
           NEW stage \in {"reading", "loading"}, NEW c \in Clients \cup {None},
           NEW owed \in SUBSET Ops,
           stage = "loading" => taken = <<>>,
           Start(t, NewTask(stage, taken, c, owed)),
           TakeBuffer, row' = row, recorded' \in Seq(Ops)
    PROVE  /\ CallsInv' /\ Erased = <<>> /\ Erased' = <<>>
           /\ Stored = Data(row) \o buffer /\ Stored' = Data(row) \o taken
<1> DEFINE new == NewTask(stage, taken, c, owed)
<1>1. new \in Task /\ new # None /\ new.stage = stage /\ new.pending = taken
    BY NewTaskTyped DEF Stages
<1>2. Alone(t, new) /\ \A u \in Slots : Idle(u)
    BY <1>1, StartsAlone
<1>3. CallsInv'
    <2>1. buffer' \in Seq(Ops) /\ row' \in Row \cup {None}
        BY DEF TakeBuffer, CallsInv
    <2> QED BY <1>1, <1>2, <2>1, AloneKeeps
<1>4. Stored = Data(row) \o buffer /\ Erased = <<>>
    BY <1>2, BoardOfStage DEF StageFacts
<1>5. task'[t] = new /\ task'[t] # None /\ task'[t].stage = stage /\ task'[t].pending = taken
    BY <1>1, <1>2 DEF Alone
<1> HIDE DEF new
<1>6. StageFacts'
    BY <1>3, BoardOfStageNext
<1>7. Data(row)' = Data(row) /\ Data(row) \in Seq(Ops) /\ buffer' = <<>>
    BY DataTyped DEF Data, TakeBuffer
<1>8. CASE stage = "reading"
    <2>1. Stored' = (Data(row) \o taken) \o <<>> /\ Erased' = <<>>
        BY <1>5, <1>6, <1>7, <1>8 DEF StageFacts, At, Idle
    <2> QED BY <1>3, <1>4, <1>7, <2>1, EmptyLeft
<1>9. CASE stage = "loading"
    <2>1. Stored' = Data(row) \o <<>> /\ Erased' = <<>>
        BY <1>5, <1>6, <1>7, <1>9 DEF StageFacts, At, Idle
    <2> QED BY <1>3, <1>4, <1>9, <2>1
<1> QED BY <1>8, <1>9

LEMMA FlushedStep ==
    ASSUME CallsInv, Serial, NEW op \in Ops, RecordFlushed(op)
    PROVE  CallsInv' /\ Change
<1>1. PICK t \in Slots : Start(t, NewTask("reading", Append(buffer, op), None, {}))
    BY DEF RecordFlushed
<1>2. Append(buffer, op) \in Seq(Ops) /\ TakeBuffer /\ row' = row
      /\ recorded' = Append(recorded, op) /\ recorded' \in Seq(Ops)
    BY DEF CallsInv, RecordFlushed, New
<1>3. /\ CallsInv' /\ Erased = <<>> /\ Erased' = <<>>
      /\ Stored = Data(row) \o buffer /\ Stored' = Data(row) \o Append(buffer, op)
    BY <1>1, <1>2, NobodyWaits, Taken
<1>4. Stored' = Append(Stored, op)
    BY <1>3, DataTyped, AppendRight DEF CallsInv
<1>5. Added(op)
    BY <1>2, <1>3, <1>4 DEF Added, Board!Add
<1> QED BY <1>3, <1>5 DEF Change

LEMMA TimerStep ==
    ASSUME CallsInv, Serial, TimerFires
    PROVE  CallsInv' /\ Change
<1>1. CASE buffer = <<>>
    <2>1. UNCHANGED <<buffer, row, task, recorded>>
        BY <1>1 DEF TimerFires
    <2>2. CallsInv'
        BY <2>1 DEF CallsInv, At, Idle
    <2>3. Steady
        BY <2>1 DEF Steady, Stored, Erased, Wiping, Pending, Flushing, At, Idle
    <2> QED BY <2>2, <2>3 DEF Change
<1>2. CASE buffer # <<>>
    <2>1. PICK t \in Slots : Start(t, NewTask("reading", buffer, None, {}))
        BY <1>2 DEF TimerFires
    <2>2. TakeBuffer /\ row' = row /\ recorded' = recorded /\ recorded' \in Seq(Ops)
          /\ buffer \in Seq(Ops)
        BY <1>2 DEF TimerFires, CallsInv
    <2>3. CallsInv' /\ Erased = <<>> /\ Erased' = <<>> /\ Stored' = Stored
        BY <2>1, <2>2, NobodyWaits, Taken
    <2> QED BY <2>2, <2>3 DEF Change, Steady
<1> QED BY <1>1, <1>2

LEMMA RequestStep ==
    ASSUME CallsInv, Serial, NEW c \in Clients, Request(c)
    PROVE  CallsInv' /\ Change
<1> DEFINE stage == IF buffer = <<>> THEN "loading" ELSE "reading"
<1>1. PICK t \in Slots : Start(t, NewTask(stage, buffer, c, ToSet(recorded)))
    BY DEF Request
<1>2. /\ TakeBuffer /\ row' = row /\ recorded' = recorded /\ recorded' \in Seq(Ops)
      /\ buffer \in Seq(Ops) /\ stage \in {"reading", "loading"}
      /\ (stage = "loading" => buffer = <<>>)
      /\ c \in Clients \cup {None}
    BY DEF Request, CallsInv
<1>3. ToSet(recorded) \in SUBSET Ops
    BY DEF CallsInv, ToSet
<1> HIDE DEF stage
<1>4. CallsInv' /\ Erased = <<>> /\ Erased' = <<>> /\ Stored' = Stored
    BY <1>1, <1>2, <1>3, Taken
<1> QED BY <1>2, <1>4 DEF Change, Steady

(* The board after a step that leaves only the call in slot t, as `new'.    *)
LEMMA AloneBoard ==
    ASSUME CallsInv', NEW t \in Slots, NEW new \in Task \cup {None}, Alone(t, new)
    PROVE  /\ new = None \/ new.stage \in {"loading", "sending"} =>
                 Stored' = Data(row') \o buffer' /\ Erased' = <<>>
           /\ new # None /\ new.stage \in {"reading", "writing"} =>
                 Stored' = (Data(row') \o new.pending) \o buffer' /\ Erased' = <<>>
           /\ new # None /\ new.stage = "wiping" =>
                 Stored' = buffer' /\ Erased' = Data(row')
<1>1. StageFacts' /\ Data(row)' = Data(row')
    BY BoardOfStageNext DEF Data
<1>2. CASE new = None
    <2>1. \A u \in Slots : task'[u] = None
        BY <1>2 DEF Alone
    <2> QED BY <1>1, <1>2, <2>1, NoneAssumption DEF StageFacts, Idle
<1>3. CASE new # None
    <2>1. task'[t] = new /\ task'[t] # None
        BY <1>3 DEF Alone
    <2> QED BY <1>1, <1>3, <2>1 DEF StageFacts, At, Idle
<1> QED BY <1>2, <1>3

(* clear.                                                                   *)
LEMMA ClearStep ==
    ASSUME CallsInv, Serial, Clear
    PROVE  CallsInv' /\ Change
<1> DEFINE new == NewTask("wiping", <<>>, None, {})
<1>0. <<>> \in Seq(Ops) /\ None \in Clients \cup {None} /\ {} \in SUBSET Ops
      /\ "wiping" \in Stages
    BY DEF Stages
<1>1. new \in Task /\ new # None /\ new.stage = "wiping"
    <2>1. PICK empty \in Seq(Ops) : empty = <<>>
        BY <1>0
    <2>2. /\ NewTask("wiping", empty, None, {}) \in Task
          /\ NewTask("wiping", empty, None, {}) # None
          /\ NewTask("wiping", empty, None, {}).stage = "wiping"
        BY <1>0, NewTaskTyped
    <2> QED BY <2>1, <2>2
<1> HIDE DEF new
<1>2. PICK t \in Slots : MayStart(t) /\
          task' = [u \in Slots |-> IF u = t THEN new
                                   ELSE IF Idle(u) THEN None ELSE [task[u] EXCEPT !.owed = {}]]
    BY DEF Clear, new
<1>3. \A u \in Slots : Idle(u)
    BY <1>2 DEF MayStart
<1>4. Alone(t, new)
    BY <1>1, <1>2, <1>3 DEF Alone
<1>5. buffer' = <<>> /\ recorded' = <<>> /\ row' = row /\ row \in Row \cup {None}
    BY DEF Clear, CallsInv
<1>6. CallsInv'
    BY <1>0, <1>1, <1>4, <1>5, AloneKeeps
<1>7. Stored' = <<>> /\ Erased' = Data(row)
    BY <1>1, <1>4, <1>5, <1>6, AloneBoard
<1>8. Stored = Data(row) \o buffer /\ Erased = <<>>
    BY <1>3, BoardOfStage DEF StageFacts
<1>9. ClearedAt(Len(Data(row)))
    <2>1. Data(row) \in Seq(Ops) /\ buffer \in Seq(Ops)
        BY DataTyped DEF CallsInv
    <2>2. Len(Data(row)) \in 0 .. Len(Stored) /\ SubSeq(Stored, 1, Len(Data(row))) = Data(row)
        BY <1>8, <2>1, PartBefore
    <2> QED BY <1>5, <1>7, <1>8, <2>2 DEF ClearedAt, Board!Clear
<1>10. Len(Data(row)) \in 0 .. Len(Stored)
    BY <1>9 DEF ClearedAt
<1> QED BY <1>6, <1>9, <1>10 DEF Change

LEMMA WipeStep ==
    ASSUME CallsInv, NEW t \in Slots, Wipe(t)
    PROVE  CallsInv' /\ Change
<1>1. ~Idle(t) /\ None \in Task \cup {None}
    BY DEF Wipe, At
<1>2. Alone(t, None)
    BY <1>1, GoesOnAlone DEF Wipe
<1>3. /\ row' \in Row /\ Data(row') = <<>>
      /\ buffer' = buffer /\ buffer \in Seq(Ops) /\ recorded' = recorded /\ recorded \in Seq(Ops)
    <2>1. NextRevision(row) \in Nat
        BY DEF CallsInv, NextRevision, Row
    <2>2. <<>> \in Seq(Ops)
        OBVIOUS
    <2>3. row' \in Row
        BY <2>1, <2>2 DEF Wipe, Row
    <2> QED BY <2>3, NoneAssumption DEF Wipe, CallsInv, Data
<1>4. CallsInv'
    BY <1>1, <1>2, <1>3, AloneKeeps
<1>5. Stored' = <<>> \o buffer /\ Erased' = <<>>
    BY <1>1, <1>2, <1>3, <1>4, AloneBoard
<1>6. Stored = buffer
    BY BoardOfStage DEF StageFacts, Wipe
<1>7. Done
    BY <1>3, <1>5, <1>6, EmptyLeft DEF Done, Board!Cleared
<1> QED BY <1>4, <1>7 DEF Change

LEMMA WipeFailsStep ==
    ASSUME CallsInv, NEW t \in Slots, WipeFails(t)
    PROVE  CallsInv' /\ Change
<1>1. ~Idle(t) /\ None \in Task \cup {None}
    BY DEF WipeFails, At
<1>2. Alone(t, None)
    BY <1>1, GoesOnAlone DEF WipeFails
<1>3. /\ Data(row) \in Seq(Ops) /\ buffer' = buffer /\ buffer \in Seq(Ops) /\ row' = row
      /\ row \in Row \cup {None} /\ recorded' = Data(row) \o recorded /\ recorded \in Seq(Ops)
    BY DataTyped DEF WipeFails, CallsInv
<1>4. CallsInv'
    <2>1. recorded' \in Seq(Ops)
        BY <1>3
    <2> QED BY <1>1, <1>2, <1>3, <2>1, AloneKeeps
<1>5. Stored' = Data(row) \o buffer /\ Erased' = <<>>
    BY <1>1, <1>2, <1>3, <1>4, AloneBoard
<1>6. Stored = buffer /\ Erased = Data(row) /\ buffer = recorded
    BY BoardOfStage DEF StageFacts, WipeFails, CallsInv
<1>7. Back
    BY <1>3, <1>5, <1>6 DEF Back, Board!NotCleared
<1> QED BY <1>4, <1>7 DEF Change

LEMMA ReadStep ==
    ASSUME CallsInv, NEW t \in Slots, FlushRead(t)
    PROVE  CallsInv' /\ Change
<1> DEFINE new == [task[t] EXCEPT !.stage = "writing", !.read = row]
<1>1. ~Idle(t) /\ task[t] \in Task /\ row \in Row \cup {None} /\ At(t, "reading")
    BY DEF FlushRead, At, Idle, CallsInv
<1>2. /\ new \in Task /\ new.stage = "writing" /\ new.read = row
      /\ new.pending = task[t].pending
    BY <1>1 DEF Task, Stages
<1>3. new # None
    BY <1>2, NoneAssumption
<1>4. task' = [task EXCEPT ![t] = new]
    BY DEF FlushRead
<1> HIDE DEF new
<1>5. Alone(t, new)
    BY <1>1, <1>2, <1>4, GoesOnAlone
<1>6. /\ UNCHANGED <<buffer, row, recorded>> /\ buffer' \in Seq(Ops) /\ recorded' \in Seq(Ops)
      /\ row' \in Row \cup {None}
    BY DEF FlushRead, CallsInv
<1>7. CallsInv'
    BY <1>2, <1>5, <1>6, AloneKeeps
<1>8. Stored' = (Data(row') \o new.pending) \o buffer' /\ Erased' = <<>>
    BY <1>2, <1>3, <1>5, <1>7, AloneBoard
<1>9. Stored = (Data(row) \o task[t].pending) \o buffer /\ Erased = <<>>
    BY <1>1, BoardOfStage DEF StageFacts
<1> QED BY <1>2, <1>6, <1>7, <1>8, <1>9 DEF Change, Steady

(* What a flush writes: the trimmed merge.                                  *)
LEMMA NewestDrops ==
    ASSUME NEW s \in Seq(Ops)
    PROVE  \E n \in 0 .. Len(s) : /\ Newest(MaxSnapshot, s) = SubSeq(s, n + 1, Len(s))
                                  /\ n = 0 \/ Len(s) - n >= MaxSnapshot
<1>1. Len(s) \in Nat /\ MaxSnapshot \in Nat
    BY LimitsAssumption
<1>2. CASE Len(s) > MaxSnapshot
    <2>1. Len(s) - MaxSnapshot \in 0 .. Len(s)
          /\ Len(s) - (Len(s) - MaxSnapshot) >= MaxSnapshot
        BY <1>1, <1>2
    <2>2. Newest(MaxSnapshot, s) = SubSeq(s, (Len(s) - MaxSnapshot) + 1, Len(s))
        BY <1>2 DEF Newest
    <2> QED BY <2>1, <2>2
<1>3. CASE ~(Len(s) > MaxSnapshot)
    <2>1. Newest(MaxSnapshot, s) = SubSeq(s, 0 + 1, Len(s))
        BY <1>3, SubSeqFull DEF Newest
    <2>2. 0 \in 0 .. Len(s)
        BY <1>1
    <2> QED BY <2>1, <2>2
<1> QED BY <1>2, <1>3

LEMMA WriteStep ==
    ASSUME CallsInv, NEW t \in Slots, FlushWrite(t)
    PROVE  CallsInv' /\ Change
<1> DEFINE merged == Data(row) \o task[t].pending
<1>1. /\ ~Idle(t) /\ task[t] \in Task /\ row \in Row \cup {None} /\ At(t, "writing")
      /\ task[t].read = row /\ EndFlush(t)
    BY DEF FlushWrite, At, Idle, CallsInv
<1>2. Data(row) \in Seq(Ops) /\ task[t].pending \in Seq(Ops) /\ merged \in Seq(Ops)
    BY <1>1, DataTyped DEF Task
<1>3. PICK n \in 0 .. Len(merged) :
          /\ Newest(MaxSnapshot, merged) = SubSeq(merged, n + 1, Len(merged))
          /\ n = 0 \/ Len(merged) - n >= MaxSnapshot
    BY <1>2, NewestDrops
<1>4. Merged(t) = SubSeq(merged, n + 1, Len(merged)) /\ Merged(t) \in Seq(Ops)
    BY <1>1, <1>2, <1>3, DropFacts DEF Merged
<1>5. row' \in Row /\ Data(row') = Merged(t)
    <2>1. Revised(t) \in Nat
        BY <1>1 DEF Revised, NextRevision, Row
    <2>2. row' = [data |-> Merged(t), revision |-> Revised(t)]
        BY DEF FlushWrite
    <2>3. row' \in Row /\ row'.data = Merged(t)
        BY <1>4, <2>1, <2>2 DEF Row
    <2> QED BY <2>3, NoneAssumption DEF Data
<1>6. UNCHANGED <<buffer, recorded>> /\ buffer \in Seq(Ops) /\ recorded \in Seq(Ops)
    BY DEF FlushWrite, CallsInv
<1>7. /\ Alone(t, AfterFlush(t)) /\ AfterFlush(t) \in Task \cup {None}
      /\ AfterFlush(t) # None => AfterFlush(t).stage = "loading"
    BY <1>1, FlushOver
<1>8. CallsInv'
    BY <1>5, <1>6, <1>7, AloneKeeps
<1>9. Stored' = Merged(t) \o buffer /\ Erased' = <<>>
    BY <1>5, <1>6, <1>7, <1>8, AloneBoard
<1>10. Stored = merged \o buffer /\ Erased = <<>>
    BY <1>1, BoardOfStage DEF StageFacts
<1> HIDE DEF merged
<1>11. /\ Stored' = SubSeq(Stored, n + 1, Len(Stored))
       /\ Stored \in Seq(Ops) /\ Len(Stored) = Len(merged) + Len(buffer)
    BY <1>2, <1>4, <1>6, <1>9, <1>10, DropOfConcat, ConcatProperties
<1>12. Len(merged) \in Nat /\ Len(buffer) \in Nat
    BY <1>2, <1>6
<1>13. CASE n = 0
    <2>1. Stored' = Stored
        BY <1>11, <1>13, SubSeqFull
    <2> QED BY <1>6, <1>8, <1>9, <1>10, <2>1 DEF Change, Steady
<1>14. CASE n # 0
    <2>1. n \in 1 .. Len(Stored) /\ Len(Stored) - n >= MaxSnapshot /\ n < Len(Stored)
        BY <1>3, <1>11, <1>12, <1>14, LimitsAssumption
    <2>2. Forgot(n)
        BY <1>6, <1>9, <1>10, <1>11, <2>1 DEF Forgot, Board!Forget
    <2> QED BY <1>8, <2>1, <2>2 DEF Change
<1> QED BY <1>13, <1>14

LEMMA FailStep ==
    ASSUME CallsInv, NEW t \in Slots, FlushFails(t)
    PROVE  CallsInv' /\ Change
<1>1. /\ ~Idle(t) /\ task[t] \in Task /\ row \in Row \cup {None}
      /\ At(t, "reading") \/ At(t, "writing")
      /\ EndFlush(t) /\ buffer' = task[t].pending \o buffer
    BY DEF FlushFails, PushBack, At, Idle, CallsInv
<1>2. /\ Data(row) \in Seq(Ops) /\ task[t].pending \in Seq(Ops) /\ buffer \in Seq(Ops)
      /\ buffer' \in Seq(Ops) /\ UNCHANGED <<row, recorded>> /\ recorded \in Seq(Ops)
    BY <1>1, DataTyped DEF Task, FlushFails, CallsInv
<1>3. /\ Alone(t, AfterFlush(t)) /\ AfterFlush(t) \in Task \cup {None}
      /\ AfterFlush(t) # None => AfterFlush(t).stage = "loading"
    BY <1>1, FlushOver
<1>4. CallsInv'
    BY <1>1, <1>2, <1>3, AloneKeeps
<1>5. Stored' = Data(row) \o (task[t].pending \o buffer) /\ Erased' = <<>>
    BY <1>1, <1>2, <1>3, <1>4, AloneBoard
<1>6. Stored = (Data(row) \o task[t].pending) \o buffer /\ Erased = <<>>
    BY <1>1, BoardOfStage DEF StageFacts
<1>7. Stored' = Stored
    <2> DEFINE held == Data(row)
               taken == task[t].pending
    <2>1. held \in Seq(Ops) /\ taken \in Seq(Ops) /\ buffer \in Seq(Ops)
        BY <1>2
    <2> HIDE DEF held, taken
    <2>2. (held \o taken) \o buffer = held \o (taken \o buffer)
        BY <2>1, ConcatAssociative
    <2> QED BY <1>5, <1>6, <2>2 DEF held, taken
<1> QED BY <1>2, <1>4, <1>5, <1>6, <1>7 DEF Change, Steady

(* Reading the row for a snapshot, and answering it.                        *)
LEMMA LoadStep ==
    ASSUME CallsInv, NEW t \in Slots, Load(t) \/ LoadFails(t) \/ Send(t)
    PROVE  CallsInv' /\ Change
<1>1. /\ ~Idle(t) /\ task[t] \in Task /\ row \in Row \cup {None}
      /\ At(t, "loading") \/ At(t, "sending")
    BY DEF Load, LoadFails, Send, At, Idle, CallsInv
<1>2. UNCHANGED <<buffer, row, recorded>> /\ buffer \in Seq(Ops) /\ recorded \in Seq(Ops)
    BY DEF Load, LoadFails, Send, CallsInv
<1>3. PICK new \in Task \cup {None} : /\ task' = [task EXCEPT ![t] = new]
                                      /\ new # None => new.stage = "sending"
    <2>1. CASE Load(t)
        <3>1. /\ [task[t] EXCEPT !.stage = "sending", !.read = row] \in Task
              /\ [task[t] EXCEPT !.stage = "sending", !.read = row].stage = "sending"
            BY <1>1 DEF Task, Stages
        <3> QED BY <2>1, <3>1 DEF Load
    <2>2. CASE LoadFails(t)
        <3>1. /\ [task[t] EXCEPT !.stage = "sending"] \in Task
              /\ [task[t] EXCEPT !.stage = "sending"].stage = "sending"
            BY <1>1 DEF Task, Stages
        <3> QED BY <2>2, <3>1 DEF LoadFails
    <2>3. CASE Send(t)
        BY <2>3 DEF Send
    <2> QED BY <2>1, <2>2, <2>3
<1>4. Alone(t, new)
    BY <1>1, <1>3, GoesOnAlone
<1>5. CallsInv'
    BY <1>1, <1>2, <1>3, <1>4, AloneKeeps
<1>6. Stored' = Data(row) \o buffer /\ Erased' = <<>>
    BY <1>2, <1>3, <1>4, <1>5, AloneBoard
<1>7. Stored = Data(row) \o buffer /\ Erased = <<>>
    BY <1>1, BoardOfStage DEF StageFacts
<1> QED BY <1>2, <1>5, <1>6, <1>7 DEF Change, Steady

LEMMA StutterStep ==
    ASSUME CallsInv, UNCHANGED vars
    PROVE  CallsInv' /\ Change
<1>1. UNCHANGED <<buffer, row, task, recorded>>
    BY DEF vars
<1>2. CallsInv'
    BY <1>1 DEF CallsInv, At, Idle
<1>3. Steady
    BY <1>1 DEF Steady, Stored, Erased, Wiping, Pending, Flushing, At, Idle
<1> QED BY <1>2, <1>3 DEF Change

LEMMA EveryStep ==
    ASSUME CallsInv, Serial, [Next]_vars
    PROVE  CallsInv' /\ Change
<1>1. ASSUME NEW op \in Ops, Record(op) PROVE CallsInv' /\ Change
    BY <1>1, QueuedStep, FlushedStep DEF Record
<1>2. ASSUME NEW c \in Clients, Request(c) PROVE CallsInv' /\ Change
    BY <1>2, RequestStep
<1>3. ASSUME NEW t \in Slots, Answer(t) PROVE CallsInv' /\ Change
    BY <1>3, ReadStep, WriteStep, WipeStep, LoadStep DEF Answer
<1>4. ASSUME NEW t \in Slots, Failure(t) PROVE CallsInv' /\ Change
    BY <1>4, FailStep, WipeFailsStep, LoadStep DEF Failure
<1> QED BY <1>1, <1>2, <1>3, <1>4, TimerStep, ClearStep, StutterStep DEF Next

LEMMA BoardStarts ==
    ASSUME Init
    PROVE  CallsInv /\ Board!Init /\ recorded = <<>>
<1>1. CallsInv
    BY DEF Init, CallsInv, At, Idle
<1>2. (\A t \in Slots : Idle(t)) /\ Data(row) = <<>> /\ buffer = <<>> /\ recorded = <<>>
    BY DEF Init, Idle, Data
<1>3. Stored = <<>> /\ Erased = <<>>
    BY <1>1, <1>2, BoardOfStage, EmptyLeft DEF StageFacts, CallsInv
<1> QED BY <1>1, <1>2, <1>3 DEF Board!Init

-----------------------------------------------------------------------------
(* When calls do not overlap, the service is a BoardLog: whatever is        *)
(* flushed, merged, refused and pushed back, the board is one list that     *)
(* only an operation, a clear or the trimming of its oldest part changes.   *)
THEOREM ServiceIsABoard ==
    ASSUME Serial PROVE Spec => ImplementsBoard
<1>1. Init => CallsInv /\ Board!Init
    BY BoardStarts
<1>2. CallsInv /\ [Next]_vars => CallsInv' /\ [Board!Next]_(Board!vars)
    <2> SUFFICES ASSUME CallsInv, [Next]_vars PROVE CallsInv' /\ [Board!Next]_(Board!vars)
        OBVIOUS
    <2>1. CallsInv' /\ Change
        BY EveryStep
    <2> QED BY <2>1 DEF Change, Added, Forgot, ClearedAt, Done, Back, Steady, Board!Next, Board!vars
<1> QED BY <1>1, <1>2, PTL DEF Spec, ImplementsBoard, Board!Spec

(* The board is what was recorded, but for the oldest part that was trimmed. *)
OnlyTrimmed ==
    \E n \in 0 .. Len(recorded) :
        /\ Stored = SubSeq(recorded, n + 1, Len(recorded))
        /\ n = 0 \/ Len(recorded) - n >= MaxSnapshot

LEMMA OnlyTrimmedStep ==
    ASSUME CallsInv, CallsInv', OnlyTrimmed, Change
    PROVE  OnlyTrimmed'
<1>0. /\ recorded \in Seq(Ops) /\ Len(recorded) \in Nat
      /\ recorded' \in Seq(Ops) /\ Len(recorded') \in Nat
      /\ MaxSnapshot \in Nat
    BY LimitsAssumption DEF CallsInv
<1>1. PICK n \in 0 .. Len(recorded) :
          /\ Stored = SubSeq(recorded, n + 1, Len(recorded))
          /\ n = 0 \/ Len(recorded) - n >= MaxSnapshot
    BY DEF OnlyTrimmed
<1>2. ASSUME NEW op \in Ops, Added(op) PROVE OnlyTrimmed'
    <2>1. recorded' = Append(recorded, op) /\ Stored' = Append(Stored, op)
        BY <1>2 DEF Added, Board!Add
    <2>2. Len(recorded') = Len(recorded) + 1
        BY <1>0, <2>1
    <2>3. Stored' = SubSeq(recorded', n + 1, Len(recorded'))
        BY <1>0, <1>1, <2>1, DropThenAppend
    <2>4. n \in 0 .. Len(recorded') /\ (n = 0 \/ Len(recorded') - n >= MaxSnapshot)
        BY <1>0, <1>1, <2>2
    <2> QED BY <2>3, <2>4 DEF OnlyTrimmed
<1>3. ASSUME NEW k \in 1 .. Len(Stored), Forgot(k) PROVE OnlyTrimmed'
    <2>1. /\ recorded' = recorded /\ Len(Stored) - k >= MaxSnapshot
          /\ Stored' = SubSeq(Stored, k + 1, Len(Stored))
        BY <1>3 DEF Forgot, Board!Forget
    <2>2. Len(Stored) = Len(recorded) - n
        BY <1>0, <1>1, DropFacts
    <2>3. k \in 0 .. Len(recorded) - n
        BY <1>0, <1>1, <2>2
    <2>4. Stored' = SubSeq(recorded, n + k + 1, Len(recorded))
        BY <1>0, <1>1, <2>1, <2>3, DropTwice
    <2>5. n + k \in 0 .. Len(recorded) /\ Len(recorded) - (n + k) >= MaxSnapshot
        BY <1>0, <1>1, <2>1, <2>2, <2>3
    <2> QED BY <2>1, <2>4, <2>5 DEF OnlyTrimmed
<1>4. ASSUME recorded' = Stored', Stored' \in Seq(Ops) PROVE OnlyTrimmed'
    <2>1. Stored' = SubSeq(recorded', 0 + 1, Len(recorded')) /\ 0 \in 0 .. Len(recorded')
        BY <1>0, <1>4, SubSeqFull
    <2> QED BY <2>1 DEF OnlyTrimmed
<1>5. Stored' \in Seq(Ops)
    BY BaseTypedNext DEF BoardTyped
<1>6. ASSUME NEW k \in 0 .. Len(Stored), ClearedAt(k) PROVE OnlyTrimmed'
    BY <1>4, <1>5, <1>6 DEF ClearedAt, Board!Clear
<1>7. CASE Back
    BY <1>4, <1>5, <1>7 DEF Back, Board!NotCleared
<1>8. CASE Done \/ Steady
    <2>1. Stored' = Stored /\ recorded' = recorded
        BY <1>8 DEF Done, Steady, Board!Cleared
    <2> QED BY <1>1, <2>1 DEF OnlyTrimmed
<1> QED BY <1>2, <1>3, <1>6, <1>7, <1>8 DEF Change

LEMMA TrimmedIsSuffix == CallsInv /\ OnlyTrimmed => NothingLost
<1> SUFFICES ASSUME CallsInv, OnlyTrimmed PROVE NothingLost
    OBVIOUS
<1>0. recorded \in Seq(Ops) /\ Len(recorded) \in Nat /\ MaxSnapshot \in Nat
    BY LimitsAssumption DEF CallsInv
<1>1. PICK n \in 0 .. Len(recorded) :
          /\ Stored = SubSeq(recorded, n + 1, Len(recorded))
          /\ n = 0 \/ Len(recorded) - n >= MaxSnapshot
    BY DEF OnlyTrimmed
<1>2. IsSuffix(Stored, recorded) /\ Len(Stored) = Len(recorded) - n
    BY <1>0, <1>1, DropFacts, DroppedIsSuffix
<1>3. Len(Stored) >= IF Len(recorded) > MaxSnapshot THEN MaxSnapshot ELSE Len(recorded)
    BY <1>0, <1>1, <1>2
<1> QED BY <1>2, <1>3 DEF NothingLost

(* When calls do not overlap, nothing that was drawn since the last clear   *)
(* that was carried out is lost, put twice or out of order, however often   *)
(* Postgres refuses a statement; only what exceeds the newest MaxSnapshot   *)
(* is dropped.                                                              *)
THEOREM NothingIsLost ==
    ASSUME Serial PROVE Spec => []NothingLost
<1>1. Init => CallsInv /\ OnlyTrimmed
    <2> SUFFICES ASSUME Init PROVE CallsInv /\ OnlyTrimmed
        OBVIOUS
    <2>1. CallsInv /\ Stored = <<>> /\ recorded = <<>>
        BY BoardStarts DEF Board!Init
    <2>2. SubSeq(recorded, 0 + 1, Len(recorded)) = recorded /\ 0 \in 0 .. Len(recorded)
        BY <2>1, SubSeqFull DEF CallsInv
    <2> QED BY <2>1, <2>2 DEF OnlyTrimmed
<1>2. CallsInv /\ OnlyTrimmed /\ [Next]_vars => CallsInv' /\ OnlyTrimmed'
    BY EveryStep, OnlyTrimmedStep
<1> QED BY <1>1, <1>2, TrimmedIsSuffix, PTL DEF Spec

-----------------------------------------------------------------------------
(* Snapshots.  Until Postgres refuses something, what is buffered while a   *)
(* snapshot is being prepared was drawn after it was asked for.             *)
SnapshotInv ==
    /\ failures \in Nat
    /\ failures = 0 =>
          /\ ToSet(recorded) \subseteq used
          /\ \A t \in Slots : ~Idle(t) =>
                task[t].owed \subseteq used /\ task[t].owed \cap ToSet(buffer) = {}
          /\ SnapshotComplete

LEMMA ToSetFacts ==
    ASSUME NEW S, NEW s \in Seq(S), NEW e \in S
    PROVE  /\ ToSet(s) = {s[i] : i \in 1 .. Len(s)}
           /\ ToSet(Append(s, e)) = ToSet(s) \cup {e}
    <1>1. Len(s) \in Nat /\ DOMAIN s = 1 .. Len(s)
        OBVIOUS
    <1>2. /\ DOMAIN Append(s, e) = 1 .. Len(s) + 1 /\ Append(s, e)[Len(s) + 1] = e
          /\ \A i \in 1 .. Len(s) : Append(s, e)[i] = s[i]
        OBVIOUS
    <1>. QED  BY <1>1, <1>2 DEF ToSet

LEMMA ToSetOfConcat ==
    ASSUME NEW S, NEW a \in Seq(S), NEW b \in Seq(S)
    PROVE  ToSet(a \o b) \subseteq ToSet(a) \cup ToSet(b)
    <1>1. /\ Len(a) \in Nat /\ Len(b) \in Nat
          /\ DOMAIN a = 1 .. Len(a) /\ DOMAIN b = 1 .. Len(b)
        OBVIOUS
    <1>2. DOMAIN (a \o b) = 1 .. Len(a) + Len(b)
          /\ \A i \in 1 .. Len(a) + Len(b) :
                (a \o b)[i] = IF i <= Len(a) THEN a[i] ELSE b[i - Len(a)]
        BY ConcatProperties
    <1>. DEFINE c == a \o b
    <1>3. DOMAIN c = 1 .. Len(a) + Len(b)
          /\ \A i \in 1 .. Len(a) + Len(b) : c[i] = IF i <= Len(a) THEN a[i] ELSE b[i - Len(a)]
        BY <1>2
    <1>. HIDE DEF c
    <1>4. ASSUME NEW i \in DOMAIN c PROVE c[i] \in ToSet(a) \cup ToSet(b)
        <2>1. CASE i <= Len(a)
            BY <1>1, <1>3, <2>1 DEF ToSet
        <2>2. CASE ~(i <= Len(a))
            <3>1. i - Len(a) \in 1 .. Len(b)
                BY <1>1, <1>3, <2>2
            <3>. QED  BY <1>1, <1>3, <2>2, <3>1 DEF ToSet
        <2>. QED  BY <2>1, <2>2
    <1>5. ToSet(c) \subseteq ToSet(a) \cup ToSet(b)
        BY <1>4 DEF ToSet
    <1>. QED  BY <1>5 DEF c

LEMMA NewestElements ==
    ASSUME NEW s \in Seq(Ops)
    PROVE  ToSet(Newest(MaxSnapshot, s)) = {s[i] : i \in {j \in 1 .. Len(s) : j > Len(s) - MaxSnapshot}}
    <1>1. Len(s) \in Nat /\ MaxSnapshot \in Nat
        BY LimitsAssumption
    <1>2. CASE Len(s) > MaxSnapshot
        <2>. DEFINE n == Len(s) - MaxSnapshot
                    d == SubSeq(s, n + 1, Len(s))
        <2>1. n \in 0 .. Len(s)
            BY <1>1, <1>2
        <2>2. /\ d \in Seq(Ops) /\ Len(d) = Len(s) - n
              /\ \A i \in 1 .. Len(s) - n : d[i] = s[i + n]
            BY <2>1, DropFacts
        <2>3. Newest(MaxSnapshot, s) = d
            BY <1>2 DEF Newest
        <2>. HIDE DEF d
        <2>4. DOMAIN d = 1 .. MaxSnapshot
            BY <1>1, <2>2
        <2>5. \A i \in 1 .. MaxSnapshot : i + n \in 1 .. Len(s) /\ i + n > n /\ d[i] = s[i + n]
            BY <1>1, <1>2, <2>2
        <2>6. \A j \in 1 .. Len(s) : j > n => j - n \in 1 .. MaxSnapshot /\ d[j - n] = s[j]
            BY <1>1, <1>2, <2>2
        <2>. QED  BY <2>3, <2>4, <2>5, <2>6 DEF ToSet
    <1>3. CASE ~(Len(s) > MaxSnapshot)
        <2>1. Newest(MaxSnapshot, s) = s /\ DOMAIN s = 1 .. Len(s)
            BY <1>3 DEF Newest
        <2>2. \A j \in 1 .. Len(s) : j > Len(s) - MaxSnapshot
            BY <1>1, <1>3
        <2>. QED  BY <2>1, <2>2 DEF ToSet
    <1>. QED  BY <1>2, <1>3

LEMMA NewestOfAppend ==
    ASSUME NEW s \in Seq(Ops), NEW op \in Ops
    PROVE  ToSet(Newest(MaxSnapshot, Append(s, op)))
             \subseteq ToSet(Newest(MaxSnapshot, s)) \cup {op}
    <1>1. Len(s) \in Nat /\ MaxSnapshot \in Nat
        BY LimitsAssumption
    <1>. DEFINE a == Append(s, op)
    <1>2. /\ a \in Seq(Ops) /\ Len(a) = Len(s) + 1 /\ a[Len(s) + 1] = op
          /\ \A i \in 1 .. Len(s) : a[i] = s[i]
        OBVIOUS
    <1>. HIDE DEF a
    <1>3. \A j \in 1 .. Len(a) : j > Len(a) - MaxSnapshot =>
              a[j] = op \/ (j \in 1 .. Len(s) /\ j > Len(s) - MaxSnapshot /\ a[j] = s[j])
        BY <1>1, <1>2
    <1>4. ToSet(Newest(MaxSnapshot, a)) \subseteq ToSet(Newest(MaxSnapshot, s)) \cup {op}
        BY <1>2, <1>3, NewestElements
    <1>. QED  BY <1>4 DEF a

(* The newest operations are on the board.                                  *)
LEMMA NewestOnBoard ==
    ASSUME CallsInv, OnlyTrimmed
    PROVE  ToSet(Newest(MaxSnapshot, recorded)) \subseteq ToSet(Stored)
    <1>1. recorded \in Seq(Ops) /\ Len(recorded) \in Nat /\ MaxSnapshot \in Nat
        BY LimitsAssumption DEF CallsInv
    <1>2. PICK n \in 0 .. Len(recorded) :
              /\ Stored = SubSeq(recorded, n + 1, Len(recorded))
              /\ n = 0 \/ Len(recorded) - n >= MaxSnapshot
        BY DEF OnlyTrimmed
    <1>3. /\ Stored \in Seq(Ops) /\ Len(Stored) = Len(recorded) - n
          /\ \A i \in 1 .. Len(recorded) - n : Stored[i] = recorded[i + n]
        BY <1>1, <1>2, DropFacts
    <1>4. DOMAIN Stored = 1 .. Len(recorded) - n
        BY <1>3
    <1>5. ASSUME NEW j \in 1 .. Len(recorded), j > Len(recorded) - MaxSnapshot
          PROVE  recorded[j] \in ToSet(Stored)
        <2>1. j - n \in 1 .. Len(recorded) - n
            BY <1>1, <1>2, <1>5
        <2>2. Stored[j - n] = recorded[j]
            BY <1>1, <1>3, <2>1
        <2>. QED  BY <1>4, <2>1, <2>2 DEF ToSet
    <1>. QED  BY <1>1, <1>5, NewestElements

(* A step of the one call keeps the invariant if what it leaves fits.       *)
LEMMA SnapshotAlone ==
    ASSUME NEW t \in Slots, NEW new \in Task \cup {None}, Alone(t, new), failures' \in Nat,
           failures' = 0 =>
              /\ ToSet(recorded') \subseteq used'
              /\ new # None =>
                    /\ new.owed \subseteq used' /\ new.owed \cap ToSet(buffer') = {}
                    /\ new.stage = "sending" =>
                          new.owed \cap ToSet(Newest(MaxSnapshot, recorded'))
                              \subseteq ToSet(Data(new.read))
    PROVE  SnapshotInv'
    <1>. SUFFICES ASSUME failures' = 0
                  PROVE  /\ \A u \in Slots : ~Idle(u)' =>
                               task'[u].owed \subseteq used' /\ task'[u].owed \cap ToSet(buffer') = {}
                         /\ SnapshotComplete'
        BY DEF SnapshotInv
    <1>1. \A u \in Slots : ~Idle(u)' => task'[u] = new /\ new # None
        BY DEF Alone, Idle
    <1>2. \A u \in Slots : ~Idle(u)' =>
              task'[u].owed \subseteq used' /\ task'[u].owed \cap ToSet(buffer') = {}
        BY <1>1
    <1>3. ASSUME NEW u \in Slots, At(u, "sending")'
          PROVE  task'[u].owed \cap ToSet(Newest(MaxSnapshot, recorded'))
                     \subseteq ToSet(Data(task'[u].read))
        <2>1. task'[u] = new /\ new # None /\ new.stage = "sending"
            BY <1>1, <1>3 DEF At
        <2>. QED  BY <2>1
    <1>4. SnapshotComplete'
        <2>. SUFFICES ASSUME NEW u \in Slots, At(u, "sending")'
                      PROVE  (task[u].owed \cap ToSet(Newest(MaxSnapshot, recorded))
                                 \subseteq ToSet(Data(task[u].read)))'
            BY DEF SnapshotComplete
        <2>. QED  BY <1>3 DEF Data
    <1>. QED  BY <1>2, <1>4

LEMMA NothingBuffered == ToSet(<<>>) = {}
    BY DEF ToSet

(* A call starts, with an empty buffer behind it.                           *)
LEMMA SnapshotStarts ==
    ASSUME CallsInv, SnapshotInv, NEW t \in Slots, NEW new \in Task, Alone(t, new),
           new.stage # "sending", buffer' = <<>>, failures' = failures,
           failures = 0 => ToSet(recorded') \subseteq used' /\ new.owed \subseteq used'
    PROVE  SnapshotInv'
    <1>1. ToSet(buffer') = {}
        BY NothingBuffered
    <1>2. failures' \in Nat
        BY DEF SnapshotInv
    <1>. QED  BY <1>1, <1>2, SnapshotAlone

LEMMA SnapshotQueued ==
    ASSUME CallsInv, SnapshotInv, NEW op \in Ops, RecordQueued(op)
    PROVE  SnapshotInv'
    <1>1. /\ UNCHANGED <<task, failures>> /\ used' = used \cup {op} /\ op \notin used
          /\ recorded' = Append(recorded, op) /\ buffer' = Append(buffer, op)
          /\ recorded \in Seq(Ops) /\ buffer \in Seq(Ops) /\ failures \in Nat
        BY DEF RecordQueued, New, CallsInv, SnapshotInv
    <1>. SUFFICES ASSUME failures = 0 PROVE SnapshotInv'
        BY <1>1 DEF SnapshotInv
    <1>2. ToSet(recorded') = ToSet(recorded) \cup {op} /\ ToSet(buffer') = ToSet(buffer) \cup {op}
        BY <1>1, ToSetFacts
    <1>3. ToSet(Newest(MaxSnapshot, recorded'))
              \subseteq ToSet(Newest(MaxSnapshot, recorded)) \cup {op}
        BY <1>1, NewestOfAppend
    <1>4. \A t \in Slots : (Idle(t)' <=> Idle(t)) /\ (At(t, "sending")' <=> At(t, "sending"))
        BY <1>1 DEF At, Idle
    <1>5. \A t \in Slots : ~Idle(t) => task[t].owed \subseteq used /\ task[t].owed \cap ToSet(buffer) = {}
        BY DEF SnapshotInv
    <1>6. \A t \in Slots : At(t, "sending") =>
              task[t].owed \cap ToSet(Newest(MaxSnapshot, recorded')) \subseteq ToSet(Data(task[t].read))
        BY <1>1, <1>3, <1>5 DEF SnapshotInv, SnapshotComplete, At
    <1>7. SnapshotComplete'
        BY <1>1, <1>4, <1>6 DEF SnapshotComplete, Data
    <1>8. ToSet(recorded) \subseteq used
        BY DEF SnapshotInv
    <1>. QED  BY <1>1, <1>2, <1>4, <1>5, <1>7, <1>8 DEF SnapshotInv

LEMMA SnapshotCalls ==
    ASSUME CallsInv, SnapshotInv, Serial,
           \/ \E op \in Ops : RecordFlushed(op)
           \/ TimerFires \/ Clear
           \/ \E c \in Clients : Request(c)
    PROVE  SnapshotInv'
    <1>0. /\ <<>> \in Seq(Ops) /\ None \in Clients \cup {None} /\ {} \in SUBSET Ops
          /\ buffer \in Seq(Ops) /\ recorded \in Seq(Ops)
          /\ failures = 0 => ToSet(recorded) \subseteq used
        BY DEF CallsInv, SnapshotInv
    <1>1. ASSUME NEW op \in Ops, RecordFlushed(op) PROVE SnapshotInv'
        <2>1. Append(buffer, op) \in Seq(Ops)
            BY <1>0
        <2>2. PICK new \in Task :
                  /\ new = NewTask("reading", Append(buffer, op), None, {})
                  /\ new.stage = "reading" /\ new.owed = {}
            BY <2>1, FlushTask
        <2>3. PICK t \in Slots : Start(t, new)
            BY <1>1, <2>2 DEF RecordFlushed
        <2>4. /\ buffer' = <<>> /\ failures' = failures /\ used' = used \cup {op}
              /\ recorded' = Append(recorded, op)
            BY <1>1 DEF RecordFlushed, New, TakeBuffer
        <2>5. ToSet(recorded') = ToSet(recorded) \cup {op}
            BY <1>0, <2>4, ToSetFacts
        <2>. QED  BY <1>0, <2>2, <2>3, <2>4, <2>5, StartsAlone, SnapshotStarts
    <1>2. CASE TimerFires /\ buffer = <<>>
        BY <1>2 DEF TimerFires, SnapshotInv, SnapshotComplete, At, Idle, Data
    <1>3. CASE TimerFires /\ buffer # <<>>
        <2>1. PICK new \in Task :
                  /\ new = NewTask("reading", buffer, None, {})
                  /\ new.stage = "reading" /\ new.owed = {}
            BY <1>0, FlushTask
        <2>2. PICK t \in Slots : Start(t, new)
            BY <1>3, <2>1 DEF TimerFires
        <2>3. buffer' = <<>> /\ UNCHANGED <<failures, used, recorded>>
            BY <1>3 DEF TimerFires, TakeBuffer
        <2>. QED  BY <1>0, <2>1, <2>2, <2>3, StartsAlone, SnapshotStarts
    <1>4. CASE Clear
        <2>1. PICK new \in Task :
                  /\ new = NewTask("wiping", <<>>, None, {})
                  /\ new.stage = "wiping" /\ new.owed = {}
            BY WipeTask
        <2>2. PICK t \in Slots : MayStart(t) /\
                  task' = [u \in Slots |-> IF u = t THEN new
                                           ELSE IF Idle(u) THEN None ELSE [task[u] EXCEPT !.owed = {}]]
            BY <1>4, <2>1 DEF Clear
        <2>3. \A u \in Slots : Idle(u)
            BY <2>2 DEF MayStart
        <2>4. Alone(t, new)
            BY <2>1, <2>2, <2>3 DEF Alone
        <2>5. buffer' = <<>> /\ UNCHANGED <<failures, used>> /\ recorded' = <<>>
            BY <1>4 DEF Clear
        <2>6. ToSet(recorded') = {}
            BY <2>5, NothingBuffered
        <2>. QED  BY <2>1, <2>4, <2>5, <2>6, SnapshotStarts
    <1>5. ASSUME NEW c \in Clients, Request(c) PROVE SnapshotInv'
        <2>1. PICK stage \in Stages :
                  /\ stage = IF buffer = <<>> THEN "loading" ELSE "reading"
                  /\ stage # "sending"
            BY DEF Stages
        <2>2. PICK owed \in SUBSET Ops : owed = ToSet(recorded)
            <3>1. \A i \in DOMAIN recorded : recorded[i] \in Ops
                BY <1>0
            <3>2. ToSet(recorded) \subseteq Ops
                BY <3>1 DEF ToSet
            <3>. QED  BY <3>2
        <2>3. PICK new \in Task :
                  /\ new = NewTask(stage, buffer, c, owed)
                  /\ new.stage = stage /\ new.owed = owed
            BY <1>0, SomeTask
        <2>4. PICK t \in Slots : Start(t, new)
            BY <1>5, <2>1, <2>2, <2>3 DEF Request
        <2>5. buffer' = <<>> /\ UNCHANGED <<failures, used, recorded>>
            BY <1>5 DEF Request, TakeBuffer
        <2>. QED  BY <1>0, <2>1, <2>2, <2>3, <2>4, <2>5, StartsAlone, SnapshotStarts
    <1>. QED  BY <1>1, <1>2, <1>3, <1>4, <1>5

(* Where the call of slot t goes on or ends, and nothing is drawn.          *)
LEMMA SnapshotGoesOn ==
    ASSUME CallsInv, SnapshotInv, NEW t \in Slots, ~Idle(t), NEW new \in Task \cup {None},
           Alone(t, new), UNCHANGED <<buffer, recorded, used, failures>>,
           new # None => new.owed = task[t].owed,
           failures = 0 /\ new # None /\ new.stage = "sending" =>
              new.owed \cap ToSet(Newest(MaxSnapshot, recorded)) \subseteq ToSet(Data(new.read))
    PROVE  SnapshotInv'
    <1>1. /\ failures' \in Nat
          /\ failures = 0 => /\ ToSet(recorded) \subseteq used
                             /\ task[t].owed \subseteq used
                             /\ task[t].owed \cap ToSet(buffer) = {}
        BY DEF SnapshotInv
    <1>. QED  BY <1>1, SnapshotAlone

(* A task that has got the row.                                             *)
WithRow(k, stage, r) == [k EXCEPT !.stage = stage, !.read = r]

LEMMA WithRowTyped ==
    ASSUME NEW k \in Task, NEW stage \in Stages, NEW r \in Row \cup {None}
    PROVE  /\ WithRow(k, stage, r) \in Task
           /\ WithRow(k, stage, r).stage = stage /\ WithRow(k, stage, r).read = r
           /\ WithRow(k, stage, r).owed = k.owed
    BY DEF WithRow, Task

LEMMA SnapshotAnswers ==
    ASSUME CallsInv, OnlyTrimmed, SnapshotInv, NEW t \in Slots, Answer(t)
    PROVE  SnapshotInv'
    <1>1. /\ ~Idle(t) /\ task[t] \in Task /\ row \in Row \cup {None}
          /\ UNCHANGED <<buffer, recorded, used, failures>>
        BY DEF Answer, FlushRead, FlushWrite, Wipe, Load, Send, At, Idle, CallsInv
    <1>2. "writing" \in Stages /\ "sending" \in Stages
        BY DEF Stages
    <1>3. CASE FlushRead(t)
        <2>. DEFINE new == WithRow(task[t], "writing", row)
        <2>1. new \in Task /\ new.stage = "writing" /\ new.owed = task[t].owed
            BY <1>1, <1>2, WithRowTyped
        <2>2. task' = [task EXCEPT ![t] = new]
            BY <1>3 DEF FlushRead, WithRow
        <2>. HIDE DEF new
        <2>3. Alone(t, new)
            BY <1>1, <2>1, <2>2, GoesOnAlone
        <2>. QED  BY <1>1, <2>1, <2>3, SnapshotGoesOn
    <1>4. CASE FlushWrite(t)
        <2>1. /\ Alone(t, AfterFlush(t)) /\ AfterFlush(t) \in Task \cup {None}
              /\ AfterFlush(t) # None => AfterFlush(t).stage = "loading"
            BY <1>1, <1>4, FlushOver DEF FlushWrite
        <2>2. AfterFlush(t) # None => AfterFlush(t).owed = task[t].owed
            BY <1>1 DEF AfterFlush, Task
        <2>. QED  BY <1>1, <2>1, <2>2, SnapshotGoesOn
    <1>5. CASE Wipe(t) \/ Send(t)
        <2>1. Alone(t, None)
            BY <1>1, <1>5, GoesOnAlone DEF Wipe, Send
        <2>. QED  BY <1>1, <2>1, SnapshotGoesOn
    <1>6. CASE Load(t)
        <2>. DEFINE new == WithRow(task[t], "sending", row)
        <2>1. /\ new \in Task /\ new.stage = "sending" /\ new.owed = task[t].owed
              /\ new.read = row
            BY <1>1, <1>2, WithRowTyped
        <2>2. task' = [task EXCEPT ![t] = new]
            BY <1>6 DEF Load, WithRow
        <2>. HIDE DEF new
        <2>3. Alone(t, new)
            BY <1>1, <2>1, <2>2, GoesOnAlone
        <2>4. Stored = Data(row) \o buffer
            BY <1>6, BoardOfStage DEF StageFacts, Load
        <2>5. Data(row) \in Seq(Ops) /\ buffer \in Seq(Ops)
            BY DataTyped DEF CallsInv
        <2>6. ToSet(Stored) \subseteq ToSet(Data(row)) \cup ToSet(buffer)
            BY <2>4, <2>5, ToSetOfConcat
        <2>7. ToSet(Newest(MaxSnapshot, recorded)) \subseteq ToSet(Data(row)) \cup ToSet(buffer)
            BY <2>6, NewestOnBoard
        <2>8. failures = 0 => task[t].owed \cap ToSet(buffer) = {}
            BY <1>1 DEF SnapshotInv
        <2>9. failures = 0 =>
                  new.owed \cap ToSet(Newest(MaxSnapshot, recorded)) \subseteq ToSet(Data(new.read))
            BY <2>1, <2>7, <2>8
        <2>. QED  BY <1>1, <2>1, <2>3, <2>9, SnapshotGoesOn
    <1>. QED  BY <1>3, <1>4, <1>5, <1>6 DEF Answer

LEMMA SnapshotStep ==
    ASSUME CallsInv, OnlyTrimmed, SnapshotInv, Serial, [Next]_vars
    PROVE  SnapshotInv'
    <1>1. ASSUME NEW t \in Slots, Failure(t) PROVE SnapshotInv'
        <2>1. failures' = failures + 1 /\ failures \in Nat
            BY <1>1 DEF Failure, FlushFails, WipeFails, LoadFails, Refused, SnapshotInv
        <2>2. failures' \in Nat /\ failures' # 0
            BY <2>1
        <2>. QED  BY <2>2 DEF SnapshotInv
    <1>2. CASE UNCHANGED vars
        BY <1>2 DEF vars, SnapshotInv, SnapshotComplete, At, Idle, Data
    <1>. QED
        BY <1>1, <1>2, SnapshotQueued, SnapshotCalls, SnapshotAnswers DEF Next, Record

(* getSnapshot flushes before it reads: when calls do not overlap, and      *)
(* Postgres has refused nothing, a late joiner is sent every operation that *)
(* was on the board when it asked, but for those trimmed since.             *)
THEOREM SnapshotsComplete ==
    ASSUME Serial PROVE Spec => []SnapshotComplete
    <1>. DEFINE Inv == CallsInv /\ OnlyTrimmed /\ SnapshotInv
    <1>1. Init => Inv
        <2>. SUFFICES ASSUME Init PROVE Inv
            OBVIOUS
        <2>1. CallsInv /\ Stored = <<>> /\ recorded = <<>>
            BY BoardStarts DEF Board!Init
        <2>2. SubSeq(recorded, 0 + 1, Len(recorded)) = recorded /\ 0 \in 0 .. Len(recorded)
            BY <2>1, SubSeqFull DEF CallsInv
        <2>3. OnlyTrimmed
            BY <2>1, <2>2 DEF OnlyTrimmed
        <2>4. /\ \A t \in Slots : Idle(t) /\ ~At(t, "sending")
              /\ failures = 0
            BY DEF Init, Idle, At
        <2>5. ToSet(recorded) = {}
            BY <2>1, NothingBuffered
        <2>6. SnapshotInv
            BY <2>4, <2>5 DEF SnapshotInv, SnapshotComplete
        <2>. QED  BY <2>1, <2>3, <2>6
    <1>2. Inv /\ [Next]_vars => Inv'
        BY EveryStep, OnlyTrimmedStep, SnapshotStep
    <1>3. Inv => SnapshotComplete
        <2>1. SnapshotInv => SnapshotComplete
            BY DEF SnapshotInv, SnapshotComplete
        <2>. QED  BY <2>1
    <1>. QED  BY <1>1, <1>2, <1>3, PTL DEF Spec

-----------------------------------------------------------------------------
(* No operation twice, whether or not calls overlap.                        *)

(* What a call that waits has taken from the buffer, and the row it knows.  *)
TakenOf(k) == IF k # None /\ k.stage \in {"reading", "writing"} THEN k.pending ELSE <<>>
SeenOf(k) == IF k = None THEN <<>> ELSE Data(k.read)

TakenIn == [t \in Slots |-> ToSet(TakenOf(task[t]))]
SeenIn == [t \in Slots |-> ToSet(SeenOf(task[t]))]

(* What waits to be written (b buffered, p[t] taken) has never been in a row *)
(* that anybody knows (r stored, s[t] read), and waits in one place.         *)
Separate(b, r, p, s, all) ==
    /\ b \cup r \subseteq all /\ b \cap r = {}
    /\ \A t \in Slots :
          /\ p[t] \cup s[t] \subseteq all
          /\ p[t] \cap (b \cup r) = {} /\ s[t] \cap b = {}
    /\ \A t, u \in Slots : p[t] \cap s[u] = {} /\ (t # u => p[t] \cap p[u] = {})

Singles ==
    /\ IsInjective(buffer) /\ IsInjective(Data(row))
    /\ \A t \in Slots : IsInjective(TakenOf(task[t])) /\ IsInjective(SeenOf(task[t]))

OnceInv ==
    TypeOK /\ Singles /\ Separate(ToSet(buffer), ToSet(Data(row)), TakenIn, SeenIn, used)

(* What a call in slot t may do to them: what it takes or gives back was      *)
(* waiting or is new, what is stored or read was known or has been taken.     *)
Moves(t, new, B, R, P, S, b, r, p, s) ==
    /\ b \cup p[t] \subseteq B \cup P[t] \cup new /\ b \cap p[t] = {}
    /\ r \cup s[t] \subseteq R \cup S[t] \cup P[t] /\ (r \cup s[t]) \cap (b \cup p[t]) = {}
    /\ \A u \in Slots : u # t => p[u] = P[u] /\ s[u] = S[u]

LEMMA StaySeparate ==
    ASSUME NEW B, NEW R, NEW P, NEW S, NEW all, Separate(B, R, P, S, all),
           NEW t \in Slots, NEW b, NEW r, NEW P2, NEW S2, NEW new, new \cap all = {},
           Moves(t, new, B, R, P, S, b, r, P2, S2)
    PROVE  Separate(b, r, P2, S2, all \cup new)
    <1>0. /\ b \cup P2[t] \subseteq B \cup P[t] \cup new /\ b \cap P2[t] = {}
          /\ r \cup S2[t] \subseteq R \cup S[t] \cup P[t] /\ (r \cup S2[t]) \cap (b \cup P2[t]) = {}
          /\ \A u \in Slots : u # t => P2[u] = P[u] /\ S2[u] = S[u]
        BY DEF Moves
    <1>. DEFINE x == P2[t]
                y == S2[t]
    <1>1. /\ B \cup R \cup P[t] \cup S[t] \subseteq all
          /\ B \cap R = {} /\ P[t] \cap (B \cup R \cup S[t]) = {} /\ S[t] \cap B = {}
        BY DEF Separate
    <1>2. \A u \in Slots : u # t =>
              /\ P[u] \cup S[u] \subseteq all
              /\ P[u] \cap (B \cup R \cup S[t] \cup P[t] \cup S[u]) = {}
              /\ S[u] \cap (B \cup P[t]) = {}
        BY DEF Separate
    <1>3. \A u, v \in Slots : u # t /\ v # t => P[u] \cap S[v] = {} /\ (u # v => P[u] \cap P[v] = {})
        BY DEF Separate
    <1>4. \A u \in Slots : u # t =>
              P[u] \cap (b \cup x \cup r \cup y) = {} /\ S[u] \cap (b \cup x) = {}
        BY <1>0, <1>1, <1>2
    <1>. QED  BY <1>0, <1>1, <1>2, <1>3, <1>4 DEF Separate

LEMMA SetOfConcat ==
    ASSUME NEW S, NEW a \in Seq(S), NEW b \in Seq(S)
    PROVE  ToSet(a \o b) = ToSet(a) \cup ToSet(b)
    <1>1. ToSet(a \o b) \subseteq ToSet(a) \cup ToSet(b)
        BY ToSetOfConcat
    <1>2. /\ Len(a) \in Nat /\ Len(b) \in Nat
          /\ DOMAIN a = 1 .. Len(a) /\ DOMAIN b = 1 .. Len(b)
        OBVIOUS
    <1>3. DOMAIN (a \o b) = 1 .. Len(a) + Len(b)
          /\ \A i \in 1 .. Len(a) + Len(b) :
                (a \o b)[i] = IF i <= Len(a) THEN a[i] ELSE b[i - Len(a)]
        BY ConcatProperties
    <1>. DEFINE c == a \o b
    <1>4. DOMAIN c = 1 .. Len(a) + Len(b)
          /\ \A i \in 1 .. Len(a) + Len(b) : c[i] = IF i <= Len(a) THEN a[i] ELSE b[i - Len(a)]
        BY <1>3
    <1>. HIDE DEF c
    <1>5. \A i \in 1 .. Len(a) : i \in DOMAIN c /\ c[i] = a[i]
        BY <1>2, <1>4
    <1>6. \A i \in 1 .. Len(b) :
              Len(a) + i \in DOMAIN c /\ c[Len(a) + i] = b[i]
        <2>. SUFFICES ASSUME NEW i \in 1 .. Len(b)
                      PROVE  Len(a) + i \in DOMAIN c /\ c[Len(a) + i] = b[i]
            OBVIOUS
        <2>1. /\ Len(a) + i \in 1 .. Len(a) + Len(b) /\ ~(Len(a) + i <= Len(a))
              /\ (Len(a) + i) - Len(a) = i
            BY <1>2
        <2>. QED  BY <1>4, <2>1
    <1>7. ToSet(a) \cup ToSet(b) \subseteq ToSet(c)
        BY <1>2, <1>5, <1>6 DEF ToSet
    <1>. QED  BY <1>1, <1>7 DEF c

(* Injective sequences.                                                     *)
LEMMA InjectiveAppend ==
    ASSUME NEW S, NEW s \in Seq(S), NEW e \in S, IsInjective(s), e \notin ToSet(s)
    PROVE  IsInjective(Append(s, e))
    <1>. DEFINE a == Append(s, e)
    <1>1. /\ Len(s) \in Nat /\ DOMAIN s = 1 .. Len(s)
          /\ DOMAIN a = 1 .. Len(s) + 1 /\ a[Len(s) + 1] = e
          /\ \A i \in 1 .. Len(s) : a[i] = s[i] /\ s[i] # e
        BY DEF ToSet
    <1>. HIDE DEF a
    <1>2. \A i \in 1 .. Len(s) + 1 : i \in 1 .. Len(s) \/ i = Len(s) + 1
        BY <1>1
    <1>3. IsInjective(a)
        BY <1>1, <1>2 DEF IsInjective
    <1>. QED  BY <1>3 DEF a

LEMMA InjectiveConcat ==
    ASSUME NEW S, NEW a \in Seq(S), NEW b \in Seq(S), IsInjective(a), IsInjective(b),
           ToSet(a) \cap ToSet(b) = {}
    PROVE  IsInjective(a \o b)
    <1>. DEFINE c == a \o b
    <1>1. /\ Len(a) \in Nat /\ Len(b) \in Nat
          /\ DOMAIN a = 1 .. Len(a) /\ DOMAIN b = 1 .. Len(b)
        OBVIOUS
    <1>2. DOMAIN c = 1 .. Len(a) + Len(b)
          /\ \A i \in 1 .. Len(a) + Len(b) : c[i] = IF i <= Len(a) THEN a[i] ELSE b[i - Len(a)]
        BY ConcatProperties
    <1>. HIDE DEF c
    <1>3. \A i \in 1 .. Len(a) + Len(b) :
              \/ i \in 1 .. Len(a) /\ c[i] = a[i]
              \/ i - Len(a) \in 1 .. Len(b) /\ c[i] = b[i - Len(a)]
        BY <1>1, <1>2
    <1>4. \A i \in 1 .. Len(a), j \in 1 .. Len(b) : a[i] # b[j]
        BY <1>1 DEF ToSet
    <1>5. ASSUME NEW i \in 1 .. Len(a) + Len(b), NEW j \in 1 .. Len(a) + Len(b), c[i] = c[j]
          PROVE  i = j
        <2>1. CASE i \in 1 .. Len(a) /\ c[i] = a[i] /\ j \in 1 .. Len(a) /\ c[j] = a[j]
            BY <1>1, <1>5, <2>1 DEF IsInjective
        <2>2. CASE /\ i - Len(a) \in 1 .. Len(b) /\ c[i] = b[i - Len(a)]
                   /\ j - Len(a) \in 1 .. Len(b) /\ c[j] = b[j - Len(a)]
            <3>1. i - Len(a) = j - Len(a)
                BY <1>1, <1>5, <2>2 DEF IsInjective
            <3>. QED  BY <1>1, <3>1
        <2>. QED  BY <1>3, <1>4, <1>5, <2>1, <2>2
    <1>6. IsInjective(c)
        BY <1>2, <1>5 DEF IsInjective
    <1>. QED  BY <1>6 DEF c

LEMMA InjectiveNewest ==
    ASSUME NEW s \in Seq(Ops)
    PROVE  /\ Newest(MaxSnapshot, s) \in Seq(Ops)
           /\ ToSet(Newest(MaxSnapshot, s)) \subseteq ToSet(s)
           /\ IsInjective(s) => IsInjective(Newest(MaxSnapshot, s))
    <1>1. Len(s) \in Nat /\ MaxSnapshot \in Nat /\ DOMAIN s = 1 .. Len(s)
        BY LimitsAssumption
    <1>2. CASE Len(s) > MaxSnapshot
        <2>. DEFINE n == Len(s) - MaxSnapshot
                    d == SubSeq(s, n + 1, Len(s))
        <2>1. n \in 0 .. Len(s)
            BY <1>1, <1>2
        <2>2. /\ d \in Seq(Ops) /\ Len(d) = Len(s) - n
              /\ \A i \in 1 .. Len(s) - n : d[i] = s[i + n]
            BY <2>1, DropFacts
        <2>3. Newest(MaxSnapshot, s) = d
            BY <1>2 DEF Newest
        <2>. HIDE DEF d
        <2>4. DOMAIN d = 1 .. Len(s) - n
            BY <2>2
        <2>5. \A i \in 1 .. Len(s) - n : i + n \in 1 .. Len(s)
            BY <1>1, <2>1
        <2>. HIDE DEF n
        <2>6. ToSet(d) \subseteq ToSet(s)
            BY <1>1, <2>2, <2>4, <2>5 DEF ToSet
        <2>7. ASSUME IsInjective(s), NEW i \in DOMAIN d, NEW j \in DOMAIN d, d[i] = d[j] PROVE i = j
            <3>1. s[i + n] = s[j + n] /\ i + n \in DOMAIN s /\ j + n \in DOMAIN s
                BY <1>1, <2>2, <2>4, <2>5, <2>7
            <3>2. i + n = j + n
                BY <2>7, <3>1 DEF IsInjective
            <3>. QED  BY <1>1, <2>1, <2>4, <3>2
        <2>8. IsInjective(s) => IsInjective(d)
            BY <2>7 DEF IsInjective
        <2>. QED  BY <2>2, <2>3, <2>6, <2>8
    <1>3. CASE ~(Len(s) > MaxSnapshot)
        BY <1>3 DEF Newest
    <1>. QED  BY <1>2, <1>3

LEMMA EmptyOnce == IsInjective(<<>>) /\ ToSet(<<>>) = {} /\ <<>> \in Seq(Ops)
    BY NothingBuffered DEF IsInjective

(* Types, however many calls overlap.                                       *)
LEMMA RowData == ASSUME NEW r \in Row \cup {None} PROVE Data(r) \in Seq(Ops)
    BY DEF Data, Row

LEMMA StartTyped ==
    ASSUME TypeOK, NEW t \in Slots, NEW k \in Task \cup {None}, task' = [task EXCEPT ![t] = k]
    PROVE  /\ task' \in [Slots -> Task \cup {None}] /\ task'[t] = k
           /\ \A u \in Slots : u # t => task'[u] = task[u]
    BY DEF TypeOK

LEMMA NewTaskFacts ==
    ASSUME NEW stage \in Stages, NEW pending \in Seq(Ops), NEW c \in Clients \cup {None},
           NEW owed \in SUBSET Ops
    PROVE  \E k \in Task : /\ k = NewTask(stage, pending, c, owed)
                           /\ k.stage = stage /\ k.pending = pending /\ k.read = None
    <1>1. NewTask(stage, pending, c, owed).read = None
        BY DEF NewTask
    <1>. QED  BY <1>1, NewTaskTyped

LEMMA WaitingTyped ==
    ASSUME TypeOK, NEW t \in Slots, ~Idle(t)
    PROVE  /\ task[t] \in Task /\ task[t] # None /\ task[t].pending \in Seq(Ops)
           /\ task[t].read \in Row \cup {None} /\ task[t].stage \in Stages
    BY DEF TypeOK, Idle, Task

(* What a slot may do to the operations: b is buffered, r the row, k what    *)
(* waits in the slot afterwards.                                            *)
LEMMA SlotStep ==
    ASSUME OnceInv, TypeOK', NEW t \in Slots, NEW k \in Task \cup {None}, NEW new,
           used' = used \cup new, new \cap used = {},
           task'[t] = k, \A u \in Slots : u # t => task'[u] = task[u],
           IsInjective(buffer'), IsInjective(Data(row')),
           IsInjective(TakenOf(k)), IsInjective(SeenOf(k)),
           ToSet(buffer') \cup ToSet(TakenOf(k))
               \subseteq ToSet(buffer) \cup ToSet(TakenOf(task[t])) \cup new,
           ToSet(buffer') \cap ToSet(TakenOf(k)) = {},
           ToSet(Data(row')) \cup ToSet(SeenOf(k))
               \subseteq ToSet(Data(row)) \cup ToSet(SeenOf(task[t])) \cup ToSet(TakenOf(task[t])),
           (ToSet(Data(row')) \cup ToSet(SeenOf(k)))
               \cap (ToSet(buffer') \cup ToSet(TakenOf(k))) = {}
    PROVE  OnceInv'
    <1>1. TakenIn[t] = ToSet(TakenOf(task[t])) /\ SeenIn[t] = ToSet(SeenOf(task[t]))
        BY DEF TakenIn, SeenIn
    <1>2. \A u \in Slots : TakenIn'[u] = ToSet(TakenOf(task'[u])) /\ SeenIn'[u] = ToSet(SeenOf(task'[u]))
        BY DEF TakenIn, SeenIn
    <1>3. \A u \in Slots : u # t => TakenIn'[u] = TakenIn[u] /\ SeenIn'[u] = SeenIn[u]
        BY <1>2 DEF TakenIn, SeenIn
    <1>4. TakenIn'[t] = ToSet(TakenOf(k)) /\ SeenIn'[t] = ToSet(SeenOf(k))
        BY <1>2
    <1>5. Separate(ToSet(buffer), ToSet(Data(row)), TakenIn, SeenIn, used)
        BY DEF OnceInv
    <1>6. Separate(ToSet(buffer'), ToSet(Data(row')), TakenIn', SeenIn', used \cup new)
        <2>1. PICK b, r, B, R :
                  /\ b = ToSet(buffer') /\ r = ToSet(Data(row'))
                  /\ B = ToSet(buffer) /\ R = ToSet(Data(row))
            OBVIOUS
        <2>2. PICK P, S, P2, S2 : P = TakenIn /\ S = SeenIn /\ P2 = TakenIn' /\ S2 = SeenIn'
            OBVIOUS
        <2>3. Separate(B, R, P, S, used)
            BY <1>5, <2>1, <2>2
        <2>4. /\ b \cup P2[t] \subseteq B \cup P[t] \cup new /\ b \cap P2[t] = {}
              /\ r \cup S2[t] \subseteq R \cup S[t] \cup P[t]
              /\ (r \cup S2[t]) \cap (b \cup P2[t]) = {}
            BY <1>1, <1>4, <2>1, <2>2
        <2>5. \A u \in Slots : u # t => P2[u] = P[u] /\ S2[u] = S[u]
            BY <1>3, <2>2
        <2>6. Moves(t, new, B, R, P, S, b, r, P2, S2)
            BY <2>4, <2>5 DEF Moves
        <2>7. Separate(b, r, P2, S2, used \cup new)
            BY <2>3, <2>6, StaySeparate
        <2>. QED  BY <2>1, <2>2, <2>7
    <1>7. \A u \in Slots : IsInjective(TakenOf(task'[u])) /\ IsInjective(SeenOf(task'[u]))
        BY DEF OnceInv, Singles
    <1>8. Singles'
        BY <1>7 DEF Singles
    <1>9. Separate(ToSet(buffer), ToSet(Data(row)), TakenIn, SeenIn, used)'
        BY <1>6
    <1>. QED  BY <1>8, <1>9 DEF OnceInv

(* A slot in which nobody waits holds nothing.                              *)
LEMMA HoldsNothing ==
    /\ TakenOf(None) = <<>> /\ SeenOf(None) = <<>>
    /\ \A k \in Task : k.stage \notin {"reading", "writing"} => TakenOf(k) = <<>>
    /\ \A k \in Task : k.stage \in {"reading", "writing"} => TakenOf(k) = k.pending
    /\ \A k \in Task : k.read = None => SeenOf(k) = <<>>
    /\ \A k \in Task : SeenOf(k) = Data(k.read)
    <1>1. None \notin Task /\ Data(None) = <<>>
        BY NoneAssumption DEF Data
    <1>. QED  BY <1>1 DEF TakenOf, SeenOf

(* What is where, for one slot.                                             *)
LEMMA SlotApart ==
    ASSUME OnceInv, NEW t \in Slots
    PROVE  /\ IsInjective(buffer) /\ IsInjective(Data(row))
           /\ IsInjective(TakenOf(task[t])) /\ IsInjective(SeenOf(task[t]))
           /\ ToSet(TakenOf(task[t])) \cap
                  (ToSet(buffer) \cup ToSet(Data(row)) \cup ToSet(SeenOf(task[t]))) = {}
           /\ ToSet(buffer) \cap (ToSet(Data(row)) \cup ToSet(SeenOf(task[t]))) = {}
           /\ ToSet(buffer) \cup ToSet(Data(row)) \subseteq used
    BY DEF OnceInv, Singles, Separate, TakenIn, SeenIn

LEMMA QueuedOnce ==
    ASSUME OnceInv, NEW op \in Ops, RecordQueued(op)
    PROVE  OnceInv'
    <1>1. /\ op \notin used /\ used' = used \cup {op} /\ recorded' = Append(recorded, op)
          /\ buffer' = Append(buffer, op) /\ timer' = TRUE /\ UNCHANGED <<row, task, failures>>
        BY DEF RecordQueued, New
    <1>2. buffer \in Seq(Ops) /\ recorded \in Seq(Ops) /\ used \in SUBSET Ops
        BY DEF OnceInv, TypeOK
    <1>3. TypeOK'
        BY <1>1, <1>2 DEF OnceInv, TypeOK
    <1>4. /\ op \notin ToSet(buffer) /\ op \notin ToSet(Data(row))
          /\ IsInjective(buffer) /\ IsInjective(Data(row))
          /\ ToSet(buffer) \cap ToSet(Data(row)) = {}
        BY <1>1, SlotsAssumption, SlotApart
    <1>5. IsInjective(buffer') /\ ToSet(buffer') = ToSet(buffer) \cup {op}
        BY <1>1, <1>2, <1>4, InjectiveAppend, ToSetFacts
    <1>6. TakenIn' = TakenIn /\ SeenIn' = SeenIn /\ Data(row') = Data(row)
        BY <1>1 DEF TakenIn, SeenIn
    <1>7. Singles'
        BY <1>1, <1>5 DEF OnceInv, Singles
    <1>8. Separate(ToSet(buffer), ToSet(Data(row)), TakenIn, SeenIn, used)
        BY DEF OnceInv
    <1>9. Separate(ToSet(buffer'), ToSet(Data(row')), TakenIn', SeenIn', used')
        <2>1. /\ \A u \in Slots : op \notin TakenIn[u] /\ op \notin SeenIn[u]
            BY <1>1, <1>8 DEF Separate
        <2>2. Separate(ToSet(buffer) \cup {op}, ToSet(Data(row)), TakenIn, SeenIn, used \cup {op})
            BY <1>4, <1>8, <2>1 DEF Separate
        <2>. QED  BY <1>1, <1>5, <1>6, <2>2
    <1>. QED  BY <1>3, <1>7, <1>9 DEF OnceInv

(* A flush starts with what was buffered, b.                                *)
LEMMA StartsOnce ==
    ASSUME OnceInv, NEW t \in Slots, Idle(t), NEW k \in Task, task' = [task EXCEPT ![t] = k],
           NEW new \in SUBSET Ops, new \cap used = {}, used' = used \cup new,
           k.stage \in {"reading", "loading"}, k.read = None,
           IsInjective(k.pending), ToSet(k.pending) = ToSet(buffer) \cup new,
           buffer' = <<>>, row' = row, timer' \in BOOLEAN, recorded' \in Seq(Ops),
           failures' = failures
    PROVE  OnceInv'
    <1>1. /\ task' \in [Slots -> Task \cup {None}] /\ task'[t] = k
          /\ \A u \in Slots : u # t => task'[u] = task[u]
        BY StartTyped DEF OnceInv
    <1>2. TypeOK'
        BY <1>1, EmptyOnce DEF OnceInv, TypeOK
    <1>3. TakenOf(task[t]) = <<>> /\ SeenOf(task[t]) = <<>> /\ SeenOf(k) = <<>>
        BY HoldsNothing DEF Idle
    <1>4. TakenOf(k) = k.pending \/ TakenOf(k) = <<>>
        BY HoldsNothing
    <1>5. /\ ToSet(TakenOf(k)) \subseteq ToSet(buffer) \cup new /\ IsInjective(TakenOf(k))
        BY <1>4, EmptyOnce
    <1>6. /\ IsInjective(Data(row)) /\ ToSet(buffer) \cap ToSet(Data(row)) = {}
          /\ ToSet(Data(row)) \subseteq used
        BY SlotApart
    <1>7. /\ IsInjective(buffer') /\ ToSet(buffer') = {} /\ Data(row') = Data(row)
          /\ ToSet(SeenOf(k)) = {} /\ IsInjective(SeenOf(k))
        BY <1>3, EmptyOnce
    <1>8. ToSet(Data(row)) \cap ToSet(TakenOf(k)) = {}
        BY <1>5, <1>6
    <1>9. /\ ToSet(buffer') \cup ToSet(TakenOf(k))
                 \subseteq ToSet(buffer) \cup ToSet(TakenOf(task[t])) \cup new
          /\ ToSet(buffer') \cap ToSet(TakenOf(k)) = {}
          /\ ToSet(Data(row')) \cup ToSet(SeenOf(k))
                 \subseteq ToSet(Data(row)) \cup ToSet(SeenOf(task[t])) \cup ToSet(TakenOf(task[t]))
          /\ (ToSet(Data(row')) \cup ToSet(SeenOf(k)))
                 \cap (ToSet(buffer') \cup ToSet(TakenOf(k))) = {}
        BY <1>5, <1>7, <1>8
    <1>. QED  BY <1>1, <1>2, <1>5, <1>6, <1>7, <1>9, SlotStep

LEMMA FlushedOnce ==
    ASSUME OnceInv, NEW op \in Ops, RecordFlushed(op)
    PROVE  OnceInv'
    <1>1. /\ op \notin used /\ used' = used \cup {op} /\ recorded' = Append(recorded, op)
          /\ buffer' = <<>> /\ UNCHANGED <<timer, row, failures>>
        BY DEF RecordFlushed, New, TakeBuffer
    <1>2. buffer \in Seq(Ops) /\ recorded \in Seq(Ops) /\ timer \in BOOLEAN
        BY DEF OnceInv, TypeOK
    <1>3. Append(buffer, op) \in Seq(Ops) /\ Append(recorded, op) \in Seq(Ops)
        BY <1>2
    <1>4. PICK k \in Task : /\ k = NewTask("reading", Append(buffer, op), None, {})
                            /\ k.stage = "reading" /\ k.pending = Append(buffer, op)
                            /\ k.read = None
        <2>1. PICK pending \in Seq(Ops) : pending = Append(buffer, op)
            BY <1>3
        <2>2. "reading" \in Stages /\ None \in Clients \cup {None} /\ {} \in SUBSET Ops
            BY DEF Stages
        <2>3. \E k \in Task : /\ k = NewTask("reading", pending, None, {})
                              /\ k.stage = "reading" /\ k.pending = pending /\ k.read = None
            BY <2>2, NewTaskFacts
        <2>. QED  BY <2>1, <2>3
    <1>5. PICK t \in Slots : Idle(t) /\ task' = [task EXCEPT ![t] = k]
        BY <1>4 DEF RecordFlushed, Start, MayStart
    <1>6. IsInjective(k.pending) /\ ToSet(k.pending) = ToSet(buffer) \cup {op}
        <2>1. IsInjective(buffer) /\ op \notin ToSet(buffer)
            BY <1>1, <1>5, SlotApart
        <2>2. IsInjective(Append(buffer, op)) /\ ToSet(Append(buffer, op)) = ToSet(buffer) \cup {op}
            BY <1>2, <2>1, InjectiveAppend, ToSetFacts
        <2>. QED  BY <1>4, <2>2
    <1>7. {op} \cap used = {} /\ {op} \in SUBSET Ops
        BY <1>1
    <1>. QED  BY <1>1, <1>2, <1>3, <1>4, <1>5, <1>6, <1>7, StartsOnce

LEMMA TimerOnce ==
    ASSUME OnceInv, TimerFires
    PROVE  OnceInv'
    <1>1. /\ buffer \in Seq(Ops) /\ recorded \in Seq(Ops)
          /\ timer' \in BOOLEAN /\ UNCHANGED <<row, recorded, used, failures>>
        BY DEF OnceInv, TypeOK, TimerFires
    <1>2. CASE UNCHANGED <<buffer, task>>
        BY <1>1, <1>2 DEF OnceInv, TypeOK, Singles, TakenIn, SeenIn
    <1>3. CASE ~UNCHANGED <<buffer, task>>
        <2>1. buffer' = <<>>
            BY <1>3 DEF TimerFires, TakeBuffer
        <2>2. PICK k \in Task : /\ k = NewTask("reading", buffer, None, {})
                                /\ k.stage = "reading" /\ k.pending = buffer /\ k.read = None
            BY <1>1, NewTaskFacts DEF Stages
        <2>3. PICK t \in Slots : Idle(t) /\ task' = [task EXCEPT ![t] = k]
            BY <1>3, <2>2 DEF TimerFires, Start, MayStart
        <2>4. IsInjective(k.pending) /\ ToSet(k.pending) = ToSet(buffer) \cup {}
            BY <2>2, <2>3, SlotApart
        <2>5. {} \cap used = {} /\ {} \in SUBSET Ops /\ used' = used \cup {}
            BY <1>1
        <2>. QED  BY <1>1, <2>1, <2>2, <2>3, <2>4, <2>5, StartsOnce
    <1>. QED  BY <1>2, <1>3

LEMMA RequestOnce ==
    ASSUME OnceInv, NEW c \in Clients, Request(c)
    PROVE  OnceInv'
    <1>1. /\ buffer \in Seq(Ops) /\ recorded \in Seq(Ops) /\ timer \in BOOLEAN
          /\ buffer' = <<>> /\ UNCHANGED <<timer, row, recorded, used, failures>>
        BY DEF OnceInv, TypeOK, Request, TakeBuffer
    <1>2. PICK stage \in {"loading", "reading"} : \E t \in Slots :
              Start(t, NewTask(stage, buffer, c, ToSet(recorded)))
        BY DEF Request
    <1>3. ToSet(recorded) \in SUBSET Ops
        BY <1>1 DEF ToSet
    <1>4. PICK k \in Task : /\ k = NewTask(stage, buffer, c, ToSet(recorded))
                            /\ k.stage = stage /\ k.pending = buffer /\ k.read = None
        BY <1>1, <1>3, NewTaskFacts DEF Stages
    <1>5. PICK t \in Slots : Idle(t) /\ task' = [task EXCEPT ![t] = k]
        BY <1>2, <1>4 DEF Start, MayStart
    <1>6. IsInjective(k.pending) /\ ToSet(k.pending) = ToSet(buffer) \cup {}
        BY <1>4, <1>5, SlotApart
    <1>7. {} \cap used = {} /\ {} \in SUBSET Ops /\ used' = used \cup {}
        BY <1>1
    <1>. QED  BY <1>1, <1>4, <1>5, <1>6, <1>7, StartsOnce

(* A call goes on as k without touching the buffer, the row or the operations *)
(* it has taken, or drops them.                                             *)
LEMMA AnsweredOnce ==
    ASSUME OnceInv, NEW t \in Slots, ~Idle(t), NEW k \in Task \cup {None},
           task' = [task EXCEPT ![t] = k], UNCHANGED <<buffer, timer, used>>,
           row' \in Row \cup {None}, recorded' \in Seq(Ops), failures' \in Nat,
           TakenOf(k) = TakenOf(task[t]) \/ TakenOf(k) = <<>>,
           IsInjective(SeenOf(k)), IsInjective(Data(row')),
           ToSet(Data(row')) \cup ToSet(SeenOf(k))
               \subseteq ToSet(Data(row)) \cup ToSet(SeenOf(task[t])) \cup ToSet(TakenOf(task[t])),
           TakenOf(k) = <<>> \/ ToSet(Data(row')) \cup ToSet(SeenOf(k))
                                    \subseteq ToSet(Data(row)) \cup ToSet(SeenOf(task[t]))
    PROVE  OnceInv'
    <1>1. /\ task' \in [Slots -> Task \cup {None}] /\ task'[t] = k
          /\ \A u \in Slots : u # t => task'[u] = task[u]
        BY StartTyped DEF OnceInv
    <1>2. TypeOK'
        BY <1>1 DEF OnceInv, TypeOK
    <1>3. /\ IsInjective(buffer') /\ IsInjective(TakenOf(k)) /\ ToSet(buffer') = ToSet(buffer)
          /\ ToSet(TakenOf(k)) = ToSet(TakenOf(task[t])) \/ ToSet(TakenOf(k)) = {}
        BY EmptyOnce, SlotApart
    <1>4. /\ ToSet(TakenOf(task[t])) \cap
                 (ToSet(buffer) \cup ToSet(Data(row)) \cup ToSet(SeenOf(task[t]))) = {}
          /\ ToSet(buffer) \cap (ToSet(Data(row)) \cup ToSet(SeenOf(task[t]))) = {}
        BY SlotApart
    <1>5. TakenOf(k) = <<>> => ToSet(TakenOf(k)) = {}
        BY EmptyOnce
    <1>6. /\ ToSet(buffer') \cup ToSet(TakenOf(k))
                 \subseteq ToSet(buffer) \cup ToSet(TakenOf(task[t])) \cup {}
          /\ ToSet(buffer') \cap ToSet(TakenOf(k)) = {}
        BY <1>3, <1>4
    <1>7. (ToSet(Data(row')) \cup ToSet(SeenOf(k))) \cap ToSet(buffer) = {}
        BY <1>4
    <1>8. (ToSet(Data(row')) \cup ToSet(SeenOf(k))) \cap ToSet(TakenOf(k)) = {}
        BY <1>3, <1>4, <1>5
    <1>9. (ToSet(Data(row')) \cup ToSet(SeenOf(k)))
              \cap (ToSet(buffer') \cup ToSet(TakenOf(k))) = {}
        BY <1>3, <1>7, <1>8
    <1>10. used' = used \cup {} /\ {} \cap used = {}
        OBVIOUS
    <1>. QED  BY <1>1, <1>2, <1>3, <1>6, <1>9, <1>10, SlotStep

(* The row is read, by a flush or for a snapshot.                           *)
LEMMA ReadsOnce ==
    ASSUME OnceInv, NEW t \in Slots, FlushRead(t) \/ Load(t)
    PROVE  OnceInv'
    <1>1. /\ ~Idle(t) /\ UNCHANGED <<buffer, timer, row, recorded, used, failures>>
          /\ row \in Row \cup {None} /\ recorded \in Seq(Ops) /\ failures \in Nat
        BY DEF FlushRead, Load, At, OnceInv, TypeOK
    <1>2. PICK stage \in {"writing", "sending"} :
              /\ task' = [task EXCEPT ![t] = WithRow(task[t], stage, row)]
              /\ stage = "writing" => task[t].stage = "reading"
        BY DEF FlushRead, Load, WithRow, At
    <1>3. PICK k \in Task :
              /\ k = WithRow(task[t], stage, row) /\ k.stage = stage /\ k.read = row
              /\ k.pending = task[t].pending
        <2>1. WithRow(task[t], stage, row) \in Task
              /\ WithRow(task[t], stage, row).stage = stage
              /\ WithRow(task[t], stage, row).read = row
            BY <1>1, WaitingTyped, WithRowTyped DEF Stages, OnceInv
        <2>2. WithRow(task[t], stage, row).pending = task[t].pending
            BY <1>1, WaitingTyped DEF WithRow, OnceInv, Task
        <2>. QED  BY <2>1, <2>2
    <1>4. task[t] \in Task
        BY <1>1, WaitingTyped DEF OnceInv
    <1>5. TakenOf(k) = TakenOf(task[t]) \/ TakenOf(k) = <<>>
        BY <1>2, <1>3, <1>4, HoldsNothing
    <1>6. SeenOf(k) = Data(row)
        BY <1>3, HoldsNothing
    <1>7. IsInjective(Data(row))
        BY SlotApart
    <1>. QED  BY <1>1, <1>2, <1>3, <1>5, <1>6, <1>7, AnsweredOnce

(* A call is over, or goes on to read the snapshot.                         *)
LEMMA AfterFlushFacts ==
    ASSUME TypeOK, NEW t \in Slots, ~Idle(t)
    PROVE  /\ AfterFlush(t) \in Task \cup {None}
           /\ TakenOf(AfterFlush(t)) = <<>> /\ SeenOf(AfterFlush(t)) = <<>>
    <1>1. CASE task[t].client = None
        BY <1>1, HoldsNothing DEF AfterFlush
    <1>2. CASE task[t].client # None
        <2>1. task[t] \in Task /\ <<>> \in Seq(Ops)
            BY WaitingTyped
        <2>2. PICK k \in Task : /\ k = AfterFlush(t) /\ k.stage = "loading" /\ k.read = None
            <3>1. AfterFlush(t) = [task[t] EXCEPT !.stage = "loading", !.pending = <<>>, !.read = None]
                BY <1>2 DEF AfterFlush
            <3>2. AfterFlush(t).read = None
                BY <2>1, <3>1 DEF Task
            <3>. QED  BY <2>1, <3>1, <3>2, LoadingTyped
        <2>. QED  BY <2>2, HoldsNothing
    <1>. QED  BY <1>1, <1>2

LEMMA WriteOnce ==
    ASSUME OnceInv, NEW t \in Slots, FlushWrite(t)
    PROVE  OnceInv'
    <1>. DEFINE k == AfterFlush(t)
                whole == Data(task[t].read) \o task[t].pending
    <1>1. /\ ~Idle(t) /\ task[t].stage = "writing"
          /\ UNCHANGED <<buffer, timer, recorded, used, failures>>
          /\ recorded \in Seq(Ops) /\ failures \in Nat
          /\ row' = [data |-> Merged(t), revision |-> Revised(t)]
        BY DEF FlushWrite, At, OnceInv, TypeOK
    <1>2. task' = [task EXCEPT ![t] = k]
        BY DEF FlushWrite, EndFlush, AfterFlush
    <1>3. /\ task[t] \in Task /\ task[t].pending \in Seq(Ops) /\ task[t].read \in Row \cup {None}
          /\ k \in Task \cup {None} /\ TakenOf(k) = <<>> /\ SeenOf(k) = <<>>
        BY <1>1, WaitingTyped, AfterFlushFacts DEF OnceInv
    <1>. HIDE DEF k
    <1>4. TakenOf(task[t]) = task[t].pending /\ SeenOf(task[t]) = Data(task[t].read)
          /\ Data(task[t].read) \in Seq(Ops)
        BY <1>1, <1>3, HoldsNothing, RowData
    <1>5. /\ whole \in Seq(Ops) /\ IsInjective(whole)
          /\ ToSet(whole) = ToSet(SeenOf(task[t])) \cup ToSet(TakenOf(task[t]))
        <2>1. PICK p \in Seq(Ops), d \in Seq(Ops) : p = task[t].pending /\ d = Data(task[t].read)
            BY <1>3, <1>4
        <2>2. IsInjective(p) /\ IsInjective(d) /\ ToSet(d) \cap ToSet(p) = {}
            BY <1>4, <2>1, SlotApart
        <2>3. d \o p \in Seq(Ops) /\ ToSet(d \o p) = ToSet(d) \cup ToSet(p)
            BY SetOfConcat
        <2>4. IsInjective(d \o p)
            BY <2>2, InjectiveConcat
        <2>. QED  BY <1>4, <2>1, <2>3, <2>4
    <1>6. Merged(t) = Newest(MaxSnapshot, whole)
        BY DEF Merged
    <1>. HIDE DEF whole
    <1>7. /\ Merged(t) \in Seq(Ops) /\ IsInjective(Merged(t))
          /\ ToSet(Merged(t)) \subseteq ToSet(SeenOf(task[t])) \cup ToSet(TakenOf(task[t]))
        BY <1>5, <1>6, InjectiveNewest
    <1>8. Revised(t) \in Nat
        BY <1>3 DEF Revised, NextRevision, Row
    <1>9. row' \in Row \cup {None} /\ Data(row') = Merged(t)
        BY <1>1, <1>7, <1>8, NoneAssumption DEF Row, Data
    <1>10. IsInjective(SeenOf(k)) /\ ToSet(SeenOf(k)) = {}
        BY <1>3, EmptyOnce
    <1>. QED  BY <1>1, <1>2, <1>3, <1>7, <1>9, <1>10, AnsweredOnce

LEMMA WipeOnce ==
    ASSUME OnceInv, NEW t \in Slots, Wipe(t) \/ WipeFails(t) \/ Send(t)
    PROVE  OnceInv'
    <1>1. /\ ~Idle(t) /\ UNCHANGED <<buffer, timer, used>> /\ task' = [task EXCEPT ![t] = None]
          /\ row \in Row \cup {None} /\ recorded \in Seq(Ops) /\ failures \in Nat
        BY DEF Wipe, WipeFails, Send, At, OnceInv, TypeOK
    <1>2. failures' \in Nat
        BY <1>1 DEF Wipe, WipeFails, Send, Refused
    <1>3. recorded' \in Seq(Ops)
        <2>1. Data(row) \o recorded \in Seq(Ops)
            BY <1>1, RowData
        <2>. QED  BY <1>1, <2>1 DEF Wipe, WipeFails, Send
    <1>4. row' \in Row \cup {None} /\ (Data(row') = <<>> \/ row' = row)
        <2>1. NextRevision(row) \in Nat /\ <<>> \in Seq(Ops)
            BY <1>1 DEF NextRevision, Row
        <2>2. CASE Wipe(t)
            <3>1. row' = [data |-> <<>>, revision |-> NextRevision(row)]
                BY <2>2 DEF Wipe
            <3>. QED  BY <2>1, <3>1, NoneAssumption DEF Row, Data
        <2>. QED  BY <1>1, <2>2 DEF WipeFails, Send
    <1>5. IsInjective(Data(row')) /\ ToSet(Data(row')) \subseteq ToSet(Data(row))
        BY <1>4, EmptyOnce, SlotApart
    <1>6. /\ TakenOf(None) = <<>> /\ IsInjective(SeenOf(None)) /\ ToSet(SeenOf(None)) = {}
        BY HoldsNothing, EmptyOnce
    <1>7. None \in Task \cup {None}
        OBVIOUS
    <1>. QED  BY <1>1, <1>2, <1>3, <1>4, <1>5, <1>6, <1>7, AnsweredOnce

LEMMA LoadFailsOnce ==
    ASSUME OnceInv, NEW t \in Slots, LoadFails(t)
    PROVE  OnceInv'
    <1>1. /\ ~Idle(t) /\ task[t].stage = "loading" /\ UNCHANGED <<buffer, timer, row, recorded, used>>
          /\ row \in Row \cup {None} /\ recorded \in Seq(Ops) /\ failures \in Nat
          /\ task' = [task EXCEPT ![t] = [task[t] EXCEPT !.stage = "sending"]]
        BY DEF LoadFails, At, OnceInv, TypeOK
    <1>2. failures' \in Nat
        BY <1>1 DEF LoadFails, Refused
    <1>3. task[t] \in Task
        BY <1>1, WaitingTyped DEF OnceInv
    <1>4. PICK k \in Task : /\ k = [task[t] EXCEPT !.stage = "sending"]
                            /\ k.stage = "sending" /\ k.read = task[t].read
        <2>1. PICK c \in Task : c = task[t]
            BY <1>3
        <2>2. [c EXCEPT !.stage = "sending"] \in Task
            BY DEF Task, Stages
        <2>3. /\ [c EXCEPT !.stage = "sending"].stage = "sending"
              /\ [c EXCEPT !.stage = "sending"].read = c.read
            BY DEF Task
        <2>. QED  BY <2>1, <2>2, <2>3
    <1>5. TakenOf(k) = <<>> /\ SeenOf(k) = SeenOf(task[t])
        BY <1>3, <1>4, HoldsNothing
    <1>6. IsInjective(SeenOf(task[t])) /\ IsInjective(Data(row))
        BY SlotApart
    <1>. QED  BY <1>1, <1>2, <1>4, <1>5, <1>6, AnsweredOnce

LEMMA FlushFailsOnce ==
    ASSUME OnceInv, NEW t \in Slots, FlushFails(t)
    PROVE  OnceInv'
    <1>. DEFINE k == AfterFlush(t)
    <1>1. /\ ~Idle(t) /\ task[t].stage \in {"reading", "writing"}
          /\ UNCHANGED <<timer, row, recorded, used>>
          /\ buffer \in Seq(Ops) /\ failures \in Nat /\ buffer' = task[t].pending \o buffer
        BY DEF FlushFails, PushBack, At, OnceInv, TypeOK
    <1>2. failures' \in Nat
        BY <1>1 DEF FlushFails, Refused
    <1>3. task' = [task EXCEPT ![t] = k]
        BY DEF FlushFails, EndFlush, AfterFlush
    <1>4. /\ task[t] \in Task /\ task[t].pending \in Seq(Ops)
          /\ k \in Task \cup {None} /\ TakenOf(k) = <<>> /\ SeenOf(k) = <<>>
        BY <1>1, WaitingTyped, AfterFlushFacts DEF OnceInv
    <1>. HIDE DEF k
    <1>5. TakenOf(task[t]) = task[t].pending
        BY <1>1, <1>4, HoldsNothing
    <1>6. /\ buffer' \in Seq(Ops) /\ IsInjective(buffer')
          /\ ToSet(buffer') = ToSet(TakenOf(task[t])) \cup ToSet(buffer)
        <2>1. PICK p \in Seq(Ops) : p = task[t].pending
            BY <1>4
        <2>2. IsInjective(p) /\ IsInjective(buffer) /\ ToSet(p) \cap ToSet(buffer) = {}
            BY <1>5, <2>1, SlotApart
        <2>3. /\ p \o buffer \in Seq(Ops) /\ ToSet(p \o buffer) = ToSet(p) \cup ToSet(buffer)
            BY <1>1, SetOfConcat
        <2>4. IsInjective(p \o buffer)
            BY <1>1, <2>2, InjectiveConcat
        <2>. QED  BY <1>1, <1>5, <2>1, <2>3, <2>4
    <1>7. /\ task' \in [Slots -> Task \cup {None}] /\ task'[t] = k
          /\ \A u \in Slots : u # t => task'[u] = task[u]
        BY <1>3, <1>4, StartTyped DEF OnceInv
    <1>8. TypeOK'
        BY <1>1, <1>2, <1>6, <1>7 DEF OnceInv, TypeOK
    <1>9. /\ IsInjective(TakenOf(k)) /\ IsInjective(SeenOf(k))
          /\ ToSet(TakenOf(k)) = {} /\ ToSet(SeenOf(k)) = {}
        BY <1>4, EmptyOnce
    <1>10. /\ IsInjective(Data(row))
           /\ ToSet(Data(row)) \cap (ToSet(TakenOf(task[t])) \cup ToSet(buffer)) = {}
        BY SlotApart
    <1>11. /\ ToSet(buffer') \cup ToSet(TakenOf(k))
                  \subseteq ToSet(buffer) \cup ToSet(TakenOf(task[t])) \cup {}
           /\ ToSet(buffer') \cap ToSet(TakenOf(k)) = {}
           /\ ToSet(Data(row')) \cup ToSet(SeenOf(k))
                  \subseteq ToSet(Data(row)) \cup ToSet(SeenOf(task[t])) \cup ToSet(TakenOf(task[t]))
           /\ (ToSet(Data(row')) \cup ToSet(SeenOf(k)))
                  \cap (ToSet(buffer') \cup ToSet(TakenOf(k))) = {}
           /\ IsInjective(Data(row'))
        BY <1>1, <1>6, <1>9, <1>10
    <1>12. used' = used \cup {} /\ {} \cap used = {}
        BY <1>1
    <1>. QED  BY <1>4, <1>6, <1>7, <1>8, <1>9, <1>11, <1>12, SlotStep

(* A clear starts: the other calls keep what they hold.                     *)
LEMMA ClearOnce ==
    ASSUME OnceInv, Clear
    PROVE  OnceInv'
    <1>1. /\ buffer' = <<>> /\ timer' = FALSE /\ recorded' = <<>> /\ UNCHANGED <<row, used, failures>>
        BY DEF Clear
    <1>2. PICK t \in Slots : Idle(t) /\
              task' = [u \in Slots |-> IF u = t THEN NewTask("wiping", <<>>, None, {})
                                       ELSE IF Idle(u) THEN None ELSE [task[u] EXCEPT !.owed = {}]]
        BY DEF Clear, MayStart
    <1>3. PICK k \in Task : /\ k = NewTask("wiping", <<>>, None, {})
                            /\ k.stage = "wiping" /\ k.read = None
        <2>1. PICK empty \in Seq(Ops) : empty = <<>>
            BY EmptyOnce
        <2>2. "wiping" \in Stages /\ None \in Clients \cup {None} /\ {} \in SUBSET Ops
            BY DEF Stages
        <2>3. \E k \in Task : /\ k = NewTask("wiping", empty, None, {})
                              /\ k.stage = "wiping" /\ k.pending = empty /\ k.read = None
            BY <2>2, NewTaskFacts
        <2>. QED  BY <2>1, <2>3
    <1>4. TakenOf(k) = <<>> /\ SeenOf(k) = <<>>
        BY <1>3, HoldsNothing
    <1>5. ASSUME NEW u \in Slots
          PROVE  /\ task'[u] \in Task \cup {None}
                 /\ TakenOf(task'[u]) = TakenOf(task[u]) /\ SeenOf(task'[u]) = SeenOf(task[u])
        <2>1. CASE u = t
            BY <1>2, <1>3, <1>4, <2>1, HoldsNothing DEF Idle
        <2>2. CASE u # t /\ Idle(u)
            BY <1>2, <2>2 DEF Idle
        <2>3. CASE u # t /\ ~Idle(u)
            <3>1. task[u] \in Task
                BY <2>3, WaitingTyped DEF OnceInv
            <3>2. PICK j \in Task : /\ j = [task[u] EXCEPT !.owed = {}]
                                    /\ j.stage = task[u].stage /\ j.pending = task[u].pending
                                    /\ j.read = task[u].read
                <4>1. PICK c \in Task : c = task[u]
                    BY <3>1
                <4>2. [c EXCEPT !.owed = {}] \in Task
                    BY DEF Task
                <4>3. /\ [c EXCEPT !.owed = {}].stage = c.stage
                      /\ [c EXCEPT !.owed = {}].pending = c.pending
                      /\ [c EXCEPT !.owed = {}].read = c.read
                    BY DEF Task
                <4>. QED  BY <4>1, <4>2, <4>3
            <3>3. task'[u] = j
                BY <1>2, <2>3, <3>2
            <3>. QED  BY <3>1, <3>2, <3>3, NoneAssumption DEF TakenOf, SeenOf
        <2>. QED  BY <2>1, <2>2, <2>3
    <1>6. task' \in [Slots -> Task \cup {None}]
        BY <1>2, <1>5
    <1>7. TypeOK'
        BY <1>1, <1>6, EmptyOnce DEF OnceInv, TypeOK
    <1>8. TakenIn' = TakenIn /\ SeenIn' = SeenIn
        BY <1>5 DEF TakenIn, SeenIn
    <1>9. Singles'
        BY <1>1, <1>5, EmptyOnce DEF OnceInv, Singles
    <1>10. Separate(ToSet(buffer), ToSet(Data(row)), TakenIn, SeenIn, used)
        BY DEF OnceInv
    <1>11. Separate({}, ToSet(Data(row)), TakenIn, SeenIn, used)
        BY <1>10 DEF Separate
    <1>12. ToSet(buffer') = {} /\ Data(row') = Data(row)
        BY <1>1, EmptyOnce
    <1>13. Separate(ToSet(buffer'), ToSet(Data(row')), TakenIn', SeenIn', used')
        BY <1>1, <1>8, <1>11, <1>12
    <1>. QED  BY <1>7, <1>9, <1>13 DEF OnceInv

LEMMA StartedOnce == Init => OnceInv
    <1>. SUFFICES ASSUME Init PROVE OnceInv
        OBVIOUS
    <1>1. /\ buffer = <<>> /\ timer = FALSE /\ row = None /\ recorded = <<>> /\ used = {}
          /\ failures = 0 /\ task = [t \in Slots |-> None]
        BY DEF Init
    <1>2. TypeOK
        BY <1>1, EmptyOnce DEF TypeOK
    <1>3. \A t \in Slots : TakenOf(task[t]) = <<>> /\ SeenOf(task[t]) = <<>>
        BY <1>1, HoldsNothing
    <1>4. Data(row) = <<>>
        BY <1>1 DEF Data
    <1>5. Singles
        BY <1>1, <1>3, <1>4, EmptyOnce DEF Singles
    <1>6. \A t \in Slots : TakenIn[t] = {} /\ SeenIn[t] = {}
        BY <1>3, EmptyOnce DEF TakenIn, SeenIn
    <1>7. Separate({}, {}, TakenIn, SeenIn, {})
        BY <1>6 DEF Separate
    <1>. QED  BY <1>1, <1>2, <1>4, <1>5, <1>7, EmptyOnce DEF OnceInv

LEMMA OnceStep == OnceInv /\ [Next]_vars => OnceInv'
    <1>. SUFFICES ASSUME OnceInv, [Next]_vars PROVE OnceInv'
        OBVIOUS
    <1>1. CASE UNCHANGED vars
        BY <1>1 DEF vars, OnceInv, TypeOK, Singles, TakenIn, SeenIn
    <1>. QED
        BY <1>1, QueuedOnce, FlushedOnce, TimerOnce, RequestOnce, ReadsOnce, WriteOnce, WipeOnce,
           LoadFailsOnce, FlushFailsOnce, ClearOnce, StartedOnce
           DEF Next, Record, Answer, Failure

(* Whether or not calls overlap, whatever Postgres refuses and however often *)
(* a flush is repeated: no operation is in the row, or in a snapshot, twice. *)
THEOREM EachOnce == Spec => []NoneTwice
    <1>1. OnceInv => NoneTwice
        BY HoldsNothing DEF OnceInv, Singles, NoneTwice, At, Idle, TypeOK
    <1>. QED  BY <1>1, StartedOnce, OnceStep, PTL DEF Spec

(* Overlapping calls break nothing of the shape of buffer, row and calls.   *)
THEOREM WhiteboardTyped == Spec => []TypeOK
    <1>1. OnceInv => TypeOK
        BY DEF OnceInv
    <1>. QED  BY <1>1, StartedOnce, OnceStep, PTL DEF Spec

-----------------------------------------------------------------------------
(* Induction on the naturals and on sequences, as facts about sets.         *)

LEMMA Induction ==
    ASSUME NEW S \in SUBSET Nat, 0 \in S, \A n \in S : n + 1 \in S
    PROVE  S = Nat
<1> SUFFICES ASSUME Nat \ S # {} PROVE FALSE
    OBVIOUS
<1>1. PICK x \in Nat \ S : \A y \in Nat \ S : ~(<<y, x>> \in OpToRel(<, Nat))
    BY NatLessThanWellFounded, WFMin
<1>2. x \in Nat /\ x # 0
    BY <1>1
<1>3. x - 1 \in Nat /\ x - 1 < x /\ (x - 1) + 1 = x
    BY <1>2
<1>4. <<x - 1, x>> \in OpToRel(<, Nat)
    BY <1>2, <1>3 DEF OpToRel
<1>5. x - 1 \in S
    BY <1>1, <1>3, <1>4
<1> QED BY <1>1, <1>3, <1>5

LEMMA LastApart ==
    ASSUME NEW S, NEW n \in Nat, NEW s \in Seq(S), Len(s) = n + 1
    PROVE  /\ SubSeq(s, 1, n) \in Seq(S) /\ Len(SubSeq(s, 1, n)) = n
           /\ s[n + 1] \in S
           /\ s = Append(SubSeq(s, 1, n), s[n + 1])
OBVIOUS

LEMMA SequenceInduction ==
    ASSUME NEW S, NEW T \in SUBSET Seq(S),
           <<>> \in T, \A s \in T : \A e \in S : Append(s, e) \in T
    PROVE  T = Seq(S)
<1> DEFINE Lengths == {n \in Nat : \A s \in Seq(S) : Len(s) = n => s \in T}
<1>1. 0 \in Lengths
    <2>1. \A s \in Seq(S) : Len(s) = 0 => s = <<>>
        OBVIOUS
    <2> QED BY <2>1
<1>2. ASSUME NEW n \in Lengths PROVE n + 1 \in Lengths
    <2>1. ASSUME NEW s \in Seq(S), Len(s) = n + 1 PROVE s \in T
        <3>1. n \in Nat
            OBVIOUS
        <3>2. /\ SubSeq(s, 1, n) \in Seq(S) /\ Len(SubSeq(s, 1, n)) = n
              /\ s[n + 1] \in S
              /\ s = Append(SubSeq(s, 1, n), s[n + 1])
            BY <2>1, <3>1, LastApart
        <3>3. SubSeq(s, 1, n) \in T
            BY <3>2
        <3> QED BY <3>2, <3>3
    <2> QED BY <2>1
<1>3. Lengths = Nat
    <2> HIDE DEF Lengths
    <2>1. Lengths \in SUBSET Nat
        BY DEF Lengths
    <2> QED BY <1>1, <1>2, <2>1, Induction
<1>4. \A s \in Seq(S) : Len(s) \in Nat
    OBVIOUS
<1>5. Seq(S) \subseteq T
    BY <1>3, <1>4
<1> QED BY <1>5

-----------------------------------------------------------------------------
(* What Only computes: f holds what each part of s leaves.                  *)
Filters(f, s, some, n) ==
    f = [i \in 0 .. n |->
            IF i = 0 THEN <<>>
            ELSE IF s[i] \in some THEN Append(f[i - 1], s[i]) ELSE f[i - 1]]

LEMMA FilterStep ==
    ASSUME NEW n \in Nat, NEW f, NEW s, NEW some, Filters(f, s, some, n)
    PROVE  /\ f[0] = <<>>
           /\ \A i \in 1 .. n :
                f[i] = IF s[i] \in some THEN Append(f[i - 1], s[i]) ELSE f[i - 1]
<1> SUFFICES ASSUME NEW i \in 0 .. n
             PROVE  f[i] = IF i = 0 THEN <<>>
                           ELSE IF s[i] \in some THEN Append(f[i - 1], s[i]) ELSE f[i - 1]
    OBVIOUS
<1> QED BY DEF Filters

LEMMA FilterExists ==
    ASSUME NEW s, NEW some
    PROVE  \A n \in Nat : \E f : Filters(f, s, some, n)
<1> DEFINE S == {n \in Nat : \E f : Filters(f, s, some, n)}
<1>1. 0 \in S
    <2>1. Filters([i \in 0 .. 0 |-> <<>>], s, some, 0)
        BY DEF Filters
    <2> QED BY <2>1
<1>2. ASSUME NEW n \in S PROVE n + 1 \in S
    <2>0. n \in Nat
        OBVIOUS
    <2>1. PICK f : Filters(f, s, some, n)
        OBVIOUS
    <2> DEFINE last == IF s[n + 1] \in some THEN Append(f[n], s[n + 1]) ELSE f[n]
               g == [i \in 0 .. n + 1 |-> IF i = n + 1 THEN last ELSE f[i]]
    <2> HIDE DEF last
    <2>2. ASSUME NEW i \in 0 .. n + 1
          PROVE  g[i] = IF i = 0 THEN <<>>
                        ELSE IF s[i] \in some THEN Append(g[i - 1], s[i]) ELSE g[i - 1]
        <3>1. CASE i = 0
            BY <2>0, <2>1, <3>1, FilterStep
        <3>2. CASE i = n + 1
            <4>1. i # 0 /\ i - 1 \in 0 .. n /\ i - 1 = n
                BY <2>0, <3>2
            <4>2. g[i] = last /\ g[i - 1] = f[n]
                BY <2>0, <3>2, <4>1
            <4> QED BY <3>2, <4>1, <4>2 DEF last
        <3>3. CASE i # 0 /\ i # n + 1
            <4>1. i \in 1 .. n /\ i - 1 \in 0 .. n
                BY <2>0, <3>3
            <4>2. g[i] = f[i] /\ g[i - 1] = f[i - 1]
                BY <2>0, <4>1
            <4> HIDE DEF g
            <4> QED BY <2>0, <2>1, <3>3, <4>1, <4>2, FilterStep
        <3> QED BY <3>1, <3>2, <3>3
    <2>3. g = [i \in 0 .. n + 1 |->
                  IF i = 0 THEN <<>>
                  ELSE IF s[i] \in some THEN Append(g[i - 1], s[i]) ELSE g[i - 1]]
        BY <2>2
    <2>4. Filters(g, s, some, n + 1)
        BY <2>3 DEF Filters
    <2> HIDE DEF g
    <2> QED BY <2>0, <2>4
<1>3. S = Nat
    <2> HIDE DEF S
    <2>1. S \in SUBSET Nat
        BY DEF S
    <2> QED BY <1>1, <1>2, <2>1, Induction
<1> QED BY <1>3

(* Only looks at the elements up to its length, and no further.             *)
LEMMA FilterUnique ==
    ASSUME NEW m \in Nat, NEW n \in m .. m + 1, NEW s, NEW t, NEW some, NEW f, NEW g,
           Filters(f, s, some, m), Filters(g, t, some, n),
           \A i \in 1 .. m : s[i] = t[i]
    PROVE  f[m] = g[m]
<1> DEFINE S == {i \in Nat : i <= m => f[i] = g[i]}
<1>0. n \in Nat /\ m <= n
    OBVIOUS
<1>1. 0 \in S
    BY <1>0, FilterStep
<1>2. ASSUME NEW i \in S PROVE i + 1 \in S
    <2>1. CASE i + 1 <= m
        <3>1. i + 1 \in 1 .. m /\ i + 1 \in 1 .. n /\ i <= m /\ (i + 1) - 1 = i
            BY <1>0, <2>1
        <3>2. f[i] = g[i] /\ s[i + 1] = t[i + 1]
            BY <3>1
        <3>3. f[i + 1] = IF s[i + 1] \in some THEN Append(f[i], s[i + 1]) ELSE f[i]
            BY <3>1, FilterStep
        <3>4. g[i + 1] = IF t[i + 1] \in some THEN Append(g[i], t[i + 1]) ELSE g[i]
            BY <1>0, <3>1, FilterStep
        <3> QED BY <3>2, <3>3, <3>4
    <2> QED BY <2>1
<1>3. S = Nat
    <2> HIDE DEF S
    <2>1. S \in SUBSET Nat
        BY DEF S
    <2> QED BY <1>1, <1>2, <2>1, Induction
<1> QED BY <1>3

LEMMA OnlyFilters ==
    ASSUME NEW s, NEW some, Len(s) \in Nat
    PROVE  \E f : Filters(f, s, some, Len(s)) /\ Only(s, some) = f[Len(s)]
<1> DEFINE n == Len(s)
           only[i \in 0 .. n] ==
               IF i = 0 THEN <<>>
               ELSE IF s[i] \in some THEN Append(only[i - 1], s[i]) ELSE only[i - 1]
<1>1. \E f : f = [i \in 0 .. n |->
                     IF i = 0 THEN <<>>
                     ELSE IF s[i] \in some THEN Append(f[i - 1], s[i]) ELSE f[i - 1]]
    <2>1. \E f : Filters(f, s, some, n)
        BY FilterExists
    <2> QED BY <2>1 DEF Filters
<1>2. only = [i \in 0 .. n |->
                 IF i = 0 THEN <<>>
                 ELSE IF s[i] \in some THEN Append(only[i - 1], s[i]) ELSE only[i - 1]]
    BY <1>1
<1>3. Only(s, some) = only[n]
    BY DEF Only
<1> QED BY <1>2, <1>3 DEF Filters

LEMMA OnlyOfEmpty == \A some : Only(<<>>, some) = <<>>
<1> SUFFICES ASSUME NEW some PROVE Only(<<>>, some) = <<>>
    OBVIOUS
<1>1. Len(<<>>) = 0
    OBVIOUS
<1>2. PICK f : Filters(f, <<>>, some, 0) /\ Only(<<>>, some) = f[0]
    BY <1>1, OnlyFilters
<1> QED BY <1>2, FilterStep

LEMMA OnlyOfAppend ==
    ASSUME NEW S, NEW s \in Seq(S), NEW e \in S, NEW some
    PROVE  Only(Append(s, e), some) =
                IF e \in some THEN Append(Only(s, some), e) ELSE Only(s, some)
<1> DEFINE t == Append(s, e)
           n == Len(s)
<1>1. /\ n \in Nat /\ Len(t) = n + 1 /\ Len(t) \in Nat
      /\ t[n + 1] = e
      /\ \A i \in 1 .. n : s[i] = t[i]
    OBVIOUS
<1>2. PICK f : Filters(f, s, some, n) /\ Only(s, some) = f[n]
    BY <1>1, OnlyFilters
<1> HIDE DEF t, n
<1>3. PICK g : Filters(g, t, some, n + 1) /\ Only(t, some) = g[n + 1]
    BY <1>1, OnlyFilters
<1>4. f[n] = g[n]
    <2>1. n + 1 \in n .. n + 1
        BY <1>1
    <2> QED BY <1>1, <1>2, <1>3, <2>1, FilterUnique
<1>5. n + 1 \in 1 .. n + 1 /\ (n + 1) - 1 = n
    BY <1>1
<1>6. g[n + 1] = IF t[n + 1] \in some THEN Append(g[n], t[n + 1]) ELSE g[n]
    BY <1>1, <1>3, <1>5, FilterStep
<1> QED BY <1>1, <1>2, <1>3, <1>4, <1>6 DEF t

LEMMA ContainsOfAppend ==
    ASSUME NEW S, NEW s \in Seq(S), NEW e \in S, NEW x
    PROVE  Contains(Append(s, e), x) <=> Contains(s, x) \/ x = e
<1> DEFINE t == Append(s, e)
<1>1. /\ Len(s) \in Nat /\ Len(t) = Len(s) + 1
      /\ t[Len(s) + 1] = e
      /\ \A i \in 1 .. Len(s) : s[i] = t[i]
    OBVIOUS
<1>2. Contains(s, x) => Contains(t, x)
    <2> HIDE DEF t
    <2> QED BY <1>1 DEF Contains
<1>3. x = e => Contains(t, x)
    <2> HIDE DEF t
    <2> QED BY <1>1 DEF Contains
<1>4. Contains(t, x) => Contains(s, x) \/ x = e
    <2> HIDE DEF t
    <2> QED BY <1>1 DEF Contains
<1> QED BY <1>2, <1>3, <1>4

LEMMA NothingInEmpty == \A x : ~Contains(<<>>, x)
BY DEF Contains

(* A part of a sequence has that sequence's elements of the kind asked for. *)
LEMMA OnlyFacts ==
    ASSUME NEW S, NEW some
    PROVE  \A s \in Seq(S) :
             /\ Only(s, some) \in Seq(S)
             /\ \A x \in S : Contains(Only(s, some), x) <=> Contains(s, x) /\ x \in some
<1> DEFINE P(s) == /\ Only(s, some) \in Seq(S)
                   /\ \A x \in S : Contains(Only(s, some), x) <=> Contains(s, x) /\ x \in some
           T == {s \in Seq(S) : P(s)}
<1>1. <<>> \in T
    <2>1. <<>> \in Seq(S) /\ Only(<<>>, some) = <<>>
        BY OnlyOfEmpty
    <2>2. \A x \in S : ~Contains(<<>>, x)
        BY NothingInEmpty
    <2>3. P(<<>>)
        BY <2>1, <2>2
    <2> QED BY <2>1, <2>3
<1>2. ASSUME NEW s \in T, NEW e \in S PROVE Append(s, e) \in T
    <2> DEFINE o == Only(s, some)
    <2>1. s \in Seq(S) /\ P(s) /\ Append(s, e) \in Seq(S)
        OBVIOUS
    <2>2. Only(Append(s, e), some) = IF e \in some THEN Append(o, e) ELSE o
        BY <2>1, OnlyOfAppend
    <2>3. \A x \in S : Contains(Append(s, e), x) <=> Contains(s, x) \/ x = e
        BY <2>1, ContainsOfAppend
    <2>4. \A x \in S : Contains(Append(o, e), x) <=> Contains(o, x) \/ x = e
        BY <2>1, ContainsOfAppend
    <2>5. Only(Append(s, e), some) \in Seq(S)
        BY <2>1, <2>2
    <2>6. P(Append(s, e))
        <3>1. CASE e \in some
            BY <2>1, <2>2, <2>3, <2>4, <2>5, <3>1
        <3>2. CASE e \notin some
            BY <2>1, <2>2, <2>3, <2>5, <3>2
        <3> QED BY <3>1, <3>2
    <2> QED BY <2>1, <2>6
<1>3. T = Seq(S)
    <2> HIDE DEF T
    <2>1. T \in SUBSET Seq(S)
        BY DEF T
    <2> QED BY <1>1, <1>2, <2>1, SequenceInduction
<1> QED BY <1>3

(* What was asked for is asked for again: nothing else is gone.             *)
LEMMA OnlyOfOnly ==
    ASSUME NEW S, NEW wide, NEW some, some \cap S \subseteq wide
    PROVE  \A s \in Seq(S) : Only(Only(s, wide), some) = Only(s, some)
<1> DEFINE T == {s \in Seq(S) : Only(Only(s, wide), some) = Only(s, some)}
<1>1. <<>> \in T
    BY OnlyOfEmpty
<1>2. ASSUME NEW s \in T, NEW e \in S PROVE Append(s, e) \in T
    <2> DEFINE o == Only(s, wide)
    <2>1. s \in Seq(S) /\ Only(o, some) = Only(s, some) /\ Append(s, e) \in Seq(S)
        OBVIOUS
    <2>2. o \in Seq(S)
        BY <2>1, OnlyFacts
    <2>3. Only(Append(s, e), wide) = IF e \in wide THEN Append(o, e) ELSE o
        BY <2>1, OnlyOfAppend
    <2>4. Only(Append(s, e), some) = IF e \in some THEN Append(Only(s, some), e) ELSE Only(s, some)
        BY <2>1, OnlyOfAppend
    <2>5. Only(Append(o, e), some) = IF e \in some THEN Append(Only(o, some), e) ELSE Only(o, some)
        BY <2>2, OnlyOfAppend
    <2>6. Only(Only(Append(s, e), wide), some) = Only(Append(s, e), some)
        <3>1. CASE e \in wide
            BY <2>1, <2>3, <2>4, <2>5, <3>1
        <3>2. CASE e \notin wide
            BY <2>1, <2>3, <2>4, <3>2
        <3> QED BY <3>1, <3>2
    <2> QED BY <2>1, <2>6
<1>3. T = Seq(S)
    <2> HIDE DEF T
    <2>1. T \in SUBSET Seq(S)
        BY DEF T
    <2> QED BY <1>1, <1>2, <2>1, SequenceInduction
<1> QED BY <1>3

-----------------------------------------------------------------------------
(* The room's boards, when nothing overlaps the reading of a snapshot.      *)

(* c can undo and redo only what it has drawn itself.                       *)
OwnStacks(c) ==
    \A stack \in {mine[c], undone[c]} : \A i \in 1 .. Len(stack) : stack[i].by = c

(* What c has drawn and the gateway has not seen yet is c's, is not on the   *)
(* board, and is on its way once.                                           *)
NewToBoard(c) ==
    \A i \in 1 .. Len(up[c]) : up[c][i].m = "op" =>
        /\ up[c][i].op.by = c /\ up[c][i].op.id <= drawn
        /\ ~Contains(board, up[c][i].op)
        /\ \A j \in 1 .. i - 1 : up[c][j] # up[c][i]

(* A snapshot that has been read is what is still on the board.             *)
CurrentSnapshot(c) == reading[c] = <<>> \/ reading[c] = <<board>>

(* Until it clears the board, a page follows what the others draw.          *)
Follows(c) ==
    fresh[c] /\ ~Contains(up[c], ClearMsg) => OfOthers(view[c], c) = OfOthers(board, c)

BoardInv ==
    /\ BoardTypeOK
    /\ \A i \in 1 .. Len(board) : board[i].id <= drawn
    /\ \A c \in Pages : OwnStacks(c) /\ NewToBoard(c) /\ CurrentSnapshot(c) /\ Follows(c)

LEMMA OthersPrimed ==
    \A c : /\ OfOthers(view[c], c)' = OfOthers(view'[c], c)
           /\ OfOthers(board, c)' = OfOthers(board', c)
BY DEF OfOthers, Only, Op

LEMMA FollowsPrimed ==
    ASSUME NEW c,
           fresh'[c] /\ ~Contains(up'[c], ClearMsg) =>
                OfOthers(view'[c], c) = OfOthers(board', c)
    PROVE  Follows(c)'
BY OthersPrimed DEF Follows, Contains, ClearMsg

LEMMA MsgFacts ==
    /\ AskMsg \in Msg /\ ClearMsg \in Msg /\ \A op \in Op : Draws(op) \in Msg
    /\ AskMsg.m = "ask" /\ ClearMsg.m = "clear" /\ AskMsg # ClearMsg
    /\ \A op : Draws(op).m = "op" /\ Draws(op).op = op /\ Draws(op) # ClearMsg
    /\ \A msg \in Msg : /\ msg.m = "op" => msg.op \in Op /\ msg = Draws(msg.op)
                        /\ msg.m = "clear" => msg = ClearMsg
<1>1. AskMsg.m = "ask" /\ ClearMsg.m = "clear"
    BY DEF AskMsg, ClearMsg
<1>2. \A op : Draws(op).m = "op" /\ Draws(op).op = op
    BY DEF Draws
<1>3. AskMsg \in Msg /\ ClearMsg \in Msg /\ \A op \in Op : Draws(op) \in Msg
    BY DEF Msg
<1>4. ASSUME NEW msg \in Msg
      PROVE  /\ msg.m = "op" => msg.op \in Op /\ msg = Draws(msg.op)
             /\ msg.m = "clear" => msg = ClearMsg
    <2>1. CASE msg = AskMsg \/ msg = ClearMsg
        BY <1>1, <2>1
    <2>2. CASE \E op \in Op : msg = Draws(op)
        BY <1>2, <2>2
    <2> QED BY <2>1, <2>2 DEF Msg
<1>5. AskMsg # ClearMsg /\ \A op : Draws(op) # ClearMsg
    BY <1>1, <1>2
<1> QED BY <1>1, <1>2, <1>3, <1>4, <1>5

LEMMA AppendSeq ==
    ASSUME NEW S, NEW s \in Seq(S), NEW e \in S
    PROVE  /\ Append(s, e) \in Seq(S) /\ Len(Append(s, e)) = Len(s) + 1 /\ Len(s) \in Nat
           /\ \A i \in 1 .. Len(s) : Append(s, e)[i] = s[i]
           /\ Append(s, e)[Len(s) + 1] = e
OBVIOUS

LEMMA TailSeq ==
    ASSUME NEW S, NEW s \in Seq(S), s # <<>>
    PROVE  /\ Tail(s) \in Seq(S) /\ Len(Tail(s)) = Len(s) - 1 /\ Len(s) \in Nat \ {0}
           /\ \A i \in 1 .. Len(s) - 1 : Tail(s)[i] = s[i + 1]
           /\ Head(s) \in S /\ Head(s) = s[1]
OBVIOUS

LEMMA FrontSeq ==
    ASSUME NEW S, NEW s \in Seq(S), s # <<>>
    PROVE  /\ Front(s) \in Seq(S) /\ Len(Front(s)) = Len(s) - 1 /\ Len(s) \in Nat \ {0}
           /\ \A i \in 1 .. Len(s) - 1 : Front(s)[i] = s[i]
           /\ Last(s) \in S /\ Last(s) = s[Len(s)]
<1>1. Len(s) \in Nat \ {0} /\ s[Len(s)] \in S
    OBVIOUS
<1> DEFINE n == Len(s) - 1
<1>2. n \in Nat /\ Len(s) = n + 1
    BY <1>1
<1> HIDE DEF n
<1>3. /\ SubSeq(s, 1, n) \in Seq(S) /\ Len(SubSeq(s, 1, n)) = n
      /\ \A i \in 1 .. n : SubSeq(s, 1, n)[i] = s[i]
    BY <1>2
<1> QED BY <1>1, <1>3 DEF n, Front, Last

LEMMA PushFacts ==
    ASSUME NEW S, NEW f \in [Pages -> Seq(S)], NEW c \in Pages, NEW x \in S
    PROVE  /\ Push(f, c, x) \in [Pages -> Seq(S)] /\ Push(f, c, x)[c] = Append(f[c], x)
           /\ \A d \in Pages \ {c} : Push(f, c, x)[d] = f[d]
<1>1. Append(f[c], x) \in Seq(S)
    OBVIOUS
<1> QED BY <1>1 DEF Push

(* A message that is not an operation, or a new one, is emitted.            *)
LEMMA EmitFacts ==
    ASSUME BoardTypeOK, NEW c \in Pages, NEW msg \in Msg, Emits(c, msg)
    PROVE  /\ up' \in [Pages -> Seq(Msg)]
           /\ \A d \in Pages : (d # c \/ ~conn[d]) => up'[d] = up[d]
           /\ conn[c] => up'[c] = Append(up[c], msg)
           /\ \A d \in Pages : Contains(up[d], ClearMsg) => Contains(up'[d], ClearMsg)
<1>1. up \in [Pages -> Seq(Msg)] /\ conn \in [Pages -> BOOLEAN]
    BY DEF BoardTypeOK
<1>2. /\ Push(up, c, msg) \in [Pages -> Seq(Msg)] /\ Push(up, c, msg)[c] = Append(up[c], msg)
      /\ \A d \in Pages \ {c} : Push(up, c, msg)[d] = up[d]
    BY <1>1, PushFacts
<1>3. up' = IF conn[c] THEN Push(up, c, msg) ELSE up
    BY DEF Emits
<1>4. up[c] \in Seq(Msg)
    BY <1>1
<1>5. Contains(up[c], ClearMsg) => Contains(Append(up[c], msg), ClearMsg)
    BY <1>4, ContainsOfAppend
<1> QED BY <1>1, <1>2, <1>3, <1>5

LEMMA SilentEmit ==
    ASSUME BoardInv, NEW c \in Pages, NEW msg \in Msg, Emits(c, msg), msg.m # "op",
           board' = board, drawn' = drawn
    PROVE  \A d \in Pages : NewToBoard(d)'
<1> SUFFICES ASSUME NEW d \in Pages PROVE NewToBoard(d)'
    OBVIOUS
<1>1. NewToBoard(d) /\ BoardTypeOK
    BY DEF BoardInv
<1>2. CASE up'[d] = up[d]
    BY <1>1, <1>2 DEF NewToBoard, Contains
<1>3. CASE up'[d] # up[d]
    <2>1. up'[d] = Append(up[d], msg) /\ up[d] \in Seq(Msg)
        BY <1>1, <1>3, EmitFacts DEF BoardTypeOK
    <2>2. /\ Len(up'[d]) = Len(up[d]) + 1 /\ Len(up[d]) \in Nat
          /\ \A i \in 1 .. Len(up[d]) : up'[d][i] = up[d][i]
          /\ up'[d][Len(up[d]) + 1] = msg
        BY <2>1, AppendSeq
    <2>3. ASSUME NEW i \in 1 .. Len(up'[d]), up'[d][i].m = "op"
          PROVE  /\ up'[d][i].op.by = d /\ up'[d][i].op.id <= drawn'
                 /\ ~Contains(board', up'[d][i].op)
                 /\ \A j \in 1 .. i - 1 : up'[d][j] # up'[d][i]
        <3>1. i \in 1 .. Len(up[d])
            BY <2>2, <2>3
        <3>2. up'[d][i] = up[d][i] /\ \A j \in 1 .. i - 1 : up'[d][j] = up[d][j]
            BY <2>2, <3>1
        <3> QED BY <1>1, <2>3, <3>1, <3>2 DEF NewToBoard
    <2> QED BY <2>3 DEF NewToBoard, Contains
<1> QED BY <1>2, <1>3

LEMMA Kept ==
    ASSUME BoardInv
    PROVE  /\ UNCHANGED <<mine, undone>> => \A d \in Pages : OwnStacks(d)'
           /\ UNCHANGED <<board, up, drawn>> => \A d \in Pages : NewToBoard(d)'
           /\ UNCHANGED <<board, reading>> => \A d \in Pages : CurrentSnapshot(d)'
           /\ board' = board /\ drawn' \in {drawn, drawn + 1} =>
                \A i \in 1 .. Len(board') : board'[i].id <= drawn'
<1>1. UNCHANGED <<mine, undone>> => \A d \in Pages : OwnStacks(d)'
    BY DEF BoardInv, OwnStacks
<1>2. UNCHANGED <<board, up, drawn>> => \A d \in Pages : NewToBoard(d)'
    BY DEF BoardInv, NewToBoard, Contains
<1>3. UNCHANGED <<board, reading>> => \A d \in Pages : CurrentSnapshot(d)'
    BY DEF BoardInv, CurrentSnapshot
<1>4. ASSUME board' = board, drawn' \in {drawn, drawn + 1}
      PROVE  \A i \in 1 .. Len(board') : board'[i].id <= drawn'
    <2>1. drawn \in Nat
        BY DEF BoardInv, BoardTypeOK
    <2>2. ASSUME NEW i \in 1 .. Len(board) PROVE board[i].id \in Nat /\ board[i].id <= drawn
        <3>1. board[i] \in Op
            BY DEF BoardInv, BoardTypeOK
        <3>2. board[i].id \in Nat
            BY <3>1, BoardBounds DEF Op
        <3> QED BY <3>2 DEF BoardInv
    <2> QED BY <1>4, <2>1, <2>2
<1> QED BY <1>1, <1>2, <1>3, <1>4

LEMMA FollowsOn ==
    ASSUME BoardInv, board' = board, NEW d \in Pages,
           fresh'[d] /\ ~Contains(up'[d], ClearMsg) =>
                /\ fresh[d] /\ ~Contains(up[d], ClearMsg)
                /\ OfOthers(view'[d], d) = OfOthers(view[d], d)
    PROVE  Follows(d)'
<1>1. Follows(d)
    BY DEF BoardInv
<1> QED BY <1>1, FollowsPrimed DEF Follows

(* What c draws is no matter of what it sees of the others.                 *)
LEMMA OwnUnseen ==
    ASSUME NEW c \in Pages, NEW ops \in Seq(Op), NEW op \in Op, op.by = c
    PROVE  /\ OfOthers(Append(ops, op), c) = OfOthers(ops, c)
           /\ OfOthers(Without(ops, op), c) = OfOthers(ops, c)
           /\ Without(ops, op) \in Seq(Op)
<1> DEFINE others == {o \in Op : o.by # c}
           rest == Op \ {op}
<1>1. op \notin others /\ others \cap Op \subseteq rest
    OBVIOUS
<1> HIDE DEF others, rest
<1>2. Only(Append(ops, op), others) = Only(ops, others)
    BY <1>1, OnlyOfAppend
<1>3. Only(Only(ops, rest), others) = Only(ops, others)
    BY <1>1, OnlyOfOnly
<1>4. Only(ops, rest) \in Seq(Op)
    BY OnlyFacts
<1> QED BY <1>2, <1>3, <1>4 DEF OfOthers, Without, others, rest

LEMMA BoardStarted == BoardInit => BoardInv
<1> SUFFICES ASSUME BoardInit PROVE BoardInv
    OBVIOUS
<1>1. BoardTypeOK
    BY BoardBounds DEF BoardInit, BoardTypeOK, Each
<1>2. Len(<<>>) = 0
    OBVIOUS
<1>3. \A i \in 1 .. Len(board) : board[i].id <= drawn
    BY <1>2 DEF BoardInit
<1>4. ASSUME NEW c \in Pages PROVE OwnStacks(c) /\ NewToBoard(c) /\ CurrentSnapshot(c) /\ Follows(c)
    <2>1. /\ mine[c] = <<>> /\ undone[c] = <<>> /\ up[c] = <<>> /\ reading[c] = <<>>
          /\ ~fresh[c]
        BY DEF BoardInit, Each
    <2> QED BY <1>2, <2>1 DEF OwnStacks, NewToBoard, CurrentSnapshot, Follows
<1> QED BY <1>1, <1>3, <1>4 DEF BoardInv

LEMMA OpenPanelStep ==
    ASSUME BoardInv, NEW c \in Pages, OpenPanel(c) PROVE BoardInv'
<1>0. BoardTypeOK
    BY DEF BoardInv
<1>1. /\ ~open[c] /\ Emits(c, AskMsg)
      /\ open' = Set(open, c, TRUE) /\ ready' = Set(ready, c, FALSE)
      /\ UNCHANGED <<board, reading, conn, fresh, view, undone, mine, drawn, clears>>
    BY DEF OpenPanel, stacks
<1>2. /\ up' \in [Pages -> Seq(Msg)]
      /\ \A d \in Pages : (d # c \/ ~conn[d]) => up'[d] = up[d]
      /\ \A d \in Pages : Contains(up[d], ClearMsg) => Contains(up'[d], ClearMsg)
    BY <1>0, <1>1, EmitFacts, MsgFacts
<1>3. /\ open' \in [Pages -> BOOLEAN] /\ ready' \in [Pages -> BOOLEAN]
      /\ open'[c] /\ ~ready'[c]
      /\ \A d \in Pages \ {c} : open'[d] = open[d] /\ ready'[d] = ready[d]
    BY <1>0, <1>1 DEF BoardTypeOK, Set
<1>4. BoardTypeOK'
    <2>1. ASSUME NEW d \in Pages
          PROVE  /\ fresh'[d] => conn'[d] /\ ready'[d]
                 /\ ready'[d] => open'[d]
                 /\ ~conn'[d] => up'[d] = <<>> /\ reading'[d] = <<>>
        BY <1>0, <1>1, <1>2, <1>3 DEF BoardTypeOK
    <2> QED BY <1>0, <1>1, <1>2, <1>3, <2>1 DEF BoardTypeOK
<1>5. \A d \in Pages : OwnStacks(d)' /\ CurrentSnapshot(d)'
    BY <1>1, Kept
<1>6. \A d \in Pages : NewToBoard(d)'
    BY <1>1, SilentEmit, MsgFacts
<1>7. \A i \in 1 .. Len(board') : board'[i].id <= drawn'
    BY <1>1, Kept
<1>8. \A d \in Pages : Follows(d)'
    BY <1>1, <1>2, FollowsOn
<1> QED BY <1>4, <1>5, <1>6, <1>7, <1>8 DEF BoardInv

LEMMA ClosePanelStep ==
    ASSUME BoardInv, NEW c \in Pages, ClosePanel(c) PROVE BoardInv'
<1>0. BoardTypeOK
    BY DEF BoardInv
<1>1. /\ open' = Set(open, c, FALSE) /\ ready' = Set(ready, c, FALSE)
      /\ fresh' = Set(fresh, c, FALSE)
      /\ UNCHANGED <<board, up, reading, conn, view, undone, mine, drawn, clears>>
    BY DEF ClosePanel, stacks, server
<1>2. /\ {open', ready', fresh'} \subseteq [Pages -> BOOLEAN]
      /\ ~open'[c] /\ ~ready'[c] /\ ~fresh'[c]
      /\ \A d \in Pages \ {c} : open'[d] = open[d] /\ ready'[d] = ready[d] /\ fresh'[d] = fresh[d]
    BY <1>0, <1>1 DEF BoardTypeOK, Set
<1>3. BoardTypeOK'
    <2>1. ASSUME NEW d \in Pages
          PROVE  /\ fresh'[d] => conn'[d] /\ ready'[d]
                 /\ ready'[d] => open'[d]
                 /\ ~conn'[d] => up'[d] = <<>> /\ reading'[d] = <<>>
        BY <1>0, <1>1, <1>2 DEF BoardTypeOK
    <2> QED BY <1>0, <1>1, <1>2, <2>1 DEF BoardTypeOK
<1>4. \A d \in Pages : OwnStacks(d)' /\ NewToBoard(d)' /\ CurrentSnapshot(d)'
    BY <1>1, Kept
<1>5. \A i \in 1 .. Len(board') : board'[i].id <= drawn'
    BY <1>1, Kept
<1>6. ASSUME NEW d \in Pages PROVE Follows(d)'
    <2>1. fresh'[d] => fresh[d]
        BY <1>2
    <2> QED BY <1>1, <2>1, FollowsOn
<1> QED BY <1>3, <1>4, <1>5, <1>6 DEF BoardInv

LEMMA DrawStep ==
    ASSUME BoardInv, NEW c \in Pages, Draw(c) PROVE BoardInv'
<1>0. BoardTypeOK /\ drawn \in Nat /\ MaxOps \in Nat
    BY BoardBounds DEF BoardInv, BoardTypeOK
<1> DEFINE op == [id |-> drawn + 1, by |-> c]
<1>1. op \in Op /\ op.by = c /\ op.id = drawn + 1
    BY <1>0 DEF Draw, Op
<1>2. /\ view' = Push(view, c, op) /\ mine' = Push(mine, c, op)
      /\ Emits(c, Draws(op))
      /\ undone' = Set(undone, c, <<>>) /\ drawn' = drawn + 1 /\ drawn < MaxOps
      /\ UNCHANGED <<board, reading, conn, open, ready, fresh, clears>>
    BY DEF Draw, page
<1> HIDE DEF op
<1>3. /\ up' \in [Pages -> Seq(Msg)]
      /\ \A d \in Pages : (d # c \/ ~conn[d]) => up'[d] = up[d]
      /\ conn[c] => up'[c] = Append(up[c], Draws(op))
      /\ \A d \in Pages : Contains(up[d], ClearMsg) => Contains(up'[d], ClearMsg)
    BY <1>0, <1>1, <1>2, EmitFacts, MsgFacts
<1>4. /\ view \in [Pages -> Seq(Op)] /\ mine \in [Pages -> Seq(Op)]
      /\ undone \in [Pages -> Seq(Op)] /\ <<>> \in Seq(Op)
    BY <1>0 DEF BoardTypeOK
<1>5. /\ view' \in [Pages -> Seq(Op)] /\ view'[c] = Append(view[c], op)
      /\ \A d \in Pages \ {c} : view'[d] = view[d]
    <2>1. Append(view[c], op) \in Seq(Op)
        BY <1>1, <1>4, AppendSeq
    <2> QED BY <1>2, <1>4, <2>1 DEF Push
<1>6. /\ mine' \in [Pages -> Seq(Op)] /\ mine'[c] = Append(mine[c], op)
      /\ \A d \in Pages \ {c} : mine'[d] = mine[d]
    <2>1. Append(mine[c], op) \in Seq(Op)
        BY <1>1, <1>4, AppendSeq
    <2> QED BY <1>2, <1>4, <2>1 DEF Push
<1>7. /\ undone' \in [Pages -> Seq(Op)] /\ undone'[c] = <<>>
      /\ \A d \in Pages \ {c} : undone'[d] = undone[d]
    BY <1>2, <1>4 DEF Set
<1>8. BoardTypeOK'
    <2>1. ASSUME NEW d \in Pages
          PROVE  /\ fresh'[d] => conn'[d] /\ ready'[d]
                 /\ ready'[d] => open'[d]
                 /\ ~conn'[d] => up'[d] = <<>> /\ reading'[d] = <<>>
        BY <1>0, <1>2, <1>3 DEF BoardTypeOK
    <2>2. drawn' \in 0 .. MaxOps
        BY <1>0, <1>2
    <2> QED BY <1>0, <1>2, <1>3, <1>5, <1>6, <1>7, <2>1, <2>2 DEF BoardTypeOK
<1>9. ASSUME NEW d \in Pages PROVE OwnStacks(d)'
    <2>1. OwnStacks(d)
        BY DEF BoardInv
    <2>2. CASE d # c
        BY <1>6, <1>7, <2>1, <2>2 DEF OwnStacks
    <2>3. CASE d = c
        <3>1. mine[c] \in Seq(Op)
            BY <1>4
        <3>2. /\ Len(mine'[c]) = Len(mine[c]) + 1 /\ Len(mine[c]) \in Nat
              /\ \A i \in 1 .. Len(mine[c]) : mine'[c][i] = mine[c][i]
              /\ mine'[c][Len(mine[c]) + 1] = op
            BY <1>1, <1>6, <3>1, AppendSeq
        <3>3. \A i \in 1 .. Len(mine'[c]) : mine'[c][i].by = c
            BY <1>1, <2>1, <2>3, <3>2 DEF OwnStacks
        <3>4. Len(undone'[c]) = 0
            BY <1>7
        <3> QED BY <2>3, <3>3, <3>4 DEF OwnStacks
    <2> QED BY <2>2, <2>3
<1>10. \A d \in Pages : CurrentSnapshot(d)'
    BY <1>2, Kept
<1>11. \A i \in 1 .. Len(board') : board'[i].id <= drawn'
    BY <1>2, Kept
<1>12. ASSUME NEW d \in Pages PROVE NewToBoard(d)'
    <2>1. NewToBoard(d) /\ up[d] \in Seq(Msg)
        BY <1>0 DEF BoardInv, BoardTypeOK
    <2>2. ASSUME NEW i \in 1 .. Len(up[d]), up[d][i].m = "op"
          PROVE  up[d][i].op.id <= drawn /\ up[d][i].op.id <= drawn' /\ up[d][i] # Draws(op)
        <3>1. up[d][i].op \in Op
            BY <2>1, <2>2, MsgFacts
        <3>2. up[d][i].op.id \in Nat
            BY <3>1, <1>0 DEF Op
        <3>3. up[d][i].op.id <= drawn
            BY <2>1, <2>2 DEF NewToBoard
        <3>4. Draws(op).op.id = drawn + 1
            BY <1>1, MsgFacts
        <3> QED BY <1>0, <1>2, <3>2, <3>3, <3>4
    <2>3. CASE up'[d] = up[d]
        BY <1>2, <2>1, <2>2, <2>3 DEF NewToBoard, Contains
    <2>4. CASE up'[d] # up[d]
        <3>1. d = c /\ up'[d] = Append(up[d], Draws(op)) /\ Draws(op) \in Msg
            BY <1>0, <1>1, <1>3, <2>4, MsgFacts DEF BoardTypeOK
        <3>2. /\ Len(up'[d]) = Len(up[d]) + 1 /\ Len(up[d]) \in Nat
              /\ \A i \in 1 .. Len(up[d]) : up'[d][i] = up[d][i]
              /\ up'[d][Len(up[d]) + 1] = Draws(op)
            BY <2>1, <3>1, AppendSeq
        <3>3. ~Contains(board, op)
            <4>1. \A i \in 1 .. Len(board) : board[i].id <= drawn
                BY DEF BoardInv
            <4> QED BY <1>0, <1>1, <4>1 DEF Contains
        <3>4. ASSUME NEW i \in 1 .. Len(up'[d]), up'[d][i].m = "op"
              PROVE  /\ up'[d][i].op.by = d /\ up'[d][i].op.id <= drawn'
                     /\ ~Contains(board', up'[d][i].op)
                     /\ \A j \in 1 .. i - 1 : up'[d][j] # up'[d][i]
            <4>1. CASE i \in 1 .. Len(up[d])
                <5>1. up'[d][i] = up[d][i] /\ \A j \in 1 .. i - 1 : up'[d][j] = up[d][j]
                    BY <3>2, <4>1
                <5>2. up[d][i].op.id <= drawn'
                    BY <2>2, <3>4, <4>1, <5>1
                <5> QED BY <1>2, <2>1, <3>4, <4>1, <5>1, <5>2 DEF NewToBoard
            <4>2. CASE i \notin 1 .. Len(up[d])
                <5>1. i = Len(up[d]) + 1
                    BY <3>2, <4>2
                <5>2. up'[d][i] = Draws(op) /\ up'[d][i].op = op
                    BY <3>2, <5>1, MsgFacts
                <5>3. up'[d][i].op.id <= drawn'
                    BY <1>0, <1>1, <1>2, <5>2
                <5>4. ASSUME NEW j \in 1 .. i - 1 PROVE up'[d][j] # up'[d][i]
                    <6>1. j \in 1 .. Len(up[d]) /\ up'[d][j] = up[d][j]
                        BY <3>2, <5>1
                    <6>2. CASE up[d][j].m = "op"
                        BY <2>2, <5>2, <6>1, <6>2
                    <6>3. CASE up[d][j].m # "op"
                        BY <5>2, <6>1, <6>3, MsgFacts
                    <6> QED BY <6>2, <6>3
                <5> QED BY <1>1, <1>2, <3>1, <3>3, <5>2, <5>3, <5>4
            <4> QED BY <4>1, <4>2
        <3> QED BY <3>4 DEF NewToBoard, Contains
    <2> QED BY <2>3, <2>4
<1>13. ASSUME NEW d \in Pages PROVE Follows(d)'
    <2>1. OfOthers(view'[d], d) = OfOthers(view[d], d)
        <3>1. view[c] \in Seq(Op)
            BY <1>4
        <3>2. OfOthers(Append(view[c], op), c) = OfOthers(view[c], c)
            BY <1>1, <3>1, OwnUnseen
        <3> QED BY <1>5, <3>2
    <2> QED BY <1>2, <1>3, <2>1, FollowsOn
<1> QED BY <1>8, <1>9, <1>10, <1>11, <1>12, <1>13 DEF BoardInv

LEMMA EmptiedFacts ==
    ASSUME BoardInv, NEW cs, Emptied(cs)
    PROVE  /\ {view', undone', mine'} \subseteq [Pages -> Seq(Op)]
           /\ \A d \in Pages : d \in cs => view'[d] = <<>>
           /\ \A d \in Pages : d \notin cs => view'[d] = view[d]
           /\ \A d \in Pages : OwnStacks(d)'
<1>1. {view, undone, mine} \subseteq [Pages -> Seq(Op)] /\ <<>> \in Seq(Op)
    BY DEF BoardInv, BoardTypeOK
<1>2. /\ {view', undone', mine'} \subseteq [Pages -> Seq(Op)]
      /\ \A d \in Pages : d \in cs => view'[d] = <<>>
      /\ \A d \in Pages : d \notin cs => view'[d] = view[d]
    BY <1>1 DEF Emptied
<1>3. ASSUME NEW d \in Pages PROVE OwnStacks(d)'
    <2>1. OwnStacks(d) /\ Len(<<>>) = 0
        BY DEF BoardInv
    <2>2. mine'[d] \in {<<>>, mine[d]} /\ undone'[d] \in {<<>>, undone[d]}
        BY DEF Emptied
    <2> QED BY <2>1, <2>2 DEF OwnStacks
<1> QED BY <1>2, <1>3

LEMMA ClearAllStep ==
    ASSUME BoardInv, NEW c \in Pages, ClearAll(c) PROVE BoardInv'
<1>0. BoardTypeOK /\ clears \in Nat /\ MaxClears \in Nat
    BY BoardBounds DEF BoardInv, BoardTypeOK
<1>1. /\ Emptied({c}) /\ Emits(c, ClearMsg)
      /\ clears' = clears + 1 /\ clears < MaxClears
      /\ UNCHANGED <<board, reading, conn, open, ready, fresh, drawn>>
    BY DEF ClearAll, page
<1>2. /\ up' \in [Pages -> Seq(Msg)]
      /\ \A d \in Pages : (d # c \/ ~conn[d]) => up'[d] = up[d]
      /\ conn[c] => up'[c] = Append(up[c], ClearMsg)
      /\ \A d \in Pages : Contains(up[d], ClearMsg) => Contains(up'[d], ClearMsg)
    BY <1>0, <1>1, EmitFacts, MsgFacts
<1>3. /\ {view', undone', mine'} \subseteq [Pages -> Seq(Op)]
      /\ \A d \in Pages : d # c => view'[d] = view[d]
      /\ \A d \in Pages : OwnStacks(d)'
    BY <1>1, EmptiedFacts
<1>4. BoardTypeOK'
    <2>1. ASSUME NEW d \in Pages
          PROVE  /\ fresh'[d] => conn'[d] /\ ready'[d]
                 /\ ready'[d] => open'[d]
                 /\ ~conn'[d] => up'[d] = <<>> /\ reading'[d] = <<>>
        BY <1>0, <1>1, <1>2 DEF BoardTypeOK
    <2>2. clears' \in 0 .. MaxClears
        BY <1>0, <1>1
    <2> QED BY <1>0, <1>1, <1>2, <1>3, <2>1, <2>2 DEF BoardTypeOK
<1>5. \A d \in Pages : CurrentSnapshot(d)'
    BY <1>1, Kept
<1>6. \A d \in Pages : NewToBoard(d)'
    BY <1>1, SilentEmit, MsgFacts
<1>7. \A i \in 1 .. Len(board') : board'[i].id <= drawn'
    BY <1>1, Kept
<1>8. ASSUME NEW d \in Pages PROVE Follows(d)'
    <2>1. CASE d # c
        BY <1>1, <1>2, <1>3, <2>1, FollowsOn
    <2>2. CASE d = c /\ conn[c]
        <3>1. up[c] \in Seq(Msg) /\ up'[c] = Append(up[c], ClearMsg)
            BY <1>0, <1>2, <2>2 DEF BoardTypeOK
        <3>2. Contains(up'[c], ClearMsg)
            BY <3>1, ContainsOfAppend, MsgFacts
        <3> QED BY <2>2, <3>2, FollowsPrimed
    <2>3. CASE d = c /\ ~conn[c]
        <3>1. ~fresh'[d]
            BY <1>0, <1>1, <2>3 DEF BoardTypeOK
        <3> QED BY <3>1, FollowsPrimed
    <2> QED BY <2>1, <2>2, <2>3
<1> QED BY <1>3, <1>4, <1>5, <1>6, <1>7, <1>8 DEF BoardInv

(* What a page undoes and redoes is its own, so that it goes on following.  *)
LEMMA LocalStep ==
    ASSUME BoardInv, NEW c \in Pages,
           UNCHANGED <<board, up, reading, conn, open, ready, fresh, drawn, clears>>,
           {view', undone', mine'} \subseteq [Pages -> Seq(Op)],
           \A d \in Pages \ {c} : /\ view'[d] = view[d]
                                  /\ undone'[d] = undone[d] /\ mine'[d] = mine[d],
           OfOthers(view'[c], c) = OfOthers(view[c], c),
           \A i \in 1 .. Len(mine'[c]) : mine'[c][i].by = c,
           \A i \in 1 .. Len(undone'[c]) : undone'[c][i].by = c
    PROVE  BoardInv'
<1>1. BoardTypeOK'
    BY DEF BoardInv, BoardTypeOK
<1>2. ASSUME NEW d \in Pages PROVE OwnStacks(d)'
    <2>1. /\ \A i \in 1 .. Len(mine[d]) : mine[d][i].by = d
          /\ \A i \in 1 .. Len(undone[d]) : undone[d][i].by = d
        BY DEF BoardInv, OwnStacks
    <2>2. /\ \A i \in 1 .. Len(mine'[d]) : mine'[d][i].by = d
          /\ \A i \in 1 .. Len(undone'[d]) : undone'[d][i].by = d
        <3>1. CASE d = c
            BY <3>1
        <3>2. CASE d # c
            BY <2>1, <3>2
        <3> QED BY <3>1, <3>2
    <2> QED BY <2>2 DEF OwnStacks
<1>3. \A d \in Pages : NewToBoard(d)' /\ CurrentSnapshot(d)'
    BY Kept
<1>4. \A i \in 1 .. Len(board') : board'[i].id <= drawn'
    BY Kept
<1>5. \A d \in Pages : Follows(d)'
    BY FollowsOn
<1> QED BY <1>1, <1>2, <1>3, <1>4, <1>5 DEF BoardInv

LEMMA UndoStep ==
    ASSUME BoardInv, NEW c \in Pages, Undo(c) PROVE BoardInv'
<1>0. {view, undone, mine} \subseteq [Pages -> Seq(Op)] /\ OwnStacks(c)
    BY DEF BoardInv, BoardTypeOK
<1> DEFINE op == Last(mine[c])
           shown == Contains(view[c], op)
<1>1. /\ mine[c] # <<>> /\ mine' = Set(mine, c, Front(mine[c]))
      /\ view' = IF shown THEN Set(view, c, Without(view[c], op)) ELSE view
      /\ undone' = IF shown THEN Push(undone, c, op) ELSE undone
      /\ UNCHANGED <<board, up, reading, conn, open, ready, fresh, drawn, clears>>
    BY DEF Undo, server, page
<1>2. /\ Front(mine[c]) \in Seq(Op) /\ Len(Front(mine[c])) = Len(mine[c]) - 1
      /\ Len(mine[c]) \in Nat \ {0}
      /\ \A i \in 1 .. Len(mine[c]) - 1 : Front(mine[c])[i] = mine[c][i]
      /\ op \in Op /\ op = mine[c][Len(mine[c])]
    <2>1. mine[c] \in Seq(Op)
        BY <1>0
    <2> QED BY <1>1, <2>1, FrontSeq
<1> HIDE DEF op, shown
<1>3. op.by = c
    BY <1>0, <1>2 DEF OwnStacks
<1>4. /\ Without(view[c], op) \in Seq(Op)
      /\ OfOthers(Without(view[c], op), c) = OfOthers(view[c], c)
    <2>1. view[c] \in Seq(Op)
        BY <1>0
    <2> QED BY <1>2, <1>3, <2>1, OwnUnseen
<1>5. /\ Append(undone[c], op) \in Seq(Op)
      /\ Len(Append(undone[c], op)) = Len(undone[c]) + 1 /\ Len(undone[c]) \in Nat
      /\ \A i \in 1 .. Len(undone[c]) : Append(undone[c], op)[i] = undone[c][i]
      /\ Append(undone[c], op)[Len(undone[c]) + 1] = op
    <2>1. undone[c] \in Seq(Op)
        BY <1>0
    <2> QED BY <1>2, <2>1, AppendSeq
<1>6. /\ mine' \in [Pages -> Seq(Op)] /\ mine'[c] = Front(mine[c])
      /\ \A d \in Pages \ {c} : mine'[d] = mine[d]
    BY <1>0, <1>1, <1>2 DEF Set
<1>7. /\ view' \in [Pages -> Seq(Op)]
      /\ view'[c] \in {view[c], Without(view[c], op)}
      /\ \A d \in Pages \ {c} : view'[d] = view[d]
    BY <1>0, <1>1, <1>4 DEF Set
<1>8. /\ undone' \in [Pages -> Seq(Op)]
      /\ undone'[c] \in {undone[c], Append(undone[c], op)}
      /\ \A d \in Pages \ {c} : undone'[d] = undone[d]
    BY <1>0, <1>1, <1>5 DEF Push
<1>9. \A i \in 1 .. Len(mine'[c]) : mine'[c][i].by = c
    BY <1>0, <1>2, <1>6 DEF OwnStacks
<1>10. \A i \in 1 .. Len(undone'[c]) : undone'[c][i].by = c
    <2>1. \A i \in 1 .. Len(undone[c]) : undone[c][i].by = c
        BY <1>0 DEF OwnStacks
    <2>2. \A i \in 1 .. Len(undone[c]) + 1 : Append(undone[c], op)[i].by = c
        BY <1>3, <1>5, <2>1
    <2> QED BY <1>5, <1>8, <2>1, <2>2
<1>11. OfOthers(view'[c], c) = OfOthers(view[c], c)
    BY <1>4, <1>7
<1> QED BY <1>1, <1>6, <1>7, <1>8, <1>9, <1>10, <1>11, LocalStep

LEMMA RedoStep ==
    ASSUME BoardInv, NEW c \in Pages, Redo(c) PROVE BoardInv'
<1>0. /\ {view, undone, mine} \subseteq [Pages -> Seq(Op)] /\ OwnStacks(c)
      /\ view[c] \in Seq(Op) /\ undone[c] \in Seq(Op) /\ mine[c] \in Seq(Op)
    BY DEF BoardInv, BoardTypeOK
<1> DEFINE op == Last(undone[c])
<1>1. /\ undone[c] # <<>> /\ undone' = Set(undone, c, Front(undone[c]))
      /\ view' = Push(view, c, op) /\ mine' = Push(mine, c, op)
      /\ UNCHANGED <<board, up, reading, conn, open, ready, fresh, drawn, clears>>
    BY DEF Redo, server, page
<1>2. /\ Front(undone[c]) \in Seq(Op) /\ Len(Front(undone[c])) = Len(undone[c]) - 1
      /\ Len(undone[c]) \in Nat \ {0}
      /\ \A i \in 1 .. Len(undone[c]) - 1 : Front(undone[c])[i] = undone[c][i]
      /\ op \in Op /\ op = undone[c][Len(undone[c])]
    BY <1>0, <1>1, FrontSeq
<1> HIDE DEF op
<1>3. op.by = c
    BY <1>0, <1>2 DEF OwnStacks
<1>4. OfOthers(Append(view[c], op), c) = OfOthers(view[c], c)
    BY <1>0, <1>2, <1>3, OwnUnseen
<1>5. /\ Append(view[c], op) \in Seq(Op) /\ Append(mine[c], op) \in Seq(Op)
      /\ Len(Append(mine[c], op)) = Len(mine[c]) + 1 /\ Len(mine[c]) \in Nat
      /\ \A i \in 1 .. Len(mine[c]) : Append(mine[c], op)[i] = mine[c][i]
      /\ Append(mine[c], op)[Len(mine[c]) + 1] = op
    BY <1>0, <1>2, AppendSeq
<1>6. /\ undone' \in [Pages -> Seq(Op)] /\ undone'[c] = Front(undone[c])
      /\ \A d \in Pages \ {c} : undone'[d] = undone[d]
    BY <1>0, <1>1, <1>2 DEF Set
<1>7. /\ view' \in [Pages -> Seq(Op)] /\ view'[c] = Append(view[c], op)
      /\ \A d \in Pages \ {c} : view'[d] = view[d]
    BY <1>0, <1>1, <1>5 DEF Push
<1>8. /\ mine' \in [Pages -> Seq(Op)] /\ mine'[c] = Append(mine[c], op)
      /\ \A d \in Pages \ {c} : mine'[d] = mine[d]
    BY <1>0, <1>1, <1>5 DEF Push
<1>9. \A i \in 1 .. Len(undone'[c]) : undone'[c][i].by = c
    <2>1. \A i \in 1 .. Len(undone[c]) : undone[c][i].by = c
        BY <1>0 DEF OwnStacks
    <2> QED BY <1>2, <1>6, <2>1
<1>10. \A i \in 1 .. Len(mine'[c]) : mine'[c][i].by = c
    BY <1>0, <1>3, <1>5, <1>8 DEF OwnStacks
<1>11. OfOthers(view'[c], c) = OfOthers(view[c], c)
    BY <1>4, <1>7
<1> QED BY <1>1, <1>6, <1>7, <1>8, <1>9, <1>10, <1>11, LocalStep

LEMMA DropStep ==
    ASSUME BoardInv, NEW c \in Pages, Drop(c) PROVE BoardInv'
<1>0. BoardTypeOK /\ <<>> \in Seq(Msg) /\ <<>> \in Seq(Seq(Op)) /\ Len(<<>>) = 0
    BY DEF BoardInv
<1>1. /\ conn' = Set(conn, c, FALSE) /\ fresh' = Set(fresh, c, FALSE)
      /\ up' = Set(up, c, <<>>) /\ reading' = Set(reading, c, <<>>)
      /\ UNCHANGED <<board, open, ready, view, undone, mine, drawn, clears>>
    BY DEF Drop, stacks
<1>2. /\ {conn', fresh'} \subseteq [Pages -> BOOLEAN]
      /\ ~conn'[c] /\ ~fresh'[c]
      /\ \A d \in Pages \ {c} : conn'[d] = conn[d] /\ fresh'[d] = fresh[d]
    BY <1>0, <1>1 DEF BoardTypeOK, Set
<1>3. /\ up' \in [Pages -> Seq(Msg)] /\ reading' \in [Pages -> Seq(Seq(Op))]
      /\ up'[c] = <<>> /\ reading'[c] = <<>>
      /\ \A d \in Pages \ {c} : up'[d] = up[d] /\ reading'[d] = reading[d]
    BY <1>0, <1>1 DEF BoardTypeOK, Set
<1>4. BoardTypeOK'
    <2>1. ASSUME NEW d \in Pages
          PROVE  /\ fresh'[d] => conn'[d] /\ ready'[d]
                 /\ ready'[d] => open'[d]
                 /\ ~conn'[d] => up'[d] = <<>> /\ reading'[d] = <<>>
        BY <1>0, <1>1, <1>2, <1>3 DEF BoardTypeOK
    <2> QED BY <1>0, <1>1, <1>2, <1>3, <2>1 DEF BoardTypeOK
<1>5. \A d \in Pages : OwnStacks(d)'
    BY <1>1, Kept
<1>6. \A i \in 1 .. Len(board') : board'[i].id <= drawn'
    BY <1>1, Kept
<1>7. ASSUME NEW d \in Pages PROVE NewToBoard(d)' /\ CurrentSnapshot(d)' /\ Follows(d)'
    <2>1. CASE d = c
        BY <1>0, <1>2, <1>3, <2>1, FollowsPrimed DEF NewToBoard, CurrentSnapshot
    <2>2. CASE d # c
        <3>1. NewToBoard(d) /\ CurrentSnapshot(d)
            BY DEF BoardInv
        <3>2. NewToBoard(d)'
            <4>1. up'[d] = up[d] /\ board' = board /\ drawn' = drawn
                BY <1>1, <1>3, <2>2
            <4> QED BY <3>1, <4>1 DEF NewToBoard, Contains
        <3>3. CurrentSnapshot(d)'
            BY <1>1, <1>3, <2>2, <3>1 DEF CurrentSnapshot
        <3>4. Follows(d)'
            BY <1>1, <1>2, <1>3, <2>2, FollowsOn
        <3> QED BY <3>2, <3>3, <3>4
    <2> QED BY <2>1, <2>2
<1> QED BY <1>4, <1>5, <1>6, <1>7 DEF BoardInv

LEMMA ReturnStep ==
    ASSUME BoardInv, NEW c \in Pages, Return(c) PROVE BoardInv'
<1>0. BoardTypeOK
    BY DEF BoardInv
<1>1. /\ conn' = Set(conn, c, TRUE)
      /\ UNCHANGED <<board, up, reading, open, ready, fresh, view, undone, mine, drawn, clears>>
    BY DEF Return, stacks, server
<1>2. /\ conn' \in [Pages -> BOOLEAN] /\ conn'[c]
      /\ \A d \in Pages \ {c} : conn'[d] = conn[d]
    BY <1>0, <1>1 DEF BoardTypeOK, Set
<1>3. BoardTypeOK'
    <2>1. ASSUME NEW d \in Pages
          PROVE  /\ fresh'[d] => conn'[d] /\ ready'[d]
                 /\ ready'[d] => open'[d]
                 /\ ~conn'[d] => up'[d] = <<>> /\ reading'[d] = <<>>
        BY <1>0, <1>1, <1>2 DEF BoardTypeOK
    <2> QED BY <1>0, <1>1, <1>2, <2>1 DEF BoardTypeOK
<1>4. \A d \in Pages : OwnStacks(d)' /\ NewToBoard(d)' /\ CurrentSnapshot(d)'
    BY <1>1, Kept
<1>5. \A i \in 1 .. Len(board') : board'[i].id <= drawn'
    BY <1>1, Kept
<1>6. \A d \in Pages : Follows(d)'
    BY <1>1, FollowsOn
<1> QED BY <1>3, <1>4, <1>5, <1>6 DEF BoardInv

(* What the handlers share: the oldest message of c is taken, while no      *)
(* snapshot waits to be sent.                                               *)
LEMMA Handled ==
    ASSUME BoardInv, ~Overlap, NEW c \in Pages, NEW kind, Handles(c, kind)
    PROVE  /\ \A d \in Pages : reading[d] = <<>>
           /\ up[c] \in Seq(Msg) /\ up[c] # <<>> /\ Head(up[c]) \in Msg /\ Head(up[c]).m = kind
           /\ up' \in [Pages -> Seq(Msg)] /\ up'[c] = Tail(up[c])
           /\ \A d \in Pages \ {c} : up'[d] = up[d]
           /\ Len(up[c]) \in Nat \ {0} /\ Len(up'[c]) = Len(up[c]) - 1
           /\ \A i \in 1 .. Len(up[c]) - 1 : up'[c][i] = up[c][i + 1]
           /\ Head(up[c]) = up[c][1]
           /\ Contains(up[c], ClearMsg) => Contains(up'[c], ClearMsg) \/ kind = "clear"
<1>1. up \in [Pages -> Seq(Msg)]
    BY DEF BoardInv, BoardTypeOK
<1>2. /\ \A d \in Pages : reading[d] = <<>>
      /\ up[c] # <<>> /\ Head(up[c]).m = kind /\ up' = Set(up, c, Tail(up[c]))
    BY DEF Handles
<1>3. up[c] \in Seq(Msg)
    BY <1>1
<1>4. /\ Tail(up[c]) \in Seq(Msg) /\ Len(Tail(up[c])) = Len(up[c]) - 1 /\ Len(up[c]) \in Nat \ {0}
      /\ \A i \in 1 .. Len(up[c]) - 1 : Tail(up[c])[i] = up[c][i + 1]
      /\ Head(up[c]) \in Msg /\ Head(up[c]) = up[c][1]
    BY <1>2, <1>3, TailSeq
<1>5. /\ up' \in [Pages -> Seq(Msg)] /\ up'[c] = Tail(up[c])
      /\ \A d \in Pages \ {c} : up'[d] = up[d]
    BY <1>1, <1>2, <1>4 DEF Set
<1>6. ASSUME Contains(up[c], ClearMsg), kind # "clear" PROVE Contains(up'[c], ClearMsg)
    <2>1. PICK i \in 1 .. Len(up[c]) : up[c][i] = ClearMsg
        BY <1>6 DEF Contains
    <2>2. i # 1
        BY <1>2, <1>4, <1>6, <2>1, MsgFacts
    <2>3. i - 1 \in 1 .. Len(up'[c]) /\ up'[c][i - 1] = ClearMsg
        BY <1>4, <1>5, <2>1, <2>2
    <2> QED BY <2>3 DEF Contains
<1> QED BY <1>2, <1>3, <1>4, <1>5, <1>6

LEMMA HandleOpStep ==
    ASSUME BoardInv, ~Overlap, NEW c \in Pages, HandleOp(c) PROVE BoardInv'
<1>0. /\ BoardTypeOK /\ board \in Seq(Op) /\ view \in [Pages -> Seq(Op)]
    BY DEF BoardInv, BoardTypeOK
<1> DEFINE op == Head(up[c]).op
<1>1. /\ Handles(c, "op") /\ board' = Append(board, op)
      /\ view' = [d \in Pages |->
            IF d \in Listening \ {c} THEN Shown(view[d], op) ELSE view[d]]
      /\ UNCHANGED <<reading, conn, open, ready, fresh, undone, mine, drawn, clears>>
    BY DEF HandleOp, Handles
<1>2. /\ \A d \in Pages : reading[d] = <<>>
      /\ up[c] \in Seq(Msg) /\ up[c] # <<>> /\ Head(up[c]) \in Msg /\ Head(up[c]).m = "op"
      /\ up' \in [Pages -> Seq(Msg)] /\ up'[c] = Tail(up[c])
      /\ \A d \in Pages \ {c} : up'[d] = up[d]
      /\ Len(up[c]) \in Nat \ {0} /\ Len(up'[c]) = Len(up[c]) - 1
      /\ \A i \in 1 .. Len(up[c]) - 1 : up'[c][i] = up[c][i + 1]
      /\ Head(up[c]) = up[c][1]
      /\ Contains(up[c], ClearMsg) => Contains(up'[c], ClearMsg)
    BY <1>1, Handled
<1>3. op \in Op /\ Head(up[c]) = Draws(op)
    BY <1>2, MsgFacts
<1>4. op.by = c /\ op.id <= drawn /\ ~Contains(board, op)
    <2>1. NewToBoard(c) /\ 1 \in 1 .. Len(up[c])
        BY <1>2 DEF BoardInv
    <2> QED BY <1>2, <2>1 DEF NewToBoard
<1> HIDE DEF op
<1>5. /\ board' \in Seq(Op) /\ Len(board') = Len(board) + 1 /\ Len(board) \in Nat
      /\ \A i \in 1 .. Len(board) : board'[i] = board[i]
      /\ board'[Len(board) + 1] = op
      /\ \A x : Contains(board', x) <=> Contains(board, x) \/ x = op
    BY <1>0, <1>1, <1>3, AppendSeq, ContainsOfAppend
<1>6. ASSUME NEW d \in Pages PROVE Append(view[d], op) \in Seq(Op) /\ view[d] \in Seq(Op)
    BY <1>0, <1>3
<1>7. /\ view' \in [Pages -> Seq(Op)] /\ view'[c] = view[c]
      /\ \A d \in Listening \ {c} : view'[d] = Shown(view[d], op)
    BY <1>1, <1>6 DEF Shown, Listening
<1>8. BoardTypeOK'
    <2>1. ASSUME NEW d \in Pages
          PROVE  /\ fresh'[d] => conn'[d] /\ ready'[d]
                 /\ ready'[d] => open'[d]
                 /\ ~conn'[d] => up'[d] = <<>> /\ reading'[d] = <<>>
        BY <1>0, <1>1, <1>2 DEF BoardTypeOK
    <2> QED BY <1>0, <1>1, <1>2, <1>5, <1>7, <2>1 DEF BoardTypeOK
<1>9. \A i \in 1 .. Len(board') : board'[i].id <= drawn'
    <2>1. \A i \in 1 .. Len(board) : board[i].id <= drawn
        BY DEF BoardInv
    <2> QED BY <1>1, <1>4, <1>5, <2>1
<1>10. \A d \in Pages : OwnStacks(d)'
    BY <1>1, Kept
<1>11. \A d \in Pages : CurrentSnapshot(d)'
    BY <1>1, <1>2 DEF CurrentSnapshot
<1>12. ASSUME NEW d \in Pages PROVE NewToBoard(d)'
    <2>1. NewToBoard(d)
        BY DEF BoardInv
    <2>2. CASE d # c
        <3>1. ASSUME NEW i \in 1 .. Len(up'[d]), up'[d][i].m = "op"
              PROVE  /\ up'[d][i].op.by = d /\ up'[d][i].op.id <= drawn'
                     /\ ~Contains(board', up'[d][i].op)
                     /\ \A j \in 1 .. i - 1 : up'[d][j] # up'[d][i]
            <4>1. up'[d] = up[d] /\ drawn' = drawn
                BY <1>1, <1>2, <2>2
            <4>2. /\ up[d][i].op.by = d /\ up[d][i].op.id <= drawn
                  /\ ~Contains(board, up[d][i].op)
                  /\ \A j \in 1 .. i - 1 : up[d][j] # up[d][i]
                BY <2>1, <3>1, <4>1 DEF NewToBoard
            <4>3. up[d][i].op # op
                BY <1>4, <2>2, <4>2
            <4> QED BY <1>5, <4>1, <4>2, <4>3
        <3> QED BY <3>1 DEF NewToBoard, Contains
    <2>3. CASE d = c
        <3>1. ASSUME NEW i \in 1 .. Len(up'[d]), up'[d][i].m = "op"
              PROVE  /\ up'[d][i].op.by = d /\ up'[d][i].op.id <= drawn'
                     /\ ~Contains(board', up'[d][i].op)
                     /\ \A j \in 1 .. i - 1 : up'[d][j] # up'[d][i]
            <4> DEFINE n == Len(up[c])
            <4>1. n \in Nat \ {0} /\ i \in 1 .. n - 1
                BY <1>2, <2>3
            <4>2. up'[d][i] = up[c][i + 1]
                BY <1>2, <2>3, <4>1
            <4> HIDE DEF n
            <4>3. i + 1 \in 1 .. n /\ 1 \in 1 .. (i + 1) - 1 /\ i \in Nat
                BY <4>1
            <4>4. /\ i + 1 \in 1 .. Len(up[c]) /\ up'[d][i] = up[c][i + 1]
                  /\ 1 \in 1 .. (i + 1) - 1
                BY <4>2, <4>3 DEF n
            <4>5. /\ up[c][i + 1].op.by = c /\ up[c][i + 1].op.id <= drawn
                  /\ ~Contains(board, up[c][i + 1].op)
                  /\ \A j \in 1 .. (i + 1) - 1 : up[c][j] # up[c][i + 1]
                BY <2>1, <2>3, <3>1, <4>4 DEF NewToBoard
            <4>6. up[c][i + 1].op # op
                <5>1. up[c][i + 1] \in Msg
                    BY <1>2, <4>4
                <5>2. up[c][i + 1] = Draws(up[c][i + 1].op)
                    BY <3>1, <4>4, <5>1, MsgFacts
                <5> QED BY <1>2, <1>3, <4>4, <4>5, <5>2
            <4>7. ASSUME NEW j \in 1 .. i - 1 PROVE up'[d][j] # up'[d][i]
                <5>1. j + 1 \in 1 .. (i + 1) - 1 /\ j \in 1 .. Len(up[c]) - 1
                    BY <4>1 DEF n
                <5> QED BY <1>2, <2>3, <4>4, <4>5, <5>1
            <4> QED BY <1>1, <1>5, <2>3, <4>4, <4>5, <4>6, <4>7
        <3> QED BY <3>1 DEF NewToBoard, Contains
    <2> QED BY <2>2, <2>3
<1>13. ASSUME NEW d \in Pages PROVE Follows(d)'
    <2> SUFFICES ASSUME fresh'[d], ~Contains(up'[d], ClearMsg)
                 PROVE  OfOthers(view'[d], d) = OfOthers(board', d)
        BY FollowsPrimed
    <2>1. fresh[d] /\ ~Contains(up[d], ClearMsg)
        BY <1>1, <1>2
    <2>2. OfOthers(view[d], d) = OfOthers(board, d)
        BY <2>1 DEF BoardInv, Follows
    <2>3. CASE d = c
        <3>1. OfOthers(Append(board, op), c) = OfOthers(board, c)
            BY <1>0, <1>3, <1>4, OwnUnseen
        <3> QED BY <1>1, <1>7, <2>2, <2>3, <3>1
    <2>4. CASE d # c
        <3> DEFINE others == {o \in Op : o.by # d}
        <3>1. op \in others
            BY <1>3, <1>4, <2>4
        <3>2. OfOthers(view[d], d) = Only(view[d], others) /\ OfOthers(board, d) = Only(board, others)
            BY DEF OfOthers
        <3> HIDE DEF others
        <3>3. ~Contains(view[d], op)
            <4>1. Contains(view[d], op) => Contains(Only(view[d], others), op)
                BY <1>3, <1>6, <3>1, OnlyFacts
            <4>2. Contains(Only(board, others), op) => Contains(board, op)
                BY <1>0, <1>3, OnlyFacts
            <4> QED BY <1>4, <2>2, <3>2, <4>1, <4>2
        <3>4. d \in Listening \ {c}
            BY <1>0, <2>1, <2>4 DEF BoardTypeOK, Listening
        <3>5. view'[d] = Append(view[d], op)
            BY <1>7, <3>3, <3>4 DEF Shown
        <3>6. Only(Append(view[d], op), others) = Append(Only(view[d], others), op)
            BY <1>3, <1>6, <3>1, OnlyOfAppend
        <3>7. Only(Append(board, op), others) = Append(Only(board, others), op)
            BY <1>0, <1>3, <3>1, OnlyOfAppend
        <3>8. Only(view'[d], others) = Only(board', others)
            BY <1>1, <2>2, <3>2, <3>5, <3>6, <3>7
        <3>9. OfOthers(view'[d], d) = Only(view'[d], others) /\ OfOthers(board', d) = Only(board', others)
            BY DEF OfOthers, others
        <3> QED BY <3>8, <3>9
    <2> QED BY <2>3, <2>4
<1> QED BY <1>8, <1>9, <1>10, <1>11, <1>12, <1>13 DEF BoardInv

(* Taking a message leaves those behind it as new as they were.             *)
LEMMA TakenNew ==
    ASSUME BoardInv, ~Overlap, NEW c \in Pages, NEW kind, Handles(c, kind), board' \in {board, <<>>}
    PROVE  \A d \in Pages : NewToBoard(d)'
<1> SUFFICES ASSUME NEW d \in Pages PROVE NewToBoard(d)'
    OBVIOUS
<1>1. NewToBoard(d) /\ drawn' = drawn
    BY DEF BoardInv, Handles
<1>2. \A x : ~Contains(board, x) => ~Contains(board', x)
    BY NothingInEmpty
<1>3. CASE d # c
    <2>1. up'[d] = up[d]
        BY <1>3, Handled
    <2> QED BY <1>1, <1>2, <2>1 DEF NewToBoard, Contains
<1>4. CASE d = c
    <2> DEFINE n == Len(up[c])
    <2>1. /\ n \in Nat \ {0} /\ Len(up'[c]) = n - 1
          /\ \A i \in 1 .. n - 1 : up'[c][i] = up[c][i + 1]
        BY Handled
    <2>2. \A i \in 1 .. n : up[c][i].m = "op" =>
            /\ up[c][i].op.by = c /\ up[c][i].op.id <= drawn
            /\ ~Contains(board, up[c][i].op)
            /\ \A j \in 1 .. i - 1 : up[c][j] # up[c][i]
        BY <1>1, <1>4 DEF NewToBoard
    <2> HIDE DEF n
    <2>3. ASSUME NEW i \in 1 .. Len(up'[c]), up'[c][i].m = "op"
          PROVE  /\ up'[c][i].op.by = c /\ up'[c][i].op.id <= drawn'
                 /\ ~Contains(board', up'[c][i].op)
                 /\ \A j \in 1 .. i - 1 : up'[c][j] # up'[c][i]
        <3>1. i \in 1 .. n - 1 /\ i + 1 \in 1 .. n
            BY <2>1
        <3>2. \A j \in 1 .. i - 1 : j \in 1 .. n - 1 /\ j + 1 \in 1 .. (i + 1) - 1
            BY <2>1, <3>1
        <3>3. up'[c][i] = up[c][i + 1] /\ \A j \in 1 .. i - 1 : up'[c][j] = up[c][j + 1]
            BY <2>1, <3>1, <3>2
        <3> QED BY <1>1, <1>2, <2>2, <2>3, <3>1, <3>2, <3>3
    <2> QED BY <1>4, <2>3 DEF NewToBoard, Contains
<1> QED BY <1>3, <1>4

LEMMA HandleClearStep ==
    ASSUME BoardInv, ~Overlap, NEW c \in Pages, HandleClear(c) PROVE BoardInv'
<1>0. BoardTypeOK /\ <<>> \in Seq(Op) /\ Len(<<>>) = 0
    BY DEF BoardInv
<1>1. /\ Handles(c, "clear") /\ board' = <<>> /\ Emptied(Listening)
      /\ UNCHANGED <<reading, conn, open, ready, fresh, drawn, clears>>
    BY DEF HandleClear, Handles, Cleared
<1>2. /\ \A d \in Pages : reading[d] = <<>>
      /\ up' \in [Pages -> Seq(Msg)] /\ up'[c] = Tail(up[c]) /\ up[c] # <<>>
      /\ \A d \in Pages \ {c} : up'[d] = up[d]
    BY <1>1, Handled
<1>3. /\ {view', undone', mine'} \subseteq [Pages -> Seq(Op)]
      /\ \A d \in Listening : view'[d] = <<>>
      /\ \A d \in Pages : OwnStacks(d)'
    BY <1>1, EmptiedFacts DEF Listening
<1>4. BoardTypeOK'
    <2>1. ASSUME NEW d \in Pages
          PROVE  /\ fresh'[d] => conn'[d] /\ ready'[d]
                 /\ ready'[d] => open'[d]
                 /\ ~conn'[d] => up'[d] = <<>> /\ reading'[d] = <<>>
        BY <1>0, <1>1, <1>2 DEF BoardTypeOK
    <2> QED BY <1>0, <1>1, <1>2, <1>3, <2>1 DEF BoardTypeOK
<1>5. \A d \in Pages : CurrentSnapshot(d)'
    BY <1>1, <1>2 DEF CurrentSnapshot
<1>6. \A d \in Pages : NewToBoard(d)'
    BY <1>1, TakenNew
<1>7. \A i \in 1 .. Len(board') : board'[i].id <= drawn'
    BY <1>0, <1>1
<1>8. ASSUME NEW d \in Pages PROVE Follows(d)'
    <2>1. fresh'[d] => d \in Listening
        BY <1>0, <1>1 DEF BoardTypeOK, Listening
    <2>2. fresh'[d] => view'[d] = board'
        BY <1>1, <1>3, <2>1
    <2> QED BY <2>2, FollowsPrimed
<1> QED BY <1>3, <1>4, <1>5, <1>6, <1>7, <1>8 DEF BoardInv

LEMMA HandleAskStep ==
    ASSUME BoardInv, ~Overlap, NEW c \in Pages, HandleAsk(c) PROVE BoardInv'
<1>0. BoardTypeOK
    BY DEF BoardInv
<1>1. /\ Handles(c, "ask") /\ reading' = Push(reading, c, board)
      /\ UNCHANGED <<board, conn, open, ready, fresh, view, undone, mine, drawn, clears>>
    BY DEF HandleAsk, Handles, stacks
<1>2. /\ \A d \in Pages : reading[d] = <<>>
      /\ up' \in [Pages -> Seq(Msg)] /\ up[c] # <<>>
      /\ \A d \in Pages \ {c} : up'[d] = up[d]
      /\ Contains(up[c], ClearMsg) => Contains(up'[c], ClearMsg)
    BY <1>1, Handled
<1>3. /\ reading' \in [Pages -> Seq(Seq(Op))] /\ reading'[c] = <<board>>
      /\ \A d \in Pages \ {c} : reading'[d] = <<>>
    <2>1. Append(reading[c], board) = <<board>>
        <3>1. reading[c] = <<>>
            BY <1>2
        <3>2. Append(<<>>, board) = <<board>>
            OBVIOUS
        <3> QED BY <3>1, <3>2
    <2>2. <<board>> \in Seq(Seq(Op)) /\ reading \in [Pages -> Seq(Seq(Op))]
        BY <1>0 DEF BoardTypeOK
    <2>3. reading' = [reading EXCEPT ![c] = <<board>>]
        BY <1>1, <2>1 DEF Push
    <2> QED BY <1>2, <2>2, <2>3
<1>4. BoardTypeOK'
    <2>1. ASSUME NEW d \in Pages
          PROVE  /\ fresh'[d] => conn'[d] /\ ready'[d]
                 /\ ready'[d] => open'[d]
                 /\ ~conn'[d] => up'[d] = <<>> /\ reading'[d] = <<>>
        BY <1>0, <1>1, <1>2, <1>3 DEF BoardTypeOK
    <2> QED BY <1>0, <1>1, <1>2, <1>3, <2>1 DEF BoardTypeOK
<1>5. \A d \in Pages : CurrentSnapshot(d)'
    BY <1>1, <1>3 DEF CurrentSnapshot
<1>6. \A d \in Pages : NewToBoard(d)'
    BY <1>1, TakenNew
<1>7. \A i \in 1 .. Len(board') : board'[i].id <= drawn'
    BY <1>1, Kept
<1>8. \A d \in Pages : OwnStacks(d)'
    BY <1>1, Kept
<1>9. \A d \in Pages : Follows(d)'
    BY <1>1, <1>2, FollowsOn
<1> QED BY <1>4, <1>5, <1>6, <1>7, <1>8, <1>9 DEF BoardInv

LEMMA SendSnapshotStep ==
    ASSUME BoardInv, NEW c \in Pages, SendSnapshot(c) PROVE BoardInv'
<1>0. BoardTypeOK /\ board \in Seq(Op) /\ <<>> \in Seq(Seq(Op))
    BY DEF BoardInv, BoardTypeOK
<1>1. /\ reading[c] # <<>> /\ reading' = Set(reading, c, Tail(reading[c]))
      /\ IF open[c]
         THEN /\ view' = Set(view, c, Head(reading[c]))
              /\ ready' = Set(ready, c, TRUE) /\ fresh' = Set(fresh, c, TRUE)
         ELSE UNCHANGED <<view, ready, fresh>>
      /\ UNCHANGED <<board, up, conn, open, undone, mine, drawn, clears>>
    BY DEF SendSnapshot, Arrives, Replaced
<1>2. reading[c] = <<board>> /\ Head(reading[c]) = board /\ Tail(reading[c]) = <<>>
    <2>1. reading[c] = <<board>>
        BY <1>1 DEF BoardInv, CurrentSnapshot
    <2> QED BY <2>1
<1>3. /\ reading' \in [Pages -> Seq(Seq(Op))] /\ reading'[c] = <<>>
      /\ \A d \in Pages \ {c} : reading'[d] = reading[d]
    BY <1>0, <1>1, <1>2 DEF BoardTypeOK, Set
<1>4. view' \in [Pages -> Seq(Op)] /\ \A d \in Pages \ {c} : view'[d] = view[d]
    BY <1>0, <1>1, <1>2 DEF BoardTypeOK, Set
<1>5. /\ {ready', fresh'} \subseteq [Pages -> BOOLEAN]
      /\ \A d \in Pages \ {c} : ready'[d] = ready[d] /\ fresh'[d] = fresh[d]
      /\ open[c] => ready'[c] /\ fresh'[c]
      /\ ~open[c] => ready'[c] = ready[c] /\ fresh'[c] = fresh[c]
    <2>1. CASE open[c]
        <3>1. ready \in [Pages -> BOOLEAN] /\ fresh \in [Pages -> BOOLEAN]
            BY <1>0 DEF BoardTypeOK
        <3>2. ready' = [ready EXCEPT ![c] = TRUE] /\ fresh' = [fresh EXCEPT ![c] = TRUE]
            BY <1>1, <2>1 DEF Set
        <3>3. ready' \in [Pages -> BOOLEAN] /\ fresh' \in [Pages -> BOOLEAN]
            BY <3>1, <3>2
        <3>4. ready'[c] /\ fresh'[c]
            BY <3>1, <3>2
        <3>5. \A d \in Pages \ {c} : ready'[d] = ready[d] /\ fresh'[d] = fresh[d]
            BY <3>1, <3>2
        <3> QED BY <2>1, <3>3, <3>4, <3>5
    <2>2. CASE ~open[c]
        BY <1>0, <1>1, <2>2 DEF BoardTypeOK
    <2> QED BY <2>1, <2>2
<1>6. open[c] => view'[c] = board
    BY <1>0, <1>1, <1>2 DEF BoardTypeOK, Set
<1>7. BoardTypeOK'
    <2>1. ASSUME NEW d \in Pages
          PROVE  /\ fresh'[d] => conn'[d] /\ ready'[d]
                 /\ ready'[d] => open'[d]
                 /\ ~conn'[d] => up'[d] = <<>> /\ reading'[d] = <<>>
        <3>1. conn[c]
            BY <1>0, <1>1 DEF BoardTypeOK
        <3>2. CASE d = c
            BY <1>0, <1>1, <1>3, <1>5, <3>1, <3>2 DEF BoardTypeOK
        <3>3. CASE d # c
            BY <1>0, <1>1, <1>3, <1>5, <3>3 DEF BoardTypeOK
        <3> QED BY <3>2, <3>3
    <2> QED BY <1>0, <1>1, <1>3, <1>4, <1>5, <2>1 DEF BoardTypeOK
<1>8. ASSUME NEW d \in Pages PROVE CurrentSnapshot(d)'
    <2>1. CurrentSnapshot(d)
        BY DEF BoardInv
    <2> QED BY <1>1, <1>3, <2>1 DEF CurrentSnapshot
<1>9. \A d \in Pages : NewToBoard(d)' /\ OwnStacks(d)'
    BY <1>1, Kept
<1>10. \A i \in 1 .. Len(board') : board'[i].id <= drawn'
    BY <1>1, Kept
<1>11. ASSUME NEW d \in Pages PROVE Follows(d)'
    <2>1. CASE d = c /\ open[c]
        <3>1. view'[d] = board'
            BY <1>1, <1>6, <2>1
        <3> QED BY <3>1, FollowsPrimed
    <2>2. CASE d # c
        BY <1>1, <1>4, <1>5, <2>2, FollowsOn
    <2>3. CASE d = c /\ ~open[c]
        BY <1>1, <2>3, FollowsOn
    <2> QED BY <2>1, <2>2, <2>3
<1> QED BY <1>7, <1>8, <1>9, <1>10, <1>11 DEF BoardInv

LEMMA BoardIdle ==
    ASSUME BoardInv, UNCHANGED boardVars PROVE BoardInv'
<1>1. UNCHANGED <<board, up, reading, conn, open, ready, fresh, view, undone, mine, drawn, clears>>
    BY DEF boardVars, server, page, stacks
<1>2. BoardTypeOK'
    BY <1>1 DEF BoardInv, BoardTypeOK
<1>3. \A d \in Pages : OwnStacks(d)' /\ NewToBoard(d)' /\ CurrentSnapshot(d)'
    BY <1>1, Kept
<1>4. \A i \in 1 .. Len(board') : board'[i].id <= drawn'
    BY <1>1, Kept
<1>5. \A d \in Pages : Follows(d)'
    BY <1>1, FollowsOn
<1> QED BY <1>2, <1>3, <1>4, <1>5 DEF BoardInv

LEMMA BoardNextInv == ~Overlap /\ BoardInv /\ [BoardNext]_boardVars => BoardInv'
<1> SUFFICES ASSUME ~Overlap, BoardInv, [BoardNext]_boardVars PROVE BoardInv'
    OBVIOUS
<1>1. CASE UNCHANGED boardVars
    BY <1>1, BoardIdle
<1>2. ASSUME NEW c \in Pages,
             \/ OpenPanel(c) \/ ClosePanel(c)
             \/ Draw(c) \/ ClearAll(c) \/ Undo(c) \/ Redo(c)
             \/ Drop(c) \/ Return(c)
      PROVE  BoardInv'
    BY <1>2, OpenPanelStep, ClosePanelStep, DrawStep, ClearAllStep, UndoStep, RedoStep,
       DropStep, ReturnStep
<1>3. ASSUME NEW c \in Pages, Gateway(c) PROVE BoardInv'
    BY <1>3, HandleOpStep, HandleClearStep, HandleAskStep, SendSnapshotStep DEF Gateway
<1> QED BY <1>1, <1>2, <1>3 DEF BoardNext

(* useWhiteboard and the gateway, when nothing overlaps the reading of a    *)
(* snapshot: once all is quiet, a page with an open, synchronised board      *)
(* shows exactly what the others have on the board, in its order, whatever  *)
(* it has drawn, undone, redone or cleared itself.                          *)
THEOREM PagesAgree ==
    ASSUME ~Overlap PROVE BoardSpec => []OthersAgree
<1>1. BoardInv /\ [BoardNext]_boardVars => BoardInv'
    BY BoardNextInv
<1>2. BoardInv => OthersAgree
    <2> SUFFICES ASSUME BoardInv, Quiet, NEW c \in Pages, fresh[c]
                 PROVE  OfOthers(view[c], c) = OfOthers(board, c)
        BY DEF OthersAgree
    <2>1. ~Contains(up[c], ClearMsg)
        BY NothingInEmpty DEF Quiet
    <2> QED BY <2>1 DEF BoardInv, Follows
<1> QED BY BoardStarted, <1>1, <1>2, PTL DEF BoardSpec

(* The service as the gateway's handlers use it: one board, on which nothing *)
(* is dropped and of which a clear leaves nothing.                          *)
Service == INSTANCE BoardLog WITH Ops <- Op, Keep <- MaxOps, log <- board, erased <- <<>>

LEMMA ServiceStep ==
    ASSUME BoardInv, [BoardNext]_boardVars
    PROVE  [Service!Next]_(Service!vars)
<1>1. CASE UNCHANGED boardVars
    BY <1>1 DEF boardVars, server, Service!vars
<1>2. ASSUME NEW c \in Pages,
             \/ OpenPanel(c) \/ ClosePanel(c)
             \/ Draw(c) \/ ClearAll(c) \/ Undo(c) \/ Redo(c)
             \/ Drop(c) \/ Return(c) \/ HandleAsk(c) \/ SendSnapshot(c)
      PROVE  board' = board
    BY <1>2 DEF OpenPanel, ClosePanel, Draw, ClearAll, Undo, Redo, Drop, Return, HandleAsk,
                SendSnapshot, server
<1>3. ASSUME NEW c \in Pages, HandleOp(c) PROVE Service!Next
    <2>1. up[c] \in Seq(Msg) /\ up[c] # <<>> /\ Head(up[c]).m = "op"
        BY <1>3 DEF HandleOp, Handles, BoardInv, BoardTypeOK
    <2>2. Head(up[c]) \in Msg
        BY <2>1
    <2>3. Head(up[c]).op \in Op
        BY <2>1, <2>2 DEF Msg, AskMsg, ClearMsg, Draws
    <2>4. Service!Add(Head(up[c]).op)
        BY <1>3 DEF HandleOp, Service!Add
    <2> QED BY <2>3, <2>4 DEF Service!Next
<1>4. ASSUME NEW c \in Pages, HandleClear(c) PROVE Service!Next
    <2>1. SubSeq(board, 1, 0) = <<>> /\ 0 \in 0 .. Len(board)
        BY DEF BoardInv, BoardTypeOK
    <2>2. Service!Clear(0)
        BY <1>4, <2>1 DEF HandleClear, Service!Clear
    <2> QED BY <2>1, <2>2 DEF Service!Next
<1> QED BY <1>1, <1>2, <1>3, <1>4 DEF BoardNext, Gateway, Service!vars

(* What the gateway's three handlers do to the service is what its abstract  *)
(* board allows: the pages agree on a board that MeetingWhiteboardService    *)
(* keeps, as ServiceIsABoard shows, while no call of it overlaps another.    *)
THEOREM RoomUsesTheBoard ==
    ASSUME ~Overlap PROVE BoardSpec => Service!Spec
<1>1. BoardInit => Service!Init
    BY DEF BoardInit, Service!Init
<1>2. BoardInv /\ [BoardNext]_boardVars => BoardInv'
    BY BoardNextInv
<1>3. BoardInv /\ [BoardNext]_boardVars => [Service!Next]_(Service!vars)
    BY ServiceStep
<1> QED BY BoardStarted, <1>1, <1>2, <1>3, PTL DEF BoardSpec, Service!Spec
=============================================================================
