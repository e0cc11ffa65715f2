------------------------------ MODULE BoardLog ------------------------------
(***************************************************************************)
(* What the whiteboard of one meeting promises: it is one list of drawing  *)
(* operations.  An operation is added at its end, a clear empties it, and  *)
(* only the oldest operations beyond the newest Keep may be dropped.  A    *)
(* clear is in force at once; it may still turn out to have failed, and    *)
(* then the oldest of what it dropped are back, before what came since.    *)
(***************************************************************************)
EXTENDS Integers, Sequences, SequencesExt

CONSTANTS
    Ops,        \* drawing operations
    Keep        \* how many of the newest operations are never dropped

VARIABLES
    log,        \* what is on the board
    erased      \* what comes back if the clear under way fails

vars == <<log, erased>>

Init == log = <<>> /\ erased = <<>>

Add(op) == log' = Append(log, op) /\ UNCHANGED erased

Forget(n) ==
    /\ n < Len(log) /\ Len(log) - n >= Keep
    /\ log' = SubSeq(log, n + 1, Len(log))
    /\ UNCHANGED erased

Clear(n) ==
    /\ erased = <<>>
    /\ log' = <<>> /\ erased' = SubSeq(log, 1, n)

Cleared == erased' = <<>> /\ UNCHANGED log

NotCleared == log' = erased \o log /\ erased' = <<>>

Next ==
    \/ \E op \in Ops : Add(op)
    \/ \E n \in 1 .. Len(log) : Forget(n)
    \/ \E n \in 0 .. Len(log) : Clear(n)
    \/ Cleared
    \/ NotCleared

Spec == Init /\ [][Next]_vars
=============================================================================
