----------------------------- MODULE BoardRoom -----------------------------
(***************************************************************************)
(* The whiteboard as the participants see it: useWhiteboard in every page, *)
(* the canvas and its panel, and the gateway's three whiteboard handlers.  *)
(* The service behind them is the abstract BoardLog, which Whiteboard      *)
(* implements.                                                             *)
(*                                                                         *)
(* What a client emits waits in up[c] until the gateway handles it, in     *)
(* order; what the gateway emits reaches a client before anything emitted  *)
(* later.  A snapshot is read, and sent once it has been read: only if     *)
(* Overlap does the gateway handle other messages in between.              *)
(***************************************************************************)
EXTENDS Naturals, Sequences, SequencesExt

CONSTANTS
    Pages,       \* pages with a socket in the room, one participant each
    Overlap,     \* may other messages be handled while a snapshot is read?
    MaxOps,      \* bound: operations drawn
    MaxUp,       \* bound: messages of one client on their way
    MaxClears    \* bound: clears

ASSUME BoardBounds == {MaxOps, MaxUp, MaxClears} \subseteq Nat /\ Overlap \in BOOLEAN

VARIABLES
    board,     \* the service's list of operations
    up,        \* messages of each client the gateway has not handled yet
    reading,   \* snapshots read for a client and not sent yet
    conn,      \* the client's socket is connected and in the room
    open,      \* the panel is open: the hook listens
    ready,     \* isReady: the snapshot has arrived
    view,      \* ops of the hook
    undone,    \* redoStack: own operations undone
    mine,      \* undoStack: own operations, newest last
    drawn,     \* counts the operations
    clears,
    fresh      \* history: a snapshot has come since the panel was opened
               \* and the socket connected

server == <<board, up, reading>>
page == <<open, ready, fresh>>
stacks == <<view, undone, mine>>
boardVars == <<server, conn, page, stacks, drawn, clears>>

Op == [id : 1 .. MaxOps, by : Pages]
AskMsg == [m |-> "ask"]
ClearMsg == [m |-> "clear"]
Draws(op) == [m |-> "op", op |-> op]

Msg == {AskMsg, ClearMsg} \cup {Draws(op) : op \in Op}

BoardTypeOK ==
    /\ board \in Seq(Op)
    /\ up \in [Pages -> Seq(Msg)] /\ reading \in [Pages -> Seq(Seq(Op))]
    /\ {view, undone, mine} \subseteq [Pages -> Seq(Op)]
    /\ {conn, open, ready, fresh} \subseteq [Pages -> BOOLEAN]
    /\ \A c \in Pages :
        /\ fresh[c] => conn[c] /\ ready[c]
        /\ ready[c] => open[c]
        /\ ~conn[c] => up[c] = <<>> /\ reading[c] = <<>>
    /\ drawn \in 0 .. MaxOps /\ clears \in 0 .. MaxClears

Each(x) == [c \in Pages |-> x]

BoardInit ==
    /\ board = <<>> /\ up = Each(<<>>) /\ reading = Each(<<>>)
    /\ conn = Each(TRUE) /\ open = Each(FALSE) /\ ready = Each(FALSE)
    /\ fresh = Each(FALSE)
    /\ view = Each(<<>>) /\ undone = Each(<<>>) /\ mine = Each(<<>>)
    /\ drawn = 0 /\ clears = 0

Set(f, c, x) == [f EXCEPT ![c] = x]
Push(f, c, x) == [f EXCEPT ![c] = Append(@, x)]
Emits(c, msg) == up' = IF conn[c] THEN Push(up, c, msg) ELSE up
Room(c) == Len(up[c]) < MaxUp

-----------------------------------------------------------------------------
(* The panel: the snapshot is asked for now, or once the socket connects     *)
(* (see Return).                                                            *)
OpenPanel(c) ==
    /\ ~open[c] /\ Room(c)
    /\ open' = Set(open, c, TRUE) /\ ready' = Set(ready, c, FALSE)
    /\ Emits(c, AskMsg)
    /\ UNCHANGED <<board, reading, conn, fresh, stacks, drawn, clears>>

ClosePanel(c) ==
    /\ open[c]
    /\ open' = Set(open, c, FALSE) /\ ready' = Set(ready, c, FALSE)
    /\ fresh' = Set(fresh, c, FALSE)
    /\ UNCHANGED <<server, conn, stacks, drawn, clears>>

(* finishStroke or submitText, then applyLocalOp.  The canvas takes no input *)
(* before the snapshot; without a connection the operation stays local.     *)
Draw(c) ==
    /\ open[c] /\ ready[c] /\ drawn < MaxOps /\ Room(c)
    /\ LET op == [id |-> drawn + 1, by |-> c]
       IN /\ view' = Push(view, c, op) /\ mine' = Push(mine, c, op)
          /\ Emits(c, Draws(op))
    /\ undone' = Set(undone, c, <<>>) /\ drawn' = drawn + 1
    /\ UNCHANGED <<board, reading, conn, page, clears>>

Emptied(cs) ==
    /\ view' = [c \in Pages |-> IF c \in cs THEN <<>> ELSE view[c]]
    /\ undone' = [c \in Pages |-> IF c \in cs THEN <<>> ELSE undone[c]]
    /\ mine' = [c \in Pages |-> IF c \in cs THEN <<>> ELSE mine[c]]

ClearAll(c) ==
    /\ open[c] /\ clears < MaxClears /\ Room(c)
    /\ Emptied({c}) /\ Emits(c, ClearMsg)
    /\ clears' = clears + 1
    /\ UNCHANGED <<board, reading, conn, page, drawn>>

(* The operations of a list that are among some, in their order.            *)
Only(ops, some) ==
    LET only[i \in 0 .. Len(ops)] ==
            IF i = 0 THEN <<>>
            ELSE IF ops[i] \in some THEN Append(only[i - 1], ops[i]) ELSE only[i - 1]
    IN only[Len(ops)]

(* Undo and redo are local.                                                 *)
Without(ops, op) == Only(ops, Op \ {op})

Undo(c) ==
    /\ open[c] /\ mine[c] # <<>>
    /\ mine' = Set(mine, c, Front(mine[c]))
    /\ LET op == Last(mine[c])
           shown == Contains(view[c], op)
       IN /\ view' = IF shown THEN Set(view, c, Without(view[c], op)) ELSE view
          /\ undone' = IF shown THEN Push(undone, c, op) ELSE undone
    /\ UNCHANGED <<server, conn, page, drawn, clears>>

Redo(c) ==
    /\ open[c] /\ undone[c] # <<>>
    /\ LET op == Last(undone[c])
       IN view' = Push(view, c, op) /\ mine' = Push(mine, c, op)
    /\ undone' = Set(undone, c, Front(undone[c]))
    /\ UNCHANGED <<server, conn, page, drawn, clears>>

-----------------------------------------------------------------------------
(* The connection drops with what was on its way, and comes back.  A request *)
(* that waited for 'connect' follows the JOIN so closely that the gateway,  *)
(* which puts the socket in the room at the end of the JOIN, refuses it.    *)
Drop(c) ==
    /\ conn[c]
    /\ conn' = Set(conn, c, FALSE) /\ fresh' = Set(fresh, c, FALSE)
    /\ up' = Set(up, c, <<>>) /\ reading' = Set(reading, c, <<>>)
    /\ UNCHANGED <<board, open, ready, stacks, drawn, clears>>

Return(c) ==
    /\ ~conn[c]
    /\ conn' = Set(conn, c, TRUE)
    /\ UNCHANGED <<server, open, ready, fresh, stacks, drawn, clears>>

-----------------------------------------------------------------------------
(* The gateway handles the oldest message of a client.                      *)
Listening == {c \in Pages : conn[c] /\ open[c]}

Handles(c, kind) ==
    /\ Overlap \/ \A d \in Pages : reading[d] = <<>>
    /\ up[c] # <<>> /\ Head(up[c]).m = kind
    /\ up' = Set(up, c, Tail(up[c]))
    /\ UNCHANGED <<conn, drawn, clears, open>>

Shown(ops, op) == IF Contains(ops, op) THEN ops ELSE Append(ops, op)

(* Broadcast to the others, then recorded.                                  *)
HandleOp(c) ==
    /\ Handles(c, "op")
    /\ LET op == Head(up[c]).op
       IN /\ board' = Append(board, op)
          /\ view' = [d \in Pages |->
                IF d \in Listening \ {c} THEN Shown(view[d], op) ELSE view[d]]
    /\ UNCHANGED <<reading, ready, fresh, undone, mine>>

Cleared_Others(c) == Listening \ {c}
(* The clear reaches everybody, its author again.                           *)
Cleared(c) == Listening

HandleClear(c) ==
    /\ Handles(c, "clear")
    /\ board' = <<>> /\ Emptied(Cleared(c))
    /\ UNCHANGED <<reading, ready, fresh>>

HandleAsk(c) ==
    /\ Handles(c, "ask")
    /\ reading' = Push(reading, c, board)
    /\ UNCHANGED <<board, ready, fresh, stacks>>

(* The snapshot replaces what the page shows.                               *)
Replaced(ops, snapshot) == snapshot

Arrives_WhenAny(c) == open[c] /\ Head(reading[c]) # <<>>
Arrives(c) == open[c]

SendSnapshot(c) ==
    /\ reading[c] # <<>>
    /\ reading' = Set(reading, c, Tail(reading[c]))
    /\ IF Arrives(c)
       THEN /\ view' = Set(view, c, Replaced(view[c], Head(reading[c])))
            /\ ready' = Set(ready, c, TRUE) /\ fresh' = Set(fresh, c, TRUE)
       ELSE UNCHANGED <<view, ready, fresh>>
    /\ UNCHANGED <<board, up, conn, open, undone, mine, drawn, clears>>

Gateway(c) == HandleOp(c) \/ HandleClear(c) \/ HandleAsk(c) \/ SendSnapshot(c)

BoardNext ==
    \E c \in Pages :
        \/ OpenPanel(c) \/ ClosePanel(c)
        \/ Draw(c) \/ ClearAll(c) \/ Undo(c) \/ Redo(c)
        \/ Drop(c) \/ Return(c)
        \/ Gateway(c)

(* The process handles what has arrived in the order of its arrival: one     *)
(* socket is not passed over for ever because others keep it busy.          *)
BoardSpec == BoardInit /\ [][BoardNext]_boardVars /\ \A c \in Pages : SF_boardVars(Gateway(c))

-----------------------------------------------------------------------------
Quiet == \A c \in Pages : up[c] = <<>> /\ reading[c] = <<>>
OfOthers(ops, c) == Only(ops, {op \in Op : op.by # c})

(* When all is quiet, a page with an open panel shows exactly what the      *)
(* others have on the board, in the board's order, whatever it has drawn,   *)
(* undone, redone or cleared itself: nothing missing, nothing revived.      *)
OthersAgree ==
    Quiet => \A c \in Pages : fresh[c] => OfOthers(view[c], c) = OfOthers(board, c)

(* A snapshot that was asked for arrives.                                   *)
LoadingEnds ==
    \A c \in Pages :
        Contains(up[c], AskMsg) ~> ready[c] \/ ~open[c] \/ ~conn[c]
=============================================================================
