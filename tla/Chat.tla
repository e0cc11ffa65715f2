-------------------------------- MODULE Chat --------------------------------
(***************************************************************************)
(* The chat of one meeting: ChatGateway and ChatService, the history       *)
(* request, the list useMeetingSocket keeps in every page, and the chat    *)
(* panel with its unread badge.                                            *)
(*                                                                         *)
(* A page gets its messages on two ways that nobody orders: the history,   *)
(* an HTTP answer that replaces the list, and broadcasts, appended to it.  *)
(* Messages are numbered in the order in which they are sent; handlers     *)
(* run concurrently, so they may be saved and broadcast in any other.      *)
(***************************************************************************)
EXTENDS Naturals, FiniteSets, Sequences, SequencesExt

CONSTANTS
    Pages,        \* pages of participants of the meeting
    Limit,        \* DEFAULT_HISTORY_LIMIT
    MaxMessages   \* bound: messages sent

ASSUME ChatBounds == Limit \in Nat \ {0} /\ MaxMessages \in Nat

VARIABLES
    rows,     \* chat_messages, by createdAt
    handler,  \* handler[m]: how far the message is
    author,   \* author[m]: the page that sent it
    conn,     \* conn[p]: "off", "joining" (connected, JOIN under way), "in"
    history,  \* history[p]: "none" (no page), "asked", "read", "done"
    answer,   \* the history on its way to the page
    list,     \* messages of the hook
    alert,    \* chatError is shown
    open,     \* the panel is open
    lastRead, \* lastReadCount
    unread,   \* unreadChat
    gap,      \* history: messages broadcast while the page was not attending
    seen,     \* history: what the list held when the panel was last toggled
    settled   \* history: the history had answered by then

gateway == <<rows, handler, author>>
page == <<conn, history, answer>>
badge == <<open, lastRead, unread, seen, settled>>
chatVars == <<gateway, page, list, alert, badge, gap>>

Messages == 1 .. MaxMessages
Each(x) == [p \in Pages |-> x]
Set(f, p, x) == [f EXCEPT ![p] = x]

ChatTypeOK ==
    /\ rows \in Seq(Messages) /\ IsInjective(rows)
    /\ handler \in [Messages -> {"new", "sent", "checking", "saving", "saved",
                                 "done", "refused", "failed", "lost", "dropped"}]
    /\ author \in [Messages -> Pages]
    /\ \A m \in Messages : Contains(rows, m) <=> handler[m] \in {"saved", "done"}
    /\ conn \in [Pages -> {"off", "joining", "in"}]
    /\ history \in [Pages -> {"none", "asked", "read", "done"}]
    /\ answer \in [Pages -> Seq(Messages)] /\ list \in [Pages -> Seq(Messages)]
    /\ alert \in [Pages -> BOOLEAN] /\ open \in [Pages -> BOOLEAN]
    /\ lastRead \in [Pages -> Nat] /\ unread \in [Pages -> Nat]
    /\ gap \in [Pages -> SUBSET Messages] /\ seen \in [Pages -> SUBSET Messages]
    /\ settled \in [Pages -> BOOLEAN]

ChatInit ==
    /\ rows = <<>> /\ handler = [m \in Messages |-> "new"]
    /\ author \in [Messages -> Pages]
    /\ conn = Each("off") /\ history = Each("none") /\ answer = Each(<<>>)
    /\ list = Each(<<>>) /\ alert = Each(FALSE) /\ open = Each(FALSE)
    /\ lastRead = Each(0) /\ unread = Each(0)
    /\ gap = Each({}) /\ seen = Each({}) /\ settled = Each(FALSE)

-----------------------------------------------------------------------------
(* The effect that follows every change of the list: a page whose panel is  *)
(* closed counts what has come since it was last open.                      *)
Badge_Added(p, length) ==
    IF length > lastRead[p] THEN unread[p] + (length - lastRead[p]) ELSE unread[p]
Badge(p, length) == IF length > lastRead[p] THEN length - lastRead[p] ELSE unread[p]

Lists(new) ==
    /\ list' = new
    /\ unread' = [p \in Pages |->
          IF open[p] THEN 0
          ELSE IF Len(new[p]) # Len(list[p]) THEN Badge(p, Len(new[p])) ELSE unread[p]]
    /\ UNCHANGED <<open, lastRead, seen, settled>>

(* The page mounts: two effects, the socket and the history.                *)
Mount(p) ==
    /\ history[p] = "none"
    /\ history' = Set(history, p, "asked")
    /\ UNCHANGED <<gateway, conn, answer, list, alert, badge, gap>>

Connect(p) ==
    /\ history[p] # "none" /\ conn[p] = "off"
    /\ conn' = Set(conn, p, "joining")
    /\ UNCHANGED <<gateway, history, answer, list, alert, badge, gap>>

Joined(p) ==
    /\ conn[p] = "joining"
    /\ conn' = Set(conn, p, "in")
    /\ UNCHANGED <<gateway, history, answer, list, alert, badge, gap>>

(* What the page had sent and the server has not received goes with it.     *)
Disconnect(p) ==
    /\ conn[p] # "off"
    /\ conn' = Set(conn, p, "off")
    /\ handler' = [m \in Messages |->
          IF handler[m] = "sent" /\ author[m] = p THEN "lost" ELSE handler[m]]
    /\ UNCHANGED <<rows, author, history, answer, list, alert, badge, gap>>

(* listForMeeting reads the last rows; the answer arrives later.            *)
LastRows == SubSeq(rows, IF Len(rows) > Limit THEN Len(rows) - Limit + 1 ELSE 1, Len(rows))

ReadHistory(p) ==
    /\ history[p] = "asked"
    /\ history' = Set(history, p, "read") /\ answer' = Set(answer, p, LastRows)
    /\ UNCHANGED <<gateway, conn, list, alert, badge, gap>>

HistoryArrives(p) ==
    /\ history[p] = "read"
    /\ history' = Set(history, p, "done") /\ answer' = Set(answer, p, <<>>)
    /\ Lists(Set(list, p, answer[p]))
    /\ UNCHANGED <<gateway, conn, alert, gap>>

HistoryFails(p) ==
    /\ history[p] \in {"asked", "read"}
    /\ history' = Set(history, p, "done") /\ answer' = Set(answer, p, <<>>)
    /\ alert' = Set(alert, p, TRUE)
    /\ UNCHANGED <<gateway, conn, list, badge, gap>>

-----------------------------------------------------------------------------
(* The panel.                                                               *)
TogglePanel(p) ==
    /\ history[p] # "none"
    /\ open' = Set(open, p, ~open[p])
    /\ lastRead' = Set(lastRead, p, Len(list[p]))
    /\ unread' = Set(unread, p, IF open[p] THEN unread[p] ELSE 0)
    /\ seen' = Set(seen, p, ToSet(list[p]))
    /\ settled' = Set(settled, p, history[p] = "done")
    /\ UNCHANGED <<gateway, page, list, alert, gap>>

DismissAlert(p) ==
    /\ alert[p] /\ open[p]
    /\ alert' = Set(alert, p, FALSE)
    /\ UNCHANGED <<gateway, page, list, badge, gap>>

(* The form takes no message before the history has answered and the socket *)
(* is connected, JOIN answered or not; then it forgets the text.            *)
Submit(p) ==
    /\ open[p] /\ history[p] = "done" /\ conn[p] # "off"
    /\ \E m \in Messages :
          /\ author[m] = p /\ handler[m] = "new"
          /\ \A n \in 1 .. m - 1 : handler[n] # "new"
          /\ handler' = [handler EXCEPT ![m] = "sent"]
    /\ alert' = Set(alert, p, FALSE)
    /\ UNCHANGED <<rows, author, page, list, badge, gap>>

-----------------------------------------------------------------------------
(* The gateway handles a message: the sender must be in the room, its row   *)
(* is read again, the message is saved, and broadcast.                      *)
Complains_InRoom(m) == alert' = Set(alert, author[m], alert[author[m]] \/ conn[author[m]] = "in")
Complains(m) == alert' = Set(alert, author[m], alert[author[m]] \/ conn[author[m]] # "off")

Receive(m) ==
    /\ handler[m] = "sent"
    /\ \A n \in Messages : handler[n] = "sent" /\ author[n] = author[m] => m <= n
    /\ IF conn[author[m]] = "in"
       THEN handler' = [handler EXCEPT ![m] = "checking"] /\ UNCHANGED alert
       ELSE handler' = [handler EXCEPT ![m] = "refused"] /\ Complains(m)
    /\ UNCHANGED <<rows, author, page, list, badge, gap>>

Checked(m) ==
    /\ handler[m] = "checking"
    /\ handler' = [handler EXCEPT ![m] = "saving"]
    /\ UNCHANGED <<rows, author, page, list, alert, badge, gap>>

(* The statement that reads the sender's row is outside the try: when the   *)
(* database fails there, the sender is told nothing it listens to.          *)
CheckFails(m) ==
    /\ handler[m] = "checking"
    /\ handler' = [handler EXCEPT ![m] = "dropped"]
    /\ UNCHANGED <<rows, author, page, list, alert, badge, gap>>

Save(m) ==
    /\ handler[m] = "saving"
    /\ handler' = [handler EXCEPT ![m] = "saved"] /\ rows' = Append(rows, m)
    /\ UNCHANGED <<author, page, list, alert, badge, gap>>

SaveFails(m) ==
    /\ handler[m] = "saving"
    /\ handler' = [handler EXCEPT ![m] = "failed"] /\ Complains(m)
    /\ UNCHANGED <<rows, author, page, list, badge, gap>>

Audience_Others(m) == {p \in Pages \ {author[m]} : conn[p] = "in"}
Audience(m) == {p \in Pages : conn[p] = "in"}

Added_Always(msgs, m) == Append(msgs, m)
Added(msgs, m) == IF Contains(msgs, m) THEN msgs ELSE Append(msgs, m)

Saved(m) == handler[m] = "saved"

Broadcast(m) ==
    /\ Saved(m)
    /\ handler' = [handler EXCEPT ![m] = "done"]
    /\ Lists([p \in Pages |-> IF p \in Audience(m) THEN Added(list[p], m) ELSE list[p]])
    /\ gap' = [p \in Pages |->
          IF conn[p] = "in" /\ history[p] = "done" THEN gap[p] ELSE gap[p] \cup {m}]
    /\ UNCHANGED <<rows, author, page, alert>>

Handler(m) ==
    Receive(m) \/ Checked(m) \/ CheckFails(m) \/ Save(m) \/ SaveFails(m) \/ Broadcast(m)

ChatNext ==
    \/ \E p \in Pages :
        \/ Mount(p) \/ Connect(p) \/ Joined(p) \/ Disconnect(p)
        \/ ReadHistory(p) \/ HistoryArrives(p) \/ HistoryFails(p)
        \/ TogglePanel(p) \/ DismissAlert(p) \/ Submit(p)
    \/ \E m \in Messages : Handler(m)

(* A handler that has started goes on.                                      *)
ChatSpec == ChatInit /\ [][ChatNext]_chatVars /\ \A m \in Messages : WF_chatVars(Handler(m))

-----------------------------------------------------------------------------
(* What a page shows is what was persisted, each message once               *)
(* (chat.gateway.ts: the UI "reflects exactly what was persisted"), however *)
(* history and broadcasts overtake each other.                              *)
ShowsPersisted ==
    \A p \in Pages : IsInjective(list[p]) /\ ToSet(list[p]) \subseteq ToSet(rows)

(* A page may miss a message only if the message was broadcast while the    *)
(* page was out of the room or still waiting for its history: from then on  *)
(* it shows everything, its own messages too.                               *)
NothingMissed ==
    \A p \in Pages, m \in Messages :
        handler[m] = "done" /\ history[p] = "done" =>
            Contains(list[p], m) \/ m \in gap[p]

(* The badge of a closed panel counts the messages the page has got since   *)
(* the panel was last open, provided the history had come by then.          *)
BadgeCounts ==
    \A p \in Pages :
        ~open[p] /\ settled[p] => unread[p] = Cardinality(ToSet(list[p]) \ seen[p])

(* A message that left the form is shown to its sender, or refused with an  *)
(* error, unless the connection was lost before the server answered or the  *)
(* database failed outside the handler's try.                               *)
SentIsAnswered ==
    \A m \in Messages :
        handler[m] = "sent" ~>
            \/ Contains(list[author[m]], m) \/ alert[author[m]]
            \/ conn[author[m]] = "off" \/ handler[m] = "dropped"
=============================================================================
