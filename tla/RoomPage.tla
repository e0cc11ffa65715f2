------------------------------ MODULE RoomPage ------------------------------
(***************************************************************************)
(* The room page of one participant: what it loaded over HTTP, what its    *)
(* socket tells it (useMeetingSocket), its LiveKit connection              *)
(* (useLivekitRoom), its way out, and the recorder that runs in it         *)
(* (Recorder).  The meeting itself is the environment: it is locked,       *)
(* unlocked and ended, and this participant is kicked, at any moment.      *)
(*                                                                         *)
(* A broadcast reaches the page at once if its socket is in the room and   *)
(* never otherwise; nothing is sent again.                                 *)
(***************************************************************************)
EXTENDS Recorder

CONSTANT MaxGates     \* bound: how often the host locks or unlocks

ASSUME GatesAssumption == MaxGates \in Nat

VARIABLES
    server,   \* the rows: is the meeting locked, ended, this participant kicked
    host,     \* the participant is the host (room.isHost)
    data,     \* the MeetingRoomDto the page loaded, or NotLoaded
    failed,   \* the load failed: the page shows an error for good
    sock,     \* the socket: "none", "connecting", "open", "down", "over"
    token,    \* the access token given to io() has not expired yet
    rt,       \* isLocked, isEnded, wasKicked of useMeetingSocket
    lk,       \* useLivekitRoom: "off", "token", "joining", "on", "gone", "error"
    zombie,   \* a cancelled room.connect() that has not been undone yet
    exit,     \* leaving: "no", "saving", "left"; the host's end: "ending"
    heard,    \* history: no broadcast was missed since the page loaded
    gates     \* counts the locks and unlocks

pageVars == <<server, host, data, failed, sock, token, rt, lk, zombie, exit, heard, gates>>
vars == <<recVars, pageVars>>

NotLoaded == [loaded |-> FALSE]
Flags == [locked : BOOLEAN, ended : BOOLEAN, kicked : BOOLEAN]
NoFlags == [locked |-> FALSE, ended |-> FALSE, kicked |-> FALSE]

TypeOK ==
    /\ RecTypeOK
    /\ server \in Flags /\ rt \in Flags
    /\ data \in Flags \cup {NotLoaded}
    /\ sock \in {"none", "connecting", "open", "down", "over"}
    /\ lk \in {"off", "token", "joining", "on", "gone", "error"}
    /\ exit \in {"no", "saving", "left", "ending"}
    /\ {failed, token, zombie, heard, host} \subseteq BOOLEAN
    /\ gates \in 0 .. MaxGates

Init ==
    /\ RecInit
    /\ server \in Flags /\ host \in BOOLEAN
    /\ host => ~server.kicked
    /\ data = NotLoaded /\ failed = FALSE
    /\ sock = "none" /\ token = TRUE /\ rt = NoFlags
    /\ lk = "off" /\ zombie = FALSE
    /\ exit = "no" /\ heard = TRUE /\ gates = 0

Loaded == data # NotLoaded
isLocked == Loaded /\ (data.locked \/ rt.locked)
isEnded_AsLoaded == Loaded /\ data.ended
isEnded == Loaded /\ (data.ended \/ rt.ended)
isKicked == Loaded /\ (data.kicked \/ rt.kicked)

(* The render branches of the page, in their order.                         *)
Screen ==
    CASE failed -> "error"
      [] ~failed /\ ~Loaded -> "loading"
      [] isKicked -> "kicked"
      [] isEnded /\ ~isKicked -> "ended"
      [] OTHER -> "live"

OnScreen(s) == mounted /\ Screen = s

-----------------------------------------------------------------------------
(* GET /meetings/:slug/room.  With it the two hooks get their slug: the     *)
(* socket unless the caller is kicked, LiveKit unless the meeting has ended. *)
LivekitStarts == lk' = IF server.ended THEN lk ELSE "token"

Load ==
    /\ OnScreen("loading")
    /\ data' = server /\ heard' = TRUE
    /\ sock' = IF server.kicked THEN sock ELSE "connecting"
    /\ LivekitStarts
    /\ UNCHANGED <<recVars, server, host, failed, token, rt, zombie, exit, gates>>

LoadFails ==
    /\ OnScreen("loading")
    /\ failed' = TRUE
    /\ UNCHANGED <<recVars, server, host, data, sock, token, rt, lk, zombie, exit, heard, gates>>

LivekitCloses_WhenOn ==
    /\ lk' = IF lk = "joining" THEN lk ELSE "off"
    /\ zombie' = zombie

(* The cleanup of useLivekitRoom's effect.                                  *)
LivekitCloses ==
    /\ lk' = "off"
    /\ zombie' = (zombie \/ lk = "joining")

(* The page goes away: every hook cleans up after itself.                   *)
Leaves ==
    /\ Unmount
    /\ sock' = "over" /\ LivekitCloses

(* 401 sends the page to prejoin; back, a link or a closed tab from anywhere.*)
Navigate ==
    /\ Leaves
    /\ UNCHANGED <<server, host, data, failed, token, rt, exit, heard, gates>>

-----------------------------------------------------------------------------
(* The socket.  The server's middleware refuses a kicked participant and an *)
(* expired bearer, and a refused socket does not try again.                 *)
Handshake ==
    /\ mounted /\ sock = "connecting"
    /\ sock' = IF server.kicked \/ ~token THEN "over" ELSE "open"
    /\ UNCHANGED <<recVars, server, host, data, failed, token, rt, lk, zombie, exit, heard, gates>>

Drop ==
    /\ mounted /\ sock = "open"
    /\ sock' = "down"
    /\ UNCHANGED <<recVars, server, host, data, failed, token, rt, lk, zombie, exit, heard, gates>>

(* Eight attempts, then socket.io gives up.                                 *)
Reconnect ==
    /\ mounted /\ sock = "down"
    /\ sock' \in {"connecting", "over"}
    /\ UNCHANGED <<recVars, server, host, data, failed, token, rt, lk, zombie, exit, heard, gates>>

TokenExpires ==
    /\ token /\ sock = "open"
    /\ token' = FALSE
    /\ UNCHANGED <<recVars, server, host, data, failed, sock, rt, lk, zombie, exit, heard, gates>>

-----------------------------------------------------------------------------
(* LiveKit: token, then connect.                                            *)
TokenGiven == ~server.ended /\ ~server.kicked

LivekitToken ==
    /\ lk = "token"
    /\ lk' \in IF TokenGiven THEN {"joining", "error"} ELSE {"error"}
    /\ UNCHANGED <<recVars, server, host, data, failed, sock, token, rt, zombie, exit, heard, gates>>

LivekitJoins ==
    /\ lk = "joining"
    /\ lk' \in {"on", "error"}
    /\ UNCHANGED <<recVars, server, host, data, failed, sock, token, rt, zombie, exit, heard, gates>>

(* A connect whose effect was cancelled in between disconnects again.       *)
LivekitUndone ==
    /\ zombie
    /\ zombie' = FALSE
    /\ UNCHANGED <<recVars, server, host, data, failed, sock, token, rt, lk, exit, heard, gates>>

(* removeParticipant, deleteRoom, or the network.                           *)
LivekitLost ==
    /\ lk = "on"
    /\ lk' = "gone"
    /\ UNCHANGED <<recVars, server, host, data, failed, sock, token, rt, zombie, exit, heard, gates>>

-----------------------------------------------------------------------------
(* finalizeIfRecording()                                                    *)
Finalize ==
    \/ rec = "recording" /\ StopRecorder /\ Shows("stopping")
    \/ rec # "recording" /\ UNCHANGED <<rec, due, status>>

Listening == mounted /\ sock = "open"

(* meeting:locked and meeting:unlocked.                                     *)
SetLock ==
    /\ ~server.ended /\ gates < MaxGates /\ gates' = gates + 1
    /\ server' = [server EXCEPT !.locked = ~@]
    /\ rt' = IF Listening THEN [rt EXCEPT !.locked = server'.locked] ELSE rt
    /\ heard' = (heard /\ (Listening \/ ~Loaded))
    /\ UNCHANGED <<recVars, host, data, failed, sock, token, lk, zombie, exit>>

(* The page's effect on wasKicked and isEnded: save what is being recorded, *)
(* leave LiveKit, whose own gate closes with the same render.               *)
Ejected ==
    /\ Finalize /\ LivekitCloses
    /\ sock' = "over"

NotEjected == UNCHANGED <<rec, due, status, lk, zombie, sock>>

Restricted(flag) ==
    /\ ~server[flag]
    /\ server' = [server EXCEPT ![flag] = TRUE]
    /\ rt' = IF Listening THEN [rt EXCEPT ![flag] = TRUE] ELSE rt
    /\ heard' = (heard /\ (Listening \/ ~Loaded))
    /\ IF Listening THEN Ejected ELSE NotEjected
    /\ UNCHANGED <<call, held, chunks, made, files, mounted, starts, host, data, failed, token, gates>>

(* broadcastKicked and broadcastEnded, which close the sockets they reach.  *)
KickMe == ~host /\ Restricted("kicked") /\ exit' = exit
Ended == Restricted("ended") /\ exit' = exit

(* HostControlsPanel: end for everybody; the answer routes the host away.   *)
HostEnds ==
    /\ host /\ OnScreen("live") /\ exit = "no"
    /\ Restricted("ended") /\ exit' = "ending"

EndAnswered ==
    /\ exit = "ending" /\ mounted
    /\ Leaves /\ exit' = "left"
    /\ UNCHANGED <<server, host, data, failed, token, rt, heard, gates>>

-----------------------------------------------------------------------------
(* leaveAndExit(): save, then LiveKit, then the socket, then route away.    *)
LivekitLeave ==
    lk' = CASE lk = "on" -> "gone" [] lk = "joining" -> "error" [] OTHER -> lk

LeaveClick ==
    /\ OnScreen("live") /\ exit \in {"no", "saving"}
    /\ \/ rec = "recording" /\ exit' = "saving" /\ UNCHANGED <<lk, sock>>
       \/ rec # "recording" /\ exit' = "left" /\ LivekitLeave /\ sock' = "over"
    /\ Finalize
    /\ UNCHANGED <<call, held, chunks, made, files, mounted, starts>>
    /\ UNCHANGED <<server, host, data, failed, token, rt, zombie, heard, gates>>

(* onstop of the recording that leaveAndExit, or nobody, waits for.         *)
RecordingStopped ==
    /\ Stopped
    /\ \/ exit = "saving" /\ exit' = "left" /\ LivekitLeave /\ sock' = "over"
       \/ exit # "saving" /\ UNCHANGED <<exit, lk, sock>>
    /\ UNCHANGED <<server, host, data, failed, token, rt, zombie, heard, gates>>

(* router.push.                                                             *)
Gone ==
    /\ exit = "left" /\ Leaves
    /\ UNCHANGED <<server, host, data, failed, token, rt, exit, heard, gates>>

(* The recorder goes on by itself; its button is on the live screen only.   *)
Recording ==
    /\ \/ OnScreen("live") /\ (Start \/ StopClick \/ StopInactive)
       \/ PickerFails \/ PickerGives \/ MicAnswers \/ Chunk
       \/ SharingEnds \/ RecorderEnds \/ RecorderFails
    /\ UNCHANGED pageVars

Next ==
    \/ Load \/ LoadFails \/ Navigate
    \/ Handshake \/ Drop \/ Reconnect \/ TokenExpires
    \/ LivekitToken \/ LivekitJoins \/ LivekitUndone \/ LivekitLost
    \/ SetLock \/ KickMe \/ Ended \/ HostEnds \/ EndAnswered
    \/ LeaveClick \/ RecordingStopped \/ Gone
    \/ Recording

(* A browser fires the stop event of a stopped recorder.                    *)
Fairness == WF_vars(RecordingStopped)

Spec == Init /\ [][Next]_vars /\ Fairness
-----------------------------------------------------------------------------
(* Once a recording has ended, by whatever button, pill, error or kick, no  *)
(* screen or microphone capture stays on: when the button offers to start   *)
(* again, every stream start() opened has been stopped.                     *)
NothingCaptured ==
    mounted /\ status \in Resting /\ call = "none" => held = {} /\ rec # "recording"

(* A recording ended by stop() - the button, the sharing pill, leaving, a   *)
(* kick, the end of the meeting - is saved from its first chunk to its last *)
(* if the page is still there when the recorder has stopped.                *)
SavedWhole ==
    [][due /\ ~due' /\ status = "stopping" /\ mounted
        => files'[Len(files')] = [i \in 1 .. made' |-> i]]_vars

(* A page that has missed no broadcast shows what the rows say, except that *)
(* it cannot see the unlocking of a meeting it loaded as locked.            *)
MirrorsRows ==
    heard /\ Loaded =>
        /\ isEnded = server.ended /\ isKicked = server.kicked
        /\ isLocked = (server.locked \/ data.locked)

(* Behind the kicked and the ended screen, and after the page, there is no  *)
(* call: not one that was connected, nor one that was just connecting.      *)
NoCallBehind ==
    ~mounted \/ rt.kicked \/ rt.ended => lk = "off" /\ sock \in {"over", "none"}

(* Leaving waits for the recorder, and never for ever.                      *)
LeaveEnds == exit = "saving" ~> exit = "left" \/ ~mounted

(* "Stop + save the recording first so the user's file isn't lost."         *)
LeaveWaits == [][exit = "saving" /\ exit' = "left" => ~due']_vars

(* isEnded: "True once the host has ended the meeting for everyone."        *)
OpenSocketKnows == mounted /\ sock = "open" /\ server.ended => isEnded
=============================================================================
