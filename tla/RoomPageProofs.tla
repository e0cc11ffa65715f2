--------------------------- MODULE RoomPageProofs ---------------------------
(***************************************************************************)
(* RoomPage, with the recorder and the chat panel in it, for any bounds:   *)
(* what the page shows, what it leaves open, what it captures and what it  *)
(* saves, and what its chat shows of what was sent.                        *)
(***************************************************************************)
EXTENDS RoomPage, Chat, FiniteSetTheorems, TLAPS

-----------------------------------------------------------------------------
(* The page and its two connections.  Broadcasts are heard only after the   *)
(* page has loaded: before, there is no socket.                             *)
PageInv ==
    /\ server \in Flags /\ rt \in Flags
    /\ data \in Flags \cup {NotLoaded}
    /\ mounted \in BOOLEAN
    /\ ~Loaded => rt = NoFlags /\ sock \in {"none", "over"}
    /\ NoCallBehind

LEMMA FlagsLoaded == NotLoaded \notin Flags
BY DEF NotLoaded, Flags

LEMMA RecordingKeeps ==
    ASSUME Start \/ StopClick \/ StopInactive \/ PickerFails \/ PickerGives \/ MicAnswers
           \/ Chunk \/ SharingEnds \/ RecorderEnds \/ RecorderFails \/ Stopped
    PROVE  mounted' = mounted
BY DEF Start, StopClick, StopInactive, PickerFails, PickerGives, MicAnswers, Chunk,
   SharingEnds, RecorderEnds, RecorderFails, Stopped, Stop

LEMMA PageInit == Init => PageInv
BY DEF Init, RecInit, PageInv, Flags, NoFlags, Loaded, NoCallBehind

LEMMA PageStep == PageInv /\ [Next]_vars => PageInv'
<1> SUFFICES ASSUME PageInv, [Next]_vars PROVE PageInv'
    OBVIOUS
<1> USE FlagsLoaded DEF PageInv, Loaded, NoCallBehind
<1>1. CASE Load
    BY <1>1 DEF Load, LivekitStarts, OnScreen, Screen, recVars, NoFlags, Flags, Loaded
<1>2. CASE LoadFails
    BY <1>2 DEF LoadFails, recVars
<1>3. CASE Navigate \/ EndAnswered \/ Gone
    BY <1>3 DEF Navigate, EndAnswered, Gone, Leaves, LivekitCloses, Unmount
<1>4. CASE Handshake \/ Drop \/ Reconnect \/ TokenExpires
    BY <1>4 DEF Handshake, Drop, Reconnect, TokenExpires, recVars
<1>5. CASE LivekitToken \/ LivekitJoins \/ LivekitUndone \/ LivekitLost
    BY <1>5 DEF LivekitToken, LivekitJoins, LivekitUndone, LivekitLost, recVars
<1>6. CASE SetLock
    BY <1>6 DEF SetLock, Listening, Flags, recVars
<1>7. ASSUME NEW flag \in {"kicked", "ended"}, Restricted(flag) PROVE PageInv'
    <2>1. CASE Listening
        BY <1>7, <2>1 DEF Restricted, Ejected, LivekitCloses, Listening, Flags
    <2>2. CASE ~Listening
        BY <1>7, <2>2 DEF Restricted, NotEjected, Flags
    <2> QED BY <2>1, <2>2
<1>8. CASE LeaveClick
    BY <1>8 DEF LeaveClick, LivekitLeave, OnScreen, Screen
<1>9. CASE RecordingStopped
    BY <1>9, RecordingKeeps DEF RecordingStopped, LivekitLeave
<1>10. CASE Recording
    BY <1>10, RecordingKeeps DEF Recording, pageVars
<1>11. CASE UNCHANGED vars
    BY <1>11 DEF vars, pageVars, recVars
<1> QED
    BY <1>1, <1>2, <1>3, <1>4, <1>5, <1>6, <1>7, <1>8, <1>9, <1>10, <1>11
    DEF Next, KickMe, Ended, HostEnds

(* Behind the kicked and the ended screen, and after the page, there is     *)
(* neither a LiveKit connection nor one being made, nor a socket: the       *)
(* page's effect on both flags closes what the cleanups close.              *)
THEOREM NothingBehind == Spec => []NoCallBehind
<1>1. PageInv => NoCallBehind
    BY DEF PageInv
<1> QED BY <1>1, PageInit, PageStep, PTL DEF Spec

-----------------------------------------------------------------------------
MirrorInv == PageInv /\ MirrorsRows

LEMMA MirrorStep == MirrorInv /\ [Next]_vars => MirrorsRows'
<1> SUFFICES ASSUME MirrorInv, [Next]_vars PROVE MirrorsRows'
    OBVIOUS
<1> USE FlagsLoaded DEF MirrorInv, PageInv, Loaded, MirrorsRows, isLocked, isEnded, isKicked
<1>1. CASE Load
    BY <1>1 DEF Load, OnScreen, Screen, NoFlags, Flags
<1>2. CASE SetLock
    BY <1>2 DEF SetLock, Listening, Flags
<1>3. ASSUME NEW flag \in {"kicked", "ended"}, Restricted(flag) PROVE MirrorsRows'
    <2>1. /\ server'[flag] /\ data' = data
          /\ heard' = (heard /\ (Listening \/ ~Loaded))
          /\ Listening => rt' = [rt EXCEPT ![flag] = TRUE]
          /\ server' = [server EXCEPT ![flag] = TRUE]
        BY <1>3 DEF Restricted, Flags
    <2> QED BY <2>1 DEF Flags
<1>4. CASE UNCHANGED <<server, data, rt, heard>>
    BY <1>4
<1> QED
    BY <1>1, <1>2, <1>3, <1>4 DEF Next, KickMe, Ended, HostEnds, LoadFails, Navigate, EndAnswered,
       Gone, Handshake, Drop, Reconnect, TokenExpires, LivekitToken, LivekitJoins, LivekitUndone,
       LivekitLost, LeaveClick, RecordingStopped, Recording, pageVars, vars

(* The page that has missed no broadcast shows what the rows say: what it   *)
(* loaded and what useMeetingSocket has heard since add up to them.         *)
THEOREM RowsMirrored == Spec => []MirrorsRows
<1>1. Init => MirrorsRows
    BY DEF Init, MirrorsRows, Loaded
<1>2. MirrorInv /\ [Next]_vars => MirrorInv'
    BY PageStep, MirrorStep DEF MirrorInv
<1>3. Init => MirrorInv
    BY <1>1, PageInit DEF MirrorInv
<1>4. MirrorInv => MirrorsRows
    BY DEF MirrorInv
<1> QED BY <1>2, <1>3, <1>4, PTL DEF Spec

-----------------------------------------------------------------------------
(* The recorder.  The chunks of a recorder that records are all it has made; *)
(* so are those of one that was stopped by stop(), until its stop event.    *)
(* Nobody starts a recording while another one is still there.              *)
Whole == chunks = [i \in 1 .. made |-> i]

RecorderInv ==
    /\ mounted \in BOOLEAN
    /\ made \in Nat /\ files \in Seq(Seq(Nat)) /\ chunks \in Seq(Nat)
    /\ rec = "recording" => Whole
    /\ status = "stopping" /\ mounted /\ due => Whole
    /\ call # "none" => rec = "none" /\ status # "stopping"
    /\ NothingCaptured

LEMMA OneMore ==
    ASSUME NEW n \in Nat, NEW s, s = [i \in 1 .. n |-> i]
    PROVE  /\ Append(s, n + 1) = [i \in 1 .. n + 1 |-> i]
           /\ Append(s, n + 1) \in Seq(Nat)
<1>1. s \in Seq(Nat) /\ Len(s) = n
    OBVIOUS
<1> QED BY <1>1

LEMMA RecorderInit == Init => RecorderInv
BY DEF Init, RecInit, RecorderInv, NothingCaptured, Resting

(* What the page does to the recorder is to stop it, or to go away.         *)
LEMMA StopStep ==
    ASSUME RecorderInv, rec = "recording", StopRecorder, Shows("stopping"),
           UNCHANGED <<call, held, chunks, made, files, mounted, starts>>
    PROVE  RecorderInv'
BY DEF RecorderInv, StopRecorder, Shows, Whole, NothingCaptured, Resting

LEMMA UnmountStep == ASSUME RecorderInv, Unmount PROVE RecorderInv'
<1>1. /\ mounted' = FALSE /\ chunks' = <<>> /\ rec' = "none"
      /\ UNCHANGED <<status, call, made, files>>
    BY DEF Unmount, Cleanup
<1>2. NothingCaptured'
    BY <1>1 DEF NothingCaptured
<1>3. RecorderInv => files \in Seq(Seq(Nat)) /\ made \in Nat
                    /\ (call # "none" => status # "stopping")
    BY DEF RecorderInv
<1>4. <<>> \in Seq(Nat)
    OBVIOUS
<1> QED BY <1>1, <1>2, <1>3, <1>4 DEF RecorderInv, Whole

LEMMA SteadyStep == ASSUME RecorderInv, UNCHANGED recVars PROVE RecorderInv'
BY DEF RecorderInv, recVars, Whole, NothingCaptured

LEMMA FinalizeStep ==
    ASSUME RecorderInv, Finalize, UNCHANGED <<call, held, chunks, made, files, mounted, starts>>
    PROVE  RecorderInv'
BY StopStep, SteadyStep DEF Finalize, recVars

LEMMA StoppedStep ==
    ASSUME RecorderInv, Stopped
    PROVE  /\ RecorderInv'
           /\ Whole => files'[Len(files')] = [i \in 1 .. made' |-> i]
<1>1. Append(chunks, made + 1) \in Seq(Nat)
    BY DEF RecorderInv
<1>2. ASSUME NEW file \in Seq(Nat), files' = Append(files, file)
      PROVE  files' \in Seq(Seq(Nat)) /\ files'[Len(files')] = file
    BY <1>2 DEF RecorderInv
<1>3. RecorderInv'
    BY <1>1, <1>2 DEF RecorderInv, Stopped, Cleanup, Shows, Whole, NothingCaptured, Resting
<1>4. Whole => Append(chunks, made + 1) = [i \in 1 .. made + 1 |-> i]
    BY OneMore DEF RecorderInv, Whole
<1> QED BY <1>1, <1>2, <1>3, <1>4 DEF Stopped

LEMMA RecordingStep ==
    ASSUME RecorderInv, Recording
    PROVE  RecorderInv'
<1> USE DEF RecorderInv, NothingCaptured, Whole
<1>1. CASE Start
    BY <1>1 DEF Start, Resting
<1>2. CASE StopClick \/ SharingEnds
    BY <1>2, StopStep DEF StopClick, SharingEnds, Stop
<1>3. CASE StopInactive
    BY <1>3 DEF StopInactive, Cleanup, Shows
<1>4. CASE PickerFails
    BY <1>4 DEF PickerFails, Cleanup, Shows
<1>5. CASE PickerGives
    BY <1>5 DEF PickerGives
<1>6. CASE MicAnswers
    <2>1. CASE Cleanup /\ Shows("error") /\ made' = made
        BY <1>6, <2>1 DEF MicAnswers, Cleanup, Shows
    <2>2. ASSUME NEW streams, Record(streams) PROVE RecorderInv'
        <3>1. chunks' = <<>> /\ made' = 0 /\ rec' = "recording" /\ Shows("recording")
            BY <2>2 DEF Record
        <3>2. <<>> = [i \in 1 .. 0 |-> i]
            OBVIOUS
        <3> QED BY <1>6, <3>1, <3>2 DEF MicAnswers, Shows, Resting
    <2> QED BY <1>6, <2>1, <2>2 DEF MicAnswers
<1>7. CASE Chunk
    BY <1>7, OneMore DEF Chunk
<1>8. CASE RecorderEnds
    BY <1>8 DEF RecorderEnds, StopRecorder
<1>9. CASE RecorderFails
    BY <1>9 DEF RecorderFails, Cleanup, Shows
<1> QED
    BY <1>1, <1>2, <1>3, <1>4, <1>5, <1>6, <1>7, <1>8, <1>9 DEF Recording

LEMMA RecorderStep == RecorderInv /\ [Next]_vars => RecorderInv'
<1> SUFFICES ASSUME RecorderInv, [Next]_vars PROVE RecorderInv'
    OBVIOUS
<1>1. CASE Recording
    BY <1>1, RecordingStep
<1>2. CASE RecordingStopped
    BY <1>2, StoppedStep DEF RecordingStopped
<1>3. CASE LeaveClick
    BY <1>3, FinalizeStep DEF LeaveClick
<1>4. ASSUME NEW flag, Restricted(flag) PROVE RecorderInv'
    <2>1. CASE Listening
        BY <1>4, <2>1, FinalizeStep DEF Restricted, Ejected
    <2>2. CASE ~Listening
        BY <1>4, <2>2, SteadyStep DEF Restricted, NotEjected, recVars
    <2> QED BY <2>1, <2>2
<1>5. CASE Navigate \/ EndAnswered \/ Gone
    BY <1>5, UnmountStep DEF Navigate, EndAnswered, Gone, Leaves
<1> QED
    BY <1>1, <1>2, <1>3, <1>4, <1>5, SteadyStep DEF Next, KickMe, Ended, HostEnds, Load, LoadFails,
       Handshake, Drop, Reconnect, TokenExpires, LivekitToken, LivekitJoins, LivekitUndone,
       LivekitLost, SetLock, vars

LEMMA RecorderHolds == Spec => []RecorderInv
BY RecorderInit, RecorderStep, PTL DEF Spec

(* When the button offers to start again, every stream of the last recording *)
(* has been stopped: each way out of start() and of a recording cleans up.  *)
THEOREM CaptureEnds == Spec => []NothingCaptured
<1>1. RecorderInv => NothingCaptured
    BY DEF RecorderInv
<1> QED BY <1>1, RecorderHolds, PTL

(* The stop event is the only step that ends a pending one, and it saves    *)
(* what was recorded, from the first chunk to the last.                     *)
THEOREM RecordingsWhole == Spec => SavedWhole
<1>1. ASSUME RecorderInv, [Next]_vars, due, ~due', status = "stopping", mounted
      PROVE  files'[Len(files')] = [i \in 1 .. made' |-> i]
    <2>1. Stopped
        BY <1>1 DEF Next, vars, recVars, pageVars, Load, LoadFails, Navigate, EndAnswered, Gone,
           Leaves, Unmount, Handshake, Drop, Reconnect, TokenExpires, LivekitToken, LivekitJoins,
           LivekitUndone, LivekitLost, SetLock, KickMe, Ended, HostEnds, Restricted, Ejected,
           NotEjected, LeaveClick, Finalize, StopRecorder, RecordingStopped, Recording, Start,
           StopClick, StopInactive, PickerFails, PickerGives, MicAnswers, Chunk, SharingEnds,
           RecorderEnds, RecorderFails, Stop
    <2> QED BY <1>1, <2>1, StoppedStep DEF RecorderInv
<1>2. RecorderInv /\ [Next]_vars =>
        (due /\ ~due' /\ status = "stopping" /\ mounted
            => files'[Len(files')] = [i \in 1 .. made' |-> i])
    BY <1>1
<1> QED BY <1>2, RecorderHolds, PTL DEF Spec, SavedWhole

-----------------------------------------------------------------------------
(* A recorder that was stopped has one more chunk to hand over, and no other *)
(* recorder is made before it has.                                          *)
BoundedInv ==
    /\ RecTypeOK
    /\ rec = "recording" \/ due => made <= MaxChunks

LEMMA BoundedInit == Init => BoundedInv
<1>1. Init => /\ 0 \in 0 .. MaxChunks + 1 /\ 0 <= MaxChunks /\ 0 \in 0 .. MaxStarts
              /\ chunks \in Seq(1 .. MaxChunks + 1) /\ files \in Seq(Seq(1 .. MaxChunks + 1))
    BY BoundsAssumption DEF Init, RecInit
<1>2. Init => /\ status \in Status /\ call = "none" /\ rec = "none" /\ due = FALSE /\ held = {}
              /\ made = 0 /\ mounted = TRUE /\ starts = 0
    BY DEF Init, RecInit, Status
<1> QED BY <1>1, <1>2 DEF BoundedInv, RecTypeOK

LEMMA BoundedSteady == ASSUME BoundedInv, UNCHANGED recVars PROVE BoundedInv'
BY DEF BoundedInv, RecTypeOK, recVars

LEMMA BoundedUnmount == ASSUME BoundedInv, Unmount PROVE BoundedInv'
<1>1. due' \in BOOLEAN /\ mounted' \in BOOLEAN
    BY Zenon DEF Unmount
<1>2. /\ rec' = "none" /\ held' = {} /\ chunks' = <<>>
      /\ UNCHANGED <<status, call, made, files, starts>>
      /\ due' = (due \/ rec = "recording")
    BY DEF Unmount, Cleanup
<1>3. chunks' \in Seq(1 .. MaxChunks + 1)
    BY <1>2
<1> QED BY <1>1, <1>2, <1>3 DEF BoundedInv, RecTypeOK

LEMMA BoundedFinalize ==
    ASSUME BoundedInv, Finalize, UNCHANGED <<call, held, chunks, made, files, mounted, starts>>
    PROVE  BoundedInv'
<1>1. CASE rec = "recording" /\ StopRecorder /\ Shows("stopping")
    <2>1. status' \in Status /\ rec' = "inactive" /\ due' = TRUE /\ made' = made /\ made <= MaxChunks
        BY <1>1 DEF BoundedInv, RecTypeOK, StopRecorder, Shows, Status
    <2> QED BY <2>1 DEF BoundedInv, RecTypeOK
<1>2. CASE UNCHANGED <<rec, due, status>>
    BY <1>2 DEF BoundedInv, RecTypeOK
<1> QED BY <1>1, <1>2 DEF Finalize

LEMMA BoundedRecording ==
    ASSUME BoundedInv, Recording
    PROVE  BoundedInv'
<1> USE BoundsAssumption DEF BoundedInv, RecTypeOK, Cleanup, Shows, Status
<1>1. CASE Start
    BY <1>1 DEF Start
<1>2. CASE StopClick \/ SharingEnds
    BY <1>2 DEF StopClick, SharingEnds, Stop, StopRecorder
<1>3. CASE StopInactive
    BY <1>3 DEF StopInactive
<1>4. CASE PickerFails
    BY <1>4 DEF PickerFails
<1>5. CASE PickerGives
    BY <1>5 DEF PickerGives, Streams
<1>6. CASE MicAnswers
    <2>1. CASE Cleanup /\ Shows("error") /\ made' = made
        BY <1>6, <2>1 DEF MicAnswers
    <2>2. ASSUME NEW streams \in SUBSET Streams, Record(streams) PROVE BoundedInv'
        BY <1>6, <2>2 DEF MicAnswers, Record, Streams
    <2>3. held \in SUBSET Streams /\ held \cup {"mic"} \in SUBSET Streams
        BY DEF Streams
    <2> QED BY <1>6, <2>1, <2>2, <2>3 DEF MicAnswers
<1>7. CASE Chunk
    <2>1. made + 1 \in 1 .. MaxChunks + 1 /\ made + 1 \in 0 .. MaxChunks + 1
          /\ made + 1 <= MaxChunks
        BY <1>7 DEF Chunk
    <2>2. chunks' \in Seq(1 .. MaxChunks + 1)
        BY <1>7, <2>1 DEF Chunk
    <2> QED BY <1>7, <2>1, <2>2 DEF Chunk
<1>8. CASE RecorderEnds
    BY <1>8 DEF RecorderEnds, StopRecorder
<1>9. CASE RecorderFails
    BY <1>9 DEF RecorderFails
<1> QED
    BY <1>1, <1>2, <1>3, <1>4, <1>5, <1>6, <1>7, <1>8, <1>9 DEF Recording

LEMMA BoundedStopped == ASSUME BoundedInv, Stopped PROVE BoundedInv'
<1>1. made + 1 \in 1 .. MaxChunks + 1 /\ made + 1 \in 0 .. MaxChunks + 1
    BY BoundsAssumption DEF BoundedInv, RecTypeOK, Stopped
<1> DEFINE Kept == 1 .. MaxChunks + 1
<1>2. chunks \in Seq(Kept) /\ files \in Seq(Seq(Kept)) /\ made + 1 \in Kept
    BY <1>1 DEF BoundedInv, RecTypeOK
<1> HIDE DEF Kept
<1>3. Append(files, Append(chunks, made + 1)) \in Seq(Seq(Kept)) /\ <<>> \in Seq(Kept)
    BY <1>2
<1>4. /\ chunks' = <<>> /\ files' = Append(files, Append(chunks, made + 1))
      /\ made' = made + 1 /\ due' = FALSE /\ held' = {} /\ rec' = "none" /\ Shows("stopped")
      /\ UNCHANGED <<call, mounted, starts>>
    BY DEF Stopped, Cleanup
<1>5. status' \in Status
    BY <1>4 DEF BoundedInv, RecTypeOK, Shows, Status
<1> QED BY <1>1, <1>3, <1>4, <1>5 DEF BoundedInv, RecTypeOK, Kept

LEMMA BoundedStep == BoundedInv /\ [Next]_vars => BoundedInv'
<1> SUFFICES ASSUME BoundedInv, [Next]_vars PROVE BoundedInv'
    OBVIOUS
<1>1. CASE Recording
    BY <1>1, BoundedRecording
<1>2. CASE RecordingStopped
    BY <1>2, BoundedStopped DEF RecordingStopped
<1>3. CASE LeaveClick
    BY <1>3, BoundedFinalize DEF LeaveClick
<1>4. ASSUME NEW flag, Restricted(flag) PROVE BoundedInv'
    <2>1. CASE Listening
        BY <1>4, <2>1, BoundedFinalize DEF Restricted, Ejected
    <2>2. CASE ~Listening
        BY <1>4, <2>2, BoundedSteady DEF Restricted, NotEjected, recVars
    <2> QED BY <2>1, <2>2
<1>5. CASE Navigate \/ EndAnswered \/ Gone
    BY <1>5, BoundedUnmount DEF Navigate, EndAnswered, Gone, Leaves
<1> QED
    BY <1>1, <1>2, <1>3, <1>4, <1>5, BoundedSteady DEF Next, KickMe, Ended, HostEnds, Load,
       LoadFails, Handshake, Drop, Reconnect, TokenExpires, LivekitToken, LivekitJoins,
       LivekitUndone, LivekitLost, SetLock, vars

(* The two connections of the page and its way out.                         *)
ConnectionsOK ==
    /\ sock \in {"none", "connecting", "open", "down", "over"}
    /\ lk \in {"off", "token", "joining", "on", "gone", "error"}
    /\ exit \in {"no", "saving", "left", "ending"}
    /\ gates \in 0 .. MaxGates

LEMMA ConnectionsStep == ConnectionsOK /\ [Next]_vars => ConnectionsOK'
<1> SUFFICES ASSUME ConnectionsOK, [Next]_vars PROVE ConnectionsOK'
    OBVIOUS
<1> USE DEF ConnectionsOK
<1>1. CASE Load \/ LoadFails
    BY <1>1 DEF Load, LoadFails, LivekitStarts
<1>2. CASE Navigate \/ EndAnswered \/ Gone
    BY <1>2 DEF Navigate, EndAnswered, Gone, Leaves, LivekitCloses
<1>3. CASE Handshake \/ Drop \/ Reconnect \/ TokenExpires
    BY <1>3 DEF Handshake, Drop, Reconnect, TokenExpires
<1>4. CASE LivekitToken \/ LivekitJoins \/ LivekitUndone \/ LivekitLost
    BY <1>4 DEF LivekitToken, LivekitJoins, LivekitUndone, LivekitLost
<1>5. CASE SetLock
    BY <1>5, GatesAssumption DEF SetLock
<1>6. ASSUME NEW flag, Restricted(flag), exit' \in {exit, "ending"} PROVE ConnectionsOK'
    BY <1>6 DEF Restricted, Ejected, NotEjected, LivekitCloses
<1>7. CASE KickMe \/ Ended \/ HostEnds
    BY <1>6, <1>7 DEF KickMe, Ended, HostEnds
<1>8. CASE LeaveClick
    BY <1>8 DEF LeaveClick, LivekitLeave
<1>9. CASE RecordingStopped
    BY <1>9 DEF RecordingStopped, LivekitLeave
<1>10. CASE Recording
    BY <1>10 DEF Recording, pageVars
<1>11. CASE UNCHANGED vars
    BY <1>11 DEF vars, pageVars
<1> QED
    BY <1>1, <1>2, <1>3, <1>4, <1>5, <1>7, <1>8, <1>9, <1>10, <1>11 DEF Next

LEMMA SwitchesStep ==
    /\ {failed, token, zombie, heard, host} \subseteq BOOLEAN
    /\ [Next]_vars
    => {failed, token, zombie, heard, host}' \subseteq BOOLEAN
<1> SUFFICES ASSUME failed \in BOOLEAN, token \in BOOLEAN, zombie \in BOOLEAN, heard \in BOOLEAN,
                    host \in BOOLEAN, [Next]_vars
             PROVE  /\ failed' \in BOOLEAN /\ token' \in BOOLEAN /\ zombie' \in BOOLEAN
                    /\ heard' \in BOOLEAN /\ host' \in BOOLEAN
    OBVIOUS
<1>1. /\ failed' \in {failed, TRUE} /\ token' \in {token, FALSE} /\ host' = host
      /\ zombie' \in {zombie, FALSE} \/ zombie' = (zombie \/ lk = "joining")
      /\ heard' \in {heard, TRUE} \/ heard' = (heard /\ (Listening \/ ~Loaded))
    BY DEF Next, Load, LoadFails, Navigate, EndAnswered, Gone, Leaves, LivekitCloses, Handshake,
       Drop, Reconnect, TokenExpires, LivekitToken, LivekitJoins, LivekitUndone, LivekitLost,
       SetLock, KickMe, Ended, HostEnds, Restricted, Ejected, NotEjected, LeaveClick,
       RecordingStopped, Recording, vars, pageVars
<1> QED BY <1>1, Zenon

(* Page, connections and recorder have the states their comments name, and  *)
(* no recording has more chunks than it was given: a stopped recorder hands *)
(* over one more, and no other recorder is made before it has.              *)
THEOREM RoomPageTyped == Spec => []TypeOK
<1> DEFINE I == PageInv /\ BoundedInv /\ ConnectionsOK
                 /\ {failed, token, zombie, heard, host} \subseteq BOOLEAN
<1>1. Init => I
    <2>1. Init => ConnectionsOK /\ {failed, token, zombie, heard, host} \subseteq BOOLEAN
        <3>1. Init => ConnectionsOK
            BY GatesAssumption DEF Init, ConnectionsOK
        <3>2. Init => {failed, token, zombie, heard, host} \subseteq BOOLEAN
            BY DEF Init
        <3> QED BY <3>1, <3>2
    <2> QED BY <2>1, PageInit, BoundedInit
<1>2. I /\ [Next]_vars => I'
    BY PageStep, BoundedStep, ConnectionsStep, SwitchesStep
<1>3. I => TypeOK
    BY DEF PageInv, BoundedInv, ConnectionsOK, TypeOK
<1> QED BY <1>1, <1>2, <1>3, PTL DEF Spec

-----------------------------------------------------------------------------
(* The chat panel.  First, lists of messages.                               *)
LEMMA Membership ==
    ASSUME NEW S, NEW s \in Seq(S), NEW e
    PROVE  Contains(s, e) <=> e \in ToSet(s)
    BY DEF Contains, ToSet

LEMMA MessageAdded ==
    ASSUME NEW S, NEW s \in Seq(S), NEW e \in S
    PROVE  /\ Append(s, e) \in Seq(S) /\ Len(Append(s, e)) = Len(s) + 1
           /\ ToSet(Append(s, e)) = ToSet(s) \cup {e}
           /\ IsInjective(s) /\ e \notin ToSet(s) => IsInjective(Append(s, e))
    <1>1. Len(s) \in Nat /\ DOMAIN s = 1 .. Len(s)
        OBVIOUS
    <1>2. /\ DOMAIN Append(s, e) = 1 .. Len(s) + 1 /\ Append(s, e)[Len(s) + 1] = e
          /\ \A i \in 1 .. Len(s) : Append(s, e)[i] = s[i]
        OBVIOUS
    <1>. DEFINE t == Append(s, e)
    <1>3. DOMAIN t = 1 .. Len(s) + 1 /\ t[Len(s) + 1] = e /\ \A i \in 1 .. Len(s) : t[i] = s[i]
        BY <1>2
    <1>4. t \in Seq(S) /\ Len(t) = Len(s) + 1
        OBVIOUS
    <1>. HIDE DEF t
    <1>5. ToSet(t) = ToSet(s) \cup {e}
        BY <1>1, <1>3 DEF ToSet
    <1>6. ASSUME IsInjective(s), e \notin ToSet(s) PROVE IsInjective(t)
        BY <1>1, <1>3, <1>6 DEF IsInjective, ToSet
    <1>. QED  BY <1>4, <1>5, <1>6 DEF t

LEMMA LastOnes ==
    ASSUME NEW S, NEW s \in Seq(S), NEW k \in 1 .. Len(s) + 1
    PROVE  /\ SubSeq(s, k, Len(s)) \in Seq(S)
           /\ ToSet(SubSeq(s, k, Len(s))) \subseteq ToSet(s)
           /\ IsInjective(s) => IsInjective(SubSeq(s, k, Len(s)))
    <1>. DEFINE n == Len(s) - k + 1
    <1>. DEFINE t == SubSeq(s, k, Len(s))
    <1>1. Len(s) \in Nat /\ DOMAIN s = 1 .. Len(s) /\ n \in Nat
        OBVIOUS
    <1>2. t \in Seq(S) /\ DOMAIN t = 1 .. n /\ \A i \in 1 .. n : t[i] = s[k + i - 1]
        OBVIOUS
    <1>. HIDE DEF t
    <1>3. \A i \in 1 .. n : k + i - 1 \in DOMAIN s
        BY <1>1
    <1>4. ToSet(t) \subseteq ToSet(s)
        BY <1>2, <1>3 DEF ToSet
    <1>5. ASSUME IsInjective(s) PROVE IsInjective(t)
        <2>. SUFFICES ASSUME NEW i \in 1 .. n, NEW j \in 1 .. n, t[i] = t[j] PROVE i = j
            BY <1>2 DEF IsInjective
        <2>1. k + i - 1 = k + j - 1
            BY <1>2, <1>3, <1>5 DEF IsInjective
        <2>. QED  BY <2>1, <1>1
    <1>. QED  BY <1>2, <1>4, <1>5 DEF t

-----------------------------------------------------------------------------
(* The chat panel.  What is broadcast before a page has its history counts   *)
(* as missed, and from then on the list only grows: the badge counts what    *)
(* it has grown by.                                                          *)
Persisted(msgs) == IsInjective(msgs) /\ ToSet(msgs) \subseteq ToSet(rows)

Attended(p) == \A m \in Messages :
    handler[m] = "done" => \/ m \in gap[p]
                           \/ history[p] = "done" /\ Contains(list[p], m)

Counted(p) ==
    /\ history[p] = "done" /\ seen[p] \subseteq ToSet(list[p])
    /\ lastRead[p] <= Len(list[p])
    /\ Cardinality(ToSet(list[p]) \ seen[p]) = Len(list[p]) - lastRead[p]
    /\ ~open[p] => unread[p] = Len(list[p]) - lastRead[p]

ChatInv ==
    /\ ChatTypeOK
    /\ \A p \in Pages :
          /\ Persisted(list[p]) /\ Persisted(answer[p])
          /\ Attended(p)
          /\ open[p] => unread[p] = 0
          /\ settled[p] => Counted(p)

LEMMA ChatStarts == ChatInit => ChatInv
    <1>. SUFFICES ASSUME ChatInit PROVE ChatInv
        OBVIOUS
    <1>1. ToSet(<<>>) = {} /\ IsInjective(<<>>) /\ \A m : ~Contains(<<>>, m)
        BY DEF ToSet, IsInjective, Contains
    <1>2. ChatTypeOK
        BY <1>1 DEF ChatInit, ChatTypeOK, Each
    <1>3. ASSUME NEW p \in Pages
          PROVE  /\ Persisted(list[p]) /\ Persisted(answer[p]) /\ Attended(p)
                 /\ ~open[p] /\ ~settled[p]
        BY <1>1 DEF ChatInit, Each, Persisted, Attended
    <1>. QED  BY <1>2, <1>3 DEF ChatInv

(* Where no list changes and no message is done.                            *)
LEMMA ListsKept ==
    ASSUME ChatInv, ChatTypeOK',
           UNCHANGED <<list, gap>>,
           ToSet(rows) \subseteq ToSet(rows)',
           \A m \in Messages : handler'[m] = "done" => handler[m] = "done",
           \A p \in Pages :
              /\ history[p] = "done" => history'[p] = "done"
              /\ Persisted(answer[p])'
              /\ open'[p] => unread'[p] = 0
              /\ settled'[p] => Counted(p)'
    PROVE  ChatInv'
    <1>1. \A p \in Pages : Persisted(list[p])'
        BY DEF ChatInv, Persisted
    <1>2. \A p \in Pages : Attended(p)'
        BY DEF ChatInv, Attended, Messages
    <1>. QED  BY <1>1, <1>2 DEF ChatInv

(* The panel and what it counts are as they were.                           *)
LEMMA PanelKept ==
    ASSUME ChatInv, UNCHANGED <<list, open, lastRead, unread, seen, settled>>,
           \A p \in Pages : history[p] = "done" => history'[p] = "done"
    PROVE  \A p \in Pages : /\ open'[p] => unread'[p] = 0
                            /\ settled'[p] => Counted(p)'
    BY DEF ChatInv, Counted

-----------------------------------------------------------------------------
LEMMA NewLists ==
    ASSUME ChatInv, NEW new \in [Pages -> Seq(Messages)], Lists(new)
    PROVE  /\ list' = new /\ unread' \in [Pages -> Nat]
           /\ \A p \in Pages : open[p] => unread'[p] = 0
           /\ UNCHANGED <<open, lastRead, seen, settled>>
    <1>1. \A p \in Pages : /\ Len(new[p]) \in Nat /\ lastRead[p] \in Nat /\ unread[p] \in Nat
        BY DEF ChatInv, ChatTypeOK
    <1>2. \A p \in Pages : Badge(p, Len(new[p])) \in Nat
        BY <1>1 DEF Badge
    <1>. QED  BY <1>1, <1>2 DEF Lists

LEMMA ReadLast ==
    ASSUME ChatInv
    PROVE  LastRows \in Seq(Messages) /\ Persisted(LastRows)
    <1>. DEFINE k == IF Len(rows) > Limit THEN Len(rows) - Limit + 1 ELSE 1
    <1>1. rows \in Seq(Messages) /\ IsInjective(rows)
        BY DEF ChatInv, ChatTypeOK
    <1>2. k \in 1 .. Len(rows) + 1
        BY <1>1, ChatBounds
    <1>3. LastRows = SubSeq(rows, k, Len(rows))
        BY DEF LastRows
    <1>. HIDE DEF k
    <1>. QED  BY <1>1, <1>2, <1>3, LastOnes DEF Persisted

(* Connections, and messages on their way to a row.                         *)
LEMMA QuietStep ==
    ASSUME ChatInv,
           \/ \E p \in Pages : \/ Mount(p) \/ Connect(p) \/ Joined(p) \/ Disconnect(p)
                               \/ DismissAlert(p) \/ Submit(p)
           \/ \E m \in Messages :
                 Receive(m) \/ Checked(m) \/ CheckFails(m) \/ SaveFails(m)
    PROVE  ChatInv'
    <1>. DEFINE Early == {"new", "sent", "checking", "saving",
                          "refused", "failed", "lost", "dropped"}
    <1>. DEFINE Kept == UNCHANGED <<rows, author, answer, list, open, lastRead,
                                    unread, gap, seen, settled>>
    <1>. DEFINE Stayed == UNCHANGED <<conn, history>>
    <1>. DEFINE Silent == UNCHANGED handler
    <1>. DEFINE Moved == \E m \in Messages, h \in Early :
                            handler[m] \in Early /\ handler' = [handler EXCEPT ![m] = h]
    <1>0. /\ history \in [Pages -> {"none", "asked", "read", "done"}]
          /\ conn \in [Pages -> {"off", "joining", "in"}]
          /\ author \in [Messages -> Pages] /\ alert \in [Pages -> BOOLEAN]
          /\ handler \in [Messages -> Early \cup {"saved", "done"}]
        BY DEF ChatInv, ChatTypeOK
    <1>1. ASSUME NEW p \in Pages, Mount(p)
          PROVE  Kept /\ Silent /\ UNCHANGED <<conn, alert>> /\ history[p] # "done"
                 /\ history' = [history EXCEPT ![p] = "asked"]
        BY <1>1 DEF Mount, Set, gateway, badge
    <1>2. ASSUME NEW p \in Pages, Connect(p) \/ Joined(p)
          PROVE  Kept /\ Silent /\ UNCHANGED <<history, alert>>
                 /\ \E c \in {"joining", "in"} : conn' = [conn EXCEPT ![p] = c]
        BY <1>2 DEF Connect, Joined, Set, gateway, badge
    <1>3. ASSUME NEW p \in Pages, Disconnect(p)
          PROVE  /\ Kept /\ UNCHANGED <<history, alert>> /\ conn' = [conn EXCEPT ![p] = "off"]
                 /\ handler' = [m \in Messages |->
                       IF handler[m] = "sent" /\ author[m] = p THEN "lost" ELSE handler[m]]
        BY <1>3 DEF Disconnect, Set, badge
    <1>4. ASSUME NEW p \in Pages, DismissAlert(p)
          PROVE  Kept /\ Stayed /\ Silent /\ alert' = [alert EXCEPT ![p] = FALSE]
        BY <1>4 DEF DismissAlert, Set, gateway, page, badge
    <1>5. ASSUME NEW p \in Pages, Submit(p)
          PROVE  Kept /\ Stayed /\ Moved /\ alert' = [alert EXCEPT ![p] = FALSE]
        <2>1. Kept /\ Stayed /\ alert' = [alert EXCEPT ![p] = FALSE]
            BY <1>5 DEF Submit, Set, page, badge
        <2>2. PICK m \in Messages :
                 handler[m] = "new" /\ handler' = [handler EXCEPT ![m] = "sent"]
            BY <1>5 DEF Submit
        <2>. QED  BY <2>1, <2>2
    <1>6. ASSUME NEW m \in Messages,
                 Receive(m) \/ Checked(m) \/ CheckFails(m) \/ SaveFails(m)
          PROVE  Kept /\ Stayed /\ Moved
                 /\ \/ alert' = alert
                    \/ alert' = [alert EXCEPT ![author[m]] =
                                    alert[author[m]] \/ conn[author[m]] # "off"]
        <2>1. CASE Receive(m)
            BY <2>1 DEF Receive, Complains, Set, page, badge
        <2>2. CASE Checked(m)
            BY <2>2 DEF Checked, page, badge
        <2>3. CASE CheckFails(m)
            BY <2>3 DEF CheckFails, page, badge
        <2>4. CASE SaveFails(m)
            BY <2>4 DEF SaveFails, Complains, Set, page, badge
        <2>. QED  BY <1>6, <2>1, <2>2, <2>3, <2>4
    <1>7. ASSUME NEW m \in Messages
          PROVE  (alert[author[m]] \/ conn[author[m]] # "off") \in BOOLEAN
        OBVIOUS
    <1>8. Kept
        BY <1>1, <1>2, <1>3, <1>4, <1>5, <1>6
    <1>9. conn' \in [Pages -> {"off", "joining", "in"}]
        <2>1. UNCHANGED conn \/ \E p \in Pages, c \in {"off", "joining", "in"} :
                                    conn' = [conn EXCEPT ![p] = c]
            BY <1>1, <1>2, <1>3, <1>4, <1>5, <1>6
        <2>. QED  BY <1>0, <2>1
    <1>10. /\ history' \in [Pages -> {"none", "asked", "read", "done"}]
           /\ \A p \in Pages : history[p] = "done" => history'[p] = "done"
        <2>1. UNCHANGED history \/ \E p \in Pages :
                  history[p] # "done" /\ history' = [history EXCEPT ![p] = "asked"]
            BY <1>1, <1>2, <1>3, <1>4, <1>5, <1>6
        <2>. QED  BY <1>0, <2>1
    <1>11. alert' \in [Pages -> BOOLEAN]
        <2>1. UNCHANGED alert \/ \E p \in Pages, on \in BOOLEAN : alert' = [alert EXCEPT ![p] = on]
            BY <1>0, <1>1, <1>2, <1>3, <1>4, <1>5, <1>6, <1>7
        <2>. QED  BY <1>0, <2>1
    <1>12. /\ handler' \in [Messages -> Early \cup {"saved", "done"}]
          /\ \A m \in Messages :
                \/ handler'[m] = handler[m]
                \/ handler[m] \in Early /\ handler'[m] \in Early
        <2>1. CASE Silent \/ Moved
            BY <1>0, <2>1
        <2>2. ASSUME NEW p \in Pages, Disconnect(p) PROVE <1>12!:
            BY <1>0, <1>3, <2>2
        <2>. QED  BY <1>1, <1>2, <1>4, <1>5, <1>6, <2>1, <2>2
    <1>13. ChatTypeOK'
        <2>1. /\ Early \cup {"saved", "done"}
                    = {"new", "sent", "checking", "saving", "saved", "done",
                       "refused", "failed", "lost", "dropped"}
              /\ \A m \in Messages :
                    handler[m] \in {"saved", "done"} <=> handler'[m] \in {"saved", "done"}
            BY <1>12
        <2>. HIDE DEF Early
        <2>2. IsInjective(rows)' /\ \A m \in Messages :
                    Contains(rows, m)' <=> handler'[m] \in {"saved", "done"}
            BY <1>8, <2>1 DEF ChatInv, ChatTypeOK, Contains, IsInjective
        <2>. QED  BY <1>8, <1>12, <1>9, <1>10, <1>11, <2>1, <2>2 DEF ChatInv, ChatTypeOK, Messages
    <1>14. \A p \in Pages : Persisted(answer[p])'
        BY <1>8 DEF ChatInv, Persisted
    <1>. QED  BY <1>8, <1>12, <1>13, <1>10, <1>14, ListsKept, PanelKept

LEMMA HistoryStep ==
    ASSUME ChatInv,
           NEW p \in Pages, ReadHistory(p) \/ HistoryFails(p)
    PROVE  ChatInv'
    <1>1. <<>> \in Seq(Messages) /\ Persisted(<<>>)
        BY DEF Persisted, IsInjective, ToSet
    <1>2. PICK a \in Seq(Messages), h \in {"read", "done"} :
             /\ Persisted(a) /\ history[p] # "done"
             /\ answer' = [answer EXCEPT ![p] = a] /\ history' = [history EXCEPT ![p] = h]
        BY <1>1, ReadLast DEF ReadHistory, HistoryFails, Set
    <1>3. /\ UNCHANGED <<rows, handler, author, conn, list, open, lastRead, unread,
                         gap, seen, settled>>
          /\ alert' = alert \/ alert' = [alert EXCEPT ![p] = TRUE]
        BY DEF ReadHistory, HistoryFails, Set, gateway, badge
    <1>4. ChatTypeOK'
        BY <1>2, <1>3 DEF ChatInv, ChatTypeOK, Contains, IsInjective
    <1>5. \A q \in Pages : Persisted(answer[q])' /\ (history[q] = "done" => history'[q] = "done")
        BY <1>2, <1>3 DEF ChatInv, ChatTypeOK, Persisted
    <1>. QED  BY <1>3, <1>4, <1>5, ListsKept, PanelKept

(* Everything broadcast so far was broadcast before the page had its history. *)
LEMMA ArrivalStep ==
    ASSUME ChatInv, NEW p \in Pages, HistoryArrives(p)
    PROVE  ChatInv'
    <1>. DEFINE new == [list EXCEPT ![p] = answer[p]]
    <1>1. new \in [Pages -> Seq(Messages)]
        BY DEF ChatInv, ChatTypeOK
    <1>2. /\ history[p] = "read" /\ history' = [history EXCEPT ![p] = "done"]
          /\ answer' = [answer EXCEPT ![p] = <<>>] /\ Lists(new)
          /\ UNCHANGED <<rows, handler, author, conn, alert, gap>>
        BY DEF HistoryArrives, Set, gateway
    <1>3. /\ list' = new /\ unread' \in [Pages -> Nat]
          /\ \A q \in Pages : open[q] => unread'[q] = 0
          /\ UNCHANGED <<open, lastRead, seen, settled>>
        BY <1>1, <1>2, NewLists
    <1>4. <<>> \in Seq(Messages) /\ Persisted(<<>>)
        BY DEF Persisted, IsInjective, ToSet
    <1>5. ChatTypeOK'
        BY <1>1, <1>2, <1>3, <1>4 DEF ChatInv, ChatTypeOK, Contains, IsInjective
    <1>6. ASSUME NEW q \in Pages
          PROVE  Persisted(list[q])' /\ Persisted(answer[q])'
        BY <1>2, <1>3, <1>4 DEF ChatInv, ChatTypeOK, Persisted
    <1>7. ASSUME NEW q \in Pages
          PROVE  Attended(q)' /\ (settled'[q] => Counted(q)')
        <2>1. CASE q = p
            <3>1. history'[p] = "done" /\ ~settled[p]
                BY <1>2 DEF ChatInv, ChatTypeOK, Counted
            <3>2. \A m \in Messages : handler[m] = "done" => m \in gap[p]
                BY <1>2 DEF ChatInv, Attended
            <3>. QED  BY <1>2, <1>3, <2>1, <3>1, <3>2 DEF Attended, Messages
        <2>2. CASE q # p
            <3>1. /\ list'[q] = list[q] /\ history'[q] = history[q]
                  /\ unread'[q] = IF open[q] THEN 0 ELSE unread[q]
                BY <1>2, <1>3, <2>2 DEF ChatInv, ChatTypeOK, Lists
            <3>. QED  BY <1>2, <1>3, <3>1 DEF ChatInv, Attended, Counted, Messages
        <2>. QED  BY <2>1, <2>2
    <1>. QED  BY <1>3, <1>5, <1>6, <1>7 DEF ChatInv

LEMMA PanelStep ==
    ASSUME ChatInv, NEW p \in Pages, TogglePanel(p)
    PROVE  ChatInv'
    <1>1. UNCHANGED <<rows, handler, author, conn, history, answer, list, alert, gap>>
        BY DEF TogglePanel, gateway, page
    <1>2. /\ open' = [open EXCEPT ![p] = ~open[p]]
          /\ lastRead' = [lastRead EXCEPT ![p] = Len(list[p])]
          /\ unread' = [unread EXCEPT ![p] = IF open[p] THEN unread[p] ELSE 0]
          /\ seen' = [seen EXCEPT ![p] = ToSet(list[p])]
          /\ settled' = [settled EXCEPT ![p] = (history[p] = "done")]
        BY DEF TogglePanel, Set
    <1>3. /\ list[p] \in Seq(Messages) /\ Len(list[p]) \in Nat
          /\ ToSet(list[p]) \subseteq Messages
        BY DEF ChatInv, ChatTypeOK, ToSet
    <1>4. ChatTypeOK'
        BY <1>1, <1>2, <1>3 DEF ChatInv, ChatTypeOK, Contains, IsInjective
    <1>5. ASSUME NEW q \in Pages
          PROVE  (open'[q] => unread'[q] = 0) /\ (settled'[q] => Counted(q)')
        <2>1. CASE q = p
            <3>1. ToSet(list[p]) \ ToSet(list[p]) = {} /\ Len(list[p]) - Len(list[p]) = 0
                BY <1>3
            <3>2. open[p] => unread[p] = 0
                BY DEF ChatInv
            <3>3. /\ lastRead'[p] = Len(list[p]) /\ seen'[p] = ToSet(list[p])
                  /\ open'[p] = ~open[p] /\ unread'[p] = 0
                  /\ settled'[p] = (history[p] = "done")
                BY <1>2, <3>2 DEF ChatInv, ChatTypeOK
            <3>4. ToSet(list'[p]) \ seen'[p] = {}
                BY <1>1, <3>1, <3>3
            <3>5. Cardinality(ToSet(list'[p]) \ seen'[p]) = 0
                BY <3>4, FS_EmptySet
            <3>6. seen'[p] = ToSet(list'[p])
                BY <1>1, <3>3
            <3>7. /\ (seen[p] \subseteq ToSet(list[p]))'
                  /\ Cardinality(ToSet(list[p]) \ seen[p])' = 0
                BY <3>5, <3>6 DEF ToSet
            <3>8. settled'[p] => Counted(p)'
                <4>. SUFFICES ASSUME settled'[p] PROVE Counted(p)'
                    OBVIOUS
                <4>1. history'[p] = "done" /\ Len(list'[p]) = lastRead'[p] /\ lastRead'[p] \in Nat
                    BY <1>1, <1>3, <3>3
                <4>2. Len(list'[p]) - lastRead'[p] = 0 /\ lastRead'[p] <= Len(list'[p])
                    BY <4>1
                <4>. QED  BY <3>3, <3>7, <4>1, <4>2 DEF Counted
            <3>. QED  BY <2>1, <3>3, <3>8
        <2>2. CASE q # p
            BY <1>1, <1>2, <2>2 DEF ChatInv, ChatTypeOK, Counted
        <2>. QED  BY <2>1, <2>2
    <1>6. \A q \in Pages : Persisted(answer[q])'
        BY <1>1 DEF ChatInv, Persisted
    <1>. QED  BY <1>1, <1>4, <1>5, <1>6, ListsKept

LEMMA SaveStep ==
    ASSUME ChatInv, NEW m \in Messages, Save(m)
    PROVE  ChatInv'
    <1>1. /\ handler[m] = "saving" /\ handler' = [handler EXCEPT ![m] = "saved"]
          /\ rows' = Append(rows, m)
          /\ UNCHANGED <<author, conn, history, answer, list, alert, open, lastRead, unread,
                         gap, seen, settled>>
        BY DEF Save, page, badge
    <1>2. rows \in Seq(Messages) /\ ~Contains(rows, m)
        BY <1>1 DEF ChatInv, ChatTypeOK
    <1>3. /\ rows' \in Seq(Messages) /\ IsInjective(rows')
          /\ ToSet(rows') = ToSet(rows) \cup {m}
        BY <1>1, <1>2, Membership, MessageAdded DEF ChatInv, ChatTypeOK
    <1>4. \A n \in Messages : Contains(rows', n) <=> Contains(rows, n) \/ n = m
        <2>1. \A n \in Messages : Contains(rows', n) <=> n \in ToSet(rows')
            BY <1>3, Membership
        <2>2. \A n \in Messages : Contains(rows, n) <=> n \in ToSet(rows)
            BY <1>2, Membership
        <2>. QED  BY <1>3, <2>1, <2>2
    <1>5. ChatTypeOK'
        <2>1. handler' \in [Messages -> {"new", "sent", "checking", "saving", "saved",
                                           "done", "refused", "failed", "lost", "dropped"}]
            BY <1>1 DEF ChatInv, ChatTypeOK
        <2>2. \A n \in Messages : Contains(rows', n) <=> handler'[n] \in {"saved", "done"}
            BY <1>1, <1>4 DEF ChatInv, ChatTypeOK
        <2>3. IsInjective(rows)' = IsInjective(rows')
              /\ \A n \in Messages : Contains(rows, n)' = Contains(rows', n)
            BY DEF Contains, IsInjective
        <2>. QED  BY <1>1, <1>3, <2>1, <2>2, <2>3 DEF ChatInv, ChatTypeOK, Messages
    <1>6. ToSet(rows)' = ToSet(rows')
        BY DEF ToSet
    <1>7. \A p \in Pages : Persisted(answer[p])'
        BY <1>1, <1>3, <1>6 DEF ChatInv, Persisted
    <1>8. \A n \in Messages : handler'[n] = "done" => handler[n] = "done"
        BY <1>1 DEF ChatInv, ChatTypeOK
    <1>. QED  BY <1>1, <1>3, <1>5, <1>6, <1>7, <1>8, ListsKept, PanelKept

(* A page in the room appends the message, one without history has a gap.   *)
LEMMA BroadcastStep ==
    ASSUME ChatInv, NEW m \in Messages, Broadcast(m)
    PROVE  ChatInv'
    <1>. DEFINE new == [p \in Pages |->
                           IF p \in Audience(m) THEN Added(list[p], m) ELSE list[p]]
    <1>1. /\ handler[m] = "saved" /\ handler' = [handler EXCEPT ![m] = "done"] /\ Lists(new)
          /\ gap' = [p \in Pages |->
                IF conn[p] = "in" /\ history[p] = "done" THEN gap[p] ELSE gap[p] \cup {m}]
          /\ UNCHANGED <<rows, author, conn, history, answer, alert>>
        BY DEF Broadcast, Saved, page
    <1>2. ASSUME NEW p \in Pages
          PROVE  /\ new[p] \in Seq(Messages) /\ Persisted(new[p])
                 /\ ToSet(new[p]) \in {ToSet(list[p]), ToSet(list[p]) \cup {m}}
                 /\ conn[p] = "in" => m \in ToSet(new[p])
                 /\ \/ new[p] = list[p]
                    \/ /\ m \notin ToSet(list[p])
                       /\ ToSet(new[p]) = ToSet(list[p]) \cup {m}
                       /\ Len(new[p]) = Len(list[p]) + 1
        <2>1. list[p] \in Seq(Messages) /\ rows \in Seq(Messages)
            BY DEF ChatInv, ChatTypeOK
        <2>2. m \in ToSet(rows)
            BY <1>1, <2>1, Membership DEF ChatInv, ChatTypeOK
        <2>3. Contains(list[p], m) <=> m \in ToSet(list[p])
            BY <2>1, Membership
        <2>4. CASE conn[p] = "in" /\ m \notin ToSet(list[p])
            <3>1. new[p] = Append(list[p], m)
                BY <2>3, <2>4 DEF Audience, Added
            <3>2. Persisted(list[p])
                BY DEF ChatInv
            <3>. HIDE DEF new
            <3>. QED  BY <2>1, <2>2, <2>4, <3>1, <3>2, MessageAdded DEF Persisted
        <2>5. CASE ~(conn[p] = "in" /\ m \notin ToSet(list[p]))
            <3>1. new[p] = list[p]
                BY <2>3, <2>5 DEF Audience, Added
            <3>. QED  BY <2>1, <2>5, <3>1 DEF ChatInv
        <2>. QED  BY <2>4, <2>5
    <1>3. new \in [Pages -> Seq(Messages)]
        BY <1>2
    <1>4. /\ list' = new /\ unread' \in [Pages -> Nat]
          /\ \A p \in Pages : open[p] => unread'[p] = 0
          /\ UNCHANGED <<open, lastRead, seen, settled>>
        BY <1>1, <1>3, NewLists
    <1>. HIDE DEF new
    <1>5. ChatTypeOK'
        <2>1. /\ handler' \in [Messages -> {"new", "sent", "checking", "saving", "saved",
                                              "done", "refused", "failed", "lost", "dropped"}]
              /\ \A n \in Messages :
                    handler[n] \in {"saved", "done"} <=> handler'[n] \in {"saved", "done"}
              /\ gap' \in [Pages -> SUBSET Messages]
            BY <1>1 DEF ChatInv, ChatTypeOK
        <2>. QED  BY <1>1, <1>3, <1>4, <2>1 DEF ChatInv, ChatTypeOK, Contains,
                                                IsInjective, Messages
    <1>6. ASSUME NEW p \in Pages PROVE Persisted(list[p])' /\ Persisted(answer[p])'
        <2>1. list'[p] = new[p] /\ answer'[p] = answer[p] /\ rows' = rows
            BY <1>1, <1>4
        <2>2. Persisted(new[p]) /\ Persisted(answer[p])
            BY <1>2 DEF ChatInv
        <2>. QED  BY <2>1, <2>2 DEF Persisted, IsInjective, ToSet
    <1>7. ASSUME NEW p \in Pages PROVE Attended(p)'
        <2>. SUFFICES ASSUME NEW n \in Messages, handler'[n] = "done", n \notin gap'[p]
                      PROVE  history[p] = "done" /\ Contains(new[p], n)
            BY <1>1, <1>4 DEF Attended, Contains, Messages
        <2>1. list[p] \in Seq(Messages)
            BY DEF ChatInv, ChatTypeOK
        <2>2. \A k \in Messages : Contains(new[p], k) <=> k \in ToSet(new[p])
            BY <1>2, Membership
        <2>3. CASE n = m
            <3>1. conn[p] = "in" /\ history[p] = "done"
                BY <1>1, <2>3
            <3>. QED  BY <1>2, <2>2, <2>3, <3>1
        <2>4. CASE n # m
            <3>1. handler[n] = "done" /\ n \notin gap[p]
                BY <1>1, <2>4 DEF ChatInv, ChatTypeOK
            <3>2. history[p] = "done" /\ n \in ToSet(list[p])
                <4>1. Attended(p)
                    BY DEF ChatInv
                <4>2. history[p] = "done" /\ Contains(list[p], n)
                    BY <3>1, <4>1 DEF Attended
                <4>3. Contains(list[p], n) <=> n \in ToSet(list[p])
                    BY <2>1, Membership
                <4>. QED  BY <4>2, <4>3
            <3>. QED  BY <1>2, <2>2, <3>2
        <2>. QED  BY <2>3, <2>4
    <1>8. ASSUME NEW p \in Pages, settled'[p] PROVE Counted(p)'
        <2>1. /\ settled[p] /\ Counted(p) /\ lastRead[p] \in Nat /\ unread[p] \in Nat
              /\ Len(list[p]) \in Nat /\ list[p] \in Seq(Messages)
            BY <1>4, <1>8 DEF ChatInv, ChatTypeOK
        <2>2. unread'[p] = IF open[p] THEN 0
                           ELSE IF Len(new[p]) # Len(list[p]) THEN Badge(p, Len(new[p]))
                           ELSE unread[p]
            BY <1>1 DEF Lists
        <2>3. /\ history'[p] = history[p] /\ list'[p] = new[p] /\ open'[p] = open[p]
              /\ lastRead'[p] = lastRead[p] /\ seen'[p] = seen[p]
            BY <1>1, <1>4
        <2>4. ToSet(list[p])' = ToSet(new[p])
            BY <2>3 DEF ToSet
        <2>5. CASE new[p] = list[p]
            BY <2>1, <2>2, <2>3, <2>4, <2>5 DEF Counted
        <2>6. CASE /\ m \notin ToSet(list[p])
                   /\ ToSet(new[p]) = ToSet(list[p]) \cup {m}
                   /\ Len(new[p]) = Len(list[p]) + 1
            <3>. DEFINE old == ToSet(list[p]) \ seen[p]
            <3>1. ToSet(new[p]) \ seen[p] = old \cup {m} /\ m \notin old
                BY <2>1, <2>6 DEF Counted
            <3>2. old \in SUBSET (1 .. MaxMessages)
                <4>1. \A i \in DOMAIN list[p] : list[p][i] \in Messages
                    BY <2>1
                <4>2. ToSet(list[p]) \subseteq Messages
                    BY <4>1 DEF ToSet
                <4>. QED  BY <4>2 DEF Messages
            <3>3. IsFiniteSet(old)
                <4>1. IsFiniteSet(1 .. MaxMessages)
                    BY ChatBounds, FS_Interval
                <4>. QED  BY <3>2, <4>1, FS_Subset
            <3>4. Cardinality(old \cup {m}) = Cardinality(old) + 1
                BY <3>1, <3>3, FS_AddElement
            <3>5. Cardinality(ToSet(new[p]) \ seen[p]) = Len(new[p]) - lastRead[p]
                <4>. HIDE DEF old
                <4>1. Cardinality(old) = Len(list[p]) - lastRead[p]
                    BY <2>1 DEF Counted, old
                <4>2. Cardinality(ToSet(new[p]) \ seen[p]) = Cardinality(old) + 1
                    BY <3>1, <3>4
                <4>3. Len(new[p]) = Len(list[p]) + 1 /\ Len(list[p]) \in Nat /\ lastRead[p] \in Nat
                    BY <2>1, <2>6
                <4>. QED  BY <4>1, <4>2, <4>3
            <3>6. ~open[p] => unread'[p] = Len(new[p]) - lastRead[p]
                BY <2>1, <2>2, <2>6 DEF Counted, Badge
            <3>. QED  BY <2>1, <2>3, <2>4, <2>6, <3>5, <3>6 DEF Counted
        <2>. QED  BY <1>2, <2>5, <2>6
    <1>. QED  BY <1>4, <1>5, <1>6, <1>7, <1>8 DEF ChatInv

LEMMA ChatStep ==
    ASSUME ChatInv, [ChatNext]_chatVars
    PROVE  ChatInv'
    <1>1. ASSUME NEW p \in Pages, ReadHistory(p) \/ HistoryFails(p) PROVE ChatInv'
        BY <1>1, HistoryStep
    <1>2. ASSUME NEW p \in Pages, HistoryArrives(p) PROVE ChatInv'
        BY <1>2, ArrivalStep
    <1>3. ASSUME NEW p \in Pages, TogglePanel(p) PROVE ChatInv'
        BY <1>3, PanelStep
    <1>4. ASSUME NEW m \in Messages, Save(m) PROVE ChatInv'
        BY <1>4, SaveStep
    <1>5. ASSUME NEW m \in Messages, Broadcast(m) PROVE ChatInv'
        BY <1>5, BroadcastStep
    <1>6. CASE UNCHANGED chatVars
        <2>1. UNCHANGED <<rows, handler, author, conn, history, answer, list, alert, open, lastRead,
                          unread, gap, seen, settled>>
            BY <1>6 DEF chatVars, gateway, page, badge
        <2>2. ChatTypeOK'
            BY <2>1 DEF ChatInv, ChatTypeOK, Contains, IsInjective, Messages
        <2>3. \A p \in Pages : Persisted(answer[p])'
            BY <2>1 DEF ChatInv, Persisted, IsInjective, ToSet
        <2>. QED  BY <2>1, <2>2, <2>3, ListsKept, PanelKept DEF ToSet
    <1>. QED  BY <1>1, <1>2, <1>3, <1>4, <1>5, <1>6, QuietStep DEF ChatNext, Handler

(* The table holds each message once, and exactly those whose handler has   *)
(* saved it; lists, badges and answers hold messages of the meeting.        *)
THEOREM ChatTyped == ChatSpec => []ChatTypeOK
    <1>1. ChatInv => ChatTypeOK
        BY DEF ChatInv
    <1>. QED  BY <1>1, ChatStarts, ChatStep, PTL DEF ChatSpec

(* A page shows what was persisted and each message once, misses nothing    *)
(* that was broadcast while it attended, and its badge counts what has come *)
(* since its panel was open, for any pages, messages and history limit.     *)
THEOREM ChatFollows == ChatSpec => [](ShowsPersisted /\ NothingMissed /\ BadgeCounts)
    <1>1. ChatInv => ShowsPersisted /\ NothingMissed
        BY DEF ChatInv, Persisted, Attended, ShowsPersisted, NothingMissed
    <1>2. ChatInv => BadgeCounts
        BY DEF ChatInv, Counted, BadgeCounts
    <1>. QED  BY <1>1, <1>2, ChatStarts, ChatStep, PTL DEF ChatSpec
=============================================================================
