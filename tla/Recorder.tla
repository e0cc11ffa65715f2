------------------------------ MODULE Recorder ------------------------------
(***************************************************************************)
(* The local meeting recorder of the room page: useLocalRecorder, the      *)
(* helpers of lib/recording.ts and RecordingButton.  One browser page.     *)
(*                                                                         *)
(* start() waits twice, for the screen picker and for the microphone; the  *)
(* MediaRecorder hands over a chunk every second; after rec.stop() its     *)
(* last chunk and its stop event come in a task of their own.  Refs outlive*)
(* renders and the unmounting of the page, so a call of start() that is    *)
(* still waiting goes on when the page is gone.                            *)
(***************************************************************************)
EXTENDS Naturals, Sequences

CONSTANTS
    MaxStarts,    \* bound: how often the button starts a recording
    MaxChunks     \* bound: chunks of one recording before its last

ASSUME BoundsAssumption == MaxStarts \in Nat /\ MaxChunks \in Nat

VARIABLES
    status,       \* RecorderStatus, what the button shows
    call,         \* where start() waits: "none", "picker" or "mic"
    rec,          \* recorderRef and its state: "none", "recording", "inactive"
    due,          \* the last chunk and the stop event of a stopped recorder
    held,         \* the live streams in screenStreamRef, micStreamRef, mixedStreamRef
    chunks,       \* chunksRef: numbers of the chunks kept
    made,         \* how many chunks the current recorder has handed over
    files,        \* the files downloaded, each the chunks it is made of
    mounted,      \* the room page is mounted
    starts

recVars == <<status, call, rec, due, held, chunks, made, files, mounted, starts>>

Status == {"idle", "preparing", "recording", "stopping", "stopped",
           "denied", "unsupported", "error"}
Streams == {"screen", "mic", "mixed"}
Resting == {"idle", "stopped", "denied", "unsupported", "error"}

RecTypeOK ==
    /\ status \in Status
    /\ call \in {"none", "picker", "mic"}
    /\ rec \in {"none", "recording", "inactive"}
    /\ due \in BOOLEAN
    /\ held \subseteq Streams
    /\ chunks \in Seq(1 .. MaxChunks + 1)
    /\ made \in 0 .. MaxChunks + 1
    /\ files \in Seq(Seq(1 .. MaxChunks + 1))
    /\ mounted \in BOOLEAN
    /\ starts \in 0 .. MaxStarts

RecInit ==
    /\ status \in {"idle", "unsupported"}
    /\ call = "none" /\ rec = "none" /\ due = FALSE
    /\ held = {} /\ chunks = <<>> /\ made = 0 /\ files = <<>>
    /\ mounted = TRUE /\ starts = 0

Cleanup_KeepsMic == held' = held \cap {"mic"} /\ chunks' = <<>> /\ rec' = "none"

(* cleanup(): every stream is stopped, the chunks and the recorder dropped.  *)
Cleanup == held' = {} /\ chunks' = <<>> /\ rec' = "none"

(* The page shows a status only while it is mounted.                        *)
Shows(s) == status' = IF mounted THEN s ELSE status

-----------------------------------------------------------------------------
(* The button: start, unless busy, recording or unsupported.                *)
Start ==
    /\ mounted /\ status \in Resting \ {"unsupported"} /\ starts < MaxStarts
    /\ rec = "none" /\ call = "none"
    /\ status' = "preparing" /\ call' = "picker" /\ starts' = starts + 1
    /\ UNCHANGED <<rec, due, held, chunks, made, files, mounted>>

(* The picker is refused, fails, or returns a stream without video.         *)
PickerFails ==
    /\ call = "picker"
    /\ call' = "none"
    /\ Cleanup
    /\ \E s \in {"denied", "error"} : Shows(s)
    /\ UNCHANGED <<due, made, files, mounted, starts>>

PickerGives ==
    /\ call = "picker"
    /\ call' = "mic" /\ held' = held \cup {"screen"}
    /\ UNCHANGED <<status, rec, due, chunks, made, files, mounted, starts>>

Record_Continues(streams) ==
    /\ held' = streams \cup {"mixed"}
    /\ rec' = "recording" /\ chunks' = chunks /\ made' = made
    /\ Shows("recording")

(* finishStartWith(): the recorder is made from the mixed stream and started.*)
Record(streams) ==
    /\ held' = streams \cup {"mixed"}
    /\ rec' = "recording" /\ chunks' = <<>> /\ made' = 0
    /\ Shows("recording")

(* The microphone is best-effort; the MediaRecorder may refuse the stream.   *)
MicAnswers ==
    /\ call = "mic" /\ ~due
    /\ call' = "none"
    /\ \/ Record(held)
       \/ Record(held \cup {"mic"})
       \/ Cleanup /\ Shows("error") /\ made' = made
    /\ UNCHANGED <<due, files, mounted, starts>>

-----------------------------------------------------------------------------
(* recorder.start(1000): ondataavailable, once a second.                    *)
Chunk ==
    /\ rec = "recording" /\ made < MaxChunks
    /\ made' = made + 1 /\ chunks' = Append(chunks, made + 1)
    /\ UNCHANGED <<status, call, rec, due, held, files, mounted, starts>>

StopRecorder_NoEvent == rec' = "inactive" /\ due' = FALSE

(* rec.stop() of the MediaRecorder: its last chunk and onstop are to come.   *)
StopRecorder == rec' = "inactive" /\ due' = TRUE

(* stop(): of a recorder that still records.                                *)
Stop ==
    /\ rec = "recording"
    /\ StopRecorder /\ Shows("stopping")
    /\ UNCHANGED <<call, held, chunks, made, files, mounted, starts>>

(* stop(): of a recorder that the browser has stopped already.              *)
StopInactive ==
    /\ mounted /\ status = "recording" /\ rec = "inactive"
    /\ Cleanup /\ Shows("stopped")
    /\ UNCHANGED <<call, due, made, files, mounted, starts>>

(* RecordingButton while it records.                                        *)
StopClick == mounted /\ status = "recording" /\ Stop

(* The browser's own "stop sharing": the 'ended' listener calls stop().     *)
SharingEnds == rec = "recording" /\ Stop

(* Every track of the recorded stream has ended, or the page is about to    *)
(* unload: the MediaRecorder is stopped without stop().                     *)
RecorderEnds ==
    /\ rec = "recording"
    /\ StopRecorder
    /\ UNCHANGED <<status, call, held, chunks, made, files, mounted, starts>>

(* recorder.onerror; the browser then stops the recorder.                   *)
RecorderFails ==
    /\ rec = "recording"
    /\ Cleanup /\ due' = TRUE /\ Shows("error")
    /\ UNCHANGED <<call, made, files, mounted, starts>>

(* The last chunk, then onstop: download, cleanup, 'stopped'.               *)
Stopped ==
    /\ due
    /\ due' = FALSE /\ made' = made + 1
    /\ files' = Append(files, Append(chunks, made + 1))
    /\ Cleanup /\ Shows("stopped")
    /\ UNCHANGED <<call, mounted, starts>>

(* The room page unmounts: rec.stop() and then cleanup() at once.           *)
Unmount ==
    /\ mounted
    /\ mounted' = FALSE
    /\ due' = (due \/ rec = "recording")
    /\ Cleanup
    /\ UNCHANGED <<status, call, made, files, starts>>

=============================================================================
