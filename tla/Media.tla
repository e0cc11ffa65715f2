------------------------------- MODULE Media -------------------------------
(***************************************************************************)
(* Camera and microphone of one participant, from the page in front of the *)
(* room (Prejoin) into it: useLivekitRoom turns on once what the switches  *)
(* said and then obeys its buttons; useCameraEffects puts a processor on   *)
(* the camera's track and follows the menu.                                *)
(*                                                                         *)
(* LiveKit carries out the calls for one device, and the calls for the     *)
(* processor of one track, in the order in which they are made.            *)
(***************************************************************************)
EXTENDS Prejoin, Sequences

CONSTANTS
    Images,     \* pictures for the background
    NoImage,
    MaxClicks,  \* bound: clicks on the two buttons and in the menu
    MaxFlaps    \* bound: interruptions of the connection

ASSUME RoomAssumption ==
    /\ NoImage \notin Images /\ {"raw", "blur"} \cap Images = {}
    /\ {MaxClicks, MaxFlaps} \subseteq Nat

VARIABLES
    intent,    \* initialMedia, read when the room page is first rendered
    lk,        \* the connection: "none", "off", "on", "flapping", "gone"
    applied,   \* appliedInitialRef
    auto,      \* what applyInitialMedia waits for: "idle", "mic", "camera", "done"
    dev,       \* devices published
    calls,     \* calls[k]: setMicrophoneEnabled, setCameraEnabled under way
    muted,     \* history: turned off by a button, and not turned on since
    effect, image,
    track,     \* the camera has a track
    unsupported,
    fetched,   \* processorsRef: the module has been loaded once
    applying,  \* isApplying
    error,     \* an effect failed
    loads,     \* runs of the effect that load the processors
    swaps,     \* runs of the effect that call the track
    attached,  \* the processor of the track: "raw", "blur" or a picture
    clicks, flaps

deviceVars == <<intent, lk, applied, auto, dev, calls, muted, flaps>>
effectVars == <<effect, image, unsupported, fetched, applying, error, loads, swaps, attached>>
vars == <<preVars, deviceVars, effectVars, track, clicks>>

Effects == {"none", "blur", "virtual"}
Runs == [effect : Effects, image : Images \cup {NoImage}, cancelled : BOOLEAN]

TypeOK ==
    /\ PreTypeOK
    /\ intent \subseteq Kinds /\ dev \subseteq Kinds /\ muted \subseteq Kinds
    /\ lk \in {"none", "off", "on", "flapping", "gone"}
    /\ auto \in {"idle", "mic", "camera", "done"}
    /\ calls \in [Kinds -> Seq([on : BOOLEAN, auto : BOOLEAN])]
    /\ effect \in Effects /\ image \in Images \cup {NoImage}
    /\ {applied, track, unsupported, fetched, applying, error} \subseteq BOOLEAN
    /\ loads \in Seq(Runs) /\ swaps \in Seq(Runs)
    /\ attached \in {"raw", "blur"} \cup Images
    /\ clicks \in 0 .. MaxClicks /\ flaps \in 0 .. MaxFlaps

Init ==
    /\ PreInit
    /\ intent = {} /\ lk = "none" /\ applied = FALSE /\ auto = "idle"
    /\ dev = {} /\ calls = [k \in Kinds |-> <<>>] /\ muted = {} /\ flaps = 0
    /\ effect \in {"none", "blur"} /\ image = NoImage /\ unsupported \in BOOLEAN
    /\ track = FALSE /\ fetched = FALSE /\ applying = FALSE /\ error = FALSE
    /\ loads = <<>> /\ swaps = <<>> /\ attached = "raw" /\ clicks = 0

-----------------------------------------------------------------------------
(* The effect of useCameraEffects: the run before is cancelled, a new one   *)
(* starts if there is a connected camera.                                   *)
Cancel(runs) == [i \in DOMAIN runs |-> [runs[i] EXCEPT !.cancelled = TRUE]]

Rerun(e, im, connected, has) ==
    LET run == <<[effect |-> e, image |-> im, cancelled |-> FALSE]>>
        starts == connected /\ has
    IN  /\ loads' = Cancel(loads) \o (IF starts /\ e # "none" THEN run ELSE <<>>)
        /\ swaps' = Cancel(swaps) \o (IF starts /\ e = "none" THEN run ELSE <<>>)
        /\ applying' = (starts \/ applying)
        /\ error' = (~starts /\ error)

Reconnects(state) ==
    /\ lk' = state
    /\ Rerun(effect, image, state = "on", track)
    /\ UNCHANGED <<effect, image, unsupported, fetched, attached, track>>

(* The room page.                                                           *)
EnterRoom ==
    /\ LeavePrejoin
    /\ intent' = {k \in Kinds : stored[k] = "on"} /\ lk' = "off"
    /\ UNCHANGED <<applied, auto, dev, calls, muted, flaps, effectVars, track, clicks>>

-----------------------------------------------------------------------------
(* applyInitialMedia: the microphone, and when that is done the camera,     *)
(* each unless it is on by then.                                            *)
FirstDue(k, on) ==
    CASE k = "mic" /\ "mic" \in intent \ on -> "mic"
      [] "camera" \in intent \ on -> "camera"
      [] OTHER -> "done"

Asking(pending, k) ==
    [d \in Kinds |-> IF d = k THEN Append(pending[d], [on |-> TRUE, auto |-> TRUE])
                              ELSE pending[d]]

Applies_Always == TRUE
Applies == ~applied

(* ConnectionState.Connected, the first time or after a reconnection.       *)
Connected ==
    /\ lk \in {"off", "flapping"} /\ Reconnects("on")
    /\ applied' = TRUE
    /\ IF Applies
       THEN auto' = FirstDue("mic", dev) /\ calls' = Asking(calls, auto')
       ELSE UNCHANGED <<auto, calls>>
    /\ UNCHANGED <<preVars, intent, dev, muted, flaps, clicks>>

Interrupted ==
    /\ lk = "on" /\ flaps < MaxFlaps /\ flaps' = flaps + 1
    /\ Reconnects("flapping")
    /\ UNCHANGED <<preVars, intent, applied, auto, dev, calls, muted, clicks>>

(* Disconnected for good: nothing is published any more.                    *)
Disconnected ==
    /\ lk \in {"on", "flapping"} /\ Reconnects("gone")
    /\ dev' = {} /\ calls' = [k \in Kinds |-> <<>>] /\ auto' = "done"
    /\ UNCHANGED <<preVars, intent, applied, muted, flaps, clicks>>

(* toggleMic, toggleCamera.                                                 *)
Press(k) ==
    /\ lk = "on" /\ clicks < MaxClicks /\ clicks' = clicks + 1
    /\ calls' = [calls EXCEPT ![k] = Append(@, [on |-> k \notin dev, auto |-> FALSE])]
    /\ UNCHANGED <<preVars, intent, lk, applied, auto, dev, muted, flaps, effectVars, track>>

Finishes(c, k, on) ==
    IF c.auto
    THEN /\ auto' = IF k = "mic" THEN FirstDue("camera", on) ELSE "done"
         /\ calls' = Asking([calls EXCEPT ![k] = Tail(@)], auto')
    ELSE auto' = auto /\ calls' = [calls EXCEPT ![k] = Tail(@)]

(* What a button turned off while applyInitialMedia was at work, that may   *)
(* still turn on.                                                           *)
Mutes(c, k) ==
    CASE c.auto -> muted
      [] ~c.auto /\ c.on -> muted \ {k}
      [] OTHER -> IF auto \in {"idle", "done"} THEN muted \cup {k} ELSE muted

Switched(k) ==
    /\ calls[k] # <<>> /\ lk \in {"on", "flapping"}
    /\ LET c == Head(calls[k]) IN
        /\ dev' = IF c.on THEN dev \cup {k} ELSE dev \ {k}
        /\ Finishes(c, k, dev')
        /\ muted' = Mutes(c, k)
        /\ IF k = "camera" /\ c.on /\ ~track
           THEN track' = TRUE /\ Rerun(effect, image, lk = "on", TRUE)
           ELSE UNCHANGED <<track, loads, swaps, applying, error>>
    /\ UNCHANGED <<preVars, intent, lk, applied, flaps, effect, image, unsupported, fetched,
                   attached, clicks>>

SwitchFails(k) ==
    /\ calls[k] # <<>> /\ lk \in {"on", "flapping"}
    /\ Finishes(Head(calls[k]), k, dev)
    /\ UNCHANGED <<preVars, intent, lk, applied, dev, muted, flaps, effectVars, track, clicks>>

-----------------------------------------------------------------------------
(* The menu: the tiles are disabled while an effect is being applied, the   *)
(* picture buttons are not.                                                 *)
Chooses(e, im) ==
    /\ lk # "none" /\ clicks < MaxClicks /\ clicks' = clicks + 1
    /\ effect' = e /\ image' = im
    /\ Rerun(e, im, lk = "on", track)
    /\ UNCHANGED <<preVars, deviceVars, unsupported, fetched, attached, track>>

SetEffect(e) == ~applying /\ (unsupported => e = "none") /\ e # effect /\ Chooses(e, image)
PickImage(im) == ~unsupported /\ (im # image \/ effect # "virtual") /\ Chooses("virtual", im)
RemoveImage ==
    image # NoImage /\ Chooses(IF effect = "virtual" THEN "none" ELSE effect, NoImage)

Done(run) == applying' = (run.cancelled /\ applying)

Stale_Never(run) == FALSE
Stale(run) == run.cancelled

(* import('@livekit/track-processors') has come.                            *)
Loaded ==
    /\ loads # <<>> /\ fetched' = TRUE
    /\ LET run == Head(loads) IN
        /\ loads' = Tail(loads)
        /\ IF Stale(run) \/ (run.effect = "virtual" /\ run.image = NoImage)
           THEN swaps' = swaps /\ Done(run)
           ELSE swaps' = Append(swaps, run) /\ applying' = applying
    /\ UNCHANGED <<preVars, deviceVars, effect, image, unsupported, error, attached, track, clicks>>

(* A run that fails and is not cancelled goes back to the raw camera.       *)
Fails(run) ==
    /\ error' = (error \/ ~run.cancelled) /\ Done(run)
    /\ attached' = IF run.cancelled THEN attached ELSE "raw"

LoadFails ==
    /\ loads # <<>> /\ ~fetched /\ unsupported' = TRUE
    /\ loads' = Tail(loads) /\ Fails(Head(loads))
    /\ UNCHANGED <<preVars, deviceVars, effect, image, fetched, swaps, track, clicks>>

Look(e, im) == CASE e = "none" -> "raw" [] e = "blur" -> "blur" [] OTHER -> im

(* setProcessor, or stopProcessor.                                          *)
Swapped ==
    /\ swaps # <<>> /\ swaps' = Tail(swaps)
    /\ LET run == Head(swaps) IN attached' = Look(run.effect, run.image) /\ Done(run)
    /\ UNCHANGED <<preVars, deviceVars, effect, image, unsupported, fetched, error, loads, track, clicks>>

SwapFails ==
    /\ swaps # <<>> /\ swaps' = Tail(swaps)
    /\ Fails(Head(swaps))
    /\ UNCHANGED <<preVars, deviceVars, effect, image, unsupported, fetched, loads, track, clicks>>

-----------------------------------------------------------------------------
Next ==
    \/ PreNext /\ UNCHANGED <<deviceVars, effectVars, track, clicks>>
    \/ EnterRoom \/ Connected \/ Interrupted \/ Disconnected
    \/ \E k \in Kinds : Press(k) \/ Switched(k) \/ SwitchFails(k)
    \/ \E e \in Effects : SetEffect(e)
    \/ \E im \in Images : PickImage(im)
    \/ RemoveImage
    \/ Loaded \/ LoadFails \/ Swapped \/ SwapFails

Spec == Init /\ [][Next]_vars

-----------------------------------------------------------------------------
(* What a button turned off stays off until a button turns it on: no        *)
(* reconnection of LiveKit opens a microphone or a camera again.            *)
MutedStaysMuted == dev \cap muted = {}

(* When no run of the effect is left, the camera looks as the menu says,    *)
(* or it is the raw camera and an error says why; with no picture chosen    *)
(* the last effect stays.                                                   *)
EffectFollows ==
    lk = "on" /\ track /\ loads = <<>> /\ swaps = <<>> =>
        \/ attached = Look(effect, image)
        \/ error /\ attached = "raw"
        \/ effect = "virtual" /\ image = NoImage

(* "flipping mic/cam OFF in pre-join now actually keeps them off after      *)
(* join": what the switches in front of the room show as off does not go on *)
(* by itself in the room.                                                   *)
OffStaysOff == lk # "none" => intent \subseteq want
=============================================================================
