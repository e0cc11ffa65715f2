---------------------------- MODULE MediaProofs ----------------------------
(***************************************************************************)
(* Media and the prejoin page in front of it, for any number of turns of   *)
(* the switches, clicks and interruptions: what was replaced does not go   *)
(* on capturing, what was muted is not opened again, and the camera ends   *)
(* up with the effect that the menu shows.                                 *)
(***************************************************************************)
EXTENDS Media, TLAPS

-----------------------------------------------------------------------------
(* The preview.  As long as answers keep their order, the last request is   *)
(* the last one answered, and it asks for what the switches show.           *)
PreviewInv ==
    /\ turns \in 0 .. MaxToggles
    /\ want \subseteq Kinds
    /\ wants \in [Calls -> SUBSET Kinds]
    /\ stream \in Nat
    /\ onPage => live \subseteq {stream} \ {0}
    /\ onPage /\ ordered =>
          /\ asked \subseteq 1 .. turns + 1
          /\ asked # {} => turns + 1 \in asked /\ wants[turns + 1] = want
          /\ asked = {} => live = {} \/ wants[stream] = want

LEMMA PreviewInit == Init => PreviewInv
<1> SUFFICES ASSUME PreInit PROVE PreviewInv
    BY DEF Init
<1>1. want \subseteq Kinds /\ turns = 0 /\ stream = 0 /\ live = {} /\ 1 \in Calls
    BY TogglesAssumption DEF PreInit, Calls
<1>2. wants \in [Calls -> SUBSET Kinds] /\ wants[1] = want
    BY <1>1 DEF PreInit
<1>3. asked = {} \/ asked = {1}
    BY DEF PreInit
<1> QED BY <1>1, <1>2, <1>3, TogglesAssumption DEF PreviewInv

LEMMA ToggleStep == ASSUME PreviewInv, NEW k \in Kinds, Toggle(k) PROVE PreviewInv'
<1>1. /\ turns' \in 1 .. MaxToggles /\ turns' = turns + 1 /\ turns + 2 \in Calls
      /\ want' \subseteq Kinds /\ wants' \in [Calls -> SUBSET Kinds]
      /\ wants'[turns + 2] = want'
      /\ onPage' = onPage
    BY TogglesAssumption DEF PreviewInv, Toggle, Calls
<1>2. CASE want' = {}
    <2>1. stream' \in Nat /\ (onPage' => live' = {})
        BY <1>2 DEF Toggle, Replace, Released, PreviewInv
    <2>2. asked' = asked /\ (ordered' => ordered /\ asked = {})
        BY <1>2 DEF Toggle
    <2> QED BY <1>1, <2>1, <2>2 DEF PreviewInv
<1>3. CASE want' # {}
    <2>1. asked' = asked \cup {turns + 2} /\ UNCHANGED <<stream, live, ordered>>
        BY <1>3 DEF Toggle
    <2> QED BY <1>1, <2>1 DEF PreviewInv
<1> QED BY <1>2, <1>3

LEMMA AnswerStep ==
    ASSUME PreviewInv, NEW n \in Calls, Granted(n) \/ Denied(n)
    PROVE  PreviewInv'
<1>1. /\ n \in asked /\ asked' = asked \ {n}
      /\ ordered' = (ordered /\ \A m \in asked : n <= m)
      /\ UNCHANGED <<turns, want, wants, onPage>>
    BY DEF Granted, Denied, Answered
<1>2. CASE ~onPage
    BY <1>1, <1>2 DEF PreviewInv, Granted, Denied, Replace
<1>3. CASE onPage
    <2>1. PICK m \in {n, 0} : Replace(m)
        BY <1>3 DEF Granted, Denied
    <2>2. stream' = m /\ live' \subseteq {m} \ {0} /\ m \in Nat
        BY <1>3, <2>1 DEF Replace, Released, PreviewInv, Calls
    <2>3. ASSUME ordered', asked' # {}
          PROVE  n # turns + 1
        <3>0. ordered /\ \A l \in asked : n <= l
            BY <1>1, <2>3
        <3>1. asked \subseteq 1 .. turns + 1 /\ turns \in Nat
            BY <1>3, <3>0, TogglesAssumption DEF PreviewInv
        <3>2. PICK l \in asked : l # n
            BY <1>1, <2>3
        <3>3. n <= l /\ l <= turns + 1 /\ l \in Nat /\ n \in Nat
            BY <1>1, <3>0, <3>1, <3>2
        <3> QED BY <3>1, <3>2, <3>3
    <2>4. ASSUME ordered', asked' = {}
          PROVE  n = turns + 1
        BY <1>1, <1>3, <2>4 DEF PreviewInv
    <2>5. CASE ~ordered'
        BY <1>1, <1>3, <2>2, <2>5 DEF PreviewInv
    <2>6. CASE ordered' /\ asked' # {}
        <3>1. ordered /\ asked \subseteq 1 .. turns + 1 /\ turns + 1 \in asked
              /\ wants[turns + 1] = want
            BY <1>1, <1>3, <2>6 DEF PreviewInv
        <3>2. turns + 1 \in asked' /\ asked' \subseteq 1 .. turns + 1
            BY <1>1, <2>3, <2>6, <3>1
        <3>3. /\ turns' \in 0 .. MaxToggles /\ want' \subseteq Kinds
              /\ wants' \in [Calls -> SUBSET Kinds]
            BY <1>1 DEF PreviewInv
        <3> QED BY <1>1, <2>2, <2>6, <3>1, <3>2, <3>3 DEF PreviewInv
    <2>7. CASE ordered' /\ asked' = {}
        <3>1. wants[n] = want
            BY <1>1, <1>3, <2>4, <2>7 DEF PreviewInv
        <3>2. live' = {} \/ wants'[stream'] = want'
            BY <1>1, <2>2, <3>1
        <3> QED BY <1>1, <1>3, <2>2, <2>7, <3>2 DEF PreviewInv
    <2> QED BY <2>5, <2>6, <2>7
<1> QED BY <1>2, <1>3

LEMMA JoinedStep == ASSUME PreviewInv, Joined PROVE PreviewInv'
<1>1. /\ stream' = 0 /\ (onPage => live' = {})
      /\ UNCHANGED <<turns, want, wants, asked, onPage, ordered>>
    BY DEF PreviewInv, Joined, Replace, Released
<1> QED BY <1>1 DEF PreviewInv

LEMMA PreviewStep == PreviewInv /\ [Next]_vars => PreviewInv'
<1> SUFFICES ASSUME PreviewInv, [Next]_vars PROVE PreviewInv'
    OBVIOUS
<1>1. CASE UNCHANGED <<turns, want, wants, asked, stream, live, onPage, ordered>>
    BY <1>1 DEF PreviewInv
<1>2. CASE EnterRoom
    BY <1>2, TogglesAssumption DEF PreviewInv, EnterRoom, LeavePrejoin
<1>3. CASE PreNext
    BY <1>1, <1>3, ToggleStep, AnswerStep, JoinedStep DEF PreNext, Lookup, JoinClick, JoinFails
<1> QED
    BY <1>1, <1>2, <1>3 DEF Next, vars, preVars, Connected, Interrupted, Disconnected, Press,
       Switched, SwitchFails, SetEffect, PickImage, RemoveImage, Chooses, Loaded, LoadFails,
       Swapped, SwapFails

(* useMediaPreview stops the stream it replaces: when the requests were     *)
(* answered in order, nothing captures whose switch is off.                 *)
THEOREM PreviewHonest == Spec => []CapturesWhatIsShown
<1>1. PreviewInv => CapturesWhatIsShown
    BY DEF PreviewInv, CapturesWhatIsShown
<1> QED BY <1>1, PreviewInit, PreviewStep, PTL DEF Spec

-----------------------------------------------------------------------------
(* The devices.  applyInitialMedia runs once, before any button can be      *)
(* pressed; while it is at work nothing counts as muted, and at most one    *)
(* call is its own, for the device it waits for.                            *)
Call == [on : BOOLEAN, auto : BOOLEAN]
NoAuto(s) == \A i \in 1 .. Len(s) : ~s[i].auto
OneAuto(s) == \A i, j \in 1 .. Len(s) : s[i].auto /\ s[j].auto => i = j

MuteInv ==
    /\ calls \in [Kinds -> Seq(Call)]
    /\ applied \in BOOLEAN
    /\ auto \in {"idle", "mic", "camera", "done"}
    /\ lk \in {"on", "flapping"} => applied
    /\ ~applied => muted = {} /\ \A k \in Kinds : NoAuto(calls[k])
    /\ auto \in Kinds => muted = {}
    /\ \A k \in Kinds : OneAuto(calls[k]) /\ (auto # k => NoAuto(calls[k]))
    /\ MutedStaysMuted

LEMMA HeadAndTail ==
    ASSUME NEW s \in Seq(Call), s # <<>>, OneAuto(s)
    PROVE  /\ Head(s) \in Call /\ Tail(s) \in Seq(Call)
           /\ OneAuto(Tail(s))
           /\ NoAuto(s) => NoAuto(Tail(s)) /\ ~Head(s).auto
           /\ Head(s).auto => NoAuto(Tail(s))
<1>1. /\ Head(s) = s[1] /\ 1 \in 1 .. Len(s)
      /\ Len(Tail(s)) = Len(s) - 1
      /\ \A i \in 1 .. Len(s) - 1 : Tail(s)[i] = s[i + 1] /\ i + 1 \in 1 .. Len(s) /\ i + 1 # 1
    OBVIOUS
<1>2. Head(s) \in Call /\ Tail(s) \in Seq(Call)
    OBVIOUS
<1> QED BY <1>1, <1>2 DEF OneAuto, NoAuto

LEMMA Appended ==
    ASSUME NEW s \in Seq(Call), NEW c \in Call
    PROVE  /\ Append(s, c) \in Seq(Call)
           /\ NoAuto(s) => OneAuto(Append(s, c))
           /\ OneAuto(s) /\ ~c.auto => OneAuto(Append(s, c))
           /\ NoAuto(s) /\ ~c.auto => NoAuto(Append(s, c))
<1>1. /\ Append(s, c) \in Seq(Call) /\ Len(Append(s, c)) = Len(s) + 1
      /\ \A i \in 1 .. Len(s) : Append(s, c)[i] = s[i]
      /\ Append(s, c)[Len(s) + 1] = c
    OBVIOUS
<1> QED BY <1>1 DEF OneAuto, NoAuto

(* Asking for k when no automatic call is under way.                        *)
LEMMA Asked ==
    ASSUME NEW pending \in [Kinds -> Seq(Call)], \A d \in Kinds : NoAuto(pending[d]), NEW k
    PROVE  /\ Asking(pending, k) \in [Kinds -> Seq(Call)]
           /\ \A d \in Kinds : OneAuto(Asking(pending, k)[d])
                               /\ (k # d => NoAuto(Asking(pending, k)[d]))
<1>1. [on |-> TRUE, auto |-> TRUE] \in Call
    BY DEF Call
<1> QED BY <1>1, Appended DEF Asking, NoAuto, OneAuto

LEMMA Due == ASSUME NEW k, NEW on PROVE FirstDue(k, on) \in {"mic", "camera", "done"}
BY DEF FirstDue

LEMMA MuteInit == Init => MuteInv
<1>1. <<>> \in Seq(Call) /\ NoAuto(<<>>) /\ OneAuto(<<>>)
    BY DEF NoAuto, OneAuto
<1> QED BY <1>1 DEF Init, MuteInv, MutedStaysMuted, Kinds

(* A call is over, whatever came of it: applyInitialMedia goes on.          *)
LEMMA FinishStep ==
    ASSUME MuteInv, NEW k \in Kinds, calls[k] # <<>>, NEW on, Finishes(Head(calls[k]), k, on)
    PROVE  /\ calls' \in [Kinds -> Seq(Call)]
           /\ auto' \in {"idle", "mic", "camera", "done"}
           /\ Head(calls[k]) \in Call
           /\ Head(calls[k]).auto => muted = {}
           /\ ~Head(calls[k]).auto => auto' = auto
           /\ \A d \in Kinds : OneAuto(calls'[d]) /\ (auto' # d => NoAuto(calls'[d]))
<1> DEFINE rest == [calls EXCEPT ![k] = Tail(@)]
<1>1. /\ Head(calls[k]) \in Call /\ Tail(calls[k]) \in Seq(Call) /\ OneAuto(Tail(calls[k]))
      /\ NoAuto(calls[k]) => NoAuto(Tail(calls[k])) /\ ~Head(calls[k]).auto
      /\ Head(calls[k]).auto => NoAuto(Tail(calls[k]))
    BY HeadAndTail DEF MuteInv
<1>2. rest \in [Kinds -> Seq(Call)] /\ rest[k] = Tail(calls[k])
      /\ \A d \in Kinds : d # k => rest[d] = calls[d]
    BY <1>1 DEF MuteInv
<1>3. CASE Head(calls[k]).auto
    <2>1. auto = k
        BY <1>1, <1>3 DEF MuteInv
    <2>2. \A d \in Kinds : NoAuto(rest[d])
        BY <1>1, <1>2, <1>3, <2>1 DEF MuteInv
    <2>3. calls' = Asking(rest, auto') /\ auto' \in {"mic", "camera", "done"}
        BY <1>3, Due DEF Finishes
    <2> HIDE DEF rest
    <2>4. /\ calls' \in [Kinds -> Seq(Call)]
          /\ \A d \in Kinds : OneAuto(calls'[d]) /\ (auto' # d => NoAuto(calls'[d]))
        BY <1>2, <2>2, <2>3, Asked
    <2> QED BY <1>1, <1>3, <2>1, <2>3, <2>4 DEF MuteInv
<1>4. CASE ~Head(calls[k]).auto
    <2>1. calls' = rest /\ auto' = auto
        BY <1>4 DEF Finishes
    <2> QED BY <1>1, <1>2, <1>4, <2>1 DEF MuteInv
<1> QED BY <1>3, <1>4

LEMMA SwitchStep ==
    ASSUME MuteInv, NEW k \in Kinds, Switched(k) \/ SwitchFails(k)
    PROVE  MuteInv'
<1>1. PICK on : Finishes(Head(calls[k]), k, on) /\ calls[k] # <<>>
    BY DEF Switched, SwitchFails
<1>2. lk \in {"on", "flapping"} /\ lk' = lk /\ applied' = applied
    BY DEF Switched, SwitchFails
<1>3. /\ (auto' \in Kinds => muted' = {})
      /\ MutedStaysMuted'
    <2>1. CASE SwitchFails(k)
        BY <1>1, <2>1, FinishStep DEF SwitchFails, MuteInv, MutedStaysMuted
    <2>2. CASE Switched(k)
        <3>1. /\ dev' = IF Head(calls[k]).on THEN dev \cup {k} ELSE dev \ {k}
              /\ muted' = Mutes(Head(calls[k]), k)
            BY <2>2 DEF Switched
        <3>2. CASE Head(calls[k]).auto
            BY <1>1, <3>1, <3>2, FinishStep DEF Mutes, MutedStaysMuted
        <3>3. CASE ~Head(calls[k]).auto
            BY <1>1, <3>1, <3>3, FinishStep DEF Mutes, MuteInv, MutedStaysMuted, Kinds
        <3> QED BY <3>2, <3>3
    <2> QED BY <2>1, <2>2
<1> QED BY <1>1, <1>2, <1>3, FinishStep DEF MuteInv

LEMMA MuteStep == MuteInv /\ [Next]_vars => MuteInv'
<1> SUFFICES ASSUME MuteInv, [Next]_vars PROVE MuteInv'
    OBVIOUS
<1>1. CASE UNCHANGED deviceVars
    BY <1>1 DEF MuteInv, MutedStaysMuted, deviceVars
<1>2. CASE EnterRoom
    BY <1>2 DEF MuteInv, MutedStaysMuted, EnterRoom
<1>3. CASE Connected
    <2>1. applied' = TRUE /\ UNCHANGED <<dev, muted>>
        BY <1>3 DEF Connected
    <2>2. CASE applied
        BY <1>3, <2>1, <2>2 DEF Connected, Applies, MuteInv, MutedStaysMuted
    <2>3. CASE ~applied
        <3>1. auto' \in {"mic", "camera", "done"} /\ calls' = Asking(calls, auto')
            BY <1>3, <2>3, Due DEF Connected, Applies
        <3>2. /\ calls' \in [Kinds -> Seq(Call)]
              /\ \A d \in Kinds : OneAuto(calls'[d]) /\ (auto' # d => NoAuto(calls'[d]))
            BY <2>3, <3>1, Asked DEF MuteInv
        <3> QED BY <2>1, <2>3, <3>1, <3>2 DEF MuteInv, MutedStaysMuted
    <2> QED BY <2>2, <2>3 DEF MuteInv
<1>4. CASE Interrupted
    BY <1>4 DEF MuteInv, MutedStaysMuted, Interrupted, Reconnects
<1>5. CASE Disconnected
    BY <1>5 DEF MuteInv, MutedStaysMuted, Disconnected, Reconnects, NoAuto, OneAuto, Kinds
<1>6. ASSUME NEW k \in Kinds, Press(k) PROVE MuteInv'
    <2> DEFINE c == [on |-> k \notin dev, auto |-> FALSE]
    <2>1. c \in Call /\ ~c.auto
        BY DEF Call
    <2>2. calls' = [calls EXCEPT ![k] = Append(@, c)]
        BY <1>6 DEF Press
    <2> HIDE DEF c
    <2>3. /\ calls' \in [Kinds -> Seq(Call)]
          /\ \A d \in Kinds : OneAuto(calls'[d]) /\ (NoAuto(calls[d]) => NoAuto(calls'[d]))
        BY <2>1, <2>2, Appended DEF MuteInv
    <2> QED BY <1>6, <2>3 DEF Press, MuteInv, MutedStaysMuted
<1> QED
    BY <1>1, <1>2, <1>3, <1>4, <1>5, <1>6, SwitchStep DEF Next, vars, SetEffect, PickImage, RemoveImage,
       Chooses, Loaded, LoadFails, Swapped, SwapFails

(* appliedInitialRef: no reconnection runs applyInitialMedia a second time, *)
(* so what a button turned off stays off until a button turns it on.        *)
THEOREM MutedHolds == Spec => []MutedStaysMuted
<1>1. MuteInv => MutedStaysMuted
    BY DEF MuteInv
<1> QED BY <1>1, MuteInit, MuteStep, PTL DEF Spec

-----------------------------------------------------------------------------
(* The effect.  Of the runs of useCameraEffects only the newest is not      *)
(* cancelled, and it is the last in its queue; so when it has called the    *)
(* track, no older run is left that would call it again.                    *)
AllOver(s) == \A i \in 1 .. Len(s) : s[i].cancelled

Wanted == [effect |-> effect, image |-> image, cancelled |-> FALSE]

LastIs(s, run) ==
    /\ s # <<>> /\ s[Len(s)] = run
    /\ \A i \in 1 .. Len(s) - 1 : s[i].cancelled

(* The newest run is over.  Where it failed, the processors may never have   *)
(* been loaded, and older runs that stop a processor are still to come.      *)
Settled ==
    \/ attached = Look(effect, image) /\ swaps = <<>>
    \/ error /\ attached = "raw" /\ \A i \in 1 .. Len(swaps) : swaps[i].effect = "none"
    \/ effect = "virtual" /\ image = NoImage

Following ==
    \/ LastIs(loads, Wanted) /\ AllOver(swaps)
    \/ AllOver(loads) /\ LastIs(swaps, Wanted)
    \/ AllOver(loads) /\ AllOver(swaps) /\ Settled

EffectInv ==
    /\ loads \in Seq(Runs) /\ swaps \in Seq(Runs)
    /\ effect \in Effects /\ image \in Images \cup {NoImage}
    /\ ~fetched => \A i \in 1 .. Len(swaps) : swaps[i].effect = "none"
    /\ IF lk = "on" /\ track THEN Following ELSE AllOver(loads) /\ AllOver(swaps)

LEMMA NoRuns == <<>> \in Seq(Runs) /\ AllOver(<<>>)
    BY DEF AllOver

LEMMA SomeRun == ASSUME NEW s \in Seq(Runs) PROVE s # <<>> <=> Len(s) # 0
    OBVIOUS

LEMMA Cancelled ==
    ASSUME NEW s \in Seq(Runs)
    PROVE  /\ Cancel(s) \in Seq(Runs) /\ Len(Cancel(s)) = Len(s) /\ AllOver(Cancel(s))
           /\ \A i \in 1 .. Len(s) : /\ Cancel(s)[i].effect = s[i].effect
                                    /\ Cancel(s)[i].image = s[i].image
    <1>1. \A i \in 1 .. Len(s) : s[i] \in Runs
        OBVIOUS
    <1>2. \A r \in Runs : /\ [r EXCEPT !.cancelled = TRUE] \in Runs
                          /\ [r EXCEPT !.cancelled = TRUE].cancelled
                          /\ [r EXCEPT !.cancelled = TRUE].effect = r.effect
                          /\ [r EXCEPT !.cancelled = TRUE].image = r.image
        BY DEF Runs
    <1>3. /\ DOMAIN s = 1 .. Len(s) /\ Len(s) \in Nat
          /\ Cancel(s) = [i \in 1 .. Len(s) |-> [s[i] EXCEPT !.cancelled = TRUE]]
        BY DEF Cancel
    <1>4. Cancel(s) \in [1 .. Len(s) -> Runs]
        BY <1>1, <1>2, <1>3
    <1>5. Cancel(s) \in Seq(Runs) /\ Len(Cancel(s)) = Len(s)
        BY <1>3, <1>4
    <1>6. \A i \in 1 .. Len(s) : Cancel(s)[i] = [s[i] EXCEPT !.cancelled = TRUE]
        BY <1>3
    <1>7. \A i \in 1 .. Len(s) : /\ Cancel(s)[i].cancelled
                                 /\ Cancel(s)[i].effect = s[i].effect
                                 /\ Cancel(s)[i].image = s[i].image
        BY <1>1, <1>2, <1>6
    <1>. HIDE DEF Cancel
    <1>. QED  BY <1>5, <1>7 DEF AllOver

LEMMA Started ==
    ASSUME NEW s \in Seq(Runs), NEW run \in Runs
    PROVE  /\ Append(s, run) \in Seq(Runs) /\ Append(s, run) = s \o <<run>>
           /\ Len(Append(s, run)) = Len(s) + 1
           /\ \A i \in 1 .. Len(s) : Append(s, run)[i] = s[i]
           /\ Append(s, run)[Len(s) + 1] = run
           /\ AllOver(s) => LastIs(Append(s, run), run)
    <1>1. /\ Append(s, run) \in Seq(Runs) /\ Append(s, run) = s \o <<run>>
          /\ Len(Append(s, run)) = Len(s) + 1 /\ Len(s) \in Nat
          /\ \A i \in 1 .. Len(s) : Append(s, run)[i] = s[i]
          /\ Append(s, run)[Len(s) + 1] = run
          /\ Append(s, run) # <<>>
        OBVIOUS
    <1>. QED  BY <1>1 DEF AllOver, LastIs

LEMMA NextRun ==
    ASSUME NEW s \in Seq(Runs), s # <<>>
    PROVE  /\ Head(s) \in Runs /\ Tail(s) \in Seq(Runs) /\ Head(s) = s[1] /\ 1 \in 1 .. Len(s)
           /\ \A i \in 1 .. Len(Tail(s)) : i + 1 \in 1 .. Len(s) /\ Tail(s)[i] = s[i + 1]
           /\ AllOver(s) => Head(s).cancelled /\ AllOver(Tail(s))
           /\ \A run : LastIs(s, run) =>
                 \/ Tail(s) = <<>> /\ Head(s) = run
                 \/ Head(s).cancelled /\ LastIs(Tail(s), run)
    <1>1. /\ Head(s) \in Runs /\ Tail(s) \in Seq(Runs) /\ Head(s) = s[1]
          /\ Len(s) \in Nat \ {0} /\ Len(Tail(s)) = Len(s) - 1 /\ 1 \in 1 .. Len(s)
          /\ \A i \in 1 .. Len(Tail(s)) : i + 1 \in 1 .. Len(s) /\ Tail(s)[i] = s[i + 1]
        OBVIOUS
    <1>2. AllOver(s) => Head(s).cancelled /\ AllOver(Tail(s))
        BY <1>1 DEF AllOver
    <1>3. ASSUME NEW run, LastIs(s, run)
          PROVE  \/ Tail(s) = <<>> /\ Head(s) = run
                 \/ Head(s).cancelled /\ LastIs(Tail(s), run)
        <2>1. CASE Len(s) = 1
            <3>1. Tail(s) = <<>>
                BY <1>1, <2>1
            <3>. QED  BY <1>1, <1>3, <2>1, <3>1 DEF LastIs
        <2>2. CASE Len(s) # 1
            <3>1. Tail(s) # <<>> /\ 1 \in 1 .. Len(s) - 1 /\ Len(Tail(s)) \in 1 .. Len(Tail(s))
                <4>1. Len(Tail(s)) # 0
                    BY <1>1, <2>2
                <4>2. Tail(s) # <<>>
                    BY <1>1, <4>1, SomeRun
                <4>. QED  BY <1>1, <2>2, <4>1, <4>2
            <3>2. Tail(s)[Len(Tail(s))] = s[Len(s)]
                BY <1>1, <3>1
            <3>3. \A i \in 1 .. Len(Tail(s)) - 1 : Tail(s)[i] = s[i + 1] /\ i + 1 \in 1 .. Len(s) - 1
                BY <1>1
            <3>. QED  BY <1>1, <1>3, <3>1, <3>2, <3>3 DEF LastIs
        <2>. QED  BY <2>1, <2>2
    <1>. QED  BY <1>1, <1>2, <1>3

-----------------------------------------------------------------------------
(* What a run of useCameraEffects leaves: the older runs cancelled, and a    *)
(* new one for what the menu shows if the camera is connected.              *)
Renewed ==
    /\ effect' \in Effects /\ image' \in Images \cup {NoImage} /\ fetched' = fetched
    /\ lk' = "on" /\ track' =>
          IF effect' # "none"
          THEN loads' = Cancel(loads) \o <<Wanted'>> /\ swaps' = Cancel(swaps) \o <<>>
          ELSE loads' = Cancel(loads) \o <<>> /\ swaps' = Cancel(swaps) \o <<Wanted'>>
    /\ ~(lk' = "on" /\ track') =>
          loads' = Cancel(loads) \o <<>> /\ swaps' = Cancel(swaps) \o <<>>

LEMMA NoneAdded == ASSUME NEW s \in Seq(Runs) PROVE s \o <<>> = s
    OBVIOUS

LEMMA RenewedStep ==
    ASSUME EffectInv, Renewed
    PROVE  EffectInv'
    <1>1. PICK run \in Runs : run = Wanted' /\ run.effect = effect'
        <2>1. Wanted' = [effect |-> effect', image |-> image', cancelled |-> FALSE]
            BY DEF Wanted
        <2>2. Wanted' \in Runs /\ Wanted'.effect = effect'
            BY <2>1 DEF Renewed, Runs
        <2>. QED  BY <2>2
    <1>2. PICK l \in Seq(Runs) : l = Cancel(loads) /\ AllOver(l)
        BY Cancelled DEF EffectInv
    <1>3. PICK s \in Seq(Runs) :
              /\ s = Cancel(swaps) /\ AllOver(s) /\ Len(s) = Len(swaps) /\ Len(s) \in Nat
              /\ ~fetched => \A i \in 1 .. Len(s) : s[i].effect = "none"
        BY Cancelled DEF EffectInv
    <1>4. CASE lk' = "on" /\ track' /\ effect' # "none"
        <2>1. loads' = Append(l, run) /\ swaps' = s
            BY <1>1, <1>2, <1>3, <1>4, Started, NoneAdded DEF Renewed
        <2>2. loads' \in Seq(Runs) /\ LastIs(loads', run)
            BY <1>2, <2>1, Started
        <2>. QED  BY <1>1, <1>3, <1>4, <2>1, <2>2 DEF EffectInv, Following, Renewed
    <1>5. CASE lk' = "on" /\ track' /\ effect' = "none"
        <2>1. loads' = l /\ swaps' = Append(s, run)
            BY <1>1, <1>2, <1>3, <1>5, Started, NoneAdded DEF Renewed
        <2>2. /\ swaps' \in Seq(Runs) /\ LastIs(swaps', run) /\ Len(swaps') = Len(s) + 1
              /\ \A i \in 1 .. Len(s) : swaps'[i] = s[i]
              /\ swaps'[Len(s) + 1] = run
            <3>1. /\ Append(s, run) \in Seq(Runs) /\ Len(Append(s, run)) = Len(s) + 1
                  /\ \A i \in 1 .. Len(s) : Append(s, run)[i] = s[i]
                  /\ Append(s, run)[Len(s) + 1] = run
                  /\ LastIs(Append(s, run), run)
                BY <1>3, Started
            <3>. QED  BY ONLY <2>1, <3>1
        <2>3. ~fetched' => \A i \in 1 .. Len(swaps') : swaps'[i].effect = "none"
            BY <1>1, <1>3, <1>5, <2>2 DEF Renewed
        <2>. QED  BY <1>1, <1>2, <1>5, <2>1, <2>2, <2>3 DEF EffectInv, Following, Renewed
    <1>6. CASE ~(lk' = "on" /\ track')
        <2>1. loads' = l /\ swaps' = s
            BY <1>2, <1>3, <1>6, NoneAdded DEF Renewed
        <2>. QED  BY <1>2, <1>3, <1>6, <2>1 DEF EffectInv, Renewed
    <1>. QED  BY <1>4, <1>5, <1>6

(* Where the effect does not run again.                                     *)
LEMMA EffectKept ==
    ASSUME EffectInv,
           UNCHANGED <<lk, track, effect, image, fetched, error, loads, swaps, attached>>
    PROVE  EffectInv'
    BY DEF EffectInv, Following, Settled, Wanted, AllOver, LastIs

LEMMA ReconnectsStep ==
    ASSUME EffectInv, NEW state, Reconnects(state)
    PROVE  EffectInv'
    <1>1. Renewed
        BY DEF Reconnects, Rerun, Renewed, Wanted, EffectInv
    <1>. QED  BY <1>1, RenewedStep

LEMMA ChoosesStep ==
    ASSUME EffectInv, NEW e \in Effects, NEW im \in Images \cup {NoImage}, Chooses(e, im)
    PROVE  EffectInv'
    <1>1. Renewed
        BY DEF Chooses, Rerun, Renewed, Wanted, deviceVars
    <1>. QED  BY <1>1, RenewedStep

LEMMA SwitchedStep ==
    ASSUME EffectInv, NEW k \in Kinds, Switched(k)
    PROVE  EffectInv'
    <1>1. CASE UNCHANGED <<track, loads, swaps, applying, error>>
        BY <1>1, EffectKept DEF Switched
    <1>2. CASE track' = TRUE /\ Rerun(effect, image, lk = "on", TRUE)
        <2>1. Renewed
            BY <1>2 DEF Switched, Rerun, Renewed, Wanted, EffectInv
        <2>. QED  BY <2>1, RenewedStep
    <1>. QED  BY <1>1, <1>2 DEF Switched

(* The processors have come.                                                *)
LEMMA LoadedStep == ASSUME EffectInv, Loaded PROVE EffectInv'
    <1>. DEFINE run == Head(loads)
    <1>1. /\ loads \in Seq(Runs) /\ loads # <<>> /\ loads' = Tail(loads) /\ fetched'
          /\ UNCHANGED <<lk, track, effect, image, error, attached>>
          /\ IF run.cancelled \/ (run.effect = "virtual" /\ run.image = NoImage)
             THEN swaps' = swaps ELSE swaps' = Append(swaps, run)
        BY DEF Loaded, EffectInv, Stale, deviceVars
    <1>2. /\ run \in Runs /\ Tail(loads) \in Seq(Runs)
          /\ AllOver(loads) => run.cancelled /\ AllOver(Tail(loads))
          /\ \A r : LastIs(loads, r) =>
                \/ Tail(loads) = <<>> /\ run = r
                \/ run.cancelled /\ LastIs(Tail(loads), r)
        BY <1>1, NextRun
    <1>. HIDE DEF run
    <1>3. swaps \in Seq(Runs) /\ Wanted' = Wanted
        BY <1>1 DEF EffectInv, Wanted
    <1>4. effect \in Effects /\ image \in Images \cup {NoImage}
        BY DEF EffectInv
    <1>5. CASE run.cancelled
        <2>1. swaps' = swaps
            BY <1>1, <1>5
        <2>2. ~Wanted.cancelled
            BY DEF Wanted
        <2>3. LastIs(loads, Wanted) => LastIs(Tail(loads), Wanted)
            BY <1>2, <1>5, <2>2
        <2>4. Settled' <=> Settled
            BY <1>1, <2>1 DEF Settled
        <2>. QED  BY <1>1, <1>2, <1>3, <1>4, <2>1, <2>3, <2>4 DEF EffectInv, Following
    <1>6. CASE ~run.cancelled
        <2>1. lk = "on" /\ track /\ LastIs(loads, Wanted) /\ AllOver(swaps)
            BY <1>2, <1>6 DEF EffectInv, Following
        <2>2. run = Wanted /\ loads' = <<>> /\ AllOver(loads')
            BY <1>1, <1>2, <1>6, <2>1, NoRuns
        <2>3. run.effect = effect /\ run.image = image
            BY <2>2 DEF Wanted
        <2>4. CASE effect = "virtual" /\ image = NoImage
            BY <1>1, <1>2, <1>3, <1>4, <1>6, <2>1, <2>2, <2>3, <2>4 DEF EffectInv, Following, Settled
        <2>5. CASE ~(effect = "virtual" /\ image = NoImage)
            <3>1. swaps' = Append(swaps, run)
                BY <1>1, <1>6, <2>3, <2>5
            <3>2. swaps' \in Seq(Runs) /\ LastIs(swaps', run)
                BY <1>2, <1>3, <2>1, <3>1, Started
            <3>. QED  BY <1>1, <1>2, <1>3, <1>4, <2>1, <2>2, <3>2 DEF EffectInv, Following
        <2>. QED  BY <2>4, <2>5
    <1>. QED  BY <1>5, <1>6

LEMMA LoadFailsStep == ASSUME EffectInv, LoadFails PROVE EffectInv'
    <1>. DEFINE run == Head(loads)
    <1>1. /\ loads \in Seq(Runs) /\ loads # <<>> /\ loads' = Tail(loads) /\ ~fetched
          /\ UNCHANGED <<lk, track, effect, image, fetched, swaps>>
          /\ error' = (error \/ ~run.cancelled)
          /\ attached' = IF run.cancelled THEN attached ELSE "raw"
        BY DEF LoadFails, Fails, EffectInv, deviceVars
    <1>2. /\ run \in Runs /\ Tail(loads) \in Seq(Runs)
          /\ AllOver(loads) => run.cancelled /\ AllOver(Tail(loads))
          /\ \A r : LastIs(loads, r) =>
                \/ Tail(loads) = <<>> /\ run = r
                \/ run.cancelled /\ LastIs(Tail(loads), r)
        BY <1>1, NextRun
    <1>. HIDE DEF run
    <1>3. swaps \in Seq(Runs) /\ Wanted' = Wanted /\ effect \in Effects
          /\ image \in Images \cup {NoImage}
          /\ \A i \in 1 .. Len(swaps) : swaps[i].effect = "none"
        BY <1>1 DEF EffectInv, Wanted
    <1>4. CASE run.cancelled
        <2>1. ~Wanted.cancelled
            BY DEF Wanted
        <2>2. LastIs(loads, Wanted) => LastIs(Tail(loads), Wanted)
            BY <1>2, <1>4, <2>1
        <2>3. Settled => Settled'
            BY <1>1, <1>4 DEF Settled
        <2>. QED  BY <1>1, <1>2, <1>3, <2>2, <2>3 DEF EffectInv, Following
    <1>5. CASE ~run.cancelled
        <2>1. lk = "on" /\ track /\ LastIs(loads, Wanted) /\ AllOver(swaps)
            BY <1>2, <1>5 DEF EffectInv, Following
        <2>2. loads' = <<>> /\ AllOver(loads')
            BY <1>1, <1>2, <1>5, <2>1, NoRuns
        <2>3. Settled'
            BY <1>1, <1>3, <1>5 DEF Settled
        <2>. QED  BY <1>1, <1>2, <1>3, <2>1, <2>2, <2>3 DEF EffectInv, Following
    <1>. QED  BY <1>4, <1>5

(* The track has answered, or failed.                                       *)
LEMMA SwapStep == ASSUME EffectInv, Swapped \/ SwapFails PROVE EffectInv'
    <1>. DEFINE run == Head(swaps)
    <1>1. /\ swaps \in Seq(Runs) /\ swaps # <<>> /\ swaps' = Tail(swaps)
          /\ UNCHANGED <<lk, track, effect, image, fetched, loads>>
          /\ \/ attached' = Look(run.effect, run.image) /\ error' = error
             \/ run.cancelled /\ attached' = attached /\ (error' <=> error)
             \/ ~run.cancelled /\ attached' = "raw" /\ error'
        <2>1. CASE Swapped
            BY <2>1 DEF Swapped, EffectInv, deviceVars
        <2>2. CASE SwapFails
            <3>1. /\ swaps # <<>> /\ swaps' = Tail(swaps)
                  /\ error' = (error \/ ~run.cancelled)
                  /\ attached' = IF run.cancelled THEN attached ELSE "raw"
                BY <2>2 DEF SwapFails, Fails
            <3>2. swaps \in Seq(Runs) /\ UNCHANGED <<lk, track, effect, image, fetched, loads>>
                BY <2>2 DEF SwapFails, EffectInv, deviceVars
            <3>3. CASE run.cancelled
                <4>1. attached' = attached /\ (error' <=> error)
                    BY <3>1, <3>3
                <4>. QED  BY <3>1, <3>2, <3>3, <4>1
            <3>4. CASE ~run.cancelled
                <4>1. attached' = "raw" /\ error'
                    BY <3>1, <3>4
                <4>. QED  BY <3>1, <3>2, <3>4, <4>1
            <3>. QED  BY <3>3, <3>4
        <2>. QED  BY <2>1, <2>2
    <1>2. /\ run \in Runs /\ Tail(swaps) \in Seq(Runs) /\ run = swaps[1] /\ 1 \in 1 .. Len(swaps)
          /\ \A i \in 1 .. Len(Tail(swaps)) : i + 1 \in 1 .. Len(swaps) /\ Tail(swaps)[i] = swaps[i + 1]
          /\ AllOver(swaps) => run.cancelled /\ AllOver(Tail(swaps))
          /\ \A r : LastIs(swaps, r) =>
                \/ Tail(swaps) = <<>> /\ run = r
                \/ run.cancelled /\ LastIs(Tail(swaps), r)
        BY <1>1, NextRun
    <1>. HIDE DEF run
    <1>3. loads \in Seq(Runs) /\ Wanted' = Wanted /\ effect \in Effects
          /\ image \in Images \cup {NoImage}
        BY <1>1 DEF EffectInv, Wanted
    <1>4. ~fetched' => \A i \in 1 .. Len(swaps') : swaps'[i].effect = "none"
        BY <1>1, <1>2 DEF EffectInv
    <1>5. CASE run.cancelled
        <2>1. ~Wanted.cancelled
            BY DEF Wanted
        <2>2. LastIs(swaps, Wanted) => LastIs(Tail(swaps), Wanted)
            BY <1>2, <1>5, <2>1
        <2>3. Settled => Settled'
            <3>1. CASE attached = Look(effect, image) /\ swaps = <<>>
                BY <1>1, <3>1
            <3>2. CASE error /\ attached = "raw" /\ \A i \in 1 .. Len(swaps) : swaps[i].effect = "none"
                <4>1. run.effect = "none"
                    BY <1>2, <3>2
                <4>2. attached' = "raw" /\ error'
                    BY <1>1, <1>5, <3>2, <4>1 DEF Look
                <4>3. \A i \in 1 .. Len(swaps') : swaps'[i].effect = "none"
                    BY <1>1, <1>2, <3>2
                <4>. QED  BY <4>2, <4>3 DEF Settled
            <3>3. CASE effect = "virtual" /\ image = NoImage
                BY <1>1, <3>3 DEF Settled
            <3>. QED  BY <3>1, <3>2, <3>3 DEF Settled
        <2>4. AllOver(swaps) => AllOver(swaps')
            BY <1>1, <1>2
        <2>. QED  BY <1>1, <1>2, <1>3, <1>4, <2>2, <2>3, <2>4 DEF EffectInv, Following
    <1>6. CASE ~run.cancelled
        <2>1. lk = "on" /\ track /\ LastIs(swaps, Wanted) /\ AllOver(loads)
            BY <1>2, <1>6 DEF EffectInv, Following
        <2>2. swaps' = <<>> /\ AllOver(swaps') /\ run = Wanted
            BY <1>1, <1>2, <1>6, <2>1, NoRuns
        <2>3. Settled'
            <3>1. CASE attached' = Look(run.effect, run.image) /\ error' = error
                BY <1>1, <2>2, <3>1 DEF Settled, Wanted
            <3>2. CASE attached' = "raw" /\ error'
                <4>1. \A i \in 1 .. Len(swaps') : swaps'[i].effect = "none"
                    BY <2>2
                <4>. QED  BY <3>2, <4>1 DEF Settled
            <3>. QED  BY <1>1, <1>6, <3>1, <3>2
        <2>. QED  BY <1>1, <1>2, <1>3, <1>4, <2>1, <2>2, <2>3 DEF EffectInv, Following
    <1>. QED  BY <1>5, <1>6

LEMMA EffectInit == Init => EffectInv
    <1>. SUFFICES ASSUME Init PROVE EffectInv
        OBVIOUS
    <1>1. loads = <<>> /\ swaps = <<>> /\ ~track
        BY DEF Init
    <1>2. effect \in Effects /\ image \in Images \cup {NoImage}
        BY DEF Init, Effects
    <1>3. \A i \in 1 .. Len(swaps) : swaps[i].effect = "none"
        BY <1>1
    <1>. QED  BY <1>1, <1>2, <1>3, NoRuns DEF EffectInv

(* LiveKit is of the room, and the page in front of it is gone by then.     *)
Outside == onPage => lk = "none"

LEMMA OutsideStep == Outside /\ [Next]_vars => Outside'
    <1>. SUFFICES ASSUME Outside, [Next]_vars PROVE Outside'
        OBVIOUS
    <1>1. CASE PreNext /\ UNCHANGED <<deviceVars, effectVars, track, clicks>>
        <2>1. onPage' = onPage
            BY <1>1 DEF PreNext, Toggle, Granted, Denied, Answered, Lookup, JoinClick, JoinFails, Joined
        <2>. QED  BY <1>1, <2>1 DEF Outside, deviceVars
    <1>2. CASE EnterRoom
        BY <1>2 DEF EnterRoom, LeavePrejoin, Outside
    <1>3. CASE Connected \/ Interrupted \/ Disconnected
        BY <1>3 DEF Connected, Interrupted, Disconnected, preVars, Outside
    <1>4. ASSUME NEW k \in Kinds, Press(k) \/ Switched(k) \/ SwitchFails(k) PROVE Outside'
        BY <1>4 DEF Press, Switched, SwitchFails, preVars, Outside
    <1>5. ASSUME NEW e, NEW im, Chooses(e, im) PROVE Outside'
        BY <1>5 DEF Chooses, preVars, deviceVars, Outside
    <1>6. CASE Loaded \/ LoadFails \/ Swapped \/ SwapFails \/ UNCHANGED vars
        BY <1>6 DEF Loaded, LoadFails, Swapped, SwapFails, vars, preVars, deviceVars, Outside
    <1>. QED
        BY <1>1, <1>2, <1>3, <1>4, <1>5, <1>6 DEF Next, SetEffect, PickImage, RemoveImage

LEMMA EffectStep == EffectInv /\ Outside /\ [Next]_vars => EffectInv'
    <1>. SUFFICES ASSUME EffectInv, Outside, [Next]_vars PROVE EffectInv'
        OBVIOUS
    <1>1. CASE PreNext /\ UNCHANGED <<deviceVars, effectVars, track, clicks>>
        BY <1>1, EffectKept DEF deviceVars, effectVars
    <1>2. CASE EnterRoom
        <2>1. lk = "none" /\ lk' = "off"
            BY <1>2 DEF EnterRoom, LeavePrejoin, Outside
        <2>2. UNCHANGED <<loads, swaps, effect, image, fetched>>
            BY <1>2 DEF EnterRoom, effectVars
        <2>. QED  BY <2>1, <2>2 DEF EffectInv, AllOver
    <1>3. CASE Connected \/ Interrupted \/ Disconnected
        BY <1>3, ReconnectsStep DEF Connected, Interrupted, Disconnected
    <1>4. ASSUME NEW k \in Kinds, Press(k) \/ SwitchFails(k) PROVE EffectInv'
        BY <1>4, EffectKept DEF Press, SwitchFails, effectVars
    <1>5. ASSUME NEW k \in Kinds, Switched(k) PROVE EffectInv'
        BY <1>5, SwitchedStep
    <1>6. ASSUME NEW e \in Effects, SetEffect(e) PROVE EffectInv'
        BY <1>6, ChoosesStep DEF SetEffect, EffectInv
    <1>7. ASSUME NEW im \in Images, PickImage(im) PROVE EffectInv'
        BY <1>7, ChoosesStep DEF PickImage, Effects
    <1>8. CASE RemoveImage
        BY <1>8, ChoosesStep DEF RemoveImage, Effects, EffectInv
    <1>9. CASE Loaded \/ LoadFails \/ Swapped \/ SwapFails
        BY <1>9, LoadedStep, LoadFailsStep, SwapStep
    <1>10. CASE UNCHANGED vars
        BY <1>10, EffectKept DEF vars, deviceVars, effectVars
    <1>. QED
        BY <1>1, <1>2, <1>3, <1>4, <1>5, <1>6, <1>7, <1>8, <1>9, <1>10 DEF Next

(* The queue of useCameraEffects and its cancelled flag: however fast the    *)
(* menu is clicked and however the connection comes and goes, the camera    *)
(* ends up with what the menu shows, or raw with an error.                  *)
THEOREM EffectShown == Spec => []EffectFollows
    <1>1. EffectInv => EffectFollows
        <2>. SUFFICES ASSUME EffectInv, lk = "on", track, loads = <<>>, swaps = <<>>
                      PROVE  \/ attached = Look(effect, image)
                             \/ error /\ attached = "raw"
                             \/ effect = "virtual" /\ image = NoImage
            BY DEF EffectFollows
        <2>. QED  BY DEF EffectInv, Following, LastIs, Settled
    <1>2. Init => Outside
        BY DEF Init, Outside
    <1>. QED  BY <1>1, <1>2, EffectInit, EffectStep, OutsideStep, PTL DEF Spec

-----------------------------------------------------------------------------
(* A run that calls the track has something to put on it: one that wants a   *)
(* picture and has none ends when the processors have come.                 *)
Looks == {"raw", "blur"} \cup Images
Drawable(s) == \A i \in 1 .. Len(s) : Look(s[i].effect, s[i].image) \in Looks

LooksInv == attached \in Looks /\ Drawable(swaps)

LEMMA OneLess == ASSUME NEW s \in Seq(Runs), Drawable(s), s # <<>>
                 PROVE  Drawable(Tail(s)) /\ Look(Head(s).effect, Head(s).image) \in Looks
    BY NextRun DEF Drawable

LEMMA NextSwaps ==
    ASSUME EffectInv, Drawable(swaps),
           NEW run \in Runs, Look(run.effect, run.image) \in Looks,
           \/ swaps' \in {swaps, Append(swaps, run)}
           \/ swaps' = Cancel(swaps) \o <<>>
           \/ swaps' = Cancel(swaps) \o <<run>>
    PROVE  Drawable(swaps)'
    <1>. DEFINE s == Cancel(swaps)
    <1>1. /\ swaps \in Seq(Runs) /\ s \in Seq(Runs) /\ Len(s) = Len(swaps)
          /\ Len(s) \in Nat /\ Drawable(s)
        BY Cancelled DEF EffectInv, Drawable
    <1>. HIDE DEF s
    <1>2. \A t \in Seq(Runs) : Drawable(t) => Drawable(Append(t, run))
        <2>. TAKE t \in Seq(Runs)
        <2>1. /\ Len(Append(t, run)) = Len(t) + 1 /\ Append(t, run)[Len(t) + 1] = run
              /\ \A i \in 1 .. Len(t) : Append(t, run)[i] = t[i]
            BY Started
        <2>2. Len(t) \in Nat
            OBVIOUS
        <2>. QED  BY <2>1, <2>2 DEF Drawable
    <1>3. s \o <<>> = s /\ s \o <<run>> = Append(s, run)
        BY <1>1, NoneAdded, Started
    <1>4. Drawable(Append(swaps, run)) /\ Drawable(Append(s, run))
        BY <1>1, <1>2
    <1>. QED  BY <1>1, <1>3, <1>4 DEF s, Drawable

LEMMA LooksStep ==
    ASSUME EffectInv, LooksInv, [Next]_vars
    PROVE  LooksInv'
    <1>. USE DEF LooksInv
    <1>1. CASE UNCHANGED <<attached, swaps>>
        BY <1>1 DEF Drawable
    <1>2. ASSUME NEW e \in Effects, NEW im \in Images \cup {NoImage}, NEW on, NEW has,
                 Rerun(e, im, on, has), attached' = attached
          PROVE  LooksInv'
        <2>1. PICK run \in Runs : run = [effect |-> "none", image |-> im, cancelled |-> FALSE]
            BY DEF Runs, Effects
        <2>2. Look(run.effect, run.image) \in Looks
            BY <2>1 DEF Look, Looks
        <2>3. swaps' = Cancel(swaps) \o <<>> \/ swaps' = Cancel(swaps) \o <<run>>
            BY <1>2, <2>1 DEF Rerun
        <2>. QED  BY <1>2, <2>2, <2>3, NextSwaps
    <1>3. CASE Connected \/ Interrupted \/ Disconnected
        BY <1>2, <1>3 DEF Connected, Interrupted, Disconnected, Reconnects, EffectInv
    <1>4. ASSUME NEW k \in Kinds, Switched(k) PROVE LooksInv'
        BY <1>1, <1>2, <1>4 DEF Switched, EffectInv
    <1>5. ASSUME NEW e \in Effects, NEW im \in Images \cup {NoImage}, Chooses(e, im)
          PROVE  LooksInv'
        BY <1>2, <1>5 DEF Chooses
    <1>6. CASE \/ \E e \in Effects : SetEffect(e)
               \/ \E im \in Images : PickImage(im)
               \/ RemoveImage
        BY <1>5, <1>6 DEF SetEffect, PickImage, RemoveImage, EffectInv, Effects
    <1>7. CASE Loaded
        <2>. DEFINE run == Head(loads)
        <2>1. run \in Runs /\ attached' = attached
            BY <1>7, NextRun DEF Loaded, EffectInv
        <2>2. CASE swaps' = swaps
            BY <2>1, <2>2, <1>1
        <2>3. CASE ~(run.effect = "virtual" /\ run.image = NoImage) /\ swaps' = Append(swaps, run)
            <3>. HIDE DEF run
            <3>1. Look(run.effect, run.image) \in Looks
                BY <2>1, <2>3 DEF Look, Looks, Runs, Effects
            <3>. QED  BY <2>1, <2>3, <3>1, NextSwaps
        <2>. QED  BY <1>7, <2>2, <2>3 DEF Loaded
    <1>8. CASE LoadFails
        BY <1>8 DEF LoadFails, Fails, Drawable, Looks
    <1>9. CASE Swapped \/ SwapFails
        <2>1. swaps # <<>> /\ swaps' = Tail(swaps) /\ swaps \in Seq(Runs)
              /\ attached' \in {attached, "raw", Look(Head(swaps).effect, Head(swaps).image)}
            BY <1>9 DEF Swapped, SwapFails, Fails, EffectInv
        <2>2. Drawable(Tail(swaps)) /\ attached' \in Looks
            BY <2>1, OneLess DEF Looks
        <2>. QED  BY <2>1, <2>2 DEF Drawable
    <1>. QED
        BY <1>1, <1>3, <1>4, <1>6, <1>7, <1>8, <1>9 DEF Next, vars, effectVars, EnterRoom, Press,
           SwitchFails

(* The page in front of the room.                                           *)
LEMMA PreTyped ==
    ASSUME PreviewInv, PreTypeOK, [Next]_vars
    PROVE  PreTypeOK'
    <1>. USE DEF PreTypeOK
    <1>1. CASE UNCHANGED preVars
        BY <1>1 DEF preVars
    <1>2. ASSUME NEW n \in Calls \cup {0}, Replace(n)
          PROVE  stream' \in Calls \cup {0} /\ live' \subseteq Calls
        BY <1>2 DEF Replace, Released
    <1>3. ASSUME NEW k \in Kinds, Toggle(k) PROVE PreTypeOK'
        <2>1. /\ turns' \in 0 .. MaxToggles /\ turns + 2 \in Calls
            BY <1>3, TogglesAssumption DEF Toggle, Calls
        <2>2. /\ want' \subseteq Kinds /\ stored' \in [Kinds -> {"unset", "on", "off"}]
              /\ UNCHANGED <<lookup, authed, joinWith, joining, going, onPage>>
            BY <1>3 DEF Toggle
        <2>3. wants' \in [Calls -> SUBSET Kinds]
            BY <1>3, <2>1, <2>2 DEF Toggle
        <2>4. /\ asked' \subseteq Calls /\ stream' \in Calls \cup {0} /\ live' \subseteq Calls
            BY <1>2, <1>3, <2>1 DEF Toggle
        <2>5. ordered' \in BOOLEAN
            BY <1>3 DEF Toggle
        <2>. QED  BY <2>1, <2>2, <2>3, <2>4, <2>5
    <1>4. ASSUME NEW n \in Calls, Granted(n) \/ Denied(n) PROVE PreTypeOK'
        <2>1. Answered(n)
            BY <1>4 DEF Granted, Denied
        <2>2. ordered' \in BOOLEAN
            BY <2>1, Zenon DEF Answered
        <2>3. stream' \in Calls \cup {0} /\ live' \subseteq Calls
            BY <1>2, <1>4 DEF Granted, Denied
        <2>. QED  BY <2>1, <2>2, <2>3 DEF Answered
    <1>5. CASE Lookup \/ JoinClick \/ JoinFails
        BY <1>5 DEF Lookup, JoinClick, JoinFails
    <1>6. CASE Joined
        BY <1>2, <1>6 DEF Joined
    <1>7. CASE EnterRoom
        <2>1. /\ onPage' = FALSE /\ live' = live \ {stream} /\ stream' = 0 /\ lookup' = "asked"
              /\ authed' = FALSE /\ joining' = FALSE /\ joinWith' = {} /\ turns' = 0
              /\ ordered' = TRUE /\ UNCHANGED <<stored, want, asked, going>>
              /\ wants' = [n \in Calls |-> IF n \in asked \cup live' THEN wants[n] ELSE {}]
            BY <1>7 DEF EnterRoom, LeavePrejoin
        <2>2. wants' \in [Calls -> SUBSET Kinds]
            BY <2>1
        <2>3. turns' \in 0 .. MaxToggles /\ live' \subseteq Calls
            BY <2>1, TogglesAssumption
        <2>. QED  BY <2>1, <2>2, <2>3
    <1>. QED
        BY <1>1, <1>3, <1>4, <1>5, <1>6, <1>7 DEF Next, vars, PreNext, Connected, Interrupted,
           Disconnected, Press, Switched, SwitchFails, SetEffect, PickImage, RemoveImage, Chooses,
           Loaded, LoadFails, Swapped, SwapFails

(* What the two invariants above do not say of the room.                    *)
RoomOK ==
    /\ intent \subseteq Kinds /\ dev \subseteq Kinds /\ muted \subseteq Kinds
    /\ lk \in {"none", "off", "on", "flapping", "gone"}
    /\ clicks \in 0 .. MaxClicks /\ flaps \in 0 .. MaxFlaps

LEMMA RoomStep == ASSUME RoomOK, [Next]_vars PROVE RoomOK'
    <1>. USE RoomAssumption DEF RoomOK
    <1>1. CASE EnterRoom
        BY <1>1 DEF EnterRoom
    <1>2. CASE Connected \/ Interrupted \/ Disconnected
        BY <1>2 DEF Connected, Interrupted, Disconnected, Reconnects
    <1>3. ASSUME NEW k \in Kinds, Press(k) PROVE RoomOK'
        BY <1>3 DEF Press
    <1>6. ASSUME NEW k \in Kinds, Switched(k) PROVE RoomOK'
        <2>1. dev' \subseteq dev \cup {k} /\ muted' \subseteq muted \cup {k}
            BY <1>6 DEF Switched, Mutes
        <2>2. UNCHANGED <<intent, lk, flaps, clicks>>
            BY <1>6 DEF Switched
        <2>. QED  BY <2>1, <2>2
    <1>7. ASSUME NEW k \in Kinds, SwitchFails(k) PROVE RoomOK'
        BY <1>7 DEF SwitchFails
    <1>4. ASSUME NEW e, NEW im, Chooses(e, im) PROVE RoomOK'
        BY <1>4 DEF Chooses, deviceVars
    <1>5. CASE UNCHANGED <<deviceVars, clicks>>
        BY <1>5 DEF deviceVars
    <1>. QED
        BY <1>1, <1>2, <1>3, <1>4, <1>5, <1>6, <1>7 DEF Next, vars, SetEffect, PickImage,
           RemoveImage, Loaded, LoadFails, Swapped, SwapFails

Switches == {track, unsupported, fetched, applying, error}

LEMMA FlagsStep == ASSUME Switches \subseteq BOOLEAN, [Next]_vars
                   PROVE  Switches' \subseteq BOOLEAN
    <1>1. /\ track \in BOOLEAN /\ unsupported \in BOOLEAN /\ fetched \in BOOLEAN
          /\ applying \in BOOLEAN /\ error \in BOOLEAN
        BY DEF Switches
    <1>2. track' \in {track, TRUE} /\ unsupported' \in {unsupported, TRUE}
          /\ fetched' \in {fetched, TRUE}
        BY DEF Next, vars, effectVars, EnterRoom, Connected, Interrupted, Disconnected, Reconnects,
           Press, Switched, SwitchFails, SetEffect, PickImage, RemoveImage, Chooses, Loaded,
           LoadFails, Swapped, SwapFails
    <1>3. /\ \/ applying' = applying
             \/ \E starts : applying' = (starts \/ applying)
             \/ \E run : applying' = (run.cancelled /\ applying)
          /\ \/ error' = error
             \/ \E starts : error' = (~starts /\ error)
             \/ \E run : error' = (error \/ ~run.cancelled)
        BY DEF Next, vars, effectVars, EnterRoom, Connected, Interrupted, Disconnected, Reconnects,
           Press, Switched, SwitchFails, SetEffect, PickImage, RemoveImage, Chooses, Loaded,
           LoadFails, Swapped, SwapFails, Rerun, Done, Fails
    <1>4. applying' \in BOOLEAN /\ error' \in BOOLEAN
        BY <1>1, <1>3, Zenon
    <1>. QED  BY <1>1, <1>2, <1>4 DEF Switches

(* Whatever is clicked while processors load and the connection comes and   *)
(* goes, every variable of the page keeps its shape, and the camera's track *)
(* is never given the effect of a picture that is not there.                *)
THEOREM MediaTyped == Spec => []TypeOK
    <1>. DEFINE I == /\ PreviewInv /\ MuteInv /\ EffectInv /\ Outside
                     /\ PreTypeOK /\ LooksInv /\ RoomOK /\ Switches \subseteq BOOLEAN
    <1>1. Init => I
        <2>. SUFFICES ASSUME Init PROVE I
            OBVIOUS
        <2>1. PreTypeOK
            <3>1. 1 \in Calls /\ turns \in 0 .. MaxToggles
                BY TogglesAssumption DEF Init, PreInit, Calls
            <3>. QED  BY <3>1 DEF Init, PreInit, PreTypeOK
        <2>2. LooksInv
            BY DEF Init, LooksInv, Looks, Drawable
        <2>3. RoomOK
            BY RoomAssumption DEF Init, RoomOK
        <2>4. Switches \subseteq BOOLEAN
            BY DEF Init, Switches
        <2>5. Outside
            BY DEF Init, Outside
        <2>. QED  BY <2>1, <2>2, <2>3, <2>4, <2>5, PreviewInit, MuteInit, EffectInit
    <1>2. I /\ [Next]_vars => I'
        <2>. SUFFICES ASSUME I, [Next]_vars PROVE I'
            OBVIOUS
        <2>1. PreviewInv' /\ MuteInv' /\ EffectInv' /\ Outside'
            BY PreviewStep, MuteStep, EffectStep, OutsideStep
        <2>. QED  BY <2>1, PreTyped, LooksStep, RoomStep, FlagsStep
    <1>3. I => TypeOK
        BY DEF PreviewInv, MuteInv, EffectInv, LooksInv, Looks, RoomOK, Switches, Call, TypeOK
    <1>. HIDE DEF I
    <1>. QED  BY <1>1, <1>2, <1>3, PTL DEF Spec
=============================================================================
