------------------------------ MODULE Prejoin ------------------------------
(***************************************************************************)
(* The page in front of the room: the lookup that decides who may join,    *)
(* the camera and microphone preview (useMediaPreview), and the join call, *)
(* after which the two switches are left in localStorage for the room.     *)
(*                                                                         *)
(* Each turn of a switch asks the browser for a new stream; the requests   *)
(* are answered in any order, also after the page is gone.                 *)
(***************************************************************************)
EXTENDS Naturals

CONSTANT MaxToggles   \* bound: turns of a switch

ASSUME TogglesAssumption == MaxToggles \in Nat

VARIABLES
    lookup,   \* the public meeting: "asked", "failed", "open", "locked", "closed"
    authed,   \* isAuthenticated
    stored,   \* localStorage meetino:prejoin:*
    want,     \* cameraEnabled, micEnabled
    wants,    \* wants[n]: what the n-th getUserMedia call asks for, 1 on mount
    asked,    \* calls that have not been answered
    stream,   \* the stream of the state, 0 when null
    live,     \* streams that capture
    joinWith, \* the switches as the join handler's closure has them
    joining,  \* the join call is under way
    going,    \* router.push
    onPage,   \* the page is mounted
    turns,
    ordered   \* history: no call was answered before an earlier one

preVars == <<lookup, authed, stored, want, wants, asked, stream, live,
             joinWith, joining, going, onPage, turns, ordered>>

Kinds == {"mic", "camera"}
Calls == 1 .. MaxToggles + 1

PreTypeOK ==
    /\ lookup \in {"asked", "failed", "open", "locked", "closed"}
    /\ stored \in [Kinds -> {"unset", "on", "off"}]
    /\ want \subseteq Kinds /\ joinWith \subseteq Kinds
    /\ wants \in [Calls -> SUBSET Kinds] /\ asked \subseteq Calls
    /\ stream \in Calls \cup {0} /\ live \subseteq Calls
    /\ {authed, joining, going, onPage, ordered} \subseteq BOOLEAN
    /\ turns \in 0 .. MaxToggles

PreInit ==
    /\ lookup = "asked" /\ authed \in BOOLEAN
    /\ stored \in [Kinds -> {"unset", "on", "off"}]
    /\ want = {k \in Kinds : stored[k] # "off"}
    /\ wants = [n \in Calls |-> IF n = 1 THEN want ELSE {}]
    /\ asked = IF want = {} THEN {} ELSE {1}
    /\ stream = 0 /\ live = {}
    /\ joinWith = {} /\ joining = FALSE /\ going = FALSE /\ onPage = TRUE
    /\ turns = 0 /\ ordered = TRUE

-----------------------------------------------------------------------------
(* replaceStream: the old stream is stopped.  On a page that is gone it     *)
(* changes nothing, and what the browser gave goes on capturing.            *)
Released_Never == live
Released == live \ {stream}

Replace(n) ==
    /\ stream' = IF onPage THEN n ELSE 0
    /\ live' = (IF onPage THEN Released ELSE live) \cup ({n} \ {0})

(* acquire: with both switches off there is nothing to wait for.            *)
Toggle(k) ==
    /\ onPage /\ turns < MaxToggles /\ turns' = turns + 1
    /\ want' = IF k \in want THEN want \ {k} ELSE want \cup {k}
    /\ stored' = [stored EXCEPT ![k] = IF k \in want THEN "off" ELSE "on"]
    /\ wants' = [wants EXCEPT ![turns + 2] = want']
    /\ IF want' = {}
       THEN Replace(0) /\ asked' = asked /\ ordered' = (ordered /\ asked = {})
       ELSE asked' = asked \cup {turns + 2} /\ UNCHANGED <<stream, live, ordered>>
    /\ UNCHANGED <<lookup, authed, joinWith, joining, going, onPage>>

Answered(n) ==
    /\ n \in asked /\ asked' = asked \ {n}
    /\ ordered' = (ordered /\ \A m \in asked : n <= m)
    /\ UNCHANGED <<lookup, authed, stored, want, wants, joinWith, joining, going, onPage, turns>>

(* The effect of the mount stops a stream that comes when it is over.       *)
Granted(n) ==
    /\ Answered(n)
    /\ IF n = 1 /\ ~onPage THEN UNCHANGED <<stream, live>> ELSE Replace(n)

Denied(n) ==
    /\ Answered(n)
    /\ Replace(0)

-----------------------------------------------------------------------------
Lookup ==
    /\ onPage /\ lookup = "asked"
    /\ lookup' \in {"failed", "open", "locked", "closed"}
    /\ UNCHANGED <<authed, stored, want, wants, asked, stream, live,
                   joinWith, joining, going, onPage, turns, ordered>>

(* The join buttons: not of a meeting that is over, and, when it is locked, *)
(* not for guests.                                                          *)
MayJoin == lookup = "open" \/ (lookup = "locked" /\ authed)

JoinClick ==
    /\ onPage /\ MayJoin /\ ~joining
    /\ joining' = TRUE /\ joinWith' = want
    /\ UNCHANGED <<lookup, authed, stored, want, wants, asked, stream, live,
                   going, onPage, turns, ordered>>

JoinFails ==
    /\ joining /\ joining' = FALSE
    /\ UNCHANGED <<lookup, authed, stored, want, wants, asked, stream, live,
                   joinWith, going, onPage, turns, ordered>>

(* persistMediaIntent(), media.stop(), router.push().                       *)
Joined ==
    /\ joining /\ joining' = FALSE
    /\ stored' = [k \in Kinds |-> IF k \in joinWith THEN "on" ELSE "off"]
    /\ Replace(0) /\ going' = TRUE
    /\ UNCHANGED <<lookup, authed, want, wants, asked, joinWith, onPage, turns, ordered>>

(* The page unmounts and stops the stream it has.  The rest of its state is *)
(* forgotten; requests that have not been answered stay.                    *)
LeavePrejoin ==
    /\ onPage /\ going
    /\ onPage' = FALSE /\ live' = live \ {stream} /\ stream' = 0
    /\ wants' = [n \in Calls |-> IF n \in asked \cup live' THEN wants[n] ELSE {}]
    /\ lookup' = "asked" /\ authed' = FALSE /\ joining' = FALSE /\ joinWith' = {}
    /\ turns' = 0 /\ ordered' = TRUE
    /\ UNCHANGED <<stored, want, asked, going>>

PreNext ==
    \/ \E k \in Kinds : Toggle(k)
    \/ \E n \in Calls : Granted(n) \/ Denied(n)
    \/ Lookup \/ JoinClick \/ JoinFails \/ Joined

-----------------------------------------------------------------------------
(* Once every request has been answered, in the order in which they were    *)
(* made, the preview captures nothing whose switch is off: no stream that   *)
(* has been replaced goes on capturing.                                     *)
CapturesWhatIsShown ==
    onPage /\ ordered /\ asked = {} => UNION {wants[n] : n \in live} \subseteq want
=============================================================================
