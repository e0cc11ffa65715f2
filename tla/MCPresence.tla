----------------------------- MODULE MCPresence -----------------------------
(* Small instances of Presence: participant p1 may open several tabs.        *)
EXTENDS Presence, TLC

CONSTANTS s1, s2, s3, p1, p2

(* p1 has up to two connections, p2 one.                                     *)
TwoTabs == s1 :> p1 @@ s2 :> p1 @@ s3 :> p2
=============================================================================
