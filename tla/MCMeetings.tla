----------------------------- MODULE MCMeetings -----------------------------
(* Instances of Meetings for TLC.                                            *)
EXTENDS Meetings

CONSTANTS host, student, t1
=============================================================================
