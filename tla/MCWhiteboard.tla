---------------------------- MODULE MCWhiteboard ----------------------------
(* Instances of Whiteboard for TLC.                                         *)
EXTENDS Whiteboard

CONSTANTS o1, o2, o3, o4, t1, c1
=============================================================================
