------------------------------- MODULE MCChat -------------------------------
EXTENDS Chat

CONSTANTS p1, p2

TwoPages == {p1, p2}
=============================================================================
