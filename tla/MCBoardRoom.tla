---------------------------- MODULE MCBoardRoom ----------------------------
EXTENDS BoardRoom

CONSTANTS c1, c2

TwoPages == {c1, c2}
=============================================================================
