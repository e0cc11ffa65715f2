------------------------------ MODULE MCFiles ------------------------------
EXTENDS Files

CONSTANTS p1, p2, f1

TwoPages == {p1, p2}
OneHost == {p1}
OneFile == {f1}
=============================================================================
