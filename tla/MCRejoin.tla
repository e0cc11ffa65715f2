------------------------------ MODULE MCRejoin ------------------------------
EXTENDS Rejoin

CONSTANTS t1, t2, h1

TwoTabs == {t1, t2}
OneHost == {h1}
=============================================================================
