----------------------------- MODULE MCSession -----------------------------
EXTENDS Session

CONSTANTS t1, t2

TwoTabs == {t1, t2}
OneEach == {<<t1, 1>>, <<t2, 1>>}
=============================================================================
