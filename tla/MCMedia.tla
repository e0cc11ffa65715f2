------------------------------ MODULE MCMedia ------------------------------
EXTENDS Media

CONSTANTS img

OneImage == {img}
=============================================================================
