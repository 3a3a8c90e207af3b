------------------------------ MODULE MCRegions ------------------------------
EXTENDS Regions

CONSTANTS zero, w1, w2, w3, w4
MCLegacy == {<<>>, <<w1>>, <<w1, w2, w1>>}
MCSrcs == {<<w3>>, <<w4, w3, w4, w3>>}
=============================================================================
