---------------------------- MODULE MCGraphCopy ----------------------------
EXTENDS GraphCopy, MCGraphs
=============================================================================
