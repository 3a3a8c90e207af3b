------------------------------ MODULE MCCandid ------------------------------
EXTENDS CandidSubtyping, MCCandidTypes
=============================================================================
