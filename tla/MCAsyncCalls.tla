---------------------------- MODULE MCAsyncCalls ----------------------------
EXTENDS AsyncCalls, TLC

Symmetry == Permutations(Index) \cup Permutations(Threads)
=============================================================================
