---------------------------- MODULE MCRedisMgr ----------------------------
\* RedisMgr with two threads and one key, for TLC.
EXTENDS RedisMgr, TLC

Symmetry == Permutations(Threads) \cup Permutations(Contexts) \cup Permutations(Values)
===============================================================================
