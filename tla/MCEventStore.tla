----------------------------- MODULE MCEventStore -----------------------------
EXTENDS EventStoreRebuild, TLC

CONSTANTS s1, s2, s3, a1, a2, k1, k2

Symmetry == Permutations(Session) \cup Permutations(Aggregate)
===============================================================================
