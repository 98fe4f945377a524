---------------------------- MODULE MCBuildQueue ----------------------------
EXTENDS BuildQueue, TLC

CONSTANTS p1, p2, u1, r1, r2, s1, s2, mine, yard, tech1

MCOwner == [p \in Planets |-> u1]
MCQueueType == [k \in Keys |-> CASE k = mine -> "building" [] k = yard -> "ship" [] OTHER -> "research"]
MCCost == [k \in Keys |-> 1]
MCDuration == [k \in Keys |-> 1]
\* Handlers and schedulers are interchangeable (safety runs only).
Symmetry == Permutations(Requests) \cup Permutations(Sweepers)
=============================================================================
