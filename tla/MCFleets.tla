------------------------------ MODULE MCFleets ------------------------------
EXTENDS Fleets, TLC

CONSTANTS p1, p2, u1, u2, r1, r2, s1, s2

MCOwner == [p \in Planets |-> IF p = p1 THEN u1 ELSE u2]
MCOneOwner == [p \in Planets |-> u1]
\* Handlers and schedulers are interchangeable (safety runs only), and so are the
\* planets of one player.
Symmetry == Permutations(Requests) \cup Permutations(Sweepers)
OneOwnerSymmetry == Symmetry \cup Permutations(Planets)
=============================================================================
