---------------------------- MODULE MCSettings ----------------------------
(* Instances of Settings for TLC. *)
EXTENDS Settings, TLC

CONSTANTS i1, i2, p1, p2, s1, s2, k1, k2, a1, a2, m1

\* Slots, integrations and secrets are interchangeable.
Perms == Permutations(Slot) \cup Permutations(Integration) \cup Permutations(Secret) \cup Permutations(Agent)
===========================================================================
