-------------------------- MODULE MCDetectionCache --------------------------
(* The cache with two calls at a time.                                      *)
EXTENDS DetectionCache, TLC

CONSTANTS c1, c2, a, b, d1, d2, old, new

Symmetry == Permutations(Calls) \cup Permutations(Texts) \cup Permutations(Configs)
            \cup Permutations(Detectors)
=============================================================================
