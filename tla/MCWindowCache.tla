---------------------------- MODULE MCWindowCache ----------------------------
(* Two tasks and two threads, see MCWindowCache.cfg.                        *)
EXTENDS WindowCache, TLC

CONSTANTS t1, t2, w1, w2, m1, m2, x, y

Symmetry == Permutations(Tasks) \cup Permutations(Workers) \cup Permutations(Sessions)
            \cup Permutations(Inputs)
=============================================================================
