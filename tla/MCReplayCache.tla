---------------------------- MODULE MCReplayCache ----------------------------
(* Model-checking instance of ReplayCache: ciphertexts and requests are    *)
(* interchangeable.                                                        *)
EXTENDS ReplayCache, TLC

Symmetry == Permutations(Ciphertexts) \cup Permutations(Procs)
=============================================================================
