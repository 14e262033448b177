----------------------------- MODULE MCCAServer -----------------------------
(* Model-checking instance of CAServer: goroutines are interchangeable.    *)
EXTENDS CAServer, TLC

Symmetry == Permutations(Procs)
=============================================================================
