----------------------------- MODULE MCKeyStore -----------------------------
(* Model-checking instance of KeyStore: identifiers are interchangeable.   *)
EXTENDS KeyStore, TLC

Symmetry == Permutations(Keys) \cup Permutations(Procs)
=============================================================================
