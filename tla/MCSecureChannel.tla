-------------------------- MODULE MCSecureChannel --------------------------
(* Goroutines, plaintexts, session ids and secrets are interchangeable. *)
EXTENDS SecureChannel, TLC

Symmetry == Permutations(Openers) \cup Permutations(Texts)
              \cup Permutations(SessionIDs) \cup Permutations(Secrets)
=============================================================================
