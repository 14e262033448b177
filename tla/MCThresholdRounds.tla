-------------------------- MODULE MCThresholdRounds --------------------------
(* Model-checking instance of ThresholdRounds: signers and requests are    *)
(* interchangeable, and so are rounds.                                     *)
EXTENDS ThresholdRounds, TLC

Symmetry == Permutations(SignerIds) \cup Permutations(Procs) \cup Permutations(Rounds)

\* Bound: of the partial signatures that /threshold/sign did not return, one at a
\* time is submitted or collected, for a round of two that is the only one so
\* far, until it is part of an answer.
Foreign(partials) == {i \in 1..Len(partials) : partials[i] \notin signed}
ForeignIn   == {r \in Rounds : Foreign(coord[r].partials) # {}}
ForeignSent == {p \in Procs : proc[p].pc = "submitting" /\ proc[p].partial \notin signed}

ForeignBound ==
    /\ Cardinality(ForeignSent \cup ForeignIn) <= 1
    /\ ForeignSent \cup ForeignIn # {} => Cardinality(opened) = 1
    /\ \A p \in ForeignSent : coord[proc[p].round].threshold = 2
    /\ \A r \in ForeignIn : coord[r].threshold = 2 /\ Cardinality(Foreign(coord[r].partials)) = 1
    /\ \A a \in answers : Foreign(a.partials) = {}
=============================================================================
