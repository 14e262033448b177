------------------------------ MODULE MCCluster ------------------------------
(* Model-checking instance of Cluster: the identifiers that play the same  *)
(* part are interchangeable, and one deletion of a key comes from outside   *)
(* the server.                                                             *)
EXTENDS Cluster, TLC

CONSTANTS k1, c1
MCDirectCommands == {[op |-> "delete_key", arg |-> k1]}
Symmetry == Permutations(Nodes) \cup Permutations(Roots) \cup Permutations(Procs)

\* Bound of the exhaustive run: keys stored without a command only in states
\* with at most one root and two of the proposals made.
OwnKeysBound ==
    \/ \A n \in Nodes : local[n].own = {}
    \/ Cardinality(drawn \cap Roots) <= 1 /\ proposals <= 2
\* Bound of the same run: no snapshot of the last command the bound allows, after
\* which no replica has anything left to apply.
SnapshotBound == \A n \in Nodes : snapshot[n].index < MaxProposals
=============================================================================
