----------------------------- MODULE SecureLink -----------------------------
(***************************************************************************)
(* What a session of internal/channel promises to the two applications at  *)
(* its ends, whatever the network between them does: an application gets   *)
(* only what its peer submitted for it, and each submission at most once.  *)
(* Submissions may be lost, and they may overtake each other.              *)
(***************************************************************************)
EXTENDS Bags

CONSTANT Parcels     \* what can be submitted: sender's end, number and text

VARIABLES
    submitted,       \* parcels handed to Seal
    delivered        \* the bag of what Open has returned to the other ends

Init == submitted = {} /\ delivered = EmptyBag

Submit ==
    /\ \E p \in Parcels : submitted' = submitted \cup {p}
    /\ UNCHANGED delivered

Deliver ==
    /\ \E p \in submitted \ BagToSet(delivered) : delivered' = delivered (+) SetToBag({p})
    /\ UNCHANGED submitted

Next == Submit \/ Deliver

Spec == Init /\ [][Next]_<<submitted, delivered>>
=============================================================================
