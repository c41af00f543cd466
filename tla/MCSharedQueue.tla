-------------------------- MODULE MCSharedQueue --------------------------
(***************************************************************************)
(* Instances of SharedQueue for TLC.                                       *)
(***************************************************************************)
EXTENDS SharedQueue, TLC

\* Owners die anywhere except between the two stores that clear the record of an
\* insertion; processes that are not marked as an owner, only between operations.
OwnersDie == {"owner"} \X (Steps \ {"i8", "c4"})
RepairedPoints == OwnersDie \cup {<<"dummy", "in">>}

\* The links of the node are not yet, or still, those of a queued node.
LinksIntact == {"i1", "i2", "i3", "r1", "r2", "r3", "r4"}

Symmetry == Permutations(Heads) \cup Permutations(Items)
==========================================================================
