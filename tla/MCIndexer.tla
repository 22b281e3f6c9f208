----------------------------- MODULE MCIndexer ------------------------------
(* Indexer for an escrow with two milestones.                               *)
EXTENDS Indexer, TLC

MCPublished ==
    {[topic |-> "proof", milestone |-> 1],
     [topic |-> "release", milestone |-> 1],
     [topic |-> "release", milestone |-> 2],
     [topic |-> "dispute", milestone |-> 0],
     [topic |-> "DisputeResolved", milestone |-> 0]}

SlotSymmetry == Permutations(Slots)
=============================================================================
