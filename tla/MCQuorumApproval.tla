--------------------------- MODULE MCQuorumApproval ---------------------------
(* Values for the constants of QuorumApproval that a cfg cannot write. *)
EXTENDS QuorumApproval, TLC

\* Critical requests need two approvals (riskQuorumMap, lines 69-75); for those of low
\* risk the operator configured none at all.
MCQuorumOf == [critical |-> 2, low |-> 0]

\* Neither the store nor any property tells clusters, or actors, apart by name.
MCSymmetry == Permutations(Clusters) \cup Permutations(Actors)

==============================================================================
