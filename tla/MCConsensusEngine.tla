------------------------- MODULE MCConsensusEngine --------------------------
(* ConsensusEngine for TLC; its constants are all bounds and capacities.   *)
EXTENDS ConsensusEngine, TLC
=============================================================================
