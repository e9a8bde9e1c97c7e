-------------------------- MODULE MCEngineeringApply --------------------------
(* Instances of EngineeringApply for TLC.                                   *)
EXTENDS EngineeringApply, TLC

MCSymmetry ==
    Permutations(EngRequests) \cup Permutations(EngApprovals) \cup Permutations(EngConversations)
        \cup Permutations(EngContents) \cup Permutations(EngInodes)

=============================================================================
