-------------------------- MODULE MCApprovalRuntime --------------------------
(* Instances of ApprovalRuntime for TLC. *)
EXTENDS ApprovalProperties, TLC

CONSTANTS alice, bob

OneOperator == {alice}
TwoOperators == {alice, bob}
OperatorSymmetry == Permutations(TwoOperators)
==============================================================================
