---------------------------- MODULE MCApprovalDesk ----------------------------
(* ApprovalDesk with two plans that are alike.                              *)
EXTENDS ApprovalDesk, TLC

CONSTANTS p1, p2

MCPlan   == {p1, p2}
Symmetry == Permutations(MCPlan)
=============================================================================
