------------------------------ MODULE MCRunTools ------------------------------
(* Two calls, one of them side-effecting, under two ids that they may share; the ids *)
(* are interchangeable.                                                              *)
EXTENDS RunTools, TLC

ToolSymmetry == Permutations(RequestIds)
=============================================================================
