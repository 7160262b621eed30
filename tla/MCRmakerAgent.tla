---------------------------- MODULE MCRmakerAgent ----------------------------
(* Users are interchangeable, so their symmetry is sound for the safety     *)
(* runs of RmakerAgent.                                                     *)
EXTENDS RmakerAgent, TLC

UserSymmetry == Permutations(User)
=============================================================================
