------------------------------ MODULE MCVerifyDeep ------------------------------
(* VerifyDeep for TLC: projects are alike; digests are not, their order matters. *)
EXTENDS VerifyDeep, TLC

Alike == Permutations(Projects)
=============================================================================
