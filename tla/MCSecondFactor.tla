---------------------------- MODULE MCSecondFactor ----------------------------
(* Instances of SecondFactor for TLC. *)
EXTENDS SecondFactor, TLC
Interchangeable == Permutations(Reqs)
=============================================================================
