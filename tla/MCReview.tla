------------------------------ MODULE MCReview ------------------------------
(* Constants of the runs of Review. *)
EXTENDS Review, TLC

CONSTANTS o1, o2, ann, rev, c1, c2

Anyone == Permutations(Object)
=============================================================================
