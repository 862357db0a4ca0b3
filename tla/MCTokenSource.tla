---------------------------- MODULE MCTokenSource ----------------------------
(* TLC instances of TokenSource: two or three requests race for one credential. *)
EXTENDS TokenSource, TLC

RequestSymmetry == Permutations(Requests)
=============================================================================
