------------------------------- MODULE MCGate -------------------------------
(* A small instance of Gate: two workers, one bucket, one account and callers *)
(* without one.                                                              *)
EXTENDS Gate, TLC

Symmetric == Permutations(Slots) \cup Permutations(Workers)
=============================================================================
