------------------------------ MODULE MCReviews -----------------------------
(* Small instances of Reviews: one match of a tutor and a parent.  Lessons are *)
(* only recorded and deleted here (MaxEdits is 0).                             *)
EXTENDS Reviews, TLC

MCTutorUser == [m \in Matches |-> "tutor"]
MCParentUser == [m \in Matches |-> "mum"]

Symmetric == Permutations(Writers)
=============================================================================
