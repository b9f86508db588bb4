---------------------------- MODULE MCSwissRounds ----------------------------
(* Two organizers and three inputs; see the README for the bounds. *)
EXTENDS SwissRounds, TLC

Symmetry == Permutations(Inputs)
=============================================================================
