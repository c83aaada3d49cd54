---------------------------- MODULE MCModelClients ----------------------------
(* Keys and Turns are interchangeable. *)
EXTENDS ModelClients

Symmetry == Permutations(Key) \cup Permutations(Turn)
=============================================================================
