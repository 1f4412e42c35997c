---------------------------- MODULE MCCollators ----------------------------
(* Two tasks on two collator nodes, for TLC.                                *)
EXTENDS Collators, TLC
Symmetry == Permutations(Task) \cup Permutations(Node)
=============================================================================
