------------------------- MODULE MCParaLifecycle -------------------------
(* Two processes, and two collator pods of which one lacks its label.     *)
EXTENDS ParaLifecycle, TLC
CONSTANTS t1, t2, podA, podB, A, B
ParaOfPods == (podA :> A) @@ (podB :> B)
=============================================================================
