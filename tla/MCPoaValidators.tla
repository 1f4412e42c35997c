-------------------------- MODULE MCPoaValidators --------------------------
(* Instances of PoaValidators for TLC.  A pod "alice" labelled with the     *)
(* account of a genesis validator, as in local-kubernetes, and unlabelled   *)
(* pods whose accounts are derived from their names.                        *)
EXTENDS PoaValidators, TLC

CONSTANTS t1, t2, p1, p2, alice, s1, s2, sAlice, gAlice

TwoTasks == {t1, t2}
ThreePods == {p1, p2, alice}
ThreePodsStash == p1 :> s1 @@ p2 :> s2 @@ alice :> sAlice
ThreePodsLabel == p1 :> NoAccount @@ p2 :> NoAccount @@ alice :> gAlice
ThreePodsAccounts == {s1, s2, sAlice, gAlice}

DerivedPods == {p1, p2}
DerivedPodsStash == p1 :> s1 @@ p2 :> s2
DerivedPodsLabel == p1 :> NoAccount @@ p2 :> NoAccount
DerivedPodsAccounts == {s1, s2, gAlice}

OneGenesis == {gAlice}
TaskSymmetry == Permutations(Task)
=============================================================================
