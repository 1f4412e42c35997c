-------------------------- MODULE MCPosValidators --------------------------
(* Instances of PosValidators for TLC: one pod, or one with and one without *)
(* a label, which names an account that is not a validator. The pod with    *)
(* the label, and the pod alone, may rotate their keys without an answer.   *)
EXTENDS PosValidators, TLC
CONSTANTS p1, p2, s1, s2, x2, gAlice
TwoPods == {p1, p2}
TwoPodsStash == p1 :> s1 @@ p2 :> s2
TwoPodsLabel == p1 :> NoAccount @@ p2 :> x2
TwoPodsAccounts == {s1, s2, x2, gAlice}
TwoPodsMute == {p2}
OnePod == {p1}
OnePodStash == p1 :> s1
OnePodLabel == p1 :> NoAccount
OnePodAccounts == {s1, gAlice}
OneGenesis == {gAlice}
TaskSymmetry == Permutations(Task)
=============================================================================
