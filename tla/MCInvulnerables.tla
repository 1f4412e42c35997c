--------------------------- MODULE MCInvulnerables ---------------------------
(* Two nodes, one of which has no collator account, and the endpoints of    *)
(* one generation, of the other or of both, for TLC.                        *)
EXTENDS Invulnerables, TLC
CONSTANTS n1, n2, c1, a1
TwoNodes == {n1, n2}
TwoAccounts == {c1, a1}
Both == Single \cup List
TwoCollators == n1 :> c1 @@ n2 :> NoAccount
=============================================================================
