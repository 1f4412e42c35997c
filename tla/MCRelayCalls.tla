---------------------------- MODULE MCRelayCalls ----------------------------
(* An instance of RelayCalls for TLC: a configuration update of two keys,   *)
(* the second of which may be unknown, a nominator's creation that may not   *)
(* find its pod, a transfer, and a pass over two stateful sets, the second   *)
(* of which raises.                                                          *)
EXTENDS RelayCalls, TLC
CONSTANTS conf, move, nom, n1
Requests == {conf, nom, move}
Kinds == conf :> "configure" @@ nom :> "nominate" @@ move :> "transfer"
Signers == conf :> <<Sudo, Sudo>> @@ nom :> <<Sudo, n1>> @@ move :> <<Sudo>> @@ Pass :> <<Sudo, Sudo, Sudo, Sudo>>
NoCalls == {}
RefusedCalls == {<<conf, 2>>, <<move, 1>>}
Malformed == {<<conf, 2>>, <<nom, 2>>}
SecondSet == {3}
=============================================================================
