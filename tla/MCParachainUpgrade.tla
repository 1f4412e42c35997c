------------------------- MODULE MCParachainUpgrade -------------------------
(* Three requests for two runtimes on two workers, for TLC.             *)
EXTENDS ParachainUpgrade
=============================================================================
