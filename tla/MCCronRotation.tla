--------------------------- MODULE MCCronRotation ---------------------------
(* Two stateful sets with different intervals, for TLC.                     *)
EXTENDS CronRotation, TLC
CONSTANTS sts1, sts2
TwoStatefulSets == {sts1, sts2}
TwoIntervals == sts1 :> 1 @@ sts2 :> 2
=============================================================================
