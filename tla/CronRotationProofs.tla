------------------------- MODULE CronRotationProofs -------------------------
(***************************************************************************)
(* Proofs about CronRotation, for all sets of runs, intervals and heights:  *)
(* types, and the spacing of the rotations that no overlap of runs lies    *)
(* between.                                                                *)
(***************************************************************************)
EXTENDS CronRotation, TLAPS

USE DEF local, history

LEMMA TypeInit == Init => TypeOK
<1> SUFFICES ASSUME Init PROVE TypeOK
  OBVIOUS
<1>1. rotatedAt \in [StatefulSet -> Nat \cup {None}]
  BY DEF Init
<1>2. height \in Nat /\ raises \in Nat /\ at \in [Run -> Nat]
  BY DEF Init
<1>3. loop \in Run \cup {None} /\ labelled \subseteq StatefulSet
  BY DEF Init
<1> QED
  BY <1>1, <1>2, <1>3 DEF Init, TypeOK

LEMMA TypeStep == TypeOK /\ [Next]_vars => TypeOK'
<1> SUFFICES ASSUME TypeOK, [Next]_vars PROVE TypeOK'
  OBVIOUS
<1> USE RunAssumption, IntervalAssumption DEF TypeOK
<1>1. ASSUME NEW r \in Run, StartRun(r) PROVE TypeOK'
  BY <1>1 DEF StartRun, ByItself
<1>2. ASSUME NEW r \in Run, NEW s \in StatefulSet, AwaitRotation(r, s) \/ NotDue(r, s)
      PROVE TypeOK'
  BY <1>2 DEF AwaitRotation, NotDue, Take
<1>3. ASSUME NEW r \in Run, RotationDone(r) PROVE TypeOK'
  BY <1>3 DEF RotationDone, Rotated
<1>4. ASSUME NEW r \in Run, PopRaises(r) PROVE TypeOK'
  BY <1>4 DEF PopRaises, Rotated, Leave
<1>5. ASSUME NEW r \in Run, RotationRaises(r) \/ EndRun(r) PROVE TypeOK'
  BY <1>5 DEF RotationRaises, EndRun, Leave
<1>6. ASSUME NEW r \in Run, ScheduleNext(r) PROVE TypeOK'
  <2>1. CASE next[cur[r]] = None /\ cur[r] \in labels[r]
    <3>1. cur[r] \in StatefulSet /\ at[r] + Interval[cur[r]] \in Nat
      BY <2>1
    <3> QED
      BY <1>6, <2>1, <3>1 DEF ScheduleNext
  <2>2. CASE ~(next[cur[r]] = None /\ cur[r] \in labels[r])
    BY <1>6, <2>2 DEF ScheduleNext
  <2> QED
    BY <2>1, <2>2
<1>7. ASSUME NewBlock PROVE TypeOK'
  BY <1>7 DEF NewBlock
<1>8. ASSUME NEW s \in StatefulSet, Relabel(s) PROVE TypeOK'
  BY <1>8 DEF Relabel
<1>9. ASSUME Restart PROVE TypeOK'
  BY <1>9 DEF Restart
<1>10. CASE UNCHANGED vars
  BY <1>10 DEF vars
<1> QED
  BY <1>1, <1>2, <1>3, <1>4, <1>5, <1>6, <1>7, <1>8, <1>9, <1>10 DEF Next, RunStep

\* Every variable keeps its type.
THEOREM TypeCorrect == Spec => []TypeOK
<1> QED
  BY TypeInit, TypeStep, PTL DEF Spec

-----------------------------------------------------------------------------
\* What the spacing rests on.  The history is empty while runs overlap.  Else an
\* entry lies at least the interval after the last rotation, which lies in the
\* past of every run, and the entry of a stateful set that is being rotated stays
\* what the run found.
SpacingInv ==
    /\ \A r \in Run : pc[r] # "idle" => at[r] <= height
    /\ \A r, q \in Run : r # q /\ pc[r] # "idle" /\ pc[q] # "idle" =>
          \A s \in StatefulSet : rotatedAt[s] = None
    /\ \A r \in Run : pc[r] = "rotating" =>
          /\ cur[r] \in StatefulSet
          /\ rotatedAt[cur[r]] # None => next[cur[r]] # None /\ at[r] > next[cur[r]]
    /\ \A s \in StatefulSet : rotatedAt[s] # None =>
          /\ rotatedAt[s] <= height
          /\ \A r \in Run : pc[r] # "idle" => rotatedAt[s] <= at[r]
          /\ next[s] # None => next[s] >= rotatedAt[s] + Interval[s]

LEMMA SpacingStep == TypeOK /\ SpacingInv /\ [Next]_vars => SpacingInv'
<1> SUFFICES ASSUME TypeOK, SpacingInv, [Next]_vars PROVE SpacingInv'
  OBVIOUS
<1> USE RunAssumption, IntervalAssumption DEF TypeOK
\* The run whose rotation returns: by itself it leaves its height, else nothing.
<1>0. ASSUME NEW r \in Run, Rotated(r), pc[r] = "rotating"
      PROVE  /\ cur[r] \in StatefulSet /\ at[r] <= height
             /\ rotatedAt' \in [StatefulSet -> Nat \cup {None}]
             /\ \A s \in StatefulSet \ {cur[r]} : rotatedAt'[s] = rotatedAt[s]
             /\ rotatedAt'[cur[r]] \in {None, at[r]}
             /\ ~ByItself(r) => \A s \in StatefulSet : rotatedAt'[s] = None
  BY <1>0 DEF Rotated, ByItself, SpacingInv
<1>1. ASSUME NEW r \in Run, StartRun(r) PROVE SpacingInv'
  <2>1. pc[r] = "idle" /\ pc' = [pc EXCEPT ![r] = "next"] /\ at' = [at EXCEPT ![r] = height]
    BY <1>1 DEF StartRun
  <2>2. UNCHANGED <<height, next, cur>>
    BY <1>1 DEF StartRun
  <2>3. CASE ByItself(r)
    <3>1. rotatedAt' = rotatedAt
      BY <1>1, <2>3 DEF StartRun
    <3>2. \A q \in Run : pc'[q] # "idle" => q = r
      BY <2>1, <2>3 DEF ByItself
    <3> QED
      BY <2>1, <2>2, <3>1, <3>2 DEF SpacingInv
  <2>4. CASE ~ByItself(r)
    <3>1. \A s \in StatefulSet : rotatedAt'[s] = None
      BY <1>1, <2>4 DEF StartRun
    <3> QED
      BY <2>1, <2>2, <3>1 DEF SpacingInv
  <2> QED
    BY <2>3, <2>4
<1>2. ASSUME NEW r \in Run, NEW s \in StatefulSet, AwaitRotation(r, s) \/ NotDue(r, s)
      PROVE SpacingInv'
  BY <1>2 DEF AwaitRotation, NotDue, Take, Due, SpacingInv
<1>3. ASSUME NEW r \in Run, RotationDone(r) PROVE SpacingInv'
  <2>1. /\ pc[r] = "rotating" /\ Rotated(r)
        /\ pc' = [pc EXCEPT ![r] = "schedule"]
        /\ next' = [next EXCEPT ![cur[r]] = None]
        /\ UNCHANGED <<height, at, cur>>
    BY <1>3 DEF RotationDone
  <2>2. CASE ByItself(r)
    <3>1. \A q \in Run : pc'[q] # "idle" => q = r
      BY <2>1, <2>2 DEF ByItself
    <3> QED
      BY <1>0, <2>1, <3>1 DEF SpacingInv
  <2>3. CASE ~ByItself(r)
    BY <1>0, <2>1, <2>3 DEF SpacingInv
  <2> QED
    BY <2>2, <2>3
<1>4. ASSUME NEW r \in Run, PopRaises(r) PROVE SpacingInv'
  <2>1. /\ pc[r] = "rotating" /\ Rotated(r) /\ next[cur[r]] = None
        /\ pc' = [pc EXCEPT ![r] = "idle"]
        /\ at' = [at EXCEPT ![r] = 0] /\ cur' = [cur EXCEPT ![r] = None]
        /\ UNCHANGED <<height, next>>
    BY <1>4 DEF PopRaises, Leave
  <2>2. CASE ByItself(r)
    <3>1. \A q \in Run : pc'[q] = "idle"
      BY <2>1, <2>2 DEF ByItself
    <3> QED
      BY <1>0, <2>1, <3>1 DEF SpacingInv
  <2>3. CASE ~ByItself(r)
    BY <1>0, <2>1, <2>3 DEF SpacingInv
  <2> QED
    BY <2>2, <2>3
<1>5. ASSUME NEW r \in Run, RotationRaises(r) \/ EndRun(r) PROVE SpacingInv'
  BY <1>5 DEF RotationRaises, EndRun, Leave, SpacingInv
<1>6. ASSUME NEW r \in Run, ScheduleNext(r) PROVE SpacingInv'
  <2>1. CASE next[cur[r]] = None /\ cur[r] \in labels[r]
    <3>1. cur[r] \in StatefulSet
      BY <2>1
    <3> QED
      BY <1>6, <2>1, <3>1 DEF ScheduleNext, SpacingInv
  <2>2. CASE ~(next[cur[r]] = None /\ cur[r] \in labels[r])
    BY <1>6, <2>2 DEF ScheduleNext, SpacingInv
  <2> QED
    BY <2>1, <2>2
<1>7. ASSUME NewBlock PROVE SpacingInv'
  BY <1>7 DEF NewBlock, SpacingInv
<1>8. ASSUME NEW s \in StatefulSet, Relabel(s) PROVE SpacingInv'
  BY <1>8 DEF Relabel, SpacingInv
<1>9. ASSUME Restart PROVE SpacingInv'
  BY <1>9 DEF Restart, SpacingInv
<1>10. CASE UNCHANGED vars
  BY <1>10 DEF vars, SpacingInv
<1> QED
  BY <1>1, <1>2, <1>3, <1>4, <1>5, <1>6, <1>7, <1>8, <1>9, <1>10 DEF Next, RunStep

\* Two rotations of a stateful set between which no two runs were under way at
\* once are more than its interval apart, whoever starts the runs and whatever is
\* relabelled, fails or restarts.
THEOREM CronSpacesRotations == Spec => []RotationSpacing
<1>1. Init => TypeOK /\ SpacingInv
  BY TypeInit DEF Init, SpacingInv
<1>2. TypeOK /\ SpacingInv /\ [Next]_vars => (TypeOK /\ SpacingInv)'
  BY TypeStep, SpacingStep
<1>3. TypeOK /\ SpacingInv => RotationSpacing
  BY RunAssumption, IntervalAssumption DEF TypeOK, SpacingInv, RotationSpacing
<1> QED
  BY <1>1, <1>2, <1>3, PTL DEF Spec
=============================================================================
