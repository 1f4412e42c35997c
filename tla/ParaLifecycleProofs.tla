------------------------- MODULE ParaLifecycleProofs -------------------------
(***************************************************************************)
(* Proofs about ParaLifecycle, for every set of processes, pods and paras: *)
(* types, whose genesis a para is given, what is offboarded, when a lease  *)
(* is given, and that it implements ParaRequests.  The last rests on what  *)
(* a request has left to do (Served) and on the actions that are queued    *)
(* for a para whose change is under way (UnderWay).  StepsLeft bounds the  *)
(* steps of a request.                                                     *)
(***************************************************************************)
EXTENDS ParaLifecycle, FiniteSetTheorems, TLAPS

USE DEF chainVars, locals, history, Goto

\* What a process knows in which phase.
Phases ==
    \A t \in Task :
        /\ pc[t] \in Busy => op[t] \in Operation
        /\ pc[t] \in AtWork => para[t] \in Id
        /\ pc[t] = "cleanup" => op[t] = "offboard"
        /\ pc[t] \in {"genesis", "initialize"} => state[t] = para[t][1]

Typed == TypeOK /\ Phases

LEMMA PodIds ==
    ASSUME NEW pod \in Pod
    PROVE  /\ ParaOf[pod] \in Para
           /\ ParachainId(pod) \in Id
           /\ ParachainId(pod)[1] = ParaOf[pod]
           /\ pod \in Labelled => Label(pod) = <<ParaOf[pod], "str">>
           /\ pod \notin Labelled => Label(pod) = <<None, "str">>
<1> QED
  BY PodAssumption DEF ParachainId, Label, NoId, Id, Type

LEMMA SelectedIds ==
    ASSUME TypeOK, NEW t \in Task, op[t] \in Operation
    PROVE  /\ Selected(t) \subseteq Id
           /\ op[t] = "offboard" => Selected(t) \subseteq ids[t]
<1>1. InCluster \subseteq Para
  BY PodAssumption DEF InCluster
<1>2. CASE op[t] = "cron"
  BY <1>1, <1>2 DEF Selected, TypeOK, Id, Type
<1>3. CASE op[t] = "onboard"
  BY <1>3 DEF Selected, TypeOK
<1>4. CASE op[t] = "offboard"
  BY <1>4 DEF Selected, TypeOK
<1> QED
  BY <1>2, <1>3, <1>4 DEF Operation

\* A sub-task ends, or its process with it.
LEMMA EndingTyped ==
    ASSUME Typed, NEW t \in Task, Return(t) \/ Over(t),
           life' \in [Para -> Lifecycle \cup {None}], queue' \in [Para -> SUBSET {1, 2}],
           leased' \subseteq Para, head' \in [Para -> Para \cup {None}],
           failed' \subseteq Task, judged' \in [Task -> SUBSET Para], offboarded' \subseteq Para,
           pc[t] \in Busy
    PROVE  Typed'
<1>1. CASE Return(t)
  BY <1>1 DEF Typed, TypeOK, Phases, Return, Busy, Reading, AtWork
<1>2. CASE Over(t)
  BY <1>2 DEF Typed, TypeOK, Phases, Over, Busy, Reading, AtWork
<1> QED
  BY <1>1, <1>2

LEMMA BatchesTyped ==
    ASSUME TypeOK, NEW p \in Para, NEW g \in Para, NEW f \in BOOLEAN
    PROVE  /\ InitializeBatch(p, g, f) =>
                 /\ life' \in [Para -> Lifecycle \cup {None}]
                 /\ queue' \in [Para -> SUBSET {1, 2}]
                 /\ leased' \subseteq Para /\ head' \in [Para -> Para \cup {None}]
           /\ CleanupBatch(p, f) =>
                 /\ life' \in [Para -> Lifecycle \cup {None}]
                 /\ queue' \in [Para -> SUBSET {1, 2}]
<1>1. \A s \in SUBSET {1, 2} : [queue EXCEPT ![p] = @ \cup s] \in [Para -> SUBSET {1, 2}]
  BY DEF TypeOK
<1>2. ASSUME InitializeBatch(p, g, f)
      PROVE  /\ life' \in [Para -> Lifecycle \cup {None}]
             /\ queue' \in [Para -> SUBSET {1, 2}]
             /\ leased' \subseteq Para /\ head' \in [Para -> Para \cup {None}]
  <2>1. queue' \in [Para -> SUBSET {1, 2}]
    <3>1. CASE UNCHANGED queue
      BY <3>1 DEF TypeOK
    <3>2. CASE queue' = [queue EXCEPT ![p] =
                            @ \cup {2} \cup (IF f /\ p \notin leased THEN {1} ELSE {})]
      BY <3>2 DEF TypeOK
    <3> QED
      BY <1>2, <3>1, <3>2 DEF InitializeBatch
  <2>2. /\ life' \in [Para -> Lifecycle \cup {None}]
        /\ leased' \subseteq Para /\ head' \in [Para -> Para \cup {None}]
    BY <1>2 DEF InitializeBatch, TypeOK, Lifecycle
  <2> QED
    BY <2>1, <2>2
<1>3. ASSUME CleanupBatch(p, f)
      PROVE  /\ life' \in [Para -> Lifecycle \cup {None}]
             /\ queue' \in [Para -> SUBSET {1, 2}]
  <2>1. queue' \in [Para -> SUBSET {1, 2}]
    <3>1. CASE UNCHANGED queue
      BY <3>1 DEF TypeOK
    <3>2. CASE queue' = [queue EXCEPT ![p] =
                            @ \cup (IF life[p] = None THEN {} ELSE {2}) \cup (IF f THEN {1} ELSE {})]
      BY <3>2 DEF TypeOK
    <3> QED
      BY <1>3, <3>1, <3>2 DEF CleanupBatch
  <2>2. life' \in [Para -> Lifecycle \cup {None}]
    BY <1>3 DEF CleanupBatch, TypeOK, Lifecycle
  <2> QED
    BY <2>1, <2>2
<1> QED
  BY <1>2, <1>3

LEMMA TypeInit == Init => Typed
<1> QED
  BY PodAssumption, ModeAssumption
  DEF Init, Typed, TypeOK, Phases, NoId, Busy, Reading, AtWork, Lifecycle

LEMMA TypeStep == Typed /\ [Next]_vars => Typed'
<1> SUFFICES ASSUME Typed, [Next]_vars PROVE Typed'
  OBVIOUS
<1>a. TypeOK /\ Phases
  BY DEF Typed
<1>1. ASSUME NEW t \in Task, NEW o \in Ops, NEW asked \in {{}} \cup Asks, NEW f \in BOOLEAN,
             Begin(t, o, asked, f)
      PROVE  Typed'
  <2>1. asked \subseteq Para /\ o \in Operation
    BY ModeAssumption
  <2>2. asked \X {"str"} \subseteq Id
    BY <2>1 DEF Id, Type
  <2>3. offboarded' \subseteq Para
    BY <1>a, <1>1, <2>1 DEF Begin, TypeOK
  <2> QED
    BY <1>a, <1>1, <2>1, <2>2, <2>3
    DEF Begin, Typed, TypeOK, Phases, Busy, Reading, AtWork
<1>2. ASSUME NEW t \in Task, ReadThreads(t) \/ ReadChains(t) PROVE Typed'
  BY <1>a, <1>2 DEF ReadThreads, ReadChains, Typed, TypeOK, Phases, Busy, Reading, AtWork
<1>3. ASSUME NEW t \in Task, ReadLifecycles(t) PROVE Typed'
  <2>1. op[t] \in Operation /\ pc[t] = "lifecycles"
    BY <1>a, <1>3 DEF ReadLifecycles, Phases, Busy, Reading
  <2>2. Selected(t) \in SUBSET Id
    BY <1>a, <2>1, SelectedIds
  <2>3. {id[1] : id \in Selected(t)} \in SUBSET Para
    BY <2>2 DEF Id
  <2>4. judged' \in [Task -> SUBSET Para] /\ ids' \in [Task -> SUBSET Id]
    BY <1>a, <1>3, <2>2, <2>3 DEF ReadLifecycles, TypeOK
  <2> QED
    BY <1>a, <1>3, <2>1, <2>4
    DEF ReadLifecycles, Typed, TypeOK, Phases, Busy, Reading, AtWork
<1>4. ASSUME NEW t \in Task, NEW id \in Id, NextId(t, id) PROVE Typed'
  BY <1>a, <1>4 DEF NextId, Typed, TypeOK, Phases, Busy, Reading, AtWork
<1>5. ASSUME NEW t \in Task, NEW pod \in Pod, FirstPodMatches(t, pod) PROVE Typed'
  <2>1. ParaOf[pod] \in Para /\ para[t][1] = ParaOf[pod]
    BY <1>5, PodIds DEF FirstPodMatches
  <2> QED
    BY <1>a, <1>5, <2>1
    DEF FirstPodMatches, Typed, TypeOK, Phases, Busy, Reading, AtWork
<1>6. ASSUME NEW t \in Task, NEW pod \in Pod, FirstPodNames(t, pod) PROVE Typed'
  <2>1. ParachainId(pod) \in Id
    BY PodIds
  <2> QED
    BY <1>a, <1>6, <2>1
    DEF FirstPodNames, Typed, TypeOK, Phases, Busy, Reading, AtWork
<1>7. ASSUME NEW t \in Task, ReadGenesis(t) PROVE Typed'
  BY <1>a, <1>7 DEF ReadGenesis, Typed, TypeOK, Phases, Busy, Reading, AtWork
<1>8. ASSUME NEW t \in Task,
             \/ NoPod(t) \/ NoPodRaises(t) \/ Done(t) \/ NoGenesis(t) \/ ReadRaises(t) \/ Dies(t)
             \/ \E pod \in Pod : FirstPodDiffers(t, pod)
      PROVE  Typed'
  <2>1. pc[t] \in Busy /\ (Return(t) \/ Over(t)) /\ UNCHANGED <<chainVars, judged, offboarded>>
    BY <1>8 DEF FirstPodDiffers, NoPod, NoPodRaises, Done, NoGenesis, ReadRaises, Dies,
       Raise, Busy, Reading
  <2>2. failed' \in {failed, failed \cup {t}}
    BY <1>8 DEF FirstPodDiffers, NoPod, NoPodRaises, Done, NoGenesis, ReadRaises, Dies
  <2> QED
    BY <1>a, <2>1, <2>2, EndingTyped DEF TypeOK
<1>9. ASSUME NEW t \in Task, Initialize(t) \/ Cleanup(t) \/ SubmitFails(t) PROVE Typed'
  <2>1. pc[t] \in {"initialize", "cleanup"} /\ Return(t) /\ UNCHANGED <<judged, offboarded>>
    BY <1>9 DEF Initialize, Cleanup, SubmitFails
  <2>2. para[t][1] \in Para /\ force[t] \in BOOLEAN
        /\ (pc[t] = "initialize" => state[t] \in Para)
    BY <1>a, <2>1 DEF Typed, TypeOK, Phases, AtWork, Id
  <2>3. \/ UNCHANGED chainVars
        \/ pc[t] = "initialize" /\ InitializeBatch(para[t][1], state[t], force[t])
        \/ CleanupBatch(para[t][1], force[t]) /\ UNCHANGED <<leased, head>>
    BY <1>9 DEF Initialize, Cleanup, SubmitFails
  <2>4. /\ life' \in [Para -> Lifecycle \cup {None}] /\ queue' \in [Para -> SUBSET {1, 2}]
        /\ leased' \subseteq Para /\ head' \in [Para -> Para \cup {None}]
    <3>1. CASE UNCHANGED chainVars
      BY <1>a, <3>1 DEF TypeOK
    <3>2. CASE pc[t] = "initialize" /\ InitializeBatch(para[t][1], state[t], force[t])
      BY <1>a, <2>2, <3>2, BatchesTyped
    <3>3. CASE CleanupBatch(para[t][1], force[t]) /\ UNCHANGED <<leased, head>>
      <4>1. life' \in [Para -> Lifecycle \cup {None}] /\ queue' \in [Para -> SUBSET {1, 2}]
        BY <1>a, <2>2, <3>3, BatchesTyped
      <4> QED
        BY <1>a, <3>3, <4>1 DEF TypeOK
    <3> QED
      BY <2>3, <3>1, <3>2, <3>3
  <2>5. failed' \in {failed, failed \cup {t}}
    BY <1>9 DEF Initialize, Cleanup, SubmitFails
  <2> QED
    BY <1>a, <2>1, <2>4, <2>5, EndingTyped DEF TypeOK, Busy
<1>10. ASSUME SessionChange PROVE Typed'
  <2>1. life' \in [Para -> Lifecycle \cup {None}]
    BY <1>a, <1>10 DEF SessionChange, TypeOK, Lifecycle
  <2>2. \A s \in SUBSET {1, 2} : {n - 1 : n \in s \ {1}} \subseteq {1, 2}
    OBVIOUS
  <2>3. queue' \in [Para -> SUBSET {1, 2}]
    BY <1>a, <1>10, <2>2 DEF SessionChange, TypeOK
  <2> QED
    BY <1>a, <1>10, <2>1, <2>3 DEF SessionChange, Typed, TypeOK, Phases
<1>11. ASSUME NEW p \in Para, LeaseEnds(p) PROVE Typed'
  BY <1>a, <1>11 DEF LeaseEnds, Typed, TypeOK, Phases, Lifecycle
<1>12. CASE UNCHANGED vars
  BY <1>a, <1>12 DEF vars, Typed, TypeOK, Phases
<1> QED
  BY <1>1, <1>2, <1>3, <1>4, <1>5, <1>6, <1>7, <1>8, <1>9, <1>10, <1>11, <1>12
  DEF Next, TaskStep

\* Every variable keeps its type; in particular an id under way is one of a para.
THEOREM TypeCorrect == Spec => []TypeOK
<1>1. Typed => TypeOK
  BY DEF Typed
<1> QED
  BY <1>1, TypeInit, TypeStep, PTL DEF Spec

-----------------------------------------------------------------------------
\* What a step does to heads, leases and lifecycles: only the batches and the
\* chain touch them.
LEMMA ChainSteps ==
    ASSUME [Next]_vars
    PROVE  \/ UNCHANGED <<life, leased, head>>
           \/ \E t \in Task :
                 /\ pc[t] = "initialize"
                 /\ InitializeBatch(para[t][1], state[t], force[t])
           \/ \E t \in Task :
                 /\ pc[t] = "cleanup" /\ CleanupBatch(para[t][1], force[t])
                 /\ UNCHANGED <<leased, head>>
           \/ SessionChange
           \/ \E p \in Para : LeaseEnds(p)
<1>1. ASSUME NEW t \in Task, Initialize(t) \/ Cleanup(t) \/ SubmitFails(t)
      PROVE  \/ UNCHANGED <<life, leased, head>>
             \/ pc[t] = "initialize" /\ InitializeBatch(para[t][1], state[t], force[t])
             \/ /\ pc[t] = "cleanup" /\ CleanupBatch(para[t][1], force[t])
                /\ UNCHANGED <<leased, head>>
  BY <1>1 DEF Initialize, Cleanup, SubmitFails
<1>2. ASSUME NEW t \in Task,
             \/ ReadThreads(t) \/ ReadChains(t) \/ ReadLifecycles(t) \/ ReadGenesis(t)
             \/ NoPod(t) \/ NoPodRaises(t) \/ Done(t) \/ NoGenesis(t) \/ ReadRaises(t) \/ Dies(t)
      PROVE  UNCHANGED <<life, leased, head>>
  BY <1>2 DEF ReadThreads, ReadChains, ReadLifecycles, ReadGenesis, NoPod, NoPodRaises, Done,
     NoGenesis, ReadRaises, Dies
<1>3. ASSUME NEW t \in Task, NEW pod \in Pod,
             FirstPodMatches(t, pod) \/ FirstPodDiffers(t, pod) \/ FirstPodNames(t, pod)
      PROVE  UNCHANGED <<life, leased, head>>
  BY <1>3 DEF FirstPodMatches, FirstPodDiffers, FirstPodNames
<1>4. ASSUME NEW t \in Task, NEW id \in Id, NextId(t, id) PROVE UNCHANGED <<life, leased, head>>
  BY <1>4 DEF NextId
<1>5. ASSUME NEW t \in Task, NEW o \in Ops, NEW asked \in {{}} \cup Asks, NEW f \in BOOLEAN,
             Begin(t, o, asked, f)
      PROVE  UNCHANGED <<life, leased, head>>
  BY <1>5 DEF Begin
<1>6. CASE UNCHANGED vars
  BY <1>6 DEF vars
<1> QED
  BY <1>1, <1>2, <1>3, <1>4, <1>5, <1>6 DEF Next, TaskStep

LEMMA GenesisStep ==
    Typed /\ GenesisOfItsOwnNode /\ [Next]_vars => GenesisOfItsOwnNode'
<1> SUFFICES ASSUME Typed, GenesisOfItsOwnNode, [Next]_vars PROVE GenesisOfItsOwnNode'
  OBVIOUS
<1>1. ASSUME NEW t \in Task, pc[t] = "initialize",
             InitializeBatch(para[t][1], state[t], force[t])
      PROVE  GenesisOfItsOwnNode'
  <2>1. state[t] = para[t][1]
    BY <1>1 DEF Typed, Phases
  <2> QED
    BY <1>1, <2>1 DEF InitializeBatch, GenesisOfItsOwnNode, Typed, TypeOK
<1>2. CASE UNCHANGED head
  BY <1>2 DEF GenesisOfItsOwnNode
<1> QED
  BY <1>1, <1>2, ChainSteps DEF SessionChange, LeaseEnds

\* A para is onboarded with the head and code of a node that runs it, for any
\* labels, also when a missing label's 0 is taken for an id.
THEOREM OwnGenesis == Spec => []GenesisOfItsOwnNode
<1>1. Init => GenesisOfItsOwnNode
  BY DEF Init, GenesisOfItsOwnNode
<1> QED
  BY <1>1, TypeInit, TypeStep, GenesisStep, PTL DEF Spec

\* Racing or outdated requests get no lease: one is given only by the batch
\* that begins the onboarding.
THEOREM LeasesComeWithOnboarding == Spec => LeaseComesWithOnboarding
<1>1. Typed /\ [Next]_vars =>
          [\A p \in leased' \ leased : life[p] = None /\ life'[p] = "Onboarding"]_vars
  <2> SUFFICES ASSUME Typed, [Next]_vars, NEW p \in leased' \ leased
               PROVE  life[p] = None /\ life'[p] = "Onboarding"
    OBVIOUS
  <2>1. PICK t \in Task :
            pc[t] = "initialize" /\ InitializeBatch(para[t][1], state[t], force[t])
    BY ChainSteps DEF SessionChange, LeaseEnds
  <2>2. para[t][1] \in Para
    BY <2>1 DEF Typed, Phases, AtWork, Id
  <2> QED
    BY <2>1, <2>2 DEF InitializeBatch, Typed, TypeOK
<1> QED
  BY <1>1, TypeInit, TypeStep, PTL DEF Spec, LeaseComesWithOnboarding

-----------------------------------------------------------------------------
\* All that an offboarding request has still to do is among what it named.
Named ==
    \A t \in Task : op[t] = "offboard" =>
        /\ \A id \in ids[t] : id[1] \in offboarded /\ id[2] = "str"
        /\ pc[t] \in {"pods", "cleanup"} => para[t][1] \in offboarded
        /\ pc[t] = "pods" => para[t][2] = "str"

LEMMA OffboardedGrows == [Next]_vars => offboarded \subseteq offboarded'
<1> QED
  BY DEF vars, Next, TaskStep, Begin, ReadThreads, ReadChains, ReadLifecycles, NextId,
     FirstPodMatches, FirstPodDiffers, FirstPodNames, NoPod, NoPodRaises, ReadGenesis,
     Initialize, Cleanup, Done, NoGenesis, ReadRaises, SubmitFails, Dies, SessionChange,
     LeaseEnds

LEMMA NamedStep == Typed /\ Named /\ [Next]_vars => Named'
<1> SUFFICES ASSUME Typed, Named, [Next]_vars PROVE Named'
  OBVIOUS
<1>a. TypeOK /\ Phases /\ offboarded \subseteq offboarded'
  BY OffboardedGrows DEF Typed
<1>1. ASSUME NEW t \in Task, NEW o \in Ops, NEW asked \in {{}} \cup Asks, NEW f \in BOOLEAN,
             Begin(t, o, asked, f)
      PROVE  Named'
  <2>1. o = "offboard" => \A id \in asked \X {"str"} : id[1] \in offboarded' /\ id[2] = "str"
    BY <1>1 DEF Begin
  <2> QED
    BY <1>a, <1>1, <2>1 DEF Begin, Named, TypeOK
<1>2. ASSUME NEW t \in Task, ReadThreads(t) \/ ReadChains(t) \/ ReadGenesis(t) PROVE Named'
  BY <1>a, <1>2 DEF ReadThreads, ReadChains, ReadGenesis, Named, TypeOK
<1>3. ASSUME NEW t \in Task, ReadLifecycles(t) PROVE Named'
  <2>1. op[t] = "offboard" => Selected(t) \subseteq ids[t]
    BY <1>a, SelectedIds DEF Operation
  <2> QED
    BY <1>a, <1>3, <2>1 DEF ReadLifecycles, Named, TypeOK
<1>4. ASSUME NEW t \in Task, NEW id \in Id, NextId(t, id) PROVE Named'
  BY <1>a, <1>4 DEF NextId, Named, TypeOK
<1>5. ASSUME NEW t \in Task, NEW pod \in Pod, FirstPodMatches(t, pod) PROVE Named'
  BY <1>a, <1>5 DEF FirstPodMatches, Named, TypeOK
<1>6. ASSUME NEW t \in Task, NEW pod \in Pod, FirstPodNames(t, pod) PROVE Named'
  <2>1. para[t] \in Id /\ para[t][1] \in offboarded /\ para[t][2] = "str"
    BY <1>a, <1>6 DEF FirstPodNames, Phases, AtWork, Named
  <2>2. Label(pod) = para[t]
    BY <1>6, <2>1 DEF FirstPodNames, CollatorPods
  <2>3. pod \in Labelled /\ ParachainId(pod) = para[t]
    BY <2>1, <2>2, PodIds, PodAssumption DEF Id, ParachainId
  <2> QED
    BY <1>a, <1>6, <2>1, <2>3 DEF FirstPodNames, Named, TypeOK
<1>7. ASSUME NEW t \in Task,
             \/ NoPod(t) \/ NoPodRaises(t) \/ Done(t) \/ NoGenesis(t) \/ ReadRaises(t) \/ Dies(t)
             \/ \E pod \in Pod : FirstPodDiffers(t, pod)
             \/ Initialize(t) \/ Cleanup(t) \/ SubmitFails(t)
      PROVE  Named'
  <2>1. Return(t) \/ Over(t)
    BY <1>7 DEF FirstPodDiffers, NoPod, NoPodRaises, Done, NoGenesis, ReadRaises, Dies,
       Raise, Initialize, Cleanup, SubmitFails
  <2>2. CASE Return(t)
    BY <1>a, <2>2 DEF Return, Named, TypeOK
  <2>3. CASE Over(t)
    BY <1>a, <2>3 DEF Over, Named, TypeOK
  <2> QED
    BY <2>1, <2>2, <2>3
<1>8. ASSUME SessionChange \/ (\E p \in Para : LeaseEnds(p)) \/ UNCHANGED vars PROVE Named'
  <2>1. UNCHANGED <<op, ids, pc, para>>
    BY <1>8 DEF SessionChange, LeaseEnds, vars
  <2> QED
    BY <1>a, <2>1 DEF Named
<1> QED
  BY <1>1, <1>2, <1>3, <1>4, <1>5, <1>6, <1>7, <1>8 DEF Next, TaskStep

LEMMA OffboardedStep ==
    Typed /\ Named /\ OffboardedOnlyIfAsked /\ [Next]_vars => OffboardedOnlyIfAsked'
<1> SUFFICES ASSUME Typed, Named, OffboardedOnlyIfAsked, [Next]_vars
             PROVE  OffboardedOnlyIfAsked'
  OBVIOUS
<1>a. TypeOK /\ Phases /\ offboarded \subseteq offboarded'
  BY OffboardedGrows DEF Typed
<1>1. ASSUME NEW t \in Task, pc[t] = "cleanup", CleanupBatch(para[t][1], force[t])
      PROVE  OffboardedOnlyIfAsked'
  <2>1. para[t][1] \in offboarded
    BY <1>a, <1>1 DEF Named, Phases
  <2> QED
    BY <1>a, <1>1, <2>1 DEF CleanupBatch, OffboardedOnlyIfAsked, TypeOK
<1>2. ASSUME NEW t \in Task, InitializeBatch(para[t][1], state[t], force[t])
      PROVE  OffboardedOnlyIfAsked'
  BY <1>a, <1>2 DEF InitializeBatch, OffboardedOnlyIfAsked, TypeOK
<1>3. CASE SessionChange
  BY <1>a, <1>3, PodAssumption DEF SessionChange, OffboardedOnlyIfAsked, TypeOK, Lifecycle
<1>4. ASSUME NEW p \in Para, LeaseEnds(p) PROVE OffboardedOnlyIfAsked'
  BY <1>a, <1>4 DEF LeaseEnds, OffboardedOnlyIfAsked, TypeOK
<1>5. CASE UNCHANGED life
  BY <1>a, <1>5 DEF OffboardedOnlyIfAsked
<1> QED
  BY <1>1, <1>2, <1>3, <1>4, <1>5, ChainSteps

\* No parachain is offboarded that no request named: a string id finds only pods
\* that carry it as a label, and the first of them names the same para.
THEOREM OnlyAskedIsOffboarded == Spec => []OffboardedOnlyIfAsked
<1>1. Init => Named
  BY DEF Init, Named
<1>2. Init => OffboardedOnlyIfAsked
  BY PodAssumption DEF Init, OffboardedOnlyIfAsked, Lifecycle
<1> QED
  BY <1>1, <1>2, TypeInit, TypeStep, NamedStep, OffboardedStep, PTL DEF Spec

-----------------------------------------------------------------------------
(* The refinement: at most one deed per para and request *)

\* The ids of a request are strings, those of a cron run integers; so an id at
\* hand is told from those still to come by its para alone.
IdType(o) == IF o = "cron" THEN "int" ELSE "str"

\* The id at hand is not among those to come, and is one a node runs as soon as
\* a pod was found for it.
Served ==
    \A t \in Task :
        /\ pc[t] \notin Busy => ids[t] = {}
        /\ pc[t] \in Busy => ids[t] \subseteq Para \X {IdType(op[t])}
        /\ pc[t] \in AtWork => para[t] \notin ids[t] /\ para[t] \in Para \X {IdType(op[t])}
        /\ pc[t] \in {"genesis", "initialize", "cleanup"} => para[t][1] \in Hosted
        /\ pc[t] \in {"genesis", "initialize"} => op[t] # "offboard"

\* A change under way has an action queued that finishes it.
UnderWay ==
    \A p \in Para : life[p] \in {"Onboarding", "Offboarding"} => queue[p] # {}

LEMMA FirstPod ==
    ASSUME Typed, Served, NEW t \in Task, NEW pod \in Pod, pc[t] = "pods",
           op[t] = "offboard", pod \in CollatorPods(para[t])
    PROVE  ParachainId(pod) = para[t]
<1>1. para[t] \in Para \X {"str"}
  BY DEF Served, AtWork, IdType
<1>2. Label(pod) = para[t]
  BY <1>1 DEF CollatorPods
<1> QED
  BY <1>1, <1>2, PodIds, PodAssumption DEF ParachainId

LEMMA ServedStep == Typed /\ Served /\ [Next]_vars => Served'
<1> SUFFICES ASSUME Typed, Served, [Next]_vars PROVE Served'
  OBVIOUS
<1>a. TypeOK /\ Phases
  BY DEF Typed
<1>b. \A pod \in Pod : ParaOf[pod] \in Hosted
  BY DEF Hosted
<1>c. Hosted' = Hosted
  BY DEF Hosted
<1> USE DEF Served, TypeOK, Busy, Reading, AtWork
<1>1. ASSUME NEW t \in Task, NEW o \in Ops, NEW asked \in {{}} \cup Asks, NEW f \in BOOLEAN,
             Begin(t, o, asked, f)
      PROVE  Served'
  <2>1. asked \X {"str"} \subseteq Para \X {IdType(o)}
    BY <1>1, ModeAssumption DEF Begin, IdType
  <2> QED
    BY <1>a, <1>1, <1>c, <2>1 DEF Begin
<1>2. ASSUME NEW t \in Task, ReadThreads(t) \/ ReadChains(t) \/ ReadGenesis(t) PROVE Served'
  BY <1>a, <1>2, <1>c DEF ReadThreads, ReadChains, ReadGenesis
<1>3. ASSUME NEW t \in Task, ReadLifecycles(t) PROVE Served'
  <2>1. Selected(t) \subseteq Para \X {IdType(op[t])}
    <3>1. pc[t] \in Busy /\ op[t] \in Operation /\ InCluster \subseteq Para
      BY <1>a, <1>3, PodAssumption DEF ReadLifecycles, Phases, InCluster
    <3>2. CASE op[t] = "cron"
      BY <1>a, <3>1, <3>2 DEF Selected, IdType
    <3>3. CASE op[t] \in {"onboard", "offboard"}
      BY <1>a, <3>1, <3>3 DEF Selected, IdType
    <3> QED
      BY <3>1, <3>2, <3>3 DEF Operation
  <2> QED
    BY <1>a, <1>3, <1>c, <2>1 DEF ReadLifecycles
<1>4. ASSUME NEW t \in Task, NEW id \in Id, NextId(t, id) PROVE Served'
  <2>1. id \in Para \X {IdType(op[t])}
    BY <1>4 DEF NextId
  <2> QED
    BY <1>a, <1>4, <1>c, <2>1 DEF NextId
<1>5. ASSUME NEW t \in Task, NEW pod \in Pod, FirstPodMatches(t, pod) PROVE Served'
  <2>1. para[t][1] \in Hosted
    BY <1>5, <1>b, PodIds DEF FirstPodMatches
  <2> QED
    BY <1>a, <1>5, <1>c, <2>1 DEF FirstPodMatches
<1>6. ASSUME NEW t \in Task, NEW pod \in Pod, FirstPodNames(t, pod) PROVE Served'
  <2>1. ParachainId(pod) = para[t]
    BY <1>6, FirstPod DEF FirstPodNames
  <2>2. para[t][1] \in Hosted
    BY <1>b, <2>1, PodIds
  <2>3. para' = para
    BY <1>a, <1>6, <2>1 DEF FirstPodNames
  <2> QED
    BY <1>a, <1>6, <1>c, <2>2, <2>3 DEF FirstPodNames
<1>7. ASSUME NEW t \in Task,
             \/ NoPod(t) \/ NoPodRaises(t) \/ Done(t) \/ NoGenesis(t) \/ ReadRaises(t) \/ Dies(t)
             \/ \E pod \in Pod : FirstPodDiffers(t, pod)
             \/ Initialize(t) \/ Cleanup(t) \/ SubmitFails(t)
      PROVE  Served'
  <2>1. pc[t] \in Busy /\ (Return(t) \/ Over(t))
    BY <1>7 DEF FirstPodDiffers, NoPod, NoPodRaises, Done, NoGenesis, ReadRaises, Dies,
       Raise, Initialize, Cleanup, SubmitFails
  <2>2. CASE Return(t)
    BY <1>a, <1>c, <2>1, <2>2 DEF Return
  <2>3. CASE Over(t)
    BY <1>a, <1>c, <2>3 DEF Over
  <2> QED
    BY <2>1, <2>2, <2>3
<1>8. ASSUME SessionChange \/ (\E p \in Para : LeaseEnds(p)) \/ UNCHANGED vars PROVE Served'
  <2>1. UNCHANGED <<op, ids, pc, para>>
    BY <1>8 DEF SessionChange, LeaseEnds, vars
  <2> QED
    BY <1>c, <2>1
<1> HIDE DEF Served, TypeOK, Busy, Reading, AtWork
<1> QED
  BY <1>1, <1>2, <1>3, <1>4, <1>5, <1>6, <1>7, <1>8 DEF Next, TaskStep

\* Who touches the queue of actions.
LEMMA QueueSteps ==
    ASSUME [Next]_vars
    PROVE  \/ UNCHANGED <<life, queue>>
           \/ \E t \in Task :
                 \/ /\ pc[t] = "initialize"
                    /\ InitializeBatch(para[t][1], state[t], force[t])
                 \/ pc[t] = "cleanup" /\ CleanupBatch(para[t][1], force[t])
           \/ SessionChange
           \/ \E p \in Para : LeaseEnds(p)
<1>1. ASSUME NEW t \in Task, Initialize(t) \/ Cleanup(t) \/ SubmitFails(t)
      PROVE  \/ UNCHANGED <<life, queue>>
             \/ pc[t] = "initialize" /\ InitializeBatch(para[t][1], state[t], force[t])
             \/ pc[t] = "cleanup" /\ CleanupBatch(para[t][1], force[t])
  BY <1>1 DEF Initialize, Cleanup, SubmitFails
<1>2. ASSUME NEW t \in Task,
             \/ ReadThreads(t) \/ ReadChains(t) \/ ReadLifecycles(t) \/ ReadGenesis(t)
             \/ NoPod(t) \/ NoPodRaises(t) \/ Done(t) \/ NoGenesis(t) \/ ReadRaises(t) \/ Dies(t)
             \/ \E pod \in Pod :
                   FirstPodMatches(t, pod) \/ FirstPodDiffers(t, pod) \/ FirstPodNames(t, pod)
             \/ \E id \in Id : NextId(t, id)
             \/ \E o \in Ops, asked \in {{}} \cup Asks, f \in BOOLEAN : Begin(t, o, asked, f)
      PROVE  UNCHANGED <<life, queue>>
  BY <1>2 DEF ReadThreads, ReadChains, ReadLifecycles, ReadGenesis, NoPod, NoPodRaises, Done,
     NoGenesis, ReadRaises, Dies, FirstPodMatches, FirstPodDiffers, FirstPodNames, NextId, Begin
<1>3. CASE UNCHANGED vars
  BY <1>3 DEF vars
<1> QED
  BY <1>1, <1>2, <1>3 DEF Next, TaskStep

LEMMA UnderWayStep == Typed /\ UnderWay /\ [Next]_vars => UnderWay'
<1> SUFFICES ASSUME Typed, UnderWay, [Next]_vars, NEW p \in Para,
                    life'[p] \in {"Onboarding", "Offboarding"}
             PROVE  queue'[p] # {}
  BY DEF UnderWay
<1> USE DEF Typed, TypeOK, UnderWay
<1>1. ASSUME NEW q, NEW g, NEW f, InitializeBatch(q, g, f) PROVE queue'[p] # {}
  <2>1. CASE UNCHANGED <<life, queue>>
    BY <2>1
  <2>2. CASE /\ life' = [life EXCEPT ![q] = "Onboarding"]
             /\ queue' = [queue EXCEPT ![q] =
                             @ \cup {2} \cup (IF f /\ q \notin leased THEN {1} ELSE {})]
    <3>1. p = q => 2 \in queue'[p]
      BY <2>2
    <3>2. p # q => queue'[p] = queue[p] /\ life'[p] = life[p]
      BY <2>2
    <3> QED
      BY <3>1, <3>2
  <2> QED
    BY <1>1, <2>1, <2>2 DEF InitializeBatch
<1>2. ASSUME NEW q, NEW f, CleanupBatch(q, f) PROVE queue'[p] # {}
  <2>1. CASE UNCHANGED <<life, queue>>
    BY <2>1
  <2>2. CASE /\ life' = IF life[q] = None THEN life ELSE [life EXCEPT ![q] = "Offboarding"]
             /\ queue' = [queue EXCEPT ![q] =
                   @ \cup (IF life[q] = None THEN {} ELSE {2}) \cup (IF f THEN {1} ELSE {})]
    <3>1. p = q /\ life[q] # None => 2 \in queue'[p]
      BY <2>2
    <3>2. p # q => queue'[p] = queue[p] /\ life'[p] = life[p]
      BY <2>2
    <3>3. p = q => life[q] # None
      BY <2>2, PodAssumption DEF Lifecycle
    <3> QED
      BY <3>1, <3>2, <3>3
  <2> QED
    BY <1>2, <2>1, <2>2 DEF CleanupBatch
<1>3. CASE SessionChange
  <2>1. 1 \notin queue[p] /\ life[p] = life'[p]
    BY <1>3, PodAssumption DEF SessionChange, Lifecycle
  <2>2. 2 \in queue[p]
    BY <2>1
  <2>3. 2 - 1 \in {n - 1 : n \in queue[p] \ {1}}
    BY <2>2
  <2> QED
    BY <1>3, <2>3 DEF SessionChange
<1>4. ASSUME NEW q \in Para, LeaseEnds(q) PROVE queue'[p] # {}
  BY <1>4 DEF LeaseEnds
<1> QED
  BY <1>1, <1>2, <1>3, <1>4, QueueSteps

RInv == Typed /\ Served /\ UnderWay

LEMMA RInvariant == Spec => []RInv
<1>1. Init => Served /\ UnderWay
  BY PodAssumption DEF Init, Served, UnderWay, Busy, Reading, AtWork, Lifecycle
<1>2. RInv /\ [Next]_vars => RInv'
  BY TypeStep, ServedStep, UnderWayStep DEF RInv
<1> QED
  BY <1>1, <1>2, TypeInit, PTL DEF Spec, RInv

LEMMA InitImplements == Init => Promise!Init
<1> SUFFICES ASSUME Init PROVE Promise!Init
  OBVIOUS
<1>1. \A t \in Task : Status(t) = "idle" /\ Left(t) = {}
  BY DEF Init, Status, Left, Reading, AtWork
<1>2. \A p \in Para : Due(p) = 0
  BY PodAssumption DEF Init, Due, Lifecycle
<1> QED
  BY <1>1, <1>2 DEF Init, Promise!Init

\* A sub-task that returns is through with its para, and with no other.
LEMMA ReturnDrops ==
    ASSUME Typed, Served, NEW t \in Task, pc[t] \in AtWork, Return(t)
    PROVE  /\ para[t][1] \in Left(t) \cap Para
           /\ [u \in Task |-> Left(u)]' =
                  [[u \in Task |-> Left(u)] EXCEPT ![t] = @ \ {para[t][1]}]
           /\ [u \in Task |-> Status(u)]' = [u \in Task |-> Status(u)]
           /\ Status(t) = op[t]
<1> DEFINE type == IdType(op[t])
<1>1. /\ para[t] \in Para \X {type} /\ ids[t] \subseteq Para \X {type}
      /\ para[t] \notin ids[t]
  BY DEF Served, AtWork, Busy
<1>2. Left(t) = {id[1] : id \in ids[t]} \cup {para[t][1]}
  BY DEF Left, AtWork, Reading
<1>3. Left(t)' = {id[1] : id \in ids[t]}
  BY DEF Return, Left, AtWork, Reading, Typed, TypeOK
<1>4. para[t][1] \notin {id[1] : id \in ids[t]}
  BY <1>1
<1>5. Left(t)' = Left(t) \ {para[t][1]}
  BY <1>2, <1>3, <1>4
<1>6. \A u \in Task \ {t} : Left(u)' = Left(u) /\ Status(u)' = Status(u)
  BY DEF Return, Left, Status, Typed, TypeOK
<1>7. Status(t)' = op[t] /\ Status(t) = op[t]
  BY DEF Return, Status, AtWork, Typed, TypeOK
<1> QED
  BY <1>1, <1>2, <1>5, <1>6, <1>7

LEMMA OverAnswers ==
    ASSUME Typed, NEW t \in Task, pc[t] \in Busy, Over(t), UNCHANGED chainVars
    PROVE  Promise!Answer(t)
<1>1. Status(t) \in Promise!Asked
  BY DEF Status, Promise!Asked, Typed, Phases, Operation, Busy, Reading
<1>2. Left(t)' = {} /\ Status(t)' = "over"
  BY DEF Over, Left, Status, Reading, AtWork, Typed, TypeOK
<1>3. \A u \in Task \ {t} : Left(u)' = Left(u) /\ Status(u)' = Status(u)
  BY DEF Over, Left, Status, Typed, TypeOK
<1>4. /\ [u \in Task |-> Left(u)]' = [[u \in Task |-> Left(u)] EXCEPT ![t] = {}]
      /\ [u \in Task |-> Status(u)]' = [[u \in Task |-> Status(u)] EXCEPT ![t] = "over"]
  BY <1>2, <1>3
<1>5. [p \in Para |-> Due(p)]' = [p \in Para |-> Due(p)]
  BY DEF Due
<1> QED
  BY <1>1, <1>4, <1>5 DEF Promise!Answer, Promise!chain

\* A batch that starts an onboarding or an offboarding, or does not.
LEMMA BatchImplements ==
    ASSUME Typed, Served, NEW t \in Task, Return(t),
           \/ pc[t] \in AtWork /\ UNCHANGED chainVars
           \/ pc[t] = "initialize" /\ InitializeBatch(para[t][1], state[t], force[t])
           \/ pc[t] = "cleanup" /\ CleanupBatch(para[t][1], force[t]) /\ UNCHANGED <<leased, head>>
    PROVE  Promise!Skip(t) \/ Promise!Onboard(t) \/ Promise!Offboard(t)
<1>0. pc[t] \in AtWork
  BY DEF AtWork
<1>1. PICK p \in Para : p = para[t][1]
  BY <1>0, ReturnDrops
<1> DEFINE Lefts == [u \in Task |-> Left(u)]
           Dues == [q \in Para |-> Due(q)]
<1>2. /\ p \in Left(t) /\ p \in Para /\ Lefts' = [Lefts EXCEPT ![t] = @ \ {p}]
      /\ [u \in Task |-> Status(u)]' = [u \in Task |-> Status(u)]
      /\ [u \in Task |-> Status(u)][t] = op[t] /\ op[t] \in Operation
  BY <1>0, <1>1, ReturnDrops DEF Typed, Phases, Busy, AtWork
<1>3. CASE UNCHANGED <<life, leased, head>> /\ Dues' = Dues
  BY <1>2, <1>3 DEF Promise!Skip, Promise!chain
<1>4. CASE UNCHANGED chainVars
  <2>1. Dues' = Dues
    BY <1>4 DEF Due
  <2> QED
    BY <1>3, <1>4, <2>1
<1>5. CASE pc[t] = "initialize" /\ InitializeBatch(p, state[t], force[t])
  <2>1. op[t] \in {"onboard", "cron"} /\ state[t] = p /\ p \in Hosted
    BY <1>1, <1>2, <1>5 DEF Typed, Phases, Served, Operation
  <2>2. CASE life[p] # None
    BY <1>4, <1>5, <2>2 DEF InitializeBatch
  <2>3. CASE life[p] = None
    <3>1. /\ life' = [life EXCEPT ![p] = "Onboarding"] /\ leased' = leased \cup {p}
          /\ head' = [head EXCEPT ![p] = p]
          /\ \A q \in Para \ {p} : queue'[q] = queue[q]
      BY <1>5, <2>1, <2>3 DEF InitializeBatch, Typed, TypeOK
    <3>2. Due(p)' \in {1, 2} /\ \A q \in Para \ {p} : Due(q)' = Due(q)
      BY <1>2, <3>1 DEF Due, Typed, TypeOK
    <3>3. Promise!Start(p, "Onboarding")
      BY <1>2, <3>1, <3>2 DEF Promise!Start
    <3> QED
      BY <1>2, <2>1, <2>3, <3>1, <3>3 DEF Promise!Onboard
  <2> QED
    BY <2>2, <2>3
<1>6. CASE pc[t] = "cleanup" /\ CleanupBatch(p, force[t]) /\ UNCHANGED <<leased, head>>
  <2>1. op[t] = "offboard" /\ p \in Hosted
    BY <1>1, <1>6 DEF Typed, Phases, Served
  <2>2. CASE life[p] \in {"Onboarding", "Offboarding"}
    BY <1>4, <1>6, <2>2, PodAssumption DEF CleanupBatch, Lifecycle
  <2>3. CASE life[p] = None
    <3>1. life' = life /\ \A q \in Para \ {p} : queue'[q] = queue[q]
      BY <1>6, <2>3, PodAssumption DEF CleanupBatch, Typed, TypeOK, Lifecycle
    <3>2. \A q \in Para : Due(q)' = Due(q)
      BY <2>3, <3>1, PodAssumption DEF Due, Lifecycle
    <3> QED
      BY <1>3, <1>6, <3>1, <3>2
  <2>4. CASE life[p] \in {"Parachain", "Parathread"}
    <3>1. /\ life' = [life EXCEPT ![p] = "Offboarding"]
          /\ \A q \in Para \ {p} : queue'[q] = queue[q]
      BY <1>6, <2>4, PodAssumption DEF CleanupBatch, Typed, TypeOK, Lifecycle
    <3>2. Due(p)' \in {1, 2} /\ \A q \in Para \ {p} : Due(q)' = Due(q)
      BY <1>2, <3>1 DEF Due, Typed, TypeOK
    <3>3. Promise!Start(p, "Offboarding")
      BY <1>2, <3>1, <3>2 DEF Promise!Start
    <3> QED
      BY <1>2, <1>6, <2>1, <2>4, <3>3 DEF Promise!Offboard
  <2> QED
    BY <1>2, <2>2, <2>3, <2>4 DEF Typed, TypeOK, Lifecycle
<1> QED
  BY <1>1, <1>4, <1>5, <1>6

LEMMA SessionImplements == RInv /\ SessionChange => Promise!Session
<1> SUFFICES ASSUME RInv, SessionChange PROVE Promise!Session
  OBVIOUS
<1> USE DEF RInv, Typed, TypeOK
<1>1. ASSUME NEW p \in Para
      PROVE  /\ Due(p) = 1 /\ life[p] = "Onboarding" <=> 1 \in queue[p] /\ life[p] = "Onboarding"
             /\ Due(p) = 1 /\ life[p] = "Offboarding" <=> 1 \in queue[p] /\ life[p] = "Offboarding"
             /\ Due(p)' = IF Due(p) = 0 THEN 0 ELSE Due(p) - 1
  <2>1. CASE life[p] \notin {"Onboarding", "Offboarding"}
    <3>1. life'[p] = life[p]
      BY <2>1 DEF SessionChange
    <3> QED
      BY <2>1, <3>1 DEF Due
  <2>2. CASE life[p] \in {"Onboarding", "Offboarding"} /\ 1 \in queue[p]
    <3>1. life'[p] \in {"Parachain", None}
      BY <2>2 DEF SessionChange
    <3> QED
      BY <2>2, <3>1, PodAssumption DEF Due, Lifecycle
  <2>3. CASE life[p] \in {"Onboarding", "Offboarding"} /\ 1 \notin queue[p]
    <3>1. 2 \in queue[p]
      BY <2>3 DEF UnderWay
    <3>2. 2 - 1 \in {n - 1 : n \in queue[p] \ {1}}
      BY <3>1
    <3>3. 1 \in queue'[p] /\ life'[p] = life[p]
      BY <2>3, <3>2 DEF SessionChange
    <3> QED
      BY <2>3, <3>3 DEF Due
  <2> QED
    BY <2>1, <2>2, <2>3
<1>2. /\ [t \in Task |-> Left(t)]' = [t \in Task |-> Left(t)]
      /\ [t \in Task |-> Status(t)]' = [t \in Task |-> Status(t)]
      /\ UNCHANGED <<leased, head>>
  BY DEF SessionChange, Left, Status
<1>3. life' = [p \in Para |->
                  CASE Due(p) = 1 /\ life[p] = "Onboarding"  -> "Parachain"
                    [] Due(p) = 1 /\ life[p] = "Offboarding" -> None
                    [] OTHER -> life[p]]
  BY <1>1 DEF SessionChange
<1>4. [p \in Para |-> Due(p)]' = [p \in Para |-> IF Due(p) = 0 THEN 0 ELSE Due(p) - 1]
  BY <1>1
<1> QED
  BY <1>2, <1>3, <1>4 DEF Promise!Session

LEMMA StepImplements == RInv /\ [Next]_vars => [Promise!Next]_(Promise!vars)
<1> SUFFICES ASSUME RInv, [Next]_vars PROVE Promise!Next \/ UNCHANGED Promise!vars
  OBVIOUS
<1>a. Typed /\ TypeOK /\ Phases /\ Served
  BY DEF RInv, Typed
<1>b. UNCHANGED <<life, queue>> => [p \in Para |-> Due(p)]' = [p \in Para |-> Due(p)]
  BY DEF Due
<1> DEFINE Lefts == [u \in Task |-> Left(u)]
           Statuses == [u \in Task |-> Status(u)]
<1>1. ASSUME NEW t \in Task, NEW o \in Ops, NEW asked \in {{}} \cup Asks, NEW f \in BOOLEAN,
             Begin(t, o, asked, f)
      PROVE  Promise!Ask(t)
  <2>1. o \in Promise!Asked /\ asked \in SUBSET Para
    BY ModeAssumption DEF Operation, Promise!Asked
  <2>2. Status(t) = "idle" /\ Status(t)' = o
    BY <1>1, <1>a DEF Begin, Status, TypeOK
  <2>3. Left(t)' \in SUBSET Para
    <3>1. Left(t)' = IF o = "cron" THEN Para ELSE {id[1] : id \in asked \X {"str"}}
      BY <1>1, <1>a DEF Begin, Left, Reading, AtWork, TypeOK
    <3> QED
      BY <2>1, <3>1
  <2>4. \A u \in Task \ {t} : Left(u)' = Left(u) /\ Status(u)' = Status(u)
    BY <1>1, <1>a DEF Begin, Left, Status, TypeOK
  <2>5. Lefts' = [Lefts EXCEPT ![t] = Left(t)'] /\ Statuses' = [Statuses EXCEPT ![t] = o]
    BY <2>2, <2>4
  <2>6. UNCHANGED chainVars
    BY <1>1 DEF Begin
  <2> QED
    BY <1>b, <2>1, <2>2, <2>3, <2>5, <2>6 DEF Promise!Ask, Promise!chain
<1>2. ASSUME NEW t \in Task,
             \/ ReadThreads(t) \/ ReadChains(t) \/ ReadGenesis(t)
             \/ \E pod \in Pod : FirstPodMatches(t, pod) \/ FirstPodNames(t, pod)
             \/ \E id \in Id : NextId(t, id)
      PROVE  UNCHANGED Promise!vars
  <2>1. UNCHANGED <<chainVars, op>> /\ pc[t] \in Busy /\ pc'[t] \in Busy
        /\ \A u \in Task \ {t} : pc'[u] = pc[u]
    BY <1>2, <1>a DEF ReadThreads, ReadChains, ReadGenesis, FirstPodMatches, FirstPodNames,
       NextId, TypeOK, Busy, Reading
  <2>2. \A u \in Task : Status(u)' = Status(u)
    BY <2>1 DEF Status, Busy, Reading
  <2>3. \A u \in Task : Left(u)' = Left(u)
    <3>1. CASE ReadThreads(t) \/ ReadChains(t) \/ ReadGenesis(t)
      BY <1>a, <3>1 DEF ReadThreads, ReadChains, ReadGenesis, Left, Reading, AtWork, TypeOK
    <3>2. ASSUME NEW pod \in Pod, FirstPodMatches(t, pod) PROVE \A u \in Task : Left(u)' = Left(u)
      BY <1>a, <3>2 DEF FirstPodMatches, Left, Reading, AtWork, TypeOK
    <3>3. ASSUME NEW pod \in Pod, FirstPodNames(t, pod) PROVE \A u \in Task : Left(u)' = Left(u)
      <4>1. ParachainId(pod) = para[t]
        BY <1>a, <3>3, FirstPod DEF FirstPodNames
      <4>2. para' = para
        BY <1>a, <3>3, <4>1 DEF FirstPodNames, TypeOK
      <4> QED
        BY <1>a, <3>3, <4>2 DEF FirstPodNames, Left, Reading, AtWork, TypeOK
    <3>4. ASSUME NEW id \in Id, NextId(t, id) PROVE \A u \in Task : Left(u)' = Left(u)
      <4>1. Left(t) = {i[1] : i \in ids[t]}
        BY <3>4 DEF NextId, Left, Reading, AtWork
      <4>2. Left(t)' = {i[1] : i \in (ids[t] \ {id}) \cup {id}}
        BY <1>a, <3>4 DEF NextId, Left, Reading, AtWork, TypeOK
      <4>3. (ids[t] \ {id}) \cup {id} = ids[t]
        BY <3>4 DEF NextId
      <4>4. \A u \in Task \ {t} : Left(u)' = Left(u)
        BY <1>a, <3>4 DEF NextId, Left, TypeOK
      <4> QED
        BY <4>1, <4>2, <4>3, <4>4
    <3> QED
      BY <1>2, <3>1, <3>2, <3>3, <3>4
  <2> QED
    BY <1>b, <2>1, <2>2, <2>3 DEF Promise!vars, Promise!chain
<1>3. ASSUME NEW t \in Task, ReadLifecycles(t) PROVE Promise!Skip(t)
  <2>1. pc[t] = "lifecycles" /\ op[t] \in Operation /\ UNCHANGED <<chainVars, op>>
    BY <1>3, <1>a DEF ReadLifecycles, Phases, Busy, Reading
  <2>2. Left(t)' = {id[1] : id \in Selected(t)}
    BY <1>3, <1>a DEF ReadLifecycles, Left, Reading, AtWork, TypeOK
  <2>3. Left(t)' \subseteq Left(t)
    <3>1. CASE op[t] = "cron"
      <4>1. Left(t) = Para
        BY <2>1, <3>1 DEF Left, Reading
      <4>2. Selected(t) \subseteq Id
        BY <1>a, <2>1, SelectedIds
      <4> QED
        BY <2>2, <4>1, <4>2 DEF Id
    <3>2. CASE op[t] # "cron"
      <4>1. Left(t) = {id[1] : id \in ids[t]}
        BY <2>1, <3>2 DEF Left, AtWork
      <4>2. Selected(t) \subseteq ids[t]
        BY <2>1, <3>2 DEF Selected, Operation
      <4> QED
        BY <2>2, <4>1, <4>2
    <3> QED
      BY <3>1, <3>2
  <2>4. \A u \in Task \ {t} : Left(u)' = Left(u)
    BY <1>3, <1>a DEF ReadLifecycles, Left, TypeOK
  <2>5. \A u \in Task : Status(u)' = Status(u)
    BY <1>3, <1>a DEF ReadLifecycles, Status, TypeOK
  <2>6. Lefts' = [Lefts EXCEPT ![t] = Left(t)']
    BY <2>4
  <2> QED
    BY <1>b, <2>1, <2>3, <2>5, <2>6 DEF Promise!Skip, Promise!chain
<1>4. ASSUME NEW t \in Task,
             \/ NoPod(t) \/ NoPodRaises(t) \/ Done(t) \/ NoGenesis(t) \/ ReadRaises(t) \/ Dies(t)
             \/ \E pod \in Pod : FirstPodDiffers(t, pod)
      PROVE  Promise!Next
  <2>1. /\ pc[t] \in Busy /\ UNCHANGED chainVars
        /\ (pc[t] \in AtWork /\ Return(t)) \/ Over(t)
    BY <1>4 DEF FirstPodDiffers, NoPod, NoPodRaises, Done, NoGenesis, ReadRaises, Dies,
       Raise, Busy, Reading, AtWork
  <2>2. CASE pc[t] \in AtWork /\ Return(t)
    BY <1>a, <2>1, <2>2, BatchImplements DEF Promise!Next
  <2>3. CASE Over(t)
    BY <1>a, <2>1, <2>3, OverAnswers DEF Promise!Next
  <2> QED
    BY <2>1, <2>2, <2>3
<1>5. ASSUME NEW t \in Task, Initialize(t) \/ Cleanup(t) \/ SubmitFails(t) PROVE Promise!Next
  <2>1. /\ Return(t)
        /\ \/ pc[t] \in AtWork /\ UNCHANGED chainVars
           \/ pc[t] = "initialize" /\ InitializeBatch(para[t][1], state[t], force[t])
           \/ pc[t] = "cleanup" /\ CleanupBatch(para[t][1], force[t]) /\ UNCHANGED <<leased, head>>
    BY <1>5 DEF Initialize, Cleanup, SubmitFails, AtWork
  <2> QED
    BY <1>a, <2>1, BatchImplements DEF Promise!Next
<1>6. CASE SessionChange
  BY <1>6, SessionImplements DEF Promise!Next
<1>7. ASSUME NEW p \in Para, LeaseEnds(p) PROVE Promise!LeaseEnds(p)
  <2>1. Lefts' = Lefts /\ Statuses' = Statuses
    BY <1>7 DEF LeaseEnds, Left, Status
  <2>2. \A q \in Para : Due(q)' = Due(q)
    BY <1>7, <1>a DEF LeaseEnds, Due, TypeOK
  <2> QED
    BY <1>7, <2>1, <2>2 DEF LeaseEnds, Promise!LeaseEnds
<1>8. CASE UNCHANGED vars
  BY <1>8, <1>b DEF vars, Promise!vars, Promise!chain, Status, Left
<1> QED
  BY <1>1, <1>2, <1>3, <1>4, <1>5, <1>6, <1>7, <1>8 DEF Next, TaskStep, Promise!Next

\* For any processes, pods, labels and races between them: a request does
\* something at most once for a para it named, an onboarding brings the lease and
\* a genesis of the para's own, and a change that has begun is neither
\* interrupted nor drawn out beyond the second session.
THEOREM Implements == Spec => ImplementsPromise
<1> QED
  BY InitImplements, StepImplements, RInvariant, PTL
  DEF Spec, ImplementsPromise, Promise!Spec
-----------------------------------------------------------------------------
(* Why every request is over in the end: the steps it has left decrease      *)

\* The most steps task t may still take: four for each para it has to come to,
\* which before it has read the lists may be any, and the reads before them.
StepsLeft(t) ==
    LET any == Cardinality(Para)
        left == Cardinality(ids[t])
    IN CASE pc[t] = "threads"                    -> 4 * any + 4
         [] pc[t] = "chains"                     -> 4 * any + 3
         [] pc[t] = "lifecycles"                 -> 4 * any + 2
         [] pc[t] = "next"                       -> 4 * left + 1
         [] pc[t] = "pods"                       -> 4 * left + 4
         [] pc[t] = "genesis"                    -> 4 * left + 3
         [] pc[t] \in {"initialize", "cleanup"}  -> 4 * left + 2
         [] OTHER                                -> 0

\* A task comes nearer to its end with each step it takes, one that fails too,
\* and no other task and nothing the relay chain does throws it back.
StepsDecrease ==
    \A t \in Task :
        /\ pc[t] \in Busy => StepsLeft(t)' <= StepsLeft(t)
        /\ TaskStep(t) => StepsLeft(t)' < StepsLeft(t)

\* A task has no more ids left than there are paras.
LEMMA IdsCounted ==
    ASSUME IsFiniteSet(Para), NEW o, NEW S \in SUBSET (Para \X {IdType(o)})
    PROVE  /\ IsFiniteSet(S) /\ Cardinality(S) \in Nat
           /\ Cardinality(Para) \in Nat /\ Cardinality(S) <= Cardinality(Para)
<1>1. IsFiniteSet({IdType(o)}) /\ Cardinality({IdType(o)}) = 1
  BY FS_Singleton
<1>2. /\ IsFiniteSet(Para \X {IdType(o)})
      /\ Cardinality(Para \X {IdType(o)}) = Cardinality(Para) * 1
  BY <1>1, FS_Product
<1>3. Cardinality(Para) \in Nat /\ Cardinality(Para \X {IdType(o)}) = Cardinality(Para)
  BY <1>2, FS_CardinalityType
<1>4. IsFiniteSet(S) /\ Cardinality(S) <= Cardinality(Para \X {IdType(o)})
  BY <1>2, FS_Subset
<1> QED
  BY <1>3, <1>4, FS_CardinalityType

\* Taking one element away.
LEMMA OneLess ==
    ASSUME NEW S, IsFiniteSet(S), NEW x \in S
    PROVE  Cardinality(S \ {x}) = Cardinality(S) - 1
BY FS_RemoveElement

\* The steps of the task itself.
LEMMA OwnStepsDecrease ==
    ASSUME IsFiniteSet(Para), Typed, Served, Served', NEW t \in Task, TaskStep(t)
    PROVE  StepsLeft(t)' < StepsLeft(t)
<1>0. TypeOK
  BY DEF Typed
<1>a. pc[t] \in Busy
  BY DEF TaskStep, ReadThreads, ReadChains, ReadLifecycles, NextId, FirstPodMatches,
     FirstPodDiffers, FirstPodNames, NoPod, NoPodRaises, ReadGenesis, Initialize, Cleanup, Done,
     NoGenesis, ReadRaises, SubmitFails, Dies, Busy, Reading
<1>b. /\ IsFiniteSet(ids[t]) /\ Cardinality(ids[t]) \in Nat /\ Cardinality(Para) \in Nat
  <2>1. ids[t] \in SUBSET (Para \X {IdType(op[t])})
    BY <1>a DEF Served
  <2> QED
    BY <2>1, IdsCounted
<1> USE DEF TypeOK
<1>1. CASE ReadThreads(t) \/ ReadChains(t)
  BY <1>0, <1>b, <1>1 DEF ReadThreads, ReadChains, StepsLeft
<1>2. CASE ReadLifecycles(t)
  <2>1. pc[t] = "lifecycles" /\ pc'[t] = "next"
    BY <1>0, <1>2 DEF ReadLifecycles
  <2>2. ids'[t] \in SUBSET (Para \X {IdType(op'[t])})
    BY <2>1 DEF Served, Busy
  <2>3. Cardinality(ids'[t]) \in Nat /\ Cardinality(ids'[t]) <= Cardinality(Para)
    BY <2>2, IdsCounted
  <2> QED
    BY <1>b, <2>1, <2>3 DEF StepsLeft
<1>3. ASSUME NEW id \in Id, NextId(t, id) PROVE StepsLeft(t)' < StepsLeft(t)
  <2>1. /\ pc[t] = "next" /\ pc'[t] = "pods"
        /\ id \in ids[t] /\ ids'[t] = ids[t] \ {id}
    BY <1>0, <1>3 DEF NextId
  <2>2. Cardinality(ids'[t]) = Cardinality(ids[t]) - 1
    BY <1>b, <2>1, OneLess
  <2> QED
    BY <1>b, <2>1, <2>2 DEF StepsLeft
\* On to the next call of the same sub-task.
<1>4. ASSUME \/ \E pod \in Pod : FirstPodMatches(t, pod) \/ FirstPodNames(t, pod)
             \/ ReadGenesis(t)
      PROVE  StepsLeft(t)' < StepsLeft(t)
  <2>1. /\ ids' = ids
        /\ \/ pc[t] = "pods" /\ pc'[t] \in {"genesis", "cleanup"}
           \/ pc[t] = "genesis" /\ pc'[t] = "initialize"
    BY <1>0, <1>4 DEF FirstPodMatches, FirstPodNames, ReadGenesis
  <2> QED
    BY <1>b, <2>1 DEF StepsLeft
\* The sub-task returns.
<1>5. ASSUME pc[t] \in AtWork, Return(t) PROVE StepsLeft(t)' < StepsLeft(t)
  <2>1. pc'[t] = "next" /\ ids' = ids
    BY <1>0, <1>5 DEF Return
  <2> QED
    BY <1>b, <1>5, <2>1 DEF StepsLeft, AtWork
\* The task is over.
<1>6. ASSUME Over(t) PROVE StepsLeft(t)' < StepsLeft(t)
  <2>1. pc'[t] = "done"
    BY <1>0, <1>6 DEF Over
  <2> QED
    BY <1>a, <1>b, <2>1 DEF StepsLeft, Busy, Reading
<1>7. ASSUME \/ \E pod \in Pod : FirstPodDiffers(t, pod)
             \/ NoPod(t) \/ NoPodRaises(t) \/ Initialize(t) \/ Cleanup(t)
             \/ NoGenesis(t) \/ ReadRaises(t) \/ SubmitFails(t)
      PROVE  pc[t] \in AtWork /\ (Return(t) \/ Over(t))
  BY <1>7 DEF FirstPodDiffers, NoPod, NoPodRaises, Initialize, Cleanup, NoGenesis, ReadRaises,
     SubmitFails, Raise, AtWork
<1>8. CASE Done(t) \/ Dies(t)
  BY <1>6, <1>8 DEF Done, Dies
<1> QED
  BY <1>1, <1>2, <1>3, <1>4, <1>5, <1>6, <1>7, <1>8 DEF TaskStep

\* The steps of others, and of the relay chain, leave a task what it has.
LEMMA OthersSpareSteps ==
    ASSUME TypeOK, NEW t \in Task,
           \/ \E u \in Task \ {t} :
                 \/ \E o \in Ops, asked \in {{}} \cup Asks, f \in BOOLEAN : Begin(u, o, asked, f)
                 \/ TaskStep(u)
           \/ SessionChange \/ (\E p \in Para : LeaseEnds(p)) \/ UNCHANGED vars
    PROVE  StepsLeft(t)' = StepsLeft(t)
<1> USE DEF TypeOK
<1>1. pc'[t] = pc[t] /\ ids'[t] = ids[t]
  <2>1. CASE SessionChange \/ (\E p \in Para : LeaseEnds(p)) \/ UNCHANGED vars
    BY <2>1 DEF SessionChange, LeaseEnds, vars
  <2>2. ASSUME NEW u \in Task \ {t}, NEW o \in Ops, NEW asked, NEW f, Begin(u, o, asked, f)
        PROVE  pc'[t] = pc[t] /\ ids'[t] = ids[t]
    BY <2>2 DEF Begin
  <2>3. ASSUME NEW u \in Task \ {t}, Return(u) \/ Over(u)
        PROVE  pc'[t] = pc[t] /\ ids'[t] = ids[t]
    BY <2>3 DEF Return, Over
  <2>4. ASSUME NEW u \in Task \ {t}, TaskStep(u)
        PROVE  pc'[t] = pc[t] /\ ids'[t] = ids[t]
    BY <2>3, <2>4 DEF TaskStep, ReadThreads, ReadChains, ReadLifecycles, NextId,
       FirstPodMatches, FirstPodDiffers, FirstPodNames, NoPod, NoPodRaises, ReadGenesis,
       Initialize, Cleanup, Done, NoGenesis, ReadRaises, SubmitFails, Dies, Raise
  <2> QED
    BY <2>1, <2>2, <2>4
<1> QED
  BY <1>1 DEF StepsLeft

LEMMA StepsStep ==
    ASSUME IsFiniteSet(Para), Typed, Served, Typed', Served', [Next]_vars
    PROVE  StepsDecrease
<1> SUFFICES ASSUME NEW t \in Task
             PROVE  /\ pc[t] \in Busy => StepsLeft(t)' <= StepsLeft(t)
                    /\ TaskStep(t) => StepsLeft(t)' < StepsLeft(t)
  BY DEF StepsDecrease
<1>1. StepsLeft(t) \in Int /\ StepsLeft(t)' \in Int
  <2>1. \A S \in SUBSET (Para \X {IdType(op[t])}) : Cardinality(S) \in Nat
    BY IdsCounted
  <2>2. \A S \in SUBSET (Para \X {IdType(op'[t])}) : Cardinality(S) \in Nat
    BY IdsCounted
  <2>3. Cardinality(ids[t]) \in Nat /\ Cardinality(ids'[t]) \in Nat
    BY <2>1, <2>2 DEF Served
  <2>4. Cardinality(Para) \in Nat
    BY FS_CardinalityType
  <2> QED
    BY <2>3, <2>4 DEF StepsLeft
<1>2. TaskStep(t) => StepsLeft(t)' < StepsLeft(t)
  BY OwnStepsDecrease
<1>3. ASSUME NEW o \in Ops, NEW asked \in {{}} \cup Asks, NEW f \in BOOLEAN,
             Begin(t, o, asked, f)
      PROVE  pc[t] \notin Busy
  BY <1>3 DEF Begin, Busy, Reading
<1>4. CASE \/ \E u \in Task \ {t} :
                 \/ \E o \in Ops, asked \in {{}} \cup Asks, f \in BOOLEAN : Begin(u, o, asked, f)
                 \/ TaskStep(u)
           \/ SessionChange \/ (\E p \in Para : LeaseEnds(p)) \/ UNCHANGED vars
  <2>1. StepsLeft(t)' = StepsLeft(t)
    BY <1>4, OthersSpareSteps DEF Typed
  <2> QED
    BY <1>1, <1>2, <2>1
<1> QED
  BY <1>1, <1>2, <1>3, <1>4 DEF Next

\* A request, or a cron run, takes four steps for each para at most and four around
\* them, however the lists change under it and whatever fails: it ends if it goes
\* on.
THEOREM TasksAdvance == IsFiniteSet(Para) => (Spec => [][StepsDecrease]_vars)
<1> SUFFICES ASSUME IsFiniteSet(Para) PROVE Spec => [][StepsDecrease]_vars
  OBVIOUS
<1>1. RInv /\ RInv' /\ [Next]_vars => StepsDecrease
  BY StepsStep DEF RInv
<1> QED
  BY <1>1, RInvariant, PTL DEF Spec
=============================================================================
