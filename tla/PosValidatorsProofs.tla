------------------------- MODULE PosValidatorsProofs -------------------------
(***************************************************************************)
(* Proofs about PosValidators, for every set of tasks, pods and accounts:  *)
(* types, the three invariants of candidates and keys, and that it         *)
(* implements StakingRegistration.  They rest on what the batch under      *)
(* construction says of the chain (BatchInv) and on the order of its calls *)
(* (RunnableBatch).  StepsLeft bounds the steps of a task.                 *)
(***************************************************************************)
EXTENDS PosValidators, FiniteSetTheorems, TLAPS

USE DEF chainVars

\* A task at work on a pod holds it.
Building == {"queryBonded", "submit"}
HoldsPod == \A t \in Task : pc[t] \in Building => holding[t] \in Pod

LEMMA TypeInit == Init => TypeOK /\ HoldsPod
<1> QED
  BY GenesisAssumption, SentinelAssumption, StashAssumption
  DEF Init, TypeOK, HoldsPod, Building, StashAccounts

LEMMA TypeStep == TypeOK /\ HoldsPod /\ [Next]_vars => (TypeOK /\ HoldsPod)'
<1> SUFFICES ASSUME TypeOK, HoldsPod, [Next]_vars PROVE (TypeOK /\ HoldsPod)'
  OBVIOUS
<1> USE DEF TypeOK, HoldsPod, Building, Active, Reads
<1>1. ASSUME NEW t \in Task, NEW o \in {"register", "deregister"}, NEW pods \in SUBSET Pod,
             Start(t, o, pods)
      PROVE  (TypeOK /\ HoldsPod)'
  BY <1>1 DEF Start
<1>2. ASSUME NEW t \in Task,
             \/ ReadSet(t) \/ ReadPendingAddition(t)
             \/ ReadActive(t, "readActive1", "readStaking1")
             \/ ReadActive(t, "readActive2", "readStaking2")
      PROVE  (TypeOK /\ HoldsPod)'
  BY <1>2 DEF ReadSet, ReadActive, ReadPendingAddition
<1>3. ASSUME NEW t \in Task, SelectToRegister(t) \/ SelectToDeregister(t)
      PROVE  (TypeOK /\ HoldsPod)'
  BY <1>3 DEF SelectToRegister, SelectToDeregister, ForgetReads
<1>4. ASSUME NEW t \in Task, Fund(t) PROVE (TypeOK /\ HoldsPod)'
  BY <1>4, StashAssumption, LabelAssumption DEF Fund, AccountOf
<1>5. ASSUME NEW t \in Task, NEW p \in Pod, RotateKeys(t, p) \/ RotateAnswersNothing(t, p)
      PROVE  (TypeOK /\ HoldsPod)'
  BY <1>5 DEF RotateKeys, RotateAnswersNothing, Call
<1>6. ASSUME NEW t \in Task, QueryBonded(t) PROVE (TypeOK /\ HoldsPod)'
  BY <1>6 DEF QueryBonded, Call
<1>7. ASSUME NEW t \in Task, SubmitBatch(t) PROVE (TypeOK /\ HoldsPod)'
  <2>1. holding[t] \in Pod /\ Stash[holding[t]] \in Account /\ <<holding[t], t>> \in Key
    BY <1>7, StashAssumption DEF SubmitBatch, Key
  <2>2. /\ bonded' \subseteq Account /\ staking' \subseteq Account
        /\ nextKeys' \in [Account -> Key \cup {NoKeys, OperatorKeys}]
    BY <1>7, <2>1 DEF SubmitBatch
  <2> QED
    BY <1>7, <2>1, <2>2 DEF SubmitBatch
<1>8. ASSUME NEW t \in Task, NEW p \in Pod, Chill(t, p) PROVE (TypeOK /\ HoldsPod)'
  BY <1>8 DEF Chill
<1>9. ASSUME NEW t \in Task, TaskDone(t) \/ TaskDies(t) PROVE (TypeOK /\ HoldsPod)'
  <2>1. UNCHANGED <<chainVars, op, lost>>
    BY <1>9 DEF TaskDone, TaskDies
  <2>2. PICK how \in {"done", "dead"} : Finish(t, how)
    BY <1>9 DEF TaskDone, TaskDies
  <2> QED
    BY <2>1, <2>2 DEF Finish
<1>10. ASSUME SessionChange PROVE (TypeOK /\ HoldsPod)'
  BY <1>10 DEF SessionChange
<1>11. CASE UNCHANGED vars
  BY <1>11 DEF vars
<1> QED
  BY <1>1, <1>2, <1>3, <1>4, <1>5, <1>6, <1>7, <1>8, <1>9, <1>10, <1>11 DEF Next, TaskStep

\* Every variable keeps its type, whatever the tasks, the pods and the faults.
THEOREM TypeCorrect == Spec => []TypeOK
<1> QED
  BY TypeInit, TypeStep, PTL DEF Spec

-----------------------------------------------------------------------------
\* What a batch leaves behind when it stops anywhere: a call has run only if
\* those of the batch before it have.
LEMMA RunnableBatch ==
    ASSUME NEW t \in Task, NEW done \in Runnable(t), "validate" \in done
    PROVE  /\ "bond" \in calls[t] => "bond" \in done
           /\ "set_keys" \in calls[t] => "set_keys" \in done
<1> QED
  BY DEF Runnable, Prefixes, Precedes

\* What the calls collected for a pod presuppose of the chain and the node: the
\* stash is bonded if the batch does not bond it, the node holds the keys that
\* the batch sets, and the batch sets keys unless the node may be mute.
BatchInv ==
    \A t \in Task :
        /\ pc[t] = "submit" => "bond" \in calls[t] \/ Stash[holding[t]] \in bonded
        /\ pc[t] \in Building /\ "set_keys" \in calls[t] => t \in keystore[holding[t]]
        /\ pc[t] \in Building /\ holding[t] \notin Mute => "set_keys" \in calls[t]

\* Nothing takes a bond, a key or a stored key away.
Grows ==
    /\ bonded \subseteq bonded'
    /\ Keyed \subseteq Keyed'
    /\ \A p \in Pod : keystore[p] \subseteq keystore'[p]

LEMMA NothingIsTaken == TypeOK /\ HoldsPod /\ [Next]_vars => Grows
<1> SUFFICES ASSUME TypeOK, HoldsPod, [Next]_vars PROVE Grows
  OBVIOUS
<1> USE DEF TypeOK, Grows, Keyed
<1>1. ASSUME NEW t \in Task, SubmitBatch(t) PROVE Grows
  <2>1. holding[t] \in Pod /\ <<holding[t], t>> # NoKeys
    BY <1>1, SentinelAssumption DEF SubmitBatch, HoldsPod, Building, Key
  <2> QED
    BY <1>1, <2>1 DEF SubmitBatch
<1>2. ASSUME NEW t \in Task, NEW p \in Pod,
             RotateKeys(t, p) \/ RotateAnswersNothing(t, p) \/ Chill(t, p)
      PROVE  Grows
  BY <1>2 DEF RotateKeys, RotateAnswersNothing, Chill
<1>3. ASSUME NEW t \in Task,
             \/ ReadSet(t) \/ ReadPendingAddition(t)
             \/ ReadActive(t, "readActive1", "readStaking1")
             \/ ReadActive(t, "readActive2", "readStaking2")
             \/ SelectToRegister(t) \/ SelectToDeregister(t) \/ Fund(t)
             \/ QueryBonded(t) \/ TaskDone(t) \/ TaskDies(t)
      PROVE  Grows
  BY <1>3 DEF ReadSet, ReadActive, ReadPendingAddition, SelectToRegister,
     SelectToDeregister, Fund, QueryBonded, TaskDone, TaskDies
<1>4. ASSUME NEW t \in Task, NEW o \in {"register", "deregister"}, NEW pods \in SUBSET Pod,
             Start(t, o, pods)
      PROVE  Grows
  BY <1>4 DEF Start
<1>5. CASE SessionChange
  BY <1>5 DEF SessionChange
<1>6. CASE UNCHANGED vars
  BY <1>6 DEF vars
<1> QED
  BY <1>1, <1>2, <1>3, <1>4, <1>5, <1>6 DEF Next, TaskStep

LEMMA BatchStep == TypeOK /\ HoldsPod /\ BatchInv /\ [Next]_vars => BatchInv'
<1> SUFFICES ASSUME TypeOK, HoldsPod, BatchInv, [Next]_vars PROVE BatchInv'
  OBVIOUS
<1>0. Grows
  BY NothingIsTaken
\* A step that leaves a task's phase, pod and calls alone keeps its part.
<1>1. ASSUME NEW u \in Task,
             pc'[u] = pc[u], holding'[u] = holding[u], calls'[u] = calls[u]
      PROVE  /\ pc'[u] = "submit" => "bond" \in calls'[u] \/ Stash[holding'[u]] \in bonded'
             /\ pc'[u] \in Building /\ "set_keys" \in calls'[u] => u \in keystore'[holding'[u]]
             /\ pc'[u] \in Building /\ holding'[u] \notin Mute => "set_keys" \in calls'[u]
  BY <1>0, <1>1 DEF BatchInv, Grows, HoldsPod, Building
<1> USE DEF TypeOK, Building
<1>2. ASSUME NEW t \in Task, NEW p \in Pod, RotateKeys(t, p) \/ RotateAnswersNothing(t, p)
      PROVE  BatchInv'
  <2>1. \A u \in Task \ {t} :
           pc'[u] = pc[u] /\ holding'[u] = holding[u] /\ calls'[u] = calls[u]
    BY <1>2 DEF RotateKeys, RotateAnswersNothing
  <2>2. /\ pc'[t] = "queryBonded"
        /\ "set_keys" \in calls'[t] => t \in keystore'[holding'[t]]
        /\ holding'[t] \notin Mute => "set_keys" \in calls'[t]
    BY <1>2 DEF RotateKeys, RotateAnswersNothing
  <2> QED
    BY <1>1, <2>1, <2>2 DEF BatchInv
<1>3. ASSUME NEW t \in Task, QueryBonded(t) PROVE BatchInv'
  <2>1. \A u \in Task \ {t} :
           pc'[u] = pc[u] /\ holding'[u] = holding[u] /\ calls'[u] = calls[u]
    BY <1>3 DEF QueryBonded
  <2>2. /\ "bond" \in calls'[t] \/ Stash[holding'[t]] \in bonded'
        /\ "set_keys" \in calls'[t] <=> "set_keys" \in calls[t]
        /\ keystore' = keystore /\ holding' = holding
    BY <1>3 DEF QueryBonded
  <2>3. pc[t] = "queryBonded"
    BY <1>3 DEF QueryBonded
  <2> QED
    BY <1>1, <2>1, <2>2, <2>3 DEF BatchInv
<1>4. ASSUME NEW t \in Task,
             \/ ReadSet(t) \/ ReadPendingAddition(t)
             \/ ReadActive(t, "readActive1", "readStaking1")
             \/ ReadActive(t, "readActive2", "readStaking2")
             \/ SelectToRegister(t) \/ SelectToDeregister(t) \/ Fund(t)
             \/ SubmitBatch(t) \/ TaskDone(t) \/ TaskDies(t)
      PROVE  BatchInv'
  <2>1. \A u \in Task \ {t} :
           pc'[u] = pc[u] /\ holding'[u] = holding[u] /\ calls'[u] = calls[u]
    BY <1>4 DEF ReadSet, ReadActive, ReadPendingAddition, SelectToRegister,
       SelectToDeregister, Fund, SubmitBatch, TaskDone, TaskDies, Finish
  <2>2. pc'[t] \notin Building
    BY <1>4 DEF ReadSet, ReadActive, ReadPendingAddition, SelectToRegister,
       SelectToDeregister, Fund, SubmitBatch, TaskDone, TaskDies, Finish
  <2> QED
    BY <1>1, <2>1, <2>2 DEF BatchInv
<1>5. ASSUME NEW t \in Task, NEW o \in {"register", "deregister"}, NEW pods \in SUBSET Pod,
             Start(t, o, pods)
      PROVE  BatchInv'
  <2>1. \A u \in Task \ {t} :
           pc'[u] = pc[u] /\ holding'[u] = holding[u] /\ calls'[u] = calls[u]
    BY <1>5 DEF Start
  <2>2. pc'[t] \notin Building
    BY <1>5 DEF Start
  <2> QED
    BY <1>1, <2>1, <2>2 DEF BatchInv
<1>6. ASSUME NEW t \in Task, NEW p \in Pod, Chill(t, p) PROVE BatchInv'
  BY <1>1, <1>6 DEF Chill, BatchInv
<1>7. CASE SessionChange
  BY <1>1, <1>7 DEF SessionChange, BatchInv
<1>8. CASE UNCHANGED vars
  BY <1>1, <1>8 DEF vars, BatchInv
<1> QED
  BY <1>2, <1>3, <1>4, <1>5, <1>6, <1>7, <1>8 DEF Next, TaskStep

-----------------------------------------------------------------------------
\* Only a batch adds candidates, and only the stash of the pod it is for.
LEMMA OnlyBatchesAddCandidates ==
    TypeOK /\ [Next]_vars =>
        \/ staking' \subseteq staking
        \/ \E t \in Task : SubmitBatch(t)
<1> QED
  BY DEF vars, Next, TaskStep, Start, ReadSet, ReadActive, ReadPendingAddition,
     SelectToRegister, SelectToDeregister, Fund, RotateKeys, RotateAnswersNothing,
     QueryBonded, Chill, TaskDone, TaskDies, SessionChange

\* A batch that makes the stash a candidate finds it, or makes it, bonded, and
\* sets its keys unless the pod's node may be mute.
LEMMA BatchAddsBondedKeyed ==
    ASSUME TypeOK, HoldsPod, BatchInv, NEW t \in Task, SubmitBatch(t)
    PROVE  \/ staking' = staking
           \/ /\ staking' = staking \cup {Stash[holding[t]]}
              /\ Stash[holding[t]] \in bonded'
              /\ Stash[holding[t]] \in Keyed' \cup {Stash[p] : p \in Mute}
<1>0. /\ holding[t] \in Pod /\ Stash[holding[t]] \in Account
      /\ <<holding[t], t>> # NoKeys
  BY StashAssumption, SentinelAssumption DEF SubmitBatch, HoldsPod, Building, Key
<1>1. PICK done \in Runnable(t) :
         /\ bonded' = IF "bond" \in done THEN bonded \cup {Stash[holding[t]]} ELSE bonded
         /\ nextKeys' = IF "set_keys" \in done
                        THEN [nextKeys EXCEPT ![Stash[holding[t]]] = <<holding[t], t>>]
                        ELSE nextKeys
         /\ staking' = IF "validate" \in done THEN staking \cup {Stash[holding[t]]} ELSE staking
  BY DEF SubmitBatch
<1>2. CASE "validate" \in done
  <2>1. Stash[holding[t]] \in bonded'
    BY <1>1, <1>2, RunnableBatch DEF BatchInv, SubmitBatch
  <2>2. ASSUME holding[t] \notin Mute PROVE Stash[holding[t]] \in Keyed'
    <3>1. "set_keys" \in done
      BY <1>2, <2>2, RunnableBatch DEF BatchInv, SubmitBatch, Building
    <3> QED
      BY <1>0, <1>1, <3>1 DEF Keyed, TypeOK
  <2> QED
    BY <1>1, <1>2, <2>1, <2>2
<1>3. CASE "validate" \notin done
  BY <1>1, <1>3
<1> QED
  BY <1>2, <1>3

LEMMA BondedStep ==
    TypeOK /\ HoldsPod /\ BatchInv /\ StakingValidatorsBonded /\ [Next]_vars
        => StakingValidatorsBonded'
<1> QED
  BY OnlyBatchesAddCandidates, BatchAddsBondedKeyed, NothingIsTaken
  DEF StakingValidatorsBonded, Grows

LEMMA KeyedStep ==
    TypeOK /\ HoldsPod /\ BatchInv /\ StakingValidatorsKeyed /\ [Next]_vars
        => StakingValidatorsKeyed'
<1> QED
  BY OnlyBatchesAddCandidates, BatchAddsBondedKeyed, NothingIsTaken
  DEF StakingValidatorsKeyed, Grows

LEMMA HeldStep ==
    TypeOK /\ HoldsPod /\ BatchInv /\ OnChainKeysHeldByNode /\ [Next]_vars
        => OnChainKeysHeldByNode'
<1> SUFFICES ASSUME TypeOK, HoldsPod, BatchInv, OnChainKeysHeldByNode, [Next]_vars,
                    NEW p \in Pod, nextKeys'[Stash[p]] # NoKeys
             PROVE  \E u \in keystore'[p] : nextKeys'[Stash[p]] = <<p, u>>
  BY DEF OnChainKeysHeldByNode
<1>0. Grows
  BY NothingIsTaken
<1>1. CASE nextKeys'[Stash[p]] = nextKeys[Stash[p]]
  BY <1>0, <1>1 DEF OnChainKeysHeldByNode, Grows
<1>2. ASSUME NEW t \in Task, SubmitBatch(t), nextKeys'[Stash[p]] # nextKeys[Stash[p]]
      PROVE  \E u \in keystore'[p] : nextKeys'[Stash[p]] = <<p, u>>
  <2>1. holding[t] \in Pod /\ Stash[holding[t]] \in Account
    BY <1>2, StashAssumption DEF SubmitBatch, HoldsPod, Building
  <2>2. PICK done \in Runnable(t) :
           nextKeys' = IF "set_keys" \in done
                       THEN [nextKeys EXCEPT ![Stash[holding[t]]] = <<holding[t], t>>]
                       ELSE nextKeys
    BY <1>2 DEF SubmitBatch
  <2>3. "set_keys" \in done /\ Stash[p] = Stash[holding[t]]
    BY <1>2, <2>1, <2>2, StashAssumption DEF TypeOK
  <2>4. p = holding[t]
    BY <2>1, <2>3, StashAssumption
  <2>5. "set_keys" \in calls[t]
    BY <2>2, <2>3 DEF Runnable, Prefixes
  <2>6. t \in keystore'[p]
    BY <1>2, <2>4, <2>5 DEF BatchInv, SubmitBatch, Building
  <2>7. nextKeys'[Stash[p]] = <<p, t>>
    BY <2>1, <2>2, <2>3, <2>4 DEF TypeOK
  <2> QED
    BY <2>6, <2>7
<1>3. nextKeys' = nextKeys \/ \E t \in Task : SubmitBatch(t)
  BY DEF vars, Next, TaskStep, Start, ReadSet, ReadActive, ReadPendingAddition,
     SelectToRegister, SelectToDeregister, Fund, RotateKeys, RotateAnswersNothing,
     QueryBonded, Chill, TaskDone, TaskDies, SessionChange
<1> QED
  BY <1>1, <1>2, <1>3

-----------------------------------------------------------------------------
IInv ==
    /\ TypeOK /\ HoldsPod /\ BatchInv
    /\ StakingValidatorsBonded /\ StakingValidatorsKeyed
    /\ OnChainKeysHeldByNode

LEMMA IInvInit == Init => IInv
<1> SUFFICES ASSUME Init PROVE IInv
  OBVIOUS
<1>1. BatchInv /\ StakingValidatorsBonded
  BY DEF Init, BatchInv, Building, StakingValidatorsBonded
<1>2. StakingValidatorsKeyed
  BY GenesisAssumption, SentinelAssumption DEF Init, StakingValidatorsKeyed, Keyed
<1>3. OnChainKeysHeldByNode
  BY GenesisAssumption, StashAssumption DEF Init, OnChainKeysHeldByNode, StashAccounts
<1> QED
  BY <1>1, <1>2, <1>3, TypeInit DEF IInv

LEMMA Invariant == Spec => []IInv
<1>1. IInv /\ [Next]_vars => IInv'
  BY TypeStep, BatchStep, BondedStep, KeyedStep, HeldStep DEF IInv
<1> QED
  BY <1>1, IInvInit, PTL DEF Spec

\* Only bonded accounts become candidates, wherever a batch stops and whichever
\* tasks race for a stash.
THEOREM CandidatesBonded == Spec => []StakingValidatorsBonded
<1>1. IInv => StakingValidatorsBonded
  BY DEF IInv
<1> QED
  BY <1>1, Invariant, PTL

\* The keys on chain for a pod's stash are always keys its node holds.
THEOREM OnChainKeysHeld == Spec => []OnChainKeysHeldByNode
<1>1. IInv => OnChainKeysHeldByNode
  BY DEF IInv
<1> QED
  BY <1>1, Invariant, PTL

\* A candidate has its keys on chain, unless it is the stash of a node that may
\* rotate its keys without an answer.
THEOREM CandidatesKeyed == Spec => []StakingValidatorsKeyed
<1>1. IInv => StakingValidatorsKeyed
  BY DEF IInv
<1> QED
  BY <1>1, Invariant, PTL

-----------------------------------------------------------------------------
(* PosValidators implements StakingRegistration. *)

\* A task works on what it was asked for: the pods it has left, and the one at
\* hand, are among those named, and its phase is one of its operation.
ServesAs(t) ==
    /\ pc[t] \in Active => op[t] \in {"register", "deregister"}
    /\ pc[t] \in {"fund", "setUp"} \cup Building => op[t] = "register"
    /\ pc[t] = "chill" => op[t] = "deregister"
    /\ pc[t] \notin {"fund", "setUp", "chill"} \cup Building => todo[t] = {}
    /\ pc[t] \in Building => holding[t] \in todo[t]
    /\ todo[t] \subseteq req[t]

Serves == \A t \in Task : ServesAs(t)

LEMMA ServesStep == TypeOK /\ Serves /\ [Next]_vars => Serves'
<1> SUFFICES ASSUME TypeOK, Serves, [Next]_vars PROVE Serves'
  OBVIOUS
<1> USE DEF TypeOK, Active, Reads, Building, ServesAs
\* A step changes the locals of one task.
<1>0. ASSUME NEW t \in Task, ServesAs(t)',
             \A u \in Task \ {t} : /\ pc'[u] = pc[u] /\ op'[u] = op[u] /\ req'[u] = req[u]
                                   /\ todo'[u] = todo[u] /\ holding'[u] = holding[u]
      PROVE Serves'
  BY <1>0 DEF Serves
<1>1. ASSUME NEW t \in Task, NEW o \in {"register", "deregister"}, NEW pods \in SUBSET Pod,
             Start(t, o, pods)
      PROVE  Serves'
  <2>1. ServesAs(t)
    BY DEF Serves
  <2> QED
    BY <1>0, <1>1, <2>1 DEF Start
<1>2. ASSUME NEW t \in Task,
             \/ ReadSet(t) \/ ReadPendingAddition(t)
             \/ ReadActive(t, "readActive1", "readStaking1")
             \/ ReadActive(t, "readActive2", "readStaking2")
             \/ SelectToRegister(t) \/ SelectToDeregister(t)
      PROVE  Serves'
  <2>1. ServesAs(t)
    BY DEF Serves
  <2> QED
    BY <1>0, <1>2, <2>1 DEF ReadSet, ReadActive, ReadPendingAddition, SelectToRegister,
       SelectToDeregister
<1>3. ASSUME NEW t \in Task, Fund(t) \/ QueryBonded(t) \/ SubmitBatch(t) PROVE Serves'
  <2>1. ServesAs(t)
    BY DEF Serves
  <2> QED
    BY <1>0, <1>3, <2>1 DEF Fund, QueryBonded, SubmitBatch
<1>4. ASSUME NEW t \in Task, NEW p \in Pod,
             RotateKeys(t, p) \/ RotateAnswersNothing(t, p) \/ Chill(t, p)
      PROVE  Serves'
  <2>1. ServesAs(t)
    BY DEF Serves
  <2> QED
    BY <1>0, <1>4, <2>1 DEF RotateKeys, RotateAnswersNothing, Chill
<1>5. ASSUME NEW t \in Task, TaskDone(t) \/ TaskDies(t) PROVE Serves'
  <2>1. PICK how \in {"done", "dead"} : Finish(t, how) /\ op' = op
    BY <1>5 DEF TaskDone, TaskDies
  <2> QED
    BY <1>0, <2>1 DEF Finish
<1>6. CASE SessionChange \/ UNCHANGED vars
  BY <1>6 DEF SessionChange, vars, Serves
<1> QED
  BY <1>1, <1>2, <1>3, <1>4, <1>5, <1>6 DEF Next, TaskStep

\* Keys on chain are the operators', or held by a node of their account.
KeysOrigin == \A a \in Account : nextKeys[a] \in {NoKeys, OperatorKeys} \/ HeldByNode(a)

\* Keys change only for the stash of the pod whose batch is submitted, to the
\* ones just rotated there.
LEMMA OnlyBatchesSetKeys ==
    TypeOK /\ [Next]_vars =>
        \/ nextKeys' = nextKeys
        \/ \E t \in Task : SubmitBatch(t)
<1> QED
  BY DEF vars, Next, TaskStep, Start, ReadSet, ReadActive, ReadPendingAddition,
     SelectToRegister, SelectToDeregister, Fund, RotateKeys, RotateAnswersNothing,
     QueryBonded, Chill, TaskDone, TaskDies, SessionChange

LEMMA OriginStep == TypeOK /\ HoldsPod /\ BatchInv /\ KeysOrigin /\ [Next]_vars => KeysOrigin'
<1> SUFFICES ASSUME TypeOK, HoldsPod, BatchInv, KeysOrigin, [Next]_vars, NEW a \in Account
             PROVE  nextKeys'[a] \in {NoKeys, OperatorKeys} \/ HeldByNode(a)'
  BY DEF KeysOrigin
<1>0. Grows
  BY NothingIsTaken
<1>1. CASE nextKeys'[a] = nextKeys[a]
  BY <1>0, <1>1 DEF KeysOrigin, HeldByNode, Grows
<1>2. ASSUME NEW t \in Task, SubmitBatch(t), nextKeys'[a] # nextKeys[a]
      PROVE  HeldByNode(a)'
  <2>1. holding[t] \in Pod
    BY <1>2 DEF SubmitBatch, HoldsPod, Building
  <2>2. PICK done \in Runnable(t) :
           nextKeys' = IF "set_keys" \in done
                       THEN [nextKeys EXCEPT ![Stash[holding[t]]] = <<holding[t], t>>]
                       ELSE nextKeys
    BY <1>2 DEF SubmitBatch
  <2>3. "set_keys" \in calls[t] /\ a = Stash[holding[t]] /\ nextKeys'[a] = <<holding[t], t>>
    BY <1>2, <2>2 DEF TypeOK, Runnable, Prefixes
  <2>4. t \in keystore'[holding[t]]
    BY <1>2, <2>3 DEF BatchInv, SubmitBatch, Building
  <2> QED
    BY <2>1, <2>3, <2>4 DEF HeldByNode
<1> QED
  BY <1>1, <1>2, OnlyBatchesSetKeys

RInv == IInv /\ Serves /\ KeysOrigin

LEMMA RInvariant == Spec => []RInv
<1>1. Init => Serves /\ KeysOrigin
  BY DEF Init, Serves, ServesAs, KeysOrigin, Active, Reads, Building
<1>2. RInv /\ [Next]_vars => RInv'
  BY ServesStep, OriginStep, TypeStep, BatchStep, BondedStep, KeyedStep, HeldStep DEF RInv, IInv
<1> QED
  BY <1>1, <1>2, IInvInit, PTL DEF Spec, RInv

\* While no keys are set, the kind of each account's keys stays as it is.
LEMMA SameKinds ==
    ASSUME RInv, [Next]_vars, nextKeys' = nextKeys
    PROVE  [a \in Account |-> KindOfKeys(a)]' = [a \in Account |-> KindOfKeys(a)]
<1>1. \A p \in Pod : keystore[p] \subseteq keystore'[p]
  BY NothingIsTaken DEF RInv, IInv, Grows
<1>2. \A a \in Account : KindOfKeys(a)' = KindOfKeys(a)
  BY <1>1 DEF KindOfKeys, HeldByNode, RInv, KeysOrigin
<1> QED
  BY <1>2

LEMMA InitImplements == Init => Promise!Init
<1> SUFFICES ASSUME Init PROVE Promise!Init
  OBVIOUS
<1>1. \A t \in Task : Status(t) = "idle" /\ StashesOf(req[t]) = {}
  BY DEF Init, Status, StashesOf
<1>2. \A a \in Account : KindOfKeys(a) = IF a \in validators THEN "operator" ELSE "none"
  BY SentinelAssumption DEF Init, KindOfKeys
<1> QED
  BY <1>1, <1>2, GenesisAssumption DEF Init, Promise!Init

\* Pods at work see their stashes named, and a batch is a set-up of one of them.
LEMMA BatchImplements ==
    ASSUME RInv, [Next]_vars, NEW t \in Task, SubmitBatch(t)
    PROVE  Promise!SetUp(t)
<1> USE DEF RInv, IInv
<1>1. /\ holding[t] \in req[t] /\ holding[t] \in Pod /\ op[t] = "register"
      /\ pc[t] = "submit" /\ Stash[holding[t]] \in Account
  BY StashAssumption DEF SubmitBatch, Serves, ServesAs, Building, HoldsPod
<1>2. PICK h \in Pod, s \in Account : h = holding[t] /\ s = Stash[h]
  BY <1>1
<1>3. PICK done \in Runnable(t) :
        /\ bonded' = IF "bond" \in done THEN bonded \cup {s} ELSE bonded
        /\ nextKeys' = IF "set_keys" \in done THEN [nextKeys EXCEPT ![s] = <<h, t>>] ELSE nextKeys
        /\ staking' = IF "validate" \in done THEN staking \cup {s} ELSE staking
  BY <1>2 DEF SubmitBatch
<1>4. Status(t) = "register" /\ s \in StashesOf(req[t])
  BY <1>1, <1>2 DEF Status, StashesOf, Active
<1>5. \A u \in Task : Status(u)' = Status(u) /\ StashesOf(req[u])' = StashesOf(req[u])
  BY DEF SubmitBatch, Status, StashesOf, Active, TypeOK
<1>6. "set_keys" \in done \/ "validate" \in done => s \in bonded'
  BY <1>1, <1>2, <1>3 DEF Runnable, Prefixes, Precedes, BatchInv
<1>7. ASSUME "set_keys" \in done
      PROVE  /\ KindOfKeys(s) \in {"none", "node"}
             /\ [a \in Account |-> KindOfKeys(a)]' =
                    [[a \in Account |-> KindOfKeys(a)] EXCEPT ![s] = "node"]
  <2>1. t \in keystore[h] /\ keystore' = keystore
    BY <1>1, <1>2, <1>7 DEF Runnable, Prefixes, BatchInv, Building, SubmitBatch
  <2>2. <<h, t>> \in Key /\ nextKeys'[s] = <<h, t>>
    BY <1>3, <1>7 DEF Key, TypeOK
  <2>3. KindOfKeys(s)' = "node"
    BY <1>2, <2>1, <2>2, SentinelAssumption DEF KindOfKeys, HeldByNode
  <2>4. KindOfKeys(s) \in {"none", "node"}
    <3>1. nextKeys[s] # NoKeys => \E u \in keystore[h] : nextKeys[s] = <<h, u>>
      BY <1>2 DEF OnChainKeysHeldByNode
    <3>2. ASSUME NEW u \in keystore[h], nextKeys[s] = <<h, u>>
          PROVE  HeldByNode(s) /\ nextKeys[s] \in Key
      <4>1. u \in Task
        BY DEF TypeOK
      <4> QED
        BY <1>2, <3>2, <4>1 DEF HeldByNode, Key
    <3> QED
      BY <3>1, <3>2, SentinelAssumption DEF KindOfKeys
  <2>5. \A a \in Account \ {s} : KindOfKeys(a)' = KindOfKeys(a)
    BY <1>3, <1>7, <2>1 DEF KindOfKeys, HeldByNode, TypeOK
  <2> QED
    BY <2>3, <2>4, <2>5
<1>8. "set_keys" \notin done => [a \in Account |-> KindOfKeys(a)]' = [a \in Account |-> KindOfKeys(a)]
  BY <1>3, SameKinds
<1>9. "validate" \in done => s \in Promise!Keyed' \cup StashesOf(Mute)
  <2>1. ASSUME "validate" \in done, h \notin Mute PROVE s \in Promise!Keyed'
    <3>1. "set_keys" \in done
      BY <1>1, <1>2, <2>1, RunnableBatch DEF BatchInv, Building
    <3>2. KindOfKeys(s)' = "node"
      BY <1>7, <3>1
    <3> QED
      BY <3>2 DEF Promise!Keyed
  <2> QED
    BY <1>2, <2>1 DEF StashesOf
<1>10. Promise!Gets(s, done)
  <2>1. done # {} => s \in bonded'
    <3>1. done \subseteq Call
      BY DEF Runnable, Prefixes, TypeOK
    <3> QED
      BY <1>3, <1>6, <3>1 DEF Call
  <2> QED
    BY <1>3, <1>7, <1>8, <1>9, <2>1 DEF Promise!Gets
<1>11. /\ [u \in Task |-> Status(u)]' = [u \in Task |-> Status(u)]
       /\ [u \in Task |-> StashesOf(req[u])]' = [u \in Task |-> StashesOf(req[u])]
       /\ UNCHANGED <<validators, queued>>
  BY <1>5 DEF SubmitBatch
<1>12. /\ s \in [u \in Task |-> StashesOf(req[u])][t]
       /\ done \in SUBSET Promise!Part
  BY <1>4 DEF Runnable, Prefixes, TypeOK, Call, Promise!Part
<1> QED
  BY <1>4, <1>10, <1>11, <1>12 DEF Promise!SetUp

LEMMA StepImplements == RInv /\ [Next]_vars => [Promise!Next]_(Promise!vars)
<1> SUFFICES ASSUME RInv, [Next]_vars PROVE Promise!Next \/ UNCHANGED Promise!vars
  OBVIOUS
<1>a. TypeOK /\ Serves
  BY DEF RInv, IInv
<1>b. nextKeys' = nextKeys =>
        [a \in Account |-> KindOfKeys(a)]' = [a \in Account |-> KindOfKeys(a)]
  BY SameKinds
<1>1. ASSUME NEW t \in Task, NEW o \in {"register", "deregister"}, NEW pods \in SUBSET Pod,
             Start(t, o, pods)
      PROVE  Promise!Ask(t)
  <2>1. Status(t) = "idle" /\ Status(t)' = o
    BY <1>1, <1>a DEF Start, Status, Active, Reads, TypeOK
  <2>2. StashesOf(req[t])' = StashesOf(pods) /\ StashesOf(pods) \in SUBSET Account
    BY <1>1, <1>a, StashAssumption DEF Start, StashesOf, TypeOK
  <2>3. \A u \in Task \ {t} : Status(u)' = Status(u) /\ StashesOf(req[u])' = StashesOf(req[u])
    BY <1>1, <1>a DEF Start, Status, StashesOf, TypeOK
  <2>4. /\ [u \in Task |-> Status(u)]' = [[u \in Task |-> Status(u)] EXCEPT ![t] = o]
        /\ [u \in Task |-> StashesOf(req[u])]' =
               [[u \in Task |-> StashesOf(req[u])] EXCEPT ![t] = StashesOf(pods)]
    BY <2>1, <2>2, <2>3
  <2>5. UNCHANGED chainVars
    BY <1>1 DEF Start
  <2> QED
    BY <1>b, <2>1, <2>2, <2>4, <2>5 DEF Promise!Ask, Promise!Asked, Promise!chain
<1>2. ASSUME NEW t \in Task,
             \/ ReadSet(t) \/ ReadPendingAddition(t)
             \/ ReadActive(t, "readActive1", "readStaking1")
             \/ ReadActive(t, "readActive2", "readStaking2")
             \/ SelectToRegister(t) \/ SelectToDeregister(t) \/ Fund(t) \/ QueryBonded(t)
             \/ \E p \in Pod : RotateKeys(t, p) \/ RotateAnswersNothing(t, p)
      PROVE  UNCHANGED Promise!vars
  <2>1. /\ UNCHANGED <<validators, queued, staking, bonded, nextKeys, op, req>>
        /\ pc[t] \in Active /\ pc'[t] \in Active
        /\ \A u \in Task \ {t} : pc'[u] = pc[u]
    BY <1>2, <1>a DEF TypeOK, Active, Reads, ReadSet, ReadPendingAddition, ReadActive,
       SelectToRegister, SelectToDeregister, Fund, QueryBonded, RotateKeys, RotateAnswersNothing
  <2>2. \A u \in Task : Status(u)' = Status(u)
    BY <2>1 DEF Status, Active, Reads
  <2> QED
    BY <1>b, <2>1, <2>2 DEF Promise!vars, Promise!chain, StashesOf
<1>3. ASSUME NEW t \in Task, NEW p \in Pod, Chill(t, p)
      PROVE  Promise!Dismiss(t) \/ UNCHANGED Promise!vars
  <2>1. /\ p \in req[t] /\ Status(t) = "deregister"
        /\ staking' \in {staking, staking \ {Stash[p]}}
        /\ UNCHANGED <<validators, queued, bonded, nextKeys, pc, op, req>>
    BY <1>3, <1>a DEF Chill, Serves, ServesAs, Status, Active
  <2>2. Stash[p] \in StashesOf(req[t])
    BY <2>1 DEF StashesOf
  <2>3. \A u \in Task : Status(u)' = Status(u) /\ StashesOf(req[u])' = StashesOf(req[u])
    BY <2>1 DEF Status, StashesOf
  <2> QED
    BY <1>b, <2>1, <2>2, <2>3 DEF Promise!Dismiss, Promise!vars, Promise!chain
<1>4. ASSUME NEW t \in Task, TaskDone(t) \/ TaskDies(t) PROVE Promise!Answer(t)
  <2>1. /\ UNCHANGED <<chainVars, op>> /\ pc[t] \in Active
        /\ \E how \in {"done", "dead"} : Finish(t, how)
    BY <1>4 DEF TaskDone, TaskDies, Active
  <2>2. Status(t) \in {"register", "deregister"} /\ Status(t)' = "over" /\ StashesOf(req[t])' = {}
    BY <1>a, <2>1 DEF Finish, Status, Serves, ServesAs, Active, Reads, TypeOK, StashesOf
  <2>3. \A u \in Task \ {t} : Status(u)' = Status(u) /\ StashesOf(req[u])' = StashesOf(req[u])
    BY <1>a, <2>1 DEF Finish, Status, TypeOK, StashesOf
  <2>4. /\ [u \in Task |-> Status(u)]' = [[u \in Task |-> Status(u)] EXCEPT ![t] = "over"]
        /\ [u \in Task |-> StashesOf(req[u])]' =
               [[u \in Task |-> StashesOf(req[u])] EXCEPT ![t] = {}]
    BY <2>2, <2>3
  <2> QED
    BY <1>b, <2>1, <2>2, <2>4 DEF Promise!Answer, Promise!Asked, Promise!chain
<1>5. ASSUME SessionChange PROVE Promise!NewSession
  <2>1. UNCHANGED <<staking, bonded, nextKeys, pc, op, req>>
    BY <1>5 DEF SessionChange
  <2>2. \A u \in Task : Status(u)' = Status(u) /\ StashesOf(req[u])' = StashesOf(req[u])
    BY <2>1 DEF Status, StashesOf
  <2>3. Promise!Keyed = Keyed
    BY DEF Promise!Keyed, Keyed, KindOfKeys
  <2> QED
    BY <1>5, <1>b, <2>1, <2>2, <2>3 DEF SessionChange, Promise!NewSession
<1>6. CASE UNCHANGED vars
  BY <1>6 DEF vars, Promise!vars, Promise!chain, Status, StashesOf, KindOfKeys, HeldByNode
<1>7. ASSUME NEW t \in Task, SubmitBatch(t) PROVE Promise!SetUp(t)
  BY <1>7, BatchImplements
<1> QED
  BY <1>1, <1>2, <1>3, <1>4, <1>5, <1>6, <1>7 DEF Next, TaskStep, Promise!Next

\* Whatever tasks race and wherever batches stop, what they do to the chain is
\* what the requests they serve may do: bonds, keys held by the account's own
\* node and candidacies, in this order and for accounts that were asked for.
THEOREM Implements == Spec => ImplementsPromise
<1> QED
  BY InitImplements, StepImplements, RInvariant, PTL DEF Spec, ImplementsPromise, Promise!Spec
-----------------------------------------------------------------------------
(* Why every task is over in the end: the steps it has left decrease         *)

\* The most steps task t may still take: three for each pod to set up, one for
\* each to chill, and the reads, the funding and the return around them.
StepsLeft(t) ==
    LET asked == Cardinality(req[t])
        left == Cardinality(todo[t])
    IN CASE pc[t] = "readSet"      -> 3 * asked + 7
         [] pc[t] = "readActive1"  -> 3 * asked + 6
         [] pc[t] = "readStaking1" -> 3 * asked + 5
         [] pc[t] = "readActive2"  -> 3 * asked + 4
         [] pc[t] = "readStaking2" -> 3 * asked + 3
         [] pc[t] = "fund"         -> 3 * left + 2
         [] pc[t] = "setUp"        -> 3 * left + 1
         [] pc[t] = "queryBonded"  -> 3 * left
         [] pc[t] = "submit"       -> 3 * left - 1
         [] pc[t] = "chill"        -> left + 1
         [] OTHER                  -> 0

\* A task comes nearer to its end with each step it takes, and no other task, no
\* session and no fault throws it back.
StepsDecrease ==
    \A t \in Task :
        /\ pc[t] \in Active => StepsLeft(t)' <= StepsLeft(t)
        /\ TaskStep(t) => StepsLeft(t)' < StepsLeft(t)

\* The pods asked for and the pods left can be counted.
Counted(t) ==
    /\ Cardinality(req[t]) \in Nat /\ Cardinality(todo[t]) \in Nat
    /\ IsFiniteSet(req[t]) /\ IsFiniteSet(todo[t])
    /\ Cardinality(todo[t]) <= Cardinality(req[t])

\* Taking one element away.
LEMMA OneLess ==
    ASSUME NEW S, IsFiniteSet(S), NEW x \in S
    PROVE  Cardinality(S \ {x}) = Cardinality(S) - 1
BY FS_RemoveElement

LEMMA TaskCounted ==
    ASSUME IsFiniteSet(Pod), TypeOK, Serves, NEW t \in Task
    PROVE  Counted(t) /\ (pc[t] \in Building => Cardinality(todo[t]) > 0)
<1>1. req[t] \subseteq Pod /\ todo[t] \subseteq req[t]
  BY DEF TypeOK, Serves, ServesAs
<1>2. IsFiniteSet(req[t]) /\ Cardinality(req[t]) \in Nat
  BY <1>1, FS_Subset, FS_CardinalityType
<1>3. IsFiniteSet(todo[t]) /\ Cardinality(todo[t]) \in Nat
      /\ Cardinality(todo[t]) <= Cardinality(req[t])
  BY <1>1, <1>2, FS_Subset, FS_CardinalityType
<1>4. pc[t] \in Building => Cardinality(todo[t]) # 0
  BY <1>3, FS_EmptySet DEF Serves, ServesAs
<1> QED
  BY <1>2, <1>3, <1>4 DEF Counted

LEMMA StepsLeftNat ==
    ASSUME IsFiniteSet(Pod), TypeOK, Serves, NEW t \in Task
    PROVE  StepsLeft(t) \in Nat /\ (pc[t] \in Active => StepsLeft(t) > 0)
<1>1. Counted(t) /\ (pc[t] \in Building => Cardinality(todo[t]) > 0)
  BY TaskCounted
<1> QED
  BY <1>1 DEF Counted, StepsLeft, Active, Reads, Building

\* The steps of the task itself.
LEMMA OwnStepsDecrease ==
    ASSUME IsFiniteSet(Pod), TypeOK, Serves, NEW t \in Task, TaskStep(t)
    PROVE  StepsLeft(t)' < StepsLeft(t)
<1>0. Counted(t) /\ (pc[t] \in Building => Cardinality(todo[t]) > 0)
  BY TaskCounted
<1> USE DEF TypeOK
<1>1. CASE \/ ReadSet(t) \/ ReadPendingAddition(t)
           \/ ReadActive(t, "readActive1", "readStaking1")
           \/ ReadActive(t, "readActive2", "readStaking2")
  BY <1>0, <1>1 DEF ReadSet, ReadPendingAddition, ReadActive, StepsLeft, Counted
<1>2. CASE SelectToRegister(t) \/ SelectToDeregister(t)
  <2>1. todo'[t] \subseteq req[t] /\ pc[t] = "readStaking2" /\ pc'[t] \in {"fund", "chill"}
    BY <1>2 DEF SelectToRegister, SelectToDeregister
  <2>2. Cardinality(todo'[t]) \in Nat /\ Cardinality(todo'[t]) <= Cardinality(req[t])
    BY <1>0, <2>1, FS_Subset, FS_CardinalityType DEF Counted
  <2> QED
    BY <1>0, <2>1, <2>2 DEF StepsLeft, Counted
<1>3. CASE Fund(t) \/ QueryBonded(t)
  BY <1>0, <1>3 DEF Fund, QueryBonded, StepsLeft, Counted
<1>4. ASSUME NEW p \in Pod, RotateKeys(t, p) \/ RotateAnswersNothing(t, p)
      PROVE  StepsLeft(t)' < StepsLeft(t)
  BY <1>0, <1>4 DEF RotateKeys, RotateAnswersNothing, StepsLeft, Counted
<1>5. CASE SubmitBatch(t)
  <2>1. pc[t] = "submit" /\ pc'[t] = "setUp" /\ todo'[t] = todo[t] \ {holding[t]}
    BY <1>5 DEF SubmitBatch
  <2>2. holding[t] \in todo[t]
    BY <2>1 DEF Serves, ServesAs, Building
  <2>3. Cardinality(todo'[t]) = Cardinality(todo[t]) - 1
    BY <1>0, <2>1, <2>2, OneLess DEF Counted
  <2> QED
    BY <1>0, <2>1, <2>3 DEF StepsLeft, Counted
<1>6. ASSUME NEW p \in Pod, Chill(t, p) PROVE StepsLeft(t)' < StepsLeft(t)
  <2>1. pc[t] = "chill" /\ pc'[t] = "chill" /\ todo'[t] = todo[t] \ {p} /\ p \in todo[t]
    BY <1>6 DEF Chill
  <2>2. Cardinality(todo'[t]) = Cardinality(todo[t]) - 1
    BY <1>0, <2>1, OneLess DEF Counted
  <2> QED
    BY <1>0, <2>1, <2>2 DEF StepsLeft, Counted
<1>7. CASE TaskDone(t)
  <2>1. pc[t] \in {"setUp", "chill"} /\ pc'[t] = "done"
    BY <1>7 DEF TaskDone, Finish
  <2> QED
    BY <1>0, <2>1 DEF StepsLeft, Counted
<1> QED
  BY <1>1, <1>2, <1>3, <1>4, <1>5, <1>6, <1>7 DEF TaskStep

\* Steps that leave the task's phase and pods alone leave it its steps.
LEMMA OthersSpareSteps ==
    ASSUME TypeOK, NEW t \in Task,
           \/ \E u \in Task \ {t} :
                 \/ \E o \in {"register", "deregister"}, pods \in SUBSET Pod : Start(u, o, pods)
                 \/ TaskStep(u) \/ TaskDies(u)
           \/ SessionChange \/ UNCHANGED vars
    PROVE  StepsLeft(t)' = StepsLeft(t)
<1> USE DEF TypeOK
<1>1. pc'[t] = pc[t] /\ todo'[t] = todo[t] /\ req'[t] = req[t]
  <2>1. CASE SessionChange \/ UNCHANGED vars
    BY <2>1 DEF SessionChange, vars
  <2>2. ASSUME NEW u \in Task \ {t}, NEW o \in {"register", "deregister"},
               NEW pods \in SUBSET Pod, Start(u, o, pods)
        PROVE  pc'[t] = pc[t] /\ todo'[t] = todo[t] /\ req'[t] = req[t]
    BY <2>2 DEF Start
  <2>3. ASSUME NEW u \in Task \ {t}, TaskStep(u) \/ TaskDies(u)
        PROVE  pc'[t] = pc[t] /\ todo'[t] = todo[t] /\ req'[t] = req[t]
    BY <2>3 DEF TaskStep, TaskDies, ReadSet, ReadActive, ReadPendingAddition,
       SelectToRegister, SelectToDeregister, Fund, RotateKeys, RotateAnswersNothing,
       QueryBonded, SubmitBatch, Chill, TaskDone, Finish
  <2> QED
    BY <2>1, <2>2, <2>3
<1> QED
  BY <1>1 DEF StepsLeft

LEMMA StepsStep ==
    ASSUME IsFiniteSet(Pod), TypeOK, Serves, TypeOK', Serves', [Next]_vars
    PROVE  StepsDecrease
<1> SUFFICES ASSUME NEW t \in Task
             PROVE  /\ pc[t] \in Active => StepsLeft(t)' <= StepsLeft(t)
                    /\ TaskStep(t) => StepsLeft(t)' < StepsLeft(t)
  BY DEF StepsDecrease
<1>1. StepsLeft(t) \in Nat /\ StepsLeft(t)' \in Int
  <2>1. req'[t] \subseteq Pod /\ todo'[t] \subseteq Pod
    BY DEF TypeOK
  <2>2. Cardinality(req'[t]) \in Nat /\ Cardinality(todo'[t]) \in Nat
    BY <2>1, FS_Subset, FS_CardinalityType
  <2>3. StepsLeft(t)' \in Int
    BY <2>2 DEF StepsLeft
  <2> QED
    BY <2>3, StepsLeftNat
<1>2. TaskStep(t) => StepsLeft(t)' < StepsLeft(t)
  BY OwnStepsDecrease
<1>3. ASSUME TaskDies(t) PROVE StepsLeft(t)' <= StepsLeft(t)
  <2>1. pc'[t] = "dead"
    BY <1>3 DEF TaskDies, Finish, TypeOK
  <2>2. StepsLeft(t)' = 0
    BY <2>1 DEF StepsLeft
  <2> QED
    BY <1>1, <2>2
<1>4. ASSUME NEW o \in {"register", "deregister"}, NEW pods \in SUBSET Pod, Start(t, o, pods)
      PROVE  pc[t] \notin Active
  BY <1>4 DEF Start, Active, Reads
<1>5. CASE \/ \E u \in Task \ {t} :
                 \/ \E o \in {"register", "deregister"}, pods \in SUBSET Pod : Start(u, o, pods)
                 \/ TaskStep(u) \/ TaskDies(u)
           \/ SessionChange \/ UNCHANGED vars
  BY <1>1, <1>2, <1>5, OthersSpareSteps
<1> QED
  BY <1>1, <1>2, <1>3, <1>4, <1>5 DEF Next

\* A task takes 3 n + 7 steps at most for n pods: whatever the other tasks and the
\* sessions make of the lists it reads, it ends if it goes on.
THEOREM TasksAdvance == IsFiniteSet(Pod) => (Spec => [][StepsDecrease]_vars)
<1> SUFFICES ASSUME IsFiniteSet(Pod) PROVE Spec => [][StepsDecrease]_vars
  OBVIOUS
<1>1. RInv /\ RInv' /\ [Next]_vars => StepsDecrease
  BY StepsStep DEF RInv, IInv
<1> QED
  BY <1>1, RInvariant, PTL DEF Spec
=============================================================================
