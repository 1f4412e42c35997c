------------------------ MODULE PoaValidatorsProofs ------------------------
(***************************************************************************)
(* Proofs about PoaValidators, for every set of tasks, pods and accounts.  *)
(* Each invariant is proved relative to the ones before it: types, the     *)
(* phase a task's locals belong to, then the three safety invariants.      *)
(* Then that ValidatorRegistration is implemented, and a bound on the      *)
(* steps of a task.                                                        *)
(***************************************************************************)
EXTENDS PoaValidators, FiniteSetTheorems, TLAPS

USE DEF chainVars, localVars, history, Lost

LEMMA TypeInit == Init => TypeOK
<1> SUFFICES ASSUME Init PROVE TypeOK
  OBVIOUS
<1> QED
  BY GenesisAssumption, SentinelAssumption, StashAssumption
  DEF Init, TypeOK, StashAccounts, Active, Over

LEMMA TypeStep == TypeOK /\ [Next]_vars => TypeOK'
<1> SUFFICES ASSUME TypeOK, [Next]_vars PROVE TypeOK'
  OBVIOUS
<1> USE DEF TypeOK, Active, Over, PodOps, AddrOps
<1>1. CASE UNCHANGED vars
  BY <1>1 DEF vars
<1>2. ASSUME NEW t \in Task, Start(t) PROVE TypeOK'
  BY <1>2 DEF Start, Begin, StartRegister, StartDeregister, StartRotate,
     StartRegisterAddresses, StartDeregisterAddresses
<1>3. ASSUME NEW t \in Task, ReadSet(t) \/ ReadAdd(t) PROVE TypeOK'
  BY <1>3 DEF ReadSet, ReadAdd
<1>4. ASSUME NEW t \in Task, SelectToRegister(t) PROVE TypeOK'
  BY <1>4 DEF SelectToRegister
<1>5. ASSUME NEW t \in Task, SelectToDeregister(t) PROVE TypeOK'
  <2>1. RegisteredAccounts(t) \subseteq Account
    BY StashAssumption, LabelAssumption DEF AccountOf, RegisteredAccounts
  <2> QED
    BY <1>5, <2>1 DEF SelectToDeregister
<1>6. ASSUME NEW t \in Task, Fund(t) PROVE TypeOK'
  BY <1>6, StashAssumption, LabelAssumption DEF Fund, AccountOf
<1>7. ASSUME NEW t \in Task, NEW p \in Pod, RotateKeys(t, p) \/ RotateFails(t, p)
      PROVE TypeOK'
  BY <1>7 DEF RotateKeys, RotateFails
<1>8. ASSUME NEW t \in Task,
             SetKeys(t) \/ SetKeysRefused(t) \/ SetKeysUnreported(t) \/ SetKeysRaises(t)
      PROVE TypeOK'
  <2>1. /\ holding[t] \in Pod
        /\ Stash[holding[t]] \in Account
        /\ <<holding[t], t>> \in Key
    BY <1>8, StashAssumption
    DEF SetKeys, SetKeysRefused, SetKeysUnreported, SetKeysRaises, SetUpEnds, Key
  <2>2. CASE SetKeys(t)
    BY <2>1, <2>2 DEF SetKeys, SetUpEnds
  <2>3. CASE SetKeysUnreported(t)
    BY <2>1, <2>3 DEF SetKeysUnreported, SetUpEnds
  <2>4. CASE SetKeysRefused(t)
    BY <2>4 DEF SetKeysRefused, SetUpEnds
  <2>5. CASE SetKeysRaises(t)
    BY <2>5 DEF SetKeysRaises, SetUpEnds
  <2> QED
    BY <1>8, <2>2, <2>3, <2>4, <2>5
<1>9. ASSUME NEW t \in Task,
             SkipDeregister(t) \/ GatherRaises(t) \/ RotateDone(t) \/ TaskDies(t)
      PROVE TypeOK'
  <2>1. UNCHANGED <<chainVars, op, direct, lost>>
    BY <1>9 DEF SkipDeregister, GatherRaises, RotateDone, TaskDies
  <2>2. PICK how \in {"done", "dead"} : Finish(t, how)
    BY <1>9 DEF SkipDeregister, GatherRaises, RotateDone, TaskDies
  <2> QED
    BY <2>1, <2>2 DEF Finish
<1>10. ASSUME NEW t \in Task, SubmitRegister(t) \/ SubmitDeregister(t) PROVE TypeOK'
  BY <1>10 DEF SubmitRegister, SubmitDeregister, Finish
<1>11. ASSUME NEW t \in Task, GatherDone(t) PROVE TypeOK'
  BY <1>11 DEF GatherDone
<1>12. ASSUME SessionChange PROVE TypeOK'
  BY <1>12 DEF SessionChange, Keyed
<1> QED
  BY <1>1, <1>2, <1>3, <1>4, <1>5, <1>6, <1>7, <1>8, <1>9, <1>10, <1>11, <1>12
  DEF Next, TaskStep

\* Every variable keeps its type, whatever the tasks, the pods and the faults.
THEOREM TypeCorrect == Spec => []TypeOK
<1> QED
  BY TypeInit, TypeStep, PTL DEF Spec

-----------------------------------------------------------------------------
\* Which locals a task can hold in which phase.
LocalsInPhase ==
    \A t \in Task :
        /\ pc[t] = "idle" => accts[t] = {} /\ holding[t] = NoPod
        /\ pc[t] = "gather" => op[t] \in {"register", "rotate"}
        /\ pc[t] = "fund" => op[t] = "register"
        /\ holding[t] # NoPod => pc[t] = "gather" /\ holding[t] \in todo[t]

LEMMA PhaseStep == TypeOK /\ LocalsInPhase /\ [Next]_vars => LocalsInPhase'
<1> SUFFICES ASSUME TypeOK, LocalsInPhase, [Next]_vars PROVE LocalsInPhase'
  OBVIOUS
<1> USE SentinelAssumption DEF TypeOK, LocalsInPhase
<1>1. CASE UNCHANGED vars
  BY <1>1 DEF vars
<1>2. ASSUME NEW t \in Task, Start(t) PROVE LocalsInPhase'
  BY <1>2 DEF Start, Begin, StartRegister, StartDeregister, StartRotate,
     StartRegisterAddresses, StartDeregisterAddresses
<1>3. ASSUME NEW t \in Task, ReadSet(t) \/ ReadAdd(t) PROVE LocalsInPhase'
  BY <1>3 DEF ReadSet, ReadAdd
<1>4. ASSUME NEW t \in Task, SelectToRegister(t) PROVE LocalsInPhase'
  BY <1>4 DEF SelectToRegister
<1>5. ASSUME NEW t \in Task, SelectToDeregister(t) PROVE LocalsInPhase'
  BY <1>5 DEF SelectToDeregister
<1>6. ASSUME NEW t \in Task, Fund(t) PROVE LocalsInPhase'
  BY <1>6 DEF Fund
<1>7. ASSUME NEW t \in Task, NEW p \in Pod, RotateKeys(t, p) \/ RotateFails(t, p)
      PROVE LocalsInPhase'
  BY <1>7 DEF RotateKeys, RotateFails
<1>8. ASSUME NEW t \in Task,
             SetKeys(t) \/ SetKeysRefused(t) \/ SetKeysUnreported(t) \/ SetKeysRaises(t)
      PROVE LocalsInPhase'
  <2>1. SetUpEnds(t) /\ \A u \in Task \ {t} : accts'[u] = accts[u]
    BY <1>8 DEF SetKeys, SetKeysRefused, SetKeysUnreported, SetKeysRaises, SetUpEnds
  <2> QED
    BY <2>1 DEF SetUpEnds
<1>9. ASSUME NEW t \in Task,
             SkipDeregister(t) \/ GatherRaises(t) \/ RotateDone(t) \/ TaskDies(t)
      PROVE LocalsInPhase'
  BY <1>9 DEF SkipDeregister, GatherRaises, RotateDone, TaskDies, Finish
<1>10. ASSUME NEW t \in Task, SubmitRegister(t) \/ SubmitDeregister(t)
       PROVE LocalsInPhase'
  BY <1>10 DEF SubmitRegister, SubmitDeregister, Finish
<1>11. ASSUME NEW t \in Task, GatherDone(t) PROVE LocalsInPhase'
  BY <1>11 DEF GatherDone, AllSetUp
<1>12. ASSUME SessionChange PROVE LocalsInPhase'
  BY <1>12 DEF SessionChange
<1> QED
  BY <1>1, <1>2, <1>3, <1>4, <1>5, <1>6, <1>7, <1>8, <1>9, <1>10, <1>11, <1>12
  DEF Next, TaskStep

\* Session keys are never cleared and the address history only grows.
LEMMA KeysOnlyGrow ==
    TypeOK /\ [Next]_vars => Keyed \subseteq Keyed' /\ direct \subseteq direct'
<1> SUFFICES ASSUME TypeOK, [Next]_vars
             PROVE  Keyed \subseteq Keyed' /\ direct \subseteq direct'
  OBVIOUS
<1>1. ASSUME NEW t \in Task, SetKeys(t) \/ SetKeysUnreported(t)
      PROVE Keyed \subseteq Keyed' /\ direct \subseteq direct'
  <2>1. <<holding[t], t>> \in Key
    BY <1>1 DEF SetKeys, SetKeysUnreported, SetUpEnds, Key, TypeOK
  <2>2. nextKeys' = [nextKeys EXCEPT ![Stash[holding[t]]] = <<holding[t], t>>]
    BY <1>1 DEF SetKeys, SetKeysUnreported
  <2> QED
    BY <1>1, <2>1, <2>2, SentinelAssumption
    DEF Keyed, TypeOK, SetKeys, SetKeysUnreported, SetUpEnds
<1>2. ASSUME NEW t \in Task, Start(t)
      PROVE Keyed \subseteq Keyed' /\ direct \subseteq direct'
  BY <1>2 DEF Start, StartRegister, StartDeregister, StartRotate,
     StartRegisterAddresses, StartDeregisterAddresses, Keyed
<1>3. ASSUME nextKeys' = nextKeys, direct' = direct
      PROVE Keyed \subseteq Keyed' /\ direct \subseteq direct'
  BY <1>3 DEF Keyed
<1>4. ASSUME NEW t \in Task, TaskStep(t) \/ TaskDies(t),
             ~SetKeys(t), ~SetKeysUnreported(t)
      PROVE nextKeys' = nextKeys /\ direct' = direct
  BY <1>4 DEF TaskStep, ReadSet, ReadAdd, SelectToRegister, SelectToDeregister,
     SkipDeregister, Fund, RotateKeys, RotateFails, SetKeysRefused, SetKeysRaises,
     SetUpEnds, GatherRaises, RotateDone, GatherDone, SubmitRegister,
     SubmitDeregister, TaskDies
<1> QED
  BY <1>1, <1>2, <1>3, <1>4 DEF Next, SessionChange, vars

-----------------------------------------------------------------------------
\* What a registering task is about to submit has its keys on chain, or was
\* given by address; this is what makes KeyedBeforeRegistered inductive.
AccountsKeyed ==
    \A t \in Task :
        /\ op[t] = "register" => accts[t] \subseteq Keyed
        /\ op[t] = "registerAddr" => accts[t] \subseteq direct
KeyedInv == AccountsKeyed /\ KeyedBeforeRegistered

LEMMA KeyedStep ==
    TypeOK /\ LocalsInPhase /\ KeyedInv /\ [Next]_vars => KeyedInv'
<1> SUFFICES ASSUME TypeOK, LocalsInPhase, KeyedInv, [Next]_vars PROVE KeyedInv'
  OBVIOUS
<1>0. Keyed \subseteq Keyed' /\ direct \subseteq direct'
  BY KeysOnlyGrow
<1> USE DEF KeyedInv, AccountsKeyed, KeyedBeforeRegistered
<1>1. ASSUME accts' = accts, op' = op, toAdd' = toAdd PROVE KeyedInv'
  BY <1>0, <1>1
<1>2. ASSUME NEW t \in Task, Start(t) PROVE KeyedInv'
  BY <1>0, <1>2 DEF Start, Begin, StartRegister, StartDeregister, StartRotate,
     StartRegisterAddresses, StartDeregisterAddresses, TypeOK, LocalsInPhase
<1>3. ASSUME NEW t \in Task, SelectToDeregister(t) PROVE KeyedInv'
  BY <1>0, <1>3 DEF SelectToDeregister, TypeOK
<1>4. ASSUME NEW t \in Task, SetKeys(t) PROVE KeyedInv'
  <2>1. /\ holding[t] \in Pod /\ <<holding[t], t>> \in Key
        /\ Stash[holding[t]] \in Account
    BY <1>4, StashAssumption DEF SetKeys, SetUpEnds, TypeOK, Key
  <2>2. Stash[holding[t]] \in Keyed'
    BY <1>4, <2>1, SentinelAssumption DEF SetKeys, Keyed, TypeOK
  <2>3. op[t] # "registerAddr"
    BY <1>4 DEF SetKeys, SetUpEnds, LocalsInPhase
  <2> QED
    BY <1>0, <1>4, <2>2, <2>3 DEF SetKeys, SetUpEnds, TypeOK
<1>5. ASSUME NEW t \in Task, SubmitRegister(t) PROVE KeyedInv'
  BY <1>0, <1>5 DEF SubmitRegister, Finish, TypeOK
<1>6. ASSUME NEW t \in Task,
             \/ SubmitDeregister(t) \/ SkipDeregister(t) \/ GatherRaises(t)
             \/ RotateDone(t) \/ TaskDies(t)
      PROVE KeyedInv'
  BY <1>0, <1>6 DEF SubmitDeregister, SkipDeregister, GatherRaises, RotateDone,
     TaskDies, Finish, TypeOK
<1>7. ASSUME SessionChange PROVE KeyedInv'
  BY <1>0, <1>7 DEF SessionChange
<1>9. CASE UNCHANGED vars
  BY <1>1, <1>9 DEF vars
<1>10. ASSUME NEW t \in Task, TaskStep(t) PROVE KeyedInv'
  <2>1. CASE \E p \in Pod : RotateKeys(t, p) \/ RotateFails(t, p)
    BY <1>1, <2>1 DEF RotateKeys, RotateFails
  <2>2. CASE ReadSet(t) \/ ReadAdd(t) \/ SelectToRegister(t) \/ Fund(t) \/ GatherDone(t)
    BY <1>1, <2>2 DEF ReadSet, ReadAdd, SelectToRegister, Fund, GatherDone
  <2>3. CASE SetKeysRefused(t) \/ SetKeysUnreported(t) \/ SetKeysRaises(t)
    BY <1>1, <2>3 DEF SetKeysRefused, SetKeysUnreported, SetKeysRaises, SetUpEnds
  <2> QED
    BY <1>3, <1>4, <1>5, <1>6, <1>10, <2>1, <2>2, <2>3 DEF TaskStep
<1> QED
  BY <1>2, <1>6, <1>7, <1>9, <1>10 DEF Next

-----------------------------------------------------------------------------
\* The keys a set-up is about to put on chain are stored on its node.
HeldInv ==
    /\ \A t \in Task : holding[t] # NoPod => t \in keystore[holding[t]]
    /\ OnChainKeysHeldByNode

LEMMA HeldStep == TypeOK /\ LocalsInPhase /\ HeldInv /\ [Next]_vars => HeldInv'
<1> SUFFICES ASSUME TypeOK, LocalsInPhase, HeldInv, [Next]_vars PROVE HeldInv'
  OBVIOUS
<1> USE SentinelAssumption DEF HeldInv, OnChainKeysHeldByNode
<1>1. ASSUME holding' = holding, keystore' = keystore, nextKeys' = nextKeys
      PROVE HeldInv'
  BY <1>1
<1>2. ASSUME NEW t \in Task, NEW p \in Pod, RotateKeys(t, p) \/ RotateFails(t, p)
      PROVE HeldInv'
  <2>1. \A q \in Pod : keystore[q] \subseteq keystore'[q]
    BY <1>2 DEF RotateKeys, RotateFails, TypeOK
  <2>2. nextKeys' = nextKeys
    BY <1>2 DEF RotateKeys, RotateFails
  <2>3. \A u \in Task : holding'[u] # NoPod => u \in keystore'[holding'[u]]
    BY <1>2, <2>1 DEF RotateKeys, RotateFails, TypeOK
  <2> QED
    BY <2>1, <2>2, <2>3
<1>3. ASSUME NEW t \in Task, SetKeys(t) \/ SetKeysUnreported(t) PROVE HeldInv'
  <2>1. /\ holding[t] \in Pod /\ holding[t] # NoPod /\ t \in keystore[holding[t]]
        /\ keystore' = keystore
        /\ nextKeys' = [nextKeys EXCEPT ![Stash[holding[t]]] = <<holding[t], t>>]
        /\ holding' = [holding EXCEPT ![t] = NoPod]
    BY <1>3 DEF SetKeys, SetKeysUnreported, SetUpEnds, TypeOK
  <2>2. ASSUME NEW p \in Pod, nextKeys'[Stash[p]] # NoKeys
        PROVE \E u \in keystore'[p] : nextKeys'[Stash[p]] = <<p, u>>
    <3>1. CASE p = holding[t]
      BY <2>1, <3>1, StashAssumption DEF TypeOK
    <3>2. CASE p # holding[t]
      <4>1. Stash[p] # Stash[holding[t]] /\ Stash[p] \in Account
        BY <2>1, <3>2, StashAssumption
      <4> QED
        BY <2>1, <2>2, <4>1 DEF TypeOK
    <3> QED
      BY <3>1, <3>2
  <2> QED
    BY <2>1, <2>2 DEF TypeOK
<1>4. ASSUME NEW t \in Task, SetKeysRefused(t) \/ SetKeysRaises(t) PROVE HeldInv'
  <2>1. /\ holding' = [holding EXCEPT ![t] = NoPod]
        /\ keystore' = keystore /\ nextKeys' = nextKeys
    BY <1>4 DEF SetKeysRefused, SetKeysRaises, SetUpEnds
  <2> QED
    BY <2>1 DEF TypeOK
<1>5. ASSUME NEW t \in Task,
             \/ SubmitRegister(t) \/ SubmitDeregister(t) \/ SkipDeregister(t)
             \/ GatherRaises(t) \/ RotateDone(t) \/ TaskDies(t)
      PROVE HeldInv'
  <2>1. /\ holding' = [holding EXCEPT ![t] = NoPod]
        /\ keystore' = keystore /\ nextKeys' = nextKeys
    BY <1>5 DEF SubmitRegister, SubmitDeregister, SkipDeregister, GatherRaises,
       RotateDone, TaskDies, Finish
  <2> QED
    BY <2>1 DEF TypeOK
<1>6. ASSUME NEW t \in Task,
             \/ Start(t) \/ ReadSet(t) \/ ReadAdd(t) \/ SelectToRegister(t)
             \/ SelectToDeregister(t) \/ Fund(t) \/ GatherDone(t)
      PROVE HeldInv'
  <2>1. holding' = holding /\ keystore' = keystore /\ nextKeys' = nextKeys
    BY <1>6 DEF Start, StartRegister, StartDeregister, StartRotate,
       StartRegisterAddresses, StartDeregisterAddresses, ReadSet, ReadAdd,
       SelectToRegister, SelectToDeregister, Fund, GatherDone
  <2> QED
    BY <1>1, <2>1
<1>7. CASE SessionChange \/ UNCHANGED vars
  BY <1>1, <1>7 DEF SessionChange, vars
<1> QED
  BY <1>2, <1>3, <1>4, <1>5, <1>6, <1>7 DEF Next, TaskStep

-----------------------------------------------------------------------------
\* What the three reads guarantee although the chain moves between them: an
\* account that has been a validator since the task began was seen by the first
\* read, or will be, and is never among the accounts of the pods to set up.
SteadyInv ==
    \A t \in Task :
        /\ steady[t] \subseteq validators
        /\ pc[t] \in {"readAdd", "readRetire"} => steady[t] \subseteq seen[t]
        /\ op[t] = "register" /\ pc[t] \in {"fund", "gather"} =>
               \A p \in todo[t] : AccountOf(p) \notin steady[t]

LEMMA SteadyStep ==
    TypeOK /\ LocalsInPhase /\ SteadyInv /\ [Next]_vars => SteadyInv'
<1> SUFFICES ASSUME TypeOK, LocalsInPhase, SteadyInv, [Next]_vars PROVE SteadyInv'
  OBVIOUS
<1> USE DEF SteadyInv
<1>1. CASE UNCHANGED vars
  BY <1>1 DEF vars
<1>2. ASSUME NEW t \in Task, Start(t) PROVE SteadyInv'
  BY <1>2 DEF Start, Begin, StartRegister, StartDeregister, StartRotate,
     StartRegisterAddresses, StartDeregisterAddresses, TypeOK
<1>3. ASSUME NEW t \in Task, ReadSet(t) \/ ReadAdd(t) PROVE SteadyInv'
  BY <1>3 DEF ReadSet, ReadAdd, TypeOK
<1>4. ASSUME NEW t \in Task, SelectToRegister(t) PROVE SteadyInv'
  BY <1>4 DEF SelectToRegister, RegisteredIn, TypeOK
<1>5. ASSUME NEW t \in Task, SelectToDeregister(t) \/ GatherDone(t) \/ Fund(t)
      PROVE SteadyInv'
  BY <1>5 DEF SelectToDeregister, GatherDone, Fund, TypeOK, LocalsInPhase
<1>6. ASSUME NEW t \in Task, NEW p \in Pod, RotateKeys(t, p) \/ RotateFails(t, p)
      PROVE SteadyInv'
  BY <1>6 DEF RotateKeys, RotateFails, TypeOK
<1>7. ASSUME NEW t \in Task, SetUpEnds(t) PROVE SteadyInv'
  BY <1>7 DEF SetUpEnds, TypeOK
<1>8. ASSUME NEW t \in Task,
             \/ SubmitRegister(t) \/ SubmitDeregister(t) \/ SkipDeregister(t)
             \/ GatherRaises(t) \/ RotateDone(t) \/ TaskDies(t)
      PROVE SteadyInv'
  <2>1. /\ pc'[t] \in {"done", "dead"} /\ steady'[t] = {}
        /\ \A u \in Task \ {t} : /\ pc'[u] = pc[u] /\ steady'[u] = steady[u]
                                  /\ seen'[u] = seen[u] /\ todo'[u] = todo[u]
        /\ op' = op /\ validators' = validators
    BY <1>8 DEF SubmitRegister, SubmitDeregister, SkipDeregister, GatherRaises,
       RotateDone, TaskDies, Finish, TypeOK
  <2> QED
    BY <2>1
<1>9. ASSUME SessionChange PROVE SteadyInv'
  BY <1>9 DEF SessionChange, TypeOK
<1> QED
  BY <1>1, <1>2, <1>3, <1>4, <1>5, <1>6, <1>7, <1>8, <1>9
  DEF Next, TaskStep, SetKeys, SetKeysRefused, SetKeysUnreported, SetKeysRaises

-----------------------------------------------------------------------------
\* The inductive invariant.
IInv == TypeOK /\ LocalsInPhase /\ KeyedInv /\ HeldInv /\ SteadyInv

LEMMA IInvInit == Init => IInv
<1> SUFFICES ASSUME Init PROVE IInv
  OBVIOUS
<1>1. TypeOK
  BY TypeInit
<1>2. LocalsInPhase /\ KeyedInv /\ SteadyInv
  BY DEF Init, LocalsInPhase, KeyedInv, AccountsKeyed, KeyedBeforeRegistered, SteadyInv
<1>3. \A p \in Pod : nextKeys[Stash[p]] = NoKeys
  BY StashAssumption, GenesisAssumption DEF Init, StashAccounts
<1>4. HeldInv
  BY <1>3 DEF Init, HeldInv, OnChainKeysHeldByNode
<1> QED
  BY <1>1, <1>2, <1>4 DEF IInv

LEMMA IInvStep == IInv /\ [Next]_vars => IInv'
<1> QED
  BY TypeStep, PhaseStep, KeyedStep, HeldStep, SteadyStep DEF IInv

THEOREM Invariant == Spec => []IInv
<1> QED
  BY IInvInit, IInvStep, PTL DEF Spec

\* No task, whatever fails and however tasks interleave, registers an account
\* of a pod whose session keys are not on chain.
THEOREM KeyedBeforeRegisteredHolds == Spec => []KeyedBeforeRegistered
<1>1. IInv => KeyedBeforeRegistered
  BY DEF IInv, KeyedInv
<1> QED
  BY <1>1, Invariant, PTL

\* The keys on chain for a pod's stash are always keys its own node holds.
THEOREM OnChainKeysHeld == Spec => []OnChainKeysHeldByNode
<1>1. IInv => OnChainKeysHeldByNode
  BY DEF IInv, HeldInv
<1> QED
  BY <1>1, Invariant, PTL

\* A registration never rotates the keys of a pod whose account has been a
\* validator since the registration began.
THEOREM SteadyValidatorsKeepKeys == Spec => []NoRekeyOfSteadyValidator
<1>1. IInv => NoRekeyOfSteadyValidator
  BY DEF IInv, LocalsInPhase, SteadyInv, NoRekeyOfSteadyValidator
<1> QED
  BY <1>1, Invariant, PTL

\* Session keys change with Session.set_keys and with nothing else.
LEMMA OnlySetKeys ==
    ASSUME NEW t \in Task, TaskStep(t) \/ TaskDies(t) \/ Start(t),
           ~SetKeys(t), ~SetKeysUnreported(t)
    PROVE  nextKeys' = nextKeys
<1> QED
  BY DEF Start, StartRegister, StartDeregister, StartRotate,
     StartRegisterAddresses, StartDeregisterAddresses, TaskStep, ReadSet, ReadAdd,
     SelectToRegister, SelectToDeregister, SkipDeregister, Fund, RotateKeys,
     RotateFails, SetKeysRefused, SetKeysRaises, SetUpEnds, GatherRaises,
     RotateDone, GatherDone, SubmitRegister, SubmitDeregister, TaskDies

\* No step changes the session keys of an account that is no pod's stash.
THEOREM OperatorKeysSafe == Spec => OperatorKeysUntouched
<1>1. ASSUME TypeOK, [Next]_vars
      PROVE [\A a \in Account \ StashAccounts : nextKeys'[a] = nextKeys[a]]_vars
  <2>1. ASSUME NEW t \in Task, SetKeys(t) \/ SetKeysUnreported(t),
               NEW a \in Account \ StashAccounts
        PROVE nextKeys'[a] = nextKeys[a]
    <3>1. holding[t] \in Pod
      BY <1>1, <2>1 DEF SetKeys, SetKeysUnreported, SetUpEnds, TypeOK
    <3>2. nextKeys' = [nextKeys EXCEPT ![Stash[holding[t]]] = <<holding[t], t>>]
      BY <2>1 DEF SetKeys, SetKeysUnreported
    <3> QED
      BY <1>1, <2>1, <3>1, <3>2 DEF StashAccounts, TypeOK
  <2>2. ASSUME NEW t \in Task, TaskStep(t) \/ TaskDies(t) \/ Start(t),
               ~SetKeys(t), ~SetKeysUnreported(t)
        PROVE nextKeys' = nextKeys
    BY <2>2, OnlySetKeys
  <2> QED
    BY <1>1, <2>1, <2>2 DEF Next, SessionChange
<1> QED
  BY <1>1, TypeCorrect, PTL DEF Spec, OperatorKeysUntouched

\* A deregistration misses no account that has been a validator since it began.
THEOREM DeregistrationFinds == Spec => DeregistrationFindsSteady
<1>1. ASSUME IInv, [Next]_vars, NEW t \in Task,
             op[t] = "deregister", pc[t] = "readRetire", pc'[t] \in {"submit", "done"},
             NEW p \in req[t], AccountOf(p) \in steady[t]
      PROVE  pc'[t] = "submit" /\ AccountOf(p) \in accts'[t]
  <2> USE <1>1 DEF IInv, TypeOK
  <2>1. AccountOf(p) \in RegisteredAccounts(t)
    BY DEF SteadyInv, RegisteredAccounts, RegisteredIn
  <2>2. CASE SelectToDeregister(t)
    BY <2>1, <2>2 DEF SelectToDeregister
  <2>3. ~SkipDeregister(t)
    BY <2>1 DEF SkipDeregister
  <2>4. ASSUME NEW u \in Task, Start(u) \/ TaskStep(u) \/ TaskDies(u), ~SkipDeregister(t)
        PROVE  SelectToDeregister(t)
    <3>1. CASE u = t
      BY <2>4, <3>1 DEF Start, StartRegister, StartDeregister, StartRotate,
         StartRegisterAddresses, StartDeregisterAddresses, Begin, TaskStep, ReadSet,
         ReadAdd, SelectToRegister, Fund, RotateKeys, RotateFails, SetKeys,
         SetKeysRefused, SetKeysUnreported, SetKeysRaises, SetUpEnds, AllSetUp,
         GatherRaises, RotateDone, GatherDone, SubmitRegister, SubmitDeregister,
         TaskDies, Finish
    <3>2. CASE u # t
      BY <2>4, <3>2 DEF Start, StartRegister, StartDeregister, StartRotate,
         StartRegisterAddresses, StartDeregisterAddresses, Begin, TaskStep, ReadSet,
         ReadAdd, SelectToRegister, SelectToDeregister, SkipDeregister, Fund,
         RotateKeys, RotateFails, SetKeys, SetKeysRefused, SetKeysUnreported,
         SetKeysRaises, SetUpEnds, AllSetUp, GatherRaises, RotateDone, GatherDone,
         SubmitRegister, SubmitDeregister, TaskDies, Finish
    <3> QED
      BY <3>1, <3>2
  <2>5. pc' # pc
    OBVIOUS
  <2> QED
    BY <2>2, <2>3, <2>4, <2>5 DEF Next, SessionChange, vars
<1>2. IInv /\ [Next]_vars =>
          [\A t \in Task :
              op[t] = "deregister" /\ pc[t] = "readRetire" /\ pc'[t] \in {"submit", "done"} =>
                  \A p \in req[t] : AccountOf(p) \in steady[t] =>
                      pc'[t] = "submit" /\ AccountOf(p) \in accts'[t]]_vars
  BY <1>1
<1> QED
  BY <1>2, Invariant, PTL DEF Spec, DeregistrationFindsSteady

-----------------------------------------------------------------------------
(* PoaValidators implements ValidatorRegistration.                         *)

\* What a task works on is among what it was asked for.
Serves ==
    \A t \in Task :
        /\ pc[t] \in {"idle"} \cup Over => req[t] = {} /\ accts[t] = {} /\ todo[t] = {}
        /\ pc[t] \in Active => op[t] \in PodOps \cup AddrOps
        /\ op[t] \in {"register", "rotate"} =>
              todo[t] \subseteq req[t] /\ accts[t] \subseteq {Stash[p] : p \in req[t]}
        /\ op[t] = "deregister" => accts[t] \subseteq {AccountOf(p) : p \in req[t]}

LEMMA ServesStep ==
    TypeOK /\ LocalsInPhase /\ Serves /\ [Next]_vars => Serves'
<1> SUFFICES ASSUME TypeOK, LocalsInPhase, Serves, [Next]_vars PROVE Serves'
  OBVIOUS
<1> USE SentinelAssumption DEF TypeOK, Serves, Active, Over, PodOps, AddrOps
<1>a. ASSUME NEW t \in Task,
             \A u \in Task \ {t} : /\ pc'[u] = pc[u] /\ op'[u] = op[u] /\ req'[u] = req[u]
                                   /\ todo'[u] = todo[u] /\ accts'[u] = accts[u],
             pc'[t] \in Over, req'[t] = {}, accts'[t] = {}, todo'[t] = {}
      PROVE  Serves'
  BY <1>a DEF AccountOf
<1>1. CASE UNCHANGED vars
  BY <1>1 DEF vars, AccountOf
<1>2. ASSUME NEW t \in Task, Start(t) PROVE Serves'
  BY <1>2 DEF Start, Begin, StartRegister, StartDeregister, StartRotate,
     StartRegisterAddresses, StartDeregisterAddresses, AccountOf
<1>3. ASSUME NEW t \in Task,
             ReadSet(t) \/ ReadAdd(t) \/ SelectToRegister(t) \/ Fund(t) \/ GatherDone(t)
      PROVE Serves'
  BY <1>3 DEF ReadSet, ReadAdd, SelectToRegister, Fund, GatherDone, AllSetUp, AccountOf
<1>5. ASSUME NEW t \in Task, SelectToDeregister(t) PROVE Serves'
  BY <1>5 DEF SelectToDeregister, RegisteredAccounts, AccountOf
<1>7. ASSUME NEW t \in Task, NEW p \in Pod, RotateKeys(t, p) \/ RotateFails(t, p)
      PROVE Serves'
  BY <1>7 DEF RotateKeys, RotateFails, AccountOf
<1>8. ASSUME NEW t \in Task,
             SetKeys(t) \/ SetKeysRefused(t) \/ SetKeysUnreported(t) \/ SetKeysRaises(t)
      PROVE Serves'
  <2>1. /\ pc[t] = "gather" /\ holding[t] \in todo[t] /\ UNCHANGED <<pc, op, req>>
        /\ todo' = [todo EXCEPT ![t] = @ \ {holding[t]}]
    BY <1>8 DEF SetKeys, SetKeysRefused, SetKeysUnreported, SetKeysRaises, SetUpEnds,
       LocalsInPhase
  <2>2. accts' \in {accts, [accts EXCEPT ![t] = @ \cup {Stash[holding[t]]}]}
    BY <1>8 DEF SetKeys, SetKeysRefused, SetKeysUnreported, SetKeysRaises, SetUpEnds
  <2>3. op[t] \in {"register", "rotate"}
    BY <2>1 DEF LocalsInPhase
  <2> QED
    BY <2>1, <2>2, <2>3 DEF AccountOf
<1>9. ASSUME NEW t \in Task,
             \/ SkipDeregister(t) \/ GatherRaises(t) \/ RotateDone(t) \/ TaskDies(t)
             \/ SubmitRegister(t) \/ SubmitDeregister(t)
      PROVE Serves'
  <2>1. PICK how \in {"done", "dead"} : Finish(t, how)
    BY <1>9 DEF SkipDeregister, GatherRaises, RotateDone, TaskDies, SubmitRegister,
       SubmitDeregister
  <2>2. op' = op
    BY <1>9 DEF SkipDeregister, GatherRaises, RotateDone, TaskDies, SubmitRegister,
       SubmitDeregister
  <2> QED
    BY <1>a, <2>1, <2>2 DEF Finish
<1>12. ASSUME SessionChange PROVE Serves'
  BY <1>12 DEF SessionChange, AccountOf
<1> QED
  BY <1>1, <1>2, <1>3, <1>5, <1>7, <1>8, <1>9, <1>12 DEF Next, TaskStep

\* No keys are lost: those of the program are held by a node of the account.
KeysOrigin ==
    \A a \in Account : nextKeys[a] \in {NoKeys, OperatorKeys} \/ HeldByNode(a)

\* Nodes keep the keys they have.
LEMMA StoresGrow ==
    TypeOK /\ [Next]_vars => \A p \in Pod : keystore[p] \subseteq keystore'[p]
<1> SUFFICES ASSUME TypeOK, [Next]_vars
             PROVE  \A p \in Pod : keystore[p] \subseteq keystore'[p]
  OBVIOUS
<1>1. ASSUME NEW t \in Task, NEW p \in Pod, RotateKeys(t, p) \/ RotateFails(t, p)
      PROVE  \A q \in Pod : keystore[q] \subseteq keystore'[q]
  BY <1>1 DEF RotateKeys, RotateFails, TypeOK
<1>2. ASSUME NEW t \in Task, Start(t) \/ TaskDies(t) PROVE keystore' = keystore
  BY <1>2 DEF Start, StartRegister, StartDeregister, StartRotate,
     StartRegisterAddresses, StartDeregisterAddresses, TaskDies
<1>3. ASSUME NEW t \in Task, TaskStep(t),
             ~\E p \in Pod : RotateKeys(t, p) \/ RotateFails(t, p)
      PROVE  keystore' = keystore
  BY <1>3 DEF TaskStep, ReadSet, ReadAdd, SelectToRegister, SelectToDeregister,
     SkipDeregister, Fund, SetKeys, SetKeysRefused, SetKeysUnreported, SetKeysRaises,
     SetUpEnds, GatherRaises, RotateDone, GatherDone, SubmitRegister, SubmitDeregister
<1> QED
  BY <1>1, <1>2, <1>3 DEF Next, SessionChange, vars

LEMMA OriginStep ==
    IInv /\ KeysOrigin /\ [Next]_vars => KeysOrigin'
<1> SUFFICES ASSUME IInv, KeysOrigin, [Next]_vars, NEW a \in Account
             PROVE  nextKeys'[a] \in {NoKeys, OperatorKeys} \/ HeldByNode(a)'
  BY DEF KeysOrigin
<1>0. \A p \in Pod : keystore[p] \subseteq keystore'[p]
  BY StoresGrow DEF IInv
<1>1. CASE nextKeys'[a] = nextKeys[a]
  BY <1>0, <1>1 DEF KeysOrigin, HeldByNode
<1>2. ASSUME NEW t \in Task, SetKeys(t) \/ SetKeysUnreported(t), nextKeys'[a] # nextKeys[a]
      PROVE  HeldByNode(a)'
  <2>1. /\ nextKeys' = [nextKeys EXCEPT ![Stash[holding[t]]] = <<holding[t], t>>]
        /\ holding[t] # NoPod /\ holding[t] \in Pod
    BY <1>2 DEF SetKeys, SetKeysUnreported, SetUpEnds, IInv, TypeOK
  <2>2. t \in keystore'[holding[t]]
    BY <1>0, <2>1 DEF IInv, HeldInv
  <2>3. a = Stash[holding[t]] /\ nextKeys'[a] = <<holding[t], t>>
    BY <1>2, <2>1 DEF IInv, TypeOK
  <2> QED
    BY <2>1, <2>2, <2>3 DEF HeldByNode
<1>3. ASSUME NEW t \in Task, TaskStep(t) \/ TaskDies(t) \/ Start(t),
             ~SetKeys(t), ~SetKeysUnreported(t)
      PROVE nextKeys' = nextKeys
  BY <1>3, OnlySetKeys
<1> QED
  BY <1>1, <1>2, <1>3 DEF Next, SessionChange, vars

RInv == IInv /\ Serves /\ KeysOrigin

LEMMA RInvariant == Spec => []RInv
<1>1. Init => Serves /\ KeysOrigin
  <2> SUFFICES ASSUME Init PROVE Serves /\ KeysOrigin
    OBVIOUS
  <2>1. Serves
    BY DEF Init, Serves, Active, Over
  <2>2. KeysOrigin
    BY DEF Init, KeysOrigin
  <2> QED
    BY <2>1, <2>2
<1>2. RInv /\ [Next]_vars => Serves' /\ KeysOrigin'
  BY ServesStep, OriginStep DEF RInv, IInv
<1> QED
  BY <1>1, <1>2, IInvInit, IInvStep, PTL DEF Spec, RInv

\* A task's step is seen in the status and the accounts of that task only.
LEMMA SeenOf ==
    ASSUME NEW t \in Task, NEW status, NEW as,
           \A u \in Task \ {t} : /\ pc'[u] = pc[u] /\ op'[u] = op[u]
                                 /\ req'[u] = req[u] /\ accts'[u] = accts[u],
           Status(t)' = status, Named(t)' = as
    PROVE  /\ [u \in Task |-> Status(u)]' = [[u \in Task |-> Status(u)] EXCEPT ![t] = status]
           /\ [u \in Task |-> Named(u)]' = [[u \in Task |-> Named(u)] EXCEPT ![t] = as]
<1>1. \A u \in Task \ {t} : Status(u)' = Status(u) /\ Named(u)' = Named(u)
  BY DEF Status, Named, AccountOf
<1> QED
  BY <1>1

\* While no keys are set, the kind of each account's keys stays as it is.
LEMMA SameKinds ==
    ASSUME RInv, [Next]_vars, nextKeys' = nextKeys
    PROVE  [a \in Account |-> KindOfKeys(a)]' = [a \in Account |-> KindOfKeys(a)]
<1>1. \A p \in Pod : keystore[p] \subseteq keystore'[p]
  BY StoresGrow DEF RInv, IInv
<1>2. \A a \in Account : KindOfKeys(a)' = KindOfKeys(a)
  BY <1>1 DEF KindOfKeys, HeldByNode, RInv, KeysOrigin
<1> QED
  BY <1>2

LEMMA InitImplements == Init => Promise!Init
<1> SUFFICES ASSUME Init PROVE Promise!Init
  OBVIOUS
<1>1. \A t \in Task : Status(t) = "idle" /\ Named(t) = {}
  BY DEF Init, Status, Named
<1>2. \A a \in Account : KindOfKeys(a) = IF a \in validators THEN "operator" ELSE "none"
  BY SentinelAssumption DEF Init, KindOfKeys
<1> QED
  BY <1>1, <1>2, GenesisAssumption DEF Init, Promise!Init

LEMMA KindsOf ==
    ASSUME NEW s \in Account, NEW kind, KindOfKeys(s)' = kind,
           \A a \in Account \ {s} : KindOfKeys(a)' = KindOfKeys(a)
    PROVE  [a \in Account |-> KindOfKeys(a)]' =
               [[a \in Account |-> KindOfKeys(a)] EXCEPT ![s] = kind]
<1> QED
  OBVIOUS

LEMMA SetKeysImplements ==
    ASSUME RInv, [Next]_vars, NEW t \in Task, SetKeys(t) \/ SetKeysUnreported(t)
    PROVE  Promise!GiveKeys(t)
<1> USE DEF RInv, IInv, TypeOK
<1>0. /\ holding[t] \in Pod /\ holding[t] # NoPod /\ Stash[holding[t]] \in Account
  BY StashAssumption DEF SetKeys, SetKeysUnreported, SetUpEnds
<1>p. PICK h \in Pod, s \in Account : h = holding[t] /\ s = Stash[h]
  BY <1>0
<1>1. h \in req[t] /\ pc[t] = "gather" /\ op[t] \in {"register", "rotate"}
  BY <1>0, <1>p DEF SetKeys, SetKeysUnreported, SetUpEnds, LocalsInPhase, Serves
<1>2. /\ nextKeys' = [nextKeys EXCEPT ![s] = <<h, t>>]
      /\ UNCHANGED <<pc, op, req, keystore, validators, queued, toAdd, toRetire>>
      /\ \A u \in Task \ {t} : accts'[u] = accts[u]
  BY <1>p DEF SetKeys, SetKeysUnreported, SetUpEnds
<1>3. Status(t) = op[t] /\ s \in Named(t)
  BY <1>p, <1>1 DEF Status, Named, Over
<1>4. \A u \in Task : Status(u)' = Status(u) /\ Named(u)' = Named(u)
  BY <1>1, <1>2 DEF Status, Named, AccountOf
<1>5. <<h, t>> \in Key /\ t \in keystore[h]
  BY <1>0, <1>p DEF Key, HeldInv
<1>6. KindOfKeys(s) \in {"none", "node"}
  <2>1. nextKeys[s] # NoKeys => \E u \in keystore[h] : nextKeys[s] = <<h, u>>
    BY <1>p DEF HeldInv, OnChainKeysHeldByNode
  <2>2. \A u \in keystore[h] : <<h, u>> \in Key
    BY DEF Key
  <2>3. CASE nextKeys[s] = NoKeys
    BY <2>3 DEF KindOfKeys
  <2>4. CASE nextKeys[s] # NoKeys
    <3>1. PICK u \in keystore[h] : nextKeys[s] = <<h, u>>
      BY <2>1, <2>4
    <3>2. nextKeys[s] # OperatorKeys
      BY <2>2, <3>1, SentinelAssumption
    <3> QED
      BY <1>p, <2>4, <3>1, <3>2 DEF KindOfKeys, HeldByNode
  <2> QED
    BY <2>3, <2>4
<1>7. KindOfKeys(s)' = "node"
  <2>1. nextKeys'[s] = <<h, t>> /\ t \in keystore'[h] /\ Stash[h] = s
    BY <1>p, <1>2, <1>5
  <2>2. HeldByNode(s)'
    BY <2>1 DEF HeldByNode
  <2>3. nextKeys'[s] # NoKeys /\ nextKeys'[s] # OperatorKeys
    BY <1>5, <2>1, SentinelAssumption
  <2> QED
    BY <2>2, <2>3 DEF KindOfKeys
<1>8. \A a \in Account \ {s} : KindOfKeys(a)' = KindOfKeys(a)
  BY <1>2 DEF KindOfKeys, HeldByNode
<1>9. [a \in Account |-> KindOfKeys(a)]' = [[a \in Account |-> KindOfKeys(a)] EXCEPT ![s] = "node"]
  BY <1>7, <1>8, KindsOf
<1>10. /\ [u \in Task |-> Status(u)]' = [u \in Task |-> Status(u)]
       /\ [u \in Task |-> Named(u)]' = [u \in Task |-> Named(u)]
  BY <1>4
<1>11. \E a \in [u \in Task |-> Named(u)][t] :
          /\ [b \in Account |-> KindOfKeys(b)][a] \in {"none", "node"}
          /\ [b \in Account |-> KindOfKeys(b)]' =
                 [[b \in Account |-> KindOfKeys(b)] EXCEPT ![a] = "node"]
  <2>1. s \in [u \in Task |-> Named(u)][t]
    BY <1>3
  <2>2. [b \in Account |-> KindOfKeys(b)][s] \in {"none", "node"}
    BY <1>6
  <2> QED
    BY <1>9, <2>1, <2>2
<1> QED
  BY <1>1, <1>2, <1>3, <1>10, <1>11 DEF Promise!GiveKeys

LEMMA StepImplements == RInv /\ [Next]_vars => [Promise!Next]_(Promise!vars)
<1> SUFFICES ASSUME RInv, [Next]_vars PROVE Promise!Next \/ UNCHANGED Promise!vars
  OBVIOUS
<1>a. TypeOK /\ LocalsInPhase /\ Serves
  BY DEF RInv, IInv
<1>1. ASSUME NEW t \in Task, Start(t) PROVE Promise!Ask(t)
  <2>1. PICK what \in PodOps \cup AddrOps, first \in Active, pods \in SUBSET Pod :
            Begin(t, what, first, pods)
    BY <1>1 DEF Start, StartRegister, StartDeregister, StartRotate,
       StartRegisterAddresses, StartDeregisterAddresses, PodOps, AddrOps, Active
  <2>2. Status(t) = "idle" /\ Status(t)' = what
    BY <1>a, <2>1 DEF Begin, Status, Active, Over, TypeOK
  <2>3. Named(t)' \in SUBSET Account
    <3>1. TypeOK'
      BY <1>a, TypeStep
    <3> QED
      BY <3>1, StashAssumption, LabelAssumption DEF TypeOK, Named, AccountOf
  <2>4. /\ UNCHANGED chainVars
        /\ \A u \in Task \ {t} : /\ pc'[u] = pc[u] /\ op'[u] = op[u]
                                  /\ req'[u] = req[u] /\ accts'[u] = accts[u]
    BY <1>a, <1>1 DEF Start, Begin, StartRegister, StartDeregister, StartRotate,
       StartRegisterAddresses, StartDeregisterAddresses, TypeOK
  <2>5. [a \in Account |-> KindOfKeys(a)]' = [a \in Account |-> KindOfKeys(a)]
    BY <2>4, SameKinds
  <2>6. what \in Promise!Asked
    BY DEF PodOps, AddrOps, Promise!Asked
  <2> QED
    BY <2>2, <2>3, <2>4, <2>5, <2>6, SeenOf DEF Promise!Ask
<1>2. ASSUME NEW t \in Task,
             \/ ReadSet(t) \/ ReadAdd(t) \/ SelectToRegister(t) \/ SelectToDeregister(t)
             \/ Fund(t) \/ GatherDone(t) \/ SetKeysRefused(t) \/ SetKeysRaises(t)
             \/ \E p \in Pod : RotateKeys(t, p) \/ RotateFails(t, p)
      PROVE UNCHANGED Promise!vars
  <2>1. /\ UNCHANGED <<validators, queued, toAdd, toRetire, nextKeys, op, req>>
        /\ pc[t] \in Active /\ pc'[t] \in Active
        /\ \A u \in Task \ {t} : pc'[u] = pc[u] /\ accts'[u] = accts[u]
        /\ accts'[t] = accts[t] \/ op[t] = "deregister"
    BY <1>2, <1>a DEF TypeOK, Active, ReadSet, ReadAdd, SelectToRegister, SelectToDeregister,
       Fund, GatherDone, AllSetUp, SetKeysRefused, SetKeysRaises, SetUpEnds, RotateKeys,
       RotateFails
  <2>2. \A u \in Task : Status(u)' = Status(u) /\ Named(u)' = Named(u)
    BY <2>1 DEF Status, Named, AccountOf, Active, Over
  <2>3. [a \in Account |-> KindOfKeys(a)]' = [a \in Account |-> KindOfKeys(a)]
    BY <2>1, SameKinds
  <2> QED
    BY <2>1, <2>2, <2>3 DEF Promise!vars
<1>b. ASSUME NEW t \in Task, NEW how \in Over, Finish(t, how), op' = op, pc[t] \in Active,
             nextKeys' = nextKeys
      PROVE  /\ Promise!Over(t) /\ Status(t) = op[t] /\ op[t] \in Promise!Asked
             /\ [a \in Account |-> KindOfKeys(a)]' = [a \in Account |-> KindOfKeys(a)]
  <2>1. Status(t)' = "over" /\ Named(t)' = {}
    BY <1>a, <1>b DEF Finish, Status, Named, Over, TypeOK
  <2>2. \A u \in Task \ {t} : /\ pc'[u] = pc[u] /\ op'[u] = op[u]
                               /\ req'[u] = req[u] /\ accts'[u] = accts[u]
    BY <1>a, <1>b DEF Finish, TypeOK
  <2>3. Promise!Over(t)
    BY <2>1, <2>2, SeenOf DEF Promise!Over
  <2>4. op[t] \in Promise!Asked /\ Status(t) = op[t]
    BY <1>a, <1>b DEF Serves, Status, Active, Over, PodOps, AddrOps, Promise!Asked
  <2> QED
    BY <1>b, <2>3, <2>4, SameKinds
<1>3. ASSUME NEW t \in Task,
             SkipDeregister(t) \/ GatherRaises(t) \/ RotateDone(t) \/ TaskDies(t)
      PROVE Promise!GiveUp(t)
  <2>1. /\ UNCHANGED <<chainVars, op>> /\ pc[t] \in Active
        /\ \E how \in Over : Finish(t, how)
    BY <1>3 DEF SkipDeregister, GatherRaises, RotateDone, TaskDies, AllSetUp, Active, Over
  <2> QED
    BY <1>b, <2>1 DEF Promise!GiveUp
<1>4. ASSUME NEW t \in Task, SubmitRegister(t) PROVE Promise!PutUp(t) \/ Promise!GiveUp(t)
  <2>1. /\ UNCHANGED <<validators, queued, toRetire, nextKeys, keystore, op>>
        /\ pc[t] \in Active /\ Finish(t, "done") /\ "done" \in Over
        /\ op[t] \in {"register", "registerAddr"}
        /\ toAdd' \in {toAdd, toAdd \cup accts[t]}
    BY <1>4 DEF SubmitRegister, Active, Over
  <2>2. /\ Promise!Over(t) /\ Status(t) = op[t] /\ op[t] \in Promise!Asked
        /\ [a \in Account |-> KindOfKeys(a)]' = [a \in Account |-> KindOfKeys(a)]
    BY <1>b, <2>1
  <2>3. op[t] = "register" => accts[t] \subseteq Named(t) \cap Promise!Keyed
    <3>1. op[t] = "register" => accts[t] \subseteq Named(t)
      BY <1>a DEF Serves, Named
    <3>2. op[t] = "register" => accts[t] \subseteq Keyed
      BY DEF RInv, IInv, KeyedInv, AccountsKeyed
    <3>3. Keyed \subseteq Promise!Keyed
      BY DEF Keyed, Promise!Keyed, KindOfKeys
    <3> QED
      BY <3>1, <3>2, <3>3
  <2>4. op[t] = "registerAddr" => Named(t) = accts[t]
    BY DEF Named
  <2> QED
    BY <2>1, <2>2, <2>3, <2>4 DEF Promise!PutUp, Promise!GiveUp
<1>5. ASSUME NEW t \in Task, SubmitDeregister(t) PROVE Promise!Retire(t) \/ Promise!GiveUp(t)
  <2>1. /\ UNCHANGED <<validators, queued, toAdd, nextKeys, keystore, op>>
        /\ pc[t] \in Active /\ Finish(t, "done") /\ "done" \in Over
        /\ op[t] \in {"deregister", "deregisterAddr"}
        /\ toRetire' \in {toRetire, toRetire \cup accts[t]}
    BY <1>5 DEF SubmitDeregister, Active, Over
  <2>2. /\ Promise!Over(t) /\ Status(t) = op[t] /\ op[t] \in Promise!Asked
        /\ [a \in Account |-> KindOfKeys(a)]' = [a \in Account |-> KindOfKeys(a)]
    BY <1>b, <2>1
  <2>3. /\ op[t] = "deregister" => accts[t] \subseteq Named(t)
        /\ op[t] = "deregisterAddr" => Named(t) = accts[t]
    BY <1>a DEF Serves, Named
  <2> QED
    BY <2>1, <2>2, <2>3 DEF Promise!Retire, Promise!GiveUp
<1>6. ASSUME SessionChange PROVE Promise!NewSession
  <2>1. UNCHANGED <<nextKeys, keystore, pc, op, req, accts>>
    BY <1>6 DEF SessionChange
  <2>2. \A u \in Task : Status(u)' = Status(u) /\ Named(u)' = Named(u)
    BY <2>1 DEF Status, Named, AccountOf
  <2>3. [a \in Account |-> KindOfKeys(a)]' = [a \in Account |-> KindOfKeys(a)]
    BY <2>1, SameKinds
  <2>4. Promise!Keyed = Keyed
    BY DEF Promise!Keyed, Keyed, KindOfKeys
  <2> QED
    BY <1>6, <2>2, <2>3, <2>4 DEF SessionChange, Promise!NewSession
<1>7. CASE UNCHANGED vars
  BY <1>7 DEF vars, Promise!vars, Status, Named, AccountOf, KindOfKeys, HeldByNode
<1>8. ASSUME NEW t \in Task, SetKeys(t) \/ SetKeysUnreported(t) PROVE Promise!GiveKeys(t)
  BY <1>8, SetKeysImplements
<1> QED
  BY <1>1, <1>2, <1>3, <1>4, <1>5, <1>6, <1>7, <1>8
  DEF Next, TaskStep, Promise!Next, Promise!Answer

\* Whatever tasks interleave and wherever they fail, what they do to the chain
\* is what the requests they serve may do: keys and candidacies for accounts
\* that were asked for, at one instant, with keys that their own nodes hold.
THEOREM Implements == Spec => ImplementsPromise
<1> QED
  BY InitImplements, StepImplements, RInvariant, PTL DEF Spec, ImplementsPromise, Promise!Spec
-----------------------------------------------------------------------------
(* Why every task is over in the end: the steps it has left decrease         *)

\* The most steps task t may still take: two for each pod to set up, and the
\* reads, the funding and the submission around them.
StepsLeft(t) ==
    LET asked == Cardinality(req[t])
        left == Cardinality(todo[t])
    IN CASE pc[t] = "readSet"    -> 2 * asked + 6
         [] pc[t] = "readAdd"    -> 2 * asked + 5
         [] pc[t] = "readRetire" -> 2 * asked + 4
         [] pc[t] = "fund"       -> 2 * left + 3
         [] pc[t] = "gather"     -> 2 * left + (IF holding[t] = NoPod THEN 2 ELSE 1)
         [] pc[t] = "submit"     -> 1
         [] OTHER                -> 0

\* A task comes nearer to its end with each step it takes, and no other task, no
\* session and no fault throws it back.
StepsDecrease ==
    \A t \in Task :
        /\ pc[t] \in Active => StepsLeft(t)' <= StepsLeft(t)
        /\ TaskStep(t) => StepsLeft(t)' < StepsLeft(t)

\* The pods asked for and the pods left can be counted.
Counted(t) ==
    /\ Cardinality(req[t]) \in Nat /\ Cardinality(todo[t]) \in Nat
    /\ IsFiniteSet(req[t]) /\ IsFiniteSet(todo[t])

LEMMA TaskCounted ==
    ASSUME IsFiniteSet(Pod), TypeOK, NEW t \in Task
    PROVE  Counted(t)
<1>1. req[t] \subseteq Pod /\ todo[t] \subseteq Pod
  BY DEF TypeOK
<1> QED
  BY <1>1, FS_Subset, FS_CardinalityType DEF Counted

\* Taking one element away.
LEMMA OneLess ==
    ASSUME NEW S, IsFiniteSet(S), NEW x \in S
    PROVE  Cardinality(S \ {x}) = Cardinality(S) - 1
BY FS_RemoveElement

\* The steps of the task itself.
LEMMA OwnStepsDecrease ==
    ASSUME IsFiniteSet(Pod), TypeOK, LocalsInPhase, NEW t \in Task, TaskStep(t)
    PROVE  StepsLeft(t)' < StepsLeft(t)
<1>0. Counted(t)
  BY TaskCounted
<1> USE DEF TypeOK
<1>1. CASE ReadSet(t) \/ ReadAdd(t)
  BY <1>0, <1>1 DEF ReadSet, ReadAdd, StepsLeft, Counted
<1>2. CASE SelectToRegister(t)
  <2>1. todo'[t] \subseteq req[t] /\ pc[t] = "readRetire" /\ pc'[t] = "fund"
    BY <1>2 DEF SelectToRegister
  <2>2. Cardinality(todo'[t]) \in Nat /\ Cardinality(todo'[t]) <= Cardinality(req[t])
    BY <1>0, <2>1, FS_Subset, FS_CardinalityType DEF Counted
  <2> QED
    BY <1>0, <2>1, <2>2 DEF StepsLeft, Counted
<1>3. CASE SelectToDeregister(t)
  <2>1. pc[t] = "readRetire" /\ pc'[t] = "submit"
    BY <1>3 DEF SelectToDeregister
  <2> QED
    BY <1>0, <2>1 DEF StepsLeft, Counted
<1>4. CASE Fund(t)
  <2>1. pc[t] = "fund" /\ pc'[t] = "gather" /\ todo' = todo /\ holding' = holding
    BY <1>4 DEF Fund, localVars
  <2> QED
    BY <1>0, <2>1 DEF StepsLeft, Counted
<1>5. ASSUME NEW p \in Pod, RotateKeys(t, p) PROVE StepsLeft(t)' < StepsLeft(t)
  <2>1. /\ pc[t] = "gather" /\ pc' = pc /\ todo' = todo
        /\ holding[t] = NoPod /\ holding'[t] # NoPod
    BY <1>5, SentinelAssumption DEF RotateKeys
  <2> QED
    BY <1>0, <2>1 DEF StepsLeft, Counted
<1>6. ASSUME NEW p \in Pod, RotateFails(t, p) PROVE StepsLeft(t)' < StepsLeft(t)
  <2>1. /\ pc[t] = "gather" /\ pc' = pc /\ holding' = holding /\ holding[t] = NoPod
        /\ p \in todo[t] /\ todo'[t] = todo[t] \ {p}
    BY <1>6 DEF RotateFails
  <2>2. Cardinality(todo'[t]) = Cardinality(todo[t]) - 1
    BY <1>0, <2>1, OneLess DEF Counted
  <2> QED
    BY <1>0, <2>1, <2>2 DEF StepsLeft, Counted
<1>7. CASE SetUpEnds(t)
  <2>1. /\ pc[t] = "gather" /\ pc' = pc /\ holding[t] # NoPod /\ holding'[t] = NoPod
        /\ todo'[t] = todo[t] \ {holding[t]}
    BY <1>7 DEF SetUpEnds
  <2>2. holding[t] \in todo[t]
    BY <2>1 DEF LocalsInPhase
  <2>3. Cardinality(todo'[t]) = Cardinality(todo[t]) - 1
    BY <1>0, <2>1, <2>2, OneLess DEF Counted
  <2> QED
    BY <1>0, <2>1, <2>3 DEF StepsLeft, Counted
<1>8. CASE GatherDone(t)
  <2>1. pc[t] = "gather" /\ pc'[t] = "submit" /\ holding[t] = NoPod
    BY <1>8 DEF GatherDone, AllSetUp
  <2> QED
    BY <1>0, <2>1 DEF StepsLeft, Counted
<1>9. CASE SkipDeregister(t) \/ GatherRaises(t) \/ RotateDone(t)
             \/ SubmitRegister(t) \/ SubmitDeregister(t)
  <2>1. pc[t] \in {"readRetire", "gather", "submit"} /\ pc'[t] \in {"done", "dead"}
    BY <1>9 DEF SkipDeregister, GatherRaises, RotateDone, SubmitRegister, SubmitDeregister,
       AllSetUp, Finish
  <2> QED
    BY <1>0, <2>1 DEF StepsLeft, Counted
<1> QED
  BY <1>1, <1>2, <1>3, <1>4, <1>5, <1>6, <1>7, <1>8, <1>9
  DEF TaskStep, SetKeys, SetKeysRefused, SetKeysUnreported, SetKeysRaises

\* The steps of others, and sessions, leave a task what it has.
LEMMA OthersSpareSteps ==
    ASSUME TypeOK, NEW t \in Task,
           \/ \E u \in Task \ {t} : Start(u) \/ TaskStep(u) \/ TaskDies(u)
           \/ SessionChange \/ UNCHANGED vars
    PROVE  StepsLeft(t)' = StepsLeft(t)
<1> USE DEF TypeOK, localVars
<1>1. pc'[t] = pc[t] /\ todo'[t] = todo[t] /\ req'[t] = req[t] /\ holding'[t] = holding[t]
  <2>1. CASE SessionChange \/ UNCHANGED vars
    BY <2>1 DEF SessionChange, vars
  <2>2. ASSUME NEW u \in Task \ {t}, Start(u)
        PROVE  /\ pc'[t] = pc[t] /\ todo'[t] = todo[t]
               /\ req'[t] = req[t] /\ holding'[t] = holding[t]
    BY <2>2 DEF Start, Begin, StartRegister, StartDeregister, StartRotate,
       StartRegisterAddresses, StartDeregisterAddresses
  <2>3. ASSUME NEW u \in Task \ {t}, TaskStep(u) \/ TaskDies(u)
        PROVE  /\ pc'[t] = pc[t] /\ todo'[t] = todo[t]
               /\ req'[t] = req[t] /\ holding'[t] = holding[t]
    BY <2>3 DEF TaskStep, TaskDies, ReadSet, ReadAdd, SelectToRegister, SelectToDeregister,
       SkipDeregister, Fund, RotateKeys, RotateFails, SetKeys, SetKeysRefused,
       SetKeysUnreported, SetKeysRaises, SetUpEnds, GatherRaises, RotateDone, GatherDone,
       SubmitRegister, SubmitDeregister, Finish
  <2> QED
    BY <2>1, <2>2, <2>3
<1> QED
  BY <1>1 DEF StepsLeft

LEMMA StepsStep ==
    ASSUME IsFiniteSet(Pod), TypeOK, LocalsInPhase, TypeOK', [Next]_vars
    PROVE  StepsDecrease
<1> SUFFICES ASSUME NEW t \in Task
             PROVE  /\ pc[t] \in Active => StepsLeft(t)' <= StepsLeft(t)
                    /\ TaskStep(t) => StepsLeft(t)' < StepsLeft(t)
  BY DEF StepsDecrease
<1>1. StepsLeft(t) \in Nat /\ StepsLeft(t)' \in Nat
  <2>1. Cardinality(req[t]) \in Nat /\ Cardinality(todo[t]) \in Nat
    BY TaskCounted DEF Counted
  <2>2. req'[t] \subseteq Pod /\ todo'[t] \subseteq Pod
    BY DEF TypeOK
  <2>3. Cardinality(req'[t]) \in Nat /\ Cardinality(todo'[t]) \in Nat
    BY <2>2, FS_Subset, FS_CardinalityType
  <2> QED
    BY <2>1, <2>3 DEF StepsLeft
<1>2. TaskStep(t) => StepsLeft(t)' < StepsLeft(t)
  BY OwnStepsDecrease
<1>3. ASSUME TaskDies(t) PROVE StepsLeft(t)' <= StepsLeft(t)
  <2>1. pc'[t] = "dead"
    BY <1>3 DEF TaskDies, Finish, TypeOK
  <2>2. StepsLeft(t)' = 0
    BY <2>1 DEF StepsLeft
  <2> QED
    BY <1>1, <2>2
<1>4. ASSUME Start(t) PROVE pc[t] \notin Active
  BY <1>4 DEF Start, Begin, StartRegister, StartDeregister, StartRotate,
     StartRegisterAddresses, StartDeregisterAddresses, Active
<1>5. CASE \/ \E u \in Task \ {t} : Start(u) \/ TaskStep(u) \/ TaskDies(u)
           \/ SessionChange \/ UNCHANGED vars
  BY <1>1, <1>2, <1>5, OthersSpareSteps
<1> QED
  BY <1>1, <1>2, <1>3, <1>4, <1>5 DEF Next

\* A task takes 2 n + 6 steps at most for n pods, also when set-ups fail or raise
\* and while the validators change: it ends if it goes on.
THEOREM TasksAdvance == IsFiniteSet(Pod) => (Spec => [][StepsDecrease]_vars)
<1> SUFFICES ASSUME IsFiniteSet(Pod) PROVE Spec => [][StepsDecrease]_vars
  OBVIOUS
<1>1. IInv /\ IInv' /\ [Next]_vars => StepsDecrease
  BY StepsStep DEF IInv
<1> QED
  BY <1>1, Invariant, PTL DEF Spec
=============================================================================
