-------------------------- MODULE CollatorsProofs --------------------------
(***************************************************************************)
(* Proofs about the collators of a parachain, for every set of tasks and   *)
(* every finite set of nodes.  First MintCollators: types, which include   *)
(* that the number of candidates asked for is never negative; that         *)
(* candidates have keys of their own nodes; and that a registration        *)
(* nothing races with is not refused.  Then MoonCollators: associations    *)
(* are of keys the node holds, and what an undisturbed request achieves.   *)
(* At the end, that both hold of the composition.                          *)
(***************************************************************************)
EXTENDS Collators, FiniteSetTheorems, SequenceTheorems, TLAPS

USE DEF chainVars, history, Goto

\* The phases in which a task is at work on a node.
AtWork == RegisterSteps \cup DeregisterSteps \cup SetKeysSteps
HasNode == \A t \in Task : pc[t] \in AtWork => node[t] \in Node
Typed == TypeOK /\ HasNode

LEMMA CandidatesFinite ==
    ASSUME TypeOK
    PROVE  /\ IsFiniteSet(candidates)
           /\ Cardinality(candidates) \in Nat
           /\ candidates # {} => Cardinality(candidates) - 1 \in Nat
<1>1. IsFiniteSet(candidates)
  BY NodeAssumption, FS_Subset DEF TypeOK
<1>2. Cardinality(candidates) \in Nat
  BY <1>1, FS_CardinalityType
<1>3. candidates # {} => Cardinality(candidates) # 0
  BY <1>1, FS_EmptySet
<1> QED
  BY <1>1, <1>2, <1>3

\* A node stores one more key.
LEMMA StoringKeys ==
    ASSUME TypeOK, NEW n \in Node, NEW k \in Key
    PROVE  /\ [keystore EXCEPT ![n] = @ \cup {k}] \in [Node -> SUBSET Key]
           /\ \A m \in Node : keystore[m] \subseteq [keystore EXCEPT ![n] = @ \cup {k}][m]
<1>1. keystore[n] \cup {k} \in SUBSET Key
  BY DEF TypeOK
<1> QED
  BY <1>1 DEF TypeOK

LEMMA TypeInit == Init => Typed
<1> SUFFICES ASSUME Init PROVE Typed
  OBVIOUS
<1>1. Cardinality(candidates) \in Nat
  BY NodeAssumption, FS_Subset, FS_CardinalityType DEF Init
<1>2. Derived \in Key
  BY DEF Key
<1>3. nextKeys \in [Node -> Key \cup {NoKeys}] /\ keystore \in [Node -> SUBSET Key]
  BY <1>2 DEF Init
<1>4. TypeOK
  <2>1. /\ candidates \subseteq Node /\ desired \in Nat /\ funded \subseteq Node
        /\ xcm \in Seq(Nat)
    BY <1>1 DEF Init
  <2> QED
    BY <1>3, <2>1 DEF Init, TypeOK
<1>5. HasNode
  BY DEF Init, HasNode, AtWork, RegisterSteps, DeregisterSteps, SetKeysSteps
<1> QED
  BY <1>4, <1>5 DEF Typed

\* The function that handles one node returns, whatever it has done before.
LEMMA NodeDoneTyped ==
    ASSUME Typed, NEW t \in Task, pc[t] \in AtWork, NodeDone(t),
           candidates' \subseteq Node, desired' \in Nat,
           nextKeys' \in [Node -> Key \cup {NoKeys}], funded' \subseteq Node,
           keystore' \in [Node -> SUBSET Key], xcm' \in Seq(Nat)
    PROVE  Typed'
<1> QED
  BY DEF Typed, TypeOK, HasNode, NodeDone, AtWork, RegisterSteps, DeregisterSteps,
     SetKeysSteps, Active

LEMMA TypeStep == Typed /\ [Next]_vars => Typed'
<1> SUFFICES ASSUME Typed, [Next]_vars PROVE Typed'
  OBVIOUS
<1>0. Derived \in Key /\ \A t \in Task : t \in Key
  BY DEF Key
<1> USE DEF Typed, TypeOK, HasNode, AtWork, RegisterSteps, DeregisterSteps,
        SetKeysSteps, Active
<1>1. ASSUME NEW t \in Task, NEW o \in Op, NEW nodes \in SUBSET Node, Begin(t, o, nodes)
      PROVE  Typed'
  BY <1>1 DEF Begin
<1>2. ASSUME NEW t \in Task, SetKeysOfStatefulSet(t) \/ TaskDone(t) \/ TaskDies(t)
      PROVE  Typed'
  <2>1. CASE SetKeysOfStatefulSet(t) \/ TaskDone(t)
    BY <2>1 DEF SetKeysOfStatefulSet, TaskDone
  <2>2. CASE TaskDies(t)
    BY <2>2 DEF TaskDies
  <2> QED
    BY <1>2, <2>1, <2>2
<1>3. ASSUME NEW t \in Task, NEW n \in Node,
             LookToRegister(t, n) \/ LookToDeregister(t, n) \/ LookToSetKeys(t, n)
      PROVE  Typed'
  <2>1. PICK there \in {"fund", "countDown", "teleport"} : Take(t, n, there)
    BY <1>3 DEF LookToRegister, LookToDeregister, LookToSetKeys
  <2> QED
    BY <2>1 DEF Take
<1>4. ASSUME NEW t \in Task, NEW n \in Node, Already(t, n) PROVE Typed'
  BY <1>4 DEF Already
<1>5. ASSUME NEW t \in Task, Fund(t) \/ Teleport(t) \/ HasKey(t) PROVE Typed'
  BY <1>5 DEF Fund, Teleport, HasKey
<1>6. ASSUME NEW t \in Task, InjectKey(t) \/ RotateKey(t) PROVE Typed'
  <2>1. node[t] \in Node
    BY <1>6 DEF InjectKey, RotateKey
  <2>2. \A k \in Key : [keystore EXCEPT ![node[t]] = @ \cup {k}] \in [Node -> SUBSET Key]
    BY <2>1, StoringKeys
  <2>3. keystore' \in [Node -> SUBSET Key]
    BY <1>0, <1>6, <2>2 DEF InjectKey, RotateKey
  <2> QED
    BY <1>6, <2>3 DEF InjectKey, RotateKey
<1>7. ASSUME NEW t \in Task, SetKeys(t) PROVE Typed'
  BY <1>0, <1>7 DEF SetKeys
<1>8. ASSUME NEW t \in Task, CountUp(t) \/ CountDown(t) PROVE Typed'
  <2>1. count'[t] \in Nat
    BY <1>8, CandidatesFinite DEF CountUp, CountDown
  <2> QED
    BY <1>8, <2>1 DEF CountUp, CountDown
<1>9. ASSUME NEW t \in Task, SendDesired(t) PROVE Typed'
  <2>1. Append(xcm, count[t]) \in Seq(Nat)
    BY <1>9
  <2> QED
    BY <1>9, <2>1 DEF SendDesired
<1>10. ASSUME NEW t \in Task,
              CountDownRaises(t) \/ JoinRefused(t) \/ LacksKey(t) \/ CannotPay(t)
       PROVE  Typed'
  BY <1>10, NodeDoneTyped DEF CountDownRaises, JoinRefused, LacksKey, CannotPay
<1>11. ASSUME NEW t \in Task, Join(t) \/ Leave(t) PROVE Typed'
  BY <1>11, NodeDoneTyped DEF Join, Leave
<1>12. ASSUME NEW t \in Task, SetDerived(t) PROVE Typed'
  BY <1>0, <1>12, NodeDoneTyped DEF SetDerived
<1>13. ASSUME NEW t \in Task, CallFails(t) PROVE Typed'
  <2>1. Append(xcm, count[t]) \in Seq(Nat)
    OBVIOUS
  <2>2. pc[t] \in AtWork /\ node[t] \in Node
    BY <1>13 DEF CallFails
  <2>3. /\ candidates' \subseteq Node /\ desired' \in Nat /\ funded' \subseteq Node
        /\ xcm' \in Seq(Nat)
    BY <1>13, <2>1, <2>2 DEF CallFails
  <2>4. /\ [keystore EXCEPT ![node[t]] = @ \cup {t}] \in [Node -> SUBSET Key]
        /\ [nextKeys EXCEPT ![node[t]] = t] \in [Node -> Key \cup {NoKeys}]
    BY <1>0, <2>2, StoringKeys
  <2>5. /\ keystore' \in {keystore, [keystore EXCEPT ![node[t]] = @ \cup {t}]}
        /\ nextKeys' \in {nextKeys, [nextKeys EXCEPT ![node[t]] = t]}
    BY <1>13 DEF CallFails
  <2>6. nextKeys' \in [Node -> Key \cup {NoKeys}] /\ keystore' \in [Node -> SUBSET Key]
    BY <2>4, <2>5
  <2> QED
    BY <1>13, <2>2, <2>3, <2>6, NodeDoneTyped DEF CallFails
<1>14. ASSUME Deliver PROVE Typed'
  <2>1. Tail(xcm) \in Seq(Nat) /\ Head(xcm) \in Nat
    BY <1>14 DEF Deliver
  <2> QED
    BY <1>14, <2>1 DEF Deliver
<1>15. CASE UNCHANGED vars
  BY <1>15 DEF vars
<1> QED
  BY <1>1, <1>2, <1>3, <1>4, <1>5, <1>6, <1>7, <1>8, <1>9, <1>10, <1>11, <1>12, <1>13,
     <1>14, <1>15
  DEF Next, TaskStep

\* Every variable keeps its type; in particular no task ever asks for a
\* negative number of candidates, however many leave while it counts.
THEOREM TypeCorrect == Spec => []TypeOK
<1>1. Typed => TypeOK
  BY DEF Typed
<1> QED
  BY <1>1, TypeInit, TypeStep, PTL DEF Spec

-----------------------------------------------------------------------------
\* The key a task is about to set is in the keystore of the node at hand, and
\* so is every key that is set; a candidate has one.
KeysHeld ==
    /\ \A t \in Task : pc[t] = "setKeys" => t \in keystore[node[t]]
    /\ \A t \in Task : pc[t] = "setDerived" => Derived \in keystore[node[t]]
    /\ \A n \in Node : nextKeys[n] # NoKeys => nextKeys[n] \in keystore[n]
    /\ \A n \in candidates : nextKeys[n] # NoKeys

\* A step that sets no keys, adds no candidate and takes no key out of a
\* keystore leaves KeysHeld true if it starts no task on setting keys.
LEMMA Undisturbed ==
    ASSUME Typed, KeysHeld,
           \A n \in Node : keystore[n] \subseteq keystore'[n],
           nextKeys' = nextKeys, candidates' \subseteq candidates,
           \A t \in Task : pc'[t] \in {"setKeys", "setDerived"} =>
               pc'[t] = pc[t] /\ node'[t] = node[t]
    PROVE  KeysHeld'
<1>1. \A t \in Task : pc[t] \in {"setKeys", "setDerived"} => node[t] \in Node
  BY DEF Typed, HasNode, AtWork, RegisterSteps, SetKeysSteps
<1> QED
  BY <1>1 DEF KeysHeld, Typed, TypeOK

LEMMA KeysStep == Typed /\ KeysHeld /\ [Next]_vars => KeysHeld'
<1> SUFFICES ASSUME Typed, KeysHeld, [Next]_vars PROVE KeysHeld'
  OBVIOUS
<1> USE DEF Typed, TypeOK
<1>0. \A t \in Task : pc[t] \in AtWork => node[t] \in Node
  BY DEF HasNode
<1> USE DEF AtWork, RegisterSteps, DeregisterSteps, SetKeysSteps
<1>1. ASSUME NEW t \in Task, NEW o \in Op, NEW nodes \in SUBSET Node, Begin(t, o, nodes)
      PROVE  KeysHeld'
  BY <1>1, Undisturbed DEF Begin
<1>2. ASSUME NEW t \in Task, NEW n \in Node,
             LookToRegister(t, n) \/ LookToDeregister(t, n) \/ LookToSetKeys(t, n)
               \/ Already(t, n)
      PROVE  KeysHeld'
  BY <1>2, Undisturbed DEF LookToRegister, LookToDeregister, LookToSetKeys, Already, Take
<1>3. ASSUME NEW t \in Task,
             SetKeysOfStatefulSet(t) \/ TaskDone(t) \/ TaskDies(t) \/ Fund(t) \/ Teleport(t)
               \/ CountUp(t) \/ CountDown(t) \/ SendDesired(t)
      PROVE  KeysHeld'
  BY <1>3, Undisturbed DEF SetKeysOfStatefulSet, TaskDone, TaskDies, Fund, Teleport,
     CountUp, CountDown, SendDesired
<1>4. ASSUME NEW t \in Task, CountDownRaises(t) \/ JoinRefused(t) \/ LacksKey(t)
                               \/ CannotPay(t) \/ Leave(t)
      PROVE  KeysHeld'
  BY <1>4, Undisturbed DEF CountDownRaises, JoinRefused, LacksKey, CannotPay, Leave, NodeDone
<1>5. ASSUME NEW t \in Task, InjectKey(t) PROVE KeysHeld'
  <2>1. \A n \in Node : keystore[n] \subseteq keystore'[n]
    BY <1>5 DEF InjectKey
  <2> QED
    BY <1>5, <2>1, Undisturbed DEF InjectKey
<1>6. ASSUME NEW t \in Task, RotateKey(t) PROVE KeysHeld'
  <2>1. t \in keystore'[node[t]] /\ \A n \in Node : keystore[n] \subseteq keystore'[n]
    BY <1>0, <1>6 DEF RotateKey
  <2> QED
    BY <1>0, <1>6, <2>1 DEF RotateKey, KeysHeld
<1>7. ASSUME NEW t \in Task, HasKey(t) PROVE KeysHeld'
  BY <1>7 DEF HasKey, KeysHeld
<1>8. ASSUME NEW t \in Task, SetKeys(t) PROVE KeysHeld'
  <2>1. node[t] \in Node /\ t \in keystore[node[t]] /\ t # NoKeys
    BY <1>0, <1>8, SentinelAssumption DEF SetKeys, KeysHeld, Key
  <2> QED
    BY <1>8, <2>1 DEF SetKeys, KeysHeld
<1>9. ASSUME NEW t \in Task, SetDerived(t) PROVE KeysHeld'
  <2>1. node[t] \in Node /\ Derived \in keystore[node[t]] /\ Derived # NoKeys
    BY <1>0, <1>9, SentinelAssumption DEF SetDerived, KeysHeld, Key
  <2> QED
    BY <1>9, <2>1 DEF SetDerived, NodeDone, KeysHeld
<1>10. ASSUME NEW t \in Task, Join(t) PROVE KeysHeld'
  BY <1>0, <1>10 DEF Join, Joinable, NodeDone, KeysHeld
<1>11. ASSUME NEW t \in Task, CallFails(t) PROVE KeysHeld'
  <2>1. node[t] \in Node
    BY <1>0, <1>11 DEF CallFails, Active
  <2>2. \A u \in Task : pc'[u] \in {"setKeys", "setDerived"} =>
           pc'[u] = pc[u] /\ node'[u] = node[u]
    BY <1>11 DEF CallFails, NodeDone
  <2>3. CASE pc[t] = "setKeys" /\ nextKeys' = [nextKeys EXCEPT ![node[t]] = t]
                /\ UNCHANGED <<candidates, desired, funded, keystore, xcm>>
    <3>1. t \in keystore[node[t]] /\ t # NoKeys
      BY <2>3, SentinelAssumption DEF KeysHeld, Key
    <3> QED
      BY <2>1, <2>2, <2>3, <3>1 DEF KeysHeld
  <2>4. CASE /\ pc[t] = "join" /\ Joinable(node[t]) /\ candidates' = candidates \cup {node[t]}
             /\ UNCHANGED <<desired, nextKeys, funded, keystore, xcm>>
    BY <2>1, <2>2, <2>4 DEF KeysHeld, Joinable
  <2>5. CASE /\ \A n \in Node : keystore[n] \subseteq keystore'[n]
             /\ nextKeys' = nextKeys /\ candidates' = candidates
    BY <2>2, <2>5, Undisturbed
  <2>6. CASE pc[t] = "rotate" /\ keystore' = [keystore EXCEPT ![node[t]] = @ \cup {t}]
                /\ UNCHANGED <<candidates, desired, nextKeys, funded, xcm>>
    BY <2>1, <2>5, <2>6
  <2> QED
    BY <1>11, <2>3, <2>4, <2>5, <2>6 DEF CallFails
<1>12. CASE Deliver
  BY <1>12, Undisturbed DEF Deliver
<1>13. CASE UNCHANGED vars
  BY <1>13, Undisturbed DEF vars
<1> QED
  BY <1>1, <1>2, <1>3, <1>4, <1>5, <1>6, <1>7, <1>8, <1>9, <1>10, <1>11, <1>12, <1>13
  DEF Next, TaskStep

\* A candidate's keys on chain are keys its own node can sign with, whatever
\* registrations and set_on_chain_keys race for it and wherever they fail.
THEOREM CandidatesKeysHeld == Spec => []CandidatesHaveNodeKeys
<1>1. Init => KeysHeld
  BY SentinelAssumption DEF Init, KeysHeld, Key
<1>2. Typed /\ KeysHeld => CandidatesHaveNodeKeys
  BY DEF Typed, TypeOK, KeysHeld, CandidatesHaveNodeKeys
<1> QED
  BY <1>1, <1>2, TypeInit, TypeStep, KeysStep, PTL DEF Spec

-----------------------------------------------------------------------------
\* What holds of the registration of a task t nobody else has overlapped: it is
\* the only active one, its node has what the steps so far have given it, and
\* the last message sent asks for one candidate more than there are.
LoneTask(t) ==
    /\ \A u \in Task \ {t} : pc[u] \notin Active
    /\ pc[t] \in {"fund", "inject", "rotate", "setKeys", "countUp", "join"} => op[t] = "register"
    /\ pc[t] = "countDown" => op[t] = "deregister"
    /\ op[t] = "register" /\ pc[t] \in RegisterSteps => node[t] \notin candidates
    /\ op[t] = "register" /\ pc[t] \in {"countUp", "send", "join"} =>
          node[t] \in funded /\ nextKeys[node[t]] # NoKeys
    /\ op[t] = "register" /\ pc[t] \in {"send", "join"} => count[t] = Cardinality(candidates) + 1
    /\ pc[t] = "join" => IF xcm = << >> THEN dropped \/ desired = count[t]
                         ELSE xcm[Len(xcm)] = count[t]

Lone == \A t \in Task \ overlapped : pc[t] \in Active => LoneTask(t)

\* The steps of one task at work, which need it to be active.
Working(t) == TaskStep(t) \/ CallFails(t) \/ TaskDies(t)

LEMMA WorkingIsActive ==
    ASSUME Typed, NEW t \in Task, Working(t)
    PROVE  /\ pc[t] \in Active
           /\ overlapped' = overlapped
           /\ \A u \in Task \ {t} : pc'[u] = pc[u]
<1> USE DEF Typed, TypeOK, Active, RegisterSteps, DeregisterSteps, SetKeysSteps
<1>1. ASSUME NEW n \in Node,
             LookToRegister(t, n) \/ LookToDeregister(t, n) \/ LookToSetKeys(t, n) \/ Already(t, n)
      PROVE  /\ pc[t] \in Active /\ overlapped' = overlapped
             /\ \A u \in Task \ {t} : pc'[u] = pc[u]
  BY <1>1 DEF LookToRegister, LookToDeregister, LookToSetKeys, Already, Take
<1>2. ASSUME \/ Fund(t) \/ InjectKey(t) \/ RotateKey(t) \/ SetKeys(t) \/ CountUp(t)
             \/ CountDown(t) \/ SendDesired(t) \/ Teleport(t) \/ HasKey(t) \/ TaskDone(t)
             \/ TaskDies(t)
      PROVE  /\ pc[t] \in Active /\ overlapped' = overlapped
             /\ \A u \in Task \ {t} : pc'[u] = pc[u]
  BY <1>2 DEF Fund, InjectKey, RotateKey, SetKeys, CountUp, CountDown, SendDesired, Teleport,
     HasKey, TaskDone, TaskDies
<1>3. ASSUME \/ CountDownRaises(t) \/ Join(t) \/ JoinRefused(t) \/ Leave(t) \/ LacksKey(t)
             \/ SetDerived(t) \/ CannotPay(t) \/ CallFails(t)
      PROVE  /\ pc[t] \in Active /\ overlapped' = overlapped
             /\ \A u \in Task \ {t} : pc'[u] = pc[u]
  BY <1>3 DEF CountDownRaises, Join, JoinRefused, Leave, LacksKey, SetDerived, CannotPay,
     CallFails, NodeDone
<1> QED
  BY <1>1, <1>2, <1>3 DEF Working, TaskStep

\* The step of a lone task keeps what LoneTask says of it.
LEMMA LoneTaskStep ==
    ASSUME Typed, NEW t \in Task, LoneTask(t), Working(t), pc'[t] \in Active
    PROVE  LoneTask(t)'
<1>0. \A u \in Task \ {t} : pc'[u] \notin Active
  BY WorkingIsActive DEF LoneTask
<1> USE DEF Typed, TypeOK, Active, RegisterSteps, DeregisterSteps, SetKeysSteps
<1>1. ASSUME pc'[t] = "next" PROVE LoneTask(t)'
  BY <1>0, <1>1 DEF LoneTask
<1>2. ASSUME NEW n \in Node, LookToRegister(t, n) \/ LookToDeregister(t, n) \/ LookToSetKeys(t, n)
      PROVE  LoneTask(t)'
  BY <1>0, <1>2 DEF LoneTask, LookToRegister, LookToDeregister, LookToSetKeys, Take
<1>3. ASSUME Fund(t) \/ InjectKey(t) \/ RotateKey(t) \/ Teleport(t) \/ HasKey(t)
      PROVE  LoneTask(t)'
  BY <1>0, <1>3 DEF LoneTask, Fund, InjectKey, RotateKey, Teleport, HasKey
<1>4. ASSUME SetKeys(t) PROVE LoneTask(t)'
  <2>1. node[t] \in Node /\ nextKeys'[node[t]] # NoKeys
    BY <1>4, SentinelAssumption DEF SetKeys, HasNode, AtWork, Key
  <2> QED
    BY <1>0, <1>4, <2>1 DEF LoneTask, SetKeys
<1>5. ASSUME CountUp(t) \/ CountDown(t) PROVE LoneTask(t)'
  <2>1. CASE CountUp(t)
    BY <1>0, <2>1 DEF LoneTask, CountUp
  <2>2. CASE CountDown(t)
    <3>1. op'[t] = "deregister"
      BY <2>2 DEF LoneTask, CountDown
    <3> QED
      BY <1>0, <2>2, <3>1 DEF LoneTask, CountDown
  <2> QED
    BY <1>5, <2>1, <2>2
<1>6. ASSUME SendDesired(t) PROVE LoneTask(t)'
  <2>1. xcm' # << >> /\ xcm'[Len(xcm')] = count[t]
    BY <1>6 DEF SendDesired
  <2> QED
    BY <1>0, <1>6, <2>1 DEF LoneTask, SendDesired
<1>7. ASSUME NEW n \in Node, Already(t, n) PROVE pc'[t] = "next"
  BY <1>7 DEF Already
<1>8. ASSUME \/ CountDownRaises(t) \/ Join(t) \/ JoinRefused(t) \/ Leave(t) \/ LacksKey(t)
             \/ SetDerived(t) \/ CannotPay(t) \/ CallFails(t)
      PROVE  pc'[t] = "next"
  BY <1>8 DEF CountDownRaises, Join, JoinRefused, Leave, LacksKey, SetDerived, CannotPay,
     CallFails, NodeDone
<1>9. ASSUME TaskDone(t) \/ TaskDies(t) PROVE FALSE
  BY <1>9 DEF TaskDone, TaskDies
<1> QED
  BY <1>1, <1>2, <1>3, <1>4, <1>5, <1>6, <1>7, <1>8, <1>9 DEF Working, TaskStep

\* A sequence of numbers is empty exactly when its length is 0.
LEMMA Nonempty ==
    ASSUME NEW q \in Seq(Nat)
    PROVE  q # << >> <=> Len(q) \in Nat /\ Len(q) > 0
BY EmptySeq

\* The last element of a sequence is the last of its tail, unless it is the head.
LEMMA TailKeepsLast ==
    ASSUME NEW s \in Seq(Nat), s # << >>
    PROVE  /\ Len(s) = 1 \/ Len(s) > 1
           /\ Len(s) = 1 => Tail(s) = << >> /\ Head(s) = s[Len(s)]
           /\ Len(s) > 1 => Tail(s) # << >> /\ Tail(s)[Len(Tail(s))] = s[Len(s)]
<1>1. /\ Tail(s) \in Seq(Nat) /\ Len(Tail(s)) = Len(s) - 1
      /\ \A i \in 1 .. Len(Tail(s)) : Tail(s)[i] = s[i + 1]
  BY HeadTailProperties
<1>2. Len(s) \in Nat /\ Len(s) > 0
  BY Nonempty
<1> DEFINE last == Tail(s)
<1> HIDE DEF last
<1>3. last # << >> <=> Len(last) \in Nat /\ Len(last) > 0
  BY <1>1, Nonempty DEF last
<1>4. Len(last) = Len(s) - 1 /\ \A i \in 1 .. Len(last) : last[i] = s[i + 1]
  BY <1>1 DEF last
<1>5. Len(s) = 1 => last = << >>
  BY <1>2, <1>3, <1>4
<1>6. Len(s) > 1 => last # << >> /\ last[Len(last)] = s[Len(s)]
  <2> SUFFICES ASSUME Len(s) > 1 PROVE last # << >> /\ last[Len(last)] = s[Len(s)]
    OBVIOUS
  <2>1. Len(last) \in Nat /\ Len(last) > 0 /\ Len(last) + 1 = Len(s)
    BY <1>2, <1>4
  <2> QED
    BY <1>3, <1>4, <2>1
<1>7. Head(s) = s[1]
  OBVIOUS
<1>8. Len(s) = 1 \/ Len(s) > 1
  <2>1. \A k \in Nat : k > 0 => k = 1 \/ k > 1
    OBVIOUS
  <2> QED
    BY <1>2, <2>1
<1>9. Len(s) = 1 => Head(s) = s[Len(s)]
  BY <1>7
<1> QED
  BY <1>5, <1>6, <1>8, <1>9 DEF last

\* No task is active at first, and every step keeps what is said of a task that
\* no other has overlapped.
LEMMA LoneInit == Init => Lone
  BY DEF Init, Lone, Active, RegisterSteps, DeregisterSteps, SetKeysSteps

LEMMA LoneStep == Typed /\ Lone /\ [Next]_vars => Lone'
<1> SUFFICES ASSUME Typed, Lone, [Next]_vars PROVE Lone'
  OBVIOUS
<1>1. ASSUME NEW u \in Task, Working(u) PROVE Lone'
  <2> SUFFICES ASSUME NEW t \in Task \ overlapped', pc'[t] \in Active PROVE LoneTask(t)'
    BY DEF Lone
  <2>1. /\ pc[u] \in Active /\ t \in Task \ overlapped
        /\ t # u => pc[t] \in Active
    BY <1>1, WorkingIsActive
  <2>2. CASE t = u
    BY <1>1, <2>1, <2>2, LoneTaskStep DEF Lone
  <2>3. CASE t # u
    BY <2>1, <2>3 DEF Lone, LoneTask
  <2> QED
    BY <2>2, <2>3
<1>2. ASSUME NEW u \in Task, NEW o \in Op, NEW nodes \in SUBSET Node, Begin(u, o, nodes)
      PROVE  Lone'
  <2> DEFINE others == {v \in Task : pc[v] \in Active}
  <2>1. \A v \in Task : pc'[v] \in Active => v = u \/ v \in others
    BY <1>2 DEF Begin, Goto, Typed, TypeOK
  <2>2. CASE others = {}
    <3>1. pc'[u] = "next" /\ \A v \in Task \ {u} : pc'[v] \notin Active
      BY <1>2, <2>1, <2>2 DEF Begin, Goto, Typed, TypeOK
    <3>2. LoneTask(u)'
      BY <3>1 DEF LoneTask, RegisterSteps
    <3> QED
      BY <3>1, <3>2 DEF Lone
  <2>3. CASE others # {}
    <3>1. overlapped' = overlapped \cup others \cup {u}
      BY <1>2, <2>3 DEF Begin
    <3> QED
      BY <2>1, <3>1 DEF Lone
  <2> QED
    BY <2>2, <2>3
<1>3. ASSUME NEW u \in Task, SetKeysOfStatefulSet(u) PROVE Lone'
  <2> SUFFICES ASSUME NEW t \in Task \ overlapped', pc'[t] \in Active PROVE LoneTask(t)'
    BY DEF Lone
  <2>1. /\ pc'[u] \notin Active
        /\ \A v \in Task \ {u} : pc'[v] = pc[v]
    BY <1>3 DEF SetKeysOfStatefulSet, Goto, Typed, TypeOK, Active, RegisterSteps,
       DeregisterSteps, SetKeysSteps
  <2>2. t # u /\ LoneTask(t)
    BY <1>3, <2>1 DEF Lone, SetKeysOfStatefulSet, history
  <2>3. \A v \in Task \ {t} : pc'[v] \notin Active
    BY <2>1, <2>2 DEF LoneTask
  <2> QED
    BY <1>3, <2>1, <2>2, <2>3 DEF LoneTask, SetKeysOfStatefulSet, chainVars, history
<1>4. CASE Deliver
  <2> SUFFICES ASSUME NEW t \in Task \ overlapped', pc'[t] \in Active PROVE LoneTask(t)'
    BY DEF Lone
  <2>1. LoneTask(t)
    BY <1>4 DEF Lone, Deliver
  <2>2. pc[t] = "join" => IF xcm' = << >> THEN dropped' \/ desired' = count[t]
                          ELSE xcm'[Len(xcm')] = count[t]
    <3> SUFFICES ASSUME pc[t] = "join" PROVE IF xcm' = << >> THEN dropped' \/ desired' = count[t]
                          ELSE xcm'[Len(xcm')] = count[t]
      OBVIOUS
    <3>1. xcm # << >> /\ xcm' = Tail(xcm) /\ xcm \in Seq(Nat) /\ xcm[Len(xcm)] = count[t]
      BY <1>4, <2>1 DEF Deliver, LoneTask, Typed, TypeOK
    <3>2. CASE Len(xcm) = 1
      <4>1. xcm' = << >> /\ Head(xcm) = count[t] /\ count'[t] = count[t]
        BY <1>4, <3>1, <3>2, TailKeepsLast DEF Deliver
      <4> QED
        BY <1>4, <4>1 DEF Deliver
    <3>3. CASE Len(xcm) > 1
      <4>1. xcm' # << >> /\ xcm'[Len(xcm')] = count[t] /\ count'[t] = count[t]
        BY <1>4, <3>1, <3>3, TailKeepsLast DEF Deliver
      <4> QED
        BY <4>1
    <3>4. Len(xcm) = 1 \/ Len(xcm) > 1
      BY <3>1, TailKeepsLast
    <3> QED
      BY <3>2, <3>3, <3>4
  <2> QED
    BY <1>4, <2>1, <2>2 DEF LoneTask, Deliver
<1>5. CASE UNCHANGED vars
  BY <1>5 DEF vars, chainVars, history, Lone, LoneTask
<1> QED
  BY <1>1, <1>2, <1>3, <1>4, <1>5 DEF Next, Working

\* A registration that no other task has overlapped has asked for one candidate
\* more than there are, so once its message is executed there is room for it:
\* whatever earlier tasks left behind, only a race or a lost message refuses it.
THEOREM LoneRegistrationHasRoom == Spec => []RegistrationAloneHasRoom
<1>1. ASSUME Typed, Lone PROVE RegistrationAloneHasRoom
  <2> SUFFICES ASSUME NEW t \in Task \ overlapped, pc[t] = "join", xcm = << >>, ~dropped
               PROVE  Joinable(node[t])
    BY DEF RegistrationAloneHasRoom
  <2>1. LoneTask(t)
    BY <1>1 DEF Lone, Active, RegisterSteps
  <2>2. desired = Cardinality(candidates) + 1 /\ Cardinality(candidates) \in Nat
    BY <1>1, <2>1, CandidatesFinite DEF LoneTask, Typed, TypeOK
  <2> QED
    BY <2>1, <2>2 DEF LoneTask, Joinable, RegisterSteps
<1> QED
  BY <1>1, LoneInit, LoneStep, TypeInit, TypeStep, PTL DEF Spec

-----------------------------------------------------------------------------
(* The moonbeam part *)

USE DEF Moon!chainVars, Moon!locals, Moon!Goto, Moon!Untroubled

\* What a task has in hand is of its request, keys in hand and on their way are
\* in the node's keystore, and an idle task has no request.
MoonLocals ==
    \A t \in Task :
        /\ rest[t] \subseteq asked[t]
        /\ phase[t] \in Moon!Steps => now[t] \in asked[t] \ rest[t]
        /\ phase[t] \in {"signKey", "sendKey"} => key[t] \in store[now[t]]
        /\ phase[t] = "idle" => asked[t] = {}
        /\ phase[t] \notin Moon!Active => rest[t] = {}
MoonHeld == \A n \in Node : \A e \in mempool[n] : ~e.join => e.key \in store[n]
MoonTyped == Moon!TypeOK /\ MoonLocals /\ MoonHeld

\* The instance has a copy of FiniteSets of its own.
LEMMA MoonCardinality == \A S : Moon!Cardinality(S) = Cardinality(S)
<1> QED
  BY DEF Moon!Cardinality, Cardinality

LEMMA InPlaceNat ==
    ASSUME NEW nodes \in SUBSET Node
    PROVE  /\ IsFiniteSet(nodes \cap pool) /\ IsFiniteSet({n \in nodes : Moon!Associated(n)})
           /\ Cardinality(nodes \cap pool) \in Nat
           /\ Cardinality({n \in nodes : Moon!Associated(n)}) \in Nat
           /\ Moon!InPlace(nodes) \in Nat
<1>1. IsFiniteSet(nodes \cap pool) /\ IsFiniteSet({n \in nodes : Moon!Associated(n)})
  BY NodeAssumption, FS_Subset
<1>2. Cardinality(nodes \cap pool) \in Nat /\ Cardinality({n \in nodes : Moon!Associated(n)}) \in Nat
  BY <1>1, FS_CardinalityType
<1> QED
  BY <1>1, <1>2, MoonCardinality DEF Moon!InPlace

LEMMA PoolNat == pool \subseteq Node => IsFiniteSet(pool) /\ Cardinality(pool) \in Nat
<1> QED
  BY NodeAssumption, FS_Subset, FS_CardinalityType

LEMMA MoonInit == Moon!Init => MoonTyped
<1> SUFFICES ASSUME Moon!Init PROVE MoonTyped
  OBVIOUS
<1>1. PICK nodes \in SUBSET Node : /\ mapping = nodes \X {OldKey}
          /\ rich = pool \cup nodes
          /\ store = [n \in Node |-> IF n \in nodes THEN {OldKey} ELSE {}]
  BY DEF Moon!Init
<1>2. /\ mapping \subseteq Node \X Moon!Key /\ rich \subseteq Node /\ store \in [Node -> SUBSET Moon!Key]
  BY <1>1 DEF Moon!Init, Moon!Key
<1>3. Moon!TypeOK
  BY <1>2 DEF Moon!Init, Moon!TypeOK, Moon!Active, Moon!Steps
<1>4. MoonLocals /\ MoonHeld
  BY DEF Moon!Init, MoonLocals, MoonHeld, Moon!Steps, Moon!Active
<1> QED
  BY <1>3, <1>4 DEF MoonTyped

\* The extrinsics a task makes.
LEMMA MadeExtrinsics ==
    ASSUME Moon!TypeOK, NEW t \in Task
    PROVE  /\ Moon!Joining(t) \in Moon!Extrinsic /\ Moon!Mapping(t) \in Moon!Extrinsic
           /\ Moon!Joining(t).join = TRUE /\ Moon!Joining(t).nonce = signed[t]
           /\ Moon!Joining(t).hint = hint[t]
           /\ Moon!Mapping(t).join = FALSE /\ Moon!Mapping(t).nonce = signed[t]
           /\ Moon!Mapping(t).key = key[t]
<1> QED
  BY DEF Moon!TypeOK, Moon!Joining, Moon!Mapping, Moon!Extrinsic

LEMMA MoonStepTyped == MoonTyped /\ [Moon!Next]_moonVars => MoonTyped'
<1> SUFFICES ASSUME MoonTyped, [Moon!Next]_moonVars PROVE MoonTyped'
  OBVIOUS
<1> USE DEF MoonTyped, Moon!TypeOK, MoonLocals, MoonHeld, Moon!Active, Moon!Steps
<1>1. ASSUME NEW t \in Task, NEW nodes \in SUBSET Node, Moon!Begin(t, nodes) PROVE MoonTyped'
  BY <1>1, InPlaceNat DEF Moon!Begin
<1>2. ASSUME NEW t \in Task, Moon!NothingDone(t) PROVE MoonTyped'
  BY <1>2 DEF Moon!NothingDone
<1>3. ASSUME NEW t \in Task, NEW n \in Node, Moon!Take(t, n) PROVE MoonTyped'
  BY <1>3 DEF Moon!Take
<1>4. ASSUME NEW t \in Task, Moon!Fund(t) \/ Moon!FundFails(t) PROVE MoonTyped'
  BY <1>4 DEF Moon!Fund, Moon!FundFails
<1>5. ASSUME NEW t \in Task, Moon!LookAtPool(t) PROVE MoonTyped'
  BY <1>5, PoolNat, MoonCardinality DEF Moon!LookAtPool
<1>6. ASSUME NEW t \in Task,
             Moon!Sign(t, "signJoin", "sendJoin") \/ Moon!Sign(t, "signKey", "sendKey") PROVE MoonTyped'
  BY <1>6 DEF Moon!Sign
<1>7. ASSUME NEW t \in Task, Moon!SendJoin(t) PROVE MoonTyped'
  <2>1. PICK e \in Moon!Entering(now[t], Moon!Joining(t)) : mempool' = [mempool EXCEPT ![now[t]] = e]
    BY <1>7 DEF Moon!SendJoin
  <2>2. (e = mempool[now[t]] \/ e = {Moon!Joining(t)}) /\ now[t] \in Node
    BY <1>7, <2>1 DEF Moon!Entering, Moon!SendJoin
  <2>3. e \in SUBSET Moon!Extrinsic /\ \A x \in e : ~x.join => x.key \in store[now[t]]
    <3>1. CASE e = mempool[now[t]]
      BY <2>2, <3>1
    <3>2. CASE e = {Moon!Joining(t)}
      <4>1. Moon!Joining(t) \in Moon!Extrinsic /\ Moon!Joining(t).join
        BY MadeExtrinsics
      <4> QED
        BY <2>2, <3>2, <4>1
    <3> QED
      BY <2>2, <3>1, <3>2
  <2>4. mempool' \in [Node -> SUBSET Moon!Extrinsic] /\ store' = store
    BY <1>7, <2>1, <2>3 DEF Moon!SendJoin
  <2>5. MoonHeld'
    BY <2>1, <2>2, <2>3, <2>4
  <2>6. Moon!TypeOK' /\ MoonLocals'
    BY <1>7, <2>4 DEF Moon!SendJoin
  <2> QED
    BY <2>5, <2>6
<1>8. ASSUME NEW t \in Task, Moon!LookUpMapping(t) \/ Moon!TaskDone(t) PROVE MoonTyped'
  BY <1>8 DEF Moon!LookUpMapping, Moon!TaskDone
<1>9. ASSUME NEW t \in Task, Moon!HasMapping(t) PROVE MoonTyped'
  BY <1>9 DEF Moon!HasMapping, Moon!NodeDone
<1>10. ASSUME NEW t \in Task, Moon!RotateKeys(t) PROVE MoonTyped'
  BY <1>10 DEF Moon!RotateKeys, Moon!Key
<1>11. ASSUME NEW t \in Task, Moon!SendKey(t) PROVE MoonTyped'
  <2>1. PICK e \in Moon!Entering(now[t], Moon!Mapping(t)) : mempool' = [mempool EXCEPT ![now[t]] = e]
    BY <1>11 DEF Moon!SendKey
  <2>2. (e = mempool[now[t]] \/ e = {Moon!Mapping(t)}) /\ now[t] \in Node /\ key[t] \in store[now[t]]
    BY <1>11, <2>1 DEF Moon!Entering, Moon!SendKey
  <2>3. e \in SUBSET Moon!Extrinsic /\ \A x \in e : ~x.join => x.key \in store[now[t]]
    <3>1. CASE e = mempool[now[t]]
      BY <2>2, <3>1
    <3>2. CASE e = {Moon!Mapping(t)}
      <4>1. Moon!Mapping(t) \in Moon!Extrinsic /\ Moon!Mapping(t).key = key[t]
        BY MadeExtrinsics
      <4> QED
        BY <2>2, <3>2, <4>1
    <3> QED
      BY <2>2, <3>1, <3>2
  <2>4. mempool' \in [Node -> SUBSET Moon!Extrinsic] /\ store' = store
    BY <1>11, <2>1, <2>3 DEF Moon!SendKey
  <2>5. MoonHeld'
    BY <2>1, <2>2, <2>3, <2>4
  <2>6. Moon!TypeOK' /\ MoonLocals'
    BY <1>11, <2>4 DEF Moon!SendKey, Moon!NodeDone
  <2> QED
    BY <2>5, <2>6
<1>12. ASSUME NEW t \in Task, Moon!SendFails(t) PROVE MoonTyped'
  BY <1>12 DEF Moon!SendFails, Moon!NodeDone
<1>13. ASSUME NEW t \in Task, Moon!CallFails(t) PROVE MoonTyped'
  <2>1. rich' \subseteq Node
    BY <1>13 DEF Moon!CallFails
  <2>2. store' = store \/ store' = [store EXCEPT ![now[t]] = @ \cup {t}]
    BY <1>13 DEF Moon!CallFails
  <2>3. store' \in [Node -> SUBSET Moon!Key] /\ \A n \in Node : store[n] \subseteq store'[n]
    BY <2>2 DEF Moon!Key
  <2>4. Moon!NodeDone(t) /\ UNCHANGED <<pool, mapping, nonce, mempool>> /\ quiet' = quiet \ {t}
    BY <1>13 DEF Moon!CallFails
  <2>5. Moon!TypeOK'
    BY <2>1, <2>3, <2>4 DEF Moon!NodeDone
  <2> QED
    BY <2>3, <2>4, <2>5 DEF Moon!NodeDone
<1>14. ASSUME NEW t \in Task, Moon!TaskDies(t) PROVE MoonTyped'
  BY <1>14 DEF Moon!TaskDies
<1>15. ASSUME NEW n \in Node, NEW e \in mempool[n], Moon!Include(n, e) PROVE MoonTyped'
  <2>1. mapping' \subseteq Node \X Moon!Key
    BY <1>15 DEF Moon!Include, Moon!Extrinsic
  <2> QED
    BY <1>15, <2>1 DEF Moon!Include
<1>16. ASSUME NEW n \in Node, Moon!Forget(n) PROVE MoonTyped'
  BY <1>16 DEF Moon!Forget
<1>17. CASE UNCHANGED moonVars
  BY <1>17 DEF moonVars
<1> QED
  BY <1>1, <1>2, <1>3, <1>4, <1>5, <1>6, <1>7, <1>8, <1>9, <1>10, <1>11, <1>12, <1>13,
     <1>14, <1>15, <1>16, <1>17 DEF Moon!Next, Moon!TaskStep, Moon!Fault

-----------------------------------------------------------------------------
\* A task at work changes its own locals, at most one account's extrinsics,
\* and neither candidates nor associations.
LEMMA MoonWorking ==
    ASSUME MoonTyped, NEW t \in Task, Moon!TaskStep(t) \/ Moon!Fault(t)
    PROVE  /\ phase[t] \in Moon!Active
           /\ \A u \in Task \ {t} :
                 /\ phase'[u] = phase[u] /\ rest'[u] = rest[u] /\ now'[u] = now[u]
                 /\ hint'[u] = hint[u] /\ key'[u] = key[u] /\ signed'[u] = signed[u]
           /\ asked' = asked /\ before' = before /\ pool' = pool /\ mapping' = mapping
           /\ nonce' = nonce /\ quiet' \in {quiet, quiet \ {t}}
           /\ mempool' = mempool
                 \/ (Moon!SendJoin(t) /\ \E e \in Moon!Entering(now[t], Moon!Joining(t)) :
                        mempool' = [mempool EXCEPT ![now[t]] = e])
                 \/ (Moon!SendKey(t) /\ \E e \in Moon!Entering(now[t], Moon!Mapping(t)) :
                        mempool' = [mempool EXCEPT ![now[t]] = e])
<1> USE DEF Moon!Active, Moon!Steps, MoonTyped, Moon!TypeOK
<1>1. CASE (\E n \in Node : Moon!Take(t, n)) \/ Moon!Fund(t) \/ Moon!LookAtPool(t) \/ Moon!LookUpMapping(t)
  BY <1>1 DEF Moon!Take, Moon!Fund, Moon!LookAtPool, Moon!LookUpMapping
<1>2. CASE Moon!Sign(t, "signJoin", "sendJoin") \/ Moon!Sign(t, "signKey", "sendKey")
           \/ Moon!HasMapping(t) \/ Moon!RotateKeys(t) \/ Moon!TaskDone(t)
  BY <1>2 DEF Moon!Sign, Moon!HasMapping, Moon!RotateKeys, Moon!TaskDone, Moon!NodeDone
<1>3. CASE Moon!SendJoin(t)
  BY <1>3 DEF Moon!SendJoin
<1>4. CASE Moon!SendKey(t)
  BY <1>4 DEF Moon!SendKey, Moon!NodeDone
<1>5. CASE Moon!FundFails(t) \/ Moon!SendFails(t)
  BY <1>5 DEF Moon!FundFails, Moon!SendFails, Moon!NodeDone
<1>6. CASE Moon!CallFails(t) \/ Moon!TaskDies(t)
  BY <1>6 DEF Moon!CallFails, Moon!TaskDies, Moon!NodeDone
<1> QED
  BY <1>1, <1>2, <1>3, <1>4, <1>5, <1>6 DEF Moon!TaskStep, Moon!Fault

\* Every step is one of these.
LEMMA MoonKinds ==
    ASSUME [Moon!Next]_moonVars
    PROVE  \/ \E t \in Task : \E nodes \in SUBSET Node : Moon!Begin(t, nodes)
           \/ \E t \in Task : Moon!NothingDone(t)
           \/ \E t \in Task : Moon!TaskStep(t) \/ Moon!Fault(t)
           \/ \E n \in Node : \E e \in mempool[n] : Moon!Include(n, e)
           \/ \E n \in Node : Moon!Forget(n)
           \/ UNCHANGED moonVars
<1> QED
  BY DEF Moon!Next

\* Nothing leaves the candidates, the associations or a keystore.
LEMMA NothingLeaves ==
    ASSUME MoonTyped, [Moon!Next]_moonVars
    PROVE  /\ pool \subseteq pool' /\ mapping \subseteq mapping'
           /\ \A n \in Node : store[n] \subseteq store'[n]
<1> USE DEF MoonTyped, Moon!TypeOK
<1>1. ASSUME NEW t \in Task, Moon!TaskStep(t) \/ Moon!Fault(t)
      PROVE  \A n \in Node : store[n] \subseteq store'[n]
  <2>1. store' = store \/ Moon!RotateKeys(t) \/ Moon!CallFails(t)
    BY <1>1 DEF Moon!TaskStep, Moon!Fault, Moon!Take, Moon!Fund, Moon!LookAtPool,
       Moon!LookUpMapping, Moon!Sign, Moon!HasMapping, Moon!TaskDone, Moon!SendJoin,
       Moon!SendKey, Moon!FundFails, Moon!SendFails, Moon!TaskDies, Moon!NodeDone
  <2> QED
    BY <2>1 DEF Moon!RotateKeys, Moon!CallFails
<1>2. ASSUME NEW t \in Task, (\E nodes \in SUBSET Node : Moon!Begin(t, nodes)) \/ Moon!NothingDone(t)
      PROVE  pool' = pool /\ mapping' = mapping /\ store' = store
  BY <1>2 DEF Moon!Begin, Moon!NothingDone
<1>3. ASSUME NEW n \in Node, NEW e \in mempool[n], Moon!Include(n, e)
      PROVE  pool \subseteq pool' /\ mapping \subseteq mapping' /\ store' = store
  BY <1>3 DEF Moon!Include
<1>4. ASSUME NEW n \in Node, Moon!Forget(n)
      PROVE  pool' = pool /\ mapping' = mapping /\ store' = store
  BY <1>4 DEF Moon!Forget
<1>5. CASE UNCHANGED moonVars
  BY <1>5 DEF moonVars
<1> QED
  BY <1>1, <1>2, <1>3, <1>4, <1>5, MoonKinds, MoonWorking

LEMMA MoonHeldStep ==
    ASSUME MoonTyped, Moon!AssociationsHeldByNode, [Moon!Next]_moonVars PROVE Moon!AssociationsHeldByNode'
<1> USE DEF Moon!AssociationsHeldByNode
<1>1. ASSUME NEW n \in Node, NEW e \in mempool[n], Moon!Include(n, e) PROVE Moon!AssociationsHeldByNode'
  <2>1. ~e.join => e.key \in store[n]
    BY DEF MoonTyped, MoonHeld
  <2> QED
    BY <1>1, <2>1 DEF Moon!Include
<1>2. CASE mapping' = mapping
  BY <1>2, NothingLeaves
<1>3. mapping' = mapping \/ \E n \in Node : \E e \in mempool[n] : Moon!Include(n, e)
  BY MoonKinds, MoonWorking DEF Moon!Begin, Moon!NothingDone, Moon!Forget, moonVars
<1> QED
  BY <1>1, <1>2, <1>3

-----------------------------------------------------------------------------
\* A quiet task at work is the only one; extrinsics under way are of accounts
\* somebody has asked for.
Alone(t) == \A u \in Task \ {t} : phase[u] \notin Moon!Active
QuietAlone == \A t \in quiet : phase[t] # "idle" /\ (phase[t] \in Moon!Active => Alone(t))
OnlyAsked == \A n \in Node : mempool[n] # {} => \E u \in Task : n \in asked[u]
Frame == MoonTyped /\ QuietAlone /\ OnlyAsked

\* A task that begins and is quiet finds everything settled.
Settled == \A u \in Task : phase[u] \notin Moon!Active /\ \A n \in asked[u] : mempool[n] = {}
LEMMA QuietBegin ==
    ASSUME Frame, NEW t \in Task, NEW nodes \in SUBSET Node, Moon!Begin(t, nodes)
    PROVE  /\ quiet' \subseteq quiet \cup {t}
           /\ t \in quiet' => Settled /\ \A n \in Node : mempool[n] = {}
           /\ \A u \in quiet' \ {t} :
                 phase[u] \notin Moon!Active /\ \A n \in asked[u] : mempool[n] = {}
<1>1. PICK unsettled \in SUBSET Task :
         /\ unsettled = {u \in Task : \/ phase[u] \in Moon!Active
                                      \/ \E n \in asked[u] : mempool[n] # {}}
         /\ quiet' = (quiet \ unsettled) \cup {u \in {t} : unsettled = {}}
  BY DEF Moon!Begin
<1>2. unsettled = {} => Settled
  BY <1>1 DEF Settled
<1>3. Settled => \A n \in Node : mempool[n] = {}
  BY DEF Settled, Frame, OnlyAsked
<1> QED
  BY <1>1, <1>2, <1>3 DEF Frame, MoonTyped, Moon!TypeOK, QuietAlone, Moon!Begin

LEMMA FrameStep == Frame /\ [Moon!Next]_moonVars => Frame'
<1> SUFFICES ASSUME Frame, [Moon!Next]_moonVars PROVE QuietAlone' /\ OnlyAsked'
  BY MoonStepTyped DEF Frame
<1>0. MoonTyped /\ MoonTyped'
  BY MoonStepTyped DEF Frame
<1> USE DEF Moon!Active, Moon!Steps
<1>1. ASSUME NEW t \in Task, NEW nodes \in SUBSET Node, Moon!Begin(t, nodes)
      PROVE  QuietAlone' /\ OnlyAsked'
  <2>1. /\ \A u \in Task \ {t} : phase'[u] = phase[u] /\ asked'[u] = asked[u]
        /\ phase'[t] = "next" /\ mempool' = mempool /\ asked[t] = {}
    BY <1>0, <1>1 DEF Moon!Begin, MoonTyped, Moon!TypeOK, MoonLocals
  <2>2. OnlyAsked'
    BY <2>1 DEF Frame, OnlyAsked
  <2>3. QuietAlone'
    <3> SUFFICES ASSUME NEW u \in quiet'
                 PROVE  (phase[u] # "idle" /\ (phase[u] \in Moon!Active => Alone(u)))'
      BY DEF QuietAlone
    <3>1. CASE u = t
      BY <1>1, <2>1, <3>1, QuietBegin DEF Alone, Settled
    <3>2. CASE u # t
      <4>1. u \in quiet /\ u \in Task /\ phase[u] \notin Moon!Active
        BY <1>0, <1>1, <3>2, QuietBegin DEF MoonTyped, Moon!TypeOK
      <4> QED
        BY <2>1, <3>2, <4>1 DEF Frame, QuietAlone
    <3> QED
      BY <3>1, <3>2
  <2> QED
    BY <2>2, <2>3
<1>2. ASSUME NEW t \in Task, Moon!NothingDone(t) PROVE QuietAlone' /\ OnlyAsked'
  BY <1>0, <1>2 DEF Moon!NothingDone, Frame, QuietAlone, Alone, OnlyAsked, MoonTyped,
     Moon!TypeOK
<1>3. ASSUME NEW t \in Task, Moon!TaskStep(t) \/ Moon!Fault(t) PROVE QuietAlone' /\ OnlyAsked'
  <2>1. /\ phase[t] \in Moon!Active /\ asked' = asked
        /\ \A u \in Task \ {t} : phase'[u] = phase[u]
        /\ quiet' \subseteq quiet
    BY <1>0, <1>3, MoonWorking
  <2>2. \A n \in Node : mempool'[n] # {} => mempool[n] # {} \/ (now[t] = n /\ n \in asked[t])
    BY <1>0, <1>3, MoonWorking DEF MoonTyped, Moon!TypeOK, MoonLocals, Moon!SendJoin,
       Moon!SendKey
  <2>3. OnlyAsked'
    BY <2>1, <2>2 DEF Frame, OnlyAsked
  <2>4. phase'[t] # "idle"
    BY <1>0, <1>3 DEF Moon!TaskStep, Moon!Fault, Moon!Take, Moon!Fund, Moon!LookAtPool,
       Moon!LookUpMapping, Moon!Sign, Moon!HasMapping, Moon!RotateKeys, Moon!TaskDone,
       Moon!SendJoin, Moon!SendKey, Moon!FundFails, Moon!SendFails, Moon!CallFails,
       Moon!TaskDies, Moon!NodeDone, MoonTyped, Moon!TypeOK
  <2>5. QuietAlone'
    <3> SUFFICES ASSUME NEW u \in quiet'
                 PROVE  (phase[u] # "idle" /\ (phase[u] \in Moon!Active => Alone(u)))'
      BY DEF QuietAlone
    <3>1. u \in Task /\ phase[u] # "idle" /\ (phase[u] \in Moon!Active => Alone(u))
      BY <1>0, <2>1 DEF Frame, QuietAlone, MoonTyped, Moon!TypeOK
    <3>2. CASE u = t
      BY <2>1, <2>4, <3>1, <3>2 DEF Alone
    <3>3. CASE u # t
      BY <2>1, <3>1, <3>3 DEF Alone
    <3> QED
      BY <3>2, <3>3
  <2> QED
    BY <2>3, <2>5
<1>4. ASSUME NEW n \in Node, NEW e \in mempool[n], Moon!Include(n, e)
      PROVE  QuietAlone' /\ OnlyAsked'
  BY <1>0, <1>4 DEF Moon!Include, Frame, QuietAlone, Alone, OnlyAsked, MoonTyped,
     Moon!TypeOK
<1>5. ASSUME NEW n \in Node, Moon!Forget(n) PROVE QuietAlone' /\ OnlyAsked'
  BY <1>0, <1>5 DEF Moon!Forget, Frame, QuietAlone, OnlyAsked, MoonTyped, Moon!TypeOK
<1>6. CASE UNCHANGED moonVars
  BY <1>6 DEF moonVars, Frame, QuietAlone, Alone, OnlyAsked
<1> QED
  BY <1>1, <1>2, <1>3, <1>4, <1>5, <1>6, MoonKinds

-----------------------------------------------------------------------------
\* An account that only quiet tasks have asked for has at most one association;
\* while it has one there is none on its way, and none is made for it while it
\* has one or one is on its way.
OnlyQuiet(n) == \A t \in Task : n \in asked[t] => t \in quiet
OnlyJoins(n) == \A e \in mempool[n] : e.join
OnceFor(n) ==
    /\ \A j, k \in Moon!Key : {<<n, j>>, <<n, k>>} \subseteq mapping => j = k
    /\ Moon!Associated(n) => OnlyJoins(n)
    /\ \A t \in Task : n \in rest[t] => OnlyJoins(n)
    /\ \A t \in Task :
          phase[t] \in Moon!Steps /\ now[t] = n =>
             /\ OnlyJoins(n)
             /\ phase[t] \in {"rotate", "signKey", "sendKey"} => ~Moon!Associated(n)
Once == \A n \in Node : OnlyQuiet(n) => OnceFor(n)

LEMMA OnceStep == Frame /\ Once /\ [Moon!Next]_moonVars => Once'
<1> SUFFICES ASSUME Frame, Once, [Moon!Next]_moonVars, NEW n \in Node, OnlyQuiet(n)' PROVE OnceFor(n)'
  BY DEF Once
<1>0. MoonTyped /\ MoonTyped'
  BY MoonStepTyped DEF Frame
<1> USE DEF Moon!Active, Moon!Steps
<1>1. ASSUME NEW t \in Task, NEW nodes \in SUBSET Node, Moon!Begin(t, nodes) PROVE OnceFor(n)'
  <2>1. /\ \A u \in Task \ {t} : /\ phase'[u] = phase[u] /\ asked'[u] = asked[u]
                                 /\ rest'[u] = rest[u]
        /\ phase'[t] = "next" /\ asked[t] = {} /\ rest'[t] = nodes /\ asked'[t] = nodes
        /\ mempool' = mempool /\ mapping' = mapping /\ now' = now
    BY <1>0, <1>1 DEF Moon!Begin, MoonTyped, Moon!TypeOK, MoonLocals
  <2>2. OnceFor(n)
    BY <1>1, <2>1, QuietBegin DEF Once, OnlyQuiet
  <2>3. n \in nodes => mempool[n] = {}
    BY <1>1, <2>1, QuietBegin DEF OnlyQuiet
  <2> QED
    BY <2>1, <2>2, <2>3 DEF OnceFor, OnlyJoins, Moon!Associated
<1>2. ASSUME NEW t \in Task, Moon!NothingDone(t) PROVE OnceFor(n)'
  <2>1. OnceFor(n)
    BY <1>2 DEF Moon!NothingDone, Once, OnlyQuiet
  <2>2. /\ mapping' = mapping /\ mempool' = mempool /\ rest' = rest /\ now' = now
        /\ \A u \in Task : phase'[u] = phase[u] \/ phase'[u] = "done"
    BY <1>0, <1>2 DEF Moon!NothingDone, MoonTyped, Moon!TypeOK
  <2> QED
    BY <2>1, <2>2 DEF OnceFor, OnlyJoins, Moon!Associated
<1>3. ASSUME NEW t \in Task, Moon!TaskStep(t) \/ Moon!Fault(t) PROVE OnceFor(n)'
  <2>1. /\ phase[t] \in Moon!Active /\ asked' = asked /\ mapping' = mapping
        /\ \A u \in Task \ {t} : phase'[u] = phase[u] /\ rest'[u] = rest[u] /\ now'[u] = now[u]
        /\ quiet' \subseteq quiet
    BY <1>0, <1>3, MoonWorking
  <2>2. OnceFor(n)
    BY <2>1 DEF Once, OnlyQuiet
  <2>3. \A u \in Task : n \in asked[u] => u \in quiet /\ (phase[u] \in Moon!Active => Alone(u))
    BY <2>1 DEF OnlyQuiet, Frame, QuietAlone
  \* What t itself does to the account.
  <2>4. /\ n \in rest'[t] => n \in rest[t]
        /\ phase'[t] \in Moon!Steps /\ now'[t] = n =>
              n \in rest[t] \/ (phase[t] \in Moon!Steps /\ now[t] = n)
        /\ phase'[t] \in {"rotate", "signKey", "sendKey"} /\ now'[t] = n => ~Moon!Associated(n)
    BY <1>0, <1>3, <2>2 DEF Moon!TaskStep, Moon!Fault, Moon!Take, Moon!Fund,
       Moon!LookAtPool, Moon!LookUpMapping, Moon!Sign, Moon!HasMapping, Moon!RotateKeys,
       Moon!TaskDone, Moon!SendJoin, Moon!SendKey, Moon!FundFails, Moon!SendFails,
       Moon!CallFails, Moon!TaskDies, Moon!NodeDone, MoonTyped, Moon!TypeOK, OnceFor
  <2>5. CASE mempool'[n] = mempool[n]
    BY <2>1, <2>2, <2>4, <2>5 DEF OnceFor, OnlyJoins, Moon!Associated
  <2>6. CASE mempool'[n] # mempool[n]
    <3>1. /\ now[t] = n /\ phase[t] \in Moon!Steps /\ n \in asked[t] \ rest[t]
          /\ \/ Moon!SendJoin(t) /\ mempool'[n] = {Moon!Joining(t)}
             \/ Moon!SendKey(t) /\ mempool'[n] = {Moon!Mapping(t)}
      <4>1. CASE Moon!SendJoin(t) /\ \E e \in Moon!Entering(now[t], Moon!Joining(t)) :
                      mempool' = [mempool EXCEPT ![now[t]] = e]
        <5>1. PICK e : /\ e \in Moon!Entering(now[t], Moon!Joining(t))
                       /\ mempool' = [mempool EXCEPT ![now[t]] = e]
          BY <4>1
        <5>2. phase[t] \in Moon!Steps /\ now[t] \in asked[t] \ rest[t] /\ now[t] = n
          BY <1>0, <2>6, <4>1, <5>1 DEF Moon!SendJoin, MoonTyped, Moon!TypeOK, MoonLocals
        <5>3. mempool'[n] = e /\ (e = mempool[n] \/ e = {Moon!Joining(t)})
          BY <1>0, <5>1, <5>2 DEF Moon!Entering, MoonTyped, Moon!TypeOK
        <5> QED
          BY <2>6, <4>1, <5>2, <5>3
      <4>2. CASE Moon!SendKey(t) /\ \E e \in Moon!Entering(now[t], Moon!Mapping(t)) :
                      mempool' = [mempool EXCEPT ![now[t]] = e]
        <5>1. PICK e : /\ e \in Moon!Entering(now[t], Moon!Mapping(t))
                       /\ mempool' = [mempool EXCEPT ![now[t]] = e]
          BY <4>2
        <5>2. phase[t] \in Moon!Steps /\ now[t] \in asked[t] \ rest[t] /\ now[t] = n
          BY <1>0, <2>6, <4>2, <5>1 DEF Moon!SendKey, MoonTyped, Moon!TypeOK, MoonLocals
        <5>3. mempool'[n] = e /\ (e = mempool[n] \/ e = {Moon!Mapping(t)})
          BY <1>0, <5>1, <5>2 DEF Moon!Entering, MoonTyped, Moon!TypeOK
        <5> QED
          BY <2>6, <4>2, <5>2, <5>3
      <4> QED
        BY <1>0, <1>3, <2>6, <4>1, <4>2, MoonWorking
    <3>2. \A u \in Task \ {t} : n \notin rest[u] /\ ~(phase[u] \in Moon!Steps /\ now[u] = n)
      BY <1>0, <2>1, <2>3, <3>1 DEF Alone, MoonTyped, MoonLocals
    <3>3. CASE Moon!SendJoin(t) /\ mempool'[n] = {Moon!Joining(t)}
      <4>1. Moon!Joining(t).join
        BY <1>0, MadeExtrinsics DEF MoonTyped
      <4>2. OnlyJoins(n)'
        BY <3>3, <4>1 DEF OnlyJoins
      <4> QED
        BY <2>1, <2>2, <2>4, <4>2, <3>2 DEF OnceFor, Moon!Associated
    <3>4. CASE Moon!SendKey(t) /\ mempool'[n] = {Moon!Mapping(t)}
      <4>1. ~Moon!Associated(n) /\ ~Moon!Associated(n)'
        BY <2>1, <2>2, <3>1, <3>4 DEF OnceFor, Moon!SendKey, Moon!Associated
      <4>2. phase'[t] = "next" /\ rest'[t] = rest[t]
        BY <1>0, <3>4 DEF Moon!SendKey, Moon!NodeDone, MoonTyped, Moon!TypeOK
      <4> QED
        BY <2>1, <2>2, <3>1, <3>2, <4>1, <4>2 DEF OnceFor
    <3> QED
      BY <3>1, <3>3, <3>4
  <2> QED
    BY <2>5, <2>6
<1>4. ASSUME NEW m \in Node, NEW e \in mempool[m], Moon!Include(m, e) PROVE OnceFor(n)'
  <2>1. OnceFor(n) /\ UNCHANGED <<phase, asked, rest, now>>
    BY <1>4 DEF Moon!Include, Once, OnlyQuiet
  <2>2. CASE n # m
    <3>1. mempool'[n] = mempool[n] /\ \A k \in Moon!Key : <<n, k>> \in mapping' <=> <<n, k>> \in mapping
      BY <1>0, <1>4, <2>2 DEF Moon!Include, MoonTyped, Moon!TypeOK
    <3> QED
      BY <2>1, <3>1 DEF OnceFor, OnlyJoins, Moon!Associated
  <2>3. CASE n = m /\ mapping' = mapping
    <3>1. mempool'[n] = {}
      BY <1>0, <1>4, <2>3 DEF Moon!Include, MoonTyped, Moon!TypeOK
    <3> QED
      BY <2>1, <2>3, <3>1 DEF OnceFor, OnlyJoins, Moon!Associated
  <2>4. CASE n = m /\ mapping' # mapping
    <3>1. mempool'[n] = {} /\ ~e.join /\ mapping' = mapping \cup {<<n, e.key>>}
      BY <1>0, <1>4, <2>4 DEF Moon!Include, MoonTyped, Moon!TypeOK
    <3>2. ~OnlyJoins(n)
      BY <2>4, <3>1 DEF OnlyJoins
    <3>3. ~Moon!Associated(n) /\ \A t \in Task : ~(phase[t] \in Moon!Steps /\ now[t] = n)
      BY <2>1, <3>2 DEF OnceFor
    <3> QED
      BY <2>1, <3>1, <3>3 DEF OnceFor, OnlyJoins, Moon!Associated
  <2> QED
    BY <2>2, <2>3, <2>4
<1>5. ASSUME NEW m \in Node, Moon!Forget(m) PROVE OnceFor(n)'
  <2>1. OnceFor(n) /\ UNCHANGED <<phase, asked, rest, now, mapping>>
    BY <1>5 DEF Moon!Forget, Once, OnlyQuiet
  <2>2. mempool'[n] = mempool[n] \/ mempool'[n] = {}
    BY <1>0, <1>5 DEF Moon!Forget, MoonTyped, Moon!TypeOK
  <2> QED
    BY <2>1, <2>2 DEF OnceFor, OnlyJoins, Moon!Associated
<1>6. CASE UNCHANGED moonVars
  BY <1>6 DEF moonVars, Once, OnlyQuiet, OnceFor, OnlyJoins, Moon!Associated
<1> QED
  BY <1>1, <1>2, <1>3, <1>4, <1>5, <1>6, MoonKinds

-----------------------------------------------------------------------------
\* How much is in place never shrinks, and a new candidate or association of
\* one of the nodes makes it more.
LEMMA InPlaceGrows ==
    ASSUME MoonTyped, MoonTyped', NEW nodes \in SUBSET Node,
           pool \subseteq pool', mapping \subseteq mapping'
    PROVE  /\ Moon!InPlace(nodes) \in Nat /\ Moon!InPlace(nodes)' \in Nat
           /\ Moon!InPlace(nodes) =< Moon!InPlace(nodes)'
           /\ \A n \in nodes :
                 (n \notin pool /\ n \in pool') \/ (~Moon!Associated(n) /\ Moon!Associated(n)')
                     => Moon!InPlace(nodes) < Moon!InPlace(nodes)'
<1>1. PICK P, Pn, A, An :
         /\ P = nodes \cap pool /\ Pn = nodes \cap pool'
         /\ A = {n \in nodes : Moon!Associated(n)} /\ An = {n \in nodes : Moon!Associated(n)'}
  OBVIOUS
<1>2. P \subseteq Pn /\ A \subseteq An /\ IsFiniteSet(Pn) /\ IsFiniteSet(An)
  BY <1>1, NodeAssumption, FS_Subset DEF Moon!Associated
<1>3. /\ IsFiniteSet(P) /\ IsFiniteSet(A)
      /\ Cardinality(P) \in Nat /\ Cardinality(Pn) \in Nat
      /\ Cardinality(A) \in Nat /\ Cardinality(An) \in Nat
      /\ Cardinality(P) =< Cardinality(Pn) /\ Cardinality(A) =< Cardinality(An)
      /\ Cardinality(P) = Cardinality(Pn) => P = Pn
      /\ Cardinality(A) = Cardinality(An) => A = An
  BY <1>2, FS_Subset, FS_CardinalityType
<1>4. Moon!InPlace(nodes) = Cardinality(P) + Cardinality(A)
  BY <1>1, MoonCardinality DEF Moon!InPlace
<1>5. Moon!InPlace(nodes)' = Cardinality(Pn) + Cardinality(An)
  BY <1>1, MoonCardinality DEF Moon!InPlace
<1>6. ASSUME NEW n \in nodes,
             (n \notin pool /\ n \in pool') \/ (~Moon!Associated(n) /\ Moon!Associated(n)')
      PROVE  P # Pn \/ A # An
  BY <1>1, <1>6
<1> QED
  BY <1>3, <1>4, <1>5, <1>6

\* A quiet task has advanced, or had nothing to do, or is the only thing under
\* way: then all that it has sent will advance it, and it has sent something for
\* every node that it is through with and that lacks something.
Complete(n) == n \in pool /\ Moon!Associated(n)
Advanced(t) == Moon!InPlace(asked[t]) > before[t] \/ \A n \in asked[t] : Complete(n)
Effective(n) ==
    \A e \in mempool[n] :
        IF e.join THEN n \notin pool /\ e.hint >= Cardinality(pool) ELSE ~Moon!Associated(n)
InHand(t, n) ==
    /\ phase[t] \in {"fund", "look", "signJoin", "sendJoin"} => mempool[n] = {}
    /\ phase[t] # "fund" => n \in rich
    /\ phase[t] \in {"signJoin", "sendJoin"} => n \notin pool /\ hint[t] = Cardinality(pool)
    /\ phase[t] \in {"sendJoin", "sendKey"} => signed[t] = nonce[n]
    /\ phase[t] \in {"lookUp", "rotate", "signKey", "sendKey"} => n \in pool \/ mempool[n] # {}
    /\ phase[t] \in {"rotate", "signKey", "sendKey"} => ~Moon!Associated(n)
Under(t) ==
    /\ phase[t] \in Moon!Active \/ \E n \in asked[t] : mempool[n] # {}
    /\ Alone(t)
    /\ \A n \in Node : mempool[n] # {} => n \in asked[t]
    /\ \A n \in asked[t] :
          /\ Effective(n)
          /\ n \in rest[t] => mempool[n] = {}
          /\ phase[t] \in Moon!Steps /\ now[t] = n => InHand(t, n)
          /\ n \notin rest[t] /\ ~(phase[t] \in Moon!Steps /\ now[t] = n)
                => Complete(n) \/ mempool[n] # {}
QuietInv == \A t \in quiet : before[t] =< Moon!InPlace(asked[t]) /\ (Advanced(t) \/ Under(t))

\* What has advanced stays so.
LEMMA StaysAdvanced ==
    ASSUME MoonTyped, MoonTyped', pool \subseteq pool', mapping \subseteq mapping',
           NEW t \in Task, before[t] =< Moon!InPlace(asked[t]),
           asked'[t] = asked[t], before'[t] = before[t]
    PROVE  /\ (before[t] =< Moon!InPlace(asked[t]))'
           /\ Advanced(t) => Advanced(t)'
<1>1. asked[t] \in SUBSET Node /\ before[t] \in Nat
  BY DEF MoonTyped, Moon!TypeOK
<1>2. PICK nodes \in SUBSET Node : nodes = asked[t] /\ nodes = asked'[t]
  BY <1>1
<1>3. /\ Moon!InPlace(nodes) \in Nat /\ Moon!InPlace(nodes)' \in Nat
      /\ Moon!InPlace(nodes) =< Moon!InPlace(nodes)'
  BY InPlaceGrows
<1>4. Moon!InPlace(asked[t]) = Moon!InPlace(nodes) /\ Moon!InPlace(asked[t])' = Moon!InPlace(nodes)'
  BY <1>2 DEF Moon!InPlace
<1>5. \A n : Complete(n) => Complete(n)'
  BY DEF Complete, Moon!Associated
<1> QED
  BY <1>1, <1>3, <1>4, <1>5 DEF Advanced

\* A quiet task that is still under way and makes a step of its own.
LEMMA UnderWorks ==
    ASSUME Frame, MoonTyped', NEW t \in Task, Moon!TaskStep(t), Under(t), t \in quiet
    PROVE  Advanced(t)' \/ Under(t)'
<1> USE DEF Moon!Active, Moon!Steps
<1>0. MoonTyped
  BY DEF Frame
<1>1. /\ \A u \in Task \ {t} : phase'[u] = phase[u]
      /\ asked' = asked /\ pool' = pool /\ mapping' = mapping /\ nonce' = nonce
      /\ phase[t] \in Moon!Active
  BY <1>0, MoonWorking
<1>2. Alone(t)'
  BY <1>1 DEF Under, Alone
<1>3. \A n : Complete(n)' = Complete(n) /\ Moon!Associated(n)' = Moon!Associated(n)
  BY <1>1 DEF Complete, Moon!Associated
\* It is enough to look at one of the nodes.
<1>4. SUFFICES ASSUME phase'[t] \in Moon!Active \/ \E n \in asked[t] : mempool'[n] # {}
               PROVE  Under(t)'
  <2>1. ASSUME phase'[t] \notin Moon!Active, \A n \in asked[t] : mempool'[n] = {} PROVE Advanced(t)'
    <3>1. rest'[t] = {} /\ Moon!TaskDone(t) /\ mempool' = mempool /\ rest' = rest
      BY <1>0, <2>1 DEF Moon!TaskStep, Moon!Take, Moon!Fund, Moon!LookAtPool,
         Moon!LookUpMapping, Moon!Sign, Moon!HasMapping, Moon!RotateKeys, Moon!TaskDone,
         Moon!SendJoin, Moon!SendKey, Moon!NodeDone, MoonTyped, Moon!TypeOK
    <3>2. \A n \in asked[t] : Complete(n)
      BY <2>1, <3>1 DEF Under, Moon!TaskDone
    <3> QED
      BY <1>1, <1>3, <3>2 DEF Advanced
  <2> QED
    BY <2>1
\* Its extrinsic is accepted, unless the pool has one of the account's already.
<1>7. ASSUME Moon!SendJoin(t) \/ Moon!SendKey(t)
      PROVE  \/ mempool' = mempool /\ mempool[now[t]] # {}
             \/ \E x \in Moon!Extrinsic :
                   /\ (Moon!SendJoin(t) /\ x = Moon!Joining(t)) \/ (Moon!SendKey(t) /\ x = Moon!Mapping(t))
                   /\ mempool' = [mempool EXCEPT ![now[t]] = {x}]
  <2>1. now[t] \in asked[t] \ rest[t] /\ now[t] \in Node /\ phase[t] \in {"sendJoin", "sendKey"}
    BY <1>0, <1>7 DEF Moon!SendJoin, Moon!SendKey, MoonTyped, Moon!TypeOK, MoonLocals
  <2>2. now[t] \in rich /\ signed[t] = nonce[now[t]] /\ nonce[now[t]] \in Nat
    BY <1>0, <2>1 DEF Under, InHand, MoonTyped, Moon!TypeOK
  <2>3. ASSUME NEW x \in Moon!Extrinsic, x.nonce = signed[t]
        PROVE  \A e \in Moon!Entering(now[t], x) :
                   e = {x} \/ (e = mempool[now[t]] /\ mempool[now[t]] # {})
    BY <2>2, <2>3 DEF Moon!Entering
  <2>4. PICK x \in Moon!Extrinsic :
           /\ (Moon!SendJoin(t) /\ x = Moon!Joining(t)) \/ (Moon!SendKey(t) /\ x = Moon!Mapping(t))
           /\ \E e \in Moon!Entering(now[t], x) : mempool' = [mempool EXCEPT ![now[t]] = e]
    BY <1>0, <1>7, MadeExtrinsics DEF Moon!SendJoin, Moon!SendKey, MoonTyped
  <2>5. PICK e \in Moon!Entering(now[t], x) : mempool' = [mempool EXCEPT ![now[t]] = e]
    BY <2>4
  <2>6. x.nonce = signed[t]
    BY <1>0, <2>4, MadeExtrinsics DEF MoonTyped
  <2>7. CASE e = {x}
    BY <2>4, <2>5, <2>7
  <2>8. CASE e = mempool[now[t]] /\ mempool[now[t]] # {}
    BY <1>0, <2>1, <2>5, <2>8 DEF MoonTyped, Moon!TypeOK
  <2> QED
    BY <2>3, <2>5, <2>6, <2>7, <2>8
<1>5. CASE mempool' = mempool
  <2>1. ASSUME NEW n \in asked[t]
        PROVE  /\ Effective(n)'
               /\ n \in rest'[t] => mempool'[n] = {}
               /\ phase'[t] \in Moon!Steps /\ now'[t] = n => InHand(t, n)'
               /\ n \notin rest'[t] /\ ~(phase'[t] \in Moon!Steps /\ now'[t] = n)
                    => Complete(n)' \/ mempool'[n] # {}
    <3>1. Effective(n)'
      BY <1>1, <1>5 DEF Under, Effective, Moon!Associated
    <3>2. n \in rest'[t] => mempool'[n] = {}
      BY <1>0, <1>5 DEF Under, Moon!TaskStep, Moon!Take, Moon!Fund, Moon!LookAtPool,
         Moon!LookUpMapping, Moon!Sign, Moon!HasMapping, Moon!RotateKeys, Moon!TaskDone,
         Moon!SendJoin, Moon!SendKey, Moon!NodeDone, MoonTyped, Moon!TypeOK
    <3>3. CASE \E m \in Node : Moon!Take(t, m)
      BY <1>0, <1>3, <1>5, <3>1, <3>2, <3>3 DEF Under, Moon!Take, InHand, MoonTyped,
         Moon!TypeOK
    <3>4. CASE Moon!Fund(t) \/ Moon!LookAtPool(t) \/ Moon!RotateKeys(t)
      BY <1>0, <1>1, <1>3, <1>5, <3>1, <3>2, <3>4, MoonCardinality
         DEF Under, Moon!Fund, Moon!LookAtPool,
         Moon!RotateKeys, InHand, MoonTyped, Moon!TypeOK
    <3>5. CASE Moon!Sign(t, "signJoin", "sendJoin") \/ Moon!Sign(t, "signKey", "sendKey")
      BY <1>0, <1>1, <1>3, <1>5, <3>1, <3>2, <3>5 DEF Under, Moon!Sign, InHand, MoonTyped,
         Moon!TypeOK
    <3>6. CASE Moon!LookUpMapping(t)
      BY <1>0, <1>1, <1>3, <1>5, <3>1, <3>2, <3>6 DEF Under, Moon!LookUpMapping, InHand,
         MoonTyped, Moon!TypeOK
    <3>7. CASE Moon!HasMapping(t)
      BY <1>0, <1>1, <1>3, <1>5, <3>1, <3>2, <3>7 DEF Under, Moon!HasMapping, Moon!NodeDone,
         InHand, Complete, MoonTyped, Moon!TypeOK
    <3>8. CASE Moon!TaskDone(t)
      BY <1>0, <1>1, <1>3, <1>5, <3>1, <3>2, <3>8 DEF Under, Moon!TaskDone, MoonTyped,
         Moon!TypeOK
    <3>9. CASE Moon!SendJoin(t) \/ Moon!SendKey(t)
      <4>1. mempool[now[t]] # {} /\ now[t] \in asked[t] \ rest[t]
        <5>1. now[t] \in asked[t] \ rest[t] /\ now[t] \in Node
          BY <1>0, <3>9 DEF Moon!SendJoin, Moon!SendKey, MoonTyped, Moon!TypeOK, MoonLocals
        <5>2. ASSUME NEW x \in Moon!Extrinsic, mempool' = [mempool EXCEPT ![now[t]] = {x}]
              PROVE  mempool[now[t]] # {}
          BY <1>0, <1>5, <5>1, <5>2 DEF MoonTyped, Moon!TypeOK
        <5> QED
          BY <1>7, <3>9, <5>1, <5>2
      <4>2. CASE Moon!SendJoin(t)
        BY <1>0, <1>1, <1>3, <1>5, <3>1, <3>2, <4>1, <4>2 DEF Under, Moon!SendJoin, InHand,
           MoonTyped, Moon!TypeOK
      <4>3. CASE Moon!SendKey(t)
        BY <1>0, <1>1, <1>3, <1>5, <3>1, <3>2, <4>1, <4>3 DEF Under, Moon!SendKey,
           Moon!NodeDone, InHand, MoonTyped, Moon!TypeOK
      <4> QED
        BY <3>9, <4>2, <4>3
    <3> QED
      BY <3>1, <3>2, <3>3, <3>4, <3>5, <3>6, <3>7, <3>8, <3>9 DEF Moon!TaskStep
  <2> QED
    BY <1>1, <1>2, <1>4, <1>5, <2>1 DEF Under
<1>6. ASSUME NEW x \in Moon!Extrinsic,
             \/ Moon!SendJoin(t) /\ x = Moon!Joining(t)
             \/ Moon!SendKey(t) /\ x = Moon!Mapping(t),
             mempool' = [mempool EXCEPT ![now[t]] = {x}]
      PROVE  Under(t)'
  <2>1. now[t] \in asked[t] \ rest[t] /\ now[t] \in Node /\ asked[t] \subseteq Node
    BY <1>0, <1>6 DEF Moon!SendJoin, Moon!SendKey, MoonTyped, Moon!TypeOK, MoonLocals
  <2>2. mempool'[now[t]] = {x} /\ \A n \in Node \ {now[t]} : mempool'[n] = mempool[n]
    BY <1>0, <1>6, <2>1 DEF MoonTyped, Moon!TypeOK
  <2>3. /\ rest' = rest /\ rich' = rich
        /\ Moon!SendJoin(t) => phase'[t] = "lookUp" /\ now' = now
        /\ Moon!SendKey(t) => phase'[t] = "next"
    BY <1>0, <1>6 DEF Moon!SendJoin, Moon!SendKey, Moon!NodeDone, MoonTyped, Moon!TypeOK
  <2>4. IF x.join THEN now[t] \notin pool /\ x.hint >= Cardinality(pool) ELSE ~Moon!Associated(now[t])
    <3>1. CASE Moon!SendJoin(t)
      <4>1. x.hint = hint[t] /\ x.join /\ InHand(t, now[t])
        BY <1>0, <1>6, <2>1, <3>1, MadeExtrinsics DEF MoonTyped, Under, Moon!SendJoin,
           Moon!SendKey
      <4>2. now[t] \notin pool /\ hint[t] = Cardinality(pool) /\ hint[t] \in Nat
        BY <1>0, <3>1, <4>1 DEF InHand, Moon!SendJoin, MoonTyped, Moon!TypeOK
      <4> QED
        BY <4>1, <4>2
    <3>2. CASE Moon!SendKey(t)
      <4>1. x.join = FALSE /\ InHand(t, now[t])
        BY <1>0, <1>6, <2>1, <3>2, MadeExtrinsics DEF MoonTyped, Under, Moon!SendJoin,
           Moon!SendKey
      <4>2. ~Moon!Associated(now[t])
        BY <3>2, <4>1 DEF InHand, Moon!SendKey
      <4> QED
        BY <4>1, <4>2
    <3> QED
      BY <1>6, <3>1, <3>2
  <2>5. ASSUME NEW n \in asked[t]
        PROVE  /\ Effective(n)'
               /\ n \in rest'[t] => mempool'[n] = {}
               /\ phase'[t] \in Moon!Steps /\ now'[t] = n => InHand(t, n)'
               /\ n \notin rest'[t] /\ ~(phase'[t] \in Moon!Steps /\ now'[t] = n)
                    => Complete(n)' \/ mempool'[n] # {}
    <3>1. CASE n = now[t]
      <4>1. Effective(n)'
        BY <1>1, <2>2, <2>4, <3>1 DEF Effective, Moon!Associated
      <4>2. Moon!SendJoin(t) => n \in rich
        BY <2>1, <3>1 DEF Under, InHand, Moon!SendJoin
      <4> QED
        BY <1>6, <2>1, <2>2, <2>3, <3>1, <4>1, <4>2 DEF InHand
    <3>2. CASE n # now[t]
      <4>1. mempool'[n] = mempool[n] /\ n \in Node
        BY <2>1, <2>2, <3>2
      <4>2. Effective(n)'
        BY <1>1, <4>1 DEF Under, Effective, Moon!Associated
      <4>3. ~(phase'[t] \in Moon!Steps /\ now'[t] = n)
        BY <1>6, <2>3, <3>2
      <4> QED
        BY <1>3, <2>3, <3>2, <4>1, <4>2, <4>3 DEF Under
    <3> QED
      BY <3>1, <3>2
  <2>6. \A n \in Node : mempool'[n] # {} => n \in asked'[t]
    BY <1>1, <2>1, <2>2 DEF Under
  <2> QED
    BY <1>1, <1>2, <1>4, <2>5, <2>6 DEF Under
<1> QED
  BY <1>0, <1>5, <1>6, <1>7, MoonWorking

LEMMA QuietStep == Frame /\ QuietInv /\ [Moon!Next]_moonVars => QuietInv'
<1> SUFFICES ASSUME Frame, QuietInv, [Moon!Next]_moonVars, NEW u \in quiet'
             PROVE  (before[u] =< Moon!InPlace(asked[u]))' /\ (Advanced(u)' \/ Under(u)')
  BY DEF QuietInv
<1>0. MoonTyped /\ MoonTyped' /\ u \in Task
  BY MoonStepTyped DEF Frame, MoonTyped, Moon!TypeOK
<1>G. pool \subseteq pool' /\ mapping \subseteq mapping'
  BY <1>0, NothingLeaves
<1> USE DEF Moon!Active, Moon!Steps
<1>1. ASSUME NEW t \in Task, NEW nodes \in SUBSET Node, Moon!Begin(t, nodes)
      PROVE  (before[u] =< Moon!InPlace(asked[u]))' /\ (Advanced(u)' \/ Under(u)')
  <2>1. /\ phase' = [phase EXCEPT ![t] = "next"] /\ asked' = [asked EXCEPT ![t] = nodes]
        /\ rest' = [rest EXCEPT ![t] = nodes] /\ before' = [before EXCEPT ![t] = Moon!InPlace(nodes)]
        /\ pool' = pool /\ mapping' = mapping /\ mempool' = mempool
    BY <1>1 DEF Moon!Begin
  <2>2. CASE u = t
    <3>1. asked'[t] = nodes /\ before'[t] = Moon!InPlace(nodes) /\ rest'[t] = nodes /\ phase'[t] = "next"
      BY <1>0, <2>1 DEF MoonTyped, Moon!TypeOK
    <3>2. Moon!InPlace(nodes) \in Nat /\ Moon!InPlace(nodes)' = Moon!InPlace(nodes)
      BY <1>0, <2>1, InPlaceNat DEF Moon!InPlace, Moon!Associated
    <3>3. (before[t] =< Moon!InPlace(asked[t]))'
      <4>1. Moon!InPlace(asked[t])' = Moon!InPlace(nodes)'
        BY <3>1 DEF Moon!InPlace
      <4> QED
        BY <3>1, <3>2, <4>1
    <3>4. Settled /\ \A n \in Node : mempool'[n] = {}
      BY <1>1, <2>1, <2>2, QuietBegin
    <3>5. Alone(t)'
      BY <1>0, <2>1, <3>4 DEF Alone, Settled, MoonTyped, Moon!TypeOK
    <3>6. Under(t)'
      BY <1>0, <3>1, <3>4, <3>5 DEF Under, Effective
    <3> QED
      BY <2>2, <3>3, <3>6
  <2>3. CASE u # t
    <3>1. u \in quiet /\ phase[u] \notin Moon!Active /\ \A n \in asked[u] : mempool[n] = {}
      BY <1>1, <2>3, QuietBegin
    <3>2. before[u] =< Moon!InPlace(asked[u]) /\ Advanced(u)
      BY <3>1 DEF QuietInv, Under
    <3>3. asked'[u] = asked[u] /\ before'[u] = before[u]
      BY <1>0, <2>1, <2>3 DEF MoonTyped, Moon!TypeOK
    <3> QED
      BY <1>0, <1>G, <3>2, <3>3, StaysAdvanced
  <2> QED
    BY <2>2, <2>3
\* All other steps leave requests alone.
<1>2. ASSUME u \in quiet, asked' = asked, before' = before
      PROVE  /\ (before[u] =< Moon!InPlace(asked[u]))'
             /\ Advanced(u) => Advanced(u)'
             /\ before[u] =< Moon!InPlace(asked[u]) /\ (Advanced(u) \/ Under(u))
  <2>1. before[u] =< Moon!InPlace(asked[u]) /\ (Advanced(u) \/ Under(u))
    BY <1>2 DEF QuietInv
  <2> QED
    BY <1>0, <1>G, <1>2, <2>1, StaysAdvanced
<1>3. ASSUME NEW t \in Task, Moon!NothingDone(t)
      PROVE  (before[u] =< Moon!InPlace(asked[u]))' /\ (Advanced(u)' \/ Under(u)')
  <2>1. /\ UNCHANGED <<asked, before, quiet, pool, mapping, mempool, rest>>
        /\ UNCHANGED <<now, hint, signed, nonce, rich>>
        /\ phase[t] = "idle" /\ phase' = [phase EXCEPT ![t] = "done"]
    BY <1>3 DEF Moon!NothingDone
  <2>2. u # t /\ u \in quiet
    BY <2>1 DEF Frame, QuietAlone
  <2>3. phase'[u] = phase[u] /\ \A v \in Task : phase'[v] = phase[v] \/ phase'[v] = "done"
    BY <1>0, <2>1, <2>2 DEF MoonTyped, Moon!TypeOK
  <2>4. Alone(u) => Alone(u)'
    BY <2>3 DEF Alone
  <2>5. \A n : /\ Complete(n)' = Complete(n) /\ Effective(n)' = Effective(n)
               /\ InHand(u, n)' = InHand(u, n)
    BY <2>1, <2>3 DEF Complete, Effective, InHand, Moon!Associated
  <2>6. Under(u) => Under(u)'
    BY <2>1, <2>3, <2>4, <2>5 DEF Under
  <2> QED
    BY <1>2, <2>1, <2>2, <2>6
<1>4. ASSUME NEW t \in Task, Moon!TaskStep(t) \/ Moon!Fault(t)
      PROVE  (before[u] =< Moon!InPlace(asked[u]))' /\ (Advanced(u)' \/ Under(u)')
  <2>1. asked' = asked /\ before' = before /\ phase[t] \in Moon!Active /\ u \in quiet
    BY <1>0, <1>4, MoonWorking
  <2>2. CASE u = t
    <3>1. ~Moon!Fault(t)
      BY <2>2 DEF Moon!Fault, Moon!FundFails, Moon!SendFails, Moon!CallFails, Moon!TaskDies
    <3> QED
      BY <1>2, <1>4, <2>1, <2>2, <3>1, <1>0, UnderWorks
  <2>3. CASE u # t
    <3>1. ~Under(u)
      BY <2>1, <2>3 DEF Under, Alone
    <3> QED
      BY <1>2, <2>1, <3>1
  <2> QED
    BY <2>2, <2>3
<1>5. ASSUME NEW n \in Node, NEW e \in mempool[n], Moon!Include(n, e)
      PROVE  (before[u] =< Moon!InPlace(asked[u]))' /\ (Advanced(u)' \/ Under(u)')
  <2>1. asked' = asked /\ before' = before /\ u \in quiet
    BY <1>5 DEF Moon!Include
  <2>2. CASE Under(u)
    <3>1. n \in asked[u] /\ Effective(n) /\ asked[u] \in SUBSET Node /\ before[u] \in Nat
      BY <1>0, <2>2 DEF Under, MoonTyped, Moon!TypeOK
    <3>2. (n \notin pool /\ n \in pool') \/ (~Moon!Associated(n) /\ Moon!Associated(n)')
      <4>1. CASE e.join
        BY <1>5, <3>1, <4>1, MoonCardinality DEF Moon!Include, Effective
      <4>2. CASE ~e.join
        <5>1. ~Moon!Associated(n) /\ <<n, e.key>> \in mapping'
          BY <1>5, <3>1, <4>2 DEF Moon!Include, Effective
        <5>2. e.key \in Moon!Key
          BY <1>0, <5>1 DEF MoonTyped, Moon!TypeOK
        <5> QED
          BY <5>1, <5>2 DEF Moon!Associated
      <4> QED
        BY <4>1, <4>2
    <3>3. PICK nodes \in SUBSET Node : nodes = asked[u] /\ nodes = asked'[u]
      BY <2>1, <3>1
    <3>4. /\ Moon!InPlace(nodes) \in Nat /\ Moon!InPlace(nodes)' \in Nat
          /\ Moon!InPlace(nodes) < Moon!InPlace(nodes)'
      BY <1>0, <1>G, <3>1, <3>2, <3>3, InPlaceGrows
    <3>5. Moon!InPlace(asked[u]) = Moon!InPlace(nodes) /\ Moon!InPlace(asked[u])' = Moon!InPlace(nodes)'
      BY <3>3 DEF Moon!InPlace
    <3>6. before[u] =< Moon!InPlace(asked[u])
      BY <1>2, <2>1
    <3>7. Advanced(u)'
      BY <2>1, <3>1, <3>4, <3>5, <3>6 DEF Advanced
    <3> QED
      BY <1>2, <2>1, <3>7
  <2> QED
    BY <1>2, <2>1, <2>2
<1>6. ASSUME NEW n \in Node, Moon!Forget(n)
      PROVE  (before[u] =< Moon!InPlace(asked[u]))' /\ (Advanced(u)' \/ Under(u)')
  BY <1>6 DEF Moon!Forget
<1>7. CASE UNCHANGED moonVars
  <2>1. /\ UNCHANGED <<asked, before, quiet, pool, mapping, mempool, rest>>
        /\ UNCHANGED <<now, hint, signed, nonce, rich, phase>>
    BY <1>7 DEF moonVars
  <2>2. Alone(u) => Alone(u)'
    BY <2>1 DEF Alone
  <2>3. \A n : /\ Complete(n)' = Complete(n) /\ Effective(n)' = Effective(n)
               /\ InHand(u, n)' = InHand(u, n)
    BY <2>1 DEF Complete, Effective, InHand, Moon!Associated
  <2>4. Under(u) => Under(u)'
    BY <2>1, <2>2, <2>3 DEF Under
  <2> QED
    BY <1>2, <2>1, <2>4
<1> QED
  BY <1>1, <1>3, <1>4, <1>5, <1>6, <1>7, MoonKinds

MoonInv == Frame /\ Moon!AssociationsHeldByNode /\ Once /\ QuietInv

LEMMA MoonInvInit == Moon!Init => MoonInv
<1> SUFFICES ASSUME Moon!Init PROVE MoonInv
  OBVIOUS
<1>1. quiet = {} /\ \A n \in Node : mempool[n] = {}
  BY DEF Moon!Init
<1>2. PICK nodes \in SUBSET Node : /\ mapping = nodes \X {OldKey}
          /\ store = [n \in Node |-> IF n \in nodes THEN {OldKey} ELSE {}]
  BY DEF Moon!Init
<1>3. Frame /\ QuietInv
  BY <1>1, MoonInit DEF Frame, QuietAlone, OnlyAsked, QuietInv
<1>4. Moon!AssociationsHeldByNode
  BY <1>2 DEF Moon!AssociationsHeldByNode
<1>5. Once
  <2>1. \A n \in Node : OnlyJoins(n) /\ \A t \in Task : phase[t] \notin Moon!Steps
    BY <1>1 DEF Moon!Init, OnlyJoins, Moon!Steps
  <2>2. \A n \in Node : \A j, k \in Moon!Key : {<<n, j>>, <<n, k>>} \subseteq mapping => j = k
    BY <1>2
  <2> QED
    BY <2>1, <2>2 DEF Once, OnceFor
<1> QED
  BY <1>3, <1>4, <1>5 DEF MoonInv

LEMMA MoonInvStep == MoonInv /\ [Moon!Next]_moonVars => MoonInv'
<1> QED
  BY FrameStep, MoonHeldStep, OnceStep, QuietStep DEF MoonInv, Frame

LEMMA MoonInvImplies ==
    MoonInv => /\ Moon!TypeOK /\ Moon!AssociationsHeldByNode
               /\ Moon!QuietAssociateOnce /\ Moon!QuietRegistrationAdvances
<1> SUFFICES ASSUME MoonInv
             PROVE  /\ Moon!TypeOK /\ Moon!AssociationsHeldByNode
                    /\ Moon!QuietAssociateOnce /\ Moon!QuietRegistrationAdvances
  OBVIOUS
<1>1. Moon!TypeOK /\ Moon!AssociationsHeldByNode
  BY DEF MoonInv, Frame, MoonTyped
<1>2. Moon!QuietAssociateOnce
  BY DEF MoonInv, Once, OnlyQuiet, OnceFor, Moon!QuietAssociateOnce
<1>3. Moon!QuietRegistrationAdvances
  BY DEF MoonInv, QuietInv, Under, Advanced, Complete, Moon!QuietRegistrationAdvances,
     Moon!Active, Moon!Steps
<1> QED
  BY <1>1, <1>2, <1>3

-----------------------------------------------------------------------------
\* A step of the whole is a step of each part, or leaves it alone.
LEMMA Parts ==
    ASSUME [CollatorsNext]_allVars
    PROVE  [Next]_vars /\ [Moon!Next]_moonVars /\ [Moon!Next]_(Moon!vars)
<1> USE DEF allVars, moonVars, Moon!vars, Moon!locals, Moon!chainVars
<1>1. CASE MintStep
  BY <1>1 DEF MintStep
<1>2. CASE MoonStep
  BY <1>2 DEF MoonStep
<1>3. ASSUME NEW t \in Task, Futile(t) PROVE [Next]_vars /\ Moon!Next
  BY <1>3 DEF Futile, Moon!Next
<1>4. ASSUME NEW t \in Task, SetKeysStep(t) PROVE Next /\ UNCHANGED moonVars
  <2>1. "setKeys" \in Op
    BY DEF Op
  <2> QED
    BY <1>4, <2>1 DEF SetKeysStep, Next
<1>5. CASE UNCHANGED allVars
  BY <1>5
<1> QED
  BY <1>1, <1>2, <1>3, <1>4, <1>5 DEF CollatorsNext

\* What collator_register and collator_deregister do on any chain is what the
\* module of the one kind of chain allows, and what the other's does: each
\* module's theorems hold of the whole.
THEOREM Composed == CollatorsSpec => Spec /\ Moon!Spec
<1>1. CollatorsInit => Init /\ Moon!Init
  BY DEF CollatorsInit
<1> QED
  BY <1>1, Parts, PTL DEF CollatorsSpec, Spec, Moon!Spec

\* In the composition too candidates have keys of their own nodes, and a
\* registration that nothing races with has room.
THEOREM MintPartCorrect ==
    CollatorsSpec => [](CandidatesHaveNodeKeys /\ RegistrationAloneHasRoom)
<1> QED
  BY Composed, CandidatesKeysHeld, LoneRegistrationHasRoom, PTL

LEMMA MoonInvAlways == CollatorsSpec => []MoonInv
<1>1. CollatorsInit => MoonInv
  BY MoonInvInit DEF CollatorsInit
<1> QED
  BY <1>1, MoonInvStep, Parts, PTL DEF CollatorsSpec

\* Types hold in both parts.
THEOREM TypesCorrect == CollatorsSpec => []TypesOK
<1>1. TypeOK /\ MoonInv => TypesOK
  BY MoonInvImplies DEF TypesOK
<1> QED
  BY <1>1, Composed, TypeCorrect, MoonInvAlways, PTL

\* Keys associated with a collator's account are in its own node's keystore:
\* the key and the account of an extrinsic are of one node from its making on,
\* and nothing takes a key out of a keystore.
THEOREM AssociationsHeld == CollatorsSpec => []AssociationsHeldByNode
<1>1. MoonInv => AssociationsHeldByNode
  BY DEF MoonInv, AssociationsHeldByNode
<1> QED
  BY <1>1, MoonInvAlways, PTL

\* A second association takes a disturbed request: a quiet task looks for one
\* when no other task is at work and none is on its way.
THEOREM AssociatedOnce == CollatorsSpec => []QuietAssociateOnce
<1>1. MoonInv => QuietAssociateOnce
  BY MoonInvImplies DEF QuietAssociateOnce
<1> QED
  BY <1>1, MoonInvAlways, PTL

\* An undisturbed request is never in vain: of every node that lacks something
\* one extrinsic goes out that the chain accepts, and the count of candidates
\* that the first of these to join names is right, so the first that a block
\* includes brings the request further.
THEOREM RegistrationAdvances == CollatorsSpec => []QuietRegistrationAdvances
<1>1. MoonInv => QuietRegistrationAdvances
  BY MoonInvImplies DEF QuietRegistrationAdvances
<1> QED
  BY <1>1, MoonInvAlways, PTL
=============================================================================
