------------------------- MODULE InvulnerablesProofs -------------------------
(***************************************************************************)
(* Proofs about Invulnerables, for every set of tasks, nodes and accounts: *)
(* types, and that the endpoints implement InvulnerableSet, every step a   *)
(* step or a stutter of it (the liveness part of the refinement is         *)
(* checked by TLC).                                                        *)
(***************************************************************************)
EXTENDS Invulnerables, TLAPS

\* What a task's phase and endpoint say of the accounts it names.
Requests ==
    \A t \in Task :
        /\ pc[t] # "idle" => kind[t] \in Single \cup List
        /\ pc[t] = "read" => kind[t] \in List
        /\ pc[t] = "idle" => add[t] = {} /\ remove[t] = {}
        /\ kind[t] \in Adding => remove[t] = {}
        /\ kind[t] \in (Single \cup List) \ Adding => add[t] = {}

\* What a message says of its task: a list is made from the copy the task has
\* taken, one account is the one it names.
Carries(m) ==
    IF kind[m.task] \in List
    THEN /\ m.call = "set_invulnerables"
         /\ m.accounts = (current[m.task] \cup add[m.task]) \ remove[m.task]
    ELSE m.call = kind[m.task] /\ m.accounts = add[m.task] \cup remove[m.task]

\* A message under way is the only one of its task, which waits for it.
Channel ==
    \A i \in 1 .. Len(xcm) :
        /\ pc[xcm[i].task] = "sent" /\ Carries(xcm[i])
        /\ \A j \in 1 .. Len(xcm) : xcm[j].task = xcm[i].task => j = i

IInv == TypeOK /\ Requests /\ Channel

LEMMA AskedAccounts ==
    ASSUME NEW nodes \in SUBSET Node, NEW as \in SUBSET Account
    PROVE  ({CollatorAccount[n] : n \in nodes} \ {NoAccount}) \cup as \in SUBSET Account
<1> QED
  BY NodeAssumption

\* The three ways to ask are one: an endpoint, accounts, and a first phase.
LEMMA Asking ==
    ASSUME NEW t \in Task, NEW e \in Endpoint,
           \/ \E nodes \in SUBSET Node, as \in SUBSET Account : AskList(t, e, nodes, as)
           \/ \E n \in Node : AskNode(t, e, n)
           \/ \E a \in Account : AskAddress(t, e, a)
    PROVE  \E as \in SUBSET Account :
              \/ Ask(t, e, as, "read") /\ e \in List
              \/ Ask(t, e, as, "send") /\ e \in Single
<1>1. ASSUME NEW nodes \in SUBSET Node, NEW as \in SUBSET Account, AskList(t, e, nodes, as)
      PROVE  \E bs \in SUBSET Account : Ask(t, e, bs, "read") /\ e \in List
  <2> DEFINE bs == ({CollatorAccount[n] : n \in nodes} \ {NoAccount}) \cup as
  <2>1. bs \in SUBSET Account
    BY AskedAccounts
  <2>2. Ask(t, e, bs, "read") /\ e \in List
    BY <1>1 DEF AskList
  <2> QED
    BY <2>1, <2>2
<1>2. ASSUME NEW n \in Node, AskNode(t, e, n)
      PROVE  \E bs \in SUBSET Account : Ask(t, e, bs, "send") /\ e \in Single
  <2>1. {CollatorAccount[n]} \in SUBSET Account
    BY <1>2, NodeAssumption DEF AskNode
  <2> QED
    BY <1>2, <2>1 DEF AskNode
<1>3. ASSUME NEW a \in Account, AskAddress(t, e, a)
      PROVE  \E bs \in SUBSET Account : Ask(t, e, bs, "send") /\ e \in Single
  BY <1>3 DEF AskAddress
<1>4. CASE \E nodes \in SUBSET Node, as \in SUBSET Account : AskList(t, e, nodes, as)
  <2>1. \E bs \in SUBSET Account : Ask(t, e, bs, "read") /\ e \in List
    <3>1. PICK nodes \in SUBSET Node, as \in SUBSET Account : AskList(t, e, nodes, as)
      BY <1>4
    <3> QED
      BY <1>1, <3>1
  <2> QED
    BY <2>1
<1>5. CASE \E n \in Node : AskNode(t, e, n)
  <2>1. \E bs \in SUBSET Account : Ask(t, e, bs, "send") /\ e \in Single
    <3>1. PICK n \in Node : AskNode(t, e, n)
      BY <1>5
    <3> QED
      BY <1>2, <3>1
  <2> QED
    BY <2>1
<1>6. CASE \E a \in Account : AskAddress(t, e, a)
  <2>1. \E bs \in SUBSET Account : Ask(t, e, bs, "send") /\ e \in Single
    <3>1. PICK a \in Account : AskAddress(t, e, a)
      BY <1>6
    <3> QED
      BY <1>3, <3>1
  <2> QED
    BY <2>1
<1> QED
  BY <1>4, <1>5, <1>6

LEMMA Sending ==
    ASSUME IInv, NEW t \in Task, SendList(t) \/ SendOne(t)
    PROVE  \E m \in Message :
              /\ m.task = t /\ Carries(m) /\ Send(t, m)
              /\ pc[t] = "send"
<1>1. ASSUME SendList(t)
      PROVE  \E m \in Message : m.task = t /\ Carries(m) /\ Send(t, m)
  <2> DEFINE m == [task |-> t, call |-> "set_invulnerables",
                   accounts |-> (current[t] \cup add[t]) \ remove[t]]
  <2>1. m \in Message
    BY DEF IInv, TypeOK, Message
  <2>2. Carries(m)
    BY <1>1 DEF SendList, Carries
  <2> QED
    BY <1>1, <2>1, <2>2 DEF SendList
<1>2. ASSUME SendOne(t)
      PROVE  \E m \in Message : m.task = t /\ Carries(m) /\ Send(t, m)
  <2> DEFINE m == [task |-> t, call |-> kind[t], accounts |-> add[t] \cup remove[t]]
  <2>1. m \in Message
    BY <1>2 DEF SendOne, IInv, TypeOK, Message
  <2>2. Carries(m)
    BY <1>2 DEF SendOne, Carries, Single, List
  <2> QED
    BY <1>2, <2>1, <2>2 DEF SendOne
<1> QED
  BY <1>1, <1>2 DEF SendList, SendOne

\* Executing a message has the effect the request promises.
LEMMA EffectIsPromised ==
    ASSUME IInv, xcm # << >>
    PROVE  LET t == Head(xcm).task
           IN  /\ t \in Task /\ pc[t] = "sent"
               /\ Effect(Head(xcm)) =
                     ((IF kind[t] \in List THEN current[t] ELSE members) \cup add[t]) \ remove[t]
               /\ Effect(Head(xcm)) \subseteq Account
<1> DEFINE m == Head(xcm)
           t == m.task
<1>1. m \in Message /\ m = xcm[1] /\ 1 \in 1 .. Len(xcm)
  BY DEF IInv, TypeOK
<1>2. t \in Task /\ pc[t] = "sent" /\ Carries(m)
  BY <1>1 DEF IInv, Channel, Message
<1>3. CASE kind[t] \in List
  <2>1. m.call = "set_invulnerables"
        /\ m.accounts = (current[t] \cup add[t]) \ remove[t]
    BY <1>2, <1>3 DEF Carries
  <2>2. Effect(m) = m.accounts
    BY <2>1 DEF Effect
  <2> QED
    BY <1>2, <1>3, <2>1, <2>2 DEF IInv, TypeOK
<1>4. CASE kind[t] = "add_invulnerable"
  <2>1. m.call = "add_invulnerable" /\ m.accounts = add[t] \cup remove[t] /\ remove[t] = {}
    BY <1>2, <1>4 DEF Carries, IInv, Requests, List, Adding
  <2>2. Effect(m) = members \cup add[t]
    BY <2>1 DEF Effect
  <2>3. kind[t] \notin List
    BY <1>4 DEF List
  <2> QED
    BY <1>2, <2>1, <2>2, <2>3 DEF IInv, TypeOK
<1>5. CASE kind[t] = "remove_invulnerable"
  <2>1. m.call = "remove_invulnerable" /\ m.accounts = add[t] \cup remove[t] /\ add[t] = {}
    BY <1>2, <1>5 DEF Carries, IInv, Requests, Single, List, Adding
  <2>2. Effect(m) = members \ remove[t]
    BY <2>1 DEF Effect
  <2>3. kind[t] \notin List
    BY <1>5 DEF List
  <2> QED
    BY <1>2, <2>1, <2>2, <2>3 DEF IInv, TypeOK
<1> QED
  BY <1>2, <1>3, <1>4, <1>5 DEF IInv, Requests, Single

-----------------------------------------------------------------------------
LEMMA InvInit == Init => IInv
<1> QED
  BY DEF Init, IInv, TypeOK, Requests, Channel, Adding, Single, List

LEMMA InvStep == IInv /\ [Next]_vars => IInv'
<1> SUFFICES ASSUME IInv, [Next]_vars PROVE IInv'
  OBVIOUS
<1>a. TypeOK /\ Requests /\ Channel
  BY DEF IInv
<1>b. \A i \in 1 .. Len(xcm) : xcm[i] \in Message /\ xcm[i].task \in Task
  <2>1. \A i \in 1 .. Len(xcm) : xcm[i] \in Message
    BY <1>a DEF TypeOK
  <2>2. \A m \in Message : m.task \in Task
    BY DEF Message
  <2> QED
    BY <2>1, <2>2
<1>1. ASSUME NEW t \in Task, NEW e \in Endpoint, NEW as \in SUBSET Account,
             \/ Ask(t, e, as, "read") /\ e \in List
             \/ Ask(t, e, as, "send") /\ e \in Single
      PROVE  IInv'
  <2>1. TypeOK'
    <3>1. kind' \in [Task -> Endpoint \cup {"none"}]
      BY <1>a, <1>1 DEF Ask, TypeOK
    <3>2. pc' \in [Task -> {"idle", "read", "send", "sent", "over"}]
      BY <1>a, <1>1 DEF Ask, TypeOK
    <3>3. add' \in [Task -> SUBSET Account] /\ remove' \in [Task -> SUBSET Account]
      <4>1. \/ add' = [add EXCEPT ![t] = as] /\ remove' = remove
            \/ remove' = [remove EXCEPT ![t] = as] /\ add' = add
        BY <1>1 DEF Ask
      <4> QED
        BY <1>a, <4>1 DEF TypeOK
    <3>4. UNCHANGED <<members, xcm, current>>
      BY <1>1 DEF Ask
    <3> QED
      BY <1>a, <3>1, <3>2, <3>3, <3>4 DEF TypeOK
  <2>a. /\ pc[t] = "idle" /\ add[t] = {} /\ remove[t] = {}
        /\ \A u \in Task \ {t} : /\ pc'[u] = pc[u] /\ kind'[u] = kind[u]
                                 /\ add'[u] = add[u] /\ remove'[u] = remove[u]
        /\ UNCHANGED <<xcm, current>>
    BY <1>a, <1>1 DEF Ask, TypeOK, Requests
  <2>b. /\ kind'[t] = e /\ pc'[t] \in {"read", "send"}
        /\ pc'[t] = "read" => e \in List
        /\ e \in Single \cup List
    BY <1>a, <1>1 DEF Ask, TypeOK
  <2>c. IF e \in Adding THEN remove'[t] = {} ELSE add'[t] = {}
    BY <1>a, <1>1, <2>a DEF Ask, TypeOK
  <2>2. Requests'
    BY <1>a, <2>a, <2>b, <2>c DEF Requests
  <2>3. \A i \in 1 .. Len(xcm) : xcm[i].task # t
    BY <1>a, <1>1 DEF Ask, Channel
  <2>4. Channel'
    BY <1>a, <1>b, <2>a, <2>3 DEF Channel, Carries
  <2> QED
    BY <2>1, <2>2, <2>4 DEF IInv
<1>2. ASSUME NEW t \in Task, ReadInvulnerables(t) PROVE IInv'
  <2>1. TypeOK' /\ Requests'
    BY <1>a, <1>2 DEF ReadInvulnerables, TypeOK, Requests
  <2>2. \A i \in 1 .. Len(xcm) : xcm[i].task # t
    BY <1>a, <1>2 DEF ReadInvulnerables, Channel
  <2>3. Channel'
    BY <1>a, <1>b, <1>2, <2>2 DEF ReadInvulnerables, Channel, Carries, TypeOK
  <2> QED
    BY <2>1, <2>3 DEF IInv
<1>3. ASSUME NEW t \in Task, SendList(t) \/ SendOne(t) PROVE IInv'
  <2>1. PICK m \in Message : m.task = t /\ Carries(m) /\ Send(t, m) /\ pc[t] = "send"
    BY <1>3, Sending
  <2>2. xcm' = Append(xcm, m) /\ xcm' \in Seq(Message)
    BY <1>a, <2>1 DEF Send, TypeOK
  <2>3. TypeOK' /\ Requests'
    BY <1>a, <2>1, <2>2 DEF Send, TypeOK, Requests
  <2>4. \A i \in 1 .. Len(xcm) : xcm[i].task # t
    BY <1>a, <2>1 DEF Channel
  <2>5. /\ Len(xcm') = Len(xcm) + 1 /\ xcm'[Len(xcm) + 1] = m
        /\ \A i \in 1 .. Len(xcm) : xcm'[i] = xcm[i]
        /\ Len(xcm) \in Nat
    BY <1>a, <2>2 DEF TypeOK
  <2>6. /\ \A u \in Task \ {t} : pc'[u] = pc[u]
        /\ pc'[t] = "sent"
        /\ UNCHANGED <<kind, current, add, remove>>
    BY <1>a, <2>1 DEF Send, TypeOK
  <2>7. \A k : Carries(k) => Carries(k)'
    BY <2>6 DEF Carries
  <2>8. Channel'
    BY <1>a, <1>b, <2>1, <2>4, <2>5, <2>6, <2>7 DEF Channel
  <2> QED
    BY <2>3, <2>8 DEF IInv
<1>4. ASSUME NEW t \in Task, TaskDies(t) PROVE IInv'
  <2>1. TypeOK' /\ Requests'
    BY <1>a, <1>4 DEF TaskDies, TypeOK, Requests
  <2>2. \A i \in 1 .. Len(xcm) : xcm[i].task # t
    BY <1>a, <1>4 DEF TaskDies, Channel
  <2>3. Channel'
    BY <1>a, <1>b, <1>4, <2>2 DEF TaskDies, Channel, Carries, TypeOK
  <2> QED
    BY <2>1, <2>3 DEF IInv
<1>5. ASSUME Deliver PROVE IInv'
  <2> DEFINE t == Head(xcm).task
  <2>1. /\ t \in Task /\ pc[t] = "sent" /\ Effect(Head(xcm)) \subseteq Account
    BY <1>5, EffectIsPromised DEF Deliver
  <2>2. xcm' = Tail(xcm) /\ xcm' \in Seq(Message)
    BY <1>a, <1>5 DEF Deliver, TypeOK
  <2>3. /\ members' \subseteq Account
        /\ pc' = [pc EXCEPT ![t] = "over"] /\ current' = [current EXCEPT ![t] = {}]
        /\ UNCHANGED <<kind, add, remove>>
    BY <1>a, <1>5, <2>1 DEF Deliver, TypeOK
  <2>4. TypeOK' /\ Requests'
    BY <1>a, <2>1, <2>2, <2>3 DEF TypeOK, Requests
  <2>5. /\ Len(xcm) \in Nat \ {0} /\ Head(xcm) = xcm[1]
        /\ Len(xcm') = Len(xcm) - 1
        /\ \A i \in 1 .. Len(xcm') : xcm'[i] = xcm[i + 1] /\ i + 1 \in 1 .. Len(xcm) /\ i + 1 # 1
    BY <1>a, <1>5, <2>2 DEF Deliver, TypeOK
  <2>6. \A i \in 1 .. Len(xcm') : xcm'[i].task \in Task \ {t}
    BY <1>a, <1>b, <2>5 DEF Channel
  <2>7. \A m : m.task \in Task \ {t} /\ pc[m.task] = "sent" /\ Carries(m)
                  => pc'[m.task] = "sent" /\ Carries(m)'
    BY <1>a, <2>3 DEF Carries, TypeOK
  <2>8. Channel'
    <3> SUFFICES ASSUME NEW i \in 1 .. Len(xcm')
                 PROVE  /\ pc'[xcm'[i].task] = "sent" /\ Carries(xcm[i])'
                        /\ \A j \in 1 .. Len(xcm') : xcm'[j].task = xcm'[i].task => j = i
      BY DEF Channel
    <3>0. xcm'[i] = xcm[i + 1] /\ i + 1 \in 1 .. Len(xcm)
      BY <2>5
    <3>1. pc[xcm'[i].task] = "sent" /\ Carries(xcm'[i])
      <4>1. pc[xcm[i + 1].task] = "sent" /\ Carries(xcm[i + 1])
        BY <1>a, <3>0 DEF Channel
      <4> QED
        BY <3>0, <4>1
    <3>2. pc'[xcm'[i].task] = "sent" /\ Carries(xcm[i])'
      BY <2>6, <2>7, <3>1 DEF Carries
    <3>3. ASSUME NEW j \in 1 .. Len(xcm'), xcm'[j].task = xcm'[i].task PROVE j = i
      <4>1. xcm'[j] = xcm[j + 1] /\ j + 1 \in 1 .. Len(xcm)
        BY <2>5
      <4>2. j + 1 = i + 1
        BY <1>a, <3>0, <3>3, <4>1 DEF Channel
      <4> QED
        BY <4>2
    <3> QED
      BY <3>2, <3>3
  <2> QED
    BY <2>4, <2>8 DEF IInv
<1>6. CASE UNCHANGED vars
  BY <1>a, <1>6 DEF vars, IInv, TypeOK, Requests, Channel, Carries
<1> QED
  BY <1>1, <1>2, <1>3, <1>4, <1>5, <1>6, Asking DEF Next, TaskStep

LEMMA Invariant == Spec => []IInv
<1> QED
  BY InvInit, InvStep, PTL DEF Spec

\* Every variable keeps its type; in particular only accounts travel.
THEOREM TypeCorrect == Spec => []TypeOK
<1>1. IInv => TypeOK
  BY DEF IInv
<1> QED
  BY <1>1, Invariant, PTL

-----------------------------------------------------------------------------
\* A step of one task changes the status of that task only.
LEMMA StatusOf ==
    ASSUME IInv, NEW t \in Task, NEW here,
           \A u \in Task \ {t} : pc'[u] = pc[u] /\ kind'[u] = kind[u],
           Status(t)' = here
    PROVE  [u \in Task |-> Status(u)]' = [[u \in Task |-> Status(u)] EXCEPT ![t] = here]
<1>1. \A u \in Task \ {t} : Status(u)' = Status(u)
  BY DEF Status
<1> QED
  BY <1>1

LEMMA InitImplements == Init => Promise!Init
<1> SUFFICES ASSUME Init PROVE Promise!Init
  OBVIOUS
<1>1. \A t \in Task : Status(t) = "idle"
  BY DEF Init, Status
<1> QED
  BY <1>1 DEF Init, Promise!Init, Promise!None

LEMMA StepImplements == IInv /\ [Next]_vars => [Promise!Next]_(Promise!vars)
<1> SUFFICES ASSUME IInv, [Next]_vars PROVE Promise!Next \/ UNCHANGED Promise!vars
  OBVIOUS
<1>a. TypeOK /\ Requests
  BY DEF IInv
<1>1. ASSUME NEW t \in Task, NEW e \in Endpoint, NEW as \in SUBSET Account,
             \/ Ask(t, e, as, "read") /\ e \in List
             \/ Ask(t, e, as, "send") /\ e \in Single
      PROVE  Promise!Ask(t)
  <2>1. Status(t) = "idle"
    BY <1>1 DEF Ask, Status
  <2>2. Status(t)' = "open"
    BY <1>a, <1>1 DEF Ask, Status, TypeOK, Single, List
  <2>3. \A u \in Task \ {t} : pc'[u] = pc[u] /\ kind'[u] = kind[u]
    BY <1>a, <1>1 DEF Ask, TypeOK
  <2> QED
    BY <1>1, <2>1, <2>2, <2>3, StatusOf DEF Ask, Promise!Ask
<1>2. ASSUME NEW t \in Task, ReadInvulnerables(t) PROVE Promise!Copy(t)
  <2>1. Status(t) = "open"
    BY <1>2 DEF ReadInvulnerables, Status
  <2>2. Status(t)' = "copied"
    BY <1>a, <1>2 DEF ReadInvulnerables, Status, TypeOK, Requests
  <2>3. \A u \in Task \ {t} : pc'[u] = pc[u] /\ kind'[u] = kind[u]
    BY <1>a, <1>2 DEF ReadInvulnerables, TypeOK
  <2> QED
    BY <1>2, <2>1, <2>2, <2>3, StatusOf DEF ReadInvulnerables, Promise!Copy
<1>3. ASSUME NEW t \in Task, SendList(t) \/ SendOne(t) PROVE UNCHANGED Promise!vars
  <2>1. /\ pc[t] = "send" /\ pc' = [pc EXCEPT ![t] = "sent"]
        /\ UNCHANGED <<members, kind, add, remove, current>>
    BY <1>3 DEF SendList, SendOne, Send
  <2>2. \A u \in Task : Status(u)' = Status(u)
    BY <1>a, <2>1 DEF Status, TypeOK
  <2> QED
    BY <2>1, <2>2 DEF Promise!vars
<1>4. ASSUME NEW t \in Task, TaskDies(t) PROVE Promise!Answer(t)
  <2>1. Status(t) \in {"open", "copied"}
    BY <1>4 DEF TaskDies, Status
  <2>2. Status(t)' = "over"
    BY <1>a, <1>4 DEF TaskDies, Status, TypeOK
  <2>3. \A u \in Task \ {t} : pc'[u] = pc[u] /\ kind'[u] = kind[u]
    BY <1>a, <1>4 DEF TaskDies, TypeOK
  <2> QED
    BY <1>4, <2>1, <2>2, <2>3, StatusOf DEF TaskDies, Promise!Answer
<1>5. ASSUME Deliver PROVE \E t \in Task : Promise!Answer(t)
  <2>0. PICK t \in Task : t = Head(xcm).task
    BY <1>5, EffectIsPromised DEF Deliver
  <2>1. /\ pc[t] = "sent"
        /\ Effect(Head(xcm)) =
              ((IF kind[t] \in List THEN current[t] ELSE members) \cup add[t]) \ remove[t]
    BY <1>5, <2>0, EffectIsPromised DEF Deliver
  <2>2. Status(t) = IF kind[t] \in List THEN "copied" ELSE "open"
    BY <2>1 DEF Status
  <2>3. Status(t)' = "over"
    BY <1>a, <1>5, <2>0 DEF Deliver, Status, TypeOK
  <2>4. \A u \in Task \ {t} : pc'[u] = pc[u] /\ kind'[u] = kind[u]
    BY <1>a, <1>5, <2>0 DEF Deliver, TypeOK
  <2>5. members' = Effect(Head(xcm)) \/ UNCHANGED members
    BY <1>5 DEF Deliver
  <2>6. [u \in Task |-> Status(u)]' = [[u \in Task |-> Status(u)] EXCEPT ![t] = "over"]
    BY <2>3, <2>4, StatusOf
  <2>7. Promise!Answer(t)
    BY <1>5, <2>0, <2>1, <2>2, <2>5, <2>6 DEF Deliver, Promise!Answer
  <2> QED
    BY <2>7
<1>6. CASE UNCHANGED vars
  BY <1>6 DEF vars, Promise!vars, Status
<1> QED
  BY <1>1, <1>2, <1>3, <1>4, <1>5, <1>6, Asking DEF Next, TaskStep, Promise!Next

\* Whatever overtakes what, a request takes effect once, at one instant and on
\* the accounts it names, or on the list as it had copied it, or not at all.
THEOREM Implements == Spec => Promise!Spec
<1> QED
  BY InitImplements, StepImplements, Invariant, PTL DEF Spec, Promise!Spec

-----------------------------------------------------------------------------
\* A whole-list request that nothing disturbed between its read and the
\* execution of its message changes exactly the accounts it names.
THEOREM UndisturbedIsPrecise == Spec => UndisturbedListIsPrecise
<1>1. IInv /\ [Next]_vars =>
          [\A t \in Task :
              pc[t] = "sent" /\ pc'[t] = "over" /\ kind[t] \in List /\ members = current[t]
                  => members' \in {members, (members \cup add[t]) \ remove[t]}]_vars
  <2> SUFFICES ASSUME IInv, [Next]_vars, NEW t \in Task,
                      pc[t] = "sent", pc'[t] = "over", kind[t] \in List, members = current[t]
               PROVE  members' \in {members, (members \cup add[t]) \ remove[t]}
    OBVIOUS
  <2>1. Deliver
    <3>1. ASSUME NEW u \in Task, NEW e \in Endpoint, NEW as \in SUBSET Account,
                 \/ Ask(u, e, as, "read") /\ e \in List
                 \/ Ask(u, e, as, "send") /\ e \in Single
          PROVE  FALSE
      BY <3>1 DEF Ask, IInv, TypeOK
    <3>2. ASSUME NEW u \in Task, ReadInvulnerables(u) \/ TaskDies(u) PROVE FALSE
      BY <3>2 DEF ReadInvulnerables, TaskDies, IInv, TypeOK
    <3>3. ASSUME NEW u \in Task, SendList(u) \/ SendOne(u) PROVE FALSE
      BY <3>3 DEF SendList, SendOne, Send, IInv, TypeOK
    <3>4. CASE UNCHANGED vars
      BY <3>4 DEF vars
    <3> QED
      BY <3>1, <3>2, <3>3, <3>4, Asking DEF Next, TaskStep
  <2>2. Head(xcm).task = t
    BY <2>1 DEF Deliver, IInv, TypeOK
  <2>3. Effect(Head(xcm)) = (members \cup add[t]) \ remove[t]
    BY <2>1, <2>2, EffectIsPromised DEF Deliver
  <2> QED
    BY <2>1, <2>3 DEF Deliver
<1> QED
  BY <1>1, Invariant, PTL DEF Spec, UndisturbedListIsPrecise
=============================================================================
