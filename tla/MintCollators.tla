--------------------------- MODULE MintCollators ---------------------------
(***************************************************************************)
(* Collators of a parachain with pallet CollatorSelection: registration,   *)
(* deregistration and set_on_chain_keys (app/lib/collator_mint.py, called  *)
(* by register_collator_nodes, deregister_collator_nodes and               *)
(* set_collator_nodes_keys_on_chain of app/lib/network_utils.py).          *)
(*                                                                         *)
(* A task handles its nodes one after the other and returns None for a     *)
(* node at the first call that fails; tasks of different workers           *)
(* interleave between any two remote calls.  The desired number of         *)
(* candidates is computed from a list read earlier and travels by XCM; the *)
(* other calls are extrinsics of the parachain.  The pallets are external. *)
(***************************************************************************)
EXTENDS Naturals, Sequences, FiniteSets

CONSTANTS
    Task, Node,   \* a node's collator account is derived from its name
    Derived,      \* the aura key derived from the collator's seed
    NoKeys, NoNode, NoOp,
    MaxXcm,       \* bound on messages under way
    Faults        \* TRUE: calls and messages may fail, workers be killed

Op == {"register", "deregister", "setKeys"}
Key == Task \cup {Derived}   \* a node's key: rotated by a task, or derived

ASSUME SentinelAssumption ==
    /\ Derived \notin Task /\ NoKeys \notin Key /\ NoNode \notin Node
ASSUME NodeAssumption == IsFiniteSet(Node)
ASSUME BoundAssumption == MaxXcm \in Nat /\ Faults \in BOOLEAN

VARIABLES
    \* the parachain
    candidates,  \* accounts in CollatorSelection.Candidates, by node
    desired,     \* CollatorSelection.DesiredCandidates
    nextKeys,    \* Session.NextKeys of each collator account
    funded,      \* accounts with bond and fees
    keystore,    \* aura keys each node holds
    xcm,         \* set_desired_candidates messages under way
    \* the tasks
    pc, op, todo, node,
    count,       \* the number of candidates the task is about to ask for
    \* history
    overlapped,  \* tasks that were active while another one was
    dropped      \* the last message taken from xcm had no effect

chainVars == <<candidates, desired, nextKeys, funded, keystore, xcm>>
history == <<overlapped, dropped>>
vars == <<chainVars, pc, op, todo, node, count, history>>

RegisterSteps == {"fund", "inject", "rotate", "setKeys", "countUp", "send", "join"}
DeregisterSteps == {"countDown", "send", "leave"}
SetKeysSteps == {"teleport", "hasKey", "setDerived"}
Active == {"next"} \cup RegisterSteps \cup DeregisterSteps \cup SetKeysSteps

\* Earlier registrations may have left candidates.
Init ==
    /\ candidates \in SUBSET Node
    /\ desired = Cardinality(candidates) /\ xcm = << >>
    /\ nextKeys = [n \in Node |-> IF n \in candidates THEN Derived ELSE NoKeys]
    /\ funded \in {set \in SUBSET Node : candidates \subseteq set}
    /\ keystore \in {held \in [Node -> {{}, {Derived}}] :
                        \A n \in candidates : Derived \in held[n]}
    /\ pc = [t \in Task |-> "idle"] /\ op = [t \in Task |-> NoOp]
    /\ todo = [t \in Task |-> {}] /\ node = [t \in Task |-> NoNode]
    /\ count = [t \in Task |-> 0]
    /\ overlapped = {} /\ dropped = FALSE

-----------------------------------------------------------------------------
Goto(t, there) == pc' = [pc EXCEPT ![t] = there]

\* The function returns for the node at hand, with its address or with None.
NodeDone(t) ==
    /\ Goto(t, "next")
    /\ node' = [node EXCEPT ![t] = NoNode]
    /\ count' = [count EXCEPT ![t] = 0]
    /\ UNCHANGED <<op, todo, history>>

Begin(t, o, nodes) ==
    /\ pc[t] = "idle" /\ nodes # {}
    /\ Goto(t, "next")
    /\ op' = [op EXCEPT ![t] = o]
    /\ todo' = [todo EXCEPT ![t] = nodes]
    /\ LET others == {u \in Task : pc[u] \in Active}
       IN overlapped' = IF others = {} THEN overlapped ELSE overlapped \cup others \cup {t}
    /\ UNCHANGED <<chainVars, node, count, dropped>>

\* Asked for a stateful set, set_collator_nodes_keys_on_chain reads an attribute
\* that the node descriptions, dictionaries, do not have: it raises at once.
SetKeysOfStatefulSet(t) ==
    /\ pc[t] = "idle"
    /\ Goto(t, "done")
    /\ UNCHANGED <<chainVars, op, todo, node, count, history>>

Take(t, n, there) ==
    /\ pc[t] = "next" /\ n \in todo[t]
    /\ todo' = [todo EXCEPT ![t] = @ \ {n}]
    /\ Goto(t, there)
    /\ node' = [node EXCEPT ![t] = n]
    /\ UNCHANGED <<chainVars, op, count, history>>

\* The candidates are read: only a node that is not one is registered, only
\* one that is is deregistered.
LookToRegister(t, n) == op[t] = "register" /\ n \notin candidates /\ Take(t, n, "fund")
LookToDeregister(t, n) == op[t] = "deregister" /\ n \in candidates /\ Take(t, n, "countDown")
LookToSetKeys(t, n) == op[t] = "setKeys" /\ Take(t, n, "teleport")

Already(t, n) ==
    /\ pc[t] = "next" /\ n \in todo[t]
    /\ \/ op[t] = "register" /\ n \in candidates
       \/ op[t] = "deregister" /\ n \notin candidates
    /\ todo' = [todo EXCEPT ![t] = @ \ {n}]
    /\ UNCHANGED <<chainVars, pc, op, node, count, history>>

\* An account below the bond and a fee gets a transfer.
Fund(t) ==
    /\ pc[t] = "fund"
    /\ funded' = funded \cup {node[t]}
    /\ Goto(t, "inject")
    /\ UNCHANGED <<candidates, desired, nextKeys, keystore, xcm, op, todo, node, count, history>>

\* inject_key swallows its exception: the next step follows in any case.
InjectKey(t) ==
    /\ pc[t] = "inject"
    /\ keystore' \in {[keystore EXCEPT ![node[t]] = @ \cup {Derived}]}
                        \cup (IF Faults THEN {keystore} ELSE {})
    /\ Goto(t, "rotate")
    /\ UNCHANGED <<candidates, desired, nextKeys, funded, xcm, op, todo, node, count, history>>

\* MUTANT of RotateKey: the call goes to another of the task's nodes.
RotateKeyElsewhere(t) ==
    /\ pc[t] = "rotate"
    /\ \E n \in todo[t] : keystore' = [keystore EXCEPT ![n] = @ \cup {t}]
    /\ Goto(t, "setKeys")
    /\ UNCHANGED <<candidates, desired, nextKeys, funded, xcm, op, todo, node, count, history>>

RotateKey(t) ==
    /\ pc[t] = "rotate"
    /\ keystore' = [keystore EXCEPT ![node[t]] = @ \cup {t}]
    /\ Goto(t, "setKeys")
    /\ UNCHANGED <<candidates, desired, nextKeys, funded, xcm, op, todo, node, count, history>>

SetKeys(t) ==
    /\ pc[t] = "setKeys" /\ node[t] \in funded
    /\ nextKeys' = [nextKeys EXCEPT ![node[t]] = t]
    /\ Goto(t, "countUp")
    /\ UNCHANGED <<candidates, desired, funded, keystore, xcm, op, todo, node, count, history>>

\* MUTANT of CountUp: the new candidate is not counted.
CountUpSame(t) ==
    /\ pc[t] = "countUp"
    /\ count' = [count EXCEPT ![t] = Cardinality(candidates)]
    /\ Goto(t, "send")
    /\ UNCHANGED <<chainVars, op, todo, node, history>>

\* One more than the candidates at this moment.
CountUp(t) ==
    /\ pc[t] = "countUp"
    /\ count' = [count EXCEPT ![t] = Cardinality(candidates) + 1]
    /\ Goto(t, "send")
    /\ UNCHANGED <<chainVars, op, todo, node, history>>

\* MUTANT of CountDown: -1 is sent as it is.
CountDownPastZero(t) ==
    /\ pc[t] = "countDown"
    /\ count' = [count EXCEPT ![t] = Cardinality(candidates) - 1]
    /\ Goto(t, "send")
    /\ UNCHANGED <<chainVars, op, todo, node, history>>

\* One less; encoding -1 raises when none is left, which ends the node.
CountDown(t) ==
    /\ pc[t] = "countDown" /\ candidates # {}
    /\ count' = [count EXCEPT ![t] = Cardinality(candidates) - 1]
    /\ Goto(t, "send")
    /\ UNCHANGED <<chainVars, op, todo, node, history>>

CountDownRaises(t) ==
    /\ pc[t] = "countDown" /\ candidates = {}
    /\ NodeDone(t)
    /\ UNCHANGED chainVars

SendDesired(t) ==
    /\ pc[t] = "send" /\ Len(xcm) < MaxXcm
    /\ xcm' = Append(xcm, count[t])
    /\ Goto(t, IF op[t] = "register" THEN "join" ELSE "leave")
    /\ UNCHANGED <<candidates, desired, nextKeys, funded, keystore, op, todo, node, count, history>>

\* register_as_candidate: the pallet takes an account with session keys while
\* there are fewer candidates than desired.
Joinable(n) ==
    /\ n \notin candidates /\ n \in funded /\ nextKeys[n] # NoKeys
    /\ Cardinality(candidates) < desired

Join(t) ==
    /\ pc[t] = "join" /\ Joinable(node[t])
    /\ candidates' = candidates \cup {node[t]}
    /\ NodeDone(t)
    /\ UNCHANGED <<desired, nextKeys, funded, keystore, xcm>>

JoinRefused(t) ==
    /\ pc[t] = "join" /\ ~Joinable(node[t])
    /\ NodeDone(t)
    /\ UNCHANGED chainVars

\* leave_intent; it is refused to an account that has left meanwhile.
Leave(t) ==
    /\ pc[t] = "leave"
    /\ candidates' = candidates \ {node[t]}
    /\ NodeDone(t)
    /\ UNCHANGED <<desired, nextKeys, funded, keystore, xcm>>

\* collator_set_keys: a poor account is sent a teleport, and after a minute
\* the task goes on whether or not it has arrived.
Teleport(t) ==
    /\ pc[t] = "teleport"
    /\ funded' \in {funded \cup {node[t]}} \cup (IF Faults THEN {funded} ELSE {})
    /\ Goto(t, "hasKey")
    /\ UNCHANGED <<candidates, desired, nextKeys, keystore, xcm, op, todo, node, count, history>>

\* MUTANT of HasKey: the node's keystore is not asked.
HasKeyUnasked(t) ==
    /\ pc[t] = "hasKey"
    /\ Goto(t, "setDerived")
    /\ UNCHANGED <<chainVars, op, todo, node, count, history>>

\* author_hasKey: the derived key is set only if the node can sign with it.
HasKey(t) ==
    /\ pc[t] = "hasKey" /\ Derived \in keystore[node[t]]
    /\ Goto(t, "setDerived")
    /\ UNCHANGED <<chainVars, op, todo, node, count, history>>

LacksKey(t) ==
    /\ pc[t] = "hasKey" /\ Derived \notin keystore[node[t]]
    /\ NodeDone(t)
    /\ UNCHANGED chainVars

\* check_has_session_keys answers a non-empty dictionary, which is true
\* whatever it holds: the keys are set even if they are set already.
SetDerived(t) ==
    /\ pc[t] = "setDerived" /\ node[t] \in funded
    /\ nextKeys' = [nextKeys EXCEPT ![node[t]] = Derived]
    /\ NodeDone(t)
    /\ UNCHANGED <<candidates, desired, funded, keystore, xcm>>

CannotPay(t) ==
    /\ pc[t] \in {"setKeys", "setDerived"} /\ node[t] \notin funded
    /\ NodeDone(t)
    /\ UNCHANGED chainVars

\* A call raises or its receipt is lost, with or without its effect.
CallFails(t) ==
    /\ Faults
    /\ pc[t] \in Active \ {"next", "inject"}
    /\ NodeDone(t)
    /\ LET n == node[t]
       IN \/ UNCHANGED chainVars
          \/ /\ pc[t] = "fund" /\ funded' = funded \cup {n}
             /\ UNCHANGED <<candidates, desired, nextKeys, keystore, xcm>>
          \/ /\ pc[t] = "rotate" /\ keystore' = [keystore EXCEPT ![n] = @ \cup {t}]
             /\ UNCHANGED <<candidates, desired, nextKeys, funded, xcm>>
          \/ /\ pc[t] = "setKeys" /\ n \in funded
             /\ nextKeys' = [nextKeys EXCEPT ![n] = t]
             /\ UNCHANGED <<candidates, desired, funded, keystore, xcm>>
          \/ /\ pc[t] = "send" /\ Len(xcm) < MaxXcm /\ xcm' = Append(xcm, count[t])
             /\ UNCHANGED <<candidates, desired, nextKeys, funded, keystore>>
          \/ /\ pc[t] = "join" /\ Joinable(n) /\ candidates' = candidates \cup {n}
             /\ UNCHANGED <<desired, nextKeys, funded, keystore, xcm>>

TaskDone(t) ==
    /\ pc[t] = "next" /\ todo[t] = {}
    /\ Goto(t, "done")
    /\ UNCHANGED <<chainVars, op, todo, node, count, history>>

\* The worker process is killed, or reading a node's description raises, which
\* ends the whole task.
TaskDies(t) ==
    /\ Faults
    /\ pc[t] \in Active
    /\ Goto(t, "dead")
    /\ todo' = [todo EXCEPT ![t] = {}]
    /\ node' = [node EXCEPT ![t] = NoNode]
    /\ count' = [count EXCEPT ![t] = 0]
    /\ UNCHANGED <<chainVars, op, history>>

\* (external) The parachain executes the next message.
Deliver ==
    /\ xcm # << >>
    /\ xcm' = Tail(xcm)
    /\ \/ desired' = Head(xcm) /\ dropped' = FALSE
       \/ Faults /\ dropped' = TRUE /\ UNCHANGED desired
    /\ UNCHANGED <<candidates, nextKeys, funded, keystore, pc, op, todo, node, count, overlapped>>
-----------------------------------------------------------------------------
TaskStep(t) ==
    \/ \E n \in Node :
          LookToRegister(t, n) \/ LookToDeregister(t, n) \/ LookToSetKeys(t, n) \/ Already(t, n)
    \/ Fund(t) \/ InjectKey(t) \/ RotateKey(t) \/ SetKeys(t) \/ CountUp(t)
    \/ CountDown(t) \/ CountDownRaises(t) \/ SendDesired(t)
    \/ Join(t) \/ JoinRefused(t) \/ Leave(t)
    \/ Teleport(t) \/ HasKey(t) \/ LacksKey(t) \/ SetDerived(t) \/ CannotPay(t)
    \/ TaskDone(t)

Next ==
    \/ \E t \in Task :
          \/ \E o \in Op, nodes \in SUBSET Node : Begin(t, o, nodes)
          \/ SetKeysOfStatefulSet(t)
          \/ TaskStep(t) \/ CallFails(t) \/ TaskDies(t)
    \/ Deliver

Spec == Init /\ [][Next]_vars

-----------------------------------------------------------------------------
(* Properties *)

\* Every variable has its type: in particular the number of candidates asked
\* for is never negative.
TypeOK ==
    /\ candidates \subseteq Node /\ desired \in Nat
    /\ nextKeys \in [Node -> Key \cup {NoKeys}]
    /\ funded \subseteq Node
    /\ keystore \in [Node -> SUBSET Key]
    /\ xcm \in Seq(Nat)
    /\ pc \in [Task -> {"idle", "done", "dead"} \cup Active]
    /\ op \in [Task -> Op \cup {NoOp}]
    /\ todo \in [Task -> SUBSET Node]
    /\ node \in [Task -> Node \cup {NoNode}]
    /\ count \in [Task -> Nat]
    /\ overlapped \subseteq Task /\ dropped \in BOOLEAN

\* A candidate's keys on chain are keys its own node can sign with, whatever
\* registrations and set_on_chain_keys raced for it and wherever they failed.
CandidatesHaveNodeKeys == \A n \in candidates : nextKeys[n] \in keystore[n]

\* Joining is refused only because of a race or a lost message: when no other
\* task has overlapped this one and the parachain has executed everything that
\* was sent to it, the desired number of candidates has room for the node,
\* whatever earlier tasks did and however they ended.
RegistrationAloneHasRoom ==
    \A t \in Task :
        pc[t] = "join" /\ t \notin overlapped /\ xcm = << >> /\ ~dropped
            => Joinable(node[t])
=============================================================================
