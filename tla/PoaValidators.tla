--------------------------- MODULE PoaValidators ---------------------------
(***************************************************************************)
(* Validator registration, deregistration and session-key rotation on a    *)
(* proof-of-authority relay chain (app/lib/network_utils.py with           *)
(* session_keys.py, balance_utils.py and validator_manager.py).            *)
(*                                                                         *)
(* Every operation is a background task: the HTTP handler answers OK and   *)
(* the task then performs its remote calls one by one.  Several worker     *)
(* processes serve the API and the scheduler is a process of its own, so   *)
(* two tasks interleave between any two remote calls, and the chain may    *)
(* change session between any two of them.  One action is one remote call  *)
(* together with the local computation that follows it.                    *)
(*                                                                         *)
(* The chain's session and validator-manager pallets are not part of the   *)
(* repository: SessionChange and the effect of the extrinsics are the      *)
(* behaviour its code counts on.                                           *)
(*                                                                         *)
(* Every process signs with the account of the sudo seed and the nonce of  *)
(* the chain's state, so any other request may cost a call its nonce: it   *)
(* answers False, and nobody looks (substrate.py:84-97).                   *)
(***************************************************************************)
EXTENDS Naturals, FiniteSets

CONSTANTS
    Task,        \* background tasks; each is started at most once
    Pod,         \* validator pods
    Account,     \* on-chain accounts
    Stash,       \* [Pod -> Account]: the account derived from the pod's name
    Label,       \* [Pod -> Account \cup {NoAccount}]: label validatorAccount
    Genesis,     \* validators of the chain specification, with keys of their own
    NoAccount,   \* the pod has no validatorAccount label
    NoPod,       \* no pod's fresh key is waiting to be set
    NoKeys,      \* Session.NextKeys is empty
    OperatorKeys,\* session keys set by an operator, not by this program
    NoOp,        \* the task has not been started
    Faults       \* TRUE: calls fail anyhow, nodes are unready, workers are killed

StashAccounts == {Stash[p] : p \in Pod}
Key == Pod \X Task        \* the session keys that task k made pod p generate

ASSUME StashAssumption ==
    /\ Stash \in [Pod -> Account]
    /\ \A p, q \in Pod : Stash[p] = Stash[q] => p = q
ASSUME LabelAssumption == Label \in [Pod -> Account \cup {NoAccount}]
ASSUME GenesisAssumption == Genesis \subseteq Account \ StashAccounts
ASSUME SentinelAssumption ==
    /\ NoAccount \notin Account
    /\ NoPod \notin Pod
    /\ NoKeys \notin Key
    /\ OperatorKeys \notin Key
    /\ NoKeys # OperatorKeys
    /\ Faults \in BOOLEAN

VARIABLES
    \* the chain
    validators,  \* Session.Validators
    queued,      \* accounts of Session.QueuedKeys: the next session's validators
    toAdd,       \* ValidatorManager.ValidatorsToAdd
    toRetire,    \* ValidatorManager.ValidatorsToRetire
    nextKeys,    \* Session.NextKeys
    funded,      \* accounts that can pay for an extrinsic
    keystore,    \* session keys each node holds
    \* the tasks
    pc, op,
    req,         \* pods the task was asked to handle
    seen,        \* accounts found in the lists read so far
    todo,        \* pods still to be set up
    holding,     \* pod whose key is rotated and not yet set
    accts,       \* accounts the task will submit
    failed,      \* a set-up coroutine raised: gather will raise too
    \* history
    direct,      \* accounts registered by address, outside any set-up
    steady,      \* accounts that have been validators ever since the task began
    lost         \* tasks a call of which was lost, as a rule to another's nonce

chainVars == <<validators, queued, toAdd, toRetire, nextKeys, funded, keystore>>
localVars == <<req, seen, todo, holding, accts, failed>>
history == <<direct, steady, lost>>
vars == <<chainVars, pc, op, localVars, history>>

PodOps == {"register", "deregister", "rotate"}
AddrOps == {"registerAddr", "deregisterAddr"}
Active == {"readSet", "readAdd", "readRetire", "fund", "gather", "submit"}
Over == {"done", "dead"}

Keyed == {a \in Account : nextKeys[a] # NoKeys}
\* get_validator_account_from_pod: the label wins over the derived stash.
AccountOf(p) == IF Label[p] = NoAccount THEN Stash[p] ELSE Label[p]
RegisteredIn(s, a) == a \in s

Init ==
    /\ validators = Genesis /\ queued = Genesis
    /\ toAdd = {} /\ toRetire = {}
    /\ nextKeys = [a \in Account |-> IF a \in Genesis THEN OperatorKeys ELSE NoKeys]
    /\ funded \in {Genesis \cup s : s \in SUBSET StashAccounts}
    /\ keystore = [p \in Pod |-> {}]
    /\ pc = [t \in Task |-> "idle"] /\ op = [t \in Task |-> NoOp]
    /\ req = [t \in Task |-> {}] /\ seen = [t \in Task |-> {}]
    /\ todo = [t \in Task |-> {}] /\ holding = [t \in Task |-> NoPod]
    /\ accts = [t \in Task |-> {}] /\ failed = [t \in Task |-> FALSE]
    /\ direct = {} /\ steady = [t \in Task |-> {}] /\ lost = {}

-----------------------------------------------------------------------------
(* Starting a task *)

\* register_statefulset_validators, register_validator_nodes and their
\* deregister and rotate counterparts: the pods are listed, then handled.
Begin(t, o, first, pods) ==
    /\ pc[t] = "idle"
    /\ pc' = [pc EXCEPT ![t] = first]
    /\ op' = [op EXCEPT ![t] = o]
    /\ req' = [req EXCEPT ![t] = pods]
    /\ steady' = [steady EXCEPT ![t] = validators]

StartRegister(t, pods) ==
    /\ Begin(t, "register", "readSet", pods)
    /\ UNCHANGED <<chainVars, seen, todo, holding, accts, failed, direct, lost>>

StartDeregister(t, pods) ==
    /\ Begin(t, "deregister", "readSet", pods)
    /\ UNCHANGED <<chainVars, seen, todo, holding, accts, failed, direct, lost>>

\* Only pods without the label are rotated; funding is asked for no account
\* (node_stash_accounts is never filled), so no account is funded.
StartRotate(t, pods) ==
    /\ Begin(t, "rotate", "gather", pods)
    /\ todo' = [todo EXCEPT ![t] = {p \in pods : Label[p] = NoAccount}]
    /\ UNCHANGED <<chainVars, seen, holding, accts, failed, direct, lost>>

\* register_validator_addresses: no set-up and no funding.
StartRegisterAddresses(t, as) ==
    /\ Begin(t, "registerAddr", "submit", {})
    /\ accts' = [accts EXCEPT ![t] = as]
    /\ direct' = direct \cup as
    /\ UNCHANGED <<chainVars, seen, todo, holding, failed, lost>>

StartDeregisterAddresses(t, as) ==
    /\ Begin(t, "deregisterAddr", "submit", {})
    /\ accts' = [accts EXCEPT ![t] = as]
    /\ UNCHANGED <<chainVars, seen, todo, holding, failed, direct, lost>>

-----------------------------------------------------------------------------
(* The steps of a task *)

\* The coroutine returns or raises: its locals are gone.
Finish(t, how) ==
    /\ pc' = [pc EXCEPT ![t] = how]
    /\ req' = [req EXCEPT ![t] = {}]
    /\ seen' = [seen EXCEPT ![t] = {}]
    /\ todo' = [todo EXCEPT ![t] = {}]
    /\ holding' = [holding EXCEPT ![t] = NoPod]
    /\ accts' = [accts EXCEPT ![t] = {}]
    /\ failed' = [failed EXCEPT ![t] = FALSE]
    /\ steady' = [steady EXCEPT ![t] = {}]

\* substrate_call answers False: another extrinsic of the account had the nonce,
\* or, with Faults, anything else.
Lost(t) == lost' = lost \cup {t}

\* MUTANT of ReadSet: the active validators are not looked at.
ReadSetEmpty(t) ==
    /\ pc[t] = "readSet"
    /\ pc' = [pc EXCEPT ![t] = "readAdd"]
    /\ UNCHANGED <<chainVars, op, localVars, history>>

ReadSet(t) ==
    /\ pc[t] = "readSet"
    /\ seen' = [seen EXCEPT ![t] = validators]
    /\ pc' = [pc EXCEPT ![t] = "readAdd"]
    /\ UNCHANGED <<chainVars, op, req, todo, holding, accts, failed, history>>

ReadAdd(t) ==
    /\ pc[t] = "readAdd"
    /\ seen' = [seen EXCEPT ![t] = @ \cup toAdd]
    /\ pc' = [pc EXCEPT ![t] = "readRetire"]
    /\ UNCHANGED <<chainVars, op, req, todo, holding, accts, failed, history>>

\* The third read, then the selection of the pods that are not registered;
\* the lists are not used again.
SelectToRegister(t) ==
    /\ pc[t] = "readRetire" /\ op[t] = "register"
    /\ seen' = [seen EXCEPT ![t] = {}]
    /\ todo' = [todo EXCEPT ![t] =
                   {p \in req[t] : ~RegisteredIn(seen[t] \cup toRetire, AccountOf(p))}]
    /\ pc' = [pc EXCEPT ![t] = "fund"]
    /\ UNCHANGED <<chainVars, op, req, holding, accts, failed, history>>

\* MUTANT of RegisteredAccounts: the derived stash is looked for, not the label.
RegisteredStashes(t) ==
    {a \in {Stash[p] : p \in req[t]} : RegisteredIn(seen[t] \cup toRetire, a)}

\* The third read, then the selection of the accounts that are registered.
RegisteredAccounts(t) ==
    {a \in {AccountOf(p) : p \in req[t]} : RegisteredIn(seen[t] \cup toRetire, a)}

SelectToDeregister(t) ==
    /\ pc[t] = "readRetire" /\ op[t] = "deregister"
    /\ RegisteredAccounts(t) # {}
    /\ accts' = [accts EXCEPT ![t] = RegisteredAccounts(t)]
    /\ seen' = [seen EXCEPT ![t] = {}]
    /\ pc' = [pc EXCEPT ![t] = "submit"]
    /\ UNCHANGED <<chainVars, op, req, todo, holding, failed, history>>

\* MUTANT of SkipDeregister: the task waits until an account is registered.
SkipDeregisterWaits(t) ==
    /\ pc[t] = "readRetire" /\ op[t] = "deregister"
    /\ RegisteredAccounts(t) = {}
    /\ UNCHANGED vars

\* Every pod is skipped: there is nothing to submit and the task ends.
SkipDeregister(t) ==
    /\ pc[t] = "readRetire" /\ op[t] = "deregister"
    /\ RegisteredAccounts(t) = {}
    /\ Finish(t, "done")
    /\ UNCHANGED <<chainVars, op, direct, lost>>

\* MUTANT of Fund: accounts are funded only after they are set up.
FundNothing(t) ==
    /\ pc[t] = "fund"
    /\ pc' = [pc EXCEPT ![t] = "gather"]
    /\ UNCHANGED <<chainVars, op, localVars, history>>

\* fund_accounts: one Utility.batch of transfers to the accounts with too little,
\* which stops at the first transfer that fails, or is lost; the outcome is
\* logged and otherwise ignored.
Fund(t) ==
    /\ pc[t] = "fund"
    /\ LET poor == {AccountOf(p) : p \in todo[t]} \ funded
       IN \/ funded' = funded \cup poor /\ UNCHANGED lost
          \/ /\ Lost(t)
             /\ \E paid \in IF Faults THEN SUBSET poor ELSE {{}} :
                   paid # poor /\ funded' = funded \cup paid
    /\ pc' = [pc EXCEPT ![t] = "gather"]
    /\ UNCHANGED <<validators, queued, toAdd, toRetire, nextKeys, keystore,
                   op, localVars, direct, steady>>

\* setup_validators_session_keys, first half: the node is ready and
\* author_rotateKeys returns the keys it has stored.  The set-up of one pod
\* holds the event loop until the keys are set.
RotateKeys(t, p) ==
    /\ pc[t] = "gather" /\ holding[t] = NoPod /\ p \in todo[t]
    /\ keystore' = [keystore EXCEPT ![p] = @ \cup {t}]
    /\ holding' = [holding EXCEPT ![t] = p]
    /\ UNCHANGED <<validators, queued, toAdd, toRetire, nextKeys, funded,
                   pc, op, req, seen, todo, accts, failed, history>>

\* The node is not ready, or the answer of author_rotateKeys is lost after
\* the node has stored the keys or before: '' or None is filtered out.
RotateFails(t, p) ==
    /\ Faults
    /\ pc[t] = "gather" /\ holding[t] = NoPod /\ p \in todo[t]
    /\ \E stored \in SUBSET {t} :
          keystore' = [keystore EXCEPT ![p] = @ \cup stored]
    /\ todo' = [todo EXCEPT ![t] = @ \ {p}]
    /\ UNCHANGED <<validators, queued, toAdd, toRetire, nextKeys, funded,
                   pc, op, req, seen, holding, accts, failed, history>>

SetUpEnds(t) ==
    /\ pc[t] = "gather" /\ holding[t] # NoPod
    /\ todo' = [todo EXCEPT ![t] = @ \ {holding[t]}]
    /\ holding' = [holding EXCEPT ![t] = NoPod]
    /\ UNCHANGED <<validators, queued, toAdd, toRetire, funded, keystore,
                   pc, op, req, seen, direct, steady>>

\* MUTANT of SetKeys: the keys are set for another pod of the same gather.
SetKeysOfAnotherPod(t) ==
    /\ SetUpEnds(t)
    /\ \E p \in todo[t] :
          /\ Stash[p] \in funded
          /\ nextKeys' = [nextKeys EXCEPT ![Stash[p]] = <<holding[t], t>>]
          /\ accts' = [accts EXCEPT ![t] = @ \cup {Stash[p]}]
    /\ UNCHANGED <<failed, lost>>

\* MUTANT of SetKeys: the keys are set for the account the label names.
SetKeysOfLabel(t) ==
    /\ SetUpEnds(t)
    /\ AccountOf(holding[t]) \in funded
    /\ nextKeys' = [nextKeys EXCEPT ![AccountOf(holding[t])] = <<holding[t], t>>]
    /\ accts' = [accts EXCEPT ![t] = @ \cup {AccountOf(holding[t])}]
    /\ UNCHANGED <<failed, lost>>

\* Session.set_keys, signed by the derived stash, is included and reported:
\* the pod's stash joins the accounts to register.
SetKeys(t) ==
    /\ SetUpEnds(t)
    /\ Stash[holding[t]] \in funded
    /\ nextKeys' = [nextKeys EXCEPT ![Stash[holding[t]]] = <<holding[t], t>>]
    /\ accts' = [accts EXCEPT ![t] = @ \cup {Stash[holding[t]]}]
    /\ UNCHANGED <<failed, lost>>

\* MUTANT of SetKeysRefused: an account whose keys were refused is kept.
SetKeysRefusedKept(t) ==
    /\ SetUpEnds(t)
    /\ Faults \/ Stash[holding[t]] \notin funded
    /\ accts' = [accts EXCEPT ![t] = @ \cup {Stash[holding[t]]}]
    /\ UNCHANGED <<nextKeys, failed, lost>>

\* MUTANT of SetKeysRefused: the failure marker '' is not filtered out.
SetKeysRefusedUnfiltered(t) ==
    /\ SetUpEnds(t)
    /\ Faults \/ Stash[holding[t]] \notin funded
    /\ accts' = [accts EXCEPT ![t] = @ \cup {NoAccount}]
    /\ UNCHANGED <<nextKeys, failed, lost>>

\* Another task is about to set keys with the same account, and the same nonce.
Rivalled(t) == \E u \in Task \ {t} : holding[u] = holding[t]

\* The stash cannot pay, or the call is lost: '' is filtered out.
SetKeysRefused(t) ==
    /\ SetUpEnds(t)
    /\ \/ Stash[holding[t]] \notin funded /\ UNCHANGED lost
       \/ (Faults \/ Rivalled(t)) /\ Lost(t)
    /\ UNCHANGED <<nextKeys, accts, failed>>

\* The extrinsic is included but waiting for its receipt fails, so
\* substrate_call answers False and the stash is not registered.
SetKeysUnreported(t) ==
    /\ Faults
    /\ SetUpEnds(t)
    /\ Stash[holding[t]] \in funded
    /\ nextKeys' = [nextKeys EXCEPT ![Stash[holding[t]]] = <<holding[t], t>>]
    /\ UNCHANGED <<accts, failed, lost>>

\* Composing or signing the call raises: gather hands the exception to the
\* task, but the set-ups it has already scheduled still run.
SetKeysRaises(t) ==
    /\ Faults
    /\ SetUpEnds(t)
    /\ failed' = [failed EXCEPT ![t] = TRUE]
    /\ UNCHANGED <<nextKeys, accts, lost>>

AllSetUp(t) == pc[t] = "gather" /\ todo[t] = {} /\ holding[t] = NoPod

GatherRaises(t) ==
    /\ AllSetUp(t) /\ failed[t]
    /\ Finish(t, "dead")
    /\ UNCHANGED <<chainVars, op, direct, lost>>

RotateDone(t) ==
    /\ AllSetUp(t) /\ ~failed[t] /\ op[t] = "rotate"
    /\ Finish(t, "done")
    /\ UNCHANGED <<chainVars, op, direct, lost>>

GatherDone(t) ==
    /\ AllSetUp(t) /\ ~failed[t] /\ op[t] = "register"
    /\ pc' = [pc EXCEPT ![t] = "submit"]
    /\ UNCHANGED <<chainVars, op, localVars, history>>

\* MUTANT of SubmitRegister: what was asked for is registered, not what was set up.
SubmitRegisterAsked(t) ==
    /\ pc[t] = "submit" /\ op[t] \in {"register", "registerAddr"}
    /\ toAdd' = toAdd \cup accts[t] \cup {AccountOf(p) : p \in req[t]}
    /\ Finish(t, "done")
    /\ UNCHANGED <<validators, queued, toRetire, nextKeys, funded, keystore, op, direct, lost>>

\* register_validators through sudo; its result is not looked at.
SubmitRegister(t) ==
    /\ pc[t] = "submit" /\ op[t] \in {"register", "registerAddr"}
    /\ \/ toAdd' = toAdd \cup accts[t] /\ UNCHANGED lost
       \/ Lost(t) /\ UNCHANGED toAdd
    /\ Finish(t, "done")
    /\ UNCHANGED <<validators, queued, toRetire, nextKeys, funded, keystore, op, direct>>

SubmitDeregister(t) ==
    /\ pc[t] = "submit" /\ op[t] \in {"deregister", "deregisterAddr"}
    /\ \/ toRetire' = toRetire \cup accts[t] /\ UNCHANGED lost
       \/ Lost(t) /\ UNCHANGED toRetire
    /\ Finish(t, "done")
    /\ UNCHANGED <<validators, queued, toAdd, nextKeys, funded, keystore, op, direct>>

\* A query answers None and the code that uses it raises, the connection is
\* gone, or the worker process is killed: nothing resumes the task.
TaskDies(t) ==
    /\ Faults
    /\ pc[t] \in Active
    /\ Finish(t, "dead")
    /\ UNCHANGED <<chainVars, op, direct, lost>>

-----------------------------------------------------------------------------
(* The chain (external) *)

\* The queued validators take over; the lists are drained into the new
\* queue, which keeps only accounts with session keys.  For an account that
\* is in both lists the code says nothing of the outcome.
SessionChange ==
    /\ validators' = queued
    /\ \E kept \in SUBSET (toAdd \cap toRetire) :
          queued' = (((queued \cup toAdd) \ toRetire) \cup kept) \cap Keyed
    /\ toAdd' = {} /\ toRetire' = {}
    /\ steady' = [t \in Task |-> steady[t] \cap queued]
    /\ UNCHANGED <<nextKeys, funded, keystore, pc, op, localVars, direct, lost>>

-----------------------------------------------------------------------------
Start(t) ==
    \/ \E pods \in SUBSET Pod :
          StartRegister(t, pods) \/ StartDeregister(t, pods) \/ StartRotate(t, pods)
    \/ \E as \in SUBSET Account :
          StartRegisterAddresses(t, as) \/ StartDeregisterAddresses(t, as)

TaskStep(t) ==
    \/ ReadSet(t) \/ ReadAdd(t) \/ SelectToRegister(t)
    \/ SelectToDeregister(t) \/ SkipDeregister(t)
    \/ Fund(t)
    \/ \E p \in Pod : RotateKeys(t, p) \/ RotateFails(t, p)
    \/ SetKeys(t) \/ SetKeysRefused(t) \/ SetKeysUnreported(t) \/ SetKeysRaises(t)
    \/ GatherRaises(t) \/ RotateDone(t) \/ GatherDone(t)
    \/ SubmitRegister(t) \/ SubmitDeregister(t)

Next ==
    \/ \E t \in Task : Start(t) \/ TaskStep(t) \/ TaskDies(t)
    \/ SessionChange

Spec == Init /\ [][Next]_vars

\* The event loop resumes every task whose call has returned, and the chain
\* keeps producing sessions.
FairSpec ==
    /\ Spec
    /\ \A t \in Task : WF_vars(TaskStep(t))
    /\ WF_vars(SessionChange)

-----------------------------------------------------------------------------
(* Properties *)

\* Every variable has its type.
TypeOK ==
    /\ validators \subseteq Account /\ queued \subseteq Account
    /\ toAdd \subseteq Account /\ toRetire \subseteq Account
    /\ nextKeys \in [Account -> Key \cup {NoKeys, OperatorKeys}]
    /\ funded \subseteq Account
    /\ keystore \in [Pod -> SUBSET Task]
    /\ pc \in [Task -> {"idle"} \cup Active \cup Over]
    /\ op \in [Task -> PodOps \cup AddrOps \cup {NoOp}]
    /\ req \in [Task -> SUBSET Pod] /\ todo \in [Task -> SUBSET Pod]
    /\ holding \in [Task -> Pod \cup {NoPod}]
    /\ seen \in [Task -> SUBSET Account] /\ accts \in [Task -> SUBSET Account]
    /\ failed \in [Task -> BOOLEAN]
    /\ direct \subseteq Account /\ steady \in [Task -> SUBSET Account]
    /\ lost \subseteq Task

\* An account the pod path puts on ValidatorsToAdd has session keys on chain:
\* nodes whose key set-up failed are filtered out before registration, however
\* the set-ups of several tasks and their partial failures interleave.
KeyedBeforeRegistered == toAdd \subseteq Keyed \cup direct

\* Whatever tasks rotated the same pod in whatever order, the keys on chain
\* for its stash are keys its own node holds.
OnChainKeysHeldByNode ==
    \A p \in Pod : nextKeys[Stash[p]] # NoKeys =>
        \E t \in keystore[p] : nextKeys[Stash[p]] = <<p, t>>

\* A registration never rotates the keys of a pod whose account has been an
\* active validator for as long as the registration has been running, although
\* the three lists are read one by one while sessions change.
NoRekeyOfSteadyValidator ==
    \A t \in Task : op[t] = "register" /\ holding[t] # NoPod
        => AccountOf(holding[t]) \notin steady[t]

\* A deregistration misses no account that has been an active validator for as
\* long as it has been running: when it ends its reads it submits every such
\* account it was asked for.
DeregistrationFindsSteady ==
    [][\A t \in Task :
          op[t] = "deregister" /\ pc[t] = "readRetire" /\ pc'[t] \in {"submit", "done"} =>
              \A p \in req[t] : AccountOf(p) \in steady[t] =>
                  pc'[t] = "submit" /\ AccountOf(p) \in accts'[t]]_vars

\* No step touches the session keys of an account that is not the derived
\* stash of a pod, such as an operator's account named by a label.
OperatorKeysUntouched ==
    [][\A a \in Account \ StashAccounts : nextKeys'[a] = nextKeys[a]]_vars

\* Without outside faults a pod that is asked to be registered, and whose account
\* is its stash, becomes a validator, unless one of the request's own calls is
\* lost to an extrinsic of another (which nobody is told), some task deregisters,
\* or the stash is also registered by address: then the pod may be found pending,
\* its set-up be skipped, and the chain drop the account at the session change
\* because it has no keys.  The losses of other requests do not stand in its way.
RegisteredBecomesValidator ==
    \A p \in Pod, t \in Task :
        op[t] = "register" /\ p \in req[t] /\ Label[p] = NoAccount
            ~> \/ Stash[p] \in validators \cup direct \/ t \in lost
               \/ \E u \in Task : op[u] \in {"deregister", "deregisterAddr"}

-----------------------------------------------------------------------------
(* What the endpoints promise, in terms of what is promised (INSTANCE): the *)
(* accounts of a task, the kind of keys an account has.                     *)

Named(t) ==
    IF op[t] \in {"register", "rotate"} THEN {Stash[p] : p \in req[t]}
    ELSE IF op[t] = "deregister" THEN {AccountOf(p) : p \in req[t]}
    ELSE accts[t]
HeldByNode(a) == \E p \in Pod : \E t \in keystore[p] : Stash[p] = a /\ nextKeys[a] = <<p, t>>
KindOfKeys(a) ==
    IF nextKeys[a] = NoKeys THEN "none"
    ELSE IF nextKeys[a] = OperatorKeys THEN "operator"
    ELSE IF HeldByNode(a) THEN "node" ELSE "lost"
Status(t) == IF pc[t] = "idle" THEN "idle" ELSE IF pc[t] \in Over THEN "over" ELSE op[t]

Promise == INSTANCE ValidatorRegistration WITH
    Request <- Task, inOffice <- validators, next <- queued,
    adding <- toAdd, retiring <- toRetire,
    keys <- [a \in Account |-> KindOfKeys(a)],
    request <- [t \in Task |-> Status(t)],
    named <- [t \in Task |-> Named(t)]

\* Tasks, whatever they interleave with and wherever they fail, do to the chain
\* no more than the requests they serve may do: they key and put up only
\* accounts they were asked for, with keys their nodes hold.
ImplementsPromise == Promise!Spec

\* Without faults they also end.
ImplementsFairPromise == Promise!FairSpec

\* rotate_nodes_session_keys logs that it makes sure the stash accounts are
\* properly funded (network_utils.py:431): once it has made a node rotate its
\* keys, the node's stash can pay for the extrinsic that is to set them.
RotationFundsStashes ==
    \A t \in Task : op[t] = "rotate" /\ holding[t] # NoPod => Stash[holding[t]] \in funded
=============================================================================
