--------------------------- MODULE PosValidators ---------------------------
(***************************************************************************)
(* Validator registration and deregistration on a proof-of-stake relay     *)
(* chain: register_validator_pods and deregister_validator_pods with       *)
(* setup_pos_validator and staking_chill (app/lib/network_utils.py,        *)
(* app/lib/validator_manager.py).                                          *)
(*                                                                         *)
(* There is no list of pending validators: what is pending is computed     *)
(* from the active and the staking validators, which are read five times   *)
(* in all before a pod is judged registered.  As in PoaValidators, one     *)
(* action is one remote call of a background task.  The session and        *)
(* staking pallets are external.                                           *)
(***************************************************************************)
EXTENDS Naturals, FiniteSets

CONSTANTS
    Task, Pod, Account,
    Stash,          \* [Pod -> Account]: the account derived from the pod's name
    Label,          \* [Pod -> Account \cup {NoAccount}]: label validatorAccount
    Genesis,        \* the chain specification's validators
    NoAccount, NoPod, NoKeys, OperatorKeys, NoOp,
    Mute,           \* pods whose node may answer author_rotateKeys with nothing
    Faults          \* TRUE: other calls may fail and workers be killed

StashAccounts == {Stash[p] : p \in Pod}
Key == Pod \X Task     \* the session keys that task k made pod p generate
Call == {"bond", "set_keys", "validate"}

ASSUME StashAssumption ==
    /\ Stash \in [Pod -> Account]
    /\ \A p, q \in Pod : Stash[p] = Stash[q] => p = q
ASSUME LabelAssumption == Label \in [Pod -> Account \cup {NoAccount}]
ASSUME GenesisAssumption == Genesis \subseteq Account \ StashAccounts
ASSUME MuteAssumption == Mute \subseteq Pod
ASSUME SentinelAssumption ==
    /\ NoAccount \notin Account /\ NoPod \notin Pod /\ NoKeys \notin Key
    /\ OperatorKeys \notin Key /\ NoKeys # OperatorKeys
    /\ Faults \in BOOLEAN

VARIABLES
    \* the chain
    validators,  \* Session.Validators
    queued,      \* accounts of Session.QueuedKeys
    staking,     \* keys of Staking.Validators: candidates of the next election
    bonded,      \* keys of Staking.Bonded
    nextKeys,    \* Session.NextKeys
    funded,      \* accounts that can pay and bond
    keystore,    \* session keys each node holds
    \* the tasks
    pc, op, req,
    active,      \* Session.Validators as read for the next set difference
    seen,        \* accounts judged registered by the reads so far
    todo,        \* pods still to be set up, or to be chilled
    holding,     \* pod being set up
    calls,       \* the calls of the batch for that pod
    lost         \* history: tasks whose funding was lost, as a rule to another's nonce

chainVars == <<validators, queued, staking, bonded, nextKeys, funded, keystore>>
vars == <<chainVars, pc, op, req, active, seen, todo, holding, calls, lost>>

Reads == {"readSet", "readActive1", "readStaking1", "readActive2", "readStaking2"}
Active == Reads \cup {"fund", "setUp", "queryBonded", "submit", "chill"}

Keyed == {a \in Account : nextKeys[a] # NoKeys}
\* get_validator_account_from_pod: the account that is looked up and funded;
\* the extrinsics are signed by the derived stash all the same.
AccountOf(p) == IF Label[p] = NoAccount THEN Stash[p] ELSE Label[p]

Init ==
    /\ validators = Genesis /\ queued = Genesis /\ staking = Genesis
    /\ bonded = Genesis
    /\ nextKeys = [a \in Account |-> IF a \in Genesis THEN OperatorKeys ELSE NoKeys]
    /\ funded \in {Genesis \cup s : s \in SUBSET StashAccounts}
    /\ keystore = [p \in Pod |-> {}]
    /\ pc = [t \in Task |-> "idle"] /\ op = [t \in Task |-> NoOp]
    /\ req = [t \in Task |-> {}] /\ active = [t \in Task |-> {}]
    /\ seen = [t \in Task |-> {}] /\ todo = [t \in Task |-> {}]
    /\ holding = [t \in Task |-> NoPod] /\ calls = [t \in Task |-> {}]
    /\ lost = {}

-----------------------------------------------------------------------------
Start(t, o, pods) ==
    /\ pc[t] = "idle" /\ o \in {"register", "deregister"}
    /\ pc' = [pc EXCEPT ![t] = "readSet"]
    /\ op' = [op EXCEPT ![t] = o]
    /\ req' = [req EXCEPT ![t] = pods]
    /\ UNCHANGED <<chainVars, active, seen, todo, holding, calls, lost>>

\* The coroutine returns or raises: its locals are gone.
Finish(t, how) ==
    /\ pc' = [pc EXCEPT ![t] = how]
    /\ req' = [req EXCEPT ![t] = {}]
    /\ active' = [active EXCEPT ![t] = {}]
    /\ seen' = [seen EXCEPT ![t] = {}]
    /\ todo' = [todo EXCEPT ![t] = {}]
    /\ holding' = [holding EXCEPT ![t] = NoPod]
    /\ calls' = [calls EXCEPT ![t] = {}]

\* get_validator_set
ReadSet(t) ==
    /\ pc[t] = "readSet"
    /\ seen' = [seen EXCEPT ![t] = validators]
    /\ pc' = [pc EXCEPT ![t] = "readActive1"]
    /\ UNCHANGED <<chainVars, op, req, active, todo, holding, calls, lost>>

\* The first read of get_validators_pending_addition and of
\* get_validators_pending_deletion.
ReadActive(t, here, then) ==
    /\ pc[t] = here
    /\ active' = [active EXCEPT ![t] = validators]
    /\ pc' = [pc EXCEPT ![t] = then]
    /\ UNCHANGED <<chainVars, op, req, seen, todo, holding, calls, lost>>

\* Pending addition: in staking but not active a read ago.
ReadPendingAddition(t) ==
    /\ pc[t] = "readStaking1"
    /\ seen' = [seen EXCEPT ![t] = @ \cup (staking \ active[t])]
    /\ active' = [active EXCEPT ![t] = {}]
    /\ pc' = [pc EXCEPT ![t] = "readActive2"]
    /\ UNCHANGED <<chainVars, op, req, todo, holding, calls, lost>>

\* Pending deletion: active a read ago but not in staking.  The pods that are
\* not (or, to deregister, that are) in any of the three sets are selected.
Registered(t) == seen[t] \cup (active[t] \ staking)

\* The lists are not used after the selection.
ForgetReads(t) ==
    /\ active' = [active EXCEPT ![t] = {}]
    /\ seen' = [seen EXCEPT ![t] = {}]

SelectToRegister(t) ==
    /\ pc[t] = "readStaking2" /\ op[t] = "register"
    /\ todo' = [todo EXCEPT ![t] = {p \in req[t] : AccountOf(p) \notin Registered(t)}]
    /\ pc' = [pc EXCEPT ![t] = "fund"]
    /\ ForgetReads(t)
    /\ UNCHANGED <<chainVars, op, req, holding, calls, lost>>

\* MUTANT of SelectToDeregister: the task waits until an account is registered.
SelectToDeregisterWaits(t) ==
    /\ pc[t] = "readStaking2" /\ op[t] = "deregister"
    /\ todo' = [todo EXCEPT ![t] = {p \in req[t] : AccountOf(p) \in Registered(t)}]
    /\ todo'[t] # {}
    /\ pc' = [pc EXCEPT ![t] = "chill"]
    /\ ForgetReads(t)
    /\ UNCHANGED <<chainVars, op, req, holding, calls, lost>>

SelectToDeregister(t) ==
    /\ pc[t] = "readStaking2" /\ op[t] = "deregister"
    /\ todo' = [todo EXCEPT ![t] = {p \in req[t] : AccountOf(p) \in Registered(t)}]
    /\ pc' = [pc EXCEPT ![t] = "chill"]
    /\ ForgetReads(t)
    /\ UNCHANGED <<chainVars, op, req, holding, calls, lost>>

\* MUTANT of Fund: the stashes are not funded before they sign.
FundNothing(t) ==
    /\ pc[t] = "fund"
    /\ pc' = [pc EXCEPT ![t] = "setUp"]
    /\ UNCHANGED <<chainVars, op, req, active, seen, todo, holding, calls, lost>>

\* fund_accounts: a batch of transfers that stops at the first failure, or is
\* lost: any other process may have used the nonce of the sudo account.
Fund(t) ==
    /\ pc[t] = "fund"
    /\ LET poor == {AccountOf(p) : p \in todo[t]} \ funded
       IN \/ funded' = funded \cup poor /\ UNCHANGED lost
          \/ /\ lost' = lost \cup {t}
             /\ \E paid \in IF Faults THEN SUBSET poor ELSE {{}} :
                   paid # poor /\ funded' = funded \cup paid
    /\ pc' = [pc EXCEPT ![t] = "setUp"]
    /\ UNCHANGED <<validators, queued, staking, bonded, nextKeys, keystore,
                   op, req, active, seen, todo, holding, calls>>

\* MUTANT of RotateKeys: the keys of one node are set for another.
RotateKeysMixedUp(t, p) ==
    /\ pc[t] = "setUp" /\ p \in todo[t]
    /\ keystore' = [keystore EXCEPT ![p] = @ \cup {t}]
    /\ \E q \in todo[t] : holding' = [holding EXCEPT ![t] = q]
    /\ calls' = [calls EXCEPT ![t] = {"set_keys", "validate"}]
    /\ pc' = [pc EXCEPT ![t] = "queryBonded"]
    /\ UNCHANGED <<validators, queued, staking, bonded, nextKeys, funded,
                   op, req, active, seen, todo, lost>>

\* rotate_node_session_keys, without a readiness check; with keys in hand the
\* batch will set them.
RotateKeys(t, p) ==
    /\ pc[t] = "setUp" /\ p \in todo[t]
    /\ keystore' = [keystore EXCEPT ![p] = @ \cup {t}]
    /\ holding' = [holding EXCEPT ![t] = p]
    /\ calls' = [calls EXCEPT ![t] = {"set_keys", "validate"}]
    /\ pc' = [pc EXCEPT ![t] = "queryBonded"]
    /\ UNCHANGED <<validators, queued, staking, bonded, nextKeys, funded,
                   op, req, active, seen, todo, lost>>

\* The rotation answers '': the batch has no set_keys, and goes on.
RotateAnswersNothing(t, p) ==
    /\ pc[t] = "setUp" /\ p \in todo[t] \cap Mute
    /\ holding' = [holding EXCEPT ![t] = p]
    /\ calls' = [calls EXCEPT ![t] = {"validate"}]
    /\ pc' = [pc EXCEPT ![t] = "queryBonded"]
    /\ UNCHANGED <<chainVars, op, req, active, seen, todo, lost>>

\* MUTANT of QueryBonded: the test is inverted.
QueryBondedInverted(t) ==
    /\ pc[t] = "queryBonded"
    /\ calls' = [calls EXCEPT ![t] =
                    IF Stash[holding[t]] \notin bonded THEN @ ELSE @ \cup {"bond"}]
    /\ pc' = [pc EXCEPT ![t] = "submit"]
    /\ UNCHANGED <<chainVars, op, req, active, seen, todo, holding, lost>>

\* MUTANT of QueryBonded: the controller is set as well.
QueryBondedController(t) ==
    /\ pc[t] = "queryBonded"
    /\ calls' = [calls EXCEPT ![t] = @ \cup {"bond", "set_controller"}]
    /\ pc' = [pc EXCEPT ![t] = "submit"]
    /\ UNCHANGED <<chainVars, op, req, active, seen, todo, holding, lost>>

QueryBonded(t) ==
    /\ pc[t] = "queryBonded"
    /\ calls' = [calls EXCEPT ![t] =
                    IF Stash[holding[t]] \in bonded THEN @ ELSE @ \cup {"bond"}]
    /\ pc' = [pc EXCEPT ![t] = "submit"]
    /\ UNCHANGED <<chainVars, op, req, active, seen, todo, holding, lost>>

\* MUTANT of Precedes: validate is put in the batch before set_keys.
PrecedesSwapped(c, d) ==
    <<c, d>> \in {<<"bond", "set_keys">>, <<"bond", "validate">>, <<"validate", "set_keys">>}

\* Utility.batch runs its calls in order and stops at the first that fails,
\* keeping the effect of the ones before.
Precedes(c, d) ==
    <<c, d>> \in {<<"bond", "set_keys">>, <<"bond", "validate">>, <<"set_keys", "validate">>}

Prefixes(batch) ==
    {done \in SUBSET batch : \A c \in batch, d \in done : Precedes(c, d) => c \in done}

\* A stash that cannot pay runs nothing, one bonded meanwhile cannot bond.
Runnable(t) ==
    {done \in Prefixes(calls[t]) :
        /\ done # {} => Stash[holding[t]] \in funded
        /\ "bond" \in done => Stash[holding[t]] \notin bonded}

\* Another task is about to sign with the account of p, and with the same nonce:
\* one of the two extrinsics is refused.
Rivalled(t, p) ==
    \E u \in Task \ {t} :
        (pc[u] = "submit" /\ holding[u] = p) \/ (pc[u] = "chill" /\ p \in todo[u])

SubmitBatch(t) ==
    /\ pc[t] = "submit"
    /\ \E done \in Runnable(t) :
          /\ \/ Faults \/ \A more \in Runnable(t) : more \subseteq done
             \/ Rivalled(t, holding[t]) /\ done = {}
          /\ LET a == Stash[holding[t]]
                 ran(c) == c \in done
             IN /\ bonded' = IF ran("bond") THEN bonded \cup {a} ELSE bonded
                /\ nextKeys' = IF ran("set_keys")
                               THEN [nextKeys EXCEPT ![a] = <<holding[t], t>>]
                               ELSE nextKeys
                /\ staking' = IF ran("validate") THEN staking \cup {a} ELSE staking
    /\ todo' = [todo EXCEPT ![t] = @ \ {holding[t]}]
    /\ holding' = [holding EXCEPT ![t] = NoPod]
    /\ calls' = [calls EXCEPT ![t] = {}]
    /\ pc' = [pc EXCEPT ![t] = "setUp"]
    /\ UNCHANGED <<validators, queued, funded, keystore, op, req, active, seen, lost>>

\* staking_chill, signed by the derived stash; its result is not looked at.
Chill(t, p) ==
    /\ pc[t] = "chill" /\ p \in todo[t]
    /\ todo' = [todo EXCEPT ![t] = @ \ {p}]
    /\ \/ staking' = staking \ {Stash[p]}
       \/ (Faults \/ Rivalled(t, p)) /\ UNCHANGED staking
    /\ UNCHANGED <<validators, queued, bonded, nextKeys, funded, keystore,
                   pc, op, req, active, seen, holding, calls, lost>>

TaskDone(t) ==
    /\ pc[t] \in {"setUp", "chill"} /\ todo[t] = {}
    /\ Finish(t, "done")
    /\ UNCHANGED <<chainVars, op, lost>>

\* A query answers None, composing a call raises, or the worker is killed.
TaskDies(t) ==
    /\ Faults
    /\ pc[t] \in Active
    /\ Finish(t, "dead")
    /\ UNCHANGED <<chainVars, op, lost>>

\* (external) The queued validators take over, and the next queue is the same
\* again or newly elected from the candidates that have session keys.
SessionChange ==
    /\ validators' = queued
    /\ queued' \in {queued} \cup SUBSET (staking \cap Keyed)
    /\ UNCHANGED <<staking, bonded, nextKeys, funded, keystore,
                   pc, op, req, active, seen, todo, holding, calls, lost>>

-----------------------------------------------------------------------------
TaskStep(t) ==
    \/ ReadSet(t)
    \/ ReadActive(t, "readActive1", "readStaking1")
    \/ ReadPendingAddition(t)
    \/ ReadActive(t, "readActive2", "readStaking2")
    \/ SelectToRegister(t) \/ SelectToDeregister(t)
    \/ Fund(t)
    \/ \E p \in Pod : RotateKeys(t, p) \/ RotateAnswersNothing(t, p) \/ Chill(t, p)
    \/ QueryBonded(t) \/ SubmitBatch(t) \/ TaskDone(t)

Next ==
    \/ \E t \in Task :
          \/ \E o \in {"register", "deregister"}, pods \in SUBSET Pod : Start(t, o, pods)
          \/ TaskStep(t) \/ TaskDies(t)
    \/ SessionChange

Spec == Init /\ [][Next]_vars

FairSpec == Spec /\ \A t \in Task : WF_vars(TaskStep(t))

-----------------------------------------------------------------------------
(* Properties *)

\* Every variable has its type.
TypeOK ==
    /\ validators \subseteq Account /\ queued \subseteq Account
    /\ staking \subseteq Account /\ bonded \subseteq Account
    /\ nextKeys \in [Account -> Key \cup {NoKeys, OperatorKeys}]
    /\ funded \subseteq Account
    /\ keystore \in [Pod -> SUBSET Task]
    /\ pc \in [Task -> {"idle", "done", "dead"} \cup Active]
    /\ op \in [Task -> {"register", "deregister", NoOp}]
    /\ req \in [Task -> SUBSET Pod] /\ todo \in [Task -> SUBSET Pod]
    /\ active \in [Task -> SUBSET Account] /\ seen \in [Task -> SUBSET Account]
    /\ holding \in [Task -> Pod \cup {NoPod}]
    /\ calls \in [Task -> SUBSET Call]
    /\ lost \subseteq Task

\* A candidate validator has its session keys set, as the comment at
\* validator_manager.py:83-84 assumes of a registration without new keys,
\* however far each batch ran and whichever tasks raced. A node that answers
\* its rotation with nothing leaves only its own stash without keys.
StakingValidatorsKeyed == staking \ {Stash[p] : p \in Mute} \subseteq Keyed

\* Only bonded accounts are candidates, whatever a batch was cut to.
StakingValidatorsBonded == staking \subseteq bonded

\* The keys on chain for a pod's stash are keys its own node holds.
OnChainKeysHeldByNode ==
    \A p \in Pod : nextKeys[Stash[p]] # NoKeys =>
        \E t \in keystore[p] : nextKeys[Stash[p]] = <<p, t>>

\* Without outside faults a pod that is asked to be registered, and whose account
\* is its stash, becomes a candidate, also when two tasks see it unbonded, or sign
\* for it with one nonce, and a batch is cut short or refused; unless the request's
\* funding is lost to an extrinsic of another, or some task deregisters.
RegisteredBecomesCandidate ==
    \A p \in Pod, t \in Task :
        op[t] = "register" /\ p \in req[t] /\ Label[p] = NoAccount
            ~> \/ Stash[p] \in staking \/ t \in lost
               \/ \E u \in Task : op[u] = "deregister"

-----------------------------------------------------------------------------
(* What the endpoints promise (INSTANCE): pods as the stashes that sign for *)
(* them, keys by kind, tasks as the requests they serve.                    *)

StashesOf(pods) == {Stash[p] : p \in pods}
HeldByNode(a) == \E p \in Pod : Stash[p] = a /\ nextKeys[a] \in {p} \X keystore[p]
KindOfKeys(a) ==
    IF nextKeys[a] = NoKeys THEN "none"
    ELSE IF nextKeys[a] = OperatorKeys THEN "operator"
    ELSE IF HeldByNode(a) THEN "node" ELSE "lost"
Status(t) == IF pc[t] = "idle" THEN "idle" ELSE IF pc[t] \in Active THEN op[t] ELSE "over"

Promise == INSTANCE StakingRegistration WITH
    Request <- Task, Silent <- StashesOf(Mute),
    inOffice <- validators, next <- queued, candidates <- staking,
    keys <- [a \in Account |-> KindOfKeys(a)],
    request <- [t \in Task |-> Status(t)],
    named <- [t \in Task |-> StashesOf(req[t])]

\* Wherever batches stop and whatever tasks race, an account that no request
\* named is left alone, and so are an operator's keys; what is done for a named
\* one is done in the right order, with keys its own node holds.
ImplementsPromise == Promise!Spec

\* Without faults every request is over in the end.
ImplementsFairPromise == Promise!FairSpec
=============================================================================
