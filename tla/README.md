# testnet-manager: specification and proofs

testnet-manager runs next to a test network of Substrate nodes in Kubernetes. Over
HTTP, and from a cron scheduler, it registers validators and collators, rotates session
keys, onboards and offboards parachains and upgrades their runtimes. It keeps no
database: its state is the local variables of the tasks that are under way, one map
in the scheduler's memory, and above all the chain and the nodes' keystores, which it
reads with RPC calls and changes with extrinsics. What can go wrong is therefore
mostly what happens *between* two remote calls.

This directory holds TLA+ modules that model the program's own logic, TLC
configurations for small instances, and proofs for TLAPS. `PROJECT.json` maps each
definition to source lines, and lists components, runs, mutants, hazards, findings and
theorems.

Contents: [Execution model](#execution-model) · [Inventory](#inventory) ·
[Modules](#modules) · [Runs](#runs) · [Fairness](#fairness) · [Proofs](#proofs) ·
[Where code and documentation disagree](#where-code-and-documentation-disagree) ·
[Behaviour the properties leave out](#behaviour-the-properties-leave-out) ·
[Not modelled](#not-modelled) · [Plan](#plan)

## Execution model

All modules share one reading of how the program is executed.

- Almost every endpoint in `app/routers/apis.py` answers `OK` at once and leaves the work
  to `asyncio.create_task`. Nobody awaits the task, so its return value and its
  exceptions are lost.
- `SubstrateInterface` is synchronous. A coroutine therefore keeps the event loop of its
  process through a remote call and gives it away only where it really awaits
  (`asyncio.gather`, `asyncio.sleep`, a sub-task).
- The API is served by several worker processes, and the scheduler is a process of its
  own. Two tasks of different processes interleave between *any* two remote calls; the
  chain may change session, and deliver XCM messages, between any two as well.
- Hence the granularity: **one action is one remote call together with the local
  computation that follows it, up to the next call.** Where a module speaks of several
  tasks they are to be thought of as in different processes, which includes the fewer
  interleavings of one process. `CronRotation` alone is about one process and models its event loop.
- Extrinsics that processes sign with one account share its nonce, which the client reads from the
  chain's *state*. No fault is needed for two of them to collide, and the caller that loses is told `False` at most.
  `RelayCalls` and `MoonCollators` are about this. In `PoaValidators` and `PosValidators` a call may be lost in this way
  with `Faults = FALSE` too: always if the sudo account signs it, as any other request may use that account at the moment, and if
  another task is about to sign with the same stash. In the remaining modules a collision is one of the ways in which a call fails.
- With `Faults = TRUE` a call may fail before or after it has had its effect, a node may
  be unready, a batch may stop early and a process may be killed. What the code does with each
  failure (raise, log and go on, filter out) is read from the code at that call.

The chain's pallets and the XCM transport are not part of the repository. They are
modelled as actions or operators by what the code here relies on, and marked
`external` in the map.

## Inventory

For each component: the state it keeps, its operations, what it interacts with, what is
hard about it, and what makes it correct.

### Validators of a proof-of-authority relay chain

`app/lib/network_utils.py` (register/deregister/rotate), `session_keys.py`,
`validator_manager.py`, `balance_utils.py`; endpoints in `routers/apis.py`.

- *State*: task locals (the pods asked for, accounts already registered, accounts to submit).
  Outside: `Session.Validators`, `QueuedKeys`, `NextKeys`, the two lists of the
  validator-manager pallet, balances, node keystores.
- *Operations*: register and deregister pods, nodes, stateful sets or addresses; rotate
  session keys of pods.
- *Hard*: three lists are read at three moments and acted upon later; key set-ups of one
  `gather` fail independently; two tasks rotate one node and submit in the other order;
  the account that is looked up (label) is not the one that signs (derived).
- *Correct means*: only accounts with keys are put up; on-chain keys are held by the node;
  a validator in office is not rotated by a registration; operators' accounts are left
  alone; a pod asked for becomes a validator.

### Validators of a proof-of-stake relay chain

Same entry points, with `setup_pos_validator` and `staking_chill`.

- *State*: as above with `Staking.Validators` and `Staking.Bonded` for the pending lists.
- *Operations*: register (a batch of bond, set_keys, validate), deregister (chill).
- *Hard*: pending sets are differences of lists read at different moments, five reads in all; a
  `Utility.batch` stops in the middle and keeps what ran; two set-ups see the same stash unbonded.
- *Correct means*: a candidate is bonded and has keys its node holds; a pod asked for
  becomes a candidate.

### Scheduled session-key rotation

`find_rotate_session_keys` in `app/lib/cron_tasks.py`, `task-scheduler.py`, `tasks/apis.py`.

- *State*: `next_session_keys_rotations`, a map in the memory of one process.
- *Operations*: a pass over the stateful sets; manual execution; restart.
- *Hard*: the map is read, a rotation awaited, and the entry removed; restarts forget it.
- *Correct means*: rotations are spaced by the label's interval; a due stateful set is rotated, although `pop`
  may not find its entry.

### Invulnerable collators

`collator_manager.py`, `network_utils.py:628-`, `substrate.py` (XCM wrapping).

- *State*: task locals; outside, `CollatorSelection.Invulnerables` and messages under way.
- *Operations*: add/remove one (current endpoints), add/remove many (deprecated endpoints).
- *Hard*: the deprecated endpoints read, change and write back a list, over an
  asynchronous channel, so concurrent requests lose updates.
- *Correct means*: a request changes what it names, at one instant.

### Parachain onboarding and offboarding

`parachain_manager.py`, `network_utils.py:449-560`, `kubernetes_client.py`, `cron_tasks.py:100-`.

- *State*: task locals; outside, para lifecycles, leases, queued actions.
- *Operations*: onboard, offboard (HTTP); onboard what is inactive (cron).
- *Hard*: `list_parachains` combines three reads; ids are strings or integers; `0` stands
  both for a missing label and for no filter; batches stop in the middle.
- *Correct means*: a para gets the genesis of its own node; nothing is offboarded that
  nobody named; a lease comes with an onboarding; what is asked for is onboarded.

### Parachain runtime upgrade

`parachain_runtime_upgrade` in `parachain_manager.py`.

- *State*: request locals; outside, the authorised code hash, the runtime, XCM messages.
- *Operations*: authorise over XCM, poll, apply.
- *Hard*: the poll stops at anybody's authorisation; a request times out while its own is
  still under way; several workers serve upgrades at once.
- *Correct means*: `OK` means the code was installed; a lone request is not rejected;
  every request is answered.

### Collators with pallet CollatorSelection

`collator_mint.py`, `collator_manager.py`, `node_utils.py`, `network_utils.py:568-720`.

- *State*: task locals; outside, candidates, desired number, keys, balances, keystores.
- *Operations*: register, deregister, set keys on chain.
- *Hard*: a number computed from an old list travels by XCM and is used unawaited; two
  operations set different keys for one node; every call may end the node half-way.
- *Correct means*: a candidate's keys are its node's; a registration has room to join.

### Collators of moonbeam and tick chains

`collator_moonbeam.py`, `collator_tick.py`, and the dispatch on the label `chain` in `collator_manager.py`.

- *State*: task locals; outside, `CandidatePool`, `AuthorMapping`, balances, nonces, the
  transaction pool, keystores.
- *Operations*: register (join and associate). Deregistration is not implemented; on tick chains registration
  raises before it calls the node; other chains get an error in the log.
- *Hard*: two extrinsics in a row are neither awaited nor given different nonces; the number of
  candidates named by the first is read earlier and is stale as soon as another join is included.
- *Correct means*: associated keys are held by the node; a request that nothing disturbs gets
  its nodes further, and repeating it does not associate twice.

### Calls on the relay chain: configuration, upgrade, transfers, teleports, nominators, the scheduler's pass

`substrate.py`, `config/ws_pool.py`, `runtime_utils.py`, `balance_utils.py`, `staking_utils.py`,
`cron_tasks.py:83-98`; the endpoints of `routers/apis.py` for them.

- *State*: one pooled client per url and process; the locals of a job.
- *Operations*: one extrinsic after another with the sudo seed's account (directly, through sudo, or
  through a proxy of the sudo key's owner), or with accounts the job has just funded.
- *Hard*: processes share the account's nonce; a pooled client may have been broken for a
  while, or have fallen silent, which no ping tells; a call that answers `False` may still get into a block; waiting for one has
  no timeout, though the node may drop the extrinsic or take another in its place; composing a call may raise half-way through a list; the sudo key may change between its look-up and
  the block; a receipt does not tell what became of the wrapped call; the pass ends with the first exception.
- *Correct means*: no later configuration key is set when an earlier one is not; `OK` means included; a job
  that nothing disturbs fails only for a reason and does not wait for what is gone; each stateful set is registered in the end.

### The other components

| component | code | state | remark |
|---|---|---|---|
| Listings | `network_utils.py`, `kubernetes_client.py` | none | reads; `list_parachains` and the pod selectors are modelled where they decide something |
| Node health and key queries | `node_utils.py` | none | readiness is an outcome of a set-up; key injection and look-up are modelled in `MintCollators` |
| Views, logging, settings, scripts | | none | not modelled |

## Modules

| module | models | extends / instantiates |
|---|---|---|
| `ValidatorRegistration` | **abstract**: what the validator endpoints promise | |
| `PoaValidators` | proof-of-authority validators | instantiates `ValidatorRegistration` |
| `PoaValidatorsProofs` | its theorems, and the refinement | `PoaValidators`, `FiniteSetTheorems`, `TLAPS` |
| `StakingRegistration` | **abstract**: the same promise of a proof-of-stake chain | |
| `PosValidators` | proof-of-stake validators | instantiates `StakingRegistration` |
| `PosValidatorsProofs` | its theorems, and the refinement | `PosValidators`, `FiniteSetTheorems`, `TLAPS` |
| `CronRotation` | scheduled key rotation | |
| `CronRotationProofs` | its theorems | `CronRotation`, `TLAPS` |
| `InvulnerableSet` | **abstract**: what the invulnerables endpoints promise | |
| `Invulnerables` | the endpoints | instantiates `InvulnerableSet` |
| `InvulnerablesProofs` | its theorems, and the refinement | `Invulnerables`, `TLAPS` |
| `UpgradeRequests` | **abstract**: what runtime upgrades promise | |
| `ParachainUpgrade` | runtime upgrade | instantiates `UpgradeRequests` |
| `ParachainUpgradeProofs` | its theorems, and the refinement | `ParachainUpgrade`, `FiniteSetTheorems`, `TLAPS` |
| `MintCollators` | collators with pallet CollatorSelection | |
| `MoonCollators` | moonbeam collators | |
| `Collators` | the collators of one parachain, whatever its kind | extends `MintCollators`, instantiates `MoonCollators` |
| `CollatorsProofs` | theorems about both parts and the composition | `Collators`, `FiniteSetTheorems`, `SequenceTheorems`, `TLAPS` |
| `ParaRequests` | **abstract**: what onboarding and offboarding promise | |
| `ParaLifecycle` | onboarding and offboarding | instantiates `ParaRequests` |
| `ParaLifecycleProofs` | its theorems, and the refinement | `ParaLifecycle`, `FiniteSetTheorems`, `TLAPS` |
| `CallLists` | **abstract**: what a request to the relay chain promises | |
| `RelayCalls` | calls on the relay chain | instantiates `CallLists` |
| `RelayCallsProofs` | its theorems, and the refinement | `RelayCalls`, `TLAPS` |
| `MC*` | constants, and symmetry sets, for TLC | the module they are named after |

Operators with a comment that begins `MUTANT of` are plausible bugs in the operator they name;
no specification uses them. They show that each property can tell right code from wrong.

### How modules correspond to the code

**`PoaValidators`.** `Start...` are the endpoints and the pod listing. `ReadSet`, `ReadAdd`,
`ReadRetire` (the last is part of `SelectToRegister`, `SelectToDeregister` and
`SkipDeregister`) are `get_validator_set`, `get_validators_pending_addition` and
`get_validators_pending_deletion`. `Fund` is `fund_accounts`, a batch whose outcome is
only logged. The history variable `lost` has the tasks one of whose own calls was lost, to a fault or to an extrinsic with
the same nonce (`Lost`, and `Rivalled` for a stash that two tasks sign for): the code does not look at it, `RegisteredBecomesValidator` does. The `gather` is a set of pods `todo` from which any next pod is taken:
`RotateKeys` calls `author_rotateKeys`, and `SetKeys...` are the outcomes of `Session.set_keys`, one
per way the code tells them apart. A key is named by `<<pod, task>>`. `Submit...` is the sudo
extrinsic. The accounts of a task are a set: the code's lists hold each account once, and
their order has no effect on the chain. `SessionChange` is the pallets.

**`ValidatorRegistration`.** The promise, in terms of accounts only: what requests may do to keys, to the
two lists and to the sets of validators. `PoaValidators` maps to it a key to its kind (`KindOfKeys`: none, a
key that a node of the account holds, an operator's key, or `"lost"` for anything else, which the abstract
module never makes), a task to the request it serves (`Status`), and its pods or addresses to accounts
(`Named`). Since the kinds say whose keys they are, the refinement implies that operators' keys are
untouched and that keys on chain are held by the node; these are also stated, and proved, on their own.

**`PosValidators`.** The same frame with the five reads of the staking variant (`active` is
`Session.Validators` as read for the next difference). `calls` is the batch for
one pod. `Precedes` is the order in which the code appends bond, set_keys and validate,
`Prefixes` what a batch that stops at a failure leaves behind, `Runnable` which of those
the chain's state allows. A pod in `Mute` may rotate its keys without an answer, which leaves
`set_keys` out of its batch. `lost` has the tasks whose funding was lost; a batch that another task's collides with does not need it.

**`StakingRegistration`.** The promise for candidates. A set-up is one step of the abstract module with any part of
bond, set_keys and validate, since a batch may stop anywhere and the code may leave a part out; `Gets` says what
must be so after any of these steps: the account is bonded, and not a candidate without keys, unless its node is `Silent`.
`PosValidators` maps pods to the stashes that sign for them and keys to their kind, as above.

**`CronRotation`.** `loop` names the run that has the event loop. A run takes it with
`StartRun` or when its awaited rotation returns, keeps it while it looks at stateful sets, and gives it
away at `AwaitRotation`. `NotDue` goes straight to `ScheduleNext`, as the second `if` of
the loop body does. `PopRaises` is the `KeyError` of `pop`. A manual
run is a second run, beside the trigger's or between two of them. The history variable `rotatedAt` has the height of a set's last
rotation, and forgets it when a run starts while another one is under way.

**`InvulnerableSet`, `Invulnerables`.** The abstract module has one list and requests that are open, have
copied the list, or are over. The detailed one has the requests' phases and the
XCM channel. The refinement maps `copy <- current` and `status` from phase and endpoint (`Status`).
A request's one effect is the delivery of its message.

**`ParachainUpgrade`.** A handler of this endpoint never yields, so at most `Workers` requests run. The
30 polls (with a sleep) are `MaxPolls`. `Deliver` is the parachain executing
`authorize_upgrade`, which replaces what was authorised.

**`UpgradeRequests`.** Authorisations are anonymous grants: a request gets one for its runtime, and a change of the runtime uses one
for the same runtime up. `ParachainUpgrade` maps to the grants of a runtime the messages that carry it and the authorisation, if it
is for it (`Grants`). So a late authorisation may serve another request, as in the code, but two requests never
install three times, and what a request that gave up had asked for is not installed unless another one asks for it.

**`MintCollators`.** Nodes are handled one by one (`Take`); `NodeDone` is the `return None`, or the
return of the address, of the function for one node. The collator's account is
identified with its node, whose name it is derived from. A key is named by the task that rotated it,
or `Derived`.

**`MoonCollators`.** The steps of `register_moon_collator`, call by call. `Sign` takes the nonce from the state
(`nonce`), `Entering` is what the transaction pool makes of an extrinsic (`mempool`), `Include`
the block. Two history variables serve the properties: `quiet` has the tasks that began when nothing was under
way and that no other task, fault or forgotten extrinsic has touched since, and `before` how much (`InPlace`) a
task's nodes had when it began.

**`Collators`.** The sum of the two: the label `chain` is chosen in the initial state and decides which
part moves. On a tick or unknown chain registrations and deregistrations are `Futile`, but keys are set on chain for those who
ask (`SetKeysStep`), as that endpoint does not look at the label.

**`RelayCalls`.** A worker runs one job at a time, since these handlers block its event loop. A job is
a list of calls, `Signer` says with which account each is signed, `Kind` how the handler treats failures:
`configure` (also the runtime upgrade, a job of one call) and `transfer` (also teleports) stop at the first one,
`nominate` and the scheduler's `Pass` go on. Each call passes through the phases of
`substrate.py`: `Connect` (`GetClient`, the pooled client, tried and repaired, unless it is only silent), `ComposeRaises` (for the calls
in `MayNotCompose`, whose parameters are left open; a scheduled upgrade is one, for a reason of its own), `ReadKeys` or `WrongKey`
(`get_sudo_keys` and the proxies), `Sign`, `Submit`, waiting for the block, `ReadReceipt`. `Interrupted`,
`SubmitFails` and `WaitFails` are what a lost connection does at each; `success` is `receipt.is_success`, which covers
less than `TakesEffect`. The pool keeps or replaces an extrinsic when a second one with its nonce comes, and `Forgotten` drops any; a worker
that waits for one that is gone is `Stranded`. A job whose handler answers 500, and one whose worker dies, both are `"stopped"`.

**`ParaLifecycle`.** An id is a pair of a para and a type, `"str"` or `"int"`, so that `CollatorPods`
(a label selector by equality), `ParachainId` and `Selected` can be as the code is.
`ReadThreads`, `ReadChains`, `ReadLifecycles` are the three reads. `queue` says how many
sessions away the actions of a para are: 2, or 1 with `force_queue_action`.

**`ParaRequests`.** A request has the paras that are `left` for it, and takes one off when it changes or skips it, so that it
changes each at most once. `due` is the number of sessions until a change is finished. `ParaLifecycle` maps to it the ids
still to come and the one at hand (`Left`; a cron run may concern any para until it has read the
lists) and the smallest entry of a para's queue (`Due`), since the first action that comes up finishes the change. This
is where it shows that requests which race on old lists do no harm: the refinement has no step from `Onboarding` or
`Offboarding` to anything but its end, and none that gives a lease to a para that is not being onboarded.

**`CallLists`.** A job has a list of calls and a position; a block includes a call it has come to, once, and
a job that checks its calls goes on, or ends well, only when the one at hand is in a block. For
a call that nothing wraps (no sudo, proxy or batch) the report also vouches for the effect. A job may stop anywhere, and what it
has come to may be included afterwards: that is what a lost connection amounts to. `RelayCalls` keeps its requests only; the scheduler's pass makes its calls again and again, so it is not
a list of calls that are made once.

## Runs

All pass unless marked otherwise; every property has a mutant that breaks it.

| run | instance | shows |
|---|---|---|
| `poa_validators` | 2 tasks, 3 pods (one labelled with a genesis validator's account), faults | types, no keyless account registered by the pod path, steady validators neither rotated nor missed by a deregistration, and the promise `ValidatorRegistration` |
| `poa_liveness` | 2 tasks, 2 pods, no faults | a pod asked to be registered becomes a validator unless a call of its own request is lost or something is deregistered; every request is over in the end |
| `poa_rotation_funds` | as above | **violation**: a node has rotated its keys and its stash cannot pay for setting them |
| `cron_rotation` | 2 stateful sets with intervals 1 and 2, height to 5, the trigger's run and a manual one, one rotation that raises, restarts | spacing of rotations unless runs overlap; a due stateful set does not stay due |
| `pos_registration` | 2 tasks, 2 pods (one labelled and mute), faults | candidates are keyed but for the mute pod's, and the promise `StakingRegistration` |
| `pos_liveness` | 2 tasks, 1 mute pod | a pod asked to be registered becomes a candidate, also when batches are cut or collide, unless its request's funding is lost; every request is over in the end |
| `invulnerables` | 2 tasks, 2 nodes, 2 accounts, all four endpoints, faults | the endpoints implement `InvulnerableSet`; an undisturbed whole-list request is precise |
| `parachain_upgrade` | 3 requests, 2 runtimes, 2 workers, 2 polls, faults | the promise `UpgradeRequests`; rejection means that another runtime was asked for, or that the request's own is in place already; every request is answered |
| `collators` | 2 tasks, 2 nodes, 2 messages, every kind of chain, faults | mint: candidates have their node's keys, a lone registration has room; moonbeam: associated keys are held, an undisturbed request advances and associates once; counts are never negative |
| `para_lifecycle` | 2 processes, 2 pods (one without label), 2 paras and para 0, faults | the promise `ParaRequests` with its fairness, genesis of the para's own node, and that what is asked for is onboarded |
| `relay_calls` | a worker and the scheduler, at most 2 of 3 requests (a configuration of two keys whose second cannot be composed or is refused by its pallet, a refused transfer, a nominator whose batch may not be composed) and a pass over two sets whose second raises, a lost or silent connection or a death, extrinsics dropped and replaced, a change of the sudo key | the promise `CallLists`, undisturbed jobs succeed or fail for a reason, every job ends or is stranded, no undisturbed one is stranded, the first set is registered |
| `para_onboard` | 1 process, cron only, no faults | **violation**: the cron job onboards nothing |

### Why the bounds are enough

- *Two tasks.* The hazards are of pairs: one task acts between a read and a use of another.
  Tasks of one kind are symmetric and share nothing but the chain. Where a third party
  matters (`ParachainUpgrade`: a request times out, its late authorisation meets one
  that waits, while another one begins) there are three. What is proved holds for any number.
- *Each task is started at most once.* Tasks are never reused in the code. An instance
  therefore stops when all are over, and these runs say `CHECK_DEADLOCK FALSE`, as the
  system then really has nothing to do. `PoaValidators`, `PosValidators` and `CronRotation` never stop, because
  sessions and cron runs go on, and are checked for deadlock. `RelayCalls` may stop, and says so in its `.cfg`: when both workers wait for
  extrinsics that are gone (see `EveryJobEnds`) and the bounds are used up.
- *Two or three pods*: two whose set-ups fail independently in one gather, and one whose label and derived
  account differ.
- *Height to 5* allows two rotations of the stateful set with interval 1, and restarts, a rotation that raises and a
  manual run around them, and one of the set with interval 2.
- *A worker and the scheduler* are two processes that share an account; the bounds `MaxRequests`, `MaxFaults` and
  `MaxChanges` of `RelayCalls` let a job meet another one, a lost connection or a death, and a change of the
  key, each while it runs or before. The pass repeats without bound.
- *Two collators of one task* make the second join's count stale; two tasks on them race for keys and nonces.
- *Two polls* give a first poll, that repeats, and a last one, that gives up; more only lengthen the wait.
- *Two XCM messages* can overtake a read and one another's effect; the guard `Len(xcm) < MaxXcm` in
  `MintCollators` only delays a send. The other channels are bounded by the number of requests.
- *Para 0, a labelled and an unlabelled pod* are the three cases `CollatorPods` and
  `ParachainId` distinguish.

## Fairness

- Tasks: weak fairness of a task's step, because the event loop resumes whatever is ready,
  and the code has no step that waits for another task. `TaskDies`, and other faults, are
  never fair, except that in `ParaLifecycle` a failing call is one way a call can end, so
  it is part of the step that is fair; the properties allow for it.
- `SessionChange`: sessions follow one another whatever the program does.
- `CronRotation`: the trigger keeps firing, so a run that can start does.
- `Invulnerables`: weak fairness of `Deliver` since the parachain keeps producing blocks.
- `ParachainUpgrade`: nothing is assumed of delivery, as the polling loop is there to
  answer without it.
- `RelayCalls`: weak fairness of a worker's next call, of the block that takes what is in the pool (the node is there: a
  connection that is lost is a bounded fault) and of the scheduler's pass, whose trigger keeps firing. A call on a silent connection
  fails in the end, because the client's socket has TCP keepalive. Nothing says that an extrinsic *stays* in the pool until a block takes it, nor
  that a `Stranded` worker is freed: gunicorn's timeout (an hour, in `README.md` of the repository) kills an API worker that is, which is
  `Dies`, and the scheduler has none. Requests need not arrive.
- `ValidatorRegistration` promises that an open request is answered: weak fairness of `Answer`, which `PoaValidators`
  owes to the fairness of its tasks. `StakingRegistration` and `ParaRequests` promise the same; `ParaRequests` also that sessions
  follow one another. `CallLists` promises no more than safety: that jobs end is `EveryJobEnds`.
- `Collators` has only safety properties and no fairness: what stands in for progress is
  `QuietRegistrationAdvances`, by which every undisturbed repetition of a request does some of what is left to be done.

## Proofs

Checked by TLAPS for every value of the constants, from the named assumptions in the modules:
stashes are distinct and not genesis accounts, sentinels are not members of the sets they stand
beside, bounds are natural numbers, the nodes of `Collators` are finitely many, the jobs of `RelayCalls` are nonempty
lists of calls of which all but a nominator's are signed by the sudo seed's account. TLC evaluates the same assumptions in each run.

**`PoaValidatorsProofs`.** The safety properties are not inductive. `KeyedBeforeRegistered` speaks
of `toAdd` but what goes there was collected earlier in `accts`, so
`AccountsKeyed` says it of `accts` already; it needs `KeysOnlyGrow` (no step takes keys
away), and `LocalsInPhase`, which says which locals a task may hold in which
phase, for instance that a task that holds a pod is gathering. `OnChainKeysHeldByNode` needs
`HeldInv`: what a task holds in its hands is in the node's keystore, because the rotation comes before the
submission. `NoRekeyOfSteadyValidator` needs `SteadyInv`: an account that has been a
validator since the task began was seen by the first read, so it is not in `todo`. The
inductive invariant is

    IInv == TypeOK /\ LocalsInPhase /\ KeyedInv /\ HeldInv /\ SteadyInv

and each conjunct is proved relative to those before it. `OperatorKeysUntouched`, an action
property, follows from `IInv` step by step, and so does `DeregistrationFindsSteady`, from `SteadyInv`.
`Implements` is the refinement: `Serves` says that what a task works on is among what it was asked for,
`KeysOrigin` that keys on chain are the operators' or held by a node of the account (no key is ever `"lost"`), and with
`RInv == IInv /\ Serves /\ KeysOrigin` every step is a step of `ValidatorRegistration` or a stutter. Its fair half is
checked by `poa_liveness`.

**`CronRotationProofs`.** Types hold for any runs. `RotationSpacing` needs `SpacingInv`, about a set whose last rotation is known:
no two runs have been under way at once since; the height of a run is at least that of the rotation, and not in the future; and the
set's entry, if it has one, lies at least the interval above the rotation. The last
part survives a restart because a new entry is computed from a height that is at least that of
the last rotation. A run that overlaps another one makes the premise false until the next rotation that is alone.

**`ParachainUpgradeProofs`.** `OkMeansInstalled` is inductive with types. `RejectedOnlyByInterference`
is not: it speaks of one state of one request, and its reason lies in the channel and the chain. `AgreedInv` says, for
each runtime, that while all requests are for it (`Agreed`) nothing else is authorised or under way to be, and
that a request which saw its authorisation either still has it or finds the runtime installed since it
began (`OnlyTheirs`); a request for another runtime makes the premise false for good. So requests for one runtime
may get in each other's way, but only after it is in place. `Implements` counts: `AppendCounted` and `TailCounted` say how often
a runtime occurs in the channel after a message was sent or delivered, and `DeliveryLoses` that a delivery loses at most one grant,
that of its message or the one that is replaced.

**`PosValidatorsProofs`.** A candidate is made by a batch, so the invariants of candidates rest on what a batch under
construction presupposes (`BatchInv`): the stash is bonded already if the batch does not bond it, the node
holds the keys it sets, and it sets some unless the rotation failed. `RunnableBatch` is the lemma about
order: wherever a batch stops, `validate` has run only if the calls before it have. `NothingIsTaken` (no
step takes a bond or a key away) carries `BatchInv` over the steps of other tasks.
`StakingValidatorsKeyed` excepts the stashes of `Mute` pods, for which the code does not have it; `BatchInv`
keeps a batch without keys to those. `Implements` needs, as for proof of authority, `Serves` and `KeysOrigin`;
a batch that ran in part is one step `SetUp`, whose parts `RunnableBatch` and `BatchInv` give.
`CandidatesBonded` and `OnChainKeysHeld` state parts of it on their own.

**`InvulnerablesProofs`.** `Implements` is the refinement: the initial states of `Invulnerables` are initial
states of `InvulnerableSet`, and each of its steps is a step of it or a stutter. Sending is the
stutter; the request's effect is at delivery, so the proof needs to know what travels: `Channel` says that a message
is the only one of its task, which waits for it, and `Carries` that its contents are
what the task would compute now. `Requests` says which endpoint a task may serve in which phase. The
liveness half of `Promise!FairSpec` (every request is answered) is checked by the run `invulnerables`.
`UndisturbedIsPrecise` says what the lost updates leave over: a whole-list request between whose read and whose
delivery the list did not change has the effect of one that reads and writes at once.

**`CollatorsProofs`.** Types include that the number asked for is never negative: `CountDown` reads
the list again and encodes only what is left. This is where finiteness of `Node` is used.
`CandidatesHaveNodeKeys` needs `KeysHeld`: the key a task is about to set is in the keystore already (it was
rotated, or asked for, a call ago) and every account that has a key, not only a candidate's, has one its node
holds, because joining looks only for the presence of keys.
`RegistrationAloneHasRoom` needs `Lone`, which follows the one task that nobody overlaps from its first read: its node has
got funds and keys by the time it counts, nobody changes the candidates it counted, and while its message is under
way it is the last one, so that once the channel is empty the desired number is the one it asked for, or its
message was lost. The channel is a sequence, whose facts come from `SequenceTheorems`.

The moonbeam part has four layers. `MoonTyped` are types, and that a key in hand or on its way is in
its node's keystore. `Frame` says that a quiet task at work is the only one and that what is under way
belongs to somebody's request. `Once` says, of an account that only quiet tasks have asked for, that an
association on its way excludes both another one and an association already made. `QuietInv` is the
argument for progress: a quiet task has advanced, or has nothing to do, or is `Under` way, and then every extrinsic it
has sent is `Effective` (the chain will accept it, since nothing is included in the meantime: as soon as
something is, the task *has* advanced) and every node it is through with is complete or has an extrinsic
in the pool. So whichever is included first makes `InPlace` larger; the stale counts and the lost second
extrinsics only matter for what comes after that. `Composed` carries the theorems of both modules over to
`CollatorsSpec`: a step of the whole is a step, or a stutter, of each part.

**`RelayCallsProofs`.** `Locals` relates a worker's variables to its job; `Extrinsics` has two parts, `Pool` (an extrinsic
that waits for a block is the call its job is at, or has stopped at) and `Progress` (the calls that blocks have included are the first ones of the
job's list, up to the one it is at or the one before); `OfItsSigner` says that the call in an account's place in the pool is signed with that account. `ConfigurationIsAPrefix` and `OkIsIncluded` follow. `UndisturbedOkIsEffective`,
`FailsOnlyIfDisturbed` and `StrandedOnlyIfDisturbed` need `Alone`: while nothing has disturbed a job, no other worker uses its
accounts, its client is up (once it has asked for it), the nonce it signed with is fresh, the sudo key is the one it looked up, what it waits for is in the
pool, and every call before the one at hand has done what it was for. `Implements` needs `AtMostOnce`: a call is never in the pool and in a block,
nor in either before its job has submitted it. The pool has one place for each account, so this rests on `OfItsSigner`. `Told` says that a success that a worker has read is true of a call which the report
vouches for. `StepKinds` sorts the actions by what they do to jobs, pool and blocks before any of them is mapped.

**`ParaLifecycleProofs`.** `GenesisOfItsOwnNode` needs only `Phases`: what was read is of the id at hand.
`OffboardedOnlyIfAsked` needs `Named`, that all a request has still to do is among what it named and
still a *string*. A string id finds only pods that carry it as a label, so the first
pod's own id is the same para; the integer ids of the cron job, where this fails, never reach
offboarding. `LeaseComesWithOnboarding` is an action property from `ChainSteps`. `Implements` needs `Served`, that the id at hand
is not among those to come and, once a pod was found, is of a para a node runs, and
`UnderWay`, that a change has an action queued that finishes it; `QueueSteps` is what a session does to a queue.

**Why tasks end.** Liveness itself is out of the provers' reach, but not the half of the argument that says how often a
step can be taken. In five modules a measure says how many steps a task still has: `StepsLeft` in `PoaValidatorsProofs`
(2 *n* + 6 for *n* pods), `PosValidatorsProofs` (3 *n* + 7), `ParaLifecycleProofs` (four for each para, and four) and `RelayCallsProofs`
(seven for each call of a job; that its waits are ended by blocks is what `Stranded` is the exception to), and `CallsLeft` in `ParachainUpgradeProofs` (`MaxPolls` + 2 remote
calls). `TasksAdvance`, `JobsAdvance` and `CallsAreBounded` say that every step of the task lowers it and that no step of another task, of
the chain or of a fault raises it. So a task that is scheduled cannot read, retry or poll for ever, however the lists it
works on change. In the measures that count pods or paras these are taken to be finitely many, which the theorem states as its hypothesis.
What is left to the runs is that a task which is not over *has* a step (`ENABLED`), which the liveness properties exercise.

*Only model-checked*: liveness under fairness, which the installed provers cannot do (`RegisteredBecomesValidator`,
`ImplementsFairPromise`, `DueIsRotated`, `RegisteredBecomesCandidate`, `EveryRequestAnswered`, `AskedIsOnboarded`,
`EveryJobEnds`, `SetsAreRegistered`, the fairness of `InvulnerableSet`). Every safety property that a passing run checks is also a theorem.

## Where code and documentation disagree

1. `poa_rotation_funds`. `rotate_nodes_session_keys` logs that it makes sure the stash accounts are funded
   (`network_utils.py:431`), then calls `fund_accounts` with a list that is set to `[]` at
   line 423 and never filled. The run stops at a node that has been made to rotate its keys while its stash cannot pay for the extrinsic that
   sets them.
2. `para_onboard`. `onboard_inactive_parachains` is to onboard a parachain that is not active
   (comment at `cron_tasks.py:105`). It passes integer ids, which are compared with string labels
   (`kubernetes_client.py:155`), so no pod is found and nothing is onboarded.

## Behaviour the properties leave out

Things the code does that a property would only restate. They are modelled, and the
properties' preconditions exclude them.

- *Stale deregistration.* An account that moves between the lists while they are read, or that is queued
  for the next session, is in none of them, and its deregistration is skipped with a log
  line (`network_utils.py:372`, `:393`). `DeregistrationFindsSteady` is about accounts that stay in office.
- *Registration by address.* `register_validator_addresses` puts up accounts without looking at keys, which is
  what it is for; `KeyedBeforeRegistered` excepts them (`direct`). Such an account, pending when a
  pod's registration reads the list, makes that registration skip it; the chain then drops the account, as it
  has no keys. `RegisteredBecomesValidator` excepts it as well.
- *Overlapping cron runs.* `POST /tasks/execute` calls the job's function past the scheduler's limit of one instance
  (`cron_tasks.py:42`); beside a triggered run it rotates twice and the second `pop` raises
  `KeyError`. Liveness survives this (`DueIsRotated`), and spacing holds again once the runs have ceased to overlap.
- *Lost extrinsics.* A registration whose funding or sudo extrinsic loses its nonce to another request's ends without effect and without
  a word (`balance_utils.py:125`, `validator_manager.py:29`). `RegisteredBecomesValidator` excepts such a request (`lost`), not the others.
- *Waiting for ever.* `EveryJobEnds` and `SetsAreRegistered` except a worker that waits for an extrinsic the node has dropped or replaced.
  Nothing in the code ends that wait, and the scheduler's registrations stop with it.
- *Lost updates.* Two deprecated invulnerables requests overwrite each other
  (`network_utils.py:658`). `InvulnerableSet` says exactly this much: such a request
  replaces the list by its changed copy.
- *Unkeyed candidates.* When `author_rotateKeys` answers nothing, `set_keys` is left out of the batch and
  `validate` is not (`validator_manager.py:85`). `StakingValidatorsKeyed` excepts the pods this may happen to.
- *Silent refusals.* Sudo, proxies and batches report success although the call inside was refused, and the code looks no
  further: `UndisturbedOkIsEffective` excepts calls their pallet refuses (`Unwelcome`). A nominator whose batch bonded
  without nominating is bonded again, in vain, by every later request (`staking_utils.py:27`).
- *Half registrations.* `register_moon_collator` answers the address whatever became of its extrinsics.
  The properties speak of what is on chain, not of the answer.
- *Tick collators.* `inject_key` is given a keypair instead of the text it makes one of (`collator_tick.py:16`,
  `node_utils.py:113`) and raises: a registration gives no tick collator a key (`Futile`).
- *Scheduled relay-chain upgrades* raise before anything is sent, as the log line adds a number to a string (`runtime_utils.py:80`): the
  parameter that `apis.py:351` offers makes the call one of `MayNotCompose`. A configuration key that the runtime does not know
  raises at line 46, after the keys before it were changed.
- *Registration by address* raises after the extrinsic was sent (`apis.py:122`), which leaves nothing for a later step.
- *Set keys of a stateful set* raises at `network_utils.py:703` because a dictionary has no attribute
  `node_name` (`SetKeysOfStatefulSet`).
- *The check before setting keys* at `collator_mint.py:134` is always true; the keys are set again.
- *Funding* at `collator_mint.py:41` sends ten times the amount of its comment; amounts are abstracted.

## Not modelled

Formatting, logging, templates, settings and the command-line scripts, which have no state of their own; amounts of
tokens (funded or not); the contents of keys, code and genesis heads (names); read-only listings other than
`list_parachains`; node health, except as a reason why a set-up does not start; weights, fees and the encoding of XCM
messages; what the chain does with an equivocation or an election. Errors of the HTTP layer (a request refused before
any task is started) change nothing and are left out, except where the refusal protects a later step (`AskNode`).

Simplifications:

- Whether a second extrinsic with the nonce of one in the pool is refused or replaces it is left open in `RelayCalls` and
  `MoonCollators`; it depends on the weights and classes of the calls.
- On a moonbeam chain, whose accounts have 20 bytes, setting keys on chain is taken to raise when it reads the balance of an SS58
  address, and to do nothing.
- `RelayCalls` takes one validator for each request of nominators; a batch that is refused, is refused as a whole;
  a teleport is a transfer, and an upgrade a configuration of one key.
- Candidates of a moonbeam chain never leave, as the program cannot make them.
- A parachain has one label `chain`, of one kind, at all its pods.

## Plan

Written, each with its proofs and in this order: `PoaValidators`, `CronRotation`, `PosValidators`, `InvulnerableSet`
with `Invulnerables`, `ParachainUpgrade`, `MintCollators`, `ParaLifecycle`, `RelayCalls`, `ValidatorRegistration` with its
refinement by `PoaValidators`, `MoonCollators`, `Collators`; then `StakingRegistration`, `ParaRequests`, `CallLists` and `UpgradeRequests`, each
with the refinement by the module that was there.

What is left is proving more about what is there:

1. that the collators' modules implement a promise of their own, in which nobody is touched whom no request names;
2. for the collators' tasks, the measure that every step decreases.
