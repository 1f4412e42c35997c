----------------------------- MODULE RelayCalls -----------------------------
(***************************************************************************)
(* What the worker processes send to the relay chain with the one account  *)
(* of the sudo seed: POST /runtime/configuration, /runtime/upgrade,        *)
(* /balances/transfer_funds, /xcm/teleport_funds,                          *)
(* /validators/staking_nominators and the scheduler's pass over the        *)
(* stateful sets (register_inactive_validators).                           *)
(*                                                                         *)
(* A worker runs one job at a time: these handlers block its event loop.   *)
(* A job is a list of calls, each on the worker's pooled client            *)
(* (app/lib/substrate.py): get the client, read the sudo key, sign with    *)
(* the nonce of the chain's state, submit, wait for a block, read the      *)
(* receipt.  Workers share nothing but the chain, and so the nonce: an     *)
(* account has at most one extrinsic in the node's pool, a second one with *)
(* the same nonce is refused or, if its priority is higher, replaces it.   *)
(* Who waits for an extrinsic that is replaced or dropped hears no more of *)
(* it, and has no timeout.                                                 *)
(***************************************************************************)
EXTENDS Integers, Sequences, FiniteSets, Functions

CONSTANTS
    ApiWorker,   \* gunicorn workers
    Scheduler,   \* the process of task-scheduler.py
    Request,     \* API requests
    Pass,        \* the job register_inactive_validators
    Kind,        \* [Request -> {"configure", "transfer", "nominate"}]
    Signer,      \* [Job -> Seq(Account)]: who signs each of a job's calls
    Sudo,        \* the account of the sudo seed
    Nominator,   \* accounts that /validators/staking_nominators creates
    Owner,       \* other accounts that may hold the sudo key
    Proxied,     \* owners that have the account of the seed as a proxy
    Unwelcome,   \* calls that the pallet they are for refuses
    Batch,       \* transfers to several accounts: one Utility.batch
    Raising,     \* calls of the pass at which a registration raises
    MayNotCompose, \* calls that composing may raise for, with parameters left open:
                 \* an unknown key, account or pod, a value that cannot be encoded,
                 \* a delay for an upgrade
    NoJob, NoTx, NoOne,
    MaxRequests, \* bound on the API requests of a behaviour
    MaxFaults,   \* bound on lost connections and failed reconnections
    MaxChanges   \* bound on changes of the sudo key

Worker == ApiWorker \cup {Scheduler}
Job == Request \cup {Pass}
Account == {Sudo} \cup Nominator
Call == {c \in Job \X Nat : c[2] \in 1..Len(Signer[c[1]])}

ASSUME JobAssumption ==
    /\ Scheduler \notin ApiWorker /\ Pass \notin Request /\ NoJob \notin Job
    /\ Kind \in [Request -> {"configure", "transfer", "nominate"}]
    /\ Signer \in [Job -> Seq(Account)]
    /\ \A j \in Job : Signer[j] # <<>>
    /\ \A j \in Request : Signer[j][1] = Sudo
    /\ \A j \in Request : Kind[j] # "nominate" => \A k \in 1..Len(Signer[j]) : Signer[j][k] = Sudo
    /\ \A k \in 1..Len(Signer[Pass]) : Signer[Pass][k] = Sudo
    /\ Raising \subseteq {k \in 1..Len(Signer[Pass]) : k % 2 = 1}
ASSUME AccountAssumption ==
    /\ Proxied \subseteq Owner
    /\ Sudo \notin Nominator /\ Sudo \notin Owner /\ NoOne \notin Owner \cup {Sudo}
    /\ NoTx \notin Call \X (Owner \cup {Sudo, NoOne})
    /\ Unwelcome \subseteq Call /\ Batch \subseteq Call
    /\ MayNotCompose \subseteq {c \in Call : c[1] \in Request}
    /\ MaxRequests \in Nat /\ MaxFaults \in Nat /\ MaxChanges \in Nat

VARIABLES
    \* the chain and the pool of the relay-chain node
    sudoKey,    \* Sudo.Key: the account of the seed or an owner
    funded,     \* accounts that can pay for an extrinsic
    nominating, \* keys of Staking.Nominators
    txPool,     \* [Account -> the extrinsic waiting for a block, or NoTx]
    included,   \* history: calls of requests that a block has included
    effected,   \* history: the same, and registrations of the pass, that took effect
    \* the workers
    conn,       \* client in ws_pool: "none", "up", "broken", or "silent" when the
                \* node is gone but its side of the connection has not been heard of
    job, pc,
    via,        \* account in whose name the call will be made, or NoOne
    fresh,      \* the signed nonce is still the account's next one
    success,    \* receipt.is_success, once the extrinsic is in a block
    \* the jobs
    at,         \* [Job -> number of the call it is at]
    outcome,    \* "stopped" when the handler has answered 500 or its process has died
    disturbed,  \* history: requests that others, faults or key changes may have hit
    faults, changes

chainVars == <<sudoKey, funded, nominating, txPool, included, effected>>
boundVars == <<faults, changes>>
workerVars == <<conn, job, pc, via, fresh, success>>
vars == <<chainVars, workerVars, at, outcome, disturbed, boundVars>>

Busy == {"connect", "look", "keys", "sign", "submit", "wait", "receipt"}

KindOf(j) == IF j = Pass THEN "pass" ELSE Kind[j]
\* The handler stops at the first call that fails, and answers 500.
Strict(j) == KindOf(j) \in {"configure", "transfer"}
\* The pooled client is looked up again before the job's k-th call.
Reconnects(j, k) == k = 1 \/ KindOf(j) \in {"configure", "pass"}
\* Calls wrapped in Sudo.sudo; of the pass each second one, the first funds.
IsSudo(j, k) == KindOf(j) = "configure" \/ (KindOf(j) = "pass" /\ k % 2 = 0)
Looks(j, k) == KindOf(j) = "nominate" /\ k > 1
SignerAt(w) == Signer[job[w]][at[job[w]]]
Here(w) == <<job[w], at[job[w]]>>
\* Whatever is asked of the client raises, sooner or later.
Down(w) == conn[w] \in {"broken", "silent"}
Shares(i, j) == \E k \in DOMAIN Signer[i], l \in DOMAIN Signer[j] : Signer[i][k] = Signer[j][l]

Init ==
    /\ sudoKey = Sudo   \* as in a testnet's chain specification
    /\ funded = {Sudo} /\ nominating = {}
    /\ txPool = [a \in Account |-> NoTx]
    /\ included = {} /\ effected = {}
    /\ conn = [w \in Worker |-> "none"] /\ job = [w \in Worker |-> NoJob]
    /\ pc = [w \in Worker |-> "idle"] /\ via = [w \in Worker |-> NoOne]
    /\ fresh = [w \in Worker |-> FALSE] /\ success = [w \in Worker |-> FALSE]
    /\ at = [j \in Job |-> 0] /\ outcome = [j \in Job |-> "none"]
    /\ disturbed = {} /\ faults = 0 /\ changes = 0

-----------------------------------------------------------------------------
\* The phase at which a job's k-th call begins.
FirstPhase(j, k) ==
    IF Reconnects(j, k) THEN "connect" ELSE IF Looks(j, k) THEN "look" ELSE "sign"

\* The handler, the task or the pass returns or raises: its locals are gone, and
\* a pass leaves no trace.
Leave(w, how) ==
    /\ outcome' = [outcome EXCEPT ![job[w]] = IF job[w] = Pass THEN "none" ELSE how]
    /\ at' = [at EXCEPT ![job[w]] = IF job[w] = Pass THEN 0 ELSE @]
    /\ job' = [job EXCEPT ![w] = NoJob]
    /\ pc' = [pc EXCEPT ![w] = "idle"]
    /\ via' = [via EXCEPT ![w] = NoOne]
    /\ fresh' = [fresh EXCEPT ![w] = FALSE]
    /\ success' = [success EXCEPT ![w] = FALSE]

GoTo(w, phase) == pc' = [pc EXCEPT ![w] = phase]

\* MUTANT of GoOn: the end of the list is missed.
GoOnPastEnd(w) ==
    LET j == job[w]
    IN IF at[j] > Len(Signer[j])
       THEN Leave(w, "ok")
       ELSE /\ at' = [at EXCEPT ![j] = @ + 1]
            /\ GoTo(w, FirstPhase(j, at[j] + 1))
            /\ via' = [via EXCEPT ![w] = NoOne]
            /\ fresh' = [fresh EXCEPT ![w] = FALSE]
            /\ success' = [success EXCEPT ![w] = FALSE]
            /\ UNCHANGED <<job, outcome>>

\* On to the next call, or to the end of the job.
GoOn(w) ==
    LET j == job[w]
    IN IF at[j] = Len(Signer[j])
       THEN Leave(w, "ok")
       ELSE /\ at' = [at EXCEPT ![j] = @ + 1]
            /\ GoTo(w, FirstPhase(j, at[j] + 1))
            /\ via' = [via EXCEPT ![w] = NoOne]
            /\ fresh' = [fresh EXCEPT ![w] = FALSE]
            /\ success' = [success EXCEPT ![w] = FALSE]
            /\ UNCHANGED <<job, outcome>>

\* MUTANT of Fail: the loop goes on to the next key.
FailIgnored(w) == GoOn(w)

\* The call has failed: False, None, or a receipt without success.
Fail(w) == IF Strict(job[w]) THEN Leave(w, "stopped") ELSE GoOn(w)

Raise(w) == Leave(w, "stopped") /\ UNCHANGED <<chainVars, boundVars>>
\* The lost connection has been noticed.
Noticed(w) == conn' = [conn EXCEPT ![w] = "broken"]
Hit(w) == disturbed' = disturbed \cup (Request \cap {job[w]})

\* A request reaches an idle worker, or the cron trigger fires.
Start(w, j) ==
    /\ pc[w] = "idle"
    /\ \/ /\ w \in ApiWorker /\ j \in Request /\ outcome[j] = "none"
          /\ Cardinality({i \in Request : outcome[i] # "none"}) < MaxRequests
       \/ w = Scheduler /\ j = Pass
    /\ LET rivals == {job[u] : u \in Worker} \ {NoJob}
           near == {i \in rivals : Shares(i, j)}
           late == \E k \in DOMAIN Signer[j] : txPool[Signer[j][k]] # NoTx
       IN disturbed' = disturbed \cup (Request \cap
                            (near \cup IF near # {} \/ late THEN {j} ELSE {}))
    /\ job' = [job EXCEPT ![w] = j]
    /\ at' = [at EXCEPT ![j] = 1]
    /\ outcome' = [outcome EXCEPT ![j] = "running"]
    /\ GoTo(w, "connect")
    /\ UNCHANGED <<chainVars, conn, via, fresh, success, boundVars>>

\* The client is at hand: on to what the call does first.
AfterClient(w) ==
    GoTo(w, IF IsSudo(job[w], at[job[w]]) THEN "keys" ELSE "sign")

\* The registration of a stateful set raises, and the pass with it.
SetRaises(w) ==
    /\ pc[w] = "connect" /\ job[w] = Pass /\ at[Pass] \in Raising
    /\ Raise(w)
    /\ UNCHANGED <<conn, disturbed>>

\* MUTANT of GetClient: a pooled client is not tried before it is used.
GetClientUntried(w) ==
    /\ pc[w] = "connect" /\ ~(job[w] = Pass /\ at[Pass] \in Raising)
    /\ conn' = [conn EXCEPT ![w] = IF @ = "none" THEN "up" ELSE @]
    /\ UNCHANGED disturbed

\* get_substrate_client: the client is made, found alive, or connected again.
\* ping only sends a frame, so a connection that is silent passes.
GetClient(w) ==
    /\ pc[w] = "connect" /\ ~(job[w] = Pass /\ at[Pass] \in Raising)
    /\ conn' = [conn EXCEPT ![w] = IF @ = "silent" THEN @ ELSE "up"]
    /\ IF conn[w] = "silent" THEN Hit(w) ELSE UNCHANGED disturbed

Connect(w) ==
    /\ GetClient(w)
    /\ AfterClient(w)
    /\ UNCHANGED <<chainVars, job, via, fresh, success, at, outcome, boundVars>>

\* compose_call raises, or an upgrade with a delay before it asks for a client;
\* of a configuration update the keys before this one are changed already.
ComposeRaises(w) ==
    /\ pc[w] = "connect" /\ Here(w) \in MayNotCompose
    /\ GetClient(w) \/ UNCHANGED <<conn, disturbed>>
    /\ Raise(w)

\* No connection: the client leaves the pool, the caller gets None and raises.
ConnectFails(w) ==
    /\ pc[w] = "connect" /\ conn[w] \in {"none", "broken"} /\ faults < MaxFaults
    /\ conn' = [conn EXCEPT ![w] = "none"]
    /\ Hit(w)
    /\ faults' = faults + 1
    /\ Leave(w, "stopped")
    /\ UNCHANGED <<chainVars, changes>>

\* check_is_nominator: an account that nominates already is passed over; for
\* another the batch is composed, or cannot be.
Look(w) ==
    /\ pc[w] = "look" /\ conn[w] = "up"
    /\ IF SignerAt(w) \in nominating THEN GoOn(w)
       ELSE \/ GoTo(w, "sign") /\ UNCHANGED <<job, via, fresh, success, at, outcome>>
            \/ Here(w) \in MayNotCompose /\ Leave(w, "stopped")
    /\ UNCHANGED <<chainVars, conn, disturbed, boundVars>>

\* MUTANT of ReadKeys: the call is made in the account's own name, proxy or not.
ReadKeysInOwnName(w) ==
    /\ pc[w] = "keys" /\ conn[w] = "up"
    /\ sudoKey \in Proxied \cup {Sudo}
    /\ via' = [via EXCEPT ![w] = Sudo]
    /\ GoTo(w, "sign")
    /\ UNCHANGED <<chainVars, conn, job, fresh, success, at, outcome, disturbed, boundVars>>

\* get_sudo_keys: whose proxy, if anyone's, the account has to be.
ReadKeys(w) ==
    /\ pc[w] = "keys" /\ conn[w] = "up"
    /\ sudoKey \in Proxied \cup {Sudo}
    /\ via' = [via EXCEPT ![w] = sudoKey]
    /\ GoTo(w, "sign")
    /\ UNCHANGED <<chainVars, conn, job, fresh, success, at, outcome, disturbed, boundVars>>

\* "Provided wrong sudo key": the answer is None and nothing is sent.
WrongKey(w) ==
    /\ pc[w] = "keys" /\ conn[w] = "up"
    /\ sudoKey \notin Proxied \cup {Sudo}
    /\ Fail(w)
    /\ UNCHANGED <<chainVars, conn, disturbed, boundVars>>

\* create_signed_extrinsic reads the account's nonce from the chain's state.
Sign(w) ==
    /\ pc[w] = "sign" /\ conn[w] = "up"
    /\ fresh' = [fresh EXCEPT ![w] = TRUE]
    /\ GoTo(w, "submit")
    /\ UNCHANGED <<chainVars, conn, job, via, success, at, outcome, disturbed, boundVars>>

\* Outside submit_extrinsic a lost connection raises, also in is_success.
Interrupted(w) ==
    /\ Down(w) /\ pc[w] \in {"look", "keys", "sign", "receipt"}
    /\ Noticed(w)
    /\ Raise(w)
    /\ UNCHANGED disturbed

Admissible(w) == fresh[w] /\ SignerAt(w) \in funded

\* MUTANT of Submit: wait=False.
SubmitUnawaited(w) ==
    /\ pc[w] = "submit" /\ conn[w] = "up" /\ Admissible(w)
    /\ txPool' = [txPool EXCEPT ![SignerAt(w)] = <<Here(w), via[w]>>]
    /\ GoOn(w)
    /\ UNCHANGED <<sudoKey, funded, nominating, included, effected, conn, disturbed, boundVars>>

\* The node takes the extrinsic into its pool, where it may replace another one
\* with the same nonce.
Submit(w) ==
    /\ pc[w] = "submit" /\ conn[w] = "up" /\ Admissible(w)
    /\ txPool' = [txPool EXCEPT ![SignerAt(w)] = <<Here(w), via[w]>>]
    /\ GoTo(w, "wait")
    /\ UNCHANGED <<sudoKey, funded, nominating, included, effected,
                   conn, job, via, fresh, success, at, outcome, disturbed, boundVars>>

\* The node refuses it (outdated nonce, or one that waits already).
Refused(w) == ~Admissible(w) \/ txPool[SignerAt(w)] # NoTx

\* submit_extrinsic raises, also when the connection is gone, and substrate_call
\* answers False.
SubmitFails(w) ==
    /\ pc[w] = "submit"
    /\ \/ Down(w) /\ Noticed(w)
       \/ conn[w] = "up" /\ Refused(w) /\ UNCHANGED conn
    /\ Fail(w)
    /\ UNCHANGED <<chainVars, disturbed, boundVars>>

\* The connection is lost while waiting: False, though the extrinsic is out.
WaitFails(w) ==
    /\ pc[w] = "wait" /\ Down(w)
    /\ Noticed(w)
    /\ Fail(w)
    /\ UNCHANGED <<chainVars, disturbed, boundVars>>

\* MUTANT of ReadReceipt: it polls until the receipt tells of success.
ReadReceiptAgain(w) ==
    /\ pc[w] = "receipt" /\ conn[w] = "up" /\ success[w]
    /\ GoOn(w)
    /\ UNCHANGED <<chainVars, conn, disturbed, boundVars>>

\* MUTANT of ReadReceipt: without success it waits for another block.
ReadReceiptWaits(w) ==
    /\ pc[w] = "receipt" /\ conn[w] = "up"
    /\ IF success[w] THEN GoOn(w)
       ELSE GoTo(w, "wait") /\ UNCHANGED <<job, via, fresh, success, at, outcome>>
    /\ UNCHANGED <<chainVars, conn, disturbed, boundVars>>

\* receipt.is_success.  (register_validators does not look: Fail goes on.)
ReadReceipt(w) ==
    /\ pc[w] = "receipt" /\ conn[w] = "up"
    /\ IF success[w] THEN GoOn(w) ELSE Fail(w)
    /\ UNCHANGED <<chainVars, conn, disturbed, boundVars>>

-----------------------------------------------------------------------------
\* The worker waits for the extrinsic that account a has in the pool.
AwaitsBlock(w, a) ==
    pc[w] = "wait" /\ conn[w] = "up" /\ txPool[a] # NoTx /\ txPool[a][1] = Here(w)

\* (external) What a block makes of an extrinsic: the inner call is refused
\* when its pallet does not want it, when it is made for a former sudo key, or
\* when the account nominates already.
TakesEffect(a, c, v) ==
    /\ IsSudo(c[1], c[2]) => v = sudoKey
    /\ Looks(c[1], c[2]) => a \notin nominating
    /\ c \notin Unwelcome

\* is_success covers the extrinsic and not what sudo, a proxy or a batch wraps.
Reported(a, c, v) ==
    IF IsSudo(c[1], c[2])
    THEN v = sudoKey \/ v \in Proxied
    ELSE TakesEffect(a, c, v) \/ c \in Batch

\* (external) The next block takes the account's extrinsic: its nonce goes up,
\* and who signed with the former one is late.
InBlock(a) ==
    /\ txPool[a] # NoTx
    /\ LET c == txPool[a][1]
           v == txPool[a][2]
           works == TakesEffect(a, c, v)
       IN /\ included' = IF c[1] \in Request THEN included \cup {c} ELSE included
          /\ effected' = IF works /\ (c[1] \in Request \/ IsSudo(c[1], c[2]))
                         THEN effected \cup {c} ELSE effected
          /\ funded' = IF works /\ KindOf(c[1]) = "nominate" /\ c[2] = 1
                       THEN funded \cup Range(Signer[c[1]]) ELSE funded
          /\ nominating' = IF works /\ Looks(c[1], c[2]) THEN nominating \cup {a} ELSE nominating
          /\ success' = [w \in Worker |-> success[w] \/ (AwaitsBlock(w, a) /\ Reported(a, c, v))]
    /\ pc' = [w \in Worker |-> IF AwaitsBlock(w, a) THEN "receipt" ELSE pc[w]]
    /\ fresh' = [w \in Worker |-> fresh[w] /\ SignerAt(w) # a]
    /\ txPool' = [txPool EXCEPT ![a] = NoTx]
    /\ UNCHANGED <<sudoKey, conn, job, via, at, outcome, disturbed, boundVars>>

\* (external) The node drops an extrinsic from its pool, awaited or not.
Forgotten(a) ==
    /\ txPool[a] # NoTx
    /\ txPool' = [txPool EXCEPT ![a] = NoTx]
    /\ disturbed' = disturbed \cup (Request \cap {job[w] : w \in {u \in Worker : AwaitsBlock(u, a)}})
    /\ UNCHANGED <<sudoKey, funded, nominating, included, effected, workerVars,
                   at, outcome, boundVars>>

\* (external) The node is gone for a moment: the worker's connection breaks, which
\* its side may not know yet.
Break(w) ==
    /\ conn[w] = "up" /\ faults < MaxFaults
    /\ \E how \in {"broken", "silent"} : conn' = [conn EXCEPT ![w] = how]
    /\ Hit(w)
    /\ faults' = faults + 1
    /\ UNCHANGED <<chainVars, job, pc, via, fresh, success, at, outcome, changes>>

\* The process is killed and a new one takes its place, with an empty pool.
Dies(w) ==
    /\ pc[w] \in Busy /\ faults < MaxFaults
    /\ conn' = [conn EXCEPT ![w] = "none"]
    /\ Hit(w)
    /\ faults' = faults + 1
    /\ Leave(w, "stopped")
    /\ UNCHANGED <<chainVars, changes>>

\* (external) The sudo key is handed over.
ChangeKey(s) ==
    /\ sudoKey # s /\ changes < MaxChanges
    /\ sudoKey' = s
    /\ disturbed' = disturbed \cup (Request \cap {job[w] : w \in Worker})
    /\ changes' = changes + 1
    /\ UNCHANGED <<funded, nominating, txPool, included, effected, workerVars,
                   at, outcome, faults>>

-----------------------------------------------------------------------------
CallStep(w) ==
    \/ SetRaises(w) \/ Connect(w) \/ ComposeRaises(w) \/ Look(w) \/ ReadKeys(w) \/ WrongKey(w) \/ Sign(w)
    \/ Interrupted(w) \/ Submit(w) \/ SubmitFails(w) \/ WaitFails(w) \/ ReadReceipt(w)

Next ==
    \/ \E w \in Worker :
          \/ \E j \in Job : Start(w, j)
          \/ CallStep(w) \/ ConnectFails(w) \/ Break(w) \/ Dies(w)
    \/ \E a \in Account : InBlock(a) \/ Forgotten(a)
    \/ \E s \in Owner \cup {Sudo} : ChangeKey(s)

Spec == Init /\ [][Next]_vars

\* Workers go on, blocks are made, the cron trigger keeps firing.
FairSpec ==
    /\ Spec
    /\ \A w \in Worker : WF_vars(CallStep(w))
    /\ \A a \in Account : WF_vars(InBlock(a))
    /\ WF_vars(Start(Scheduler, Pass))

-----------------------------------------------------------------------------
(* Properties *)

\* Every variable has its type, and the number of a job's call stays a number
\* of one of its calls.
TypeOK ==
    /\ sudoKey \in Owner \cup {Sudo}
    /\ funded \subseteq Account /\ nominating \subseteq Account
    /\ txPool \in [Account -> (Call \X (Owner \cup {Sudo, NoOne})) \cup {NoTx}]
    /\ included \subseteq Call /\ effected \subseteq Call
    /\ conn \in [Worker -> {"none", "up", "broken", "silent"}]
    /\ job \in [Worker -> Job \cup {NoJob}]
    /\ pc \in [Worker -> Busy \cup {"idle"}]
    /\ via \in [Worker -> Owner \cup {Sudo, NoOne}]
    /\ fresh \in [Worker -> BOOLEAN] /\ success \in [Worker -> BOOLEAN]
    /\ at \in [Job -> Nat] /\ \A j \in Job : at[j] <= Len(Signer[j])
    /\ outcome \in [Job -> {"none", "running", "ok", "stopped"}]
    /\ disturbed \subseteq Request
    /\ faults \in Nat /\ changes \in Nat

\* The calls of a configuration update that blocks have included are the first
\* ones of its list, up to the one it stopped at or the one before, however it
\* ended and however late a block takes the last.
IncludedArePrefix ==
    \A j \in Request : Strict(j) =>
        \E m \in {at[j], at[j] - 1} :
            {k \in 1..Len(Signer[j]) : <<j, k>> \in included} = 1..m

\* A handler that answers OK after looking at its receipts has had every call of
\* its list included, also when requests of other workers raced for the nonce.
OkMeansIncluded ==
    \A j \in Request : Strict(j) /\ outcome[j] = "ok" =>
        \A k \in 1..Len(Signer[j]) : <<j, k>> \in included

\* What each call was for has happened, where its pallet is willing.
Accomplished(j) ==
    \A k \in 1..Len(Signer[j]) :
        \/ <<j, k>> \in effected \cup Unwelcome
        \/ Looks(j, k) /\ Signer[j][k] \in nominating

\* A job that ran to its end while nobody else used its accounts, no connection
\* was lost and the sudo key stayed put has accomplished all it was asked for,
\* what a pallet refuses aside (sudo and batches do not report that).
UndisturbedOkIsEffective ==
    \A j \in Request :
        /\ outcome[j] = "ok" /\ j \notin disturbed
        /\ Kind[j] = "nominate" => <<j, 1>> \notin Unwelcome
        => Accomplished(j)

Cause(j) ==
    \/ Kind[j] = "configure" /\ sudoKey \notin Proxied \cup {Sudo}
    \/ Kind[j] = "transfer" /\ <<j, at[j]>> \in Unwelcome \ Batch
    \/ <<j, at[j]>> \in MayNotCompose

FailureCaused ==
    \A j \in Request :
        outcome[j] = "running" /\ outcome'[j] = "stopped" /\ j \notin disturbed'
            => Cause(j)

\* A request that nothing disturbs fails only for want of the sudo key, as a
\* transfer that its pallet refuses, or at a call that composing may raise for: a client
\* that broke before the request is connected again (if ping tells), and the calls
\* of one job do not collide.
FailsOnlyIfDisturbed == [][FailureCaused]_vars

\* The worker waits for an extrinsic that is in no block and not in the pool.
Stranded(w) ==
    pc[w] = "wait" /\ conn[w] = "up" /\ (txPool[SignerAt(w)] = NoTx \/ txPool[SignerAt(w)][1] # Here(w))

\* Only a request that something has disturbed is left waiting: no job replaces an
\* extrinsic of its own that it waits for, and no late one of a job before does.
StrandedOnlyIfDisturbed == \A w \in Worker : Stranded(w) /\ job[w] \in Request => job[w] \in disturbed

\* Every job ends, whatever else is lost, unless the extrinsic it waits for is
\* dropped or replaced: then nothing ends the wait of substrate.py:92 but a lost
\* connection or the death of the worker.
EveryJobEnds == \A w \in Worker : pc[w] # "idle" ~> pc[w] = "idle" \/ Stranded(w)

\* The stateful sets before the first whose registration raises are registered
\* in the end, if the account keeps or regains the sudo right: lost connections
\* and lost nonces are made up for by the next pass.  There is no next pass if
\* this one waits for ever.
SetsAreRegistered ==
    \A k \in DOMAIN Signer[Pass] :
        IsSudo(Pass, k) /\ (\A r \in Raising : r > k) /\ <>[](sudoKey \in Proxied \cup {Sudo})
            => <>(<<Pass, k>> \in effected) \/ <>[]Stranded(Scheduler)

-----------------------------------------------------------------------------
(* What a request promises (INSTANCE).  A receipt vouches for the effect of *)
(* a call that nothing wraps: neither sudo nor a batch.                     *)

Promise == INSTANCE CallLists WITH
    Job <- Request,
    Length <- [j \in Request |-> Len(Signer[j])],
    Checked <- {j \in Request : Strict(j)},
    Vouched <- {c \in Call : ~IsSudo(c[1], c[2]) /\ c \notin Batch},
    status <- [j \in Request |-> outcome[j]],
    at <- [j \in Request |-> at[j]],
    effected <- {c \in effected : c[1] \in Request}

\* Whatever is lost and whoever races for the nonce, each call is made at most
\* once and in its turn, a checked request goes on only after a call it knows to
\* be done, and a transfer of one account that is answered OK has taken place.
ImplementsPromise == Promise!Spec
=============================================================================
