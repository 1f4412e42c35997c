--------------------------- MODULE MoonCollators ---------------------------
(***************************************************************************)
(* Registration of collators of a moonbeam parachain                       *)
(* (register_moon_collator in app/lib/collator_moonbeam.py, for each node  *)
(* of a request in turn).                                                  *)
(*                                                                         *)
(* A registration joins the candidate pool and associates freshly rotated  *)
(* keys with the account.  Neither extrinsic is waited for, and both are   *)
(* signed with the nonce of the chain's state, so that the second one is   *)
(* refused, or replaces the first, while that is still in the transaction  *)
(* pool.  The number of candidates the first one names was read earlier.   *)
(* What a request leaves undone, a later one is to make up for.            *)
(***************************************************************************)
EXTENDS Naturals, FiniteSets

CONSTANTS
    Task, Node,   \* a node's collator account is derived from its name
    OldKey,       \* a node's key from before
    NoKey, NoNode,
    Faults        \* TRUE: calls may fail, extrinsics be lost, workers be killed

Key == Task \cup {OldKey}   \* a node's keys, by the task that rotated them

VARIABLES
    \* the parachain and its nodes
    pool,      \* ParachainStaking.CandidatePool, by node
    mapping,   \* AuthorMapping: pairs of a node's account and a key
    rich,      \* accounts with bond, deposit and fee
    nonce,     \* System.Account's nonce of each account
    mempool,   \* the extrinsics of each account in the transaction pool
    store,     \* the keys each node holds
    \* the tasks
    phase, asked, rest, now,
    hint,      \* candidates counted for join_candidates
    key,       \* the rotated key
    signed,    \* the nonce of the extrinsic that is signed
    \* history
    quiet,     \* tasks no other task, fault or leftover extrinsic disturbed
    before     \* what a task's nodes had already when it began

chainVars == <<pool, mapping, rich, nonce, mempool, store>>
locals == <<asked, rest, now, hint, key, signed>>
vars == <<chainVars, phase, locals, quiet, before>>

Steps == {"fund", "look", "signJoin", "sendJoin", "lookUp", "rotate", "signKey", "sendKey"}
Active == {"next"} \cup Steps

Associated(n) == \E k \in Key : <<n, k>> \in mapping
\* How much of what a registration is for is in place.
InPlace(nodes) ==
    Cardinality(nodes \cap pool) + Cardinality({n \in nodes : Associated(n)})

Extrinsic == [nonce : Nat, join : BOOLEAN, hint : Nat, key : Key \cup {NoKey}]

\* Earlier registrations may have got anywhere.
Init ==
    /\ pool \in SUBSET Node
    /\ \E nodes \in SUBSET Node :
          /\ mapping = nodes \X {OldKey}
          /\ rich = pool \cup nodes
          /\ store = [n \in Node |-> IF n \in nodes THEN {OldKey} ELSE {}]
    /\ nonce = [n \in Node |-> 0] /\ mempool = [n \in Node |-> {}]
    /\ phase = [t \in Task |-> "idle"]
    /\ asked = [t \in Task |-> {}] /\ rest = [t \in Task |-> {}]
    /\ now = [t \in Task |-> NoNode] /\ hint = [t \in Task |-> 0]
    /\ key = [t \in Task |-> NoKey] /\ signed = [t \in Task |-> 0]
    /\ quiet = {} /\ before = [t \in Task |-> 0]

-----------------------------------------------------------------------------
Goto(t, there) == phase' = [phase EXCEPT ![t] = there]
Untroubled == UNCHANGED <<quiet, before>>

\* The function returns for the node at hand, with its address or with None.
NodeDone(t) ==
    /\ Goto(t, "next")
    /\ now' = [now EXCEPT ![t] = NoNode] /\ hint' = [hint EXCEPT ![t] = 0]
    /\ key' = [key EXCEPT ![t] = NoKey] /\ signed' = [signed EXCEPT ![t] = 0]
    /\ UNCHANGED <<asked, rest, before>>

Begin(t, nodes) ==
    /\ phase[t] = "idle"
    /\ Goto(t, "next")
    /\ asked' = [asked EXCEPT ![t] = nodes] /\ rest' = [rest EXCEPT ![t] = nodes]
    /\ LET unsettled == {u \in Task : \/ phase[u] \in Active
                                    \/ \E n \in asked[u] : mempool[n] # {}}
       IN quiet' = (quiet \ unsettled) \cup {u \in {t} : unsettled = {}}
    /\ before' = [before EXCEPT ![t] = InPlace(nodes)]
    /\ UNCHANGED <<chainVars, now, hint, key, signed>>

\* collator_deregister: not implemented for these chains.
NothingDone(t) ==
    /\ phase[t] = "idle"
    /\ Goto(t, "done")
    /\ UNCHANGED <<chainVars, locals>> /\ Untroubled

Take(t, n) ==
    /\ phase[t] = "next" /\ n \in rest[t]
    /\ rest' = [rest EXCEPT ![t] = @ \ {n}] /\ now' = [now EXCEPT ![t] = n]
    /\ Goto(t, "fund")
    /\ UNCHANGED <<chainVars, asked, hint, key, signed>> /\ Untroubled

\* An account below what it needs gets a transfer.
Fund(t) ==
    /\ phase[t] = "fund"
    /\ rich' = rich \cup {now[t]}
    /\ Goto(t, "look")
    /\ UNCHANGED <<pool, mapping, nonce, mempool, store, locals>> /\ Untroubled

\* The transfer's failure is not looked at.
FundFails(t) ==
    /\ Faults /\ phase[t] = "fund"
    /\ Goto(t, "look")
    /\ quiet' = quiet \ {t}
    /\ UNCHANGED <<chainVars, locals, before>>

\* MUTANT of LookAtPool: the account at hand is taken to be in the pool.
LookAtPoolLess(t) ==
    /\ phase[t] = "look"
    /\ hint' = [hint EXCEPT ![t] = Cardinality(pool) - 1]
    /\ Goto(t, IF now[t] \in pool THEN "lookUp" ELSE "signJoin")
    /\ UNCHANGED <<chainVars, asked, rest, now, key, signed>> /\ Untroubled

\* MUTANT of LookAtPool: a candidate is taken to be registered.
LookAtPoolOnly(t) ==
    /\ phase[t] = "look"
    /\ Goto(t, IF now[t] \in pool THEN "next" ELSE "signJoin")
    /\ UNCHANGED <<chainVars, locals>> /\ Untroubled

LookAtPool(t) ==
    /\ phase[t] = "look"
    /\ hint' = [hint EXCEPT ![t] = Cardinality(pool)]
    /\ Goto(t, IF now[t] \in pool THEN "lookUp" ELSE "signJoin")
    /\ UNCHANGED <<chainVars, asked, rest, now, key, signed>> /\ Untroubled

\* create_signed_extrinsic takes the nonce from the chain's state, whatever is
\* in the transaction pool.
Sign(t, here, there) ==
    /\ phase[t] = here
    /\ signed' = [signed EXCEPT ![t] = nonce[now[t]]]
    /\ Goto(t, there)
    /\ UNCHANGED <<chainVars, asked, rest, now, hint, key>> /\ Untroubled

\* (external) An extrinsic enters the pool if its nonce has not been used and
\* the account can pay; one with the nonce of another is refused or replaces it.
Entering(n, e) ==
    IF n \notin rich \/ e.nonce < nonce[n] THEN {mempool[n]}
    ELSE IF mempool[n] = {} THEN {{e}} ELSE {mempool[n], {e}}

Joining(t) == [nonce |-> signed[t], join |-> TRUE, hint |-> hint[t], key |-> NoKey]
Mapping(t) == [nonce |-> signed[t], join |-> FALSE, hint |-> 0, key |-> key[t]]

\* substrate_call with wait=False, and catching what submission raises: the next
\* step follows in any case.
SendJoin(t) ==
    /\ phase[t] = "sendJoin"
    /\ \E e \in Entering(now[t], Joining(t)) : mempool' = [mempool EXCEPT ![now[t]] = e]
    /\ Goto(t, "lookUp")
    /\ UNCHANGED <<pool, mapping, rich, nonce, store, locals>> /\ Untroubled

\* MUTANT of LookUpMapping: keys are rotated and associated in any case.
LookUpMappingAnyway(t) ==
    /\ phase[t] = "lookUp"
    /\ Goto(t, "rotate")
    /\ UNCHANGED <<chainVars, locals>> /\ Untroubled

\* Only an account without an association gets one.
LookUpMapping(t) ==
    /\ phase[t] = "lookUp" /\ ~Associated(now[t])
    /\ Goto(t, "rotate")
    /\ UNCHANGED <<chainVars, locals>> /\ Untroubled

HasMapping(t) ==
    /\ phase[t] = "lookUp" /\ Associated(now[t])
    /\ NodeDone(t)
    /\ UNCHANGED <<chainVars, quiet>>

\* MUTANT of RotateKeys: the call goes to another of the task's nodes.
RotateKeysElsewhere(t) ==
    /\ phase[t] = "rotate"
    /\ \E n \in asked[t] : store' = [store EXCEPT ![n] = @ \cup {t}]
    /\ key' = [key EXCEPT ![t] = t]
    /\ Goto(t, "signKey")
    /\ UNCHANGED <<pool, mapping, rich, nonce, mempool, asked, rest, now, hint, signed>>
    /\ Untroubled

RotateKeys(t) ==
    /\ phase[t] = "rotate"
    /\ store' = [store EXCEPT ![now[t]] = @ \cup {t}]
    /\ key' = [key EXCEPT ![t] = t]
    /\ Goto(t, "signKey")
    /\ UNCHANGED <<pool, mapping, rich, nonce, mempool, asked, rest, now, hint, signed>>
    /\ Untroubled

SendKey(t) ==
    /\ phase[t] = "sendKey"
    /\ \E e \in Entering(now[t], Mapping(t)) : mempool' = [mempool EXCEPT ![now[t]] = e]
    /\ NodeDone(t)
    /\ UNCHANGED <<pool, mapping, rich, nonce, store, quiet>>

\* A submission fails and is caught: the extrinsic is in the pool or is not.
SendFails(t) ==
    /\ Faults
    /\ quiet' = quiet \ {t}
    /\ \/ phase[t] = "sendJoin" /\ Goto(t, "lookUp") /\ UNCHANGED <<locals, before>>
       \/ phase[t] = "sendKey" /\ NodeDone(t)
    /\ UNCHANGED chainVars

\* Any other call raises, which ends the node: only a transfer and a rotation
\* may have had their effect.
CallFails(t) ==
    /\ Faults
    /\ phase[t] \in Steps \ {"sendJoin", "sendKey"}
    /\ NodeDone(t)
    /\ quiet' = quiet \ {t}
    /\ rich' \in {rich} \cup {rich \cup {n} : n \in {now[t] : p \in {phase[t]} \cap {"fund"}}}
    /\ \/ UNCHANGED store
       \/ phase[t] = "rotate" /\ store' = [store EXCEPT ![now[t]] = @ \cup {t}]
    /\ UNCHANGED <<pool, mapping, nonce, mempool>>

TaskDone(t) ==
    /\ phase[t] = "next" /\ rest[t] = {}
    /\ Goto(t, "done")
    /\ UNCHANGED <<chainVars, locals>> /\ Untroubled

\* The worker process is killed.
TaskDies(t) ==
    /\ Faults
    /\ phase[t] \in Active
    /\ Goto(t, "dead")
    /\ quiet' = quiet \ {t}
    /\ rest' = [rest EXCEPT ![t] = {}] /\ now' = [now EXCEPT ![t] = NoNode]
    /\ hint' = [hint EXCEPT ![t] = 0] /\ key' = [key EXCEPT ![t] = NoKey]
    /\ signed' = [signed EXCEPT ![t] = 0]
    /\ UNCHANGED <<chainVars, asked, before>>

-----------------------------------------------------------------------------
\* (external) A block includes an extrinsic. Joining takes at least as many
\* candidates in the hint as there are; a second association may be beyond the
\* account's deposit.
Include(n, e) ==
    /\ e \in mempool[n]
    /\ mempool' = [mempool EXCEPT ![n] = {}]
    /\ nonce' = [nonce EXCEPT ![n] = @ + 1]
    /\ pool' = IF e.join /\ e.hint >= Cardinality(pool) THEN pool \cup {n} ELSE pool
    /\ \/ ~e.join /\ mapping' = mapping \cup {<<n, e.key>>}
       \/ (e.join \/ Associated(n)) /\ UNCHANGED mapping
    /\ UNCHANGED <<rich, store, phase, locals>> /\ Untroubled

\* (external) The transaction pool of a restarted node is empty.
Forget(n) ==
    /\ Faults /\ mempool[n] # {}
    /\ mempool' = [mempool EXCEPT ![n] = {}]
    /\ quiet' = {}
    /\ UNCHANGED <<pool, mapping, rich, nonce, store, phase, locals, before>>

TaskStep(t) ==
    \/ \E n \in Node : Take(t, n)
    \/ Fund(t) \/ LookAtPool(t)
    \/ Sign(t, "signJoin", "sendJoin") \/ SendJoin(t)
    \/ LookUpMapping(t) \/ HasMapping(t) \/ RotateKeys(t)
    \/ Sign(t, "signKey", "sendKey") \/ SendKey(t)
    \/ TaskDone(t)

Fault(t) == FundFails(t) \/ SendFails(t) \/ CallFails(t) \/ TaskDies(t)

Next ==
    \/ \E t \in Task :
          \/ \E nodes \in SUBSET Node \ {{}} : Begin(t, nodes)
          \/ NothingDone(t)
          \/ TaskStep(t) \/ Fault(t)
    \/ \E n \in Node : Forget(n) \/ \E e \in mempool[n] : Include(n, e)

Spec == Init /\ [][Next]_vars

-----------------------------------------------------------------------------
(* Properties *)

\* Every variable has its type: a count of candidates is never negative, an
\* extrinsic under way is complete.
TypeOK ==
    /\ pool \subseteq Node /\ mapping \subseteq Node \X Key /\ rich \subseteq Node
    /\ nonce \in [Node -> Nat] /\ store \in [Node -> SUBSET Key]
    /\ mempool \in [Node -> SUBSET Extrinsic]
    /\ phase \in [Task -> {"idle", "done", "dead"} \cup Active]
    /\ asked \in [Task -> SUBSET Node] /\ rest \in [Task -> SUBSET Node]
    /\ now \in [Task -> Node \cup {NoNode}]
    /\ hint \in [Task -> Nat] /\ signed \in [Task -> Nat]
    /\ key \in [Task -> Key \cup {NoKey}]
    /\ quiet \subseteq Task /\ before \in [Task -> Nat]

\* The keys associated with a collator's account are keys its own node holds,
\* whatever was lost, replaced or delayed.
AssociationsHeldByNode == \A n \in Node, k \in Key : <<n, k>> \in mapping => k \in store[n]

\* A registration that nothing disturbs, once its extrinsics are through, has
\* brought its nodes further, if they were not all registered before: repeated
\* requests end with every node a candidate and associated, although one request
\* may lose extrinsics to its own nonce and to its own count of candidates.
QuietRegistrationAdvances ==
    \A t \in quiet :
        phase[t] = "done" /\ (\A n \in asked[t] : mempool[n] = {})
            => \/ InPlace(asked[t]) > before[t]
               \/ \A n \in asked[t] : n \in pool /\ Associated(n)

\* An account gets a second association only when some request for it was
\* disturbed.
QuietAssociateOnce ==
    \A n \in Node :
        (\A t \in Task : n \in asked[t] => t \in quiet)
            => \A j, k \in Key : {<<n, j>>, <<n, k>>} \subseteq mapping => j = k
=============================================================================
