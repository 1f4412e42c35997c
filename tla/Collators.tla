------------------------------ MODULE Collators ------------------------------
(***************************************************************************)
(* The collators of one parachain: what collator_register and              *)
(* collator_deregister of app/lib/collator_manager.py make of a request,   *)
(* by the label chain of the nodes' pods.  MintCollators is what happens   *)
(* on a chain with pallet CollatorSelection, MoonCollators on a moonbeam   *)
(* chain.  On tick chains and on all others no more is done than to set    *)
(* keys when this is asked for.                                            *)
(***************************************************************************)
EXTENDS MintCollators

CONSTANTS OldKey, NoKey   \* of MoonCollators

\* The kinds of label that collator_register tells apart, by how it begins or ends.
Chain == {"moon", "tick", "mint", "other"}

VARIABLES
    chain,   \* the label, which does not change
    pool, mapping, rich, nonce, mempool, store,
    phase, asked, rest, now, hint, key, signed, quiet, before

Moon == INSTANCE MoonCollators

moonVars == <<pool, mapping, rich, nonce, mempool, store,
              phase, asked, rest, now, hint, key, signed, quiet, before>>
allVars == <<vars, chain, moonVars>>

CollatorsInit ==
    /\ chain \in Chain
    /\ Init /\ Moon!Init
    /\ chain # "mint" => candidates = {}
    /\ chain = "moon" => funded = {} /\ keystore = [n \in Node |-> {}]
    /\ chain # "moon" => pool = {} /\ mapping = {}

\* Requests, and what becomes of them, on a chain with CollatorSelection.
MintStep ==
    /\ chain = "mint"
    /\ Next
    /\ UNCHANGED <<chain, moonVars>>

\* Registrations on a moonbeam chain.
MoonStep ==
    /\ chain = "moon"
    /\ Moon!Next
    /\ UNCHANGED <<chain, vars>>

\* For an unknown chain collator_register logs an error and answers None; for a
\* tick chain inject_key is given a keypair where it expects the text it makes
\* one of, and raises before it calls the node.  Deregistration is not
\* implemented for either.
Futile(t) ==
    /\ chain \in {"tick", "other"}
    /\ pc[t] = "idle"
    /\ Moon!NothingDone(t)
    /\ UNCHANGED <<chain, vars>>

\* set_collator_nodes_keys_on_chain does not ask for the label: keys are set on
\* tick and unknown chains too.  (On a moonbeam chain the account it derives is
\* no account: reading its balance raises.)
SetKeysStep(t) ==
    /\ chain \in {"tick", "other"}
    /\ phase[t] = "idle"
    /\ \/ \E nodes \in SUBSET Node : Begin(t, "setKeys", nodes)
       \/ SetKeysOfStatefulSet(t)
       \/ TaskStep(t) \/ CallFails(t) \/ TaskDies(t)
    /\ UNCHANGED <<chain, moonVars>>

CollatorsNext ==
    \/ MintStep \/ MoonStep
    \/ \E t \in Task : Futile(t) \/ SetKeysStep(t)

CollatorsSpec == CollatorsInit /\ [][CollatorsNext]_allVars

-----------------------------------------------------------------------------
(* Properties of the composition, and of the moonbeam part *)

\* Every variable has its type: in particular no count of candidates, asked for
\* over XCM or named by a join, is negative.
TypesOK == TypeOK /\ Moon!TypeOK

\* The keys associated with a collator's account are keys its own node holds.
AssociationsHeldByNode == Moon!AssociationsHeldByNode

\* A registration that nothing disturbs brings its nodes further, so that
\* repeated requests complete what one request leaves undone.
QuietRegistrationAdvances == Moon!QuietRegistrationAdvances

\* An account gets a second association only when some request was disturbed.
QuietAssociateOnce == Moon!QuietAssociateOnce
=============================================================================
