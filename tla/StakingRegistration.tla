------------------------ MODULE StakingRegistration ------------------------
(***************************************************************************)
(* What the validator endpoints promise of a proof-of-stake relay chain.   *)
(* A request names accounts and concerns no others.  On behalf of a        *)
(* registration an account may be bonded, get keys of its own node and     *)
(* become a candidate, in one step each of whose parts may be missing, but *)
(* nothing is done for an account that is left unbonded, and none becomes  *)
(* a candidate without keys unless its node is silent.  A deregistration   *)
(* ends candidacies, and neither bonds nor keys.                           *)
(***************************************************************************)
CONSTANTS
    Request, Account,
    Silent      \* accounts whose node may not tell its keys

VARIABLES
    inOffice,   \* the session's validators
    next,       \* those of the next session
    candidates, \* those who stand for election
    bonded,     \* accounts with a stake
    keys,       \* [Account -> KeyKind]
    request,    \* [Request -> what it asks for, or "idle" or "over"]
    named       \* [Request -> accounts an open request is about]

chain == <<inOffice, next, candidates, bonded, keys>>
vars == <<request, named, chain>>

\* "lost" would be keys that the account's node does not hold.
KeyKind == {"none", "node", "operator", "lost"}
Asked == {"register", "deregister"}
Part == {"bond", "set_keys", "validate"}
Keyed == {a \in Account : keys[a] # "none"}

Init ==
    /\ inOffice \subseteq Account /\ next = inOffice
    /\ candidates = inOffice /\ bonded = inOffice
    /\ keys = [a \in Account |-> IF a \in inOffice THEN "operator" ELSE "none"]
    /\ request = [r \in Request |-> "idle"]
    /\ named = [r \in Request |-> {}]

Ask(r) ==
    /\ request[r] = "idle"
    /\ \E what \in Asked : request' = [request EXCEPT ![r] = what]
    /\ \E as \in SUBSET Account : named' = [named EXCEPT ![r] = as]
    /\ UNCHANGED chain

\* What a set-up of account a has done when these of its parts have.
Gets(a, parts) ==
    /\ bonded' = IF "bond" \in parts THEN bonded \cup {a} ELSE bonded
    /\ keys' = IF "set_keys" \in parts THEN [keys EXCEPT ![a] = "node"] ELSE keys
    /\ candidates' = IF "validate" \in parts THEN candidates \cup {a} ELSE candidates
    /\ parts # {} => a \in bonded'
    /\ "set_keys" \in parts => keys[a] \in {"none", "node"}
    /\ "validate" \in parts => a \in Keyed' \cup Silent

SetUp(r) ==
    /\ request[r] = "register"
    /\ UNCHANGED <<inOffice, next, request, named>>
    /\ \E a \in named[r], parts \in SUBSET Part : Gets(a, parts)

Dismiss(r) ==
    /\ request[r] = "deregister"
    /\ \E a \in named[r] : candidates' = candidates \ {a}
    /\ UNCHANGED <<inOffice, next, bonded, keys, request, named>>

Answer(r) ==
    /\ request[r] \in Asked
    /\ request' = [request EXCEPT ![r] = "over"]
    /\ named' = [named EXCEPT ![r] = {}]
    /\ UNCHANGED chain

NewSession ==
    /\ UNCHANGED <<candidates, bonded, keys, request, named>>
    /\ inOffice' = next
    /\ next' \in {next} \cup SUBSET (candidates \cap Keyed)

Next ==
    \/ \E r \in Request : Ask(r) \/ SetUp(r) \/ Dismiss(r) \/ Answer(r)
    \/ NewSession

Spec == Init /\ [][Next]_vars
FairSpec == Spec /\ \A r \in Request : WF_vars(Answer(r))
=============================================================================
