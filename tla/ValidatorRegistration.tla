----------------------- MODULE ValidatorRegistration -----------------------
(***************************************************************************)
(* What the validator endpoints promise of a proof-of-authority relay      *)
(* chain.  A request names accounts and concerns no others.  On behalf of  *)
(* a registration or a rotation their keys may be replaced by keys of      *)
(* their own nodes, never an operator's keys; a registration puts up, at   *)
(* one instant, some of the accounts it names that have keys (all of them, *)
(* keys or not, when it names them by address), a deregistration retires   *)
(* some of those it names.  Every request is over in the end.              *)
(***************************************************************************)
CONSTANTS Request, Account

VARIABLES
    inOffice,  \* the session's validators
    next,      \* those of the next session
    adding,    \* put up for the session after
    retiring,  \* to leave with it
    keys,      \* [Account -> KeyKind]
    request,   \* [Request -> what it asks for, or "idle" or "over"]
    named      \* [Request -> accounts an open request is about]

vars == <<inOffice, next, adding, retiring, keys, request, named>>

\* "lost" would be keys that the account's node does not hold.
KeyKind == {"none", "node", "operator", "lost"}
Asked == {"register", "registerAddr", "rotate", "deregister", "deregisterAddr"}
Keyed == {a \in Account : keys[a] # "none"}

Init ==
    /\ inOffice \subseteq Account /\ next = inOffice
    /\ adding = {} /\ retiring = {}
    /\ keys = [a \in Account |-> IF a \in inOffice THEN "operator" ELSE "none"]
    /\ request = [r \in Request |-> "idle"]
    /\ named = [r \in Request |-> {}]

Ask(r) ==
    /\ request[r] = "idle"
    /\ \E what \in Asked, as \in SUBSET Account :
          /\ request' = [request EXCEPT ![r] = what]
          /\ named' = [named EXCEPT ![r] = as]
    /\ UNCHANGED <<inOffice, next, adding, retiring, keys>>

GiveKeys(r) ==
    /\ request[r] \in {"register", "rotate"}
    /\ \E a \in named[r] :
          /\ keys[a] \in {"none", "node"}
          /\ keys' = [keys EXCEPT ![a] = "node"]
    /\ UNCHANGED <<inOffice, next, adding, retiring, request, named>>

Over(r) ==
    /\ request' = [request EXCEPT ![r] = "over"]
    /\ named' = [named EXCEPT ![r] = {}]

PutUp(r) ==
    /\ \/ /\ request[r] = "register"
          /\ \E as \in SUBSET (named[r] \cap Keyed) : adding' = adding \cup as
       \/ /\ request[r] = "registerAddr"
          /\ adding' = adding \cup named[r]
    /\ Over(r)
    /\ UNCHANGED <<inOffice, next, retiring, keys>>

Retire(r) ==
    /\ \/ /\ request[r] = "deregister"
          /\ \E as \in SUBSET named[r] : retiring' = retiring \cup as
       \/ /\ request[r] = "deregisterAddr"
          /\ retiring' = retiring \cup named[r]
    /\ Over(r)
    /\ UNCHANGED <<inOffice, next, adding, keys>>

\* Nothing was left to be done, or it could not be done.
GiveUp(r) ==
    /\ request[r] \in Asked
    /\ Over(r)
    /\ UNCHANGED <<inOffice, next, adding, retiring, keys>>

NewSession ==
    /\ inOffice' = next
    /\ \E kept \in SUBSET (adding \cap retiring) :
          next' = (((next \cup adding) \ retiring) \cup kept) \cap Keyed
    /\ adding' = {} /\ retiring' = {}
    /\ UNCHANGED <<keys, request, named>>

Answer(r) == PutUp(r) \/ Retire(r) \/ GiveUp(r)

Next ==
    \/ \E r \in Request : Ask(r) \/ GiveKeys(r) \/ Answer(r)
    \/ NewSession

Spec == Init /\ [][Next]_vars
FairSpec == Spec /\ \A r \in Request : WF_vars(Answer(r))
=============================================================================
