---------------------------- MODULE ParaRequests ----------------------------
(***************************************************************************)
(* What onboarding and offboarding promise.  A request names paras and     *)
(* concerns no others; a run of the scheduler may concern any.  For each   *)
(* of them it does one thing, once, or nothing at all: a para that is not  *)
(* on the relay chain is given a lease and the genesis of a node that runs *)
(* it, or one that is a parachain or a parathread is taken off.  What has  *)
(* begun is finished by the second session, and nothing interrupts it.     *)
(***************************************************************************)
EXTENDS Naturals

CONSTANTS
    Request, Para,
    None,       \* the lifecycle of a para the relay chain does not know
    Hosted      \* paras that a node of the cluster runs

VARIABLES
    life,       \* [Para -> lifecycle]
    due,        \* sessions until a para's change is finished, 0 when there is none
    leased,     \* paras with a lease
    head,       \* the para whose node gave a para its genesis
    request,    \* [Request -> what it asks for, or "idle" or "over"]
    left        \* [Request -> paras it may still do something for]

chain == <<life, due, leased, head>>
vars == <<chain, request, left>>

Asked == {"onboard", "offboard", "cron"}

Init ==
    /\ life \in [Para -> {None, "Parachain"}]
    /\ due = [p \in Para |-> 0]
    /\ leased = {p \in Para : life[p] # None}
    /\ head = [p \in Para |-> None]
    /\ request = [r \in Request |-> "idle"]
    /\ left = [r \in Request |-> {}]

Ask(r) ==
    /\ request[r] = "idle"
    /\ \E what \in Asked : request' = [request EXCEPT ![r] = what]
    /\ \E ps \in SUBSET Para : left' = [left EXCEPT ![r] = ps]
    /\ UNCHANGED chain

\* Nothing is to be done, or can be done, for some of the paras.
Skip(r) ==
    /\ \E ps \in SUBSET left[r] : left' = [left EXCEPT ![r] = ps]
    /\ UNCHANGED <<chain, request>>

\* Para p is through with its change after one more session, or after two.
Start(p, change) ==
    /\ life' = [life EXCEPT ![p] = change]
    /\ \E n \in {1, 2} : due' = [due EXCEPT ![p] = n]

Onboard(r) ==
    /\ request[r] \in {"onboard", "cron"}
    /\ \E p \in left[r] \cap Hosted :
          /\ life[p] = None
          /\ Start(p, "Onboarding")
          /\ leased' = leased \cup {p} /\ head' = [head EXCEPT ![p] = p]
          /\ left' = [left EXCEPT ![r] = @ \ {p}]
    /\ UNCHANGED request

Offboard(r) ==
    /\ request[r] = "offboard"
    /\ \E p \in left[r] \cap Hosted :
          /\ life[p] \in {"Parachain", "Parathread"}
          /\ Start(p, "Offboarding")
          /\ left' = [left EXCEPT ![r] = @ \ {p}]
    /\ UNCHANGED <<leased, head, request>>

Answer(r) ==
    /\ request[r] \in Asked
    /\ request' = [request EXCEPT ![r] = "over"]
    /\ left' = [left EXCEPT ![r] = {}]
    /\ UNCHANGED chain

Session ==
    /\ life' = [p \in Para |->
                   CASE due[p] = 1 /\ life[p] = "Onboarding"  -> "Parachain"
                     [] due[p] = 1 /\ life[p] = "Offboarding" -> None
                     [] OTHER -> life[p]]
    /\ due' = [p \in Para |-> IF due[p] = 0 THEN 0 ELSE due[p] - 1]
    /\ UNCHANGED <<leased, head, request, left>>

LeaseEnds(p) ==
    /\ p \in leased /\ leased' = leased \ {p}
    /\ life' = IF life[p] = "Parachain" THEN [life EXCEPT ![p] = "Parathread"] ELSE life
    /\ UNCHANGED <<due, head, request, left>>

Next ==
    \/ \E r \in Request : Ask(r) \/ Skip(r) \/ Onboard(r) \/ Offboard(r) \/ Answer(r)
    \/ Session
    \/ \E p \in Para : LeaseEnds(p)

Spec == Init /\ [][Next]_vars
FairSpec == Spec /\ WF_vars(Session) /\ \A r \in Request : WF_vars(Answer(r))
=============================================================================
