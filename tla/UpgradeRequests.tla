-------------------------- MODULE UpgradeRequests --------------------------
(***************************************************************************)
(* What runtime upgrades of a parachain promise.  A request gets at most   *)
(* one grant for its runtime.  The runtime changes only within a request   *)
(* for that very runtime that was granted and is not over, which ends it,  *)
(* and at the price of a grant for it, though not necessarily of the       *)
(* request's own.  A request that ends otherwise changes nothing then or   *)
(* later, but what was granted to it may serve another; a grant may also   *)
(* be lost.                                                                *)
(***************************************************************************)
EXTENDS Naturals

CONSTANTS Request, Runtime, First, None

VARIABLES
    runtime,
    grants,     \* [Runtime -> number of its grants that may still be used]
    request,    \* [Request -> "idle", "asked", "granted", "ok" or "over"]
    wanted      \* [Request -> a runtime, or None]

vars == <<runtime, grants, request, wanted>>

Open == {"asked", "granted"}

Init ==
    /\ runtime = First /\ grants = [c \in Runtime |-> 0]
    /\ request = [r \in Request |-> "idle"]
    /\ wanted = [r \in Request |-> None]

Ask(r) ==
    /\ request[r] = "idle"
    /\ \E c \in Runtime : wanted' = [wanted EXCEPT ![r] = c]
    /\ request' = [request EXCEPT ![r] = "asked"]
    /\ UNCHANGED <<runtime, grants>>

\* The grant may be given although the request hears nothing of it.
Grant(r) ==
    /\ request[r] = "asked"
    /\ grants' = [grants EXCEPT ![wanted[r]] = @ + 1]
    /\ \E s \in {"granted", "over"} : request' = [request EXCEPT ![r] = s]
    /\ UNCHANGED <<runtime, wanted>>

\* Only a request that ends so may be told that all is well.
Install(r) ==
    /\ request[r] = "granted" /\ grants[wanted[r]] > 0
    /\ runtime' = wanted[r]
    /\ grants' = [grants EXCEPT ![wanted[r]] = @ - 1]
    /\ \E s \in {"ok", "over"} : request' = [request EXCEPT ![r] = s]
    /\ UNCHANGED wanted

GiveUp(r) ==
    /\ request[r] \in Open
    /\ request' = [request EXCEPT ![r] = "over"]
    /\ UNCHANGED <<runtime, grants, wanted>>

Lose(c) ==
    /\ grants[c] > 0
    /\ grants' = [grants EXCEPT ![c] = @ - 1]
    /\ UNCHANGED <<runtime, request, wanted>>

Next ==
    \/ \E r \in Request : Ask(r) \/ Grant(r) \/ Install(r) \/ GiveUp(r)
    \/ \E c \in Runtime : Lose(c)

Spec == Init /\ [][Next]_vars
=============================================================================
