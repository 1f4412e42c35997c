----------------------------- MODULE CallLists -----------------------------
(***************************************************************************)
(* What a request to the relay chain promises: it makes the calls of its   *)
(* list in their order, and each at most once.  A checked request goes on  *)
(* to its next call, and ends well, only when a block has included the     *)
(* last one, and, for a call whose report vouches for its effect, when it  *)
(* has taken effect.  A request may stop anywhere; calls it has come to    *)
(* may then still be included, and no others.                              *)
(***************************************************************************)
EXTENDS Naturals

CONSTANTS
    Job,
    Length,     \* [Job -> number of calls]
    Checked,    \* jobs that look at what became of a call
    Vouched     \* calls whose report tells whether they took effect

VARIABLES
    status,     \* [Job -> "none", "running", "ok" or "stopped"]
    at,         \* [Job -> number of the call it has come to]
    included,   \* calls that are in a block
    effected    \* those of them that did what they are for

vars == <<status, at, included, effected>>

Init ==
    /\ status = [j \in Job |-> "none"] /\ at = [j \in Job |-> 0]
    /\ included = {} /\ effected = {}

Take(j) ==
    /\ status[j] = "none"
    /\ status' = [status EXCEPT ![j] = "running"]
    /\ at' = [at EXCEPT ![j] = 1]
    /\ UNCHANGED <<included, effected>>

Settled(c) == c \in included /\ (c \in Vouched => c \in effected)

MayProceed(j) == status[j] = "running" /\ (j \in Checked => Settled(<<j, at[j]>>))

Proceed(j) ==
    /\ MayProceed(j) /\ at[j] < Length[j]
    /\ at' = [at EXCEPT ![j] = @ + 1]
    /\ UNCHANGED <<status, included, effected>>

Complete(j) ==
    /\ MayProceed(j) /\ at[j] = Length[j]
    /\ status' = [status EXCEPT ![j] = "ok"]
    /\ UNCHANGED <<at, included, effected>>

Stop(j) ==
    /\ status[j] = "running"
    /\ status' = [status EXCEPT ![j] = "stopped"]
    /\ UNCHANGED <<at, included, effected>>

Happens(j) ==
    /\ \E k \in 1..at[j] :
          /\ <<j, k>> \notin included
          /\ included' = included \cup {<<j, k>>}
          /\ effected' \in {effected, effected \cup {<<j, k>>}}
    /\ UNCHANGED <<status, at>>

Next == \E j \in Job : Take(j) \/ Proceed(j) \/ Complete(j) \/ Stop(j) \/ Happens(j)

Spec == Init /\ [][Next]_vars
=============================================================================
