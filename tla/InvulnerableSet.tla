--------------------------- MODULE InvulnerableSet ---------------------------
(***************************************************************************)
(* What the invulnerables endpoints promise of a parachain's list of       *)
(* invulnerable collators.  A request adds or removes the accounts it      *)
(* names and no other, at one instant, or has no effect at all; a request  *)
(* to a deprecated endpoint may instead take a copy of the list first, and *)
(* then replaces the list by its changed copy.  Every request is answered. *)
(***************************************************************************)
CONSTANTS Request, Account

VARIABLES
    members,   \* CollatorSelection.Invulnerables
    add,       \* [Request -> SUBSET Account]: accounts a request adds
    remove,    \* [Request -> SUBSET Account]: accounts a request removes
    copy,      \* [Request -> SUBSET Account]: the list as it was copied
    status     \* [Request -> {"idle", "open", "copied", "over"}]

vars == <<members, add, remove, copy, status>>

None == [r \in Request |-> {}]

Init ==
    /\ members \in SUBSET Account
    /\ add = None /\ remove = None /\ copy = None
    /\ status = [r \in Request |-> "idle"]

Ask(r) ==
    /\ status[r] = "idle"
    /\ status' = [status EXCEPT ![r] = "open"]
    /\ \E as \in SUBSET Account :
          \/ add' = [add EXCEPT ![r] = as] /\ UNCHANGED remove
          \/ remove' = [remove EXCEPT ![r] = as] /\ UNCHANGED add
    /\ UNCHANGED <<members, copy>>

Copy(r) ==
    /\ status[r] = "open"
    /\ status' = [status EXCEPT ![r] = "copied"]
    /\ copy' = [copy EXCEPT ![r] = members]
    /\ UNCHANGED <<members, add, remove>>

Answer(r) ==
    /\ status[r] \in {"open", "copied"}
    /\ \/ members' = ((IF status[r] = "open" THEN members ELSE copy[r])
                          \cup add[r]) \ remove[r]
       \/ UNCHANGED members
    /\ status' = [status EXCEPT ![r] = "over"]
    /\ copy' = [copy EXCEPT ![r] = {}]
    /\ UNCHANGED <<add, remove>>

Next == \E r \in Request : Ask(r) \/ Copy(r) \/ Answer(r)

Spec == Init /\ [][Next]_vars
FairSpec == Spec /\ \A r \in Request : WF_vars(Answer(r))
=============================================================================
