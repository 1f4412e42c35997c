---------------------------- MODULE Invulnerables ----------------------------
(***************************************************************************)
(* The endpoints that change a parachain's invulnerable collators          *)
(* (app/routers/apis.py, app/lib/network_utils.py,                         *)
(* app/lib/collator_manager.py): the deprecated ones read the whole list   *)
(* and send a new one, their replacements send one account to add or to    *)
(* remove.  Either way the call travels as an XCM message from the relay   *)
(* chain and is executed on the parachain later, in order.                 *)
(***************************************************************************)
EXTENDS Naturals, Sequences

CONSTANTS
    Task,             \* requests, each a background task
    Node, Account,
    CollatorAccount,  \* [Node -> Account \cup {NoAccount}]: of get_substrate_node
    NoAccount,
    Endpoint,         \* the endpoints in use
    Faults            \* TRUE: tasks may die, messages fail to be sent or executed

Single == {"add_invulnerable", "remove_invulnerable"}
List == {"add_invulnerables", "remove_invulnerables"}
Adding == {"add_invulnerable", "add_invulnerables"}

ASSUME EndpointAssumption == Endpoint \subseteq Single \cup List
ASSUME NodeAssumption ==
    /\ CollatorAccount \in [Node -> Account \cup {NoAccount}]
    /\ NoAccount \notin Account
    /\ Faults \in BOOLEAN

VARIABLES
    members,      \* CollatorSelection.Invulnerables of the parachain
    xcm,          \* messages under way to the parachain
    pc,
    kind,         \* the endpoint the task serves
    add, remove,  \* the accounts the request names
    current       \* the list a deprecated endpoint has read
                  \* (kept until the request is over, for the properties)

vars == <<members, xcm, pc, kind, add, remove, current>>

Init ==
    /\ members \in SUBSET Account
    /\ xcm = << >>
    /\ pc = [t \in Task |-> "idle"]
    /\ kind = [t \in Task |-> "none"]
    /\ add = [t \in Task |-> {}] /\ remove = [t \in Task |-> {}]
    /\ current = [t \in Task |-> {}]

-----------------------------------------------------------------------------
Ask(t, e, as, first) ==
    /\ pc[t] = "idle" /\ e \in Endpoint
    /\ kind' = [kind EXCEPT ![t] = e]
    /\ pc' = [pc EXCEPT ![t] = first]
    /\ IF e \in Adding
       THEN add' = [add EXCEPT ![t] = as] /\ UNCHANGED remove
       ELSE remove' = [remove EXCEPT ![t] = as] /\ UNCHANGED add
    /\ UNCHANGED <<members, xcm, current>>

\* The deprecated endpoints take any nodes and addresses; a node without a
\* collator account is left out.
AskList(t, e, nodes, addresses) ==
    /\ e \in List /\ nodes \cup addresses # {}
    /\ Ask(t, e, ({CollatorAccount[n] : n \in nodes} \ {NoAccount}) \cup addresses, "read")

\* MUTANT of AskNode: a node without a collator account is not refused.
AskAnyNode(t, e, n) ==
    /\ e \in Single
    /\ Ask(t, e, {CollatorAccount[n]}, "send")

\* One node or one address.
AskNode(t, e, n) ==
    /\ e \in Single /\ CollatorAccount[n] # NoAccount
    /\ Ask(t, e, {CollatorAccount[n]}, "send")

AskAddress(t, e, a) ==
    /\ e \in Single
    /\ Ask(t, e, {a}, "send")

\* get_collator_selection_invulnerables
ReadInvulnerables(t) ==
    /\ pc[t] = "read"
    /\ current' = [current EXCEPT ![t] = members]
    /\ pc' = [pc EXCEPT ![t] = "send"]
    /\ UNCHANGED <<members, xcm, kind, add, remove>>

Send(t, message) ==
    /\ xcm' = Append(xcm, message)
    /\ pc' = [pc EXCEPT ![t] = "sent"]
    /\ UNCHANGED <<members, kind, add, remove, current>>

\* MUTANT of SendList: removal forgets the difference.
SendUnion(t) ==
    /\ pc[t] = "send" /\ kind[t] \in List
    /\ Send(t, [task |-> t, call |-> "set_invulnerables",
                accounts |-> current[t] \cup add[t] \cup remove[t]])

\* set_collator_selection_invulnerables with the list made from the one read.
SendList(t) ==
    /\ pc[t] = "send" /\ kind[t] \in List
    /\ Send(t, [task |-> t, call |-> "set_invulnerables",
                accounts |-> (current[t] \cup add[t]) \ remove[t]])

\* MUTANT of SendOne: the removal endpoint sends the call of the other one.
SendAddition(t) ==
    /\ pc[t] = "send" /\ kind[t] \in Single
    /\ Send(t, [task |-> t, call |-> "add_invulnerable", accounts |-> add[t] \cup remove[t]])

\* add_collator_selection_invulnerable, remove_collator_selection_invulnerable
SendOne(t) ==
    /\ pc[t] = "send" /\ kind[t] \in Single
    /\ Send(t, [task |-> t, call |-> kind[t], accounts |-> add[t] \cup remove[t]])

\* No collator answers, a call raises or the relay chain refuses the message.
TaskDies(t) ==
    /\ Faults
    /\ pc[t] \in {"read", "send"}
    /\ pc' = [pc EXCEPT ![t] = "over"]
    /\ current' = [current EXCEPT ![t] = {}]
    /\ UNCHANGED <<members, xcm, kind, add, remove>>

\* (external) The parachain takes the next message; its call has its effect,
\* or fails, for instance when too few invulnerables would be left.
Effect(message) ==
    CASE message.call = "add_invulnerable"    -> members \cup message.accounts
      [] message.call = "remove_invulnerable" -> members \ message.accounts
      [] message.call = "set_invulnerables"   -> message.accounts

Deliver ==
    /\ xcm # << >>
    /\ xcm' = Tail(xcm)
    /\ pc' = [pc EXCEPT ![Head(xcm).task] = "over"]
    /\ current' = [current EXCEPT ![Head(xcm).task] = {}]
    /\ members' \in {Effect(Head(xcm))} \cup (IF Faults THEN {members} ELSE {})
    /\ UNCHANGED <<kind, add, remove>>

-----------------------------------------------------------------------------
TaskStep(t) == ReadInvulnerables(t) \/ SendList(t) \/ SendOne(t)

Next ==
    \/ \E t \in Task, e \in Endpoint :
          \/ \E nodes \in SUBSET Node, as \in SUBSET Account : AskList(t, e, nodes, as)
          \/ \E n \in Node : AskNode(t, e, n)
          \/ \E a \in Account : AskAddress(t, e, a)
    \/ \E t \in Task : TaskStep(t) \/ TaskDies(t)
    \/ Deliver

Spec == Init /\ [][Next]_vars

\* Tasks are resumed and the parachain executes what it is sent.
FairSpec ==
    /\ Spec
    /\ \A t \in Task : WF_vars(TaskStep(t))
    /\ WF_vars(Deliver)

-----------------------------------------------------------------------------
(* Properties *)

\* A message under way.
Message == [task : Task, call : Single \cup {"set_invulnerables"}, accounts : SUBSET Account]

\* Every variable has its type.
TypeOK ==
    /\ members \subseteq Account
    /\ xcm \in Seq(Message)
    /\ pc \in [Task -> {"idle", "read", "send", "sent", "over"}]
    /\ kind \in [Task -> Endpoint \cup {"none"}]
    /\ add \in [Task -> SUBSET Account] /\ remove \in [Task -> SUBSET Account]
    /\ current \in [Task -> SUBSET Account]

\* Each request takes effect as InvulnerableSet says, at the moment its
\* message is executed and whatever overtook it before: one account, or the
\* whole list as it was when the deprecated endpoint read it.
Status(t) ==
    CASE pc[t] \in {"idle", "over"}                      -> pc[t]
      [] pc[t] \in {"send", "sent"} /\ kind[t] \in List -> "copied"
      [] OTHER                                           -> "open"
Promise == INSTANCE InvulnerableSet WITH
    Request <- Task, copy <- current, status <- [t \in Task |-> Status(t)]
ImplementsPromise == Promise!FairSpec

\* A deprecated request whose list nothing has changed between its read and
\* the execution of its message changes exactly the accounts it names.
UndisturbedListIsPrecise ==
    [][\A t \in Task :
          pc[t] = "sent" /\ pc'[t] = "over" /\ kind[t] \in List /\ members = current[t]
              => members' \in {members, (members \cup add[t]) \ remove[t]}]_vars
=============================================================================
