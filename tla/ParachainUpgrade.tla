-------------------------- MODULE ParachainUpgrade --------------------------
(***************************************************************************)
(* POST /parachains/{para_id}/runtime/upgrade (parachain_runtime_upgrade   *)
(* in app/lib/parachain_manager.py): authorise the code's hash with an XCM *)
(* message from the relay chain, poll the parachain until it shows an      *)
(* authorisation, then submit the code.                                    *)
(*                                                                         *)
(* The handler never yields, so a request occupies its worker process to   *)
(* the end; requests served by different workers interleave.  The polling  *)
(* loop stops at any authorisation, whoever asked for it.  The parachain's *)
(* System pallet and the XCM transport are external.                       *)
(***************************************************************************)
EXTENDS Naturals, Sequences, FiniteSets

CONSTANTS
    Request,
    Code,        \* runtimes
    Genesis,     \* the parachain's first runtime
    None,        \* no upgrade is authorised
    Workers,     \* number of worker processes (README.md: gunicorn --workers 4)
    MaxPolls,    \* number of polls before the request gives up (30 in the code)
    Faults       \* TRUE: calls and messages may be lost, workers be killed

ASSUME CodeAssumption == Genesis \in Code /\ None \notin Code
ASSUME BoundAssumption ==
    /\ Workers \in Nat \ {0} /\ MaxPolls \in Nat \ {0} /\ Faults \in BOOLEAN

VARIABLES
    runtime,     \* the parachain's code
    authorized,  \* System.AuthorizedUpgrade: a code hash, or None
    xcm,         \* authorize_upgrade messages under way to the parachain
    pc, code,
    polls,       \* polls made so far
    since        \* history: the codes that became the runtime since a request began

chainVars == <<runtime, authorized, xcm>>
vars == <<chainVars, pc, code, polls, since>>

Running == {"authorize", "poll", "apply"}
Answered == {"ok", "refused", "timeout", "rejected", "failed"}

Init ==
    /\ runtime = Genesis /\ authorized = None /\ xcm = << >>
    /\ pc = [r \in Request |-> "idle"]
    /\ code = [r \in Request |-> None]
    /\ polls = [r \in Request |-> 0]
    /\ since = [r \in Request |-> {}]

-----------------------------------------------------------------------------
Goto(r, there) == pc' = [pc EXCEPT ![r] = there]

\* A worker takes the request: there is one that is not busy.
Begin(r, c) ==
    /\ pc[r] = "idle"
    /\ Cardinality({q \in Request : pc[q] \in Running}) < Workers
    /\ code' = [code EXCEPT ![r] = c]
    /\ Goto(r, "authorize")
    /\ UNCHANGED <<chainVars, polls, since>>

Authorize(r) ==
    /\ pc[r] = "authorize"
    /\ xcm' = Append(xcm, code[r])
    /\ Goto(r, "poll")
    /\ UNCHANGED <<runtime, authorized, code, polls, since>>

\* The sudo call is refused, or its receipt is lost although it was included.
AuthorizeFails(r) ==
    /\ Faults
    /\ pc[r] = "authorize"
    /\ xcm' \in {xcm, Append(xcm, code[r])}
    /\ Goto(r, "refused")
    /\ UNCHANGED <<runtime, authorized, code, polls, since>>

\* MUTANT of SeesAuthorization: the value the query returned is not looked at.
SeesAnything(r) ==
    /\ pc[r] = "poll" /\ polls[r] < MaxPolls
    /\ Goto(r, "apply")
    /\ UNCHANGED <<chainVars, code, polls, since>>

SeesAuthorization(r) ==
    /\ pc[r] = "poll" /\ polls[r] < MaxPolls
    /\ authorized # None
    /\ Goto(r, "apply")
    /\ UNCHANGED <<chainVars, code, polls, since>>

\* MUTANT of SeesNothing: the polls are not counted.
SeesNothingUncounted(r) ==
    /\ pc[r] = "poll" /\ polls[r] + 1 < MaxPolls
    /\ authorized = None
    /\ UNCHANGED vars

\* MUTANT of SeesNothing: the authorisation is sent again.
SeesNothingResends(r) ==
    /\ pc[r] = "poll" /\ polls[r] + 1 < MaxPolls
    /\ authorized = None
    /\ polls' = [polls EXCEPT ![r] = @ + 1]
    /\ xcm' = Append(xcm, code[r])
    /\ UNCHANGED <<runtime, authorized, pc, code, since>>

SeesNothing(r) ==
    /\ pc[r] = "poll" /\ polls[r] + 1 < MaxPolls
    /\ authorized = None
    /\ polls' = [polls EXCEPT ![r] = @ + 1]
    /\ UNCHANGED <<chainVars, pc, code, since>>

\* MUTANT of TimesOut: the counter is advanced past the last poll.
TimesOutLate(r) ==
    /\ pc[r] = "poll" /\ polls[r] + 1 = MaxPolls
    /\ authorized = None
    /\ polls' = [polls EXCEPT ![r] = @ + 2]
    /\ Goto(r, "timeout")
    /\ UNCHANGED <<chainVars, code, since>>

\* The last poll sees nothing: the message it waited for stays under way.
TimesOut(r) ==
    /\ pc[r] = "poll" /\ polls[r] + 1 = MaxPolls
    /\ authorized = None
    /\ Goto(r, "timeout")
    /\ UNCHANGED <<chainVars, code, polls, since>>

\* apply_authorized_upgrade is valid only for the authorised code, which it
\* makes the runtime.
Install(r) ==
    /\ authorized = code[r]
    /\ runtime' = code[r]
    /\ authorized' = None
    /\ since' = [q \in Request |->
                    IF pc[q] \in Running THEN since[q] \cup {code[r]} ELSE since[q]]
    /\ UNCHANGED xcm

Apply(r) ==
    /\ pc[r] = "apply"
    /\ Install(r)
    /\ Goto(r, "ok")
    /\ UNCHANGED <<code, polls>>

\* MUTANT of ApplyRejected: the receipt's is_success is not looked at.
ApplyRejectedUnchecked(r) ==
    /\ pc[r] = "apply" /\ authorized # code[r]
    /\ Goto(r, "ok")
    /\ UNCHANGED <<chainVars, code, polls, since>>

ApplyRejected(r) ==
    /\ pc[r] = "apply" /\ authorized # code[r]
    /\ Goto(r, "rejected")
    /\ UNCHANGED <<chainVars, code, polls, since>>

\* The call or its receipt is lost, or the code fails the version check.
ApplyFails(r) ==
    /\ Faults
    /\ pc[r] = "apply"
    /\ \/ Install(r)
       \/ UNCHANGED <<chainVars, since>>
    /\ Goto(r, "failed")
    /\ UNCHANGED <<code, polls>>

\* The worker is killed, or a query raises.
WorkerDies(r) ==
    /\ Faults
    /\ pc[r] \in Running
    /\ Goto(r, "dead")
    /\ UNCHANGED <<chainVars, code, polls, since>>

\* (external) The parachain executes the next message: authorize_upgrade
\* replaces the authorisation there may be.
Deliver ==
    /\ xcm # << >>
    /\ xcm' = Tail(xcm)
    /\ authorized' \in {Head(xcm)} \cup (IF Faults THEN {authorized} ELSE {})
    /\ UNCHANGED <<runtime, pc, code, polls, since>>

-----------------------------------------------------------------------------
RequestStep(r) ==
    \/ Authorize(r) \/ SeesAuthorization(r) \/ SeesNothing(r) \/ TimesOut(r)
    \/ Apply(r) \/ ApplyRejected(r)

Next ==
    \/ \E r \in Request :
          \/ \E c \in Code : Begin(r, c)
          \/ RequestStep(r)
          \/ AuthorizeFails(r) \/ ApplyFails(r) \/ WorkerDies(r)
    \/ Deliver

Spec == Init /\ [][Next]_vars

\* A handler that runs goes on running; nothing is assumed of XCM delivery.
FairSpec == Spec /\ \A r \in Request : WF_vars(RequestStep(r))

-----------------------------------------------------------------------------
(* Properties *)

\* Every variable has its type; no request polls beyond its limit.
TypeOK ==
    /\ runtime \in Code /\ authorized \in Code \cup {None}
    /\ xcm \in Seq(Code)
    /\ pc \in [Request -> {"idle", "dead"} \cup Running \cup Answered]
    /\ code \in [Request -> Code \cup {None}]
    /\ polls \in [Request -> 0 .. MaxPolls - 1]
    /\ since \in [Request -> SUBSET Code]

\* A request that is answered OK has had its code installed since it began,
\* although it may have seen the authorisation of another request, and its own
\* may have been replaced before it was used.
OkMeansInstalled == \A r \in Request : pc[r] = "ok" => code[r] \in since[r]

\* The parachain rejects the code of a request only if a different runtime was
\* asked for by another one, whose authorisation replaced its own, or if the very
\* code has been installed since it began: requests for one and the same runtime
\* may be rejected, but not before it is in place.
RejectedOnlyByInterference ==
    \A r \in Request : pc[r] = "rejected" =>
        \/ code[r] \in since[r]
        \/ \E q \in Request : pc[q] # "idle" /\ code[q] # code[r]

\* Every request is answered, whatever becomes of the messages and however
\* many requests are served beside it, unless its worker dies.
EveryRequestAnswered ==
    \A r \in Request : pc[r] \in Running ~> pc[r] \in Answered \cup {"dead"}

-----------------------------------------------------------------------------
(* What a request promises (INSTANCE): what the parachain has authorised,   *)
(* or will when a message arrives, are the grants that may be used.         *)

Messages(c) == {i \in 1 .. Len(xcm) : xcm[i] = c}
Grants(c) == Cardinality(Messages(c)) + (IF authorized = c THEN 1 ELSE 0)
Status(r) ==
    CASE pc[r] \in {"idle", "ok"} -> pc[r]
      [] pc[r] = "authorize" -> "asked"
      [] pc[r] \in {"poll", "apply"} -> "granted"
      [] OTHER -> "over"

Promise == INSTANCE UpgradeRequests WITH
    Runtime <- Code, First <- Genesis, wanted <- code,
    grants <- [c \in Code |-> Grants(c)],
    request <- [r \in Request |-> Status(r)]

\* Whichever authorisation a request sees, and however late its own arrives, the
\* runtime changes only within a request for that runtime, once, and the request
\* that is answered OK made the change; each authorisation serves one change at
\* most, and one that arrives after its request gave up installs nothing.
ImplementsPromise == Promise!Spec
=============================================================================
