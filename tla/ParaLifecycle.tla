--------------------------- MODULE ParaLifecycle ---------------------------
(***************************************************************************)
(* Onboarding and offboarding of parachains: POST /parachains/onboard and  *)
(* /parachains/offboard, and the scheduler's onboard_inactive_parachains.  *)
(*                                                                         *)
(* Each of them reads the lists of list_parachains (app/lib/               *)
(* network_utils.py) and starts onboard_parachain_by_id or                 *)
(* offboard_parachain_by_id for the ids it judges inactive or active.      *)
(* Neither yields, so the ids of one process follow one another; processes *)
(* (HTTP workers, the scheduler) interleave between remote calls.          *)
(*                                                                         *)
(* An id is a string in the HTTP handlers and an integer in the cron job,  *)
(* which matters: pods are found by comparing it with a label, a string.   *)
(* The relay chain's pallets Paras, Slots, Sudo and Utility are external.  *)
(***************************************************************************)
EXTENDS Naturals, FiniteSets

CONSTANTS
    Task, Pod, Para,
    Zero,        \* para 0: what a missing paraId label counts as
    None,
    ParaOf,      \* the para a collator pod's node runs
    Labelled,    \* pods that carry the label paraId
    Ops,         \* the operations in use
    Asks,        \* the sets of paras a request may name
    Faults       \* TRUE: calls may fail and processes be killed

Type == {"str", "int"}
Id == Para \X Type
Operation == {"onboard", "offboard", "cron"}
Lifecycle == {"Onboarding", "Parathread", "Parachain", "Offboarding"}

ASSUME PodAssumption ==
    /\ ParaOf \in [Pod -> Para] /\ Labelled \subseteq Pod
    /\ Zero \in Para /\ None \notin Para \cup Lifecycle
ASSUME ModeAssumption ==
    /\ Ops \subseteq Operation /\ Asks \subseteq SUBSET Para /\ Faults \in BOOLEAN

VARIABLES
    \* the relay chain
    life,        \* Paras.ParaLifecycles, None when absent
    queue,       \* how many sessions away the actions queued for a para are
    leased,      \* paras with a lease (Slots.Leases)
    head,        \* the para whose node gave a para its genesis head and code
    \* the tasks
    pc, op, force,
    ids,         \* ids asked for, or left to look at
    threads,     \* what get_parathreads_ids returned
    known,       \* para_ids of list_parachains
    para, state, \* the id at hand, and the genesis read for it
    \* history
    failed,      \* tasks one of whose calls failed
    judged,      \* paras a cron run found inactive
    offboarded   \* paras whose offboarding was asked for, or happened

chainVars == <<life, queue, leased, head>>
locals == <<pc, op, force, ids, threads, known, para, state>>
history == <<failed, judged, offboarded>>
vars == <<chainVars, locals, history>>

Reading == {"threads", "chains", "lifecycles"}
Busy == Reading \cup {"next", "pods", "genesis", "initialize", "cleanup"}

NoId == <<None, "str">>

Init ==
    /\ life \in [Para -> {None, "Parachain"}] /\ life[Zero] = None
    /\ queue = [p \in Para |-> {}]
    /\ leased = {p \in Para : life[p] # None}
    /\ head = [p \in Para |-> None]
    /\ pc = [t \in Task |-> "idle"] /\ op = [t \in Task |-> None]
    /\ force = [t \in Task |-> FALSE]
    /\ ids = [t \in Task |-> {}]
    /\ threads = [t \in Task |-> {}] /\ known = [t \in Task |-> {}]
    /\ para = [t \in Task |-> NoId] /\ state = [t \in Task |-> None]
    /\ failed = {} /\ judged = [t \in Task |-> {}] /\ offboarded = {}

-----------------------------------------------------------------------------
(* Pods and their ids *)

\* The label paraId, a string, or nothing.
Label(pod) == IF pod \in Labelled THEN <<ParaOf[pod], "str">> ELSE NoId

\* MUTANT of CollatorPods: the pods are not filtered.
AllCollatorPods(id) == Pod

\* list_collator_pods: an empty or zero id stands for no filter.
CollatorPods(id) ==
    IF id = <<Zero, "int">> THEN Pod ELSE {pod \in Pod : Label(pod) = id}

\* get_parachain_id: the label, or the integer that the node itself reports.
ParachainId(pod) == IF pod \in Labelled THEN Label(pod) ELSE <<ParaOf[pod], "int">>

\* The paras list_parachains finds in the cluster.
InCluster == {IF pod \in Labelled THEN ParaOf[pod] ELSE Zero : pod \in Pod}

-----------------------------------------------------------------------------
Goto(t, there) == pc' = [pc EXCEPT ![t] = there]

Begin(t, o, asked, f) ==
    /\ pc[t] = "idle" /\ o \in Ops
    /\ IF o = "cron" THEN asked = {} /\ f ELSE asked \in Asks
    /\ op' = [op EXCEPT ![t] = o] /\ force' = [force EXCEPT ![t] = f]
    /\ ids' = [ids EXCEPT ![t] = asked \X {"str"}]
    /\ offboarded' = IF o = "offboard" THEN offboarded \cup asked ELSE offboarded
    /\ Goto(t, "threads")
    /\ UNCHANGED <<chainVars, threads, known, para, state, failed, judged>>

\* get_parathreads_ids: every lifecycle but "Parachain"; an entry whose id is
\* 0 is taken for an empty one.
ReadThreads(t) ==
    /\ pc[t] = "threads"
    /\ threads' = [threads EXCEPT ![t] =
                      {p \in Para \ {Zero} : life[p] \notin {None, "Parachain"}}]
    /\ Goto(t, "chains")
    /\ UNCHANGED <<chainVars, op, force, ids, known, para, state, history>>

\* Paras.Parachains: those about to be offboarded are still in it.
ReadChains(t) ==
    /\ pc[t] = "chains"
    /\ known' = [known EXCEPT ![t] =
                    threads[t] \cup {p \in Para : life[p] \in {"Parachain", "Offboarding"}}]
    /\ threads' = [threads EXCEPT ![t] = {}]
    /\ Goto(t, "lifecycles")
    /\ UNCHANGED <<chainVars, op, force, ids, para, state, history>>

\* The paras of the answer that have one of these lifecycles.
SeenIn(t, lifecycles) ==
    {p \in known[t] \ {Zero} : life[p] \in lifecycles}

\* MUTANT of Selected: a para the lists do not name is not looked at.
SelectedOfKnown(t) ==
    CASE op[t] = "onboard"  -> ids[t] \cap ((known[t] \ SeenIn(t, {"Parachain", "Onboarding"})) \X Type)
      [] op[t] = "offboard" -> ids[t] \cap (SeenIn(t, {"Parachain", "Onboarding", "Parathread"}) \X Type)
      [] op[t] = "cron"     -> ((InCluster \cup known[t]) \ SeenIn(t, {"Parachain", "Onboarding"})) \X {"int"}

\* The ids for which a sub-task is started, judged by the last read.
Selected(t) ==
    CASE op[t] = "onboard"  -> ids[t] \ (SeenIn(t, {"Parachain", "Onboarding"}) \X Type)
      [] op[t] = "offboard" -> ids[t] \cap (SeenIn(t, {"Parachain", "Onboarding", "Parathread"}) \X Type)
      [] op[t] = "cron"     -> ((InCluster \cup known[t]) \ SeenIn(t, {"Parachain", "Onboarding"})) \X {"int"}

ReadLifecycles(t) ==
    /\ pc[t] = "lifecycles"
    /\ ids' = [ids EXCEPT ![t] = Selected(t)]
    /\ known' = [known EXCEPT ![t] = {}]
    /\ judged' = IF op[t] = "cron"
               THEN [judged EXCEPT ![t] = {id[1] : id \in Selected(t)}]
               ELSE judged
    /\ Goto(t, "next")
    /\ UNCHANGED <<chainVars, op, force, threads, para, state, failed, offboarded>>

-----------------------------------------------------------------------------
\* MUTANT of NextId: the id is not taken off the list.
NextIdKept(t, id) ==
    /\ pc[t] = "next" /\ id \in ids[t]
    /\ para' = [para EXCEPT ![t] = id]
    /\ Goto(t, "pods")
    /\ UNCHANGED <<chainVars, op, force, ids, threads, known, state, history>>

NextId(t, id) ==
    /\ pc[t] = "next" /\ id \in ids[t]
    /\ ids' = [ids EXCEPT ![t] = @ \ {id}]
    /\ para' = [para EXCEPT ![t] = id]
    /\ Goto(t, "pods")
    /\ UNCHANGED <<chainVars, op, force, threads, known, state, history>>

\* A sub-task returns.
Return(t) ==
    /\ Goto(t, "next")
    /\ para' = [para EXCEPT ![t] = NoId] /\ state' = [state EXCEPT ![t] = None]
    /\ UNCHANGED <<op, force, ids, threads, known>>

\* The handler, or the cron run, is over.
Over(t) ==
    /\ Goto(t, "done")
    /\ op' = [op EXCEPT ![t] = None] /\ force' = [force EXCEPT ![t] = FALSE]
    /\ ids' = [ids EXCEPT ![t] = {}]
    /\ threads' = [threads EXCEPT ![t] = {}] /\ known' = [known EXCEPT ![t] = {}]
    /\ para' = [para EXCEPT ![t] = NoId] /\ state' = [state EXCEPT ![t] = None]

\* A sub-task raises: that ends a cron run, but in a handler only itself.
Raise(t) == IF op[t] = "cron" THEN Over(t) ELSE Return(t)

\* MUTANT of FirstPodMatches: the node's para id is not compared.
FirstPodAny(t, pod) ==
    /\ pc[t] = "pods" /\ op[t] # "offboard"
    /\ pod \in CollatorPods(para[t])
    /\ state' = [state EXCEPT ![t] = ParaOf[pod]]
    /\ Goto(t, "genesis")
    /\ UNCHANGED <<chainVars, op, force, ids, threads, known, para, history>>

\* The first pod of the list runs the para asked for: its head and code are
\* read.
FirstPodMatches(t, pod) ==
    /\ pc[t] = "pods" /\ op[t] # "offboard"
    /\ pod \in CollatorPods(para[t]) /\ ParachainId(pod) = para[t]
    /\ state' = [state EXCEPT ![t] = ParaOf[pod]]
    /\ Goto(t, "genesis")
    /\ UNCHANGED <<chainVars, op, force, ids, threads, known, para, history>>

\* It runs another one, or is not reached when asked which.
FirstPodDiffers(t, pod) ==
    /\ pc[t] = "pods" /\ op[t] # "offboard"
    /\ pod \in CollatorPods(para[t])
    /\ ParachainId(pod) # para[t] \/ (Faults /\ pod \notin Labelled)
    /\ Return(t)
    /\ UNCHANGED <<chainVars, history>>

NoPod(t) ==
    /\ pc[t] = "pods" /\ op[t] # "offboard"
    /\ CollatorPods(para[t]) = {}
    /\ Return(t)
    /\ UNCHANGED <<chainVars, history>>

\* Offboarding goes by the first pod's id; without a pod the [0] raises.
FirstPodNames(t, pod) ==
    /\ pc[t] = "pods" /\ op[t] = "offboard"
    /\ pod \in CollatorPods(para[t])
    /\ para' = [para EXCEPT ![t] = ParachainId(pod)]
    /\ Goto(t, "cleanup")
    /\ UNCHANGED <<chainVars, op, force, ids, threads, known, state, history>>

\* MUTANT of NoPodRaises: the id of the missing pod is None.
NoPodNamesNone(t) ==
    /\ pc[t] = "pods" /\ op[t] = "offboard"
    /\ CollatorPods(para[t]) = {}
    /\ para' = [para EXCEPT ![t] = <<None, "int">>]
    /\ Goto(t, "cleanup")
    /\ UNCHANGED <<chainVars, op, force, ids, threads, known, state, history>>

NoPodRaises(t) ==
    /\ pc[t] = "pods" /\ op[t] = "offboard"
    /\ CollatorPods(para[t]) = {}
    /\ Raise(t)
    /\ failed' = failed \cup {t}
    /\ UNCHANGED <<chainVars, judged, offboarded>>

ReadGenesis(t) ==
    /\ pc[t] = "genesis"
    /\ Goto(t, "initialize")
    /\ UNCHANGED <<chainVars, op, force, ids, threads, known, para, state, history>>

\* The head or the code is not there.
NoGenesis(t) ==
    /\ Faults
    /\ pc[t] = "genesis"
    /\ Return(t)
    /\ failed' = failed \cup {t}
    /\ UNCHANGED <<chainVars, judged, offboarded>>

\* MUTANT of InitializeBatch: force_lease is the first call of the batch.
LeaseFirstBatch(p, g, f) ==
    \/ /\ p \notin leased /\ leased' = leased \cup {p}
       /\ IF life[p] = None
          THEN /\ life' = [life EXCEPT ![p] = "Onboarding"]
               /\ queue' = [queue EXCEPT ![p] = @ \cup {2} \cup (IF f THEN {1} ELSE {})]
               /\ head' = [head EXCEPT ![p] = g]
          ELSE UNCHANGED <<life, queue, head>>
    \/ p \in leased /\ UNCHANGED chainVars

\* sudo(Utility.batch(sudo_schedule_para_initialize, force_lease[, force_queue
\* action])): a batch stops at its first failing call. A para that exists
\* fails the first; one whose lease has not ended fails the second.
InitializeBatch(p, g, f) ==
    \/ /\ life[p] = None
       /\ life' = [life EXCEPT ![p] = "Onboarding"]
       /\ head' = [head EXCEPT ![p] = g]
       /\ queue' = [queue EXCEPT ![p] =
                       @ \cup {2} \cup (IF f /\ p \notin leased THEN {1} ELSE {})]
       /\ leased' = leased \cup {p}
    \/ life[p] # None /\ UNCHANGED chainVars

\* initialize_parachain.
Initialize(t) ==
    /\ pc[t] = "initialize"
    /\ InitializeBatch(para[t][1], state[t], force[t])
    /\ Return(t)
    /\ UNCHANGED history

\* sudo_schedule_para_cleanup refuses a para that is neither a parachain nor a
\* parathread, and accepts one that does not exist.
CleanupBatch(p, f) ==
    \/ /\ life[p] \in {"Parachain", "Parathread", None}
       /\ life' = IF life[p] = None THEN life ELSE [life EXCEPT ![p] = "Offboarding"]
       /\ queue' = [queue EXCEPT ![p] =
                       @ \cup (IF life[p] = None THEN {} ELSE {2}) \cup (IF f THEN {1} ELSE {})]
    \/ life[p] \in {"Onboarding", "Offboarding"} /\ UNCHANGED <<life, queue>>

\* cleanup_parachain.
Cleanup(t) ==
    /\ pc[t] = "cleanup"
    /\ CleanupBatch(para[t][1], force[t])
    /\ Return(t)
    /\ UNCHANGED <<leased, head, history>>

\* Reading the genesis raises.
ReadRaises(t) ==
    /\ Faults
    /\ pc[t] = "genesis"
    /\ Raise(t)
    /\ failed' = failed \cup {t}
    /\ UNCHANGED <<chainVars, judged, offboarded>>

\* The submission fails, or only its receipt is lost: substrate_call catches
\* either, and the sub-task returns.
SubmitFails(t) ==
    /\ Faults
    /\ \/ pc[t] \in {"initialize", "cleanup"} /\ UNCHANGED chainVars
       \/ pc[t] = "initialize" /\ InitializeBatch(para[t][1], state[t], force[t])
       \/ /\ pc[t] = "cleanup" /\ CleanupBatch(para[t][1], force[t])
          /\ UNCHANGED <<leased, head>>
    /\ Return(t)
    /\ failed' = failed \cup {t}
    /\ UNCHANGED <<judged, offboarded>>

\* A read of list_parachains raises, or the process is killed.
Dies(t) ==
    /\ Faults
    /\ pc[t] \in Busy
    /\ Over(t)
    /\ failed' = failed \cup {t}
    /\ UNCHANGED <<chainVars, judged, offboarded>>

Done(t) ==
    /\ pc[t] = "next" /\ ids[t] = {}
    /\ Over(t)
    /\ UNCHANGED <<chainVars, history>>

\* (external) A new session runs the actions queued for it.
SessionChange ==
    /\ LET Acts(p) == 1 \in queue[p]
       IN life' = [p \in Para |->
                      CASE Acts(p) /\ life[p] = "Onboarding"  -> "Parachain"
                        [] Acts(p) /\ life[p] = "Offboarding" -> None
                        [] OTHER -> life[p]]
    /\ queue' = [p \in Para |-> {n - 1 : n \in queue[p] \ {1}}]
    /\ UNCHANGED <<leased, head, locals, history>>

\* (external) A lease ends, and its parachain is downgraded to a parathread
\* (the sessions this takes are left out).
LeaseEnds(p) ==
    /\ p \in leased /\ leased' = leased \ {p}
    /\ life' = IF life[p] = "Parachain" THEN [life EXCEPT ![p] = "Parathread"] ELSE life
    /\ UNCHANGED <<queue, head, locals, history>>
-----------------------------------------------------------------------------
TaskStep(t) ==
    \/ ReadThreads(t) \/ ReadChains(t) \/ ReadLifecycles(t)
    \/ \E id \in Id : NextId(t, id)
    \/ \E pod \in Pod : FirstPodMatches(t, pod) \/ FirstPodDiffers(t, pod) \/ FirstPodNames(t, pod)
    \/ NoPod(t) \/ NoPodRaises(t) \/ ReadGenesis(t) \/ Initialize(t) \/ Cleanup(t) \/ Done(t)
    \/ NoGenesis(t) \/ ReadRaises(t) \/ SubmitFails(t) \/ Dies(t)

Next ==
    \/ \E t \in Task :
          \/ \E o \in Ops, asked \in {{}} \cup Asks, f \in BOOLEAN : Begin(t, o, asked, f)
          \/ TaskStep(t)
    \/ SessionChange
    \/ \E p \in Para : LeaseEnds(p)

Spec == Init /\ [][Next]_vars

\* A process that runs goes on running, and sessions follow one another.
FairSpec ==
    /\ Spec
    /\ \A t \in Task : WF_vars(TaskStep(t))
    /\ WF_vars(SessionChange)

-----------------------------------------------------------------------------
(* Properties *)

\* Every variable has its type; in particular an id under way is one of a para.
TypeOK ==
    /\ life \in [Para -> Lifecycle \cup {None}]
    /\ queue \in [Para -> SUBSET {1, 2}]
    /\ leased \subseteq Para
    /\ head \in [Para -> Para \cup {None}]
    /\ pc \in [Task -> {"idle", "done"} \cup Busy]
    /\ op \in [Task -> Operation \cup {None}] /\ force \in [Task -> BOOLEAN]
    /\ ids \in [Task -> SUBSET Id]
    /\ threads \in [Task -> SUBSET Para] /\ known \in [Task -> SUBSET Para]
    /\ para \in [Task -> Id \cup {NoId}] /\ state \in [Task -> Para \cup {None}]
    /\ failed \subseteq Task /\ judged \in [Task -> SUBSET Para] /\ offboarded \subseteq Para

\* A para is onboarded with the head and the code of a node that runs it, also
\* when the cron job takes the 0 that stands for a missing label for an id.
GenesisOfItsOwnNode == \A p \in Para : head[p] \in {p, None}

\* No parachain is offboarded that no request named, although the request goes
\* by the id of the first pod it finds.
OffboardedOnlyIfAsked ==
    \A p \in Para : life[p] = "Offboarding" => p \in offboarded

\* A lease is given only together with an onboarding: requests that race on
\* the same lists, or on lists that are out of date, get none.
LeaseComesWithOnboarding ==
    [][\A p \in leased' \ leased : life[p] = None /\ life'[p] = "Onboarding"]_vars

\* A para one of whose pods is labelled, and whose onboarding is asked for
\* over HTTP, is at some moment from then on registered on the relay chain,
\* whatever else goes on, unless a call of the request fails.
AskedIsOnboarded ==
    \A t \in Task, pod \in Labelled :
        (pc[t] = "threads" /\ op[t] = "onboard" /\ <<ParaOf[pod], "str">> \in ids[t])
            ~> (life[ParaOf[pod]] # None \/ t \in failed)

\* After a pass of the cron job in which nothing failed, and with nobody
\* offboarding, every labelled para it found inactive is registered.
CronOnboardsInactive ==
    \A t \in Task, pod \in Labelled :
        pc[t] = "done" /\ t \notin failed /\ ParaOf[pod] \in judged[t]
            => life[ParaOf[pod]] # None

-----------------------------------------------------------------------------
(* What the endpoints promise (INSTANCE): a request is left with the ids it *)
(* has not been through; a cron run may still come to any para until it has *)
(* read the lists.  A change under way is finished by the first action that *)
(* is queued for its para.                                                  *)

AtWork == {"pods", "genesis", "initialize", "cleanup"}

Hosted == {ParaOf[pod] : pod \in Pod}

Due(p) ==
    IF life[p] \notin {"Onboarding", "Offboarding"} THEN 0
    ELSE IF 1 \in queue[p] THEN 1 ELSE 2
Status(t) ==
    CASE pc[t] = "idle" -> "idle" [] pc[t] = "done" -> "over" [] OTHER -> op[t]
Left(t) ==
    IF op[t] = "cron" /\ pc[t] \in Reading THEN Para
    ELSE {id[1] : id \in ids[t] \cup (IF pc[t] \in AtWork THEN {para[t]} ELSE {})}

Promise == INSTANCE ParaRequests WITH
    Request <- Task,
    due <- [p \in Para |-> Due(p)],
    request <- [t \in Task |-> Status(t)],
    left <- [t \in Task |-> Left(t)]

\* Whatever requests race on whatever lists, a request does something at most
\* once for a para it named, an onboarding brings the lease and a genesis of the
\* para's own, and what has begun ends within two sessions, whoever interferes.
ImplementsPromise == Promise!Spec

\* And each request is over, and each change finished, in the end.
ImplementsFairPromise == Promise!FairSpec
=============================================================================
