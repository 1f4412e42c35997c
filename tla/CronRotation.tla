---------------------------- MODULE CronRotation ----------------------------
(***************************************************************************)
(* The scheduler's job find_rotate_session_keys (app/lib/cron_tasks.py):   *)
(* it keeps, in memory, the block height of each stateful set's next key   *)
(* rotation.  The cron trigger runs at most one instance of the job at a   *)
(* time; POST /tasks/execute calls the job's function directly, beside it. *)
(*                                                                         *)
(* All runs share one event loop: a run keeps it until it awaits a         *)
(* rotation, whose gather is the only place where runs interleave.         *)
(***************************************************************************)
EXTENDS Naturals, FiniteSets

CONSTANTS
    StatefulSet,
    Interval,     \* [StatefulSet -> Nat]: label rotateSessionKeysBlocksInterval
    CronRun,      \* the instance the cron trigger runs
    ManualRun,    \* instances run by POST /tasks/execute; may be empty
    None,
    MaxHeight,    \* bound on the chain's height
    MaxRaises     \* bound on the rotations that raise

Run == {CronRun} \cup ManualRun

ASSUME IntervalAssumption == Interval \in [StatefulSet -> Nat]
ASSUME RunAssumption == None \notin Run /\ None \notin StatefulSet /\ None \notin Nat
ASSUME BoundAssumption == MaxHeight \in Nat /\ MaxRaises \in Nat

VARIABLES
    height,     \* the chain's current block
    labelled,   \* stateful sets that carry the interval label
    next,       \* next_session_keys_rotations: height, or None for no entry
    loop,       \* the run that holds the event loop, or None
    pc,
    rest,       \* stateful sets the run has still to look at
    cur,        \* the stateful set the run is looking at
    at,         \* current_block_height, read once when the run starts
    labels,     \* the labels as listed when the run starts
    rotatedAt,  \* history: at of the last rotation since runs last overlapped, or None
    raises      \* rotations that raised

local == <<rest, cur, at, labels>>
history == <<rotatedAt, raises>>
vars == <<height, labelled, next, loop, pc, local, history>>

Due(r, s) == next[s] # None /\ at[r] > next[s]

\* No other run is under way.
ByItself(r) == \A q \in Run \ {r} : pc[q] = "idle"

Init ==
    /\ height = 1
    /\ labelled \in SUBSET StatefulSet
    /\ next = [s \in StatefulSet |-> None]
    /\ loop = None
    /\ pc = [r \in Run |-> "idle"]
    /\ rest = [r \in Run |-> {}] /\ cur = [r \in Run |-> None]
    /\ at = [r \in Run |-> 0] /\ labels = [r \in Run |-> {}]
    /\ rotatedAt = [s \in StatefulSet |-> None]
    /\ raises = 0

\* The run returns or raises.
Leave(r) ==
    /\ pc' = [pc EXCEPT ![r] = "idle"]
    /\ rest' = [rest EXCEPT ![r] = {}]
    /\ cur' = [cur EXCEPT ![r] = None]
    /\ at' = [at EXCEPT ![r] = 0]
    /\ labels' = [labels EXCEPT ![r] = {}]
    /\ loop' = None

\* list_stateful_sets and the read of the current block.
StartRun(r) ==
    /\ loop = None /\ pc[r] = "idle"
    /\ loop' = r
    /\ pc' = [pc EXCEPT ![r] = "next"]
    /\ rest' = [rest EXCEPT ![r] = StatefulSet]
    /\ at' = [at EXCEPT ![r] = height]
    /\ labels' = [labels EXCEPT ![r] = labelled]
    /\ rotatedAt' = IF ByItself(r) THEN rotatedAt ELSE [s \in StatefulSet |-> None]
    /\ UNCHANGED <<height, labelled, next, cur, raises>>

Take(r, s, phase) ==
    /\ loop = r /\ pc[r] = "next" /\ s \in rest[r]
    /\ cur' = [cur EXCEPT ![r] = s]
    /\ rest' = [rest EXCEPT ![r] = @ \ {s}]
    /\ pc' = [pc EXCEPT ![r] = phase]
    /\ UNCHANGED <<height, labelled, next, at, labels, history>>

\* The scheduled height has passed: the run awaits the rotation, whose
\* gather gives the event loop to others.
AwaitRotation(r, s) ==
    /\ Due(r, s)
    /\ Take(r, s, "rotating")
    /\ loop' = None

NotDue(r, s) ==
    /\ ~Due(r, s)
    /\ Take(r, s, "schedule")
    /\ UNCHANGED loop

Rotated(r) ==
    rotatedAt' = [rotatedAt EXCEPT ![cur[r]] = IF ByItself(r) THEN at[r] ELSE None]

\* MUTANT of RotationDone: the entry is not removed.
RotationDoneUnpopped(r) ==
    /\ loop = None /\ pc[r] = "rotating" /\ next[cur[r]] # None
    /\ Rotated(r)
    /\ loop' = r
    /\ pc' = [pc EXCEPT ![r] = "schedule"]
    /\ UNCHANGED <<height, labelled, next, local, raises>>

\* The rotation is over, also when every node was unready, and the entry is
\* removed from the map.
RotationDone(r) ==
    /\ loop = None /\ pc[r] = "rotating" /\ next[cur[r]] # None
    /\ next' = [next EXCEPT ![cur[r]] = None]
    /\ Rotated(r)
    /\ loop' = r
    /\ pc' = [pc EXCEPT ![r] = "schedule"]
    /\ UNCHANGED <<height, labelled, local, raises>>

\* pop finds no entry: another run removed it during the rotation, and the
\* KeyError ends the run.
PopRaises(r) ==
    /\ loop = None /\ pc[r] = "rotating" /\ next[cur[r]] = None
    /\ Rotated(r)
    /\ Leave(r)
    /\ UNCHANGED <<height, labelled, next, raises>>

\* The rotation raises: the run ends and the entry stays in the map.
RotationRaises(r) ==
    /\ raises < MaxRaises
    /\ raises' = raises + 1
    /\ loop = None /\ pc[r] = "rotating"
    /\ Leave(r)
    /\ UNCHANGED <<height, labelled, next, rotatedAt>>

\* MUTANT of ScheduleNext: the interval is left out.
ScheduleNow(r) ==
    /\ loop = r /\ pc[r] = "schedule"
    /\ next' = IF next[cur[r]] = None /\ cur[r] \in labels[r]
               THEN [next EXCEPT ![cur[r]] = at[r]]
               ELSE next
    /\ cur' = [cur EXCEPT ![r] = None]
    /\ pc' = [pc EXCEPT ![r] = "next"]
    /\ UNCHANGED <<height, labelled, loop, rest, at, labels, history>>

\* MUTANT of ScheduleNext: the interval is subtracted.
ScheduleBackwards(r) ==
    /\ loop = r /\ pc[r] = "schedule"
    /\ next' = IF next[cur[r]] = None /\ cur[r] \in labels[r]
               THEN [next EXCEPT ![cur[r]] = at[r] - Interval[cur[r]]]
               ELSE next
    /\ cur' = [cur EXCEPT ![r] = None]
    /\ pc' = [pc EXCEPT ![r] = "next"]
    /\ UNCHANGED <<height, labelled, loop, rest, at, labels, history>>

ScheduleNext(r) ==
    /\ loop = r /\ pc[r] = "schedule"
    /\ next' = IF next[cur[r]] = None /\ cur[r] \in labels[r]
               THEN [next EXCEPT ![cur[r]] = at[r] + Interval[cur[r]]]
               ELSE next
    /\ cur' = [cur EXCEPT ![r] = None]
    /\ pc' = [pc EXCEPT ![r] = "next"]
    /\ UNCHANGED <<height, labelled, loop, rest, at, labels, history>>

EndRun(r) ==
    /\ loop = r /\ pc[r] = "next" /\ rest[r] = {}
    /\ Leave(r)
    /\ UNCHANGED <<height, labelled, next, history>>

-----------------------------------------------------------------------------
\* (external) The chain grows.  A run reads the height and the labels only when
\* it starts: what changes while a run holds the loop might as well change after.
NewBlock ==
    /\ loop = None
    /\ height < MaxHeight
    /\ height' = height + 1
    /\ UNCHANGED <<labelled, next, loop, pc, local, history>>

\* (external) An operator adds or removes the label of a stateful set.
Relabel(s) ==
    /\ loop = None
    /\ labelled' = IF s \in labelled THEN labelled \ {s} ELSE labelled \cup {s}
    /\ UNCHANGED <<height, next, loop, pc, local, history>>

\* The scheduler process restarts: the map and every run are lost.
Restart ==
    /\ next' = [s \in StatefulSet |-> None]
    /\ loop' = None
    /\ pc' = [r \in Run |-> "idle"]
    /\ rest' = [r \in Run |-> {}] /\ cur' = [r \in Run |-> None]
    /\ at' = [r \in Run |-> 0] /\ labels' = [r \in Run |-> {}]
    /\ UNCHANGED <<height, labelled, history>>

RunStep(r) ==
    \/ \E s \in StatefulSet : AwaitRotation(r, s) \/ NotDue(r, s)
    \/ RotationDone(r) \/ PopRaises(r) \/ ScheduleNext(r) \/ EndRun(r)

Next ==
    \/ \E r \in Run : StartRun(r) \/ RunStep(r) \/ RotationRaises(r)
    \/ NewBlock
    \/ \E s \in StatefulSet : Relabel(s)
    \/ Restart

Spec == Init /\ [][Next]_vars

\* The trigger keeps firing, the event loop resumes what is ready.
FairSpec ==
    /\ Spec
    /\ WF_vars(StartRun(CronRun))
    /\ \A r \in Run : WF_vars(RunStep(r))

-----------------------------------------------------------------------------
(* Properties *)

\* Every variable has its type.
TypeOK ==
    /\ height \in Nat
    /\ labelled \subseteq StatefulSet
    /\ next \in [StatefulSet -> Nat \cup {None}]
    /\ loop \in Run \cup {None}
    /\ pc \in [Run -> {"idle", "next", "rotating", "schedule"}]
    /\ rest \in [Run -> SUBSET StatefulSet]
    /\ cur \in [Run -> StatefulSet \cup {None}]
    /\ at \in [Run -> Nat]
    /\ labels \in [Run -> SUBSET StatefulSet]
    /\ rotatedAt \in [StatefulSet -> Nat \cup {None}]
    /\ raises \in Nat

\* A rotation of a stateful set is begun only at a height more than the interval
\* above the one of the rotation before, as the comment at cron_tasks.py:57-60
\* says, unless a triggered and a manual run were under way at once in between:
\* across relabelling, failures and restarts, with runs of either kind one after
\* the other, and again from the first rotation after an overlap has ended.
RotationSpacing ==
    \A r \in Run : pc[r] = "rotating" /\ rotatedAt[cur[r]] # None
        => at[r] > rotatedAt[cur[r]] + Interval[cur[r]]

\* If rotations do not raise for ever, an entry whose height has passed does not
\* stay due, whatever runs race for it: the entry is removed or moved to a later
\* height.
DueIsRotated ==
    \A s \in StatefulSet :
        (next[s] # None /\ height > next[s]) ~> ~(next[s] # None /\ height > next[s])
=============================================================================
