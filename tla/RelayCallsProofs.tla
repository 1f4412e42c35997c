-------------------------- MODULE RelayCallsProofs --------------------------
(***************************************************************************)
(* Proofs about RelayCalls, for any workers, requests, accounts, calls and *)
(* bounds.  Locals says what a worker's variables have to do with its job, *)
(* Pool what the extrinsics that wait for a block have to do with the jobs *)
(* that sent them, and Progress how far the blocks have come with a job.   *)
(* Alone adds what a job can rely on while nothing disturbs it.  For the   *)
(* refinement of CallLists, AtMostOnce says that a call never is in the    *)
(* pool and in a block, and Told what a receipt's success is worth.        *)
(* StepsLeft bounds the steps of a job.                                    *)
(***************************************************************************)
EXTENDS RelayCalls, TLAPS

LocalsTyped ==
    /\ job \in [Worker -> Job \cup {NoJob}]
    /\ pc \in [Worker -> Busy \cup {"idle"}]
    /\ via \in [Worker -> Owner \cup {Sudo, NoOne}]
    /\ fresh \in [Worker -> BOOLEAN] /\ success \in [Worker -> BOOLEAN]
    /\ at \in [Job -> Nat] /\ \A j \in Job : at[j] <= Len(Signer[j])
    /\ outcome \in [Job -> {"none", "running", "ok", "stopped"}]

RunsItsJob(w) ==
    /\ pc[w] = "idle" <=> job[w] = NoJob
    /\ job[w] # NoJob => outcome[job[w]] = "running" /\ at[job[w]] >= 1
    /\ job[w] = Pass => w = Scheduler
    /\ pc[w] = "look" => Looks(job[w], at[job[w]])
    /\ pc[w] = "keys" => IsSudo(job[w], at[job[w]])

OneWorkerEach ==
    \A u, w \in Worker : job[u] = job[w] /\ job[u] # NoJob => u = w

NotYetAt == \A j \in Request : outcome[j] = "none" => at[j] = 0

Locals ==
    /\ \A w \in Worker : RunsItsJob(w)
    /\ OneWorkerEach
    /\ NotYetAt

-----------------------------------------------------------------------------
\* A job of this specification has calls to make.
LEMMA SignerFacts ==
    ASSUME NEW j \in Job
    PROVE  /\ Signer[j] \in Seq(Account) /\ Len(Signer[j]) \in Nat \ {0}
           /\ \A k \in 1..Len(Signer[j]) : Signer[j][k] \in Account
           /\ DOMAIN Signer[j] = 1..Len(Signer[j])
<1>1. Signer[j] \in Seq(Account) /\ Signer[j] # <<>>
  BY JobAssumption
<1> QED
  BY <1>1

\* What a worker that leaves its job leaves behind.
LEMMA LeaveLocals ==
    ASSUME LocalsTyped, Locals, NEW w \in Worker, job[w] # NoJob,
           NEW how \in {"ok", "stopped"}, Leave(w, how)
    PROVE  LocalsTyped' /\ Locals'
<1>1. job[w] \in Job /\ NoJob \notin Job /\ Pass \notin Request /\ Job = Request \cup {Pass}
  BY JobAssumption DEF LocalsTyped, Job
<1>2. LocalsTyped'
  BY <1>1 DEF LocalsTyped, Leave
<1>3. \A u \in Worker : u # w => job'[u] = job[u] /\ pc'[u] = pc[u]
  BY DEF Leave, LocalsTyped
<1>4. job'[w] = NoJob /\ pc'[w] = "idle"
  BY DEF Leave, LocalsTyped
<1>5. \A u \in Worker : u # w /\ job[u] # NoJob =>
         job[u] # job[w] /\ outcome'[job[u]] = outcome[job[u]] /\ at'[job[u]] = at[job[u]]
  BY <1>1 DEF Leave, LocalsTyped, Locals, OneWorkerEach
<1>6. \A u \in Worker : RunsItsJob(u)'
  <2> SUFFICES ASSUME NEW u \in Worker PROVE RunsItsJob(u)'
    OBVIOUS
  <2>1. CASE u = w
    BY <2>1, <1>1, <1>4 DEF RunsItsJob
  <2>2. CASE u # w
    <3>1. RunsItsJob(u) /\ job'[u] = job[u] /\ pc'[u] = pc[u]
      BY <2>2, <1>3 DEF Locals
    <3>2. CASE job[u] = NoJob
      BY <3>1, <3>2, <1>1 DEF RunsItsJob, Looks, IsSudo
    <3>3. CASE job[u] # NoJob
      BY <3>1, <3>3, <2>2, <1>5 DEF RunsItsJob, Looks, IsSudo
    <3> QED BY <3>2, <3>3
  <2> QED BY <2>1, <2>2
<1>7. OneWorkerEach'
  BY <1>3, <1>4 DEF OneWorkerEach, Locals
<1>8. NotYetAt'
  <2> SUFFICES ASSUME NEW j \in Request, outcome'[j] = "none" PROVE at'[j] = 0
    BY DEF NotYetAt
  <2>1. j # job[w]
    BY <1>1 DEF Leave, LocalsTyped
  <2> QED
    BY <2>1, <1>1 DEF Leave, LocalsTyped, Locals, NotYetAt
<1> QED
  BY <1>2, <1>6, <1>7, <1>8 DEF Locals

\* A worker that goes on stays with its job, or ends it.
LEMMA GoOnLocals ==
    ASSUME LocalsTyped, Locals, NEW w \in Worker, job[w] # NoJob, GoOn(w)
    PROVE  LocalsTyped' /\ Locals'
<1>1. job[w] \in Job /\ NoJob \notin Job /\ Pass \notin Request /\ Job = Request \cup {Pass}
  BY JobAssumption DEF LocalsTyped, Job
<1>2. CASE at[job[w]] = Len(Signer[job[w]])
  BY <1>2, LeaveLocals DEF GoOn
<1>3. CASE at[job[w]] # Len(Signer[job[w]])
  <2> DEFINE j == job[w]
             phase == FirstPhase(j, at[j] + 1)
  <2>1. /\ at' = [at EXCEPT ![j] = @ + 1]
        /\ pc' = [pc EXCEPT ![w] = phase]
        /\ via' = [via EXCEPT ![w] = NoOne]
        /\ fresh' = [fresh EXCEPT ![w] = FALSE]
        /\ success' = [success EXCEPT ![w] = FALSE]
        /\ job' = job /\ outcome' = outcome
    BY <1>3 DEF GoOn, GoTo
  <2>2. at[j] + 1 <= Len(Signer[j]) /\ at[j] \in Nat
    BY <1>1, <1>3, SignerFacts DEF LocalsTyped
  <2>3. /\ phase \in {"connect", "look", "sign"}
        /\ phase = "look" => Looks(j, at[j] + 1)
    BY DEF FirstPhase
  <2>4. LocalsTyped'
    BY <1>1, <2>1, <2>2, <2>3 DEF LocalsTyped, Busy
  <2>5. at'[j] = at[j] + 1 /\ \A i \in Job : i # j => at'[i] = at[i]
    BY <1>1, <2>1 DEF LocalsTyped
  <2>6. \A u \in Worker : RunsItsJob(u)'
    <3> SUFFICES ASSUME NEW u \in Worker PROVE RunsItsJob(u)'
      OBVIOUS
    <3>1. RunsItsJob(u) /\ RunsItsJob(w) /\ job[u] \in Job \cup {NoJob}
      BY DEF Locals, LocalsTyped
    <3>2. CASE u = w
      <4>1. pc'[w] = phase
        BY <2>1 DEF LocalsTyped
      <4> QED
        BY <3>1, <3>2, <4>1, <2>1, <2>2, <2>3, <2>5 DEF RunsItsJob, Looks, IsSudo
    <3>3. CASE u # w
      <4>1. pc'[u] = pc[u] /\ (job[u] # NoJob => job[u] # j)
        BY <3>3, <2>1 DEF LocalsTyped, Locals, OneWorkerEach
      <4>2. CASE job[u] = NoJob
        BY <4>1, <4>2, <3>1, <2>1, <1>1 DEF RunsItsJob, Looks, IsSudo
      <4>3. CASE job[u] # NoJob
        BY <4>1, <4>3, <3>1, <2>1, <2>5 DEF RunsItsJob, Looks, IsSudo
      <4> QED BY <4>2, <4>3
    <3> QED BY <3>2, <3>3
  <2>7. OneWorkerEach'
    BY <2>1 DEF OneWorkerEach, Locals
  <2>8. NotYetAt'
    <3>1. outcome[j] = "running"
      BY DEF Locals, RunsItsJob
    <3> QED
      BY <3>1, <1>1, <2>1, <2>5 DEF Locals, NotYetAt
  <2> QED
    BY <2>4, <2>6, <2>7, <2>8 DEF Locals
<1> QED
  BY <1>2, <1>3

\* A step of a worker within its call.
MovesOn(u) ==
    /\ pc[u] # "idle" /\ pc'[u] # "idle" /\ pc'[u] # "look"
    /\ pc'[u] = "keys" => IsSudo(job[u], at[job[u]])

LEMMA MoveLocals ==
    ASSUME LocalsTyped, Locals, job' = job, at' = at, outcome' = outcome,
           pc' \in [Worker -> Busy \cup {"idle"}],
           via' \in [Worker -> Owner \cup {Sudo, NoOne}],
           fresh' \in [Worker -> BOOLEAN], success' \in [Worker -> BOOLEAN],
           \A u \in Worker : pc'[u] = pc[u] \/ MovesOn(u)
    PROVE  LocalsTyped' /\ Locals'
<1>1. LocalsTyped'
  BY DEF LocalsTyped
<1>2. ASSUME NEW u \in Worker PROVE RunsItsJob(u)'
  <2>1. RunsItsJob(u) /\ (pc'[u] = pc[u] \/ MovesOn(u))
    BY <1>2 DEF Locals
  <2> QED
    BY <2>1 DEF RunsItsJob, MovesOn, Looks, IsSudo
<1>3. OneWorkerEach' /\ NotYetAt'
  BY DEF Locals, OneWorkerEach, NotYetAt
<1> QED
  BY <1>1, <1>2, <1>3 DEF Locals

\* An account that does not nominate yet: its extrinsic is signed next.
GoesToSign(w) == GoTo(w, "sign") /\ UNCHANGED <<job, via, fresh, success, at, outcome>>

\* A worker that begins a job has it for itself.
LEMMA StartLocals ==
    ASSUME LocalsTyped, Locals, NEW w \in Worker, NEW j \in Job, Start(w, j)
    PROVE  LocalsTyped' /\ Locals'
<1>1. /\ pc[w] = "idle" /\ job' = [job EXCEPT ![w] = j]
      /\ at' = [at EXCEPT ![j] = 1] /\ outcome' = [outcome EXCEPT ![j] = "running"]
      /\ pc' = [pc EXCEPT ![w] = "connect"]
      /\ via' = via /\ fresh' = fresh /\ success' = success
      /\ j \in Request => outcome[j] = "none"
      /\ j \notin Request => w = Scheduler /\ j = Pass
      /\ j = Pass => w = Scheduler
  BY JobAssumption DEF Start, GoTo, workerVars
<1>2. NoJob \notin Job /\ Pass \notin Request /\ Job = Request \cup {Pass} /\ j # NoJob
  BY JobAssumption DEF Job
<1>3. LocalsTyped'
  BY <1>1, SignerFacts DEF LocalsTyped, Busy
<1>4. \A u \in Worker : job[u] # j
  <2> SUFFICES ASSUME NEW u \in Worker, job[u] = j PROVE FALSE
    OBVIOUS
  <2>1. RunsItsJob(u) /\ RunsItsJob(w)
    BY DEF Locals
  <2> QED
    BY <2>1, <1>1, <1>2 DEF RunsItsJob
<1>5. ASSUME NEW u \in Worker PROVE RunsItsJob(u)'
  <2>1. RunsItsJob(u) /\ RunsItsJob(w) /\ job[u] \in Job \cup {NoJob}
    BY <1>5 DEF Locals, LocalsTyped
  <2>2. CASE u = w
    <3>1. job'[u] = j /\ pc'[u] = "connect" /\ at'[j] = 1 /\ outcome'[j] = "running"
      BY <2>2, <1>1 DEF LocalsTyped
    <3> QED BY <2>2, <3>1, <1>1, <1>2 DEF RunsItsJob
  <2>3. CASE u # w /\ job[u] = NoJob
    BY <2>1, <2>3, <1>1, <1>2 DEF RunsItsJob, LocalsTyped
  <2>4. CASE u # w /\ job[u] # NoJob
    <3>1. /\ job'[u] = job[u] /\ pc'[u] = pc[u]
          /\ at'[job[u]] = at[job[u]] /\ outcome'[job[u]] = outcome[job[u]]
      BY <2>1, <2>4, <1>1, <1>4 DEF LocalsTyped
    <3> QED BY <2>1, <2>4, <3>1 DEF RunsItsJob, Looks, IsSudo
  <2> QED BY <2>2, <2>3, <2>4
<1>6. OneWorkerEach'
  BY <1>1, <1>4 DEF OneWorkerEach, Locals, LocalsTyped
<1>7. NotYetAt'
  BY <1>1, <1>2 DEF NotYetAt, Locals, LocalsTyped
<1> QED
  BY <1>3, <1>5, <1>6, <1>7 DEF Locals

ChainTyped ==
    /\ sudoKey \in Owner \cup {Sudo}
    /\ funded \subseteq Account /\ nominating \subseteq Account
    /\ txPool \in [Account -> (Call \X (Owner \cup {Sudo, NoOne})) \cup {NoTx}]
    /\ included \subseteq Call /\ effected \subseteq Call
    /\ conn \in [Worker -> {"none", "up", "broken", "silent"}]
    /\ disturbed \subseteq Request
    /\ faults \in Nat /\ changes \in Nat

LEMMA TypeParts == TypeOK <=> ChainTyped /\ LocalsTyped
BY DEF TypeOK, ChainTyped, LocalsTyped

\* A worker that is busy has a job, and is at one of its calls.
LEMMA BusyFacts ==
    ASSUME LocalsTyped, Locals, NEW w \in Worker, pc[w] # "idle"
    PROVE  /\ job[w] \in Job /\ job[w] # NoJob /\ outcome[job[w]] = "running"
           /\ at[job[w]] \in 1..Len(Signer[job[w]])
           /\ SignerAt(w) \in Account
           /\ <<job[w], at[job[w]]>> \in Call
<1>1. job[w] \in Job /\ job[w] # NoJob /\ outcome[job[w]] = "running"
  BY JobAssumption DEF LocalsTyped, Locals, RunsItsJob
<1>2. at[job[w]] \in 1..Len(Signer[job[w]])
  BY <1>1, SignerFacts DEF LocalsTyped, Locals, RunsItsJob
<1>3. SignerAt(w) \in Account
  BY <1>1, <1>2, SignerFacts DEF SignerAt
<1>4. <<job[w], at[job[w]]>> \in Call
  BY <1>1, <1>2, SignerFacts DEF Call
<1> QED
  BY <1>1, <1>2, <1>3, <1>4

\* An extrinsic that waits for a block is a call, made in someone's name.
LEMMA PoolFacts ==
    ASSUME ChainTyped, NEW a \in Account, txPool[a] # NoTx
    PROVE  /\ txPool[a] \in Call \X (Owner \cup {Sudo, NoOne})
           /\ txPool[a][1] \in Call /\ txPool[a][1][1] \in Job
           /\ txPool[a][1][2] \in 1..Len(Signer[txPool[a][1][1]])
<1>1. txPool[a] \in Call \X (Owner \cup {Sudo, NoOne})
  BY DEF ChainTyped
<1>2. txPool[a][1] \in Call
  BY <1>1
<1> QED
  BY <1>1, <1>2 DEF Call

\* How a worker's step treats the variables of its job.
LEMMA LocalsStep ==
    ASSUME ChainTyped, LocalsTyped, Locals, [Next]_vars
    PROVE  LocalsTyped' /\ Locals'
<1>1. ASSUME NEW w \in Worker, NEW j \in Job, Start(w, j) PROVE LocalsTyped' /\ Locals'
  BY <1>1, StartLocals
<1>2. ASSUME NEW w \in Worker, pc[w] \in Busy, NEW how \in {"ok", "stopped"},
             Leave(w, how)
      PROVE  LocalsTyped' /\ Locals'
  BY <1>2, LeaveLocals, BusyFacts DEF Busy
<1>3. ASSUME NEW w \in Worker, pc[w] \in Busy, GoOn(w) PROVE LocalsTyped' /\ Locals'
  BY <1>3, GoOnLocals, BusyFacts DEF Busy
<1>4. ASSUME NEW w \in Worker, pc[w] \in Busy, Fail(w) PROVE LocalsTyped' /\ Locals'
  BY <1>4, <1>2, <1>3 DEF Fail
<1>5. ASSUME NEW w \in Worker,
             SetRaises(w) \/ ComposeRaises(w) \/ Interrupted(w) \/ ConnectFails(w) \/ Dies(w)
      PROVE  LocalsTyped' /\ Locals'
  <2>1. pc[w] \in Busy
    BY <1>5 DEF SetRaises, ComposeRaises, Interrupted, ConnectFails, Dies, Busy
  <2> QED
    BY <1>5, <2>1, <1>2 DEF SetRaises, ComposeRaises, Interrupted, ConnectFails, Dies, Raise
<1>6. ASSUME NEW w \in Worker, WrongKey(w) \/ SubmitFails(w) \/ WaitFails(w) \/ ReadReceipt(w)
      PROVE  LocalsTyped' /\ Locals'
  <2>1. pc[w] \in Busy
    BY <1>6 DEF WrongKey, SubmitFails, WaitFails, ReadReceipt, Busy
  <2> QED
    BY <1>6, <2>1, <1>3, <1>4 DEF WrongKey, SubmitFails, WaitFails, ReadReceipt
<1>7. ASSUME NEW w \in Worker, Connect(w) PROVE LocalsTyped' /\ Locals'
  <2>1. /\ pc[w] = "connect"
        /\ pc' = [pc EXCEPT ![w] = IF IsSudo(job[w], at[job[w]]) THEN "keys" ELSE "sign"]
        /\ job' = job /\ via' = via /\ fresh' = fresh /\ success' = success
        /\ at' = at /\ outcome' = outcome
    BY <1>7 DEF Connect, GetClient, AfterClient, GoTo
  <2>2. \A u \in Worker : pc'[u] = pc[u] \/ MovesOn(u)
    BY <2>1 DEF LocalsTyped, MovesOn
  <2>3. pc' \in [Worker -> Busy \cup {"idle"}]
    BY <2>1 DEF LocalsTyped, Busy
  <2> QED
    BY <2>1, <2>2, <2>3, MoveLocals DEF LocalsTyped
<1>8. ASSUME NEW w \in Worker, Look(w) PROVE LocalsTyped' /\ Locals'
  <2>1. pc[w] \in Busy /\ pc[w] = "look"
    BY <1>8 DEF Look, Busy
  <2>2. CASE SignerAt(w) \in nominating
    BY <1>8, <2>1, <2>2, <1>3 DEF Look
  <2>3. CASE GoesToSign(w)
    <3>1. /\ pc' = [pc EXCEPT ![w] = "sign"]
          /\ job' = job /\ via' = via /\ fresh' = fresh /\ success' = success
          /\ at' = at /\ outcome' = outcome
      BY <2>3 DEF GoesToSign, GoTo
    <3>2. /\ pc' \in [Worker -> Busy \cup {"idle"}]
          /\ \A u \in Worker : pc'[u] = pc[u] \/ MovesOn(u)
      BY <2>1, <3>1 DEF LocalsTyped, Busy, MovesOn
    <3> QED
      BY <3>1, <3>2, MoveLocals DEF LocalsTyped
  <2>4. CASE Leave(w, "stopped")
    BY <2>1, <2>4, <1>2
  <2> QED BY <1>8, <2>2, <2>3, <2>4 DEF Look, GoesToSign
<1>9. ASSUME NEW w \in Worker, ReadKeys(w) \/ Sign(w) \/ Submit(w) PROVE LocalsTyped' /\ Locals'
  <2>1. /\ pc[w] \in {"keys", "sign", "submit"}
        /\ \/ pc' = [pc EXCEPT ![w] = "sign"]
           \/ pc' = [pc EXCEPT ![w] = "submit"]
           \/ pc' = [pc EXCEPT ![w] = "wait"]
        /\ job' = job /\ success' = success /\ at' = at /\ outcome' = outcome
    BY <1>9 DEF ReadKeys, Sign, Submit, GoTo
  <2>2. /\ via' \in [Worker -> Owner \cup {Sudo, NoOne}]
        /\ fresh' \in [Worker -> BOOLEAN]
    BY <1>9 DEF ReadKeys, Sign, Submit, LocalsTyped, ChainTyped
  <2>3. /\ pc' \in [Worker -> Busy \cup {"idle"}]
        /\ \A u \in Worker : pc'[u] = pc[u] \/ MovesOn(u)
    BY <2>1 DEF LocalsTyped, Busy, MovesOn
  <2> QED
    BY <2>1, <2>2, <2>3, MoveLocals DEF LocalsTyped
<1>10. ASSUME NEW a \in Account, InBlock(a) PROVE LocalsTyped' /\ Locals'
  <2>1. /\ pc' = [w \in Worker |-> IF AwaitsBlock(w, a) THEN "receipt" ELSE pc[w]]
        /\ fresh' = [w \in Worker |-> fresh[w] /\ SignerAt(w) # a]
        /\ job' = job /\ via' = via /\ at' = at /\ outcome' = outcome
    BY <1>10 DEF InBlock
  <2>2. success' = [w \in Worker |-> success[w] \/ (AwaitsBlock(w, a)
                                        /\ Reported(a, txPool[a][1], txPool[a][2]))]
    BY <1>10 DEF InBlock
  <2>3. fresh' \in [Worker -> BOOLEAN] /\ success' \in [Worker -> BOOLEAN]
    BY <2>1, <2>2
  <2>4. /\ pc' \in [Worker -> Busy \cup {"idle"}]
        /\ \A u \in Worker : pc'[u] = pc[u] \/ MovesOn(u)
    BY <2>1 DEF LocalsTyped, Busy, MovesOn, AwaitsBlock
  <2> QED
    BY <2>1, <2>3, <2>4, MoveLocals DEF LocalsTyped
<1>11. ASSUME (\E a \in Account : Forgotten(a)) \/ (\E w \in Worker : Break(w))
                 \/ (\E s \in Owner \cup {Sudo} : ChangeKey(s)) \/ UNCHANGED vars
       PROVE  LocalsTyped' /\ Locals'
  <2>1. pc' = pc /\ job' = job /\ via' = via /\ fresh' = fresh /\ success' = success
           /\ at' = at /\ outcome' = outcome
    BY <1>11 DEF Forgotten, Break, ChangeKey, vars, workerVars
  <2> QED
    BY <2>1, MoveLocals DEF LocalsTyped
<1> QED
  BY <1>1, <1>5, <1>6, <1>7, <1>8, <1>9, <1>10, <1>11 DEF Next, CallStep

LEMMA ChainStep ==
    ASSUME ChainTyped, LocalsTyped, Locals, [Next]_vars
    PROVE  ChainTyped'
<1>1. ASSUME NEW w \in Worker, NEW j \in Job, Start(w, j) PROVE ChainTyped'
  BY <1>1 DEF Start, ChainTyped, chainVars, boundVars
<1>2. ASSUME NEW w \in Worker, SetRaises(w) \/ ComposeRaises(w) \/ Interrupted(w) PROVE ChainTyped'
  BY <1>2 DEF SetRaises, ComposeRaises, Interrupted, Raise, GetClient, Noticed, Hit,
              ChainTyped, chainVars, boundVars
<1>3. ASSUME NEW w \in Worker, ConnectFails(w) \/ Dies(w) \/ Break(w) PROVE ChainTyped'
  BY <1>3 DEF ConnectFails, Dies, Break, Hit, ChainTyped, chainVars
<1>4. ASSUME NEW w \in Worker,
             Look(w) \/ ReadKeys(w) \/ WrongKey(w) \/ Sign(w) \/ SubmitFails(w)
               \/ WaitFails(w) \/ ReadReceipt(w)
      PROVE  ChainTyped'
  BY <1>4 DEF Look, ReadKeys, WrongKey, Sign, SubmitFails, WaitFails, ReadReceipt, Noticed,
              ChainTyped, chainVars, boundVars
<1>5. ASSUME NEW w \in Worker, Connect(w) PROVE ChainTyped'
  BY <1>5 DEF Connect, GetClient, Hit, ChainTyped, chainVars, boundVars
<1>6. ASSUME NEW w \in Worker, Submit(w) PROVE ChainTyped'
  <2>1. pc[w] # "idle"
    BY <1>6 DEF Submit
  <2>2. Here(w) \in Call /\ SignerAt(w) \in Account
    BY <2>1, BusyFacts DEF Here
  <2>3. via[w] \in Owner \cup {Sudo, NoOne}
    BY DEF LocalsTyped
  <2>4. txPool' \in [Account -> (Call \X (Owner \cup {Sudo, NoOne})) \cup {NoTx}]
    BY <1>6, <2>2, <2>3 DEF Submit, ChainTyped
  <2> QED
    BY <1>6, <2>4 DEF Submit, ChainTyped, boundVars
<1>7. ASSUME NEW a \in Account, InBlock(a) PROVE ChainTyped'
  <2> DEFINE c == txPool[a][1]
  <2>1. c \in Call /\ c[1] \in Job
    BY <1>7, PoolFacts DEF InBlock
  <2>2. Signer[c[1]] \in Seq(Account) /\ Range(Signer[c[1]]) \subseteq Account
    BY <2>1, SignerFacts DEF Range
  <2>3. txPool' \in [Account -> (Call \X (Owner \cup {Sudo, NoOne})) \cup {NoTx}]
    BY <1>7 DEF InBlock, ChainTyped
  <2>4. included' \subseteq Call /\ effected' \subseteq Call
    BY <1>7, <2>1 DEF InBlock, ChainTyped
  <2>5. funded' \subseteq Account /\ nominating' \subseteq Account
    BY <1>7, <2>2 DEF InBlock, ChainTyped
  <2>6. UNCHANGED <<sudoKey, conn, disturbed, faults, changes>>
    BY <1>7 DEF InBlock, boundVars
  <2> QED
    BY <2>3, <2>4, <2>5, <2>6 DEF ChainTyped
<1>8. ASSUME NEW a \in Account, Forgotten(a) PROVE ChainTyped'
  BY <1>8 DEF Forgotten, ChainTyped, workerVars, boundVars
<1>9. ASSUME NEW s \in Owner \cup {Sudo}, ChangeKey(s) PROVE ChainTyped'
  BY <1>9 DEF ChangeKey, ChainTyped, workerVars
<1>10. ASSUME UNCHANGED vars PROVE ChainTyped'
  BY <1>10 DEF ChainTyped, vars, chainVars, workerVars, boundVars
<1> QED
  BY <1>1, <1>2, <1>3, <1>4, <1>5, <1>6, <1>7, <1>8, <1>9, <1>10 DEF Next, CallStep

-----------------------------------------------------------------------------
\* A call of job j waits for a block.
Pends(j) == \E a \in Account : txPool[a] # NoTx /\ txPool[a][1][1] = j

\* Of job j blocks have included the first m calls.
Upto(j, m) == \A k \in 1..Len(Signer[j]) : <<j, k>> \in included <=> k <= m

\* What waits of a strict job is the call that it is at, or that it stopped at.
Pool ==
    \A a \in Account : txPool[a] # NoTx /\ Strict(txPool[a][1][1]) =>
        a = Sudo /\ txPool[a][1][2] = at[txPool[a][1][1]]

AtWorker(w) ==
    /\ pc[w] \notin {"wait", "receipt"} => ~Pends(job[w]) /\ Upto(job[w], at[job[w]] - 1)
    /\ pc[w] = "receipt" => ~Pends(job[w]) /\ Upto(job[w], at[job[w]])

Progress(j) ==
    /\ Upto(j, at[j]) \/ Upto(j, at[j] - 1)
    /\ Pends(j) => Upto(j, at[j] - 1)
    /\ outcome[j] = "ok" => ~Pends(j) /\ Upto(j, Len(Signer[j]))
    /\ outcome[j] = "none" => ~Pends(j)
    /\ \A w \in Worker : job[w] = j => AtWorker(w)

Extrinsics ==
    /\ Pool
    /\ \A j \in Request : Strict(j) => Progress(j)

LEMMA LeaveExtrinsics ==
    ASSUME ChainTyped, LocalsTyped, Locals, Extrinsics,
           NEW w \in Worker, job[w] # NoJob, NEW how \in {"ok", "stopped"},
           Strict(job[w]) /\ how = "ok" =>
               ~Pends(job[w]) /\ Upto(job[w], Len(Signer[job[w]])),
           Leave(w, how), txPool' = txPool, included' = included
    PROVE  Extrinsics'
<1>1. /\ job[w] \in Job /\ NoJob \notin Job /\ Pass \notin Request /\ Job = Request \cup {Pass}
      /\ ~Strict(Pass)
  BY JobAssumption DEF LocalsTyped, Job, Strict, KindOf
<1>2. /\ \A u \in Worker : u # w => job'[u] = job[u] /\ pc'[u] = pc[u]
      /\ job'[w] = NoJob /\ pc'[w] = "idle"
      /\ \A j \in Request : at'[j] = at[j] /\ (j # job[w] => outcome'[j] = outcome[j])
      /\ job[w] \in Request => outcome'[job[w]] = how
      /\ \A u \in Worker : u # w => job[u] # job[w] \/ job[u] = NoJob
  BY <1>1 DEF Leave, LocalsTyped, Locals, OneWorkerEach
<1>3. Pool'
  <2> SUFFICES ASSUME NEW a \in Account, txPool[a] # NoTx, Strict(txPool[a][1][1])
               PROVE  a = Sudo /\ txPool[a][1][2] = at'[txPool[a][1][1]]
    BY DEF Pool, Strict, KindOf
  <2>1. txPool[a][1][1] \in Request
    BY <1>1, PoolFacts
  <2> QED
    BY <2>1, <1>2 DEF Extrinsics, Pool
<1>5. ASSUME NEW j \in Request, Strict(j) PROVE Progress(j)'
  <2>1. Progress(j) /\ at'[j] = at[j]
    BY <1>2, <1>5 DEF Extrinsics
  <2>2. Pends(j)' = Pends(j) /\ \A m : Upto(j, m)' = Upto(j, m)
    BY DEF Pends, Upto
  <2>3. \A u \in Worker : job'[u] = j => AtWorker(u)'
    <3> SUFFICES ASSUME NEW u \in Worker, job'[u] = j PROVE AtWorker(u)'
      OBVIOUS
    <3>1. u # w /\ job[u] = j /\ pc'[u] = pc[u]
      BY <1>1, <1>2
    <3>2. AtWorker(u)
      BY <2>1, <3>1 DEF Progress
    <3> QED
      BY <3>1, <3>2, <2>1 DEF AtWorker, Pends, Upto
  <2>4. outcome'[j] = "ok" => ~Pends(j) /\ Upto(j, Len(Signer[j]))
    BY <1>2, <1>5, <2>1 DEF Progress
  <2>5. outcome'[j] = "none" => ~Pends(j)
    BY <1>2, <2>1 DEF Progress
  <2> QED
    BY <2>1, <2>2, <2>3, <2>4, <2>5 DEF Progress, Pends, Upto
<1> QED
  BY <1>3, <1>5 DEF Extrinsics, Strict, KindOf

LEMMA GoOnExtrinsics ==
    ASSUME ChainTyped, LocalsTyped, Locals, Extrinsics, NEW w \in Worker, pc[w] # "idle",
           Strict(job[w]) => ~Pends(job[w]) /\ Upto(job[w], at[job[w]]),
           GoOn(w), txPool' = txPool, included' = included
    PROVE  Extrinsics'
<1>1. /\ job[w] \in Job /\ job[w] # NoJob /\ outcome[job[w]] = "running"
      /\ at[job[w]] \in 1..Len(Signer[job[w]])
      /\ NoJob \notin Job /\ Pass \notin Request /\ Job = Request \cup {Pass} /\ ~Strict(Pass)
  BY JobAssumption, BusyFacts DEF Job, Strict, KindOf
<1>2. CASE at[job[w]] = Len(Signer[job[w]])
  BY <1>1, <1>2, LeaveExtrinsics DEF GoOn
<1>3. CASE at[job[w]] # Len(Signer[job[w]])
  <2>1. /\ at' = [at EXCEPT ![job[w]] = @ + 1]
        /\ pc' = [pc EXCEPT ![w] = FirstPhase(job[w], at[job[w]] + 1)]
        /\ job' = job /\ outcome' = outcome
    BY <1>3 DEF GoOn, GoTo
  <2>2. /\ at'[job[w]] = at[job[w]] + 1
        /\ \A i \in Job : i # job[w] => at'[i] = at[i]
        /\ \A u \in Worker : u # w => pc'[u] = pc[u] /\ job[u] # job[w]
        /\ pc'[w] \in {"connect", "look", "sign"}
    BY <1>1, <2>1 DEF LocalsTyped, Locals, OneWorkerEach, FirstPhase
  <2>3. Pool'
    <3> SUFFICES ASSUME NEW a \in Account, txPool[a] # NoTx, Strict(txPool[a][1][1])
                 PROVE  a = Sudo /\ txPool[a][1][2] = at'[txPool[a][1][1]]
      BY DEF Pool, Strict, KindOf
    <3>1. txPool[a][1][1] # job[w]
      BY <1>1 DEF Pends
    <3>2. txPool[a][1][1] \in Job
      BY PoolFacts
    <3> QED
      BY <2>2, <3>1, <3>2 DEF Extrinsics, Pool
  <2>5. ASSUME NEW j \in Request, Strict(j) PROVE Progress(j)'
    <3>1. Progress(j)
      BY <2>5 DEF Extrinsics
    <3>2. Pends(j)' = Pends(j) /\ \A m : Upto(j, m)' = Upto(j, m)
      BY DEF Pends, Upto
    <3>3. CASE j = job[w]
      <4>1. at'[j] - 1 = at[j]
        BY <3>3, <1>1, <2>2
      <4>2. ~Pends(j) /\ Upto(j, at'[j] - 1)
        BY <3>3, <2>5, <4>1
      <4>3. \A u \in Worker : job'[u] = j => AtWorker(u)'
        <5> SUFFICES ASSUME NEW u \in Worker, job'[u] = j PROVE AtWorker(u)'
          OBVIOUS
        <5>1. u = w /\ job'[u] = j
          BY <3>3, <2>1, <2>2
        <5> QED
          BY <5>1, <4>2, <3>2, <2>2 DEF AtWorker, Pends, Upto
      <4>4. outcome'[j] = "running"
        BY <3>3, <1>1, <2>1
      <4> QED
        BY <4>2, <4>3, <4>4, <3>2 DEF Progress, Pends, Upto
    <3>4. CASE j # job[w]
      <4>1. at'[j] = at[j] /\ outcome'[j] = outcome[j]
        BY <3>4, <1>1, <2>1, <2>2
      <4>2. \A u \in Worker : job'[u] = j => AtWorker(u)'
        <5> SUFFICES ASSUME NEW u \in Worker, job'[u] = j PROVE AtWorker(u)'
          OBVIOUS
        <5>1. u # w /\ job[u] = j /\ pc'[u] = pc[u] /\ job'[u] = job[u]
          BY <3>4, <2>1, <2>2
        <5>2. AtWorker(u)
          BY <5>1, <3>1 DEF Progress
        <5> QED
          BY <5>1, <5>2, <4>1 DEF AtWorker, Pends, Upto
      <4> QED
        BY <3>1, <4>1, <4>2 DEF Progress, Pends, Upto
    <3> QED BY <3>3, <3>4
  <2> QED
    BY <2>3, <2>5 DEF Extrinsics, Strict, KindOf
<1> QED
  BY <1>2, <1>3

\* A step within a call, of a worker that does not wait for a block, without
\* effect on the chain.
LEMMA MoveExtrinsics ==
    ASSUME ChainTyped, LocalsTyped, Locals, Extrinsics, NEW w \in Worker,
           job' = job, at' = at, outcome' = outcome, txPool' = txPool, included' = included,
           \A u \in Worker : u # w => pc'[u] = pc[u],
           \/ pc'[w] = pc[w]
           \/ pc[w] \notin {"wait", "receipt"} /\ pc'[w] \notin {"wait", "receipt"}
    PROVE  Extrinsics'
<1>1. Pool'
  BY DEF Extrinsics, Pool, Strict, KindOf
<1>3. ASSUME NEW j \in Request, Strict(j) PROVE Progress(j)'
  <2>1. Progress(j)
    BY <1>3 DEF Extrinsics
  <2>2. \A u \in Worker : job'[u] = j => AtWorker(u)'
    <3> SUFFICES ASSUME NEW u \in Worker, job[u] = j PROVE AtWorker(u)'
      OBVIOUS
    <3>1. AtWorker(u)
      BY <2>1 DEF Progress
    <3> QED
      BY <3>1 DEF AtWorker, Pends, Upto
  <2> QED
    BY <2>1, <2>2 DEF Progress, Pends, Upto
<1> QED
  BY <1>1, <1>3 DEF Extrinsics, Strict, KindOf

LEMMA StartExtrinsics ==
    ASSUME ChainTyped, LocalsTyped, Locals, Extrinsics,
           NEW w \in Worker, NEW j \in Job, Start(w, j)
    PROVE  Extrinsics'
<1>1. /\ pc[w] = "idle" /\ job' = [job EXCEPT ![w] = j] /\ at' = [at EXCEPT ![j] = 1]
      /\ outcome' = [outcome EXCEPT ![j] = "running"] /\ pc' = [pc EXCEPT ![w] = "connect"]
      /\ txPool' = txPool /\ included' = included /\ conn' = conn
      /\ j \in Request => outcome[j] = "none"
      /\ j \notin Request => w = Scheduler /\ j = Pass
      /\ Pass \notin Request /\ Job = Request \cup {Pass} /\ ~Strict(Pass) /\ NoJob \notin Job
  BY JobAssumption DEF Start, GoTo, chainVars, Job, Strict, KindOf
<1>2. \A u \in Worker : u # w => job'[u] = job[u] /\ pc'[u] = pc[u] /\ job[u] # j
  <2> SUFFICES ASSUME NEW u \in Worker, u # w PROVE job'[u] = job[u] /\ pc'[u] = pc[u] /\ job[u] # j
    OBVIOUS
  <2>1. RunsItsJob(u)
    BY DEF Locals
  <2> QED
    BY <1>1, <2>1 DEF LocalsTyped, RunsItsJob
<1>3. job'[w] = j /\ pc'[w] = "connect" /\ at'[j] = 1 /\ outcome'[j] = "running"
      /\ \A i \in Job : i # j => at'[i] = at[i] /\ outcome'[i] = outcome[i]
  BY <1>1 DEF LocalsTyped
<1>4. j \in Request /\ Strict(j) => ~Pends(j) /\ Upto(j, 0)
  <2> SUFFICES ASSUME j \in Request, Strict(j) PROVE ~Pends(j) /\ Upto(j, 0)
    OBVIOUS
  <2>1. Progress(j) /\ at[j] = 0 /\ Len(Signer[j]) \in Nat
    BY <1>1, SignerFacts DEF Extrinsics, Locals, NotYetAt
  <2> QED
    BY <2>1, <1>1 DEF Progress, Upto
<1>5. Pool'
  <2> SUFFICES ASSUME NEW a \in Account, txPool[a] # NoTx, Strict(txPool[a][1][1])
               PROVE  a = Sudo /\ txPool[a][1][2] = at'[txPool[a][1][1]]
    BY <1>1 DEF Pool, Strict, KindOf
  <2>1. txPool[a][1][1] \in Job
    BY PoolFacts
  <2>2. txPool[a][1][1] # j
    BY <1>1, <1>4, <2>1 DEF Pends
  <2> QED
    BY <2>1, <2>2, <1>3 DEF Extrinsics, Pool
<1>7. ASSUME NEW i \in Request, Strict(i) PROVE Progress(i)'
  <2>1. Progress(i)
    BY <1>7 DEF Extrinsics
  <2>2. Pends(i)' = Pends(i) /\ \A m : Upto(i, m)' = Upto(i, m)
    BY <1>1 DEF Pends, Upto
  <2>3. CASE i = j
    <3>1. \A u \in Worker : job'[u] = i => u = w
      BY <2>3, <1>2
    <3>2. at'[i] = 1 /\ outcome'[i] = "running"
      BY <2>3, <1>3
    <3>3. ~Pends(i)' /\ Upto(i, at[i] - 1)'
      <4>1. ~Pends(i) /\ Upto(i, 0)
        BY <2>3, <1>4, <1>7
      <4> QED
        BY <4>1, <3>2, <1>1 DEF Pends, Upto
    <3>4. \A u \in Worker : job'[u] = i => AtWorker(u)'
      <4> SUFFICES ASSUME NEW u \in Worker, job'[u] = i PROVE AtWorker(u)'
        OBVIOUS
      <4>1. pc'[u] = "connect"
        BY <3>1, <1>3
      <4> QED
        BY <4>1, <3>3 DEF AtWorker
    <3> QED
      BY <3>2, <3>3, <3>4 DEF Progress
  <2>4. CASE i # j
    <3>1. at'[i] = at[i] /\ outcome'[i] = outcome[i]
      BY <2>4, <1>1, <1>3
    <3>2. \A u \in Worker : job'[u] = i => AtWorker(u)'
      <4> SUFFICES ASSUME NEW u \in Worker, job'[u] = i PROVE AtWorker(u)'
        OBVIOUS
      <4>1. job[u] = i /\ pc'[u] = pc[u]
        BY <2>4, <1>2, <1>3
      <4>2. AtWorker(u)
        BY <4>1, <2>1 DEF Progress
      <4> QED
        BY <4>1, <4>2, <3>1, <1>1 DEF AtWorker, Pends, Upto
    <3> QED
      BY <2>1, <3>1, <3>2, <1>1 DEF Progress, Pends, Upto
  <2> QED BY <2>3, <2>4
<1> QED
  BY <1>5, <1>7 DEF Extrinsics, Strict, KindOf

LEMMA SubmitExtrinsics ==
    ASSUME ChainTyped, LocalsTyped, Locals, Extrinsics, NEW w \in Worker, Submit(w)
    PROVE  Extrinsics'
<1> DEFINE s == SignerAt(w)
           c == <<job[w], at[job[w]]>>
<1>1. /\ pc[w] = "submit" /\ txPool' = [txPool EXCEPT ![s] = <<c, via[w]>>]
      /\ pc' = [pc EXCEPT ![w] = "wait"]
      /\ UNCHANGED <<included, job, at, outcome>>
  BY DEF Submit, Here, GoTo
<1>2. job[w] \in Job /\ outcome[job[w]] = "running" /\ s \in Account /\ c \in Call
      /\ at[job[w]] \in 1..Len(Signer[job[w]]) /\ Signer[job[w]] \in Seq(Account)
  BY <1>1, BusyFacts, SignerFacts
<1>3. Strict(job[w]) => s = Sudo /\ job[w] \in Request
  BY <1>2, JobAssumption DEF Strict, KindOf, SignerAt, Job
<1>4. /\ txPool'[s] = <<c, via[w]>> /\ txPool'[s] # NoTx
      /\ \A a \in Account : a # s => txPool'[a] = txPool[a]
  <2>1. via[w] \in Owner \cup {Sudo, NoOne}
    BY DEF LocalsTyped
  <2>2. <<c, via[w]>> # NoTx
    BY <1>2, <2>1, AccountAssumption
  <2> QED
    BY <1>1, <1>2, <2>2 DEF ChainTyped
<1>5. /\ pc'[w] = "wait"
      /\ \A u \in Worker : u # w => pc'[u] = pc[u] /\ (job[u] = NoJob \/ job[u] # job[w])
  BY <1>1 DEF LocalsTyped, Locals, OneWorkerEach
<1>6. Pool'
  BY <1>1, <1>2, <1>3, <1>4 DEF Extrinsics, Pool, Strict, KindOf
<1>8. ASSUME NEW j \in Request, Strict(j) PROVE Progress(j)'
  <2>1. Progress(j)
    BY <1>8 DEF Extrinsics
  <2>2. CASE j = job[w]
    <3>1. AtWorker(w)
      BY <2>1, <2>2 DEF Progress
    <3>2. Upto(j, at[j] - 1)
      BY <2>2, <3>1, <1>1 DEF AtWorker
    <3>0. j # NoJob
      BY <1>8, JobAssumption DEF Job
    <3>3. \A u \in Worker : job'[u] = j => AtWorker(u)'
      <4> SUFFICES ASSUME NEW u \in Worker, job[u] = j PROVE AtWorker(u)'
        BY <1>1
      <4>1. u = w
        BY <2>2, <3>0, <1>5
      <4> QED
        BY <4>1, <1>5 DEF AtWorker
    <3> QED
      BY <2>2, <3>2, <3>3, <1>1, <1>2 DEF Progress, Upto
  <2>3. CASE j # job[w]
    <3>1. Pends(j)' => Pends(j)
      BY <2>3, <1>4 DEF Pends
    <3>2. \A u \in Worker : job'[u] = j => AtWorker(u)'
      <4> SUFFICES ASSUME NEW u \in Worker, job[u] = j PROVE AtWorker(u)'
        BY <1>1
      <4>1. AtWorker(u) /\ pc'[u] = pc[u]
        BY <2>1, <2>3, <1>5 DEF Progress
      <4> QED
        BY <4>1, <3>1, <1>1 DEF AtWorker, Upto
    <3> QED
      BY <2>1, <3>1, <3>2, <1>1 DEF Progress, Upto
  <2> QED BY <2>2, <2>3
<1> QED
  BY <1>6, <1>8 DEF Extrinsics, Strict, KindOf

LEMMA InBlockExtrinsics ==
    ASSUME ChainTyped, LocalsTyped, Locals, Extrinsics, NEW a \in Account, InBlock(a)
    PROVE  Extrinsics'
<1> DEFINE c == txPool[a][1]
<1>1. /\ txPool[a] # NoTx /\ txPool' = [txPool EXCEPT ![a] = NoTx]
      /\ included' = IF c[1] \in Request THEN included \cup {c} ELSE included
      /\ pc' = [u \in Worker |-> IF AwaitsBlock(u, a) THEN "receipt" ELSE pc[u]]
      /\ UNCHANGED <<conn, job, at, outcome>>
  BY DEF InBlock
<1>2. c \in Call /\ c[1] \in Job /\ c[2] \in 1..Len(Signer[c[1]]) /\ c = <<c[1], c[2]>>
  BY <1>1, PoolFacts DEF Call
<1>3. txPool'[a] = NoTx /\ \A b \in Account : b # a => txPool'[b] = txPool[b]
  BY <1>1 DEF ChainTyped
<1>4. Pool'
  BY <1>1, <1>3 DEF Extrinsics, Pool, Strict, KindOf
<1>6. ASSUME NEW j \in Request, Strict(j) PROVE Progress(j)'
  <2>1. Progress(j)
    BY <1>6 DEF Extrinsics
  <2>2. CASE j = c[1]
    <3>1. Pends(j) /\ c = <<j, at[j]>> /\ a = Sudo
      BY <2>2, <1>1, <1>2, <1>6 DEF Extrinsics, Pool, Pends
    <3>2. ~Pends(j)'
      BY <2>2, <3>1, <1>1, <1>3, <1>6 DEF Extrinsics, Pool, Pends
    <3>3. Upto(j, at[j] - 1) /\ included' = included \cup {<<j, at[j]>>} /\ at[j] \in Nat
      BY <2>1, <2>2, <3>1, <1>1, <1>2 DEF Progress, LocalsTyped
    <3>4. Upto(j, at[j])'
      BY <3>3, <1>1 DEF Upto
    <3>5. \A u \in Worker : job'[u] = j => AtWorker(u)'
      <4> SUFFICES ASSUME NEW u \in Worker, job[u] = j PROVE AtWorker(u)'
        BY <1>1
      <4>1. AtWorker(u)
        BY <2>1 DEF Progress
      <4>2. pc[u] = "wait"
        BY <4>1, <3>1 DEF AtWorker
      <4>3. pc'[u] \in {"wait", "receipt"}
        BY <4>2, <1>1
      <4> QED
        BY <4>3, <3>2, <3>4, <1>1 DEF AtWorker
    <3>6. outcome'[j] # "ok" /\ outcome'[j] # "none"
      BY <2>1, <3>1, <1>1 DEF Progress
    <3> QED
      BY <3>2, <3>4, <3>5, <3>6, <1>1 DEF Progress
  <2>3. CASE j # c[1]
    <3>1. /\ Pends(j)' <=> Pends(j)
          /\ \A k \in 1..Len(Signer[j]) : <<j, k>> \in included' <=> <<j, k>> \in included
      BY <2>3, <1>1, <1>2, <1>3 DEF Pends
    <3>2. \A m : Upto(j, m)' <=> Upto(j, m)
      BY <3>1 DEF Upto
    <3>3. \A u \in Worker : job'[u] = j => AtWorker(u)'
      <4> SUFFICES ASSUME NEW u \in Worker, job[u] = j PROVE AtWorker(u)'
        BY <1>1
      <4>1. AtWorker(u)
        BY <2>1 DEF Progress
      <4>2. ~AwaitsBlock(u, a)
        BY <2>3 DEF AwaitsBlock, Here
      <4>3. pc'[u] = pc[u]
        BY <4>2, <1>1
      <4> QED
        BY <4>1, <4>3, <3>1, <3>2, <1>1 DEF AtWorker, Upto
    <3> QED
      BY <2>1, <3>1, <3>2, <3>3, <1>1 DEF Progress, Upto
  <2> QED BY <2>2, <2>3
<1> QED
  BY <1>4, <1>6 DEF Extrinsics, Strict, KindOf

LEMMA ForgottenExtrinsics ==
    ASSUME ChainTyped, LocalsTyped, Locals, Extrinsics, NEW a \in Account, Forgotten(a)
    PROVE  Extrinsics'
<1>1. /\ txPool' = [txPool EXCEPT ![a] = NoTx]
      /\ UNCHANGED <<included, job, pc, at, outcome>>
  BY DEF Forgotten, workerVars
<1>2. txPool'[a] = NoTx /\ \A b \in Account : b # a => txPool'[b] = txPool[b]
  BY <1>1 DEF ChainTyped
<1>3. Pool'
  BY <1>1, <1>2 DEF Extrinsics, Pool, Strict, KindOf
<1>5. ASSUME NEW j \in Request, Strict(j) PROVE Progress(j)'
  <2>1. Progress(j) /\ (Pends(j)' => Pends(j))
    BY <1>2, <1>5 DEF Extrinsics, Pends
  <2>2. \A m : Upto(j, m)' <=> Upto(j, m)
    BY <1>1 DEF Upto
  <2>3. \A u \in Worker : job'[u] = j => AtWorker(u)'
    BY <2>1, <2>2, <1>1 DEF Progress, AtWorker, Upto
  <2> QED
    BY <2>1, <2>2, <2>3, <1>1 DEF Progress, Upto
<1> QED
  BY <1>3, <1>5 DEF Extrinsics, Strict, KindOf

\* A strict job whose worker has found its receipt good may go on.
LEMMA ReceiptSeen ==
    ASSUME Extrinsics, NEW w \in Worker, pc[w] = "receipt", job[w] \in Request, Strict(job[w])
    PROVE  ~Pends(job[w]) /\ Upto(job[w], at[job[w]])
<1>1. Progress(job[w])
  BY DEF Extrinsics
<1>2. AtWorker(w)
  BY <1>1 DEF Progress
<1> QED
  BY <1>2 DEF AtWorker

LEMMA ExtrinsicsStep ==
    ASSUME ChainTyped, LocalsTyped, Locals, Extrinsics, [Next]_vars
    PROVE  Extrinsics'
<1>0. /\ \A w \in Worker : job[w] \in Job \cup {NoJob}
      /\ Job = Request \cup {Pass} /\ ~Strict(Pass) /\ Pass \notin Request
  BY JobAssumption DEF LocalsTyped, Job, Strict, KindOf
<1>1. ASSUME NEW w \in Worker, NEW j \in Job, Start(w, j) PROVE Extrinsics'
  BY <1>1, StartExtrinsics
<1>2. ASSUME NEW w \in Worker, pc[w] # "idle", Leave(w, "stopped"),
             txPool' = txPool, included' = included
      PROVE  Extrinsics'
  BY <1>2, LeaveExtrinsics, BusyFacts
<1>3. ASSUME NEW w \in Worker,
             SetRaises(w) \/ ComposeRaises(w) \/ Interrupted(w) \/ ConnectFails(w) \/ Dies(w)
      PROVE  Extrinsics'
  <2>1. pc[w] # "idle" /\ txPool' = txPool /\ included' = included
    BY <1>3 DEF SetRaises, ComposeRaises, Interrupted, ConnectFails, Dies, Raise, chainVars, Busy
  <2>2. Leave(w, "stopped")
    BY <1>3 DEF SetRaises, ComposeRaises, Interrupted, ConnectFails, Dies, Raise
  <2> QED
    BY <2>1, <2>2, <1>2
<1>4. ASSUME NEW w \in Worker, pc[w] # "idle", Fail(w), txPool' = txPool, included' = included
      PROVE  Extrinsics'
  <2>1. CASE Strict(job[w])
    BY <1>4, <2>1, <1>2 DEF Fail
  <2>2. CASE ~Strict(job[w])
    BY <1>4, <2>2, GoOnExtrinsics DEF Fail
  <2> QED BY <2>1, <2>2
<1>5. ASSUME NEW w \in Worker, WrongKey(w) \/ SubmitFails(w) \/ WaitFails(w) PROVE Extrinsics'
  <2>1. pc[w] # "idle" /\ Fail(w) /\ txPool' = txPool /\ included' = included
    BY <1>5 DEF WrongKey, SubmitFails, WaitFails, chainVars
  <2> QED BY <2>1, <1>4
<1>6. ASSUME NEW w \in Worker, ReadReceipt(w) PROVE Extrinsics'
  <2>1. pc[w] = "receipt" /\ txPool' = txPool /\ included' = included
    BY <1>6 DEF ReadReceipt, chainVars
  <2>2. CASE success[w]
    <3>1. Strict(job[w]) => ~Pends(job[w]) /\ Upto(job[w], at[job[w]])
      BY <2>1, <1>0, ReceiptSeen, BusyFacts
    <3> QED
      BY <1>6, <2>1, <2>2, <3>1, GoOnExtrinsics DEF ReadReceipt
  <2>3. CASE ~success[w]
    BY <1>6, <2>1, <2>3, <1>4 DEF ReadReceipt
  <2> QED BY <2>2, <2>3
<1>7. ASSUME NEW w \in Worker, Look(w) PROVE Extrinsics'
  <2>1. /\ pc[w] = "look" /\ txPool' = txPool /\ included' = included
    BY <1>7 DEF Look, chainVars
  <2>2. ~Strict(job[w])
    BY <2>1 DEF Locals, RunsItsJob, Looks, Strict
  <2>3. CASE SignerAt(w) \in nominating
    BY <1>7, <2>1, <2>2, <2>3, GoOnExtrinsics DEF Look
  <2>4. CASE GoesToSign(w)
    BY <2>1, <2>4, MoveExtrinsics DEF GoesToSign, GoTo, LocalsTyped
  <2>5. CASE Leave(w, "stopped")
    BY <2>1, <2>5, <1>2
  <2> QED BY <1>7, <2>3, <2>4, <2>5 DEF Look, GoesToSign
<1>8. ASSUME NEW w \in Worker, Connect(w) \/ ReadKeys(w) \/ Sign(w) \/ Break(w) PROVE Extrinsics'
  <2>1. UNCHANGED <<job, at, outcome, txPool, included>>
    BY <1>8 DEF Connect, ReadKeys, Sign, Break, chainVars
  <2>2. \A u \in Worker : u # w => pc'[u] = pc[u]
    BY <1>8 DEF Connect, AfterClient, ReadKeys, Sign, Break, GoTo, LocalsTyped
  <2>3. \/ pc'[w] = pc[w]
        \/ pc[w] \notin {"wait", "receipt"} /\ pc'[w] \notin {"wait", "receipt"}
    BY <1>8 DEF Connect, GetClient, AfterClient, ReadKeys, Sign, Break, GoTo, LocalsTyped
  <2> QED
    BY <2>1, <2>2, <2>3, MoveExtrinsics
<1>9. ASSUME NEW w \in Worker, Submit(w) PROVE Extrinsics'
  BY <1>9, SubmitExtrinsics
<1>10. ASSUME NEW a \in Account, InBlock(a) \/ Forgotten(a) PROVE Extrinsics'
  BY <1>10, InBlockExtrinsics, ForgottenExtrinsics
<1>11. ASSUME (\E s \in Owner \cup {Sudo} : ChangeKey(s)) \/ UNCHANGED vars PROVE Extrinsics'
  <2>1. UNCHANGED <<txPool, included, job, pc, at, outcome>>
    BY <1>11 DEF ChangeKey, vars, chainVars, workerVars
  <2>2. Pool'
    BY <2>1 DEF Extrinsics, Pool, Strict, KindOf
  <2>4. \A j \in Request : Strict(j) => Progress(j)'
    BY <2>1 DEF Extrinsics, Progress, AtWorker, Pends, Upto
  <2> QED
    BY <2>2, <2>4 DEF Extrinsics, Strict, KindOf
<1> QED
  BY <1>1, <1>3, <1>5, <1>6, <1>7, <1>8, <1>9, <1>10, <1>11 DEF Next, CallStep

-----------------------------------------------------------------------------
\* The phases of a call that has not been submitted yet.
Before == {"connect", "look", "keys", "sign", "submit"}

\* The steps, by what they do to jobs, blocks and the pool.
Leaves(w) ==
    /\ pc[w] # "idle" /\ UNCHANGED chainVars
    /\ Leave(w, "stopped")

GoesOn(w) ==
    /\ pc[w] # "idle" /\ UNCHANGED chainVars /\ GoOn(w)
    /\ Strict(job[w]) => pc[w] = "receipt" /\ success[w]

Quiet ==
    /\ UNCHANGED <<included, effected, job, at, outcome, success>>
    /\ txPool' = txPool \/ \E a \in Account : txPool' = [txPool EXCEPT ![a] = NoTx]
    /\ \A u \in Worker : pc'[u] = pc[u] \/ (pc[u] \in Before /\ pc'[u] \in Before)

LEMMA StepKinds ==
    ASSUME LocalsTyped, Locals, [Next]_vars
    PROVE  \/ \E w \in Worker, j \in Job : Start(w, j)
           \/ \E w \in Worker : Leaves(w) \/ GoesOn(w) \/ Submit(w)
           \/ \E a \in Account : InBlock(a)
           \/ Quiet
<1>1. ASSUME NEW w \in Worker, SetRaises(w) \/ ComposeRaises(w) \/ Interrupted(w)
                                 \/ ConnectFails(w) \/ Dies(w)
      PROVE  Leaves(w)
  BY <1>1 DEF SetRaises, ComposeRaises, Interrupted, ConnectFails, Dies, Raise, Leaves, chainVars, Busy
<1>2. ASSUME NEW w \in Worker, pc[w] # "idle", Fail(w), UNCHANGED chainVars
      PROVE  Leaves(w) \/ GoesOn(w)
  BY <1>2 DEF Fail, Leaves, GoesOn
<1>3. ASSUME NEW w \in Worker, WrongKey(w) \/ SubmitFails(w) \/ WaitFails(w)
      PROVE  Leaves(w) \/ GoesOn(w)
  BY <1>2, <1>3 DEF WrongKey, SubmitFails, WaitFails
<1>4. ASSUME NEW w \in Worker, ReadReceipt(w) PROVE Leaves(w) \/ GoesOn(w)
  BY <1>2, <1>4 DEF ReadReceipt, GoesOn
<1>5. ASSUME NEW w \in Worker, Look(w) PROVE Leaves(w) \/ GoesOn(w) \/ Quiet
  <2>1. pc[w] = "look" /\ UNCHANGED chainVars /\ ~Strict(job[w])
    BY <1>5 DEF Look, Locals, RunsItsJob, Looks, Strict
  <2>2. CASE SignerAt(w) \in nominating
    BY <1>5, <2>1, <2>2 DEF Look, GoesOn
  <2>3. CASE GoesToSign(w)
    <3>1. UNCHANGED <<included, effected, job, at, outcome, success, txPool>>
      BY <2>1, <2>3 DEF GoesToSign, chainVars
    <3>2. \A u \in Worker : pc'[u] = pc[u] \/ (pc[u] \in Before /\ pc'[u] \in Before)
      BY <2>1, <2>3 DEF GoesToSign, GoTo, Before, LocalsTyped
    <3> QED
      BY <3>1, <3>2 DEF Quiet
  <2>4. CASE Leave(w, "stopped")
    BY <2>1, <2>4 DEF Leaves
  <2> QED
    BY <1>5, <2>2, <2>3, <2>4 DEF Look, GoesToSign
<1>6. ASSUME NEW w \in Worker, Connect(w) \/ ReadKeys(w) \/ Sign(w) \/ Break(w) PROVE Quiet
  <2>1. UNCHANGED <<included, effected, job, at, outcome, success, txPool>>
    BY <1>6 DEF Connect, ReadKeys, Sign, Break, chainVars
  <2>2. \A u \in Worker : pc'[u] = pc[u] \/ (pc[u] \in Before /\ pc'[u] \in Before)
    BY <1>6 DEF Connect, GetClient, AfterClient, ReadKeys, Sign, Break, GoTo, Before, LocalsTyped
  <2> QED
    BY <2>1, <2>2 DEF Quiet
<1>7. ASSUME NEW a \in Account, Forgotten(a) PROVE Quiet
  <2>1. UNCHANGED <<included, effected, job, at, outcome, success, pc>>
    BY <1>7 DEF Forgotten, workerVars
  <2>2. txPool' = [txPool EXCEPT ![a] = NoTx]
    BY <1>7 DEF Forgotten
  <2> QED
    BY <2>1, <2>2 DEF Quiet
<1>8. ASSUME (\E s \in Owner \cup {Sudo} : ChangeKey(s)) \/ UNCHANGED vars PROVE Quiet
  <2>1. UNCHANGED <<included, effected, job, at, outcome, success, pc, txPool>>
    BY <1>8 DEF ChangeKey, vars, chainVars, workerVars
  <2> QED
    BY <2>1 DEF Quiet
<1> QED
  BY <1>1, <1>3, <1>4, <1>5, <1>6, <1>7, <1>8 DEF Next, CallStep

\* What waits for an account is a call that this account signs.
OfItsSigner ==
    \A a \in Account : txPool[a] # NoTx => a = Signer[txPool[a][1][1]][txPool[a][1][2]]

LEMMA SignerStep ==
    ASSUME ChainTyped, LocalsTyped, Locals, OfItsSigner, [Next]_vars
    PROVE  OfItsSigner'
<1>1. ASSUME txPool' = txPool \/ (\E a \in Account : txPool' = [txPool EXCEPT ![a] = NoTx])
      PROVE  OfItsSigner'
  BY <1>1 DEF OfItsSigner, ChainTyped
<1>2. ASSUME NEW w \in Worker, Submit(w) PROVE OfItsSigner'
  <2>1. PICK s \in Account, c \in Call :
            /\ txPool' = [txPool EXCEPT ![s] = <<c, via[w]>>]
            /\ s = Signer[c[1]][c[2]]
    BY <1>2, BusyFacts DEF Submit, SignerAt, Here
  <2>2. \A a \in Account : txPool'[a] = IF a = s THEN <<c, via[w]>> ELSE txPool[a]
    BY <2>1 DEF ChainTyped
  <2> QED
    BY <2>1, <2>2 DEF OfItsSigner
<1>3. ASSUME NEW w \in Worker, NEW j \in Job, Start(w, j) PROVE txPool' = txPool
  BY <1>3 DEF Start, chainVars
<1> QED
  BY <1>1, <1>2, <1>3, StepKinds DEF Leaves, GoesOn, InBlock, Quiet, chainVars

-----------------------------------------------------------------------------
IInv == TypeOK /\ Locals /\ Extrinsics /\ OfItsSigner

LEMMA InitIInv == ASSUME Init PROVE IInv
<1>1. /\ NoJob \notin Job /\ Pass \notin Request /\ Job = Request \cup {Pass}
      /\ \A j \in Job : Len(Signer[j]) \in Nat /\ Len(Signer[j]) >= 1
  BY JobAssumption, SignerFacts DEF Job
<1>2. TypeOK
  BY <1>1 DEF Init, TypeOK, Account
<1>3. Locals
  BY <1>1 DEF Init, Locals, RunsItsJob, OneWorkerEach, NotYetAt
<1>4. Pool
  BY DEF Init, Pool
<1>5. ASSUME NEW j \in Request PROVE Progress(j)
  <2>1. ~Pends(j) /\ Upto(j, 0) /\ at[j] = 0 /\ outcome[j] = "none"
    BY <1>1 DEF Init, Pends, Upto
  <2>2. \A w \in Worker : job[w] # j
    BY <1>1 DEF Init
  <2> QED
    BY <2>1, <2>2 DEF Progress
<1>6. OfItsSigner
  BY DEF Init, OfItsSigner
<1> QED
  BY <1>2, <1>3, <1>4, <1>5, <1>6 DEF IInv, Extrinsics

LEMMA StepIInv == ASSUME IInv, [Next]_vars PROVE IInv'
<1>1. ChainTyped /\ LocalsTyped /\ Locals /\ Extrinsics /\ OfItsSigner
  BY TypeParts DEF IInv
<1>2. ChainTyped' /\ LocalsTyped' /\ Locals' /\ Extrinsics' /\ OfItsSigner'
  BY <1>1, LocalsStep, ChainStep, ExtrinsicsStep, SignerStep
<1>3. TypeOK'
  BY <1>2 DEF TypeOK, ChainTyped, LocalsTyped
<1> QED
  BY <1>2, <1>3 DEF IInv

LEMMA Invariant == Spec => []IInv
<1> QED
  BY InitIInv, StepIInv, PTL DEF Spec

\* Every variable keeps its type, and a job is never past the end of its calls.
THEOREM TypeCorrect == Spec => []TypeOK
<1>1. IInv => TypeOK
  BY DEF IInv
<1> QED
  BY <1>1, Invariant, PTL

\* The calls of a strict job (apis.py:86, a loop over the configuration keys)
\* that blocks have included are the first ones of its list.
THEOREM ConfigurationIsAPrefix == Spec => []IncludedArePrefix
<1>1. ASSUME IInv PROVE IncludedArePrefix
  <2> SUFFICES ASSUME NEW j \in Request, Strict(j)
               PROVE  \E m \in {at[j], at[j] - 1} :
                         {k \in 1..Len(Signer[j]) : <<j, k>> \in included} = 1..m
    BY DEF IncludedArePrefix
  <2>1. Progress(j) /\ at[j] \in Nat /\ at[j] <= Len(Signer[j]) /\ Len(Signer[j]) \in Nat
    BY <1>1, SignerFacts DEF IInv, Extrinsics, TypeOK, Job
  <2>2. ASSUME NEW m \in {at[j], at[j] - 1}, Upto(j, m)
        PROVE  {k \in 1..Len(Signer[j]) : <<j, k>> \in included} = 1..m
    BY <2>1, <2>2 DEF Upto
  <2> QED
    BY <2>1, <2>2 DEF Progress
<1> QED
  BY <1>1, Invariant, PTL

\* A handler that looks at its receipts and answers OK (substrate.py:94,
\* apis.py:90) has had every one of its calls included in a block.
THEOREM OkIsIncluded == Spec => []OkMeansIncluded
<1>1. ASSUME IInv PROVE OkMeansIncluded
  <2> SUFFICES ASSUME NEW j \in Request, Strict(j), outcome[j] = "ok",
                      NEW k \in 1..Len(Signer[j])
               PROVE  <<j, k>> \in included
    BY DEF OkMeansIncluded
  <2>1. Progress(j) /\ Len(Signer[j]) \in Nat
    BY <1>1, SignerFacts DEF IInv, Extrinsics, Job
  <2> QED
    BY <2>1 DEF Progress, Upto
<1> QED
  BY <1>1, Invariant, PTL

-----------------------------------------------------------------------------
\* The k-th call of j has done what it is for, or its pallet refuses it.
Done(j, k) ==
    \/ <<j, k>> \in effected \cup Unwelcome
    \/ Looks(j, k) /\ Signer[j][k] \in nominating

Willing(j) == Kind[j] = "nominate" => <<j, 1>> \notin Unwelcome

\* The accounts that a creation of nominators signs with can pay.
Paid(j) == Kind[j] = "nominate" => Range(Signer[j]) \subseteq funded

RightKey(v) == v = sudoKey /\ v \in Proxied \cup {Sudo}

\* Nobody else uses the accounts of the worker's job, and none of its own
\* extrinsics waits but the one it waits for.
AccountsAreItsOwn(w) ==
    /\ \A u \in Worker : u # w /\ job[u] # NoJob => ~Shares(job[u], job[w])
    /\ \A k \in DOMAIN Signer[job[w]] :
          txPool[Signer[job[w]][k]] # NoTx => pc[w] = "wait" /\ Signer[job[w]][k] = SignerAt(w)

\* What the worker's variables hold while nothing disturbs its job.
InOrder(w) ==
    /\ pc[w] # "connect" => conn[w] = "up"
    /\ pc[w] = "submit" => fresh[w]
    /\ pc[w] = "wait" => txPool[SignerAt(w)] # NoTx /\ txPool[SignerAt(w)][1] = Here(w)
    /\ IsSudo(job[w], at[job[w]]) =>
          /\ pc[w] \in {"sign", "submit"} => RightKey(via[w])
          /\ pc[w] = "wait" => RightKey(txPool[SignerAt(w)][2])
    /\ pc[w] = "receipt" /\ ~success[w] =>
          \/ Kind[job[w]] = "nominate"
          \/ Kind[job[w]] = "transfer" /\ <<job[w], at[job[w]]>> \in Unwelcome \ Batch

SoFarDone(w) ==
    Willing(job[w]) =>
        /\ \A k \in 1..(at[job[w]] - 1) : Done(job[w], k)
        /\ at[job[w]] > 1 => Paid(job[w])
        /\ pc[w] = "receipt" => Done(job[w], at[job[w]]) /\ Paid(job[w])

Undisturbed(w) == job[w] \in Request /\ job[w] \notin disturbed

AllDone(j) ==
    outcome[j] = "ok" /\ j \notin disturbed /\ Willing(j) =>
        \A k \in 1..Len(Signer[j]) : Done(j, k)

Alone ==
    /\ Sudo \in funded
    /\ \A w \in Worker : Undisturbed(w) => AccountsAreItsOwn(w) /\ InOrder(w) /\ SoFarDone(w)
    /\ \A j \in Request : AllDone(j)

\* What is done stays done.
LEMMA DoneStays ==
    ASSUME NEW j \in Request, NEW k \in 1..Len(Signer[j]), Done(j, k),
           effected \subseteq effected', nominating \subseteq nominating'
    PROVE  Done(j, k)'
BY DEF Done, Looks, KindOf

LEMMA AllDoneStays ==
    ASSUME NEW j \in Request, AllDone(j), outcome'[j] = outcome[j], disturbed \subseteq disturbed',
           effected \subseteq effected', nominating \subseteq nominating'
    PROVE  AllDone(j)'
<1> SUFFICES ASSUME outcome'[j] = "ok", j \notin disturbed', Willing(j), NEW k \in 1..Len(Signer[j])
             PROVE  Done(j, k)'
  BY DEF AllDone, Willing
<1>1. Done(j, k)
  BY DEF AllDone
<1> QED
  BY <1>1, DoneStays

\* A step of others that leaves the worker's accounts alone.
LEMMA Bystander ==
    ASSUME LocalsTyped, Locals, NEW w \in Worker,
           Undisturbed(w), AccountsAreItsOwn(w), InOrder(w), SoFarDone(w),
           job'[w] = job[w], pc'[w] = pc[w], conn'[w] = conn[w], via'[w] = via[w],
           fresh'[w] = fresh[w], success'[w] = success[w], at'[job[w]] = at[job[w]],
           \A u \in Worker : u # w /\ job'[u] # NoJob => job'[u] = job[u] \/ ~Shares(job'[u], job[w]),
           \A k \in DOMAIN Signer[job[w]] : txPool'[Signer[job[w]][k]] = txPool[Signer[job[w]][k]],
           sudoKey' = sudoKey, effected \subseteq effected', nominating \subseteq nominating',
           funded \subseteq funded'
    PROVE  AccountsAreItsOwn(w)' /\ InOrder(w)' /\ SoFarDone(w)'
<1>1. /\ job[w] \in Request /\ job[w] \in Job /\ at[job[w]] \in 1..Len(Signer[job[w]])
      /\ DOMAIN Signer[job[w]] = 1..Len(Signer[job[w]]) /\ Len(Signer[job[w]]) \in Nat
  <2>1. job[w] \in Request /\ job[w] \in Job /\ job[w] # NoJob
    BY JobAssumption DEF Undisturbed, Job
  <2>2. pc[w] # "idle"
    BY <2>1 DEF Locals, RunsItsJob
  <2> QED
    BY <2>1, <2>2, BusyFacts, SignerFacts
<1>2. AccountsAreItsOwn(w)'
  BY DEF AccountsAreItsOwn, SignerAt
<1>3. txPool'[SignerAt(w)] = txPool[SignerAt(w)]
  BY <1>1 DEF SignerAt
<1>4. InOrder(w)'
  BY <1>3 DEF InOrder, RightKey, IsSudo, KindOf, SignerAt, Here
<1>5. SoFarDone(w)'
  <2> SUFFICES ASSUME Willing(job[w]) PROVE SoFarDone(w)'
    BY DEF SoFarDone, Willing
  <2>1. \A k \in 1..(at[job[w]] - 1) : Done(job[w], k)'
    BY <1>1, DoneStays DEF SoFarDone
  <2>2. at[job[w]] > 1 => Paid(job[w])'
    BY DEF SoFarDone, Paid
  <2>3. pc[w] = "receipt" => Done(job[w], at[job[w]])' /\ Paid(job[w])'
    BY <1>1, DoneStays DEF SoFarDone, Paid
  <2> QED
    BY <2>1, <2>2, <2>3 DEF SoFarDone, Done, Paid, Looks, KindOf
<1> QED
  BY <1>2, <1>4, <1>5

\* A step leaves the variables of a worker alone.
SameLocals(w) ==
    /\ job'[w] = job[w] /\ pc'[w] = pc[w] /\ via'[w] = via[w]
    /\ fresh'[w] = fresh[w] /\ success'[w] = success[w]
    /\ job[w] # NoJob => at'[job[w]] = at[job[w]]

\* Worker v's step ends its job or stays with it, and concerns no other one.
OnlyConcerns(v) ==
    /\ \A w \in Worker : w # v => SameLocals(w) /\ conn'[w] = conn[w]
    /\ job'[v] \in {job[v], NoJob}
    /\ \A j \in Job : j # job[v] => outcome'[j] = outcome[j]

LEMMA LeaveConcerns ==
    ASSUME LocalsTyped, Locals, NEW v \in Worker, job[v] # NoJob, NEW how, Leave(v, how),
           \A w \in Worker : w # v => conn'[w] = conn[w]
    PROVE  OnlyConcerns(v)
<1>1. \A w \in Worker : w # v => job[w] # job[v]
  BY DEF Locals, OneWorkerEach
<1>2. job[v] \in Job /\ \A w \in Worker : job[w] \in Job \cup {NoJob}
  BY DEF LocalsTyped
<1>3. \A w \in Worker : w # v => SameLocals(w)
  BY <1>1, <1>2 DEF Leave, LocalsTyped, SameLocals
<1> QED
  BY <1>2, <1>3 DEF Leave, LocalsTyped, OnlyConcerns

LEMMA GoOnConcerns ==
    ASSUME LocalsTyped, Locals, NEW v \in Worker, job[v] # NoJob, GoOn(v),
           \A w \in Worker : w # v => conn'[w] = conn[w]
    PROVE  OnlyConcerns(v)
<1>1. CASE at[job[v]] = Len(Signer[job[v]])
  BY <1>1, LeaveConcerns DEF GoOn
<1>2. CASE at[job[v]] # Len(Signer[job[v]])
  <2>1. \A w \in Worker : w # v => job[w] # job[v]
    BY DEF Locals, OneWorkerEach
  <2>2. job[v] \in Job /\ \A w \in Worker : job[w] \in Job \cup {NoJob}
    BY DEF LocalsTyped
  <2>3. \A w \in Worker : w # v => SameLocals(w)
    BY <1>2, <2>1, <2>2 DEF GoOn, GoTo, LocalsTyped, SameLocals
  <2> QED
    BY <1>2, <2>2, <2>3 DEF GoOn, LocalsTyped, OnlyConcerns
<1> QED
  BY <1>1, <1>2

LEMMA WorkerConcerns ==
    ASSUME ChainTyped, LocalsTyped, Locals, NEW v \in Worker,
           CallStep(v) \/ ConnectFails(v) \/ Break(v) \/ Dies(v)
    PROVE  /\ OnlyConcerns(v)
           /\ UNCHANGED <<sudoKey, funded, nominating, included, effected>>
           /\ disturbed \subseteq disturbed'
           /\ txPool' = txPool \/ Submit(v)
<1>1. CASE SetRaises(v) \/ ComposeRaises(v) \/ Interrupted(v) \/ ConnectFails(v) \/ Dies(v)
  <2>1. job[v] # NoJob
    BY <1>1, BusyFacts DEF SetRaises, ComposeRaises, Interrupted, ConnectFails, Dies, Busy
  <2>2. /\ Leave(v, "stopped")
        /\ \A w \in Worker : w # v => conn'[w] = conn[w]
    BY <1>1 DEF SetRaises, ComposeRaises, GetClient, Interrupted, Noticed, ConnectFails, Dies,
                Raise, ChainTyped
  <2>3. UNCHANGED chainVars /\ disturbed \subseteq disturbed'
    BY <1>1 DEF SetRaises, ComposeRaises, GetClient, Interrupted, ConnectFails, Dies, Raise, Hit
  <2> QED
    BY <2>1, <2>2, <2>3, LeaveConcerns DEF chainVars
<1>2. CASE WrongKey(v) \/ SubmitFails(v) \/ WaitFails(v) \/ ReadReceipt(v)
  <2>1. job[v] # NoJob
    BY <1>2, BusyFacts DEF WrongKey, SubmitFails, WaitFails, ReadReceipt
  <2>2. /\ (Leave(v, "stopped") \/ GoOn(v)) /\ UNCHANGED <<chainVars, disturbed>>
        /\ \A w \in Worker : w # v => conn'[w] = conn[w]
    BY <1>2 DEF WrongKey, SubmitFails, WaitFails, ReadReceipt, Fail, Noticed, ChainTyped
  <2> QED
    BY <2>1, <2>2, LeaveConcerns, GoOnConcerns DEF chainVars
<1>3. CASE Look(v)
  <2>1. job[v] # NoJob /\ UNCHANGED <<chainVars, conn, disturbed>>
    BY <1>3, BusyFacts DEF Look
  <2>2. CASE SignerAt(v) \in nominating
    BY <1>3, <2>1, <2>2, GoOnConcerns DEF Look, chainVars
  <2>3. CASE GoesToSign(v)
    <3>1. OnlyConcerns(v)
      BY <2>1, <2>3 DEF GoesToSign, GoTo, LocalsTyped, OnlyConcerns, SameLocals
    <3> QED BY <2>1, <3>1 DEF chainVars
  <2>4. CASE Leave(v, "stopped")
    BY <2>1, <2>4, LeaveConcerns DEF chainVars
  <2> QED BY <1>3, <2>2, <2>3, <2>4 DEF Look, GoesToSign
<1>4. CASE Connect(v) \/ ReadKeys(v) \/ Sign(v) \/ Break(v)
  <2>1. OnlyConcerns(v)
    BY <1>4 DEF Connect, GetClient, AfterClient, ReadKeys, Sign, Break, GoTo, LocalsTyped,
                ChainTyped, OnlyConcerns, SameLocals
  <2>2. UNCHANGED chainVars /\ disturbed \subseteq disturbed'
    BY <1>4 DEF Connect, GetClient, ReadKeys, Sign, Break, Hit
  <2> QED BY <2>1, <2>2 DEF chainVars
<1>5. CASE Submit(v)
  <2>1. OnlyConcerns(v)
    BY <1>5 DEF Submit, GoTo, LocalsTyped, OnlyConcerns, SameLocals
  <2> QED
    BY <1>5, <2>1 DEF Submit
<1> QED
  BY <1>1, <1>2, <1>3, <1>4, <1>5 DEF CallStep

\* What an undisturbed job knows of itself.
LEMMA UndisturbedFacts ==
    ASSUME ChainTyped, LocalsTyped, Locals, Alone, NEW w \in Worker, Undisturbed(w)
    PROVE  /\ job[w] \in Request /\ job[w] \in Job /\ job[w] # NoJob /\ job[w] # Pass
           /\ pc[w] # "idle" /\ outcome[job[w]] = "running"
           /\ at[job[w]] \in 1..Len(Signer[job[w]])
           /\ DOMAIN Signer[job[w]] = 1..Len(Signer[job[w]]) /\ Len(Signer[job[w]]) \in Nat
           /\ SignerAt(w) \in Account
           /\ AccountsAreItsOwn(w) /\ InOrder(w) /\ SoFarDone(w)
<1>1. job[w] \in Request /\ job[w] \in Job /\ job[w] # NoJob /\ job[w] # Pass
  BY JobAssumption DEF Undisturbed, Job
<1>2. pc[w] # "idle"
  BY <1>1 DEF Locals, RunsItsJob
<1> QED
  BY <1>1, <1>2, BusyFacts, SignerFacts DEF Alone

\* A worker's step does not disturb the others.
LEMMA WorkerSparesOthers ==
    ASSUME ChainTyped, LocalsTyped, Locals, Alone, NEW v \in Worker,
           CallStep(v) \/ ConnectFails(v) \/ Break(v) \/ Dies(v)
    PROVE  /\ Sudo \in funded'
           /\ \A w \in Worker : w # v /\ Undisturbed(w)' =>
                 AccountsAreItsOwn(w)' /\ InOrder(w)' /\ SoFarDone(w)'
           /\ \A j \in Request : j # job[v] => AllDone(j)'
<1>1. /\ OnlyConcerns(v)
      /\ UNCHANGED <<sudoKey, funded, nominating, included, effected>>
      /\ disturbed \subseteq disturbed'
      /\ txPool' = txPool \/ Submit(v)
  BY WorkerConcerns
<1>2. ASSUME NEW w \in Worker, w # v, Undisturbed(w)'
      PROVE  AccountsAreItsOwn(w)' /\ InOrder(w)' /\ SoFarDone(w)'
  <2>1. Undisturbed(w) /\ SameLocals(w) /\ conn'[w] = conn[w]
    BY <1>1, <1>2 DEF OnlyConcerns, SameLocals, Undisturbed
  <2>2. /\ job[w] \in Request /\ job[w] # NoJob
        /\ AccountsAreItsOwn(w) /\ InOrder(w) /\ SoFarDone(w)
    BY <2>1, UndisturbedFacts
  <2>3. \A u \in Worker : u # w /\ job'[u] # NoJob => job'[u] = job[u]
    BY <1>1 DEF OnlyConcerns, SameLocals
  <2>4. \A k \in DOMAIN Signer[job[w]] : txPool'[Signer[job[w]][k]] = txPool[Signer[job[w]][k]]
    <3>1. CASE txPool' = txPool
      BY <3>1
    <3>2. CASE Submit(v)
      <4>1. pc[v] # "idle" /\ txPool' = [txPool EXCEPT ![SignerAt(v)] = <<Here(v), via[v]>>]
        BY <3>2 DEF Submit
      <4>2. /\ job[v] \in Job /\ job[v] # NoJob /\ at[job[v]] \in 1..Len(Signer[job[v]])
            /\ DOMAIN Signer[job[v]] = 1..Len(Signer[job[v]])
        BY <4>1, BusyFacts, SignerFacts
      <4>3. ~Shares(job[v], job[w])
        BY <1>2, <2>2, <4>2 DEF AccountsAreItsOwn
      <4>4. \A k \in DOMAIN Signer[job[w]] : Signer[job[w]][k] # SignerAt(v)
        BY <4>2, <4>3 DEF Shares, SignerAt
      <4> QED
        BY <4>1, <4>4 DEF ChainTyped
    <3> QED BY <1>1, <3>1, <3>2
  <2> QED
    BY <1>1, <2>1, <2>2, <2>3, <2>4, Bystander DEF SameLocals
<1>3. ASSUME NEW j \in Request, j # job[v] PROVE AllDone(j)'
  <2>1. AllDone(j) /\ j \in Job
    BY DEF Alone, Job
  <2> QED
    BY <1>1, <1>3, <2>1, AllDoneStays DEF OnlyConcerns
<1> QED
  BY <1>1, <1>2, <1>3 DEF Alone

LEMMA OwnLeave ==
    ASSUME ChainTyped, LocalsTyped, Locals, NEW w \in Worker, NEW j, job[w] = j, j # NoJob,
           NEW how \in {"ok", "stopped"}, Leave(w, how),
           how # "ok" \/ (j \in Request => AllDone(j)')
    PROVE  /\ ~Undisturbed(w)'
           /\ j \in Request => AllDone(j)'
<1>1. job'[w] = NoJob /\ NoJob \notin Request /\ Pass \notin Request
  BY JobAssumption DEF Leave, LocalsTyped, Job
<1>2. j \in Request => outcome'[j] = how
  BY <1>1 DEF Leave, LocalsTyped
<1>3. j \in Request /\ how # "ok" => AllDone(j)'
  BY <1>2 DEF AllDone
<1> QED
  BY <1>1, <1>3 DEF Undisturbed

LEMMA OwnGoOn ==
    ASSUME ChainTyped, LocalsTyped, Locals, Alone, NEW w \in Worker, NEW j, job[w] = j,
           pc[w] # "idle", GoOn(w),
           UNCHANGED <<chainVars, disturbed>>,
           Undisturbed(w) => /\ conn'[w] = "up" /\ pc[w] # "wait"
                             /\ Willing(j) => Done(j, at[j]) /\ Paid(j)
    PROVE  /\ Undisturbed(w)' => AccountsAreItsOwn(w)' /\ InOrder(w)' /\ SoFarDone(w)'
           /\ j \in Request => AllDone(j)'
<1>1. /\ j \in Job /\ j # NoJob /\ outcome[j] = "running" /\ at[j] \in 1..Len(Signer[j])
      /\ DOMAIN Signer[j] = 1..Len(Signer[j]) /\ Len(Signer[j]) \in Nat
      /\ Pass \notin Request /\ NoJob \notin Request
  BY BusyFacts, SignerFacts, JobAssumption DEF Job
<1>2. ASSUME Undisturbed(w), Willing(j), NEW k \in 1..at[j] PROVE Done(j, k)'
  <2>1. Done(j, k)
    BY <1>1, <1>2, UndisturbedFacts DEF SoFarDone
  <2> QED
    BY <2>1 DEF Done, Looks, KindOf, chainVars
<1>3. CASE at[j] = Len(Signer[j])
  <2>1. Leave(w, "ok")
    BY <1>3 DEF GoOn
  <2>2. j \in Request => AllDone(j)'
    <3> SUFFICES ASSUME j \in Request, j \notin disturbed', Willing(j), NEW k \in 1..Len(Signer[j])
                 PROVE  Done(j, k)'
      BY DEF AllDone, Willing
    <3>1. Undisturbed(w)
      BY DEF Undisturbed
    <3> QED
      BY <1>2, <1>3, <3>1
  <2> QED
    BY <1>1, <2>1, <2>2, OwnLeave
<1>4. CASE at[j] # Len(Signer[j])
  <2>1. /\ at'[j] = at[j] + 1 /\ pc'[w] = FirstPhase(j, at[j] + 1)
        /\ job' = job /\ outcome' = outcome
    BY <1>1, <1>4 DEF GoOn, GoTo, LocalsTyped
  <2>2. j \in Request => AllDone(j)'
    BY <1>1, <2>1 DEF AllDone
  <2>3. ASSUME Undisturbed(w)' PROVE AccountsAreItsOwn(w)' /\ InOrder(w)' /\ SoFarDone(w)'
    <3>1. Undisturbed(w) /\ j \in Request
      BY <2>1, <2>3 DEF Undisturbed
    <3>2. AccountsAreItsOwn(w) /\ InOrder(w) /\ SoFarDone(w) /\ j # Pass
      BY <3>1, UndisturbedFacts
    <3>3. pc'[w] \in {"connect", "look", "sign"} /\ (pc'[w] = "sign" => ~IsSudo(j, at[j] + 1))
      BY <2>1, <3>2 DEF FirstPhase, Reconnects, Looks, IsSudo
    <3>4. AccountsAreItsOwn(w)'
      BY <2>1, <3>1, <3>2 DEF AccountsAreItsOwn, chainVars
    <3>5. InOrder(w)'
      BY <2>1, <3>1, <3>3 DEF InOrder, IsSudo
    <3>6. SoFarDone(w)'
      BY <1>1, <1>2, <2>1, <3>1, <3>3 DEF SoFarDone, Willing, Paid, chainVars
    <3> QED BY <3>4, <3>5, <3>6
  <2> QED BY <2>2, <2>3
<1> QED
  BY <1>3, <1>4

LEMMA OwnFail ==
    ASSUME ChainTyped, LocalsTyped, Locals, Alone, NEW w \in Worker, NEW j, job[w] = j,
           pc[w] # "idle", Fail(w),
           UNCHANGED <<chainVars, disturbed>>,
           Undisturbed(w) /\ ~Strict(j) =>
               /\ conn'[w] = "up" /\ pc[w] # "wait"
               /\ Willing(j) => Done(j, at[j]) /\ Paid(j)
    PROVE  /\ Undisturbed(w)' => AccountsAreItsOwn(w)' /\ InOrder(w)' /\ SoFarDone(w)'
           /\ j \in Request => AllDone(j)'
<1>1. CASE Strict(j)
  BY <1>1, BusyFacts, OwnLeave DEF Fail
<1>2. CASE ~Strict(j)
  BY <1>2, OwnGoOn DEF Fail
<1> QED BY <1>1, <1>2

\* The extrinsic of an undisturbed and willing job is accepted.
LEMMA AloneAdmissible ==
    ASSUME ChainTyped, LocalsTyped, Locals, Alone, NEW w \in Worker, Undisturbed(w),
           pc[w] = "submit", Willing(job[w])
    PROVE  ~Refused(w)
<1>1. /\ job[w] \in Request /\ at[job[w]] \in 1..Len(Signer[job[w]])
      /\ DOMAIN Signer[job[w]] = 1..Len(Signer[job[w]])
      /\ AccountsAreItsOwn(w) /\ InOrder(w) /\ SoFarDone(w)
  BY UndisturbedFacts
<1>2. fresh[w]
  BY <1>1 DEF InOrder
<1>3. txPool[SignerAt(w)] = NoTx
  BY <1>1 DEF AccountsAreItsOwn, SignerAt
<1>4. SignerAt(w) \in funded
  <2>1. CASE Kind[job[w]] # "nominate" \/ at[job[w]] = 1
    <3>1. SignerAt(w) = Sudo
      BY <1>1, <2>1, JobAssumption DEF SignerAt
    <3> QED
      BY <3>1 DEF Alone
  <2>2. CASE Kind[job[w]] = "nominate" /\ at[job[w]] # 1
    <3>1. Range(Signer[job[w]]) \subseteq funded
      BY <1>1, <2>2 DEF SoFarDone, Paid
    <3>2. SignerAt(w) \in Range(Signer[job[w]])
      BY <1>1 DEF SignerAt, Range
    <3> QED
      BY <3>1, <3>2
  <2> QED BY <2>1, <2>2
<1> QED
  BY <1>2, <1>3, <1>4 DEF Admissible, Refused

\* A step of a worker within its call keeps the accounts its own and what is
\* done done.
LEMMA OwnMove ==
    ASSUME ChainTyped, LocalsTyped, Locals, Alone, NEW w \in Worker, NEW j, job[w] = j,
           pc[w] \notin {"idle", "wait"}, pc'[w] # "receipt",
           UNCHANGED <<chainVars, job, at, outcome, disturbed>>,
           Undisturbed(w)' => InOrder(w)'
    PROVE  /\ Undisturbed(w)' => AccountsAreItsOwn(w)' /\ InOrder(w)' /\ SoFarDone(w)'
           /\ j \in Request => AllDone(j)'
<1>1. j \in Request => AllDone(j)'
  BY BusyFacts DEF AllDone
<1>2. ASSUME Undisturbed(w)' PROVE AccountsAreItsOwn(w)' /\ SoFarDone(w)'
  <2>1. Undisturbed(w)
    BY <1>2 DEF Undisturbed
  <2>2. AccountsAreItsOwn(w) /\ SoFarDone(w)
    BY <2>1, UndisturbedFacts
  <2>3. AccountsAreItsOwn(w)'
    BY <2>2 DEF AccountsAreItsOwn, chainVars
  <2>4. SoFarDone(w)'
    BY <2>2 DEF SoFarDone, Willing, Done, Paid, Looks, KindOf, chainVars
  <2> QED BY <2>3, <2>4
<1> QED
  BY <1>1, <1>2

LEMMA OwnSubmit ==
    ASSUME ChainTyped, LocalsTyped, Locals, Alone, NEW w \in Worker, NEW j, job[w] = j, Submit(w)
    PROVE  /\ Undisturbed(w)' => AccountsAreItsOwn(w)' /\ InOrder(w)' /\ SoFarDone(w)'
           /\ j \in Request => AllDone(j)'
<1>1. /\ pc[w] = "submit" /\ conn[w] = "up" /\ pc'[w] = "wait"
      /\ txPool' = [txPool EXCEPT ![SignerAt(w)] = <<Here(w), via[w]>>]
      /\ UNCHANGED <<conn, job, at, outcome, disturbed, effected, nominating, funded, sudoKey>>
  BY DEF Submit, GoTo, LocalsTyped
<1>2. j \in Request => AllDone(j)'
  BY <1>1, BusyFacts DEF AllDone
<1>3. ASSUME Undisturbed(w)' PROVE AccountsAreItsOwn(w)' /\ InOrder(w)' /\ SoFarDone(w)'
  <2>1. Undisturbed(w)
    BY <1>1, <1>3 DEF Undisturbed
  <2>2. /\ SignerAt(w) \in Account /\ j \in Job /\ Signer[j] \in Seq(Account)
        /\ AccountsAreItsOwn(w) /\ InOrder(w) /\ SoFarDone(w)
    BY <2>1, UndisturbedFacts, SignerFacts
  <2>3. /\ txPool'[SignerAt(w)] = <<Here(w), via[w]>> /\ txPool'[SignerAt(w)] # NoTx
        /\ \A a \in Account : a # SignerAt(w) => txPool'[a] = txPool[a]
    <3>1. Here(w) \in Call /\ via[w] \in Owner \cup {Sudo, NoOne}
      BY <1>1, BusyFacts DEF Here, LocalsTyped
    <3>2. <<Here(w), via[w]>> # NoTx
      BY <3>1, AccountAssumption
    <3> QED
      BY <1>1, <2>2, <3>2 DEF ChainTyped
  <2>4. AccountsAreItsOwn(w)'
    <3>1. \A k \in DOMAIN Signer[j] : Signer[j][k] \in Account
      BY <2>2
    <3> QED
      BY <1>1, <2>2, <2>3, <3>1 DEF AccountsAreItsOwn, SignerAt
  <2>5. InOrder(w)'
    BY <1>1, <2>2, <2>3 DEF InOrder, RightKey, SignerAt, Here, IsSudo, KindOf
  <2>6. SoFarDone(w)'
    BY <1>1, <2>2 DEF SoFarDone, Willing, Done, Paid, Looks, KindOf
  <2> QED BY <2>4, <2>5, <2>6
<1> QED
  BY <1>2, <1>3

LEMMA OwnStep ==
    ASSUME ChainTyped, LocalsTyped, Locals, Alone, NEW w \in Worker, NEW j, job[w] = j,
           CallStep(w) \/ ConnectFails(w) \/ Break(w) \/ Dies(w)
    PROVE  /\ Undisturbed(w)' => AccountsAreItsOwn(w)' /\ InOrder(w)' /\ SoFarDone(w)'
           /\ j \in Request => AllDone(j)'
<1> DEFINE Goal == /\ Undisturbed(w)' => AccountsAreItsOwn(w)' /\ InOrder(w)' /\ SoFarDone(w)'
                   /\ j \in Request => AllDone(j)'
<1>0. /\ RunsItsJob(w) /\ Pass \notin Request
      /\ Undisturbed(w) => InOrder(w) /\ SoFarDone(w) /\ j \in Request /\ at[j] \in Nat
  BY UndisturbedFacts, JobAssumption DEF Locals
<1>1. CASE SetRaises(w) \/ ComposeRaises(w) \/ Interrupted(w) \/ ConnectFails(w) \/ Dies(w)
  <2>1. j # NoJob
    BY <1>1, BusyFacts DEF SetRaises, ComposeRaises, Interrupted, ConnectFails, Dies, Busy
  <2>2. Leave(w, "stopped")
    BY <1>1 DEF SetRaises, ComposeRaises, Interrupted, ConnectFails, Dies, Raise
  <2> QED
    BY <2>1, <2>2, OwnLeave
<1>2. CASE WrongKey(w)
  <2>1. pc[w] = "keys" /\ conn[w] = "up" /\ Fail(w) /\ UNCHANGED <<chainVars, conn, disturbed>>
    BY <1>2 DEF WrongKey
  <2>2. Undisturbed(w) => Strict(j)
    BY <1>0, <2>1, JobAssumption DEF RunsItsJob, IsSudo, Strict, KindOf
  <2> QED
    BY <2>1, <2>2, OwnFail
<1>3. CASE SubmitFails(w)
  <2>1. /\ pc[w] = "submit" /\ Fail(w) /\ UNCHANGED <<chainVars, disturbed>>
        /\ Down(w) \/ (Refused(w) /\ conn[w] = "up" /\ conn' = conn)
    BY <1>3 DEF SubmitFails
  <2>2. Undisturbed(w) => conn'[w] = "up" /\ ~Willing(j)
    BY <1>0, <2>1, AloneAdmissible DEF InOrder, Down
  <2> QED
    BY <2>1, <2>2, OwnFail
<1>4. CASE WaitFails(w)
  <2>1. pc[w] = "wait" /\ Down(w) /\ Fail(w) /\ UNCHANGED <<chainVars, disturbed>>
    BY <1>4 DEF WaitFails
  <2>2. ~Undisturbed(w)
    BY <1>0, <2>1 DEF InOrder, Down
  <2> QED
    BY <2>1, <2>2, OwnFail
<1>5. CASE ReadReceipt(w)
  <2>1. /\ pc[w] = "receipt" /\ conn[w] = "up" /\ (GoOn(w) \/ Fail(w))
        /\ UNCHANGED <<chainVars, conn, disturbed>>
    BY <1>5 DEF ReadReceipt
  <2>2. Undisturbed(w) /\ Willing(j) => Done(j, at[j]) /\ Paid(j)
    BY <1>0, <2>1 DEF SoFarDone
  <2> QED
    BY <2>1, <2>2, OwnFail, OwnGoOn
<1>6. CASE Look(w)
  <2>1. /\ pc[w] = "look" /\ conn[w] = "up" /\ UNCHANGED <<chainVars, conn, disturbed>>
        /\ Looks(j, at[j])
    BY <1>0, <1>6 DEF Look, RunsItsJob
  <2>2. CASE SignerAt(w) \in nominating
    <3>1. GoOn(w)
      BY <1>6, <2>2 DEF Look
    <3>2. Done(j, at[j])
      BY <2>1, <2>2 DEF Done, SignerAt
    <3>3. Undisturbed(w) /\ Willing(j) => Paid(j)
      BY <1>0, <2>1 DEF SoFarDone, Looks
    <3> QED
      BY <2>1, <3>1, <3>2, <3>3, OwnGoOn
  <2>3. CASE GoesToSign(w)
    <3>1. pc'[w] = "sign" /\ UNCHANGED <<job, via, fresh, success, at, outcome>>
      BY <2>3 DEF GoesToSign, GoTo, LocalsTyped
    <3>2. j \in Request => ~IsSudo(j, at[j])
      BY <1>0, <2>1 DEF IsSudo, Looks, KindOf
    <3>3. Undisturbed(w)' => InOrder(w)'
      BY <2>1, <3>1, <3>2 DEF InOrder, Undisturbed, IsSudo, KindOf
    <3> QED
      BY <2>1, <3>1, <3>3, OwnMove
  <2>4. CASE Leave(w, "stopped")
    BY <2>1, <2>4, BusyFacts, OwnLeave
  <2> QED BY <1>6, <2>2, <2>3, <2>4 DEF Look, GoesToSign
<1>7. CASE Connect(w)
  <2>1. /\ pc[w] = "connect"
        /\ pc'[w] = IF IsSudo(j, at[j]) THEN "keys" ELSE "sign"
        /\ UNCHANGED <<chainVars, job, at, outcome>>
    BY <1>7 DEF Connect, GetClient, AfterClient, GoTo, LocalsTyped
  <2>2. CASE conn[w] = "silent"
    <3>1. disturbed' = disturbed \cup (Request \cap {j})
      BY <1>7, <2>2 DEF Connect, GetClient, Hit
    <3>2. j \in Request => j \in disturbed'
      BY <3>1
    <3> QED
      BY <2>1, <3>2 DEF Undisturbed, AllDone
  <2>3. CASE conn[w] # "silent"
    <3>1. conn'[w] = "up" /\ disturbed' = disturbed
      BY <1>7, <2>3 DEF Connect, GetClient, ChainTyped
    <3>2. InOrder(w)'
      BY <2>1, <3>1 DEF InOrder, IsSudo, KindOf
    <3> QED
      BY <2>1, <3>1, <3>2, OwnMove
  <2> QED BY <2>2, <2>3
<1>8. CASE ReadKeys(w)
  <2>1. /\ pc[w] = "keys" /\ conn[w] = "up" /\ pc'[w] = "sign" /\ via'[w] = sudoKey
        /\ sudoKey \in Proxied \cup {Sudo}
        /\ UNCHANGED <<chainVars, conn, job, at, outcome, disturbed>>
    BY <1>8 DEF ReadKeys, GoTo, LocalsTyped
  <2>2. InOrder(w)'
    BY <2>1 DEF InOrder, RightKey, IsSudo, KindOf, chainVars
  <2> QED
    BY <2>1, <2>2, OwnMove
<1>9. CASE Sign(w)
  <2>1. /\ pc[w] = "sign" /\ conn[w] = "up" /\ pc'[w] = "submit" /\ fresh'[w] = TRUE
        /\ UNCHANGED <<chainVars, conn, job, via, at, outcome, disturbed>>
    BY <1>9 DEF Sign, GoTo, LocalsTyped
  <2>2. Undisturbed(w) => InOrder(w)'
    BY <1>0, <2>1 DEF InOrder, RightKey, IsSudo, KindOf, chainVars
  <2> QED
    BY <2>1, <2>2, OwnMove DEF Undisturbed
<1>10. CASE Submit(w)
  BY <1>10, OwnSubmit
<1>11. CASE Break(w)
  <2>1. disturbed' = disturbed \cup (Request \cap {j}) /\ job' = job /\ outcome' = outcome
    BY <1>11 DEF Break, Hit
  <2>2. j \in Request => j \in disturbed'
    BY <2>1
  <2> QED
    BY <2>1, <2>2 DEF Undisturbed, AllDone
<1> QED
  BY <1>1, <1>2, <1>3, <1>4, <1>5, <1>6, <1>7, <1>8, <1>9, <1>10, <1>11 DEF CallStep

LEMMA StartAlone ==
    ASSUME ChainTyped, LocalsTyped, Locals, Alone, NEW v \in Worker, NEW j \in Job, Start(v, j)
    PROVE  Alone'
<1> DEFINE rivals == {job[u] : u \in Worker} \ {NoJob}
           near == {i \in rivals : Shares(i, j)}
           late == \E k \in DOMAIN Signer[j] : txPool[Signer[j][k]] # NoTx
<1>1. /\ pc[v] = "idle" /\ job' = [job EXCEPT ![v] = j] /\ pc' = [pc EXCEPT ![v] = "connect"]
      /\ at' = [at EXCEPT ![j] = 1] /\ outcome' = [outcome EXCEPT ![j] = "running"]
      /\ UNCHANGED <<chainVars, conn, via, fresh, success>>
      /\ j \in Request => outcome[j] = "none"
      /\ j \notin Request => v = Scheduler /\ j = Pass
      /\ Pass \notin Request /\ NoJob \notin Job
  BY JobAssumption DEF Start, GoTo
<1>2. disturbed' = disturbed \cup (Request \cap (near \cup IF near # {} \/ late THEN {j} ELSE {}))
  BY DEF Start
<1>3. \A u \in Worker : u # v => job'[u] = job[u] /\ pc'[u] = pc[u] /\ job[u] # j
  <2> SUFFICES ASSUME NEW u \in Worker, u # v PROVE job'[u] = job[u] /\ pc'[u] = pc[u] /\ job[u] # j
    OBVIOUS
  <2>1. RunsItsJob(u)
    BY DEF Locals
  <2> QED
    BY <1>1, <2>1 DEF LocalsTyped, RunsItsJob
<1>4. ASSUME NEW w \in Worker, w # v, Undisturbed(w)'
      PROVE  AccountsAreItsOwn(w)' /\ InOrder(w)' /\ SoFarDone(w)'
  <2>1. Undisturbed(w)
    BY <1>2, <1>3, <1>4 DEF Undisturbed
  <2>2. /\ job[w] \in Request /\ job[w] \in Job /\ job[w] # NoJob
        /\ AccountsAreItsOwn(w) /\ InOrder(w) /\ SoFarDone(w)
    BY <2>1, UndisturbedFacts
  <2>3. job[w] \notin near
    BY <1>2, <1>3, <1>4, <2>2 DEF Undisturbed
  <2>4. ~Shares(j, job[w])
    BY <2>2, <2>3 DEF Shares
  <2>5. \A u \in Worker : u # w /\ job'[u] # NoJob => job'[u] = job[u] \/ ~Shares(job'[u], job[w])
    BY <1>1, <1>3, <2>4 DEF LocalsTyped
  <2>6. job'[w] = job[w] /\ pc'[w] = pc[w] /\ at'[job[w]] = at[job[w]]
    BY <1>1, <1>3, <1>4, <2>2 DEF LocalsTyped
  <2> QED
    BY <1>1, <2>1, <2>2, <2>5, <2>6, Bystander DEF chainVars
<1>5. ASSUME Undisturbed(v)' PROVE AccountsAreItsOwn(v)' /\ InOrder(v)' /\ SoFarDone(v)'
  <2>1. job'[v] = j /\ pc'[v] = "connect" /\ at'[j] = 1
    BY <1>1 DEF LocalsTyped
  <2>2. near = {} /\ ~late
    BY <1>2, <1>5, <2>1 DEF Undisturbed
  <2>3. AccountsAreItsOwn(v)'
    <3>1. \A u \in Worker : u # v /\ job'[u] # NoJob => ~Shares(job'[u], j)
      BY <1>3, <2>2
    <3>2. \A k \in DOMAIN Signer[j] : txPool'[Signer[j][k]] = NoTx
      BY <1>1, <2>2 DEF chainVars
    <3> QED
      BY <2>1, <3>1, <3>2 DEF AccountsAreItsOwn
  <2>4. InOrder(v)' /\ SoFarDone(v)'
    BY <2>1 DEF InOrder, SoFarDone
  <2> QED BY <2>3, <2>4
<1>6. ASSUME NEW i \in Request PROVE AllDone(i)'
  <2>1. CASE i = j
    BY <2>1, <1>1 DEF AllDone, LocalsTyped
  <2>2. CASE i # j
    <3>1. AllDone(i) /\ outcome'[i] = outcome[i] /\ disturbed \subseteq disturbed'
      BY <1>1, <1>2, <1>6, <2>2 DEF Alone, LocalsTyped
    <3> QED
      BY <1>1, <3>1, AllDoneStays DEF chainVars
  <2> QED BY <2>1, <2>2
<1> QED
  BY <1>1, <1>4, <1>5, <1>6 DEF Alone, chainVars

\* A block with the extrinsic an undisturbed job waits for.
LEMMA OwnBlock ==
    ASSUME ChainTyped, LocalsTyped, Locals, OfItsSigner, Alone, NEW w \in Worker, NEW a \in Account,
           Undisturbed(w), AwaitsBlock(w, a), InBlock(a)
    PROVE  AccountsAreItsOwn(w)' /\ InOrder(w)' /\ SoFarDone(w)'
<1> DEFINE j == job[w]
           c == txPool[a][1]
           v == txPool[a][2]
<1>1. /\ j \in Request /\ j # Pass /\ at[j] \in 1..Len(Signer[j])
      /\ DOMAIN Signer[j] = 1..Len(Signer[j]) /\ Signer[j] \in Seq(Account)
      /\ AccountsAreItsOwn(w) /\ InOrder(w) /\ SoFarDone(w)
      /\ Kind[j] \in {"configure", "transfer", "nominate"}
  BY UndisturbedFacts, SignerFacts, JobAssumption
<1>2. pc[w] = "wait" /\ SignerAt(w) = a /\ conn[w] = "up" /\ Signer[j][at[j]] = a
  BY DEF AwaitsBlock, SignerAt, Here, OfItsSigner
<1>3. c = <<j, at[j]>>
  BY DEF AwaitsBlock, Here
<1>4. IsSudo(j, at[j]) => v = sudoKey
  BY <1>1, <1>2 DEF InOrder, RightKey
<1>5. /\ job' = job /\ at' = at /\ conn' = conn /\ sudoKey' = sudoKey /\ pc'[w] = "receipt"
      /\ txPool' = [txPool EXCEPT ![a] = NoTx]
      /\ success'[w] = (success[w] \/ Reported(a, c, v))
      /\ effected' = IF TakesEffect(a, c, v) /\ (c[1] \in Request \/ IsSudo(c[1], c[2]))
                     THEN effected \cup {c} ELSE effected
      /\ funded' = IF TakesEffect(a, c, v) /\ KindOf(c[1]) = "nominate" /\ c[2] = 1
                   THEN funded \cup Range(Signer[c[1]]) ELSE funded
      /\ nominating \subseteq nominating'
  BY DEF InBlock
<1>6. AccountsAreItsOwn(w)'
  <2>1. \A k \in DOMAIN Signer[j] : Signer[j][k] \in Account
    BY <1>1
  <2> QED
    BY <1>1, <1>2, <1>5, <2>1 DEF AccountsAreItsOwn, ChainTyped
<1>7. TakesEffect(a, c, v) \/ c \in Unwelcome \/ (Looks(j, at[j]) /\ a \in nominating)
  BY <1>3, <1>4 DEF TakesEffect
<1>8. InOrder(w)'
  <2> SUFFICES ASSUME ~success'[w]
               PROVE  \/ Kind[j] = "nominate"
                      \/ Kind[j] = "transfer" /\ <<j, at[j]>> \in Unwelcome \ Batch
    BY <1>2, <1>5 DEF InOrder
  <2>1. ~Reported(a, c, v)
    BY <1>5
  <2>2. ~IsSudo(j, at[j]) /\ ~TakesEffect(a, c, v) /\ c \notin Batch
    BY <1>3, <1>4, <2>1 DEF Reported
  <2>3. Looks(j, at[j]) => Kind[j] = "nominate"
    BY <1>1 DEF Looks, KindOf
  <2>4. Kind[j] # "configure"
    BY <1>1, <2>2 DEF IsSudo, KindOf
  <2> QED
    BY <1>1, <1>3, <1>7, <2>2, <2>3, <2>4
<1>9. SoFarDone(w)'
  <2> SUFFICES ASSUME Willing(j) PROVE SoFarDone(w)'
    BY <1>5 DEF SoFarDone, Willing
  <2>1. \A k \in 1..(at[j] - 1) : Done(j, k)
    BY <1>1 DEF SoFarDone
  <2>2. effected \subseteq effected' /\ nominating \subseteq nominating' /\ funded \subseteq funded'
    BY <1>5
  <2>3. \A k \in 1..(at[j] - 1) : Done(j, k)'
    BY <1>1, <1>5, <2>1, <2>2 DEF Done, Looks, KindOf
  <2>4. <<j, at[j]>> \in effected' \cup Unwelcome \/ (Looks(j, at[j]) /\ a \in nominating')
    BY <1>1, <1>3, <1>5, <1>7
  <2>5. Done(j, at[j])'
    BY <1>2, <1>5, <2>4 DEF Done, Looks, KindOf
  <2>6. Paid(j)'
    <3>1. CASE Kind[j] # "nominate"
      BY <1>5, <3>1 DEF Paid
    <3>2. CASE Kind[j] = "nominate" /\ at[j] > 1
      BY <1>1, <1>5, <2>2, <3>2 DEF SoFarDone, Paid
    <3>3. CASE Kind[j] = "nominate" /\ at[j] = 1
      <4>1. ~Looks(j, at[j]) /\ c \notin Unwelcome /\ KindOf(j) = "nominate"
        BY <1>1, <1>3, <3>3 DEF Looks, KindOf, Willing
      <4>2. funded' = funded \cup Range(Signer[j])
        BY <1>3, <1>5, <1>7, <3>3, <4>1
      <4> QED BY <1>5, <4>2 DEF Paid
    <3> QED BY <1>1, <3>1, <3>2, <3>3
  <2> QED
    BY <1>5, <2>3, <2>5, <2>6 DEF SoFarDone
<1> QED
  BY <1>6, <1>8, <1>9

LEMMA InBlockAlone ==
    ASSUME ChainTyped, LocalsTyped, Locals, OfItsSigner, Alone, NEW a \in Account, InBlock(a)
    PROVE  Alone'
<1>1. /\ UNCHANGED <<sudoKey, conn, job, via, at, outcome, disturbed>>
      /\ effected \subseteq effected' /\ nominating \subseteq nominating' /\ funded \subseteq funded'
      /\ txPool[a] # NoTx /\ txPool' = [txPool EXCEPT ![a] = NoTx]
      /\ fresh' = [w \in Worker |-> fresh[w] /\ SignerAt(w) # a]
      /\ pc' = [w \in Worker |-> IF AwaitsBlock(w, a) THEN "receipt" ELSE pc[w]]
  BY DEF InBlock
<1>2. success' = [w \in Worker |-> success[w] \/ (AwaitsBlock(w, a)
                                        /\ Reported(a, txPool[a][1], txPool[a][2]))]
  BY DEF InBlock
<1>3. ASSUME NEW w \in Worker, Undisturbed(w)'
      PROVE  AccountsAreItsOwn(w)' /\ InOrder(w)' /\ SoFarDone(w)'
  <2>1. Undisturbed(w)
    BY <1>1, <1>3 DEF Undisturbed
  <2>2. CASE AwaitsBlock(w, a)
    BY <2>1, <2>2, OwnBlock
  <2>3. CASE ~AwaitsBlock(w, a)
    <3>1. /\ job[w] \in Job /\ DOMAIN Signer[job[w]] = 1..Len(Signer[job[w]])
          /\ at[job[w]] \in 1..Len(Signer[job[w]]) /\ Signer[job[w]] \in Seq(Account)
          /\ AccountsAreItsOwn(w) /\ InOrder(w) /\ SoFarDone(w)
      BY <2>1, UndisturbedFacts, SignerFacts
    <3>2. \A k \in DOMAIN Signer[job[w]] : Signer[job[w]][k] # a
      BY <1>1, <2>3, <3>1 DEF AccountsAreItsOwn, InOrder, AwaitsBlock
    <3>3. fresh'[w] = fresh[w]
      BY <1>1, <3>1, <3>2 DEF SignerAt, LocalsTyped
    <3>4. success'[w] = success[w]
      BY <1>2, <2>3 DEF LocalsTyped
    <3>5. pc'[w] = pc[w]
      BY <1>1, <2>3
    <3>6. \A k \in DOMAIN Signer[job[w]] : txPool'[Signer[job[w]][k]] = txPool[Signer[job[w]][k]]
      BY <1>1, <3>2 DEF ChainTyped
    <3> QED
      BY <1>1, <2>1, <3>1, <3>3, <3>4, <3>5, <3>6, Bystander
  <2> QED BY <2>2, <2>3
<1>4. ASSUME NEW j \in Request PROVE AllDone(j)'
  BY <1>1, <1>4, AllDoneStays DEF Alone
<1> QED
  BY <1>1, <1>3, <1>4 DEF Alone

LEMMA ForgottenAlone ==
    ASSUME ChainTyped, LocalsTyped, Locals, Alone, NEW a \in Account, Forgotten(a)
    PROVE  Alone'
<1>1. /\ txPool[a] # NoTx /\ txPool' = [txPool EXCEPT ![a] = NoTx]
      /\ disturbed' = disturbed \cup
             (Request \cap {job[w] : w \in {u \in Worker : AwaitsBlock(u, a)}})
      /\ UNCHANGED <<sudoKey, funded, nominating, effected, conn, job, pc, via, fresh, success,
                     at, outcome>>
  BY DEF Forgotten, workerVars
<1>2. ASSUME NEW w \in Worker, Undisturbed(w)'
      PROVE  AccountsAreItsOwn(w)' /\ InOrder(w)' /\ SoFarDone(w)'
  <2>1. Undisturbed(w) /\ ~AwaitsBlock(w, a)
    BY <1>1, <1>2 DEF Undisturbed
  <2>2. AccountsAreItsOwn(w) /\ InOrder(w) /\ SoFarDone(w)
    BY <2>1, UndisturbedFacts
  <2>3. \A k \in DOMAIN Signer[job[w]] : Signer[job[w]][k] # a
    BY <1>1, <2>1, <2>2 DEF AccountsAreItsOwn, InOrder, AwaitsBlock
  <2>4. \A k \in DOMAIN Signer[job[w]] : txPool'[Signer[job[w]][k]] = txPool[Signer[job[w]][k]]
    BY <1>1, <2>3 DEF ChainTyped
  <2> QED
    BY <1>1, <2>1, <2>2, <2>4, Bystander
<1>3. ASSUME NEW j \in Request PROVE AllDone(j)'
  BY <1>1, <1>3, AllDoneStays DEF Alone
<1> QED
  BY <1>1, <1>2, <1>3 DEF Alone

LEMMA AloneStep ==
    ASSUME ChainTyped, LocalsTyped, Locals, OfItsSigner, Alone, [Next]_vars
    PROVE  Alone'
<1>1. ASSUME NEW v \in Worker, NEW j \in Job, Start(v, j) PROVE Alone'
  BY <1>1, StartAlone
<1>2. ASSUME NEW v \in Worker, CallStep(v) \/ ConnectFails(v) \/ Break(v) \/ Dies(v)
      PROVE  Alone'
  <2>1. /\ Undisturbed(v)' => AccountsAreItsOwn(v)' /\ InOrder(v)' /\ SoFarDone(v)'
        /\ \A j \in Request : job[v] = j => AllDone(j)'
    BY <1>2, OwnStep
  <2>2. /\ Sudo \in funded'
        /\ \A w \in Worker : w # v /\ Undisturbed(w)' =>
              AccountsAreItsOwn(w)' /\ InOrder(w)' /\ SoFarDone(w)'
        /\ \A j \in Request : j # job[v] => AllDone(j)'
    BY <1>2, WorkerSparesOthers
  <2> QED
    BY <2>1, <2>2 DEF Alone
<1>3. ASSUME NEW a \in Account, InBlock(a) \/ Forgotten(a) PROVE Alone'
  BY <1>3, InBlockAlone, ForgottenAlone
<1>4. ASSUME NEW s \in Owner \cup {Sudo}, ChangeKey(s) PROVE Alone'
  <2>1. /\ disturbed' = disturbed \cup (Request \cap {job[w] : w \in Worker})
        /\ UNCHANGED <<job, outcome, funded, effected, nominating>>
    BY <1>4 DEF ChangeKey, workerVars
  <2>2. \A w \in Worker : ~Undisturbed(w)'
    BY <2>1 DEF Undisturbed
  <2>3. ASSUME NEW j \in Request PROVE AllDone(j)'
    BY <2>1, <2>3, AllDoneStays DEF Alone
  <2> QED
    BY <2>1, <2>2, <2>3 DEF Alone
<1>5. ASSUME UNCHANGED vars PROVE Alone'
  <2>1. UNCHANGED <<chainVars, conn, job, pc, via, fresh, success, at, outcome, disturbed>>
    BY <1>5 DEF vars, workerVars
  <2>2. ASSUME NEW w \in Worker, Undisturbed(w)'
        PROVE  AccountsAreItsOwn(w)' /\ InOrder(w)' /\ SoFarDone(w)'
    <3>1. Undisturbed(w)
      BY <2>1, <2>2 DEF Undisturbed
    <3>2. AccountsAreItsOwn(w) /\ InOrder(w) /\ SoFarDone(w)
      BY <3>1, UndisturbedFacts
    <3> QED
      BY <2>1, <3>1, <3>2, Bystander DEF chainVars
  <2>3. ASSUME NEW j \in Request PROVE AllDone(j)'
    BY <2>1, <2>3, AllDoneStays DEF Alone, chainVars
  <2> QED
    BY <2>1, <2>2, <2>3 DEF Alone, chainVars
<1> QED
  BY <1>1, <1>2, <1>3, <1>4, <1>5 DEF Next

LEMMA AloneInvariant == Spec => [](IInv /\ Alone)
<1>1. Init => IInv /\ Alone
  <2> SUFFICES ASSUME Init PROVE IInv /\ Alone
    OBVIOUS
  <2>1. \A w \in Worker : ~Undisturbed(w)
    BY JobAssumption DEF Init, Undisturbed, Job
  <2>2. \A j \in Request : AllDone(j)
    BY DEF Init, AllDone, Job
  <2> QED
    BY <2>1, <2>2, InitIInv DEF Init, Alone
<1>2. IInv /\ Alone /\ [Next]_vars => (IInv /\ Alone)'
  <2> SUFFICES ASSUME IInv, Alone, [Next]_vars PROVE (IInv /\ Alone)'
    OBVIOUS
  <2>1. Alone'
    BY AloneStep, TypeParts DEF IInv
  <2> QED
    BY <2>1, StepIInv
<1> QED
  BY <1>1, <1>2, PTL DEF Spec

\* A job that nothing disturbs and that ends well has done what it was for,
\* although sudo and batches do not say whether the inner call succeeded
\* (substrate.py:94) and the creation of nominators looks at no result.
THEOREM UndisturbedIsEffective == Spec => []UndisturbedOkIsEffective
<1>1. ASSUME Alone PROVE UndisturbedOkIsEffective
  BY <1>1 DEF Alone, AllDone, Done, Willing, UndisturbedOkIsEffective, Accomplished
<1> QED
  BY <1>1, AloneInvariant, PTL

\* The step in which a job fails, of a worker that runs it undisturbed.
LEMMA FailingStep ==
    ASSUME IInv, Alone, NEW v \in Worker, NEW j \in Request, job[v] = j, j \notin disturbed',
           CallStep(v) \/ ConnectFails(v) \/ Break(v) \/ Dies(v), outcome'[j] = "stopped"
    PROVE  Cause(j)
<1>1. ChainTyped /\ LocalsTyped /\ Locals /\ j # Pass /\ j \in Job /\ Pass \notin Request
  BY TypeParts, JobAssumption DEF IInv, Job
<1>2. Undisturbed(v)
  BY <1>1, WorkerConcerns DEF Undisturbed
<1>3. /\ InOrder(v) /\ RunsItsJob(v) /\ outcome[j] = "running" /\ pc[v] # "idle"
      /\ Kind[j] \in {"configure", "transfer", "nominate"}
  BY <1>1, <1>2, UndisturbedFacts, JobAssumption DEF Locals
<1>4. ASSUME GoOn(v) PROVE FALSE
  <2>1. outcome'[j] = "ok" \/ outcome' = outcome
    BY <1>1, <1>4 DEF GoOn, Leave, LocalsTyped
  <2> QED BY <2>1, <1>3
<1>5. ASSUME Fail(v) PROVE Strict(j)
  BY <1>4, <1>5 DEF Fail
<1>6. CASE SetRaises(v) \/ Interrupted(v)
  <2>1. CASE SetRaises(v)
    BY <1>1, <2>1 DEF SetRaises
  <2>2. CASE Interrupted(v)
    <3>1. pc[v] # "connect" /\ conn[v] # "up"
      BY <2>2 DEF Interrupted, Down
    <3> QED BY <3>1, <1>3 DEF InOrder
  <2> QED BY <1>6, <2>1, <2>2
<1>7. CASE ConnectFails(v) \/ Dies(v) \/ Break(v)
  <2>1. j \in Request /\ disturbed' = disturbed \cup (Request \cap {job[v]})
    BY <1>1, <1>7 DEF ConnectFails, Dies, Break, Hit, Job
  <2> QED BY <2>1
<1>8. CASE WrongKey(v)
  <2>1. Strict(j) /\ sudoKey \notin Proxied \cup {Sudo} /\ IsSudo(j, at[j])
    BY <1>3, <1>5, <1>8 DEF WrongKey, RunsItsJob
  <2> QED
    BY <2>1, <1>1, <1>3 DEF IsSudo, KindOf, Cause
<1>9. CASE SubmitFails(v)
  <2>1. Strict(j) /\ pc[v] = "submit" /\ conn[v] = "up" /\ Refused(v)
    BY <1>3, <1>5, <1>9 DEF SubmitFails, Down, InOrder
  <2>2. Willing(j)
    BY <1>1, <2>1 DEF Willing, Strict, KindOf
  <2> QED
    BY <1>1, <1>2, <2>1, <2>2, AloneAdmissible
<1>10. CASE WaitFails(v)
  BY <1>3, <1>10 DEF WaitFails, Down, InOrder
<1>11. CASE ReadReceipt(v)
  <2>1. Strict(j) /\ pc[v] = "receipt" /\ ~success[v]
    BY <1>4, <1>5, <1>11 DEF ReadReceipt
  <2> QED
    BY <1>1, <1>3, <2>1 DEF InOrder, Strict, KindOf, Cause
<1>12. CASE Connect(v) \/ ReadKeys(v) \/ Sign(v) \/ Submit(v)
  BY <1>3, <1>12 DEF Connect, ReadKeys, Sign, Submit
<1>13. CASE ComposeRaises(v) \/ Look(v)
  <2>1. Here(v) \in MayNotCompose
    BY <1>3, <1>4, <1>13 DEF ComposeRaises, Look
  <2> QED
    BY <2>1 DEF Here, Cause
<1> QED
  BY <1>6, <1>7, <1>8, <1>9, <1>10, <1>11, <1>12, <1>13 DEF CallStep

\* A request that nothing disturbs fails only for want of the sudo key, as a
\* transfer that its pallet refuses, or at a call that composing may raise for
\* (runtime_utils.py:46 and 79-81): the pooled client is tried before it is used
\* (substrate.py:21) and the calls of one job do not collide.
THEOREM FailureHasACause == Spec => FailsOnlyIfDisturbed
<1>1. ASSUME IInv, Alone, [Next]_vars PROVE FailureCaused
  <2> SUFFICES ASSUME NEW j \in Request, outcome[j] = "running",
                      outcome'[j] = "stopped", j \notin disturbed'
               PROVE  Cause(j)
    BY DEF FailureCaused
  <2>1. ChainTyped /\ LocalsTyped /\ Locals /\ j \in Job
    BY <1>1, TypeParts DEF IInv, Job
  <2>2. ASSUME NEW v \in Worker, NEW i \in Job, Start(v, i) PROVE FALSE
    BY <2>1, <2>2 DEF Start, LocalsTyped
  <2>3. ASSUME NEW v \in Worker, CallStep(v) \/ ConnectFails(v) \/ Break(v) \/ Dies(v)
        PROVE  Cause(j)
    <3>1. job[v] = j
      BY <2>1, <2>3, WorkerConcerns DEF OnlyConcerns
    <3> QED
      BY <1>1, <2>3, <3>1, FailingStep
  <2>4. ASSUME \/ \E a \in Account : InBlock(a) \/ Forgotten(a)
               \/ \E s \in Owner \cup {Sudo} : ChangeKey(s)
               \/ UNCHANGED vars
        PROVE  FALSE
    <3>1. outcome' = outcome
      BY <2>4 DEF InBlock, Forgotten, ChangeKey, vars
    <3> QED BY <3>1
  <2> QED
    BY <1>1, <2>2, <2>3, <2>4 DEF Next
<1> QED
  BY <1>1, AloneInvariant, PTL DEF Spec, FailsOnlyIfDisturbed

\* Only a request that something has disturbed can be left waiting for ever at
\* substrate.py:92: what an undisturbed one waits for is in the pool.
THEOREM WaitsForWhatIsThere == Spec => []StrandedOnlyIfDisturbed
<1>1. ASSUME Alone PROVE StrandedOnlyIfDisturbed
  BY <1>1 DEF Alone, Undisturbed, InOrder, Stranded, StrandedOnlyIfDisturbed
<1> QED
  BY <1>1, AloneInvariant, PTL

-----------------------------------------------------------------------------
(* The refinement: each call once and in its turn *)

\* A call of job j waits in the pool.
Waits(c) == \E a \in Account : txPool[a] # NoTx /\ txPool[a][1] = c

\* A call waits or is included, but not both, and neither before its job is at
\* it and has submitted it.
Once(c) ==
    /\ Waits(c) => c \notin included
    /\ Waits(c) \/ c \in included => c[2] <= at[c[1]]
    /\ \A w \in Worker : job[w] = c[1] /\ at[c[1]] = c[2] /\ pc[w] \in Before =>
          ~Waits(c) /\ c \notin included

AtMostOnce == \A c \in Call : c[1] \in Request => Once(c)

Vouches(c) == ~IsSudo(c[1], c[2]) /\ c \notin Batch

\* Success is told by a receipt, and is true of a call that it vouches for.
Told(w) ==
    success[w] =>
        /\ pc[w] = "receipt"
        /\ job[w] \in Request /\ Vouches(<<job[w], at[job[w]]>>)
              => <<job[w], at[job[w]]>> \in effected

PInv ==
    /\ ChainTyped /\ LocalsTyped /\ Locals /\ Extrinsics
    /\ OfItsSigner /\ AtMostOnce
    /\ \A w \in Worker : Told(w)

\* A worker's job, if it is a request, is nobody else's; leaving it, or going on
\* with it, changes nothing for the others.
LEMMA LeavesFacts ==
    ASSUME LocalsTyped, Locals, NEW w \in Worker, pc[w] # "idle",
           NEW how \in {"ok", "stopped"}, Leave(w, how)
    PROVE  /\ \A j \in Request : at'[j] = at[j]
           /\ \A j \in Request : outcome'[j] = IF j = job[w] THEN how ELSE outcome[j]
           /\ job'[w] = NoJob /\ ~success'[w]
           /\ \A u \in Worker \ {w} : job'[u] = job[u] /\ pc'[u] = pc[u] /\ success'[u] = success[u]
<1>1. job[w] \in Job /\ Job = Request \cup {Pass} /\ Pass \notin Request
  BY BusyFacts, JobAssumption DEF Job
<1> QED
  BY <1>1 DEF Leave, LocalsTyped

LEMMA GoOnFacts ==
    ASSUME LocalsTyped, Locals, NEW w \in Worker, pc[w] # "idle", GoOn(w),
           at[job[w]] # Len(Signer[job[w]])
    PROVE  /\ \A j \in Job : at'[j] = IF j = job[w] THEN at[j] + 1 ELSE at[j]
           /\ outcome' = outcome /\ job' = job
           /\ pc'[w] \in Before /\ ~success'[w]
           /\ \A u \in Worker \ {w} : pc'[u] = pc[u] /\ success'[u] = success[u]
<1>1. job[w] \in Job /\ FirstPhase(job[w], at[job[w]] + 1) \in Before
  BY BusyFacts DEF FirstPhase, Before
<1> QED
  BY <1>1 DEF GoOn, GoTo, LocalsTyped

LEMMA StartFacts ==
    ASSUME LocalsTyped, Locals, NEW w \in Worker, NEW j \in Job, Start(w, j)
    PROVE  /\ UNCHANGED chainVars /\ success' = success /\ pc[w] = "idle"
           /\ j \in Request => outcome[j] = "none" /\ at[j] = 0
           /\ at' = [at EXCEPT ![j] = 1] /\ outcome' = [outcome EXCEPT ![j] = "running"]
           /\ job'[w] = j /\ pc'[w] = "connect"
           /\ \A u \in Worker \ {w} : job'[u] = job[u] /\ pc'[u] = pc[u] /\ job[u] # j
<1>1. Locals'
  BY StartLocals
<1>2. job'[w] = j /\ \A u \in Worker \ {w} : job'[u] = job[u]
  BY DEF Start, LocalsTyped
<1>3. j # NoJob
  BY JobAssumption DEF Job
<1>4. \A u \in Worker \ {w} : job[u] # j
  BY <1>1, <1>2, <1>3 DEF Locals, OneWorkerEach
<1>5. j \in Request => outcome[j] = "none" /\ at[j] = 0
  BY JobAssumption DEF Start, Locals, NotYetAt
<1> QED
  BY <1>2, <1>4, <1>5 DEF Start, GoTo, chainVars, LocalsTyped

LEMMA CallFacts ==
    ASSUME NEW c \in Call
    PROVE  c[1] \in Job /\ c[2] \in 1..Len(Signer[c[1]]) /\ c[2] \in Nat /\ c[2] >= 1
           /\ c = <<c[1], c[2]>>
<1>1. c[1] \in Job /\ c[2] \in 1..Len(Signer[c[1]]) /\ c[2] \in Nat /\ c = <<c[1], c[2]>>
  BY DEF Call
<1> QED
  BY <1>1, SignerFacts

\* Nothing is submitted or included: a call stays where it is while its job goes
\* on, and one that its job comes to is at its beginning.
LEMMA OnceStays ==
    ASSUME LocalsTyped, AtMostOnce, UNCHANGED <<txPool, included>>,
           \A j \in Request : at'[j] \in Nat /\ at'[j] >= at[j],
           \A w \in Worker : job'[w] \in Request /\ pc'[w] \in Before =>
               \/ at'[job'[w]] > at[job'[w]]
               \/ job'[w] = job[w] /\ at'[job[w]] = at[job[w]] /\ pc[w] \in Before
    PROVE  AtMostOnce'
<1> SUFFICES ASSUME NEW c \in Call, c[1] \in Request PROVE Once(c)'
  BY DEF AtMostOnce, Call
<1>1. Once(c) /\ c[2] \in Nat /\ at[c[1]] \in Nat /\ at'[c[1]] >= at[c[1]] /\ at'[c[1]] \in Nat
  BY CallFacts DEF AtMostOnce, LocalsTyped
<1>2. Waits(c)' = Waits(c)
  BY DEF Waits
<1>3. ASSUME NEW w \in Worker, job'[w] = c[1], at'[c[1]] = c[2], pc'[w] \in Before
      PROVE  ~Waits(c) /\ c \notin included
  <2>1. CASE at'[job'[w]] > at[job'[w]]
    BY <1>1, <1>3, <2>1 DEF Once
  <2>2. CASE job'[w] = job[w] /\ at'[job[w]] = at[job[w]] /\ pc[w] \in Before
    BY <1>1, <1>3, <2>2 DEF Once
  <2> QED
    BY <1>3, <2>1, <2>2
<1> QED
  BY <1>1, <1>2, <1>3 DEF Once

LEMMA OnceStep == PInv /\ [Next]_vars => AtMostOnce'
<1> SUFFICES ASSUME PInv, [Next]_vars PROVE AtMostOnce'
  OBVIOUS
<1> USE DEF PInv
<1>0. Job = Request \cup {Pass} /\ \A j \in Request : at[j] \in Nat
  BY DEF Job, LocalsTyped
<1>1. ASSUME NEW w \in Worker, NEW j \in Job, Start(w, j) PROVE AtMostOnce'
  <2>1. \A i \in Request : at'[i] = IF i = j THEN 1 ELSE at[i]
    BY <1>0, <1>1, StartFacts DEF LocalsTyped
  <2>2. j \in Request => at[j] = 0
    BY <1>1, StartFacts
  <2> QED
    BY <1>0, <1>1, <2>1, <2>2, StartFacts, OnceStays DEF chainVars
<1>2. ASSUME NEW w \in Worker, NEW how \in {"ok", "stopped"}, pc[w] # "idle",
             Leave(w, how), UNCHANGED chainVars
      PROVE  AtMostOnce'
  <2>1. NoJob \notin Request
    BY JobAssumption DEF Job
  <2> QED
    BY <1>0, <1>2, <2>1, LeavesFacts, OnceStays DEF chainVars
<1>3. ASSUME NEW w \in Worker, GoesOn(w) PROVE AtMostOnce'
  <2>1. CASE at[job[w]] = Len(Signer[job[w]])
    BY <1>2, <1>3, <2>1 DEF GoesOn, GoOn
  <2>2. CASE at[job[w]] # Len(Signer[job[w]])
    BY <1>0, <1>3, <2>2, GoOnFacts, OnceStays DEF GoesOn, chainVars, Locals, OneWorkerEach
  <2> QED
    BY <2>1, <2>2
<1>4. ASSUME NEW w \in Worker, Submit(w) PROVE AtMostOnce'
  <2> DEFINE d == <<job[w], at[job[w]]>>
             s == SignerAt(w)
  <2>1. /\ pc[w] = "submit" /\ s \in Account /\ d \in Call
        /\ txPool' = [txPool EXCEPT ![s] = <<d, via[w]>>]
        /\ pc' = [pc EXCEPT ![w] = "wait"]
        /\ UNCHANGED <<included, job, at>>
    BY <1>4, BusyFacts DEF Submit, Here, GoTo
  <2>2. ASSUME NEW c \in Call, c[1] \in Request PROVE Once(c)'
    <3>1. Once(c) /\ c = <<c[1], c[2]>> /\ at[c[1]] \in Nat
      BY <1>0, <2>2, CallFacts DEF AtMostOnce
    <3>2. CASE c = d
      <4>1. ~Waits(c) /\ c \notin included
        BY <2>1, <3>1, <3>2 DEF Once, Before
      <4>2. \A u \in Worker : job[u] = c[1] => u = w
        <5>1. c[1] # NoJob
          BY <2>2, JobAssumption DEF Job
        <5> QED
          BY <3>2, <5>1 DEF Locals, OneWorkerEach
      <4>3. pc'[w] \notin Before
        BY <2>1 DEF Before, LocalsTyped
      <4> QED
        BY <2>1, <3>1, <3>2, <4>1, <4>2, <4>3 DEF Once
    <3>3. CASE c # d
      <4>1. Waits(c)' => Waits(c)
        BY <2>1, <3>3 DEF Waits, ChainTyped
      <4>2. \A u \in Worker : pc'[u] \in Before => pc[u] \in Before
        BY <2>1 DEF Before, LocalsTyped
      <4> QED
        BY <2>1, <3>1, <4>1, <4>2 DEF Once
    <3> QED
      BY <3>2, <3>3
  <2> QED
    BY <2>2 DEF AtMostOnce, Call
<1>5. ASSUME NEW a \in Account, InBlock(a) PROVE AtMostOnce'
  <2>0. PICK d \in Call : d = txPool[a][1]
    BY <1>5, PoolFacts DEF InBlock
  <2>1. /\ txPool[a] # NoTx /\ txPool' = [txPool EXCEPT ![a] = NoTx]
        /\ included' = IF d[1] \in Request THEN included \cup {d} ELSE included
        /\ UNCHANGED <<job, at>>
        /\ \A u \in Worker : pc'[u] \in {pc[u], "receipt"}
    BY <1>5, <2>0 DEF InBlock
  <2>2. ~Waits(d)'
    <3>1. ASSUME NEW b \in Account, txPool'[b] # NoTx, txPool'[b][1] = d PROVE FALSE
      <4>1. b # a /\ txPool[b] # NoTx /\ txPool[b][1] = d
        BY <2>1, <3>1 DEF ChainTyped
      <4> QED
        BY <2>0, <2>1, <4>1 DEF OfItsSigner
    <3> QED
      BY <3>1 DEF Waits
  <2>3. ASSUME NEW c \in Call, c[1] \in Request PROVE Once(c)'
    <3>1. Once(c)
      BY <2>3 DEF AtMostOnce
    <3>2. Waits(c)' => Waits(c)
      BY <2>1 DEF Waits, ChainTyped
    <3>3. Waits(d)
      BY <2>0, <2>1 DEF Waits
    <3>4. \A u \in Worker : pc'[u] \in Before => pc[u] \in Before
      BY <2>1 DEF Before
    <3> QED
      BY <2>1, <2>2, <3>1, <3>2, <3>3, <3>4 DEF Once
  <2> QED
    BY <2>3 DEF AtMostOnce, Call
<1>6. ASSUME Quiet PROVE AtMostOnce'
  <2>1. ASSUME NEW c \in Call, c[1] \in Request PROVE Once(c)'
    <3>1. Once(c)
      BY <2>1 DEF AtMostOnce
    <3>2. Waits(c)' => Waits(c)
      BY <1>6 DEF Quiet, Waits, ChainTyped
    <3>3. \A u \in Worker : pc'[u] \in Before => pc[u] \in Before
      BY <1>6 DEF Quiet
    <3> QED
      BY <1>6, <3>1, <3>2, <3>3 DEF Quiet, Once
  <2> QED
    BY <2>1 DEF AtMostOnce, Call
<1> QED
  BY <1>1, <1>2, <1>3, <1>4, <1>5, <1>6, StepKinds DEF Leaves

LEMMA ToldStep == PInv /\ [Next]_vars => \A w \in Worker : Told(w)'
<1> SUFFICES ASSUME PInv, [Next]_vars, NEW w \in Worker, success'[w]
             PROVE  /\ pc'[w] = "receipt"
                    /\ job'[w] \in Request /\ Vouches(<<job'[w], at'[job'[w]]>>)
                          => <<job'[w], at'[job'[w]]>> \in effected'
  BY DEF Told, Vouches, IsSudo
<1>a. Told(w) /\ LocalsTyped /\ Locals /\ OneWorkerEach /\ NoJob \notin Request
  BY JobAssumption DEF PInv, Locals, Job
<1>1. ASSUME success[w], pc'[w] = pc[w], job'[w] = job[w], effected \subseteq effected',
             job[w] \in Request => at'[job[w]] = at[job[w]]
      PROVE  /\ pc'[w] = "receipt"
             /\ job'[w] \in Request /\ Vouches(<<job'[w], at'[job'[w]]>>)
                   => <<job'[w], at'[job'[w]]>> \in effected'
  BY <1>1, <1>a DEF Told
<1>2. ASSUME NEW v \in Worker, NEW j \in Job, Start(v, j)
      PROVE  /\ success[w] /\ pc'[w] = pc[w] /\ job'[w] = job[w] /\ effected' = effected
             /\ job[w] \in Request => at'[job[w]] = at[job[w]]
  <2>1. v # w
    BY <1>2, <1>a, StartFacts DEF Told
  <2> QED
    BY <1>2, <1>a, <2>1, StartFacts DEF chainVars, LocalsTyped
<1>3. ASSUME NEW v \in Worker, Leaves(v)
      PROVE  /\ success[w] /\ pc'[w] = pc[w] /\ job'[w] = job[w] /\ effected' = effected
             /\ job[w] \in Request => at'[job[w]] = at[job[w]]
  BY <1>3, <1>a, LeavesFacts DEF Leaves, chainVars
<1>4. ASSUME NEW v \in Worker, GoesOn(v)
      PROVE  /\ success[w] /\ pc'[w] = pc[w] /\ job'[w] = job[w] /\ effected' = effected
             /\ job[w] \in Request => at'[job[w]] = at[job[w]]
  <2>1. CASE at[job[v]] = Len(Signer[job[v]])
    <3>1. Leave(v, "ok")
      BY <1>4, <2>1 DEF GoesOn, GoOn
    <3> QED
      BY <1>4, <1>a, <3>1, LeavesFacts DEF GoesOn, chainVars
  <2>2. CASE at[job[v]] # Len(Signer[job[v]])
    <3>1. v # w
      BY <1>4, <1>a, <2>2, GoOnFacts DEF GoesOn
    <3>2. job[w] \in Request => job[w] # job[v]
      BY <1>a, <3>1 DEF OneWorkerEach
    <3> QED
      BY <1>4, <1>a, <2>2, <3>1, <3>2, GoOnFacts DEF GoesOn, chainVars, Job
  <2> QED
    BY <2>1, <2>2
<1>5. ASSUME NEW v \in Worker, Submit(v)
      PROVE  /\ success[w] /\ pc'[w] = pc[w] /\ job'[w] = job[w] /\ effected' = effected
             /\ job[w] \in Request => at'[job[w]] = at[job[w]]
  BY <1>5, <1>a DEF Submit, GoTo, Told, LocalsTyped
<1>6. ASSUME NEW a \in Account, InBlock(a)
      PROVE  /\ pc'[w] = "receipt"
             /\ job'[w] \in Request /\ Vouches(<<job'[w], at'[job'[w]]>>)
                   => <<job'[w], at'[job'[w]]>> \in effected'
  <2>1. UNCHANGED <<job, at>> /\ effected \subseteq effected'
    BY <1>6 DEF InBlock
  <2>2. CASE ~AwaitsBlock(w, a)
    BY <1>1, <1>6, <2>1, <2>2 DEF InBlock
  <2>3. CASE AwaitsBlock(w, a)
    <3>1. PICK c \in Call : c = txPool[a][1] /\ c = <<job[w], at[job[w]]>>
      BY <1>6, <1>a, <2>3, BusyFacts DEF AwaitsBlock, Here
    <3>2. pc'[w] = "receipt" /\ ~success[w]
      BY <1>6, <1>a, <2>3 DEF InBlock, AwaitsBlock, Told
    <3>3. Reported(a, c, txPool[a][2])
      BY <1>6, <2>3, <3>1, <3>2 DEF InBlock
    <3>4. Vouches(c) => TakesEffect(a, c, txPool[a][2])
      BY <3>3 DEF Reported, Vouches
    <3>5. Vouches(c) /\ c[1] \in Request => c \in effected'
      BY <1>6, <3>1, <3>4 DEF InBlock
    <3> QED
      BY <2>1, <3>1, <3>2, <3>5
  <2> QED
    BY <2>2, <2>3
<1>7. ASSUME Quiet
      PROVE  /\ success[w] /\ pc'[w] = pc[w] /\ job'[w] = job[w] /\ effected' = effected
             /\ job[w] \in Request => at'[job[w]] = at[job[w]]
  BY <1>7, <1>a DEF Quiet, Told, Before
<1> QED
  BY <1>a, <1>1, <1>2, <1>3, <1>4, <1>5, <1>6, <1>7, StepKinds

LEMMA PInvariant == Spec => []PInv
<1>1. Init => PInv
  <2> SUFFICES ASSUME Init PROVE PInv
    OBVIOUS
  <2>1. ChainTyped /\ LocalsTyped /\ Locals /\ Extrinsics /\ OfItsSigner
    BY InitIInv, TypeParts DEF IInv
  <2>2. \A w \in Worker : Told(w)
    BY DEF Init, Told
  <2>3. AtMostOnce
    <3>1. \A w \in Worker : job[w] \notin Request
      BY JobAssumption DEF Init, Job
    <3> QED
      BY <3>1 DEF Init, AtMostOnce, Once, Waits
  <2> QED
    BY <2>1, <2>2, <2>3 DEF PInv
<1>2. PInv /\ [Next]_vars => PInv'
  <2> SUFFICES ASSUME PInv, [Next]_vars PROVE PInv'
    OBVIOUS
  <2>1. ChainTyped' /\ LocalsTyped' /\ Locals' /\ Extrinsics' /\ OfItsSigner'
    BY LocalsStep, ChainStep, ExtrinsicsStep, SignerStep DEF PInv
  <2> QED
    BY <2>1, OnceStep, ToldStep DEF PInv
<1> QED
  BY <1>1, <1>2, PTL DEF Spec

-----------------------------------------------------------------------------
LEMMA InitImplements == Init => Promise!Init
<1> QED
  BY DEF Init, Promise!Init, Job

\* What a step leaves as it was, for the promise.
LEMMA SamePromise ==
    ASSUME UNCHANGED <<included, effected>>,
           \A j \in Request : at'[j] = at[j] /\ outcome'[j] = outcome[j]
    PROVE  UNCHANGED Promise!vars
BY DEF Promise!vars

\* The call at hand of a worker that may go on is settled.
LEMMA MayProceed ==
    ASSUME PInv, NEW w \in Worker, GoesOn(w), job[w] \in Request
    PROVE  Promise!MayProceed(job[w])
<1> DEFINE j == job[w]
           c == <<j, at[j]>>
<1>1. outcome[j] = "running" /\ c \in Call /\ at[j] \in 1..Len(Signer[j])
  BY BusyFacts DEF GoesOn, PInv
<1>2. ASSUME Strict(j)
      PROVE  /\ c \in included
             /\ Vouches(c) => c \in effected
  <2>1. Upto(j, at[j])
    BY <1>2, ReceiptSeen DEF GoesOn, PInv
  <2>2. c \in included
    BY <1>1, <2>1 DEF Upto
  <2> QED
    BY <1>2, <2>2 DEF GoesOn, PInv, Told
<1> QED
  BY <1>1, <1>2 DEF Promise!MayProceed, Promise!Settled, Vouches

LEMMA OverImplements ==
    ASSUME PInv, NEW w \in Worker, pc[w] # "idle", UNCHANGED chainVars,
           NEW how \in {"ok", "stopped"}, Leave(w, how),
           how = "ok" => GoesOn(w) /\ at[job[w]] = Len(Signer[job[w]])
    PROVE  Promise!Next \/ UNCHANGED Promise!vars
<1>a. LocalsTyped /\ Locals
  BY DEF PInv
<1>1. CASE job[w] \notin Request
  BY <1>a, <1>1, LeavesFacts, SamePromise DEF chainVars
<1>2. CASE job[w] \in Request
  <2>1. PICK j \in Request : j = job[w]
    BY <1>2
  <2>2. outcome[j] = "running"
    BY <1>a, <2>1, BusyFacts
  <2>3. /\ [i \in Request |-> outcome[i]]' =
               [[i \in Request |-> outcome[i]] EXCEPT ![j] = how]
        /\ [i \in Request |-> at[i]]' = [i \in Request |-> at[i]]
        /\ UNCHANGED <<included, effected>>
    <3>1. \A i \in Request : outcome'[i] = IF i = j THEN how ELSE outcome[i]
      BY <1>a, <2>1, LeavesFacts
    <3>2. \A i \in Request : at'[i] = at[i]
      BY <1>a, LeavesFacts
    <3> QED
      BY <3>1, <3>2 DEF chainVars
  <2>4. CASE how = "ok"
    <3>1. Promise!MayProceed(j) /\ at[j] = Len(Signer[j])
      BY <2>1, <2>4, MayProceed
    <3>2. Promise!Complete(j)
      BY <2>3, <2>4, <3>1 DEF Promise!Complete
    <3> QED
      BY <3>2 DEF Promise!Next
  <2>5. CASE how # "ok"
    <3>1. Promise!Stop(j)
      BY <2>2, <2>3, <2>5 DEF Promise!Stop
    <3> QED
      BY <3>1 DEF Promise!Next
  <2> QED
    BY <2>4, <2>5
<1> QED
  BY <1>1, <1>2

LEMMA GoesOnImplements ==
    ASSUME PInv, NEW w \in Worker, GoesOn(w)
    PROVE  Promise!Next \/ UNCHANGED Promise!vars
<1>a. LocalsTyped /\ Locals /\ pc[w] # "idle" /\ UNCHANGED chainVars
  BY DEF PInv, GoesOn
<1>1. CASE at[job[w]] = Len(Signer[job[w]])
  BY <1>a, <1>1, OverImplements DEF GoesOn, GoOn
<1>2. CASE at[job[w]] # Len(Signer[job[w]])
  <2>1. /\ \A i \in Request : at'[i] = IF i = job[w] THEN at[i] + 1 ELSE at[i]
        /\ outcome' = outcome
    BY <1>a, <1>2, GoOnFacts DEF GoesOn, Job
  <2>2. CASE job[w] \notin Request
    BY <1>a, <2>1, <2>2, SamePromise DEF chainVars
  <2>3. CASE job[w] \in Request
    <3>1. PICK j \in Request : j = job[w]
      BY <2>3
    <3>2. Promise!MayProceed(j)
      BY <3>1, MayProceed
    <3>3. at[j] < Len(Signer[j])
      <4>1. at[j] \in 1..Len(Signer[j]) /\ Len(Signer[j]) \in Nat
        BY <1>a, <3>1, BusyFacts, SignerFacts DEF Job
      <4> QED
        BY <1>2, <3>1, <4>1
    <3>4. /\ [i \in Request |-> at[i]]' = [[i \in Request |-> at[i]] EXCEPT ![j] = @ + 1]
          /\ [i \in Request |-> outcome[i]]' = [i \in Request |-> outcome[i]]
          /\ UNCHANGED <<included, effected>>
      BY <1>a, <2>1, <3>1 DEF chainVars
    <3>5. Promise!Proceed(j)
      BY <3>2, <3>3, <3>4 DEF Promise!Proceed
    <3> QED
      BY <3>5 DEF Promise!Next
  <2> QED
    BY <2>2, <2>3
<1> QED
  BY <1>1, <1>2

LEMMA BlockImplements ==
    ASSUME PInv, NEW a \in Account, InBlock(a)
    PROVE  Promise!Next \/ UNCHANGED Promise!vars
<1>1. PICK c \in Call : c = txPool[a][1] /\ txPool[a] # NoTx
  BY PoolFacts DEF InBlock, PInv
<1>2. /\ included' = IF c[1] \in Request THEN included \cup {c} ELSE included
      /\ effected' \in {effected, effected \cup {c}}
      /\ UNCHANGED <<at, outcome>>
  BY <1>1 DEF InBlock
<1>3. CASE c[1] \notin Request
  <2>1. {e \in effected : e[1] \in Request}' = {e \in effected : e[1] \in Request}
    BY <1>2, <1>3
  <2> QED
    BY <1>2, <1>3, <2>1 DEF Promise!vars
<1>4. CASE c[1] \in Request
  <2>1. PICK j \in Request, k \in Nat : c = <<j, k>> /\ k >= 1
    BY <1>4, CallFacts
  <2>2. c \notin included /\ k <= at[j] /\ at[j] \in Nat
    BY <1>1, <1>4, <2>1 DEF PInv, AtMostOnce, Once, Waits, LocalsTyped, Job
  <2>3. {e \in effected : e[1] \in Request}' \in
            {{e \in effected : e[1] \in Request}, {e \in effected : e[1] \in Request} \cup {c}}
    BY <1>2, <1>4
  <2>4. /\ k \in 1..at[j] /\ <<j, k>> \notin included
        /\ included' = included \cup {<<j, k>>}
    BY <1>2, <1>4, <2>1, <2>2
  <2>5. Promise!Happens(j)
    BY <1>2, <2>1, <2>3, <2>4 DEF Promise!Happens
  <2> QED
    BY <2>5 DEF Promise!Next
<1> QED
  BY <1>3, <1>4

LEMMA StartImplements ==
    ASSUME PInv, NEW w \in Worker, NEW j \in Job, Start(w, j)
    PROVE  Promise!Next \/ UNCHANGED Promise!vars
<1>a. LocalsTyped /\ Locals
  BY DEF PInv
<1>1. /\ \A i \in Request : at'[i] = IF i = j THEN 1 ELSE at[i]
      /\ \A i \in Request : outcome'[i] = IF i = j THEN "running" ELSE outcome[i]
      /\ UNCHANGED <<included, effected>>
      /\ j \in Request => outcome[j] = "none"
  BY <1>a, StartFacts DEF chainVars, LocalsTyped, Job
<1>2. CASE j \notin Request
  BY <1>1, <1>2, SamePromise
<1>3. CASE j \in Request
  <2>1. /\ [i \in Request |-> outcome[i]]' =
               [[i \in Request |-> outcome[i]] EXCEPT ![j] = "running"]
        /\ [i \in Request |-> at[i]]' = [[i \in Request |-> at[i]] EXCEPT ![j] = 1]
    BY <1>1
  <2>2. Promise!Take(j)
    BY <1>1, <1>3, <2>1 DEF Promise!Take
  <2> QED
    BY <1>3, <2>2 DEF Promise!Next
<1> QED
  BY <1>2, <1>3

LEMMA StepImplements == PInv /\ [Next]_vars => [Promise!Next]_(Promise!vars)
<1> SUFFICES ASSUME PInv, [Next]_vars PROVE Promise!Next \/ UNCHANGED Promise!vars
  OBVIOUS
<1>a. LocalsTyped /\ Locals
  BY DEF PInv
<1>1. ASSUME NEW w \in Worker, Leaves(w) PROVE Promise!Next \/ UNCHANGED Promise!vars
  BY <1>1, OverImplements DEF Leaves
<1>2. ASSUME NEW w \in Worker, Submit(w) PROVE UNCHANGED Promise!vars
  BY <1>2, SamePromise DEF Submit
<1>3. ASSUME Quiet PROVE UNCHANGED Promise!vars
  BY <1>3, SamePromise DEF Quiet
<1> QED
  BY <1>a, <1>1, <1>2, <1>3, StepKinds, StartImplements, GoesOnImplements, BlockImplements

\* For any workers, requests, lists of calls, accounts and faults: every call is
\* made at most once and in its turn, a checked request goes on only after a call
\* that is in a block, and a call that nothing wraps and whose report is good has
\* taken effect.
THEOREM Implements == Spec => ImplementsPromise
<1> QED
  BY InitImplements, StepImplements, PInvariant, PTL
  DEF Spec, ImplementsPromise, Promise!Spec
-----------------------------------------------------------------------------
(* Why every job ends: the steps a worker has left decrease                 *)

\* The phases of a call that are left, the present one included.
PhasesLeft(phase) ==
    CASE phase = "connect" -> 7
      [] phase = "look" -> 6
      [] phase = "keys" -> 5
      [] phase = "sign" -> 4
      [] phase = "submit" -> 3
      [] phase = "wait" -> 2
      [] phase = "receipt" -> 1
      [] OTHER -> 0

\* The most steps a worker may still need for its job: its present call's, and
\* seven for each call after it.
StepsLeft(w) ==
    IF pc[w] = "idle" THEN 0
    ELSE 7 * (Len(Signer[job[w]]) - at[job[w]]) + PhasesLeft(pc[w])

\* A worker at work on a job comes nearer to its end with each step it takes, and
\* nothing that others, the chain or a fault do throws it back.
StepsDecrease ==
    \A w \in Worker :
        /\ pc[w] # "idle" => StepsLeft(w)' <= StepsLeft(w)
        /\ CallStep(w) => StepsLeft(w)' < StepsLeft(w)
        /\ pc[w] = "wait" /\ pc'[w] # "wait" => StepsLeft(w)' < StepsLeft(w)

\* Of n calls the worker is at the k-th, with p phases of it left.
LEMMA SevenEach ==
    ASSUME NEW n \in Nat, NEW k \in Nat, k <= n, NEW p \in 1..7
    PROVE  /\ 7 * (n - k) + p \in Nat /\ 7 * (n - k) + p > 0
           /\ \A q \in 1..7 : 7 * (n - (k + 1)) + q < 7 * (n - k) + p
           /\ \A q \in Nat : q < p => 7 * (n - k) + q < 7 * (n - k) + p
OBVIOUS

LEMMA StepsLeftBusy ==
    ASSUME LocalsTyped, Locals, NEW w \in Worker, pc[w] # "idle"
    PROVE  /\ StepsLeft(w) = 7 * (Len(Signer[job[w]]) - at[job[w]]) + PhasesLeft(pc[w])
           /\ StepsLeft(w) \in Nat /\ StepsLeft(w) > 0
           /\ Len(Signer[job[w]]) \in Nat /\ at[job[w]] \in Nat
           /\ at[job[w]] <= Len(Signer[job[w]])
           /\ PhasesLeft(pc[w]) \in 1..7
<1>1. /\ Len(Signer[job[w]]) \in Nat /\ at[job[w]] \in Nat
      /\ at[job[w]] <= Len(Signer[job[w]])
  <2>1. job[w] \in Job /\ at[job[w]] \in 1..Len(Signer[job[w]])
    BY BusyFacts
  <2>2. Len(Signer[job[w]]) \in Nat
    BY <2>1, SignerFacts
  <2> QED
    BY <2>1, <2>2
<1>2. PhasesLeft(pc[w]) \in 1..7
  BY DEF LocalsTyped, Busy, PhasesLeft
<1>3. StepsLeft(w) = 7 * (Len(Signer[job[w]]) - at[job[w]]) + PhasesLeft(pc[w])
  BY DEF StepsLeft
<1> QED
  BY <1>1, <1>2, <1>3, SevenEach

\* A worker that leaves its job needs no more steps for it; one that goes on
\* needs at least one less.
LEMMA EndsCall ==
    ASSUME LocalsTyped, Locals, NEW w \in Worker, pc[w] # "idle",
           GoOn(w) \/ \E how \in {"ok", "stopped"} : Leave(w, how)
    PROVE  StepsLeft(w)' < StepsLeft(w)
<1>1. ASSUME NEW how \in {"ok", "stopped"}, Leave(w, how)
      PROVE  StepsLeft(w)' < StepsLeft(w)
  <2>1. pc'[w] = "idle"
    BY <1>1 DEF Leave, LocalsTyped
  <2> QED
    BY <2>1, StepsLeftBusy DEF StepsLeft
<1>2. CASE GoOn(w) /\ at[job[w]] = Len(Signer[job[w]])
  BY <1>1, <1>2 DEF GoOn
<1>3. CASE GoOn(w) /\ at[job[w]] # Len(Signer[job[w]])
  <2> DEFINE phase == FirstPhase(job[w], at[job[w]] + 1)
  <2>1. job[w] \in Job
    BY BusyFacts
  <2>2. job'[w] = job[w] /\ at'[job[w]] = at[job[w]] + 1
    BY <1>3, <2>1, GoOnFacts
  <2>3. pc'[w] = phase /\ phase \in {"connect", "look", "sign"}
    BY <1>3 DEF GoOn, GoTo, FirstPhase, LocalsTyped
  <2>4. PhasesLeft(pc'[w]) \in 1..7 /\ pc'[w] # "idle"
    BY <2>3 DEF PhasesLeft
  <2>5. StepsLeft(w)' = 7 * (Len(Signer[job[w]]) - (at[job[w]] + 1)) + PhasesLeft(pc'[w])
    BY <2>2, <2>4 DEF StepsLeft
  <2> QED
    BY <2>4, <2>5, StepsLeftBusy, SevenEach
<1> QED
  BY <1>1, <1>2, <1>3

\* A worker that stays with its call needs as many steps less as it has phases
\* less to go.
LEMMA SameCall ==
    ASSUME LocalsTyped, Locals, NEW w \in Worker, pc[w] # "idle",
           job'[w] = job[w], at'[job[w]] = at[job[w]], pc'[w] # "idle",
           PhasesLeft(pc'[w]) \in Nat
    PROVE  /\ PhasesLeft(pc'[w]) < PhasesLeft(pc[w]) => StepsLeft(w)' < StepsLeft(w)
           /\ PhasesLeft(pc'[w]) = PhasesLeft(pc[w]) => StepsLeft(w)' = StepsLeft(w)
<1>1. StepsLeft(w)' = 7 * (Len(Signer[job[w]]) - at[job[w]]) + PhasesLeft(pc'[w])
  BY DEF StepsLeft
<1>2. /\ StepsLeft(w) = 7 * (Len(Signer[job[w]]) - at[job[w]]) + PhasesLeft(pc[w])
      /\ Len(Signer[job[w]]) \in Nat /\ at[job[w]] \in Nat
      /\ at[job[w]] <= Len(Signer[job[w]])
      /\ PhasesLeft(pc[w]) \in 1..7
  BY StepsLeftBusy
<1>3. PhasesLeft(pc'[w]) < PhasesLeft(pc[w]) => StepsLeft(w)' < StepsLeft(w)
  BY <1>1, <1>2, SevenEach
<1>4. PhasesLeft(pc'[w]) = PhasesLeft(pc[w]) => StepsLeft(w)' = StepsLeft(w)
  BY <1>1, <1>2
<1> QED
  BY <1>3, <1>4

\* The steps of the worker itself.
LEMMA OwnStepsDecrease ==
    ASSUME LocalsTyped, Locals, NEW w \in Worker, CallStep(w)
    PROVE  StepsLeft(w)' < StepsLeft(w)
<1>0. pc[w] # "idle"
  BY DEF CallStep, SetRaises, Connect, GetClient, ComposeRaises, Look, ReadKeys, WrongKey, Sign, Interrupted, Submit,
     SubmitFails, WaitFails, ReadReceipt
<1>1. CASE SetRaises(w) \/ ComposeRaises(w) \/ Interrupted(w)
  BY <1>0, <1>1, EndsCall DEF SetRaises, ComposeRaises, Interrupted, Raise
<1>2. CASE WrongKey(w) \/ SubmitFails(w) \/ WaitFails(w) \/ ReadReceipt(w)
  BY <1>0, <1>2, EndsCall DEF WrongKey, SubmitFails, WaitFails, ReadReceipt, Fail
<1>3. CASE Look(w) /\ ~GoesToSign(w)
  BY <1>0, <1>3, EndsCall DEF Look, GoesToSign
<1>4. CASE \/ Connect(w) \/ ReadKeys(w) \/ Sign(w) \/ Submit(w)
           \/ Look(w) /\ GoesToSign(w)
  <2>1. job' = job /\ at' = at
    BY <1>4 DEF Connect, ReadKeys, Sign, Submit, GoesToSign
  <2>2. /\ pc'[w] # "idle" /\ PhasesLeft(pc'[w]) \in Nat
        /\ PhasesLeft(pc'[w]) < PhasesLeft(pc[w])
    <3>1. CASE Connect(w)
      <4>1. pc[w] = "connect" /\ pc'[w] \in {"keys", "sign"}
        BY <3>1 DEF Connect, GetClient, AfterClient, GoTo, LocalsTyped
      <4> QED BY <4>1 DEF PhasesLeft
    <3>2. CASE ReadKeys(w)
      <4>1. pc[w] = "keys" /\ pc'[w] = "sign"
        BY <3>2 DEF ReadKeys, GoTo, LocalsTyped
      <4> QED BY <4>1 DEF PhasesLeft
    <3>3. CASE Sign(w)
      <4>1. pc[w] = "sign" /\ pc'[w] = "submit"
        BY <3>3 DEF Sign, GoTo, LocalsTyped
      <4> QED BY <4>1 DEF PhasesLeft
    <3>4. CASE Submit(w)
      <4>1. pc[w] = "submit" /\ pc'[w] = "wait"
        BY <3>4 DEF Submit, GoTo, LocalsTyped
      <4> QED BY <4>1 DEF PhasesLeft
    <3>5. CASE Look(w) /\ GoesToSign(w)
      <4>1. pc[w] = "look" /\ pc'[w] = "sign"
        BY <3>5 DEF Look, GoesToSign, GoTo, LocalsTyped
      <4> QED BY <4>1 DEF PhasesLeft
    <3> QED
      BY <1>4, <3>1, <3>2, <3>3, <3>4, <3>5
  <2> QED
    BY <1>0, <2>1, <2>2, SameCall
<1> QED
  BY <1>1, <1>2, <1>3, <1>4 DEF CallStep

\* Steps that leave a worker's job, call and phase alone leave it its steps.
LEMMA StepsLeftStay ==
    ASSUME LocalsTyped, Locals, NEW w \in Worker, pc[w] # "idle",
           job'[w] = job[w], at'[job[w]] = at[job[w]], pc'[w] = pc[w]
    PROVE  StepsLeft(w)' <= StepsLeft(w)
BY SameCall, StepsLeftBusy

\* The steps of another worker: it has another job.
LEMMA OthersSpareSteps ==
    ASSUME LocalsTyped, Locals, NEW w \in Worker, pc[w] # "idle", NEW u \in Worker, u # w,
           \/ \E j \in Job : Start(u, j)
           \/ CallStep(u) \/ ConnectFails(u) \/ Break(u) \/ Dies(u)
    PROVE  job'[w] = job[w] /\ at'[job[w]] = at[job[w]] /\ pc'[w] = pc[w]
<1>0. job[w] \in Job /\ job[w] # NoJob
  BY BusyFacts
<1>1. ASSUME NEW j \in Job, Start(u, j)
      PROVE  job'[w] = job[w] /\ at'[job[w]] = at[job[w]] /\ pc'[w] = pc[w]
  <2>1. job'[w] = job[w] /\ pc'[w] = pc[w] /\ job[w] # j /\ at' = [at EXCEPT ![j] = 1]
    BY <1>1, StartFacts
  <2> QED
    BY <1>0, <2>1 DEF LocalsTyped
<1>2. ASSUME pc[u] # "idle",
             GoOn(u) \/ \E how \in {"ok", "stopped"} : Leave(u, how)
      PROVE  job'[w] = job[w] /\ at'[job[w]] = at[job[w]] /\ pc'[w] = pc[w]
  <2>1. job[u] \in Job /\ job[u] # job[w]
    BY <1>0, <1>2, BusyFacts DEF Locals, OneWorkerEach
  <2> QED
    BY <1>0, <1>2, <2>1 DEF GoOn, GoTo, Leave, LocalsTyped
<1>3. ASSUME SetRaises(u) \/ ComposeRaises(u) \/ Interrupted(u) \/ WrongKey(u) \/ SubmitFails(u)
               \/ WaitFails(u) \/ ReadReceipt(u) \/ (Look(u) /\ ~GoesToSign(u))
               \/ ConnectFails(u) \/ Dies(u)
      PROVE  job'[w] = job[w] /\ at'[job[w]] = at[job[w]] /\ pc'[w] = pc[w]
  <2>1. pc[u] # "idle"
    BY <1>3 DEF SetRaises, ComposeRaises, Interrupted, WrongKey, SubmitFails, WaitFails,
       ReadReceipt, Look, ConnectFails, Dies, Busy
  <2>2. GoOn(u) \/ \E how \in {"ok", "stopped"} : Leave(u, how)
    BY <1>3 DEF SetRaises, ComposeRaises, Interrupted, WrongKey, SubmitFails, WaitFails,
       ReadReceipt, Look, GoesToSign, ConnectFails, Dies, Raise, Fail
  <2> QED
    BY <1>2, <2>1, <2>2
<1>4. ASSUME \/ Connect(u) \/ ReadKeys(u) \/ Sign(u) \/ Submit(u) \/ Break(u)
             \/ GoesToSign(u)
      PROVE  job'[w] = job[w] /\ at'[job[w]] = at[job[w]] /\ pc'[w] = pc[w]
  BY <1>4 DEF Connect, AfterClient, ReadKeys, Sign, Submit, Break, GoesToSign, GoTo, LocalsTyped
<1> QED
  BY <1>1, <1>3, <1>4 DEF CallStep

LEMMA StepsStep ==
    ASSUME LocalsTyped, Locals, LocalsTyped', Locals', [Next]_vars
    PROVE  StepsDecrease
<1> SUFFICES ASSUME NEW w \in Worker, pc[w] # "idle"
             PROVE  /\ StepsLeft(w)' <= StepsLeft(w)
                    /\ CallStep(w) => StepsLeft(w)' < StepsLeft(w)
                    /\ pc[w] = "wait" /\ pc'[w] # "wait" => StepsLeft(w)' < StepsLeft(w)
  <2>1. \A w \in Worker : CallStep(w) => pc[w] # "idle"
    BY DEF CallStep, SetRaises, Connect, GetClient, ComposeRaises, Look, ReadKeys, WrongKey, Sign, Interrupted, Submit,
       SubmitFails, WaitFails, ReadReceipt
  <2> QED
    BY <2>1 DEF StepsDecrease
<1>1. StepsLeft(w) \in Int /\ StepsLeft(w)' \in Int
  <2>1. CASE pc'[w] = "idle"
    BY <2>1, StepsLeftBusy DEF StepsLeft
  <2>2. CASE pc'[w] # "idle"
    <3>1. job'[w] \in Job
      BY <2>2 DEF LocalsTyped, Locals, RunsItsJob
    <3>2. Len(Signer[job'[w]]) \in Nat /\ at'[job'[w]] \in Nat
      BY <3>1, SignerFacts DEF LocalsTyped
    <3>3. PhasesLeft(pc'[w]) \in Nat
      BY DEF PhasesLeft
    <3>4. StepsLeft(w)' = 7 * (Len(Signer[job'[w]]) - at'[job'[w]]) + PhasesLeft(pc'[w])
      BY <2>2 DEF StepsLeft
    <3> QED
      BY <3>2, <3>3, <3>4, StepsLeftBusy
  <2> QED BY <2>1, <2>2
<1>2. CASE CallStep(w)
  BY <1>1, <1>2, OwnStepsDecrease
<1>3. CASE ConnectFails(w) \/ Dies(w)
  <2>1. StepsLeft(w)' < StepsLeft(w)
    BY <1>3, EndsCall DEF ConnectFails, Dies
  <2> QED
    BY <1>1, <1>2, <2>1
\* A block wakes the worker that waits for it.
<1>4. ASSUME NEW a \in Account, InBlock(a)
      PROVE  /\ StepsLeft(w)' <= StepsLeft(w)
             /\ pc'[w] # pc[w] => StepsLeft(w)' < StepsLeft(w)
  <2>1. job'[w] = job[w] /\ at'[job[w]] = at[job[w]]
    BY <1>4 DEF InBlock
  <2>2. pc'[w] = IF AwaitsBlock(w, a) THEN "receipt" ELSE pc[w]
    BY <1>4 DEF InBlock
  <2>3. CASE AwaitsBlock(w, a)
    <3>1. pc[w] = "wait" /\ pc'[w] = "receipt"
      BY <2>2, <2>3 DEF AwaitsBlock
    <3>2. PhasesLeft(pc[w]) = 2 /\ PhasesLeft(pc'[w]) = 1
      BY <3>1 DEF PhasesLeft
    <3>3. StepsLeft(w)' < StepsLeft(w)
      BY <2>1, <3>1, <3>2, SameCall
    <3> QED
      BY <1>1, <3>3
  <2>4. CASE ~AwaitsBlock(w, a)
    BY <2>1, <2>2, <2>4, StepsLeftStay
  <2> QED
    BY <2>3, <2>4
<1>5. ASSUME \/ Break(w)
             \/ \E u \in Worker : u # w /\ ((\E j \in Job : Start(u, j))
                   \/ CallStep(u) \/ ConnectFails(u) \/ Break(u) \/ Dies(u))
             \/ \E a \in Account : Forgotten(a)
             \/ \E s \in Owner \cup {Sudo} : ChangeKey(s)
             \/ UNCHANGED vars
      PROVE  pc'[w] = pc[w] /\ StepsLeft(w)' <= StepsLeft(w)
  <2>1. job'[w] = job[w] /\ at'[job[w]] = at[job[w]] /\ pc'[w] = pc[w]
    BY <1>5, OthersSpareSteps DEF Break, Forgotten, ChangeKey, workerVars, vars
  <2> QED
    BY <2>1, StepsLeftStay
<1>6. ASSUME NEW j \in Job, Start(w, j) PROVE FALSE
  BY <1>6 DEF Start
<1> QED
  BY <1>2, <1>3, <1>4, <1>5, <1>6 DEF Next

\* A job of n calls needs seven steps for each at most, and a block for each: a
\* worker that goes on and whose extrinsics blocks take comes to the end of any
\* job, whatever the other workers, the sudo key and the connections do.  (That
\* a block takes the extrinsic it waits for is what Stranded is the exception to.)
THEOREM JobsAdvance == Spec => [][StepsDecrease]_vars
<1>1. IInv => LocalsTyped /\ Locals
  BY TypeParts DEF IInv
<1> QED
  BY <1>1, Invariant, StepsStep, PTL DEF Spec
=============================================================================
