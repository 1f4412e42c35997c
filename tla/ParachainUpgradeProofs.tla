----------------------- MODULE ParachainUpgradeProofs -----------------------
(***************************************************************************)
(* Proofs about ParachainUpgrade, for every number of requests, workers    *)
(* and polls: what OK tells the caller, who is to blame for a rejected     *)
(* upgrade, and that UpgradeRequests is implemented.  The last counts the  *)
(* authorisations that may be used (Occurrences).  CallsLeft bounds the    *)
(* calls of a request.                                                     *)
(***************************************************************************)
EXTENDS ParachainUpgrade, FiniteSetTheorems, TLAPS

USE DEF chainVars, Goto, Running, Answered

\* A request that has begun names a runtime, one that polls has polls left.
Begun == \A r \in Request : pc[r] # "idle" => code[r] \in Code

LEMMA TypeInit == Init => TypeOK /\ Begun
<1> QED
  BY CodeAssumption, BoundAssumption DEF Init, TypeOK, Begun

LEMMA TypeStep == TypeOK /\ Begun /\ [Next]_vars => (TypeOK /\ Begun)'
<1> SUFFICES ASSUME TypeOK, Begun, [Next]_vars PROVE (TypeOK /\ Begun)'
  OBVIOUS
<1> USE BoundAssumption DEF TypeOK, Begun
<1>1. ASSUME NEW r \in Request, NEW c \in Code, Begin(r, c) PROVE (TypeOK /\ Begun)'
  BY <1>1 DEF Begin
<1>2. ASSUME NEW r \in Request, Authorize(r) \/ AuthorizeFails(r)
      PROVE (TypeOK /\ Begun)'
  <2>1. Append(xcm, code[r]) \in Seq(Code)
    BY <1>2 DEF Authorize, AuthorizeFails
  <2> QED
    BY <1>2, <2>1 DEF Authorize, AuthorizeFails
<1>3. ASSUME NEW r \in Request, SeesAuthorization(r) \/ ApplyRejected(r) \/ WorkerDies(r)
      PROVE (TypeOK /\ Begun)'
  BY <1>3 DEF SeesAuthorization, ApplyRejected, WorkerDies
<1>4. ASSUME NEW r \in Request, SeesNothing(r) \/ TimesOut(r) PROVE (TypeOK /\ Begun)'
  <2>1. CASE SeesNothing(r)
    <3>1. polls[r] + 1 \in 0 .. MaxPolls - 1
      BY <2>1 DEF SeesNothing
    <3> QED
      BY <2>1, <3>1 DEF SeesNothing
  <2>2. CASE TimesOut(r)
    BY <2>2 DEF TimesOut
  <2> QED
    BY <1>4, <2>1, <2>2
<1>5. ASSUME NEW r \in Request, Apply(r) \/ ApplyFails(r) PROVE (TypeOK /\ Begun)'
  <2>1. pc[r] = "apply" /\ code[r] \in Code
    BY <1>5 DEF Apply, ApplyFails
  <2>2. Install(r) => since' \in [Request -> SUBSET Code]
    BY <2>1 DEF Install
  <2> QED
    BY <1>5, <2>1, <2>2 DEF Apply, ApplyFails, Install
<1>6. ASSUME Deliver PROVE (TypeOK /\ Begun)'
  <2>1. Tail(xcm) \in Seq(Code) /\ Head(xcm) \in Code
    BY <1>6 DEF Deliver
  <2> QED
    BY <1>6, <2>1 DEF Deliver
<1>7. CASE UNCHANGED vars
  BY <1>7 DEF vars
<1> QED
  BY <1>1, <1>2, <1>3, <1>4, <1>5, <1>6, <1>7 DEF Next, RequestStep

\* Every variable keeps its type, and no request polls beyond its limit.
THEOREM TypeCorrect == Spec => []TypeOK
<1> QED
  BY TypeInit, TypeStep, PTL DEF Spec

-----------------------------------------------------------------------------
LEMMA OkStep == TypeOK /\ OkMeansInstalled /\ [Next]_vars => OkMeansInstalled'
<1> SUFFICES ASSUME TypeOK, OkMeansInstalled, [Next]_vars PROVE OkMeansInstalled'
  OBVIOUS
<1> USE DEF TypeOK, OkMeansInstalled
<1>1. ASSUME NEW r \in Request, NEW c \in Code, Begin(r, c) PROVE OkMeansInstalled'
  BY <1>1 DEF Begin
<1>2. ASSUME NEW r \in Request,
             Authorize(r) \/ AuthorizeFails(r) \/ SeesAuthorization(r) \/ SeesNothing(r)
               \/ TimesOut(r) \/ ApplyRejected(r) \/ WorkerDies(r)
      PROVE OkMeansInstalled'
  BY <1>2 DEF Authorize, AuthorizeFails, SeesAuthorization, SeesNothing, TimesOut,
     ApplyRejected, WorkerDies
<1>3. ASSUME NEW r \in Request, Apply(r) \/ ApplyFails(r) PROVE OkMeansInstalled'
  <2>1. \A q \in Request : pc[q] \notin Running => since'[q] = since[q]
    BY <1>3 DEF Apply, ApplyFails, Install
  <2>2. CASE Apply(r)
    <3>1. code[r] \in since'[r]
      BY <2>2 DEF Apply, Install
    <3> QED
      BY <2>1, <2>2, <3>1 DEF Apply
  <2>3. CASE ApplyFails(r)
    BY <2>1, <2>3 DEF ApplyFails
  <2> QED
    BY <1>3, <2>2, <2>3
<1>4. CASE Deliver
  BY <1>4 DEF Deliver
<1>5. CASE UNCHANGED vars
  BY <1>5 DEF vars
<1> QED
  BY <1>1, <1>2, <1>3, <1>4, <1>5 DEF Next, RequestStep

\* A request answered OK has had its own code installed since it began, however
\* many requests authorise and apply beside it and whatever messages are lost.
THEOREM OkInstalls == Spec => []OkMeansInstalled
<1>1. Init => OkMeansInstalled
  BY DEF Init, OkMeansInstalled
<1> QED
  BY <1>1, TypeInit, TypeStep, OkStep, PTL DEF Spec

-----------------------------------------------------------------------------
\* All requests so far are for the runtime c.
Agreed(c) == \A q \in Request : pc[q] # "idle" => code[q] = c

\* While they are, nothing else is authorised or about to be, and a request that
\* finds its authorisation gone, after it saw it, finds the runtime installed.
OnlyTheirs(c) ==
    /\ \A i \in 1 .. Len(xcm) : xcm[i] = c
    /\ authorized \in {None, c}
    /\ \A r \in Request : pc[r] = "apply" => authorized = c \/ c \in since[r]
    /\ \A r \in Request : pc[r] = "rejected" => c \in since[r]

AgreedInv == \A c \in Code : Agreed(c) => OnlyTheirs(c)

LEMMA AgreedStep == TypeOK /\ Begun /\ AgreedInv /\ [Next]_vars => AgreedInv'
<1> SUFFICES ASSUME TypeOK, Begun, AgreedInv, [Next]_vars,
                    NEW c \in Code, Agreed(c)'
             PROVE  OnlyTheirs(c)'
  BY DEF AgreedInv
<1> USE CodeAssumption DEF TypeOK, Begun
<1>1. ASSUME NEW r \in Request, NEW d \in Code, Begin(r, d) PROVE OnlyTheirs(c)'
  <2>1. Agreed(c)
    BY <1>1 DEF Begin, Agreed
  <2> QED
    BY <1>1, <2>1 DEF Begin, AgreedInv, OnlyTheirs
\* A step of a request that has begun is one of a request for c.
<1>2. ASSUME NEW r \in Request,
             RequestStep(r) \/ AuthorizeFails(r) \/ ApplyFails(r) \/ WorkerDies(r)
      PROVE  OnlyTheirs(c)'
  <2>1. Agreed(c) /\ code[r] = c /\ code' = code /\ pc[r] # "idle"
    BY <1>2 DEF RequestStep, Authorize, SeesAuthorization, SeesNothing, TimesOut, Apply,
       ApplyRejected, AuthorizeFails, ApplyFails, WorkerDies, Agreed, Running
  <2>2. OnlyTheirs(c)
    BY <2>1 DEF AgreedInv
  <2>3. CASE Authorize(r) \/ AuthorizeFails(r)
    <3>1. xcm' \in {xcm, Append(xcm, c)} /\ UNCHANGED <<authorized, since>>
      BY <2>1, <2>3 DEF Authorize, AuthorizeFails
    <3>2. \A i \in 1 .. Len(xcm') : xcm'[i] = c
      BY <2>2, <3>1 DEF OnlyTheirs
    <3>3. \A q \in Request : pc'[q] \in {"apply", "rejected"} => pc'[q] = pc[q]
      BY <2>3 DEF Authorize, AuthorizeFails, Goto
    <3> QED
      BY <2>2, <3>1, <3>2, <3>3 DEF OnlyTheirs
  <2>4. CASE SeesAuthorization(r) \/ SeesNothing(r) \/ TimesOut(r) \/ WorkerDies(r)
    BY <2>2, <2>4 DEF SeesAuthorization, SeesNothing, TimesOut, WorkerDies, Goto, OnlyTheirs
  <2>5. CASE ApplyRejected(r)
    BY <2>1, <2>2, <2>5 DEF ApplyRejected, Goto, OnlyTheirs
  <2>6. CASE (Apply(r) \/ ApplyFails(r)) /\ Install(r)
    <3>1. authorized' = None /\ UNCHANGED xcm
      BY <2>6 DEF Install
    <3>2. \A q \in Request : since[q] \subseteq since'[q]
                               /\ (pc[q] = "apply" => c \in since'[q])
      BY <2>1, <2>6 DEF Install, Running
    <3>3. \A q \in Request : pc'[q] \in {"apply", "rejected"} => pc'[q] = pc[q]
      BY <2>6 DEF Apply, ApplyFails, Goto
    <3> QED
      BY <2>2, <3>1, <3>2, <3>3 DEF OnlyTheirs
  <2>7. CASE ApplyFails(r) /\ UNCHANGED <<chainVars, since>>
    BY <2>2, <2>7 DEF ApplyFails, Goto, OnlyTheirs
  <2> QED
    BY <1>2, <2>3, <2>4, <2>5, <2>6, <2>7 DEF RequestStep, Apply, ApplyFails
<1>3. ASSUME Deliver PROVE OnlyTheirs(c)'
  <2>1. OnlyTheirs(c)
    BY <1>3 DEF Deliver, AgreedInv, Agreed
  <2>2. Head(xcm) = c /\ authorized' \in {authorized, c} /\ UNCHANGED <<pc, since>>
    BY <1>3, <2>1 DEF Deliver, OnlyTheirs
  <2>3. \A i \in 1 .. Len(Tail(xcm)) : Tail(xcm)[i] = c
    BY <1>3, <2>1 DEF Deliver, OnlyTheirs
  <2> QED
    BY <1>3, <2>1, <2>2, <2>3 DEF Deliver, OnlyTheirs
<1>4. CASE UNCHANGED vars
  BY <1>4 DEF vars, AgreedInv, Agreed, OnlyTheirs
<1> QED
  BY <1>1, <1>2, <1>3, <1>4 DEF Next

\* A request whose code the parachain rejects met a request for another runtime,
\* or its code is in place already, however calls and messages fare.
THEOREM RejectionNeedsInterference == Spec => []RejectedOnlyByInterference
<1>1. Init => AgreedInv
  BY DEF Init, AgreedInv, OnlyTheirs
<1>2. TypeOK /\ Begun /\ AgreedInv => RejectedOnlyByInterference
  <2> SUFFICES ASSUME TypeOK, Begun, AgreedInv, NEW r \in Request, pc[r] = "rejected",
                      ~ \E q \in Request : pc[q] # "idle" /\ code[q] # code[r]
               PROVE  code[r] \in since[r]
    BY DEF RejectedOnlyByInterference
  <2>1. code[r] \in Code
    BY DEF Begun
  <2>2. Agreed(code[r])
    BY DEF Agreed
  <2> QED
    BY <2>1, <2>2 DEF AgreedInv, OnlyTheirs
<1> QED
  BY <1>1, <1>2, TypeInit, TypeStep, AgreedStep, PTL DEF Spec

-----------------------------------------------------------------------------
(* The refinement: authorisations counted *)

\* The places of c in a sequence of messages.
Occurrences(s, c) == {i \in 1 .. Len(s) : s[i] = c}

LEMMA OccurrencesFinite ==
    ASSUME NEW s \in Seq(Code), NEW c
    PROVE  IsFiniteSet(Occurrences(s, c)) /\ Cardinality(Occurrences(s, c)) \in Nat
<1>1. IsFiniteSet(1 .. Len(s))
  BY FS_Interval
<1>2. Occurrences(s, c) \in SUBSET (1 .. Len(s))
  BY DEF Occurrences
<1>3. IsFiniteSet(Occurrences(s, c))
  BY <1>1, <1>2, FS_Subset
<1> QED
  BY <1>3, FS_CardinalityType

LEMMA AppendCounted ==
    ASSUME NEW s \in Seq(Code), NEW d \in Code, NEW c
    PROVE  Cardinality(Occurrences(Append(s, d), c)) =
               Cardinality(Occurrences(s, c)) + (IF c = d THEN 1 ELSE 0)
<1>1. /\ Len(s) \in Nat /\ Len(Append(s, d)) = Len(s) + 1
      /\ \A i \in 1 .. Len(s) : Append(s, d)[i] = s[i]
      /\ Append(s, d)[Len(s) + 1] = d
  OBVIOUS
<1>2. Len(s) + 1 \notin Occurrences(s, c)
  BY <1>1 DEF Occurrences
<1>3. CASE c = d
  <2>1. Occurrences(Append(s, d), c) = Occurrences(s, c) \cup {Len(s) + 1}
    BY <1>1, <1>3 DEF Occurrences
  <2> QED
    BY <1>2, <1>3, <2>1, OccurrencesFinite, FS_AddElement
<1>4. CASE c # d
  <2>1. Occurrences(Append(s, d), c) = Occurrences(s, c)
    BY <1>1, <1>4 DEF Occurrences
  <2> QED
    BY <1>4, <2>1, OccurrencesFinite
<1> QED
  BY <1>3, <1>4

LEMMA TailCounted ==
    ASSUME NEW s \in Seq(Code), s # << >>, NEW c
    PROVE  Cardinality(Occurrences(s, c)) =
               Cardinality(Occurrences(Tail(s), c)) + (IF c = Head(s) THEN 1 ELSE 0)
<1> DEFINE Later == Occurrences(s, c) \ {1}
           shift == [i \in Later |-> i - 1]
<1>1. /\ Len(s) \in Nat /\ Len(s) # 0 /\ Head(s) = s[1]
      /\ Tail(s) \in Seq(Code) /\ Len(Tail(s)) = Len(s) - 1
      /\ \A i \in 1 .. Len(s) - 1 : Tail(s)[i] = s[i + 1]
  OBVIOUS
<1>2. shift \in Bijection(Later, Occurrences(Tail(s), c))
  <2>1. \A i \in Later : i \in Nat /\ i - 1 \in Occurrences(Tail(s), c)
    BY <1>1 DEF Occurrences
  <2>2. \A j \in Occurrences(Tail(s), c) : j + 1 \in Later /\ shift[j + 1] = j
    BY <1>1 DEF Occurrences
  <2>3. \A i, j \in Later : shift[i] = shift[j] => i = j
    BY <2>1
  <2> QED
    BY <2>1, <2>2, <2>3 DEF Bijection, Injection, Surjection, IsInjective
<1>3. IsFiniteSet(Later) /\ Cardinality(Later) \in Nat
  BY OccurrencesFinite, FS_RemoveElement, FS_CardinalityType
<1>4. Cardinality(Occurrences(Tail(s), c)) = Cardinality(Later)
  BY <1>2, <1>3, FS_Bijection DEF ExistsBijection
<1>5. 1 \in Occurrences(s, c) <=> c = Head(s)
  BY <1>1 DEF Occurrences
<1>6. Cardinality(Later) =
          IF 1 \in Occurrences(s, c) THEN Cardinality(Occurrences(s, c)) - 1
          ELSE Cardinality(Occurrences(s, c))
  BY OccurrencesFinite, FS_RemoveElement
<1> QED
  BY <1>4, <1>5, <1>6, OccurrencesFinite

LEMMA GrantsCounted == TypeOK => \A c \in Code : Grants(c) \in Nat
<1> SUFFICES ASSUME TypeOK, NEW c \in Code PROVE Grants(c) \in Nat
  OBVIOUS
<1>1. Cardinality(Messages(c)) \in Nat
  BY OccurrencesFinite DEF TypeOK, Messages, Occurrences
<1> QED
  BY <1>1 DEF Grants

LEMMA InitImplements == Init => Promise!Init
<1> SUFFICES ASSUME Init PROVE Promise!Init
  OBVIOUS
<1>1. ASSUME NEW c \in Code PROVE Grants(c) = 0
  <2>1. Messages(c) = {}
    BY DEF Init, Messages
  <2> QED
    BY <2>1, FS_EmptySet, CodeAssumption DEF Init, Grants
<1> QED
  BY <1>1 DEF Init, Promise!Init, Status

\* An authorisation that is sent is one more grant for its runtime.
LEMMA SendingGrants ==
    ASSUME TypeOK, NEW d \in Code, xcm' = Append(xcm, d), authorized' = authorized
    PROVE  [c \in Code |-> Grants(c)]' = [[c \in Code |-> Grants(c)] EXCEPT ![d] = @ + 1]
<1>1. ASSUME NEW c \in Code
      PROVE  Cardinality(Messages(c))' = Cardinality(Messages(c)) + (IF c = d THEN 1 ELSE 0)
  <2>1. Cardinality(Occurrences(Append(xcm, d), c)) =
            Cardinality(Occurrences(xcm, c)) + (IF c = d THEN 1 ELSE 0)
    BY AppendCounted DEF TypeOK
  <2> QED
    BY <2>1 DEF Messages, Occurrences
<1>2. ASSUME NEW c \in Code
      PROVE  Grants(c)' = IF c = d THEN Grants(c) + 1 ELSE Grants(c)
  <2>1. Cardinality(Messages(c)) \in Nat
    BY OccurrencesFinite DEF TypeOK, Messages, Occurrences
  <2> QED
    BY <1>1, <2>1 DEF Grants
<1> QED
  BY <1>2

\* A message that is executed changes no grant, or loses one: its own, or the
\* one it replaces.
LEMMA DeliveryLoses ==
    ASSUME TypeOK, Deliver
    PROVE  \/ \A c \in Code : Grants(c)' = Grants(c)
           \/ \E d \in Code :
                 /\ Grants(d) > 0
                 /\ \A c \in Code : Grants(c)' = IF c = d THEN Grants(c) - 1 ELSE Grants(c)
<1>1. Head(xcm) \in Code /\ xcm' = Tail(xcm) /\ authorized' \in {Head(xcm), authorized}
  BY DEF Deliver, TypeOK
<1>2. ASSUME NEW c \in Code
      PROVE  /\ Cardinality(Messages(c)) \in Nat /\ Cardinality(Messages(c))' \in Nat
             /\ Cardinality(Messages(c)) =
                    Cardinality(Messages(c))' + (IF c = Head(xcm) THEN 1 ELSE 0)
  <2>1. xcm \in Seq(Code) /\ xcm # << >> /\ Tail(xcm) \in Seq(Code)
    BY DEF TypeOK, Deliver
  <2>2. Cardinality(Occurrences(xcm, c)) =
            Cardinality(Occurrences(Tail(xcm), c)) + (IF c = Head(xcm) THEN 1 ELSE 0)
    BY <2>1, TailCounted
  <2>3. /\ Cardinality(Occurrences(xcm, c)) \in Nat
        /\ Cardinality(Occurrences(Tail(xcm), c)) \in Nat
    BY <2>1, OccurrencesFinite
  <2> QED
    BY <1>1, <2>2, <2>3 DEF Messages, Occurrences
\* The message is lost, or says what is authorised already.
<1>3. CASE authorized' = authorized
  <2>1. \A c \in Code : Grants(c)' = IF c = Head(xcm) THEN Grants(c) - 1 ELSE Grants(c)
    BY <1>2, <1>3 DEF Grants
  <2>2. Grants(Head(xcm)) > 0
    BY <1>1, <1>2 DEF Grants
  <2> QED
    BY <1>1, <2>1, <2>2
<1>4. CASE authorized' = Head(xcm) /\ authorized = None
  BY <1>1, <1>2, <1>4, CodeAssumption DEF Grants
\* It replaces another authorisation.
<1>5. CASE authorized' = Head(xcm) /\ authorized \in Code \ {Head(xcm)}
  <2>1. \A c \in Code : Grants(c)' = IF c = authorized THEN Grants(c) - 1 ELSE Grants(c)
    BY <1>2, <1>5 DEF Grants
  <2>2. Grants(authorized) > 0
    BY <1>2, <1>5 DEF Grants
  <2> QED
    BY <1>5, <2>1, <2>2
<1> QED
  BY <1>1, <1>3, <1>4, <1>5 DEF TypeOK

LEMMA InstallSpends ==
    ASSUME TypeOK, NEW r \in Request, code[r] \in Code, Install(r)
    PROVE  /\ Grants(code[r]) > 0
           /\ \A c \in Code : Grants(c)' = IF c = code[r] THEN Grants(c) - 1 ELSE Grants(c)
<1>1. authorized = code[r] /\ authorized' = None /\ xcm' = xcm
  BY DEF Install
<1>2. ASSUME NEW c \in Code
      PROVE  Cardinality(Messages(c)) \in Nat /\ Cardinality(Messages(c))' = Cardinality(Messages(c))
  BY <1>1, OccurrencesFinite DEF TypeOK, Messages, Occurrences
<1> QED
  BY <1>1, <1>2, CodeAssumption DEF Grants

LEMMA StepImplements == TypeOK /\ Begun /\ [Next]_vars => [Promise!Next]_Promise!vars
<1> SUFFICES ASSUME TypeOK, Begun, [Next]_vars PROVE [Promise!Next]_Promise!vars
  OBVIOUS
<1> DEFINE Mapped == [c \in Code |-> Grants(c)]
           Statuses == [r \in Request |-> Status(r)]
<1>a. ASSUME NEW r \in Request, NEW there, pc' = [pc EXCEPT ![r] = there],
             there \in {"idle", "dead"} \cup Running \cup Answered
      PROVE  Statuses' = [Statuses EXCEPT ![r] = Status(r)']
  BY <1>a DEF Status, TypeOK
<1>b. ASSUME UNCHANGED <<xcm, authorized>> PROVE Mapped' = Mapped
  BY <1>b DEF Grants, Messages
<1>1. ASSUME NEW r \in Request, NEW c \in Code, Begin(r, c) PROVE Promise!Ask(r)
  <2>1. Statuses' = [Statuses EXCEPT ![r] = "asked"]
    BY <1>1, <1>a DEF Begin, Status, TypeOK
  <2> QED
    BY <1>1, <1>b, <2>1 DEF Begin, Promise!Ask, Status
<1>2. ASSUME NEW r \in Request, pc[r] = "authorize", xcm' = Append(xcm, code[r]),
             UNCHANGED <<runtime, authorized, code>>, NEW there \in {"poll", "refused"},
             Goto(r, there)
      PROVE  Promise!Grant(r)
  <2>1. Mapped' = [Mapped EXCEPT ![code[r]] = @ + 1]
    BY <1>2, SendingGrants DEF Begun
  <2>2. \E s \in {"granted", "over"} : Statuses' = [Statuses EXCEPT ![r] = s]
    BY <1>2, <1>a DEF Status, TypeOK
  <2> QED
    BY <1>2, <2>1, <2>2 DEF Promise!Grant, Status
<1>3. ASSUME NEW r \in Request, pc[r] \in Running, UNCHANGED <<chainVars, code>>,
             NEW there \in (Answered \ {"ok"}) \cup {"dead"}, Goto(r, there)
      PROVE  Promise!GiveUp(r)
  <2>1. Statuses' = [Statuses EXCEPT ![r] = "over"]
    BY <1>3, <1>a DEF Status, TypeOK
  <2> QED
    BY <1>3, <1>b, <2>1 DEF Promise!GiveUp, Promise!Open, Status
<1>4. ASSUME NEW r \in Request, SeesAuthorization(r) \/ SeesNothing(r)
      PROVE  UNCHANGED Promise!vars
  <2>1. Statuses' = Statuses
    BY <1>4 DEF SeesAuthorization, SeesNothing, Status, TypeOK
  <2> QED
    BY <1>4, <1>b, <2>1 DEF SeesAuthorization, SeesNothing, Promise!vars
<1>5. ASSUME NEW r \in Request, pc[r] = "apply", Install(r), UNCHANGED code,
             NEW there \in {"ok", "failed"}, Goto(r, there)
      PROVE  Promise!Install(r)
  <2>1. Mapped[code[r]] > 0 /\ Mapped' = [Mapped EXCEPT ![code[r]] = @ - 1]
    BY <1>5, InstallSpends DEF Begun
  <2>2. \E s \in {"ok", "over"} : Statuses' = [Statuses EXCEPT ![r] = s]
    BY <1>5, <1>a DEF Status, TypeOK
  <2> QED
    BY <1>5, <2>1, <2>2 DEF Promise!Install, Install, Status
<1>6. ASSUME Deliver PROVE [Promise!Next]_Promise!vars
  <2>1. Statuses' = Statuses /\ UNCHANGED <<runtime, code>>
    BY <1>6 DEF Deliver, Status
  <2>2. CASE \A c \in Code : Grants(c)' = Grants(c)
    BY <2>1, <2>2 DEF Promise!vars
  <2>3. ASSUME NEW d \in Code, Grants(d) > 0,
               \A c \in Code : Grants(c)' = IF c = d THEN Grants(c) - 1 ELSE Grants(c)
        PROVE  Promise!Lose(d)
    BY <2>1, <2>3 DEF Promise!Lose
  <2> QED
    BY <1>6, <2>2, <2>3, DeliveryLoses DEF Promise!Next
<1>7. CASE UNCHANGED vars
  <2>1. Statuses' = Statuses
    BY <1>7 DEF vars, Status
  <2> QED
    BY <1>7, <1>b, <2>1 DEF vars, Promise!vars
<1>8. ASSUME NEW r \in Request, RequestStep(r) \/ AuthorizeFails(r) \/ ApplyFails(r) \/ WorkerDies(r)
      PROVE  [Promise!Next]_Promise!vars
  <2>1. CASE Authorize(r)
    BY <1>2, <2>1 DEF Authorize, Promise!Next
  <2>2. CASE AuthorizeFails(r)
    BY <1>2, <1>3, <2>2 DEF AuthorizeFails, Promise!Next
  <2>3. CASE SeesAuthorization(r) \/ SeesNothing(r)
    BY <1>4, <2>3
  <2>4. CASE TimesOut(r) \/ ApplyRejected(r) \/ WorkerDies(r)
    BY <1>3, <2>4 DEF TimesOut, ApplyRejected, WorkerDies, Promise!Next
  <2>5. CASE Apply(r)
    BY <1>5, <2>5 DEF Apply, Promise!Next
  <2>6. CASE ApplyFails(r)
    BY <1>3, <1>5, <2>6 DEF ApplyFails, Promise!Next
  <2> QED
    BY <1>8, <2>1, <2>2, <2>3, <2>4, <2>5, <2>6 DEF RequestStep
<1> QED
  BY <1>1, <1>6, <1>7, <1>8 DEF Next, Promise!Next

\* The runtime changes only within a request for it, at the price of one
\* authorisation, whoever asked for that, and OK means that the request did it.
THEOREM Implements == Spec => ImplementsPromise
<1> QED
  BY InitImplements, TypeInit, TypeStep, StepImplements, PTL
  DEF Spec, ImplementsPromise, Promise!Spec
-----------------------------------------------------------------------------
(* Why every request is answered: the calls a request has left decrease.     *)

\* The most remote calls the request r may still make: to authorise, to poll, to
\* apply.  A request that has been answered, or whose worker died, makes none.
CallsLeft(r) ==
    CASE pc[r] = "authorize" -> MaxPolls + 2
      [] pc[r] = "poll" -> MaxPolls - polls[r] + 1
      [] pc[r] = "apply" -> 1
      [] OTHER -> 0

\* Each call of a request is one of those it had left, and nothing that others
\* or the chain do gives it a call back.
CallsDecrease ==
    \A r \in Request :
        /\ pc[r] # "idle" => CallsLeft(r)' <= CallsLeft(r)
        /\ RequestStep(r) => CallsLeft(r)' < CallsLeft(r)

LEMMA CallsLeftBounded ==
    ASSUME TypeOK, NEW r \in Request
    PROVE  /\ CallsLeft(r) \in 0 .. MaxPolls + 2
           /\ pc[r] \in Running <=> CallsLeft(r) > 0
<1>1. polls[r] \in Nat /\ polls[r] <= MaxPolls - 1 /\ MaxPolls \in Nat
  BY BoundAssumption DEF TypeOK
<1> QED
  BY <1>1 DEF CallsLeft

\* A step that leaves pc[r] and polls[r] alone leaves r its calls.
LEMMA CallsLeftStays ==
    ASSUME TypeOK, TypeOK', NEW r \in Request, pc'[r] = pc[r], polls'[r] = polls[r]
    PROVE  CallsLeft(r)' <= CallsLeft(r)
<1>1. CallsLeft(r)' = CallsLeft(r)
  BY DEF CallsLeft
<1> QED
  BY <1>1, CallsLeftBounded

LEMMA CallsStep == TypeOK /\ TypeOK' /\ [Next]_vars => CallsDecrease
<1> SUFFICES ASSUME TypeOK, TypeOK', [Next]_vars, NEW r \in Request
             PROVE  /\ pc[r] # "idle" => CallsLeft(r)' <= CallsLeft(r)
                    /\ RequestStep(r) => CallsLeft(r)' < CallsLeft(r)
  BY DEF CallsDecrease
<1>1. polls[r] \in Nat /\ polls[r] <= MaxPolls - 1 /\ MaxPolls \in Nat
  BY BoundAssumption DEF TypeOK
\* The steps of the request itself.
<1>2. ASSUME RequestStep(r) PROVE CallsLeft(r)' < CallsLeft(r)
  <2>1. CASE Authorize(r)
    BY <1>1, <2>1 DEF Authorize, CallsLeft, TypeOK
  <2>2. CASE SeesAuthorization(r)
    BY <1>1, <2>2 DEF SeesAuthorization, CallsLeft, TypeOK
  <2>3. CASE SeesNothing(r)
    BY <1>1, <2>3 DEF SeesNothing, CallsLeft, TypeOK
  <2>4. CASE TimesOut(r)
    BY <1>1, <2>4 DEF TimesOut, CallsLeft, TypeOK
  <2>5. CASE Apply(r) \/ ApplyRejected(r)
    BY <1>1, <2>5 DEF Apply, ApplyRejected, CallsLeft, TypeOK
  <2> QED
    BY <1>2, <2>1, <2>2, <2>3, <2>4, <2>5 DEF RequestStep
<1>3. ASSUME AuthorizeFails(r) \/ ApplyFails(r) \/ WorkerDies(r)
      PROVE  CallsLeft(r)' <= CallsLeft(r)
  <2>1. CallsLeft(r)' = 0
    BY <1>3 DEF AuthorizeFails, ApplyFails, WorkerDies, CallsLeft, TypeOK
  <2> QED
    BY <2>1, CallsLeftBounded
\* The steps of other requests, and of the chain.
<1>4. ASSUME NEW q \in Request, q # r,
             \/ RequestStep(q) \/ AuthorizeFails(q) \/ ApplyFails(q) \/ WorkerDies(q)
             \/ \E c \in Code : Begin(q, c)
      PROVE  CallsLeft(r)' <= CallsLeft(r)
  <2>1. pc'[r] = pc[r] /\ polls'[r] = polls[r]
    BY <1>4 DEF RequestStep, Authorize, SeesAuthorization, SeesNothing, TimesOut, Apply,
       ApplyRejected, AuthorizeFails, ApplyFails, WorkerDies, Begin, TypeOK
  <2> QED
    BY <2>1, CallsLeftStays
<1>5. ASSUME Deliver \/ UNCHANGED vars PROVE CallsLeft(r)' <= CallsLeft(r)
  BY <1>5, CallsLeftStays DEF Deliver, vars
<1>6. CASE \E c \in Code : Begin(r, c)
  BY <1>2, <1>6 DEF Begin
<1>7. CallsLeft(r)' < CallsLeft(r) => CallsLeft(r)' <= CallsLeft(r)
  <2>1. CallsLeft(r) \in Int /\ CallsLeft(r)' \in Int
    BY <1>1 DEF CallsLeft, TypeOK
  <2> QED
    BY <2>1
<1> QED
  BY <1>2, <1>3, <1>4, <1>5, <1>6, <1>7 DEF Next

\* A request makes MaxPolls + 2 remote calls at most (30 polls, one call that
\* authorises, one that applies), and each step it takes spends one, however many
\* requests run beside it: it cannot go on for ever.
THEOREM CallsAreBounded == Spec => [][CallsDecrease]_vars
<1> QED
  BY TypeInit, TypeStep, CallsStep, PTL DEF Spec
=============================================================================
