-------------------------- MODULE ControlPlaneProofs --------------------------
(* Theorems about ControlPlane, for every number of callers, any set of its *)
(* operations and any bounds.                                               *)
EXTENDS ControlPlane, FiniteSetTheorems, TLAPS

\* What the definitions below use of an operation: its flags are Boolean,
\* its name tells whether it is keyed, and CreateSandbox tells its key in
\* every error that may leave a sandbox behind.
KeyedRpcs == {"Create", "ResumeSandbox", "CreateSnapshot", "RunJob", "StartJob",
              "CreateJobSchedule", "CreatePreview"}

\* What the table of operations gives for every one of them.
LEMMA OpFields ==
  ASSUME NEW o \in Ops
  PROVE  /\ o.retried \in BOOLEAN /\ o.keyed \in BOOLEAN
         /\ o.keyed <=> o.rpc \in KeyedRpcs
         /\ o = CreateSandbox => o.told = "always"
<1>1. o \in Operations
  BY OpsAssumption DEF OpsAssumption
<1> USE <1>1 DEF Operations, Op, Once, CreateSandbox, ResumeSandbox,
     GetSandbox, ListSandboxes, DeleteSandbox, CreateSnapshot, DeleteSnapshot,
     RunJob, StartJob, GetJobRun, ListJobRuns, CancelJobRun, CreateJobSchedule,
     GetJobSchedule, ListJobSchedules, UpdateJobSchedule, SetJobSchedulePaused,
     TriggerJobSchedule, DeleteJobSchedule, ListTemplates, ListOrganizations,
     CreatePreview, ListPreviews, DeletePreview, ReissueCapability
<1>2. o.retried = TRUE \/ o.retried = FALSE
  OBVIOUS
<1>3. o.keyed = TRUE \/ o.keyed = FALSE
  OBVIOUS
<1>4. o.keyed <=> o.rpc \in KeyedRpcs
  BY DEF KeyedRpcs
<1>5. o = CreateSandbox => o.told = "always"
  OBVIOUS
<1> QED
  BY <1>2, <1>3, <1>4, <1>5

(***************************************************************************)
(* The inductive invariant.                                                *)
(***************************************************************************)
\* A call under way has an operation, a number of its own and a key, and is
\* on its first attempt when the operation is not retried.
CallInv ==
  \A p \in Callers :
    IF pc[p] = "idle" THEN attempts[p] = 0
    ELSE /\ op[p] \in Ops
         /\ call[p] \in 1 .. calls
         /\ key[p] \in Keys
         /\ ~op[p].retried => attempts[p] = 0
         /\ \A q \in Callers : pc[q] # "idle" /\ call[q] = call[p] => q = p

\* The requests of a call under way carry its key, and none but the one it
\* waits for has the number of its present attempt.
RequestInv ==
  \A r \in sent :
    /\ r.call <= calls
    /\ ~r.op.retried => r.attempt = 0
    /\ \A p \in Callers : pc[p] # "idle" /\ call[p] = r.call =>
         /\ r.op = op[p] /\ r.key = key[p]
         /\ r.attempt <= attempts[p]
         /\ r.attempt = attempts[p] => pc[p] = "wait"

\* Requests of one call differ in their attempts alone, and two attempts are
\* two numbers.
SameCall ==
  \A r, s \in sent : r.call = s.call =>
    /\ r.op = s.op /\ r.key = s.key
    /\ r.attempt = s.attempt => r = s

\* A key has made one object.
CreatedInv ==
  \A a, b \in created :
    a.op.keyed /\ a.op.rpc = b.op.rpc /\ a.key = b.key /\ a.org = b.org => a = b

\* A channel is shut, waits to be closed, or the client is open.
ChannelInv ==
  IF closed THEN dialed = shut \cup toClose ELSE shut = {} /\ toClose = {}

Inv == CallInv /\ RequestInv /\ SameCall /\ CreatedInv /\ ChannelInv /\ CreateTellsItsKey

\* Before the first call.
LEMMA InitInv == Init => TypeOK /\ Inv
<1> SUFFICES ASSUME Init PROVE TypeOK /\ Inv
  OBVIOUS
<1>1. NoResult \in Results
  <2>1. ASSUME NEW b \in BOOLEAN
        PROVE  [op |-> None, kind |-> "none", key |-> b] \in Results
    BY DEF Results
  <2> QED
    BY <2>1 DEF NoResult
<1>2. TypeOK
  <2>1. closed \in BOOLEAN /\ late \in [Callers -> BOOLEAN]
    BY DEF Init
  <2>2. result \in [Callers -> Results]
    BY <1>1 DEF Init
  <2>3. /\ attempts \in [Callers -> 0 .. MaxRetries] /\ call \in [Callers -> 0 .. MaxCalls]
        /\ calls \in 0 .. MaxCalls
    BY ClientAssumption DEF ClientAssumption, Init
  <2> QED
    BY <2>1, <2>2, <2>3 DEF Init, TypeOK
<1>3. CallInv /\ RequestInv /\ SameCall /\ CreatedInv /\ ChannelInv
  BY DEF Init, CallInv, RequestInv, SameCall, CreatedInv, ChannelInv
<1>4. CreateTellsItsKey
  BY DEF Init, CreateTellsItsKey, NoResult
<1> QED
  BY <1>2, <1>3, <1>4 DEF Inv

\* A call ends; its error tells the key if a sandbox may be left behind.
LEMMA ReturnInv ==
  ASSUME TypeOK, Inv, NEW p \in Callers, pc[p] # "idle",
         NEW kind \in {"ok", "timeout", "connection", "closed", "other"},
         NEW hasKey \in BOOLEAN, Return(p, kind, hasKey),
         op[p] = CreateSandbox /\ kind \in {"timeout", "connection"} => hasKey,
         UNCHANGED <<clientVars, serviceVars, calls>>
  PROVE  TypeOK' /\ Inv'
<1> USE DEF Return, Goto, clientVars, serviceVars
<1>1. op[p] \in Ops
  BY DEF Inv, CallInv
<1>2. TypeOK'
  BY <1>1, ClientAssumption DEF ClientAssumption, TypeOK, Results
<1>3. CallInv'
  BY DEF TypeOK, Inv, CallInv
<1>4. RequestInv'
  BY DEF TypeOK, Inv, RequestInv
<1>5. SameCall' /\ CreatedInv' /\ ChannelInv'
  BY DEF Inv, SameCall, CreatedInv, ChannelInv
<1>6. CreateTellsItsKey'
  BY DEF TypeOK, Inv, CreateTellsItsKey
<1> QED
  BY <1>2, <1>3, <1>4, <1>5, <1>6 DEF Inv

\* A call begins with a number, and with a key nobody else has or its caller chose.
LEMMA BeginInv ==
  ASSUME TypeOK, Inv, NEW p \in Callers, Begin(p)
  PROVE  TypeOK' /\ Inv'
<1> USE ClientAssumption DEF ClientAssumption, Begin, Goto, clientVars, serviceVars
<1>1. PICK o \in Ops, k \in UserKeys \cup {calls + 1} :
        op' = [op EXCEPT ![p] = o] /\ key' = [key EXCEPT ![p] = k]
  OBVIOUS
<1>2. k \in Keys
  BY DEF TypeOK, Keys
<1>3. TypeOK'
  BY <1>1, <1>2 DEF TypeOK
<1>4. CallInv'
  BY <1>1, <1>2 DEF TypeOK, Inv, CallInv
<1>5. RequestInv'
  BY <1>1 DEF TypeOK, Inv, RequestInv, Requests
<1>6. SameCall' /\ CreatedInv' /\ ChannelInv' /\ CreateTellsItsKey'
  BY DEF Inv, SameCall, CreatedInv, ChannelInv, CreateTellsItsKey
<1> QED
  BY <1>3, <1>4, <1>5, <1>6 DEF Inv

\* A call takes or dials a channel.
LEMMA TakeChannelInv ==
  ASSUME TypeOK, Inv, NEW p \in Callers, TakeChannel(p)
  PROVE  TypeOK' /\ Inv'
<1> USE DEF TakeChannel, Goto, serviceVars
<1>1. TypeOK'
  BY ClientAssumption DEF ClientAssumption, TypeOK
<1>2. CallInv'
  BY DEF TypeOK, Inv, CallInv
<1>3. RequestInv'
  BY DEF TypeOK, Inv, RequestInv
<1>4. ChannelInv'
  BY DEF Inv, ChannelInv, ChannelAllowed
<1>5. SameCall' /\ CreatedInv' /\ CreateTellsItsKey'
  BY DEF Inv, SameCall, CreatedInv, CreateTellsItsKey
<1> QED
  BY <1>1, <1>2, <1>3, <1>4, <1>5 DEF Inv

\* The request sent is the only one of its call with its attempt.
LEMMA SendInv ==
  ASSUME TypeOK, Inv, NEW p \in Callers, Send(p), Tapi \notin shut
  PROVE  TypeOK' /\ Inv'
<1> DEFINE r == [op |-> op[p], call |-> call[p], attempt |-> attempts[p],
                 key |-> key[p], org |-> org]
<1>1. /\ pc[p] = "send" /\ pc' = [pc EXCEPT ![p] = "wait"]
      /\ sent' = sent \cup {r} /\ inflight' = inflight \cup {r}
      /\ UNCHANGED <<clientVars, performed, created, result, op, call, key,
                     attempts, late, calls>>
  BY DEF Send, Goto, RequestKey
<1>2. /\ r \in Requests
      /\ r.op = op[p] /\ r.call = call[p] /\ r.attempt = attempts[p] /\ r.key = key[p]
  <2>1. op[p] \in Ops /\ call[p] \in 1 .. MaxCalls /\ key[p] \in Keys
    BY <1>1 DEF TypeOK, Inv, CallInv
  <2>2. attempts[p] \in 0 .. MaxRetries /\ org \in Orgs
    BY DEF TypeOK
  <2> QED
    BY <2>1, <2>2 DEF Requests
<1> HIDE DEF r
<1>3. TypeOK'
  BY <1>1, <1>2 DEF TypeOK, clientVars
<1>4. CallInv'
  BY <1>1 DEF TypeOK, Inv, CallInv
<1>5. RequestInv'
  <2> SUFFICES ASSUME NEW s \in sent'
               PROVE  /\ s.call <= calls'
                      /\ ~s.op.retried => s.attempt = 0
                      /\ \A q \in Callers : pc'[q] # "idle" /\ call'[q] = s.call =>
                           /\ s.op = op'[q] /\ s.key = key'[q]
                           /\ s.attempt <= attempts'[q]
                           /\ s.attempt = attempts'[q] => pc'[q] = "wait"
    BY DEF RequestInv
  <2>1. CASE s \in sent
    BY <1>1, <2>1 DEF TypeOK, Inv, RequestInv
  <2>2. CASE s = r
    BY <1>1, <1>2, <2>2 DEF TypeOK, Inv, CallInv
  <2> QED
    BY <1>1, <2>1, <2>2
<1>6. SameCall'
  <2>1. \A s \in sent : s.call = r.call =>
          s.op = r.op /\ s.key = r.key /\ s.attempt # r.attempt
    BY <1>1, <1>2 DEF TypeOK, Inv, RequestInv
  <2> QED
    BY <1>1, <2>1 DEF Inv, SameCall
<1>7. CreatedInv' /\ ChannelInv' /\ CreateTellsItsKey'
  BY <1>1 DEF Inv, CreatedInv, ChannelInv, CreateTellsItsKey, clientVars
<1> QED
  BY <1>3, <1>4, <1>5, <1>6, <1>7 DEF Inv

\* The next attempt, or the end of a call that has none left.
LEMMA UnavailableInv ==
  ASSUME TypeOK, Inv, NEW p \in Callers, Unavailable(p)
  PROVE  TypeOK' /\ Inv'
<1>1. CASE MayRetry(p)
  <2>1. /\ pc[p] = "wait" /\ pc' = [pc EXCEPT ![p] = "backoff"]
        /\ attempts' = [attempts EXCEPT ![p] = @ + 1]
        /\ UNCHANGED <<op, call, key, late, result, clientVars, serviceVars, calls>>
    BY <1>1 DEF Unavailable, Goto
  <2>2. op[p].retried /\ attempts[p] < MaxRetries
    BY <1>1 DEF MayRetry
  <2>3. TypeOK'
    BY <2>1, <2>2, ClientAssumption DEF ClientAssumption, TypeOK, clientVars, serviceVars
  <2>4. CallInv'
    BY <2>1, <2>2 DEF TypeOK, Inv, CallInv
  <2>5. RequestInv'
    BY <2>1, <2>2 DEF TypeOK, Inv, RequestInv, Requests, serviceVars
  <2>6. SameCall' /\ CreatedInv' /\ ChannelInv' /\ CreateTellsItsKey'
    BY <2>1 DEF Inv, SameCall, CreatedInv, ChannelInv, CreateTellsItsKey,
       clientVars, serviceVars
  <2> QED
    BY <2>3, <2>4, <2>5, <2>6 DEF Inv
<1>2. CASE ~MayRetry(p)
  <2>1. op[p] \in Ops
    BY DEF Unavailable, Inv, CallInv
  <2> QED
    BY <1>2, <2>1, ReturnInv, OpFields DEF Unavailable, AnswerKey
<1> QED
  BY <1>1, <1>2

\* Steps of a call that change neither its requests nor its answer.
LEMMA BackoffInv ==
  ASSUME TypeOK, Inv, NEW p \in Callers, BackoffEnds(p)
  PROVE  TypeOK' /\ Inv'
<1> USE DEF BackoffEnds, Goto, clientVars, serviceVars
<1>1. TypeOK'
  BY DEF TypeOK
<1>2. CallInv'
  BY DEF TypeOK, Inv, CallInv
<1>3. RequestInv'
  BY DEF TypeOK, Inv, RequestInv
<1>4. SameCall' /\ CreatedInv' /\ ChannelInv' /\ CreateTellsItsKey'
  BY DEF Inv, SameCall, CreatedInv, ChannelInv, CreateTellsItsKey
<1> QED
  BY <1>1, <1>2, <1>3, <1>4 DEF Inv

\* A call gives up at its deadline.
LEMMA DeadlineInv ==
  ASSUME TypeOK, Inv, NEW p \in Callers, DeadlinePasses(p)
  PROVE  TypeOK' /\ Inv'
<1> USE DEF DeadlinePasses, clientVars, serviceVars
<1>1. TypeOK'
  BY DEF TypeOK
<1>2. Inv'
  BY DEF Inv, CallInv, RequestInv, SameCall, CreatedInv, ChannelInv, CreateTellsItsKey
<1> QED
  BY <1>1, <1>2

\* Every step of a call.
LEMMA CallStepInv ==
  ASSUME TypeOK, Inv, NEW p \in Callers, CallStep(p)
  PROVE  TypeOK' /\ Inv'
<1>1. pc[p] # "idle" /\ op[p] \in Ops
  BY DEF CallStep, DeadlineOver, TakeChannel, DialFails, ClientIsClosed, Send, AnswerOk,
     Unavailable, DeadlineExceeded, AnswerError, BackoffEnds, Inv, CallInv
<1>2. CASE DeadlineOver(p)
  BY <1>1, <1>2, ReturnInv, OpFields DEF DeadlineOver, LateKey
<1>3. CASE ClientIsClosed(p)
  BY <1>1, <1>3, ReturnInv DEF ClientIsClosed
<1>4. CASE Send(p)
  <2>1. CASE Tapi \in shut
    BY <1>1, <1>4, <2>1, ReturnInv DEF Send
  <2> QED
    BY <1>4, <2>1, SendInv
<1>5. CASE AnswerOk(p)
  BY <1>1, <1>5, ReturnInv DEF AnswerOk
<1>6. CASE DeadlineExceeded(p)
  BY <1>1, <1>6, ReturnInv, OpFields DEF DeadlineExceeded, AnswerKey
<1>7. CASE AnswerError(p)
  BY <1>1, <1>7, ReturnInv DEF AnswerError
<1>8. CASE DialFails(p)
  BY <1>1, <1>8, ReturnInv DEF DialFails
<1> QED
  BY <1>2, <1>3, <1>4, <1>5, <1>6, <1>7, <1>8, TakeChannelInv, UnavailableInv, BackoffInv
     DEF CallStep

\* The channels: what Close took is shut or still to be shut.
LEMMA ChannelStepInv ==
  ASSUME TypeOK, Inv,
         \/ \E e \in Endpoints : DialGuest(e) \/ CloseChannel(e)
         \/ CloseClient
         \/ \E o \in Orgs : SetOrganizationID(o)
  PROVE  TypeOK' /\ Inv'
<1> USE DEF DialGuest, CloseChannel, CloseClient, SetOrganizationID, callVars, serviceVars
<1>1. TypeOK'
  BY DEF TypeOK
<1>2. ChannelInv'
  BY DEF Inv, TypeOK, ChannelInv, ChannelAllowed
<1>3. CallInv' /\ RequestInv' /\ SameCall' /\ CreatedInv' /\ CreateTellsItsKey'
  BY DEF Inv, CallInv, RequestInv, SameCall, CreatedInv, CreateTellsItsKey
<1> QED
  BY <1>1, <1>2, <1>3 DEF Inv

\* The service makes a keyed object only when no request with the key has
\* been performed, so every object it had was made under another.
LEMMA PerformInv ==
  ASSUME TypeOK, Inv, NEW r \in inflight, Perform(r)
  PROVE  TypeOK' /\ Inv'
<1> USE DEF Perform, clientVars, callVars
<1>1. TypeOK'
  BY DEF TypeOK
<1>2. CallInv' /\ RequestInv' /\ SameCall' /\ ChannelInv' /\ CreateTellsItsKey'
  BY DEF Inv, CallInv, RequestInv, SameCall, ChannelInv, CreateTellsItsKey
<1>3. CreatedInv'
  <2>1. CASE created' = created
    BY <2>1 DEF Inv, CreatedInv
  <2>2. CASE created' = created \cup {r} /\ ~Replayed(r)
    <3>1. \A q \in created : r.op.keyed => ~(q.op.rpc = r.op.rpc /\ q.key = r.key /\ q.org = r.org)
      BY <2>2 DEF TypeOK, Replayed
    <3>2. \A q \in created : q.op \in Ops /\ r.op \in Ops
      BY DEF TypeOK, Requests
    <3>3. \A q \in created : q.op.rpc = r.op.rpc => (q.op.keyed <=> r.op.keyed)
      BY <3>2, OpFields
    <3> QED
      BY <2>2, <3>1, <3>3 DEF Inv, CreatedInv
  <2> QED
    BY <2>1, <2>2
<1> QED
  BY <1>1, <1>2, <1>3 DEF Inv

\* Every step, of a call, of the service or of Close.
LEMMA Inductive == TypeOK /\ Inv /\ [Next]_vars => TypeOK' /\ Inv'
<1> SUFFICES ASSUME TypeOK, Inv, [Next]_vars PROVE TypeOK' /\ Inv'
  OBVIOUS
<1>1. CASE Next
  BY <1>1, BeginInv, CallStepInv, DeadlineInv, ChannelStepInv, PerformInv DEF Next
<1>2. CASE UNCHANGED vars
  <2> USE <1>2 DEF vars, clientVars, callVars, serviceVars
  <2>1. TypeOK'
    BY DEF TypeOK
  <2>2. Inv'
    BY DEF Inv, CallInv, RequestInv, SameCall, CreatedInv, ChannelInv, CreateTellsItsKey
  <2> QED
    BY <2>1, <2>2
<1> QED
  BY <1>1, <1>2

\* So it holds in every state.
LEMMA Invariant == Spec => [](TypeOK /\ Inv)
  BY InitInv, Inductive, PTL DEF Spec

(***************************************************************************)
(* The theorems.                                                           *)
(***************************************************************************)
\* The values of the variables.  TypeOK is not inductive: that a request is
\* one of Requests takes CallInv.
THEOREM TypeCorrect == Spec => []TypeOK
  BY Invariant, PTL

\* However many requests of a keyed call are in flight when its caller has
\* given up, and in whatever order the service performs them, they make one
\* object in an organization: the loop sends one key in every attempt.
THEOREM OneObject == Spec => []OneObjectPerKey
<1>1. TypeOK /\ Inv => OneObjectPerKey
  <2> SUFFICES ASSUME TypeOK, Inv, NEW a \in created, NEW b \in created,
                      a.op.keyed, a.org = b.org,
                      a.call = b.call \/ (a.op.rpc = b.op.rpc /\ a.key = b.key)
               PROVE  a = b
    BY DEF OneObjectPerKey
  <2>1. a \in sent /\ b \in sent
    BY DEF TypeOK
  <2>2. a.op.rpc = b.op.rpc /\ a.key = b.key
    BY <2>1 DEF Inv, SameCall
  <2> QED
    BY <2>2 DEF Inv, CreatedInv
<1> QED
  BY <1>1, Invariant, PTL

\* A call sends its request at most maxRetries + 1 times, and an operation
\* that is not retried once: the requests of a call differ in their attempts,
\* and those are numbers up to maxRetries.
THEOREM BoundedAttempts == Spec => []AttemptsBounded
<1>1. TypeOK /\ Inv => AttemptsBounded
  <2> SUFFICES ASSUME TypeOK, Inv, NEW n \in 1 .. MaxCalls
               PROVE  LET mine == {r \in sent : r.call = n} IN
                      /\ Cardinality(mine) <= MaxRetries + 1
                      /\ \A r \in mine : ~r.op.retried => mine = {r}
    BY DEF AttemptsBounded
  <2> DEFINE mine == {r \in sent : r.call = n}
             attempt == [r \in mine |-> r.attempt]
  <2>1. \A r \in mine : r.attempt \in 0 .. MaxRetries
    BY DEF TypeOK, Requests
  <2>2. \A r, s \in mine : r.op = s.op /\ (r.attempt = s.attempt => r = s)
    BY DEF Inv, SameCall
  <2>3. Cardinality(mine) <= MaxRetries + 1
    <3>1. attempt \in Injection(mine, 0 .. MaxRetries)
      BY <2>1, <2>2 DEF Injection, IsInjective
    <3>2. IsFiniteSet(0 .. MaxRetries) /\ Cardinality(0 .. MaxRetries) = MaxRetries + 1
      BY FS_Interval, ClientAssumption DEF ClientAssumption
    <3> QED
      BY <3>1, <3>2, FS_Injection
  <2>4. \A r \in mine : ~r.op.retried => mine = {r}
    <3> SUFFICES ASSUME NEW r \in mine, NEW s \in mine, ~r.op.retried PROVE s = r
      OBVIOUS
    <3>1. r.attempt = 0 /\ s.attempt = 0
      BY <2>2 DEF Inv, RequestInv
    <3> QED
      BY <2>2, <3>1
  <2> QED
    BY <2>3, <2>4
<1> QED
  BY <1>1, Invariant, PTL

\* A Create that ran out of time or of retries tells the caller its key.
THEOREM CreateTells == Spec => []CreateTellsItsKey
<1>1. Inv => CreateTellsItsKey
  BY DEF Inv
<1> QED
  BY <1>1, Invariant, PTL

\* A caller that was on its way to a channel when the client was closed does
\* not open one: channel() looks at closed in the lock section that dials.
THEOREM NoneAfterClose == Spec => []NoChannelAfterClose
<1>1. Inv => NoChannelAfterClose
  BY DEF Inv, ChannelInv, NoChannelAfterClose
<1> QED
  BY <1>1, Invariant, PTL
=============================================================================
