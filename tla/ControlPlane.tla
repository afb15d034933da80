----------------------------- MODULE ControlPlane -----------------------------
(***************************************************************************)
(* The client's calls to the control plane (sandboxes.go, sandbox.go,      *)
(* jobs.go, job_schedules.go, templates.go, organizations.go, previews.go) *)
(* over its cached channels (client.go).  Every operation runs the same    *)
(* loop: check the deadline, take the channel, call, and on UNAVAILABLE    *)
(* back off and go round again, at most maxRetries times, with the one     *)
(* request it built and the one idempotency key in it.  What tells the     *)
(* operations apart is the record each one has below.                      *)
(*                                                                         *)
(* UNAVAILABLE is ambiguous.  A request stays in flight after its caller   *)
(* has given up on it, and the service may still perform it at any time.   *)
(***************************************************************************)
EXTENDS Naturals, FiniteSets

CONSTANTS
  Callers,      \* goroutines that share the Client
  Ops,          \* the operations they call, of Operations
  UserKeys,     \* idempotency keys a caller may pass itself
  Orgs,         \* organizations SetOrganizationID may choose
  Endpoints,    \* endpoints with a channel; Tapi is the control plane's
  Tapi,
  MaxRetries,   \* WithMaxRetries
  MaxCalls,     \* bound: calls of the whole run
  None

(***************************************************************************)
(* The operations.  effect: "new" makes one more object (a sandbox, a      *)
(* snapshot, a run), "set" brings something into a state, "read" does      *)
(* neither.  keyed: the request carries an idempotency key.  retried: it   *)
(* is sent again after UNAVAILABLE.  told: which errors carry the key, those *)
(* mapped from an answer or also that of a deadline which is over before   *)
(* an attempt.                                                             *)
(***************************************************************************)
Op(rpc, effect, keyed) ==
  [rpc |-> rpc, effect |-> effect, keyed |-> keyed, retried |-> TRUE,
   told |-> IF keyed THEN "answer" ELSE "never"]
\* Sent once, whatever the answer; no error tells the key.
Once(rpc, effect, keyed) ==
  [rpc |-> rpc, effect |-> effect, keyed |-> keyed, retried |-> FALSE,
   told |-> "never"]

CreateSandbox       == [rpc |-> "Create", effect |-> "new", keyed |-> TRUE,
                        retried |-> TRUE, told |-> "always"]
ResumeSandbox       == Op("ResumeSandbox", "set", TRUE)
GetSandbox          == Op("GetSandbox", "read", FALSE)
ListSandboxes       == Op("ListSandboxes", "read", FALSE)
DeleteSandbox       == Op("DeleteSandbox", "set", FALSE)
CreateSnapshot      == Op("CreateSnapshot", "new", TRUE)
DeleteSnapshot      == Op("DeleteSnapshot", "set", FALSE)
RunJob              == Op("RunJob", "new", TRUE)
StartJob            == Op("StartJob", "new", TRUE)
GetJobRun           == Op("GetJobRun", "read", FALSE)
ListJobRuns         == Op("ListJobRuns", "read", FALSE)
CancelJobRun        == Op("CancelJobRun", "set", FALSE)
CreateJobSchedule   == Op("CreateJobSchedule", "new", TRUE)
GetJobSchedule      == Op("GetJobSchedule", "read", FALSE)
ListJobSchedules    == Op("ListJobSchedules", "read", FALSE)
UpdateJobSchedule   == Op("UpdateJobSchedule", "set", FALSE)
SetJobSchedulePaused == Op("SetJobSchedulePaused", "set", FALSE)
TriggerJobSchedule  == Op("TriggerJobSchedule", "new", FALSE)
DeleteJobSchedule   == Op("DeleteJobSchedule", "set", FALSE)
ListTemplates       == Op("ListTemplates", "read", FALSE)
ListOrganizations   == Op("ListOrganizations", "read", FALSE)
CreatePreview       == Once("CreatePreview", "new", TRUE)
ListPreviews        == Once("ListPreviews", "read", FALSE)
DeletePreview       == Once("DeletePreview", "set", FALSE)
ReissueCapability   == Once("ReissueCapability", "set", FALSE)

Operations ==
  {CreateSandbox, ResumeSandbox, GetSandbox, ListSandboxes, DeleteSandbox,
   CreateSnapshot, DeleteSnapshot, RunJob, StartJob, GetJobRun, ListJobRuns,
   CancelJobRun, CreateJobSchedule, GetJobSchedule, ListJobSchedules,
   UpdateJobSchedule, SetJobSchedulePaused, TriggerJobSchedule,
   DeleteJobSchedule, ListTemplates, ListOrganizations, CreatePreview,
   ListPreviews, DeletePreview, ReissueCapability}

ASSUME OpsAssumption == Ops \subseteq Operations
ASSUME ClientAssumption ==
  /\ MaxRetries \in Nat
  /\ MaxCalls \in Nat
  /\ UserKeys \cap Nat = {}
  /\ Orgs # {}
  /\ Tapi \in Endpoints
  /\ None \notin Callers /\ None \notin Ops /\ None \notin Orgs

VARIABLES
  \* the Client, under c.mu
  closed, org, dialed, shut, toClose,
  \* each caller's call: next step, operation, number, key, attempts made,
  \* deadline over
  pc, op, call, key, attempts, late,
  \* requests sent, and what the service performed: who asked, under which
  \* key and organization
  inflight, sent, performed, created,
  \* what each caller's last call returned, and the calls begun
  result, calls

clientVars  == <<closed, org, dialed, shut, toClose>>
callVars    == <<pc, op, call, key, attempts, late>>
serviceVars == <<inflight, sent, performed, created>>
vars == <<clientVars, callVars, serviceVars, result, calls>>

Keys     == UserKeys \cup (1 .. MaxCalls)
Requests == [op : Ops, call : 1 .. MaxCalls, attempt : 0 .. MaxRetries,
             key : Keys, org : Orgs]
Results  == [op : Ops \cup {None}, key : BOOLEAN,
             kind : {"none", "ok", "timeout", "connection", "closed", "other"}]
NoResult == [op |-> None, kind |-> "none", key |-> FALSE]

TypeOK ==
  /\ closed \in BOOLEAN
  /\ org \in Orgs
  /\ dialed \subseteq Endpoints /\ shut \subseteq dialed /\ toClose \subseteq dialed
  /\ pc \in [Callers -> {"idle", "top", "send", "wait", "backoff"}]
  /\ op \in [Callers -> Ops \cup {None}]
  /\ call \in [Callers -> 0 .. MaxCalls]
  /\ key \in [Callers -> Keys \cup {None}]
  /\ attempts \in [Callers -> 0 .. MaxRetries]
  /\ late \in [Callers -> BOOLEAN]
  /\ inflight \subseteq sent /\ performed \subseteq sent /\ sent \subseteq Requests
  /\ created \subseteq performed
  /\ result \in [Callers -> Results]
  /\ calls \in 0 .. MaxCalls

Init ==
  /\ closed = FALSE /\ org \in Orgs
  /\ dialed = {} /\ shut = {} /\ toClose = {}
  /\ pc = [p \in Callers |-> "idle"]
  /\ op = [p \in Callers |-> None]
  /\ call = [p \in Callers |-> 0]
  /\ key = [p \in Callers |-> None]
  /\ attempts = [p \in Callers |-> 0]
  /\ late = [p \in Callers |-> FALSE]
  /\ inflight = {} /\ sent = {} /\ performed = {} /\ created = {}
  /\ result = [p \in Callers |-> NoResult]
  /\ calls = 0

Goto(p, step) == pc' = [pc EXCEPT ![p] = step]

\* Does an error mapped from an answer carry the key.
AnswerKey(p) == op[p].told # "never"

\* The call's own state goes with it; its error may tell the key.
Return(p, kind, hasKey) ==
  /\ Goto(p, "idle")
  /\ result' = [result EXCEPT ![p] = [op |-> op[p], kind |-> kind, key |-> hasKey]]
  /\ op' = [op EXCEPT ![p] = None]
  /\ call' = [call EXCEPT ![p] = 0]
  /\ key' = [key EXCEPT ![p] = None]
  /\ attempts' = [attempts EXCEPT ![p] = 0]
  /\ late' = [late EXCEPT ![p] = FALSE]

(***************************************************************************)
(* The retry loop.                                                         *)
(***************************************************************************)
\* The request is built with the caller's key or a fresh one, and the
\* deadline starts.
Begin(p) ==
  /\ pc[p] = "idle"
  /\ calls < MaxCalls
  /\ calls' = calls + 1
  /\ call' = [call EXCEPT ![p] = calls + 1]
  /\ \E o \in Ops, k \in UserKeys \cup {calls + 1} :
       op' = [op EXCEPT ![p] = o] /\ key' = [key EXCEPT ![p] = k]
  /\ Goto(p, "top")
  /\ UNCHANGED <<clientVars, attempts, late, serviceVars, result>>

\* Variant: the loop of Create with the error of the other loops.
LateKeyForgotten(p) == FALSE

\* Does the error of a deadline found to be over before an attempt carry
\* the key: MapRPCError returns a TimeoutError as it is, without one.
LateKey(p) == op[p].told = "always"

DeadlineOver(p) ==
  /\ pc[p] = "top"
  /\ late[p]
  /\ Return(p, "timeout", LateKey(p))
  /\ UNCHANGED <<clientVars, serviceVars, calls>>

\* Variant: channel() without its look at c.closed.
ChannelEvenIfClosed == TRUE

\* channel() hands out a channel, dialing it when there is none.
ChannelAllowed == ~closed

\* tapiClient takes the control plane's channel.
TakeChannel(p) ==
  /\ pc[p] = "top"
  /\ ~late[p]
  /\ ChannelAllowed
  /\ dialed' = dialed \cup {Tapi}
  /\ Goto(p, "send")
  /\ UNCHANGED <<closed, org, shut, toClose, op, call, key, attempts, late,
                 serviceVars, result, calls>>

\* The channel cannot be made (grpc.NewClient).  Nothing of the call has been
\* sent, and the error, a ConnectionError like that of the last attempt, has
\* no key; it counts as "other" here.
DialFails(p) ==
  /\ pc[p] = "top"
  /\ ~late[p]
  /\ ChannelAllowed
  /\ Tapi \notin dialed
  /\ Return(p, "other", FALSE)
  /\ UNCHANGED <<clientVars, serviceVars, calls>>

ClientIsClosed(p) ==
  /\ pc[p] = "top"
  /\ ~late[p]
  /\ ~ChannelAllowed
  /\ Return(p, "closed", FALSE)
  /\ UNCHANGED <<clientVars, serviceVars, calls>>

\* Variant: a fresh key in every attempt.
FreshKey(p) == IF attempts[p] = 0 THEN key[p]
               ELSE CHOOSE k \in 1 .. MaxCalls : k # key[p]

\* The key of the request, built once before the loop.
RequestKey(p) == key[p]

\* One attempt: the interceptor reads the organization as the call is made.
\* On a channel that Close has shut meanwhile the call fails at once.
Send(p) ==
  /\ pc[p] = "send"
  /\ IF Tapi \in shut
     THEN Return(p, "other", FALSE) /\ UNCHANGED serviceVars
     ELSE LET r == [op |-> op[p], call |-> call[p], attempt |-> attempts[p],
                    key |-> RequestKey(p), org |-> org] IN
          /\ sent' = sent \cup {r}
          /\ inflight' = inflight \cup {r}
          /\ Goto(p, "wait")
          /\ UNCHANGED <<performed, created, result, op, call, key, attempts, late>>
  /\ UNCHANGED <<clientVars, calls>>

\* The request p waits for.
Mine(p, r) == r.call = call[p] /\ r.attempt = attempts[p]

AnswerOk(p) ==
  /\ pc[p] = "wait"
  /\ \E r \in performed : Mine(p, r)
  /\ Return(p, "ok", FALSE)
  /\ UNCHANGED <<clientVars, serviceVars, calls>>

\* Variant: one attempt too many.
MayRetryOnceMore(p) == op[p].retried /\ attempts[p] <= MaxRetries

\* Variant: every operation is retried.
MayRetryAnything(p) == attempts[p] < MaxRetries

\* IsRetryable and attempts < c.maxRetries.
MayRetry(p) == op[p].retried /\ attempts[p] < MaxRetries

Unavailable(p) ==
  /\ pc[p] = "wait"
  /\ IF MayRetry(p)
     THEN /\ attempts' = [attempts EXCEPT ![p] = @ + 1]
          /\ Goto(p, "backoff")
          /\ UNCHANGED <<op, call, key, late, result>>
     ELSE Return(p, "connection", AnswerKey(p))
  /\ UNCHANGED <<clientVars, serviceVars, calls>>

\* The context of an attempt ends with the deadline.
DeadlineExceeded(p) ==
  /\ pc[p] = "wait"
  /\ late[p]
  /\ Return(p, "timeout", AnswerKey(p))
  /\ UNCHANGED <<clientVars, serviceVars, calls>>

\* Any other status, the caller's own cancellation included.  Which of these
\* errors carry the key is left out.
AnswerError(p) ==
  /\ pc[p] = "wait"
  /\ Return(p, "other", FALSE)
  /\ UNCHANGED <<clientVars, serviceVars, calls>>

\* sleepWithDeadline, or its end by the deadline or by ctx.
BackoffEnds(p) ==
  /\ pc[p] = "backoff"
  /\ Goto(p, "top")
  /\ UNCHANGED <<clientVars, op, call, key, attempts, late, serviceVars, result,
                 calls>>

DeadlinePasses(p) ==
  /\ pc[p] # "idle"
  /\ ~late[p]
  /\ late' = [late EXCEPT ![p] = TRUE]
  /\ UNCHANGED <<clientVars, pc, op, call, key, attempts, serviceVars, result,
                 calls>>

(***************************************************************************)
(* The channel cache and the organization.                                 *)
(***************************************************************************)
\* guestClient takes the channel of a sandbox's own endpoint.
DialGuest(e) ==
  /\ e # Tapi
  /\ ChannelAllowed
  /\ e \notin dialed
  /\ dialed' = dialed \cup {e}
  /\ UNCHANGED <<closed, org, shut, toClose, callVars, serviceVars, result, calls>>

\* Close takes the channels out of the cache under c.mu ...
CloseClient ==
  /\ ~closed
  /\ closed' = TRUE
  /\ toClose' = dialed
  /\ UNCHANGED <<org, dialed, shut, callVars, serviceVars, result, calls>>

\* ... and closes them one by one after the unlock.
CloseChannel(e) ==
  /\ e \in toClose
  /\ toClose' = toClose \ {e}
  /\ shut' = shut \cup {e}
  /\ UNCHANGED <<closed, org, dialed, callVars, serviceVars, result, calls>>

SetOrganizationID(o) ==
  /\ org # o
  /\ org' = o
  /\ UNCHANGED <<closed, dialed, shut, toClose, callVars, serviceVars, result,
                 calls>>

(***************************************************************************)
(* The service: a keyed request it has performed for the organization      *)
(* makes nothing new.                                                      *)
(***************************************************************************)
Replayed(r) ==
  /\ r.op.keyed
  /\ \E q \in performed : q.op.rpc = r.op.rpc /\ q.key = r.key /\ q.org = r.org

Perform(r) ==
  /\ r \in inflight
  /\ inflight' = inflight \ {r}
  /\ performed' = performed \cup {r}
  /\ created' = IF r.op.effect # "new" \/ Replayed(r) THEN created
                ELSE created \cup {r}
  /\ UNCHANGED <<clientVars, callVars, sent, result, calls>>

-----------------------------------------------------------------------------
\* The steps of a call under way.
CallStep(p) ==
  \/ DeadlineOver(p) \/ TakeChannel(p) \/ DialFails(p) \/ ClientIsClosed(p) \/ Send(p)
  \/ AnswerOk(p) \/ Unavailable(p) \/ DeadlineExceeded(p) \/ AnswerError(p)
  \/ BackoffEnds(p)

Next ==
  \/ \E p \in Callers : Begin(p) \/ CallStep(p) \/ DeadlinePasses(p)
  \/ \E e \in Endpoints : DialGuest(e) \/ CloseChannel(e)
  \/ CloseClient
  \/ \E o \in Orgs : SetOrganizationID(o)
  \/ \E r \in inflight : Perform(r)

Spec == Init /\ [][Next]_vars

-----------------------------------------------------------------------------
\* Attempts of one keyed call, and calls a caller makes with a key it has
\* used before, make one object between them in an organization, however many
\* of their requests were performed after their caller had given up on them.
OneObjectPerKey ==
  \A a, b \in created :
    /\ a.op.keyed /\ a.org = b.org
    /\ a.call = b.call \/ (a.op.rpc = b.op.rpc /\ a.key = b.key)
    => a = b

\* One call, one object: what an operation that makes something promises.
OneObjectPerCall == \A a, b \in created : a.call = b.call => a = b

\* A call sends its request at most maxRetries + 1 times, and once when the
\* operation is not retried.
AttemptsBounded ==
  \A n \in 1 .. MaxCalls :
    LET mine == {r \in sent : r.call = n} IN
    /\ Cardinality(mine) <= MaxRetries + 1
    /\ \A r \in mine : ~r.op.retried => mine = {r}

\* A Create that ran out of time, or out of retries, tells the caller the
\* key to join the sandbox with that the service may yet make.
CreateTellsItsKey ==
  \A p \in Callers :
    /\ result[p].op = CreateSandbox
    /\ result[p].kind \in {"timeout", "connection"}
    => result[p].key

\* When Close has closed what it took from the cache, no channel is open and
\* none will be: no caller dials one behind its back.
NoChannelAfterClose == closed /\ toClose = {} => dialed = shut
=============================================================================
