---------------------------- MODULE SandboxHandle ----------------------------
(***************************************************************************)
(* A Sandbox handle shared by goroutines (sandbox.go): what it remembers   *)
(* of its sandbox, the checks its operations make against that, the        *)
(* answers they copy onto it, and the two ways a rejected capability is    *)
(* replaced: refreshCapabilityOnce for files, ReissueCapability for        *)
(* sessions and Exec.  Every lock section of s.mu is a step, so an answer  *)
(* may be stored long after the state it tells of is gone.                 *)
(*                                                                         *)
(* A guest call is one request and its answer here; the streams of Exec    *)
(* and of an attach are ExecSession's and SessionStream's.  A control call *)
(* is one exchange, retries included; ControlPlane has its loop.           *)
(***************************************************************************)
EXTENDS Naturals, ErrorMapping

CONSTANTS
  Callers,      \* goroutines that share the handle
  Ops,          \* operations they call, of HandleOps
  MaxCalls,     \* bound: calls of the whole run
  MaxEpoch,     \* bound: times the capabilities minted so far expire
  MaxMoves,     \* bound: times a resumed sandbox gets another endpoint
  None          \* no endpoint, no capability

\* A transfer, listing or stat, which reads or sends a stream, and one request
\* that changes files (unaryFileMutation).
FileOps    == {"File", "FileMutation"}
\* One request and one answer, with nothing of the client's own around them.
Unary      == {"FileMutation", "Session"}
GuestOps   == {"Exec", "Session"} \cup FileOps
ControlOps == {"Snapshot", "Delete", "Resume", "ReissueCapability",
               "CreatePreview"}
HandleOps  == GuestOps \cup ControlOps
\* ensureExecAllowed, ensureFilesAllowed, ensureSessionsAllowed, and the
\* checks Snapshot makes itself.
Guarded    == GuestOps \cup {"Snapshot"}

ASSUME HandleAssumption ==
  /\ Ops \subseteq HandleOps
  /\ MaxCalls \in Nat /\ MaxEpoch \in Nat /\ MaxMoves \in Nat
  /\ None \notin Nat

VARIABLES
  \* the handle, under s.mu, once there is one
  known, deleted, status, endpoint, capability,
  \* the service: the sandbox, its endpoint, the capabilities it accepts
  \* (those minted since the last expiry), and whether this client's Delete
  \* was performed
  sandbox, home, epoch, destroyed,
  \* each caller's call: next step, operation, run of the guest call, the
  \* endpoint and capability it goes out with, the guest's error, the control
  \* answer, times the guest performed it, begun after someone was told
  pc, op, run, wire, error, reply, done, doomed,
  \* how each caller's last call ended, and the calls begun
  said, calls,
  \* history: a Delete has returned nil, or an Exec or a file call has returned
  \* the guest's word that the sandbox is deleted
  told

handleVars  == <<known, deleted, status, endpoint, capability>>
serviceVars == <<sandbox, home, epoch, destroyed>>
callVars    == <<pc, op, run, wire, error, reply, done, doomed>>
handleSpecVars == <<handleVars, serviceVars, callVars, said, calls, told>>

\* "running" stands for every status the SDK does not compare with.
Statuses  == {"running", "suspended", "failed", "deleted"}
EndpointsOrNone == 0 .. MaxMoves \cup {None}
TokensOrNone    == 0 .. MaxEpoch \cup {None}
Steps     == {"idle", "guard", "status", "read", "readCapability", "guest",
              "performed", "erred", "sniff", "own", "reissue", "refresh", "store"}
Requests  == Ops \cup {"ReissueCapability", "GetSandbox", "none"}
NoWire    == [endpoint |-> None, capability |-> None]
NoReply   == [to |-> "none", status |-> "running", endpoint |-> None,
              capability |-> None]

HandleTypeOK ==
  /\ known \in BOOLEAN /\ deleted \in BOOLEAN
  /\ status \in Statuses
  /\ endpoint \in EndpointsOrNone /\ capability \in TokensOrNone
  /\ sandbox \in Statuses /\ home \in 0 .. MaxMoves /\ epoch \in 0 .. MaxEpoch
  /\ destroyed \in BOOLEAN
  /\ pc \in [Callers -> Steps]
  /\ op \in [Callers -> Ops \cup {"none"}]
  /\ run \in [Callers -> {1, 2}]
  /\ wire \in [Callers -> [endpoint : EndpointsOrNone, capability : TokensOrNone]]
  /\ error \in [Callers -> Errors \cup {"none"}]
  /\ reply \in [Callers -> [to : Requests, status : Statuses,
                            endpoint : EndpointsOrNone,
                            capability : TokensOrNone]]
  /\ done \in [Callers -> 0 .. 2]
  /\ doomed \in [Callers -> BOOLEAN]
  /\ said \in [Callers -> {"none", "ok", "unknown", "refused"}]
  /\ calls \in 0 .. MaxCalls
  /\ told \in BOOLEAN

\* No handle yet; the sandbox may be in any state.
HandleInit ==
  /\ known = FALSE /\ deleted = FALSE /\ status = "running"
  /\ endpoint = None /\ capability = None
  /\ sandbox \in Statuses /\ home = 0 /\ epoch = 0 /\ destroyed = FALSE
  /\ pc = [p \in Callers |-> "idle"]
  /\ op = [p \in Callers |-> "none"]
  /\ run = [p \in Callers |-> 1]
  /\ wire = [p \in Callers |-> NoWire]
  /\ error = [p \in Callers |-> "none"]
  /\ reply = [p \in Callers |-> NoReply]
  /\ done = [p \in Callers |-> 0]
  /\ doomed = [p \in Callers |-> FALSE]
  /\ said = [p \in Callers |-> "none"]
  /\ calls = 0
  /\ told = FALSE

Goto(p, step) == pc' = [pc EXCEPT ![p] = step]
\* All of a call but its next step.
callRest == <<op, run, wire, error, reply, done, doomed, said, calls, told>>

-----------------------------------------------------------------------------
(***************************************************************************)
(* The handle comes from Create or from GetSandbox.                        *)
(***************************************************************************)
NewSandbox(h) ==
  /\ ~known /\ known' = TRUE
  /\ status' = h.status /\ endpoint' = h.endpoint /\ capability' = h.capability
  /\ UNCHANGED <<deleted, serviceVars, callVars, said, calls, told>>

\* What GetSandbox tells of a sandbox in state s: of a failed one neither
\* endpoint nor capability.
SandboxFromGet(s) ==
  IF s = "failed" THEN [status |-> s, endpoint |-> None, capability |-> None]
  ELSE [status |-> s, endpoint |-> home, capability |-> epoch]

\* A Create is answered with an endpoint and a capability or it fails.
CreateReturns ==
  /\ sandbox = "running"
  /\ NewSandbox([status |-> "running", endpoint |-> home, capability |-> epoch])

GetReturns == NewSandbox(SandboxFromGet(sandbox))

-----------------------------------------------------------------------------
(***************************************************************************)
(* Calls, and what they check first.                                       *)
(***************************************************************************)
\* The caller learns that the sandbox is deleted: its Delete is done, or the
\* guest said so to its Exec or file call.  A refusal by the guard tells no
\* more than the handle knew, and of a session call's error it learns nothing
\* (mapSessionError).
TellsDeleted(p, how) ==
  \/ op[p] = "Delete" /\ how = "ok"
  \/ op[p] \in {"Exec"} \cup FileOps /\ error[p] = "SandboxDeleted"

\* said and done stay until the caller's next call.
Return(p, how) ==
  /\ Goto(p, "idle")
  /\ said' = [said EXCEPT ![p] = how]
  /\ run' = [run EXCEPT ![p] = 1]
  /\ wire' = [wire EXCEPT ![p] = NoWire]
  /\ error' = [error EXCEPT ![p] = "none"]
  /\ reply' = [reply EXCEPT ![p] = NoReply]
  /\ doomed' = [doomed EXCEPT ![p] = FALSE]
  /\ told' = (told \/ TellsDeleted(p, how))
  /\ UNCHANGED <<op, done, calls>>

Fail(p, e) == Return(p, IF e \in Ambiguous THEN "unknown" ELSE "refused")

\* Delete and the guarded operations look at s.deleted, Resume at the status.
Begin(p) ==
  /\ known
  /\ pc[p] = "idle"
  /\ calls < MaxCalls
  /\ calls' = calls + 1
  /\ \E o \in Ops :
       /\ op' = [op EXCEPT ![p] = o]
       /\ Goto(p, CASE o \in Guarded \cup {"Delete"} -> "guard"
                    [] o = "Resume" -> "status"
                    [] OTHER        -> "own")
  /\ done' = [done EXCEPT ![p] = 0]
  /\ doomed' = [doomed EXCEPT ![p] = told]
  /\ said' = [said EXCEPT ![p] = "none"]
  /\ UNCHANGED <<handleVars, serviceVars, run, wire, error, reply, told>>

\* Variant: the status alone tells.
DeletedByStatus == status = "deleted"

\* isDeleted.
IsDeleted == deleted \/ status = "deleted"

\* The locked check: a deleted sandbox is refused, deleting it again is not
\* an error.
Guard(p) ==
  /\ pc[p] = "guard"
  /\ IF op[p] = "Delete"
     THEN IF deleted THEN Return(p, "ok")
                     ELSE Goto(p, "own") /\ UNCHANGED callRest
     ELSE IF IsDeleted THEN Fail(p, "SandboxDeleted")
                       ELSE Goto(p, "status") /\ UNCHANGED callRest
  /\ UNCHANGED <<handleVars, serviceVars>>

\* LastObservedStatus, read without the lock.
CheckStatus(p) ==
  /\ pc[p] = "status"
  /\ CASE status = "failed" -> Fail(p, "SandboxFailed")
       [] status = "suspended" /\ op[p] = "Snapshot" -> Fail(p, "SandboxSuspended")
       [] OTHER ->
            /\ Goto(p, IF op[p] \in GuestOps THEN "read" ELSE "own")
            /\ UNCHANGED callRest
  /\ UNCHANGED <<handleVars, serviceVars>>

-----------------------------------------------------------------------------
(***************************************************************************)
(* Guest calls.                                                            *)
(***************************************************************************)
\* guestClient has no channel for an empty endpoint.
NoEndpoint(p) ==
  /\ pc[p] = "read" /\ endpoint = None
  /\ Fail(p, "InvalidRequest")
  /\ UNCHANGED <<handleVars, serviceVars>>

\* openStream and sessionCall take endpoint and capability together.
ReadHandle(p) ==
  /\ pc[p] = "read" /\ op[p] \in {"Exec", "Session"} /\ endpoint # None
  /\ wire' = [wire EXCEPT ![p] = [endpoint |-> endpoint, capability |-> capability]]
  /\ Goto(p, "guest")
  /\ UNCHANGED <<handleVars, serviceVars, op, run, error, reply, done, doomed, said,
                 calls, told>>

\* guestFileClient and fileCallContext take them one after the other.
ReadEndpoint(p) ==
  /\ pc[p] = "read" /\ op[p] \in FileOps /\ endpoint # None
  /\ wire' = [wire EXCEPT ![p] = [endpoint |-> endpoint, capability |-> None]]
  /\ Goto(p, "readCapability")
  /\ UNCHANGED <<handleVars, serviceVars, op, run, error, reply, done, doomed, said,
                 calls, told>>

ReadCapability(p) ==
  /\ pc[p] = "readCapability"
  /\ wire' = [wire EXCEPT ![p] = [endpoint   |-> wire[p].endpoint,
                                  capability |-> capability]]
  /\ Goto(p, "guest")
  /\ UNCHANGED <<handleVars, serviceVars, op, run, error, reply, done, doomed, said,
                 calls, told>>

Reached(p)  == wire[p].endpoint = home
Admitted(p) == Reached(p) /\ wire[p].capability = epoch

\* The guest performs the call; a suspended sandbox may wake for it.
GuestPerforms(p) ==
  /\ pc[p] = "guest"
  /\ Admitted(p) /\ sandbox \in {"running", "suspended"}
  /\ done' = [done EXCEPT ![p] = @ + 1]
  /\ wire' = [wire EXCEPT ![p] = NoWire]
  /\ Goto(p, "performed")
  /\ UNCHANGED <<handleVars, serviceVars, op, run, error, reply, doomed, said, calls, told>>

\* The call ends well; or, of the calls that read or send a stream, with an
\* error of the client's own after the guest has done its part: a local file
\* that cannot be read to its end (WriteFile is half-closed all the same),
\* a temporary file that cannot be written, synced or renamed, metadata that is
\* missing, or more data than the client keeps.
GuestOk(p) ==
  /\ pc[p] = "performed"
  /\ \/ Return(p, "ok")
     \/ op[p] = "File" /\ \E e \in {"InvalidRequest", "FilesystemLimit"} : Fail(p, e)
  /\ UNCHANGED <<handleVars, serviceVars>>

\* The answers that leave the caller in the dark.
Lost == {Answer("Unavailable"), Answer("DeadlineExceeded"), Answer("Other")}
Kind == [Exec |-> "exec", File |-> "file", FileMutation |-> "file",
         Session |-> "session"]
\* A stale capability, as each kind of call is told.
Stale == [exec    |-> Answer("PermissionDenied"),
          file    |-> [code |-> "PermissionDenied", detail |-> "capability"],
          session |-> Answer("Unauthenticated")]
\* The sandbox is not there to be called.
Down == [deleted   |-> Precondition("sandbox_deleted"),
         suspended |-> Precondition("sandbox_suspended"),
         failed    |-> Precondition("sandbox_failed")]
\* What is asked for cannot be done, or not any more.
Denied == {Answer("NotFound"), Answer("AlreadyExists"), Answer("PermissionDenied"),
           Precondition("none"), Precondition("cross_filesystem_move")}

GuestErrors(p) ==
  LET down == IF sandbox \in DOMAIN Down THEN {Down[sandbox]} ELSE {} IN
  IF pc[p] = "performed" THEN Lost \cup (IF op[p] \in Unary THEN {} ELSE down)
  ELSE Lost \cup CASE ~Reached(p)  -> {}
                   [] Reached(p) /\ ~Admitted(p) -> {Stale[Kind[op[p]]]} \cup down
                   [] OTHER -> Denied \cup down

\* The call ends with an error of MapRPCError, which is looked at later.
GuestErrs(p) ==
  /\ pc[p] \in {"guest", "performed"}
  /\ \E a \in GuestErrors(p) :
       error' = [error EXCEPT ![p] = MapRPCError(Kind[op[p]], a)]
  /\ wire' = [wire EXCEPT ![p] = NoWire]
  /\ Goto(p, "erred")
  /\ UNCHANGED <<handleVars, serviceVars, op, run, reply, done, doomed, said, calls, told>>

\* observeExecError and mapFileError note what the error tells of the
\* sandbox, mapSessionError does not.
Observe(o, e) ==
  LET gone == e = "SandboxDeleted" /\ o \in {"Exec"} \cup FileOps IN
  /\ deleted' = (deleted \/ gone)
  /\ status' = CASE gone -> "deleted"
                 [] e = "SandboxSuspended" /\ o = "Exec" -> "suspended"
                 [] OTHER -> status
  /\ UNCHANGED <<known, endpoint, capability>>

\* Variant: a session call whose answer was lost is made again as well.
RetryLost(o, e) ==
  IF o = "Session" /\ e \in Ambiguous \cup {"Authentication"} THEN "reissue"
  ELSE IF o \in FileOps /\ e = "CapabilityRejected" THEN "refresh" ELSE "idle"

\* Where an error of the first run leads.  tryRefresh looks whether the
\* capability has expired first.
AfterRejection(o, e) ==
  CASE o \in FileOps /\ e = "CapabilityRejected" -> "refresh"
    [] o = "Session" /\ e = "Authentication"  -> "reissue"
    [] o = "Exec" /\ e = "CapabilityRejected" -> "sniff"
    [] OTHER -> "idle"

HandleError(p) ==
  LET next == AfterRejection(op[p], error[p]) IN
  /\ pc[p] = "erred"
  /\ Observe(op[p], error[p])
  /\ IF run[p] = 1 /\ next # "idle"
     THEN /\ Goto(p, next)
          /\ error' = [error EXCEPT ![p] = "none"]
          /\ UNCHANGED <<op, run, wire, reply, done, doomed, said, calls, told>>
     ELSE Fail(p, error[p])
  /\ UNCHANGED serviceVars

\* jwsExpired, on the capability the handle has by now.
SniffExpiry(p) ==
  /\ pc[p] = "sniff"
  /\ IF capability # epoch
     THEN Goto(p, "reissue") /\ UNCHANGED callRest
     ELSE Fail(p, "CapabilityRejected")
  /\ UNCHANGED <<handleVars, serviceVars>>

-----------------------------------------------------------------------------
(***************************************************************************)
(* Control calls: the caller's own, a reissue or a refresh under a guest   *)
(* call.                                                                   *)
(***************************************************************************)
Asking == {"own", "reissue", "refresh"}
Request(p) == CASE pc[p] = "own"     -> op[p]
                [] pc[p] = "reissue" -> "ReissueCapability"
                [] pc[p] = "refresh" -> "GetSandbox"

Answered(p, st, ep, cap) ==
  /\ reply' = [reply EXCEPT ![p] = [to |-> Request(p), status |-> st,
                                    endpoint |-> ep, capability |-> cap]]
  /\ Goto(p, "store")
  /\ UNCHANGED <<handleVars, epoch, op, run, wire, error, done, doomed, said, calls, told>>

ServeDelete(p) ==
  /\ pc[p] \in Asking /\ Request(p) = "Delete"
  /\ sandbox' = "deleted"
  /\ destroyed' = TRUE
  /\ Answered(p, "deleted", None, None)
  /\ UNCHANGED home

\* A suspended sandbox may come back elsewhere; an answer may leave out the
\* capability, and an endpoint that has not changed.
ServeResume(p) ==
  /\ pc[p] \in Asking /\ Request(p) = "Resume"
  /\ sandbox \in {"running", "suspended"}
  /\ sandbox' = "running"
  /\ home' \in {home} \cup (IF sandbox = "suspended" /\ home < MaxMoves
                            THEN {home + 1} ELSE {})
  /\ \E ep \in {home'} \cup (IF home' = home THEN {None} ELSE {}),
        cap \in {epoch, None} : Answered(p, "running", ep, cap)
  /\ UNCHANGED destroyed

\* A capability is minted for a reissue and for a preview, or left out.
ServeCapability(p) ==
  /\ pc[p] \in Asking /\ Request(p) \in {"ReissueCapability", "CreatePreview"}
  /\ sandbox # "deleted"
  /\ \E cap \in {epoch, None} : Answered(p, "running", None, cap)
  /\ UNCHANGED <<sandbox, home, destroyed>>

ServeSnapshot(p) ==
  /\ pc[p] \in Asking /\ Request(p) = "Snapshot"
  /\ sandbox = "running"
  /\ Answered(p, "running", None, None)
  /\ UNCHANGED <<sandbox, home, destroyed>>

ServeGet(p) ==
  LET h == SandboxFromGet(sandbox) IN
  /\ pc[p] \in Asking /\ Request(p) = "GetSandbox"
  /\ Answered(p, h.status, h.endpoint, h.capability)
  /\ UNCHANGED <<sandbox, home, destroyed>>

\* Any error of the exchange, before or after the service performed it.
ControlFails(p) ==
  /\ pc[p] \in Asking \cup {"store"}
  /\ \E code \in {"Unavailable", "Unauthenticated", "NotFound", "Aborted"} :
       Fail(p, MapRPCError("plain", Answer(code)))
  /\ UNCHANGED <<handleVars, serviceVars>>

\* The answer is lost as UNAVAILABLE and the request sent again.
ControlRetries(p) ==
  /\ pc[p] = "store"
  /\ reply[p].to \in {"Delete", "Resume", "Snapshot", "GetSandbox"}
  /\ Goto(p, IF reply[p].to = "GetSandbox" THEN "refresh" ELSE "own")
  /\ reply' = [reply EXCEPT ![p] = NoReply]
  /\ UNCHANGED <<handleVars, serviceVars, op, run, wire, error, done, doomed, said,
                 calls, told>>

-----------------------------------------------------------------------------
(***************************************************************************)
(* Answers are copied onto the handle, under s.mu.                         *)
(***************************************************************************)
RunAgain(p) ==
  /\ run' = [run EXCEPT ![p] = 2]
  /\ wire' = [wire EXCEPT ![p] = NoWire]
  /\ reply' = [reply EXCEPT ![p] = NoReply]
  /\ Goto(p, "read")
  /\ UNCHANGED <<op, error, done, doomed, said, calls, told>>

StoreDelete(p) ==
  /\ pc[p] = "store" /\ reply[p].to = "Delete"
  /\ deleted' = TRUE /\ status' = "deleted"
  /\ Return(p, "ok")
  /\ UNCHANGED <<known, endpoint, capability, serviceVars>>

\* Variant: what is missing in the answer is copied too.
CopyAll(new, old) == new

\* An answer that leaves a value out leaves the handle's as it is.
IfGiven(new, old) == IF new = None THEN old ELSE new

StoreResume(p) ==
  /\ pc[p] = "store" /\ reply[p].to = "Resume"
  /\ capability' = IfGiven(reply[p].capability, capability)
  /\ endpoint' = IfGiven(reply[p].endpoint, endpoint)
  /\ status' = "running"
  /\ Return(p, "ok")
  /\ UNCHANGED <<known, deleted, serviceVars>>

\* A preview works without a new capability, a reissue does not; a preview
\* without an identity is an error that comes after the capability is kept.
StoreCapability(p) ==
  /\ pc[p] = "store" /\ reply[p].to \in {"ReissueCapability", "CreatePreview"}
  /\ capability' = IfGiven(reply[p].capability, capability)
  /\ CASE reply[p].to = "ReissueCapability" /\ reply[p].capability = None ->
            Fail(p, "InvalidRequest")
       [] op[p] \in GuestOps /\ reply[p].capability # None -> RunAgain(p)
       [] reply[p].to = "CreatePreview" ->
            Return(p, "ok") \/ Fail(p, "InvalidRequest")
       [] OTHER -> Return(p, "ok")
  /\ UNCHANGED <<known, deleted, status, endpoint, serviceVars>>

StoreSnapshot(p) ==
  /\ pc[p] = "store" /\ reply[p].to = "Snapshot"
  /\ Return(p, "ok")
  /\ UNCHANGED <<handleVars, serviceVars>>

\* refreshCapabilityOnce: of a failed sandbox only the failure is copied.
StoreRefresh(p) ==
  /\ pc[p] = "store" /\ reply[p].to = "GetSandbox"
  /\ status' = reply[p].status
  /\ IF reply[p].status = "failed"
     THEN Fail(p, "SandboxFailed") /\ UNCHANGED <<endpoint, capability>>
     ELSE /\ endpoint' = reply[p].endpoint
          /\ capability' = reply[p].capability
          /\ RunAgain(p)
  /\ UNCHANGED <<known, deleted, serviceVars>>

-----------------------------------------------------------------------------
(***************************************************************************)
(* The sandbox has a life of its own, and other clients.                   *)
(***************************************************************************)
SandboxChanges ==
  /\ sandbox' \in CASE sandbox = "running"   -> {"suspended", "failed", "deleted"}
                     [] sandbox = "suspended" -> {"running", "deleted"}
                     [] sandbox = "failed"    -> {"deleted"}
                     [] sandbox = "deleted"   -> {}
  /\ UNCHANGED <<handleVars, home, epoch, destroyed, callVars, said, calls, told>>

CapabilitiesExpire ==
  /\ epoch < MaxEpoch
  /\ epoch' = epoch + 1
  /\ UNCHANGED <<handleVars, sandbox, home, destroyed, callVars, said, calls, told>>

CallStep(p) ==
  \/ Guard(p) \/ CheckStatus(p)
  \/ NoEndpoint(p) \/ ReadHandle(p) \/ ReadEndpoint(p) \/ ReadCapability(p)
  \/ GuestPerforms(p) \/ GuestOk(p) \/ GuestErrs(p) \/ HandleError(p)
  \/ SniffExpiry(p)
  \/ ServeDelete(p) \/ ServeResume(p) \/ ServeCapability(p)
  \/ ServeSnapshot(p) \/ ServeGet(p) \/ ControlFails(p) \/ ControlRetries(p)
  \/ StoreDelete(p) \/ StoreResume(p) \/ StoreCapability(p)
  \/ StoreSnapshot(p) \/ StoreRefresh(p)

HandleStep ==
  \/ \E p \in Callers : Begin(p) \/ CallStep(p)
  \/ SandboxChanges \/ CapabilitiesExpire

HandleNext == CreateReturns \/ GetReturns \/ HandleStep
HandleSpec == HandleInit /\ [][HandleNext]_handleSpecVars

-----------------------------------------------------------------------------
(***************************************************************************)
(* The properties.                                                         *)
(***************************************************************************)
\* Once a goroutine's Delete has returned nil, or its Exec or file call has
\* returned the guest's word that the sandbox is deleted, no guarded call and no
\* Delete that any goroutine begins later sends anything, although a Resume, a
\* refresh or a suspended error that comes late overwrites the status of the
\* handle.  Of a session call told so nothing of the kind holds, nor of a call
\* that only the status made the guard refuse.
DeletedForGood ==
  \A p \in Callers : doomed[p] /\ op[p] \in Guarded \cup {"Delete"} =>
    pc[p] = "guard"

\* In whatever order answers are stored, the handle calls its sandbox deleted
\* or failed only when it is: it never refuses for good a sandbox that works.
NoFalseVerdict ==
  known => /\ IsDeleted => sandbox = "deleted"
           /\ status = "failed" => sandbox \in {"failed", "deleted"}

\* A guest call goes out with an endpoint and a capability, also on a handle
\* that began without them and after answers that left them out.
GuestCallsAddressed ==
  \A p \in Callers : pc[p] = "guest" =>
    wire[p].endpoint # None /\ wire[p].capability # None

\* The guest performs a file or a session call at most once, although the
\* SDK makes it twice after a rejection.
PerformedOnce ==
  \A p \in Callers : op[p] \in FileOps \cup {"Session"} => done[p] <= 1

\* A session call, MkdirFile, RemoveFile or MoveFile that returns an error which
\* names a definite reason was not performed: SessionExists, for one, never
\* tells a caller of the session its own lost first attempt created, and
\* RemoteFileExists never of the directory its own first request made.  It does
\* not hold of transfers, whose local errors come after the guest's part.
RefusedMeansNotDone ==
  \A p \in Callers : said[p] = "refused" /\ op[p] \in Unary => done[p] = 0
=============================================================================
