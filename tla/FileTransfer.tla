----------------------------- MODULE FileTransfer -----------------------------
(***************************************************************************)
(* The file operations of a Sandbox handle (files.go).  Every operation    *)
(* is a call to the guest under a capability; when the guest rejects the   *)
(* capability, withFileCapabilityRefresh fetches a new one and runs the    *)
(* operation's closure a second time.  What the closure keeps between its  *)
(* two runs, the position in a local file or the bytes of a temporary one, *)
(* is what can go wrong.                                                   *)
(*                                                                         *)
(* One remote path, one local destination for each caller; contents are    *)
(* sequences of chunks <<call that wrote it, index>>.  Directory entries   *)
(* stand for chunks in ListFiles.                                          *)
(***************************************************************************)
EXTENDS Naturals, Sequences

CONSTANTS
  Callers,      \* goroutines that share the Sandbox handle
  Ops,          \* operations they call, of FileOps
  PayloadLen,   \* chunks of what a call writes or uploads
  ReadLimit,    \* WithFilesystemReadLimit, in chunks
  MaxCalls      \* bound: calls of the whole run

Streamed  == {"WriteFile", "UploadFile"}
Fetched   == {"ReadFile", "DownloadFile", "ListFiles"}
Unary     == {"StatFile", "Mutate"}     \* Mutate: MkdirFile, RemoveFile, MoveFile
FileOps   == Streamed \cup Fetched \cup Unary

ASSUME FileAssumption ==
  /\ Ops \subseteq FileOps
  /\ PayloadLen \in Nat /\ ReadLimit \in Nat /\ MaxCalls \in Nat

VARIABLES
  \* the handle, under s.mu
  deleted, status, capability,
  \* capabilities the guest accepts, the remote file, all the remote files
  \* there have been, and the mutations the guest performed
  valid, remote, published, applied,
  \* each caller's call: next step, operation, number, run of the closure,
  \* position in what it sends, bytes received (the temporary file of a
  \* download), capability fetched, whether the temporary file exists
  pc, op, call, attempt, cursor, data, reply, temp,
  \* its stream to the guest
  rpc,
  \* what its last call returned, its download destination, the calls begun
  result, dest, calls

handleVars == <<deleted, status, capability>>
guestVars  == <<valid, remote, published, applied>>
callVars   == <<pc, op, call, attempt, cursor, data, reply, temp>>
vars == <<handleVars, guestVars, callVars, rpc, result, dest, calls>>

CallNumbers == 0 .. MaxCalls
Tokens      == CallNumbers              \* 0, or the call that fetched it
Chunks      == CallNumbers \X (0 .. PayloadLen + 1)
Files       == [op : Ops \cup {"none"}, call : CallNumbers, chunks : Seq(Chunks)]
Ended       == {"ok", "rejected", "deleted", "error"}
NoRpc       == [state |-> "none", token |-> 0, got |-> <<>>, snap |-> <<>>,
                half |-> FALSE]
NoResult    == [kind |-> "none", op |-> "none", call |-> 0, bytes |-> <<>>]
OldRemote   == [op |-> "none", call |-> 0, chunks |-> <<<<0, 1>>>>]
OldLocal    == <<<<0, 0>>>>              \* which nothing at the remote path has

\* What call n writes, or finds in its local file.
Payload(n) == [i \in 1 .. PayloadLen |-> <<n, i>>]

TypeOK ==
  /\ deleted \in BOOLEAN
  /\ status \in {"running", "deleted", "failed"}
  /\ capability \in Tokens /\ valid \subseteq Tokens
  /\ remote \in published /\ published \subseteq Files
  /\ applied \subseteq CallNumbers \X {1, 2}
  /\ pc \in [Callers -> {"idle", "attempt", "send", "abandon", "wait", "recv",
                         "refresh", "store", "sync", "rename"}]
  /\ op \in [Callers -> Ops \cup {"none"}]
  /\ call \in [Callers -> CallNumbers]
  /\ attempt \in [Callers -> {1, 2}]
  /\ cursor \in [Callers -> 0 .. PayloadLen]
  /\ data \in [Callers -> Seq(Chunks)]
  /\ reply \in [Callers -> Tokens]
  /\ temp \in [Callers -> BOOLEAN]
  /\ rpc \in [Callers -> [state : {"none", "open", "accepted"} \cup Ended,
                          token : Tokens, got : Seq(Chunks), snap : Seq(Chunks),
                          half : BOOLEAN]]
  /\ result \in [Callers -> [kind : {"none", "ok", "error"},
                             op : Ops \cup {"none"}, call : CallNumbers,
                             bytes : Seq(Chunks)]]
  /\ dest \in [Callers -> Seq(Chunks)]
  /\ calls \in CallNumbers

Init ==
  /\ deleted = FALSE /\ status = "running" /\ capability = 0
  /\ valid = {0} /\ remote = OldRemote /\ published = {OldRemote} /\ applied = {}
  /\ pc = [p \in Callers |-> "idle"]
  /\ op = [p \in Callers |-> "none"]
  /\ call = [p \in Callers |-> 0]
  /\ attempt = [p \in Callers |-> 1]
  /\ cursor = [p \in Callers |-> 0]
  /\ data = [p \in Callers |-> <<>>]
  /\ reply = [p \in Callers |-> 0]
  /\ temp = [p \in Callers |-> FALSE]
  /\ rpc = [p \in Callers |-> NoRpc]
  /\ result = [p \in Callers |-> NoResult]
  /\ dest = [p \in Callers |-> OldLocal]
  /\ calls = 0

Goto(p, step) == pc' = [pc EXCEPT ![p] = step]

-----------------------------------------------------------------------------
(***************************************************************************)
(* A call and the two runs of its closure.                                 *)
(***************************************************************************)
\* The call returns; its stream is cancelled with its context, and the deferred
\* call of DownloadFile removes a temporary file that was not renamed.
Return(p, res) ==
  /\ Goto(p, "idle")
  /\ result' = [result EXCEPT ![p] = res]
  /\ temp' = [temp EXCEPT ![p] = FALSE]
  /\ rpc' = [rpc EXCEPT ![p] = NoRpc]
  /\ op' = [op EXCEPT ![p] = "none"]
  /\ call' = [call EXCEPT ![p] = 0]
  /\ attempt' = [attempt EXCEPT ![p] = 1]
  /\ cursor' = [cursor EXCEPT ![p] = 0]
  /\ data' = [data EXCEPT ![p] = <<>>]
  /\ reply' = [reply EXCEPT ![p] = 0]

Succeed(p, bytes) ==
  Return(p, [kind |-> "ok", op |-> op[p], call |-> call[p], bytes |-> bytes])

\* Which error it is, is left out.
Fail(p) == Return(p, [NoResult EXCEPT !.kind = "error"])

\* UploadFile has opened its file, DownloadFile has made its temporary one.
Begin(p) ==
  /\ pc[p] = "idle"
  /\ calls < MaxCalls
  /\ calls' = calls + 1
  /\ call' = [call EXCEPT ![p] = calls + 1]
  /\ \E o \in Ops :
       /\ op' = [op EXCEPT ![p] = o]
       /\ temp' = [temp EXCEPT ![p] = (o = "DownloadFile")]
  /\ Goto(p, "attempt")
  /\ UNCHANGED <<handleVars, guestVars, attempt, cursor, data, reply, rpc, result,
                 dest>>

\* ensureFilesAllowed.
FilesAllowed == ~deleted /\ status \notin {"deleted", "failed"}

\* Refused before the first run of the closure.  The second is not checked.
Refused(p) ==
  /\ pc[p] = "attempt" /\ attempt[p] = 1
  /\ ~FilesAllowed
  /\ Fail(p)
  /\ UNCHANGED <<handleVars, guestVars, dest, calls>>

\* Variant: the temporary file is not truncated.
DataKept(p) == data[p]

\* The bytes a run of the closure starts with: a fresh slice, or the
\* temporary file truncated.
DataAtStart(p) == <<>>

\* Variant: the slice of WriteFile is consumed like a file.
CursorKept(p) == cursor[p]

\* The slice of WriteFile is sent from its start; the local file of an upload
\* is where the last run left it.
CursorAtStart(p) == IF op[p] = "WriteFile" THEN 0 ELSE cursor[p]

\* A run opens its stream with the handle's capability.
Attempt(p) ==
  /\ pc[p] = "attempt"
  /\ attempt[p] = 1 => FilesAllowed
  /\ rpc' = [rpc EXCEPT ![p] = [state |-> "open", token |-> capability,
                                got |-> <<>>, snap |-> <<>>, half |-> FALSE]]
  /\ data' = [data EXCEPT ![p] = DataAtStart(p)]
  /\ cursor' = [cursor EXCEPT ![p] = CursorAtStart(p)]
  /\ Goto(p, CASE op[p] \in Streamed -> "send"
               [] op[p] \in Fetched  -> "recv"
               [] op[p] \in Unary    -> "wait")
  /\ UNCHANGED <<handleVars, guestVars, op, call, attempt, reply, temp, result,
                 dest, calls>>

\* No channel to the guest, or no stream on it.
AttemptFails(p) ==
  /\ pc[p] = "attempt"
  /\ Fail(p)
  /\ UNCHANGED <<handleVars, guestVars, dest, calls>>

-----------------------------------------------------------------------------
(***************************************************************************)
(* writeFileStream.                                                        *)
(***************************************************************************)
SendChunk(p) ==
  /\ pc[p] = "send"
  /\ rpc[p].state \notin Ended
  /\ cursor[p] < PayloadLen
  /\ rpc' = [rpc EXCEPT ![p].got = Append(@, Payload(call[p])[cursor[p] + 1])]
  /\ cursor' = [cursor EXCEPT ![p] = @ + 1]
  /\ UNCHANGED <<handleVars, guestVars, pc, op, call, attempt, data, reply, temp,
                 result, dest, calls>>

\* Send on a stream the guest has ended fails with io.EOF, and the status
\* that CloseAndRecv then reads is thrown away: a rejection is not seen as one.
SendFails(p) ==
  /\ pc[p] = "send"
  /\ rpc[p].state \in Ended
  /\ cursor[p] < PayloadLen
  /\ Fail(p)
  /\ UNCHANGED <<handleVars, guestVars, dest, calls>>

\* A local read fails: CloseAndRecv half-closes the stream as at its end.
LocalReadFails(p) ==
  /\ pc[p] = "send" /\ op[p] = "UploadFile"
  /\ rpc' = [rpc EXCEPT ![p].half = TRUE]
  /\ Goto(p, "abandon")
  /\ UNCHANGED <<handleVars, guestVars, op, call, attempt, cursor, data, reply,
                 temp, result, dest, calls>>

Abandon(p) ==
  /\ pc[p] = "abandon"
  /\ rpc[p].state \in Ended
  /\ Fail(p)
  /\ UNCHANGED <<handleVars, guestVars, dest, calls>>

SendEnds(p) ==
  /\ pc[p] = "send"
  /\ cursor[p] = PayloadLen
  /\ rpc' = [rpc EXCEPT ![p].half = TRUE]
  /\ Goto(p, "wait")
  /\ UNCHANGED <<handleVars, guestVars, op, call, attempt, cursor, data, reply,
                 temp, result, dest, calls>>

AnswerOk(p) ==
  /\ pc[p] = "wait"
  /\ rpc[p].state = "ok"
  /\ Succeed(p, <<>>)
  /\ UNCHANGED <<handleVars, guestVars, dest, calls>>

-----------------------------------------------------------------------------
(***************************************************************************)
(* ReadFile, ListFiles, DownloadFile.                                      *)
(***************************************************************************)
Received(p) == Len(rpc[p].got)

\* Variant: the limit is compared before the chunk is counted.
OverLimitLate(p) == op[p] = "ReadFile" /\ Len(data[p]) > ReadLimit

\* The next chunk would go over the limit of ReadFile.
OverLimit(p) == op[p] = "ReadFile" /\ Len(data[p]) + 1 > ReadLimit

RecvChunk(p) ==
  /\ pc[p] = "recv"
  /\ rpc[p].state = "accepted" /\ Received(p) < Len(rpc[p].snap)
  /\ LET chunk == rpc[p].snap[Received(p) + 1] IN
     IF OverLimit(p)
     THEN Fail(p)
     ELSE /\ data' = [data EXCEPT ![p] = Append(@, chunk)]
          /\ rpc' = [rpc EXCEPT ![p].got = Append(@, chunk)]
          /\ UNCHANGED <<pc, op, call, attempt, cursor, reply, temp, result>>
  /\ UNCHANGED <<handleVars, guestVars, dest, calls>>

RecvEnds(p) ==
  /\ pc[p] = "recv"
  /\ rpc[p].state = "accepted" /\ Received(p) = Len(rpc[p].snap)
  /\ IF op[p] = "DownloadFile"
     THEN /\ Goto(p, "sync")
          /\ rpc' = [rpc EXCEPT ![p] = NoRpc]
          /\ UNCHANGED <<op, call, attempt, cursor, data, reply, temp, result>>
     ELSE Succeed(p, data[p])
  /\ UNCHANGED <<handleVars, guestVars, dest, calls>>

\* A write, the sync, the close or the rename of the temporary file fails.
TempFails(p) ==
  /\ temp[p]
  /\ pc[p] \in {"recv", "sync", "rename"}
  /\ Fail(p)
  /\ UNCHANGED <<handleVars, guestVars, dest, calls>>

SyncTemp(p) ==
  /\ pc[p] = "sync"
  /\ Goto(p, "rename")
  /\ UNCHANGED <<handleVars, guestVars, op, call, attempt, cursor, data, reply,
                 temp, rpc, result, dest, calls>>

RenameTemp(p) ==
  /\ pc[p] = "rename"
  /\ dest' = [dest EXCEPT ![p] = data[p]]
  /\ Succeed(p, <<>>)
  /\ UNCHANGED <<handleVars, guestVars, calls>>

-----------------------------------------------------------------------------
(***************************************************************************)
(* withFileCapabilityRefresh.                                              *)
(***************************************************************************)
\* Variant: an ambiguous error is tried again too.
RefreshableOrAmbiguous(state) == state \in {"rejected", "error"}

\* Only a rejected capability is worth a second run.
Refreshable(state) == state = "rejected"

\* Variant: every rejection is refreshed.
MayRefreshAgain(p) == Refreshable(rpc[p].state)

MayRefresh(p) == attempt[p] = 1 /\ Refreshable(rpc[p].state)

\* mapFileError notes that the sandbox is gone.
AttemptError(p) ==
  /\ pc[p] \in {"wait", "recv"}
  /\ rpc[p].state \in Ended \ {"ok"}
  /\ IF rpc[p].state = "deleted"
     THEN deleted' = TRUE /\ status' = "deleted"
     ELSE UNCHANGED <<deleted, status>>
  /\ IF MayRefresh(p)
     THEN /\ Goto(p, "refresh")
          /\ rpc' = [rpc EXCEPT ![p] = NoRpc]
          /\ UNCHANGED <<op, call, attempt, cursor, data, reply, temp, result>>
     ELSE Fail(p)
  /\ UNCHANGED <<capability, guestVars, dest, calls>>

\* refreshCapabilityOnce: GetSandbox answers with a new capability ...
Refresh(p) ==
  /\ pc[p] = "refresh"
  /\ valid' = valid \cup {call[p]}
  /\ reply' = [reply EXCEPT ![p] = call[p]]
  /\ Goto(p, "store")
  /\ UNCHANGED <<handleVars, remote, published, applied, op, call, attempt, cursor,
                 data, temp, rpc, result, dest, calls>>

\* ... which is copied onto the handle, and the closure runs again ...
StoreRefresh(p) ==
  /\ pc[p] = "store"
  /\ capability' = reply[p]
  /\ status' = "running"
  /\ attempt' = [attempt EXCEPT ![p] = @ + 1]
  /\ Goto(p, "attempt")
  /\ UNCHANGED <<deleted, guestVars, op, call, cursor, data, reply, temp, rpc,
                 result, dest, calls>>

\* ... or the sandbox has failed, or there is no answer.
RefreshFails(p) ==
  /\ pc[p] = "refresh"
  /\ status' \in {status, "failed"}
  /\ Fail(p)
  /\ UNCHANGED <<deleted, capability, guestVars, dest, calls>>

-----------------------------------------------------------------------------
(***************************************************************************)
(* The guest, and the context of a stream.                                 *)
(***************************************************************************)
Answer(p, state) == rpc' = [rpc EXCEPT ![p].state = state]

GuestAccepts(p) ==
  /\ rpc[p].state = "open" /\ rpc[p].token \in valid
  /\ rpc' = [rpc EXCEPT ![p] = [state |-> "accepted", token |-> rpc[p].token,
                                got |-> rpc[p].got, snap |-> remote.chunks,
                                half |-> rpc[p].half]]
  /\ UNCHANGED <<handleVars, guestVars, callVars, result, dest, calls>>

\* At the start, or when the capability expires under the stream.
GuestRejects(p) ==
  /\ rpc[p].state \in {"open", "accepted"} /\ rpc[p].token \notin valid
  /\ Answer(p, "rejected")
  /\ UNCHANGED <<handleVars, guestVars, callVars, result, dest, calls>>

GuestDeleted(p) ==
  /\ rpc[p].state = "open"
  /\ Answer(p, "deleted")
  /\ UNCHANGED <<handleVars, guestVars, callVars, result, dest, calls>>

\* The guest publishes what it has when the stream is half-closed.
GuestPublishes(p) ==
  /\ op[p] \in Streamed
  /\ rpc[p].state = "accepted" /\ rpc[p].half
  /\ remote' = [op |-> op[p], call |-> call[p], chunks |-> rpc[p].got]
  /\ published' = published \cup {remote'}
  /\ Answer(p, "ok")
  /\ UNCHANGED <<handleVars, valid, applied, callVars, result, dest, calls>>

GuestAnswers(p) ==
  /\ op[p] \in Unary
  /\ rpc[p].state = "accepted"
  /\ applied' = IF op[p] = "Mutate" THEN applied \cup {<<call[p], attempt[p]>>}
                ELSE applied
  /\ Answer(p, "ok")
  /\ UNCHANGED <<handleVars, valid, remote, published, callVars, result, dest,
                 calls>>

\* Variant: the stream runs under ctx, without the client's timeout.
NoFileDeadline(p) == FALSE

StreamOpen(p) == rpc[p].state # "none" /\ rpc[p].state \notin {"error", "rejected"}

\* The context of fileCallContext ends, or the connection does: the answer
\* is lost if there was one.
ContextEnds(p) ==
  /\ StreamOpen(p)
  /\ Answer(p, "error")
  /\ UNCHANGED <<handleVars, guestVars, callVars, result, dest, calls>>

CapabilityExpires(t) ==
  /\ t \in valid
  /\ valid' = valid \ {t}
  /\ UNCHANGED <<handleVars, remote, published, applied, callVars, rpc, result,
                 dest, calls>>

-----------------------------------------------------------------------------
CallStep(p) ==
  \/ Refused(p) \/ Attempt(p) \/ AttemptFails(p)
  \/ SendChunk(p) \/ SendFails(p) \/ LocalReadFails(p) \/ Abandon(p)
  \/ SendEnds(p) \/ AnswerOk(p)
  \/ RecvChunk(p) \/ RecvEnds(p) \/ TempFails(p) \/ SyncTemp(p) \/ RenameTemp(p)
  \/ AttemptError(p) \/ Refresh(p) \/ StoreRefresh(p) \/ RefreshFails(p)

GuestStep(p) ==
  \/ GuestAccepts(p) \/ GuestRejects(p) \/ GuestDeleted(p)
  \/ GuestPublishes(p) \/ GuestAnswers(p)

Next ==
  \/ \E p \in Callers : Begin(p) \/ CallStep(p) \/ GuestStep(p) \/ ContextEnds(p)
  \/ \E t \in Tokens : CapabilityExpires(t)

Spec == Init /\ [][Next]_vars

\* What a goroutine does without waiting for the guest.  A Send may wait until
\* the guest reads, a Recv until it writes, and nothing has to fail.
OwnStep(p) ==
  \/ Refused(p) \/ Attempt(p)
  \/ SendFails(p) \/ Abandon(p) \/ SendEnds(p) \/ AnswerOk(p)
  \/ SyncTemp(p) \/ RenameTemp(p)
  \/ AttemptError(p) \/ Refresh(p) \/ StoreRefresh(p) \/ RefreshFails(p)

(***************************************************************************)
(* Goroutines run and deadlines pass; the guest need not read nor answer,  *)
(* so a Send may wait until the context ends.                              *)
(***************************************************************************)
FairSpec == Spec /\ \A p \in Callers : WF_vars(OwnStep(p)) /\ WF_vars(ContextEnds(p))

-----------------------------------------------------------------------------
\* WriteFile replaces the remote file by the whole of its bytes or leaves it
\* alone, however its two runs, the capability and other callers interleave.
WritesWhole ==
  \A f \in published : f.op = "WriteFile" => f.chunks = Payload(f.call)

RemoteContents == {f.chunks : f \in published}

\* The destination of a download is what it was, or the whole of a file that
\* was at the remote path; never a prefix nor the bytes of two runs.
DownloadsWhole == \A p \in Callers : dest[p] = OldLocal \/ dest[p] \in RemoteContents

\* ReadFile never holds more than its limit, and returns a whole file.
ReadsBounded ==
  \A p \in Callers :
    /\ op[p] = "ReadFile" => Len(data[p]) <= ReadLimit
    /\ result[p].kind = "ok" /\ result[p].op \in {"ReadFile", "ListFiles"}
       => result[p].bytes \in RemoteContents

\* The guest performs a mutation at most once for a call: what may have been
\* performed is not sent again.
MutatesOnce == \A a, b \in applied : a[1] = b[1] => a = b

\* An upload that returned nil has put the local file at the remote path.
UploadsWhole ==
  \A p \in Callers :
    result[p].kind = "ok" /\ result[p].op = "UploadFile" =>
    \E f \in published : f.call = result[p].call /\ f.chunks = Payload(f.call)

\* Every call returns, although the guest may never read nor answer: the
\* deadline of its stream's context frees a Send or a Recv that waits.
CallsReturn == \A p \in Callers : pc[p] # "idle" ~> pc[p] = "idle"
=============================================================================
