-------------------------- MODULE FileTransferProofs --------------------------
(* Theorems about FileTransfer and its contract AtomicFiles, for any callers, *)
(* operations, payloads and limits.                                           *)
EXTENDS FileRefinement, SequenceTheorems, TLAPS

(***************************************************************************)
(* Streams and results.                                                    *)
(***************************************************************************)
Rpcs == [state : {"none", "open", "accepted"} \cup Ended, token : Tokens,
         got : Seq(Chunks), snap : Seq(Chunks), half : BOOLEAN]
Results == [kind : {"none", "ok", "error"}, op : Ops \cup {"none"}, call : CallNumbers,
            bytes : Seq(Chunks)]

\* A stream with one field changed.
LEMMA WithField ==
  ASSUME NEW r \in Rpcs, NEW x
  PROVE  /\ [r EXCEPT !.state = x] = [state |-> x, token |-> r.token, got |-> r.got,
                                      snap |-> r.snap, half |-> r.half]
         /\ [r EXCEPT !.got = x] = [state |-> r.state, token |-> r.token, got |-> x,
                                    snap |-> r.snap, half |-> r.half]
         /\ [r EXCEPT !.half = x] = [state |-> r.state, token |-> r.token, got |-> r.got,
                                     snap |-> r.snap, half |-> x]
BY DEF Rpcs

(***************************************************************************)
(* The inductive invariant.                                                *)
(***************************************************************************)
\* A call is where its operation may take it, under a number of its own.
CallOf(p) ==
  /\ pc[p] = "idle" <=> op[p] = "none"
  /\ pc[p] = "idle" => call[p] = 0 /\ data[p] = <<>> /\ ~temp[p]
  /\ pc[p] # "idle" => call[p] \in 1 .. calls
  /\ pc[p] = "send" => op[p] \in Streamed
  /\ pc[p] = "abandon" => op[p] = "UploadFile"
  /\ pc[p] = "wait" => op[p] \in Streamed \cup Unary
  /\ pc[p] = "recv" => op[p] \in Fetched
  /\ pc[p] \in {"sync", "rename"} => op[p] = "DownloadFile"
  /\ pc[p] \in {"refresh", "store"} => attempt[p] = 1
  /\ pc[p] \notin {"send", "abandon", "wait", "recv"} => rpc[p].state = "none"

NumberInv ==
  /\ \A p, q \in Callers : pc[p] # "idle" /\ call[p] = call[q] => p = q
  /\ \A f \in published : f.call \in 0 .. calls
  /\ \A a \in applied : a[1] \in 1 .. calls

\* What is on a stream to the guest is a piece of the payload that ends at the
\* cursor: of WriteFile's, all up to there.
SentOf(p) ==
  pc[p] \in {"send", "abandon", "wait"} /\ op[p] \in Streamed =>
    /\ Len(rpc[p].got) <= cursor[p]
    /\ \A i \in 1 .. Len(rpc[p].got) :
         rpc[p].got[i] = <<call[p], cursor[p] - Len(rpc[p].got) + i>>
    /\ op[p] = "WriteFile" =>
         Len(rpc[p].got) = cursor[p] /\ (rpc[p].half => cursor[p] = PayloadLen)
    /\ rpc[p].state = "ok" => \E f \in published : f.call = call[p]

\* What has been received is the beginning of one version of the remote file.
ReceivedOf(p) ==
  /\ pc[p] = "recv" =>
       /\ data[p] = rpc[p].got
       /\ Len(rpc[p].got) <= Len(rpc[p].snap)
       /\ \A i \in 1 .. Len(rpc[p].got) : rpc[p].got[i] = rpc[p].snap[i]
       /\ rpc[p].state = "open" => rpc[p].got = <<>>
  /\ rpc[p].state = "accepted" => rpc[p].snap \in RemoteContents
  /\ pc[p] \in {"sync", "rename"} => data[p] \in RemoteContents
  /\ op[p] = "ReadFile" => Len(data[p]) <= ReadLimit
  /\ result[p].kind = "ok" /\ result[p].op \in {"ReadFile", "ListFiles"} =>
       result[p].bytes \in RemoteContents

\* A mutation that has been performed is not run again.
AppliedOf(p) ==
  \A k \in {1, 2} : pc[p] # "idle" /\ <<call[p], k>> \in applied =>
    k = attempt[p] /\ pc[p] = "wait" /\ rpc[p].state \in {"ok", "error"}

CallerInv(p) == CallOf(p) /\ SentOf(p) /\ ReceivedOf(p) /\ AppliedOf(p)

FileInv ==
  /\ \A p \in Callers : CallerInv(p)
  /\ NumberInv /\ WritesWhole /\ DownloadsWhole /\ MutatesOnce

\* Before the first call.
LEMMA InitInv == Init => TypeOK /\ FileInv
<1> SUFFICES ASSUME Init PROVE TypeOK /\ FileInv
  OBVIOUS
<1>1. <<<<0, 0>>>> \in Seq(Chunks) /\ <<<<0, 1>>>> \in Seq(Chunks)
  <2>1. <<0, 0>> \in Chunks /\ <<0, 1>> \in Chunks
    BY FileAssumption DEF Chunks, CallNumbers
  <2> QED
    BY <2>1
<1>2. OldRemote \in Files
  BY <1>1, FileAssumption DEF OldRemote, Files, CallNumbers
<1>3. NoRpc \in Rpcs /\ NoResult \in Results
  BY FileAssumption DEF NoRpc, Rpcs, NoResult, Results, Tokens, CallNumbers
<1>4. rpc \in [Callers -> Rpcs] /\ result \in [Callers -> Results]
  BY <1>3 DEF Init
<1>5. /\ pc \in [Callers -> {"idle"}] /\ op \in [Callers -> {"none"}]
      /\ call \in [Callers -> CallNumbers] /\ attempt \in [Callers -> {1, 2}]
      /\ cursor \in [Callers -> 0 .. PayloadLen] /\ data \in [Callers -> Seq(Chunks)]
      /\ reply \in [Callers -> Tokens] /\ temp \in [Callers -> BOOLEAN]
      /\ dest \in [Callers -> Seq(Chunks)]
  BY <1>1, FileAssumption DEF Init, CallNumbers, Tokens, OldLocal
<1>6. /\ remote \in published /\ published \subseteq Files
      /\ applied \subseteq CallNumbers \X {1, 2}
  BY <1>2 DEF Init
<1>7. capability \in Tokens /\ valid \subseteq Tokens /\ calls \in CallNumbers
  BY FileAssumption DEF Init, Tokens, CallNumbers
<1>8. pc \in [Callers -> {"idle", "attempt", "send", "abandon", "wait", "recv",
                          "refresh", "store", "sync", "rename"}]
      /\ op \in [Callers -> Ops \cup {"none"}]
  BY <1>5
<1>9. TypeOK
  BY <1>4, <1>5, <1>6, <1>7, <1>8 DEF Init, TypeOK, Rpcs, Results
<1>10. ASSUME NEW p \in Callers PROVE CallerInv(p)
  BY FileAssumption DEF Init, CallerInv, CallOf, SentOf, ReceivedOf, AppliedOf, NoRpc, NoResult
<1>11. NumberInv /\ WritesWhole /\ DownloadsWhole /\ MutatesOnce
  BY FileAssumption DEF Init, NumberInv, WritesWhole, DownloadsWhole, MutatesOnce,
     OldRemote, OldLocal
<1> QED
  BY <1>9, <1>10, <1>11 DEF FileInv

(***************************************************************************)
(* The steps that end a call, as one.                                      *)
(***************************************************************************)
Returns(p) ==
  /\ \E res \in Results :
       /\ Return(p, res)
       /\ res.kind = "ok" /\ res.op \in {"ReadFile", "ListFiles"} =>
            res.bytes \in RemoteContents
  /\ \/ UNCHANGED dest
     \/ data[p] \in RemoteContents /\ dest' = [dest EXCEPT ![p] = data[p]]
  /\ deleted' \in BOOLEAN /\ status' \in {"running", "deleted", "failed"}
  /\ UNCHANGED <<capability, guestVars, calls>>

\* What is neither Begin nor the end of a call.
Goes(p) ==
  \/ Attempt(p) \/ SendChunk(p) \/ LocalReadFails(p) \/ SendEnds(p)
  \/ RecvChunk(p) /\ ~OverLimit(p)
  \/ RecvEnds(p) /\ op[p] = "DownloadFile"
  \/ SyncTemp(p)
  \/ AttemptError(p) /\ MayRefresh(p)
  \/ Refresh(p) \/ StoreRefresh(p)

\* A call that fails is one that ends.
LEMMA FailReturns ==
  ASSUME TypeOK, NEW p \in Callers, Fail(p), UNCHANGED <<capability, guestVars, calls, dest>>,
         deleted' \in BOOLEAN, status' \in {"running", "deleted", "failed"}
  PROVE  Returns(p)
<1> DEFINE res == [NoResult EXCEPT !.kind = "error"]
<1>1. res = [kind |-> "error", op |-> "none", call |-> 0, bytes |-> <<>>]
  BY DEF NoResult
<1>2. res \in Results
  <2>1. 0 \in CallNumbers
    BY FileAssumption DEF CallNumbers
  <2>2. <<>> \in Seq(Chunks)
    OBVIOUS
  <2> QED
    BY <1>1, <2>1, <2>2 DEF Results
<1>3. res.kind # "ok"
  BY <1>1
<1>4. Return(p, res)
  BY DEF Fail
<1> HIDE DEF res
<1> QED
  BY <1>2, <1>3, <1>4 DEF Returns

\* So is one that succeeds, and what it returns is whole.
LEMMA SucceedReturns ==
  ASSUME TypeOK, NEW p \in Callers, NEW bytes \in Seq(Chunks), Succeed(p, bytes),
         op[p] \in {"ReadFile", "ListFiles"} => bytes \in RemoteContents,
         \/ UNCHANGED dest
         \/ data[p] \in RemoteContents /\ dest' = [dest EXCEPT ![p] = data[p]],
         UNCHANGED <<handleVars, guestVars, calls>>
  PROVE  Returns(p)
<1> DEFINE res == [kind |-> "ok", op |-> op[p], call |-> call[p], bytes |-> bytes]
<1>1. res \in Results
  BY DEF TypeOK, Results
<1>2. Return(p, res)
  BY DEF Succeed
<1>3. res.op \in {"ReadFile", "ListFiles"} => res.bytes \in RemoteContents
  OBVIOUS
<1>4. /\ deleted' \in BOOLEAN /\ status' \in {"running", "deleted", "failed"}
      /\ UNCHANGED <<capability, guestVars, calls>>
  BY DEF TypeOK, handleVars
<1> HIDE DEF res
<1> QED
  BY <1>1, <1>2, <1>3, <1>4 DEF Returns

\* A stream read to its end has all of the file.
LEMMA WholeReceived ==
  ASSUME TypeOK, FileInv, NEW p \in Callers, pc[p] = "recv",
         rpc[p].state = "accepted", Received(p) = Len(rpc[p].snap)
  PROVE  data[p] = rpc[p].snap /\ data[p] \in RemoteContents
<1>1. rpc[p] \in Rpcs
  BY DEF TypeOK, Rpcs
<1>2. /\ rpc[p].got \in Seq(Chunks) /\ rpc[p].snap \in Seq(Chunks)
      /\ Len(rpc[p].got) = Len(rpc[p].snap)
      /\ \A i \in 1 .. Len(rpc[p].got) : rpc[p].got[i] = rpc[p].snap[i]
  BY <1>1 DEF Rpcs, Received, FileInv, CallerInv, ReceivedOf
<1>3. rpc[p].got = rpc[p].snap
  BY <1>2
<1> QED
  BY <1>3 DEF FileInv, CallerInv, ReceivedOf

\* Every step of a call ends it or is one of Goes.
LEMMA CallStepCases ==
  ASSUME TypeOK, FileInv, NEW p \in Callers, CallStep(p)
  PROVE  Goes(p) \/ Returns(p)
<1> USE DEF handleVars
<1>1. deleted \in BOOLEAN /\ status \in {"running", "deleted", "failed"}
  BY DEF TypeOK
<1>2. CASE Refused(p) \/ AttemptFails(p) \/ SendFails(p) \/ Abandon(p) \/ TempFails(p)
  BY <1>1, <1>2, FailReturns DEF Refused, AttemptFails, SendFails, Abandon, TempFails
<1>3. CASE RefreshFails(p)
  BY <1>1, <1>3, FailReturns DEF RefreshFails
<1>4. CASE AttemptError(p) /\ ~MayRefresh(p)
  <2>1. Fail(p) /\ UNCHANGED <<capability, guestVars, calls, dest>>
    BY <1>4 DEF AttemptError
  <2>2. deleted' \in BOOLEAN /\ status' \in {"running", "deleted", "failed"}
    BY <1>1, <1>4 DEF AttemptError
  <2> QED
    BY <2>1, <2>2, FailReturns
<1>5. CASE RecvChunk(p) /\ OverLimit(p)
  BY <1>1, <1>5, FailReturns DEF RecvChunk
<1>6. CASE AnswerOk(p)
  <2>1. op[p] \notin {"ReadFile", "ListFiles"}
    BY <1>6 DEF AnswerOk, FileInv, CallerInv, CallOf, Streamed, Unary
  <2>2. Succeed(p, <<>>) /\ UNCHANGED <<handleVars, guestVars, calls>> /\ UNCHANGED dest
    BY <1>6 DEF AnswerOk
  <2>3. <<>> \in Seq(Chunks)
    OBVIOUS
  <2> QED
    BY <2>1, <2>2, <2>3, SucceedReturns
<1>7. CASE RecvEnds(p) /\ op[p] # "DownloadFile"
  <2>1. Succeed(p, data[p]) /\ UNCHANGED <<handleVars, guestVars, calls, dest>>
    BY <1>7 DEF RecvEnds
  <2>2. data[p] \in RemoteContents
    BY <1>7, WholeReceived DEF RecvEnds
  <2>3. data[p] \in Seq(Chunks)
    BY DEF TypeOK
  <2> QED
    BY <2>1, <2>2, <2>3, SucceedReturns
<1>8. CASE RenameTemp(p)
  <2>1. /\ Succeed(p, <<>>) /\ UNCHANGED <<handleVars, guestVars, calls>>
        /\ dest' = [dest EXCEPT ![p] = data[p]]
    BY <1>8 DEF RenameTemp
  <2>2. op[p] = "DownloadFile" /\ data[p] \in RemoteContents
    BY <1>8 DEF RenameTemp, FileInv, CallerInv, CallOf, ReceivedOf
  <2>3. <<>> \in Seq(Chunks)
    OBVIOUS
  <2> QED
    BY <2>1, <2>2, <2>3, SucceedReturns
<1> QED
  BY <1>2, <1>3, <1>4, <1>5, <1>6, <1>7, <1>8 DEF CallStep, Goes

(***************************************************************************)
(* A step of one caller leaves the others as they are.                     *)
(***************************************************************************)
Same(q) == UNCHANGED <<pc[q], op[q], call[q], attempt[q], cursor[q], data[q], temp[q],
                       rpc[q], result[q]>>

\* A caller whose call is untouched keeps its part of the invariant.
LEMMA SameKeeps ==
  ASSUME NEW q \in Callers, CallerInv(q), Same(q), published \subseteq published',
         calls \in Nat, calls' \in Nat, calls <= calls',
         \A k \in {1, 2} :
           pc[q] # "idle" /\ <<call[q], k>> \in applied' => <<call[q], k>> \in applied
  PROVE  CallerInv(q)'
<1> USE DEF Same, CallerInv
<1>1. CallOf(q)'
  BY DEF CallOf
<1>2. SentOf(q)'
  BY DEF SentOf
<1>3. ReceivedOf(q)'
  BY DEF ReceivedOf, RemoteContents
<1>4. AppliedOf(q)'
  BY DEF AppliedOf
<1> QED
  BY <1>1, <1>2, <1>3, <1>4

\* What the types say of one caller.
LEMMA TypesOf ==
  ASSUME TypeOK, NEW p \in Callers
  PROVE  /\ pc[p] \in {"idle", "attempt", "send", "abandon", "wait", "recv",
                       "refresh", "store", "sync", "rename"}
         /\ op[p] \in Ops \cup {"none"} /\ (op[p] # "none" => op[p] \in FileOps)
         /\ call[p] \in CallNumbers /\ call[p] \in Nat
         /\ attempt[p] \in {1, 2} /\ cursor[p] \in 0 .. PayloadLen
         /\ data[p] \in Seq(Chunks) /\ reply[p] \in Tokens /\ temp[p] \in BOOLEAN
         /\ rpc[p] \in Rpcs /\ rpc[p].got \in Seq(Chunks) /\ rpc[p].snap \in Seq(Chunks)
         /\ rpc[p].state \in {"none", "open", "accepted"} \cup Ended
         /\ rpc[p].half \in BOOLEAN /\ rpc[p].token \in Tokens
         /\ result[p] \in Results /\ dest[p] \in Seq(Chunks)
         /\ calls \in Nat /\ calls <= MaxCalls
<1>1. rpc[p] \in Rpcs /\ result[p] \in Results
  BY DEF TypeOK, Rpcs, Results
<1>2. /\ rpc[p].got \in Seq(Chunks) /\ rpc[p].snap \in Seq(Chunks)
      /\ rpc[p].state \in {"none", "open", "accepted"} \cup Ended
      /\ rpc[p].half \in BOOLEAN /\ rpc[p].token \in Tokens
  BY <1>1 DEF Rpcs
<1>3. call[p] \in CallNumbers /\ call[p] \in Nat /\ calls \in Nat /\ calls <= MaxCalls
  BY FileAssumption DEF TypeOK, CallNumbers
<1>4. op[p] \in Ops \cup {"none"} /\ (op[p] # "none" => op[p] \in FileOps)
  BY FileAssumption DEF TypeOK
<1> QED
  BY <1>1, <1>2, <1>3, <1>4 DEF TypeOK

\* A step of one caller that writes nothing at the guest.
LEMMA MoveKeeps ==
  ASSUME TypeOK, FileInv, NEW p \in Callers, TypeOK', CallerInv(p)',
         \A q \in Callers \ {p} : Same(q), UNCHANGED <<published, applied, calls>>,
         pc'[p] = "idle" \/ (pc[p] # "idle" /\ call'[p] = call[p]),
         UNCHANGED dest \/ DownloadsWhole'
  PROVE  FileInv'
<1>1. calls \in Nat
  BY TypesOf
<1>2. ASSUME NEW q \in Callers PROVE CallerInv(q)'
  <2>1. CASE q = p
    BY <2>1
  <2>2. CASE q # p
    <3>1. CallerInv(q) /\ Same(q)
      BY <2>2 DEF FileInv
    <3>2. /\ published \subseteq published' /\ calls' \in Nat /\ calls <= calls'
          /\ \A k \in {1, 2} : <<call[q], k>> \in applied' => <<call[q], k>> \in applied
      BY <1>1
    <3> QED
      BY <1>1, <3>1, <3>2, SameKeeps
  <2> QED
    BY <2>1, <2>2
<1>3. NumberInv'
  <2>1. \A q \in Callers : CallOf(q) /\ CallOf(q)'
    BY <1>2 DEF FileInv, CallerInv
  <2>2. ASSUME NEW a \in Callers, NEW b \in Callers, pc'[a] # "idle", call'[a] = call'[b]
        PROVE  a = b
    BY <1>1, <2>1, <2>2 DEF FileInv, NumberInv, CallOf, Same
  <2> QED
    BY <2>2 DEF FileInv, NumberInv
<1>4. DownloadsWhole'
  BY DEF FileInv, DownloadsWhole, RemoteContents
<1>5. WritesWhole' /\ MutatesOnce'
  BY DEF FileInv, WritesWhole, MutatesOnce
<1> QED
  BY <1>2, <1>3, <1>4, <1>5 DEF FileInv

(***************************************************************************)
(* Each step keeps the types and the invariant.                            *)
(***************************************************************************)
LEMMA AttemptKeeps ==
  ASSUME TypeOK, FileInv, NEW p \in Callers, Attempt(p)
  PROVE  TypeOK' /\ FileInv'
<1> DEFINE r == [state |-> "open", token |-> capability, got |-> <<>>, snap |-> <<>>,
                   half |-> FALSE]
       from == IF op[p] = "WriteFile" THEN 0 ELSE cursor[p]
       next == CASE op[p] \in Streamed -> "send"
                 [] op[p] \in Fetched  -> "recv"
                 [] op[p] \in Unary    -> "wait"
<1>1. pc[p] = "attempt" /\ op[p] \in FileOps
  BY TypesOf DEF Attempt, FileInv, CallerInv, CallOf
<1>2. /\ op[p] \in Streamed => next = "send"
      /\ op[p] \in Fetched => next = "recv"
      /\ op[p] \in Unary => next = "wait"
  BY DEF Streamed, Fetched, Unary
<1>3. next \in {"send", "recv", "wait"} /\ from \in 0 .. PayloadLen
      /\ from \in Nat /\ (op[p] = "WriteFile" => from = 0)
  BY <1>1, <1>2, TypesOf, FileAssumption DEF FileOps
<1> HIDE DEF next, from
<1>4. rpc \in [Callers -> Rpcs] /\ rpc[p] \in Rpcs
  BY DEF TypeOK, Rpcs
<1>5. /\ rpc' = [rpc EXCEPT ![p] = r]
      /\ data' = [data EXCEPT ![p] = <<>>]
      /\ cursor' = [cursor EXCEPT ![p] = from]
      /\ pc' = [pc EXCEPT ![p] = next]
  BY DEF Attempt, DataAtStart, CursorAtStart, Goto, next, from
<1>6. UNCHANGED <<deleted, status, capability, valid, remote, published, applied, op, call,
                attempt, reply, temp, result, dest, calls>>
  BY DEF Attempt, DataAtStart, CursorAtStart, Goto, handleVars, guestVars, callVars
<1>7. /\ rpc'[p] = r
      /\ data'[p] = <<>>
      /\ cursor'[p] = from
      /\ pc'[p] = next
  BY <1>5, <1>1, <1>2, <1>3 DEF TypeOK
<1>8. \A q \in Callers \ {p} : Same(q)
  BY <1>5, <1>6 DEF Same, TypeOK
<1>9. TypeOK'
  <2>1. rpc' \in [Callers -> Rpcs]
    <3>1. r \in Rpcs
      BY TypesOf DEF Rpcs, TypeOK
    <3> QED
      BY <1>5, <3>1 DEF TypeOK, Rpcs
  <2>2. data' \in [Callers -> Seq(Chunks)]
    BY <1>5 DEF TypeOK
  <2>3. cursor' \in [Callers -> 0 .. PayloadLen]
    BY <1>5, <1>3 DEF TypeOK
  <2>4. pc' \in [Callers -> {"idle", "attempt", "send", "abandon", "wait", "recv",
                            "refresh", "store", "sync", "rename"}]
    BY <1>5, <1>3 DEF TypeOK
  <2> QED
    BY <1>6, <2>1, <2>2, <2>3, <2>4 DEF TypeOK, Rpcs, Results
<1>10. CallOf(p)'
  BY <1>6, <1>7, <1>1, <1>2, <1>3, TypesOf, FileAssumption DEF Attempt, DataAtStart,
     CursorAtStart, Goto, FileInv, CallerInv, CallOf, Streamed, Fetched, Unary, Ended,
     FileOps, RemoteContents
<1>11. SentOf(p)'
  BY <1>6, <1>7, <1>1, <1>2, <1>3, TypesOf, FileAssumption DEF Attempt, DataAtStart,
     CursorAtStart, Goto, FileInv, CallerInv, CallOf, SentOf, Streamed, Fetched,
     Unary, Ended, FileOps, RemoteContents
<1>12. ReceivedOf(p)'
  BY <1>6, <1>7, <1>1, <1>2, <1>3, TypesOf, FileAssumption DEF Attempt, DataAtStart,
     CursorAtStart, Goto, FileInv, CallerInv, CallOf, ReceivedOf, Streamed, Fetched,
     Unary, Ended, FileOps, RemoteContents
<1>13. AppliedOf(p)'
  BY <1>6, <1>7, <1>1, <1>2, <1>3, TypesOf, FileAssumption DEF Attempt, DataAtStart,
     CursorAtStart, Goto, FileInv, CallerInv, CallOf, AppliedOf, Streamed, Fetched,
     Unary, Ended, FileOps, RemoteContents
<1>14. pc'[p] = "idle" \/ (pc[p] # "idle" /\ call'[p] = call[p])
  BY <1>6, <1>7 DEF Attempt, DataAtStart, CursorAtStart, Goto, FileInv, CallerInv, CallOf
<1> QED
  BY <1>6, <1>8, <1>9, <1>10, <1>11, <1>12, <1>13, <1>14, MoveKeeps DEF CallerInv

\* One more chunk is sent.
LEMMA SendChunkKeeps ==
  ASSUME TypeOK, FileInv, NEW p \in Callers, SendChunk(p)
  PROVE  TypeOK' /\ FileInv'
<1> DEFINE chunk == Payload(call[p])[cursor[p] + 1]
       r == [state |-> rpc[p].state, token |-> rpc[p].token,
             got |-> Append(rpc[p].got, chunk), snap |-> rpc[p].snap, half |-> rpc[p].half]
<1>1. pc[p] = "send" /\ cursor[p] < PayloadLen /\ cursor[p] \in Nat
  BY TypesOf, FileAssumption DEF SendChunk
<1>2. chunk = <<call[p], cursor[p] + 1>>
  BY <1>1, FileAssumption DEF Payload
<1>3. chunk \in Chunks
  BY <1>1, <1>2, TypesOf, FileAssumption DEF Chunks
<1>4. /\ Append(rpc[p].got, chunk) \in Seq(Chunks)
      /\ Len(Append(rpc[p].got, chunk)) = Len(rpc[p].got) + 1
      /\ \A i \in 1 .. Len(rpc[p].got) : Append(rpc[p].got, chunk)[i] = rpc[p].got[i]
      /\ Append(rpc[p].got, chunk)[Len(rpc[p].got) + 1] = chunk
  BY <1>3, TypesOf
<1> HIDE DEF chunk
<1>5. rpc \in [Callers -> Rpcs] /\ rpc[p] \in Rpcs
  BY DEF TypeOK, Rpcs
<1>6. /\ rpc' = [rpc EXCEPT ![p] = r]
      /\ cursor' = [cursor EXCEPT ![p] = cursor[p] + 1]
  <2>1. rpc' = [rpc EXCEPT ![p].got = Append(@, chunk)]
    BY DEF SendChunk, chunk
  <2>2. [rpc EXCEPT ![p].got = Append(@, chunk)] = [rpc EXCEPT ![p] = r]
    BY <1>5, WithField
  <2> QED
    BY <2>1, <2>2 DEF SendChunk, chunk
<1>7. UNCHANGED <<deleted, status, capability, valid, remote, published, applied, pc, op,
                call, attempt, data, reply, temp, result, dest, calls>>
  BY DEF SendChunk, handleVars, guestVars, callVars
<1>8. /\ rpc'[p] = r
      /\ cursor'[p] = cursor[p] + 1
  BY <1>6, <1>1, <1>2, <1>4 DEF TypeOK
<1>9. \A q \in Callers \ {p} : Same(q)
  BY <1>6, <1>7 DEF Same, TypeOK
<1>10. TypeOK'
  <2>1. rpc' \in [Callers -> Rpcs]
    <3>1. r \in Rpcs
      BY TypesOf, <1>4 DEF Rpcs, TypeOK
    <3> QED
      BY <1>6, <3>1 DEF TypeOK, Rpcs
  <2>2. cursor' \in [Callers -> 0 .. PayloadLen]
    BY <1>6, <1>1, FileAssumption DEF TypeOK
  <2> QED
    BY <1>7, <2>1, <2>2 DEF TypeOK, Rpcs, Results
<1>11. CallOf(p)'
  BY <1>7, <1>8, <1>1, <1>2, <1>4, TypesOf, FileAssumption DEF SendChunk, FileInv,
     CallerInv, CallOf, Streamed, Fetched, Unary, Ended, FileOps, RemoteContents
<1>12. SentOf(p)'
  <2>1. /\ op[p] \in Streamed /\ SentOf(p)
    BY <1>1 DEF FileInv, CallerInv, CallOf
  <2>2. /\ rpc'[p].got = Append(rpc[p].got, chunk) /\ rpc'[p].half = rpc[p].half
        /\ rpc'[p].state = rpc[p].state /\ cursor'[p] = cursor[p] + 1
        /\ UNCHANGED <<pc, op, call, published>>
    BY <1>7, <1>8
  <2>3. Len(rpc[p].got) \in Nat /\ Len(rpc[p].got) <= cursor[p]
    BY <1>1, <2>1, TypesOf DEF SentOf
  <2>4. ASSUME NEW i \in 1 .. Len(rpc'[p].got)
        PROVE  rpc'[p].got[i] = <<call'[p], cursor'[p] - Len(rpc'[p].got) + i>>
    <3>1. CASE i <= Len(rpc[p].got)
      <4>1. i \in 1 .. Len(rpc[p].got)
        BY <1>4, <2>2, <2>3, <3>1
      <4>2. rpc'[p].got[i] = <<call[p], cursor[p] - Len(rpc[p].got) + i>>
        BY <1>1, <1>4, <2>1, <2>2, <4>1 DEF SentOf
      <4>3. cursor'[p] - Len(rpc'[p].got) = cursor[p] - Len(rpc[p].got)
        BY <1>1, <1>4, <2>2, <2>3, SMTT(30)
      <4> QED
        BY <2>2, <4>2, <4>3
    <3>2. CASE i = Len(rpc[p].got) + 1
      BY <1>1, <1>2, <1>4, <2>2, <2>3, <3>2, SMTT(30)
    <3> QED
      BY <1>4, <2>2, <2>3, <3>1, <3>2
  <2>5. Len(rpc'[p].got) <= cursor'[p]
    BY <1>1, <1>4, <2>2, <2>3
  <2>6. op[p] = "WriteFile" =>
          Len(rpc'[p].got) = cursor'[p] /\ (rpc'[p].half => cursor'[p] = PayloadLen)
    BY <1>1, <1>4, <2>1, <2>2, <2>3 DEF SentOf
  <2> QED
    BY <1>1, <2>1, <2>2, <2>4, <2>5, <2>6 DEF SentOf
<1>13. ReceivedOf(p)'
  BY <1>7, <1>8, <1>1 DEF FileInv, CallerInv, ReceivedOf, RemoteContents
<1>14. AppliedOf(p)'
  BY <1>7, <1>8, <1>1, <1>2, <1>4, TypesOf, FileAssumption DEF SendChunk, FileInv,
     CallerInv, CallOf, AppliedOf, Streamed, Fetched, Unary, Ended, FileOps,
     RemoteContents
<1>15. pc'[p] = "idle" \/ (pc[p] # "idle" /\ call'[p] = call[p])
  BY <1>7, <1>8 DEF SendChunk, FileInv, CallerInv, CallOf
<1> QED
  BY <1>7, <1>9, <1>10, <1>11, <1>12, <1>13, <1>14, <1>15, MoveKeeps DEF CallerInv

\* The stream is half-closed, after the last chunk or a local error.
LEMMA SendEndsKeeps ==
  ASSUME TypeOK, FileInv, NEW p \in Callers, LocalReadFails(p) \/ SendEnds(p)
  PROVE  TypeOK' /\ FileInv'
<1> DEFINE r == [state |-> rpc[p].state, token |-> rpc[p].token, got |-> rpc[p].got,
             snap |-> rpc[p].snap,
                   half |-> TRUE]
       next == IF LocalReadFails(p) THEN "abandon" ELSE "wait"
<1>1. /\ pc[p] = "send" /\ next \in {"abandon", "wait"}
      /\ next = "abandon" => op[p] = "UploadFile"
      /\ next = "wait" => cursor[p] = PayloadLen
  BY DEF LocalReadFails, SendEnds
<1>2. pc' = [pc EXCEPT ![p] = next]
  BY DEF LocalReadFails, SendEnds, Goto
<1> HIDE DEF next
<1>3. rpc \in [Callers -> Rpcs] /\ rpc[p] \in Rpcs
  BY DEF TypeOK, Rpcs
<1>4. /\ rpc' = [rpc EXCEPT ![p] = r]
      /\ pc' = [pc EXCEPT ![p] = next]
  <2>1. rpc' = [rpc EXCEPT ![p].half = TRUE]
    BY DEF LocalReadFails, SendEnds
  <2>2. [rpc EXCEPT ![p].half = TRUE] = [rpc EXCEPT ![p] = r]
    BY <1>3, WithField
  <2> QED
    BY <1>2, <2>1, <2>2
<1>5. UNCHANGED <<deleted, status, capability, valid, remote, published, applied, op, call,
                attempt, cursor, data, reply, temp, result, dest, calls>>
  BY DEF LocalReadFails, SendEnds, Goto, handleVars, guestVars, callVars
<1>6. /\ rpc'[p] = r
      /\ pc'[p] = next
  BY <1>4, <1>1 DEF TypeOK
<1>7. \A q \in Callers \ {p} : Same(q)
  BY <1>4, <1>5 DEF Same, TypeOK
<1>8. TypeOK'
  <2>1. rpc' \in [Callers -> Rpcs]
    <3>1. r \in Rpcs
      BY TypesOf DEF Rpcs, TypeOK
    <3> QED
      BY <1>4, <3>1 DEF TypeOK, Rpcs
  <2>2. pc' \in [Callers -> {"idle", "attempt", "send", "abandon", "wait", "recv",
                            "refresh", "store", "sync", "rename"}]
    BY <1>4, <1>1 DEF TypeOK
  <2> QED
    BY <1>5, <2>1, <2>2 DEF TypeOK, Rpcs, Results
<1>9. CallOf(p)'
  BY <1>5, <1>6, <1>1, TypesOf, FileAssumption DEF LocalReadFails, SendEnds, Goto,
     FileInv, CallerInv, CallOf, Streamed, Fetched, Unary, Ended, FileOps,
     RemoteContents
<1>10. SentOf(p)'
  BY <1>5, <1>6, <1>1, TypesOf, FileAssumption DEF LocalReadFails, SendEnds, Goto,
     FileInv, CallerInv, CallOf, SentOf, Streamed, Fetched, Unary, Ended, FileOps,
     RemoteContents
<1>11. ReceivedOf(p)'
  BY <1>5, <1>6, <1>1, TypesOf, FileAssumption DEF LocalReadFails, SendEnds, Goto,
     FileInv, CallerInv, CallOf, ReceivedOf, Streamed, Fetched, Unary, Ended, FileOps,
     RemoteContents
<1>12. AppliedOf(p)'
  BY <1>5, <1>6, <1>1, TypesOf, FileAssumption DEF LocalReadFails, SendEnds, Goto,
     FileInv, CallerInv, CallOf, AppliedOf, Streamed, Fetched, Unary, Ended, FileOps,
     RemoteContents
<1>13. pc'[p] = "idle" \/ (pc[p] # "idle" /\ call'[p] = call[p])
  BY <1>5, <1>6 DEF LocalReadFails, SendEnds, Goto, FileInv, CallerInv, CallOf
<1> QED
  BY <1>5, <1>7, <1>8, <1>9, <1>10, <1>11, <1>12, <1>13, MoveKeeps DEF CallerInv

\* One more chunk is received.
LEMMA RecvChunkKeeps ==
  ASSUME TypeOK, FileInv, NEW p \in Callers, RecvChunk(p), ~OverLimit(p)
  PROVE  TypeOK' /\ FileInv'
<1> DEFINE chunk == rpc[p].snap[Received(p) + 1]
       r == [state |-> rpc[p].state, token |-> rpc[p].token,
             got |-> Append(rpc[p].got, chunk), snap |-> rpc[p].snap, half |-> rpc[p].half]
<1>1. /\ pc[p] = "recv" /\ rpc[p].state = "accepted" /\ data[p] = rpc[p].got
      /\ Len(rpc[p].got) < Len(rpc[p].snap) /\ chunk = rpc[p].snap[Len(rpc[p].got) + 1]
      /\ op[p] = "ReadFile" => Len(data[p]) + 1 <= ReadLimit
  BY TypesOf, FileAssumption DEF RecvChunk, Received, OverLimit, FileInv, CallerInv, ReceivedOf
<1>2. chunk \in Chunks
  BY <1>1, TypesOf
<1>3. /\ Append(rpc[p].got, chunk) \in Seq(Chunks)
      /\ Len(Append(rpc[p].got, chunk)) = Len(rpc[p].got) + 1
      /\ \A i \in 1 .. Len(rpc[p].got) : Append(rpc[p].got, chunk)[i] = rpc[p].got[i]
      /\ Append(rpc[p].got, chunk)[Len(rpc[p].got) + 1] = chunk
  BY <1>2, TypesOf
<1> HIDE DEF chunk
<1>4. rpc \in [Callers -> Rpcs] /\ rpc[p] \in Rpcs
  BY DEF TypeOK, Rpcs
<1>5. /\ rpc' = [rpc EXCEPT ![p] = r]
      /\ data' = [data EXCEPT ![p] = Append(data[p], chunk)]
  <2>1. rpc' = [rpc EXCEPT ![p].got = Append(@, chunk)]
    BY DEF RecvChunk, chunk
  <2>2. [rpc EXCEPT ![p].got = Append(@, chunk)] = [rpc EXCEPT ![p] = r]
    BY <1>4, WithField
  <2> QED
    BY <2>1, <2>2 DEF RecvChunk, chunk
<1>6. UNCHANGED <<deleted, status, capability, valid, remote, published, applied, pc, op,
                call, attempt, cursor, reply, temp, result, dest, calls>>
  BY DEF RecvChunk, handleVars, guestVars, callVars
<1>7. /\ rpc'[p] = r
      /\ data'[p] = Append(data[p], chunk)
  BY <1>5, <1>1, <1>3 DEF TypeOK
<1>8. \A q \in Callers \ {p} : Same(q)
  BY <1>5, <1>6 DEF Same, TypeOK
<1>9. TypeOK'
  <2>1. rpc' \in [Callers -> Rpcs]
    <3>1. r \in Rpcs
      BY TypesOf, <1>3 DEF Rpcs, TypeOK
    <3> QED
      BY <1>5, <3>1 DEF TypeOK, Rpcs
  <2>2. data' \in [Callers -> Seq(Chunks)]
    BY <1>5, <1>1, <1>3 DEF TypeOK
  <2> QED
    BY <1>6, <2>1, <2>2 DEF TypeOK, Rpcs, Results
<1>10. CallOf(p)'
  BY <1>6, <1>7, <1>1, <1>3, TypesOf, FileAssumption DEF RecvChunk, FileInv,
     CallerInv, CallOf, Streamed, Fetched, Unary, Ended, FileOps, RemoteContents
<1>11. SentOf(p)'
  BY <1>6, <1>7, <1>1, <1>3, TypesOf, FileAssumption DEF RecvChunk, FileInv,
     CallerInv, CallOf, SentOf, Streamed, Fetched, Unary, Ended, FileOps,
     RemoteContents
<1>12. ReceivedOf(p)'
  BY <1>6, <1>7, <1>1, <1>3, TypesOf, FileAssumption, SMTT(30) DEF RecvChunk, FileInv,
     CallerInv, CallOf, ReceivedOf, Streamed, Fetched, Unary, Ended, FileOps,
     RemoteContents
<1>13. AppliedOf(p)'
  BY <1>6, <1>7, <1>1, <1>3, TypesOf, FileAssumption DEF RecvChunk, FileInv,
     CallerInv, CallOf, AppliedOf, Streamed, Fetched, Unary, Ended, FileOps,
     RemoteContents
<1>14. pc'[p] = "idle" \/ (pc[p] # "idle" /\ call'[p] = call[p])
  BY <1>6, <1>7 DEF RecvChunk, FileInv, CallerInv, CallOf
<1> QED
  BY <1>6, <1>8, <1>9, <1>10, <1>11, <1>12, <1>13, <1>14, MoveKeeps DEF CallerInv

\* The temporary file is synced.
LEMMA SyncKeeps ==
  ASSUME TypeOK, FileInv, NEW p \in Callers, SyncTemp(p)
  PROVE  TypeOK' /\ FileInv'
<1>1. /\ pc' = [pc EXCEPT ![p] = "rename"]
  BY DEF SyncTemp, Goto
<1>2. UNCHANGED <<deleted, status, capability, valid, remote, published, applied, op, call,
                attempt, cursor, data, reply, temp, rpc, result, dest, calls>>
  BY DEF SyncTemp, Goto, handleVars, guestVars, callVars
<1>3. /\ pc'[p] = "rename"
  BY <1>1 DEF TypeOK
<1>4. \A q \in Callers \ {p} : Same(q)
  BY <1>1, <1>2 DEF Same, TypeOK
<1>5. TypeOK'
  <2>1. pc' \in [Callers -> {"idle", "attempt", "send", "abandon", "wait", "recv",
                            "refresh", "store", "sync", "rename"}]
    BY <1>1 DEF TypeOK
  <2> QED
    BY <1>2, <2>1 DEF TypeOK, Rpcs, Results
<1>6. CallOf(p)'
  BY <1>2, <1>3, TypesOf, FileAssumption DEF SyncTemp, Goto, FileInv, CallerInv,
     CallOf, Streamed, Fetched, Unary, Ended, FileOps, RemoteContents
<1>7. SentOf(p)'
  BY <1>2, <1>3, TypesOf, FileAssumption DEF SyncTemp, Goto, FileInv, CallerInv,
     CallOf, SentOf, Streamed, Fetched, Unary, Ended, FileOps, RemoteContents
<1>8. ReceivedOf(p)'
  BY <1>2, <1>3, TypesOf, FileAssumption DEF SyncTemp, Goto, FileInv, CallerInv,
     CallOf, ReceivedOf, Streamed, Fetched, Unary, Ended, FileOps, RemoteContents
<1>9. AppliedOf(p)'
  BY <1>2, <1>3, TypesOf, FileAssumption DEF SyncTemp, Goto, FileInv, CallerInv,
     CallOf, AppliedOf, Streamed, Fetched, Unary, Ended, FileOps, RemoteContents
<1>10. pc'[p] = "idle" \/ (pc[p] # "idle" /\ call'[p] = call[p])
  BY <1>2, <1>3 DEF SyncTemp, Goto, FileInv, CallerInv, CallOf
<1> QED
  BY <1>2, <1>4, <1>5, <1>6, <1>7, <1>8, <1>9, <1>10, MoveKeeps DEF CallerInv

\* GetSandbox answers with a new capability.
LEMMA RefreshKeeps ==
  ASSUME TypeOK, FileInv, NEW p \in Callers, Refresh(p)
  PROVE  TypeOK' /\ FileInv'
<1>1. /\ reply' = [reply EXCEPT ![p] = call[p]]
      /\ pc' = [pc EXCEPT ![p] = "store"]
  BY DEF Refresh, Goto
<1>2. UNCHANGED <<deleted, status, capability, remote, published, applied, op, call,
                attempt, cursor, data, temp, rpc, result, dest, calls>>
  BY DEF Refresh, Goto, handleVars, guestVars, callVars
<1>3. /\ reply'[p] = call[p]
      /\ pc'[p] = "store"
  BY <1>1 DEF TypeOK
<1>4. \A q \in Callers \ {p} : Same(q)
  BY <1>1, <1>2 DEF Same, TypeOK
<1>5. TypeOK'
  <2>1. reply' \in [Callers -> Tokens]
    BY <1>1, TypesOf DEF TypeOK, Tokens
  <2>2. pc' \in [Callers -> {"idle", "attempt", "send", "abandon", "wait", "recv",
                            "refresh", "store", "sync", "rename"}]
    BY <1>1 DEF TypeOK
  <2>3. valid' \subseteq Tokens
    BY TypesOf DEF Refresh, TypeOK, Tokens
  <2> QED
    BY <1>2, <2>1, <2>2, <2>3 DEF TypeOK, Rpcs, Results
<1>6. CallOf(p)'
  BY <1>2, <1>3, TypesOf, FileAssumption DEF Refresh, Goto, FileInv, CallerInv,
     CallOf, Streamed, Fetched, Unary, Ended, FileOps, RemoteContents
<1>7. SentOf(p)'
  BY <1>2, <1>3, TypesOf, FileAssumption DEF Refresh, Goto, FileInv, CallerInv,
     CallOf, SentOf, Streamed, Fetched, Unary, Ended, FileOps, RemoteContents
<1>8. ReceivedOf(p)'
  BY <1>2, <1>3, TypesOf, FileAssumption DEF Refresh, Goto, FileInv, CallerInv,
     CallOf, ReceivedOf, Streamed, Fetched, Unary, Ended, FileOps, RemoteContents
<1>9. AppliedOf(p)'
  BY <1>2, <1>3, TypesOf, FileAssumption DEF Refresh, Goto, FileInv, CallerInv,
     CallOf, AppliedOf, Streamed, Fetched, Unary, Ended, FileOps, RemoteContents
<1>10. pc'[p] = "idle" \/ (pc[p] # "idle" /\ call'[p] = call[p])
  BY <1>2, <1>3 DEF Refresh, Goto, FileInv, CallerInv, CallOf
<1> QED
  BY <1>2, <1>4, <1>5, <1>6, <1>7, <1>8, <1>9, <1>10, MoveKeeps DEF CallerInv

\* The new capability is stored and the closure is run again.
LEMMA StoreRefreshKeeps ==
  ASSUME TypeOK, FileInv, NEW p \in Callers, StoreRefresh(p)
  PROVE  TypeOK' /\ FileInv'
<1>1. pc[p] = "store" /\ attempt[p] = 1
  BY DEF StoreRefresh, FileInv, CallerInv, CallOf
<1>2. /\ attempt' = [attempt EXCEPT ![p] = 2]
      /\ pc' = [pc EXCEPT ![p] = "attempt"]
  BY <1>1 DEF StoreRefresh, Goto
<1>3. UNCHANGED <<deleted, valid, remote, published, applied, op, call, cursor, data, reply,
                temp, rpc, result, dest, calls>>
  BY DEF StoreRefresh, Goto, handleVars, guestVars, callVars
<1>4. /\ attempt'[p] = 2
      /\ pc'[p] = "attempt"
  BY <1>2, <1>1 DEF TypeOK
<1>5. \A q \in Callers \ {p} : Same(q)
  BY <1>2, <1>3 DEF Same, TypeOK
<1>6. TypeOK'
  <2>1. attempt' \in [Callers -> {1, 2}]
    BY <1>2 DEF TypeOK
  <2>2. pc' \in [Callers -> {"idle", "attempt", "send", "abandon", "wait", "recv",
                            "refresh", "store", "sync", "rename"}]
    BY <1>2 DEF TypeOK
  <2>3. capability' \in Tokens
    BY TypesOf DEF StoreRefresh
  <2>4. status' = "running"
    BY DEF StoreRefresh
  <2> QED
    BY <1>3, <2>1, <2>2, <2>3, <2>4 DEF TypeOK, Rpcs, Results
<1>7. CallOf(p)'
  BY <1>3, <1>4, <1>1, TypesOf, FileAssumption DEF StoreRefresh, Goto, FileInv,
     CallerInv, CallOf, Streamed, Fetched, Unary, Ended, FileOps, RemoteContents
<1>8. SentOf(p)'
  BY <1>3, <1>4, <1>1, TypesOf, FileAssumption DEF StoreRefresh, Goto, FileInv,
     CallerInv, CallOf, SentOf, Streamed, Fetched, Unary, Ended, FileOps,
     RemoteContents
<1>9. ReceivedOf(p)'
  BY <1>3, <1>4, <1>1, TypesOf, FileAssumption DEF StoreRefresh, Goto, FileInv,
     CallerInv, CallOf, ReceivedOf, Streamed, Fetched, Unary, Ended, FileOps,
     RemoteContents
<1>10. AppliedOf(p)'
  BY <1>3, <1>4, <1>1, TypesOf, FileAssumption DEF StoreRefresh, Goto, FileInv,
     CallerInv, CallOf, AppliedOf, Streamed, Fetched, Unary, Ended, FileOps,
     RemoteContents
<1>11. pc'[p] = "idle" \/ (pc[p] # "idle" /\ call'[p] = call[p])
  BY <1>3, <1>4 DEF StoreRefresh, Goto, FileInv, CallerInv, CallOf
<1> QED
  BY <1>3, <1>5, <1>6, <1>7, <1>8, <1>9, <1>10, <1>11, MoveKeeps DEF CallerInv

\* A download has been received.
LEMMA ReceiveEndsKeeps ==
  ASSUME TypeOK, FileInv, NEW p \in Callers, RecvEnds(p), op[p] = "DownloadFile"
  PROVE  TypeOK' /\ FileInv'
<1> DEFINE r == [state |-> "none", token |-> 0, got |-> <<>>, snap |-> <<>>,
                   half |-> FALSE]
<1>1. pc[p] = "recv" /\ data[p] \in RemoteContents
  BY WholeReceived DEF RecvEnds
<1>2. rpc \in [Callers -> Rpcs] /\ rpc[p] \in Rpcs
  BY DEF TypeOK, Rpcs
<1>3. /\ rpc' = [rpc EXCEPT ![p] = r]
      /\ pc' = [pc EXCEPT ![p] = "sync"]
  BY DEF RecvEnds, NoRpc, Goto
<1>4. UNCHANGED <<deleted, status, capability, valid, remote, published, applied, op, call,
                attempt, cursor, data, reply, temp, result, dest, calls>>
  BY DEF RecvEnds, Goto, handleVars, guestVars, callVars
<1>5. /\ rpc'[p] = r
      /\ pc'[p] = "sync"
  BY <1>3, <1>1 DEF TypeOK
<1>6. \A q \in Callers \ {p} : Same(q)
  BY <1>3, <1>4 DEF Same, TypeOK
<1>7. TypeOK'
  <2>1. rpc' \in [Callers -> Rpcs]
    <3>1. r \in Rpcs
      BY TypesOf, FileAssumption DEF Rpcs, TypeOK, Tokens, CallNumbers
    <3> QED
      BY <1>3, <3>1 DEF TypeOK, Rpcs
  <2>2. pc' \in [Callers -> {"idle", "attempt", "send", "abandon", "wait", "recv",
                            "refresh", "store", "sync", "rename"}]
    BY <1>3 DEF TypeOK
  <2> QED
    BY <1>4, <2>1, <2>2 DEF TypeOK, Rpcs, Results
<1>8. CallOf(p)'
  BY <1>4, <1>5, <1>1, TypesOf, FileAssumption DEF RecvEnds, Goto, FileInv, CallerInv,
     CallOf, Streamed, Fetched, Unary, Ended, FileOps, RemoteContents
<1>9. SentOf(p)'
  BY <1>4, <1>5, <1>1, TypesOf, FileAssumption DEF RecvEnds, Goto, FileInv, CallerInv,
     CallOf, SentOf, Streamed, Fetched, Unary, Ended, FileOps, RemoteContents
<1>10. ReceivedOf(p)'
  BY <1>4, <1>5, <1>1, TypesOf, FileAssumption DEF RecvEnds, Goto, FileInv, CallerInv,
     CallOf, ReceivedOf, Streamed, Fetched, Unary, Ended, FileOps, RemoteContents
<1>11. AppliedOf(p)'
  BY <1>4, <1>5, <1>1, TypesOf, FileAssumption DEF RecvEnds, Goto, FileInv, CallerInv,
     CallOf, AppliedOf, Streamed, Fetched, Unary, Ended, FileOps, RemoteContents
<1>12. pc'[p] = "idle" \/ (pc[p] # "idle" /\ call'[p] = call[p])
  BY <1>4, <1>5 DEF RecvEnds, Goto, FileInv, CallerInv, CallOf
<1> QED
  BY <1>4, <1>6, <1>7, <1>8, <1>9, <1>10, <1>11, <1>12, MoveKeeps DEF CallerInv

\* The first run is rejected.
LEMMA RejectedKeeps ==
  ASSUME TypeOK, FileInv, NEW p \in Callers, AttemptError(p), MayRefresh(p)
  PROVE  TypeOK' /\ FileInv'
<1> DEFINE r == [state |-> "none", token |-> 0, got |-> <<>>, snap |-> <<>>,
                   half |-> FALSE]
<1>1. pc[p] \in {"wait", "recv"} /\ attempt[p] = 1 /\ rpc[p].state = "rejected"
  BY DEF AttemptError, MayRefresh, Refreshable
<1>2. rpc \in [Callers -> Rpcs] /\ rpc[p] \in Rpcs
  BY DEF TypeOK, Rpcs
<1>3. /\ rpc' = [rpc EXCEPT ![p] = r]
      /\ pc' = [pc EXCEPT ![p] = "refresh"]
  BY DEF AttemptError, NoRpc, Goto
<1>4. UNCHANGED <<capability, valid, remote, published, applied, op, call, attempt, cursor,
                data, reply, temp, result, dest, calls>>
  BY DEF AttemptError, Goto, handleVars, guestVars, callVars
<1>5. /\ rpc'[p] = r
      /\ pc'[p] = "refresh"
  BY <1>3, <1>1 DEF TypeOK
<1>6. \A q \in Callers \ {p} : Same(q)
  BY <1>3, <1>4 DEF Same, TypeOK
<1>7. TypeOK'
  <2>1. rpc' \in [Callers -> Rpcs]
    <3>1. r \in Rpcs
      BY TypesOf, FileAssumption DEF Rpcs, TypeOK, Tokens, CallNumbers
    <3> QED
      BY <1>3, <3>1 DEF TypeOK, Rpcs
  <2>2. pc' \in [Callers -> {"idle", "attempt", "send", "abandon", "wait", "recv",
                            "refresh", "store", "sync", "rename"}]
    BY <1>3 DEF TypeOK
  <2>3. deleted' \in BOOLEAN
    BY DEF AttemptError, TypeOK
  <2>4. status' \in {"running", "deleted", "failed"}
    BY DEF AttemptError, TypeOK
  <2> QED
    BY <1>4, <2>1, <2>2, <2>3, <2>4 DEF TypeOK, Rpcs, Results
<1>8. CallOf(p)'
  BY <1>4, <1>5, <1>1, TypesOf, FileAssumption DEF AttemptError, Goto, FileInv,
     CallerInv, CallOf, Streamed, Fetched, Unary, Ended, FileOps, RemoteContents
<1>9. SentOf(p)'
  BY <1>4, <1>5, <1>1, TypesOf, FileAssumption DEF AttemptError, Goto, FileInv,
     CallerInv, CallOf, SentOf, Streamed, Fetched, Unary, Ended, FileOps,
     RemoteContents
<1>10. ReceivedOf(p)'
  BY <1>4, <1>5, <1>1, TypesOf, FileAssumption DEF AttemptError, Goto, FileInv,
     CallerInv, CallOf, ReceivedOf, Streamed, Fetched, Unary, Ended, FileOps,
     RemoteContents
<1>11. AppliedOf(p)'
  BY <1>4, <1>5, <1>1, TypesOf, FileAssumption DEF AttemptError, Goto, FileInv,
     CallerInv, CallOf, AppliedOf, Streamed, Fetched, Unary, Ended, FileOps,
     RemoteContents
<1>12. pc'[p] = "idle" \/ (pc[p] # "idle" /\ call'[p] = call[p])
  BY <1>4, <1>5 DEF AttemptError, Goto, FileInv, CallerInv, CallOf
<1> QED
  BY <1>4, <1>6, <1>7, <1>8, <1>9, <1>10, <1>11, <1>12, MoveKeeps DEF CallerInv

\* The guest accepts the stream, and opens the file for a read.
LEMMA AcceptedKeeps ==
  ASSUME TypeOK, FileInv, NEW p \in Callers, GuestAccepts(p)
  PROVE  TypeOK' /\ FileInv'
<1> DEFINE r == [state |-> "accepted", token |-> rpc[p].token, got |-> rpc[p].got,
             snap |-> remote.chunks,
                   half |-> rpc[p].half]
<1>1. rpc[p].state = "open" /\ remote.chunks \in RemoteContents /\ remote.chunks \in Seq(Chunks)
  <2>1. remote \in published /\ remote \in Files
    BY DEF TypeOK
  <2> QED
    BY <2>1 DEF GuestAccepts, RemoteContents, Files
<1>2. rpc \in [Callers -> Rpcs] /\ rpc[p] \in Rpcs
  BY DEF TypeOK, Rpcs
<1>3. /\ rpc' = [rpc EXCEPT ![p] = r]
  BY DEF GuestAccepts
<1>4. UNCHANGED <<deleted, status, capability, valid, remote, published, applied, pc, op,
                call, attempt, cursor, data, reply, temp, result, dest, calls>>
  BY DEF GuestAccepts, handleVars, guestVars, callVars
<1>5. /\ rpc'[p] = r
  BY <1>3, <1>1 DEF TypeOK
<1>6. \A q \in Callers \ {p} : Same(q)
  BY <1>3, <1>4 DEF Same, TypeOK
<1>7. TypeOK'
  <2>1. rpc' \in [Callers -> Rpcs]
    <3>1. r \in Rpcs
      BY TypesOf, <1>1 DEF Rpcs, TypeOK
    <3> QED
      BY <1>3, <3>1 DEF TypeOK, Rpcs
  <2> QED
    BY <1>4, <2>1 DEF TypeOK, Rpcs, Results
<1>8. CallOf(p)'
  BY <1>4, <1>5, <1>1, TypesOf, FileAssumption DEF GuestAccepts, FileInv, CallerInv,
     CallOf, Streamed, Fetched, Unary, Ended, FileOps, RemoteContents
<1>9. SentOf(p)'
  BY <1>4, <1>5, <1>1, TypesOf, FileAssumption DEF GuestAccepts, FileInv, CallerInv,
     CallOf, SentOf, Streamed, Fetched, Unary, Ended, FileOps, RemoteContents
<1>10. ReceivedOf(p)'
  BY <1>4, <1>5, <1>1, TypesOf, FileAssumption DEF GuestAccepts, FileInv, CallerInv,
     CallOf, ReceivedOf, Streamed, Fetched, Unary, Ended, FileOps, RemoteContents
<1>11. AppliedOf(p)'
  BY <1>4, <1>5, <1>1, TypesOf, FileAssumption DEF GuestAccepts, FileInv, CallerInv,
     CallOf, AppliedOf, Streamed, Fetched, Unary, Ended, FileOps, RemoteContents
<1>12. pc'[p] = "idle" \/ (pc[p] # "idle" /\ call'[p] = call[p])
  BY <1>4, <1>5 DEF GuestAccepts, FileInv, CallerInv, CallOf
<1> QED
  BY <1>4, <1>6, <1>7, <1>8, <1>9, <1>10, <1>11, <1>12, MoveKeeps DEF CallerInv

\* The stream ends in an error.
LEMMA AnsweredKeeps ==
  ASSUME TypeOK, FileInv, NEW p \in Callers, GuestRejects(p) \/ GuestDeleted(p) \/ ContextEnds(p)
  PROVE  TypeOK' /\ FileInv'
<1>1. PICK s \in Ended :
        /\ rpc' = [rpc EXCEPT ![p].state = s]
        /\ s # "ok" /\ rpc[p].state # "none"
        /\ rpc[p].state = "ok" => s = "error"
        /\ rpc[p].state = "error" => s = "error"
  BY DEF GuestRejects, GuestDeleted, ContextEnds, StreamOpen, Answer, Ended
<1> DEFINE r == [state |-> s, token |-> rpc[p].token, got |-> rpc[p].got,
             snap |-> rpc[p].snap,
                   half |-> rpc[p].half]
<1>2. rpc \in [Callers -> Rpcs] /\ rpc[p] \in Rpcs
  BY DEF TypeOK, Rpcs
<1>3. /\ rpc' = [rpc EXCEPT ![p] = r]
  BY <1>2, <1>1, WithField
<1>4. UNCHANGED <<deleted, status, capability, valid, remote, published, applied, pc, op,
                call, attempt, cursor, data, reply, temp, result, dest, calls>>
  BY DEF GuestRejects, GuestDeleted, ContextEnds, handleVars, guestVars, callVars
<1>5. /\ rpc'[p] = r
  BY <1>3, <1>1 DEF TypeOK
<1>6. \A q \in Callers \ {p} : Same(q)
  BY <1>3, <1>4 DEF Same, TypeOK
<1>7. TypeOK'
  <2>1. rpc' \in [Callers -> Rpcs]
    <3>1. r \in Rpcs
      BY TypesOf, <1>1 DEF Rpcs, TypeOK
    <3> QED
      BY <1>3, <3>1 DEF TypeOK, Rpcs
  <2> QED
    BY <1>4, <2>1 DEF TypeOK, Rpcs, Results
<1>8. CallOf(p)'
  BY <1>4, <1>5, <1>1, TypesOf, FileAssumption DEF GuestRejects, GuestDeleted,
     ContextEnds, FileInv, CallerInv, CallOf, Streamed, Fetched, Unary, Ended,
     FileOps, RemoteContents
<1>9. SentOf(p)'
  <2>1. rpc'[p].state # "ok" /\ rpc'[p].got = rpc[p].got /\ rpc'[p].half = rpc[p].half
    BY <1>5, <1>1
  <2> QED
    BY <1>4, <2>1 DEF FileInv, CallerInv, SentOf
<1>10. ReceivedOf(p)'
  BY <1>4, <1>5, <1>1, TypesOf, FileAssumption DEF GuestRejects, GuestDeleted,
     ContextEnds, FileInv, CallerInv, CallOf, ReceivedOf, Streamed, Fetched, Unary,
     Ended, FileOps, RemoteContents
<1>11. AppliedOf(p)'
  <2>1. rpc'[p].state = s
    BY <1>5, <1>1
  <2> QED
    BY <1>4, <1>1, <2>1 DEF FileInv, CallerInv, AppliedOf
<1>12. pc'[p] = "idle" \/ (pc[p] # "idle" /\ call'[p] = call[p])
  BY <1>4, <1>5 DEF GuestRejects, GuestDeleted, ContextEnds, FileInv, CallerInv, CallOf
<1> QED
  BY <1>4, <1>6, <1>7, <1>8, <1>9, <1>10, <1>11, <1>12, MoveKeeps DEF CallerInv

\* The call returns, with an error or not.
LEMMA ReturnKeeps ==
  ASSUME TypeOK, FileInv, NEW p \in Callers, Returns(p)
  PROVE  TypeOK' /\ FileInv'
<1> DEFINE r == [state |-> "none", token |-> 0, got |-> <<>>, snap |-> <<>>,
                   half |-> FALSE]
<1>1. PICK res \in Results :
        /\ Return(p, res)
        /\ res.kind = "ok" /\ res.op \in {"ReadFile", "ListFiles"} => res.bytes \in RemoteContents
  BY DEF Returns
<1>2. rpc \in [Callers -> Rpcs] /\ rpc[p] \in Rpcs
  BY DEF TypeOK, Rpcs
<1>3. /\ result' = [result EXCEPT ![p] = res]
      /\ temp' = [temp EXCEPT ![p] = FALSE]
      /\ rpc' = [rpc EXCEPT ![p] = r]
      /\ op' = [op EXCEPT ![p] = "none"]
      /\ call' = [call EXCEPT ![p] = 0]
      /\ attempt' = [attempt EXCEPT ![p] = 1]
      /\ cursor' = [cursor EXCEPT ![p] = 0]
      /\ data' = [data EXCEPT ![p] = <<>>]
      /\ reply' = [reply EXCEPT ![p] = 0]
      /\ pc' = [pc EXCEPT ![p] = "idle"]
  BY <1>1 DEF Return, Goto, NoRpc
<1>4. UNCHANGED <<capability, valid, remote, published, applied, calls>>
  BY DEF Returns, Return, handleVars, guestVars, callVars
<1>5. /\ result'[p] = res
      /\ temp'[p] = FALSE
      /\ rpc'[p] = r
      /\ op'[p] = "none"
      /\ call'[p] = 0
      /\ attempt'[p] = 1
      /\ cursor'[p] = 0
      /\ data'[p] = <<>>
      /\ reply'[p] = 0
      /\ pc'[p] = "idle"
  BY <1>3, <1>1 DEF TypeOK
<1>6. \A q \in Callers \ {p} : Same(q)
  BY <1>3, <1>4 DEF Same, TypeOK
<1>7. TypeOK'
  <2>1. result' \in [Callers -> Results]
    BY <1>3 DEF TypeOK, Results
  <2>2. temp' \in [Callers -> BOOLEAN]
    BY <1>3 DEF TypeOK
  <2>3. rpc' \in [Callers -> Rpcs]
    <3>1. r \in Rpcs
      BY TypesOf, FileAssumption DEF Rpcs, TypeOK, Tokens, CallNumbers
    <3> QED
      BY <1>3, <3>1 DEF TypeOK, Rpcs
  <2>4. op' \in [Callers -> Ops \cup {"none"}]
    BY <1>3 DEF TypeOK
  <2>5. call' \in [Callers -> CallNumbers]
    BY <1>3, FileAssumption DEF TypeOK, CallNumbers
  <2>6. attempt' \in [Callers -> {1, 2}]
    BY <1>3 DEF TypeOK
  <2>7. cursor' \in [Callers -> 0 .. PayloadLen]
    BY <1>3, FileAssumption DEF TypeOK
  <2>8. data' \in [Callers -> Seq(Chunks)]
    BY <1>3 DEF TypeOK
  <2>9. reply' \in [Callers -> Tokens]
    BY <1>3, FileAssumption DEF TypeOK, Tokens, CallNumbers
  <2>10. pc' \in [Callers -> {"idle", "attempt", "send", "abandon", "wait", "recv",
                            "refresh", "store", "sync", "rename"}]
    BY <1>3 DEF TypeOK
  <2>11. deleted' \in BOOLEAN
    BY DEF Returns
  <2>12. status' \in {"running", "deleted", "failed"}
    BY DEF Returns
  <2>13. dest' \in [Callers -> Seq(Chunks)]
    BY TypesOf DEF Returns, TypeOK
  <2> QED
    BY <1>4, <2>1, <2>2, <2>3, <2>4, <2>5, <2>6, <2>7, <2>8, <2>9, <2>10, <2>11,
       <2>12, <2>13 DEF TypeOK, Rpcs, Results
<1>8. CallOf(p)'
  BY <1>4, <1>5, <1>1, TypesOf, FileAssumption DEF Returns, Return, FileInv,
     CallerInv, CallOf, Streamed, Fetched, Unary, Ended, FileOps, RemoteContents
<1>9. SentOf(p)'
  BY <1>4, <1>5, <1>1, TypesOf, FileAssumption DEF Returns, Return, FileInv,
     CallerInv, CallOf, SentOf, Streamed, Fetched, Unary, Ended, FileOps,
     RemoteContents
<1>10. ReceivedOf(p)'
  BY <1>4, <1>5, <1>1, TypesOf, FileAssumption DEF Returns, Return, FileInv,
     CallerInv, CallOf, ReceivedOf, Streamed, Fetched, Unary, Ended, FileOps,
     RemoteContents
<1>11. AppliedOf(p)'
  BY <1>4, <1>5, <1>1, TypesOf, FileAssumption DEF Returns, Return, FileInv,
     CallerInv, CallOf, AppliedOf, Streamed, Fetched, Unary, Ended, FileOps,
     RemoteContents
<1>12. pc'[p] = "idle" \/ (pc[p] # "idle" /\ call'[p] = call[p])
  BY <1>4, <1>5 DEF Returns, Return, FileInv, CallerInv, CallOf
<1>13. UNCHANGED dest \/ DownloadsWhole'
  <2>1. CASE data[p] \in RemoteContents /\ dest' = [dest EXCEPT ![p] = data[p]]
    <3>1. DownloadsWhole /\ RemoteContents' = RemoteContents
      BY <1>4 DEF FileInv, RemoteContents
    <3>2. dest'[p] \in RemoteContents /\ \A q \in Callers \ {p} : dest'[q] = dest[q]
      BY <2>1 DEF TypeOK
    <3> QED
      BY <3>1, <3>2 DEF DownloadsWhole
  <2> QED
    BY <2>1 DEF Returns
<1> QED
  BY <1>4, <1>6, <1>7, <1>8, <1>9, <1>10, <1>11, <1>12, <1>13, MoveKeeps DEF CallerInv

\* A call begins, under a new number.
LEMMA BeginKeeps ==
  ASSUME TypeOK, FileInv, NEW p \in Callers, Begin(p)
  PROVE  TypeOK' /\ FileInv'
<1>1. PICK o \in Ops :
        /\ op' = [op EXCEPT ![p] = o] /\ temp' = [temp EXCEPT ![p] = (o = "DownloadFile")]
        /\ pc[p] = "idle" /\ calls < MaxCalls /\ calls' = calls + 1
        /\ call' = [call EXCEPT ![p] = calls + 1] /\ pc' = [pc EXCEPT ![p] = "attempt"]
  BY DEF Begin, Goto
<1>2. UNCHANGED <<deleted, status, capability, valid, remote, published, applied, attempt,
                  cursor, data, reply, rpc, result, dest>>
  BY DEF Begin, handleVars, guestVars
<1>3. /\ op'[p] = o /\ call'[p] = calls + 1 /\ pc'[p] = "attempt"
      /\ calls \in Nat /\ calls' \in Nat /\ calls + 1 \in 1 .. MaxCalls
  BY <1>1, TypesOf, FileAssumption, SMTT(30) DEF TypeOK
<1>4. \A q \in Callers \ {p} : Same(q) /\ pc'[q] = pc[q] /\ call'[q] = call[q]
  BY <1>1, <1>2 DEF Same, TypeOK
<1>5. TypeOK'
  <2>1. /\ op' \in [Callers -> Ops \cup {"none"}] /\ temp' \in [Callers -> BOOLEAN]
    BY <1>1 DEF TypeOK
  <2>2. calls' \in CallNumbers /\ call' \in [Callers -> CallNumbers]
    BY <1>1, <1>3 DEF TypeOK, CallNumbers
  <2>3. pc' \in [Callers -> {"idle", "attempt", "send", "abandon", "wait", "recv",
                            "refresh", "store", "sync", "rename"}]
    BY <1>1 DEF TypeOK
  <2> QED
    BY <1>2, <2>1, <2>2, <2>3 DEF TypeOK, Rpcs, Results
<1>6. /\ rpc[p].state = "none" /\ data[p] = <<>> /\ o # "none"
      /\ \A k \in {1, 2} : <<calls + 1, k>> \notin applied
  BY <1>1, <1>3, FileAssumption DEF FileInv, CallerInv, CallOf, NumberInv, FileOps, Streamed,
     Fetched, Unary
<1>7. CallerInv(p)'
  <2>1. CallOf(p)'
    BY <1>1, <1>2, <1>3, <1>6 DEF CallOf
  <2>2. SentOf(p)' /\ AppliedOf(p)'
    BY <1>1, <1>2, <1>3, <1>6 DEF SentOf, AppliedOf
  <2>3. ReceivedOf(p)'
    BY <1>1, <1>2, <1>3, <1>6, FileAssumption DEF FileInv, CallerInv, ReceivedOf, RemoteContents
  <2> QED
    BY <2>1, <2>2, <2>3 DEF CallerInv
<1>8. ASSUME NEW q \in Callers PROVE CallerInv(q)'
  <2>1. CASE q # p
    <3>1. CallerInv(q) /\ Same(q)
      BY <1>4, <2>1 DEF FileInv
    <3>2. /\ published \subseteq published' /\ calls \in Nat /\ calls' \in Nat /\ calls <= calls'
          /\ \A k \in {1, 2} :
               pc[q] # "idle" /\ <<call[q], k>> \in applied' => <<call[q], k>> \in applied
      BY <1>1, <1>2, <1>3
    <3> QED
      BY <3>1, <3>2, SameKeeps
  <2> QED
    BY <1>7, <2>1
<1>9. NumberInv'
  <2>1. \A q \in Callers \ {p} : pc[q] # "idle" => call[q] \in 1 .. calls
    BY DEF FileInv, CallerInv, CallOf
  <2>2. \A q \in Callers \ {p} : call[q] \in 0 .. calls
    BY <1>3 DEF FileInv, CallerInv, CallOf
  <2>3. ASSUME NEW a \in Callers, NEW b \in Callers, pc'[a] # "idle", call'[a] = call'[b]
        PROVE  a = b
    BY <1>3, <1>4, <2>2, <2>3 DEF FileInv, NumberInv
  <2> QED
    BY <1>1, <1>2, <1>3, <2>3 DEF FileInv, NumberInv
<1>10. WritesWhole' /\ DownloadsWhole' /\ MutatesOnce'
  BY <1>2 DEF FileInv, WritesWhole, DownloadsWhole, RemoteContents, MutatesOnce
<1> QED
  BY <1>5, <1>8, <1>9, <1>10 DEF FileInv

\* The guest publishes the whole of a WriteFile.
LEMMA PublishKeeps ==
  ASSUME TypeOK, FileInv, NEW p \in Callers, GuestPublishes(p)
  PROVE  TypeOK' /\ FileInv'
<1> DEFINE f == [op |-> op[p], call |-> call[p], chunks |-> rpc[p].got]
           r == [state |-> "ok", token |-> rpc[p].token, got |-> rpc[p].got,
                 snap |-> rpc[p].snap, half |-> rpc[p].half]
<1>1. rpc \in [Callers -> Rpcs] /\ rpc[p] \in Rpcs
  BY DEF TypeOK, Rpcs
<1>2. /\ remote' = f /\ published' = published \cup {f}
      /\ op[p] \in Streamed /\ rpc[p].state = "accepted" /\ rpc[p].half
  BY DEF GuestPublishes
<1>3. rpc' = [rpc EXCEPT ![p] = r]
  BY <1>1, WithField DEF GuestPublishes, Answer
<1>4. UNCHANGED <<deleted, status, capability, valid, applied, pc, op, call, attempt,
                  cursor, data, reply, temp, result, dest, calls>>
  BY DEF GuestPublishes, handleVars, callVars
<1>5. rpc'[p] = r /\ \A q \in Callers \ {p} : Same(q)
  BY <1>3, <1>4 DEF Same, TypeOK
<1>6. pc[p] \in {"send", "abandon", "wait"} /\ pc[p] # "idle" /\ call[p] \in 1 .. calls
  BY <1>2 DEF FileInv, CallerInv, CallOf, Streamed, Fetched
<1>7. op[p] = "WriteFile" => f.chunks = Payload(f.call)
  <2> SUFFICES ASSUME op[p] = "WriteFile" PROVE rpc[p].got = Payload(call[p])
    OBVIOUS
  <2>1. /\ Len(rpc[p].got) = PayloadLen /\ cursor[p] = PayloadLen
        /\ \A i \in 1 .. Len(rpc[p].got) :
             rpc[p].got[i] = <<call[p], cursor[p] - Len(rpc[p].got) + i>>
    BY <1>2, <1>6 DEF FileInv, CallerInv, SentOf
  <2>2. \A i \in 1 .. PayloadLen : rpc[p].got[i] = <<call[p], i>>
    BY <2>1, FileAssumption
  <2>3. rpc[p].got = [i \in 1 .. PayloadLen |-> rpc[p].got[i]]
    <3>1. rpc[p].got \in Seq(Chunks)
      BY TypesOf
    <3>2. rpc[p].got \in [1 .. PayloadLen -> Chunks]
      BY <2>1, <3>1, LenProperties
    <3> QED
      BY <3>2
  <2> QED
    BY <2>2, <2>3 DEF Payload
<1>8. TypeOK'
  <2>1. f \in Files
    BY TypesOf DEF Files
  <2>2. r \in Rpcs
    BY TypesOf DEF Rpcs, Ended
  <2>3. rpc' \in [Callers -> Rpcs]
    BY <1>1, <1>3, <2>2
  <2>4. remote' \in published' /\ published' \subseteq Files
    BY <1>2, <2>1 DEF TypeOK
  <2> QED
    BY <1>4, <2>3, <2>4 DEF TypeOK, Rpcs, Results
<1>9. CallerInv(p)'
  <2>1. CallOf(p)'
    BY <1>4, <1>5, <1>6 DEF FileInv, CallerInv, CallOf
  <2>2. SentOf(p)'
    BY <1>2, <1>4, <1>5 DEF FileInv, CallerInv, SentOf
  <2>3. ReceivedOf(p)'
    BY <1>2, <1>4, <1>5, <1>6 DEF FileInv, CallerInv, ReceivedOf, RemoteContents
  <2>4. AppliedOf(p)'
    BY <1>2, <1>4, <1>5 DEF FileInv, CallerInv, AppliedOf
  <2> QED
    BY <2>1, <2>2, <2>3, <2>4 DEF CallerInv
<1>10. ASSUME NEW q \in Callers PROVE CallerInv(q)'
  <2>1. CASE q # p
    <3>1. CallerInv(q) /\ Same(q) /\ calls \in Nat
      BY <1>5, <2>1, TypesOf DEF FileInv
    <3>2. /\ published \subseteq published' /\ calls \in Nat /\ calls' \in Nat /\ calls <= calls'
          /\ \A k \in {1, 2} :
               pc[q] # "idle" /\ <<call[q], k>> \in applied' => <<call[q], k>> \in applied
      BY <1>2, <1>4, <3>1
    <3> QED
      BY <3>1, <3>2, SameKeeps
  <2> QED
    BY <1>9, <2>1
<1>11. NumberInv'
  BY <1>2, <1>4, <1>6, TypesOf DEF FileInv, NumberInv
<1>12. WritesWhole'
  BY <1>2, <1>7 DEF FileInv, WritesWhole
<1>13. DownloadsWhole' /\ MutatesOnce'
  BY <1>2, <1>4 DEF FileInv, DownloadsWhole, RemoteContents, MutatesOnce
<1> QED
  BY <1>8, <1>10, <1>11, <1>12, <1>13 DEF FileInv

\* A mutation is performed, in a run whose number it has not been performed under.
LEMMA AnswerKeeps ==
  ASSUME TypeOK, FileInv, NEW p \in Callers, GuestAnswers(p)
  PROVE  TypeOK' /\ FileInv'
<1> DEFINE r == [state |-> "ok", token |-> rpc[p].token, got |-> rpc[p].got,
                 snap |-> rpc[p].snap, half |-> rpc[p].half]
<1>1. rpc \in [Callers -> Rpcs] /\ rpc[p] \in Rpcs
  BY DEF TypeOK, Rpcs
<1>2. /\ applied' \in {applied, applied \cup {<<call[p], attempt[p]>>}}
      /\ op[p] \in Unary /\ rpc[p].state = "accepted"
  BY DEF GuestAnswers
<1>3. rpc' = [rpc EXCEPT ![p] = r]
  BY <1>1, WithField DEF GuestAnswers, Answer
<1>4. UNCHANGED <<deleted, status, capability, valid, remote, published, pc, op, call,
                  attempt, cursor, data, reply, temp, result, dest, calls>>
  BY DEF GuestAnswers, handleVars, callVars
<1>5. rpc'[p] = r /\ \A q \in Callers \ {p} : Same(q)
  BY <1>3, <1>4 DEF Same, TypeOK
<1>6. /\ pc[p] = "wait" /\ call[p] \in 1 .. calls /\ calls \in Nat
      /\ attempt[p] \in {1, 2} /\ call[p] \in CallNumbers
  BY <1>2, TypesOf DEF FileInv, CallerInv, CallOf, Streamed, Fetched, Unary
<1>7. \A k \in {1, 2} : <<call[p], k>> \notin applied
  BY <1>2, <1>6 DEF FileInv, CallerInv, AppliedOf
<1>8. TypeOK'
  <2>1. r \in Rpcs
    BY TypesOf DEF Rpcs, Ended
  <2>2. rpc' \in [Callers -> Rpcs]
    BY <1>1, <1>3, <2>1
  <2>3. applied' \subseteq CallNumbers \X {1, 2}
    BY <1>2, <1>6 DEF TypeOK
  <2> QED
    BY <1>4, <2>2, <2>3 DEF TypeOK, Rpcs, Results
<1>9. CallerInv(p)'
  <2>1. CallOf(p)'
    BY <1>4, <1>5, <1>6 DEF FileInv, CallerInv, CallOf
  <2>2. SentOf(p)'
    BY <1>2, <1>4, <1>5 DEF SentOf, Streamed, Unary
  <2>3. ReceivedOf(p)'
    BY <1>2, <1>4, <1>5, <1>6 DEF FileInv, CallerInv, ReceivedOf, RemoteContents
  <2>4. AppliedOf(p)'
    BY <1>2, <1>4, <1>5, <1>6, <1>7 DEF AppliedOf
  <2> QED
    BY <2>1, <2>2, <2>3, <2>4 DEF CallerInv
<1>10. ASSUME NEW q \in Callers PROVE CallerInv(q)'
  <2>1. CASE q # p
    <3>1. CallerInv(q) /\ Same(q)
      BY <1>5, <2>1 DEF FileInv
    <3>2. pc[q] # "idle" => call[q] # call[p]
      BY <2>1 DEF FileInv, NumberInv
    <3>3. /\ published \subseteq published' /\ calls \in Nat /\ calls' \in Nat /\ calls <= calls'
          /\ \A k \in {1, 2} :
               pc[q] # "idle" /\ <<call[q], k>> \in applied' => <<call[q], k>> \in applied
      BY <1>2, <1>4, <1>6, <3>2
    <3> QED
      BY <3>1, <3>3, SameKeeps
  <2> QED
    BY <1>9, <2>1
<1>11. NumberInv'
  BY <1>2, <1>4, <1>6 DEF FileInv, NumberInv
<1>12. MutatesOnce'
  <2>1. ASSUME NEW a \in applied, a[1] = call[p] PROVE FALSE
    <3>1. a = <<a[1], a[2]>> /\ a[2] \in {1, 2}
      BY DEF TypeOK
    <3> QED
      BY <1>7, <2>1, <3>1
  <2> QED
    BY <1>2, <2>1 DEF FileInv, MutatesOnce
<1>13. WritesWhole' /\ DownloadsWhole'
  BY <1>4 DEF FileInv, WritesWhole, DownloadsWhole, RemoteContents
<1> QED
  BY <1>8, <1>10, <1>11, <1>12, <1>13 DEF FileInv

\* What leaves the callers alone.
LEMMA IdleKeeps ==
  ASSUME TypeOK, FileInv, (\E t \in Tokens : CapabilityExpires(t)) \/ UNCHANGED vars
  PROVE  TypeOK' /\ FileInv'
<1>1. UNCHANGED <<deleted, status, capability, remote, published, applied, pc, op, call,
                  attempt, cursor, data, reply, temp, rpc, result, dest, calls>>
  BY DEF CapabilityExpires, vars, handleVars, guestVars, callVars
<1>2. valid' \subseteq valid
  BY DEF CapabilityExpires, vars, guestVars
<1>3. TypeOK'
  BY <1>1, <1>2 DEF TypeOK
<1>4. ASSUME NEW p \in Callers PROVE CallerInv(p)'
  <2>1. CallerInv(p) /\ Same(p) /\ calls \in Nat
    BY <1>1, TypesOf DEF FileInv, Same
  <2>2. /\ published \subseteq published' /\ calls' \in Nat /\ calls <= calls'
        /\ \A k \in {1, 2} :
             pc[p] # "idle" /\ <<call[p], k>> \in applied' => <<call[p], k>> \in applied
    BY <1>1, <2>1
  <2> QED
    BY <2>1, <2>2, SameKeeps
<1>5. NumberInv' /\ WritesWhole' /\ DownloadsWhole' /\ MutatesOnce'
  BY <1>1 DEF FileInv, NumberInv, WritesWhole, DownloadsWhole, RemoteContents, MutatesOnce
<1> QED
  BY <1>3, <1>4, <1>5 DEF FileInv

\* Every step keeps the types and the invariant.
LEMMA FileInvStep == TypeOK /\ FileInv /\ [Next]_vars => TypeOK' /\ FileInv'
<1> SUFFICES ASSUME TypeOK, FileInv, [Next]_vars PROVE TypeOK' /\ FileInv'
  OBVIOUS
<1>1. ASSUME NEW p \in Callers, Goes(p) PROVE TypeOK' /\ FileInv'
  BY <1>1, AttemptKeeps, SendChunkKeeps, SendEndsKeeps, RecvChunkKeeps, ReceiveEndsKeeps,
     SyncKeeps, RejectedKeeps, RefreshKeeps, StoreRefreshKeeps DEF Goes
<1>2. ASSUME NEW p \in Callers, CallStep(p) PROVE TypeOK' /\ FileInv'
  BY <1>1, <1>2, CallStepCases, ReturnKeeps
<1>3. ASSUME NEW p \in Callers, GuestStep(p) \/ ContextEnds(p) PROVE TypeOK' /\ FileInv'
  BY <1>3, AcceptedKeeps, AnsweredKeeps, PublishKeeps, AnswerKeeps DEF GuestStep
<1> QED
  BY <1>2, <1>3, BeginKeeps, IdleKeeps DEF Next

\* The types and the inductive invariant hold in every state, however the calls of
\* files.go, their second runs, the guest and the deadlines interleave.
THEOREM FileInvariant == Spec => [](TypeOK /\ FileInv)
BY InitInv, FileInvStep, PTL DEF Spec

(***************************************************************************)
(* What the runs check of FileTransfer.                                    *)
(***************************************************************************)
\* The types of the handle, the guest and the calls in progress.
THEOREM TypeCorrect == Spec => []TypeOK
BY FileInvariant, PTL

\* WriteFile puts the whole of its bytes at the remote path or leaves it alone
\* (writeFileStream, files.go): its second run sends the slice from its start,
\* and the guest publishes only what was half-closed after the last chunk.
THEOREM WritesAreWhole == Spec => []WritesWhole
<1>1. FileInv => WritesWhole
  BY DEF FileInv
<1> QED
  BY <1>1, FileInvariant, PTL

\* DownloadFile leaves its destination alone or renames onto it the whole of
\* one remote file: truncating the temporary file before each run keeps the
\* bytes of the first run out.
THEOREM DownloadsAreWhole == Spec => []DownloadsWhole
<1>1. FileInv => DownloadsWhole
  BY DEF FileInv
<1> QED
  BY <1>1, FileInvariant, PTL

\* ReadFile stops before its limit is passed, and what it returns is whole.
THEOREM ReadsAreBounded == Spec => []ReadsBounded
<1>1. FileInv => ReadsBounded
  BY DEF FileInv, CallerInv, ReceivedOf, ReadsBounded
<1> QED
  BY <1>1, FileInvariant, PTL

\* withFileCapabilityRefresh runs MkdirFile, RemoveFile and MoveFile again only
\* when the guest refused them: no call is performed twice.
THEOREM MutatesAtMostOnce == Spec => []MutatesOnce
<1>1. FileInv => MutatesOnce
  BY DEF FileInv
<1> QED
  BY <1>1, FileInvariant, PTL

(***************************************************************************)
(* FileTransfer implements AtomicFiles.                                    *)
(***************************************************************************)
\* AtomicFiles sees the same of q.
Unseen(q) == WroteIn(q)' = WroteIn(q) /\ SeenBy(q)' = SeenBy(q)

\* A call that is untouched looks the same to the contract.
LEMMA SameIsUnseen ==
  ASSUME NEW q \in Callers, Same(q), UNCHANGED published
  PROVE  Unseen(q)
BY DEF Same, Unseen, WroteIn, SeenBy

\* A step that shows nothing is a stuttering step of the contract.
LEMMA UnseenStutters ==
  ASSUME UNCHANGED <<remote, op, call, dest, result>>, \A q \in Callers : Unseen(q)
  PROVE  UNCHANGED Atomic!filesVars
BY DEF Unseen, Atomic!filesVars

\* What AtomicFiles has seen of p, by the stage of p's call.
LEMMA SeenOf ==
  ASSUME TypeOK, FileInv, NEW p \in Callers
  PROVE  /\ op[p] \in Fetched /\ rpc[p].state # "none" => pc[p] = "recv"
         /\ pc[p] = "recv" /\ rpc[p].state = "accepted" => SeenBy(p) = <<rpc[p].snap>>
         /\ pc[p] \in {"sync", "rename"} => SeenBy(p) = <<data[p]>>
         /\ pc[p] \notin {"sync", "rename"} /\ rpc[p].state # "accepted" => SeenBy(p) = <<>>
         /\ op[p] \notin Fetched => SeenBy(p) = <<>>
<1>1. CallOf(p)
  BY DEF FileInv, CallerInv
<1> QED
  BY <1>1 DEF CallOf, SeenBy, Fetched, Streamed, Unary

\* When AtomicFiles keeps what it has seen of p.
LEMMA SeenStays ==
  ASSUME NEW p \in Callers, op'[p] = op[p],
         \/ /\ pc[p] \notin {"sync", "rename"} /\ pc'[p] \notin {"sync", "rename"}
            /\ \/ op[p] \notin Fetched
               \/ rpc[p].state # "accepted" /\ rpc'[p].state # "accepted"
               \/ rpc'[p].state = rpc[p].state /\ rpc'[p].snap = rpc[p].snap
         \/ /\ pc[p] \in {"sync", "rename"} /\ pc'[p] \in {"sync", "rename"}
            /\ rpc[p].state # "accepted" /\ rpc'[p].state # "accepted"
            /\ data'[p] = data[p]
  PROVE  SeenBy(p)' = SeenBy(p)
<1>1. CASE pc[p] \in {"sync", "rename"}
  <2>1. /\ pc'[p] \in {"sync", "rename"} /\ data'[p] = data[p]
        /\ rpc[p].state # "accepted" /\ rpc'[p].state # "accepted"
    BY <1>1
  <2> QED
    BY <1>1, <2>1 DEF SeenBy
<1>2. CASE op[p] \in Fetched /\ rpc[p].state = "accepted" /\ pc[p] \notin {"sync", "rename"}
  <2>1. /\ pc'[p] \notin {"sync", "rename"} /\ op'[p] \in Fetched
        /\ rpc'[p].state = "accepted" /\ rpc'[p].snap = rpc[p].snap
    BY <1>2
  <2>2. SeenBy(p) = <<rpc[p].snap>>
    BY <1>2 DEF SeenBy
  <2>3. SeenBy(p)' = <<rpc'[p].snap>>
    BY <2>1 DEF SeenBy
  <2> QED
    BY <2>1, <2>2, <2>3
<1>3. CASE /\ ~(op[p] \in Fetched /\ rpc[p].state = "accepted")
           /\ pc[p] \notin {"sync", "rename"}
  <2>1. /\ pc'[p] \notin {"sync", "rename"}
        /\ ~(op'[p] \in Fetched /\ rpc'[p].state = "accepted")
    BY <1>3
  <2> QED
    BY <1>3, <2>1 DEF SeenBy
<1> QED
  BY <1>1, <1>2, <1>3

\* The steps of a call that are none of the contract's.
LEMMA GoesUnseen ==
  ASSUME TypeOK, FileInv, NEW p \in Callers, Goes(p)
  PROVE  UNCHANGED Atomic!filesVars
<1>1. UNCHANGED <<remote, op, call, dest, result, published>>
  BY DEF Goes, Attempt, SendChunk, LocalReadFails, SendEnds, RecvChunk, RecvEnds, SyncTemp,
     AttemptError, Refresh, StoreRefresh, guestVars
<1>2. \A q \in Callers \ {p} : Same(q)
  <2> USE DEF Same, Goto, TypeOK
  <2>1. CASE Attempt(p)
    BY <2>1 DEF Attempt
  <2>2. CASE SendChunk(p)
    BY <2>2 DEF SendChunk
  <2>3. CASE LocalReadFails(p) \/ SendEnds(p)
    BY <2>3 DEF LocalReadFails, SendEnds
  <2>4. CASE RecvChunk(p) /\ ~OverLimit(p)
    BY <2>4 DEF RecvChunk
  <2>5. CASE RecvEnds(p) /\ op[p] = "DownloadFile"
    BY <2>5 DEF RecvEnds
  <2>6. CASE SyncTemp(p)
    BY <2>6 DEF SyncTemp
  <2>7. CASE AttemptError(p) /\ MayRefresh(p)
    BY <2>7 DEF AttemptError
  <2>8. CASE Refresh(p) \/ StoreRefresh(p)
    BY <2>8 DEF Refresh, StoreRefresh
  <2> QED
    BY <2>1, <2>2, <2>3, <2>4, <2>5, <2>6, <2>7, <2>8 DEF Goes
<1>3. SeenBy(p)' = SeenBy(p)
  <2>1. CallOf(p) /\ op'[p] = op[p] /\ rpc[p] \in Rpcs /\ rpc \in [Callers -> Rpcs]
    BY <1>1, TypesOf DEF FileInv, CallerInv, TypeOK, Rpcs
  <2>2. CASE Attempt(p)
    <3>1. pc[p] = "attempt" /\ pc'[p] \in {"send", "recv", "wait"}
          /\ rpc'[p].state = "open" /\ rpc[p].state # "accepted"
      <4>1. pc[p] = "attempt" /\ op[p] \in FileOps /\ rpc[p].state = "none"
        BY <2>1, <2>2, TypesOf DEF Attempt, CallOf
      <4>2. CASE op[p] \in Streamed
        BY <2>1, <2>2, <4>1, <4>2 DEF Attempt, Goto, TypeOK, Streamed, Fetched, Unary
      <4>3. CASE op[p] \in Fetched
        BY <2>1, <2>2, <4>1, <4>3 DEF Attempt, Goto, TypeOK, Streamed, Fetched, Unary
      <4>4. CASE op[p] \in Unary
        BY <2>1, <2>2, <4>1, <4>4 DEF Attempt, Goto, TypeOK, Streamed, Fetched, Unary
      <4> QED
        BY <4>1, <4>2, <4>3, <4>4 DEF FileOps
    <3> QED
      BY <2>1, <3>1, SeenStays
  <2>3. CASE SendChunk(p) \/ LocalReadFails(p) \/ SendEnds(p)
    <3>1. op[p] \notin Fetched /\ pc[p] = "send" /\ pc'[p] \in {"send", "abandon", "wait"}
      BY <2>1, <2>3 DEF SendChunk, LocalReadFails, SendEnds, Goto, CallOf, Streamed, Fetched, TypeOK
    <3> QED
      BY <2>1, <3>1, SeenStays
  <2>4. CASE RecvChunk(p) /\ ~OverLimit(p)
    <3> DEFINE x == Append(rpc[p].got, rpc[p].snap[Received(p) + 1])
    <3>1. pc[p] = "recv" /\ pc'[p] = "recv" /\ rpc' = [rpc EXCEPT ![p].got = x]
      BY <2>4 DEF RecvChunk
    <3> HIDE DEF x
    <3>2. rpc'[p] = [rpc[p] EXCEPT !.got = x]
      BY <2>1, <3>1
    <3>3. rpc'[p].state = rpc[p].state /\ rpc'[p].snap = rpc[p].snap
      BY <2>1, <3>2, WithField
    <3> QED
      BY <2>1, <3>1, <3>3, SeenStays
  <2>5. CASE RecvEnds(p) /\ op[p] = "DownloadFile"
    <3>1. /\ pc[p] = "recv" /\ rpc[p].state = "accepted" /\ pc'[p] = "sync"
          /\ data'[p] = data[p] /\ data[p] = rpc[p].snap /\ rpc'[p].state = "none"
      BY <2>1, <2>5, WholeReceived DEF RecvEnds, Goto, NoRpc, TypeOK
    <3>2. SeenBy(p) = <<rpc[p].snap>>
      BY <2>5, <3>1, SeenOf
    <3>3. SeenBy(p)' = <<data'[p]>>
      BY <3>1 DEF SeenBy
    <3> QED
      BY <3>1, <3>2, <3>3
  <2>6. CASE SyncTemp(p)
    <3>1. /\ pc[p] = "sync" /\ pc'[p] = "rename" /\ data'[p] = data[p]
          /\ rpc[p].state = "none" /\ rpc'[p].state = "none"
      BY <2>1, <2>6 DEF SyncTemp, Goto, CallOf, TypeOK
    <3> QED
      BY <2>1, <3>1, SeenStays
  <2>7. CASE AttemptError(p) /\ MayRefresh(p)
    <3>1. /\ pc[p] \in {"wait", "recv"} /\ pc'[p] = "refresh"
          /\ rpc[p].state = "rejected" /\ rpc'[p].state = "none"
      BY <2>1, <2>7 DEF AttemptError, MayRefresh, Refreshable, Goto, NoRpc, TypeOK
    <3> QED
      BY <2>1, <3>1, SeenStays
  <2>8. CASE Refresh(p) \/ StoreRefresh(p)
    <3>1. /\ pc[p] \in {"refresh", "store"} /\ pc'[p] \in {"store", "attempt"}
          /\ rpc'[p] = rpc[p]
      BY <2>8 DEF Refresh, StoreRefresh, Goto, TypeOK
    <3> QED
      BY <2>1, <3>1, SeenStays
  <2> QED
    BY <2>2, <2>3, <2>4, <2>5, <2>6, <2>7, <2>8 DEF Goes
<1>4. Unseen(p)
  BY <1>1, <1>3 DEF Unseen, WroteIn
<1>5. \A q \in Callers : Unseen(q)
  BY <1>1, <1>2, <1>4, SameIsUnseen
<1> QED
  BY <1>1, <1>5, UnseenStutters

\* The remote file is opened for a read: Look.
LEMMA AcceptRefines ==
  ASSUME TypeOK, FileInv, NEW p \in Callers, GuestAccepts(p)
  PROVE  Atomic!Look(p) \/ UNCHANGED Atomic!filesVars
<1>1. /\ UNCHANGED <<remote, published, op, call, pc, data, dest, result>>
      /\ rpc[p].state = "open" /\ rpc \in [Callers -> Rpcs]
      /\ rpc'[p].state = "accepted" /\ rpc'[p].snap = remote.chunks
  BY DEF GuestAccepts, guestVars, callVars, TypeOK, Rpcs
<1>2. \A q \in Callers \ {p} : Same(q)
  BY DEF GuestAccepts, callVars, guestVars, Same, TypeOK
<1>3. \A q \in Callers \ {p} : Unseen(q)
  BY <1>1, <1>2, SameIsUnseen
<1>4. WroteIn(p)' = WroteIn(p)
  BY <1>1 DEF WroteIn
<1>5. CASE op[p] \in Fetched
  <2>1. pc'[p] = "recv" /\ op'[p] \in Fetched
    BY <1>1, <1>5, SeenOf
  <2>2. SeenBy(p)' = <<remote.chunks>>
    BY <1>1, <2>1 DEF SeenBy
  <2>3. [q \in Callers |-> SeenBy(q)]'
          = [[q \in Callers |-> SeenBy(q)] EXCEPT ![p] = <<remote.chunks>>]
    BY <1>3, <2>2 DEF Unseen
  <2>4. [q \in Callers |-> WroteIn(q)]' = [q \in Callers |-> WroteIn(q)]
    BY <1>3, <1>4 DEF Unseen
  <2> QED
    BY <1>1, <1>5, <2>3, <2>4 DEF Atomic!Look, Atomic!Reads, Fetched
<1>6. CASE op[p] \notin Fetched
  <2>1. pc[p] \notin {"sync", "rename"}
    BY <1>1 DEF FileInv, CallerInv, CallOf
  <2>2. SeenBy(p)' = SeenBy(p)
    BY <1>1, <1>6, <2>1, SeenStays
  <2>3. \A q \in Callers : Unseen(q)
    BY <1>3, <1>4, <2>2 DEF Unseen
  <2> QED
    BY <1>1, <2>3, UnseenStutters
<1> QED
  BY <1>5, <1>6

\* A read that the guest or its context ends may look again: LookAgain.
LEMMA AnsweredRefines ==
  ASSUME TypeOK, FileInv, NEW p \in Callers,
         GuestRejects(p) \/ GuestDeleted(p) \/ ContextEnds(p)
  PROVE  Atomic!LookAgain(p) \/ UNCHANGED Atomic!filesVars
<1>1. PICK s \in Ended : rpc' = [rpc EXCEPT ![p].state = s] /\ rpc[p].state # "none"
  BY DEF GuestRejects, GuestDeleted, ContextEnds, StreamOpen, Answer, Ended
<1>2. UNCHANGED <<remote, published, op, call, pc, attempt, cursor, temp, data, dest, result>>
  BY DEF GuestRejects, GuestDeleted, ContextEnds, guestVars, callVars
<1>3. rpc \in [Callers -> Rpcs] /\ rpc'[p].state = s /\ s # "accepted"
  BY <1>1 DEF TypeOK, Rpcs, Ended
<1>4. \A q \in Callers \ {p} : Unseen(q)
  BY <1>1, <1>2, <1>3, SameIsUnseen DEF Same
<1>5. WroteIn(p)' = WroteIn(p)
  BY <1>2 DEF WroteIn
<1>6. pc[p] \notin {"sync", "rename"}
  BY <1>1 DEF FileInv, CallerInv, CallOf
<1>7. CASE op[p] \in Fetched
  <2>1. SeenBy(p)' = <<>>
    BY <1>2, <1>3, <1>6 DEF SeenBy
  <2>2. [q \in Callers |-> SeenBy(q)]' = [[q \in Callers |-> SeenBy(q)] EXCEPT ![p] = <<>>]
    BY <1>4, <2>1 DEF Unseen
  <2>3. [q \in Callers |-> WroteIn(q)]' = [q \in Callers |-> WroteIn(q)]
    BY <1>4, <1>5 DEF Unseen
  <2> QED
    BY <1>2, <1>7, <2>2, <2>3 DEF Atomic!LookAgain, Atomic!Reads, Fetched
<1>8. CASE op[p] \notin Fetched
  <2>1. SeenBy(p)' = SeenBy(p)
    BY <1>2, <1>6, <1>8, SeenStays
  <2>2. \A q \in Callers : Unseen(q)
    BY <1>4, <1>5, <2>1 DEF Unseen
  <2> QED
    BY <1>2, <2>2, UnseenStutters
<1> QED
  BY <1>7, <1>8

\* StatFile and the mutations are not about the contents.
LEMMA AnswerRefines ==
  ASSUME TypeOK, FileInv, NEW p \in Callers, GuestAnswers(p)
  PROVE  UNCHANGED Atomic!filesVars
<1>1. UNCHANGED <<remote, published, op, call, pc, attempt, cursor, temp, data, dest, result>>
  BY DEF GuestAnswers, callVars
<1>2. op[p] \notin Fetched /\ pc[p] \notin {"sync", "rename"}
  BY DEF GuestAnswers, Unary, Fetched, FileInv, CallerInv, CallOf
<1>3. SeenBy(p)' = SeenBy(p)
  BY <1>1, <1>2, SeenStays
<1>4. \A q \in Callers \ {p} : Same(q)
  BY <1>1 DEF GuestAnswers, Answer, Same, TypeOK
<1>5. \A q \in Callers : Unseen(q)
  BY <1>1, <1>3, <1>4, SameIsUnseen DEF Unseen, WroteIn
<1> QED
  BY <1>1, <1>5, UnseenStutters

\* Consecutive chunks of a payload are a piece of it.
LEMMA PieceOfPayload ==
  ASSUME NEW x, NEW c \in 0 .. PayloadLen, NEW got \in Seq(Chunks), Len(got) <= c,
         \A k \in 1 .. Len(got) : got[k] = <<x, c - Len(got) + k>>
  PROVE  \E i \in 1 .. PayloadLen + 1, j \in 0 .. PayloadLen : got = SubSeq(Payload(x), i, j)
<1> DEFINE n == Len(got)
           m == c - n + 1
           bytes == Payload(x)
<1>1. n \in Nat /\ c \in Nat /\ PayloadLen \in Nat /\ n <= c /\ c <= PayloadLen
  BY FileAssumption, LenProperties
<1>2. got = [k \in 1 .. n |-> got[k]]
  BY LenProperties
<1>3. \A k \in 1 .. PayloadLen : bytes[k] = <<x, k>>
  BY DEF Payload
<1>4. \A k \in 1 .. n : got[k] = <<x, c - n + k>>
  OBVIOUS
<1> HIDE DEF n, bytes
<1>5. m \in 1 .. PayloadLen + 1 /\ c \in 0 .. PayloadLen /\ c - m + 1 = n
  BY <1>1
<1>6. SubSeq(bytes, m, c) = [k \in 1 .. n |-> bytes[m + k - 1]]
  BY <1>1
<1>7. ASSUME NEW k \in 1 .. n PROVE bytes[m + k - 1] = got[k]
  <2>1. m + k - 1 \in 1 .. PayloadLen /\ m + k - 1 = c - n + k
    BY <1>1
  <2> QED
    BY <1>3, <1>4, <2>1
<1>8. SubSeq(bytes, m, c) = got
  BY <1>2, <1>6, <1>7
<1> QED
  BY <1>5, <1>8 DEF bytes

\* The guest publishes: Write.
LEMMA PublishRefines ==
  ASSUME TypeOK, FileInv, NEW p \in Callers, GuestPublishes(p)
  PROVE  Atomic!Write(p)
<1> DEFINE f == [op |-> op[p], call |-> call[p], chunks |-> rpc[p].got]
<1>1. /\ remote' = f /\ published' = published \cup {f}
      /\ op[p] \in Streamed /\ rpc[p].state = "accepted" /\ rpc[p].half
      /\ UNCHANGED <<pc, op, call, attempt, cursor, temp, data, dest, result>>
  BY DEF GuestPublishes, callVars
<1>2. pc[p] \in {"send", "abandon", "wait"} /\ op[p] \notin Fetched
  BY <1>1 DEF FileInv, CallerInv, CallOf, Streamed, Fetched
<1>3. \A q \in Callers \ {p} : Same(q)
  BY <1>1 DEF GuestPublishes, Answer, Same, TypeOK
<1>4. \A q \in Callers \ {p} : SeenBy(q)' = SeenBy(q)
  BY <1>3 DEF Same, SeenBy
<1>5. ASSUME NEW q \in Callers \ {p} PROVE WroteIn(q)' = WroteIn(q)
  <2>1. op[q] \in Streamed => f.call # call[q]
    BY <1>1, <1>2 DEF FileInv, CallerInv, CallOf, NumberInv, Streamed
  <2> QED
    BY <1>1, <2>1 DEF WroteIn
<1>6. SeenBy(p)' = SeenBy(p) /\ WroteIn(p)' = TRUE
  <2>1. SeenBy(p)' = SeenBy(p)
    BY <1>1, <1>2, SeenStays
  <2>2. WroteIn(p)'
    BY <1>1 DEF WroteIn
  <2> QED
    BY <2>1, <2>2 DEF WroteIn
<1>7. [q \in Callers |-> WroteIn(q)]' = [[q \in Callers |-> WroteIn(q)] EXCEPT ![p] = TRUE]
  BY <1>5, <1>6
<1>8. [q \in Callers |-> SeenBy(q)]' = [q \in Callers |-> SeenBy(q)]
  BY <1>4, <1>6
<1>9. rpc[p].got \in Atomic!Versions(p)
  <2> DEFINE got == rpc[p].got
  <2>1. /\ Len(got) \in Nat /\ Len(got) <= cursor[p] /\ cursor[p] \in 0 .. PayloadLen
        /\ \A k \in 1 .. Len(got) : got[k] = <<call[p], cursor[p] - Len(got) + k>>
        /\ op[p] = "WriteFile" => Len(got) = PayloadLen /\ cursor[p] = PayloadLen
        /\ got \in Seq(Chunks)
    BY <1>1, <1>2, TypesOf DEF FileInv, CallerInv, SentOf
  <2>2. Len(Payload(call[p])) = PayloadLen /\ PayloadLen \in Nat
    BY FileAssumption DEF Payload
  <2>3. op[p] = "WriteFile" => got = Payload(call[p])
    <3> SUFFICES ASSUME op[p] = "WriteFile" PROVE got = Payload(call[p])
      OBVIOUS
    <3>1. \A k \in 1 .. PayloadLen : got[k] = <<call[p], k>>
      BY <2>1, <2>2
    <3>2. got \in [1 .. PayloadLen -> Chunks]
      BY <2>1, LenProperties
    <3> QED
      BY <3>1, <3>2 DEF Payload
  <2>4. CASE op[p] = "WriteFile"
    BY <2>4, <2>3 DEF Atomic!Versions
  <2>5. CASE op[p] # "WriteFile"
    <3>1. PICK i \in 1 .. PayloadLen + 1, j \in 0 .. PayloadLen :
            got = SubSeq(Payload(call[p]), i, j)
      BY <2>1, PieceOfPayload
    <3>2. i \in 1 .. Len(Payload(call[p])) + 1 /\ j \in 0 .. Len(Payload(call[p]))
      BY <2>2
    <3> DEFINE Piece(k, l) == SubSeq(Payload(call[p]), k, l)
               A == 1 .. Len(Payload(call[p])) + 1
               B == 0 .. Len(Payload(call[p]))
    <3>3. got = Piece(i, j) /\ i \in A /\ j \in B
      BY <3>1, <3>2
    <3> HIDE DEF Piece, A, B, got
    <3>4. got \in {Piece(k, l) : k \in A, l \in B}
      BY <3>3, SMT
    <3> QED
      BY <2>5, <3>4 DEF Atomic!Versions, Piece, A, B, got
  <2> QED
    BY <2>4, <2>5
<1> QED
  BY <1>1, <1>7, <1>8, <1>9 DEF Atomic!Write, Atomic!Writes, Streamed

\* A call begins, under a number no call in progress has.
LEMMA BeginRefines ==
  ASSUME TypeOK, FileInv, NEW p \in Callers, Begin(p)
  PROVE  Atomic!Begin(p)
<1>1. PICK o \in Ops : op' = [op EXCEPT ![p] = o]
  BY DEF Begin
<1>2. /\ pc[p] = "idle" /\ calls < MaxCalls /\ call' = [call EXCEPT ![p] = calls + 1]
      /\ pc' = [pc EXCEPT ![p] = "attempt"]
      /\ UNCHANGED <<remote, published, data, rpc, dest, result>>
  BY DEF Begin, Goto, handleVars, guestVars
<1>3. op[p] = "none" /\ rpc[p].state = "none" /\ calls \in Nat /\ MaxCalls \in Nat
  BY <1>2, TypesOf, FileAssumption DEF FileInv, CallerInv, CallOf
<1>4. ASSUME NEW q \in Callers PROVE call[q] < calls + 1
  BY <1>3, TypesOf DEF FileInv, CallerInv, CallOf
<1>5. \A q \in Callers \ {p} : op'[q] = op[q] /\ call'[q] = call[q] /\ pc'[q] = pc[q]
  BY <1>1, <1>2 DEF TypeOK
<1>6. op'[p] = o /\ call'[p] = calls + 1 /\ pc'[p] = "attempt"
  BY <1>1, <1>2 DEF TypeOK
<1>7. WroteIn(p)' = WroteIn(p)
  <2>1. ~WroteIn(p)
    BY <1>3 DEF WroteIn, Streamed
  <2>2. \A f \in published : f.call # calls + 1
    BY <1>3 DEF FileInv, NumberInv
  <2>3. ~WroteIn(p)'
    BY <1>2, <1>6, <2>2 DEF WroteIn
  <2> QED
    BY <2>1, <2>3 DEF WroteIn
<1>8. SeenBy(p)' = SeenBy(p)
  <2>1. SeenBy(p) = <<>>
    BY <1>2, <1>3 DEF SeenBy
  <2>2. SeenBy(p)' = <<>>
    BY <1>2, <1>3, <1>6 DEF SeenBy
  <2> QED
    BY <2>1, <2>2
<1>9. ASSUME NEW q \in Callers PROVE WroteIn(q)' = WroteIn(q) /\ SeenBy(q)' = SeenBy(q)
  <2>1. CASE q # p
    BY <1>2, <1>5, <2>1 DEF WroteIn, SeenBy
  <2> QED
    BY <1>7, <1>8, <2>1
<1>10. \E n \in 1 .. MaxCalls :
         /\ \A q \in Callers : call[q] < n
         /\ call' = [call EXCEPT ![p] = n]
  <2>1. calls + 1 \in 1 .. MaxCalls
    BY <1>2, <1>3
  <2> QED
    BY <1>2, <1>4, <2>1
<1> QED
  BY <1>1, <1>2, <1>3, <1>9, <1>10 DEF Atomic!Begin

\* What a call returns is what AtomicFiles lets it return.
Earns(p, res) ==
  [kind |-> res.kind, bytes |-> res.bytes] \in Atomic!Earned(p) \cup {Atomic!Error}

Ends(p) ==
  /\ pc[p] # "idle"
  /\ UNCHANGED <<remote, published>>
  /\ \E res \in Results :
       /\ Return(p, res)
       /\ \/ UNCHANGED dest /\ Earns(p, res)
          \/ /\ op[p] = "DownloadFile" /\ SeenBy(p) = <<data[p]>>
             /\ res.kind = "ok" /\ res.bytes = <<>>
             /\ dest' = [dest EXCEPT ![p] = data[p]]

\* The end of a call is a Return of the contract.
LEMMA EndsRefines ==
  ASSUME TypeOK, FileInv, NEW p \in Callers, Ends(p)
  PROVE  Atomic!Return(p)
<1>1. PICK res \in Results :
        /\ Return(p, res)
        /\ \/ UNCHANGED dest /\ Earns(p, res)
           \/ /\ op[p] = "DownloadFile" /\ SeenBy(p) = <<data[p]>>
              /\ res.kind = "ok" /\ res.bytes = <<>>
              /\ dest' = [dest EXCEPT ![p] = data[p]]
  BY DEF Ends
<1>2. /\ pc' = [pc EXCEPT ![p] = "idle"] /\ op' = [op EXCEPT ![p] = "none"]
      /\ call' = [call EXCEPT ![p] = 0] /\ rpc' = [rpc EXCEPT ![p] = NoRpc]
      /\ data' = [data EXCEPT ![p] = <<>>] /\ result' = [result EXCEPT ![p] = res]
      /\ UNCHANGED <<remote, published>> /\ op[p] # "none"
  BY <1>1 DEF Ends, Return, Goto, FileInv, CallerInv, CallOf
<1>3. /\ pc'[p] = "idle" /\ op'[p] = "none" /\ rpc'[p].state = "none" /\ result'[p] = res
  BY <1>2 DEF NoRpc, TypeOK
<1>4. ~WroteIn(p)' /\ SeenBy(p)' = <<>>
  BY <1>3 DEF WroteIn, SeenBy, Streamed
<1>5. ASSUME NEW q \in Callers \ {p} PROVE WroteIn(q)' = WroteIn(q) /\ SeenBy(q)' = SeenBy(q)
  <2>1. /\ op'[q] = op[q] /\ call'[q] = call[q] /\ rpc'[q] = rpc[q] /\ pc'[q] = pc[q]
        /\ data'[q] = data[q]
    BY <1>2 DEF TypeOK
  <2> QED
    BY <1>2, <2>1 DEF WroteIn, SeenBy
<1>6. [q \in Callers |-> WroteIn(q)]' = [[q \in Callers |-> WroteIn(q)] EXCEPT ![p] = FALSE]
  <2>1. WroteIn(p)' = FALSE
    BY <1>4 DEF WroteIn
  <2> QED
    BY <1>5, <2>1
<1>7. [q \in Callers |-> SeenBy(q)]' = [[q \in Callers |-> SeenBy(q)] EXCEPT ![p] = <<>>]
  BY <1>4, <1>5
<1> DEFINE a == [kind |-> res.kind, bytes |-> res.bytes]
<1>8. [q \in Callers |-> [kind |-> result[q].kind, bytes |-> result[q].bytes]]'
        = [[q \in Callers |-> [kind |-> result[q].kind, bytes |-> result[q].bytes]]
             EXCEPT ![p] = a]
  BY <1>2, <1>3 DEF TypeOK
<1>9. \/ UNCHANGED dest /\ a \in Atomic!Earned(p) \cup {Atomic!Error}
      \/ /\ op[p] = "DownloadFile" /\ SeenBy(p) = <<data[p]>>
         /\ a = Atomic!Ok(<<>>)
         /\ dest' = [dest EXCEPT ![p] = data[p]]
  BY <1>1 DEF Earns, Atomic!Ok
<1> HIDE DEF a
<1>10. CASE UNCHANGED dest /\ a \in Atomic!Earned(p) \cup {Atomic!Error}
  BY <1>2, <1>6, <1>7, <1>8, <1>10 DEF Atomic!Return
<1>11. CASE /\ op[p] = "DownloadFile" /\ SeenBy(p) = <<data[p]>>
            /\ a = Atomic!Ok(<<>>)
            /\ dest' = [dest EXCEPT ![p] = data[p]]
  <2> DEFINE seen == [q \in Callers |-> SeenBy(q)]
  <2>1. seen[p] # <<>> /\ seen[p][1] = data[p]
    BY <1>11
  <2> QED
    BY <1>2, <1>6, <1>7, <1>8, <1>11, <2>1 DEF Atomic!Return
<1> QED
  BY <1>9, <1>10, <1>11

\* A call that fails ends with the error the contract allows.
LEMMA FailEnds ==
  ASSUME TypeOK, NEW p \in Callers, Fail(p), pc[p] # "idle",
         UNCHANGED <<guestVars, dest>>
  PROVE  Ends(p)
<1> DEFINE res == [NoResult EXCEPT !.kind = "error"]
<1>1. res = [kind |-> "error", op |-> "none", call |-> 0, bytes |-> <<>>]
  BY DEF NoResult
<1>2. res \in Results
  <2>1. 0 \in CallNumbers
    BY FileAssumption DEF CallNumbers
  <2>2. <<>> \in Seq(Chunks)
    OBVIOUS
  <2> QED
    BY <1>1, <2>1, <2>2 DEF Results
<1>3. Earns(p, res)
  BY <1>1 DEF Earns, Atomic!Error
<1>4. Return(p, res)
  BY DEF Fail
<1> HIDE DEF res
<1> QED
  BY <1>2, <1>3, <1>4 DEF Ends, guestVars

\* A call that succeeds ends with what it has earned.
LEMMA SucceedEnds ==
  ASSUME TypeOK, NEW p \in Callers, NEW bytes \in Seq(Chunks), Succeed(p, bytes),
         pc[p] # "idle", UNCHANGED <<guestVars, dest>>,
         Atomic!Ok(bytes) \in Atomic!Earned(p)
  PROVE  Ends(p)
<1> DEFINE res == [kind |-> "ok", op |-> op[p], call |-> call[p], bytes |-> bytes]
<1>1. res \in Results
  BY DEF TypeOK, Results
<1>2. Return(p, res)
  BY DEF Succeed
<1>3. Earns(p, res)
  BY DEF Earns, Atomic!Ok
<1> HIDE DEF res
<1> QED
  BY <1>1, <1>2, <1>3 DEF Ends, guestVars

\* A step of a call that is not one of those above ends it as AtomicFiles
\* allows.
LEMMA CallStepEnds ==
  ASSUME TypeOK, FileInv, NEW p \in Callers, CallStep(p)
  PROVE  Goes(p) \/ Ends(p)
<1>1. CallOf(p) /\ SentOf(p) /\ ReceivedOf(p)
  BY DEF FileInv, CallerInv
<1>2. CASE Refused(p) \/ AttemptFails(p) \/ SendFails(p) \/ Abandon(p) \/ TempFails(p)
           \/ RefreshFails(p)
  BY <1>2, FailEnds
     DEF Refused, AttemptFails, SendFails, Abandon, TempFails, RefreshFails
<1>3. CASE AttemptError(p) /\ ~MayRefresh(p)
  <2>1. Fail(p) /\ UNCHANGED <<guestVars, dest>> /\ pc[p] # "idle"
    BY <1>3 DEF AttemptError
  <2> QED
    BY <2>1, FailEnds
<1>4. CASE RecvChunk(p) /\ OverLimit(p)
  <2>1. Fail(p) /\ UNCHANGED <<guestVars, dest>> /\ pc[p] # "idle"
    BY <1>4 DEF RecvChunk
  <2> QED
    BY <2>1, FailEnds
<1>5. CASE AnswerOk(p)
  <2>1. /\ Succeed(p, <<>>) /\ UNCHANGED <<guestVars, dest>> /\ pc[p] # "idle"
        /\ pc[p] = "wait" /\ rpc[p].state = "ok"
    BY <1>5 DEF AnswerOk
  <2>2. op[p] \in Streamed \cup Unary
    BY <1>1, <2>1 DEF CallOf
  <2>3. ASSUME op[p] \in Streamed PROVE Atomic!Ok(<<>>) \in Atomic!Earned(p)
    <3>1. \E f \in published : f.call = call[p]
      BY <1>1, <2>1, <2>3 DEF SentOf
    <3>2. WroteIn(p) /\ op[p] \in Atomic!Writes
      BY <2>3, <3>1 DEF WroteIn, Atomic!Writes, Streamed
    <3>3. op[p] # "ReadFile" /\ op[p] # "ListFiles" /\ op[p] # "DownloadFile"
      BY <2>3 DEF Streamed
    <3>4. Atomic!Earned(p) = {Atomic!Ok(<<>>)}
      BY <3>2, <3>3 DEF Atomic!Earned
    <3> QED
      BY <3>4
  <2>4. ASSUME op[p] \in Unary PROVE Atomic!Ok(<<>>) \in Atomic!Earned(p)
    <3>1. /\ op[p] \notin Atomic!Writes /\ op[p] # "ReadFile" /\ op[p] # "ListFiles"
          /\ op[p] # "DownloadFile"
      BY <2>4 DEF Atomic!Writes, Unary
    <3>2. Atomic!Earned(p) = {Atomic!Ok(<<>>)}
      BY <3>1 DEF Atomic!Earned
    <3> QED
      BY <3>2
  <2>5. Atomic!Ok(<<>>) \in Atomic!Earned(p)
    BY <2>2, <2>3, <2>4
  <2>6. <<>> \in Seq(Chunks)
    OBVIOUS
  <2> QED
    BY <2>1, <2>5, <2>6, SucceedEnds
<1>6. CASE RecvEnds(p) /\ op[p] # "DownloadFile"
  <2>1. /\ Succeed(p, data[p]) /\ UNCHANGED <<guestVars, dest>> /\ pc[p] # "idle"
        /\ pc[p] = "recv" /\ rpc[p].state = "accepted" /\ data[p] = rpc[p].snap
        /\ data[p] \in Seq(Chunks)
    BY <1>6, WholeReceived, TypesOf DEF RecvEnds
  <2>2. op[p] \in {"ReadFile", "ListFiles"} /\ (op[p] = "ReadFile" => Len(data[p]) <= ReadLimit)
    BY <1>1, <1>6, <2>1 DEF CallOf, ReceivedOf, Fetched
  <2>3. SeenBy(p) = <<data[p]>>
    BY <2>1, SeenOf
  <2>4. data[p] \in Atomic!Content(p)
    BY <2>3 DEF Atomic!Content
  <2>5. Atomic!Ok(data[p]) \in Atomic!Earned(p)
    BY <2>2, <2>4 DEF Atomic!Earned, Atomic!Writes, Atomic!Ok
  <2> QED
    BY <2>1, <2>5, SucceedEnds
<1>7. CASE RenameTemp(p)
  <2> DEFINE res == [kind |-> "ok", op |-> op[p], call |-> call[p], bytes |-> <<>>]
  <2>1. /\ Return(p, res) /\ UNCHANGED guestVars /\ pc[p] = "rename"
        /\ dest' = [dest EXCEPT ![p] = data[p]] /\ op[p] = "DownloadFile"
    BY <1>1, <1>7 DEF RenameTemp, Succeed, CallOf
  <2>2. SeenBy(p) = <<data[p]>>
    BY <2>1, SeenOf
  <2>3. res \in Results
    <3>1. <<>> \in Seq(Chunks)
      OBVIOUS
    <3> QED
      BY <3>1 DEF TypeOK, Results
  <2>4. res.kind = "ok" /\ res.bytes = <<>>
    OBVIOUS
  <2> HIDE DEF res
  <2> QED
    BY <2>1, <2>2, <2>3, <2>4 DEF Ends, guestVars
<1> QED
  BY <1>2, <1>3, <1>4, <1>5, <1>6, <1>7 DEF CallStep, Goes

\* Every step is one of the contract, or stutters.
LEMMA StepRefines ==
  TypeOK /\ FileInv /\ [Next]_vars => [Atomic!Next]_(Atomic!filesVars)
<1> SUFFICES ASSUME TypeOK, FileInv, [Next]_vars PROVE [Atomic!Next]_(Atomic!filesVars)
  OBVIOUS
<1>1. ASSUME NEW p \in Callers, CallStep(p) PROVE [Atomic!Next]_(Atomic!filesVars)
  BY <1>1, CallStepEnds, GoesUnseen, EndsRefines DEF Atomic!Next
<1>2. ASSUME NEW p \in Callers, GuestStep(p) \/ ContextEnds(p)
      PROVE  [Atomic!Next]_(Atomic!filesVars)
  BY <1>2, AcceptRefines, AnsweredRefines, PublishRefines, AnswerRefines
     DEF GuestStep, Atomic!Next
<1>3. ASSUME NEW p \in Callers, Begin(p) PROVE [Atomic!Next]_(Atomic!filesVars)
  BY <1>3, BeginRefines DEF Atomic!Next
<1>4. CASE (\E t \in Tokens : CapabilityExpires(t)) \/ UNCHANGED vars
  <2>1. UNCHANGED <<remote, published, op, call, pc, attempt, cursor, data, temp, rpc,
                    result, dest>>
    BY <1>4 DEF CapabilityExpires, vars, handleVars, guestVars, callVars
  <2>2. \A q \in Callers : Unseen(q)
    BY <2>1, SameIsUnseen DEF Same
  <2> QED
    BY <2>1, <2>2, UnseenStutters
<1> QED
  BY <1>1, <1>2, <1>3, <1>4 DEF Next

\* The initial states are those of the contract.
LEMMA InitRefines == Init => Atomic!Init
<1> SUFFICES ASSUME Init PROVE Atomic!Init
  OBVIOUS
<1>1. \A p \in Callers : ~WroteIn(p) /\ SeenBy(p) = <<>>
  BY DEF Init, WroteIn, SeenBy, Streamed, NoRpc
<1>2. \A p \in Callers : result[p].kind = "none" /\ result[p].bytes = <<>>
  BY DEF Init, NoResult
<1>3. \A p \in Callers : WroteIn(p) = FALSE
  BY <1>1 DEF WroteIn
<1> QED
  BY <1>1, <1>2, <1>3 DEF Init, Atomic!Init, OldLocal

\* files.go implements the one-step operations of AtomicFiles, whatever is
\* rejected, refreshed and run again on the way.
THEOREM ImplementsAtomicFiles == Spec => FilesAtomic
<1>1. Init => Atomic!Init
  BY InitRefines
<1>2. TypeOK /\ FileInv /\ [Next]_vars => [Atomic!Next]_(Atomic!filesVars)
  BY StepRefines
<1> QED
  BY <1>1, <1>2, FileInvariant, PTL DEF Spec, FilesAtomic, Atomic!Spec

=============================================================================
