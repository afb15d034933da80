------------------------- MODULE SandboxHandleProofs -------------------------
(* Theorems about SandboxHandle, for every number of callers, any set of its *)
(* operations and any bounds.                                                *)
EXTENDS SandboxHandle, TLAPS

(***************************************************************************)
(* The error table, as far as the handle depends on it.                    *)
(***************************************************************************)
\* Every answer to every kind of call has an error.
LEMMA MapTotal ==
  ASSUME NEW k \in CallKinds, NEW a \in Answers
  PROVE  MapRPCError(k, a) \in Errors
<1>1. OfFailedPrecondition(k, a.detail) \in Errors
  BY DEF OfFailedPrecondition, SandboxErrors, ByKind, Errors, CallKinds, Answers, Details
<1>2. OfPermissionDenied(k, a.detail) \in Errors
  BY DEF OfPermissionDenied, ByKind, Errors, CallKinds, Answers, Details
<1>3. ASSUME NEW c \in Codes \ {"PermissionDenied", "FailedPrecondition"}
      PROVE  OfCode[c][k] \in Errors
  BY DEF OfCode, ByKind, Always, Errors, CallKinds, Codes
<1> QED
  BY <1>1, <1>2, <1>3 DEF MapRPCError, Answers

\* A call is told that its sandbox is deleted only when the details say so.
LEMMA DeletedBySandbox ==
  ASSUME NEW k \in CallKinds, NEW a \in Answers,
         MapRPCError(k, a) = "SandboxDeleted"
  PROVE  a.code = "FailedPrecondition" /\ a.detail = "sandbox_deleted"
<1>1. a.code = "FailedPrecondition"
  <2>1. OfPermissionDenied(k, a.detail) # "SandboxDeleted"
    BY DEF OfPermissionDenied, ByKind, CallKinds, Answers, Details
  <2>2. ASSUME NEW c \in Codes \ {"PermissionDenied", "FailedPrecondition"}
        PROVE  OfCode[c][k] # "SandboxDeleted"
    BY DEF OfCode, ByKind, Always, CallKinds, Codes
  <2> QED
    BY <2>1, <2>2 DEF MapRPCError, Answers
<1>2. OfFailedPrecondition(k, a.detail) = "SandboxDeleted" => a.detail = "sandbox_deleted"
  BY DEF OfFailedPrecondition, SandboxErrors, ByKind, CallKinds, Answers, Details
<1> QED
  BY <1>1, <1>2 DEF MapRPCError

\* A lost answer of a file or a session call leaves open what happened.
LEMMA LostIsAmbiguous ==
  ASSUME NEW k \in {"file", "session"}, NEW a \in Lost
  PROVE  MapRPCError(k, a) \in Ambiguous
  BY DEF Lost, Answer, MapRPCError, OfCode, ByKind, CallKinds, Ambiguous

(***************************************************************************)
(* The inductive invariant.                                                *)
(***************************************************************************)
\* A call is where its operation may take it.
StepsInv ==
  \A p \in Callers :
    /\ pc[p] # "idle" => known /\ op[p] \in Ops
    /\ pc[p] = "guard" => op[p] \in Guarded \cup {"Delete"}
    /\ pc[p] \in {"read", "readCapability", "guest", "performed", "erred", "sniff",
                  "reissue", "refresh"} => op[p] \in GuestOps
    /\ pc[p] = "store" /\ reply[p].to = "GetSandbox" => op[p] \in GuestOps
    /\ reply[p].to # "none" => pc[p] = "store"
    /\ pc[p] = "store" /\ op[p] = "Delete" => reply[p].to = "Delete"
    /\ error[p] # "none" => pc[p] = "erred"

\* Whatever tells of the sandbox tells of a state it cannot leave.
VerdictInv ==
  /\ deleted \/ status = "deleted" => sandbox = "deleted"
  /\ status = "failed" => sandbox \in {"failed", "deleted"}
  /\ \A p \in Callers :
       /\ error[p] = "SandboxDeleted" => sandbox = "deleted"
       /\ reply[p].to = "Delete" \/ reply[p].status = "deleted" => sandbox = "deleted"
       /\ reply[p].status = "failed" => sandbox \in {"failed", "deleted"}

\* Whoever is told that the sandbox is deleted leaves the flag behind, and a call
\* begun after that is at its guard.
DoomedInv ==
  /\ told => deleted
  /\ \A p \in Callers :
       doomed[p] => /\ told
                    /\ op[p] \in Guarded \cup {"Delete"} => pc[p] = "guard"

\* Only the handle of a failed sandbox is without an endpoint, and no answer to
\* Resume brings it one without a capability.
AddressInv ==
  /\ known /\ endpoint = None =>
       sandbox \in {"failed", "deleted"} /\ \A p \in Callers : reply[p].to # "Resume"
  /\ endpoint # None => capability # None
  /\ \A p \in Callers :
       /\ pc[p] \in {"readCapability", "guest"} => wire[p].endpoint # None
       /\ pc[p] = "readCapability" => capability # None
       /\ pc[p] = "guest" => wire[p].capability # None
       /\ reply[p].to = "GetSandbox" /\ reply[p].status # "failed" =>
            reply[p].endpoint # None /\ reply[p].capability # None

\* A guest call is still to be performed, or it is over: what was performed
\* has an answer, or an error that does not lead to a second run and, of a
\* file or session call, leaves open what happened.
DoneInv ==
  \A p \in Callers :
    /\ done[p] <= 1
    /\ pc[p] \notin {"idle", "performed", "erred"} => done[p] = 0
    /\ pc[p] = "erred" /\ AfterRejection(op[p], error[p]) # "idle" => done[p] = 0
    /\ op[p] \in Unary =>
         /\ pc[p] = "erred" /\ error[p] \notin Ambiguous => done[p] = 0
         /\ said[p] = "refused" => done[p] = 0 /\ pc[p] = "idle"

HandleInv == StepsInv /\ VerdictInv /\ DoomedInv /\ AddressInv /\ DoneInv

(***************************************************************************)
(* Each step keeps the types and the invariant.                            *)
(***************************************************************************)
\* A call without an error of the guest's and that is no Delete that succeeds
\* tells its caller of no deletion.
LEMMA NotTold ==
  ASSUME HandleInv, NEW p \in Callers, NEW how, pc[p] # "erred",
         op[p] # "Delete" \/ how # "ok"
  PROVE  ~TellsDeleted(p, how)
<1>1. error[p] # "SandboxDeleted"
  BY DEF HandleInv, StepsInv
<1> QED
  BY <1>1 DEF TellsDeleted

\* A call that returns with its handle and the service as they were, after a
\* refusal only when nothing was performed.
LEMMA ReturnKeeps ==
  ASSUME HandleTypeOK, HandleInv, NEW p \in Callers,
         NEW how \in {"ok", "unknown", "refused"}, Return(p, how),
         UNCHANGED <<handleVars, serviceVars>>,
         how = "refused" /\ op[p] \in Unary => done[p] = 0,
         TellsDeleted(p, how) => deleted
  PROVE  HandleTypeOK' /\ HandleInv'
<1> USE DEF Return, Goto, handleVars, serviceVars
<1>1. HandleTypeOK'
  BY DEF HandleTypeOK, NoWire, NoReply, EndpointsOrNone, TokensOrNone, Steps, Statuses,
     Requests
<1>2. StepsInv'
  BY DEF HandleTypeOK, HandleInv, StepsInv, NoReply
<1>3. VerdictInv'
  BY DEF HandleTypeOK, HandleInv, VerdictInv, NoReply
<1>4. DoomedInv'
  BY DEF HandleTypeOK, HandleInv, DoomedInv
<1>5. AddressInv'
  BY DEF HandleTypeOK, HandleInv, AddressInv, NoReply, NoWire
<1>6. DoneInv'
  BY DEF HandleTypeOK, HandleInv, DoneInv
<1> QED
  BY <1>1, <1>2, <1>3, <1>4, <1>5, <1>6 DEF HandleInv

\* A call that goes on to a step that asks nothing of it.
LEMMA GotoKeeps ==
  ASSUME HandleTypeOK, HandleInv, NEW p \in Callers,
         pc[p] \in {"guard", "status", "sniff"},
         NEW step \in {"status", "own", "read", "reissue"}, Goto(p, step),
         UNCHANGED <<handleVars, serviceVars, callRest>>,
         step \in {"read", "reissue"} => op[p] \in GuestOps,
         doomed[p] => op[p] \notin Guarded \cup {"Delete"}
  PROVE  HandleTypeOK' /\ HandleInv'
<1> USE DEF Goto, handleVars, serviceVars, callRest
<1>1. HandleTypeOK'
  BY DEF HandleTypeOK, Steps
<1>2. StepsInv'
  BY DEF HandleTypeOK, HandleInv, StepsInv
<1>3. VerdictInv'
  BY DEF HandleTypeOK, HandleInv, VerdictInv
<1>4. DoomedInv'
  BY DEF HandleTypeOK, HandleInv, DoomedInv
<1>5. AddressInv'
  BY DEF HandleTypeOK, HandleInv, AddressInv
<1>6. DoneInv'
  BY DEF HandleTypeOK, HandleInv, DoneInv
<1> QED
  BY <1>1, <1>2, <1>3, <1>4, <1>5, <1>6 DEF HandleInv

\* Guard keeps the types and the invariant.
LEMMA GuardInv ==
  ASSUME HandleTypeOK, HandleInv, NEW p \in Callers, Guard(p)
  PROVE  HandleTypeOK' /\ HandleInv'
<1>1. pc[p] = "guard" /\ UNCHANGED <<handleVars, serviceVars>>
  BY DEF Guard
<1>2. op[p] \in Unary => done[p] = 0
  BY <1>1 DEF HandleInv, DoneInv
<1>3. \/ deleted /\ Return(p, "ok")
      \/ Return(p, "unknown")
      \/ Return(p, "refused")
      \/ \E step \in {"own", "status"} : ~deleted /\ Goto(p, step) /\ UNCHANGED callRest
  BY DEF Guard, Fail, IsDeleted
<1>4. ~deleted => ~doomed[p]
  BY DEF HandleInv, DoomedInv
<1>5. \A how \in {"unknown", "refused"} : ~TellsDeleted(p, how)
  BY <1>1, NotTold
<1> QED
  BY <1>1, <1>2, <1>3, <1>4, <1>5, ReturnKeeps, GotoKeeps

\* CheckStatus keeps the types and the invariant.
LEMMA CheckStatusInv ==
  ASSUME HandleTypeOK, HandleInv, NEW p \in Callers, CheckStatus(p)
  PROVE  HandleTypeOK' /\ HandleInv'
<1>1. pc[p] = "status" /\ UNCHANGED <<handleVars, serviceVars>>
  BY DEF CheckStatus
<1>2. op[p] \in Unary => done[p] = 0
  BY <1>1 DEF HandleInv, DoneInv
<1>3. \/ Return(p, "unknown") \/ Return(p, "refused")
      \/ \E step \in {"read", "own"} :
           Goto(p, step) /\ UNCHANGED callRest /\ (step = "read" => op[p] \in GuestOps)
  BY DEF CheckStatus, Fail
<1>4. doomed[p] => op[p] \notin Guarded \cup {"Delete"}
  BY <1>1 DEF HandleInv, DoomedInv
<1>5. \A how \in {"unknown", "refused"} : ~TellsDeleted(p, how)
  BY <1>1, NotTold
<1> QED
  BY <1>1, <1>2, <1>3, <1>4, <1>5, ReturnKeeps, GotoKeeps

\* NoEndpoint keeps the types and the invariant.
LEMMA NoEndpointInv ==
  ASSUME HandleTypeOK, HandleInv, NEW p \in Callers, NoEndpoint(p)
  PROVE  HandleTypeOK' /\ HandleInv'
<1>1. op[p] \in Unary => done[p] = 0
  BY DEF NoEndpoint, HandleInv, DoneInv
<1>2. Return(p, "unknown") \/ Return(p, "refused")
  BY DEF NoEndpoint, Fail
<1>3. \A how \in {"unknown", "refused"} : ~TellsDeleted(p, how)
  BY NotTold DEF NoEndpoint
<1> QED
  BY <1>1, <1>2, <1>3, ReturnKeeps DEF NoEndpoint

\* SniffExpiry keeps the types and the invariant.
LEMMA SniffExpiryInv ==
  ASSUME HandleTypeOK, HandleInv, NEW p \in Callers, SniffExpiry(p)
  PROVE  HandleTypeOK' /\ HandleInv'
<1>1. pc[p] = "sniff" /\ op[p] \in GuestOps /\ UNCHANGED <<handleVars, serviceVars>>
  BY DEF SniffExpiry, HandleInv, StepsInv
<1>2. op[p] \in Unary => done[p] = 0
  BY <1>1 DEF HandleInv, DoneInv
<1>3. \/ Return(p, "unknown") \/ Return(p, "refused")
      \/ Goto(p, "reissue") /\ UNCHANGED callRest
  BY DEF SniffExpiry, Fail
<1>4. doomed[p] => op[p] \notin Guarded \cup {"Delete"}
  BY <1>1 DEF HandleInv, DoomedInv
<1>5. \A how \in {"unknown", "refused"} : ~TellsDeleted(p, how)
  BY <1>1, NotTold
<1> QED
  BY <1>1, <1>2, <1>3, <1>4, <1>5, ReturnKeeps, GotoKeeps

\* GuestOk keeps the types and the invariant.
LEMMA GuestOkInv ==
  ASSUME HandleTypeOK, HandleInv, NEW p \in Callers, GuestOk(p)
  PROVE  HandleTypeOK' /\ HandleInv'
<1>1. pc[p] = "performed" /\ op[p] # "Delete"
  BY DEF GuestOk, HandleInv, StepsInv, GuestOps, FileOps
<1>2. \A how \in {"ok", "unknown", "refused"} : ~TellsDeleted(p, how)
  BY <1>1, NotTold
<1>3. \/ Return(p, "ok") \/ Return(p, "unknown")
      \/ Return(p, "refused") /\ op[p] \notin Unary
  BY DEF GuestOk, Fail, Unary
<1> QED
  BY <1>2, <1>3, ReturnKeeps DEF GuestOk

\* StoreSnapshot keeps the types and the invariant.
LEMMA StoreSnapshotInv ==
  ASSUME HandleTypeOK, HandleInv, NEW p \in Callers, StoreSnapshot(p)
  PROVE  HandleTypeOK' /\ HandleInv'
<1>1. pc[p] = "store" /\ op[p] # "Delete"
  BY DEF StoreSnapshot, HandleInv, StepsInv
<1>2. ~TellsDeleted(p, "ok")
  BY <1>1, NotTold
<1> QED
  BY <1>2, ReturnKeeps DEF StoreSnapshot

\* ControlFails keeps the types and the invariant.
LEMMA ControlFailsInv ==
  ASSUME HandleTypeOK, HandleInv, NEW p \in Callers, ControlFails(p)
  PROVE  HandleTypeOK' /\ HandleInv'
<1>1. op[p] \in Unary => done[p] = 0
  BY DEF ControlFails, Asking, HandleInv, DoneInv
<1>2. Return(p, "unknown") \/ Return(p, "refused")
  BY DEF ControlFails, Fail
<1>3. \A how \in {"unknown", "refused"} : ~TellsDeleted(p, how)
  BY NotTold DEF ControlFails, Asking
<1> QED
  BY <1>1, <1>2, <1>3, ReturnKeeps DEF ControlFails

\* Begin keeps the types and the invariant.
LEMMA BeginInv ==
  ASSUME HandleTypeOK, HandleInv, NEW p \in Callers, Begin(p)
  PROVE  HandleTypeOK' /\ HandleInv'
<1> USE DEF Begin, Goto, handleVars, serviceVars
<1>1. HandleTypeOK'
  BY HandleAssumption DEF HandleTypeOK, HandleAssumption, Steps
<1>2. StepsInv'
  BY HandleAssumption DEF HandleTypeOK, HandleInv, StepsInv, HandleAssumption, GuestOps, ControlOps, HandleOps, Guarded
<1>3. VerdictInv'
  BY DEF HandleTypeOK, HandleInv, VerdictInv
<1>4. DoomedInv'
  BY DEF HandleTypeOK, HandleInv, DoomedInv, Guarded, GuestOps, FileOps
<1>5. AddressInv'
  BY DEF HandleTypeOK, HandleInv, AddressInv
<1>6. DoneInv'
  BY DEF HandleTypeOK, HandleInv, DoneInv, HandleAssumption, HandleOps, GuestOps, ControlOps, Guarded
<1> QED
  BY <1>1, <1>2, <1>3, <1>4, <1>5, <1>6 DEF HandleInv

\* ReadHandle keeps the types and the invariant.
LEMMA ReadHandleInv ==
  ASSUME HandleTypeOK, HandleInv, NEW p \in Callers, ReadHandle(p)
  PROVE  HandleTypeOK' /\ HandleInv'
<1> USE DEF ReadHandle, Goto, handleVars, serviceVars
<1>1. HandleTypeOK'
  BY DEF HandleTypeOK, EndpointsOrNone, TokensOrNone, Steps
<1>2. StepsInv'
  BY DEF HandleTypeOK, HandleInv, StepsInv, GuestOps
<1>3. VerdictInv'
  BY DEF HandleTypeOK, HandleInv, VerdictInv
<1>4. DoomedInv'
  BY DEF HandleTypeOK, HandleInv, DoomedInv, Guarded, GuestOps, FileOps
<1>5. AddressInv'
  BY DEF HandleTypeOK, HandleInv, AddressInv
<1>6. DoneInv'
  BY DEF HandleTypeOK, HandleInv, DoneInv
<1> QED
  BY <1>1, <1>2, <1>3, <1>4, <1>5, <1>6 DEF HandleInv

\* ReadEndpoint keeps the types and the invariant.
LEMMA ReadEndpointInv ==
  ASSUME HandleTypeOK, HandleInv, NEW p \in Callers, ReadEndpoint(p)
  PROVE  HandleTypeOK' /\ HandleInv'
<1> USE DEF ReadEndpoint, Goto, handleVars, serviceVars
<1>1. HandleTypeOK'
  BY DEF HandleTypeOK, EndpointsOrNone, TokensOrNone, Steps
<1>2. StepsInv'
  BY DEF HandleTypeOK, HandleInv, StepsInv, GuestOps
<1>3. VerdictInv'
  BY DEF HandleTypeOK, HandleInv, VerdictInv
<1>4. DoomedInv'
  BY DEF HandleTypeOK, HandleInv, DoomedInv, Guarded, GuestOps, FileOps
<1>5. AddressInv'
  BY DEF HandleTypeOK, HandleInv, AddressInv
<1>6. DoneInv'
  BY DEF HandleTypeOK, HandleInv, DoneInv
<1> QED
  BY <1>1, <1>2, <1>3, <1>4, <1>5, <1>6 DEF HandleInv

\* ReadCapability keeps the types and the invariant.
LEMMA ReadCapabilityInv ==
  ASSUME HandleTypeOK, HandleInv, NEW p \in Callers, ReadCapability(p)
  PROVE  HandleTypeOK' /\ HandleInv'
<1> USE DEF ReadCapability, Goto, handleVars, serviceVars
<1>1. HandleTypeOK'
  BY DEF HandleTypeOK, EndpointsOrNone, TokensOrNone, Steps
<1>2. StepsInv'
  BY DEF HandleTypeOK, HandleInv, StepsInv, GuestOps
<1>3. VerdictInv'
  BY DEF HandleTypeOK, HandleInv, VerdictInv
<1>4. DoomedInv'
  BY DEF HandleTypeOK, HandleInv, DoomedInv, Guarded, GuestOps, FileOps
<1>5. AddressInv'
  BY DEF HandleTypeOK, HandleInv, AddressInv
<1>6. DoneInv'
  BY DEF HandleTypeOK, HandleInv, DoneInv
<1> QED
  BY <1>1, <1>2, <1>3, <1>4, <1>5, <1>6 DEF HandleInv

\* Each kind of guest call is told of with answers of the table.
LEMMA GuestAnswers ==
  ASSUME HandleInv, NEW p \in Callers, pc[p] \in {"guest", "performed"}
  PROVE  /\ op[p] \in GuestOps /\ Kind[op[p]] \in CallKinds
         /\ GuestErrors(p) \subseteq Answers
<1>1. op[p] \in GuestOps
  BY DEF HandleInv, StepsInv
<1>2. Kind[op[p]] \in CallKinds
  BY <1>1 DEF GuestOps, FileOps, Kind, CallKinds
<1>3. Lost \subseteq Answers /\ Denied \subseteq Answers /\ Stale[Kind[op[p]]] \in Answers
  BY <1>1 DEF GuestOps, FileOps, Kind, Lost, Denied, Stale, Answer, Precondition, Answers, Codes, Details
<1>4. sandbox \in DOMAIN Down => Down[sandbox] \in Answers
  BY DEF Down, Precondition, Answers, Codes, Details
<1> QED
  BY <1>1, <1>2, <1>3, <1>4 DEF GuestErrors

\* The details name a deleted sandbox only when it is.
LEMMA DownAnswer ==
  ASSUME HandleInv, NEW p \in Callers, NEW a \in GuestErrors(p),
         pc[p] \in {"guest", "performed"},
         a.code = "FailedPrecondition" /\ a.detail = "sandbox_deleted"
  PROVE  sandbox = "deleted"
<1>1. op[p] \in GuestOps
  BY GuestAnswers
<1>2. a \notin Lost /\ a \notin Denied /\ a # Stale[Kind[op[p]]]
  BY <1>1 DEF Lost, Denied, Stale, Kind, FileOps, GuestOps, Answer, Precondition
<1>3. sandbox \in DOMAIN Down /\ a = Down[sandbox]
  BY <1>2 DEF GuestErrors
<1> QED
  BY <1>3 DEF Down, Precondition

\* What the guest has performed does not lead to a second run.
LEMMA PerformedEnds ==
  ASSUME HandleInv, NEW p \in Callers, NEW a \in GuestErrors(p), pc[p] = "performed"
  PROVE  /\ AfterRejection(op[p], MapRPCError(Kind[op[p]], a)) = "idle"
         /\ op[p] \in Unary => MapRPCError(Kind[op[p]], a) \in Ambiguous
<1>1. op[p] \in GuestOps
  BY GuestAnswers
<1>2. CASE op[p] \in Unary
  <2>1. MapRPCError(Kind[op[p]], a) \in Ambiguous
    BY <1>2, LostIsAmbiguous DEF GuestErrors, Kind, Unary
  <2> QED
    BY <2>1, <1>2 DEF AfterRejection, Ambiguous, Unary, FileOps
<1>3. CASE op[p] \notin Unary
  <2>1. a \in Lost \/ (sandbox \in DOMAIN Down /\ a = Down[sandbox])
    BY <1>3 DEF GuestErrors
  <2>2. \A k \in {"exec", "file"} : MapRPCError(k, a) # "CapabilityRejected"
    BY <2>1 DEF Lost, Down, Answer, Precondition, MapRPCError, OfCode, ByKind,
       OfFailedPrecondition, SandboxErrors, CallKinds
  <2>3. op[p] \in {"Exec", "File"}
    BY <1>1, <1>3 DEF GuestOps, Unary, FileOps
  <2> QED
    BY <1>3, <2>2, <2>3 DEF AfterRejection, Kind
<1> QED
  BY <1>2, <1>3

\* GuestPerforms keeps the types and the invariant.
LEMMA GuestPerformsInv ==
  ASSUME HandleTypeOK, HandleInv, NEW p \in Callers, GuestPerforms(p)
  PROVE  HandleTypeOK' /\ HandleInv'
<1> USE DEF GuestPerforms, Goto, handleVars, serviceVars
<1>1. HandleTypeOK'
  <2>1. done[p] + 1 \in 0 .. 2
    BY DEF HandleTypeOK, HandleInv, DoneInv
  <2> QED
    BY <2>1 DEF HandleTypeOK, NoWire, EndpointsOrNone, TokensOrNone, Steps
<1>2. StepsInv'
  BY DEF HandleTypeOK, HandleInv, StepsInv, GuestOps
<1>3. VerdictInv'
  BY DEF HandleTypeOK, HandleInv, VerdictInv
<1>4. DoomedInv'
  BY DEF HandleTypeOK, HandleInv, DoomedInv
<1>5. AddressInv'
  BY DEF HandleTypeOK, HandleInv, AddressInv, NoWire
<1>6. DoneInv'
  BY DEF HandleTypeOK, HandleInv, DoneInv
<1> QED
  BY <1>1, <1>2, <1>3, <1>4, <1>5, <1>6 DEF HandleInv

\* GuestErrs keeps the types and the invariant.
LEMMA GuestErrsInv ==
  ASSUME HandleTypeOK, HandleInv, NEW p \in Callers, GuestErrs(p)
  PROVE  HandleTypeOK' /\ HandleInv'
<1> USE DEF Goto, handleVars, serviceVars
<1>1. PICK a \in GuestErrors(p) : error' = [error EXCEPT ![p] = MapRPCError(Kind[op[p]], a)]
  BY DEF GuestErrs
<1>2. /\ pc[p] \in {"guest", "performed"}
      /\ pc' = [pc EXCEPT ![p] = "erred"]
      /\ wire' = [wire EXCEPT ![p] = NoWire]
      /\ UNCHANGED <<handleVars, serviceVars, op, run, reply, done, doomed, said, calls, told>>
  BY DEF GuestErrs
<1>3. a \in Answers /\ Kind[op[p]] \in CallKinds /\ op[p] \in GuestOps
  BY <1>2, GuestAnswers
<1>4. HandleTypeOK'
  <2>1. MapRPCError(Kind[op[p]], a) \in Errors
    BY <1>3, MapTotal
  <2> QED
    BY <1>1, <1>2, <2>1 DEF HandleTypeOK, NoWire, EndpointsOrNone, TokensOrNone, Steps
<1>5. StepsInv'
  BY <1>1, <1>2, <1>3 DEF HandleTypeOK, HandleInv, StepsInv
<1>6. VerdictInv'
  <2>1. MapRPCError(Kind[op[p]], a) = "SandboxDeleted" => sandbox = "deleted"
    BY <1>2, <1>3, DeletedBySandbox, DownAnswer
  <2> QED
    BY <1>1, <1>2, <2>1 DEF HandleTypeOK, HandleInv, VerdictInv
<1>7. DoomedInv'
  BY <1>2 DEF HandleTypeOK, HandleInv, DoomedInv
<1>8. AddressInv'
  BY <1>2 DEF HandleTypeOK, HandleInv, AddressInv, NoWire
<1>9. DoneInv'
  <2>1. pc[p] = "guest" => done[p] = 0
    BY DEF HandleInv, DoneInv
  <2>2. done[p] # 0 =>
          /\ AfterRejection(op[p], MapRPCError(Kind[op[p]], a)) = "idle"
          /\ op[p] \in Unary => MapRPCError(Kind[op[p]], a) \in Ambiguous
    BY <1>2, <2>1, PerformedEnds
  <2>3. done[p] # 0 => AfterRejection(op[p], error'[p]) = "idle"
    BY <1>1, <2>2 DEF HandleTypeOK
  <2> QED
    BY <1>1, <1>2, <2>2, <2>3 DEF HandleTypeOK, HandleInv, DoneInv
<1> QED
  BY <1>4, <1>5, <1>6, <1>7, <1>8, <1>9 DEF HandleInv

\* HandleError keeps the types and the invariant.
LEMMA HandleErrorInv ==
  ASSUME HandleTypeOK, HandleInv, NEW p \in Callers, HandleError(p)
  PROVE  HandleTypeOK' /\ HandleInv'
<1> DEFINE next == AfterRejection(op[p], error[p])
<1> USE DEF Goto, serviceVars
<1>1. /\ pc[p] = "erred" /\ op[p] \in GuestOps
      /\ Observe(op[p], error[p])
      /\ UNCHANGED <<sandbox, home, epoch, destroyed>>
  BY DEF HandleError, HandleInv, StepsInv
<1>2. \/ /\ next # "idle" /\ pc' = [pc EXCEPT ![p] = next]
         /\ error' = [error EXCEPT ![p] = "none"]
         /\ UNCHANGED <<op, run, wire, reply, done, doomed, said, calls, told>>
      \/ Return(p, IF error[p] \in Ambiguous THEN "unknown" ELSE "refused")
  BY DEF HandleError, Fail
<1>3. /\ deleted' \in BOOLEAN /\ status' \in Statuses
      /\ UNCHANGED <<known, endpoint, capability>>
      /\ deleted => deleted'
      /\ deleted' \/ status' = "deleted" => sandbox = "deleted"
      /\ status' = "failed" => sandbox \in {"failed", "deleted"}
  BY <1>1 DEF Observe, HandleTypeOK, HandleInv, VerdictInv, Statuses
<1>4. next \in {"idle", "refresh", "reissue", "sniff"}
  BY DEF AfterRejection
<1>5. HandleTypeOK'
  <2>1. pc' \in [Callers -> Steps]
    <3>1. pc' = [pc EXCEPT ![p] = next] \/ pc' = [pc EXCEPT ![p] = "idle"]
      BY <1>2 DEF Return
    <3> QED
      BY <3>1, <1>4 DEF HandleTypeOK, Steps
  <2>2. /\ error' = [error EXCEPT ![p] = "none"]
        /\ op' = op /\ done' = done /\ calls' = calls
    BY <1>2 DEF Return
  <2>3. /\ run' \in [Callers -> {1, 2}] /\ doomed' \in [Callers -> BOOLEAN]
        /\ said' \in [Callers -> {"none", "ok", "unknown", "refused"}]
    BY <1>2 DEF HandleTypeOK, Return
  <2>4. wire' = wire \/ wire' = [wire EXCEPT ![p] = NoWire]
    BY <1>2 DEF Return
  <2>5. reply' = reply \/ reply' = [reply EXCEPT ![p] = NoReply]
    BY <1>2 DEF Return
  <2>6. wire' \in [Callers -> [endpoint : EndpointsOrNone, capability : TokensOrNone]]
    BY <2>4 DEF HandleTypeOK, NoWire, EndpointsOrNone, TokensOrNone
  <2>7. reply' \in [Callers -> [to : Requests, status : Statuses,
                                endpoint : EndpointsOrNone, capability : TokensOrNone]]
    BY <2>5 DEF HandleTypeOK, NoReply, EndpointsOrNone, TokensOrNone, Requests, Statuses
  <2>8. told' \in BOOLEAN
    BY <1>2 DEF HandleTypeOK, Return
  <2> QED
    BY <1>1, <1>3, <2>1, <2>3, <2>6, <2>7, <2>8, <2>2 DEF HandleTypeOK
<1>6. StepsInv'
  BY <1>1, <1>2, <1>3, <1>4 DEF HandleTypeOK, HandleInv, StepsInv, Return, NoReply
<1>7. VerdictInv'
  BY <1>1, <1>2, <1>3 DEF HandleTypeOK, HandleInv, VerdictInv, Return, NoReply
<1>8. DoomedInv'
  <2>1. told' => deleted'
    <3>1. op[p] # "Delete"
      BY <1>1 DEF GuestOps, FileOps
    <3>2. op[p] \in {"Exec"} \cup FileOps /\ error[p] = "SandboxDeleted" => deleted'
      BY <1>1 DEF Observe
    <3>3. told' = told \/ \E how : told' = (told \/ TellsDeleted(p, how))
      BY <1>2 DEF Return
    <3>4. told => deleted
      BY DEF HandleInv, DoomedInv
    <3> QED
      BY <1>3, <3>1, <3>2, <3>3, <3>4 DEF TellsDeleted
  <2>2. told => told'
    BY <1>2 DEF Return
  <2>3. /\ doomed' = doomed \/ doomed' = [doomed EXCEPT ![p] = FALSE]
        /\ op' = op
        /\ \A q \in Callers \ {p} : pc'[q] = pc[q]
    BY <1>2 DEF HandleTypeOK, Return
  <2>4. op[p] \in Guarded \cup {"Delete"} => ~doomed[p]
    BY <1>1 DEF HandleInv, DoomedInv
  <2> QED
    BY <2>1, <2>2, <2>3, <2>4 DEF HandleTypeOK, HandleInv, DoomedInv
<1>9. AddressInv'
  <2>1. CASE next # "idle" /\ pc' = [pc EXCEPT ![p] = next] /\ UNCHANGED <<wire, reply>>
    BY <1>1, <1>3, <1>4, <2>1 DEF HandleTypeOK, HandleInv, AddressInv
  <2>2. CASE /\ pc' = [pc EXCEPT ![p] = "idle"] /\ wire' = [wire EXCEPT ![p] = NoWire]
             /\ reply' = [reply EXCEPT ![p] = NoReply]
    BY <1>1, <1>3, <2>2 DEF HandleTypeOK, HandleInv, AddressInv, NoReply, NoWire
  <2> QED
    BY <1>2, <2>1, <2>2 DEF Return
<1>10. DoneInv'
  <2>1. next # "idle" => done[p] = 0
    BY <1>1 DEF HandleInv, DoneInv
  <2>2. op[p] \in Unary /\ error[p] \notin Ambiguous => done[p] = 0
    BY <1>1 DEF HandleInv, DoneInv
  <2> QED
    BY <1>1, <1>2, <2>1, <2>2, SMTT(30) DEF HandleTypeOK, HandleInv, DoneInv, Return
<1> QED
  BY <1>5, <1>6, <1>7, <1>8, <1>9, <1>10 DEF HandleInv

\* ServeDelete keeps the types and the invariant.
LEMMA ServeDeleteInv ==
  ASSUME HandleTypeOK, HandleInv, NEW p \in Callers, ServeDelete(p)
  PROVE  HandleTypeOK' /\ HandleInv'
<1> USE DEF ServeDelete, Goto, handleVars, serviceVars, Answered, Request, Asking
<1>1. HandleTypeOK'
  BY HandleAssumption DEF HandleTypeOK, HandleAssumption, EndpointsOrNone, TokensOrNone, Steps, Statuses, Requests
<1>2. StepsInv'
  BY HandleAssumption DEF HandleTypeOK, HandleInv, StepsInv, GuestOps, FileOps, HandleAssumption, HandleOps, ControlOps
<1>3. VerdictInv'
  BY DEF HandleTypeOK, HandleInv, VerdictInv
<1>4. DoomedInv'
  BY DEF HandleTypeOK, HandleInv, DoomedInv, Guarded, GuestOps, FileOps
<1>5. AddressInv'
  BY HandleAssumption DEF HandleTypeOK, HandleInv, AddressInv, HandleAssumption, StepsInv, EndpointsOrNone, TokensOrNone, VerdictInv
<1>6. DoneInv'
  BY DEF HandleTypeOK, HandleInv, DoneInv
<1> QED
  BY <1>1, <1>2, <1>3, <1>4, <1>5, <1>6 DEF HandleInv

\* ServeResume keeps the types and the invariant.
LEMMA ServeResumeInv ==
  ASSUME HandleTypeOK, HandleInv, NEW p \in Callers, ServeResume(p)
  PROVE  HandleTypeOK' /\ HandleInv'
<1> USE DEF ServeResume, Goto, handleVars, serviceVars, Answered, Request, Asking
<1>1. HandleTypeOK'
  BY HandleAssumption DEF HandleTypeOK, HandleAssumption, EndpointsOrNone, TokensOrNone, Steps, Statuses, Requests
<1>2. StepsInv'
  BY HandleAssumption DEF HandleTypeOK, HandleInv, StepsInv, GuestOps, FileOps, HandleAssumption, HandleOps, ControlOps
<1>3. VerdictInv'
  BY DEF HandleTypeOK, HandleInv, VerdictInv
<1>4. DoomedInv'
  BY DEF HandleTypeOK, HandleInv, DoomedInv, Guarded, GuestOps, FileOps
<1>5. AddressInv'
  BY HandleAssumption DEF HandleTypeOK, HandleInv, AddressInv, HandleAssumption, StepsInv, EndpointsOrNone, TokensOrNone, VerdictInv
<1>6. DoneInv'
  BY DEF HandleTypeOK, HandleInv, DoneInv
<1> QED
  BY <1>1, <1>2, <1>3, <1>4, <1>5, <1>6 DEF HandleInv

\* ServeCapability keeps the types and the invariant.
LEMMA ServeCapabilityInv ==
  ASSUME HandleTypeOK, HandleInv, NEW p \in Callers, ServeCapability(p)
  PROVE  HandleTypeOK' /\ HandleInv'
<1> USE DEF ServeCapability, Goto, handleVars, serviceVars, Answered, Request, Asking
<1>1. HandleTypeOK'
  BY HandleAssumption DEF HandleTypeOK, HandleAssumption, EndpointsOrNone, TokensOrNone, Steps, Statuses, Requests
<1>2. StepsInv'
  BY HandleAssumption DEF HandleTypeOK, HandleInv, StepsInv, GuestOps, FileOps, HandleAssumption, HandleOps, ControlOps
<1>3. VerdictInv'
  BY DEF HandleTypeOK, HandleInv, VerdictInv
<1>4. DoomedInv'
  BY DEF HandleTypeOK, HandleInv, DoomedInv, Guarded, GuestOps, FileOps
<1>5. AddressInv'
  BY HandleAssumption DEF HandleTypeOK, HandleInv, AddressInv, HandleAssumption, StepsInv, EndpointsOrNone, TokensOrNone, VerdictInv
<1>6. DoneInv'
  BY DEF HandleTypeOK, HandleInv, DoneInv
<1> QED
  BY <1>1, <1>2, <1>3, <1>4, <1>5, <1>6 DEF HandleInv

\* ServeSnapshot keeps the types and the invariant.
LEMMA ServeSnapshotInv ==
  ASSUME HandleTypeOK, HandleInv, NEW p \in Callers, ServeSnapshot(p)
  PROVE  HandleTypeOK' /\ HandleInv'
<1> USE DEF ServeSnapshot, Goto, handleVars, serviceVars, Answered, Request, Asking
<1>1. HandleTypeOK'
  BY HandleAssumption DEF HandleTypeOK, HandleAssumption, EndpointsOrNone, TokensOrNone, Steps, Statuses, Requests
<1>2. StepsInv'
  BY HandleAssumption DEF HandleTypeOK, HandleInv, StepsInv, GuestOps, FileOps, HandleAssumption, HandleOps, ControlOps
<1>3. VerdictInv'
  BY DEF HandleTypeOK, HandleInv, VerdictInv
<1>4. DoomedInv'
  BY DEF HandleTypeOK, HandleInv, DoomedInv, Guarded, GuestOps, FileOps
<1>5. AddressInv'
  BY HandleAssumption DEF HandleTypeOK, HandleInv, AddressInv, HandleAssumption, StepsInv, EndpointsOrNone, TokensOrNone, VerdictInv
<1>6. DoneInv'
  BY DEF HandleTypeOK, HandleInv, DoneInv
<1> QED
  BY <1>1, <1>2, <1>3, <1>4, <1>5, <1>6 DEF HandleInv

\* ServeGet keeps the types and the invariant.
LEMMA ServeGetInv ==
  ASSUME HandleTypeOK, HandleInv, NEW p \in Callers, ServeGet(p)
  PROVE  HandleTypeOK' /\ HandleInv'
<1> USE DEF ServeGet, Goto, handleVars, serviceVars, Answered, Request, Asking, SandboxFromGet
<1>1. HandleTypeOK'
  BY HandleAssumption DEF HandleTypeOK, HandleAssumption, EndpointsOrNone, TokensOrNone, Steps, Statuses, Requests
<1>2. StepsInv'
  BY HandleAssumption DEF HandleTypeOK, HandleInv, StepsInv, GuestOps, FileOps, HandleAssumption, HandleOps, ControlOps
<1>3. VerdictInv'
  BY DEF HandleTypeOK, HandleInv, VerdictInv
<1>4. DoomedInv'
  BY DEF HandleTypeOK, HandleInv, DoomedInv, Guarded, GuestOps, FileOps
<1>5. AddressInv'
  BY HandleAssumption DEF HandleTypeOK, HandleInv, AddressInv, HandleAssumption, StepsInv, EndpointsOrNone, TokensOrNone, VerdictInv
<1>6. DoneInv'
  BY DEF HandleTypeOK, HandleInv, DoneInv
<1> QED
  BY <1>1, <1>2, <1>3, <1>4, <1>5, <1>6 DEF HandleInv

\* ControlRetries keeps the types and the invariant.
LEMMA ControlRetriesInv ==
  ASSUME HandleTypeOK, HandleInv, NEW p \in Callers, ControlRetries(p)
  PROVE  HandleTypeOK' /\ HandleInv'
<1> USE DEF ControlRetries, Goto, handleVars, serviceVars
<1>1. HandleTypeOK'
  BY DEF HandleTypeOK, NoReply, EndpointsOrNone, TokensOrNone, Steps, Statuses, Requests
<1>2. StepsInv'
  BY DEF HandleTypeOK, HandleInv, StepsInv, NoReply
<1>3. VerdictInv'
  BY DEF HandleTypeOK, HandleInv, VerdictInv, NoReply
<1>4. DoomedInv'
  BY DEF HandleTypeOK, HandleInv, DoomedInv
<1>5. AddressInv'
  BY DEF HandleTypeOK, HandleInv, AddressInv, NoReply
<1>6. DoneInv'
  BY DEF HandleTypeOK, HandleInv, DoneInv
<1> QED
  BY <1>1, <1>2, <1>3, <1>4, <1>5, <1>6 DEF HandleInv

\* StoreDelete keeps the types and the invariant.
LEMMA StoreDeleteInv ==
  ASSUME HandleTypeOK, HandleInv, NEW p \in Callers, StoreDelete(p)
  PROVE  HandleTypeOK' /\ HandleInv'
<1> USE DEF StoreDelete, Goto, handleVars, serviceVars, Return
<1>1. HandleTypeOK'
  BY DEF HandleTypeOK, NoWire, NoReply, EndpointsOrNone, TokensOrNone, Steps, Statuses, Requests
<1>2. StepsInv'
  BY DEF HandleTypeOK, HandleInv, StepsInv, NoReply
<1>3. VerdictInv'
  BY DEF HandleTypeOK, HandleInv, VerdictInv, NoReply
<1>4. DoomedInv'
  BY DEF HandleTypeOK, HandleInv, DoomedInv
<1>5. AddressInv'
  BY DEF HandleTypeOK, HandleInv, AddressInv, NoReply, NoWire
<1>6. DoneInv'
  BY DEF HandleTypeOK, HandleInv, DoneInv
<1> QED
  BY <1>1, <1>2, <1>3, <1>4, <1>5, <1>6 DEF HandleInv

\* StoreResume keeps the types and the invariant.
LEMMA StoreResumeInv ==
  ASSUME HandleTypeOK, HandleInv, NEW p \in Callers, StoreResume(p)
  PROVE  HandleTypeOK' /\ HandleInv'
<1> USE DEF StoreResume, Goto, handleVars, serviceVars, Return, IfGiven
<1>1. HandleTypeOK'
  BY DEF HandleTypeOK, NoWire, NoReply, EndpointsOrNone, TokensOrNone, Steps, Statuses, Requests
<1>2. StepsInv'
  BY DEF HandleTypeOK, HandleInv, StepsInv, NoReply
<1>3. VerdictInv'
  BY DEF HandleTypeOK, HandleInv, VerdictInv, NoReply, StepsInv
<1>4. DoomedInv'
  <2>1. ~TellsDeleted(p, "ok")
    <3>1. pc[p] # "erred" /\ op[p] # "Delete"
      BY DEF HandleInv, StepsInv
    <3> QED
      BY <3>1, NotTold
  <2> QED
    BY <2>1 DEF HandleTypeOK, HandleInv, DoomedInv
<1>5. AddressInv'
  BY DEF HandleTypeOK, HandleInv, AddressInv, NoReply, NoWire, StepsInv
<1>6. DoneInv'
  BY DEF HandleTypeOK, HandleInv, DoneInv
<1> QED
  BY <1>1, <1>2, <1>3, <1>4, <1>5, <1>6 DEF HandleInv

\* A call that stores an answer and returns or runs again.
LEMMA StoreType ==
  ASSUME HandleTypeOK, NEW p \in Callers,
         \/ \E how \in {"ok", "unknown", "refused"} : Return(p, how)
         \/ RunAgain(p)
  PROVE  /\ pc' \in [Callers -> Steps]
         /\ run' \in [Callers -> {1, 2}]
         /\ wire' = [wire EXCEPT ![p] = NoWire]
         /\ wire' \in [Callers -> [endpoint : EndpointsOrNone,
                                   capability : TokensOrNone]]
         /\ reply' = [reply EXCEPT ![p] = NoReply]
         /\ reply' \in [Callers -> [to : Requests, status : Statuses,
                                    endpoint : EndpointsOrNone,
                                    capability : TokensOrNone]]
         /\ error' \in [Callers -> Errors \cup {"none"}]
         /\ doomed' \in [Callers -> BOOLEAN]
         /\ said' \in [Callers -> {"none", "ok", "unknown", "refused"}]
         /\ told' \in BOOLEAN
         /\ pc[p] = "store" /\ op[p] # "Delete" /\ HandleInv => told' = told
         /\ error' = error \/ error' = [error EXCEPT ![p] = "none"]
         /\ doomed' = doomed \/ doomed' = [doomed EXCEPT ![p] = FALSE]
         /\ UNCHANGED <<op, done, calls>>
<1> USE DEF Goto
<1>1. pc' \in [Callers -> Steps] /\ run' \in [Callers -> {1, 2}]
  BY DEF HandleTypeOK, Return, RunAgain, Steps
<1>2. wire' = [wire EXCEPT ![p] = NoWire] /\ reply' = [reply EXCEPT ![p] = NoReply]
  BY DEF Return, RunAgain
<1>3. wire' \in [Callers -> [endpoint : EndpointsOrNone, capability : TokensOrNone]]
  BY <1>2 DEF HandleTypeOK, NoWire, EndpointsOrNone, TokensOrNone
<1>4. reply' \in [Callers -> [to : Requests, status : Statuses,
                              endpoint : EndpointsOrNone, capability : TokensOrNone]]
  BY <1>2 DEF HandleTypeOK, NoReply, EndpointsOrNone, TokensOrNone, Requests, Statuses
<1>5. error' \in [Callers -> Errors \cup {"none"}] /\ doomed' \in [Callers -> BOOLEAN]
  BY DEF HandleTypeOK, Return, RunAgain
<1>6. UNCHANGED <<op, done, calls>>
  BY DEF Return, RunAgain
<1>7. said' \in [Callers -> {"none", "ok", "unknown", "refused"}]
  <2>1. CASE \E how \in {"ok", "unknown", "refused"} : said' = [said EXCEPT ![p] = how]
    BY <2>1 DEF HandleTypeOK
  <2>2. CASE said' = said
    BY <2>2 DEF HandleTypeOK
  <2> QED
    BY <2>1, <2>2 DEF Return, RunAgain
<1>8. told' \in BOOLEAN
  BY DEF HandleTypeOK, Return, RunAgain
<1>9. pc[p] = "store" /\ op[p] # "Delete" /\ HandleInv => told' = told
  <2> SUFFICES ASSUME pc[p] = "store", op[p] # "Delete", HandleInv PROVE told' = told
    OBVIOUS
  <2>1. \A how : ~TellsDeleted(p, how)
    BY NotTold
  <2>2. told' = told \/ \E how : told' = (told \/ TellsDeleted(p, how))
    BY DEF Return, RunAgain
  <2> QED
    BY <2>1, <2>2 DEF HandleTypeOK
<1>10. /\ error' = error \/ error' = [error EXCEPT ![p] = "none"]
       /\ doomed' = doomed \/ doomed' = [doomed EXCEPT ![p] = FALSE]
  BY DEF Return, RunAgain
<1> QED
  BY <1>1, <1>2, <1>3, <1>4, <1>5, <1>6, <1>7, <1>8, <1>9, <1>10

\* StoreCapability keeps the types and the invariant.
LEMMA StoreCapabilityInv ==
  ASSUME HandleTypeOK, HandleInv, NEW p \in Callers, StoreCapability(p)
  PROVE  HandleTypeOK' /\ HandleInv'
<1>1. /\ pc[p] = "store" /\ UNCHANGED <<known, deleted, status, endpoint, serviceVars>>
      /\ capability' = IfGiven(reply[p].capability, capability)
      /\ \/ \E how \in {"ok", "unknown", "refused"} : Return(p, how)
         \/ op[p] \in GuestOps /\ RunAgain(p)
  BY DEF StoreCapability, Fail
<1>2. capability' \in TokensOrNone /\ (capability # None => capability' # None)
  BY <1>1 DEF HandleTypeOK, IfGiven
<1>3. HandleTypeOK'
  BY <1>1, <1>2, StoreType DEF HandleTypeOK, serviceVars
<1> USE DEF Goto, serviceVars
<1>4. /\ wire' = [wire EXCEPT ![p] = NoWire] /\ reply' = [reply EXCEPT ![p] = NoReply]
      /\ op' = op
  BY <1>1, StoreType
<1>5. done[p] = 0
  BY <1>1 DEF HandleInv, DoneInv
<1>6. pc' = [pc EXCEPT ![p] = "idle"] \/ (op[p] \in GuestOps /\ pc' = [pc EXCEPT ![p] = "read"])
  BY <1>1 DEF Return, RunAgain
<1>7. StepsInv'
  <2>1. error' = error \/ error' = [error EXCEPT ![p] = "none"]
    BY <1>1, StoreType
  <2>2. error[p] = "none"
    BY <1>1 DEF HandleInv, StepsInv
  <2>3. \A q \in Callers : error'[q] = error[q]
    BY <2>1, <2>2 DEF HandleTypeOK
  <2> QED
    BY <1>1, <1>6, <1>4, <2>3 DEF HandleTypeOK, HandleInv, StepsInv, NoReply
<1>8. VerdictInv'
  <2>1. error' = error \/ error' = [error EXCEPT ![p] = "none"]
    BY <1>1 DEF Return, RunAgain
  <2> QED
    BY <1>1, <2>1, <1>4 DEF HandleTypeOK, HandleInv, VerdictInv, NoReply
<1>9. DoomedInv'
  <2>1. op[p] # "Delete"
    BY DEF StoreCapability, HandleInv, StepsInv
  <2>2. /\ told' = told
        /\ doomed' = doomed \/ doomed' = [doomed EXCEPT ![p] = FALSE]
    BY <1>1, <2>1, StoreType
  <2>3. op[p] \in Guarded \cup {"Delete"} => ~doomed[p]
    BY <1>1 DEF HandleInv, DoomedInv
  <2> QED
    BY <1>1, <1>4, <1>6, <2>2, <2>3 DEF HandleTypeOK, HandleInv, DoomedInv
<1>10. AddressInv'
  BY <1>1, <1>2, <1>6, <1>4 DEF HandleTypeOK, HandleInv, AddressInv, NoReply, NoWire
<1>11. DoneInv'
  BY <1>1, <1>5 DEF HandleTypeOK, HandleInv, DoneInv, Return, RunAgain
<1> QED
  BY <1>3, <1>7, <1>8, <1>9, <1>10, <1>11 DEF HandleInv

\* StoreRefresh keeps the types and the invariant.
LEMMA StoreRefreshInv ==
  ASSUME HandleTypeOK, HandleInv, NEW p \in Callers, StoreRefresh(p)
  PROVE  HandleTypeOK' /\ HandleInv'
<1>1. /\ pc[p] = "store" /\ reply[p].to = "GetSandbox" /\ op[p] \in GuestOps
      /\ UNCHANGED <<known, deleted, serviceVars>>
      /\ status' = reply[p].status
      /\ \/ /\ endpoint' = endpoint /\ capability' = capability
            /\ \E how \in {"ok", "unknown", "refused"} : Return(p, how)
         \/ /\ reply[p].status # "failed"
            /\ endpoint' = reply[p].endpoint /\ capability' = reply[p].capability
            /\ RunAgain(p)
  BY DEF StoreRefresh, Fail, HandleInv, StepsInv
<1>2. HandleTypeOK'
  <2>1. status' \in Statuses /\ endpoint' \in EndpointsOrNone /\ capability' \in TokensOrNone
    BY <1>1 DEF HandleTypeOK
  <2> QED
    BY <1>1, <2>1, StoreType DEF HandleTypeOK, serviceVars
<1> USE DEF Goto, serviceVars
<1>3. /\ wire' = [wire EXCEPT ![p] = NoWire] /\ reply' = [reply EXCEPT ![p] = NoReply]
       /\ op' = op
  BY <1>1, StoreType
<1>4. done[p] = 0
  BY <1>1 DEF HandleInv, DoneInv
<1>5. pc' = [pc EXCEPT ![p] = "idle"] \/ pc' = [pc EXCEPT ![p] = "read"]
  BY <1>1 DEF Return, RunAgain
<1>6. StepsInv'
  <2>1. error' = error \/ error' = [error EXCEPT ![p] = "none"]
    BY <1>1, StoreType
  <2>2. error[p] = "none"
    BY <1>1 DEF HandleInv, StepsInv
  <2>3. \A q \in Callers : error'[q] = error[q]
    BY <2>1, <2>2 DEF HandleTypeOK
  <2> QED
    BY <1>1, <1>5, <1>3, <2>3 DEF HandleTypeOK, HandleInv, StepsInv, NoReply
<1>7. VerdictInv'
  <2>1. error' = error \/ error' = [error EXCEPT ![p] = "none"]
    BY <1>1 DEF Return, RunAgain
  <2>2. /\ deleted' \/ status' = "deleted" => sandbox = "deleted"
        /\ status' = "failed" => sandbox \in {"failed", "deleted"}
    BY <1>1 DEF HandleInv, VerdictInv
  <2> QED
    BY <1>1, <2>1, <2>2, <1>3 DEF HandleTypeOK, HandleInv, VerdictInv, NoReply
<1>8. DoomedInv'
  <2>1. op[p] # "Delete"
    BY <1>1 DEF GuestOps, FileOps
  <2>2. /\ told' = told
        /\ doomed' = doomed \/ doomed' = [doomed EXCEPT ![p] = FALSE]
    BY <1>1, <2>1, StoreType
  <2>3. op[p] \in Guarded \cup {"Delete"} => ~doomed[p]
    BY <1>1 DEF HandleInv, DoomedInv
  <2> QED
    BY <1>1, <1>3, <1>5, <2>2, <2>3 DEF HandleTypeOK, HandleInv, DoomedInv
<1>9. AddressInv'
  <2>1. endpoint # None => endpoint' # None
    BY <1>1 DEF HandleInv, AddressInv
  <2>2. capability # None => capability' # None
    BY <1>1 DEF HandleInv, AddressInv
  <2>3. endpoint' # None => capability' # None
    BY <1>1 DEF HandleInv, AddressInv
  <2> QED
    BY <1>1, <1>5, <2>1, <2>2, <2>3, <1>3 DEF HandleTypeOK, HandleInv, AddressInv,
       NoReply, NoWire
<1>10. DoneInv'
  BY <1>1, <1>4 DEF HandleTypeOK, HandleInv, DoneInv, Return, RunAgain
<1> QED
  BY <1>2, <1>6, <1>7, <1>8, <1>9, <1>10 DEF HandleInv

\* Every step of a call.
LEMMA CallStepInv ==
  ASSUME HandleTypeOK, HandleInv, NEW p \in Callers, CallStep(p)
  PROVE  HandleTypeOK' /\ HandleInv'
  BY GuardInv, CheckStatusInv, NoEndpointInv, ReadHandleInv, ReadEndpointInv,
     ReadCapabilityInv, GuestPerformsInv, GuestOkInv, GuestErrsInv, HandleErrorInv,
     SniffExpiryInv, ServeDeleteInv, ServeResumeInv, ServeCapabilityInv,
     ServeSnapshotInv, ServeGetInv, ControlFailsInv, ControlRetriesInv,
     StoreDeleteInv, StoreResumeInv, StoreCapabilityInv, StoreSnapshotInv,
     StoreRefreshInv DEF CallStep

\* A handle appears, of a sandbox in any state.
LEMMA NewSandboxInv ==
  ASSUME HandleTypeOK, HandleInv, CreateReturns \/ GetReturns
  PROVE  HandleTypeOK' /\ HandleInv'
<1> USE DEF serviceVars, callVars
<1>1. /\ ~known /\ known' = TRUE
      /\ UNCHANGED <<deleted, serviceVars, callVars, said, calls, told>>
      /\ \/ /\ status' \in {"running", sandbox}
            /\ endpoint' = home /\ capability' = epoch
         \/ status' = "failed" /\ sandbox = "failed" /\ endpoint' = None /\ capability' = None
      /\ status' = "running" \/ status' = sandbox
  BY DEF CreateReturns, GetReturns, NewSandbox, SandboxFromGet
<1>2. \A p \in Callers : pc[p] = "idle" /\ reply[p].to = "none"
  BY <1>1 DEF HandleTypeOK, HandleInv, StepsInv
<1>3. HandleTypeOK'
  BY <1>1 DEF HandleTypeOK, EndpointsOrNone, TokensOrNone, Statuses
<1>4. StepsInv'
  BY <1>1, <1>2 DEF HandleTypeOK, HandleInv, StepsInv
<1>5. VerdictInv'
  BY <1>1 DEF HandleTypeOK, HandleInv, VerdictInv
<1>6. DoomedInv'
  BY <1>1 DEF HandleTypeOK, HandleInv, DoomedInv
<1>7. AddressInv'
  <2>1. endpoint' # None => capability' # None
    BY <1>1, HandleAssumption DEF HandleAssumption, HandleTypeOK
  <2>2. endpoint' = None => sandbox \in {"failed", "deleted"}
    BY <1>1, HandleAssumption DEF HandleAssumption, HandleTypeOK
  <2> QED
    BY <1>1, <1>2, <2>1, <2>2 DEF HandleTypeOK, HandleInv, AddressInv
<1>8. DoneInv'
  BY <1>1 DEF HandleTypeOK, HandleInv, DoneInv
<1> QED
  BY <1>3, <1>4, <1>5, <1>6, <1>7, <1>8 DEF HandleInv

\* The sandbox goes where it cannot come back from, and capabilities expire.
LEMMA ServiceInv ==
  ASSUME HandleTypeOK, HandleInv, SandboxChanges \/ CapabilitiesExpire
  PROVE  HandleTypeOK' /\ HandleInv'
<1> USE DEF handleVars, callVars
<1>1. /\ UNCHANGED <<handleVars, home, destroyed, callVars, said, calls, told>>
      /\ sandbox' \in Statuses /\ epoch' \in 0 .. MaxEpoch
      /\ sandbox = "deleted" => sandbox' = "deleted"
      /\ sandbox = "failed" => sandbox' \in {"failed", "deleted"}
  BY HandleAssumption DEF HandleAssumption, SandboxChanges, CapabilitiesExpire,
     HandleTypeOK, Statuses
<1>2. HandleTypeOK'
  BY <1>1 DEF HandleTypeOK
<1>3. StepsInv'
  BY <1>1 DEF HandleInv, StepsInv
<1>4. VerdictInv'
  BY <1>1 DEF HandleInv, VerdictInv
<1>5. DoomedInv'
  BY <1>1 DEF HandleInv, DoomedInv
<1>6. AddressInv'
  BY <1>1 DEF HandleInv, AddressInv
<1>7. DoneInv'
  BY <1>1 DEF HandleInv, DoneInv
<1> QED
  BY <1>2, <1>3, <1>4, <1>5, <1>6, <1>7 DEF HandleInv

\* A handle as Create and Get return it.
LEMMA HandleInitInv == HandleInit => HandleTypeOK /\ HandleInv
<1> SUFFICES ASSUME HandleInit PROVE HandleTypeOK /\ HandleInv
  OBVIOUS
<1> USE DEF HandleInit
<1>1. HandleTypeOK
  <2> USE HandleAssumption DEF HandleAssumption
  <2>1. 0 \in 0 .. MaxEpoch /\ 0 \in 0 .. MaxMoves /\ 0 \in 0 .. MaxCalls
    OBVIOUS
  <2>2. wire \in [Callers -> [endpoint : EndpointsOrNone, capability : TokensOrNone]]
    BY DEF NoWire, EndpointsOrNone, TokensOrNone
  <2>3. reply \in [Callers -> [to : Requests, status : Statuses,
                               endpoint : EndpointsOrNone, capability : TokensOrNone]]
    BY DEF NoReply, EndpointsOrNone, TokensOrNone, Requests, Statuses
  <2>4. pc \in [Callers -> Steps] /\ doomed \in [Callers -> BOOLEAN]
    BY DEF Steps
  <2>5. known \in BOOLEAN /\ deleted \in BOOLEAN /\ destroyed \in BOOLEAN
    OBVIOUS
  <2>6. /\ status \in Statuses /\ sandbox \in Statuses
        /\ endpoint \in EndpointsOrNone /\ capability \in TokensOrNone
    BY DEF EndpointsOrNone, TokensOrNone, Statuses
  <2>7. /\ op \in [Callers -> Ops \cup {"none"}] /\ run \in [Callers -> {1, 2}]
        /\ error \in [Callers -> Errors \cup {"none"}] /\ done \in [Callers -> 0 .. 2]
        /\ said \in [Callers -> {"none", "ok", "unknown", "refused"}]
    OBVIOUS
  <2> QED
    BY <2>1, <2>2, <2>3, <2>4, <2>5, <2>6, <2>7 DEF HandleTypeOK
<1>2. StepsInv /\ VerdictInv /\ DoomedInv
  BY DEF StepsInv, VerdictInv, DoomedInv, NoReply
<1>3. AddressInv /\ DoneInv
  BY DEF AddressInv, DoneInv, NoReply, AfterRejection
<1> QED
  BY <1>1, <1>2, <1>3 DEF HandleInv

\* Every step keeps the types and the invariant.
LEMMA HandleInductive ==
  HandleTypeOK /\ HandleInv /\ [HandleNext]_handleSpecVars => HandleTypeOK' /\ HandleInv'
<1> SUFFICES ASSUME HandleTypeOK, HandleInv, [HandleNext]_handleSpecVars
             PROVE  HandleTypeOK' /\ HandleInv'
  OBVIOUS
<1>1. CASE HandleNext
  BY <1>1, NewSandboxInv, BeginInv, CallStepInv, ServiceInv DEF HandleNext, HandleStep
<1>2. CASE UNCHANGED handleSpecVars
  <2> USE <1>2 DEF handleSpecVars, handleVars, serviceVars, callVars
  <2>1. HandleTypeOK'
    BY DEF HandleTypeOK
  <2>2. StepsInv' /\ VerdictInv' /\ DoomedInv'
    BY DEF HandleInv, StepsInv, VerdictInv, DoomedInv
  <2>3. AddressInv' /\ DoneInv'
    BY DEF HandleInv, AddressInv, DoneInv, AfterRejection
  <2> QED
    BY <2>1, <2>2, <2>3 DEF HandleInv
<1> QED
  BY <1>1, <1>2

\* So they hold in every state.
LEMMA HandleInvariant == HandleSpec => [](HandleTypeOK /\ HandleInv)
  BY HandleInitInv, HandleInductive, PTL DEF HandleSpec

(***************************************************************************)
(* The theorems.                                                           *)
(***************************************************************************)
\* The values of the variables: every answer has an error, no call is performed
\* more often than it is made, and no step leads where its operation has no
\* business.
THEOREM HandleTypeCorrect == HandleSpec => []HandleTypeOK
  BY HandleInvariant, PTL

\* Once a Delete has returned nil, or an Exec or file call the guest's word of
\* the deletion, no guarded call and no Delete begun later sends anything,
\* although answers that come late overwrite the status: whoever is told leaves
\* s.deleted behind, nothing takes it back, and the guard looks at it.
THEOREM DeletedIsForGood == HandleSpec => []DeletedForGood
<1>1. HandleInv => DeletedForGood
  BY DEF HandleInv, DoomedInv, DeletedForGood
<1> QED
  BY <1>1, HandleInvariant, PTL

\* The handle calls its sandbox deleted or failed only when it is, in whatever
\* order answers are stored: neither can be undone, so no answer is too old.
THEOREM VerdictsAreTrue == HandleSpec => []NoFalseVerdict
<1>1. HandleInv => NoFalseVerdict
  BY DEF HandleInv, VerdictInv, NoFalseVerdict, IsDeleted
<1> QED
  BY <1>1, HandleInvariant, PTL

\* A guest call has an endpoint and a capability, although it reads them in
\* two lock sections and answers may leave them out.
THEOREM CallsAreAddressed == HandleSpec => []GuestCallsAddressed
<1>1. HandleInv => GuestCallsAddressed
  BY DEF HandleInv, AddressInv, GuestCallsAddressed
<1> QED
  BY <1>1, HandleInvariant, PTL

\* The guest performs a file or session call at most once in its two runs.
THEOREM OncePerformed == HandleSpec => []PerformedOnce
<1>1. HandleInv => PerformedOnce
  BY DEF HandleInv, DoneInv, PerformedOnce
<1> QED
  BY <1>1, HandleInvariant, PTL

\* Of a session call, MkdirFile, RemoveFile or MoveFile an error that names a
\* reason means that it was not performed: the error table turns every answer
\* that may be lost into one that names none, and what was performed is not run
\* again.
THEOREM RefusedIsNotDone == HandleSpec => []RefusedMeansNotDone
<1>1. HandleInv => RefusedMeansNotDone
  BY DEF HandleInv, DoneInv, RefusedMeansNotDone
<1> QED
  BY <1>1, HandleInvariant, PTL
=============================================================================
