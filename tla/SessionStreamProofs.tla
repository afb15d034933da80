-------------------------- MODULE SessionStreamProofs --------------------------
(* Theorems about SessionStream, for any goroutines, timeouts and bounds.    *)
EXTENDS SessionStream, TLAPS

(***************************************************************************)
(* The inductive invariant.                                                *)
(***************************************************************************)
\* Once live, an attach stays live, and nobody uses it before.
PhaseInv ==
  /\ phase = "reissue" => opens = 1
  /\ phase = "accepted" => idle
  /\ \A p \in Procs : pc[p] # "idle" => phase = "live"
  /\ reader # "none" => phase = "live"

\* Next's timer runs no longer than the attach may live.
TimerInv ==
  ~idle => \A c \in Consumers : pc[c] = "select" => timer[c] + age >= AttachTimeout

\* sendMu is held from the lock to the return of a Write, and over both frames
\* of a Detach.
MutexInv ==
  \A p \in Procs :
    pc[p] \in {"send", "touch", "notify", "detachSend", "closeSend"} => sendMu = p

\* Behind a detach frame the stream is half-closed, before sendMu is released.
DetachSent == detachSeen \/ \E i \in 1 .. Len(wire) : wire[i] = "detach"
HalfCloseInv ==
  DetachSent => halfClosed \/ \E p \in Procs : pc[p] = "closeSend"

\* Only what has closed the handle ends the stream from this side.
CloseInv ==
  /\ \A p \in Procs :
       pc[p] \in {"detachLock", "detachSend", "closeSend", "cleanup", "grace"} => closed
  /\ halfClosed => closed
  /\ cause = "detach" => closed /\ StreamOver
  /\ StreamOver => cause # "none"

\* The reader has an event to emit, and an error only of a stream that
\* something else has ended.
ErrIn(s) == \E i \in 1 .. Len(s) : s[i] = "err"
EmitInv ==
  /\ reader = "emit" => emitting # <<>>
  /\ ErrIn(events) \/ ErrIn(emitting) => cause \in {"guest", "time"}

StreamInv ==
  PhaseInv /\ TimerInv /\ MutexInv /\ HalfCloseInv /\ DetachIsLast /\ CloseInv /\ EmitInv

\* A queue with room.
LEMMA AppendTyped ==
  ASSUME NEW S, NEW s \in Seq(S), NEW e \in S, NEW n \in Nat, Len(s) < n
  PROVE  Append(s, e) \in Seq(S) /\ Len(Append(s, e)) <= n
OBVIOUS

\* When the attach begins.
LEMMA InitInv == Init => TypeOK /\ StreamInv
<1> SUFFICES ASSUME Init PROVE TypeOK /\ StreamInv
  OBVIOUS
<1>1. TypeOK
  <2>1. sendMu \in Procs \cup {None}
    BY DEF Init
  <2>2. pc \in [Procs -> {"idle"}] /\ timer \in [Consumers -> {0}]
    BY DEF Init
  <2>3. timer \in [Consumers -> 0 .. IdleTimeout + MaxAge]
    BY <2>2, SessionAssumption DEF MaxAge
  <2>4. /\ events = <<>> /\ emitting = <<>> /\ wire = <<>> /\ out = <<>>
        /\ Len(<<>>) = 0
    BY DEF Init
  <2>5. /\ events \in Seq(Events) /\ Len(events) <= EventCap /\ emitting \in Seq(Events)
        /\ wire \in Seq(Frames) /\ Len(wire) <= Window
        /\ out \in Seq(Responses) /\ Len(out) <= OutCap
    BY <2>4, SessionAssumption
  <2>6. quiet \in 0 .. IdleTimeout /\ age \in 0 .. MaxAge
    BY SessionAssumption DEF Init, MaxAge
  <2>7. pc \in [Procs -> {"idle", "arm", "select", "lock", "send", "touch", "notify",
                        "detach", "detachLock", "detachSend", "closeSend",
                        "cleanup", "grace"}]
    BY <2>2
  <2>8. /\ phase \in {"opening", "reissue", "accepted", "live", "failed"}
        /\ opens \in 1 .. 2 /\ idle \in Modes
        /\ reader \in {"none", "recv", "emit", "done"}
        /\ cause \in {"none", "guest", "time", "detach"}
    BY DEF Init
  <2>9. /\ closed \in BOOLEAN /\ activity \in BOOLEAN /\ ctxDone \in BOOLEAN
        /\ halfClosed \in BOOLEAN /\ detachSeen \in BOOLEAN /\ guestEnded \in BOOLEAN
    BY DEF Init
  <2> QED
    BY <2>1, <2>3, <2>5, <2>6, <2>7, <2>8, <2>9 DEF TypeOK
<1>2. PhaseInv /\ TimerInv /\ MutexInv
  BY DEF Init, PhaseInv, TimerInv, MutexInv, Procs
<1>3. HalfCloseInv /\ DetachIsLast /\ CloseInv /\ EmitInv
  BY DEF Init, HalfCloseInv, DetachSent, DetachIsLast, CloseInv, StreamOver, EmitInv, ErrIn,
     Procs
<1> QED
  BY <1>1, <1>2, <1>3 DEF StreamInv

(***************************************************************************)
(* Each step keeps the types and each part of the invariant.               *)
(***************************************************************************)
LEMMA PhaseStep ==
  ASSUME TypeOK, StreamInv, [Next]_vars
  PROVE  PhaseInv'
<1> USE SessionAssumption, ProcsAssumption DEF TypeOK, StreamInv, Procs, StreamOver,
    attachVars, timeVars, handleVars, readerVars, procVars, wireVars, guestVars,
    PhaseInv
<1>1. CASE AttachStep
  BY <1>1 DEF AttachStep, Accepted, StopAcceptTimer, OpeningFails, Reissue,
     MayReissue
<1>2. CASE AcceptTimerFires \/ ContextExpires
  BY <1>2 DEF AcceptTimerFires, ContextExpires, EndedBy
<1>3. CASE Tick
  BY <1>3 DEF Tick, Dec
<1>4. CASE ReaderStep
  BY <1>4 DEF ReaderStep, RecvResponse, RecvError, EmitEvent, GiveUp, AfterEmit,
     Emit, RecvErrorEvent
<1>5. CASE RecvMalformed
  BY <1>5 DEF RecvMalformed, Emit, EndedBy
<1>6. CASE GuestReads \/ GuestOutput \/ GuestEnds
  BY <1>6 DEF GuestReads, GuestOutput, GuestEnds, EndedBy
<1>7. ASSUME NEW c \in Consumers, BeginNext(c) \/ NextStep(c) PROVE PhaseInv'
  BY <1>7 DEF BeginNext, NextStep, Arm, TakeEvent, TakeActivity, TimerFires,
     NextReturns, Remaining, ExpiryConfirmed, Goto
<1>8. ASSUME NEW w \in Writers, BeginWrite(w) \/ WriteStep(w) PROVE PhaseInv'
  BY <1>8 DEF BeginWrite, WriteStep, LockWrite, Lock, SendInput, InputFails, Touch,
     Notify, SendTakes, SendFails, EndedBy, Goto
<1>9. ASSUME NEW p \in Consumers \cup Closers, CallDetach(p) \/ DetachStep(p) PROVE PhaseInv'
  BY <1>9 DEF CallDetach, DetachStep, Detach, LockDetach, Lock, SendDetach,
     CloseSend, AfterCloseSend, DetachReturns, CleanupTimeout, Cancel, SendTakes,
     SendFails, EndedBy, Goto
<1>10. CASE UNCHANGED vars
  BY <1>10 DEF vars
<1> QED
  BY <1>1, <1>2, <1>3, <1>4, <1>5, <1>6, <1>7, <1>8, <1>9, <1>10 DEF Next

\* The timers and the clock: one lemma for all steps.
LEMMA TimerStep ==
  ASSUME TypeOK, StreamInv, [Next]_vars
  PROVE  TimerInv'
<1> USE SessionAssumption, ProcsAssumption DEF TypeOK, StreamInv, Procs, StreamOver,
    attachVars, timeVars, handleVars, readerVars, procVars, wireVars, guestVars,
    PhaseInv, TimerInv, MaxAge
<1>1. CASE AttachStep
  BY <1>1 DEF AttachStep, Accepted, StopAcceptTimer, OpeningFails, Reissue,
     MayReissue
<1>2. CASE AcceptTimerFires \/ ContextExpires
  BY <1>2 DEF AcceptTimerFires, ContextExpires, EndedBy
<1>3. CASE Tick
  BY <1>3 DEF Tick, Dec
<1>4. CASE ReaderStep
  BY <1>4 DEF ReaderStep, RecvResponse, RecvError, EmitEvent, GiveUp, AfterEmit,
     Emit, RecvErrorEvent
<1>5. CASE RecvMalformed
  BY <1>5 DEF RecvMalformed, Emit, EndedBy
<1>6. CASE GuestReads \/ GuestOutput \/ GuestEnds
  BY <1>6 DEF GuestReads, GuestOutput, GuestEnds, EndedBy
<1>7. ASSUME NEW c \in Consumers, BeginNext(c) \/ NextStep(c) PROVE TimerInv'
  <2>1. CASE BeginNext(c)
    BY <2>1 DEF BeginNext, Goto
  <2>2. CASE Arm(c)
    BY <2>2 DEF Arm, Remaining, Goto
  <2>3. CASE TakeEvent(c)
    BY <2>3 DEF TakeEvent, NextReturns, Goto
  <2>4. CASE TakeActivity(c)
    BY <2>4 DEF TakeActivity, Goto
  <2>5. CASE TimerFires(c)
    BY <2>5 DEF TimerFires, ExpiryConfirmed, Goto
  <2> QED
    BY <1>7, <2>1, <2>2, <2>3, <2>4, <2>5 DEF NextStep
<1>8. ASSUME NEW w \in Writers, BeginWrite(w) \/ WriteStep(w) PROVE TimerInv'
  BY <1>8 DEF BeginWrite, WriteStep, LockWrite, Lock, SendInput, InputFails, Touch,
     Notify, SendTakes, SendFails, EndedBy, Goto
<1>9. ASSUME NEW p \in Consumers \cup Closers, CallDetach(p) \/ DetachStep(p) PROVE TimerInv'
  BY <1>9 DEF CallDetach, DetachStep, Detach, LockDetach, Lock, SendDetach,
     CloseSend, AfterCloseSend, DetachReturns, CleanupTimeout, Cancel, SendTakes,
     SendFails, EndedBy, Goto
<1>10. CASE UNCHANGED vars
  BY <1>10 DEF vars
<1> QED
  BY <1>1, <1>2, <1>3, <1>4, <1>5, <1>6, <1>7, <1>8, <1>9, <1>10 DEF Next

\* sendMu is held by the one process that is sending.
LEMMA MutexStep ==
  ASSUME TypeOK, StreamInv, [Next]_vars
  PROVE  MutexInv'
<1> USE SessionAssumption, ProcsAssumption DEF TypeOK, StreamInv, Procs, StreamOver,
    attachVars, timeVars, handleVars, readerVars, procVars, wireVars, guestVars,
    MutexInv
<1>1. CASE AttachStep
  BY <1>1 DEF AttachStep, Accepted, StopAcceptTimer, OpeningFails, Reissue,
     MayReissue
<1>2. CASE AcceptTimerFires \/ ContextExpires
  BY <1>2 DEF AcceptTimerFires, ContextExpires, EndedBy
<1>3. CASE Tick
  BY <1>3 DEF Tick, Dec
<1>4. CASE ReaderStep
  BY <1>4 DEF ReaderStep, RecvResponse, RecvError, EmitEvent, GiveUp, AfterEmit,
     Emit, RecvErrorEvent
<1>5. CASE RecvMalformed
  BY <1>5 DEF RecvMalformed, Emit, EndedBy
<1>6. CASE GuestReads \/ GuestOutput \/ GuestEnds
  BY <1>6 DEF GuestReads, GuestOutput, GuestEnds, EndedBy
<1>7. ASSUME NEW c \in Consumers, BeginNext(c) \/ NextStep(c) PROVE MutexInv'
  BY <1>7 DEF BeginNext, NextStep, Arm, TakeEvent, TakeActivity, TimerFires,
     NextReturns, Remaining, ExpiryConfirmed, Goto
<1>8. ASSUME NEW w \in Writers, BeginWrite(w) \/ WriteStep(w) PROVE MutexInv'
  <2>1. CASE BeginWrite(w)
    BY <2>1 DEF BeginWrite, Goto
  <2>2. CASE LockWrite(w)
    BY <2>2 DEF LockWrite, Lock, Goto
  <2>3. CASE SendInput(w)
    BY <2>3 DEF SendInput, SendTakes, Goto
  <2>4. CASE InputFails(w)
    BY <2>4 DEF InputFails, SendFails, EndedBy, Goto
  <2>5. CASE Touch(w)
    BY <2>5 DEF Touch, Goto
  <2>6. CASE Notify(w)
    BY <2>6 DEF Notify, Goto
  <2> QED
    BY <1>8, <2>1, <2>2, <2>3, <2>4, <2>5, <2>6 DEF WriteStep
<1>9. ASSUME NEW p \in Consumers \cup Closers, CallDetach(p) \/ DetachStep(p) PROVE MutexInv'
  BY <1>9, SMTT(30) DEF CallDetach, DetachStep, Detach, LockDetach, Lock, SendDetach,
     CloseSend, AfterCloseSend, DetachReturns, CleanupTimeout, Cancel, SendTakes,
     SendFails, EndedBy, Goto
<1>10. CASE UNCHANGED vars
  BY <1>10 DEF vars
<1> QED
  BY <1>1, <1>2, <1>3, <1>4, <1>5, <1>6, <1>7, <1>8, <1>9, <1>10 DEF Next

\* CloseSend comes after the detach frame.
LEMMA HalfCloseStep ==
  ASSUME TypeOK, StreamInv, [Next]_vars
  PROVE  HalfCloseInv'
<1> USE SessionAssumption, ProcsAssumption DEF TypeOK, StreamInv, Procs, StreamOver,
    attachVars, timeVars, handleVars, readerVars, procVars, wireVars, guestVars,
    MutexInv, DetachSent, HalfCloseInv
<1>1. CASE AttachStep
  BY <1>1 DEF AttachStep, Accepted, StopAcceptTimer, OpeningFails, Reissue,
     MayReissue
<1>2. CASE AcceptTimerFires \/ ContextExpires
  BY <1>2 DEF AcceptTimerFires, ContextExpires, EndedBy
<1>3. CASE Tick
  BY <1>3 DEF Tick, Dec
<1>4. CASE ReaderStep
  BY <1>4 DEF ReaderStep, RecvResponse, RecvError, EmitEvent, GiveUp, AfterEmit,
     Emit, RecvErrorEvent
<1>5. CASE RecvMalformed
  BY <1>5 DEF RecvMalformed, Emit, EndedBy
<1>6. CASE GuestReads \/ GuestOutput \/ GuestEnds
  <2>1. CASE GuestReads
    BY <2>1 DEF GuestReads
  <2>2. CASE GuestOutput
    BY <2>2 DEF GuestOutput
  <2>3. CASE GuestEnds
    BY <2>3 DEF GuestEnds, EndedBy
  <2> QED
    BY <1>6, <2>1, <2>2, <2>3
<1>7. ASSUME NEW c \in Consumers, BeginNext(c) \/ NextStep(c) PROVE HalfCloseInv'
  BY <1>7 DEF BeginNext, NextStep, Arm, TakeEvent, TakeActivity, TimerFires,
     NextReturns, Remaining, ExpiryConfirmed, Goto
<1>8. ASSUME NEW w \in Writers, BeginWrite(w) \/ WriteStep(w) PROVE HalfCloseInv'
  <2>1. CASE BeginWrite(w)
    BY <2>1 DEF BeginWrite, Goto
  <2>2. CASE LockWrite(w)
    BY <2>2 DEF LockWrite, Lock, Goto
  <2>3. CASE SendInput(w)
    BY <2>3 DEF SendInput, SendTakes, Goto
  <2>4. CASE InputFails(w)
    BY <2>4 DEF InputFails, SendFails, EndedBy, Goto
  <2>5. CASE Touch(w)
    BY <2>5 DEF Touch, Goto
  <2>6. CASE Notify(w)
    BY <2>6 DEF Notify, Goto
  <2> QED
    BY <1>8, <2>1, <2>2, <2>3, <2>4, <2>5, <2>6 DEF WriteStep
<1>9. ASSUME NEW p \in Consumers \cup Closers, CallDetach(p) \/ DetachStep(p) PROVE HalfCloseInv'
  BY <1>9 DEF CallDetach, DetachStep, Detach, LockDetach, Lock, SendDetach,
     CloseSend, AfterCloseSend, DetachReturns, CleanupTimeout, Cancel, SendTakes,
     SendFails, EndedBy, Goto
<1>10. CASE UNCHANGED vars
  BY <1>10 DEF vars
<1> QED
  BY <1>1, <1>2, <1>3, <1>4, <1>5, <1>6, <1>7, <1>8, <1>9, <1>10 DEF Next

\* Nothing is sent behind the detach frame.
LEMMA LastStep ==
  ASSUME TypeOK, StreamInv, [Next]_vars
  PROVE  DetachIsLast'
<1> USE SessionAssumption, ProcsAssumption DEF TypeOK, StreamInv, Procs, StreamOver,
    attachVars, timeVars, handleVars, readerVars, procVars, wireVars, guestVars,
    MutexInv, DetachSent, HalfCloseInv, DetachIsLast
<1>1. CASE AttachStep
  BY <1>1 DEF AttachStep, Accepted, StopAcceptTimer, OpeningFails, Reissue,
     MayReissue
<1>2. CASE AcceptTimerFires \/ ContextExpires
  BY <1>2 DEF AcceptTimerFires, ContextExpires, EndedBy
<1>3. CASE Tick
  BY <1>3 DEF Tick, Dec
<1>4. CASE ReaderStep
  BY <1>4 DEF ReaderStep, RecvResponse, RecvError, EmitEvent, GiveUp, AfterEmit,
     Emit, RecvErrorEvent
<1>5. CASE RecvMalformed
  BY <1>5 DEF RecvMalformed, Emit, EndedBy
<1>6. CASE GuestReads \/ GuestOutput \/ GuestEnds
  <2>1. CASE GuestReads
    BY <2>1 DEF GuestReads
  <2>2. CASE GuestOutput
    BY <2>2 DEF GuestOutput
  <2>3. CASE GuestEnds
    BY <2>3 DEF GuestEnds, EndedBy
  <2> QED
    BY <1>6, <2>1, <2>2, <2>3
<1>7. ASSUME NEW c \in Consumers, BeginNext(c) \/ NextStep(c) PROVE DetachIsLast'
  BY <1>7 DEF BeginNext, NextStep, Arm, TakeEvent, TakeActivity, TimerFires,
     NextReturns, Remaining, ExpiryConfirmed, Goto
<1>8. ASSUME NEW w \in Writers, BeginWrite(w) \/ WriteStep(w) PROVE DetachIsLast'
  <2>1. CASE BeginWrite(w)
    BY <2>1 DEF BeginWrite, Goto
  <2>2. CASE LockWrite(w)
    BY <2>2 DEF LockWrite, Lock, Goto
  <2>3. CASE SendInput(w)
    BY <2>3 DEF SendInput, SendTakes, Goto
  <2>4. CASE InputFails(w)
    BY <2>4 DEF InputFails, SendFails, EndedBy, Goto
  <2>5. CASE Touch(w)
    BY <2>5 DEF Touch, Goto
  <2>6. CASE Notify(w)
    BY <2>6 DEF Notify, Goto
  <2> QED
    BY <1>8, <2>1, <2>2, <2>3, <2>4, <2>5, <2>6 DEF WriteStep
<1>9. ASSUME NEW p \in Consumers \cup Closers, CallDetach(p) \/ DetachStep(p) PROVE DetachIsLast'
  <2>1. CASE CallDetach(p)
    BY <2>1 DEF CallDetach, Goto
  <2>2. CASE Detach(p)
    BY <2>2 DEF Detach, Goto
  <2>3. CASE LockDetach(p)
    BY <2>3 DEF LockDetach, Lock, Goto
  <2>4. CASE SendDetach(p)
    <3>1. SendTakes => ~DetachSent
      <4>1. ASSUME NEW q \in Procs, pc[q] = "closeSend" PROVE pc[q] # "closeSend"
        <5>1. sendMu = q /\ sendMu = p
          BY <4>1, <2>4 DEF SendDetach
        <5> QED
          BY <5>1, <2>4 DEF SendDetach
      <4> QED
        BY <4>1 DEF SendTakes
    <3>2. CASE SendTakes /\ wire' = Append(wire, "detach")
      BY <3>1, <3>2, <2>4 DEF SendDetach
    <3>3. CASE UNCHANGED wire
      BY <3>3, <2>4 DEF SendDetach
    <3> QED
      BY <3>2, <3>3, <2>4 DEF SendDetach
  <2>5. CASE CloseSend(p)
    BY <2>5 DEF CloseSend, AfterCloseSend, Goto
  <2>6. CASE DetachReturns(p)
    BY <2>6 DEF DetachReturns, Cancel, EndedBy, Goto
  <2>7. CASE CleanupTimeout(p)
    BY <2>7 DEF CleanupTimeout, Cancel, EndedBy, Goto
  <2> QED
    BY <1>9, <2>1, <2>2, <2>3, <2>4, <2>5, <2>6, <2>7 DEF DetachStep
<1>10. CASE UNCHANGED vars
  BY <1>10 DEF vars
<1> QED
  BY <1>1, <1>2, <1>3, <1>4, <1>5, <1>6, <1>7, <1>8, <1>9, <1>10 DEF Next

\* Every step keeps the types.
LEMMA TypeStep ==
  ASSUME TypeOK, StreamInv, [Next]_vars
  PROVE  TypeOK'
<1> USE SessionAssumption, ProcsAssumption DEF TypeOK, StreamInv, Procs, StreamOver,
    attachVars, timeVars, handleVars, readerVars, procVars, wireVars, guestVars,
    PhaseInv, EmitInv, MaxAge, Events, Responses, Frames
<1>1. CASE AttachStep
  BY <1>1 DEF AttachStep, Accepted, StopAcceptTimer, OpeningFails, Reissue,
     MayReissue
<1>2. CASE AcceptTimerFires \/ ContextExpires
  <2>1. UNCHANGED <<attachVars, timeVars, handleVars, readerVars, procVars, halfClosed,
                    wire, out, detachSeen, guestEnded>>
    BY <1>2 DEF AcceptTimerFires, ContextExpires
  <2>2. ctxDone' = TRUE /\ cause' \in {cause, "time"}
    BY <1>2 DEF AcceptTimerFires, ContextExpires, EndedBy
  <2> QED
    BY <2>1, <2>2
<1>3. CASE Tick
  BY <1>3 DEF Tick, Dec
<1>4. CASE ReaderStep
  <2>1. CASE RecvResponse
    <3>1. emitting' = <<"terminal", "end">> \/ emitting' = <<"output">>
      BY <2>1 DEF RecvResponse, Emit
    <3>2. <<"terminal", "end">> \in Seq(Events) /\ <<"output">> \in Seq(Events)
      OBVIOUS
    <3>3. emitting' \in Seq(Events)
      BY <3>1, <3>2
    <3>4. out' \in Seq(Responses) /\ Len(out') <= OutCap
      BY <2>1 DEF RecvResponse
    <3> QED
      BY <2>1, <3>3, <3>4 DEF RecvResponse, Emit
  <2>2. CASE RecvError
    <3>1. emitting' \in Seq(Events)
      BY <2>2 DEF RecvError, RecvErrorEvent, Emit
    <3> QED
      BY <2>2, <3>1 DEF RecvError, RecvErrorEvent, Emit
  <2>3. CASE EmitEvent
    BY <2>3, SMTT(30) DEF EmitEvent, AfterEmit
  <2>4. CASE GiveUp
    BY <2>4 DEF GiveUp, AfterEmit
  <2> QED
    BY <1>4, <2>1, <2>2, <2>3, <2>4 DEF ReaderStep
<1>5. CASE RecvMalformed
  <2>1. emitting' \in Seq(Events)
    BY <1>5 DEF RecvMalformed, Emit
  <2> QED
    BY <1>5, <2>1 DEF RecvMalformed, Emit, EndedBy
<1>6. CASE GuestReads \/ GuestOutput \/ GuestEnds
  <2>1. CASE GuestReads
    BY <2>1 DEF GuestReads
  <2>2. CASE GuestOutput
    <3>1. out' \in Seq(Responses) /\ Len(out') <= OutCap
      BY <2>2 DEF GuestOutput
    <3> QED
      BY <2>2, <3>1 DEF GuestOutput
  <2>3. CASE GuestEnds
    <3>1. CASE Len(out) < OutCap /\ out' = Append(out, "terminal")
      BY <2>3, <3>1 DEF GuestEnds, EndedBy
    <3>2. CASE UNCHANGED out
      BY <2>3, <3>2 DEF GuestEnds, EndedBy
    <3> QED
      BY <2>3, <3>1, <3>2 DEF GuestEnds
  <2> QED
    BY <1>6, <2>1, <2>2, <2>3
<1>7. ASSUME NEW c \in Consumers, BeginNext(c) \/ NextStep(c) PROVE TypeOK'
  <2>1. CASE BeginNext(c)
    BY <2>1 DEF BeginNext, Goto
  <2>2. CASE Arm(c)
    BY <2>2 DEF Arm, Remaining, Goto
  <2>3. CASE TakeEvent(c)
    BY <2>3 DEF TakeEvent, NextReturns, Goto
  <2>4. CASE TakeActivity(c)
    <3>1. timer' \in [Consumers -> 0 .. IdleTimeout + MaxAge]
      BY <2>4 DEF TakeActivity
    <3>2. pc' \in [Procs -> {"idle", "arm", "select", "lock", "send", "touch", "notify",
                         "detach", "detachLock", "detachSend", "closeSend",
                         "cleanup", "grace"}]
      BY <2>4 DEF TakeActivity, Goto
    <3>3. UNCHANGED <<attachVars, timeVars, closed, sendMu, readerVars, wireVars, guestVars>>
      BY <2>4 DEF TakeActivity
    <3>4. activity' \in BOOLEAN
      BY <2>4 DEF TakeActivity
    <3> QED
      BY <3>1, <3>2, <3>3, <3>4
  <2>5. CASE TimerFires(c)
    BY <2>5 DEF TimerFires, ExpiryConfirmed, Goto
  <2> QED
    BY <1>7, <2>1, <2>2, <2>3, <2>4, <2>5 DEF NextStep
<1>8. ASSUME NEW w \in Writers, BeginWrite(w) \/ WriteStep(w) PROVE TypeOK'
  <2>1. CASE BeginWrite(w)
    BY <2>1 DEF BeginWrite, Goto
  <2>2. CASE LockWrite(w)
    BY <2>2 DEF LockWrite, Lock, Goto
  <2>3. CASE SendInput(w)
    <3>1. wire' \in Seq(Frames) /\ Len(wire') <= Window
      BY <2>3 DEF SendInput, SendTakes
    <3> QED
      BY <2>3, <3>1 DEF SendInput, Goto
  <2>4. CASE InputFails(w)
    BY <2>4 DEF InputFails, SendFails, EndedBy, Goto
  <2>5. CASE Touch(w)
    <3>1. quiet' \in 0 .. IdleTimeout
      BY <2>5 DEF Touch
    <3>2. pc' \in [Procs -> {"idle", "arm", "select", "lock", "send", "touch", "notify",
                         "detach", "detachLock", "detachSend", "closeSend",
                         "cleanup", "grace"}]
      BY <2>5 DEF Touch, Goto
    <3>3. UNCHANGED <<attachVars, age, handleVars, readerVars, timer, wireVars, guestVars>>
      BY <2>5 DEF Touch
    <3> QED
      BY <3>1, <3>2, <3>3
  <2>6. CASE Notify(w)
    BY <2>6 DEF Notify, Goto
  <2> QED
    BY <1>8, <2>1, <2>2, <2>3, <2>4, <2>5, <2>6 DEF WriteStep
<1>9. ASSUME NEW p \in Consumers \cup Closers, CallDetach(p) \/ DetachStep(p) PROVE TypeOK'
  <2>1. CASE CallDetach(p)
    BY <2>1 DEF CallDetach, Goto
  <2>2. CASE Detach(p)
    BY <2>2 DEF Detach, Goto
  <2>3. CASE LockDetach(p)
    BY <2>3 DEF LockDetach, Lock, Goto
  <2>4. CASE SendDetach(p)
    <3>1. CASE SendTakes /\ wire' = Append(wire, "detach")
      BY <2>4, <3>1 DEF SendTakes, SendDetach, Goto
    <3>2. CASE UNCHANGED wire
      BY <2>4, <3>2 DEF SendDetach, Goto
    <3> QED
      BY <2>4, <3>1, <3>2 DEF SendDetach
  <2>5. CASE CloseSend(p)
    BY <2>5 DEF CloseSend, AfterCloseSend, Goto
  <2>6. CASE DetachReturns(p)
    BY <2>6 DEF DetachReturns, Cancel, EndedBy, Goto
  <2>7. CASE CleanupTimeout(p)
    BY <2>7 DEF CleanupTimeout, Cancel, EndedBy, Goto
  <2> QED
    BY <1>9, <2>1, <2>2, <2>3, <2>4, <2>5, <2>6, <2>7 DEF DetachStep
<1>10. CASE UNCHANGED vars
  BY <1>10 DEF vars
<1> QED
  BY <1>1, <1>2, <1>3, <1>4, <1>5, <1>6, <1>7, <1>8, <1>9, <1>10 DEF Next

\* An attach that was told to close is closed.
LEMMA CloseStep ==
  ASSUME TypeOK, StreamInv, [Next]_vars
  PROVE  CloseInv'
<1> USE SessionAssumption, ProcsAssumption DEF TypeOK, StreamInv, Procs, StreamOver,
    attachVars, timeVars, handleVars, readerVars, procVars, wireVars, guestVars,
    CloseInv, PhaseInv
<1>1. CASE AttachStep
  BY <1>1 DEF AttachStep, Accepted, StopAcceptTimer, OpeningFails, Reissue,
     MayReissue
<1>2. CASE AcceptTimerFires \/ ContextExpires
  BY <1>2 DEF AcceptTimerFires, ContextExpires, EndedBy
<1>3. CASE Tick
  BY <1>3 DEF Tick, Dec
<1>4. CASE ReaderStep
  BY <1>4, SMTT(30) DEF ReaderStep, RecvResponse, RecvError, EmitEvent, GiveUp, AfterEmit,
     Emit, RecvErrorEvent
<1>5. CASE RecvMalformed
  BY <1>5 DEF RecvMalformed, Emit, EndedBy
<1>6. CASE GuestReads \/ GuestOutput \/ GuestEnds
  BY <1>6 DEF GuestReads, GuestOutput, GuestEnds, EndedBy
<1>7. ASSUME NEW c \in Consumers, BeginNext(c) \/ NextStep(c) PROVE CloseInv'
  BY <1>7, SMTT(30) DEF BeginNext, NextStep, Arm, TakeEvent, TakeActivity, TimerFires,
     NextReturns, Remaining, ExpiryConfirmed, Goto
<1>8. ASSUME NEW w \in Writers, BeginWrite(w) \/ WriteStep(w) PROVE CloseInv'
  BY <1>8 DEF BeginWrite, WriteStep, LockWrite, Lock, SendInput, InputFails, Touch,
     Notify, SendTakes, SendFails, EndedBy, Goto
<1>9. ASSUME NEW p \in Consumers \cup Closers, CallDetach(p) \/ DetachStep(p) PROVE CloseInv'
  BY <1>9 DEF CallDetach, DetachStep, Detach, LockDetach, Lock, SendDetach,
     CloseSend, AfterCloseSend, DetachReturns, CleanupTimeout, Cancel, SendTakes,
     SendFails, EndedBy, Goto
<1>10. CASE UNCHANGED vars
  BY <1>10 DEF vars
<1> QED
  BY <1>1, <1>2, <1>3, <1>4, <1>5, <1>6, <1>7, <1>8, <1>9, <1>10 DEF Next

\* What the reader holds is a message or what its error was turned into.
LEMMA EmitStep ==
  ASSUME TypeOK, StreamInv, [Next]_vars
  PROVE  EmitInv'
<1> USE SessionAssumption, ProcsAssumption DEF TypeOK, StreamInv, Procs, StreamOver,
    attachVars, timeVars, handleVars, readerVars, procVars, wireVars, guestVars,
    EmitInv, ErrIn, CloseInv
<1>1. CASE AttachStep
  BY <1>1 DEF AttachStep, Accepted, StopAcceptTimer, OpeningFails, Reissue,
     MayReissue
<1>2. CASE AcceptTimerFires \/ ContextExpires
  BY <1>2 DEF AcceptTimerFires, ContextExpires, EndedBy
<1>3. CASE Tick
  BY <1>3 DEF Tick, Dec
<1>4. CASE ReaderStep
  <2>1. CASE RecvResponse
    BY <2>1 DEF RecvResponse, Emit
  <2>2. CASE RecvError
    BY <2>2 DEF RecvError, RecvErrorEvent, Emit
  <2>3. CASE EmitEvent
    <3>1. /\ emitting # <<>> /\ emitting \in Seq(Events) /\ Head(emitting) = emitting[1]
          /\ Len(emitting) \in Nat /\ Len(emitting) > 0
      BY <2>3 DEF EmitEvent
    <3>2. ErrIn(emitting') => ErrIn(emitting)
      <4>1. /\ Len(Tail(emitting)) = Len(emitting) - 1
            /\ \A i \in 1 .. Len(emitting) - 1 : Tail(emitting)[i] = emitting[i + 1]
        BY <3>1
      <4> QED
        BY <3>1, <4>1, <2>3 DEF EmitEvent, AfterEmit
    <3>3. ErrIn(events') => ErrIn(events) \/ ErrIn(emitting)
      BY <3>1, <2>3 DEF EmitEvent
    <3>4. reader' = "emit" => emitting' # <<>>
      BY <2>3 DEF EmitEvent, AfterEmit
    <3>5. UNCHANGED cause
      BY <2>3 DEF EmitEvent
    <3> QED
      BY <3>2, <3>3, <3>4, <3>5
  <2>4. CASE GiveUp
    <3>1. /\ emitting # <<>> /\ emitting \in Seq(Events) /\ Head(emitting) = emitting[1]
          /\ Len(emitting) \in Nat /\ Len(emitting) > 0
      BY <2>4 DEF GiveUp
    <3>2. ErrIn(emitting') => ErrIn(emitting)
      <4>1. /\ Len(Tail(emitting)) = Len(emitting) - 1
            /\ \A i \in 1 .. Len(emitting) - 1 : Tail(emitting)[i] = emitting[i + 1]
        BY <3>1
      <4> QED
        BY <3>1, <4>1, <2>4 DEF GiveUp, AfterEmit
    <3>3. ErrIn(events') => ErrIn(events) \/ ErrIn(emitting)
      BY <3>1, <2>4 DEF GiveUp
    <3>4. reader' = "emit" => emitting' # <<>>
      BY <2>4 DEF GiveUp, AfterEmit
    <3>5. UNCHANGED cause
      BY <2>4 DEF GiveUp
    <3> QED
      BY <3>2, <3>3, <3>4, <3>5
  <2> QED
    BY <1>4, <2>1, <2>2, <2>3, <2>4 DEF ReaderStep
<1>5. CASE RecvMalformed
  BY <1>5 DEF RecvMalformed, Emit, EndedBy
<1>6. CASE GuestReads \/ GuestOutput \/ GuestEnds
  BY <1>6 DEF GuestReads, GuestOutput, GuestEnds, EndedBy
<1>7. ASSUME NEW c \in Consumers, BeginNext(c) \/ NextStep(c) PROVE EmitInv'
  <2>1. CASE BeginNext(c)
    BY <2>1 DEF BeginNext, Goto
  <2>2. CASE Arm(c)
    BY <2>2 DEF Arm, Remaining, Goto
  <2>3. CASE TakeEvent(c)
    BY <2>3 DEF TakeEvent, NextReturns, Goto
  <2>4. CASE TakeActivity(c)
    BY <2>4 DEF TakeActivity, Goto
  <2>5. CASE TimerFires(c)
    BY <2>5 DEF TimerFires, ExpiryConfirmed, Goto
  <2> QED
    BY <1>7, <2>1, <2>2, <2>3, <2>4, <2>5 DEF NextStep
<1>8. ASSUME NEW w \in Writers, BeginWrite(w) \/ WriteStep(w) PROVE EmitInv'
  BY <1>8 DEF BeginWrite, WriteStep, LockWrite, Lock, SendInput, InputFails, Touch,
     Notify, SendTakes, SendFails, EndedBy, Goto
<1>9. ASSUME NEW p \in Consumers \cup Closers, CallDetach(p) \/ DetachStep(p) PROVE EmitInv'
  BY <1>9 DEF CallDetach, DetachStep, Detach, LockDetach, Lock, SendDetach,
     CloseSend, AfterCloseSend, DetachReturns, CleanupTimeout, Cancel, SendTakes,
     SendFails, EndedBy, Goto
<1>10. CASE UNCHANGED vars
  BY <1>10 DEF vars
<1> QED
  BY <1>1, <1>2, <1>3, <1>4, <1>5, <1>6, <1>7, <1>8, <1>9, <1>10 DEF Next

\* The invariant is inductive.
LEMMA StreamInvStep == TypeOK /\ StreamInv /\ [Next]_vars => TypeOK' /\ StreamInv'
<1> SUFFICES ASSUME TypeOK, StreamInv, [Next]_vars PROVE TypeOK' /\ StreamInv'
  OBVIOUS
<1>1. TypeOK'
  BY TypeStep
<1>2. PhaseInv' /\ TimerInv' /\ MutexInv'
  BY PhaseStep, TimerStep, MutexStep
<1>3. HalfCloseInv' /\ DetachIsLast' /\ CloseInv' /\ EmitInv'
  BY HalfCloseStep, LastStep, CloseStep, EmitStep
<1> QED
  BY <1>1, <1>2, <1>3 DEF StreamInv

\* The types and the invariant of an attach (session_stream.go) hold in every
\* state.
THEOREM StreamInvariant == Spec => [](TypeOK /\ StreamInv)
BY InitInv, StreamInvStep, PTL DEF Spec

(***************************************************************************)
(* What an attach promises.                                                *)
(***************************************************************************)
\* The variables keep their types; channels and windows are never overfull.
THEOREM TypeCorrect == Spec => []TypeOK
BY StreamInvariant, PTL

\* The guest reads no input behind the detach frame (Write and Detach of
\* session_stream.go share sendMu).
THEOREM DetachFrameIsLast == Spec => []DetachIsLast
<1>1. StreamInv => DetachIsLast
  BY DEF StreamInv
<1> QED
  BY <1>1, StreamInvariant, PTL

\* What Detach does to the stream never reaches Next as an error (the reader
\* of session_stream.go).
LEMMA NoErrOfDetach == TypeOK /\ StreamInv => DetachIsNoError
<1> SUFFICES ASSUME TypeOK, StreamInv, Contains(events \o emitting, "err")
             PROVE  cause \in {"guest", "time"}
  BY DEF DetachIsNoError
<1>1. events \in Seq(Events) /\ emitting \in Seq(Events)
  BY DEF TypeOK
<1>2. PICK i \in 1 .. Len(events) + Len(emitting) : (events \o emitting)[i] = "err"
  BY <1>1 DEF Contains
<1>3. CASE i <= Len(events)
  BY <1>1, <1>2, <1>3 DEF StreamInv, EmitInv, ErrIn
<1>4. CASE i > Len(events)
  <2>1. i - Len(events) \in 1 .. Len(emitting) /\ emitting[i - Len(events)] = "err"
    BY <1>1, <1>2, <1>4
  <2> QED
    BY <2>1 DEF StreamInv, EmitInv, ErrIn
<1> QED
  BY <1>1, <1>2, <1>3, <1>4

\* An error reaches Next only when the guest or its time ended the attach: what
\* Recv fails with after a Detach or a Close is the end of the stream (readLoop
\* of session_stream.go).
THEOREM DetachIsClean == Spec => []DetachIsNoError
BY NoErrOfDetach, StreamInvariant, PTL

\* Next gives an attach up only when its time is over (remaining and the timer
\* of Next in session_stream.go).
LEMMA ExpiryStep ==
  ASSUME TypeOK, StreamInv, [Next]_vars, NEW k \in Consumers,
         pc[k] \in {"arm", "select"}, pc'[k] = "detach"
  PROVE  IF idle THEN quiet = IdleTimeout ELSE age >= AttachTimeout
<1> USE SessionAssumption DEF TypeOK, StreamInv, Procs, MaxAge, procVars, Goto
<1>1. ASSUME NEW c \in Consumers, BeginNext(c) \/ NextStep(c) PROVE c = k
  BY <1>1 DEF BeginNext, NextStep, Arm, TakeEvent, TakeActivity, TimerFires, NextReturns
<1>2. ASSUME NEW c \in Consumers, NextStep(c)
      PROVE  IF idle THEN quiet = IdleTimeout ELSE age >= AttachTimeout
  BY <1>1, <1>2 DEF NextStep, Arm, TakeEvent, TakeActivity, TimerFires, NextReturns,
     Remaining, ExpiryConfirmed, TimerInv
<1>3. ASSUME NEW c \in Consumers PROVE ~BeginNext(c)
  BY <1>1 DEF BeginNext
<1>4. ASSUME NEW w \in Writers PROVE ~(BeginWrite(w) \/ WriteStep(w))
  BY DEF BeginWrite, WriteStep, LockWrite, Lock, SendInput, InputFails, Touch, Notify
<1>5. ASSUME NEW p \in Consumers \cup Closers PROVE ~(CallDetach(p) \/ DetachStep(p))
  BY DEF CallDetach, DetachStep, Detach, LockDetach, Lock, SendDetach, CloseSend,
     DetachReturns, CleanupTimeout
<1>6. UNCHANGED pc => FALSE
  OBVIOUS
<1>7. ~(AttachStep \/ AcceptTimerFires \/ ContextExpires \/ Tick)
  BY <1>6 DEF AttachStep, Accepted, StopAcceptTimer, OpeningFails, Reissue,
     AcceptTimerFires, ContextExpires, Tick
<1>8. ~(ReaderStep \/ RecvMalformed \/ GuestReads \/ GuestOutput \/ GuestEnds)
  BY <1>6 DEF ReaderStep, RecvResponse, RecvError, EmitEvent, GiveUp, RecvMalformed,
     GuestReads, GuestOutput, GuestEnds
<1>9. ~UNCHANGED vars
  BY <1>6 DEF vars
<1> QED
  BY <1>2, <1>3, <1>4, <1>5, <1>7, <1>8, <1>9 DEF Next

\* Next gives an attach up as idle only when no input has reset the clock for
\* IdleTimeout, although its timer was set before (Next of session_stream.go).
THEOREM NeverExpiresEarly == Spec => ExpiresOnlyWhenQuiet
<1>1. TypeOK /\ StreamInv /\ [Next]_vars =>
        [\A c \in Consumers :
           pc[c] \in {"arm", "select"} /\ pc'[c] = "detach" =>
           IF idle THEN quiet = IdleTimeout ELSE age >= AttachTimeout]_vars
  BY ExpiryStep
<1> QED
  BY <1>1, StreamInvariant, PTL DEF Spec, ExpiresOnlyWhenQuiet
=============================================================================
