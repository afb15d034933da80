---------------------------- MODULE SessionStream ----------------------------
(***************************************************************************)
(* One attach to a managed session: AttachSession (sessions.go) opens it,  *)
(* with one reissue of the capability, and Next, Write, Resize and Detach  *)
(* (session_stream.go) share it.  Unlike an ExecSession, it may live       *)
(* without a deadline: with IdleTimeout its context has none, and Next     *)
(* alone watches how long the client has been quiet.                       *)
(*                                                                         *)
(* Time is counted in ticks, relative: how long the client has been quiet, *)
(* how old the attach is, what is left of each timer.  Shorter waits, of   *)
(* Detach and of emit, may end at any time.                                *)
(***************************************************************************)
EXTENDS Naturals, Sequences, SequencesExt

CONSTANTS
  Consumers,    \* goroutines that call Next
  Writers,      \* goroutines that call Write or Resize
  Closers,      \* goroutines that call Detach or Close
  Modes,        \* values of IdleTimeout > 0 to consider, a set of BOOLEAN
  IdleTimeout,  \* in ticks
  AttachTimeout,\* defaultSessionAttachTimeout, in ticks
  EventCap,     \* capacity of events
  Window,       \* frames the transport takes before the guest reads
  OutCap,       \* bound: responses of the guest under way
  None

ASSUME SessionAssumption ==
  /\ Modes \subseteq BOOLEAN /\ Modes # {}
  /\ IdleTimeout \in Nat \ {0} /\ AttachTimeout \in Nat \ {0}
  /\ EventCap \in Nat \ {0} /\ Window \in Nat \ {0} /\ OutCap \in Nat \ {0}

Procs == Consumers \cup Writers \cup Closers
ASSUME ProcsAssumption == None \notin Procs

VARIABLES
  \* AttachSession: its progress, openings so far
  phase, opens,
  \* idleTimeout > 0; ticks since lastActivity; ticks since the start
  idle, quiet, age,
  \* the SessionStream: closed, holder of sendMu, activity, events, reader
  closed, sendMu, activity, events, reader, emitting,
  \* the goroutines: next step, and what is left of Next's timer
  pc, timer,
  \* the gRPC stream: context over, CloseSend called, frames unread, responses
  ctxDone, halfClosed, wire, out,
  \* the guest: has it seen the detach frame, has it ended the stream; and
  \* what ended the stream first
  detachSeen, guestEnded, cause

attachVars == <<phase, opens, idle>>
timeVars   == <<quiet, age>>
handleVars == <<closed, sendMu, activity>>
readerVars == <<events, reader, emitting>>
procVars   == <<pc, timer>>
wireVars   == <<ctxDone, halfClosed, wire, out>>
guestVars  == <<detachSeen, guestEnded, cause>>
vars == <<attachVars, timeVars, handleVars, readerVars, procVars, wireVars,
          guestVars>>

Frames    == {"input", "detach"}
Responses == {"output", "terminal"}
Events    == {"output", "terminal", "end", "err"}
MaxAge    == AttachTimeout + 1

TypeOK ==
  /\ phase \in {"opening", "reissue", "accepted", "live", "failed"}
  /\ opens \in 1 .. 2
  /\ idle \in Modes /\ quiet \in 0 .. IdleTimeout /\ age \in 0 .. MaxAge
  /\ closed \in BOOLEAN /\ sendMu \in Procs \cup {None} /\ activity \in BOOLEAN
  /\ events \in Seq(Events) /\ Len(events) <= EventCap
  /\ reader \in {"none", "recv", "emit", "done"}
  /\ emitting \in Seq(Events)
  /\ pc \in [Procs -> {"idle", "arm", "select", "lock", "send", "touch", "notify",
                       "detach", "detachLock", "detachSend", "closeSend",
                       "cleanup", "grace"}]
  /\ timer \in [Consumers -> 0 .. IdleTimeout + MaxAge]
  /\ ctxDone \in BOOLEAN /\ halfClosed \in BOOLEAN
  /\ wire \in Seq(Frames) /\ Len(wire) <= Window
  /\ out \in Seq(Responses) /\ Len(out) <= OutCap
  /\ detachSeen \in BOOLEAN /\ guestEnded \in BOOLEAN
  /\ cause \in {"none", "guest", "time", "detach"}

Init ==
  /\ phase = "opening" /\ opens = 1
  /\ idle \in Modes /\ quiet = 0 /\ age = 0
  /\ closed = FALSE /\ sendMu = None /\ activity = FALSE
  /\ events = <<>> /\ reader = "none" /\ emitting = <<>>
  /\ pc = [p \in Procs |-> "idle"]
  /\ timer = [c \in Consumers |-> 0]
  /\ ctxDone = FALSE /\ halfClosed = FALSE /\ wire = <<>> /\ out = <<>>
  /\ detachSeen = FALSE /\ guestEnded = FALSE /\ cause = "none"

Goto(p, step) == pc' = [pc EXCEPT ![p] = step]

\* The stream ends, for the first cause there is.
EndedBy(why) == cause' = IF cause = "none" THEN why ELSE cause

StreamOver == ctxDone \/ guestEnded

-----------------------------------------------------------------------------
(***************************************************************************)
(* AttachSession and openSessionStream.                                    *)
(***************************************************************************)
\* The first response is the accepted frame.
Accepted ==
  /\ phase = "opening" /\ ~ctxDone
  /\ phase' = IF idle THEN "accepted" ELSE "live"
  /\ opens' = 1
  /\ UNCHANGED <<idle, timeVars, handleVars, readerVars, procVars, wireVars,
                 guestVars>>

\* acceptTimer.Stop, then lastActivity = now: from here on only quiet counts.
StopAcceptTimer ==
  /\ phase = "accepted"
  /\ phase' = "live" /\ quiet' = 0 /\ age' = 0
  /\ UNCHANGED <<opens, idle, handleVars, readerVars, procVars, wireVars,
                 guestVars>>

\* The admission wait of an attach without a deadline; the timer may fire
\* although the accepted frame is there.
AcceptTimerFires ==
  /\ idle /\ phase \in {"opening", "accepted"}
  /\ age = MaxAge /\ ~ctxDone
  /\ ctxDone' = TRUE /\ EndedBy("time")
  /\ UNCHANGED <<attachVars, timeVars, handleVars, readerVars, procVars,
                 halfClosed, wire, out, detachSeen, guestEnded>>

\* Variant: AttachSession in a loop.
MayReissueAgain == TRUE

\* One reissue, after an AuthenticationError of the first opening.
MayReissue == opens = 1

OpeningFails ==
  /\ phase = "opening"
  /\ phase' \in IF MayReissue /\ ~ctxDone THEN {"reissue", "failed"} ELSE {"failed"}
  /\ UNCHANGED <<opens, idle, timeVars, handleVars, readerVars, procVars, wireVars,
                 guestVars>>

\* ReissueCapability, and a second stream with a deadline of its own.
Reissue ==
  /\ phase = "reissue"
  /\ \/ phase' = "opening" /\ opens' = opens + 1 /\ age' = 0
     \/ phase' = "failed" /\ UNCHANGED <<opens, age>>
  /\ UNCHANGED <<idle, quiet, handleVars, readerVars, procVars, wireVars, guestVars>>

-----------------------------------------------------------------------------
(***************************************************************************)
(* Next.                                                                   *)
(***************************************************************************)
BeginNext(c) ==
  /\ phase = "live" /\ pc[c] = "idle"
  /\ reader' = IF reader = "none" THEN "recv" ELSE reader
  /\ Goto(c, "arm")
  /\ UNCHANGED <<attachVars, timeVars, handleVars, events, emitting, timer, wireVars,
                 guestVars>>

\* remaining().
Remaining ==
  IF idle THEN IdleTimeout - quiet
  ELSE IF age >= AttachTimeout THEN 0 ELSE AttachTimeout - age

Arm(c) ==
  /\ pc[c] = "arm"
  /\ Goto(c, IF Remaining = 0 THEN "detach" ELSE "select")
  /\ timer' = [timer EXCEPT ![c] = Remaining]      \* 0 for Detach
  /\ UNCHANGED <<attachVars, timeVars, handleVars, readerVars, wireVars, guestVars>>

NextReturns(c) == Goto(c, "idle") /\ timer' = [timer EXCEPT ![c] = 0]

TakeEvent(c) ==
  /\ pc[c] = "select" /\ events # <<>>
  /\ events' = Tail(events)
  /\ NextReturns(c)
  /\ UNCHANGED <<attachVars, timeVars, handleVars, reader, emitting, wireVars,
                 guestVars>>

TakeActivity(c) ==
  /\ pc[c] = "select" /\ activity
  /\ activity' = FALSE
  /\ Goto(c, "arm")
  /\ timer' = [timer EXCEPT ![c] = 0]              \* timer.Stop
  /\ UNCHANGED <<attachVars, timeVars, closed, sendMu, readerVars, wireVars,
                 guestVars>>

\* Variant: the timer is believed.
TimerTrusted == TRUE

\* Without an idle timeout, or when the client is still quiet.
ExpiryConfirmed == ~idle \/ quiet = IdleTimeout

TimerFires(c) ==
  /\ pc[c] = "select" /\ timer[c] = 0
  /\ Goto(c, IF ExpiryConfirmed THEN "detach" ELSE "arm")
  /\ UNCHANGED <<attachVars, timeVars, handleVars, readerVars, timer, wireVars,
                 guestVars>>

-----------------------------------------------------------------------------
(***************************************************************************)
(* The reader goroutine.                                                   *)
(***************************************************************************)
Emit(es) == reader' = "emit" /\ emitting' = es

RecvResponse ==
  /\ reader = "recv" /\ out # <<>>
  /\ out' = Tail(out)
  /\ Emit(IF Head(out) = "terminal" THEN <<"terminal", "end">> ELSE <<"output">>)
  /\ UNCHANGED <<attachVars, timeVars, handleVars, events, procVars, ctxDone,
                 halfClosed, wire, guestVars>>

\* Variant: every error of Recv is delivered as one.
ErrAlways == "err"

\* What an error of Recv is to the client: its own doing once it has closed.
RecvErrorEvent == IF closed THEN "end" ELSE "err"

RecvError ==
  /\ reader = "recv"
  /\ ctxDone \/ (guestEnded /\ out = <<>>)
  /\ Emit(<<RecvErrorEvent>>)
  /\ UNCHANGED <<attachVars, timeVars, handleVars, events, procVars, wireVars,
                 guestVars>>

\* A frame the client does not know ends the reader.
RecvMalformed ==
  /\ reader = "recv" /\ ~StreamOver /\ out = <<>>
  /\ Emit(<<"err">>)
  /\ EndedBy("guest")
  /\ UNCHANGED <<attachVars, timeVars, handleVars, events, procVars, wireVars,
                 detachSeen, guestEnded>>

AfterEmit ==
  /\ emitting' = Tail(emitting)
  /\ reader' = CASE Tail(emitting) # <<>>      -> "emit"
                 [] Head(emitting) = "output"  -> "recv"
                 [] OTHER                      -> "done"

EmitEvent ==
  /\ reader = "emit" /\ Len(events) < EventCap
  /\ events' = Append(events, Head(emitting))
  /\ AfterEmit
  /\ UNCHANGED <<attachVars, timeVars, handleVars, procVars, wireVars, guestVars>>

\* Five seconds with a full channel: the event is dropped.
GiveUp ==
  /\ reader = "emit" /\ Len(events) = EventCap
  /\ AfterEmit
  /\ UNCHANGED <<attachVars, timeVars, handleVars, events, procVars, wireVars,
                 guestVars>>

-----------------------------------------------------------------------------
(***************************************************************************)
(* Write and Resize.                                                       *)
(***************************************************************************)
BeginWrite(w) ==
  /\ phase = "live" /\ pc[w] = "idle" /\ ~closed
  /\ Goto(w, "lock")
  /\ UNCHANGED <<attachVars, timeVars, handleVars, readerVars, timer, wireVars,
                 guestVars>>

Lock(p, from, to) ==
  /\ pc[p] = from /\ sendMu = None
  /\ sendMu' = p
  /\ Goto(p, to)
  /\ UNCHANGED <<attachVars, timeVars, closed, activity, readerVars, timer, wireVars,
                 guestVars>>

LockWrite(w) == Lock(w, "lock", "send")

\* gRPC: SendMsg takes a frame while there is window ...
SendTakes == ~StreamOver /\ ~halfClosed /\ Len(wire) < Window

\* ... fails when the stream is over or half-closed, and else blocks.
SendFails == StreamOver \/ halfClosed

SendInput(w) ==
  /\ pc[w] = "send" /\ SendTakes
  /\ wire' = Append(wire, "input")
  /\ Goto(w, "touch")
  /\ UNCHANGED <<attachVars, timeVars, handleVars, readerVars, timer, ctxDone,
                 halfClosed, out, guestVars>>

\* A send after CloseSend ends the stream with an internal error.
InputFails(w) ==
  /\ pc[w] = "send" /\ SendFails
  /\ sendMu' = None
  /\ Goto(w, "idle")
  /\ ctxDone' = (ctxDone \/ ~StreamOver) /\ EndedBy("detach")
  /\ UNCHANGED <<attachVars, timeVars, closed, activity, readerVars, timer,
                 halfClosed, wire, out, detachSeen, guestEnded>>

\* touch(): lastActivity under mu ...
Touch(w) ==
  /\ pc[w] = "touch" /\ idle
  /\ quiet' = IF closed THEN quiet ELSE 0
  /\ Goto(w, "notify")
  /\ UNCHANGED <<attachVars, age, handleVars, readerVars, timer, wireVars, guestVars>>

\* ... then a token, unless one is there; sendMu is released on return.  There
\* is nothing to touch without an idle timeout.
Notify(w) ==
  /\ pc[w] = IF idle THEN "notify" ELSE "touch"
  /\ activity' = idle
  /\ sendMu' = None
  /\ Goto(w, "idle")
  /\ UNCHANGED <<attachVars, timeVars, closed, readerVars, timer, wireVars, guestVars>>

-----------------------------------------------------------------------------
(***************************************************************************)
(* Detach, Close, and Next when its time is over.                          *)
(***************************************************************************)
CallDetach(d) ==
  /\ phase = "live" /\ pc[d] = "idle"
  /\ Goto(d, "detach")
  /\ UNCHANGED <<attachVars, timeVars, handleVars, readerVars, timer, wireVars,
                 guestVars>>

\* The first one closes; another returns at once.
Detach(p) ==
  /\ pc[p] = "detach"
  /\ closed' = TRUE
  /\ Goto(p, IF closed THEN "idle" ELSE "detachLock")
  /\ UNCHANGED <<attachVars, timeVars, sendMu, activity, readerVars, timer, wireVars,
                 guestVars>>

LockDetach(p) == Lock(p, "detachLock", "detachSend")

SendDetach(p) ==
  /\ pc[p] = "detachSend"
  /\ \/ SendTakes /\ wire' = Append(wire, "detach")
     \/ SendFails /\ UNCHANGED wire
  /\ Goto(p, "closeSend")
  /\ UNCHANGED <<attachVars, timeVars, handleVars, readerVars, timer, ctxDone,
                 halfClosed, out, guestVars>>

\* Variant: the stream is not half-closed.
NotHalfClosed == halfClosed

AfterCloseSend == TRUE

CloseSend(p) ==
  /\ pc[p] = "closeSend"
  /\ halfClosed' = AfterCloseSend
  /\ sendMu' = None
  /\ Goto(p, "cleanup")
  /\ UNCHANGED <<attachVars, timeVars, closed, activity, readerVars, timer, ctxDone,
                 wire, out, guestVars>>

Cancel == ctxDone' = TRUE /\ (IF StreamOver THEN UNCHANGED cause ELSE EndedBy("detach"))

\* The reader is done, at once or in the 100 ms after the cancel.
DetachReturns(p) ==
  /\ \/ pc[p] = "cleanup" /\ reader = "done"
     \/ pc[p] = "grace"
  /\ Cancel
  /\ Goto(p, "idle")
  /\ UNCHANGED <<attachVars, timeVars, handleVars, readerVars, timer, halfClosed,
                 wire, out, detachSeen, guestEnded>>

\* cleanupTimeout passes.
CleanupTimeout(p) ==
  /\ pc[p] = "cleanup"
  /\ Cancel
  /\ Goto(p, "grace")
  /\ UNCHANGED <<attachVars, timeVars, handleVars, readerVars, timer, halfClosed,
                 wire, out, detachSeen, guestEnded>>

-----------------------------------------------------------------------------
(***************************************************************************)
(* The guest, and time.                                                    *)
(***************************************************************************)
GuestReads ==
  /\ wire # <<>> /\ ~StreamOver
  /\ wire' = Tail(wire)
  /\ detachSeen' = (detachSeen \/ Head(wire) = "detach")
  /\ UNCHANGED <<attachVars, timeVars, handleVars, readerVars, procVars, ctxDone,
                 halfClosed, out, guestEnded, cause>>

GuestOutput ==
  /\ phase = "live" /\ ~StreamOver /\ Len(out) < OutCap
  /\ out' = Append(out, "output")
  /\ UNCHANGED <<attachVars, timeVars, handleVars, readerVars, procVars, ctxDone,
                 halfClosed, wire, guestVars>>

\* An exit, a takeover, the end of a detached attach; or a failure.
GuestEnds ==
  /\ phase = "live" /\ ~StreamOver
  /\ \/ Len(out) < OutCap /\ out' = Append(out, "terminal")
     \/ UNCHANGED out
  /\ guestEnded' = TRUE /\ EndedBy("guest")
  /\ UNCHANGED <<attachVars, timeVars, handleVars, readerVars, procVars, ctxDone,
                 halfClosed, wire, detachSeen>>

Dec(n) == IF n = 0 THEN 0 ELSE n - 1

Tick ==
  /\ quiet' = IF idle /\ phase = "live" /\ quiet < IdleTimeout THEN quiet + 1 ELSE quiet
  /\ age' = IF age < MaxAge /\ ~(idle /\ phase = "live") THEN age + 1 ELSE age
  /\ timer' = [c \in Consumers |-> Dec(timer[c])]
  /\ UNCHANGED <<attachVars, handleVars, readerVars, pc, wireVars, guestVars>>

\* Variant: no attach has a deadline of its own.
ContextNeverExpires == FALSE

\* The context of an attach without an idle timeout.
ContextExpires ==
  /\ ~idle /\ age = MaxAge /\ ~ctxDone
  /\ phase \in {"opening", "live"}
  /\ ctxDone' = TRUE /\ EndedBy("time")
  /\ UNCHANGED <<attachVars, timeVars, handleVars, readerVars, procVars, halfClosed,
                 wire, out, detachSeen, guestEnded>>

-----------------------------------------------------------------------------
AttachStep == Accepted \/ StopAcceptTimer \/ OpeningFails \/ Reissue

NextStep(c) == Arm(c) \/ TakeEvent(c) \/ TakeActivity(c) \/ TimerFires(c)

ReaderStep == RecvResponse \/ RecvError \/ EmitEvent \/ GiveUp

WriteStep(w) ==
  LockWrite(w) \/ SendInput(w) \/ InputFails(w) \/ Touch(w) \/ Notify(w)

DetachStep(p) ==
  \/ Detach(p) \/ LockDetach(p) \/ SendDetach(p) \/ CloseSend(p)
  \/ DetachReturns(p) \/ CleanupTimeout(p)

Next ==
  \/ AttachStep \/ AcceptTimerFires \/ ContextExpires \/ Tick
  \/ ReaderStep \/ RecvMalformed
  \/ GuestReads \/ GuestOutput \/ GuestEnds
  \/ \E c \in Consumers : BeginNext(c) \/ NextStep(c) \/ DetachStep(c)
  \/ \E w \in Writers : BeginWrite(w) \/ WriteStep(w)
  \/ \E d \in Closers : CallDetach(d) \/ DetachStep(d)

Spec == Init /\ [][Next]_vars

(***************************************************************************)
(* Goroutines run, timers fire, sendMu is handed on in turn, and time      *)
(* passes; the guest need not read, answer nor end.                        *)
(***************************************************************************)
Fairness ==
  /\ WF_vars(Tick) /\ WF_vars(ContextExpires) /\ WF_vars(ReaderStep)
  /\ \A c \in Consumers : WF_vars(NextStep(c)) /\ WF_vars(DetachStep(c))
  /\ \A w \in Writers : WF_vars(WriteStep(w)) /\ SF_vars(LockWrite(w))
  /\ \A d \in Closers : WF_vars(DetachStep(d))
  /\ \A p \in Consumers \cup Closers : SF_vars(LockDetach(p))

FairSpec == Spec /\ Fairness

-----------------------------------------------------------------------------
\* Next gives an attach up only when its time is over: five minutes, or the
\* idle timeout without an input since, whatever its timer was set to when
\* the input came.
ExpiresOnlyWhenQuiet ==
  [][\A c \in Consumers :
       pc[c] \in {"arm", "select"} /\ pc'[c] = "detach" =>
       IF idle THEN quiet = IdleTimeout ELSE age >= AttachTimeout]_vars

\* The guest reads no input behind the detach frame: a Write that waited for
\* sendMu while Detach held it is refused by the transport.
DetachIsLast ==
  /\ \A i \in 1 .. Len(wire) : wire[i] = "detach" => i = Len(wire)
  /\ detachSeen => wire = <<>>

\* Detach is no error: what Detach itself does to the stream never reaches
\* Next as one.
DetachIsNoError ==
  Contains(events \o emitting, "err") => cause \in {"guest", "time"}

\* Without an idle timeout every call returns, although the guest may never
\* read nor answer.
DeadlineFreesCalls ==
  \A p \in Procs : (~idle /\ pc[p] # "idle") ~> pc[p] = "idle"

\* Once Next has found the time to be over, the attach ends.
ExpiryEndsAttach ==
  \A c \in Consumers : pc[c] = "detach" ~> ctxDone
=============================================================================
