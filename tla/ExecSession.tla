----------------------------- MODULE ExecSession -----------------------------
(***************************************************************************)
(* A live bidirectional Exec (session.go): the ExecSession its callers     *)
(* share, the execStreams below it with their reader goroutines, the gRPC  *)
(* stream under each, and the guest at the far end.                        *)
(*                                                                         *)
(* Callers are processes.  Consumers call Next; Writers call Write, Resize *)
(* and CloseStdin; Closers call Close and Cancel.  A call is cut where     *)
(* another goroutine can get between its steps: at every lock section of   *)
(* s.mu and es.mu, at the acquisition of es.sendMu, at a Send that blocks  *)
(* on flow control, at the select of next() and at each remote call of     *)
(* tryRefresh.  pc[p] names the step process p takes next.                 *)
(***************************************************************************)
EXTENDS Naturals, Sequences

CONSTANTS
  Consumers,    \* goroutines that call Next
  Writers,      \* goroutines that call Write, Resize and CloseStdin
  Closers,      \* goroutines that call Close and Cancel
  Kinds,        \* the input calls a writer makes, of InputKinds
  Serial,       \* TRUE: a call starts only when no other is running
  EventCap,     \* capacity of es.events (16 in the code)
  Window,       \* frames the transport takes before Send blocks
  MaxOutputs,   \* bound: stdout/stderr frames per stream
  MaxInputs,    \* bound: input calls of the whole session
  MaxStreams,   \* bound: streams the session can open, a refresh included
  None          \* no process

InputKinds == {"write", "resize", "closeStdin"}
Procs      == Consumers \cup Writers \cup Closers
Streams    == 1 .. MaxStreams

ASSUME ProcsAssumption ==
  /\ Consumers \cap Writers = {}
  /\ Consumers \cap Closers = {}
  /\ Writers \cap Closers = {}
  /\ None \notin Procs
ASSUME BoundsAssumption ==
  /\ Kinds \subseteq InputKinds
  /\ Serial \in BOOLEAN
  /\ EventCap \in Nat \ {0}
  /\ Window \in Nat \ {0}
  /\ MaxOutputs \in Nat
  /\ MaxInputs \in Nat
  /\ MaxStreams \in Nat \ {0, 1}

VARIABLES
  \* the ExecSession, under s.mu
  current, closed, refreshed, responsesStarted, pending,
  \* each execStream, and its reader goroutine
  opened, cancelled, stdinClosed, sendMu, events, reader, held,
  \* the gRPC stream below it and the guest
  halfClosed, over, wire, taken, guest, outs, down,
  \* each process: next step, stream in hand, continuation of a close,
  \* inputs still to send, inside the retried next(), input to be kept
  pc, cur, then, todo, retried, keep,
  \* the environment
  deadline, capExpired,
  \* what happened: events popped per stream, streams that dropped an
  \* event, input calls made, refreshes committed
  delivered, lost, calls, refreshes

sessionVars == <<current, closed, refreshed, responsesStarted, pending>>
streamVars  == <<opened, cancelled, stdinClosed, sendMu>>
readerVars  == <<events, reader, held>>
grpcVars    == <<halfClosed, over, wire>>
guestVars   == <<taken, guest, outs, down>>
procVars    == <<pc, cur, then, todo, retried, keep>>
envVars     == <<deadline, capExpired>>
historyVars == <<delivered, lost, calls, refreshes>>

vars == <<sessionVars, streamVars, readerVars, grpcVars, guestVars, procVars,
          envVars, historyVars>>

(***************************************************************************)
(* What travels.  The guest's responses and the reader's events share one  *)
(* record; outputs are numbered per stream, inputs per session.            *)
(***************************************************************************)
EventKinds == {"output", "exit", "rejected", "failed", "malformed", "end"}
Events     == [kind : EventKinds, n : 0 .. MaxOutputs]
Event(k)   == [kind |-> k, n |-> 0]
Output(n)  == [kind |-> "output", n |-> n]

Inputs     == [kind : InputKinds, n : 1 .. MaxInputs]
CancelFrame == [kind |-> "cancel", n |-> 0]
Frames     == Inputs \cup {CancelFrame}

Steps == {"idle", "again", "select", "expired", "mark", "rejected", "sniff",
          "commit", "reissue", "open", "swap", "closeMark", "closeLock",
          "closeSend", "closeWait", "enter", "lock", "send", "record"}

SessionType ==
  /\ current \in Streams
  /\ closed \in BOOLEAN /\ refreshed \in BOOLEAN /\ responsesStarted \in BOOLEAN
  /\ pending \in Seq(Inputs)
StreamType ==
  /\ opened \in Streams
  /\ cancelled \in [Streams -> BOOLEAN]
  /\ stdinClosed \in [Streams -> BOOLEAN]
  /\ sendMu \in [Streams -> Procs \cup {None}]
ReaderType ==
  /\ events \in [Streams -> Seq(Events)]
  /\ reader \in [Streams -> {"none", "recv", "emit", "done"}]
  /\ held \in [Streams -> Events]
GrpcType ==
  /\ halfClosed \in [Streams -> BOOLEAN]
  /\ over \in [Streams -> BOOLEAN]
  /\ wire \in [Streams -> Seq(Frames)]
GuestType ==
  /\ taken \in [Streams -> Nat]
  /\ guest \in [Streams -> {"running", "ended"}]
  /\ outs \in [Streams -> 0 .. MaxOutputs]
  /\ down \in [Streams -> Seq(Events)]
ProcType ==
  /\ pc \in [Procs -> Steps]
  /\ cur \in [Procs -> Streams]
  /\ then \in [Procs -> {"idle", "mark", "reissue"}]
  /\ todo \in [Procs -> Seq(Inputs)]
  /\ \A p \in Procs : pc[p] \in {"enter", "lock", "send", "record"} => todo[p] # <<>>
  /\ retried \in [Procs -> BOOLEAN]
  /\ keep \in [Procs -> BOOLEAN]
EnvType == deadline \in BOOLEAN /\ capExpired \in BOOLEAN
HistoryType ==
  /\ delivered \in [Streams -> Seq(Events)]
  /\ lost \in [Streams -> BOOLEAN]
  /\ calls \in 0 .. MaxInputs
  /\ refreshes \in Nat

\* The values every variable ranges over; a process with an input step to
\* take has an input in hand.
TypeOK ==
  /\ SessionType /\ StreamType /\ ReaderType /\ GrpcType
  /\ GuestType /\ ProcType /\ EnvType /\ HistoryType

\* newRefreshableExecSession returns only once openStream has succeeded.
Init ==
  /\ current = 1 /\ pending = <<>>
  /\ closed = FALSE /\ refreshed = FALSE /\ responsesStarted = FALSE
  /\ opened = 1
  /\ cancelled = [i \in Streams |-> FALSE]
  /\ stdinClosed = [i \in Streams |-> FALSE]
  /\ sendMu = [i \in Streams |-> None]
  /\ events = [i \in Streams |-> <<>>]
  /\ reader = [i \in Streams |-> IF i = 1 THEN "recv" ELSE "none"]
  /\ held = [i \in Streams |-> Event("end")]
  /\ halfClosed = [i \in Streams |-> FALSE]
  /\ over = [i \in Streams |-> FALSE]
  /\ wire = [i \in Streams |-> <<>>]
  /\ taken = [i \in Streams |-> 0]
  /\ guest = [i \in Streams |-> "running"]
  /\ outs = [i \in Streams |-> 0]
  /\ down = [i \in Streams |-> <<>>]
  /\ pc = [p \in Procs |-> "idle"]
  /\ cur = [p \in Procs |-> 1]
  /\ then = [p \in Procs |-> "idle"]
  /\ todo = [p \in Procs |-> <<>>]
  /\ retried = [p \in Procs |-> FALSE]
  /\ keep = [p \in Procs |-> FALSE]
  /\ deadline = FALSE /\ capExpired = FALSE
  /\ delivered = [i \in Streams |-> <<>>]
  /\ lost = [i \in Streams |-> FALSE]
  /\ calls = 0 /\ refreshes = 0

Goto(p, step) == pc' = [pc EXCEPT ![p] = step]

\* A new call of p.  Serial instances are a caller with one goroutine.
CanStart(p) ==
  /\ pc[p] = "idle"
  /\ Serial => \A q \in Procs : pc[q] = "idle"

(***************************************************************************)
(* Next and next().                                                        *)
(***************************************************************************)
\* next() reads s.current, then the remaining time.
BeginNext(c) ==
  /\ retried' = [retried EXCEPT ![c] = (pc[c] = "again")]
  /\ cur' = [cur EXCEPT ![c] = current]
  /\ Goto(c, IF deadline THEN "expired" ELSE "select")
  /\ UNCHANGED <<sessionVars, streamVars, readerVars, grpcVars, guestVars,
                 then, todo, keep, envVars, historyVars>>

NextCall(c)  == CanStart(c) /\ BeginNext(c)
NextAgain(c) == pc[c] = "again" /\ BeginNext(c)

\* Where a popped event leads: a value (or the end) marks the session as
\* answered, a rejection may refresh, any other error is returned.  The
\* retried next() of tryRefresh marks in every case.
AfterTake(c, e) ==
  CASE retried[c] \/ e.kind \in {"output", "exit", "end"} -> "mark"
    [] ~retried[c] /\ e.kind = "rejected" -> "rejected"
    [] OTHER -> "idle"

Take(c) ==
  LET i == cur[c] IN
  /\ pc[c] = "select"
  /\ events[i] # <<>>
  /\ events' = [events EXCEPT ![i] = Tail(@)]
  /\ delivered' = [delivered EXCEPT ![i] = Append(@, Head(events[i]))]
  /\ Goto(c, AfterTake(c, Head(events[i])))
  /\ UNCHANGED <<sessionVars, streamVars, reader, held, grpcVars, guestVars,
                 cur, then, todo, retried, keep, envVars, lost, calls, refreshes>>

\* The deadline was exhausted, or the timer fired: s.Cancel(), then the error.
Expire(c) ==
  /\ pc[c] = "expired" \/ (pc[c] = "select" /\ deadline)
  /\ cur' = [cur EXCEPT ![c] = current]
  /\ then' = [then EXCEPT ![c] = IF retried[c] THEN "mark" ELSE "idle"]
  /\ Goto(c, "closeMark")
  /\ UNCHANGED <<sessionVars, streamVars, readerVars, grpcVars, guestVars,
                 todo, retried, keep, envVars, historyVars>>

MarkStarted(c) ==
  /\ pc[c] = "mark"
  /\ responsesStarted' = TRUE
  /\ Goto(c, "idle")
  /\ UNCHANGED <<current, closed, refreshed, pending, streamVars, readerVars,
                 grpcVars, guestVars, cur, then, todo, retried, keep, envVars,
                 historyVars>>

(***************************************************************************)
(* tryRefresh.                                                             *)
(***************************************************************************)
\* Variants: either half of the test forgotten.
MayRefreshAgain == ~responsesStarted
MayRefreshLate == ~refreshed

\* The test of tryRefresh's first lock section, and of every input call.
MayRefresh == ~refreshed /\ ~responsesStarted

RefreshCheck(c) ==
  /\ pc[c] = "rejected"
  /\ Goto(c, IF MayRefresh THEN "sniff" ELSE "idle")
  /\ UNCHANGED <<sessionVars, streamVars, readerVars, grpcVars, guestVars,
                 cur, then, todo, retried, keep, envVars, historyVars>>

SniffExpiry(c) ==
  /\ pc[c] = "sniff"
  /\ Goto(c, IF capExpired THEN "commit" ELSE "idle")
  /\ UNCHANGED <<sessionVars, streamVars, readerVars, grpcVars, guestVars,
                 cur, then, todo, retried, keep, envVars, historyVars>>

\* The second lock section; the old stream is closed next.
CommitRefresh(c) ==
  /\ pc[c] = "commit"
  /\ refreshed' = TRUE
  /\ refreshes' = refreshes + 1
  /\ cur' = [cur EXCEPT ![c] = current]
  /\ then' = [then EXCEPT ![c] = "reissue"]
  /\ Goto(c, "closeMark")
  /\ UNCHANGED <<current, closed, responsesStarted, pending, streamVars,
                 readerVars, grpcVars, guestVars, todo, retried, keep, envVars,
                 delivered, lost, calls>>

Reissue(c) ==
  /\ pc[c] = "reissue"
  /\ \/ capExpired' = FALSE /\ Goto(c, "open")
     \/ capExpired' = capExpired /\ Goto(c, "idle")
  /\ UNCHANGED <<sessionVars, streamVars, readerVars, grpcVars, guestVars,
                 cur, then, todo, retried, keep, deadline, historyVars>>

\* openStream: the Exec call and the start frame, then the reader goroutine.
OpenStream(c) ==
  LET i == opened + 1 IN
  /\ pc[c] = "open"
  /\ i \in Streams
  /\ opened' = i
  /\ reader' = [reader EXCEPT ![i] = "recv"]
  /\ cur' = [cur EXCEPT ![c] = i]
  /\ Goto(c, "swap")
  /\ UNCHANGED <<sessionVars, cancelled, stdinClosed, sendMu, events, held,
                 grpcVars, guestVars, then, todo, retried, keep, envVars,
                 historyVars>>

OpenFails(c) ==
  /\ pc[c] = "open"
  /\ Goto(c, "idle")
  /\ UNCHANGED <<sessionVars, streamVars, readerVars, grpcVars, guestVars,
                 cur, then, todo, retried, keep, envVars, historyVars>>

\* Variant: the replay loop entered with nothing to replay.
AlwaysEnter == "enter"

\* The replay loop runs over the inputs kept so far.
ReplayEntry == IF pending = <<>> THEN "again" ELSE "enter"

\* Publish the new stream and take the inputs to replay, in one section.
SwapStream(c) ==
  /\ pc[c] = "swap"
  /\ current' = cur[c]
  /\ todo' = [todo EXCEPT ![c] = pending]
  /\ Goto(c, ReplayEntry)
  /\ UNCHANGED <<closed, refreshed, responsesStarted, pending, streamVars,
                 readerVars, grpcVars, guestVars, cur, then, retried, keep,
                 envVars, historyVars>>

(***************************************************************************)
(* Write, Resize and CloseStdin of the session, and write, resize and      *)
(* closeStdin of a stream, which tryRefresh's replay loop calls as well.   *)
(***************************************************************************)
InputCall(w) ==
  /\ CanStart(w)
  /\ calls < MaxInputs
  /\ calls' = calls + 1
  /\ \E k \in Kinds : todo' = [todo EXCEPT ![w] = <<[kind |-> k, n |-> calls + 1]>>]
  /\ cur' = [cur EXCEPT ![w] = current]
  /\ keep' = [keep EXCEPT ![w] = MayRefresh]
  /\ Goto(w, "enter")
  /\ UNCHANGED <<sessionVars, streamVars, readerVars, grpcVars, guestVars,
                 then, retried, envVars, delivered, lost, refreshes>>

\* Variant: only the data frames are kept for a replay.
KeepsDataOnly(p, ok) ==
  p \in Writers /\ ok /\ keep[p] /\ Head(todo[p]).kind # "closeStdin"

\* Whether a call that got ok has its input kept for a replay.
Keeps(p, ok) == p \in Writers /\ ok /\ keep[p]

\* p is done with the input at the head of todo[p].  A replay ignores the
\* error and goes on; a writer returns it, or keeps the accepted input.
InputDone(p, ok) ==
  IF Keeps(p, ok)
  THEN Goto(p, "record") /\ UNCHANGED todo
  ELSE /\ todo' = [todo EXCEPT ![p] = Tail(@)]
       /\ Goto(p, CASE p \in Writers -> "idle"
                    [] p \notin Writers /\ Tail(todo[p]) = <<>> -> "again"
                    [] OTHER -> "enter")

\* Variant: the state of stdin not looked at.
RefusedIfCancelled(i) == cancelled[i]

\* What write and resize refuse.
InputRefused(i) == cancelled[i] \/ stdinClosed[i]

\* The es.mu section of write and resize: refused once cancelled or closed.
EnterData(p) ==
  LET i == cur[p] IN
  /\ pc[p] = "enter"
  /\ Head(todo[p]).kind # "closeStdin"
  /\ IF InputRefused(i)
     THEN InputDone(p, FALSE)
     ELSE Goto(p, "lock") /\ UNCHANGED todo
  /\ UNCHANGED <<sessionVars, streamVars, readerVars, grpcVars, guestVars,
                 cur, then, retried, keep, envVars, historyVars>>

\* The es.mu section of closeStdin: only the first one goes on.
EnterCloseStdin(p) ==
  LET i == cur[p] IN
  /\ pc[p] = "enter"
  /\ Head(todo[p]).kind = "closeStdin"
  /\ stdinClosed' = [stdinClosed EXCEPT ![i] = TRUE]
  /\ IF stdinClosed[i] THEN InputDone(p, TRUE)
                       ELSE Goto(p, "lock") /\ UNCHANGED todo
  /\ UNCHANGED <<sessionVars, opened, cancelled, sendMu, readerVars, grpcVars,
                 guestVars, cur, then, retried, keep, envVars, historyVars>>

\* es.sendMu.Lock(), for an input or for the cancel frame.
LockSend(p) ==
  LET i == cur[p] IN
  /\ pc[p] \in {"lock", "closeLock"}
  /\ sendMu[i] = None
  /\ sendMu' = [sendMu EXCEPT ![i] = p]
  /\ Goto(p, IF pc[p] = "lock" THEN "send" ELSE "closeSend")
  /\ UNCHANGED <<sessionVars, opened, cancelled, stdinClosed, readerVars,
                 grpcVars, guestVars, cur, then, todo, retried, keep, envVars,
                 historyVars>>

\* When Send takes a frame, and when it fails; with neither it blocks.  A
\* guest that ended may still be sent to until the client hears of it.
SendTakes(i) == ~over[i] /\ ~halfClosed[i] /\ Len(wire[i]) - taken[i] < Window
SendFails(i) == over[i] \/ halfClosed[i] \/ guest[i] = "ended"

\* Send of f on stream i; a Send after CloseSend ends the RPC.
GrpcSend(i, f, ok) ==
  \/ /\ ok
     /\ SendTakes(i)
     /\ wire' = [wire EXCEPT ![i] = Append(@, f)]
     /\ UNCHANGED over
  \/ /\ ~ok
     /\ SendFails(i)
     /\ over' = [over EXCEPT ![i] = @ \/ halfClosed[i]]
     /\ UNCHANGED wire

SendData(p) ==
  LET i == cur[p] IN
  /\ pc[p] = "send"
  /\ Head(todo[p]).kind # "closeStdin"
  /\ \E ok \in BOOLEAN : GrpcSend(i, Head(todo[p]), ok) /\ InputDone(p, ok)
  /\ sendMu' = [sendMu EXCEPT ![i] = None]
  /\ UNCHANGED <<sessionVars, opened, cancelled, stdinClosed, readerVars,
                 halfClosed, guestVars, cur, then, retried, keep, envVars,
                 historyVars>>

\* CloseSend never blocks and never fails.  Its place among the frames is
\* kept on the wire.
SendCloseStdin(p) ==
  LET i == cur[p] IN
  /\ pc[p] = "send"
  /\ Head(todo[p]).kind = "closeStdin"
  /\ halfClosed' = [halfClosed EXCEPT ![i] = TRUE]
  /\ wire' = IF halfClosed[i] \/ over[i] THEN wire
             ELSE [wire EXCEPT ![i] = Append(@, Head(todo[p]))]
  /\ InputDone(p, TRUE)
  /\ sendMu' = [sendMu EXCEPT ![i] = None]
  /\ UNCHANGED <<sessionVars, opened, cancelled, stdinClosed, readerVars, over,
                 guestVars, cur, then, retried, keep, envVars, historyVars>>

\* Variant: the newest input kept first.
PendingReversed(x) == <<x>> \o pending

\* s.pending with one more input.
PendingWith(x) == Append(pending, x)

\* An accepted input that a refresh might have to replay.
RecordInput(w) ==
  /\ pc[w] = "record"
  /\ pending' = PendingWith(Head(todo[w]))
  /\ todo' = [todo EXCEPT ![w] = <<>>]
  /\ Goto(w, "idle")
  /\ UNCHANGED <<current, closed, refreshed, responsesStarted, streamVars,
                 readerVars, grpcVars, guestVars, cur, then, retried, keep,
                 envVars, historyVars>>

(***************************************************************************)
(* Close and Cancel, and execStream.close, which next() and tryRefresh     *)
(* call too: then[p] says where p goes on.                                 *)
(***************************************************************************)
BeginClose(x) ==
  /\ cur' = [cur EXCEPT ![x] = current]
  /\ then' = [then EXCEPT ![x] = "idle"]
  /\ Goto(x, "closeMark")
  /\ UNCHANGED <<current, refreshed, responsesStarted, pending, streamVars,
                 readerVars, grpcVars, guestVars, todo, retried, keep, envVars,
                 historyVars>>

CancelCall(x) == CanStart(x) /\ UNCHANGED closed /\ BeginClose(x)

\* The first Close; every later one returns at once and changes nothing.
CloseCall(x) == CanStart(x) /\ ~closed /\ closed' = TRUE /\ BeginClose(x)

\* The es.mu section: only the first close of a stream does the work.
CloseMark(p) ==
  LET i == cur[p] IN
  /\ pc[p] = "closeMark"
  /\ cancelled' = [cancelled EXCEPT ![i] = TRUE]
  /\ stdinClosed' = [stdinClosed EXCEPT ![i] = @ \/ ~cancelled[i]]
  /\ Goto(p, IF cancelled[i] THEN then[p] ELSE "closeLock")
  /\ UNCHANGED <<sessionVars, opened, sendMu, readerVars, grpcVars, guestVars,
                 cur, then, todo, retried, keep, envVars, historyVars>>

\* The cancel frame and CloseSend, under sendMu; both errors are ignored.
CloseSend(p) ==
  LET i == cur[p] IN
  /\ pc[p] = "closeSend"
  /\ \E ok \in BOOLEAN : GrpcSend(i, CancelFrame, ok)
  /\ halfClosed' = [halfClosed EXCEPT ![i] = TRUE]
  /\ sendMu' = [sendMu EXCEPT ![i] = None]
  /\ Goto(p, "closeWait")
  /\ UNCHANGED <<sessionVars, opened, cancelled, stdinClosed, readerVars,
                 guestVars, cur, then, todo, retried, keep, envVars, historyVars>>

\* Variant: no es.cancel() when the reader is done.
CloseWaitUnlessDone(p) ==
  /\ pc[p] = "closeWait"
  /\ over' = [over EXCEPT ![cur[p]] = @ \/ reader[cur[p]] # "done"]
  /\ Goto(p, then[p])
  /\ UNCHANGED <<sessionVars, streamVars, readerVars, halfClosed, wire,
                 guestVars, cur, then, todo, retried, keep, envVars, historyVars>>

\* The wait for the reader ends, or its timer fires; es.cancel() either way.
CloseWait(p) ==
  /\ pc[p] = "closeWait"
  /\ over' = [over EXCEPT ![cur[p]] = TRUE]
  /\ Goto(p, then[p])
  /\ UNCHANGED <<sessionVars, streamVars, readerVars, halfClosed, wire,
                 guestVars, cur, then, todo, retried, keep, envVars, historyVars>>

(***************************************************************************)
(* The reader goroutine of stream i: readLoop and emit.                    *)
(***************************************************************************)
RecvResponse(i) ==
  /\ reader[i] = "recv"
  /\ down[i] # <<>>
  /\ Head(down[i]).kind \in {"output", "exit", "malformed"}
  /\ held' = [held EXCEPT ![i] = IF Head(down[i]).kind = "malformed"
                                 THEN Event("failed") ELSE Head(down[i])]
  /\ down' = [down EXCEPT ![i] = Tail(@)]
  /\ reader' = [reader EXCEPT ![i] = "emit"]
  /\ UNCHANGED <<sessionVars, streamVars, events, grpcVars, taken, guest, outs,
                 procVars, envVars, historyVars>>

\* Variant: any error of Recv ends the stream cleanly.
AnyErrorEnds(i, kind) == Event("end")

\* What readLoop makes of an error of Recv.
RecvErrorEvent(i, kind) == IF cancelled[i] THEN Event("end") ELSE Event(kind)

\* Recv fails with the guest's status, or because the RPC is over.
RecvError(i) ==
  /\ reader[i] = "recv"
  /\ \/ /\ down[i] # <<>>
        /\ Head(down[i]).kind \in {"rejected", "failed"}
        /\ held' = [held EXCEPT ![i] = RecvErrorEvent(i, Head(down[i]).kind)]
        /\ down' = [down EXCEPT ![i] = Tail(@)]
     \/ /\ over[i]
        /\ held' = [held EXCEPT ![i] = RecvErrorEvent(i, "failed")]
        /\ UNCHANGED down
  /\ over' = [over EXCEPT ![i] = TRUE]
  /\ reader' = [reader EXCEPT ![i] = "emit"]
  /\ UNCHANGED <<sessionVars, streamVars, events, halfClosed, wire, taken, guest,
                 outs, procVars, envVars, historyVars>>

\* After an event: the end follows an exit, more follows an output.
AfterEmit(i) ==
  /\ held' = [held EXCEPT ![i] = IF @.kind = "exit" THEN Event("end") ELSE @]
  /\ reader' = [reader EXCEPT ![i] =
       CASE held[i].kind = "exit"   -> "emit"
         [] held[i].kind = "output" -> "recv"
         [] OTHER                   -> "done"]

\* Variant: what ends the stream overtakes the outputs nobody has read yet.
EndingFirst(i) ==
  IF held[i].kind = "output" THEN Append(events[i], held[i])
                             ELSE <<held[i]>> \o events[i]

\* es.events with the reader's event in it.
Queued(i) == Append(events[i], held[i])

Emit(i) ==
  /\ reader[i] = "emit"
  /\ Len(events[i]) < EventCap
  /\ events' = [events EXCEPT ![i] = Queued(i)]
  /\ AfterEmit(i)
  /\ UNCHANGED <<sessionVars, streamVars, grpcVars, guestVars, procVars,
                 envVars, historyVars>>

\* Variant: emit without its timer.
EmitForEver(i) == FALSE

\* The five seconds of emit pass with the channel full: the event is dropped.
GiveUp(i) ==
  /\ reader[i] = "emit"
  /\ Len(events[i]) >= EventCap
  /\ lost' = [lost EXCEPT ![i] = TRUE]
  /\ AfterEmit(i)
  /\ UNCHANGED <<sessionVars, streamVars, events, grpcVars, guestVars, procVars,
                 envVars, delivered, calls, refreshes>>

(***************************************************************************)
(* The guest, as the client sees it on stream i.                           *)
(***************************************************************************)
Serving(i) == i <= opened /\ guest[i] = "running" /\ ~over[i]

GuestTakes(i) ==
  /\ Serving(i)
  /\ taken[i] < Len(wire[i])
  /\ taken' = [taken EXCEPT ![i] = @ + 1]
  /\ UNCHANGED <<sessionVars, streamVars, readerVars, grpcVars, guest, outs, down,
                 procVars, envVars, historyVars>>

GuestOutput(i) ==
  /\ Serving(i)
  /\ outs[i] < MaxOutputs
  /\ outs' = [outs EXCEPT ![i] = @ + 1]
  /\ down' = [down EXCEPT ![i] = Append(@, Output(outs[i] + 1))]
  /\ UNCHANGED <<sessionVars, streamVars, readerVars, grpcVars, taken, guest,
                 procVars, envVars, historyVars>>

\* The last response or the status: an exit, a rejected capability, any
\* other error, or a response with no frame in it.
GuestEnds(i) ==
  /\ Serving(i)
  /\ guest' = [guest EXCEPT ![i] = "ended"]
  /\ \E k \in {"exit", "rejected", "failed", "malformed"} :
       down' = [down EXCEPT ![i] = Append(@, Event(k))]
  /\ UNCHANGED <<sessionVars, streamVars, readerVars, grpcVars, taken, outs,
                 procVars, envVars, historyVars>>

(***************************************************************************)
(* Time.  A stream's context outlives the session's deadline.              *)
(***************************************************************************)
DeadlinePasses ==
  /\ ~deadline
  /\ deadline' = TRUE
  /\ UNCHANGED <<sessionVars, streamVars, readerVars, grpcVars, guestVars,
                 procVars, capExpired, historyVars>>

\* Variant: a stream's context without a deadline.
ContextWithoutDeadline(i) == FALSE

ContextExpires(i) ==
  /\ i <= opened
  /\ deadline
  /\ ~over[i]
  /\ over' = [over EXCEPT ![i] = TRUE]
  /\ UNCHANGED <<sessionVars, streamVars, readerVars, halfClosed, wire,
                 guestVars, procVars, envVars, historyVars>>

CapabilityExpires ==
  /\ ~capExpired
  /\ capExpired' = TRUE
  /\ UNCHANGED <<sessionVars, streamVars, readerVars, grpcVars, guestVars,
                 procVars, deadline, historyVars>>

-----------------------------------------------------------------------------
\* The steps of a call under way.
InputStep(p) ==
  \/ EnterData(p) \/ EnterCloseStdin(p) \/ SendData(p) \/ SendCloseStdin(p)
CloseStep(p) == CloseMark(p) \/ CloseSend(p) \/ CloseWait(p)
RefreshStep(c) ==
  \/ RefreshCheck(c) \/ SniffExpiry(c) \/ CommitRefresh(c) \/ Reissue(c)
  \/ OpenStream(c) \/ OpenFails(c) \/ SwapStream(c)

ConsumerStep(c) ==
  \/ NextAgain(c) \/ Take(c) \/ Expire(c) \/ MarkStarted(c)
  \/ RefreshStep(c) \/ InputStep(c) \/ CloseStep(c) \/ LockSend(c)
WriterStep(w) == InputStep(w) \/ LockSend(w) \/ RecordInput(w)
CloserStep(x) == CloseStep(x) \/ LockSend(x)

ReaderStep(i) == RecvResponse(i) \/ RecvError(i) \/ Emit(i) \/ GiveUp(i)
GuestStep(i)  == GuestTakes(i) \/ GuestOutput(i) \/ GuestEnds(i)

Next ==
  \/ \E c \in Consumers : NextCall(c) \/ ConsumerStep(c)
  \/ \E w \in Writers : InputCall(w) \/ WriterStep(w)
  \/ \E x \in Closers : CloseCall(x) \/ CancelCall(x) \/ CloserStep(x)
  \/ \E i \in Streams : ReaderStep(i) \/ GuestStep(i) \/ ContextExpires(i)
  \/ DeadlinePasses \/ CapabilityExpires

Spec == Init /\ [][Next]_vars

(***************************************************************************)
(* The goroutines run and time passes.  Nothing is asked of the guest or   *)
(* of callers that have no call under way.                                 *)
(***************************************************************************)
Fairness ==
  /\ \A c \in Consumers : WF_vars(ConsumerStep(c))
  /\ \A w \in Writers : WF_vars(WriterStep(w))
  /\ \A x \in Closers : WF_vars(CloserStep(x))
  /\ \A i \in Streams : WF_vars(ReaderStep(i)) /\ WF_vars(ContextExpires(i))
  /\ WF_vars(DeadlinePasses)

FairSpec == Spec /\ Fairness

-----------------------------------------------------------------------------
\* The properties.
Quiet     == \A p \in Procs : pc[p] = "idle"

\* The inputs sent on stream i: every frame but a cancel, which is the last.
InputsOn(i) ==
  LET n == Len(wire[i]) IN
  IF n > 0 /\ wire[i][n] = CancelFrame THEN SubSeq(wire[i], 1, n - 1) ELSE wire[i]

\* A session refreshes its capability and reruns the command at most once,
\* although tryRefresh tests s.refreshed in one lock section and sets it in
\* another.
RefreshAtMostOnce == refreshes <= 1

\* Why it holds.  Until the one refresh is committed only the first stream
\* exists, a rejection is the last event of its reader, and one consumer at
\* most holds it on the way to the commit; afterwards nobody is on that way.
HoldsRejection(c) == pc[c] \in {"rejected", "sniff", "commit"}

OneStream ==
  /\ opened = 1 /\ current = 1 /\ refreshes = 0
  /\ \A p \in Procs : /\ cur[p] = 1
                       /\ then[p] # "reissue"
                       /\ pc[p] \notin {"reissue", "open", "swap"}

RejectionIsLast ==
  \A j \in 1 .. Len(events[1]) :
    events[1][j].kind = "rejected" => j = Len(events[1]) /\ reader[1] = "done"

OneHolder ==
  \A c \in Consumers : HoldsRejection(c) =>
    /\ reader[1] = "done"
    /\ \A j \in 1 .. Len(events[1]) : events[1][j].kind # "rejected"
    /\ \A d \in Consumers : HoldsRejection(d) => d = c

RefreshInv ==
  IF refreshed
  THEN refreshes = 1 /\ \A c \in Consumers : pc[c] \notin {"sniff", "commit"}
  ELSE OneStream /\ RejectionIsLast /\ OneHolder

\* The command is started again only when all the first stream ever gave
\* its consumer is the rejection: no output is produced twice.  With several
\* goroutines in Next it is not so: responsesStarted is set in a lock section
\* after the one that takes the output, and a rejection may be taken between
\* them (ExecContract promises it to one goroutine).
RerunOnlyBeforeOutput == opened > 1 => delivered[1] = <<Event("rejected")>>

\* What Next takes from a stream, also when its reader has dropped events of
\* a slow consumer: outputs the guest has written, in the order it wrote them
\* and none twice, then at most one exit or error, and nothing behind an exit
\* but the end.  When nothing was dropped there is moreover no gap between
\* the outputs nor before the exit, and an end comes only of an exit or a
\* cancellation.
DeliveryOrder ==
  \A i \in Streams : \A j \in 1 .. Len(delivered[i]) :
    LET e == delivered[i][j]
        before == delivered[i][j - 1] IN
    /\ e.kind = "output" => e.n \in 1 .. outs[i]
    /\ e.kind = "exit" => guest[i] = "ended"
    /\ j > 1 => \/ before.kind = "output" /\ (e.kind = "output" => before.n < e.n)
                \/ before.kind = "exit" /\ e.kind = "end"
    /\ ~lost[i] => /\ e.kind = "output" => e.n = j
                   /\ e.kind = "exit" => j = outs[i] + 1
                   /\ e.kind = "end" => cancelled[i] \/ (j > 1 /\ before.kind = "exit")

\* The inputs on a stream, replayed or not, are in the order of the calls
\* and none of them is sent twice.
ReplayInOrder ==
  \A i \in Streams : \A j, k \in 1 .. Len(InputsOn(i)) :
    j < k => InputsOn(i)[j].n < InputsOn(i)[k].n

\* Once no input call, close or refresh is under way, a second stream that
\* still runs has every input the first one accepted.
ReplayComplete ==
  /\ \A p \in Procs : pc[p] \in {"idle", "select", "mark"}
  /\ current > 1 /\ ~over[current] /\ guest[current] = "running"
  => \A j \in 1 .. Len(InputsOn(1)) : \E k \in 1 .. Len(InputsOn(current)) :
       InputsOn(current)[k].n = InputsOn(1)[j].n

\* When Close has returned and no call is under way, no remote Exec of the
\* session is left running, whichever streams a refresh opened.
CloseStopsRemote == closed /\ Quiet => \A i \in 1 .. opened : over[i]

\* What does hold of it: with no call under way only the current stream may
\* run, and of a closed session only one that was opened by a refresh.
OnlyCurrentRuns ==
  Quiet => \A i \in 1 .. opened :
             over[i] \/ (i = current /\ (closed => refreshed))

\* The client ends an Exec that the guest has not ended only for a close, a
\* cancel or a deadline: no sequence of input calls aborts it.
AbortOnlyWhenAsked ==
  \A i \in 1 .. opened :
    over[i] => cancelled[i] \/ deadline \/ guest[i] = "ended"

\* Every call returns: Next by the deadline, inputs and closes even when the
\* guest stops reading and Send blocks with sendMu held.
CallsReturn == \A p \in Procs : pc[p] # "idle" ~> pc[p] = "idle"

\* The reader goroutine of a stream whose RPC is over exits, also when
\* nobody reads its events any more.
ReaderExits == \A i \in Streams : over[i] ~> reader[i] = "done"
=============================================================================
