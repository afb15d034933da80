---------------------------- MODULE ExecInvariants ----------------------------
(***************************************************************************)
(* The inductive invariant of ExecSession, part by part: what is true      *)
(* between any two steps of the goroutines and makes the properties of     *)
(* ExecSession and the refinement of ExecContract hold.  Most parts are    *)
(* not inductive alone; ExecInvariantProofs and ExecRefinementProofs show  *)
(* that together they are.                                                 *)
(***************************************************************************)
EXTENDS ExecSession

(***************************************************************************)
(* Who does what.                                                          *)
(***************************************************************************)
ClosingSteps == {"closeMark", "closeLock", "closeSend", "closeWait"}
InputSteps   == {"enter", "lock", "send"}

\* Writers make input calls, closers close; only writers keep an input.
RolesInv ==
  /\ \A w \in Writers : pc[w] \in InputSteps \cup {"idle", "record"}
  /\ \A x \in Closers : pc[x] \in ClosingSteps \cup {"idle"} /\ then[x] = "idle"
  /\ \A c \in Consumers : pc[c] # "record"

\* A serial caller has one call under way.
SerialInv == Serial => \A p, q \in Procs : pc[p] # "idle" /\ pc[q] # "idle" => p = q

(***************************************************************************)
(* The two streams.  The second is opened by the one goroutine that        *)
(* refreshes, after it has closed the first, and is nobody else's until    *)
(* it is published.                                                        *)
(***************************************************************************)
\* The goroutine that committed the refresh and has not published its stream.
Refreshing(c) ==
  \/ pc[c] \in {"reissue", "open", "swap"}
  \/ pc[c] \in ClosingSteps /\ then[c] = "reissue"

\* The first stream ended with a rejection, which a consumer has taken.
RefusedFirst ==
  /\ reader[1] = "done" /\ over[1] /\ events[1] = <<>>
  /\ delivered[1] # <<>> /\ delivered[1][Len(delivered[1])] = Event("rejected")

CurrentInv ==
  /\ opened \in {1, 2} /\ current \in 1 .. opened
  /\ \A p \in Procs : cur[p] <= current \/ (p \in Consumers /\ pc[p] = "swap")
  /\ opened = 2 => refreshed
  /\ opened = 2 /\ current = 1 => \E c \in Consumers : pc[c] = "swap"

RefusedInv ==
  refreshed \/ (\E c \in Consumers : HoldsRejection(c)) => RefusedFirst

RefreshingInv ==
  \A c \in Consumers :
    /\ Refreshing(c) => /\ refreshed
                        /\ \A d \in Consumers : Refreshing(d) => d = c
                        /\ current = 1
    /\ Refreshing(c) /\ pc[c] # "swap" => opened = 1
    /\ pc[c] = "swap" => opened = 2 /\ cur[c] = 2
    /\ pc[c] \in InputSteps \cup {"again"} => current = 2 /\ cur[c] = 2

StreamsInv == CurrentInv /\ RefusedInv /\ RefreshingInv

\* What is not published has been neither closed nor written to.
UntouchedInv ==
  \A i \in Streams : i > current =>
    ~cancelled[i] /\ ~stdinClosed[i] /\ ~halfClosed[i] /\ wire[i] = <<>>

ReadersInv == \A i \in Streams : reader[i] = "none" <=> i > opened

(***************************************************************************)
(* Closing.  es.cancelled is set first and the RPC ended last: in between  *)
(* the goroutine that set it is on its way.  A Close that finds the stream *)
(* cancelled leaves at once; another goroutine ends the RPC.               *)
(***************************************************************************)
CloseInv ==
  /\ \A i \in Streams : cancelled[i] =>
       over[i] \/ \E p \in Procs : cur[p] = i /\ pc[p] \in ClosingSteps \ {"closeMark"}
  /\ closed /\ ~refreshed =>
       over[1] \/ \E p \in Procs : cur[p] = 1 /\ pc[p] \in ClosingSteps
  /\ \A p \in Procs : pc[p] \in ClosingSteps \ {"closeMark"} => cancelled[cur[p]]

CancelledCloses == \A i \in Streams : cancelled[i] => stdinClosed[i]

\* Who is about to close stdin has said so.
ClosingStdin ==
  \A p \in Procs : pc[p] \in {"lock", "send"} /\ Head(todo[p]).kind = "closeStdin" =>
    stdinClosed[cur[p]]

\* A cancel frame is the last of its stream.
WireInv ==
  \A i \in Streams :
    /\ \A j \in 1 .. Len(wire[i]) :
         \/ wire[i][j] \in Inputs
         \/ wire[i][j] = CancelFrame /\ j = Len(wire[i]) /\ halfClosed[i]
    /\ halfClosed[i] => stdinClosed[i]

(***************************************************************************)
(* The events of a stream, from the guest by the reader to the consumers.  *)
(***************************************************************************)
\* What the reader has given: taken by a consumer, or still in es.events.
Emitted(i) == delivered[i] \o events[i]

\* How many of the frames on their way are outputs: all but a last one that
\* ends the stream.
Outputs(s) ==
  IF Len(s) > 0 /\ s[Len(s)].kind # "output" THEN Len(s) - 1 ELSE Len(s)

\* The frames on their way end with the o-th output, or with what ended the
\* stream after it.
Follows(s, o) ==
  /\ Outputs(s) <= o
  /\ \A j \in 1 .. Outputs(s) : s[j] = Output(o - Outputs(s) + j)
  /\ Outputs(s) < Len(s) => s[Len(s)].n = 0 /\ s[Len(s)].kind # "end"

DownOf(i) ==
  /\ Follows(down[i], outs[i])
  /\ Outputs(down[i]) < Len(down[i]) => guest[i] = "ended"

\* The outputs the reader has received.
Heard(i) == outs[i] - Outputs(down[i])

AllOutputs(s) == \A j \in 1 .. Len(s) : s[j].kind = "output"

EmittedKinds == {"output", "exit", "rejected", "failed", "end"}

\* The j-th event given, of all that were: without a gap as long as none was
\* dropped, and nothing but the end after an exit.
EmittedAt(i, E, j) ==
  /\ E[j].kind \in EmittedKinds
  /\ E[j].kind # "output" => E[j].n = 0
  /\ E[j].kind = "output" => E[j].n \in 1 .. Heard(i) /\ (~lost[i] => E[j].n = j)
  /\ E[j].kind = "exit" => guest[i] = "ended" /\ (~lost[i] => j = outs[i] + 1)
  /\ E[j].kind = "rejected" => over[i]
  /\ E[j].kind = "end" /\ ~lost[i] => cancelled[i] \/ (j > 1 /\ E[j - 1].kind = "exit")
  /\ j > 1 => \/ E[j - 1].kind = "output" /\ (E[j].kind = "output" => E[j - 1].n < E[j].n)
              \/ E[j - 1].kind = "exit" /\ E[j].kind = "end"

EmittedOf(i) == \A j \in 1 .. Len(Emitted(i)) : EmittedAt(i, Emitted(i), j)

\* The event the reader holds may follow those it gave.
HeldAt(i, E) ==
  /\ held[i].kind \in EmittedKinds
  /\ held[i].kind # "output" => held[i].n = 0
  /\ held[i].kind # "end" => AllOutputs(E)
  /\ held[i].kind = "output" =>
       /\ held[i].n = Heard(i) /\ Heard(i) > 0
       /\ \A j \in 1 .. Len(E) : E[j].n < Heard(i)
       /\ ~lost[i] => Len(E) = Heard(i) - 1
  /\ held[i].kind = "exit" => guest[i] = "ended" /\ (~lost[i] => Len(E) = outs[i])
  /\ held[i].kind = "rejected" => over[i]
  /\ held[i].kind = "end" =>
       \/ AllOutputs(E) /\ (cancelled[i] \/ lost[i])
       \/ E # <<>> /\ E[Len(E)].kind = "exit"

HeldOf(i) ==
  /\ reader[i] = "none" =>
       Emitted(i) = <<>> /\ outs[i] = 0 /\ down[i] = <<>> /\ ~lost[i]
  /\ reader[i] = "recv" =>
       AllOutputs(Emitted(i)) /\ (~lost[i] => Len(Emitted(i)) = Heard(i))
  /\ reader[i] = "emit" => HeldAt(i, Emitted(i))

DeliveryInv == \A i \in Streams : DownOf(i) /\ EmittedOf(i) /\ HeldOf(i)

(***************************************************************************)
(* One goroutine in Next: between the Take of an answer and the lock       *)
(* section that remembers it nobody else takes a rejection.                *)
(***************************************************************************)
OneConsumer == Serial \/ \A c, d \in Consumers : c = d

MarkInv ==
  /\ ~responsesStarted /\ (\A c \in Consumers : pc[c] # "mark") =>
       \A j \in 1 .. Len(delivered[1]) : delivered[1][j].kind \notin {"output", "exit", "end"}
  /\ \A c \in Consumers : pc[c] \in {"sniff", "commit"} => ~responsesStarted

RerunInv ==
  OneConsumer => MarkInv /\ (refreshed => delivered[1] = <<Event("rejected")>>)

\* What holds of every session.
SessionInv ==
  /\ TypeOK /\ RefreshInv /\ RolesInv /\ StreamsInv /\ CloseInv /\ ReadersInv
  /\ UntouchedInv /\ CancelledCloses /\ ClosingStdin /\ WireInv /\ DeliveryInv
  /\ SerialInv /\ RerunInv

(***************************************************************************)
(* The inputs of a caller with one goroutine.                              *)
(***************************************************************************)
\* An input on its way to the transport finds its stream open.
SendingInv ==
  Serial => \A p \in Procs : pc[p] \in {"lock", "send"} =>
    /\ ~halfClosed[cur[p]]
    /\ Head(todo[p]).kind # "closeStdin" => ~stdinClosed[cur[p]]

\* Nothing but a close, the deadline or the guest ends an RPC.
AbortInv ==
  Serial => \A i \in Streams :
    over[i] => cancelled[i] \/ deadline \/ guest[i] = "ended"

\* Frames in the order of the calls that made them; a cancel is nobody's input.
InOrder(s) ==
  \A j, k \in 1 .. Len(s) : j < k /\ s[k] # CancelFrame => s[j].n < s[k].n

Below(s, n) == \A j \in 1 .. Len(s) : s[j].n < n

\* t is the end of s.
EndOf(t, s) ==
  /\ Len(t) <= Len(s)
  /\ \A j \in 1 .. Len(t) : t[j] = s[Len(s) - Len(t) + j]

\* A writer's input is the newest, and has been sent only when it is to be kept.
Fresh(w) ==
  /\ Len(todo[w]) = 1 /\ Head(todo[w]).n = calls
  /\ cur[w] = current
  /\ Below(pending, calls)
  /\ pc[w] # "record" => \A i \in Streams : Below(wire[i], calls)

\* A replay has the last of the kept inputs still to send.
Replaying(c) ==
  /\ EndOf(todo[c], pending)
  /\ Below(wire[2], Head(todo[c]).n)
  /\ ~cancelled[2]

OrderInv == Serial =>
  /\ InOrder(pending) /\ Below(pending, calls + 1)
  /\ \A i \in Streams : InOrder(wire[i]) /\ Below(wire[i], calls + 1)
  /\ \A w \in Writers : pc[w] # "idle" => Fresh(w)
  /\ \A c \in Consumers : pc[c] \in InputSteps => Replaying(c)

\* What counts of the kept inputs: those up to the first CloseStdin.
FirstClose(j) == \A k \in 1 .. j - 1 : pending[k].kind # "closeStdin"
NoCloseKept == \A k \in 1 .. Len(pending) : pending[k].kind # "closeStdin"
Kept(f) == \E k \in 1 .. Len(pending) : pending[k] = f /\ FirstClose(k)
OnWire(i, f) == \E j \in 1 .. Len(wire[i]) : wire[i][j] = f

\* A writer whose input may still be kept has got past no CloseStdin.
Accepting(w) ==
  /\ pc[w] \in {"lock", "send"} => NoCloseKept
  /\ pc[w] = "record" =>
       /\ Head(todo[w]).kind # "closeStdin" \/ OnWire(1, Head(todo[w])) => NoCloseKept
       /\ Head(todo[w]).kind = "closeStdin" => stdinClosed[1]

\* While the session may be refreshed, or once it is, every input the first
\* stream took is kept or is about to be.
AllKept ==
  \A j \in 1 .. Len(wire[1]) : wire[1][j] \in Inputs =>
    \/ Kept(wire[1][j])
    \/ \E w \in Writers : pc[w] = "record" /\ Head(todo[w]) = wire[1][j]

KeepInv == Serial =>
  /\ \A w \in Writers : pc[w] # "idle" =>
       (keep[w] <=> MayRefresh) /\ (pc[w] = "record" => keep[w])
  /\ ~refreshed => /\ stdinClosed[1] \/ NoCloseKept
                   /\ \A w \in Writers : Accepting(w)
  /\ refreshed \/ ~responsesStarted => AllKept

\* The first n kept inputs are on the second stream, if it still runs.
Replayed(n) ==
  ~over[2] /\ guest[2] = "running" => \A j \in 1 .. n : FirstClose(j) => OnWire(2, pending[j])

ReplayInv == Serial /\ current = 2 =>
  /\ \A c \in Consumers : pc[c] \in InputSteps =>
       /\ Replayed(Len(pending) - Len(todo[c]))
       /\ pc[c] = "enter" /\ stdinClosed[2] =>
            \E k \in 1 .. Len(pending) - Len(todo[c]) : pending[k].kind = "closeStdin"
  /\ (\A c \in Consumers : pc[c] \notin InputSteps) => Replayed(Len(pending))

InputInv == SendingInv /\ AbortInv /\ OrderInv /\ KeepInv /\ ReplayInv
=============================================================================
