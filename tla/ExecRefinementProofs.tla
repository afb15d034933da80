------------------------ MODULE ExecRefinementProofs ------------------------
(* InputInv holds of every ExecSession, what follows from it of the inputs  *)
(* of a caller with one goroutine, and that a session keeps the contract of *)
(* ExecContract with all its callers.                                       *)
EXTENDS ExecRefinement, ExecInvariantProofs

(***************************************************************************)
(* The inputs.                                                             *)
(***************************************************************************)
InputUnderWay == InputSteps \cup {"record"}

\* A step that is none of an input: no input moves, and if it closes stdin,
\* cancels, marks or refreshes then another call is under way.
Aside ==
  /\ UNCHANGED <<pending, calls, current>>
  /\ \A p \in Procs :
       pc[p] \in InputUnderWay \/ pc'[p] \in InputUnderWay =>
         /\ pc'[p] = pc[p] /\ cur'[p] = cur[p] /\ todo'[p] = todo[p] /\ keep'[p] = keep[p]
  /\ \/ UNCHANGED <<refreshed, responsesStarted, cancelled, stdinClosed, halfClosed, wire>>
     \/ \E p \in Procs : pc[p] \in ClosingSteps \cup {"mark", "commit"}
  /\ \A i \in Streams : wire'[i] = wire[i] \/ wire'[i] = Append(wire[i], CancelFrame)

\* Every step is a step of an input, or aside of it.
LEMMA InputOrAside ==
  ASSUME TypeOK, [Next]_vars
  PROVE  \/ \E w \in Writers : InputCall(w) \/ RecordInput(w)
         \/ \E p \in Consumers \cup Writers :
              \/ EnterData(p) \/ EnterCloseStdin(p)
              \/ SendData(p) \/ SendCloseStdin(p)
         \/ \E p \in Procs : LockSend(p) /\ pc[p] = "lock"
         \/ \E c \in Consumers : SwapStream(c)
         \/ Aside
<1>0. /\ then \in [Procs -> {"idle", "mark", "reissue"}]
      /\ \A c \in Consumers : c \in Procs
      /\ \A x \in Closers : x \in Procs
  BY TypesOf DEF Procs
<1> USE <1>0 DEF Aside, Others, Apart, InputUnderWay, InputSteps, ClosingSteps
<1>1. ASSUME NEW c \in Consumers, NextCall(c) \/ NextAgain(c) PROVE Aside
  BY <1>1, BeginDoes
<1>2. ASSUME NEW c \in Consumers, Take(c) PROVE Aside
  BY <1>2, TakeDoes, TakeLeads
<1>3. ASSUME NEW c \in Consumers, Expire(c) PROVE Aside
  BY <1>3, ExpireDoes
<1>4. ASSUME NEW c \in Consumers, MarkStarted(c) PROVE Aside
  BY <1>4, MarkDoes
<1>5. ASSUME NEW c \in Consumers, RefreshCheck(c) \/ SniffExpiry(c) PROVE Aside
  BY <1>5, LookDoes
<1>6. ASSUME NEW c \in Consumers, CommitRefresh(c) PROVE Aside
  BY <1>6, CommitDoes
<1>7. ASSUME NEW c \in Consumers, Reissue(c) \/ OpenFails(c) PROVE Aside
  BY <1>7, ReissueDoes
<1>8. ASSUME NEW c \in Consumers, OpenStream(c) PROVE Aside
  BY <1>8, OpenDoes
<1>9. ASSUME NEW p \in Procs, LockSend(p), pc[p] # "lock" PROVE Aside
  BY <1>9, LockDoes
<1>10. ASSUME NEW x \in Closers, CloseCall(x) \/ CancelCall(x) PROVE Aside
  BY <1>10, CloseDoes
<1>11. ASSUME NEW p \in Consumers \cup Closers, CloseMark(p) PROVE Aside
  BY <1>11, CloseMarkDoes
<1>12. ASSUME NEW p \in Consumers \cup Closers, CloseSend(p) PROVE Aside
  BY <1>12, CloseSendDoes
<1>13. ASSUME NEW p \in Consumers \cup Closers, CloseWait(p) PROVE Aside
  BY <1>13, CloseWaitDoes
<1>14. ASSUME NEW i \in Streams, RecvResponse(i) \/ RecvError(i) PROVE Aside
  BY <1>14, RecvDoes
<1>15. ASSUME NEW i \in Streams, Emit(i) \/ GiveUp(i) PROVE Aside
  BY <1>15, EmitDoes
<1>16. ASSUME NEW i \in Streams, GuestStep(i) \/ ContextExpires(i) PROVE Aside
  BY <1>16, GuestDoes
<1>17. CASE DeadlinePasses \/ CapabilityExpires \/ UNCHANGED vars
  BY <1>17, TimeDoes
<1> QED
  BY <1>1, <1>2, <1>3, <1>4, <1>5, <1>6, <1>7, <1>8, <1>9, <1>10, <1>11, <1>12, <1>13,
     <1>14, <1>15, <1>16, <1>17, StepCases

\* For a serial caller nothing but time and the guest interferes with an input.
LEMMA InputUndisturbed ==
  ASSUME SerialInv, Serial, Aside, NEW p \in Procs,
         pc[p] \in InputUnderWay \/ pc'[p] \in InputUnderWay
  PROVE  /\ UNCHANGED <<pending, calls, current, refreshed, responsesStarted,
                        cancelled, stdinClosed, halfClosed, wire>>
         /\ pc[p] \in InputUnderWay
         /\ pc'[p] = pc[p] /\ cur'[p] = cur[p] /\ todo'[p] = todo[p] /\ keep'[p] = keep[p]
BY DEF SerialInv, Aside, InputUnderWay, InputSteps, ClosingSteps

\* While a call is under way a serial caller makes no other.
LEMMA OneUnderWay ==
  ASSUME SerialInv, Serial, NEW p \in Procs, pc[p] # "idle"
  PROVE  \A q \in Procs \ {p} : pc[q] = "idle"
BY DEF SerialInv

\* What ends the RPC of a stream.
EndsRPC(i) ==
  \/ deadline \/ guest[i] = "ended"
  \/ \E p \in Procs : pc[p] \in {"closeSend", "closeWait"} /\ cur[p] = i
  \/ \E p \in Procs : pc[p] = "send" /\ cur[p] = i /\ halfClosed[i]
OnlyEnded == \A i \in Streams : over'[i] => over[i] \/ EndsRPC(i)

\* The guest's status comes when it has ended.
LEMMA StatusIsLast ==
  ASSUME TypeOK, NEW i \in Streams, DownOf(i), down[i] # <<>>, Head(down[i]).kind # "output"
  PROVE  guest[i] = "ended"
<1>1. down[i] \in Seq(Events) /\ outs[i] \in Nat
  BY SeqTypesOf
<1>2. Len(down[i]) \in Nat /\ Len(down[i]) > 0 /\ Head(down[i]) = down[i][1]
  BY <1>1
<1>3. Outputs(down[i]) = Len(down[i]) \/ Outputs(down[i]) < Len(down[i])
  BY ONLY <1>2 DEF Outputs
<1>4. Follows(down[i], outs[i])
  BY DEF DownOf
<1>5. Outputs(down[i]) < Len(down[i])
  <2> SUFFICES ASSUME Outputs(down[i]) = Len(down[i]) PROVE FALSE
    BY <1>3
  <2>1. 1 \in 1 .. Outputs(down[i])
    BY ONLY <1>2, Outputs(down[i]) = Len(down[i])
  <2>2. down[i][1] = Output(outs[i] - Outputs(down[i]) + 1)
    BY ONLY <1>4, <2>1 DEF Follows
  <2> QED
    BY ONLY <1>2, <2>2, Head(down[i]).kind # "output" DEF Output
<1> QED
  BY ONLY <1>5, DownOf(i) DEF DownOf

\* Every step ends an RPC for one of these reasons, or none.
LEMMA EndedByWhom ==
  ASSUME TypeOK, DeliveryInv, [Next]_vars
  PROVE  OnlyEnded
<1>0. /\ over \in [Streams -> BOOLEAN] /\ cur \in [Procs -> Streams]
      /\ \A p \in Consumers \cup Writers : p \in Procs
      /\ \A p \in Consumers \cup Closers : p \in Procs
  BY TypesOf DEF Procs
<1> USE <1>0 DEF OnlyEnded, EndsRPC, Apart
<1>1. ASSUME NEW c \in Consumers, NextCall(c) \/ NextAgain(c) PROVE OnlyEnded
  BY <1>1, BeginDoes
<1>2. ASSUME NEW c \in Consumers, Take(c) PROVE OnlyEnded
  BY <1>2, TakeDoes
<1>3. ASSUME NEW c \in Consumers, Expire(c) PROVE OnlyEnded
  BY <1>3, ExpireDoes
<1>4. ASSUME NEW c \in Consumers, MarkStarted(c) PROVE OnlyEnded
  BY <1>4, MarkDoes
<1>5. ASSUME NEW c \in Consumers, RefreshCheck(c) \/ SniffExpiry(c) PROVE OnlyEnded
  BY <1>5, LookDoes
<1>6. ASSUME NEW c \in Consumers, CommitRefresh(c) PROVE OnlyEnded
  BY <1>6, CommitDoes
<1>7. ASSUME NEW c \in Consumers, Reissue(c) \/ OpenFails(c) PROVE OnlyEnded
  BY <1>7, ReissueDoes
<1>8. ASSUME NEW c \in Consumers, OpenStream(c) PROVE OnlyEnded
  BY <1>8, OpenDoes
<1>9. ASSUME NEW c \in Consumers, SwapStream(c) PROVE OnlyEnded
  BY <1>9, SwapDoes
<1>10. ASSUME NEW w \in Writers, InputCall(w) PROVE OnlyEnded
  BY <1>10, InputCallDoes
<1>11. ASSUME NEW w \in Writers, RecordInput(w) PROVE OnlyEnded
  BY <1>11, RecordDoes
<1>12. ASSUME NEW p \in Consumers \cup Writers, EnterData(p) \/ EnterCloseStdin(p)
       PROVE  OnlyEnded
  BY <1>12, EnterLeaves
<1>13. ASSUME NEW p \in Consumers \cup Writers, SendData(p) \/ SendCloseStdin(p)
       PROVE  OnlyEnded
  <2>1. /\ pc[p] = "send" /\ p \in Procs /\ cur[p] \in Streams
        /\ \A k \in Streams \ {cur[p]} : over'[k] = over[k]
    BY <1>13, SendLeaves
  <2>2. over'[cur[p]] => over[cur[p]] \/ halfClosed[cur[p]]
    BY <1>13, SendDoes
  <2> QED
    BY <2>1, <2>2
<1>14. ASSUME NEW p \in Procs, LockSend(p) PROVE OnlyEnded
  BY <1>14, LockDoes
<1>15. ASSUME NEW x \in Closers, CloseCall(x) \/ CancelCall(x) PROVE OnlyEnded
  BY <1>15, CloseDoes
<1>16. ASSUME NEW p \in Consumers \cup Closers, CloseMark(p) PROVE OnlyEnded
  BY <1>16, CloseMarkDoes
<1>17. ASSUME NEW p \in Consumers \cup Closers, CloseSend(p) PROVE OnlyEnded
  BY <1>17, CloseSendDoes
<1>18. ASSUME NEW p \in Consumers \cup Closers, CloseWait(p) PROVE OnlyEnded
  BY <1>18, CloseWaitDoes
<1>19. ASSUME NEW i \in Streams, RecvResponse(i) \/ RecvError(i) PROVE OnlyEnded
  <2>1. DownOf(i)
    BY DEF DeliveryInv
  <2>2. down[i] # <<>> /\ Head(down[i]).kind \in {"rejected", "failed"} => guest[i] = "ended"
    BY <2>1, StatusIsLast
  <2> QED
    BY <1>19, <2>2, RecvDoes
<1>20. ASSUME NEW i \in Streams, Emit(i) \/ GiveUp(i) PROVE OnlyEnded
  BY <1>20, EmitDoes
<1>21. ASSUME NEW i \in Streams, GuestStep(i) \/ ContextExpires(i) PROVE OnlyEnded
  BY <1>21, GuestDoes
<1>22. CASE DeadlinePasses \/ CapabilityExpires \/ UNCHANGED vars
  BY <1>22, TimeDoes
<1> QED
  BY <1>1, <1>2, <1>3, <1>4, <1>5, <1>6, <1>7, <1>8, <1>9, <1>10, <1>11, <1>12, <1>13,
     <1>14, <1>15, <1>16, <1>17, <1>18, <1>19, <1>20, <1>21, <1>22, StepCases

\* An input that may be sent finds its stream open.
LEMMA SendingStep ==
  ASSUME TypeOK, SerialInv, WireInv, SendingInv, [Next]_vars
  PROVE  SendingInv'
<1> SUFFICES ASSUME Serial, NEW p \in Procs, pc'[p] \in {"lock", "send"}
             PROVE  /\ ~halfClosed'[cur'[p]]
                    /\ Head(todo'[p]).kind # "closeStdin" => ~stdinClosed'[cur'[p]]
  BY DEF SendingInv
<1>0. cur[p] \in Streams
  BY TypesOf
<1>1. /\ todo'[p] = todo[p] /\ cur'[p] = cur[p] /\ pc[p] \in {"lock", "send", "enter"}
      /\ pc[p] = "enter" => ~stdinClosed[cur[p]]
  BY SendingFromEntry DEF FromEntry, Entering
<1>2. /\ ~halfClosed[cur[p]]
      /\ Head(todo[p]).kind # "closeStdin" => ~stdinClosed[cur[p]]
  BY ONLY <1>0, <1>1, WireInv, SendingInv, Serial DEF WireInv, SendingInv
<1>3. \A q \in Procs \ {p} : pc[q] = "idle"
  BY <1>1, OneUnderWay
<1>4. ASSUME NEW q \in Consumers \cup Writers, EnterData(q) \/ EnterCloseStdin(q)
      PROVE  /\ halfClosed'[cur'[p]] = halfClosed[cur[p]]
             /\ Head(todo[p]).kind # "closeStdin" => stdinClosed'[cur[p]] = stdinClosed[cur[p]]
  <2>1. q = p
    BY <1>3, <1>4, EnterLeaves
  <2> QED
    BY <1>1, <1>4, <2>1, EnterDoes
<1>5. ASSUME NEW q \in Consumers \cup Writers, SendData(q) \/ SendCloseStdin(q) PROVE FALSE
  BY <1>1, <1>3, <1>5, SendLeaves
<1>6. ASSUME NEW q \in Procs, LockSend(q) PROVE UNCHANGED <<halfClosed, stdinClosed>>
  BY <1>6, LockDoes
<1>7. ASSUME NEW w \in Writers, InputCall(w) \/ RecordInput(w)
      PROVE  UNCHANGED <<halfClosed, stdinClosed>>
  BY <1>7, InputCallDoes, RecordDoes
<1>8. ASSUME NEW c \in Consumers, SwapStream(c) PROVE UNCHANGED <<halfClosed, stdinClosed>>
  BY <1>8, SwapDoes
<1>9. CASE Aside
  <2>1. UNCHANGED <<halfClosed, stdinClosed>>
    BY <1>1, <1>9, InputUndisturbed DEF InputUnderWay, InputSteps
  <2> QED
    BY ONLY <1>1, <1>2, <2>1
<1> QED
  BY <1>1, <1>2, <1>4, <1>5, <1>6, <1>7, <1>8, <1>9, InputOrAside

\* Why the RPC of a stream is over.
LEMMA AbortStep ==
  ASSUME TypeOK, DeliveryInv, CloseInv, SerialInv, SendingInv, AbortInv, [Next]_vars
  PROVE  AbortInv'
<1> SUFFICES ASSUME Serial, NEW i \in Streams, over'[i]
             PROVE  cancelled'[i] \/ deadline' \/ guest'[i] = "ended"
  BY DEF AbortInv
<1>1. Stays /\ OnlyEnded
  BY NothingBack, EndedByWhom
<1>2. \A p \in Procs : pc[p] \in {"closeSend", "closeWait"} => cancelled[cur[p]]
  BY DEF CloseInv, ClosingSteps
<1>3. \A p \in Procs : pc[p] = "send" => ~halfClosed[cur[p]]
  BY DEF SendingInv
<1> QED
  BY ONLY <1>1, <1>2, <1>3, AbortInv, Serial, over'[i] DEF Stays, OnlyEnded, EndsRPC,
     AbortInv

\* Inputs are numbered from one; the cancel frame has no number.
LEMMA FrameTypes ==
  /\ \A f \in Inputs : f \in Frames /\ f # CancelFrame /\ f.n \in Nat \ {0} /\ f.kind \in InputKinds
  /\ CancelFrame \in Frames /\ CancelFrame.n = 0
  /\ \A f \in Frames : f.n \in Nat
BY BoundsAssumption DEF BoundsAssumption, Inputs, InputKinds, Frames, CancelFrame

\* A frame younger than the others keeps them in order.
LEMMA AppendInOrder ==
  ASSUME NEW s \in Seq(Frames), NEW f \in Frames, InOrder(s),
         f # CancelFrame => Below(s, f.n)
  PROVE  InOrder(Append(s, f))
<1>1. /\ Len(s) \in Nat /\ Len(Append(s, f)) = Len(s) + 1 /\ Append(s, f)[Len(s) + 1] = f
      /\ \A j \in 1 .. Len(s) : Append(s, f)[j] = s[j]
  OBVIOUS
<1> QED
  BY <1>1 DEF InOrder, Below

\* One more frame below a bound.
LEMMA AppendBelow ==
  ASSUME NEW s \in Seq(Frames), NEW f \in Frames, NEW n \in Nat, Below(s, n), f.n < n
  PROVE  Below(Append(s, f), n)
<1>1. /\ Len(s) \in Nat /\ Len(Append(s, f)) = Len(s) + 1 /\ Append(s, f)[Len(s) + 1] = f
      /\ \A j \in 1 .. Len(s) : Append(s, f)[j] = s[j]
  OBVIOUS
<1> QED
  BY <1>1 DEF Below

\* A greater bound.
LEMMA BelowMore ==
  ASSUME NEW s \in Seq(Frames), NEW n \in Nat, NEW m \in Nat, Below(s, n), n <= m
  PROVE  Below(s, m)
<1>1. \A j \in 1 .. Len(s) : s[j].n \in Nat
  BY FrameTypes
<1> QED
  BY <1>1 DEF Below

\* The next input of a replay is a greater bound.
LEMMA BelowNext ==
  ASSUME NEW s \in Seq(Frames), NEW f \in Inputs, NEW g \in Inputs, Below(s, f.n), f.n < g.n
  PROVE  Below(s, g.n)
<1>1. f.n \in Nat /\ g.n \in Nat /\ \A j \in 1 .. Len(s) : s[j].n \in Nat
  BY FrameTypes
<1> QED
  BY <1>1 DEF Below

\* The next input of a replay is younger than the one sent.
LEMMA EndOfTail ==
  ASSUME NEW s \in Seq(Inputs), NEW t \in Seq(Inputs), InOrder(s), EndOf(t, s), t # <<>>
  PROVE  /\ EndOf(Tail(t), s)
         /\ Head(t) = s[Len(s) - Len(t) + 1] /\ Len(s) - Len(t) + 1 \in 1 .. Len(s)
         /\ Tail(t) # <<>> => Head(t).n < Head(Tail(t)).n
<1>1. /\ Len(s) \in Nat /\ Len(t) \in Nat /\ Len(t) > 0 /\ Head(t) = t[1]
      /\ Tail(t) \in Seq(Inputs) /\ Len(Tail(t)) = Len(t) - 1
      /\ \A j \in 1 .. Len(t) - 1 : Tail(t)[j] = t[j + 1]
  OBVIOUS
<1>2. Tail(t) # <<>> => Len(t) > 1 /\ Head(Tail(t)) = t[2]
  BY <1>1
<1>3. Head(t) = s[Len(s) - Len(t) + 1] /\ Len(s) - Len(t) + 1 \in 1 .. Len(s)
  BY ONLY <1>1, EndOf(t, s) DEF EndOf
<1>4. EndOf(Tail(t), s)
  BY ONLY <1>1, EndOf(t, s) DEF EndOf
<1>5. ASSUME Tail(t) # <<>> PROVE Head(t).n < Head(Tail(t)).n
  <2>1. Len(t) > 1 /\ Head(Tail(t)) = s[Len(s) - Len(t) + 2]
    BY ONLY <1>1, <1>2, <1>5, EndOf(t, s), SMTT(40) DEF EndOf
  <2>2. Len(s) - Len(t) + 2 \in 1 .. Len(s)
    BY ONLY <1>1, <2>1, EndOf(t, s) DEF EndOf
  <2>3. s[Len(s) - Len(t) + 2] # CancelFrame
    BY <2>2, FrameTypes
  <2> QED
    BY ONLY <1>1, <1>3, <2>1, <2>2, <2>3, InOrder(s), SMTT(40) DEF InOrder
<1> QED
  BY <1>3, <1>4, <1>5

\* The types the order of the inputs rests on.
InputTypes ==
  /\ pending \in Seq(Inputs) /\ pending \in Seq(Frames)
  /\ wire \in [Streams -> Seq(Frames)] /\ calls \in Nat
  /\ \A p \in Procs : todo[p] \in Seq(Inputs) /\ cur[p] \in Streams
  /\ \A p \in Procs : pc[p] \in InputUnderWay => todo[p] # <<>> /\ Head(todo[p]) \in Inputs

\* They follow from the types of the variables.
LEMMA InputsTyped == TypeOK => InputTypes
<1> SUFFICES ASSUME TypeOK PROVE InputTypes
  OBVIOUS
<1>1. /\ pending \in Seq(Inputs) /\ wire \in [Streams -> Seq(Frames)]
      /\ todo \in [Procs -> Seq(Inputs)] /\ calls \in 0 .. MaxInputs
      /\ \A p \in Procs : pc[p] \in {"enter", "lock", "send", "record"} => todo[p] # <<>>
      /\ cur \in [Procs -> Streams]
  BY SeqTypesOf, TypesOf
<1>2. pending \in Seq(Frames)
  BY <1>1 DEF Frames
<1>3. calls \in Nat
  BY <1>1, BoundsAssumption DEF BoundsAssumption
<1>4. \A s \in Seq(Inputs) : s # <<>> => Head(s) \in Inputs
  OBVIOUS
<1> QED
  BY ONLY <1>1, <1>2, <1>3, <1>4 DEF InputTypes, InputUnderWay, InputSteps

\* Who else is idle stays idle.
LEMMA OthersIdle ==
  ASSUME RolesInv, RolesInv', Serial, NEW p \in Procs, Others(p),
         \A q \in Procs \ {p} : pc[q] = "idle"
  PROVE  /\ \A w \in Writers : pc'[w] # "idle" => w = p
         /\ \A c \in Consumers : pc'[c] \in InputSteps => c = p
BY DEF Others, InputSteps, Procs

\* An input that is not sent in this step.
LEMMA OrderOfUnsent ==
  ASSUME TypeOK, TypeOK', RolesInv, SerialInv, Serial, OrderInv, RolesInv',
         NEW p \in Procs, pc[p] \in InputSteps, Others(p),
         UNCHANGED <<wire, pending, calls, current, cancelled>>,
         cur'[p] = cur[p],
         \/ todo'[p] = todo[p]
         \/ p \in Consumers /\ todo'[p] = Tail(todo[p]) /\ (pc'[p] \in InputSteps => Tail(todo[p]) # <<>>)
         \/ p \in Writers /\ pc'[p] = "idle",
         p \in Writers => pc'[p] \in InputSteps \cup {"record", "idle"}
  PROVE  OrderInv'
<1>1. \A q \in Procs \ {p} : pc[q] = "idle"
  BY OneUnderWay DEF InputSteps
<1>2. /\ \A w \in Writers : pc'[w] # "idle" => w = p
      /\ \A c \in Consumers : pc'[c] \in InputSteps => c = p
  BY <1>1, OthersIdle
<1>3. InputTypes
  BY InputsTyped
<1>4. ~(p \in Consumers /\ p \in Writers)
  BY ProcsAssumption DEF ProcsAssumption
<1>5. /\ (InOrder(pending) /\ Below(pending, calls + 1))'
      /\ (\A i \in Streams : InOrder(wire[i]) /\ Below(wire[i], calls + 1))'
  BY DEF OrderInv, InOrder, Below
<1>6. ASSUME NEW w \in Writers, pc'[w] # "idle" PROVE Fresh(w)'
  <2>1. w = p /\ todo'[p] = todo[p] /\ pc[p] # "idle" /\ pc[p] # "record"
    BY <1>2, <1>4, <1>6 DEF InputSteps
  <2>2. Fresh(w)
    BY <2>1 DEF OrderInv
  <2> QED
    BY <2>1, <2>2 DEF Fresh, Below
<1>7. ASSUME NEW c \in Consumers, pc'[c] \in InputSteps PROVE Replaying(c)'
  <2>1. c = p
    BY <1>2, <1>7
  <2>2. Replaying(p) /\ InOrder(pending)
    BY <2>1 DEF OrderInv
  <2>3. todo[p] \in Seq(Inputs) /\ todo[p] # <<>> /\ pending \in Seq(Inputs)
    BY <1>3 DEF InputTypes, InputUnderWay
  <2>4. CASE todo'[p] = todo[p]
    BY <2>1, <2>2, <2>4 DEF Replaying, EndOf, Below
  <2>5. CASE todo'[p] = Tail(todo[p]) /\ Tail(todo[p]) # <<>>
    <3>1. EndOf(todo[p], pending)
      BY <2>2 DEF Replaying
    <3>2. EndOf(Tail(todo[p]), pending) /\ Head(todo[p]).n < Head(Tail(todo[p])).n
      BY <2>2, <2>3, <2>5, <3>1, EndOfTail
    <3>3. 2 \in Streams /\ wire[2] \in Seq(Frames)
      BY <1>3, TypesOf DEF InputTypes
    <3>4. Head(todo[p]) \in Inputs /\ Head(Tail(todo[p])) \in Inputs
      BY <2>3, <2>5
    <3>5. Below(wire[2], Head(Tail(todo[p])).n)
      <4>1. Below(wire[2], Head(todo[p]).n)
        BY <2>2 DEF Replaying
      <4> QED
        BY <3>2, <3>3, <3>4, <4>1, BelowNext
    <3> QED
      BY ONLY <2>1, <2>2, <2>5, <3>2, <3>5, UNCHANGED <<wire, pending, cancelled>>
         DEF Replaying, EndOf, Below
  <2> QED
    BY <1>4, <1>7, <2>1, <2>4, <2>5 DEF InputSteps
<1> QED
  BY <1>5, <1>6, <1>7 DEF OrderInv

\* The inputs of a stream, and those kept, are in the order of the calls.
LEMMA OrderStep ==
  ASSUME TypeOK, TypeOK', RolesInv, RolesInv', StreamsInv, UntouchedInv, SerialInv, OrderInv,
         [Next]_vars
  PROVE  OrderInv'
<1> SUFFICES ASSUME Serial PROVE OrderInv'
  BY DEF OrderInv
<1>0. /\ InputTypes /\ 2 \in Streams
      /\ \A c \in Consumers : c \in Procs
      /\ \A w \in Writers : w \in Procs
      /\ \A p \in Procs : ~(p \in Consumers /\ p \in Writers)
  BY InputsTyped, TypesOf, ProcsAssumption DEF Procs, ProcsAssumption
<1>1. /\ InOrder(pending) /\ Below(pending, calls + 1)
      /\ \A i \in Streams : InOrder(wire[i]) /\ Below(wire[i], calls + 1)
      /\ \A w \in Writers : pc[w] # "idle" => Fresh(w)
      /\ \A c \in Consumers : pc[c] \in InputSteps => Replaying(c)
  BY DEF OrderInv
<1>2. ASSUME NEW w \in Writers, InputCall(w) PROVE OrderInv'
  <2>1. /\ pc'[w] = "enter" /\ cur'[w] = current /\ calls' = calls + 1
        /\ \E k \in Kinds : todo'[w] = <<[kind |-> k, n |-> calls + 1]>>
        /\ UNCHANGED <<wire, pending, current>> /\ Others(w)
        /\ \A q \in Procs : pc[q] = "idle"
    BY <1>2, InputCallDoes
  <2>2. /\ \A v \in Writers : pc'[v] # "idle" => v = w
        /\ \A c \in Consumers : pc'[c] \in InputSteps => c = w
    BY <1>0, <2>1, OthersIdle
  <2>3. Len(todo'[w]) = 1 /\ Head(todo'[w]).n = calls + 1
    BY <2>1
  <2>4. /\ Below(pending, calls + 2) /\ calls + 2 = calls' + 1
        /\ \A i \in Streams : Below(wire[i], calls + 2)
    <3>1. calls + 1 \in Nat /\ calls + 2 \in Nat /\ calls + 1 <= calls + 2
          /\ calls + 2 = calls' + 1 /\ pending \in Seq(Frames)
          /\ \A i \in Streams : wire[i] \in Seq(Frames)
      BY <1>0, <2>1 DEF InputTypes
    <3> QED
      BY <1>1, <3>1, BelowMore
  <2>5. Fresh(w)'
    BY ONLY <1>1, <2>1, <2>3 DEF Fresh, Below
  <2>6. \A c \in Consumers : pc'[c] \notin InputSteps
    BY <1>0, <2>2
  <2> QED
    BY ONLY <1>1, <2>1, <2>2, <2>4, <2>5, <2>6 DEF OrderInv, InOrder, Below
<1>3. ASSUME NEW w \in Writers, RecordInput(w) PROVE OrderInv'
  <2>1. /\ pc[w] = "record" /\ pc'[w] = "idle" /\ pending' = Append(pending, Head(todo[w]))
        /\ UNCHANGED <<wire, calls>> /\ Others(w)
    BY <1>3, RecordDoes
  <2>2. \A q \in Procs \ {w} : pc[q] = "idle"
    BY <1>0, <2>1, OneUnderWay
  <2>3. /\ \A v \in Writers : pc'[v] = "idle"
        /\ \A c \in Consumers : pc'[c] \notin InputSteps
    BY <1>0, <2>1, <2>2, OthersIdle
  <2>4. /\ Head(todo[w]) \in Inputs /\ Head(todo[w]).n = calls /\ Below(pending, calls)
        /\ pending \in Seq(Frames) /\ calls \in Nat
    BY <1>0, <1>1, <2>1 DEF InputTypes, InputUnderWay, Fresh
  <2>5. InOrder(pending')
    BY <1>1, <2>1, <2>4, AppendInOrder, FrameTypes
  <2>6. Below(pending', calls + 1)
    <3>1. calls + 1 \in Nat /\ Head(todo[w]).n < calls + 1
      BY <2>4
    <3> QED
      BY <1>1, <2>1, <2>4, <3>1, AppendBelow, FrameTypes
  <2> QED
    BY ONLY <1>1, <2>1, <2>3, <2>5, <2>6 DEF OrderInv, InOrder, Below
<1>4. ASSUME NEW p \in Consumers \cup Writers, EnterData(p) \/ EnterCloseStdin(p)
      PROVE  OrderInv'
  <2>1. /\ p \in Procs /\ pc[p] = "enter" /\ Others(p) /\ cur'[p] = cur[p]
        /\ UNCHANGED <<wire, pending, calls, current, cancelled>>
    BY <1>4, EnterLeaves
  <2>2. \/ todo'[p] = todo[p] /\ pc'[p] \in {"lock", "record"} /\ (p \in Consumers => pc'[p] = "lock")
        \/ /\ todo'[p] = Tail(todo[p])
           /\ \/ p \in Writers /\ pc'[p] = "idle"
              \/ p \in Consumers /\ pc'[p] = "again"
              \/ p \in Consumers /\ pc'[p] = "enter" /\ Tail(todo[p]) # <<>>
    BY <1>0, <1>4, <2>1, EnterDoes DEF Ends
  <2> QED
    BY <1>0, <2>1, <2>2, OrderOfUnsent DEF InputSteps
<1>5. ASSUME NEW p \in Procs, LockSend(p), pc[p] = "lock" PROVE OrderInv'
  BY <1>5, LockDoes, OrderOfUnsent DEF InputSteps
<1>6. ASSUME NEW c \in Consumers, SwapStream(c) PROVE OrderInv'
  <2>1. /\ pc[c] = "swap" /\ todo'[c] = pending /\ Others(c)
        /\ IF pending = <<>> THEN pc'[c] = "again" ELSE pc'[c] = "enter"
        /\ UNCHANGED <<wire, pending, calls, cancelled>>
    BY <1>6, SwapDoes
  <2>2. \A q \in Procs \ {c} : pc[q] = "idle"
    BY <1>0, <2>1, OneUnderWay
  <2>3. /\ \A w \in Writers : pc'[w] = "idle"
        /\ \A d \in Consumers : pc'[d] \in InputSteps => d = c
    BY <1>0, <2>1, <2>2, OthersIdle
  <2>4. wire[2] = <<>> /\ ~cancelled[2]
    <3>1. current = 1
      BY <2>1 DEF StreamsInv, RefreshingInv, Refreshing
    <3> QED
      BY <1>0, <3>1 DEF UntouchedInv
  <2>5. Replaying(c)'
    <3>1. Len(pending) \in Nat
      BY <1>0 DEF InputTypes
    <3> QED
      BY <2>1, <2>4, <3>1 DEF Replaying, EndOf, Below
  <2> QED
    BY ONLY <1>1, <2>1, <2>3, <2>5 DEF OrderInv, InOrder, Below
<1>7. CASE Aside
  <2>1. \A i \in Streams : InOrder(wire'[i]) /\ Below(wire'[i], calls + 1)
    <3> SUFFICES ASSUME NEW i \in Streams PROVE InOrder(wire'[i]) /\ Below(wire'[i], calls + 1)
      OBVIOUS
    <3>1. /\ wire[i] \in Seq(Frames) /\ calls + 1 \in Nat /\ 0 < calls + 1
          /\ wire'[i] = wire[i] \/ wire'[i] = Append(wire[i], CancelFrame)
          /\ InOrder(wire[i]) /\ Below(wire[i], calls + 1)
      BY <1>0, <1>1, <1>7 DEF InputTypes, Aside
    <3> QED
      BY <3>1, AppendInOrder, AppendBelow, FrameTypes
  <2>2. UNCHANGED <<pending, calls, current>>
    BY <1>7 DEF Aside
  <2>3. ASSUME NEW w \in Writers, pc'[w] # "idle" PROVE Fresh(w)'
    <3>1. pc'[w] \in InputUnderWay
      BY <2>3 DEF RolesInv, InputUnderWay
    <3>2. /\ UNCHANGED <<pending, calls, current, wire>> /\ pc'[w] = pc[w]
          /\ cur'[w] = cur[w] /\ todo'[w] = todo[w] /\ Fresh(w)
      BY <1>0, <1>1, <1>7, <2>3, <3>1, InputUndisturbed
    <3> QED
      BY ONLY <3>2 DEF Fresh, Below
  <2>4. ASSUME NEW c \in Consumers, pc'[c] \in InputSteps PROVE Replaying(c)'
    <3>1. /\ UNCHANGED <<pending, wire, cancelled>> /\ pc'[c] = pc[c]
          /\ todo'[c] = todo[c] /\ Replaying(c)
      BY <1>0, <1>1, <1>7, <2>4, InputUndisturbed DEF InputUnderWay
    <3> QED
      BY ONLY <3>1 DEF Replaying, Below, EndOf
  <2> QED
    BY ONLY <1>1, <2>1, <2>2, <2>3, <2>4 DEF OrderInv, InOrder, Below
<1>8. ASSUME NEW p \in Consumers \cup Writers, SendData(p) \/ SendCloseStdin(p)
      PROVE  OrderInv'
  <2>1. /\ p \in Procs /\ pc[p] = "send" /\ Others(p) /\ cur'[p] = cur[p] /\ cur[p] \in Streams
        /\ UNCHANGED <<pending, calls, current, cancelled>> /\ Apart(cur[p], wire, wire')
    BY <1>8, SendLeaves
  <2>2. /\ \/ todo'[p] = todo[p] /\ p \in Writers /\ pc'[p] = "record"
           \/ /\ todo'[p] = Tail(todo[p])
              /\ \/ p \in Writers /\ pc'[p] = "idle"
                 \/ p \in Consumers /\ pc'[p] = "again"
                 \/ p \in Consumers /\ pc'[p] = "enter" /\ Tail(todo[p]) # <<>>
        /\ wire'[cur[p]] = wire[cur[p]] \/ wire'[cur[p]] = Append(wire[cur[p]], Head(todo[p]))
    BY <1>0, <1>8, <2>1, SendDoes DEF Ends
  <2>3. \A q \in Procs \ {p} : pc[q] = "idle"
    BY <2>1, OneUnderWay
  <2>4. /\ \A w \in Writers : pc'[w] # "idle" => w = p
        /\ \A c \in Consumers : pc'[c] \in InputSteps => c = p
    BY <2>1, <2>3, OthersIdle
  <2>5. /\ Head(todo[p]) \in Inputs /\ todo[p] # <<>> /\ todo[p] \in Seq(Inputs)
        /\ pending \in Seq(Inputs) /\ calls + 1 \in Nat /\ calls \in Nat
        /\ \A i \in Streams : wire[i] \in Seq(Frames)
    BY <1>0, <2>1 DEF InputTypes, InputUnderWay, InputSteps
  <2>6. Below(wire[cur[p]], Head(todo[p]).n) /\ Head(todo[p]).n < calls + 1
    <3>1. CASE p \in Writers
      BY <1>1, <2>1, <2>5, <3>1 DEF Fresh
    <3>2. CASE p \in Consumers
      <4>1. cur[p] = 2 /\ Replaying(p)
        BY <1>1, <2>1, <3>2 DEF StreamsInv, RefreshingInv, InputSteps
      <4>2. Head(todo[p]) = pending[Len(pending) - Len(todo[p]) + 1]
            /\ Len(pending) - Len(todo[p]) + 1 \in 1 .. Len(pending)
        BY <1>1, <2>5, <4>1, EndOfTail DEF Replaying
      <4> QED
        BY ONLY <1>1, <4>1, <4>2 DEF Replaying, Below
    <3> QED
      BY <3>1, <3>2
  <2>7. \A i \in Streams : InOrder(wire'[i]) /\ Below(wire'[i], calls + 1)
    <3> SUFFICES ASSUME NEW i \in Streams PROVE InOrder(wire'[i]) /\ Below(wire'[i], calls + 1)
      OBVIOUS
    <3>1. /\ wire[i] \in Seq(Frames) /\ InOrder(wire[i]) /\ Below(wire[i], calls + 1)
          /\ \/ wire'[i] = wire[i]
             \/ i = cur[p] /\ wire'[i] = Append(wire[i], Head(todo[p]))
      BY <1>1, <2>1, <2>2, <2>5 DEF Apart
    <3> QED
      BY <2>5, <2>6, <3>1, AppendInOrder, AppendBelow, FrameTypes
  <2>8. ASSUME NEW w \in Writers, pc'[w] # "idle" PROVE Fresh(w)'
    <3>1. w = p /\ todo'[p] = todo[p] /\ pc'[p] = "record" /\ Fresh(p)
      BY <1>0, <1>1, <2>1, <2>2, <2>4, <2>8
    <3> QED
      BY ONLY <2>1, <3>1 DEF Fresh, Below
  <2>9. ASSUME NEW c \in Consumers, pc'[c] \in InputSteps PROVE Replaying(c)'
    <3>1. /\ c = p /\ todo'[p] = Tail(todo[p]) /\ Tail(todo[p]) # <<>> /\ Replaying(p)
          /\ cur[p] = 2
      BY <1>0, <1>1, <2>1, <2>2, <2>4, <2>9 DEF InputSteps, StreamsInv, RefreshingInv
    <3>2. /\ EndOf(Tail(todo[p]), pending)
          /\ Head(todo[p]).n < Head(Tail(todo[p])).n
      BY <1>1, <2>5, <3>1, EndOfTail DEF Replaying
    <3>3. Head(Tail(todo[p])) \in Inputs
      BY <2>5, <3>1
    <3>4. Below(wire[2], Head(Tail(todo[p])).n)
      <4>1. Below(wire[2], Head(todo[p]).n) /\ wire[2] \in Seq(Frames)
        BY <1>0, <2>5, <3>1 DEF Replaying
      <4> QED
        BY <2>5, <3>2, <3>3, <4>1, BelowNext
    <3>5. Below(wire'[2], Head(Tail(todo[p])).n)
      BY <1>0, <2>2, <2>5, <3>1, <3>2, <3>3, <3>4, AppendBelow, FrameTypes
    <3> QED
      BY ONLY <2>1, <3>1, <3>2, <3>5 DEF Replaying, EndOf, Below
  <2> QED
    BY ONLY <1>1, <2>1, <2>7, <2>8, <2>9 DEF OrderInv, InOrder, Below
<1> QED
  BY <1>2, <1>3, <1>4, <1>5, <1>6, <1>7, <1>8, InputOrAside

\* Appending an input to those kept.
LEMMA KeptMore ==
  ASSUME pending \in Seq(Inputs), NEW x \in Inputs, pending' = Append(pending, x)
  PROVE  /\ \A f : Kept(f) => Kept(f)'
         /\ NoCloseKept => Kept(x)'
         /\ NoCloseKept /\ x.kind # "closeStdin" => NoCloseKept'
<1>1. /\ Len(pending) \in Nat /\ Len(pending') = Len(pending) + 1
      /\ pending'[Len(pending) + 1] = x
      /\ \A j \in 1 .. Len(pending) : pending'[j] = pending[j]
  OBVIOUS
<1>2. ASSUME NEW f, Kept(f) PROVE Kept(f)'
  BY ONLY <1>1, <1>2 DEF Kept, FirstClose
<1>3. ASSUME NoCloseKept PROVE Kept(x)'
  BY ONLY <1>1, <1>3 DEF Kept, FirstClose, NoCloseKept
<1>4. ASSUME NoCloseKept, x.kind # "closeStdin" PROVE NoCloseKept'
  BY ONLY <1>1, <1>4 DEF NoCloseKept
<1> QED
  BY <1>2, <1>3, <1>4

\* What a session that is not refreshed is, and one that is.
LEMMA FirstStream ==
  ASSUME SessionInv
  PROVE  /\ ~refreshed => /\ current = 1 /\ opened = 1
                          /\ \A p \in Procs : cur[p] = 1
         /\ refreshed => over[1]
         /\ 1 \in Streams /\ 2 \in Streams
<1>1. /\ opened \in {1, 2} /\ current \in 1 .. opened /\ (opened = 2 => refreshed)
      /\ refreshed => over[1]
  BY DEF SessionInv, StreamsInv, CurrentInv, RefusedInv, RefusedFirst
<1>2. ~refreshed => \A p \in Procs : cur[p] = 1
  BY DEF SessionInv, RefreshInv, OneStream
<1>3. 1 \in Streams /\ 2 \in Streams
  BY TypesOf DEF SessionInv
<1> QED
  BY ONLY <1>1, <1>2, <1>3

\* One more frame on the first stream.
LEMMA AllKeptMore ==
  ASSUME wire[1] \in Seq(Frames), NEW f \in Frames, AllKept,
         wire'[1] = wire[1] \/ wire'[1] = Append(wire[1], f),
         \A g : Kept(g) => Kept(g)',
         \A g \in Inputs : \A w \in Writers : pc[w] = "record" /\ Head(todo[w]) = g /\ OnWire(1, g) =>
           Kept(g)' \/ \E v \in Writers : pc'[v] = "record" /\ Head(todo'[v]) = g,
         wire'[1] # wire[1] /\ f \in Inputs =>
           Kept(f)' \/ \E v \in Writers : pc'[v] = "record" /\ Head(todo'[v]) = f
  PROVE  AllKept'
<1> SUFFICES ASSUME NEW j \in 1 .. Len(wire'[1]), wire'[1][j] \in Inputs
             PROVE  \/ Kept(wire[1][j])'
                    \/ \E w \in Writers : pc'[w] = "record" /\ Head(todo'[w]) = wire'[1][j]
  BY DEF AllKept
<1>1. /\ Len(wire[1]) \in Nat
      /\ Len(Append(wire[1], f)) = Len(wire[1]) + 1 /\ Append(wire[1], f)[Len(wire[1]) + 1] = f
      /\ \A k \in 1 .. Len(wire[1]) : Append(wire[1], f)[k] = wire[1][k]
  OBVIOUS
<1>2. \/ j \in 1 .. Len(wire[1]) /\ wire'[1][j] = wire[1][j]
      \/ wire'[1] # wire[1] /\ wire'[1][j] = f
  BY ONLY <1>1, j \in 1 .. Len(wire'[1]),
     wire'[1] = wire[1] \/ wire'[1] = Append(wire[1], f)
<1>3. PICK g \in Inputs : g = wire'[1][j]
  OBVIOUS
<1>4. Kept(g)' \/ \E w \in Writers : pc'[w] = "record" /\ Head(todo'[w]) = g
  <2>1. CASE j \in 1 .. Len(wire[1]) /\ wire'[1][j] = wire[1][j]
    <3>1. Kept(wire[1][j]) \/ \E w \in Writers : pc[w] = "record" /\ Head(todo[w]) = wire[1][j]
      BY <1>3, <2>1 DEF AllKept
    <3>2. wire[1][j] = g /\ OnWire(1, g)
      BY <1>3, <2>1 DEF OnWire
    <3> QED
      BY <3>1, <3>2
  <2>2. CASE wire'[1] # wire[1] /\ wire'[1][j] = f
    BY <1>3, <2>2
  <2> QED
    BY <1>2, <2>1, <2>2
<1> QED
  BY ONLY <1>3, <1>4 DEF Kept

\* What a refresh will replay.
LEMMA KeepStep ==
  ASSUME SessionInv, SessionInv', SendingInv, OrderInv, KeepInv, [Next]_vars
  PROVE  KeepInv'
<1> SUFFICES ASSUME Serial PROVE KeepInv'
  BY DEF KeepInv
<1> DEFINE KeepOf(w) == (keep[w] <=> MayRefresh) /\ (pc[w] = "record" => keep[w])
           NotYet == stdinClosed[1] \/ NoCloseKept
<1>0. /\ TypeOK /\ SerialInv /\ RolesInv /\ RolesInv' /\ InputTypes /\ Stays
      /\ \A c \in Consumers : c \in Procs
      /\ \A w \in Writers : w \in Procs
      /\ \A p \in Procs : ~(p \in Consumers /\ p \in Writers)
  BY InputsTyped, NothingBack, ProcsAssumption DEF SessionInv, Procs, ProcsAssumption
<1>1. /\ \A w \in Writers : pc[w] # "idle" => KeepOf(w)
      /\ ~refreshed => NotYet /\ \A w \in Writers : Accepting(w)
      /\ refreshed \/ ~responsesStarted => AllKept
  BY DEF KeepInv
<1>2. /\ ~refreshed => current = 1 /\ opened = 1 /\ \A p \in Procs : cur[p] = 1
      /\ refreshed => over[1]
      /\ 1 \in Streams /\ 2 \in Streams /\ wire[1] \in Seq(Frames)
  BY <1>0, FirstStream DEF InputTypes
<1> HIDE DEF KeepOf, NotYet
<1>3. ASSUME \A w \in Writers : pc'[w] # "idle" => KeepOf(w)',
             ~refreshed' => NotYet' /\ \A w \in Writers : Accepting(w)',
             refreshed' \/ ~responsesStarted' => AllKept'
      PROVE  KeepInv'
  BY <1>3 DEF KeepInv, KeepOf, NotYet
<1>4. ASSUME UNCHANGED <<wire, pending>>,
             \A w \in Writers : pc[w] # "record" \/ (pc'[w] = "record" /\ todo'[w] = todo[w])
      PROVE  AllKept => AllKept'
  <2>1. \A f : Kept(f) => Kept(f)'
    BY <1>4 DEF Kept, FirstClose
  <2> QED
    BY <1>2, <1>4, <2>1, AllKeptMore, FrameTypes
<1>5. ASSUME UNCHANGED pending PROVE NotYet => NotYet'
  BY <1>0, <1>2, <1>5 DEF NotYet, NoCloseKept, Stays
<1>6. ASSUME NEW w \in Writers, InputCall(w) PROVE KeepInv'
  <2>1. /\ pc'[w] = "enter" /\ keep'[w] = MayRefresh
        /\ UNCHANGED <<wire, pending, refreshed, responsesStarted>> /\ Others(w)
        /\ \A q \in Procs : pc[q] = "idle"
    BY <1>0, <1>6, InputCallDoes
  <2>2. \A v \in Writers : pc'[v] # "idle" => v = w
    BY <1>0, <2>1, OthersIdle
  <2>3. \A v \in Writers : pc'[v] # "idle" => KeepOf(v)'
    BY ONLY <2>1, <2>2 DEF KeepOf, MayRefresh
  <2>4. \A v \in Writers : Accepting(v)'
    BY ONLY <2>1, <2>2 DEF Accepting
  <2> QED
    BY <1>0, <1>1, <1>3, <1>4, <1>5, <2>1, <2>3, <2>4
<1>7. ASSUME NEW w \in Writers, RecordInput(w) PROVE KeepInv'
  <2>1. /\ pc[w] = "record" /\ pc'[w] = "idle" /\ pending' = Append(pending, Head(todo[w]))
        /\ UNCHANGED <<wire, refreshed, responsesStarted, stdinClosed>> /\ Others(w)
    BY <1>0, <1>7, RecordDoes
  <2>2. \A q \in Procs \ {w} : pc[q] = "idle"
    BY <1>0, <2>1, OneUnderWay
  <2>3. \A v \in Writers : pc'[v] = "idle"
    BY <1>0, <2>1, <2>2, OthersIdle
  <2>4. /\ ~refreshed /\ ~responsesStarted /\ Accepting(w)
        /\ Head(todo[w]) \in Inputs /\ pending \in Seq(Inputs)
    BY <1>0, <1>1, <2>1 DEF KeepOf, MayRefresh, InputTypes, InputUnderWay
  <2>5. /\ \A f : Kept(f) => Kept(f)'
        /\ NoCloseKept /\ Head(todo[w]).kind # "closeStdin" => NoCloseKept'
    BY <2>1, <2>4, KeptMore
  <2>6. PICK x \in Inputs : x = Head(todo[w])
    BY <2>4
  <2>7. NoCloseKept => Kept(x)'
    BY <2>1, <2>4, <2>6, KeptMore
  <2>8. NotYet'
    BY ONLY <1>1, <2>1, <2>4, <2>5 DEF NotYet, Accepting
  <2>9. \A v \in Writers : Accepting(v)'
    BY ONLY <2>3 DEF Accepting
  <2>10. AllKept'
    <3>1. \A g \in Inputs : \A v \in Writers :
            pc[v] = "record" /\ Head(todo[v]) = g /\ OnWire(1, g) => Kept(g)'
      BY <1>0, <2>1, <2>2, <2>4, <2>6, <2>7 DEF Accepting
    <3> QED
      BY <1>1, <1>2, <2>1, <2>4, <2>5, <3>1, AllKeptMore, FrameTypes
  <2> QED
    BY <1>3, <2>3, <2>8, <2>9, <2>10
<1>8. ASSUME NEW p \in Procs, pc[p] = "lock", LockSend(p) PROVE KeepInv'
  <2>1. /\ pc'[p] = "send" /\ todo'[p] = todo[p] /\ keep'[p] = keep[p] /\ Others(p)
        /\ UNCHANGED <<wire, pending, refreshed, responsesStarted, stdinClosed>>
    BY <1>0, <1>8, LockDoes
  <2>2. \A q \in Procs \ {p} : pc[q] = "idle"
    BY <1>0, <1>8, OneUnderWay
  <2>3. \A v \in Writers : pc'[v] # "idle" => v = p
    BY <1>0, <2>1, <2>2, OthersIdle
  <2>4. \A v \in Writers : pc'[v] # "idle" => KeepOf(v)'
    BY ONLY <1>1, <1>8, <2>1, <2>3 DEF KeepOf, MayRefresh
  <2>5. ~refreshed => \A v \in Writers : Accepting(v)'
    BY ONLY <1>1, <1>8, <2>1, <2>3 DEF Accepting, NoCloseKept
  <2> QED
    BY <1>0, <1>1, <1>3, <1>4, <1>5, <1>8, <2>1, <2>2, <2>4, <2>5
<1>9. ASSUME NEW c \in Consumers, SwapStream(c) PROVE KeepInv'
  <2>1. /\ pc[c] = "swap" /\ Others(c)
        /\ UNCHANGED <<wire, pending, refreshed, responsesStarted>>
    BY <1>0, <1>9, SwapDoes
  <2>2. \A q \in Procs \ {c} : pc[q] = "idle"
    BY <1>0, <2>1, OneUnderWay
  <2>3. \A v \in Writers : pc'[v] = "idle" /\ pc[v] = "idle"
    BY <1>0, <2>1, <2>2, OthersIdle
  <2>4. \A v \in Writers : Accepting(v)'
    BY ONLY <2>3 DEF Accepting
  <2> QED
    BY <1>0, <1>1, <1>3, <1>4, <1>5, <2>1, <2>3, <2>4
<1>10. CASE Aside
  <2>1. CASE \E v \in Writers : pc'[v] # "idle"
    <3>1. PICK v \in Writers : pc'[v] # "idle"
      BY <2>1
    <3>2. pc'[v] \in InputUnderWay
      BY <1>0, <3>1 DEF RolesInv, InputUnderWay
    <3>3. /\ UNCHANGED <<pending, wire, refreshed, responsesStarted, stdinClosed>>
          /\ pc[v] # "idle" /\ pc'[v] = pc[v] /\ todo'[v] = todo[v] /\ keep'[v] = keep[v]
      BY <1>0, <1>10, <3>1, <3>2, InputUndisturbed
    <3>4. \A u \in Writers : u # v => pc[u] = "idle" /\ pc'[u] = "idle"
      <4>1. \A q \in Procs \ {v} : pc[q] = "idle"
        BY <1>0, <3>3, OneUnderWay
      <4>2. \A u \in Writers : pc'[u] # "idle" => pc'[u] \in InputUnderWay
        BY <1>0 DEF RolesInv, InputUnderWay
      <4> QED
        BY <1>0, <1>10, <4>1, <4>2 DEF Aside
    <3>5. \A u \in Writers : pc'[u] # "idle" => KeepOf(u)'
      BY ONLY <1>1, <3>3, <3>4 DEF KeepOf, MayRefresh
    <3>6. ~refreshed => \A u \in Writers : Accepting(u)'
      BY ONLY <1>1, <3>3, <3>4 DEF Accepting, NoCloseKept, OnWire
    <3>7. \A u \in Writers : pc[u] # "record" \/ (pc'[u] = "record" /\ todo'[u] = todo[u])
      BY <3>3, <3>4
    <3> QED
      BY <1>0, <1>1, <1>3, <1>4, <1>5, <3>3, <3>5, <3>6, <3>7
  <2>2. CASE \A v \in Writers : pc'[v] = "idle"
    <3>1. \A v \in Writers : Accepting(v)'
      BY <2>2 DEF Accepting
    <3>2. UNCHANGED pending /\ (refreshed => refreshed') /\ (responsesStarted => responsesStarted')
      BY <1>0, <1>10 DEF Aside, Stays
    <3>3. refreshed' \/ ~responsesStarted' => refreshed \/ ~responsesStarted
      <4>1. ASSUME NEW c \in Consumers, CommitRefresh(c) PROVE ~responsesStarted
        <5>1. MarkInv
          BY DEF SessionInv, RerunInv, OneConsumer
        <5> QED
          BY <4>1, <5>1 DEF CommitRefresh, MarkInv
      <4>2. (\A c \in Consumers : ~CommitRefresh(c)) => refreshed' = refreshed
        BY <1>0, RefreshedByCommit
      <4> QED
        BY <3>2, <4>1, <4>2
    <3>4. AllKept => AllKept'
      <4>1. \A f : Kept(f) => Kept(f)'
        BY <3>2 DEF Kept, FirstClose
      <4>2. wire'[1] = wire[1] \/ wire'[1] = Append(wire[1], CancelFrame)
        BY <1>2, <1>10 DEF Aside
      <4>3. \A v \in Writers : pc[v] # "record"
        BY <1>0, <1>10, <2>2 DEF Aside, InputUnderWay
      <4> QED
        BY <1>2, <4>1, <4>2, <4>3, AllKeptMore, FrameTypes
    <3> QED
      BY <1>1, <1>3, <1>5, <2>2, <3>1, <3>2, <3>3, <3>4
  <2> QED
    BY <2>1, <2>2
<1>11. ASSUME NEW p \in Consumers \cup Writers, EnterData(p) \/ EnterCloseStdin(p)
       PROVE  KeepInv'
  <2>1. /\ p \in Procs /\ pc[p] = "enter" /\ Others(p)
        /\ UNCHANGED <<wire, pending, refreshed, responsesStarted>>
    BY <1>0, <1>11, EnterLeaves
  <2>2. /\ keep'[p] = keep[p] /\ Apart(cur[p], stdinClosed, stdinClosed')
        /\ p \in Writers =>
             \/ pc'[p] = "lock" /\ ~stdinClosed[cur[p]]
             \/ pc'[p] = "idle"
             \/ /\ pc'[p] = "record" /\ todo'[p] = todo[p] /\ keep[p] /\ stdinClosed[cur[p]]
                /\ Head(todo[p]).kind = "closeStdin" /\ stdinClosed'[cur[p]]
    BY <1>0, <1>11, EnterDoes DEF Ends, Apart
  <2>3. \A q \in Procs \ {p} : pc[q] = "idle"
    BY <1>0, <2>1, OneUnderWay
  <2>4. \A v \in Writers : pc'[v] # "idle" => v = p
    BY <1>0, <2>1, <2>3, OthersIdle
  <2>5. \A v \in Writers : pc'[v] # "idle" => KeepOf(v)'
    BY ONLY <1>1, <2>1, <2>2, <2>4 DEF KeepOf, MayRefresh
  <2>6. ASSUME ~refreshed, NEW v \in Writers PROVE Accepting(v)'
    <3>1. CASE v = p /\ pc'[p] = "lock"
      BY ONLY <1>1, <1>2, <2>1, <2>2, <2>6, <3>1, <1>0 DEF Accepting, NotYet, NoCloseKept
    <3>2. CASE v = p /\ pc'[p] = "record"
      <4>1. Fresh(p)
        BY <2>1, <2>6, <3>2 DEF OrderInv
      <4>2. Head(todo[p]).n = calls /\ Below(wire[1], calls) /\ calls \in Nat
        BY <1>0, <1>2, <2>1, <4>1 DEF Fresh, InputTypes
      <4>3. ~OnWire(1, Head(todo[p]))
        BY ONLY <4>2 DEF OnWire, Below
      <4> QED
        BY ONLY <1>0, <1>2, <2>1, <2>2, <2>6, <3>2, <4>3 DEF Accepting, OnWire
    <3>3. CASE pc'[v] = "idle"
      BY <3>3 DEF Accepting
    <3> QED
      BY <2>2, <2>4, <2>6, <3>1, <3>2, <3>3
  <2>7. \A v \in Writers : pc[v] # "record"
    BY <2>1, <2>3, <1>0
  <2> QED
    BY <1>1, <1>3, <1>4, <1>5, <2>1, <2>5, <2>6, <2>7
<1>12. ASSUME NEW p \in Consumers \cup Writers, SendData(p) \/ SendCloseStdin(p)
       PROVE  KeepInv'
  <2>1. /\ p \in Procs /\ pc[p] = "send" /\ Others(p) /\ cur[p] \in Streams
        /\ UNCHANGED <<pending, refreshed, responsesStarted, stdinClosed>>
        /\ Apart(cur[p], wire, wire')
    BY <1>0, <1>12, SendLeaves
  <2>2. /\ keep'[p] = keep[p]
        /\ p \in Writers =>
             \/ pc'[p] = "record" /\ todo'[p] = todo[p] /\ keep[p]
             \/ pc'[p] = "idle" /\ (~keep[p] \/ UNCHANGED wire)
        /\ UNCHANGED wire \/ (~over[cur[p]] /\ wire'[cur[p]] = Append(wire[cur[p]], Head(todo[p])))
    BY <1>0, <1>12, SendDoes DEF Ends
  <2>3. \A q \in Procs \ {p} : pc[q] = "idle"
    BY <1>0, <2>1, OneUnderWay
  <2>4. \A v \in Writers : pc'[v] # "idle" => v = p
    BY <1>0, <2>1, <2>3, OthersIdle
  <2>5. \A v \in Writers : pc'[v] # "idle" => KeepOf(v)'
    BY ONLY <1>1, <2>1, <2>2, <2>4 DEF KeepOf, MayRefresh
  <2>6. ASSUME ~refreshed, NEW v \in Writers PROVE Accepting(v)'
    <3>1. CASE v = p /\ pc'[p] = "record"
      <4>1. Head(todo[p]).kind = "closeStdin" => stdinClosed[cur[p]]
        BY <2>1 DEF SessionInv, ClosingStdin
      <4>2. cur[p] = 1 /\ Accepting(p)
        BY <1>1, <1>2, <2>1, <2>6, <3>1
      <4> QED
        BY ONLY <2>1, <2>2, <2>6, <3>1, <4>1, <4>2 DEF Accepting, NoCloseKept
    <3>2. CASE pc'[v] = "idle"
      BY <3>2 DEF Accepting
    <3> QED
      BY <2>2, <2>4, <2>6, <3>1, <3>2
  <2>7. AllKept /\ (refreshed \/ ~responsesStarted) => AllKept'
    <3>1. \A f : Kept(f) => Kept(f)'
      BY <2>1 DEF Kept, FirstClose
    <3>2. \A v \in Writers : pc[v] # "record"
      BY <1>0, <2>1, <2>3
    <3>3. Head(todo[p]) \in Frames
      BY <1>0, <2>1, FrameTypes DEF InputTypes, InputUnderWay, InputSteps
    <3>4. wire'[1] = wire[1] \/ wire'[1] = Append(wire[1], Head(todo[p]))
      BY <1>2, <2>1, <2>2 DEF Apart
    <3>5. ASSUME wire'[1] # wire[1], refreshed \/ ~responsesStarted
          PROVE  p \in Writers /\ pc'[p] = "record" /\ Head(todo'[p]) = Head(todo[p])
      <4>1. cur[p] = 1 /\ ~over[1]
        BY <1>2, <2>1, <2>2, <3>5 DEF Apart
      <4>2. ~refreshed
        BY <1>2, <4>1
      <4>3. p \in Writers
        BY <2>1, <4>1 DEF SessionInv, StreamsInv, RefreshingInv, InputSteps
      <4> QED
        BY <1>1, <2>1, <2>2, <3>5, <4>2, <4>3 DEF KeepOf, MayRefresh
    <3> QED
      BY <1>2, <3>1, <3>2, <3>3, <3>4, <3>5, AllKeptMore
  <2> QED
    BY <1>1, <1>3, <1>5, <2>1, <2>5, <2>6, <2>7
<1> QED
  BY <1>0, <1>6, <1>7, <1>8, <1>9, <1>10, <1>11, <1>12, InputOrAside

\* What has been replayed stays so.
LEMMA ReplayedStays ==
  ASSUME Stays, guest[2] \in {"running", "ended"}, pending' = pending, 2 \in Streams,
         NEW f, wire[2] \in Seq(Frames), f \in Frames,
         wire'[2] = wire[2] \/ wire'[2] = Append(wire[2], f)
  PROVE  /\ \A n : Replayed(n) => Replayed(n)'
         /\ \A g : OnWire(2, g) => OnWire(2, g)'
         /\ wire'[2] = Append(wire[2], f) => OnWire(2, f)'
<1>1. /\ Len(wire[2]) \in Nat
      /\ Len(Append(wire[2], f)) = Len(wire[2]) + 1 /\ Append(wire[2], f)[Len(wire[2]) + 1] = f
      /\ \A k \in 1 .. Len(wire[2]) : Append(wire[2], f)[k] = wire[2][k]
  OBVIOUS
<1>2. ASSUME NEW g, OnWire(2, g) PROVE OnWire(2, g)'
  <2>1. PICK j \in 1 .. Len(wire[2]) : wire[2][j] = g
    BY <1>2 DEF OnWire
  <2>2. j \in 1 .. Len(wire'[2]) /\ wire'[2][j] = g
    BY ONLY <1>1, <2>1, wire'[2] = wire[2] \/ wire'[2] = Append(wire[2], f)
  <2> QED
    BY <2>2 DEF OnWire
<1>3. wire'[2] = Append(wire[2], f) => OnWire(2, f)'
  BY ONLY <1>1 DEF OnWire
<1>4. ~over'[2] /\ guest'[2] = "running" => ~over[2] /\ guest[2] = "running"
  BY DEF Stays
<1>5. ASSUME NEW n, Replayed(n) PROVE Replayed(n)'
  <2> SUFFICES ASSUME ~over'[2] /\ guest'[2] = "running", NEW j \in 1 .. n, FirstClose(j)'
               PROVE  OnWire(2, pending[j])'
    BY DEF Replayed
  <2>1. FirstClose(j)
    BY pending' = pending DEF FirstClose
  <2>2. PICK g : g = pending[j]
    OBVIOUS
  <2>3. OnWire(2, g)
    BY <1>4, <1>5, <2>1, <2>2 DEF Replayed
  <2>4. OnWire(2, g)'
    BY <1>2, <2>3
  <2> QED
    BY ONLY <2>2, <2>4, pending' = pending DEF OnWire
<1> QED
  BY <1>2, <1>3, <1>5

\* One more input of the replay is done with.
LEMMA ReplayedNext ==
  ASSUME NEW n \in Nat, Replayed(n)', pending' = pending,
         NEW f, f = pending[n + 1],
         ~over'[2] /\ guest'[2] = "running" /\ FirstClose(n + 1) => OnWire(2, f)'
  PROVE  Replayed(n + 1)'
<1> SUFFICES ASSUME ~over'[2] /\ guest'[2] = "running", NEW j \in 1 .. n + 1, FirstClose(j)'
             PROVE  OnWire(2, pending[j])'
  BY DEF Replayed
<1>1. CASE j = n + 1
  BY <1>1 DEF OnWire, FirstClose
<1>2. CASE j \in 1 .. n
  BY <1>2 DEF Replayed
<1> QED
  BY <1>1, <1>2

\* What is left of a replay when an input of it is done with.
LEMMA OneLessLeft ==
  ASSUME NEW s \in Seq(Inputs), NEW t \in Seq(Inputs), EndOf(t, s), t # <<>>
  PROVE  \E n \in Nat : /\ Len(s) - Len(t) = n /\ Len(s) - Len(Tail(t)) = n + 1
                        /\ Tail(t) = <<>> => Len(s) = n + 1
                        /\ n + 1 \in 1 .. Len(s) /\ Head(t) = s[n + 1]
<1>1. /\ Len(s) \in Nat /\ Len(t) \in Nat /\ Len(t) > 0 /\ Len(Tail(t)) = Len(t) - 1
      /\ Head(t) = t[1] /\ Len(<<>>) = 0
  OBVIOUS
<1>2. Len(t) <= Len(s) /\ t[1] = s[Len(s) - Len(t) + 1]
  BY <1>1 DEF EndOf
<1>3. Tail(t) = <<>> => Len(t) = 1
  <2>1. Tail(t) = <<>> => Len(Tail(t)) = 0
    BY <1>1, Zenon
  <2> QED
    BY <1>1, <2>1
<1>4. Len(s) - Len(t) \in Nat
  BY ONLY <1>1, <1>2
<1>5. Len(s) - Len(Tail(t)) = Len(s) - Len(t) + 1
  BY <1>1
<1>6. Tail(t) = <<>> => Len(s) = Len(s) - Len(t) + 1
  <2>1. Len(t) = 1 => Len(s) = Len(s) - Len(t) + 1
    BY <1>1
  <2> QED
    BY <1>3, <2>1, Zenon
<1>7. Len(s) - Len(t) + 1 \in 1 .. Len(s)
  BY <1>1, <1>2
<1> WITNESS Len(s) - Len(t) \in Nat
<1> QED
  BY <1>1, <1>2, <1>5, <1>6, <1>7

\* A second stream that still runs gets what the first one accepted.
LEMMA ReplayStep ==
  ASSUME SessionInv, SessionInv', SendingInv, OrderInv, KeepInv, ReplayInv, [Next]_vars
  PROVE  ReplayInv'
<1> SUFFICES ASSUME Serial, current' = 2 PROVE ReplayInv'
  BY DEF ReplayInv
<1> DEFINE Done(c) == Len(pending) - Len(todo[c])
           ClosedBefore(c) == \E k \in 1 .. Done(c) : pending[k].kind = "closeStdin"
           Replays(c) == Replayed(Done(c)) /\ (pc[c] = "enter" /\ stdinClosed[2] => ClosedBefore(c))
<1>0. /\ TypeOK /\ SerialInv /\ RolesInv /\ RolesInv' /\ InputTypes /\ Stays
      /\ \A c \in Consumers : c \in Procs
      /\ \A w \in Writers : w \in Procs
      /\ \A p \in Procs : ~(p \in Consumers /\ p \in Writers)
      /\ 2 \in Streams /\ guest[2] \in {"running", "ended"} /\ wire[2] \in Seq(Frames)
      /\ Len(pending) \in Nat
  BY InputsTyped, NothingBack, ProcsAssumption, TypesOf
     DEF SessionInv, Procs, ProcsAssumption, InputTypes
<1>1. current = 2 =>
        /\ \A c \in Consumers : pc[c] \in InputSteps => Replays(c)
        /\ (\A c \in Consumers : pc[c] \notin InputSteps) => Replayed(Len(pending))
  BY DEF ReplayInv
<1>2. ASSUME \A c \in Consumers : pc'[c] \in InputSteps => Replays(c)',
             (\A c \in Consumers : pc'[c] \notin InputSteps) => Replayed(Len(pending))'
      PROVE  ReplayInv'
  BY <1>2 DEF ReplayInv
<1>3. ASSUME pending' = pending, wire'[2] = wire[2] PROVE \A n : Replayed(n) => Replayed(n)'
  BY <1>0, <1>3, ReplayedStays, FrameTypes
<1>4. ASSUME NEW p \in Procs, Others(p), pc[p] # "idle", pending' = pending,
             p \in Writers
      PROVE  \A c \in Consumers : pc[c] \notin InputSteps /\ pc'[c] \notin InputSteps
  <2>1. \A q \in Procs \ {p} : pc[q] = "idle"
    BY <1>0, <1>4, OneUnderWay
  <2> QED
    BY <1>0, <1>4, <2>1, OthersIdle DEF InputSteps
<1> HIDE DEF Replays
<1>5. ASSUME NEW w \in Writers, InputCall(w) PROVE ReplayInv'
  <2>1. /\ UNCHANGED <<wire, pending, current>> /\ Others(w)
        /\ \A q \in Procs : pc[q] = "idle"
    BY <1>0, <1>5, InputCallDoes
  <2>2. \A c \in Consumers : pc[c] \notin InputSteps /\ pc'[c] \notin InputSteps
    BY <1>0, <2>1, OthersIdle DEF InputSteps
  <2> QED
    BY <1>1, <1>2, <1>3, <2>1, <2>2
<1>6. ASSUME NEW w \in Writers, RecordInput(w) PROVE FALSE
  <2>1. pc[w] = "record" /\ current = 2
    BY <1>0, <1>6, RecordDoes
  <2>2. ~refreshed
    BY <2>1 DEF KeepInv, MayRefresh
  <2> QED
    BY <2>1, <2>2, FirstStream
<1>7. ASSUME NEW p \in Procs, pc[p] = "lock", LockSend(p) PROVE ReplayInv'
  <2>1. /\ pc'[p] = "send" /\ todo'[p] = todo[p] /\ Others(p)
        /\ UNCHANGED <<wire, pending, current>>
    BY <1>0, <1>7, LockDoes
  <2>2. \A q \in Procs \ {p} : pc[q] = "idle"
    BY <1>0, <1>7, OneUnderWay
  <2>3. \A c \in Consumers : pc'[c] \in InputSteps => c = p
    BY <1>0, <2>1, <2>2, OthersIdle
  <2>4. ASSUME NEW c \in Consumers, pc[c] \in InputSteps PROVE pc'[c] \in InputSteps
    <3>1. c = p
      BY <1>0, <2>2, <2>4 DEF InputSteps
    <3> QED
      BY <2>1, <3>1 DEF InputSteps
  <2>5. ASSUME p \in Consumers PROVE Replays(p)'
    BY <1>0, <1>1, <1>3, <1>7, <2>1, <2>5 DEF Replays, InputSteps
  <2> QED
    BY <1>1, <1>2, <1>3, <2>1, <2>3, <2>4, <2>5
<1>8. ASSUME NEW c \in Consumers, SwapStream(c) PROVE ReplayInv'
  <2>1. /\ pc[c] = "swap" /\ todo'[c] = pending /\ Others(c)
        /\ IF pending = <<>> THEN pc'[c] = "again" ELSE pc'[c] = "enter"
        /\ UNCHANGED <<wire, pending, stdinClosed>>
    BY <1>0, <1>8, SwapDoes
  <2>2. \A q \in Procs \ {c} : pc[q] = "idle"
    BY <1>0, <2>1, OneUnderWay
  <2>3. \A d \in Consumers : pc'[d] \in InputSteps => d = c
    BY <1>0, <2>1, <2>2, OthersIdle
  <2>4. ~stdinClosed'[2]
    <3>1. current = 1
      BY <2>1 DEF SessionInv, StreamsInv, RefreshingInv, Refreshing
    <3> QED
      BY <1>0, <2>1, <3>1 DEF SessionInv, UntouchedInv
  <2>5. Replayed(0)'
    BY DEF Replayed
  <2>6. Replays(c)'
    BY <1>0, <2>1, <2>4, <2>5 DEF Replays
  <2>7. pending = <<>> => Replayed(Len(pending))'
    BY <2>1, <2>5
  <2>8. (\A d \in Consumers : pc'[d] \notin InputSteps) => pending = <<>>
    BY <2>1 DEF InputSteps
  <2> QED
    BY <1>2, <2>3, <2>6, <2>7, <2>8
<1>9. CASE Aside
  <2>1. UNCHANGED <<pending, current>> /\ (wire'[2] = wire[2] \/ wire'[2] = Append(wire[2], CancelFrame))
    BY <1>0, <1>9 DEF Aside
  <2>2. \A n : Replayed(n) => Replayed(n)'
    BY <1>0, <2>1, ReplayedStays, FrameTypes
  <2>3. \A c \in Consumers : pc[c] \in InputSteps <=> pc'[c] \in InputSteps
    BY <1>0, <1>9 DEF Aside, InputUnderWay
  <2>4. ASSUME NEW c \in Consumers, pc'[c] \in InputSteps PROVE Replays(c)'
    <3>1. UNCHANGED <<pending, stdinClosed>> /\ pc'[c] = pc[c] /\ todo'[c] = todo[c]
      BY <1>0, <1>9, <2>4, InputUndisturbed DEF InputUnderWay
    <3> QED
      BY <1>1, <2>1, <2>2, <2>4, <3>1 DEF Replays
  <2> QED
    BY <1>1, <1>2, <2>1, <2>2, <2>3, <2>4
<1>10. ASSUME NEW p \in Consumers \cup Writers, EnterData(p) \/ EnterCloseStdin(p)
       PROVE  ReplayInv'
  <2>1. /\ p \in Procs /\ pc[p] = "enter" /\ Others(p) /\ cur[p] \in Streams
        /\ UNCHANGED <<wire, pending, current>>
    BY <1>0, <1>10, EnterLeaves
  <2>2. CASE p \in Writers
    BY <1>1, <1>2, <1>3, <1>4, <2>1, <2>2
  <2>3. CASE p \in Consumers
    <3>1. /\ cur[p] = 2 /\ Replaying(p) /\ Replays(p) /\ current = 2
      BY <1>1, <2>1, <2>3 DEF OrderInv, SessionInv, StreamsInv, RefreshingInv, InputSteps
    <3>2. \/ /\ pc'[p] = "lock" /\ todo'[p] = todo[p]
          \/ /\ stdinClosed[2] /\ todo'[p] = Tail(todo[p])
             /\ \/ pc'[p] = "again" /\ Tail(todo[p]) = <<>>
                \/ pc'[p] = "enter" /\ Tail(todo[p]) # <<>>
      BY <1>0, <1>10, <2>3, <3>1, EnterDoes DEF Ends, Replaying
    <3>3. \A q \in Procs \ {p} : pc[q] = "idle"
      BY <1>0, <2>1, OneUnderWay
    <3>4. \A c \in Consumers : pc'[c] \in InputSteps => c = p
      BY <1>0, <2>1, <3>3, OthersIdle
    <3>5. \A n : Replayed(n) => Replayed(n)'
      BY <1>3, <2>1
    <3>6. CASE pc'[p] = "lock" /\ todo'[p] = todo[p]
      <4>1. Replays(p)'
        BY <2>1, <3>1, <3>5, <3>6 DEF Replays
      <4> QED
        BY <1>2, <2>3, <3>4, <3>6, <4>1 DEF InputSteps
    <3>7. CASE pc'[p] # "lock" /\ stdinClosed[2] /\ todo'[p] = Tail(todo[p])
      <4>1. todo[p] \in Seq(Inputs) /\ todo[p] # <<>> /\ pending \in Seq(Inputs)
        BY <1>0, <2>1 DEF InputTypes, InputUnderWay, InputSteps
      <4>2. PICK n \in Nat : /\ Len(pending) - Len(todo[p]) = n
                             /\ Len(pending) - Len(Tail(todo[p])) = n + 1
                             /\ Tail(todo[p]) = <<>> => Len(pending) = n + 1
        BY <3>1, <4>1, OneLessLeft DEF Replaying
      <4>3. Replayed(n) /\ \E k \in 1 .. n : pending[k].kind = "closeStdin"
        BY <2>1, <3>1, <3>7, <4>2 DEF Replays
      <4>4. ~FirstClose(n + 1)
        <5>1. n + 1 - 1 = n
          OBVIOUS
        <5> QED
          BY ONLY <4>3, <5>1 DEF FirstClose
      <4>5. Replayed(n + 1)'
        BY <2>1, <3>5, <4>2, <4>3, <4>4, ReplayedNext
      <4>6. Replays(p)'
        <5>1. Done(p)' = n + 1
          BY <2>1, <3>7, <4>2
        <5>2. \E k \in 1 .. n + 1 : pending[k].kind = "closeStdin"
          BY ONLY <4>2, <4>3
        <5> QED
          BY ONLY <2>1, <4>5, <5>1, <5>2 DEF Replays
      <4>7. pc'[p] # "enter" => Replayed(Len(pending))'
        BY ONLY <2>1, <3>2, <3>7, <4>2, <4>5, pc'[p] # "lock"
      <4> QED
        BY <1>2, <2>3, <3>4, <4>6, <4>7 DEF InputSteps
    <3> QED
      BY <3>2, <3>6, <3>7
  <2> QED
    BY <2>2, <2>3
<1>11. ASSUME NEW p \in Consumers \cup Writers, SendData(p) \/ SendCloseStdin(p)
       PROVE  ReplayInv'
  <2>1. /\ p \in Procs /\ pc[p] = "send" /\ Others(p) /\ cur[p] \in Streams
        /\ UNCHANGED <<pending, current, stdinClosed>>
        /\ Apart(cur[p], wire, wire')
    BY <1>0, <1>11, SendLeaves
  <2>2. /\ \/ wire'[cur[p]] = wire[cur[p]]
              /\ (over[cur[p]] \/ halfClosed[cur[p]] \/ guest[cur[p]] = "ended")
           \/ wire'[cur[p]] = Append(wire[cur[p]], Head(todo[p]))
        /\ p \in Consumers =>
             /\ todo'[p] = Tail(todo[p])
             /\ \/ pc'[p] = "again" /\ Tail(todo[p]) = <<>>
                \/ pc'[p] = "enter" /\ Tail(todo[p]) # <<>>
    BY <1>0, <1>11, SendDoes DEF Ends
  <2>3. Head(todo[p]) \in Frames /\ todo[p] \in Seq(Inputs) /\ todo[p] # <<>> /\ pending \in Seq(Inputs)
    BY <1>0, <2>1, FrameTypes DEF InputTypes, InputUnderWay, InputSteps
  <2>4. wire'[2] = wire[2] \/ wire'[2] = Append(wire[2], Head(todo[p]))
    BY <1>0, <2>1, <2>2 DEF Apart
  <2>5. \A n : Replayed(n) => Replayed(n)'
    BY <1>0, <2>1, <2>3, <2>4, ReplayedStays
  <2>6. CASE p \in Writers
    BY <1>1, <1>2, <1>4, <2>1, <2>5, <2>6
  <2>7. CASE p \in Consumers
    <3>1. /\ cur[p] = 2 /\ Replaying(p) /\ Replays(p) /\ current = 2 /\ InOrder(pending)
      BY <1>1, <2>1, <2>7 DEF OrderInv, SessionInv, StreamsInv, RefreshingInv, InputSteps
    <3>2. ~halfClosed[2] /\ (Head(todo[p]).kind # "closeStdin" => ~stdinClosed[2])
      BY <2>1, <3>1 DEF SendingInv
    <3>3. \A c \in Consumers : pc'[c] \in InputSteps => c = p
      <4>1. \A q \in Procs \ {p} : pc[q] = "idle"
        BY <1>0, <2>1, OneUnderWay
      <4> QED
        BY <1>0, <2>1, <4>1, OthersIdle
    <3>4. PICK n \in Nat : /\ Len(pending) - Len(todo[p]) = n
                           /\ Len(pending) - Len(Tail(todo[p])) = n + 1
                           /\ Tail(todo[p]) = <<>> => Len(pending) = n + 1
                           /\ n + 1 \in 1 .. Len(pending) /\ Head(todo[p]) = pending[n + 1]
      BY <2>3, <3>1, OneLessLeft DEF Replaying
    <3>5. PICK f \in Frames : f = Head(todo[p])
      BY <2>3
    <3>6. f = pending[n + 1]
      BY <3>4, <3>5
    <3>7. ~over'[2] /\ guest'[2] = "running" => OnWire(2, f)'
      <4>1. wire'[2] = Append(wire[2], f) => OnWire(2, f)'
        BY <1>0, <2>1, <2>4, <3>5, ReplayedStays
      <4>2. ~over'[2] /\ guest'[2] = "running" => ~over[2] /\ guest[2] # "ended"
        BY <1>0 DEF Stays
      <4> QED
        BY <2>2, <3>1, <3>2, <3>5, <4>1, <4>2
    <3>8. Replayed(n + 1)'
      <4>1. Replayed(n)
        BY <3>1, <3>4 DEF Replays
      <4> QED
        BY <2>1, <2>5, <3>4, <3>6, <3>7, <4>1, ReplayedNext
    <3>9. Replays(p)'
      <4>1. stdinClosed[2] => \E k \in 1 .. n + 1 : pending[k].kind = "closeStdin"
        BY <3>2, <3>4
      <4>2. Done(p)' = n + 1
        BY <2>1, <2>2, <2>7, <3>4
      <4> QED
        BY ONLY <2>1, <3>8, <4>1, <4>2 DEF Replays
    <3>10. pc'[p] # "enter" => Replayed(Len(pending))'
      BY ONLY <2>1, <2>2, <2>7, <3>4, <3>8
    <3> QED
      BY <1>2, <2>7, <3>3, <3>9, <3>10 DEF InputSteps
  <2> QED
    BY <2>6, <2>7
<1> QED
  BY <1>0, <1>5, <1>6, <1>7, <1>8, <1>9, <1>10, <1>11, InputOrAside

-----------------------------------------------------------------------------
(***************************************************************************)
(* What a caller with one goroutine is promised of its inputs.             *)
(***************************************************************************)
LEMMA InitInput == Init => InputInv
<1> SUFFICES ASSUME Init PROVE InputInv
  OBVIOUS
<1>1. TypeOK
  BY InitType
<1>2. /\ current = 1 /\ calls = 0 /\ pending = <<>> /\ ~refreshed
      /\ \A p \in Procs : pc[p] = "idle"
      /\ \A i \in Streams : ~over[i] /\ wire[i] = <<>>
  BY <1>1, TypesOf DEF Init
<1>3. /\ \A c \in Consumers : pc[c] = "idle"
      /\ \A w \in Writers : pc[w] = "idle"
      /\ 1 \in Streams
  BY <1>1, <1>2, TypesOf DEF Procs
<1>4. SendingInv /\ AbortInv
  BY ONLY <1>2 DEF SendingInv, AbortInv
<1>5. OrderInv
  BY ONLY <1>2, <1>3 DEF OrderInv, InOrder, Below, InputSteps
<1>6. KeepInv
  BY ONLY <1>2, <1>3 DEF KeepInv, NoCloseKept, Accepting, AllKept
<1>7. ReplayInv
  BY ONLY <1>2 DEF ReplayInv
<1> QED
  BY <1>4, <1>5, <1>6, <1>7 DEF InputInv

\* Every step keeps what a caller with one goroutine is promised.
LEMMA InputInvStep == SessionInv /\ SessionInv' /\ InputInv /\ [Next]_vars => InputInv'
<1> SUFFICES ASSUME SessionInv, SessionInv', InputInv, [Next]_vars PROVE InputInv'
  OBVIOUS
<1>1. SendingInv /\ AbortInv /\ OrderInv /\ KeepInv /\ ReplayInv
  BY DEF InputInv
<1>2. /\ TypeOK /\ TypeOK' /\ RolesInv /\ RolesInv' /\ StreamsInv /\ UntouchedInv
      /\ CloseInv /\ WireInv /\ DeliveryInv /\ SerialInv
  BY DEF SessionInv
<1>3. SendingInv' /\ AbortInv' /\ OrderInv'
  BY <1>1, <1>2, SendingStep, AbortStep, OrderStep
<1>4. KeepInv' /\ ReplayInv'
  BY <1>1, KeepStep, ReplayStep
<1> QED
  BY <1>3, <1>4 DEF InputInv

\* Both invariants hold of every session; the second speaks of serial callers.
LEMMA InputInvariant == Spec => [](SessionInv /\ InputInv)
BY InitSession, SessionStep, InitInput, InputInvStep, PTL DEF Spec

\* The inputs on a stream are the frames before a cancel.
LEMMA InputsOnWire ==
  ASSUME TypeOK, WireInv, NEW i \in Streams
  PROVE  /\ InputsOn(i) \in Seq(Inputs)
         /\ \A j \in 1 .. Len(InputsOn(i)) :
              j \in 1 .. Len(wire[i]) /\ InputsOn(i)[j] = wire[i][j]
         /\ \A f \in Inputs : OnWire(i, f) => \E j \in 1 .. Len(InputsOn(i)) : InputsOn(i)[j] = f
         /\ ~halfClosed[i] => InputsOn(i) = wire[i]
<1>1. wire[i] \in Seq(Frames) /\ Len(wire[i]) \in Nat
  BY SeqTypesOf
<1>2. \A j \in 1 .. Len(wire[i]) :
        wire[i][j] \in Inputs \/ (wire[i][j] = CancelFrame /\ j = Len(wire[i]) /\ halfClosed[i])
  BY DEF WireInv
<1>3. CASE Len(wire[i]) > 0 /\ wire[i][Len(wire[i])] = CancelFrame
  <2>1. PICK n \in Nat : Len(wire[i]) = n + 1
    <3>1. Len(wire[i]) - 1 \in Nat /\ Len(wire[i]) = (Len(wire[i]) - 1) + 1
      BY <1>1, <1>3
    <3> QED
      BY <3>1
  <2>2. InputsOn(i) = SubSeq(wire[i], 1, n) /\ halfClosed[i]
    BY <1>1, <1>2, <1>3, <2>1, FrameTypes DEF InputsOn
  <2>3. \A j \in 1 .. n : j \in 1 .. Len(wire[i]) /\ wire[i][j] \in Inputs
    BY <1>2, <2>1
  <2>4. /\ SubSeq(wire[i], 1, n) \in Seq(Inputs) /\ Len(SubSeq(wire[i], 1, n)) = n
        /\ \A j \in 1 .. n : SubSeq(wire[i], 1, n)[j] = wire[i][j]
    BY <1>1, <2>1, <2>3
  <2>5. \A f \in Inputs : OnWire(i, f) => \E j \in 1 .. n : wire[i][j] = f
    BY <1>2, <1>3, <2>1, FrameTypes DEF OnWire
  <2> QED
    BY <2>2, <2>3, <2>4, <2>5
<1>4. CASE ~(Len(wire[i]) > 0 /\ wire[i][Len(wire[i])] = CancelFrame)
  <2>1. InputsOn(i) = wire[i]
    BY <1>4 DEF InputsOn
  <2>2. \A j \in 1 .. Len(wire[i]) : wire[i][j] \in Inputs
    BY <1>1, <1>2, <1>4
  <2>3. wire[i] \in Seq(Inputs)
    BY <1>1, <2>2
  <2> QED
    BY <2>1, <2>3 DEF OnWire
<1> QED
  BY <1>3, <1>4

\* No sequence of Write, Resize and CloseStdin of one goroutine makes the
\* transport end the RPC: a Send after CloseSend, which would, never happens,
\* because write and resize look at stdinClosed first.  With several goroutines
\* a Write may pass that test before another one's CloseStdin sends.
THEOREM EndedOnlyWhenAsked == Serial => (Spec => []AbortOnlyWhenAsked)
<1> SUFFICES ASSUME Serial PROVE Spec => []AbortOnlyWhenAsked
  OBVIOUS
<1>1. SessionInv /\ InputInv => AbortOnlyWhenAsked
  <2>1. SessionInv => \A i \in 1 .. opened : i \in Streams
    BY TypesOf, BoundsAssumption DEF SessionInv, Streams, BoundsAssumption
  <2> QED
    BY <2>1 DEF InputInv, AbortInv, AbortOnlyWhenAsked
<1> QED
  BY <1>1, InputInvariant, PTL

\* The inputs of one goroutine reach the guest in the order of the calls and
\* once each, on the first stream and, replayed from s.pending by tryRefresh
\* and followed by later calls, on the second.
THEOREM InputsInOrder == Serial => (Spec => []ReplayInOrder)
<1> SUFFICES ASSUME Serial PROVE Spec => []ReplayInOrder
  OBVIOUS
<1>1. SessionInv /\ InputInv => ReplayInOrder
  <2> SUFFICES ASSUME SessionInv, InputInv, NEW i \in Streams,
                      NEW j \in 1 .. Len(InputsOn(i)), NEW k \in 1 .. Len(InputsOn(i)), j < k
               PROVE  InputsOn(i)[j].n < InputsOn(i)[k].n
    BY DEF ReplayInOrder
  <2>1. /\ j \in 1 .. Len(wire[i]) /\ InputsOn(i)[j] = wire[i][j]
        /\ k \in 1 .. Len(wire[i]) /\ InputsOn(i)[k] = wire[i][k]
        /\ InputsOn(i)[k] \in Inputs
    BY InputsOnWire DEF SessionInv
  <2>2. InOrder(wire[i])
    BY DEF InputInv, OrderInv
  <2> QED
    BY <2>1, <2>2, FrameTypes DEF InOrder
<1> QED
  BY <1>1, InputInvariant, PTL

\* When a refresh is over, every input of one goroutine that the first stream
\* accepted is on the second, unless that one ended meanwhile: none was lost
\* between the Send that accepted it and the append to s.pending.
THEOREM InputsReplayed == Serial => (Spec => []ReplayComplete)
<1> SUFFICES ASSUME Serial PROVE Spec => []ReplayComplete
  OBVIOUS
<1>1. SessionInv /\ InputInv => ReplayComplete
  <2> SUFFICES ASSUME SessionInv, InputInv, \A p \in Procs : pc[p] \in {"idle", "select", "mark"},
                      current > 1, ~over[current], guest[current] = "running",
                      NEW j \in 1 .. Len(InputsOn(1))
               PROVE  \E k \in 1 .. Len(InputsOn(current)) : InputsOn(current)[k].n = InputsOn(1)[j].n
    BY DEF ReplayComplete
  <2>1. current = 2 /\ refreshed /\ 1 \in Streams /\ 2 \in Streams
    BY FirstStream DEF SessionInv, StreamsInv, CurrentInv
  <2>2. /\ \A c \in Consumers : pc[c] \notin InputSteps
        /\ \A w \in Writers : pc[w] # "record"
    BY DEF Procs, InputSteps
  <2>3. AllKept /\ Replayed(Len(pending))
    BY <2>1, <2>2 DEF InputInv, KeepInv, ReplayInv
  <2>4. InputsOn(1) \in Seq(Inputs) /\ j \in 1 .. Len(wire[1]) /\ InputsOn(1)[j] = wire[1][j]
    BY <2>1, InputsOnWire DEF SessionInv
  <2>5. PICK f \in Inputs : f = InputsOn(1)[j]
    BY <2>4
  <2>6. Kept(f)
    BY <2>2, <2>3, <2>4, <2>5 DEF AllKept
  <2>7. OnWire(2, f)
    BY <2>1, <2>3, <2>6 DEF Kept, Replayed
  <2> QED
    BY <2>1, <2>5, <2>7, InputsOnWire DEF SessionInv
<1> QED
  BY <1>1, InputInvariant, PTL

-----------------------------------------------------------------------------
(***************************************************************************)
(* The contract.                                                           *)
(***************************************************************************)
\* What the callers see of a session.
Given    == [i \in {1, 2} |-> delivered[i]]
Accepted == [i \in {1, 2} |-> NumbersOn(i)]
Stopped  == {i \in Streams : cancelled[i]}
Dropped  == {i \in Streams : lost[i]}
Calling  == {c \in Consumers : pc[c] # "idle"}
Waiting  == {c \in Consumers : pc[c] = "select"}

\* A step that gives the callers nothing and takes nothing of them.
Unseen == UNCHANGED <<opened, Given, Accepted, Stopped, Dropped>>

\* Such a step that moves no caller is a stutter of the contract.
LEMMA NothingSeen ==
  ASSUME Unseen, UNCHANGED <<Calling, Waiting>>
  PROVE  UNCHANGED Contract!contractVars
BY DEF Unseen, Contract!contractVars, Given, Accepted, Stopped, Dropped, Calling, Waiting

\* One caller moves.
LEMMA CallerMoves ==
  ASSUME NEW c \in Consumers, \A d \in Consumers \ {c} : pc'[d] = pc[d]
  PROVE  /\ pc'[c] # "idle" => Calling' = Calling \cup {c}
         /\ pc'[c] = "idle" => Calling' = Calling \ {c}
         /\ pc'[c] = "select" => Waiting' = Waiting \cup {c}
         /\ pc'[c] # "select" => Waiting' = Waiting \ {c}
BY DEF Calling, Waiting

\* A caller in the middle of its call, before a step and after it.
LEMMA CallerStays ==
  ASSUME NEW c \in Consumers, \A d \in Consumers \ {c} : pc'[d] = pc[d],
         pc[c] \notin {"idle", "select"}, pc'[c] \notin {"idle", "select"}
  PROVE  UNCHANGED <<Calling, Waiting>>
BY DEF Calling, Waiting

\* A step of a writer, a closer, a reader, the guest or time.
LEMMA NoCallerMoves ==
  ASSUME \A d \in Consumers : pc'[d] = pc[d]
  PROVE  UNCHANGED <<Calling, Waiting>>
BY DEF Calling, Waiting

\* A call returns, or the consumer goes on with it.
LEMMA CallReturns ==
  ASSUME NEW c \in Consumers, \A d \in Consumers \ {c} : pc'[d] = pc[d], Unseen,
         pc[c] \notin {"idle", "select"}, pc'[c] # "select"
  PROVE  [Contract!Next]_(Contract!contractVars)
<1>1. CASE pc'[c] = "idle"
  <2>1. Calling' = Calling \ {c} /\ Waiting' = Waiting \ {c} /\ c \in Calling \ Waiting
    BY <1>1, CallerMoves DEF Calling, Waiting
  <2>2. Contract!Return(c)
    BY <2>1 DEF Unseen, Contract!Return, Given, Accepted, Stopped, Dropped, Calling, Waiting
  <2> QED
    BY <2>1, <2>2 DEF Contract!Next, Calling, Waiting
<1>2. CASE pc'[c] # "idle"
  BY <1>2, CallerStays, NothingSeen
<1> QED
  BY <1>1, <1>2

\* A call begins, or asks again, or has waited long enough.
LEMMA CallBegins ==
  ASSUME NEW c \in Consumers, \A d \in Consumers \ {c} : pc'[d] = pc[d], Unseen,
         pc[c] = "idle", pc'[c] # "idle"
  PROVE  Contract!Next
<1>1. /\ Calling' = Calling \cup {c} /\ Waiting' \in {Waiting, Waiting \cup {c}}
      /\ c \in Consumers \ Calling
  BY CallerMoves DEF Calling, Waiting
<1>2. Contract!Call(c)
  BY <1>1 DEF Unseen, Contract!Call, Given, Accepted, Stopped, Dropped, Calling, Waiting
<1> QED
  BY <1>1, <1>2 DEF Contract!Next, Calling

\* The retried next() of tryRefresh waits on the second run.
LEMMA CallAsksAgain ==
  ASSUME NEW c \in Consumers, \A d \in Consumers \ {c} : pc'[d] = pc[d], Unseen,
         pc[c] = "again", pc'[c] = "select", opened = 2
  PROVE  Contract!Next
<1>1. Calling' = Calling /\ Waiting' = Waiting \cup {c} /\ c \in Calling \ Waiting
  BY CallerMoves DEF Calling, Waiting
<1>2. Contract!AskAgain(c)
  BY <1>1 DEF Unseen, Contract!AskAgain, Given, Accepted, Stopped, Dropped, Calling, Waiting
<1> QED
  BY <1>1, <1>2 DEF Contract!Next, Calling, Waiting

\* The deadline is over for a caller that waits.
LEMMA CallTimesOut ==
  ASSUME NEW c \in Consumers, \A d \in Consumers \ {c} : pc'[d] = pc[d], Unseen,
         pc[c] = "select", pc'[c] \notin {"idle", "select"}
  PROVE  Contract!Next
<1>1. Calling' = Calling /\ Waiting' = Waiting \ {c} /\ c \in Waiting
  BY CallerMoves DEF Calling, Waiting
<1>2. Contract!TimeUp(c)
  BY <1>1 DEF Unseen, Contract!TimeUp, Given, Accepted, Stopped, Dropped, Calling, Waiting
<1> QED
  BY <1>1, <1>2 DEF Contract!Next, Waiting

\* What the contract sees is made of five variables.
LEMMA UnseenWhen ==
  ASSUME UNCHANGED <<opened, delivered, wire, cancelled, lost>>
  PROVE  Unseen
BY DEF Unseen, Given, Accepted, NumbersOn, InputsOn, Stopped, Dropped

\* The event a consumer takes may be handed out next.
LEMMA TakenMayFollow ==
  ASSUME SessionInv, NEW i \in Streams, i \in {1, 2}, events[i] # <<>>
  PROVE  /\ Head(events[i]) \in Contract!Answers
         /\ Contract!Follows(i, Head(events[i]))
<1> DEFINE e == Head(events[i])
           d == delivered[i]
           E == Emitted(i)
<1>1. /\ d \in Seq(Events) /\ events[i] \in Seq(Events) /\ outs[i] \in 0 .. MaxOutputs
      /\ down[i] \in Seq(Events)
      /\ EmittedOf(i) /\ DownOf(i) /\ e \in Events /\ MaxOutputs \in Nat
  BY SeqTypesOf, BoundsAssumption DEF SessionInv, DeliveryInv, BoundsAssumption
<1>2. /\ (d \o events[i])[Len(d) + 1] = e /\ Len(d) + 1 \in 1 .. Len(d \o events[i])
      /\ Len(d) \in Nat
      /\ \A j \in 1 .. Len(d) : (d \o events[i])[j] = d[j]
  BY <1>1, MoveHead, PrefixOfConcat
<1>3. /\ E[Len(d) + 1] = e /\ Len(d) + 1 \in 1 .. Len(E) /\ Len(d) \in Nat
      /\ \A j \in 1 .. Len(d) : E[j] = d[j]
  BY ONLY <1>2, Zenon DEF Emitted
<1>4. PICK n \in Nat : n = Len(d)
  BY <1>3
<1>5. EmittedAt(i, E, n + 1)
  BY ONLY <1>1, <1>3, <1>4 DEF EmittedOf
<1>6. /\ E[n + 1] = e /\ n + 1 - 1 = n
      /\ n > 0 => E[n] = Contract!Last(d)
      /\ d # <<>> <=> n > 0
  <2>1. d # <<>> <=> Len(d) > 0
    BY <1>1
  <2>2. n > 0 => E[n] = d[Len(d)]
    BY <1>3, <1>4
  <2> QED
    BY <1>3, <1>4, <2>1, <2>2 DEF Contract!Last
<1>7. Outputs(down[i]) \in Nat
  BY <1>1 DEF Outputs
<1>8. e \in Contract!Answers
  <2>1. Heard(i) <= MaxOutputs
    BY <1>1, <1>7 DEF Heard
  <2>2. e.kind = "output" => e.n \in 1 .. MaxOutputs
    BY <1>1, <1>5, <1>6, <1>7, <2>1 DEF EmittedAt, Heard
  <2>3. e.kind \in {"output", "exit", "rejected", "failed", "end"} /\ (e.kind # "output" => e.n = 0)
    BY ONLY <1>5, <1>6 DEF EmittedAt, EmittedKinds
  <2>4. e = [kind |-> e.kind, n |-> e.n]
    BY <1>1 DEF Events
  <2> QED
    BY ONLY <2>2, <2>3, <2>4 DEF Contract!Answers
<1>9. Contract!Follows(i, e)
  <2>1. Given[i] = d /\ (i \notin Dropped => ~lost[i]) /\ (cancelled[i] => i \in Stopped)
    BY DEF Given, Dropped, Stopped
  <2>2. n > 0 => \/ Contract!Last(d).kind = "output" /\ (e.kind = "output" => Contract!Last(d).n < e.n)
                 \/ Contract!Last(d).kind = "exit" /\ e.kind = "end"
    BY ONLY <1>5, <1>6, n \in Nat DEF EmittedAt
  <2>3. e.kind = "output" /\ ~lost[i] => e.n = n + 1
    BY ONLY <1>5, <1>6 DEF EmittedAt
  <2>4. e.kind = "end" /\ ~lost[i] => cancelled[i] \/ (n > 0 /\ Contract!Last(d).kind = "exit")
    BY ONLY <1>5, <1>6, n \in Nat DEF EmittedAt
  <2>5. d # <<>> /\ e.kind = "output" => e.n > Contract!Last(d).n
    BY <1>6, <2>2
  <2> QED
    BY <1>4, <1>6, <2>1, <2>2, <2>3, <2>4, <2>5 DEF Contract!Follows, Given, Dropped,
       Stopped
<1> QED
  BY <1>8, <1>9

\* An event is given.
LEMMA EventGiven ==
  ASSUME SessionInv, NEW c \in Consumers, Take(c)
  PROVE  Contract!Next
<1>1. TypeOK /\ CurrentInv /\ c \in Procs
  BY DEF SessionInv, StreamsInv, Procs
<1>2. /\ pc[c] = "select" /\ events[cur[c]] # <<>> /\ cur[c] \in Streams
      /\ delivered'[cur[c]] = Append(delivered[cur[c]], Head(events[cur[c]]))
      /\ Apart(cur[c], delivered, delivered')
      /\ UNCHANGED <<opened, wire, cancelled, lost>> /\ Others(c) /\ pc'[c] # "select"
  BY <1>1, TakeDoes, TakeLeads
<1>3. cur[c] \in {1, 2} /\ cur[c] \in 1 .. opened /\ 1 \in Streams /\ 2 \in Streams
  BY <1>1, <1>2, TypesOf, BoundsAssumption DEF CurrentInv, Streams, BoundsAssumption
<1>4. /\ Calling' \in {Calling, Calling \ {c}} /\ Waiting' = Waiting \ {c} /\ c \in Waiting
  <2>1. \A d \in Consumers \ {c} : pc'[d] = pc[d]
    BY <1>2 DEF Others, Procs
  <2> QED
    BY <1>2, <2>1, CallerMoves DEF Calling, Waiting
<1>5. Given' = [Given EXCEPT ![cur[c]] = Append(@, Head(events[cur[c]]))]
  BY ONLY <1>2, <1>3 DEF Given, Apart
<1>6. UNCHANGED <<Accepted, Stopped, Dropped>>
  BY <1>2 DEF Accepted, NumbersOn, InputsOn, Stopped, Dropped
<1>7. /\ Head(events[cur[c]]) \in Contract!Answers
      /\ Contract!Follows(cur[c], Head(events[cur[c]]))
  BY <1>2, <1>3, TakenMayFollow
<1>8. Contract!Give(c)
  BY <1>2, <1>3, <1>4, <1>5, <1>6, <1>7
     DEF Contract!Give, Given, Accepted, Stopped, Dropped, Calling, Waiting
<1> QED
  BY <1>4, <1>8 DEF Contract!Next, Waiting

\* The command is run again.
LEMMA RunAgain ==
  ASSUME SessionInv, NEW c \in Consumers, OpenStream(c)
  PROVE  Contract!Next
<1>1. /\ TypeOK /\ CurrentInv /\ RefusedInv /\ RefreshingInv /\ RerunInv /\ c \in Procs
  BY DEF SessionInv, StreamsInv, Procs
<1>2. /\ pc[c] = "open" /\ pc'[c] = "swap" /\ opened' = opened + 1 /\ Others(c)
      /\ UNCHANGED <<delivered, wire, cancelled, lost>>
  BY <1>1, OpenDoes
<1>3. opened = 1 /\ opened' = 2 /\ refreshed
  BY <1>1, <1>2 DEF RefreshingInv, Refreshing
<1>4. delivered[1] # <<>> /\ delivered[1][Len(delivered[1])] = Event("rejected")
  BY <1>1, <1>3 DEF RefusedInv, RefusedFirst
<1>5. Serial => Len(delivered[1]) = 1
  BY <1>1, <1>3 DEF RerunInv, OneConsumer
<1>6. UNCHANGED <<Calling, Waiting>> /\ Calling \ Waiting # {}
  <2>1. \A d \in Consumers \ {c} : pc'[d] = pc[d]
    BY <1>2 DEF Others, Procs
  <2> QED
    BY <1>2, <2>1, CallerStays DEF Calling, Waiting
<1>7. UNCHANGED <<Given, Accepted, Stopped, Dropped>>
  BY <1>2 DEF Given, Accepted, NumbersOn, InputsOn, Stopped, Dropped
<1>8. Given[1] = delivered[1]
  BY DEF Given
<1>9. Contract!Rerun
  BY <1>3, <1>4, <1>5, <1>6, <1>7, <1>8
     DEF Contract!Rerun, Contract!Last, Contract!Refused, Event,
         Given, Accepted, Stopped, Dropped, Calling, Waiting
<1> QED
  BY <1>9 DEF Contract!Next

\* A run is stopped.
LEMMA RunStopped ==
  ASSUME SessionInv, NEW i \in 1 .. opened, ~cancelled[i], cancelled'[i],
         Apart(i, cancelled, cancelled'),
         UNCHANGED <<opened, delivered, wire, lost, Calling, Waiting>>
  PROVE  Contract!Next
<1>1. i \in Streams /\ i \in {1, 2}
  BY TypesOf, BoundsAssumption DEF SessionInv, StreamsInv, CurrentInv, Streams,
     BoundsAssumption
<1>2. Stopped' = Stopped \cup {i} /\ i \notin Stopped
  BY <1>1 DEF Stopped, Apart
<1>3. UNCHANGED <<Given, Accepted, Dropped>>
  BY DEF Given, Accepted, NumbersOn, InputsOn, Dropped
<1>4. Contract!Stop(i)
  BY <1>2, <1>3 DEF Contract!Stop, Given, Accepted, Stopped, Dropped, Calling, Waiting
<1> QED
  BY <1>1, <1>4 DEF Contract!Next, Contract!Runs

\* An event is dropped.
LEMMA EventDropped ==
  ASSUME SessionInv, NEW i \in 1 .. opened, ~lost[i], lost'[i], Apart(i, lost, lost'),
         UNCHANGED <<opened, delivered, wire, cancelled, Calling, Waiting>>
  PROVE  Contract!Next
<1>1. i \in Streams /\ i \in {1, 2}
  BY TypesOf, BoundsAssumption DEF SessionInv, StreamsInv, CurrentInv, Streams,
     BoundsAssumption
<1>2. Dropped' = Dropped \cup {i} /\ i \notin Dropped
  BY <1>1 DEF Dropped, Apart
<1>3. UNCHANGED <<Given, Accepted, Stopped>>
  BY DEF Given, Accepted, NumbersOn, InputsOn, Stopped
<1>4. Contract!Drop(i)
  BY <1>2, <1>3 DEF Contract!Drop, Given, Accepted, Stopped, Dropped, Calling, Waiting
<1> QED
  BY <1>1, <1>4 DEF Contract!Next, Contract!Runs

\* Numbers counted from one are a sequence.
LEMMA FunctionIsSeq ==
  ASSUME NEW n \in Nat, NEW g \in [1 .. n -> Nat]
  PROVE  g \in Seq(Nat) /\ Len(g) = n
OBVIOUS

\* The numbers of a sequence of inputs, one input longer.
LEMMA NumbersOfAppend ==
  ASSUME NEW s \in Seq(Inputs), NEW f \in Inputs
  PROVE  /\ [j \in 1 .. Len(Append(s, f)) |-> Append(s, f)[j].n]
              = Append([j \in 1 .. Len(s) |-> s[j].n], f.n)
         /\ [j \in 1 .. Len(s) |-> s[j].n] # <<>> =>
              /\ Len(s) \in 1 .. Len(s)
              /\ Contract!Last([j \in 1 .. Len(s) |-> s[j].n]) = s[Len(s)].n
<1> DEFINE a == [j \in 1 .. Len(s) |-> s[j].n]
           b == [j \in 1 .. Len(Append(s, f)) |-> Append(s, f)[j].n]
<1>1. PICK n \in Nat : n = Len(s)
  OBVIOUS
<1>2. /\ Append(s, f) \in Seq(Inputs) /\ Len(Append(s, f)) = n + 1 /\ Append(s, f)[n + 1] = f
      /\ \A j \in 1 .. n : Append(s, f)[j] = s[j]
  BY <1>1
<1>3. /\ \A j \in 1 .. n : s[j].n \in Nat
      /\ f.n \in Nat
  BY <1>1, FrameTypes
<1>4. a \in Seq(Nat) /\ Len(a) = n /\ \A j \in 1 .. n : a[j] = s[j].n
  BY <1>1, <1>3
<1>5. /\ Append(a, f.n) \in Seq(Nat) /\ Len(Append(a, f.n)) = n + 1 /\ Append(a, f.n)[n + 1] = f.n
      /\ \A j \in 1 .. n : Append(a, f.n)[j] = a[j]
  BY <1>3, <1>4
<1>6. /\ b \in Seq(Nat) /\ Len(b) = n + 1 /\ \A j \in 1 .. n + 1 : b[j] = Append(s, f)[j].n
  <2>1. \A j \in 1 .. n + 1 : Append(s, f)[j].n \in Nat
    BY <1>2, FrameTypes
  <2>2. b = [j \in 1 .. n + 1 |-> Append(s, f)[j].n] /\ n + 1 \in Nat
    BY <1>2
  <2>3. b \in [1 .. n + 1 -> Nat]
    BY <2>1, <2>2
  <2> HIDE DEF b
  <2> QED
    BY <2>2, <2>3, FunctionIsSeq
<1>7. \A j \in 1 .. n + 1 : b[j] = Append(a, f.n)[j]
  <2> SUFFICES ASSUME NEW j \in 1 .. n + 1 PROVE b[j] = Append(a, f.n)[j]
    OBVIOUS
  <2>1. CASE j \in 1 .. n
    <3>1. b[j] = s[j].n /\ Append(a, f.n)[j] = s[j].n
      BY <1>2, <1>4, <1>5, <1>6, <2>1
    <3> QED
      BY <3>1
  <2>2. CASE j = n + 1
    BY <1>2, <1>5, <1>6, <2>2
  <2>3. j \in 1 .. n \/ j = n + 1
    BY <1>1
  <2> QED
    BY <2>1, <2>2, <2>3
<1>8. b = Append(a, f.n)
  <2> HIDE DEF a, b
  <2> QED
    BY <1>5, <1>6, <1>7, SeqEqual
<1>9. a # <<>> => n \in 1 .. n /\ a[n] = s[n].n
  BY <1>4
<1> QED
  BY <1>1, <1>4, <1>8, <1>9 DEF Contract!Last

\* An input is accepted, by the newest run.
LEMMA InputAccepted ==
  ASSUME SessionInv, SessionInv', InputInv, NEW p \in Consumers \cup Writers,
         SendData(p) \/ SendCloseStdin(p), UNCHANGED <<Calling, Waiting>>
  PROVE  [Contract!Next]_(Contract!contractVars)
<1>1. /\ TypeOK /\ TypeOK' /\ WireInv /\ WireInv' /\ CurrentInv /\ RefusedInv
      /\ InputTypes
  BY InputsTyped DEF SessionInv, StreamsInv
<1>2. /\ p \in Procs /\ pc[p] = "send" /\ cur[p] \in Streams /\ Apart(cur[p], wire, wire')
      /\ UNCHANGED <<opened, delivered, cancelled, lost>>
  BY <1>1, SendLeaves
<1>3. PICK i \in Streams : i = cur[p]
  BY <1>2
<1>4. /\ todo[p] \in Seq(Inputs) /\ todo[p] # <<>> /\ wire[i] \in Seq(Frames)
      /\ 1 \in Streams /\ 2 \in Streams
  BY <1>1, <1>2, SeqTypesOf, TypesOf
<1>5. PICK f \in Inputs : f = Head(todo[p])
  BY <1>4
<1>6. CASE UNCHANGED wire
  BY <1>2, <1>6, UnseenWhen, NothingSeen
<1>7. CASE wire' # wire
  <2>1. ~over[i] /\ ~halfClosed[i] /\ wire'[i] = Append(wire[i], f)
    BY <1>1, <1>3, <1>5, <1>7, SendDoes
  <2>2. i = opened /\ i \in {1, 2}
    <3>1. i <= current /\ current <= opened /\ opened \in {1, 2} /\ i \in Nat /\ current \in Nat
      BY <1>1, <1>2, <1>3, TypesOf DEF CurrentInv, Streams
    <3>2. opened = 2 => i # 1
      BY <1>1, <2>1 DEF CurrentInv, RefusedInv, RefusedFirst
    <3>3. i # 0
      BY DEF Streams
    <3> QED
      BY <3>1, <3>2, <3>3
  <2>3. InputsOn(i) = wire[i] /\ wire[i] \in Seq(Inputs)
    BY <1>1, <2>1, InputsOnWire
  <2>4. InputsOn(i)' = Append(wire[i], f)
    <3>1. PICK s : s = wire'[i]
      OBVIOUS
    <3>2. s = Append(wire[i], f) /\ s \in Seq(Inputs)
      BY <2>1, <2>3, <3>1
    <3>3. Len(s) > 0 => s[Len(s)] # CancelFrame
      BY <3>2, FrameTypes
    <3>4. InputsOn(i)' = s
      BY <3>1, <3>3 DEF InputsOn
    <3> QED
      BY <3>2, <3>4
  <2>5. NumbersOn(i)' = Append(NumbersOn(i), f.n)
    <3>1. /\ NumbersOn(i) = [j \in 1 .. Len(wire[i]) |-> wire[i][j].n]
          /\ NumbersOn(i)' = [j \in 1 .. Len(Append(wire[i], f)) |-> Append(wire[i], f)[j].n]
      BY <2>3, <2>4, Zenon DEF NumbersOn
    <3> QED
      BY <2>3, <3>1, NumbersOfAppend
  <2>6. \A k \in {1, 2} \ {i} : NumbersOn(k)' = NumbersOn(k)
    <3> SUFFICES ASSUME NEW k \in {1, 2} \ {i} PROVE NumbersOn(k)' = NumbersOn(k)
      OBVIOUS
    <3>1. wire'[k] = wire[k]
      BY <1>2, <1>3, <1>4 DEF Apart
    <3> QED
      BY <3>1 DEF NumbersOn, InputsOn
  <2>7. Accepted' = [Accepted EXCEPT ![opened] = Append(@, f.n)]
    BY <2>2, <2>5, <2>6 DEF Accepted
  <2>8. Serial /\ Accepted[opened] # <<>> => Contract!Last(Accepted[opened]) < f.n
    <3> SUFFICES ASSUME Serial, NumbersOn(i) # <<>>
                 PROVE  Contract!Last(NumbersOn(i)) < f.n
      BY <2>2 DEF Accepted
    <3>1. Below(wire[i], f.n)
      <4>1. CASE p \in Writers
        BY <1>2, <1>5, <4>1 DEF InputInv, OrderInv, Fresh
      <4>2. CASE p \in Consumers
        <5>1. cur[p] = 2 /\ Replaying(p)
          BY <1>2, <4>2 DEF SessionInv, StreamsInv, RefreshingInv, InputSteps,
             InputInv, OrderInv
        <5> QED
          BY <1>3, <1>5, <5>1 DEF Replaying
      <4> QED
        BY <4>1, <4>2
    <3>2. /\ NumbersOn(i) = [j \in 1 .. Len(wire[i]) |-> wire[i][j].n]
      BY <2>3, Zenon DEF NumbersOn
    <3>3. Len(wire[i]) \in 1 .. Len(wire[i]) /\ Contract!Last(NumbersOn(i)) = wire[i][Len(wire[i])].n
      BY <2>3, <3>2, NumbersOfAppend
    <3> QED
      BY ONLY <3>1, <3>3 DEF Below
  <2>9. UNCHANGED <<opened, Given, Stopped, Dropped>>
    BY <1>2 DEF Given, Stopped, Dropped
  <2>10. f.n \in 1 .. MaxInputs
    BY DEF Inputs
  <2>11. Contract!Accept(f.n)
    BY <2>7, <2>8, <2>9 DEF Contract!Accept, Given, Accepted, Stopped, Dropped,
       Calling, Waiting
  <2> QED
    BY <2>10, <2>11 DEF Contract!Next
<1> QED
  BY <1>6, <1>7

\* The cancel frame is no input.
LEMMA CancelUnseen ==
  ASSUME TypeOK, TypeOK', WireInv, WireInv', NEW p \in Consumers \cup Closers, CloseSend(p)
  PROVE  Unseen
<1>1. /\ p \in Procs /\ cur[p] \in Streams /\ wire \in [Streams -> Seq(Frames)]
  BY TypesOf, SeqTypesOf DEF Procs
<1>2. /\ UNCHANGED <<opened, delivered, cancelled, lost>> /\ Apart(cur[p], wire, wire')
      /\ \/ UNCHANGED wire
         \/ ~halfClosed[cur[p]] /\ wire'[cur[p]] = Append(wire[cur[p]], CancelFrame)
  BY CloseSendDoes
<1>3. \A i \in {1, 2} : InputsOn(i)' = InputsOn(i)
  <2> SUFFICES ASSUME NEW i \in {1, 2} PROVE InputsOn(i)' = InputsOn(i)
    OBVIOUS
  <2>1. i \in Streams
    BY TypesOf
  <2>2. CASE wire'[i] = wire[i]
    BY <2>2 DEF InputsOn
  <2>3. CASE ~halfClosed[i] /\ wire'[i] = Append(wire[i], CancelFrame)
    <3>1. InputsOn(i) = wire[i] /\ wire[i] \in Seq(Frames)
      BY <1>1, <2>1, <2>3, InputsOnWire
    <3>2. PICK s : s = wire'[i]
      OBVIOUS
    <3>3. PICK n \in Nat : n = Len(wire[i])
      BY <3>1
    <3>4. Len(s) = n + 1 /\ s[n + 1] = CancelFrame /\ n + 1 > 0 /\ n + 1 - 1 = n
      BY <2>3, <3>1, <3>2, <3>3
    <3>5. SubSeq(s, 1, n) = wire[i]
      BY <2>3, <3>1, <3>2, <3>3, FrameTypes
    <3>6. InputsOn(i)' = SubSeq(s, 1, n)
      BY ONLY <3>2, <3>4 DEF InputsOn
    <3> QED
      BY <3>1, <3>5, <3>6
  <2> QED
    BY <1>1, <1>2, <2>1, <2>2, <2>3 DEF Apart
<1> QED
  BY <1>2, <1>3 DEF Unseen, Given, Accepted, NumbersOn, Stopped, Dropped

\* A new session is a contract nothing was asked of.
LEMMA ContractInit == Init => Contract!Init
<1> SUFFICES ASSUME Init PROVE Contract!Init
  OBVIOUS
<1>1. TypeOK
  BY InitType
<1>2. /\ opened = 1 /\ 1 \in Streams /\ 2 \in Streams
      /\ \A i \in Streams : wire[i] = <<>> /\ delivered[i] = <<>> /\ ~cancelled[i] /\ ~lost[i]
      /\ \A p \in Procs : pc[p] = "idle"
  BY <1>1, TypesOf DEF Init
<1>3. /\ Given = [i \in {1, 2} |-> <<>>]
      /\ Stopped = {} /\ Dropped = {}
  BY <1>2 DEF Given, Stopped, Dropped
<1>4. Accepted = [i \in {1, 2} |-> <<>>]
  <2>1. \A i \in {1, 2} : NumbersOn(i) = <<>>
    BY <1>2 DEF NumbersOn, InputsOn
  <2> QED
    BY <2>1 DEF Accepted
<1>5. Calling = {} /\ Waiting = {}
  BY <1>2 DEF Calling, Waiting, Procs
<1> QED
  BY <1>2, <1>3, <1>4, <1>5
     DEF Contract!Init, Contract!Runs, Given, Accepted, Stopped, Dropped, Calling, Waiting

\* Every step of a session is a step of its contract, or a stutter.
LEMMA ContractStep ==
  SessionInv /\ SessionInv' /\ InputInv /\ [Next]_vars => [Contract!Next]_(Contract!contractVars)
<1> SUFFICES ASSUME SessionInv, SessionInv', InputInv, [Next]_vars
             PROVE  [Contract!Next]_(Contract!contractVars)
  OBVIOUS
<1>1. /\ TypeOK /\ TypeOK' /\ RolesInv /\ WireInv /\ WireInv' /\ RefreshingInv
      /\ CurrentInv /\ ReadersInv
      /\ \A c \in Consumers : c \in Procs
      /\ \A w \in Writers : w \in Procs /\ w \notin Consumers
      /\ \A x \in Closers : x \in Procs /\ x \notin Consumers
  BY ProcsAssumption DEF SessionInv, StreamsInv, Procs, ProcsAssumption
<1>2. ASSUME NEW c \in Consumers, NextCall(c) \/ NextAgain(c)
      PROVE  [Contract!Next]_(Contract!contractVars)
  <2>1. /\ UNCHANGED <<opened, delivered, wire, cancelled, lost>>
        /\ \A d \in Consumers \ {c} : pc'[d] = pc[d]
        /\ pc[c] \in {"idle", "again"} /\ pc'[c] \in {"expired", "select"}
    BY <1>1, <1>2, BeginDoes DEF Others
  <2>2. Unseen
    BY <2>1, UnseenWhen
  <2>3. CASE pc[c] = "idle"
    BY <2>1, <2>2, <2>3, CallBegins
  <2>4. CASE pc[c] = "again" /\ pc'[c] = "select"
    <3>1. opened = 2
      BY <1>1, <2>4, TypesOf DEF RefreshingInv, CurrentInv, Streams
    <3> QED
      BY <2>1, <2>2, <2>4, <3>1, CallAsksAgain
  <2>5. CASE pc[c] = "again" /\ pc'[c] = "expired"
    BY <2>1, <2>2, <2>5, CallerStays, NothingSeen
  <2> QED
    BY <2>1, <2>3, <2>4, <2>5
<1>3. ASSUME NEW c \in Consumers, Take(c) PROVE Contract!Next
  BY <1>3, EventGiven
<1>4. ASSUME NEW c \in Consumers, Expire(c) PROVE [Contract!Next]_(Contract!contractVars)
  <2>1. /\ UNCHANGED <<opened, delivered, wire, cancelled, lost>>
        /\ \A d \in Consumers \ {c} : pc'[d] = pc[d]
        /\ pc[c] \in {"expired", "select"} /\ pc'[c] = "closeMark"
    BY <1>1, <1>4, ExpireDoes DEF Others
  <2>2. Unseen
    BY <2>1, UnseenWhen
  <2>3. CASE pc[c] = "expired"
    BY <2>1, <2>2, <2>3, CallReturns
  <2>4. CASE pc[c] = "select"
    BY <2>1, <2>2, <2>4, CallTimesOut
  <2> QED
    BY <2>1, <2>3, <2>4
<1>5. ASSUME NEW c \in Consumers,
             \/ MarkStarted(c) \/ RefreshCheck(c) \/ SniffExpiry(c) \/ CommitRefresh(c)
             \/ Reissue(c) \/ OpenFails(c) \/ SwapStream(c)
      PROVE  [Contract!Next]_(Contract!contractVars)
  <2>1. /\ UNCHANGED <<opened, delivered, wire, cancelled, lost>> /\ Others(c)
        /\ pc[c] \notin {"idle", "select"} /\ pc'[c] # "select"
    <3>1. CASE MarkStarted(c)
      BY <1>1, <3>1, MarkDoes
    <3>2. CASE RefreshCheck(c) \/ SniffExpiry(c)
      BY <1>1, <3>2, LookDoes
    <3>3. CASE CommitRefresh(c)
      BY <1>1, <3>3, CommitDoes
    <3>4. CASE Reissue(c) \/ OpenFails(c)
      BY <1>1, <3>4, ReissueDoes
    <3>5. CASE SwapStream(c)
      <4>1. pc'[c] \in {"again", "enter"}
        BY <1>1, <3>5, SwapDoes
      <4> QED
        BY <1>1, <3>5, <4>1, SwapDoes
    <3> QED
      BY <1>5, <3>1, <3>2, <3>3, <3>4, <3>5
  <2>2. Unseen /\ \A d \in Consumers \ {c} : pc'[d] = pc[d]
    BY <1>1, <2>1, UnseenWhen DEF Others
  <2> QED
    BY <2>1, <2>2, CallReturns
<1>6. ASSUME NEW c \in Consumers, OpenStream(c) PROVE Contract!Next
  BY <1>6, RunAgain
<1>7. ASSUME NEW w \in Writers, InputCall(w) \/ RecordInput(w)
      PROVE  UNCHANGED Contract!contractVars
  <2>1. UNCHANGED <<opened, delivered, wire, cancelled, lost>> /\ Others(w)
    BY <1>1, <1>7, InputCallDoes, RecordDoes
  <2>2. \A d \in Consumers : pc'[d] = pc[d]
    BY <1>1, <2>1 DEF Others
  <2> QED
    BY <2>1, <2>2, UnseenWhen, NoCallerMoves, NothingSeen
<1>8. ASSUME NEW p \in Consumers \cup Writers, EnterData(p) \/ EnterCloseStdin(p)
      PROVE  [Contract!Next]_(Contract!contractVars)
  <2>1. /\ UNCHANGED <<opened, delivered, wire, cancelled, lost>> /\ Others(p)
        /\ pc[p] = "enter" /\ pc'[p] # "select"
    BY <1>1, <1>8, EnterLeaves
  <2>2. CASE p \in Consumers
    <3>1. Unseen /\ \A d \in Consumers \ {p} : pc'[d] = pc[d]
      BY <1>1, <2>1, UnseenWhen DEF Others
    <3> QED
      BY <2>1, <2>2, <3>1, CallReturns
  <2>3. CASE p \in Writers
    <3>1. \A d \in Consumers : pc'[d] = pc[d]
      BY <1>1, <2>1, <2>3 DEF Others
    <3> QED
      BY <2>1, <3>1, UnseenWhen, NoCallerMoves, NothingSeen
  <2> QED
    BY <2>2, <2>3
<1>9. ASSUME NEW p \in Consumers \cup Writers, SendData(p) \/ SendCloseStdin(p)
      PROVE  [Contract!Next]_(Contract!contractVars)
  <2>1. /\ pc[p] = "send" /\ Others(p) /\ pc'[p] \in {"record", "idle", "again", "enter"}
    BY <1>1, <1>9, SendLeaves
  <2>2. \/ p \in Writers /\ p \notin Consumers
        \/ p \in Consumers /\ pc'[p] \in {"again", "enter"}
    <3>1. \A ok \in BOOLEAN : Ends(p, ok) => p \in Writers \/ pc'[p] \in {"again", "enter"}
      BY DEF Ends
    <3> QED
      BY <1>1, <1>9, <3>1, SendDoes
  <2>3. UNCHANGED <<Calling, Waiting>>
    <3>1. CASE p \in Writers /\ p \notin Consumers
      <4>1. \A d \in Consumers : pc'[d] = pc[d]
        BY <1>1, <2>1, <3>1 DEF Others
      <4> QED
        BY <4>1, NoCallerMoves
    <3>2. CASE p \in Consumers /\ pc'[p] \in {"again", "enter"}
      <4>1. \A d \in Consumers \ {p} : pc'[d] = pc[d]
        BY <1>1, <2>1 DEF Others
      <4> QED
        BY <2>1, <3>2, <4>1, CallerStays
    <3> QED
      BY <2>2, <3>1, <3>2
  <2> QED
    BY <1>9, <2>3, InputAccepted
<1>10. ASSUME NEW p \in Procs, LockSend(p) PROVE UNCHANGED Contract!contractVars
  <2>1. /\ UNCHANGED <<opened, delivered, wire, cancelled, lost>> /\ Others(p)
        /\ pc[p] \in {"lock", "closeLock"} /\ pc'[p] \in {"send", "closeSend"}
    BY <1>1, <1>10, LockDoes
  <2>2. UNCHANGED <<Calling, Waiting>>
    <3>1. CASE p \in Consumers
      <4>1. \A d \in Consumers \ {p} : pc'[d] = pc[d]
        BY <1>1, <2>1 DEF Others
      <4> QED
        BY <2>1, <3>1, <4>1, CallerStays
    <3>2. CASE p \notin Consumers
      <4>1. \A d \in Consumers : pc'[d] = pc[d]
        BY <1>1, <2>1, <3>2 DEF Others
      <4> QED
        BY <4>1, NoCallerMoves
    <3> QED
      BY <3>1, <3>2
  <2> QED
    BY <2>1, <2>2, UnseenWhen, NothingSeen
<1>11. ASSUME NEW x \in Closers, CloseCall(x) \/ CancelCall(x)
       PROVE  UNCHANGED Contract!contractVars
  <2>1. UNCHANGED <<opened, delivered, wire, cancelled, lost>> /\ Others(x)
    BY <1>1, <1>11, CloseDoes
  <2>2. \A d \in Consumers : pc'[d] = pc[d]
    BY <1>1, <2>1 DEF Others
  <2> QED
    BY <2>1, <2>2, UnseenWhen, NoCallerMoves, NothingSeen
<1>12. ASSUME NEW p \in Consumers \cup Closers, CloseMark(p) \/ CloseSend(p) \/ CloseWait(p)
       PROVE  [Contract!Next]_(Contract!contractVars)
  <2>1. /\ p \in Procs /\ cur[p] \in Streams /\ then[p] \in {"idle", "mark", "reissue"}
        /\ p \notin Consumers => then[p] = "idle"
    BY <1>1, TypesOf DEF RolesInv
  <2>2. /\ Others(p) /\ pc[p] \in ClosingSteps
        /\ pc'[p] \in {"closeLock", "closeWait"} \cup {then[p]}
        /\ UNCHANGED <<opened, delivered, lost>>
    <3>1. CASE CloseMark(p)
      BY <1>1, <3>1, CloseMarkDoes DEF ClosingSteps
    <3>2. CASE CloseSend(p)
      BY <1>1, <3>2, CloseSendDoes DEF ClosingSteps
    <3>3. CASE CloseWait(p)
      BY <1>1, <3>3, CloseWaitDoes DEF ClosingSteps
    <3> QED
      BY <1>12, <3>1, <3>2, <3>3
  <2>3. CASE Unseen
    <3>1. CASE p \in Consumers
      <4>1. \A d \in Consumers \ {p} : pc'[d] = pc[d]
        BY <1>1, <2>2 DEF Others
      <4>2. pc[p] \notin {"idle", "select"} /\ pc'[p] # "select"
        BY <2>1, <2>2 DEF ClosingSteps
      <4> QED
        BY <2>3, <3>1, <4>1, <4>2, CallReturns
    <3>2. CASE p \notin Consumers
      <4>1. \A d \in Consumers : pc'[d] = pc[d]
        BY <1>1, <2>2, <3>2 DEF Others
      <4> QED
        BY <2>3, <4>1, NoCallerMoves, NothingSeen
    <3> QED
      BY <3>1, <3>2
  <2>4. CASE CloseMark(p) /\ ~cancelled[cur[p]]
    <3>1. /\ pc[p] = "closeMark" /\ pc'[p] = "closeLock" /\ cancelled'[cur[p]]
          /\ Apart(cur[p], cancelled, cancelled') /\ UNCHANGED wire
      BY <1>1, <2>4, CloseMarkDoes
    <3>2. UNCHANGED <<Calling, Waiting>>
      <4>1. CASE p \in Consumers
        <5>1. \A d \in Consumers \ {p} : pc'[d] = pc[d]
          BY <1>1, <2>2 DEF Others
        <5> QED
          BY <3>1, <4>1, <5>1, CallerStays
      <4>2. CASE p \notin Consumers
        <5>1. \A d \in Consumers : pc'[d] = pc[d]
          BY <1>1, <2>2, <4>2 DEF Others
        <5> QED
          BY <5>1, NoCallerMoves
      <4> QED
        BY <4>1, <4>2
    <3>3. cur[p] \in 1 .. opened
      <4>1. cur[p] <= current /\ current <= opened /\ cur[p] \in Nat \ {0} /\ current \in Nat
            /\ opened \in Nat
        BY <1>1, <2>1, <3>1, TypesOf DEF CurrentInv, Streams
      <4> QED
        BY <4>1
    <3> QED
      BY <2>2, <2>4, <3>1, <3>2, <3>3, RunStopped
  <2>5. CASE CloseMark(p) /\ cancelled[cur[p]]
    <3>1. /\ cancelled'[cur[p]] /\ Apart(cur[p], cancelled, cancelled') /\ UNCHANGED wire
          /\ cancelled \in [Streams -> BOOLEAN] /\ cancelled' \in [Streams -> BOOLEAN]
      BY <1>1, <2>5, CloseMarkDoes, TypesOf DEF TypeOK, StreamType
    <3>2. \A i \in Streams : cancelled'[i] = cancelled[i]
      BY <2>1, <2>5, <3>1 DEF Apart
    <3>3. Unseen
      BY <2>2, <3>1, <3>2 DEF Unseen, Given, Accepted, NumbersOn, InputsOn, Stopped, Dropped
    <3> QED
      BY <2>3, <3>3
  <2>6. CASE CloseSend(p)
    BY <1>1, <2>3, <2>6, CancelUnseen
  <2>7. CASE CloseWait(p)
    <3>1. UNCHANGED <<opened, delivered, wire, cancelled, lost>>
      BY <1>1, <2>7, CloseWaitDoes
    <3> QED
      BY <2>3, <3>1, UnseenWhen
  <2> QED
    BY <1>12, <2>4, <2>5, <2>6, <2>7
<1>13. ASSUME NEW i \in Streams, RecvResponse(i) \/ RecvError(i)
       PROVE  UNCHANGED Contract!contractVars
  <2>1. UNCHANGED <<opened, delivered, wire, cancelled, lost, pc>>
    BY <1>1, <1>13, RecvDoes
  <2> QED
    BY <2>1, UnseenWhen, NoCallerMoves, NothingSeen
<1>14. ASSUME NEW i \in Streams, Emit(i) \/ GiveUp(i)
       PROVE  [Contract!Next]_(Contract!contractVars)
  <2>1. /\ UNCHANGED <<opened, delivered, wire, cancelled, pc>> /\ Apart(i, lost, lost')
        /\ lost'[i] = lost[i] \/ lost'[i]
        /\ reader[i] = "emit"
    BY <1>1, <1>14, EmitDoes
  <2>2. UNCHANGED <<Calling, Waiting>>
    BY <2>1, NoCallerMoves
  <2>3. CASE ~lost[i] /\ lost'[i]
    <3>1. i \in 1 .. opened
      BY <1>1, <2>1, TypesOf DEF ReadersInv, Streams
    <3> QED
      BY <2>1, <2>2, <2>3, <3>1, EventDropped
  <2>4. CASE ~(~lost[i] /\ lost'[i])
    <3>1. lost \in [Streams -> BOOLEAN] /\ lost' \in [Streams -> BOOLEAN]
      BY <1>1 DEF TypeOK, HistoryType
    <3>2. \A k \in Streams : lost'[k] = lost[k]
      BY <2>1, <2>4, <3>1 DEF Apart
    <3>3. Unseen
      BY <2>1, <3>2 DEF Unseen, Given, Accepted, NumbersOn, InputsOn, Stopped, Dropped
    <3> QED
      BY <2>2, <3>3, NothingSeen
  <2> QED
    BY <2>3, <2>4
<1>15. ASSUME NEW i \in Streams, GuestStep(i) \/ ContextExpires(i)
       PROVE  UNCHANGED Contract!contractVars
  <2>1. UNCHANGED <<opened, delivered, wire, cancelled, lost, pc>>
    BY <1>1, <1>15, GuestDoes
  <2> QED
    BY <2>1, UnseenWhen, NoCallerMoves, NothingSeen
<1>16. CASE DeadlinePasses \/ CapabilityExpires \/ UNCHANGED vars
  <2>1. UNCHANGED <<opened, delivered, wire, cancelled, lost, pc>>
    BY <1>16, TimeDoes
  <2> QED
    BY <2>1, UnseenWhen, NoCallerMoves, NothingSeen
<1> QED
  BY <1>2, <1>3, <1>4, <1>5, <1>6, <1>7, <1>8, <1>9, <1>10, <1>11, <1>12, <1>13, <1>14,
     <1>15, <1>16, StepCases

\* Every behaviour of a session is one of its contract: to its callers the
\* streams, locks and reader goroutines of session.go are one command, run
\* again once at most and only after a refusal, whose events each go to one
\* caller, and which one goroutine may write to in order.
THEOREM SessionKeepsContract == Spec => KeepsContract
BY ContractInit, ContractStep, InputInvariant, PTL DEF Spec, KeepsContract, Contract!Spec
=============================================================================
