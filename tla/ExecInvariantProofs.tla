------------------------- MODULE ExecInvariantProofs -------------------------
(* SessionInv holds of every ExecSession, and what follows from it of the   *)
(* events Next returns and of the streams a session leaves running.  Each   *)
(* part of the invariant has a lemma that says which parts its steps need.  *)
EXTENDS ExecInvariants, ExecSessionProofs, SequenceTheorems

\* Where Next goes from there.
LEMMA TakeLeads ==
  ASSUME TypeOK, NEW c \in Consumers, Take(c)
  PROVE  /\ c \in Procs /\ cur[c] \in Streams
         /\ Head(events[cur[c]]) \in Events
         /\ \/ /\ pc'[c] = "mark"
               /\ retried[c] \/ Head(events[cur[c]]).kind \in {"output", "exit", "end"}
            \/ pc'[c] = "rejected" /\ Head(events[cur[c]]).kind = "rejected"
            \/ /\ pc'[c] = "idle"
               /\ Head(events[cur[c]]).kind \notin {"output", "exit", "end"}
<1>1. c \in Procs /\ cur[c] \in Streams
  BY TypesOf DEF Procs
<1>2. events[cur[c]] \in Seq(Events) /\ events[cur[c]] # <<>>
  BY <1>1, TakeDoes, SeqTypesOf
<1>3. Head(events[cur[c]]) \in Events
  BY <1>2
<1> QED
  BY <1>1, <1>3, TakeDoes, AfterTakeGoes

\* The steps that callers of each kind take.
LEMMA RolesStep == ASSUME TypeOK, RolesInv, [Next]_vars PROVE RolesInv'
<1>0. pc \in [Procs -> Steps] /\ then \in [Procs -> {"idle", "mark", "reissue"}]
  BY TypesOf
<1> USE <1>0, ProcsAssumption DEF ProcsAssumption, Procs, RolesInv, InputSteps,
        ClosingSteps,
    Others, Ends
<1>1. ASSUME NEW c \in Consumers, NextCall(c) \/ NextAgain(c) PROVE RolesInv'
  BY <1>1, BeginDoes
<1>2. ASSUME NEW c \in Consumers, Take(c) PROVE RolesInv'
  BY <1>2, TakeDoes, TakeLeads
<1>3. ASSUME NEW c \in Consumers, Expire(c) PROVE RolesInv'
  BY <1>3, ExpireDoes
<1>4. ASSUME NEW c \in Consumers, MarkStarted(c) PROVE RolesInv'
  BY <1>4, MarkDoes
<1>5. ASSUME NEW c \in Consumers, RefreshCheck(c) \/ SniffExpiry(c) PROVE RolesInv'
  BY <1>5, LookDoes
<1>6. ASSUME NEW c \in Consumers, CommitRefresh(c) PROVE RolesInv'
  BY <1>6, CommitDoes
<1>7. ASSUME NEW c \in Consumers, Reissue(c) \/ OpenFails(c) PROVE RolesInv'
  BY <1>7, ReissueDoes
<1>8. ASSUME NEW c \in Consumers, OpenStream(c) PROVE RolesInv'
  BY <1>8, OpenDoes
<1>9. ASSUME NEW c \in Consumers, SwapStream(c) PROVE RolesInv'
  BY <1>9, SwapDoes
<1>10. ASSUME NEW w \in Writers, InputCall(w) PROVE RolesInv'
  BY <1>10, InputCallDoes
<1>11. ASSUME NEW w \in Writers, RecordInput(w) PROVE RolesInv'
  BY <1>11, RecordDoes
<1>12. ASSUME NEW p \in Consumers \cup Writers, EnterData(p) \/ EnterCloseStdin(p)
       PROVE  RolesInv'
  BY <1>12, EnterDoes
<1>13. ASSUME NEW p \in Consumers \cup Writers, SendData(p) \/ SendCloseStdin(p)
       PROVE  RolesInv'
  BY <1>13, SendDoes
<1>14. ASSUME NEW p \in Procs, LockSend(p) PROVE RolesInv'
  BY <1>14, LockDoes
<1>15. ASSUME NEW x \in Closers, CloseCall(x) \/ CancelCall(x) PROVE RolesInv'
  BY <1>15, CloseDoes
<1>16. ASSUME NEW p \in Consumers \cup Closers, CloseMark(p) PROVE RolesInv'
  BY <1>16, CloseMarkDoes
<1>17. ASSUME NEW p \in Consumers \cup Closers, CloseSend(p) PROVE RolesInv'
  BY <1>17, CloseSendDoes
<1>18. ASSUME NEW p \in Consumers \cup Closers, CloseWait(p) PROVE RolesInv'
  BY <1>18, CloseWaitDoes
<1>19. ASSUME NEW i \in Streams, RecvResponse(i) \/ RecvError(i) PROVE RolesInv'
  BY <1>19, RecvDoes
<1>20. ASSUME NEW i \in Streams, Emit(i) \/ GiveUp(i) PROVE RolesInv'
  BY <1>20, EmitDoes
<1>21. ASSUME NEW i \in Streams, GuestStep(i) \/ ContextExpires(i) PROVE RolesInv'
  BY <1>21, GuestDoes
<1>22. CASE DeadlinePasses \/ CapabilityExpires \/ UNCHANGED vars
  BY <1>22, TimeDoes
<1> QED
  BY <1>1, <1>2, <1>3, <1>4, <1>5, <1>6, <1>7, <1>8, <1>9, <1>10, <1>11, <1>12, <1>13,
     <1>14, <1>15, <1>16, <1>17, <1>18, <1>19, <1>20, <1>21, <1>22, StepCases

\* Two streams at most, the second only by a refresh.
LEMMA CurrentStep ==
  ASSUME TypeOK, RolesInv, RefreshInv, StreamsInv, [Next]_vars
  PROVE  CurrentInv'
<1>0. /\ pc \in [Procs -> Steps] /\ cur \in [Procs -> Streams]
      /\ then \in [Procs -> {"idle", "mark", "reissue"}]
      /\ refreshed \in BOOLEAN /\ 1 \in Streams /\ 2 \in Streams
  BY TypesOf
<1> USE <1>0, ProcsAssumption DEF ProcsAssumption, Procs, StreamsInv, CurrentInv,
        RefreshingInv,
    Refreshing, Others, Ends, InputSteps, ClosingSteps
<1>1. ASSUME NEW c \in Consumers, NextCall(c) \/ NextAgain(c) PROVE CurrentInv'
  BY <1>1, BeginDoes
<1>2. ASSUME NEW c \in Consumers, Take(c) PROVE CurrentInv'
  BY <1>2, TakeDoes, TakeLeads
<1>3. ASSUME NEW c \in Consumers, Expire(c) PROVE CurrentInv'
  BY <1>3, ExpireDoes
<1>4. ASSUME NEW c \in Consumers, MarkStarted(c) PROVE CurrentInv'
  BY <1>4, MarkDoes
<1>5. ASSUME NEW c \in Consumers, RefreshCheck(c) \/ SniffExpiry(c) PROVE CurrentInv'
  BY <1>5, LookDoes
<1>6. ASSUME NEW c \in Consumers, CommitRefresh(c) PROVE CurrentInv'
  BY <1>6, CommitDoes
<1>7. ASSUME NEW c \in Consumers, Reissue(c) \/ OpenFails(c) PROVE CurrentInv'
  BY <1>7, ReissueDoes
<1>8. ASSUME NEW c \in Consumers, OpenStream(c) PROVE CurrentInv'
  BY <1>8, OpenDoes
<1>9. ASSUME NEW c \in Consumers, SwapStream(c) PROVE CurrentInv'
  <2>1. cur[c] = 2 /\ current = 1 /\ opened = 2 /\ current' = 2 /\ opened' = 2 /\ refreshed'
    BY <1>9, SwapDoes
  <2>2. ASSUME NEW p \in Procs PROVE cur'[p] <= 2
    <3>1. CASE p = c
      BY <2>1, <3>1, <1>9, SwapDoes
    <3>2. CASE p # c
      <4>1. cur[p] <= 1 /\ cur'[p] = cur[p]
        BY <2>1, <3>2, <1>9, SwapDoes
      <4> QED
        BY <4>1, BoundsAssumption DEF BoundsAssumption, Streams
    <3> QED
      BY <3>1, <3>2
  <2> QED
    BY <2>1, <2>2
<1>10. ASSUME NEW w \in Writers, InputCall(w) PROVE CurrentInv'
  BY <1>10, InputCallDoes
<1>11. ASSUME NEW w \in Writers, RecordInput(w) PROVE CurrentInv'
  BY <1>11, RecordDoes
<1>12. ASSUME NEW p \in Consumers \cup Writers, EnterData(p) \/ EnterCloseStdin(p)
       PROVE  CurrentInv'
  BY <1>12, EnterDoes
<1>13. ASSUME NEW p \in Consumers \cup Writers, SendData(p) \/ SendCloseStdin(p)
       PROVE  CurrentInv'
  BY <1>13, SendLeaves
<1>14. ASSUME NEW p \in Procs, LockSend(p) PROVE CurrentInv'
  BY <1>14, LockDoes
<1>15. ASSUME NEW x \in Closers, CloseCall(x) \/ CancelCall(x) PROVE CurrentInv'
  BY <1>15, CloseDoes
<1>16. ASSUME NEW p \in Consumers \cup Closers, CloseMark(p) PROVE CurrentInv'
  BY <1>16, CloseMarkDoes
<1>17. ASSUME NEW p \in Consumers \cup Closers, CloseSend(p) PROVE CurrentInv'
  BY <1>17, CloseSendDoes
<1>18. ASSUME NEW p \in Consumers \cup Closers, CloseWait(p) PROVE CurrentInv'
  BY <1>18, CloseWaitDoes
<1>19. ASSUME NEW i \in Streams, RecvResponse(i) \/ RecvError(i) PROVE CurrentInv'
  BY <1>19, RecvDoes
<1>20. ASSUME NEW i \in Streams, Emit(i) \/ GiveUp(i) PROVE CurrentInv'
  BY <1>20, EmitDoes
<1>21. ASSUME NEW i \in Streams, GuestStep(i) \/ ContextExpires(i) PROVE CurrentInv'
  BY <1>21, GuestDoes
<1>22. CASE DeadlinePasses \/ CapabilityExpires \/ UNCHANGED vars
  BY <1>22, TimeDoes
<1> QED
  BY <1>1, <1>2, <1>3, <1>4, <1>5, <1>6, <1>7, <1>8, <1>9, <1>10, <1>11, <1>12, <1>13,
     <1>14, <1>15, <1>16, <1>17, <1>18, <1>19, <1>20, <1>21, <1>22, StepCases

\* One goroutine refreshes, and only the one stream.
LEMMA RefreshingStep ==
  ASSUME TypeOK, RolesInv, RefreshInv, StreamsInv, [Next]_vars
  PROVE  RefreshingInv'
<1>0. /\ pc \in [Procs -> Steps] /\ cur \in [Procs -> Streams]
      /\ then \in [Procs -> {"idle", "mark", "reissue"}]
      /\ refreshed \in BOOLEAN /\ 1 \in Streams /\ 2 \in Streams
  BY TypesOf
<1> USE <1>0, ProcsAssumption DEF ProcsAssumption, Procs, StreamsInv, CurrentInv,
        RefreshingInv,
    Refreshing, Others, Ends, InputSteps, ClosingSteps, RefreshInv, OneStream
<1>1. ASSUME NEW c \in Consumers, NextCall(c) \/ NextAgain(c) PROVE RefreshingInv'
  BY <1>1, BeginDoes
<1>2. ASSUME NEW c \in Consumers, Take(c) PROVE RefreshingInv'
  BY <1>2, TakeDoes, TakeLeads
<1>3. ASSUME NEW c \in Consumers, Expire(c) PROVE RefreshingInv'
  BY <1>3, ExpireDoes
<1>4. ASSUME NEW c \in Consumers, MarkStarted(c) PROVE RefreshingInv'
  BY <1>4, MarkDoes
<1>5. ASSUME NEW c \in Consumers, RefreshCheck(c) \/ SniffExpiry(c) PROVE RefreshingInv'
  BY <1>5, LookDoes
<1>6. ASSUME NEW c \in Consumers, CommitRefresh(c) PROVE RefreshingInv'
  BY <1>6, CommitDoes
<1>7. ASSUME NEW c \in Consumers, Reissue(c) \/ OpenFails(c) PROVE RefreshingInv'
  BY <1>7, ReissueDoes
<1>8. ASSUME NEW c \in Consumers, OpenStream(c) PROVE RefreshingInv'
  BY <1>8, OpenDoes
<1>9. ASSUME NEW c \in Consumers, SwapStream(c) PROVE RefreshingInv'
  BY <1>9, SwapDoes
<1>10. ASSUME NEW w \in Writers, InputCall(w) PROVE RefreshingInv'
  BY <1>10, InputCallDoes
<1>11. ASSUME NEW w \in Writers, RecordInput(w) PROVE RefreshingInv'
  BY <1>11, RecordDoes
<1>12. ASSUME NEW p \in Consumers \cup Writers, EnterData(p) \/ EnterCloseStdin(p)
       PROVE  RefreshingInv'
  BY <1>12, EnterDoes
<1>13. ASSUME NEW p \in Consumers \cup Writers, SendData(p) \/ SendCloseStdin(p)
       PROVE  RefreshingInv'
  BY <1>13, SendLeaves
<1>14. ASSUME NEW p \in Procs, LockSend(p) PROVE RefreshingInv'
  BY <1>14, LockDoes
<1>15. ASSUME NEW x \in Closers, CloseCall(x) \/ CancelCall(x) PROVE RefreshingInv'
  BY <1>15, CloseDoes
<1>16. ASSUME NEW p \in Consumers \cup Closers, CloseMark(p) PROVE RefreshingInv'
  BY <1>16, CloseMarkDoes
<1>17. ASSUME NEW p \in Consumers \cup Closers, CloseSend(p) PROVE RefreshingInv'
  BY <1>17, CloseSendDoes
<1>18. ASSUME NEW p \in Consumers \cup Closers, CloseWait(p) PROVE RefreshingInv'
  BY <1>18, CloseWaitDoes
<1>19. ASSUME NEW i \in Streams, RecvResponse(i) \/ RecvError(i) PROVE RefreshingInv'
  BY <1>19, RecvDoes
<1>20. ASSUME NEW i \in Streams, Emit(i) \/ GiveUp(i) PROVE RefreshingInv'
  BY <1>20, EmitDoes
<1>21. ASSUME NEW i \in Streams, GuestStep(i) \/ ContextExpires(i) PROVE RefreshingInv'
  BY <1>21, GuestDoes
<1>22. CASE DeadlinePasses \/ CapabilityExpires \/ UNCHANGED vars
  BY <1>22, TimeDoes
<1> QED
  BY <1>1, <1>2, <1>3, <1>4, <1>5, <1>6, <1>7, <1>8, <1>9, <1>10, <1>11, <1>12, <1>13,
     <1>14, <1>15, <1>16, <1>17, <1>18, <1>19, <1>20, <1>21, <1>22, StepCases

\* Of a sequence and the rest of it.
LEMMA MoveHead ==
  ASSUME NEW S, NEW s \in Seq(S), NEW t \in Seq(S), t # <<>>
  PROVE  /\ Append(s, Head(t)) \o Tail(t) = s \o t
         /\ (s \o t)[Len(s) + 1] = Head(t)
         /\ Len(s) + 1 \in 1 .. Len(s \o t)
OBVIOUS

\* Emitting does not touch what was taken before.
LEMMA AppendRight ==
  ASSUME NEW S, NEW s \in Seq(S), NEW t \in Seq(S), NEW e \in S
  PROVE  s \o Append(t, e) = Append(s \o t, e)
OBVIOUS

\* The first part of two is unchanged.
LEMMA PrefixOfConcat ==
  ASSUME NEW S, NEW s \in Seq(S), NEW t \in Seq(S)
  PROVE  /\ Len(s) \in Nat /\ Len(t) \in Nat /\ Len(s \o t) = Len(s) + Len(t)
         /\ Len(s \o t) \in Nat /\ Len(s) <= Len(s \o t)
         /\ \A j \in 1 .. Len(s) : (s \o t)[j] = s[j]
BY ConcatProperties, LenProperties

\* A sequence of length one is its element.
LEMMA SequenceOfOne ==
  ASSUME NEW S, NEW s \in Seq(S), Len(s) = 1
  PROVE  s = <<s[1]>>
OBVIOUS

\* Nothing follows the only element.
LEMMA TailOfOne ==
  ASSUME NEW S, NEW t \in Seq(S), Len(t) = 1
  PROVE  Tail(t) = <<>>
<1>1. t # <<>>
  <2>1. Len(<<>>) # 1
    OBVIOUS
  <2> QED
    BY <2>1, Zenon
<1>2. Tail(t) \in Seq(S) /\ Len(Tail(t)) = 0
  BY <1>1, HeadTailProperties
<1> QED
  BY <1>2, EmptySeq

\* A rejection on its way to a refresh was the last of the first stream.
LEMMA RefusedStep ==
  ASSUME TypeOK, RolesInv, RefreshInv, StreamsInv, DeliveryInv, [Next]_vars
  PROVE  RefusedInv'
<1>0. /\ pc \in [Procs -> Steps] /\ cur \in [Procs -> Streams]
      /\ then \in [Procs -> {"idle", "mark", "reissue"}] /\ refreshed \in BOOLEAN /\ 1 \in Streams /\ 2 \in Streams
      /\ over \in [Streams -> BOOLEAN] /\ reader \in [Streams -> {"none", "recv", "emit", "done"}]
  BY TypesOf
<1>a. /\ events \in [Streams -> Seq(Events)] /\ delivered \in [Streams -> Seq(Events)]
  BY SeqTypesOf
<1> USE <1>0, ProcsAssumption DEF ProcsAssumption, Procs, StreamsInv, CurrentInv,
        RefreshingInv, RefusedInv,
    RefusedFirst, HoldsRejection, Others, Ends, Apart, InputSteps, ClosingSteps
<1>1. ASSUME NEW c \in Consumers, NextCall(c) \/ NextAgain(c) PROVE RefusedInv'
  BY <1>1, BeginDoes
<1>2. ASSUME NEW c \in Consumers, Take(c) PROVE RefusedInv'
  <2> DEFINE i == cur[c]
  <2>1. c \in Procs /\ i \in Streams
    BY <1>2, TakeLeads
  <2>2. CASE refreshed \/ \E d \in Consumers : HoldsRejection(d)
    <3>1. RefusedFirst
      BY <2>2
    <3>2. i # 1
      BY <3>1, <1>2, TakeDoes
    <3> QED
      BY <3>1, <3>2, <2>1, <1>2, TakeDoes
  <2>3. CASE ~refreshed /\ ~\E d \in Consumers : HoldsRejection(d)
    <3>1. CASE Head(events[i]).kind = "rejected"
      <4>1. i = 1
        BY <2>1, <2>3 DEF RefreshInv, OneStream
      <4>2. events[1] # <<>> /\ events[1] \in Seq(Events) /\ delivered[1] \in Seq(Events)
        <5>1. events[1] # <<>>
          BY <1>2, <4>1, TakeDoes
        <5> QED
          BY <5>1, <1>a, <1>0
      <4>3. Len(events[1]) = 1 /\ reader[1] = "done"
        <5>1. 1 \in 1 .. Len(events[1]) /\ events[1][1] = Head(events[1])
          BY <4>2
        <5>2. RejectionIsLast
          BY <2>3 DEF RefreshInv
        <5>3. events[1][1].kind = "rejected"
          BY <5>1, <3>1, <4>1
        <5> QED
          BY ONLY <5>1, <5>2, <5>3 DEF RejectionIsLast
      <4>4. over[1] /\ Head(events[1]) = Event("rejected")
        <5>1. /\ Emitted(1)[Len(delivered[1]) + 1] = Head(events[1])
              /\ Len(delivered[1]) + 1 \in 1 .. Len(Emitted(1))
          BY ONLY <4>2, MoveHead DEF Emitted
        <5>2. Head(events[1]) \in Events
          BY <4>2
        <5> QED
          <6>1. Emitted(1)[Len(delivered[1]) + 1].kind = "rejected"
            BY ONLY <5>1, <3>1, <4>1
          <6>2. over[1] /\ Head(events[1]).n = 0
            BY ONLY <5>1, <6>1, <1>0, DeliveryInv DEF DeliveryInv, EmittedOf, EmittedAt
          <6> QED
            BY ONLY <5>2, <6>2, <3>1, <4>1 DEF Events, Event
      <4>5. /\ events'[1] = <<>> /\ delivered'[1] = Append(delivered[1], Event("rejected"))
            /\ reader'[1] = "done" /\ over'[1]
        <5>1. Tail(events[1]) = <<>>
          BY ONLY <4>2, <4>3, TailOfOne
        <5>2. /\ events'[1] = Tail(events[1])
              /\ delivered'[1] = Append(delivered[1], Head(events[1]))
              /\ UNCHANGED <<reader, over>>
          BY <1>2, <4>1, TakeDoes
        <5> QED
          BY <5>1, <5>2, <4>3, <4>4
      <4>6. /\ delivered'[1] # <<>>
            /\ delivered'[1][Len(delivered'[1])] = Event("rejected")
        <5>1. Event("rejected") \in Events
          BY <4>2, <4>4
        <5> QED
          BY <4>2, <4>5, <5>1
      <4> QED
        BY <4>5, <4>6
    <3>2. CASE Head(events[i]).kind # "rejected"
      BY <1>2, <2>1, <2>3, <3>2, TakeDoes, TakeLeads
    <3> QED
      BY <3>1, <3>2
  <2> QED
    BY <2>2, <2>3
<1>3. ASSUME NEW c \in Consumers, Expire(c) PROVE RefusedInv'
  BY <1>3, ExpireDoes
<1>4. ASSUME NEW c \in Consumers, MarkStarted(c) PROVE RefusedInv'
  BY <1>4, MarkDoes
<1>5. ASSUME NEW c \in Consumers, RefreshCheck(c) \/ SniffExpiry(c) PROVE RefusedInv'
  BY <1>5, LookDoes
<1>6. ASSUME NEW c \in Consumers, CommitRefresh(c) PROVE RefusedInv'
  BY <1>6, CommitDoes
<1>7. ASSUME NEW c \in Consumers, Reissue(c) \/ OpenFails(c) PROVE RefusedInv'
  BY <1>7, ReissueDoes
<1>8. ASSUME NEW c \in Consumers, OpenStream(c) PROVE RefusedInv'
  BY <1>8, OpenDoes
<1>9. ASSUME NEW c \in Consumers, SwapStream(c) PROVE RefusedInv'
  BY <1>9, SwapDoes
<1>10. ASSUME NEW w \in Writers, InputCall(w) PROVE RefusedInv'
  BY <1>10, InputCallDoes
<1>11. ASSUME NEW w \in Writers, RecordInput(w) PROVE RefusedInv'
  BY <1>11, RecordDoes
<1>12. ASSUME NEW p \in Consumers \cup Writers, EnterData(p) \/ EnterCloseStdin(p)
       PROVE  RefusedInv'
  BY <1>12, EnterDoes
<1>13. ASSUME NEW p \in Consumers \cup Writers, SendData(p) \/ SendCloseStdin(p)
       PROVE  RefusedInv'
  BY <1>13, SendDoes
<1>14. ASSUME NEW p \in Procs, LockSend(p) PROVE RefusedInv'
  BY <1>14, LockDoes
<1>15. ASSUME NEW x \in Closers, CloseCall(x) \/ CancelCall(x) PROVE RefusedInv'
  BY <1>15, CloseDoes
<1>16. ASSUME NEW p \in Consumers \cup Closers, CloseMark(p) PROVE RefusedInv'
  BY <1>16, CloseMarkDoes
<1>17. ASSUME NEW p \in Consumers \cup Closers, CloseSend(p) PROVE RefusedInv'
  BY <1>17, CloseSendDoes
<1>18. ASSUME NEW p \in Consumers \cup Closers, CloseWait(p) PROVE RefusedInv'
  BY <1>18, CloseWaitDoes
<1>19. ASSUME NEW i \in Streams, RecvResponse(i) \/ RecvError(i) PROVE RefusedInv'
  BY <1>19, RecvDoes
<1>20. ASSUME NEW i \in Streams, Emit(i) \/ GiveUp(i) PROVE RefusedInv'
  BY <1>20, EmitDoes, AfterEmitGoes
<1>21. ASSUME NEW i \in Streams, GuestStep(i) \/ ContextExpires(i) PROVE RefusedInv'
  BY <1>21, GuestDoes
<1>22. CASE DeadlinePasses \/ CapabilityExpires \/ UNCHANGED vars
  BY <1>22, TimeDoes
<1> QED
  BY <1>1, <1>2, <1>3, <1>4, <1>5, <1>6, <1>7, <1>8, <1>9, <1>10, <1>11, <1>12, <1>13,
     <1>14, <1>15, <1>16, <1>17, <1>18, <1>19, <1>20, <1>21, <1>22, StepCases

\* A cancelled stream is over, or the goroutine that cancelled it is about to
\* end it.
LEMMA CloseInvStep ==
  ASSUME TypeOK, RolesInv, RefreshInv, StreamsInv, CloseInv, [Next]_vars
  PROVE  CloseInv'
<1>0. /\ pc \in [Procs -> Steps] /\ cur \in [Procs -> Streams]
      /\ then \in [Procs -> {"idle", "mark", "reissue"}]
      /\ refreshed \in BOOLEAN /\ closed \in BOOLEAN /\ 1 \in Streams /\ 2 \in Streams
      /\ over \in [Streams -> BOOLEAN] /\ cancelled \in [Streams -> BOOLEAN]
  BY TypesOf
<1> USE <1>0, ProcsAssumption DEF ProcsAssumption, Procs, RolesInv, StreamsInv,
        CurrentInv, CloseInv,
    Others, Ends, Apart, InputSteps, ClosingSteps
<1>1. ASSUME NEW c \in Consumers, NextCall(c) \/ NextAgain(c) PROVE CloseInv'
  BY <1>1, BeginDoes
<1>2. ASSUME NEW c \in Consumers, Take(c) PROVE CloseInv'
  BY <1>2, TakeDoes, TakeLeads
<1>3. ASSUME NEW c \in Consumers, Expire(c) PROVE CloseInv'
  BY <1>3, ExpireDoes
<1>4. ASSUME NEW c \in Consumers, MarkStarted(c) PROVE CloseInv'
  BY <1>4, MarkDoes
<1>5. ASSUME NEW c \in Consumers, RefreshCheck(c) \/ SniffExpiry(c) PROVE CloseInv'
  BY <1>5, LookDoes
<1>6. ASSUME NEW c \in Consumers, CommitRefresh(c) PROVE CloseInv'
  BY <1>6, CommitDoes
<1>7. ASSUME NEW c \in Consumers, Reissue(c) \/ OpenFails(c) PROVE CloseInv'
  BY <1>7, ReissueDoes
<1>8. ASSUME NEW c \in Consumers, OpenStream(c) PROVE CloseInv'
  BY <1>8, OpenDoes
<1>9. ASSUME NEW c \in Consumers, SwapStream(c) PROVE CloseInv'
  BY <1>9, SwapDoes
<1>10. ASSUME NEW w \in Writers, InputCall(w) PROVE CloseInv'
  BY <1>10, InputCallDoes
<1>11. ASSUME NEW w \in Writers, RecordInput(w) PROVE CloseInv'
  BY <1>11, RecordDoes
<1>12. ASSUME NEW p \in Consumers \cup Writers, EnterData(p) \/ EnterCloseStdin(p)
       PROVE  CloseInv'
  BY <1>12, EnterDoes
<1>13. ASSUME NEW p \in Consumers \cup Writers, SendData(p) \/ SendCloseStdin(p)
       PROVE  CloseInv'
  <2>1. /\ pc[p] = "send" /\ p \in Procs /\ cur[p] \in Streams
        /\ pc'[p] \in {"record", "idle", "again", "enter"}
        /\ UNCHANGED <<cancelled, closed, refreshed, cur>>
    BY <1>13, SendLeaves
  <2>2. \A q \in Procs \ {p} : pc'[q] = pc[q]
    BY <1>13, SendLeaves
  <2>3. \/ UNCHANGED over
        \/ over'[cur[p]] = (over[cur[p]] \/ halfClosed[cur[p]])
    BY <1>13, SendDoes
  <2>4. \A i \in Streams : over[i] => over'[i]
    BY <2>3, <1>13, SendLeaves DEF Apart
  <2> QED
    BY <2>1, <2>2, <2>4
<1>14. ASSUME NEW p \in Procs, LockSend(p) PROVE CloseInv'
  BY <1>14, LockDoes
<1>15. ASSUME NEW x \in Closers, CloseCall(x) \/ CancelCall(x) PROVE CloseInv'
  BY <1>15, CloseDoes
<1>16. ASSUME NEW p \in Consumers \cup Closers, CloseMark(p) PROVE CloseInv'
  BY <1>16, CloseMarkDoes
<1>17. ASSUME NEW p \in Consumers \cup Closers, CloseSend(p) PROVE CloseInv'
  BY <1>17, CloseSendDoes
<1>18. ASSUME NEW p \in Consumers \cup Closers, CloseWait(p) PROVE CloseInv'
  BY <1>18, CloseWaitDoes
<1>19. ASSUME NEW i \in Streams, RecvResponse(i) \/ RecvError(i) PROVE CloseInv'
  BY <1>19, RecvDoes
<1>20. ASSUME NEW i \in Streams, Emit(i) \/ GiveUp(i) PROVE CloseInv'
  BY <1>20, EmitDoes
<1>21. ASSUME NEW i \in Streams, GuestStep(i) \/ ContextExpires(i) PROVE CloseInv'
  BY <1>21, GuestDoes
<1>22. CASE DeadlinePasses \/ CapabilityExpires \/ UNCHANGED vars
  BY <1>22, TimeDoes
<1> QED
  BY <1>1, <1>2, <1>3, <1>4, <1>5, <1>6, <1>7, <1>8, <1>9, <1>10, <1>11, <1>12, <1>13,
     <1>14, <1>15, <1>16, <1>17, <1>18, <1>19, <1>20, <1>21, <1>22, StepCases

\* Nothing is taken back.
Stays ==
  /\ closed => closed'
  /\ refreshed => refreshed'
  /\ responsesStarted => responsesStarted'
  /\ deadline => deadline'
  /\ \A i \in Streams :
       /\ cancelled[i] => cancelled'[i]
       /\ stdinClosed[i] => stdinClosed'[i]
       /\ halfClosed[i] => halfClosed'[i]
       /\ over[i] => over'[i]
       /\ lost[i] => lost'[i]
       /\ guest[i] = "ended" => guest'[i] = "ended"

\* What a session, a call or a stream has committed to no step takes back.
LEMMA NothingBack ==
  ASSUME TypeOK, [Next]_vars
  PROVE  Stays
<1>0. /\ cur \in [Procs -> Streams] /\ over \in [Streams -> BOOLEAN] /\ halfClosed \in [Streams -> BOOLEAN]
      /\ guest \in [Streams -> {"running", "ended"}] /\ lost \in [Streams -> BOOLEAN]
      /\ stdinClosed \in [Streams -> BOOLEAN] /\ cancelled \in [Streams -> BOOLEAN]
  BY TypesOf
<1> USE <1>0 DEF Procs, Stays, Apart
<1>1. ASSUME NEW c \in Consumers, NextCall(c) \/ NextAgain(c) PROVE Stays
  BY <1>1, BeginDoes
<1>2. ASSUME NEW c \in Consumers, Take(c) PROVE Stays
  BY <1>2, TakeDoes
<1>3. ASSUME NEW c \in Consumers, Expire(c) PROVE Stays
  BY <1>3, ExpireDoes
<1>4. ASSUME NEW c \in Consumers, MarkStarted(c) PROVE Stays
  BY <1>4, MarkDoes
<1>5. ASSUME NEW c \in Consumers, RefreshCheck(c) \/ SniffExpiry(c) PROVE Stays
  BY <1>5, LookDoes
<1>6. ASSUME NEW c \in Consumers, CommitRefresh(c) PROVE Stays
  BY <1>6, CommitDoes
<1>7. ASSUME NEW c \in Consumers, Reissue(c) \/ OpenFails(c) PROVE Stays
  BY <1>7, ReissueDoes
<1>8. ASSUME NEW c \in Consumers, OpenStream(c) PROVE Stays
  BY <1>8, OpenDoes
<1>9. ASSUME NEW c \in Consumers, SwapStream(c) PROVE Stays
  BY <1>9, SwapDoes
<1>10. ASSUME NEW w \in Writers, InputCall(w) PROVE Stays
  BY <1>10, InputCallDoes
<1>11. ASSUME NEW w \in Writers, RecordInput(w) PROVE Stays
  BY <1>11, RecordDoes
<1>12. ASSUME NEW p \in Consumers \cup Writers, EnterData(p) \/ EnterCloseStdin(p)
       PROVE  Stays
  <2>1. /\ cur[p] \in Streams /\ Apart(cur[p], stdinClosed, stdinClosed')
        /\ UNCHANGED <<closed, refreshed, responsesStarted, deadline, cancelled,
                       halfClosed, over, lost, guest>>
    BY <1>12, EnterLeaves
  <2>2. UNCHANGED stdinClosed \/ stdinClosed'[cur[p]]
    BY <1>12, EnterDoes
  <2> QED
    BY ONLY <2>1, <2>2 DEF Apart, Stays
<1>13. ASSUME NEW p \in Consumers \cup Writers, SendData(p) \/ SendCloseStdin(p) PROVE Stays
  <2>1. p \in Procs /\ cur[p] \in Streams
    OBVIOUS
  <2>2. (over[cur[p]] => over'[cur[p]]) /\ (halfClosed[cur[p]] => halfClosed'[cur[p]])
    <3>1. \/ UNCHANGED <<halfClosed, over>>
          \/ /\ UNCHANGED halfClosed
             /\ over'[cur[p]] = (over[cur[p]] \/ halfClosed[cur[p]])
          \/ UNCHANGED over /\ halfClosed'[cur[p]]
      BY <1>13, SendDoes
    <3> QED
      BY ONLY <3>1
  <2>3. /\ Apart(cur[p], over, over') /\ Apart(cur[p], halfClosed, halfClosed')
        /\ UNCHANGED <<closed, refreshed, responsesStarted, deadline, cancelled,
                       stdinClosed, lost, guest>>
    BY <1>13, SendDoes
  <2> QED
    BY ONLY <2>1, <2>2, <2>3 DEF Apart, Stays
<1>14. ASSUME NEW p \in Procs, LockSend(p) PROVE Stays
  BY <1>14, LockDoes
<1>15. ASSUME NEW x \in Closers, CloseCall(x) \/ CancelCall(x) PROVE Stays
  <2>1. closed => closed'
    BY <1>15 DEF CloseCall, CancelCall
  <2> QED
    BY <2>1, <1>15, CloseDoes
<1>16. ASSUME NEW p \in Consumers \cup Closers, CloseMark(p) PROVE Stays
  BY <1>16, CloseMarkDoes
<1>17. ASSUME NEW p \in Consumers \cup Closers, CloseSend(p) PROVE Stays
  BY <1>17, CloseSendDoes
<1>18. ASSUME NEW p \in Consumers \cup Closers, CloseWait(p) PROVE Stays
  BY <1>18, CloseWaitDoes
<1>19. ASSUME NEW i \in Streams, RecvResponse(i) \/ RecvError(i) PROVE Stays
  BY <1>19, RecvDoes
<1>20. ASSUME NEW i \in Streams, Emit(i) \/ GiveUp(i) PROVE Stays
  BY <1>20, EmitDoes
<1>21. ASSUME NEW i \in Streams, GuestStep(i) \/ ContextExpires(i) PROVE Stays
  BY <1>21, GuestDoes
<1>22. CASE DeadlinePasses \/ CapabilityExpires \/ UNCHANGED vars
  BY <1>22, TimeDoes
<1> QED
  BY <1>1, <1>2, <1>3, <1>4, <1>5, <1>6, <1>7, <1>8, <1>9, <1>10, <1>11, <1>12, <1>13,
     <1>14, <1>15, <1>16, <1>17, <1>18, <1>19, <1>20, <1>21, <1>22, StepCases

\* An input on its way to the transport was let in by its stream.
Entering(p) ==
  /\ pc[p] = "enter" /\ ~stdinClosed[cur[p]]
  /\ \/ Head(todo[p]).kind = "closeStdin" /\ stdinClosed'[cur[p]]
     \/ Head(todo[p]).kind # "closeStdin" /\ ~cancelled[cur[p]]
FromEntry ==
  \A p \in Procs : pc'[p] \in {"lock", "send"} =>
    /\ todo'[p] = todo[p] /\ cur'[p] = cur[p]
    /\ pc[p] \in {"lock", "send"} \/ Entering(p)

\* A call that is about to send was let in by the section of es.mu before.
LEMMA SendingFromEntry ==
  ASSUME TypeOK, [Next]_vars
  PROVE  FromEntry
<1>0. /\ pc \in [Procs -> Steps] /\ cur \in [Procs -> Streams]
      /\ then \in [Procs -> {"idle", "mark", "reissue"}]
  BY TypesOf
<1> USE <1>0 DEF Procs, FromEntry, Entering, Others, Ends
<1>1. ASSUME NEW c \in Consumers, NextCall(c) \/ NextAgain(c) PROVE FromEntry
  BY <1>1, BeginDoes
<1>2. ASSUME NEW c \in Consumers, Take(c) PROVE FromEntry
  BY <1>2, TakeDoes, TakeLeads
<1>3. ASSUME NEW c \in Consumers, Expire(c) PROVE FromEntry
  BY <1>3, ExpireDoes
<1>4. ASSUME NEW c \in Consumers, MarkStarted(c) PROVE FromEntry
  BY <1>4, MarkDoes
<1>5. ASSUME NEW c \in Consumers, RefreshCheck(c) \/ SniffExpiry(c) PROVE FromEntry
  BY <1>5, LookDoes
<1>6. ASSUME NEW c \in Consumers, CommitRefresh(c) PROVE FromEntry
  BY <1>6, CommitDoes
<1>7. ASSUME NEW c \in Consumers, Reissue(c) \/ OpenFails(c) PROVE FromEntry
  BY <1>7, ReissueDoes
<1>8. ASSUME NEW c \in Consumers, OpenStream(c) PROVE FromEntry
  BY <1>8, OpenDoes
<1>9. ASSUME NEW c \in Consumers, SwapStream(c) PROVE FromEntry
  BY <1>9, SwapDoes
<1>10. ASSUME NEW w \in Writers, InputCall(w) PROVE FromEntry
  BY <1>10, InputCallDoes
<1>11. ASSUME NEW w \in Writers, RecordInput(w) PROVE FromEntry
  BY <1>11, RecordDoes
<1>12. ASSUME NEW p \in Consumers \cup Writers, EnterData(p) \/ EnterCloseStdin(p)
       PROVE  FromEntry
  BY <1>12, EnterDoes
<1>13. ASSUME NEW p \in Consumers \cup Writers, SendData(p) \/ SendCloseStdin(p)
       PROVE  FromEntry
  BY <1>13, SendLeaves
<1>14. ASSUME NEW p \in Procs, LockSend(p) PROVE FromEntry
  BY <1>14, LockDoes
<1>15. ASSUME NEW x \in Closers, CloseCall(x) \/ CancelCall(x) PROVE FromEntry
  BY <1>15, CloseDoes
<1>16. ASSUME NEW p \in Consumers \cup Closers, CloseMark(p) PROVE FromEntry
  BY <1>16, CloseMarkDoes
<1>17. ASSUME NEW p \in Consumers \cup Closers, CloseSend(p) PROVE FromEntry
  BY <1>17, CloseSendDoes
<1>18. ASSUME NEW p \in Consumers \cup Closers, CloseWait(p) PROVE FromEntry
  BY <1>18, CloseWaitDoes
<1>19. ASSUME NEW i \in Streams, RecvResponse(i) \/ RecvError(i) PROVE FromEntry
  BY <1>19, RecvDoes
<1>20. ASSUME NEW i \in Streams, Emit(i) \/ GiveUp(i) PROVE FromEntry
  BY <1>20, EmitDoes
<1>21. ASSUME NEW i \in Streams, GuestStep(i) \/ ContextExpires(i) PROVE FromEntry
  BY <1>21, GuestDoes
<1>22. CASE DeadlinePasses \/ CapabilityExpires \/ UNCHANGED vars
  BY <1>22, TimeDoes
<1> QED
  BY <1>1, <1>2, <1>3, <1>4, <1>5, <1>6, <1>7, <1>8, <1>9, <1>10, <1>11, <1>12, <1>13,
     <1>14, <1>15, <1>16, <1>17, <1>18, <1>19, <1>20, <1>21, <1>22, StepCases

\* Frames are sent by who holds sendMu, on a stream that is not half-closed.
OnlySent ==
  \A i \in Streams :
    /\ \/ wire'[i] = wire[i]
       \/ /\ ~halfClosed[i]
          /\ \/ \E p \in Consumers \cup Writers :
                  /\ pc[p] = "send" /\ cur[p] = i /\ ~over[i]
                  /\ wire'[i] = Append(wire[i], Head(todo[p]))
             \/ wire'[i] = Append(wire[i], CancelFrame) /\ halfClosed'[i]
    /\ halfClosed'[i] =>
         \/ halfClosed[i]
         \/ \E p \in Consumers \cup Writers : pc[p] = "send" /\ cur[p] = i /\ Head(todo[p]).kind = "closeStdin"
         \/ \E p \in Consumers \cup Closers : pc[p] = "closeSend" /\ cur[p] = i

\* Only an input call or a close, with sendMu in hand, changes what was sent.
LEMMA SentByHolder ==
  ASSUME TypeOK, [Next]_vars
  PROVE  OnlySent
<1>0. /\ cur \in [Procs -> Streams] /\ \A p \in Consumers \cup Writers : p \in Procs
      /\ \A p \in Consumers \cup Closers : p \in Procs
  BY TypesOf DEF Procs
<1> USE <1>0 DEF OnlySent, Apart
<1>1. ASSUME NEW c \in Consumers, NextCall(c) \/ NextAgain(c) PROVE OnlySent
  BY <1>1, BeginDoes
<1>2. ASSUME NEW c \in Consumers, Take(c) PROVE OnlySent
  BY <1>2, TakeDoes
<1>3. ASSUME NEW c \in Consumers, Expire(c) PROVE OnlySent
  BY <1>3, ExpireDoes
<1>4. ASSUME NEW c \in Consumers, MarkStarted(c) PROVE OnlySent
  BY <1>4, MarkDoes
<1>5. ASSUME NEW c \in Consumers, RefreshCheck(c) \/ SniffExpiry(c) PROVE OnlySent
  BY <1>5, LookDoes
<1>6. ASSUME NEW c \in Consumers, CommitRefresh(c) PROVE OnlySent
  BY <1>6, CommitDoes
<1>7. ASSUME NEW c \in Consumers, Reissue(c) \/ OpenFails(c) PROVE OnlySent
  BY <1>7, ReissueDoes
<1>8. ASSUME NEW c \in Consumers, OpenStream(c) PROVE OnlySent
  BY <1>8, OpenDoes
<1>9. ASSUME NEW c \in Consumers, SwapStream(c) PROVE OnlySent
  BY <1>9, SwapDoes
<1>10. ASSUME NEW w \in Writers, InputCall(w) PROVE OnlySent
  BY <1>10, InputCallDoes
<1>11. ASSUME NEW w \in Writers, RecordInput(w) PROVE OnlySent
  BY <1>11, RecordDoes
<1>12. ASSUME NEW p \in Consumers \cup Writers, EnterData(p) \/ EnterCloseStdin(p)
       PROVE  OnlySent
  BY <1>12, EnterDoes
<1>13. ASSUME NEW p \in Consumers \cup Writers, SendData(p) \/ SendCloseStdin(p)
       PROVE  OnlySent
  <2> DEFINE i == cur[p]
  <2>1. \A k \in Streams \ {i} : wire'[k] = wire[k] /\ halfClosed'[k] = halfClosed[k]
    BY <1>13, SendDoes
  <2>2. \/ wire'[i] = wire[i]
        \/ pc[p] = "send" /\ ~halfClosed[i] /\ ~over[i] /\ wire'[i] = Append(wire[i], Head(todo[p]))
    BY <1>13, SendDoes
  <2>3. CASE Head(todo[p]).kind = "closeStdin"
    <3>1. pc[p] = "send" /\ p \in Consumers \cup Writers
      BY <1>13, SendDoes
    <3> QED
      BY ONLY <1>0, <2>1, <2>2, <2>3, <3>1 DEF OnlySent
  <2>4. CASE Head(todo[p]).kind # "closeStdin"
    <3>1. UNCHANGED halfClosed
      BY <2>4, <1>13, SendDoes
    <3> QED
      BY <2>1, <2>2, <3>1
  <2> QED
    BY <2>3, <2>4
<1>14. ASSUME NEW p \in Procs, LockSend(p) PROVE OnlySent
  BY <1>14, LockDoes
<1>15. ASSUME NEW x \in Closers, CloseCall(x) \/ CancelCall(x) PROVE OnlySent
  BY <1>15, CloseDoes
<1>16. ASSUME NEW p \in Consumers \cup Closers, CloseMark(p) PROVE OnlySent
  BY <1>16, CloseMarkDoes
<1>17. ASSUME NEW p \in Consumers \cup Closers, CloseSend(p) PROVE OnlySent
  BY <1>17, CloseSendDoes
<1>18. ASSUME NEW p \in Consumers \cup Closers, CloseWait(p) PROVE OnlySent
  BY <1>18, CloseWaitDoes
<1>19. ASSUME NEW i \in Streams, RecvResponse(i) \/ RecvError(i) PROVE OnlySent
  BY <1>19, RecvDoes
<1>20. ASSUME NEW i \in Streams, Emit(i) \/ GiveUp(i) PROVE OnlySent
  BY <1>20, EmitDoes
<1>21. ASSUME NEW i \in Streams, GuestStep(i) \/ ContextExpires(i) PROVE OnlySent
  BY <1>21, GuestDoes
<1>22. CASE DeadlinePasses \/ CapabilityExpires \/ UNCHANGED vars
  BY <1>22, TimeDoes
<1> QED
  BY <1>1, <1>2, <1>3, <1>4, <1>5, <1>6, <1>7, <1>8, <1>9, <1>10, <1>11, <1>12, <1>13,
     <1>14, <1>15, <1>16, <1>17, <1>18, <1>19, <1>20, <1>21, <1>22, StepCases

\* What is cancelled takes no more input.
LEMMA CancelledStep ==
  ASSUME TypeOK, CancelledCloses, [Next]_vars
  PROVE  CancelledCloses'
<1>0. /\ cur \in [Procs -> Streams]
      /\ stdinClosed \in [Streams -> BOOLEAN] /\ cancelled \in [Streams -> BOOLEAN]
  BY TypesOf
<1> USE <1>0 DEF Procs, CancelledCloses, Apart
<1>1. ASSUME NEW c \in Consumers, NextCall(c) \/ NextAgain(c) PROVE CancelledCloses'
  BY <1>1, BeginDoes
<1>2. ASSUME NEW c \in Consumers, Take(c) PROVE CancelledCloses'
  BY <1>2, TakeDoes
<1>3. ASSUME NEW c \in Consumers, Expire(c) PROVE CancelledCloses'
  BY <1>3, ExpireDoes
<1>4. ASSUME NEW c \in Consumers, MarkStarted(c) PROVE CancelledCloses'
  BY <1>4, MarkDoes
<1>5. ASSUME NEW c \in Consumers, RefreshCheck(c) \/ SniffExpiry(c) PROVE CancelledCloses'
  BY <1>5, LookDoes
<1>6. ASSUME NEW c \in Consumers, CommitRefresh(c) PROVE CancelledCloses'
  BY <1>6, CommitDoes
<1>7. ASSUME NEW c \in Consumers, Reissue(c) \/ OpenFails(c) PROVE CancelledCloses'
  BY <1>7, ReissueDoes
<1>8. ASSUME NEW c \in Consumers, OpenStream(c) PROVE CancelledCloses'
  BY <1>8, OpenDoes
<1>9. ASSUME NEW c \in Consumers, SwapStream(c) PROVE CancelledCloses'
  BY <1>9, SwapDoes
<1>10. ASSUME NEW w \in Writers, InputCall(w) PROVE CancelledCloses'
  BY <1>10, InputCallDoes
<1>11. ASSUME NEW w \in Writers, RecordInput(w) PROVE CancelledCloses'
  BY <1>11, RecordDoes
<1>12. ASSUME NEW p \in Consumers \cup Writers, EnterData(p) \/ EnterCloseStdin(p)
       PROVE  CancelledCloses'
  <2>1. UNCHANGED cancelled /\ Stays
    BY <1>12, EnterDoes, NothingBack
  <2> QED
    BY ONLY <2>1, CancelledCloses DEF CancelledCloses, Stays
<1>13. ASSUME NEW p \in Consumers \cup Writers, SendData(p) \/ SendCloseStdin(p)
       PROVE  CancelledCloses'
  <2>1. UNCHANGED <<cancelled, stdinClosed>>
    BY <1>13, SendDoes
  <2> QED
    BY ONLY <2>1, CancelledCloses DEF CancelledCloses
<1>14. ASSUME NEW p \in Procs, LockSend(p) PROVE CancelledCloses'
  BY <1>14, LockDoes
<1>15. ASSUME NEW x \in Closers, CloseCall(x) \/ CancelCall(x) PROVE CancelledCloses'
  BY <1>15, CloseDoes
<1>16. ASSUME NEW p \in Consumers \cup Closers, CloseMark(p) PROVE CancelledCloses'
  <2> DEFINE i == cur[p]
  <2>1. /\ i \in Streams /\ stdinClosed'[i] = (stdinClosed[i] \/ ~cancelled[i])
        /\ \A k \in Streams \ {i} : cancelled'[k] = cancelled[k] /\ stdinClosed'[k] = stdinClosed[k]
    BY <1>16, CloseMarkDoes
  <2> QED
    BY ONLY <2>1, <1>0, CancelledCloses DEF CancelledCloses
<1>17. ASSUME NEW p \in Consumers \cup Closers, CloseSend(p) PROVE CancelledCloses'
  BY <1>17, CloseSendDoes
<1>18. ASSUME NEW p \in Consumers \cup Closers, CloseWait(p) PROVE CancelledCloses'
  BY <1>18, CloseWaitDoes
<1>19. ASSUME NEW i \in Streams, RecvResponse(i) \/ RecvError(i) PROVE CancelledCloses'
  BY <1>19, RecvDoes
<1>20. ASSUME NEW i \in Streams, Emit(i) \/ GiveUp(i) PROVE CancelledCloses'
  BY <1>20, EmitDoes
<1>21. ASSUME NEW i \in Streams, GuestStep(i) \/ ContextExpires(i) PROVE CancelledCloses'
  BY <1>21, GuestDoes
<1>22. CASE DeadlinePasses \/ CapabilityExpires \/ UNCHANGED vars
  BY <1>22, TimeDoes
<1> QED
  BY <1>1, <1>2, <1>3, <1>4, <1>5, <1>6, <1>7, <1>8, <1>9, <1>10, <1>11, <1>12, <1>13,
     <1>14, <1>15, <1>16, <1>17, <1>18, <1>19, <1>20, <1>21, <1>22, StepCases

\* Whoever is about to close stdin has said so.
LEMMA ClosingStdinStep ==
  ASSUME TypeOK, ClosingStdin, [Next]_vars
  PROVE  ClosingStdin'
<1>1. FromEntry /\ Stays
  BY SendingFromEntry, NothingBack
<1>2. \A p \in Procs : cur[p] \in Streams
  BY TypesOf
<1> QED
  BY ONLY <1>1, <1>2, ClosingStdin DEF ClosingStdin, FromEntry, Entering, Stays

\* A cancel frame is the last of its stream.
LEMMA WireStep ==
  ASSUME TypeOK, CloseInv, ClosingStdin, CancelledCloses, WireInv, [Next]_vars
  PROVE  WireInv'
<1>1. OnlySent /\ Stays
  BY SentByHolder, NothingBack
<1>2. /\ \A p \in Procs : cur[p] \in Streams
      /\ Consumers \cup Writers \subseteq Procs /\ Consumers \cup Closers \subseteq Procs
      /\ wire \in [Streams -> Seq(Frames)]
      /\ todo \in [Procs -> Seq(Inputs)]
      /\ \A p \in Procs : pc[p] = "send" => todo[p] # <<>>
  BY TypesOf, SeqTypesOf DEF Procs
<1>3. ASSUME NEW i \in Streams
      PROVE  \A j \in 1 .. Len(wire'[i]) :
               wire'[i][j] \in Inputs \/ (wire'[i][j] = CancelFrame /\ j = Len(wire'[i]) /\ halfClosed'[i])
  <2>0. wire[i] \in Seq(Frames)
    BY <1>2
  <2>1. CASE wire'[i] = wire[i]
    BY <2>1, <1>1 DEF WireInv, Stays
  <2>2. ASSUME ~halfClosed[i], NEW p \in Consumers \cup Writers, pc[p] = "send",
               wire'[i] = Append(wire[i], Head(todo[p]))
        PROVE  \A j \in 1 .. Len(wire'[i]) : wire'[i][j] \in Inputs
    <3>1. Head(todo[p]) \in Inputs
      BY <1>2, <2>2
    <3>2. Head(todo[p]) \in Frames
      BY <3>1 DEF Frames
    <3>3. \A j \in 1 .. Len(wire[i]) : wire[i][j] \in Inputs
      BY <2>2 DEF WireInv
    <3> QED
      BY ONLY <2>0, <2>2, <3>1, <3>2, <3>3
  <2>3. ASSUME ~halfClosed[i], halfClosed'[i], wire'[i] = Append(wire[i], CancelFrame)
        PROVE  \A j \in 1 .. Len(wire'[i]) :
                 wire'[i][j] \in Inputs \/ (wire'[i][j] = CancelFrame /\ j = Len(wire'[i]))
    <3>1. CancelFrame \in Frames
      BY DEF Frames
    <3>2. \A j \in 1 .. Len(wire[i]) : wire[i][j] \in Inputs
      BY <2>3 DEF WireInv
    <3> QED
      BY ONLY <2>0, <2>3, <3>1, <3>2
  <2> QED
    BY <1>1, <2>1, <2>2, <2>3 DEF OnlySent
<1>4. ASSUME NEW i \in Streams
      PROVE  halfClosed'[i] => stdinClosed'[i]
  <2>1. stdinClosed[i] => stdinClosed'[i]
    BY <1>1 DEF Stays
  <2>2. halfClosed[i] => stdinClosed[i]
    BY DEF WireInv
  <2>3. ASSUME NEW p \in Procs, cur[p] = i,
               (pc[p] = "send" /\ Head(todo[p]).kind = "closeStdin") \/ pc[p] = "closeSend"
        PROVE  stdinClosed[i]
    <3>1. CASE pc[p] = "send" /\ Head(todo[p]).kind = "closeStdin"
      BY ONLY <2>3, <3>1, ClosingStdin DEF ClosingStdin
    <3>2. CASE pc[p] = "closeSend"
      BY ONLY <2>3, <3>2, CloseInv, CancelledCloses DEF CloseInv, ClosingSteps,
         CancelledCloses
    <3> QED
      BY <2>3, <3>1, <3>2
  <2> QED
    BY ONLY <1>1, <1>2, <2>1, <2>2, <2>3 DEF OnlySent
<1> QED
  BY <1>3, <1>4 DEF WireInv

\* A stream is closed, and given input, by who has it in hand.
OnlyInHand ==
  \A i \in Streams :
    \/ UNCHANGED <<cancelled[i], stdinClosed[i], halfClosed[i], wire[i]>>
    \/ \E p \in Procs : cur[p] = i /\ pc[p] \in InputSteps \cup ClosingSteps

\* So it is for every step.
LEMMA ChangedInHand ==
  ASSUME TypeOK, [Next]_vars
  PROVE  OnlyInHand
<1>0. cur \in [Procs -> Streams]
  BY TypesOf
<1> USE <1>0 DEF Procs, OnlyInHand, Apart, InputSteps, ClosingSteps
<1>1. ASSUME NEW c \in Consumers, NextCall(c) \/ NextAgain(c) PROVE OnlyInHand
  BY <1>1, BeginDoes
<1>2. ASSUME NEW c \in Consumers, Take(c) PROVE OnlyInHand
  BY <1>2, TakeDoes
<1>3. ASSUME NEW c \in Consumers, Expire(c) PROVE OnlyInHand
  BY <1>3, ExpireDoes
<1>4. ASSUME NEW c \in Consumers, MarkStarted(c) PROVE OnlyInHand
  BY <1>4, MarkDoes
<1>5. ASSUME NEW c \in Consumers, RefreshCheck(c) \/ SniffExpiry(c) PROVE OnlyInHand
  BY <1>5, LookDoes
<1>6. ASSUME NEW c \in Consumers, CommitRefresh(c) PROVE OnlyInHand
  BY <1>6, CommitDoes
<1>7. ASSUME NEW c \in Consumers, Reissue(c) \/ OpenFails(c) PROVE OnlyInHand
  BY <1>7, ReissueDoes
<1>8. ASSUME NEW c \in Consumers, OpenStream(c) PROVE OnlyInHand
  BY <1>8, OpenDoes
<1>9. ASSUME NEW c \in Consumers, SwapStream(c) PROVE OnlyInHand
  BY <1>9, SwapDoes
<1>10. ASSUME NEW w \in Writers, InputCall(w) PROVE OnlyInHand
  BY <1>10, InputCallDoes
<1>11. ASSUME NEW w \in Writers, RecordInput(w) PROVE OnlyInHand
  BY <1>11, RecordDoes
<1>12. ASSUME NEW p \in Consumers \cup Writers, EnterData(p) \/ EnterCloseStdin(p)
       PROVE  OnlyInHand
  BY <1>12, EnterLeaves
<1>13. ASSUME NEW p \in Consumers \cup Writers, SendData(p) \/ SendCloseStdin(p)
       PROVE  OnlyInHand
  BY <1>13, SendLeaves
<1>14. ASSUME NEW p \in Procs, LockSend(p) PROVE OnlyInHand
  BY <1>14, LockDoes
<1>15. ASSUME NEW x \in Closers, CloseCall(x) \/ CancelCall(x) PROVE OnlyInHand
  BY <1>15, CloseDoes
<1>16. ASSUME NEW p \in Consumers \cup Closers, CloseMark(p) PROVE OnlyInHand
  BY <1>16, CloseMarkDoes
<1>17. ASSUME NEW p \in Consumers \cup Closers, CloseSend(p) PROVE OnlyInHand
  BY <1>17, CloseSendDoes
<1>18. ASSUME NEW p \in Consumers \cup Closers, CloseWait(p) PROVE OnlyInHand
  BY <1>18, CloseWaitDoes
<1>19. ASSUME NEW i \in Streams, RecvResponse(i) \/ RecvError(i) PROVE OnlyInHand
  BY <1>19, RecvDoes
<1>20. ASSUME NEW i \in Streams, Emit(i) \/ GiveUp(i) PROVE OnlyInHand
  BY <1>20, EmitDoes
<1>21. ASSUME NEW i \in Streams, GuestStep(i) \/ ContextExpires(i) PROVE OnlyInHand
  BY <1>21, GuestDoes
<1>22. CASE DeadlinePasses \/ CapabilityExpires \/ UNCHANGED vars
  BY <1>22, TimeDoes
<1> QED
  BY <1>1, <1>2, <1>3, <1>4, <1>5, <1>6, <1>7, <1>8, <1>9, <1>10, <1>11, <1>12, <1>13,
     <1>14, <1>15, <1>16, <1>17, <1>18, <1>19, <1>20, <1>21, <1>22, StepCases

\* A reader is started for each stream that is opened.
LEMMA ReadersStep ==
  ASSUME TypeOK, ReadersInv, [Next]_vars
  PROVE  ReadersInv'
<1>0. /\ reader \in [Streams -> {"none", "recv", "emit", "done"}]
      /\ Streams \subseteq Nat /\ opened \in Nat
  BY TypesOf, BoundsAssumption DEF BoundsAssumption, Streams
<1> USE <1>0 DEF ReadersInv, Apart
<1>1. ASSUME NEW c \in Consumers, NextCall(c) \/ NextAgain(c) PROVE ReadersInv'
  BY <1>1, BeginDoes
<1>2. ASSUME NEW c \in Consumers, Take(c) PROVE ReadersInv'
  BY <1>2, TakeDoes
<1>3. ASSUME NEW c \in Consumers, Expire(c) PROVE ReadersInv'
  BY <1>3, ExpireDoes
<1>4. ASSUME NEW c \in Consumers, MarkStarted(c) PROVE ReadersInv'
  BY <1>4, MarkDoes
<1>5. ASSUME NEW c \in Consumers, RefreshCheck(c) \/ SniffExpiry(c) PROVE ReadersInv'
  BY <1>5, LookDoes
<1>6. ASSUME NEW c \in Consumers, CommitRefresh(c) PROVE ReadersInv'
  BY <1>6, CommitDoes
<1>7. ASSUME NEW c \in Consumers, Reissue(c) \/ OpenFails(c) PROVE ReadersInv'
  BY <1>7, ReissueDoes
<1>8. ASSUME NEW c \in Consumers, OpenStream(c) PROVE ReadersInv'
  BY <1>8, OpenDoes
<1>9. ASSUME NEW c \in Consumers, SwapStream(c) PROVE ReadersInv'
  BY <1>9, SwapDoes
<1>10. ASSUME NEW w \in Writers, InputCall(w) PROVE ReadersInv'
  BY <1>10, InputCallDoes
<1>11. ASSUME NEW w \in Writers, RecordInput(w) PROVE ReadersInv'
  BY <1>11, RecordDoes
<1>12. ASSUME NEW p \in Consumers \cup Writers, EnterData(p) \/ EnterCloseStdin(p)
       PROVE  ReadersInv'
  BY <1>12, EnterLeaves
<1>13. ASSUME NEW p \in Consumers \cup Writers, SendData(p) \/ SendCloseStdin(p)
       PROVE  ReadersInv'
  BY <1>13, SendLeaves
<1>14. ASSUME NEW p \in Procs, LockSend(p) PROVE ReadersInv'
  BY <1>14, LockDoes
<1>15. ASSUME NEW x \in Closers, CloseCall(x) \/ CancelCall(x) PROVE ReadersInv'
  BY <1>15, CloseDoes
<1>16. ASSUME NEW p \in Consumers \cup Closers, CloseMark(p) PROVE ReadersInv'
  BY <1>16, CloseMarkDoes
<1>17. ASSUME NEW p \in Consumers \cup Closers, CloseSend(p) PROVE ReadersInv'
  BY <1>17, CloseSendDoes
<1>18. ASSUME NEW p \in Consumers \cup Closers, CloseWait(p) PROVE ReadersInv'
  BY <1>18, CloseWaitDoes
<1>19. ASSUME NEW i \in Streams, RecvResponse(i) \/ RecvError(i) PROVE ReadersInv'
  BY <1>19, RecvDoes
<1>20. ASSUME NEW i \in Streams, Emit(i) \/ GiveUp(i) PROVE ReadersInv'
  BY <1>20, EmitDoes
<1>21. ASSUME NEW i \in Streams, GuestStep(i) \/ ContextExpires(i) PROVE ReadersInv'
  BY <1>21, GuestDoes
<1>22. CASE DeadlinePasses \/ CapabilityExpires \/ UNCHANGED vars
  BY <1>22, TimeDoes
<1> QED
  BY <1>1, <1>2, <1>3, <1>4, <1>5, <1>6, <1>7, <1>8, <1>9, <1>10, <1>11, <1>12, <1>13,
     <1>14, <1>15, <1>16, <1>17, <1>18, <1>19, <1>20, <1>21, <1>22, StepCases

\* A stream is published once.
LEMMA CurrentGrows ==
  ASSUME TypeOK, StreamsInv, [Next]_vars
  PROVE  current \in Nat /\ current' \in Nat /\ current' >= current
<1>0. current \in {1, 2}
  BY DEF StreamsInv, CurrentInv
<1> USE <1>0
<1>1. ASSUME NEW c \in Consumers, NextCall(c) \/ NextAgain(c)
      PROVE  current' \in Nat /\ current' >= current
  BY <1>1, BeginDoes
<1>2. ASSUME NEW c \in Consumers, Take(c) PROVE current' \in Nat /\ current' >= current
  BY <1>2, TakeDoes
<1>3. ASSUME NEW c \in Consumers, Expire(c) PROVE current' \in Nat /\ current' >= current
  BY <1>3, ExpireDoes
<1>4. ASSUME NEW c \in Consumers, MarkStarted(c)
      PROVE  current' \in Nat /\ current' >= current
  BY <1>4, MarkDoes
<1>5. ASSUME NEW c \in Consumers, RefreshCheck(c) \/ SniffExpiry(c)
      PROVE  current' \in Nat /\ current' >= current
  BY <1>5, LookDoes
<1>6. ASSUME NEW c \in Consumers, CommitRefresh(c)
      PROVE  current' \in Nat /\ current' >= current
  BY <1>6, CommitDoes
<1>7. ASSUME NEW c \in Consumers, Reissue(c) \/ OpenFails(c)
      PROVE  current' \in Nat /\ current' >= current
  BY <1>7, ReissueDoes
<1>8. ASSUME NEW c \in Consumers, OpenStream(c)
      PROVE  current' \in Nat /\ current' >= current
  BY <1>8, OpenDoes
<1>9. ASSUME NEW c \in Consumers, SwapStream(c)
      PROVE  current' \in Nat /\ current' >= current
  <2>1. cur[c] = 2
    BY <1>9, SwapDoes DEF StreamsInv, RefreshingInv
  <2> QED
    BY <2>1, <1>9, SwapDoes
<1>10. ASSUME NEW w \in Writers, InputCall(w) PROVE current' \in Nat /\ current' >= current
  BY <1>10, InputCallDoes
<1>11. ASSUME NEW w \in Writers, RecordInput(w)
       PROVE  current' \in Nat /\ current' >= current
  BY <1>11, RecordDoes
<1>12. ASSUME NEW p \in Consumers \cup Writers, EnterData(p) \/ EnterCloseStdin(p)
       PROVE  current' \in Nat /\ current' >= current
  BY <1>12, EnterLeaves
<1>13. ASSUME NEW p \in Consumers \cup Writers, SendData(p) \/ SendCloseStdin(p)
       PROVE  current' \in Nat /\ current' >= current
  BY <1>13, SendLeaves
<1>14. ASSUME NEW p \in Procs, LockSend(p) PROVE current' \in Nat /\ current' >= current
  BY <1>14, LockDoes
<1>15. ASSUME NEW x \in Closers, CloseCall(x) \/ CancelCall(x)
       PROVE  current' \in Nat /\ current' >= current
  BY <1>15, CloseDoes
<1>16. ASSUME NEW p \in Consumers \cup Closers, CloseMark(p)
       PROVE  current' \in Nat /\ current' >= current
  BY <1>16, CloseMarkDoes
<1>17. ASSUME NEW p \in Consumers \cup Closers, CloseSend(p)
       PROVE  current' \in Nat /\ current' >= current
  BY <1>17, CloseSendDoes
<1>18. ASSUME NEW p \in Consumers \cup Closers, CloseWait(p)
       PROVE  current' \in Nat /\ current' >= current
  BY <1>18, CloseWaitDoes
<1>19. ASSUME NEW i \in Streams, RecvResponse(i) \/ RecvError(i)
       PROVE  current' \in Nat /\ current' >= current
  BY <1>19, RecvDoes
<1>20. ASSUME NEW i \in Streams, Emit(i) \/ GiveUp(i)
       PROVE  current' \in Nat /\ current' >= current
  BY <1>20, EmitDoes
<1>21. ASSUME NEW i \in Streams, GuestStep(i) \/ ContextExpires(i)
       PROVE  current' \in Nat /\ current' >= current
  BY <1>21, GuestDoes
<1>22. CASE DeadlinePasses \/ CapabilityExpires \/ UNCHANGED vars
  BY <1>22, TimeDoes
<1>23. current \in Nat
  BY <1>0
<1> QED
  BY <1>1, <1>2, <1>3, <1>4, <1>5, <1>6, <1>7, <1>8, <1>9, <1>10, <1>11, <1>12, <1>13,
     <1>14, <1>15, <1>16, <1>17, <1>18, <1>19, <1>20, <1>21, <1>22, <1>23, StepCases

\* A stream that is not published yet has been neither closed nor written to.
LEMMA UntouchedStep ==
  ASSUME TypeOK, StreamsInv, UntouchedInv, [Next]_vars
  PROVE  UntouchedInv'
<1>1. OnlyInHand /\ current' >= current /\ current \in Nat /\ current' \in Nat
  BY ChangedInHand, CurrentGrows
<1>2. ASSUME NEW p \in Procs, pc[p] \in InputSteps \cup ClosingSteps
      PROVE  cur[p] <= current
  BY <1>2 DEF StreamsInv, CurrentInv, InputSteps, ClosingSteps
<1>3. \A i \in Streams : i \in Nat
  BY BoundsAssumption DEF BoundsAssumption, Streams
<1> QED
  BY ONLY <1>1, <1>2, <1>3, UntouchedInv DEF OnlyInHand, UntouchedInv

(***************************************************************************)
(* What is on its way to the reader.                                       *)
(***************************************************************************)
\* Nothing is on its way.
LEMMA FollowsNothing ==
  ASSUME NEW t, Len(t) = 0, NEW o \in Nat
  PROVE  Outputs(t) = 0 /\ Follows(t, o)
<1>1. Outputs(t) = 0
  BY DEF Outputs
<1> QED
  BY <1>1 DEF Follows

\* The reader takes the next frame.
LEMMA FollowsTail ==
  ASSUME NEW s \in Seq(Events), NEW o \in Nat, s # <<>>, Follows(s, o)
  PROVE  /\ Follows(Tail(s), o)
         /\ Outputs(Tail(s)) \in Nat /\ Outputs(s) \in Nat
         /\ Outputs(Tail(s)) < Len(Tail(s)) => Outputs(s) < Len(s)
         /\ Head(s).kind = "output" =>
              Outputs(Tail(s)) = Outputs(s) - 1 /\ Head(s) = Output(o - Outputs(s) + 1)
         /\ Head(s).kind # "output" =>
              /\ Outputs(s) = 0 /\ Outputs(Tail(s)) = 0 /\ Len(s) = 1
              /\ Head(s).n = 0 /\ Head(s).kind # "end"
<1>1. /\ Len(s) \in Nat \ {0} /\ Tail(s) \in Seq(Events) /\ Len(Tail(s)) = Len(s) - 1
      /\ \A j \in 1 .. Len(Tail(s)) : Tail(s)[j] = s[j + 1]
      /\ Head(s) = s[1]
  BY HeadTailProperties, EmptySeq, LenProperties
<1>2. CASE Outputs(s) = 0
  <2>1. Len(s) = 1 /\ Head(s).kind # "output" /\ Len(Tail(s)) = 0
    BY <1>1, <1>2 DEF Outputs
  <2>2. Outputs(Tail(s)) = 0
    BY <2>1, FollowsNothing
  <2>3. Head(s).n = 0 /\ Head(s).kind # "end"
    BY <1>1, <1>2, <2>1 DEF Follows
  <2>4. Follows(Tail(s), o)
    BY <2>1, FollowsNothing
  <2> QED
    BY ONLY <1>2, <2>1, <2>2, <2>3, <2>4
<1>3. CASE Outputs(s) # 0
  <2>1. Outputs(s) \in 1 .. Len(s) /\ Head(s) = Output(o - Outputs(s) + 1)
    <3>1. Outputs(s) \in 1 .. Len(s)
      BY ONLY <1>1, <1>3 DEF Outputs
    <3>2. 1 \in 1 .. Outputs(s)
      BY <1>1, <3>1
    <3> QED
      BY <1>1, <3>1, <3>2 DEF Follows
  <2>2. Head(s).kind = "output"
    BY <2>1 DEF Output
  <2>3. Outputs(Tail(s)) = Outputs(s) - 1
    <3>1. CASE Len(s) = 1
      <4>1. Len(Tail(s)) = 0 /\ Outputs(s) = 1
        BY <1>1, <2>1, <3>1
      <4>2. Outputs(Tail(s)) = 0
        BY <4>1, FollowsNothing
      <4> QED
        BY <4>1, <4>2
    <3>2. CASE Len(s) > 1
      <4>1. Tail(s)[Len(Tail(s))] = s[Len(s)]
        BY <1>1, <3>2
      <4> QED
        BY <1>1, <3>2, <4>1 DEF Outputs
    <3> QED
      BY <1>1, <3>1, <3>2
  <2>4. \A j \in 1 .. Outputs(Tail(s)) : Tail(s)[j] = Output(o - Outputs(Tail(s)) + j)
    <3> SUFFICES ASSUME NEW j \in 1 .. Outputs(Tail(s))
                 PROVE  Tail(s)[j] = Output(o - Outputs(Tail(s)) + j)
      OBVIOUS
    <3>1. j \in 1 .. Len(Tail(s)) /\ j + 1 \in 1 .. Outputs(s)
      BY <1>1, <2>1, <2>3
    <3>2. s[j + 1] = Output(o - Outputs(s) + (j + 1))
      BY <3>1 DEF Follows
    <3>3. o - Outputs(s) + (j + 1) = o - Outputs(Tail(s)) + j
      BY <2>1, <2>3, <3>1
    <3> QED
      BY <1>1, <3>1, <3>2, <3>3
  <2>5. Outputs(Tail(s)) < Len(Tail(s)) =>
          Outputs(s) < Len(s) /\ Tail(s)[Len(Tail(s))] = s[Len(s)]
    BY <1>1, <2>1, <2>3
  <2> QED
    BY <1>1, <2>1, <2>2, <2>3, <2>4, <2>5 DEF Follows
<1> QED
  BY <1>2, <1>3

\* The guest writes one more output.
LEMMA FollowsOutput ==
  ASSUME NEW s \in Seq(Events), NEW o \in Nat, Follows(s, o), Outputs(s) = Len(s),
         Output(o + 1) \in Events
  PROVE  /\ Follows(Append(s, Output(o + 1)), o + 1)
         /\ Outputs(Append(s, Output(o + 1))) = Outputs(s) + 1
         /\ Len(Append(s, Output(o + 1))) = Outputs(s) + 1
<1> DEFINE t == Append(s, Output(o + 1))
<1>1. /\ Len(s) \in Nat /\ Len(t) = Len(s) + 1 /\ t[Len(s) + 1] = Output(o + 1)
      /\ \A j \in 1 .. Len(s) : t[j] = s[j]
  BY AppendProperties, LenProperties
<1>2. Outputs(t) = Len(s) + 1
  BY <1>1 DEF Outputs, Output
<1> HIDE DEF t
<1>3. \A j \in 1 .. Len(s) + 1 : t[j] = Output((o + 1) - (Len(s) + 1) + j)
  <2> SUFFICES ASSUME NEW j \in 1 .. Len(s) + 1
               PROVE  t[j] = Output((o + 1) - (Len(s) + 1) + j)
    OBVIOUS
  <2>1. CASE j \in 1 .. Len(s)
    <3>1. s[j] = Output(o - Len(s) + j)
      BY <2>1 DEF Follows
    <3>2. o - Len(s) + j = (o + 1) - (Len(s) + 1) + j
      BY <1>1
    <3> QED
      BY <1>1, <2>1, <3>1, <3>2
  <2>2. CASE j = Len(s) + 1
    <3>1. o + 1 = (o + 1) - (Len(s) + 1) + j
      BY <1>1, <2>2
    <3> QED
      BY <1>1, <2>2, <3>1
  <2> QED
    BY <1>1, <2>1, <2>2
<1> QED
  BY <1>1, <1>2, <1>3, SMTT(40) DEF Follows, t

\* The guest ends its stream.
LEMMA FollowsEnd ==
  ASSUME NEW s \in Seq(Events), NEW o \in Nat, Follows(s, o), Outputs(s) = Len(s),
         NEW k \in {"exit", "rejected", "failed", "malformed"}
  PROVE  Follows(Append(s, Event(k)), o) /\ Outputs(Append(s, Event(k))) = Outputs(s)
<1> DEFINE t == Append(s, Event(k))
<1>0. Event(k) \in Events
  BY BoundsAssumption DEF BoundsAssumption, Events, Event, EventKinds
<1>1. /\ Len(s) \in Nat /\ Len(t) = Len(s) + 1 /\ t[Len(s) + 1] = Event(k)
      /\ \A j \in 1 .. Len(s) : t[j] = s[j]
  BY <1>0, AppendProperties, LenProperties
<1>2. Outputs(t) = Len(s)
  BY <1>1 DEF Outputs, Event
<1> HIDE DEF t
<1>3. \A j \in 1 .. Outputs(t) : t[j] = Output(o - Outputs(t) + j)
  BY <1>1, <1>2 DEF Follows
<1>4. t[Len(t)].n = 0 /\ t[Len(t)].kind # "end"
  BY <1>1 DEF Event
<1>5. Follows(t, o)
  BY <1>2, <1>3, <1>4 DEF Follows
<1> QED
  BY <1>2, <1>5 DEF t

(***************************************************************************)
(* The events of a stream, from the guest to the caller.                   *)
(***************************************************************************)
\* What a step does to the events of stream i: nothing, ...
Rests(i) ==
  /\ Emitted(i)' = Emitted(i) /\ lost'[i] = lost[i] /\ held'[i] = held[i]
  /\ reader'[i] = reader[i] /\ down'[i] = down[i]
  /\ outs'[i] = outs[i] /\ guest'[i] = guest[i]
\* ... start its reader, ...
Starts(i) ==
  /\ reader[i] = "none" /\ reader'[i] = "recv"
  /\ Emitted(i)' = Emitted(i) /\ lost'[i] = lost[i]
  /\ down'[i] = down[i] /\ outs'[i] = outs[i] /\ guest'[i] = guest[i]
\* ... receive, ...
Receives(i) ==
  /\ reader[i] = "recv" /\ reader'[i] = "emit"
  /\ Emitted(i)' = Emitted(i) /\ lost'[i] = lost[i]
  /\ outs'[i] = outs[i] /\ guest'[i] = guest[i]
  /\ \/ /\ down[i] # <<>> /\ down'[i] = Tail(down[i])
        /\ \/ Head(down[i]).kind \in {"output", "exit"} /\ held'[i] = Head(down[i])
           \/ Head(down[i]).kind = "malformed" /\ held'[i] = Event("failed")
           \/ /\ Head(down[i]).kind \in {"rejected", "failed"} /\ over'[i]
              /\ IF cancelled[i] THEN held'[i] = Event("end")
                                 ELSE held'[i] = Event(Head(down[i]).kind)
     \/ /\ down'[i] = down[i]
        /\ IF cancelled[i] THEN held'[i] = Event("end") ELSE held'[i] = Event("failed")
\* ... emit or drop what is held, ...
Emits(i) ==
  /\ reader[i] = "emit"
  /\ \/ Emitted(i)' = Append(Emitted(i), held[i]) /\ lost'[i] = lost[i]
     \/ Emitted(i)' = Emitted(i) /\ lost'[i]
  /\ \/ held[i].kind = "exit" /\ held'[i] = Event("end") /\ reader'[i] = "emit"
     \/ held[i].kind = "output" /\ held'[i] = held[i] /\ reader'[i] = "recv"
     \/ held[i].kind \notin {"output", "exit"} /\ reader'[i] = "done"
  /\ down'[i] = down[i] /\ outs'[i] = outs[i] /\ guest'[i] = guest[i]
\* ... or write to it.
Serves(i) ==
  /\ reader[i] # "none" /\ guest[i] = "running"
  /\ Emitted(i)' = Emitted(i) /\ lost'[i] = lost[i] /\ held'[i] = held[i]
  /\ reader'[i] = reader[i]
  /\ \/ /\ outs'[i] = outs[i] + 1 /\ guest'[i] = guest[i]
        /\ down'[i] = Append(down[i], Output(outs[i] + 1))
     \/ /\ outs'[i] = outs[i] /\ guest'[i] = "ended"
        /\ \E k \in {"exit", "rejected", "failed", "malformed"} :
             down'[i] = Append(down[i], Event(k))

Moves ==
  \A i \in Streams : Rests(i) \/ Starts(i) \/ Receives(i) \/ Emits(i) \/ Serves(i)

\* A stream whose reader and guest do not move rests.
LEMMA UnchangedRests ==
  ASSUME UNCHANGED <<events, delivered, lost, held, reader, down, outs, guest>>
  PROVE  \A i : Rests(i)
BY DEF Rests, Emitted

\* Every step does one of these to every stream.
LEMMA EventsMove ==
  ASSUME TypeOK, ReadersInv, [Next]_vars
  PROVE  Moves
<1>0. /\ cur \in [Procs -> Streams] /\ opened \in Nat /\ Streams \subseteq Nat
      /\ events \in [Streams -> Seq(Events)] /\ delivered \in [Streams -> Seq(Events)]
      /\ held \in [Streams -> Events]
  <2>1. opened \in Nat /\ Streams \subseteq Nat
    BY TypesOf, BoundsAssumption DEF BoundsAssumption, Streams
  <2> QED
    BY <2>1, TypesOf, SeqTypesOf
<1> USE DEF Moves
<1>1. ASSUME NEW c \in Consumers, NextCall(c) \/ NextAgain(c) PROVE Moves
  BY <1>1, BeginDoes, UnchangedRests
<1>2. ASSUME NEW c \in Consumers, Take(c) PROVE Moves
  <2> DEFINE i == cur[c]
  <2>1. /\ i \in Streams /\ events[i] # <<>>
        /\ events[i] \in Seq(Events) /\ delivered[i] \in Seq(Events)
    BY <1>0, <1>2, TakeLeads, TakeDoes
  <2>2. /\ events'[i] = Tail(events[i]) /\ delivered'[i] = Append(delivered[i], Head(events[i]))
        /\ \A k \in Streams \ {i} : events'[k] = events[k] /\ delivered'[k] = delivered[k]
        /\ UNCHANGED <<lost, held, reader, down, outs, guest>>
    BY <1>2, TakeDoes DEF Apart
  <2>3. delivered'[i] \o events'[i] = delivered[i] \o events[i]
    <3>1. Append(delivered[i], Head(events[i])) \o Tail(events[i]) = delivered[i] \o events[i]
      BY ONLY <2>1, MoveHead
    <3> QED
      BY ONLY <2>2, <3>1
  <2>4. \A k \in Streams : Emitted(k)' = Emitted(k)
    BY <2>2, <2>3 DEF Emitted
  <2> QED
    BY <2>2, <2>4 DEF Rests
<1>3. ASSUME NEW c \in Consumers, Expire(c) PROVE Moves
  BY <1>3, ExpireDoes, UnchangedRests
<1>4. ASSUME NEW c \in Consumers, MarkStarted(c) PROVE Moves
  BY <1>4, MarkDoes, UnchangedRests
<1>5. ASSUME NEW c \in Consumers, RefreshCheck(c) \/ SniffExpiry(c) PROVE Moves
  BY <1>5, LookDoes, UnchangedRests
<1>6. ASSUME NEW c \in Consumers, CommitRefresh(c) PROVE Moves
  BY <1>6, CommitDoes, UnchangedRests
<1>7. ASSUME NEW c \in Consumers, Reissue(c) \/ OpenFails(c) PROVE Moves
  BY <1>7, ReissueDoes, UnchangedRests
<1>8. ASSUME NEW c \in Consumers, OpenStream(c) PROVE Moves
  <2>1. UNCHANGED <<events, delivered, lost, held, down, outs, guest>>
    BY <1>8, OpenDoes
  <2>2. /\ opened + 1 \in Streams /\ reader'[opened + 1] = "recv"
        /\ \A k \in Streams \ {opened + 1} : reader'[k] = reader[k]
    BY <1>8, OpenDoes DEF Apart
  <2>3. reader[opened + 1] = "none"
    BY <1>0, <2>2 DEF ReadersInv
  <2>4. \A k \in Streams : Emitted(k)' = Emitted(k)
    BY <2>1 DEF Emitted
  <2> QED
    BY <2>1, <2>2, <2>3, <2>4 DEF Rests, Starts
<1>9. ASSUME NEW c \in Consumers, SwapStream(c) PROVE Moves
  BY <1>9, SwapDoes, UnchangedRests
<1>10. ASSUME NEW w \in Writers, InputCall(w) PROVE Moves
  BY <1>10, InputCallDoes, UnchangedRests
<1>11. ASSUME NEW w \in Writers, RecordInput(w) PROVE Moves
  BY <1>11, RecordDoes, UnchangedRests
<1>12. ASSUME NEW p \in Consumers \cup Writers, EnterData(p) \/ EnterCloseStdin(p)
       PROVE  Moves
  BY <1>12, EnterLeaves, UnchangedRests
<1>13. ASSUME NEW p \in Consumers \cup Writers, SendData(p) \/ SendCloseStdin(p) PROVE Moves
  BY <1>13, SendLeaves, UnchangedRests
<1>14. ASSUME NEW p \in Procs, LockSend(p) PROVE Moves
  BY <1>14, LockDoes, UnchangedRests
<1>15. ASSUME NEW x \in Closers, CloseCall(x) \/ CancelCall(x) PROVE Moves
  BY <1>15, CloseDoes, UnchangedRests
<1>16. ASSUME NEW p \in Consumers \cup Closers, CloseMark(p) PROVE Moves
  BY <1>16, CloseMarkDoes, UnchangedRests
<1>17. ASSUME NEW p \in Consumers \cup Closers, CloseSend(p) PROVE Moves
  BY <1>17, CloseSendDoes, UnchangedRests
<1>18. ASSUME NEW p \in Consumers \cup Closers, CloseWait(p) PROVE Moves
  BY <1>18, CloseWaitDoes, UnchangedRests
<1>19. ASSUME NEW i \in Streams, RecvResponse(i) \/ RecvError(i) PROVE Moves
  <2>1. \A k \in Streams \ {i} : Rests(k)
    BY <1>19, RecvDoes DEF Apart, Rests, Emitted
  <2>2. Receives(i)
    <3>1. /\ reader[i] = "recv" /\ reader'[i] = "emit"
          /\ UNCHANGED <<delivered, events, lost, outs, guest>>
      BY <1>19, RecvDoes
    <3>2. Emitted(i)' = Emitted(i)
      BY ONLY <3>1 DEF Emitted
    <3>3. \/ /\ down[i] # <<>> /\ down'[i] = Tail(down[i])
             /\ \/ Head(down[i]).kind \in {"output", "exit"} /\ held'[i] = Head(down[i])
                \/ Head(down[i]).kind = "malformed" /\ held'[i] = Event("failed")
                \/ /\ Head(down[i]).kind \in {"rejected", "failed"} /\ over'[i]
                   /\ IF cancelled[i] THEN held'[i] = Event("end")
                                      ELSE held'[i] = Event(Head(down[i]).kind)
          \/ /\ down' = down
             /\ IF cancelled[i] THEN held'[i] = Event("end") ELSE held'[i] = Event("failed")
      BY <1>19, RecvDoes
    <3> QED
      BY ONLY <3>1, <3>2, <3>3 DEF Receives
  <2> QED
    BY <2>1, <2>2
<1>20. ASSUME NEW i \in Streams, Emit(i) \/ GiveUp(i) PROVE Moves
  <2>1. \A k \in Streams \ {i} : Rests(k)
    <3>1. /\ Apart(i, reader, reader') /\ Apart(i, held, held')
          /\ Apart(i, events, events') /\ Apart(i, lost, lost')
          /\ UNCHANGED <<delivered, down, outs, guest>>
      BY <1>20, EmitDoes
    <3> QED
      BY ONLY <3>1 DEF Apart, Rests, Emitted
  <2>2. /\ events[i] \in Seq(Events) /\ delivered[i] \in Seq(Events) /\ held[i] \in Events
        /\ delivered'[i] = delivered[i]
    BY <1>0, <1>20, EmitDoes
  <2>3. \/ events'[i] = Append(events[i], held[i]) /\ lost'[i] = lost[i]
        \/ events'[i] = events[i] /\ lost'[i]
    BY <1>20, EmitDoes
  <2>4. \/ Emitted(i)' = Append(Emitted(i), held[i]) /\ lost'[i] = lost[i]
        \/ Emitted(i)' = Emitted(i) /\ lost'[i]
    <3>1. delivered[i] \o Append(events[i], held[i]) = Append(delivered[i] \o events[i], held[i])
      <4>1. \A s, t \in Seq(Events), e \in Events : s \o Append(t, e) = Append(s \o t, e)
        BY AppendRight
      <4> QED
        BY ONLY <2>2, <4>1, Zenon
    <3> QED
      BY ONLY <2>2, <2>3, <3>1 DEF Emitted
  <2>5. Emits(i)
    BY <1>20, <2>4, EmitDoes DEF Emits
  <2> QED
    BY <2>1, <2>5
<1>21. ASSUME NEW i \in Streams, GuestStep(i) \/ ContextExpires(i) PROVE Moves
  <2>1. \A k \in Streams \ {i} : Rests(k)
    BY <1>21, GuestDoes DEF Apart, Rests, Emitted
  <2>2. reader[i] # "none"
    BY <1>0, <1>21, GuestDoes DEF ReadersInv
  <2>3. Rests(i) \/ Serves(i)
    BY <1>21, <2>2, GuestDoes DEF Rests, Serves, Emitted
  <2> QED
    BY <2>1, <2>3
<1>22. CASE DeadlinePasses \/ CapabilityExpires \/ UNCHANGED vars
  BY <1>22, TimeDoes, UnchangedRests
<1> QED
  BY <1>1, <1>2, <1>3, <1>4, <1>5, <1>6, <1>7, <1>8, <1>9, <1>10, <1>11, <1>12, <1>13,
     <1>14, <1>15, <1>16, <1>17, <1>18, <1>19, <1>20, <1>21, <1>22, StepCases

\* The types of one stream's events.
StreamEvents(i) ==
  /\ Emitted(i) \in Seq(Events) /\ held[i] \in Events /\ down[i] \in Seq(Events)
  /\ outs[i] \in Nat /\ outs[i] <= MaxOutputs /\ guest[i] \in {"running", "ended"}
  /\ reader[i] \in {"none", "recv", "emit", "done"}
  /\ lost[i] \in BOOLEAN /\ over[i] \in BOOLEAN /\ cancelled[i] \in BOOLEAN

\* They follow from the types of the variables.
LEMMA StreamEventsTyped == TypeOK => \A i \in Streams : StreamEvents(i)
<1> SUFFICES ASSUME TypeOK, NEW i \in Streams PROVE StreamEvents(i)
  OBVIOUS
<1>1. events[i] \in Seq(Events) /\ delivered[i] \in Seq(Events)
  BY SeqTypesOf
<1>2. delivered[i] \o events[i] \in Seq(Events)
  BY <1>1, ConcatProperties
<1>3. outs[i] \in Nat /\ outs[i] <= MaxOutputs
  BY SeqTypesOf, BoundsAssumption DEF BoundsAssumption
<1>4. held[i] \in Events /\ down[i] \in Seq(Events)
  BY SeqTypesOf
<1> QED
  BY <1>2, <1>3, <1>4, TypesOf DEF StreamEvents, Emitted

\* What the reader makes of what it receives.
LEMMA ReceivesWhat ==
  ASSUME NEW i \in Streams, StreamEvents(i), DownOf(i), Receives(i)
  PROVE  /\ DownOf(i)' /\ Heard(i) \in Nat /\ Heard(i)' \in Nat
         /\ \/ Heard(i)' = Heard(i) + 1 /\ held'[i] = Output(Heard(i)')
            \/ /\ Heard(i)' = Heard(i) /\ Heard(i) = outs[i] /\ guest[i] = "ended"
               /\ held'[i] = Event("exit")
            \/ /\ Heard(i)' = Heard(i)
               /\ \/ held'[i] = Event("failed")
                  \/ held'[i] = Event("rejected") /\ over'[i]
                  \/ held'[i] = Event("end") /\ cancelled[i]
<1> DEFINE s == down[i]
           o == outs[i]
<1>0. /\ s \in Seq(Events) /\ o \in Nat /\ Outputs(s) \in Nat /\ Outputs(s) <= o
      /\ Follows(s, o) /\ outs'[i] = o /\ guest'[i] = guest[i]
  <2>1. Len(s) \in Nat
    BY LenProperties DEF StreamEvents
  <2>2. Outputs(s) \in Nat
    BY <2>1 DEF Outputs
  <2> QED
    BY <2>2 DEF StreamEvents, DownOf, Follows, Receives
<1>1. CASE down'[i] = s /\ (IF cancelled[i] THEN held'[i] = Event("end")
                                            ELSE held'[i] = Event("failed"))
  <2>1. DownOf(i)' /\ Heard(i)' = Heard(i)
    BY <1>0, <1>1 DEF DownOf, Heard
  <2> QED
    BY <1>0, <1>1, <2>1 DEF Heard
<1>2. ASSUME s # <<>>, down'[i] = Tail(s)
      PROVE  /\ DownOf(i)' /\ Heard(i) \in Nat /\ Heard(i)' \in Nat
             /\ Head(s).kind = "output" =>
                  Heard(i)' = Heard(i) + 1 /\ Head(s) = Output(Heard(i)')
             /\ Head(s).kind # "output" =>
                  /\ Heard(i)' = Heard(i) /\ Heard(i) = outs[i] /\ guest[i] = "ended"
                  /\ Head(s).n = 0
  <2>1. /\ Follows(Tail(s), o)
        /\ Outputs(Tail(s)) \in Nat
        /\ Outputs(Tail(s)) < Len(Tail(s)) => Outputs(s) < Len(s)
        /\ Head(s).kind = "output" =>
              Outputs(Tail(s)) = Outputs(s) - 1 /\ Head(s) = Output(o - Outputs(s) + 1)
        /\ Head(s).kind # "output" =>
              /\ Outputs(s) = 0 /\ Outputs(Tail(s)) = 0 /\ Len(s) = 1
              /\ Head(s).n = 0
    BY ONLY <1>0, <1>2, FollowsTail
  <2>2. Outputs(Tail(s)) <= o
    BY <2>1 DEF Follows
  <2>3. DownOf(i)'
    BY <1>0, <1>2, <2>1 DEF DownOf
  <2>4. Heard(i) = o - Outputs(s) /\ Heard(i)' = o - Outputs(Tail(s))
    BY <1>0, <1>2 DEF Heard
  <2>5. Heard(i) \in Nat /\ Heard(i)' \in Nat
    BY <1>0, <2>1, <2>2, <2>4
  <2>6. CASE Head(s).kind = "output"
    <3>1. o - Outputs(Tail(s)) = (o - Outputs(s)) + 1
      BY <1>0, <2>1, <2>6
    <3> QED
      BY <2>1, <2>3, <2>4, <2>5, <2>6, <3>1
  <2>7. CASE Head(s).kind # "output"
    <3>1. Outputs(s) < Len(s)
      BY <2>1, <2>7
    <3>2. guest[i] = "ended"
      BY <3>1 DEF DownOf
    <3> QED
      BY <1>0, <2>1, <2>3, <2>4, <2>5, <2>7, <3>2
  <2> QED
    BY <2>6, <2>7
<1>3. ASSUME s # <<>>, down'[i] = Tail(s), held'[i] = Head(s), Head(s).kind \in {"output", "exit"}
      PROVE  \/ Heard(i)' = Heard(i) + 1 /\ held'[i] = Output(Heard(i)')
             \/ /\ Heard(i)' = Heard(i) /\ Heard(i) = outs[i] /\ guest[i] = "ended"
                /\ held'[i] = Event("exit")
  <2>1. Head(s) \in Events
    BY <1>0, <1>3
  <2>2. Head(s).kind = "exit" /\ Head(s).n = 0 => Head(s) = Event("exit")
    BY <2>1 DEF Events, Event
  <2> QED
    BY <1>2, <1>3, <2>2
<1> QED
  BY <1>1, <1>2, <1>3 DEF Receives

\* What is on its way stays in order, and no output is unheard.
LEMMA DownStep ==
  ASSUME NEW i \in Streams, StreamEvents(i), StreamEvents(i)', DownOf(i), HeldOf(i), Moves
  PROVE  /\ DownOf(i)' /\ Heard(i) \in Nat /\ Heard(i)' \in Nat /\ Heard(i) <= Heard(i)'
         /\ ~Receives(i) => Heard(i)' = Heard(i)
         /\ guest[i] = "ended" => outs'[i] = outs[i] /\ guest'[i] = "ended"
<1> DEFINE s == down[i]
           o == outs[i]
<1>0. /\ s \in Seq(Events) /\ o \in Nat /\ Len(s) \in Nat
      /\ Outputs(s) \in Nat /\ Outputs(s) <= o /\ Outputs(s) <= Len(s)
      /\ Follows(s, o) /\ Heard(i) = o - Outputs(s) /\ Heard(i) \in Nat
  <2>1. Len(s) \in Nat
    BY LenProperties DEF StreamEvents
  <2>2. Outputs(s) \in Nat /\ Outputs(s) <= Len(s)
    BY <2>1 DEF Outputs
  <2> QED
    BY <2>1, <2>2 DEF StreamEvents, DownOf, Follows, Heard
<1>1. CASE Receives(i)
  <2>1. guest'[i] = guest[i] /\ outs'[i] = outs[i]
    BY <1>1 DEF Receives
  <2> QED
    BY <1>0, <1>1, <2>1, ReceivesWhat
<1>2. CASE down'[i] = s /\ outs'[i] = o /\ guest'[i] = guest[i]
  <2>1. DownOf(i)' /\ Heard(i)' = Heard(i)
    BY <1>2 DEF DownOf, Heard
  <2> QED
    BY <1>0, <1>2, <2>1
<1>3. ASSUME guest[i] = "running", outs'[i] = o + 1, guest'[i] = guest[i],
             down'[i] = Append(s, Output(o + 1))
      PROVE  DownOf(i)' /\ Heard(i)' = Heard(i)
  <2>1. Outputs(s) = Len(s)
    BY <1>0, <1>3 DEF DownOf
  <2>2. Output(o + 1) \in Events
    BY <1>0, <1>3, BoundsAssumption DEF StreamEvents, BoundsAssumption, Output, Events,
       EventKinds
  <2>3. /\ Follows(down'[i], o + 1)
        /\ Outputs(down'[i]) = Outputs(s) + 1 /\ Len(down'[i]) = Outputs(s) + 1
    BY ONLY <1>0, <1>3, <2>1, <2>2, FollowsOutput
  <2>4. DownOf(i)'
    BY <1>0, <1>3, <2>3 DEF DownOf
  <2>5. Heard(i)' = (o + 1) - (Outputs(s) + 1)
    BY <1>3, <2>3 DEF Heard
  <2> QED
    BY <1>0, <2>4, <2>5
<1>4. ASSUME guest[i] = "running", outs'[i] = o, guest'[i] = "ended",
             NEW k \in {"exit", "rejected", "failed", "malformed"},
             down'[i] = Append(s, Event(k))
      PROVE  DownOf(i)' /\ Heard(i)' = Heard(i)
  <2>1. Outputs(s) = Len(s)
    BY <1>0, <1>4 DEF DownOf
  <2>2. Follows(Append(s, Event(k)), o) /\ Outputs(Append(s, Event(k))) = Outputs(s)
    BY ONLY <1>0, <2>1, FollowsEnd
  <2> QED
    BY <1>0, <1>4, <2>2 DEF DownOf, Heard
<1>5. CASE Serves(i)
  <2>1. guest[i] = "running"
    BY <1>5 DEF Serves
  <2>2. DownOf(i)' /\ Heard(i)' = Heard(i)
    BY <1>3, <1>4, <1>5 DEF Serves
  <2> QED
    BY <1>0, <2>1, <2>2
<1>6. \/ Receives(i) \/ Serves(i)
      \/ down'[i] = s /\ outs'[i] = o /\ guest'[i] = guest[i]
  BY DEF Moves, Rests, Starts, Emits
<1> QED
  BY <1>1, <1>2, <1>5, <1>6

\* One more event: the outputs stay outputs.
LEMMA AppendOutputs ==
  ASSUME NEW s \in Seq(Events), NEW e \in Events
  PROVE  /\ Append(s, e) \in Seq(Events) /\ Len(s) \in Nat /\ Len(Append(s, e)) = Len(s) + 1
         /\ Append(s, e)[Len(s) + 1] = e
         /\ \A j \in 1 .. Len(s) : Append(s, e)[j] = s[j]
         /\ AllOutputs(s) /\ e.kind = "output" => AllOutputs(Append(s, e))
<1>1. /\ Append(s, e) \in Seq(Events) /\ Len(s) \in Nat /\ Len(Append(s, e)) = Len(s) + 1
      /\ Append(s, e)[Len(s) + 1] = e
      /\ \A j \in 1 .. Len(s) : Append(s, e)[j] = s[j]
  BY AppendProperties, LenProperties
<1>2. ASSUME AllOutputs(s), e.kind = "output", NEW j \in 1 .. Len(s) + 1
      PROVE  Append(s, e)[j].kind = "output"
  BY <1>1, <1>2 DEF AllOutputs
<1> QED
  BY <1>1, <1>2 DEF AllOutputs

\* What was emitted stays true of the stream.
LEMMA EmittedStays ==
  ASSUME NEW i \in Streams, NEW E, NEW j, EmittedAt(i, E, j),
         StreamEvents(i), StreamEvents(i)', Stays,
         Heard(i) \in Nat, Heard(i)' \in Nat, Heard(i) <= Heard(i)',
         guest[i] = "ended" => outs'[i] = outs[i] /\ guest'[i] = "ended"
  PROVE  EmittedAt(i, E, j)'
<1>1. /\ E[j].kind \in EmittedKinds
      /\ E[j].kind # "output" => E[j].n = 0
      /\ j > 1 => \/ E[j - 1].kind = "output" /\ (E[j].kind = "output" => E[j - 1].n < E[j].n)
                  \/ E[j - 1].kind = "exit" /\ E[j].kind = "end"
  BY DEF EmittedAt
<1>2. lost'[i] \in BOOLEAN /\ (lost[i] => lost'[i]) /\ (over[i] => over'[i]) /\ (cancelled[i] => cancelled'[i])
  BY DEF Stays, StreamEvents
<1>3. E[j].kind = "output" => E[j].n \in 1 .. Heard(i)' /\ (~lost'[i] => E[j].n = j)
  <2>1. E[j].kind = "output" => E[j].n \in 1 .. Heard(i) /\ (~lost[i] => E[j].n = j)
    BY DEF EmittedAt
  <2> QED
    BY <1>2, <2>1
<1>4. E[j].kind = "exit" => guest'[i] = "ended" /\ (~lost'[i] => j = outs'[i] + 1)
  BY <1>2 DEF EmittedAt
<1>5. /\ E[j].kind = "rejected" => over'[i]
      /\ E[j].kind = "end" /\ ~lost'[i] => cancelled'[i] \/ (j > 1 /\ E[j - 1].kind = "exit")
  BY <1>2 DEF EmittedAt
<1> QED
  BY <1>1, <1>3, <1>4, <1>5 DEF EmittedAt

\* What is held may be emitted.
LEMMA HeldMayFollow ==
  ASSUME NEW i \in Streams, NEW E \in Seq(Events), StreamEvents(i), HeldAt(i, E),
         Heard(i) \in Nat
  PROVE  EmittedAt(i, Append(E, held[i]), Len(E) + 1)
<1> DEFINE F == Append(E, held[i])
           n == Len(E) + 1
<1>1. /\ F[n] = held[i] /\ n \in Nat /\ n >= 1 /\ Len(E) \in Nat
      /\ \A j \in 1 .. Len(E) : F[j] = E[j]
  BY AppendOutputs DEF StreamEvents
<1>2. n > 1 => n - 1 \in 1 .. Len(E) /\ n - 1 = Len(E) /\ F[n - 1] = E[n - 1]
  BY <1>1
<1> HIDE DEF F, n
<1>3. held[i].kind = "output" => held[i].n \in 1 .. Heard(i) /\ (~lost[i] => held[i].n = n)
  BY <1>1 DEF HeldAt, n
<1>4. held[i].kind = "exit" => guest[i] = "ended" /\ (~lost[i] => n = outs[i] + 1)
  BY <1>1 DEF HeldAt, n, StreamEvents
<1>5. held[i].kind = "end" /\ ~lost[i] => cancelled[i] \/ (n > 1 /\ F[n - 1].kind = "exit")
  <2>1. E # <<>> => Len(E) > 0
    BY EmptySeq, <1>1
  <2> QED
    BY <1>1, <1>2, <2>1 DEF HeldAt, n
<1>6. n > 1 => \/ F[n - 1].kind = "output" /\ (held[i].kind = "output" => F[n - 1].n < held[i].n)
               \/ F[n - 1].kind = "exit" /\ held[i].kind = "end"
  <2> SUFFICES ASSUME n > 1
               PROVE  \/ E[n - 1].kind = "output" /\ (held[i].kind = "output" => E[n - 1].n < held[i].n)
                      \/ E[n - 1].kind = "exit" /\ held[i].kind = "end"
    BY <1>2
  <2>1. n - 1 \in 1 .. Len(E)
    BY <1>2
  <2>2. AllOutputs(E) => E[n - 1].kind = "output"
    BY <2>1 DEF AllOutputs
  <2>3. held[i].kind = "output" => E[n - 1].n < held[i].n
    BY <2>1 DEF HeldAt
  <2>4. AllOutputs(E) \/ (held[i].kind = "end" /\ E[n - 1].kind = "exit")
    BY <1>2 DEF HeldAt
  <2> QED
    BY <2>2, <2>3, <2>4
<1>7. /\ held[i].kind \in EmittedKinds /\ (held[i].kind # "output" => held[i].n = 0)
      /\ held[i].kind = "rejected" => over[i]
  BY DEF HeldAt
<1>8. EmittedAt(i, F, n)
  BY <1>1, <1>3, <1>4, <1>5, <1>6, <1>7 DEF EmittedAt
<1> QED
  BY <1>8 DEF F, n

\* What has been emitted was true of the stream, and stays so.
LEMMA EmittedStep ==
  ASSUME NEW i \in Streams, StreamEvents(i), StreamEvents(i)', DownOf(i), EmittedOf(i),
         HeldOf(i), Moves, Stays
  PROVE  EmittedOf(i)'
<1>1. /\ Heard(i) \in Nat /\ Heard(i)' \in Nat /\ Heard(i) <= Heard(i)'
      /\ guest[i] = "ended" => outs'[i] = outs[i] /\ guest'[i] = "ended"
  BY DownStep
<1>2. PICK E : E = Emitted(i)
  OBVIOUS
<1>3. E \in Seq(Events) /\ Len(E) \in Nat
  BY <1>2, LenProperties DEF StreamEvents
<1>4. \A j \in 1 .. Len(E) : EmittedAt(i, E, j)'
  BY <1>1, <1>2, EmittedStays DEF EmittedOf
<1>5. CASE Emitted(i)' = E
  BY <1>4, <1>5 DEF EmittedOf, EmittedAt
<1>6. CASE Emits(i) /\ Emitted(i)' = Append(Emitted(i), held[i])
  <2> DEFINE n == Len(E) + 1
  <2>1. PICK e : e = held[i]
    OBVIOUS
  <2>2. PICK F : F = Append(E, e)
    OBVIOUS
  <2>3. F \in Seq(Events) /\ Len(F) = n /\ \A j \in 1 .. Len(E) : F[j] = E[j]
    BY <1>3, <2>1, <2>2, AppendOutputs DEF StreamEvents
  <2>4. EmittedAt(i, F, n)
    BY <1>1, <1>2, <1>3, <1>6, <2>1, <2>2, HeldMayFollow DEF Emits, HeldOf
  <2>5. EmittedAt(i, F, n)'
    BY <1>1, <2>4, EmittedStays
  <2>6. \A j \in 1 .. Len(E) : EmittedAt(i, F, j)'
    <3> SUFFICES ASSUME NEW j \in 1 .. Len(E)
                 PROVE  EmittedAt(i, F, j)'
      OBVIOUS
    <3>1. EmittedAt(i, E, j)'
      BY <1>4
    <3>2. F[j] = E[j] /\ (j > 1 => F[j - 1] = E[j - 1])
      BY <1>3, <2>3
    <3> QED
      BY <3>1, <3>2 DEF EmittedAt
  <2>7. \A j \in 1 .. Len(F) : EmittedAt(i, F, j)'
    BY <1>3, <2>3, <2>5, <2>6
  <2>8. Emitted(i)' = F
    BY <1>2, <1>6, <2>1, <2>2
  <2> QED
    BY <2>7, <2>8 DEF EmittedOf, EmittedAt
<1> QED
  BY <1>2, <1>5, <1>6 DEF Moves, Rests, Starts, Receives, Emits, Serves

\* What is held stays true of the stream.
LEMMA HeldStays ==
  ASSUME NEW i \in Streams, NEW E, HeldAt(i, E), StreamEvents(i), StreamEvents(i)', Stays,
         held'[i] = held[i], Heard(i)' = Heard(i),
         guest[i] = "ended" => outs'[i] = outs[i] /\ guest'[i] = "ended"
  PROVE  HeldAt(i, E)'
<1>1. lost'[i] \in BOOLEAN /\ (lost[i] => lost'[i]) /\ (over[i] => over'[i]) /\ (cancelled[i] => cancelled'[i])
  BY DEF Stays, StreamEvents
<1> QED
  BY <1>1 DEF HeldAt

\* What the reader has received it may emit.
LEMMA ReceivedIsHeld ==
  ASSUME NEW i \in Streams, NEW E \in Seq(Events), StreamEvents(i), StreamEvents(i)', Stays,
         AllOutputs(E), ~lost[i] => Len(E) = Heard(i),
         \A j \in 1 .. Len(E) : E[j].n <= Heard(i),
         DownOf(i), Receives(i)
  PROVE  HeldAt(i, E)'
<1>1. /\ lost'[i] = lost[i] /\ outs'[i] = outs[i] /\ guest'[i] = guest[i]
      /\ cancelled[i] => cancelled'[i]
  BY DEF Stays, Receives
<1>2. Heard(i) \in Nat /\ Heard(i)' \in Nat
  BY ReceivesWhat
<1>3. Len(E) \in Nat /\ \A j \in 1 .. Len(E) : E[j].n \in Nat
  <2>1. \A j \in 1 .. Len(E) : E[j] \in Events
    BY ElementOfSeq
  <2> QED
    BY <2>1, LenProperties, BoundsAssumption DEF BoundsAssumption, Events
<1>4. CASE Heard(i)' = Heard(i) + 1 /\ held'[i] = Output(Heard(i)')
  <2>1. held'[i].kind = "output" /\ held'[i].n = Heard(i)'
    BY <1>4 DEF Output
  <2>2. \A j \in 1 .. Len(E) : E[j].n < Heard(i)'
    BY <1>2, <1>3, <1>4
  <2>3. ~lost'[i] => Len(E) = Heard(i)' - 1
    BY <1>1, <1>2, <1>3, <1>4
  <2>4. Heard(i)' > 0
    BY <1>2, <1>4
  <2> QED
    BY <2>1, <2>2, <2>3, <2>4 DEF HeldAt, EmittedKinds
<1>5. CASE /\ Heard(i)' = Heard(i) /\ Heard(i) = outs[i] /\ guest[i] = "ended"
           /\ held'[i] = Event("exit")
  BY <1>1, <1>5 DEF HeldAt, EmittedKinds, Event
<1>6. CASE \/ held'[i] = Event("failed")
           \/ held'[i] = Event("rejected") /\ over'[i]
           \/ held'[i] = Event("end") /\ cancelled[i]
  BY <1>1, <1>6 DEF HeldAt, EmittedKinds, Event
<1> QED
  BY <1>4, <1>5, <1>6, ReceivesWhat

\* What the reader holds, when it holds something.
LEMMA HeldStep ==
  ASSUME NEW i \in Streams, StreamEvents(i), StreamEvents(i)', DownOf(i), EmittedOf(i),
         HeldOf(i), Moves, Stays
  PROVE  HeldOf(i)'
<1>1. /\ Heard(i) \in Nat /\ Heard(i)' \in Nat /\ Heard(i) <= Heard(i)'
      /\ ~Receives(i) => Heard(i)' = Heard(i)
      /\ guest[i] = "ended" => outs'[i] = outs[i] /\ guest'[i] = "ended"
  BY DownStep
<1>2. PICK E : E = Emitted(i)
  OBVIOUS
<1>3. E \in Seq(Events) /\ Len(E) \in Nat
  BY <1>2, LenProperties DEF StreamEvents
<1>4. /\ lost[i] \in BOOLEAN /\ lost'[i] \in BOOLEAN
      /\ (lost[i] => lost'[i]) /\ (cancelled[i] => cancelled'[i])
      /\ reader'[i] \in {"none", "recv", "emit", "done"}
  BY DEF Stays, StreamEvents
<1>5. CASE Rests(i) \/ Serves(i)
  <2>1. /\ Emitted(i)' = E /\ lost'[i] = lost[i] /\ held'[i] = held[i] /\ reader'[i] = reader[i]
        /\ reader[i] = "none" => down'[i] = down[i] /\ outs'[i] = outs[i]
        /\ Heard(i)' = Heard(i)
    BY <1>1, <1>2, <1>5 DEF Rests, Serves, Receives
  <2>2. CASE reader[i] = "emit"
    <3>1. HeldAt(i, E)
      BY <1>2, <2>2 DEF HeldOf
    <3>2. HeldAt(i, E)'
      BY <1>1, <2>1, <3>1, HeldStays
    <3> QED
      BY <2>1, <2>2, <3>2 DEF HeldOf, HeldAt
  <2>3. CASE reader[i] # "emit"
    BY <1>2, <2>1, <2>3 DEF HeldOf
  <2> QED
    BY <2>2, <2>3
<1>6. CASE Starts(i)
  <2>1. /\ Emitted(i)' = <<>> /\ reader'[i] = "recv" /\ Heard(i)' = 0
    <3>1. down[i] = <<>> /\ outs[i] = 0 /\ Emitted(i) = <<>>
      BY <1>6 DEF Starts, HeldOf
    <3>2. Outputs(<<>>) = 0
      BY DEF Outputs
    <3> QED
      BY <1>6, <3>1, <3>2 DEF Starts, Heard
  <2>2. Len(<<>>) = 0 /\ AllOutputs(<<>>)
    BY DEF AllOutputs
  <2> QED
    BY <2>1, <2>2 DEF HeldOf
<1>7. CASE Receives(i)
  <2>1. /\ Emitted(i)' = E /\ reader[i] = "recv" /\ reader'[i] = "emit"
    BY <1>2, <1>7 DEF Receives
  <2>2. AllOutputs(E) /\ (~lost[i] => Len(E) = Heard(i))
    BY <1>2, <2>1 DEF HeldOf
  <2>3. \A j \in 1 .. Len(E) : E[j].n <= Heard(i)
    BY <1>1, <1>2, <2>2 DEF EmittedOf, EmittedAt, AllOutputs
  <2>4. HeldAt(i, E)'
    BY <1>3, <1>7, <2>2, <2>3, ReceivedIsHeld
  <2> QED
    BY <2>1, <2>4 DEF HeldOf, HeldAt
<1>8. CASE Emits(i)
  <2>1. HeldAt(i, E) /\ reader[i] = "emit"
    BY <1>2, <1>8 DEF Emits, HeldOf
  <2>2. PICK e : e = held[i]
    OBVIOUS
  <2>3. PICK F : F = Append(E, e)
    OBVIOUS
  <2>4. /\ e \in Events /\ Len(F) = Len(E) + 1 /\ F[Len(E) + 1] = e
        /\ AllOutputs(E) /\ e.kind = "output" => AllOutputs(F)
    BY <1>3, <2>2, <2>3, AppendOutputs DEF StreamEvents
  <2>5. /\ \/ Emitted(i)' = F /\ lost'[i] = lost[i]
           \/ Emitted(i)' = E /\ lost'[i]
        /\ Heard(i)' = Heard(i)
    BY <1>1, <1>2, <1>8, <2>2, <2>3 DEF Emits, Receives
  <2>6. CASE e.kind = "output"
    <3>1. reader'[i] = "recv" /\ AllOutputs(E) /\ (~lost[i] => Len(E) = Heard(i) - 1)
      BY <1>8, <2>1, <2>2, <2>6 DEF Emits, HeldAt
    <3>2. AllOutputs(Emitted(i)') /\ (~lost'[i] => Len(Emitted(i)') = Heard(i)')
      <4>1. CASE Emitted(i)' = F /\ lost'[i] = lost[i]
        <5>1. AllOutputs(F) /\ (~lost[i] => Len(F) = Heard(i))
          BY <1>1, <1>3, <2>4, <2>6, <3>1
        <5> QED
          BY <2>5, <4>1, <5>1
      <4>2. CASE Emitted(i)' = E /\ lost'[i]
        BY <3>1, <4>2
      <4> QED
        BY <2>5, <4>1, <4>2
    <3> QED
      BY <3>1, <3>2 DEF HeldOf, AllOutputs
  <2>7. CASE e.kind = "exit"
    <3>1. reader'[i] = "emit" /\ AllOutputs(E) /\ held'[i] = Event("end")
      BY <1>8, <2>1, <2>2, <2>7 DEF Emits, HeldAt
    <3>2. F # <<>> /\ F[Len(F)].kind = "exit"
      BY <1>3, <2>4, <2>7, EmptySeq
    <3>3. \/ AllOutputs(Emitted(i)') /\ lost'[i]
          \/ Emitted(i)' # <<>> /\ Emitted(i)'[Len(Emitted(i)')].kind = "exit"
      BY <2>5, <3>1, <3>2
    <3>4. HeldAt(i, Emitted(i))'
      BY <3>1, <3>3 DEF HeldAt, Event, EmittedKinds, AllOutputs
    <3> QED
      BY <3>1, <3>4 DEF HeldOf
  <2>8. CASE e.kind \notin {"output", "exit"}
    BY <1>8, <2>2, <2>8 DEF Emits, HeldOf
  <2> QED
    BY <2>6, <2>7, <2>8
<1> QED
  BY <1>5, <1>6, <1>7, <1>8 DEF Moves

\* The events of every stream are in order.
LEMMA DeliveryStep ==
  ASSUME TypeOK, TypeOK', ReadersInv, DeliveryInv, [Next]_vars
  PROVE  DeliveryInv'
<1>1. Moves /\ Stays
  BY EventsMove, NothingBack
<1>2. \A i \in Streams : StreamEvents(i)
  BY StreamEventsTyped
<1>3. (\A i \in Streams : StreamEvents(i))'
  BY StreamEventsTyped, PTL
<1> QED
  BY <1>1, <1>2, <1>3, DownStep, EmittedStep, HeldStep DEF DeliveryInv

(***************************************************************************)
(* One goroutine, or one consumer.                                         *)
(***************************************************************************)
\* A serial caller has one call under way.
LEMMA SerialStep ==
  ASSUME TypeOK, SerialInv, [Next]_vars
  PROVE  SerialInv'
<1>0. /\ \A c \in Consumers : c \in Procs
      /\ \A w \in Writers : w \in Procs
      /\ \A x \in Closers : x \in Procs
  BY DEF Procs
<1> USE <1>0 DEF SerialInv, Others
<1>1. ASSUME NEW c \in Consumers, NextCall(c) \/ NextAgain(c) PROVE SerialInv'
  BY <1>1, BeginDoes
<1>2. ASSUME NEW c \in Consumers, Take(c) PROVE SerialInv'
  BY <1>2, TakeDoes
<1>3. ASSUME NEW c \in Consumers, Expire(c) PROVE SerialInv'
  BY <1>3, ExpireDoes
<1>4. ASSUME NEW c \in Consumers, MarkStarted(c) PROVE SerialInv'
  BY <1>4, MarkDoes
<1>5. ASSUME NEW c \in Consumers, RefreshCheck(c) \/ SniffExpiry(c) PROVE SerialInv'
  BY <1>5, LookDoes
<1>6. ASSUME NEW c \in Consumers, CommitRefresh(c) PROVE SerialInv'
  BY <1>6, CommitDoes
<1>7. ASSUME NEW c \in Consumers, Reissue(c) \/ OpenFails(c) PROVE SerialInv'
  BY <1>7, ReissueDoes
<1>8. ASSUME NEW c \in Consumers, OpenStream(c) PROVE SerialInv'
  BY <1>8, OpenDoes
<1>9. ASSUME NEW c \in Consumers, SwapStream(c) PROVE SerialInv'
  BY <1>9, SwapDoes
<1>10. ASSUME NEW w \in Writers, InputCall(w) PROVE SerialInv'
  BY <1>10, InputCallDoes
<1>11. ASSUME NEW w \in Writers, RecordInput(w) PROVE SerialInv'
  BY <1>11, RecordDoes
<1>12. ASSUME NEW p \in Consumers \cup Writers, EnterData(p) \/ EnterCloseStdin(p)
       PROVE  SerialInv'
  BY <1>12, EnterLeaves
<1>13. ASSUME NEW p \in Consumers \cup Writers, SendData(p) \/ SendCloseStdin(p)
       PROVE  SerialInv'
  BY <1>13, SendLeaves
<1>14. ASSUME NEW p \in Procs, LockSend(p) PROVE SerialInv'
  BY <1>14, LockDoes
<1>15. ASSUME NEW x \in Closers, CloseCall(x) \/ CancelCall(x) PROVE SerialInv'
  BY <1>15, CloseDoes
<1>16. ASSUME NEW p \in Consumers \cup Closers, CloseMark(p) PROVE SerialInv'
  BY <1>16, CloseMarkDoes
<1>17. ASSUME NEW p \in Consumers \cup Closers, CloseSend(p) PROVE SerialInv'
  BY <1>17, CloseSendDoes
<1>18. ASSUME NEW p \in Consumers \cup Closers, CloseWait(p) PROVE SerialInv'
  BY <1>18, CloseWaitDoes
<1>19. ASSUME NEW i \in Streams, RecvResponse(i) \/ RecvError(i) PROVE SerialInv'
  BY <1>19, RecvDoes
<1>20. ASSUME NEW i \in Streams, Emit(i) \/ GiveUp(i) PROVE SerialInv'
  BY <1>20, EmitDoes
<1>21. ASSUME NEW i \in Streams, GuestStep(i) \/ ContextExpires(i) PROVE SerialInv'
  BY <1>21, GuestDoes
<1>22. CASE DeadlinePasses \/ CapabilityExpires \/ UNCHANGED vars
  BY <1>22, TimeDoes
<1> QED
  BY <1>1, <1>2, <1>3, <1>4, <1>5, <1>6, <1>7, <1>8, <1>9, <1>10, <1>11, <1>12, <1>13,
     <1>14, <1>15, <1>16, <1>17, <1>18, <1>19, <1>20, <1>21, <1>22, StepCases

\* The session is refreshed by a commit, ...
LEMMA RefreshedByCommit ==
  ASSUME TypeOK, [Next]_vars, \A c \in Consumers : ~CommitRefresh(c)
  PROVE  refreshed' = refreshed
<1>1. ASSUME NEW c \in Consumers, NextCall(c) \/ NextAgain(c) PROVE refreshed' = refreshed
  BY <1>1, BeginDoes
<1>2. ASSUME NEW c \in Consumers, Take(c) PROVE refreshed' = refreshed
  BY <1>2, TakeDoes
<1>3. ASSUME NEW c \in Consumers, Expire(c) PROVE refreshed' = refreshed
  BY <1>3, ExpireDoes
<1>4. ASSUME NEW c \in Consumers, MarkStarted(c) PROVE refreshed' = refreshed
  BY <1>4, MarkDoes
<1>5. ASSUME NEW c \in Consumers, RefreshCheck(c) \/ SniffExpiry(c)
      PROVE  refreshed' = refreshed
  BY <1>5, LookDoes
<1>6. ASSUME NEW c \in Consumers, CommitRefresh(c) PROVE refreshed' = refreshed
  BY <1>6
<1>7. ASSUME NEW c \in Consumers, Reissue(c) \/ OpenFails(c) PROVE refreshed' = refreshed
  BY <1>7, ReissueDoes
<1>8. ASSUME NEW c \in Consumers, OpenStream(c) PROVE refreshed' = refreshed
  BY <1>8, OpenDoes
<1>9. ASSUME NEW c \in Consumers, SwapStream(c) PROVE refreshed' = refreshed
  BY <1>9, SwapDoes
<1>10. ASSUME NEW w \in Writers, InputCall(w) PROVE refreshed' = refreshed
  BY <1>10, InputCallDoes
<1>11. ASSUME NEW w \in Writers, RecordInput(w) PROVE refreshed' = refreshed
  BY <1>11, RecordDoes
<1>12. ASSUME NEW p \in Consumers \cup Writers, EnterData(p) \/ EnterCloseStdin(p)
       PROVE  refreshed' = refreshed
  BY <1>12, EnterLeaves
<1>13. ASSUME NEW p \in Consumers \cup Writers, SendData(p) \/ SendCloseStdin(p)
       PROVE  refreshed' = refreshed
  BY <1>13, SendLeaves
<1>14. ASSUME NEW p \in Procs, LockSend(p) PROVE refreshed' = refreshed
  BY <1>14, LockDoes
<1>15. ASSUME NEW x \in Closers, CloseCall(x) \/ CancelCall(x) PROVE refreshed' = refreshed
  BY <1>15, CloseDoes
<1>16. ASSUME NEW p \in Consumers \cup Closers, CloseMark(p) PROVE refreshed' = refreshed
  BY <1>16, CloseMarkDoes
<1>17. ASSUME NEW p \in Consumers \cup Closers, CloseSend(p) PROVE refreshed' = refreshed
  BY <1>17, CloseSendDoes
<1>18. ASSUME NEW p \in Consumers \cup Closers, CloseWait(p) PROVE refreshed' = refreshed
  BY <1>18, CloseWaitDoes
<1>19. ASSUME NEW i \in Streams, RecvResponse(i) \/ RecvError(i)
       PROVE  refreshed' = refreshed
  BY <1>19, RecvDoes
<1>20. ASSUME NEW i \in Streams, Emit(i) \/ GiveUp(i) PROVE refreshed' = refreshed
  BY <1>20, EmitDoes
<1>21. ASSUME NEW i \in Streams, GuestStep(i) \/ ContextExpires(i)
       PROVE  refreshed' = refreshed
  BY <1>21, GuestDoes
<1>22. CASE DeadlinePasses \/ CapabilityExpires \/ UNCHANGED vars
  BY <1>22, TimeDoes
<1> QED
  BY <1>1, <1>2, <1>3, <1>4, <1>5, <1>6, <1>7, <1>8, <1>9, <1>10, <1>11, <1>12, <1>13,
     <1>14, <1>15, <1>16, <1>17, <1>18, <1>19, <1>20, <1>21, <1>22, StepCases

\* ... and an event is delivered by a Take.
LEMMA DeliveredByTake ==
  ASSUME TypeOK, [Next]_vars, NEW i \in Streams,
         \A c \in Consumers : Take(c) => cur[c] # i
  PROVE  delivered'[i] = delivered[i]
<1>1. ASSUME NEW c \in Consumers, NextCall(c) \/ NextAgain(c)
      PROVE  delivered'[i] = delivered[i]
  BY <1>1, BeginDoes
<1>2. ASSUME NEW c \in Consumers, Take(c) PROVE delivered'[i] = delivered[i]
  BY <1>2, TakeDoes DEF Apart
<1>3. ASSUME NEW c \in Consumers, Expire(c) PROVE delivered'[i] = delivered[i]
  BY <1>3, ExpireDoes
<1>4. ASSUME NEW c \in Consumers, MarkStarted(c) PROVE delivered'[i] = delivered[i]
  BY <1>4, MarkDoes
<1>5. ASSUME NEW c \in Consumers, RefreshCheck(c) \/ SniffExpiry(c)
      PROVE  delivered'[i] = delivered[i]
  BY <1>5, LookDoes
<1>6. ASSUME NEW c \in Consumers, CommitRefresh(c) PROVE delivered'[i] = delivered[i]
  BY <1>6, CommitDoes
<1>7. ASSUME NEW c \in Consumers, Reissue(c) \/ OpenFails(c)
      PROVE  delivered'[i] = delivered[i]
  BY <1>7, ReissueDoes
<1>8. ASSUME NEW c \in Consumers, OpenStream(c) PROVE delivered'[i] = delivered[i]
  BY <1>8, OpenDoes
<1>9. ASSUME NEW c \in Consumers, SwapStream(c) PROVE delivered'[i] = delivered[i]
  BY <1>9, SwapDoes
<1>10. ASSUME NEW w \in Writers, InputCall(w) PROVE delivered'[i] = delivered[i]
  BY <1>10, InputCallDoes
<1>11. ASSUME NEW w \in Writers, RecordInput(w) PROVE delivered'[i] = delivered[i]
  BY <1>11, RecordDoes
<1>12. ASSUME NEW p \in Consumers \cup Writers, EnterData(p) \/ EnterCloseStdin(p)
       PROVE  delivered'[i] = delivered[i]
  BY <1>12, EnterLeaves
<1>13. ASSUME NEW p \in Consumers \cup Writers, SendData(p) \/ SendCloseStdin(p)
       PROVE  delivered'[i] = delivered[i]
  BY <1>13, SendLeaves
<1>14. ASSUME NEW p \in Procs, LockSend(p) PROVE delivered'[i] = delivered[i]
  BY <1>14, LockDoes
<1>15. ASSUME NEW x \in Closers, CloseCall(x) \/ CancelCall(x)
       PROVE  delivered'[i] = delivered[i]
  BY <1>15, CloseDoes
<1>16. ASSUME NEW p \in Consumers \cup Closers, CloseMark(p)
       PROVE  delivered'[i] = delivered[i]
  BY <1>16, CloseMarkDoes
<1>17. ASSUME NEW p \in Consumers \cup Closers, CloseSend(p)
       PROVE  delivered'[i] = delivered[i]
  BY <1>17, CloseSendDoes
<1>18. ASSUME NEW p \in Consumers \cup Closers, CloseWait(p)
       PROVE  delivered'[i] = delivered[i]
  BY <1>18, CloseWaitDoes
<1>19. ASSUME NEW k \in Streams, RecvResponse(k) \/ RecvError(k)
       PROVE  delivered'[i] = delivered[i]
  BY <1>19, RecvDoes
<1>20. ASSUME NEW k \in Streams, Emit(k) \/ GiveUp(k) PROVE delivered'[i] = delivered[i]
  BY <1>20, EmitDoes
<1>21. ASSUME NEW k \in Streams, GuestStep(k) \/ ContextExpires(k)
       PROVE  delivered'[i] = delivered[i]
  BY <1>21, GuestDoes
<1>22. CASE DeadlinePasses \/ CapabilityExpires \/ UNCHANGED vars
  BY <1>22, TimeDoes
<1> QED
  BY <1>1, <1>2, <1>3, <1>4, <1>5, <1>6, <1>7, <1>8, <1>9, <1>10, <1>11, <1>12, <1>13,
     <1>14, <1>15, <1>16, <1>17, <1>18, <1>19, <1>20, <1>21, <1>22, StepCases

\* With one consumer there is one in Next.
LEMMA OneInNext ==
  ASSUME SerialInv, OneConsumer, NEW c \in Consumers, NEW d \in Consumers,
         pc[c] # "idle", pc[d] # "idle"
  PROVE  c = d
BY DEF SerialInv, OneConsumer, Procs

\* A step of a process that is not at "mark" and takes nothing.
LEMMA MarkMoves ==
  ASSUME pc \in [Procs -> Steps], \A c \in Consumers : c \in Procs, MarkInv,
         UNCHANGED <<responsesStarted, delivered>>,
         NEW p \in Procs, \A q \in Procs \ {p} : pc'[q] = pc[q], pc[p] # "mark",
         pc'[p] \in {"sniff", "commit"} => ~responsesStarted
  PROVE  MarkInv'
BY SMTT(30) DEF MarkInv

\* The events taken of the first stream, and who has taken one, ...
LEMMA MarkStep ==
  ASSUME TypeOK, StreamsInv, SerialInv, OneConsumer, MarkInv, [Next]_vars
  PROVE  MarkInv'
<1>0. /\ pc \in [Procs -> Steps] /\ cur \in [Procs -> Streams] /\ 1 \in Streams
      /\ then \in [Procs -> {"idle", "mark", "reissue"}]
      /\ delivered \in [Streams -> Seq(Events)]
      /\ \A c \in Consumers : c \in Procs
  BY TypesOf, SeqTypesOf DEF Procs
<1> USE <1>0 DEF MarkInv, Others
<1>1. ASSUME NEW c \in Consumers, NextCall(c) \/ NextAgain(c) PROVE MarkInv'
  <2>1. /\ UNCHANGED <<responsesStarted, delivered>> /\ pc'[c] \in {"expired", "select"}
        /\ pc[c] \in {"idle", "again"} /\ \A d \in Procs \ {c} : pc'[d] = pc[d]
    BY <1>1, BeginDoes
  <2> QED
    BY <2>1
<1>2. ASSUME NEW c \in Consumers, Take(c) PROVE MarkInv'
  <2> DEFINE e == Head(events[cur[c]])
  <2>1. /\ pc[c] = "select" /\ UNCHANGED responsesStarted /\ c \in Procs
        /\ \A d \in Procs \ {c} : pc'[d] = pc[d]
    BY <1>2, TakeDoes
  <2>2. /\ e \in Events /\ pc'[c] \in {"mark", "rejected", "idle"}
        /\ pc'[c] # "mark" => e.kind \notin {"output", "exit", "end"}
    BY <1>2, TakeLeads
  <2>3. \A d \in Consumers : pc'[d] \in {"sniff", "commit"} => ~responsesStarted'
    BY <2>1, <2>2
  <2>4. ASSUME ~responsesStarted', \A d \in Consumers : pc'[d] # "mark",
               NEW j \in 1 .. Len(delivered'[1])
        PROVE  delivered'[1][j].kind \notin {"output", "exit", "end"}
    <3>1. e.kind \notin {"output", "exit", "end"}
      BY <2>2, <2>4
    <3>2. \A k \in 1 .. Len(delivered[1]) : delivered[1][k].kind \notin {"output", "exit", "end"}
      BY <2>1, <2>4
    <3>3. delivered'[1] = delivered[1] \/ delivered'[1] = Append(delivered[1], e)
      BY <1>2, TakeDoes DEF Apart
    <3>4. delivered[1] \in Seq(Events)
      BY <1>0
    <3>5. CASE delivered'[1] = delivered[1]
      BY <2>4, <3>2, <3>5
    <3>6. CASE delivered'[1] = Append(delivered[1], e)
      BY ONLY <2>2, <2>4, <3>1, <3>2, <3>4, <3>6, AppendOutputs
    <3> QED
      BY <3>3, <3>5, <3>6
  <2> QED
    BY <2>3, <2>4
<1>3. ASSUME NEW c \in Consumers, Expire(c) PROVE MarkInv'
  <2>1. UNCHANGED <<responsesStarted, delivered>> /\ pc[c] # "mark"
    BY <1>3, ExpireDoes
  <2>2. c \in Procs /\ \A q \in Procs \ {c} : pc'[q] = pc[q]
    BY <1>3, ExpireDoes DEF Procs
  <2>3. pc'[c] \in {"sniff", "commit"} => ~responsesStarted
    BY <1>3, ExpireDoes
  <2> QED
    BY <1>0, <2>1, <2>2, <2>3, MarkMoves
<1>4. ASSUME NEW c \in Consumers, MarkStarted(c) PROVE MarkInv'
  <2>1. /\ pc[c] = "mark" /\ pc'[c] = "idle" /\ responsesStarted'
        /\ \A d \in Procs \ {c} : pc'[d] = pc[d]
    BY <1>4, MarkDoes
  <2>2. \A d \in Consumers : pc[d] # "idle" => d = c
    BY <2>1, OneInNext
  <2> QED
    BY <2>1, <2>2
<1>5. ASSUME NEW c \in Consumers, RefreshCheck(c) \/ SniffExpiry(c) PROVE MarkInv'
  <2>1. UNCHANGED <<responsesStarted, delivered>> /\ pc[c] # "mark"
    BY <1>5, LookDoes
  <2>2. c \in Procs /\ \A q \in Procs \ {c} : pc'[q] = pc[q]
    BY <1>5, LookDoes DEF Procs
  <2>3. pc'[c] \in {"sniff", "commit"} => ~responsesStarted
    BY <1>5, LookDoes
  <2> QED
    BY <1>0, <2>1, <2>2, <2>3, MarkMoves
<1>6. ASSUME NEW c \in Consumers, CommitRefresh(c) PROVE MarkInv'
  <2>1. UNCHANGED <<responsesStarted, delivered>> /\ pc[c] # "mark"
    BY <1>6, CommitDoes
  <2>2. c \in Procs /\ \A q \in Procs \ {c} : pc'[q] = pc[q]
    BY <1>6, CommitDoes DEF Procs
  <2>3. pc'[c] \in {"sniff", "commit"} => ~responsesStarted
    BY <1>6, CommitDoes
  <2> QED
    BY <1>0, <2>1, <2>2, <2>3, MarkMoves
<1>7. ASSUME NEW c \in Consumers, Reissue(c) \/ OpenFails(c) PROVE MarkInv'
  <2>1. UNCHANGED <<responsesStarted, delivered>> /\ pc[c] # "mark"
    BY <1>7, ReissueDoes
  <2>2. c \in Procs /\ \A q \in Procs \ {c} : pc'[q] = pc[q]
    BY <1>7, ReissueDoes DEF Procs
  <2>3. pc'[c] \in {"sniff", "commit"} => ~responsesStarted
    BY <1>7, ReissueDoes
  <2> QED
    BY <1>0, <2>1, <2>2, <2>3, MarkMoves
<1>8. ASSUME NEW c \in Consumers, OpenStream(c) PROVE MarkInv'
  <2>1. UNCHANGED <<responsesStarted, delivered>> /\ pc[c] # "mark"
    BY <1>8, OpenDoes
  <2>2. c \in Procs /\ \A q \in Procs \ {c} : pc'[q] = pc[q]
    BY <1>8, OpenDoes DEF Procs
  <2>3. pc'[c] \in {"sniff", "commit"} => ~responsesStarted
    BY <1>8, OpenDoes
  <2> QED
    BY <1>0, <2>1, <2>2, <2>3, MarkMoves
<1>9. ASSUME NEW c \in Consumers, SwapStream(c) PROVE MarkInv'
  <2>1. UNCHANGED <<responsesStarted, delivered>> /\ pc[c] # "mark"
    BY <1>9, SwapDoes
  <2>2. c \in Procs /\ \A q \in Procs \ {c} : pc'[q] = pc[q]
    BY <1>9, SwapDoes DEF Procs
  <2>3. pc'[c] \in {"sniff", "commit"} => ~responsesStarted
    BY <1>9, SwapDoes
  <2> QED
    BY <1>0, <2>1, <2>2, <2>3, MarkMoves
<1>10. ASSUME NEW w \in Writers, InputCall(w) PROVE MarkInv'
  <2>1. UNCHANGED <<responsesStarted, delivered>> /\ pc[w] # "mark"
    BY <1>10, InputCallDoes
  <2>2. w \in Procs /\ \A q \in Procs \ {w} : pc'[q] = pc[q]
    BY <1>10, InputCallDoes DEF Procs
  <2>3. pc'[w] \in {"sniff", "commit"} => ~responsesStarted
    BY <1>10, InputCallDoes
  <2> QED
    BY <1>0, <2>1, <2>2, <2>3, MarkMoves
<1>11. ASSUME NEW w \in Writers, RecordInput(w) PROVE MarkInv'
  <2>1. UNCHANGED <<responsesStarted, delivered>> /\ pc[w] # "mark"
    BY <1>11, RecordDoes
  <2>2. w \in Procs /\ \A q \in Procs \ {w} : pc'[q] = pc[q]
    BY <1>11, RecordDoes DEF Procs
  <2>3. pc'[w] \in {"sniff", "commit"} => ~responsesStarted
    BY <1>11, RecordDoes
  <2> QED
    BY <1>0, <2>1, <2>2, <2>3, MarkMoves
<1>12. ASSUME NEW p \in Consumers \cup Writers, EnterData(p) \/ EnterCloseStdin(p)
       PROVE  MarkInv'
  BY <1>12, EnterLeaves
<1>13. ASSUME NEW p \in Consumers \cup Writers, SendData(p) \/ SendCloseStdin(p)
       PROVE  MarkInv'
  BY <1>13, SendLeaves
<1>14. ASSUME NEW p \in Procs, LockSend(p) PROVE MarkInv'
  <2>1. UNCHANGED <<responsesStarted, delivered>> /\ pc[p] # "mark"
    BY <1>14, LockDoes
  <2>2. p \in Procs /\ \A q \in Procs \ {p} : pc'[q] = pc[q]
    BY <1>14, LockDoes DEF Procs
  <2>3. pc'[p] \in {"sniff", "commit"} => ~responsesStarted
    BY <1>14, LockDoes
  <2> QED
    BY <1>0, <2>1, <2>2, <2>3, MarkMoves
<1>15. ASSUME NEW x \in Closers, CloseCall(x) \/ CancelCall(x) PROVE MarkInv'
  <2>1. UNCHANGED <<responsesStarted, delivered>> /\ pc[x] # "mark"
    BY <1>15, CloseDoes
  <2>2. x \in Procs /\ \A q \in Procs \ {x} : pc'[q] = pc[q]
    BY <1>15, CloseDoes DEF Procs
  <2>3. pc'[x] \in {"sniff", "commit"} => ~responsesStarted
    BY <1>15, CloseDoes
  <2> QED
    BY <1>0, <2>1, <2>2, <2>3, MarkMoves
<1>16. ASSUME NEW p \in Consumers \cup Closers, CloseMark(p) PROVE MarkInv'
  <2>1. UNCHANGED <<responsesStarted, delivered>> /\ pc[p] = "closeMark"
    BY <1>16, CloseMarkDoes
  <2>2. \A q \in Procs \ {p} : pc'[q] = pc[q]
    BY <1>16, CloseMarkDoes
  <2>3. pc'[p] \in {"closeLock", "idle", "mark", "reissue"}
    BY <1>16, CloseMarkDoes, TypesOf DEF Procs
  <2> QED
    BY <2>1, <2>2, <2>3
<1>17. ASSUME NEW p \in Consumers \cup Closers, CloseSend(p) PROVE MarkInv'
  <2>1. /\ UNCHANGED <<responsesStarted, delivered>> /\ pc[p] = "closeSend"
        /\ pc'[p] = "closeWait" /\ \A q \in Procs \ {p} : pc'[q] = pc[q]
    BY <1>17, CloseSendDoes
  <2> QED
    BY <2>1
<1>18. ASSUME NEW p \in Consumers \cup Closers, CloseWait(p) PROVE MarkInv'
  <2>1. UNCHANGED <<responsesStarted, delivered>> /\ pc[p] = "closeWait"
    BY <1>18, CloseWaitDoes
  <2>2. \A q \in Procs \ {p} : pc'[q] = pc[q]
    BY <1>18, CloseWaitDoes
  <2>3. pc'[p] \in {"idle", "mark", "reissue"}
    BY <1>18, CloseWaitDoes, TypesOf DEF Procs
  <2> QED
    BY <2>1, <2>2, <2>3
<1>19. ASSUME NEW i \in Streams, RecvResponse(i) \/ RecvError(i) PROVE MarkInv'
  BY <1>19, RecvDoes
<1>20. ASSUME NEW i \in Streams, Emit(i) \/ GiveUp(i) PROVE MarkInv'
  BY <1>20, EmitDoes
<1>21. ASSUME NEW i \in Streams, GuestStep(i) \/ ContextExpires(i) PROVE MarkInv'
  BY <1>21, GuestDoes
<1>22. CASE DeadlinePasses \/ CapabilityExpires \/ UNCHANGED vars
  BY <1>22, TimeDoes
<1> QED
  BY <1>1, <1>2, <1>3, <1>4, <1>5, <1>6, <1>7, <1>8, <1>9, <1>10, <1>11, <1>12, <1>13,
     <1>14, <1>15, <1>16, <1>17, <1>18, <1>19, <1>20, <1>21, <1>22, StepCases

\* ... so that the command is run again only after a rejection and nothing else.
LEMMA RerunStep ==
  ASSUME TypeOK, StreamsInv, StreamsInv', DeliveryInv, SerialInv, RerunInv, [Next]_vars
  PROVE  RerunInv'
<1> SUFFICES ASSUME OneConsumer
             PROVE  MarkInv' /\ (refreshed' => delivered'[1] = <<Event("rejected")>>)
  BY DEF RerunInv, OneConsumer
<1>0. 1 \in Streams /\ delivered[1] \in Seq(Events) /\ events[1] \in Seq(Events)
  BY TypesOf, SeqTypesOf
<1>1. MarkInv /\ MarkInv'
  BY MarkStep DEF RerunInv
<1>2. CASE refreshed
  <2>1. events[1] = <<>> /\ delivered[1] = <<Event("rejected")>>
    BY <1>2 DEF StreamsInv, RefusedInv, RefusedFirst, RerunInv
  <2>2. \A c \in Consumers : Take(c) => cur[c] # 1
    BY <2>1, TakeDoes
  <2>3. delivered'[1] = delivered[1]
    BY <1>0, <2>2, DeliveredByTake, Zenon
  <2> QED
    BY <1>1, <2>1, <2>3
<1>3. CASE ~refreshed /\ refreshed'
  <2>1. PICK c \in Consumers : CommitRefresh(c)
    BY <1>3, RefreshedByCommit
  <2>2. /\ pc[c] = "commit" /\ UNCHANGED <<delivered, responsesStarted>>
    BY <2>1, CommitDoes
  <2>3. \A j \in 1 .. Len(delivered[1]) : delivered[1][j].kind \notin {"output", "exit", "end"}
    <3>1. ~responsesStarted /\ \A d \in Consumers : pc[d] # "mark"
      BY <1>1, <2>2, OneInNext DEF MarkInv
    <3> QED
      BY <1>1, <3>1 DEF MarkInv
  <2>4. /\ delivered[1] # <<>>
        /\ delivered[1][Len(delivered[1])] = Event("rejected")
    BY <2>2 DEF StreamsInv, RefusedInv, RefusedFirst, HoldsRejection
  <2>5. PICK n : n = Len(delivered[1])
    OBVIOUS
  <2>6. n \in Nat \ {0}
    BY ONLY <1>0, <2>4, <2>5, EmptySeq
  <2>7. n = 1
    <3> SUFFICES ASSUME n > 1 PROVE FALSE
      BY <2>6
    <3>1. PICK E : E = Emitted(1)
      OBVIOUS
    <3>2. /\ Len(E) = n + Len(events[1]) /\ Len(events[1]) \in Nat
          /\ \A j \in 1 .. n : E[j] = delivered[1][j]
      BY <1>0, <2>5, <3>1, PrefixOfConcat DEF Emitted
    <3>3. n \in 1 .. Len(E) /\ n - 1 \in 1 .. n /\ n \in 1 .. n
      BY ONLY <2>6, <3>2, n > 1
    <3>4. EmittedAt(1, E, n)
      BY <1>0, <3>1, <3>3 DEF DeliveryInv, EmittedOf
    <3>5. E[n - 1].kind \in {"output", "exit"}
      BY <3>4 DEF EmittedAt
    <3> QED
      BY <2>3, <2>5, <3>2, <3>3, <3>5
  <2>8. delivered[1] = <<Event("rejected")>>
    BY <1>0, <2>4, <2>5, <2>7, SequenceOfOne
  <2> QED
    BY <1>1, <2>2, <2>8
<1> QED
  BY <1>1, <1>2, <1>3

-----------------------------------------------------------------------------
(***************************************************************************)
(* The invariant, and what follows from it.                                *)
(***************************************************************************)
\* A new session has a reader that has received nothing.
LEMMA InitDelivery == Init => DeliveryInv
<1> SUFFICES ASSUME Init, NEW i \in Streams PROVE DownOf(i) /\ EmittedOf(i) /\ HeldOf(i)
  BY DEF DeliveryInv
<1>1. /\ down[i] = <<>> /\ outs[i] = 0 /\ delivered[i] = <<>> /\ events[i] = <<>>
      /\ ~lost[i] /\ reader[i] \in {"recv", "none"}
  BY DEF Init
<1>2. /\ Len(down[i]) = 0 /\ Emitted(i) = <<>> /\ Len(Emitted(i)) = 0
  BY ONLY <1>1 DEF Emitted
<1>3. Outputs(down[i]) = 0 /\ Follows(down[i], outs[i])
  BY <1>1, <1>2, FollowsNothing
<1>4. Heard(i) = 0
  BY ONLY <1>1, <1>3 DEF Heard
<1>5. AllOutputs(Emitted(i))
  BY ONLY <1>2 DEF AllOutputs
<1>6. DownOf(i)
  BY ONLY <1>2, <1>3 DEF DownOf
<1>7. EmittedOf(i)
  BY ONLY <1>2 DEF EmittedOf
<1>8. HeldOf(i)
  BY ONLY <1>1, <1>2, <1>4, <1>5 DEF HeldOf
<1> QED
  BY <1>6, <1>7, <1>8

\* A session as newRefreshableExecSession returns it.
LEMMA InitSession == Init => SessionInv
<1> SUFFICES ASSUME Init PROVE SessionInv
  OBVIOUS
<1>1. TypeOK /\ RefreshInv /\ DeliveryInv
  BY InitType, InitRefresh, InitDelivery
<1>2. /\ current = 1 /\ opened = 1 /\ ~closed /\ ~refreshed /\ ~responsesStarted
      /\ \A p \in Procs : pc[p] = "idle" /\ cur[p] = 1 /\ then[p] = "idle"
      /\ \A i \in Streams : /\ ~cancelled[i] /\ ~stdinClosed[i] /\ ~halfClosed[i]
                            /\ wire[i] = <<>> /\ delivered[i] = <<>>
                            /\ reader[i] = IF i = 1 THEN "recv" ELSE "none"
  BY <1>1, TypesOf DEF Init
<1>3. /\ \A p \in Procs : pc[p] = "idle"
      /\ \A c \in Consumers : c \in Procs
      /\ \A w \in Writers : w \in Procs
      /\ \A x \in Closers : x \in Procs
  BY <1>2 DEF Procs
<1>4. 1 \in Streams /\ Streams \subseteq Nat \ {0}
  BY BoundsAssumption DEF BoundsAssumption, Streams
<1>5. RolesInv
  BY ONLY <1>2, <1>3 DEF RolesInv
<1>6. CurrentInv
  BY ONLY <1>2, <1>3 DEF CurrentInv
<1>7. RefusedInv
  BY ONLY <1>2, <1>3 DEF RefusedInv, HoldsRejection
<1>8. RefreshingInv
  BY ONLY <1>2, <1>3 DEF RefreshingInv, Refreshing, ClosingSteps, InputSteps
<1>9. CloseInv /\ CancelledCloses
  BY ONLY <1>2, <1>4 DEF CloseInv, CancelledCloses, ClosingSteps
<1>10. ReadersInv
  BY ONLY <1>2, <1>4 DEF ReadersInv
<1>11. UntouchedInv /\ ClosingStdin
  BY ONLY <1>2, <1>4 DEF UntouchedInv, ClosingStdin
<1>12. WireInv
  BY ONLY <1>2 DEF WireInv
<1>13. SerialInv
  BY ONLY <1>2 DEF SerialInv
<1>14. RerunInv
  BY ONLY <1>2, <1>3, <1>4 DEF RerunInv, MarkInv
<1> QED
  BY <1>1, <1>5, <1>6, <1>7, <1>8, <1>9, <1>10, <1>11, <1>12, <1>13, <1>14
     DEF SessionInv, StreamsInv

\* Every step of a goroutine, the guest or time keeps the invariant.
LEMMA SessionStep == SessionInv /\ [Next]_vars => SessionInv'
<1> SUFFICES ASSUME SessionInv, [Next]_vars PROVE SessionInv'
  OBVIOUS
<1>1. /\ TypeOK /\ RefreshInv /\ RolesInv /\ StreamsInv /\ CloseInv /\ ReadersInv
      /\ UntouchedInv /\ CancelledCloses /\ ClosingStdin /\ WireInv /\ DeliveryInv
      /\ SerialInv /\ RerunInv
  BY DEF SessionInv
<1>2. TypeOK' /\ RefreshInv'
  BY <1>1, TypeInductive, RefreshInductive
<1>3. CurrentInv' /\ RefusedInv' /\ RefreshingInv'
  BY <1>1, CurrentStep, RefusedStep, RefreshingStep
<1>4. StreamsInv'
  BY <1>3 DEF StreamsInv
<1>5. RolesInv' /\ CloseInv' /\ ReadersInv' /\ UntouchedInv'
  BY <1>1, RolesStep, CloseInvStep, ReadersStep, UntouchedStep
<1>6. CancelledCloses' /\ ClosingStdin' /\ WireInv'
  BY <1>1, CancelledStep, ClosingStdinStep, WireStep
<1>7. DeliveryInv' /\ SerialInv'
  BY <1>1, <1>2, DeliveryStep, SerialStep
<1>8. RerunInv'
  BY <1>1, <1>4, RerunStep
<1> QED
  BY <1>2, <1>4, <1>5, <1>6, <1>7, <1>8 DEF SessionInv

\* The invariant holds of every session, however many goroutines share it.
LEMMA SessionInvariant == Spec => []SessionInv
BY InitSession, SessionStep, PTL DEF Spec

\* Between the calls of a session's callers no stream but the current one is
\* left with its RPC running, and none of a session that was closed, unless a
\* refresh opened another after Close: tryRefresh closes the old stream before
\* it opens the new one, and whoever marks a stream cancelled also ends it.
THEOREM QuietRunsCurrent == Spec => []OnlyCurrentRuns
<1>1. SessionInv => OnlyCurrentRuns
  <2> SUFFICES ASSUME SessionInv, Quiet, NEW i \in 1 .. opened
               PROVE  over[i] \/ (i = current /\ (closed => refreshed))
    BY DEF OnlyCurrentRuns
  <2>1. /\ TypeOK /\ RefreshInv /\ CurrentInv /\ RefusedInv /\ CloseInv
        /\ \A p \in Procs : pc[p] = "idle"
        /\ \A c \in Consumers : c \in Procs
    BY DEF SessionInv, StreamsInv, Quiet, Procs
  <2>2. /\ \A c \in Consumers : pc[c] # "swap"
        /\ \A p \in Procs : pc[p] \notin ClosingSteps
    BY ONLY <2>1 DEF ClosingSteps
  <2>3. /\ opened \in {1, 2} /\ current \in 1 .. opened /\ (opened = 2 => refreshed)
        /\ opened = 2 => current # 1
    BY ONLY <2>1, <2>2 DEF CurrentInv
  <2>4. closed /\ ~refreshed => over[1]
    BY ONLY <2>1, <2>2 DEF CloseInv
  <2>5. refreshed => over[1]
    BY ONLY <2>1 DEF RefusedInv, RefusedFirst
  <2> QED
    BY ONLY <2>3, <2>4, <2>5
<1> QED
  BY <1>1, SessionInvariant, PTL

\* From any stream the callers of Next get outputs the guest has written, in
\* the order it wrote them and none twice, then one terminal event at most and
\* an end behind an exit: readLoop, emit and next() pass on what Recv returned,
\* one event at a time, and a dropped event puts nothing out of order.  From a
\* stream that dropped nothing the outputs have no gap, and an end comes only
\* of an exit or a cancellation.
THEOREM DeliveredInOrder == Spec => []DeliveryOrder
<1>1. SessionInv => DeliveryOrder
  <2> SUFFICES ASSUME SessionInv, NEW i \in Streams, NEW j \in 1 .. Len(delivered[i])
               PROVE  LET e == delivered[i][j]
                          before == delivered[i][j - 1] IN
                      /\ e.kind = "output" => e.n \in 1 .. outs[i]
                      /\ e.kind = "exit" => guest[i] = "ended"
                      /\ j > 1 => \/ /\ before.kind = "output"
                                     /\ e.kind = "output" => before.n < e.n
                                  \/ before.kind = "exit" /\ e.kind = "end"
                      /\ ~lost[i] =>
                           /\ e.kind = "output" => e.n = j
                           /\ e.kind = "exit" => j = outs[i] + 1
                           /\ e.kind = "end" => cancelled[i] \/ (j > 1 /\ before.kind = "exit")
    BY DEF DeliveryOrder
  <2>1. delivered[i] \in Seq(Events) /\ events[i] \in Seq(Events) /\ EmittedOf(i)
    BY SeqTypesOf DEF SessionInv, DeliveryInv
  <2>2. /\ Len(delivered[i]) \in Nat /\ Len(Emitted(i)) \in Nat
        /\ Len(delivered[i]) <= Len(Emitted(i))
        /\ \A k \in 1 .. Len(delivered[i]) : Emitted(i)[k] = delivered[i][k]
    <3>1. /\ Len(delivered[i]) \in Nat /\ Len(delivered[i] \o events[i]) \in Nat
          /\ Len(delivered[i]) <= Len(delivered[i] \o events[i])
          /\ \A k \in 1 .. Len(delivered[i]) : (delivered[i] \o events[i])[k] = delivered[i][k]
      BY <2>1, PrefixOfConcat
    <3> QED
      BY ONLY <3>1, Zenon DEF Emitted
  <2>3. EmittedAt(i, Emitted(i), j)
    BY ONLY <2>1, <2>2 DEF EmittedOf
  <2>4. /\ Emitted(i)[j] = delivered[i][j]
        /\ j > 1 => Emitted(i)[j - 1] = delivered[i][j - 1]
    BY ONLY <2>2
  <2>5. Heard(i) \in Int /\ Heard(i) <= outs[i] /\ outs[i] \in Nat
    <3>1. outs[i] \in Nat
      BY DEF SessionInv, TypeOK, GuestType
    <3>2. down[i] \in Seq(Events)
      BY DEF SessionInv, TypeOK, GuestType
    <3>3. Len(down[i]) \in Nat
      BY <3>2, LenProperties
    <3>4. Outputs(down[i]) \in Nat
      BY <3>3 DEF Outputs
    <3> QED
      BY <3>1, <3>4 DEF Heard
  <2> QED
    BY ONLY <2>3, <2>4, <2>5 DEF EmittedAt
<1> QED
  BY <1>1, SessionInvariant, PTL

\* A session used by one goroutine, or with one goroutine in Next, starts its
\* command again only if a rejection is all that the first stream gave: an
\* output sets responsesStarted before the goroutine can see the rejection.
THEOREM RerunsBeforeOutput == OneConsumer => (Spec => []RerunOnlyBeforeOutput)
<1>1. SessionInv /\ OneConsumer => RerunOnlyBeforeOutput
  BY DEF SessionInv, StreamsInv, CurrentInv, RerunInv, RerunOnlyBeforeOutput
<1>2. SUFFICES ASSUME OneConsumer PROVE Spec => []RerunOnlyBeforeOutput
  OBVIOUS
<1>3. SessionInv => RerunOnlyBeforeOutput
  BY <1>1, <1>2
<1> QED
  BY <1>3, SessionInvariant, PTL
=============================================================================
