-------------------------- MODULE ExecSessionProofs --------------------------
(* Theorems about ExecSession, for every number of callers and any bounds.  *)
EXTENDS ExecSession, TLAPS

\* The variables are typed when the session is made.
LEMMA InitType == Init => TypeOK
<1> SUFFICES ASSUME Init PROVE TypeOK
  OBVIOUS
<1> USE BoundsAssumption DEF Init, BoundsAssumption
<1>1. SessionType
  <2>1. current \in Streams
    BY DEF Streams
  <2>2. pending \in Seq(Inputs)
    OBVIOUS
  <2> QED
    BY <2>1, <2>2 DEF SessionType
<1>2. StreamType
  BY DEF StreamType, Streams
<1>3. ReaderType
  BY DEF ReaderType, Streams, Events, EventKinds, Event
<1>4. GrpcType
  BY DEF GrpcType
<1>5. GuestType
  BY DEF GuestType
<1>6. ProcType
  BY DEF ProcType, Steps, Streams
<1>7. EnvType
  BY DEF EnvType
<1>8. HistoryType
  BY DEF HistoryType
<1> QED
  BY <1>1, <1>2, <1>3, <1>4, <1>5, <1>6, <1>7, <1>8 DEF TypeOK

\* BeginNext keeps every variable typed.
LEMMA BeginNextType ==
  ASSUME TypeOK, NEW c \in Consumers, BeginNext(c)
  PROVE  TypeOK'
<1>1. SessionType' /\ StreamType' /\ ReaderType' /\ GrpcType' /\ GuestType' /\
   EnvType' /\ HistoryType'
  BY DEF TypeOK, BeginNext, sessionVars, streamVars, readerVars, grpcVars,
     guestVars, envVars, historyVars, SessionType, StreamType, ReaderType,
     GrpcType, GuestType, EnvType, HistoryType
<1>2. ProcType'
  BY DEF TypeOK, ProcType, BeginNext, Procs, Goto, SessionType, Steps
<1> QED
  BY <1>1, <1>2 DEF TypeOK

\* Take keeps every variable typed.
LEMMA TakeType ==
  ASSUME TypeOK, NEW c \in Consumers, Take(c)
  PROVE  TypeOK'
<1>1. SessionType' /\ StreamType' /\ GrpcType' /\ GuestType' /\ EnvType'
  BY DEF TypeOK, Take, sessionVars, streamVars, grpcVars, guestVars, envVars,
     SessionType, StreamType, GrpcType, GuestType, EnvType
<1>2. ReaderType'
  BY DEF TypeOK, ReaderType, Take, ProcType, Procs
<1>3. HistoryType'
  BY DEF TypeOK, HistoryType, Take, ReaderType, ProcType, Procs
<1>4. ProcType'
  BY DEF TypeOK, ProcType, Take, Procs, Goto, Steps, AfterTake
<1> QED
  BY <1>1, <1>2, <1>3, <1>4 DEF TypeOK

\* Expire keeps every variable typed.
LEMMA ExpireType ==
  ASSUME TypeOK, NEW c \in Consumers, Expire(c)
  PROVE  TypeOK'
<1>1. SessionType' /\ StreamType' /\ ReaderType' /\ GrpcType' /\ GuestType' /\
   EnvType' /\ HistoryType'
  BY DEF TypeOK, Expire, sessionVars, streamVars, readerVars, grpcVars,
     guestVars, envVars, historyVars, SessionType, StreamType, ReaderType,
     GrpcType, GuestType, EnvType, HistoryType
<1>2. ProcType'
  BY DEF TypeOK, ProcType, Expire, Procs, Goto, SessionType, Steps
<1> QED
  BY <1>1, <1>2 DEF TypeOK

\* MarkStarted keeps every variable typed.
LEMMA MarkStartedType ==
  ASSUME TypeOK, NEW c \in Consumers, MarkStarted(c)
  PROVE  TypeOK'
<1>1. StreamType' /\ ReaderType' /\ GrpcType' /\ GuestType' /\ EnvType' /\
   HistoryType'
  BY DEF TypeOK, MarkStarted, streamVars, readerVars, grpcVars, guestVars,
     envVars, historyVars, StreamType, ReaderType, GrpcType, GuestType,
     EnvType, HistoryType
<1>2. SessionType'
  BY DEF TypeOK, SessionType, MarkStarted
<1>3. ProcType'
  BY DEF TypeOK, ProcType, MarkStarted, Procs, Goto, Steps
<1> QED
  BY <1>1, <1>2, <1>3 DEF TypeOK

\* RefreshCheck keeps every variable typed.
LEMMA RefreshCheckType ==
  ASSUME TypeOK, NEW c \in Consumers, RefreshCheck(c)
  PROVE  TypeOK'
<1>1. SessionType' /\ StreamType' /\ ReaderType' /\ GrpcType' /\ GuestType' /\
   EnvType' /\ HistoryType'
  BY DEF TypeOK, RefreshCheck, sessionVars, streamVars, readerVars, grpcVars,
     guestVars, envVars, historyVars, SessionType, StreamType, ReaderType,
     GrpcType, GuestType, EnvType, HistoryType
<1>2. ProcType'
  BY DEF TypeOK, ProcType, RefreshCheck, Procs, Goto, Steps
<1> QED
  BY <1>1, <1>2 DEF TypeOK

\* SniffExpiry keeps every variable typed.
LEMMA SniffExpiryType ==
  ASSUME TypeOK, NEW c \in Consumers, SniffExpiry(c)
  PROVE  TypeOK'
<1>1. SessionType' /\ StreamType' /\ ReaderType' /\ GrpcType' /\ GuestType' /\
   EnvType' /\ HistoryType'
  BY DEF TypeOK, SniffExpiry, sessionVars, streamVars, readerVars, grpcVars,
     guestVars, envVars, historyVars, SessionType, StreamType, ReaderType,
     GrpcType, GuestType, EnvType, HistoryType
<1>2. ProcType'
  BY DEF TypeOK, ProcType, SniffExpiry, Procs, Goto, Steps
<1> QED
  BY <1>1, <1>2 DEF TypeOK

\* CommitRefresh keeps every variable typed.
LEMMA CommitRefreshType ==
  ASSUME TypeOK, NEW c \in Consumers, CommitRefresh(c)
  PROVE  TypeOK'
<1>1. StreamType' /\ ReaderType' /\ GrpcType' /\ GuestType' /\ EnvType'
  BY DEF TypeOK, CommitRefresh, streamVars, readerVars, grpcVars, guestVars,
     envVars, StreamType, ReaderType, GrpcType, GuestType, EnvType
<1>2. SessionType'
  BY DEF TypeOK, SessionType, CommitRefresh
<1>3. HistoryType'
  BY DEF TypeOK, HistoryType, CommitRefresh
<1>4. ProcType'
  BY DEF TypeOK, ProcType, CommitRefresh, Procs, Goto, Steps, SessionType
<1> QED
  BY <1>1, <1>2, <1>3, <1>4 DEF TypeOK

\* Reissue keeps every variable typed.
LEMMA ReissueType ==
  ASSUME TypeOK, NEW c \in Consumers, Reissue(c)
  PROVE  TypeOK'
<1>1. SessionType' /\ StreamType' /\ ReaderType' /\ GrpcType' /\ GuestType' /\
   HistoryType'
  BY DEF TypeOK, Reissue, sessionVars, streamVars, readerVars, grpcVars,
     guestVars, historyVars, SessionType, StreamType, ReaderType, GrpcType,
     GuestType, HistoryType
<1>2. EnvType'
  BY DEF TypeOK, EnvType, Reissue
<1>3. ProcType'
  BY DEF TypeOK, ProcType, Reissue, Procs, Goto, Steps
<1> QED
  BY <1>1, <1>2, <1>3 DEF TypeOK

\* OpenStream keeps every variable typed.
LEMMA OpenStreamType ==
  ASSUME TypeOK, NEW c \in Consumers, OpenStream(c)
  PROVE  TypeOK'
<1>1. SessionType' /\ GrpcType' /\ GuestType' /\ EnvType' /\ HistoryType'
  BY DEF TypeOK, OpenStream, sessionVars, grpcVars, guestVars, envVars,
     historyVars, SessionType, GrpcType, GuestType, EnvType, HistoryType
<1>2. StreamType'
  BY DEF TypeOK, StreamType, OpenStream
<1>3. ReaderType'
  BY DEF TypeOK, ReaderType, OpenStream
<1>4. ProcType'
  BY DEF TypeOK, ProcType, OpenStream, Procs, Goto, Steps
<1> QED
  BY <1>1, <1>2, <1>3, <1>4 DEF TypeOK

\* OpenFails keeps every variable typed.
LEMMA OpenFailsType ==
  ASSUME TypeOK, NEW c \in Consumers, OpenFails(c)
  PROVE  TypeOK'
<1>1. SessionType' /\ StreamType' /\ ReaderType' /\ GrpcType' /\ GuestType' /\
   EnvType' /\ HistoryType'
  BY DEF TypeOK, OpenFails, sessionVars, streamVars, readerVars, grpcVars,
     guestVars, envVars, historyVars, SessionType, StreamType, ReaderType,
     GrpcType, GuestType, EnvType, HistoryType
<1>2. ProcType'
  BY DEF TypeOK, ProcType, OpenFails, Procs, Goto, Steps
<1> QED
  BY <1>1, <1>2 DEF TypeOK

\* SwapStream keeps every variable typed.
LEMMA SwapStreamType ==
  ASSUME TypeOK, NEW c \in Consumers, SwapStream(c)
  PROVE  TypeOK'
<1>1. StreamType' /\ ReaderType' /\ GrpcType' /\ GuestType' /\ EnvType' /\
   HistoryType'
  BY DEF TypeOK, SwapStream, streamVars, readerVars, grpcVars, guestVars,
     envVars, historyVars, StreamType, ReaderType, GrpcType, GuestType,
     EnvType, HistoryType
<1>2. SessionType'
  BY DEF TypeOK, SessionType, SwapStream, ProcType, Procs
<1>3. ProcType'
  BY DEF TypeOK, ProcType, SwapStream, Procs, Goto, Steps, ReplayEntry,
     SessionType
<1> QED
  BY <1>1, <1>2, <1>3 DEF TypeOK

\* InputCall keeps every variable typed.
LEMMA InputCallType ==
  ASSUME TypeOK, NEW w \in Writers, InputCall(w)
  PROVE  TypeOK'
<1>1. SessionType' /\ StreamType' /\ ReaderType' /\ GrpcType' /\ GuestType' /\
   EnvType'
  BY DEF TypeOK, InputCall, sessionVars, streamVars, readerVars, grpcVars,
     guestVars, envVars, SessionType, StreamType, ReaderType, GrpcType,
     GuestType, EnvType
<1>2. HistoryType'
  BY BoundsAssumption DEF TypeOK, HistoryType, InputCall, BoundsAssumption
<1>3. ProcType'
  <2> w \in Procs
    BY DEF Procs
  <2>1. PICK k \in Kinds : todo' = [todo EXCEPT ![w] = <<[kind |-> k, n |-> calls + 1]>>]
    BY DEF InputCall
  <2>2. [kind |-> k, n |-> calls + 1] \in Inputs
    BY BoundsAssumption DEF TypeOK, HistoryType, InputCall, Inputs, BoundsAssumption
  <2> DEFINE x == [kind |-> k, n |-> calls + 1]
  <2>3. <<x>> \in Seq(Inputs) /\ <<x>> # <<>>
    BY <2>2
  <2> HIDE DEF x
  <2> QED
    BY <2>1, <2>3 DEF x, TypeOK, ProcType, SessionType, InputCall, Goto, Steps, MayRefresh
<1> QED
  BY <1>1, <1>2, <1>3 DEF TypeOK

\* What InputDone does to the process that took the input step.
LEMMA InputDoneType ==
  ASSUME TypeOK, NEW p \in Procs, NEW ok \in BOOLEAN, todo[p] # <<>>, InputDone(p, ok)
  PROVE  /\ pc' \in [Procs -> Steps]
         /\ todo' \in [Procs -> Seq(Inputs)]
         /\ \A q \in Procs :
              pc'[q] \in {"enter", "lock", "send", "record"} => todo'[q] # <<>>
<1> USE DEF TypeOK, ProcType
<1>1. CASE Keeps(p, ok)
  BY <1>1 DEF InputDone, Goto, Steps
<1>2. CASE ~Keeps(p, ok)
  <2>1. Tail(todo[p]) \in Seq(Inputs)
    OBVIOUS
  <2>2. todo' = [todo EXCEPT ![p] = Tail(@)]
    BY <1>2 DEF InputDone
  <2>3. pc' = [pc EXCEPT ![p] = CASE p \in Writers -> "idle"
                    [] p \notin Writers /\ Tail(todo[p]) = <<>> -> "again"
                    [] OTHER -> "enter"]
    BY <1>2 DEF InputDone, Goto
  <2>4. pc'[p] = "enter" => Tail(todo[p]) # <<>>
    BY <2>3
  <2>5. pc'[p] \in {"idle", "again", "enter"}
    BY <2>3
  <2> QED
    BY <2>1, <2>2, <2>3, <2>4, <2>5 DEF Steps
<1> QED
  BY <1>1, <1>2

\* EnterData keeps every variable typed.
LEMMA EnterDataType ==
  ASSUME TypeOK, NEW p \in Procs, EnterData(p)
  PROVE  TypeOK'
<1>1. SessionType' /\ StreamType' /\ ReaderType' /\ GrpcType' /\ GuestType' /\
   EnvType' /\ HistoryType'
  BY DEF TypeOK, EnterData, sessionVars, streamVars, readerVars, grpcVars,
     guestVars, envVars, historyVars, SessionType, StreamType, ReaderType,
     GrpcType, GuestType, EnvType, HistoryType
<1>2. ProcType'
  <2>1. CASE InputRefused(cur[p])
    BY <2>1, InputDoneType DEF TypeOK, ProcType, EnterData
  <2>2. CASE ~InputRefused(cur[p])
    BY <2>2 DEF TypeOK, ProcType, EnterData, Goto, Steps
  <2> QED
    BY <2>1, <2>2
<1> QED
  BY <1>1, <1>2 DEF TypeOK

\* EnterCloseStdin keeps every variable typed.
LEMMA EnterCloseStdinType ==
  ASSUME TypeOK, NEW p \in Procs, EnterCloseStdin(p)
  PROVE  TypeOK'
<1>1. SessionType' /\ ReaderType' /\ GrpcType' /\ GuestType' /\ EnvType' /\
   HistoryType'
  BY DEF TypeOK, EnterCloseStdin, sessionVars, readerVars, grpcVars,
     guestVars, envVars, historyVars, SessionType, ReaderType, GrpcType,
     GuestType, EnvType, HistoryType
<1>2. StreamType'
  BY DEF TypeOK, StreamType, EnterCloseStdin
<1>3. ProcType'
  <2>1. CASE stdinClosed[cur[p]]
    BY <2>1, InputDoneType DEF TypeOK, ProcType, EnterCloseStdin
  <2>2. CASE ~stdinClosed[cur[p]]
    BY <2>2 DEF TypeOK, ProcType, EnterCloseStdin, Goto, Steps
  <2> QED
    BY <2>1, <2>2
<1> QED
  BY <1>1, <1>2, <1>3 DEF TypeOK

\* LockSend keeps every variable typed.
LEMMA LockSendType ==
  ASSUME TypeOK, NEW p \in Procs, LockSend(p)
  PROVE  TypeOK'
<1>1. SessionType' /\ ReaderType' /\ GrpcType' /\ GuestType' /\ EnvType' /\
   HistoryType'
  BY DEF TypeOK, LockSend, sessionVars, readerVars, grpcVars, guestVars,
     envVars, historyVars, SessionType, ReaderType, GrpcType, GuestType,
     EnvType, HistoryType
<1>2. StreamType'
  BY DEF TypeOK, StreamType, LockSend, ProcType
<1>3. ProcType'
  BY DEF TypeOK, ProcType, LockSend, Goto, Steps
<1> QED
  BY <1>1, <1>2, <1>3 DEF TypeOK

\* Every kind of event without a payload is an event.
LEMMA EventType == \A k \in EventKinds : Event(k) \in Events
  BY BoundsAssumption DEF BoundsAssumption, Events, Event

\* What a Send does to the gRPC stream.
LEMMA GrpcSendType ==
  ASSUME TypeOK, NEW i \in Streams, NEW f \in Frames, NEW ok \in BOOLEAN,
         GrpcSend(i, f, ok)
  PROVE  /\ over' \in [Streams -> BOOLEAN]
         /\ wire' \in [Streams -> Seq(Frames)]
<1>1. CASE ok
  <2>1. Append(wire[i], f) \in Seq(Frames)
    BY DEF TypeOK, GrpcType
  <2>2. wire' = [wire EXCEPT ![i] = Append(@, f)] /\ over' = over
    BY <1>1 DEF GrpcSend
  <2> QED
    BY <2>1, <2>2 DEF TypeOK, GrpcType
<1>2. CASE ~ok
  BY <1>2 DEF GrpcSend, TypeOK, GrpcType
<1> QED
  BY <1>1, <1>2

\* SendData keeps every variable typed.
LEMMA SendDataType ==
  ASSUME TypeOK, NEW p \in Procs, SendData(p)
  PROVE  TypeOK'
<1>1. SessionType' /\ ReaderType' /\ GuestType' /\ EnvType' /\ HistoryType'
  BY DEF TypeOK, SendData, sessionVars, readerVars, guestVars, envVars,
     historyVars, SessionType, ReaderType, GuestType, EnvType, HistoryType
<1>2. StreamType'
  BY DEF TypeOK, StreamType, SendData
<1>3. GrpcType'
  <2>1. Head(todo[p]) \in Frames
    BY DEF TypeOK, ProcType, SendData, Frames
  <2> QED
    BY <2>1, GrpcSendType DEF TypeOK, GrpcType, ProcType, SendData
<1>4. ProcType'
  <2>1. PICK ok \in BOOLEAN : InputDone(p, ok)
    BY DEF SendData
  <2> QED
    BY <2>1, InputDoneType DEF TypeOK, ProcType, SendData
<1> QED
  BY <1>1, <1>2, <1>3, <1>4 DEF TypeOK

\* SendCloseStdin keeps every variable typed.
LEMMA SendCloseStdinType ==
  ASSUME TypeOK, NEW p \in Procs, SendCloseStdin(p)
  PROVE  TypeOK'
<1>1. SessionType' /\ ReaderType' /\ GuestType' /\ EnvType' /\ HistoryType'
  BY DEF TypeOK, SendCloseStdin, sessionVars, readerVars, guestVars, envVars,
     historyVars, SessionType, ReaderType, GuestType, EnvType, HistoryType
<1>2. StreamType'
  BY DEF TypeOK, StreamType, SendCloseStdin
<1>3. GrpcType'
  <2>1. Head(todo[p]) \in Frames
    BY DEF TypeOK, ProcType, SendCloseStdin, Frames
  <2> QED
    BY <2>1 DEF TypeOK, GrpcType, ProcType, SendCloseStdin
<1>4. ProcType'
  BY InputDoneType DEF TypeOK, ProcType, SendCloseStdin
<1> QED
  BY <1>1, <1>2, <1>3, <1>4 DEF TypeOK

\* RecordInput keeps every variable typed.
LEMMA RecordInputType ==
  ASSUME TypeOK, NEW w \in Writers, RecordInput(w)
  PROVE  TypeOK'
<1>1. StreamType' /\ ReaderType' /\ GrpcType' /\ GuestType' /\ EnvType' /\
   HistoryType'
  BY DEF TypeOK, RecordInput, streamVars, readerVars, grpcVars, guestVars,
     envVars, historyVars, StreamType, ReaderType, GrpcType, GuestType,
     EnvType, HistoryType
<1>2. SessionType'
  <2>1. Head(todo[w]) \in Inputs
    BY DEF TypeOK, ProcType, RecordInput, Procs
  <2> QED
    BY <2>1 DEF TypeOK, SessionType, RecordInput, PendingWith
<1>3. ProcType'
  BY DEF TypeOK, ProcType, RecordInput, Procs, Goto, Steps
<1> QED
  BY <1>1, <1>2, <1>3 DEF TypeOK

\* BeginClose keeps every variable typed.
LEMMA BeginCloseType ==
  ASSUME TypeOK, NEW x \in Closers, BeginClose(x), closed' \in BOOLEAN
  PROVE  TypeOK'
<1>1. StreamType' /\ ReaderType' /\ GrpcType' /\ GuestType' /\ EnvType' /\
   HistoryType'
  BY DEF TypeOK, BeginClose, streamVars, readerVars, grpcVars, guestVars,
     envVars, historyVars, StreamType, ReaderType, GrpcType, GuestType,
     EnvType, HistoryType
<1>2. SessionType'
  BY DEF TypeOK, SessionType, BeginClose
<1>3. ProcType'
  BY DEF TypeOK, ProcType, BeginClose, Procs, Goto, SessionType, Steps
<1> QED
  BY <1>1, <1>2, <1>3 DEF TypeOK

\* CloseMark keeps every variable typed.
LEMMA CloseMarkType ==
  ASSUME TypeOK, NEW p \in Procs, CloseMark(p)
  PROVE  TypeOK'
<1>1. SessionType' /\ ReaderType' /\ GrpcType' /\ GuestType' /\ EnvType' /\
   HistoryType'
  BY DEF TypeOK, CloseMark, sessionVars, readerVars, grpcVars, guestVars,
     envVars, historyVars, SessionType, ReaderType, GrpcType, GuestType,
     EnvType, HistoryType
<1>2. StreamType'
  BY DEF TypeOK, StreamType, CloseMark, ProcType
<1>3. ProcType'
  BY DEF TypeOK, ProcType, CloseMark, Goto, Steps
<1> QED
  BY <1>1, <1>2, <1>3 DEF TypeOK

\* CloseSend keeps every variable typed.
LEMMA CloseSendType ==
  ASSUME TypeOK, NEW p \in Procs, CloseSend(p)
  PROVE  TypeOK'
<1>1. SessionType' /\ ReaderType' /\ GuestType' /\ EnvType' /\ HistoryType'
  BY DEF TypeOK, CloseSend, sessionVars, readerVars, guestVars, envVars,
     historyVars, SessionType, ReaderType, GuestType, EnvType, HistoryType
<1>2. StreamType'
  BY DEF TypeOK, StreamType, CloseSend
<1>3. GrpcType'
  <2>1. CancelFrame \in Frames /\ cur[p] \in Streams
    BY DEF TypeOK, ProcType, Frames
  <2>2. PICK ok \in BOOLEAN : GrpcSend(cur[p], CancelFrame, ok)
    BY DEF CloseSend
  <2> QED
    BY <2>1, <2>2, GrpcSendType DEF TypeOK, GrpcType, CloseSend
<1>4. ProcType'
  BY DEF TypeOK, ProcType, CloseSend, Goto, Steps
<1> QED
  BY <1>1, <1>2, <1>3, <1>4 DEF TypeOK

\* CloseWait keeps every variable typed.
LEMMA CloseWaitType ==
  ASSUME TypeOK, NEW p \in Procs, CloseWait(p)
  PROVE  TypeOK'
<1>1. SessionType' /\ StreamType' /\ ReaderType' /\ GuestType' /\ EnvType' /\
   HistoryType'
  BY DEF TypeOK, CloseWait, sessionVars, streamVars, readerVars, guestVars,
     envVars, historyVars, SessionType, StreamType, ReaderType, GuestType,
     EnvType, HistoryType
<1>2. GrpcType'
  BY DEF TypeOK, GrpcType, CloseWait
<1>3. ProcType'
  BY DEF TypeOK, ProcType, CloseWait, Goto, Steps
<1> QED
  BY <1>1, <1>2, <1>3 DEF TypeOK

\* RecvResponse keeps every variable typed.
LEMMA RecvResponseType ==
  ASSUME TypeOK, NEW i \in Streams, RecvResponse(i)
  PROVE  TypeOK'
<1>1. SessionType' /\ StreamType' /\ GrpcType' /\ ProcType' /\ EnvType' /\
   HistoryType'
  BY DEF TypeOK, RecvResponse, sessionVars, streamVars, grpcVars, procVars,
     envVars, historyVars, SessionType, StreamType, GrpcType, ProcType,
     EnvType, HistoryType
<1>2. GuestType'
  BY DEF TypeOK, GuestType, RecvResponse
<1>3. ReaderType'
  <2>1. Head(down[i]) \in Events /\ Event("failed") \in Events /\ Event("end") \in Events
    BY EventType DEF TypeOK, GuestType, RecvResponse, EventKinds
  <2> QED
    BY <2>1 DEF TypeOK, ReaderType, RecvResponse
<1> QED
  BY <1>1, <1>2, <1>3 DEF TypeOK

\* RecvError keeps every variable typed.
LEMMA RecvErrorType ==
  ASSUME TypeOK, NEW i \in Streams, RecvError(i)
  PROVE  TypeOK'
<1>1. SessionType' /\ StreamType' /\ ProcType' /\ EnvType' /\ HistoryType'
  BY DEF TypeOK, RecvError, sessionVars, streamVars, procVars, envVars,
     historyVars, SessionType, StreamType, ProcType, EnvType, HistoryType
<1>2. GuestType'
  <2>1. down[i] # <<>> => Tail(down[i]) \in Seq(Events)
    BY DEF TypeOK, GuestType
  <2>2. \/ down' = down
        \/ down[i] # <<>> /\ down' = [down EXCEPT ![i] = Tail(@)]
    BY DEF RecvError
  <2>3. taken' = taken /\ guest' = guest /\ outs' = outs
    BY DEF RecvError
  <2> QED
    BY <2>1, <2>2, <2>3 DEF TypeOK, GuestType
<1>3. GrpcType'
  BY DEF TypeOK, GrpcType, RecvError
<1>4. ReaderType'
  <2>1. /\ Event("failed") \in Events /\ Event("rejected") \in Events
        /\ Event("end") \in Events
    BY EventType DEF EventKinds
  <2> QED
    BY <2>1 DEF TypeOK, ReaderType, RecvError, RecvErrorEvent
<1> QED
  BY <1>1, <1>2, <1>3, <1>4 DEF TypeOK

\* Emit keeps every variable typed.
LEMMA EmitType ==
  ASSUME TypeOK, NEW i \in Streams, Emit(i)
  PROVE  TypeOK'
<1>1. SessionType' /\ StreamType' /\ GrpcType' /\ GuestType' /\ ProcType' /\
   EnvType' /\ HistoryType'
  BY DEF TypeOK, Emit, Queued, sessionVars, streamVars, grpcVars, guestVars, procVars,
     envVars, historyVars, SessionType, StreamType, GrpcType, GuestType,
     ProcType, EnvType, HistoryType
<1>2. ReaderType'
  <2>1. Event("end") \in Events
    BY EventType DEF EventKinds
  <2> QED
    BY <2>1 DEF TypeOK, ReaderType, Emit, Queued, AfterEmit
<1> QED
  BY <1>1, <1>2 DEF TypeOK

\* GiveUp keeps every variable typed.
LEMMA GiveUpType ==
  ASSUME TypeOK, NEW i \in Streams, GiveUp(i)
  PROVE  TypeOK'
<1>1. SessionType' /\ StreamType' /\ GrpcType' /\ GuestType' /\ ProcType' /\
   EnvType'
  BY DEF TypeOK, GiveUp, sessionVars, streamVars, grpcVars, guestVars,
     procVars, envVars, SessionType, StreamType, GrpcType, GuestType,
     ProcType, EnvType
<1>2. ReaderType'
  <2>1. Event("end") \in Events
    BY EventType DEF EventKinds
  <2> QED
    BY <2>1 DEF TypeOK, ReaderType, GiveUp, AfterEmit
<1>3. HistoryType'
  BY DEF TypeOK, HistoryType, GiveUp
<1> QED
  BY <1>1, <1>2, <1>3 DEF TypeOK

\* GuestTakes keeps every variable typed.
LEMMA GuestTakesType ==
  ASSUME TypeOK, NEW i \in Streams, GuestTakes(i)
  PROVE  TypeOK'
<1>1. SessionType' /\ StreamType' /\ ReaderType' /\ GrpcType' /\ ProcType' /\
   EnvType' /\ HistoryType'
  BY DEF TypeOK, GuestTakes, sessionVars, streamVars, readerVars, grpcVars,
     procVars, envVars, historyVars, SessionType, StreamType, ReaderType,
     GrpcType, ProcType, EnvType, HistoryType
<1>2. GuestType'
  BY DEF TypeOK, GuestType, GuestTakes
<1> QED
  BY <1>1, <1>2 DEF TypeOK

\* GuestOutput keeps every variable typed.
LEMMA GuestOutputType ==
  ASSUME TypeOK, NEW i \in Streams, GuestOutput(i)
  PROVE  TypeOK'
<1>1. SessionType' /\ StreamType' /\ ReaderType' /\ GrpcType' /\ ProcType' /\
   EnvType' /\ HistoryType'
  BY DEF TypeOK, GuestOutput, sessionVars, streamVars, readerVars, grpcVars,
     procVars, envVars, historyVars, SessionType, StreamType, ReaderType,
     GrpcType, ProcType, EnvType, HistoryType
<1>2. GuestType'
  <2>1. Output(outs[i] + 1) \in Events /\ outs[i] + 1 \in 0 .. MaxOutputs
    BY BoundsAssumption DEF BoundsAssumption, TypeOK, GuestType, GuestOutput, Events,
       EventKinds, Output
  <2> QED
    BY <2>1 DEF TypeOK, GuestType, GuestOutput
<1> QED
  BY <1>1, <1>2 DEF TypeOK

\* GuestEnds keeps every variable typed.
LEMMA GuestEndsType ==
  ASSUME TypeOK, NEW i \in Streams, GuestEnds(i)
  PROVE  TypeOK'
<1>1. SessionType' /\ StreamType' /\ ReaderType' /\ GrpcType' /\ ProcType' /\
   EnvType' /\ HistoryType'
  BY DEF TypeOK, GuestEnds, sessionVars, streamVars, readerVars, grpcVars,
     procVars, envVars, historyVars, SessionType, StreamType, ReaderType,
     GrpcType, ProcType, EnvType, HistoryType
<1>2. GuestType'
  BY EventType DEF TypeOK, GuestType, GuestEnds, EventKinds
<1> QED
  BY <1>1, <1>2 DEF TypeOK

\* DeadlinePasses keeps every variable typed.
LEMMA DeadlinePassesType ==
  ASSUME TypeOK, DeadlinePasses
  PROVE  TypeOK'
<1>1. SessionType' /\ StreamType' /\ ReaderType' /\ GrpcType' /\ GuestType' /\
   ProcType' /\ HistoryType'
  BY DEF TypeOK, DeadlinePasses, sessionVars, streamVars, readerVars,
     grpcVars, guestVars, procVars, historyVars, SessionType, StreamType,
     ReaderType, GrpcType, GuestType, ProcType, HistoryType
<1>2. EnvType'
  BY DEF TypeOK, EnvType, DeadlinePasses
<1> QED
  BY <1>1, <1>2 DEF TypeOK

\* CapabilityExpires keeps every variable typed.
LEMMA CapabilityExpiresType ==
  ASSUME TypeOK, CapabilityExpires
  PROVE  TypeOK'
<1>1. SessionType' /\ StreamType' /\ ReaderType' /\ GrpcType' /\ GuestType' /\
   ProcType' /\ HistoryType'
  BY DEF TypeOK, CapabilityExpires, sessionVars, streamVars, readerVars,
     grpcVars, guestVars, procVars, historyVars, SessionType, StreamType,
     ReaderType, GrpcType, GuestType, ProcType, HistoryType
<1>2. EnvType'
  BY DEF TypeOK, EnvType, CapabilityExpires
<1> QED
  BY <1>1, <1>2 DEF TypeOK

\* ContextExpires keeps every variable typed.
LEMMA ContextExpiresType ==
  ASSUME TypeOK, NEW i \in Streams, ContextExpires(i)
  PROVE  TypeOK'
<1>1. SessionType' /\ StreamType' /\ ReaderType' /\ GuestType' /\ ProcType' /\
   EnvType' /\ HistoryType'
  BY DEF TypeOK, ContextExpires, sessionVars, streamVars, readerVars,
     guestVars, procVars, envVars, historyVars, SessionType, StreamType,
     ReaderType, GuestType, ProcType, EnvType, HistoryType
<1>2. GrpcType'
  BY DEF TypeOK, GrpcType, ContextExpires
<1> QED
  BY <1>1, <1>2 DEF TypeOK

\* Every step of Next keeps every variable in its type.
LEMMA TypeInductive == TypeOK /\ [Next]_vars => TypeOK'
<1> SUFFICES ASSUME TypeOK, [Next]_vars PROVE TypeOK'
  OBVIOUS
<1> USE DEF Procs
<1>1. ASSUME NEW p \in Procs, InputStep(p) PROVE TypeOK'
  BY <1>1, EnterDataType, EnterCloseStdinType, SendDataType, SendCloseStdinType
     DEF InputStep
<1>2. ASSUME NEW p \in Procs, CloseStep(p) PROVE TypeOK'
  BY <1>2, CloseMarkType, CloseSendType, CloseWaitType DEF CloseStep
<1>3. ASSUME NEW p \in Procs, LockSend(p) PROVE TypeOK'
  BY <1>3, LockSendType
<1>4. ASSUME NEW c \in Consumers, RefreshStep(c) PROVE TypeOK'
  BY <1>4, RefreshCheckType, SniffExpiryType, CommitRefreshType, ReissueType,
     OpenStreamType, OpenFailsType, SwapStreamType DEF RefreshStep
<1>5. ASSUME NEW c \in Consumers, NextCall(c) \/ ConsumerStep(c) PROVE TypeOK'
  BY <1>1, <1>2, <1>3, <1>4, <1>5, BeginNextType, TakeType, ExpireType,
     MarkStartedType DEF NextCall, NextAgain, ConsumerStep
<1>6. ASSUME NEW w \in Writers, InputCall(w) \/ WriterStep(w) PROVE TypeOK'
  BY <1>1, <1>3, <1>6, InputCallType, RecordInputType DEF WriterStep
<1>7. ASSUME NEW x \in Closers, CloseCall(x) \/ CancelCall(x) \/ CloserStep(x)
      PROVE  TypeOK'
  <2>1. ASSUME BeginClose(x), closed' = TRUE \/ closed' = closed PROVE TypeOK'
    BY <2>1, BeginCloseType DEF TypeOK, SessionType
  <2> QED
    BY <1>2, <1>3, <1>7, <2>1 DEF CloseCall, CancelCall, CloserStep
<1>8. ASSUME NEW i \in Streams, ReaderStep(i) \/ GuestStep(i) \/ ContextExpires(i)
      PROVE  TypeOK'
  BY <1>8, RecvResponseType, RecvErrorType, EmitType, GiveUpType, GuestTakesType,
     GuestOutputType, GuestEndsType, ContextExpiresType DEF ReaderStep, GuestStep
<1>9. CASE DeadlinePasses \/ CapabilityExpires
  BY <1>9, DeadlinePassesType, CapabilityExpiresType
<1>10. CASE UNCHANGED vars
  BY <1>10 DEF vars, sessionVars, streamVars, readerVars, grpcVars, guestVars,
     procVars, envVars, historyVars, TypeOK, SessionType, StreamType, ReaderType,
     GrpcType, GuestType, ProcType, EnvType, HistoryType
<1> QED
  BY <1>5, <1>6, <1>7, <1>8, <1>9, <1>10 DEF Next

\* Every variable of a session keeps its type, whoever calls what: in
\* particular a replay never runs out of inputs in the middle of one.
THEOREM TypeCorrect == Spec => []TypeOK
  BY InitType, TypeInductive, PTL DEF Spec

-----------------------------------------------------------------------------
(***************************************************************************)
(* At most one refresh.  The rejection that starts one is a token: read    *)
(* once by the reader, last in the channel, then in one consumer's hands.  *)
(***************************************************************************)
LEMMA InitRefresh == Init => RefreshInv
<1> SUFFICES ASSUME Init PROVE RefreshInv
  OBVIOUS
<1>1. OneStream /\ RejectionIsLast /\ OneHolder
  BY BoundsAssumption
     DEF Init, OneStream, RejectionIsLast, OneHolder, HoldsRejection, Streams,
         Procs, BoundsAssumption
<1> QED
  BY <1>1 DEF Init, RefreshInv

\* A process moves to step s and leaves the token where it is.
LEMMA CallStep ==
  ASSUME TypeOK, RefreshInv, NEW p \in Procs, NEW s \in Steps, Goto(p, s),
         UNCHANGED <<refreshed, refreshes>>,
         refreshed => s \notin {"sniff", "commit"},
         ~refreshed =>
           /\ s \notin {"reissue", "open", "swap"}
           /\ s \in {"rejected", "sniff", "commit"} => HoldsRejection(p)
           /\ UNCHANGED <<opened, current, events, reader>>
           /\ \A q \in Procs : cur'[q] = 1 /\ then'[q] # "reissue"
  PROVE  RefreshInv'
<1>1. CASE refreshed
  BY <1>1 DEF RefreshInv, Goto, TypeOK, ProcType, Procs
<1>2. CASE ~refreshed
  <2>1. OneStream'
    BY <1>2 DEF RefreshInv, OneStream, Goto, TypeOK, ProcType
  <2>2. RejectionIsLast'
    BY <1>2 DEF RefreshInv, RejectionIsLast
  <2>3. \A c \in Consumers : HoldsRejection(c)' => HoldsRejection(c)
    BY <1>2 DEF HoldsRejection, Goto, TypeOK, ProcType, Procs
  <2>4. OneHolder'
    BY <1>2, <2>3 DEF RefreshInv, OneHolder
  <2> QED
    BY <1>2, <2>1, <2>2, <2>4 DEF RefreshInv
<1> QED
  BY <1>1, <1>2

\* A step that changes nothing the invariant speaks of.
LEMMA Undisturbed ==
  ASSUME RefreshInv, UNCHANGED <<refreshed, refreshes, opened, current, pc, cur,
                                 then, events, reader>>
  PROVE  RefreshInv'
  BY DEF RefreshInv, OneStream, RejectionIsLast, OneHolder, HoldsRejection

\* Popping an event: a rejection passes from the channel to the consumer.
LEMMA TakeRefresh ==
  ASSUME TypeOK, RefreshInv, NEW c \in Consumers, Take(c)
  PROVE  RefreshInv'
<1> DEFINE e == Head(events[cur[c]])
           s == AfterTake(c, e)
<1>1. c \in Procs /\ cur[c] \in Streams /\ s \in Steps
  BY DEF Procs, TypeOK, ProcType, AfterTake, Steps
<1>2. Goto(c, s) /\ s \in {"mark", "rejected", "idle"}
  BY DEF Take, AfterTake
<1>3. UNCHANGED <<refreshed, refreshes, opened, current, reader, cur, then>>
  BY DEF Take, sessionVars, streamVars
<1>4. CASE refreshed
  BY <1>1, <1>2, <1>3, <1>4, CallStep
<1>5. CASE ~refreshed
  <2>1. cur[c] = 1 /\ 1 \in Streams
    BY <1>1, <1>5 DEF RefreshInv, OneStream
  <2>2. events[1] \in Seq(Events) /\ events[1] # <<>>
    BY <2>1 DEF TypeOK, ReaderType, Take
  <2>3. events'[1] = Tail(events[1])
    BY <2>1 DEF Take, TypeOK, ReaderType
  <2>4. /\ Len(events'[1]) = Len(events[1]) - 1
        /\ \A j \in 1 .. Len(events'[1]) : events'[1][j] = events[1][j + 1]
    BY <2>2, <2>3
  <2>5. e = events[1][1] /\ Len(events[1]) >= 1
    BY <2>1, <2>2
  <2>6. OneStream'
    BY <1>1, <1>2, <1>3, <1>5 DEF RefreshInv, OneStream, Goto, TypeOK, ProcType
  <2>7. RejectionIsLast'
    <3> SUFFICES ASSUME NEW j \in 1 .. Len(events'[1]), events'[1][j].kind = "rejected"
                 PROVE  j = Len(events'[1]) /\ reader'[1] = "done"
      BY DEF RejectionIsLast
    <3>1. j + 1 \in 1 .. Len(events[1]) /\ events[1][j + 1].kind = "rejected"
      BY <2>2, <2>4
    <3>2. j + 1 = Len(events[1]) /\ reader[1] = "done"
      BY <1>5, <3>1 DEF RefreshInv, RejectionIsLast
    <3> QED
      BY <1>3, <2>2, <2>4, <3>2
  <2>8. CASE s = "rejected"
    <3>1. e.kind = "rejected"
      BY <2>8 DEF AfterTake
    <3>2. Len(events[1]) = 1 /\ reader[1] = "done"
      <4>1. events[1][1].kind = "rejected" /\ 1 \in 1 .. Len(events[1])
        BY <2>2, <2>5, <3>1
      <4>2. RejectionIsLast
        BY <1>5 DEF RefreshInv
      <4> QED
        BY <4>1, <4>2 DEF RejectionIsLast
    <3>3. \A d \in Consumers : ~HoldsRejection(d)
      BY <1>5, <2>5, <3>1, <3>2 DEF RefreshInv, OneHolder
    <3>4. \A d \in Consumers : HoldsRejection(d)' => d = c
      BY <1>1, <1>2, <3>3 DEF HoldsRejection, Goto, TypeOK, ProcType, Procs
    <3>5. \A j \in 1 .. Len(events'[1]) : FALSE
      BY <2>4, <3>2
    <3>6. OneHolder'
      BY <1>3, <3>2, <3>4, <3>5 DEF OneHolder
    <3> QED
      BY <1>3, <1>5, <2>6, <2>7, <3>6 DEF RefreshInv
  <2>9. CASE s # "rejected"
    <3>1. \A d \in Consumers : HoldsRejection(d)' => HoldsRejection(d)
      BY <1>1, <1>2, <2>9 DEF HoldsRejection, Goto, TypeOK, ProcType, Procs
    <3>2. ASSUME NEW d \in Consumers, HoldsRejection(d)'
          PROVE  /\ reader'[1] = "done"
                 /\ \A j \in 1 .. Len(events'[1]) : events'[1][j].kind # "rejected"
                 /\ \A b \in Consumers : HoldsRejection(b)' => b = d
      <4>1. HoldsRejection(d)
        BY <3>1, <3>2
      <4>2. /\ reader[1] = "done"
            /\ \A j \in 1 .. Len(events[1]) : events[1][j].kind # "rejected"
            /\ \A b \in Consumers : HoldsRejection(b) => b = d
        BY <1>5, <4>1 DEF RefreshInv, OneHolder
      <4>3. \A j \in 1 .. Len(events'[1]) :
              j + 1 \in 1 .. Len(events[1]) /\ events'[1][j] = events[1][j + 1]
        BY <2>2, <2>4
      <4> QED
        BY <1>3, <3>1, <4>2, <4>3
    <3>3. OneHolder'
      BY <3>2 DEF OneHolder
    <3> QED
      BY <1>3, <1>5, <2>6, <2>7, <3>3 DEF RefreshInv
  <2> QED
    BY <2>8, <2>9
<1> QED
  BY <1>4, <1>5

\* The commit: its consumer is the only one on the way, so afterwards there
\* is none.
LEMMA CommitOnce ==
  ASSUME TypeOK, RefreshInv, NEW c \in Consumers, CommitRefresh(c)
  PROVE  RefreshInv'
<1>1. c \in Procs /\ pc[c] = "commit"
  BY DEF CommitRefresh, Procs
<1>2. ~refreshed
  BY <1>1 DEF RefreshInv
<1>3. refreshes = 0 /\ \A d \in Consumers : HoldsRejection(d) => d = c
  BY <1>1, <1>2 DEF RefreshInv, OneStream, OneHolder, HoldsRejection
<1>4. refreshed' = TRUE /\ refreshes' = 1
  BY <1>3 DEF CommitRefresh
<1>5. \A d \in Consumers : pc'[d] \notin {"sniff", "commit"}
  BY <1>1, <1>3 DEF CommitRefresh, Goto, HoldsRejection, TypeOK, ProcType, Procs
<1> QED
  BY <1>4, <1>5 DEF RefreshInv

\* The reader is at work: no rejection has been emitted, nobody holds one.
LEMMA NoneEmitted ==
  ASSUME RefreshInv, ~refreshed, reader[1] # "done"
  PROVE  /\ \A j \in 1 .. Len(events[1]) : events[1][j].kind # "rejected"
         /\ \A c \in Consumers : ~HoldsRejection(c)
  BY DEF RefreshInv, RejectionIsLast, OneHolder

\* The reader receives: a rejection is the last thing it holds.
LEMMA RecvRefresh ==
  ASSUME TypeOK, RefreshInv, NEW i \in Streams, RecvResponse(i) \/ RecvError(i)
  PROVE  RefreshInv'
<1>1. /\ UNCHANGED <<refreshed, refreshes, opened, current, pc, cur, then, events>>
      /\ reader[i] = "recv" /\ reader' = [reader EXCEPT ![i] = "emit"]
  BY DEF RecvResponse, RecvError, sessionVars, streamVars, procVars, historyVars
<1>2. CASE refreshed
  BY <1>1, <1>2 DEF RefreshInv
<1>3. CASE ~refreshed
  <2>1. CASE i = 1
    <3>1. /\ \A j \in 1 .. Len(events[1]) : events[1][j].kind # "rejected"
          /\ \A c \in Consumers : ~HoldsRejection(c)
      BY <1>1, <1>3, <2>1, NoneEmitted
    <3> QED
      BY <1>1, <1>3, <3>1
         DEF RefreshInv, OneStream, RejectionIsLast, OneHolder, HoldsRejection
  <2>2. CASE i # 1
    <3>1. reader'[1] = reader[1]
      BY <1>1, <2>2 DEF TypeOK, ReaderType, Streams
    <3> QED
      BY <1>1, <1>3, <3>1
         DEF RefreshInv, OneStream, RejectionIsLast, OneHolder, HoldsRejection
  <2> QED
    BY <2>1, <2>2
<1> QED
  BY <1>2, <1>3

\* The reader emits: behind a rejection it is done.
LEMMA EmitRefresh ==
  ASSUME TypeOK, RefreshInv, NEW i \in Streams, Emit(i) \/ GiveUp(i)
  PROVE  RefreshInv'
<1>1. /\ UNCHANGED <<refreshed, refreshes, opened, current, pc, cur, then>>
      /\ reader[i] = "emit"
      /\ events' = events \/ events' = [events EXCEPT ![i] = Append(@, held[i])]
      /\ reader' = [reader EXCEPT ![i] =
           CASE held[i].kind = "exit"   -> "emit"
             [] held[i].kind = "output" -> "recv"
             [] OTHER                   -> "done"]
  BY DEF Emit, Queued, GiveUp, AfterEmit, sessionVars, streamVars, procVars, historyVars
<1>2. CASE refreshed
  BY <1>1, <1>2 DEF RefreshInv
<1>3. CASE ~refreshed /\ i # 1
  <2>1. reader'[1] = reader[1] /\ events'[1] = events[1]
    BY <1>1, <1>3 DEF TypeOK, ReaderType, RefreshInv, OneStream, StreamType, Streams
  <2> QED
    BY <1>1, <1>3, <2>1
       DEF RefreshInv, OneStream, RejectionIsLast, OneHolder, HoldsRejection
<1>4. CASE ~refreshed /\ i = 1
  <2>1. /\ \A j \in 1 .. Len(events[1]) : events[1][j].kind # "rejected"
        /\ \A c \in Consumers : ~HoldsRejection(c)
    BY <1>1, <1>4, NoneEmitted
  <2>2. \A c \in Consumers : ~HoldsRejection(c)'
    BY <1>1, <2>1 DEF HoldsRejection
  <2>3. held[1].kind = "rejected" => reader'[1] = "done"
    BY <1>1, <1>4 DEF TypeOK, ReaderType
  <2>4. RejectionIsLast'
    <3>1. CASE events' = events
      BY <2>1, <3>1 DEF RejectionIsLast
    <3>2. CASE events' = [events EXCEPT ![i] = Append(@, held[i])]
      <4>1. events[1] \in Seq(Events) /\ held[1] \in Events
        BY <1>4 DEF TypeOK, ReaderType
      <4>2. events'[1] = Append(events[1], held[1])
        BY <1>4, <3>2 DEF TypeOK, ReaderType
      <4>3. /\ Len(events'[1]) = Len(events[1]) + 1
            /\ \A j \in 1 .. Len(events[1]) : events'[1][j] = events[1][j]
            /\ events'[1][Len(events[1]) + 1] = held[1]
        BY <4>1, <4>2
      <4>4. Len(events[1]) \in Nat
        BY <4>1
      <4> QED
        BY <2>1, <2>3, <4>3, <4>4 DEF RejectionIsLast
    <3> QED
      BY <1>1, <3>1, <3>2
  <2> QED
    BY <1>1, <1>4, <2>2, <2>4 DEF RefreshInv, OneStream, OneHolder
<1> QED
  BY <1>2, <1>3, <1>4

\* Every step of Next keeps the token where the invariant says it is.
LEMMA RefreshInductive == TypeOK /\ RefreshInv /\ [Next]_vars => RefreshInv'
<1> SUFFICES ASSUME TypeOK, RefreshInv, [Next]_vars PROVE RefreshInv'
  OBVIOUS
<1> USE DEF Procs
<1>1. ASSUME NEW c \in Consumers, BeginNext(c) PROVE RefreshInv'
  <2>1. PICK s \in {"expired", "select"} : Goto(c, s)
    BY <1>1 DEF BeginNext
  <2>2. /\ UNCHANGED <<refreshed, refreshes>>
        /\ ~refreshed => /\ UNCHANGED <<opened, current, events, reader>>
                         /\ \A q \in Procs : cur'[q] = 1 /\ then'[q] # "reissue"
    BY <1>1 DEF BeginNext, sessionVars, streamVars, readerVars, historyVars,
       TypeOK, ProcType, RefreshInv, OneStream
  <2> QED
    BY <1>1, <2>1, <2>2, CallStep DEF BeginNext, Steps, HoldsRejection, RefreshInv,
       OneStream, MayRefresh, Goto, TypeOK, ProcType
<1>2. ASSUME NEW c \in Consumers, Expire(c) PROVE RefreshInv'
  <2>1. PICK s \in {"closeMark"} : Goto(c, s)
    BY <1>2 DEF Expire
  <2>2. /\ UNCHANGED <<refreshed, refreshes>>
        /\ ~refreshed => /\ UNCHANGED <<opened, current, events, reader>>
                         /\ \A q \in Procs : cur'[q] = 1 /\ then'[q] # "reissue"
    BY <1>2 DEF Expire, sessionVars, streamVars, readerVars, historyVars,
       TypeOK, ProcType, RefreshInv, OneStream
  <2> QED
    BY <1>2, <2>1, <2>2, CallStep DEF Expire, Steps, HoldsRejection, RefreshInv,
       OneStream, MayRefresh, Goto, TypeOK, ProcType
<1>3. ASSUME NEW c \in Consumers, MarkStarted(c) PROVE RefreshInv'
  <2>1. PICK s \in {"idle"} : Goto(c, s)
    BY <1>3 DEF MarkStarted
  <2>2. /\ UNCHANGED <<refreshed, refreshes>>
        /\ ~refreshed => /\ UNCHANGED <<opened, current, events, reader>>
                         /\ \A q \in Procs : cur'[q] = 1 /\ then'[q] # "reissue"
    BY <1>3 DEF MarkStarted, sessionVars, streamVars, readerVars, historyVars,
       TypeOK, ProcType, RefreshInv, OneStream
  <2> QED
    BY <1>3, <2>1, <2>2, CallStep DEF MarkStarted, Steps, HoldsRejection, RefreshInv,
       OneStream, MayRefresh, Goto, TypeOK, ProcType
<1>4. ASSUME NEW c \in Consumers, RefreshCheck(c) PROVE RefreshInv'
  <2>1. PICK s \in {"sniff", "idle"} : Goto(c, s)
    BY <1>4 DEF RefreshCheck
  <2>2. /\ UNCHANGED <<refreshed, refreshes>>
        /\ ~refreshed => /\ UNCHANGED <<opened, current, events, reader>>
                         /\ \A q \in Procs : cur'[q] = 1 /\ then'[q] # "reissue"
    BY <1>4 DEF RefreshCheck, sessionVars, streamVars, readerVars, historyVars,
       TypeOK, ProcType, RefreshInv, OneStream
  <2> QED
    BY <1>4, <2>1, <2>2, CallStep DEF RefreshCheck, Steps, HoldsRejection, RefreshInv,
       OneStream, MayRefresh, Goto, TypeOK, ProcType
<1>5. ASSUME NEW c \in Consumers, SniffExpiry(c) PROVE RefreshInv'
  <2>1. PICK s \in {"commit", "idle"} : Goto(c, s)
    BY <1>5 DEF SniffExpiry
  <2>2. /\ UNCHANGED <<refreshed, refreshes>>
        /\ ~refreshed => /\ UNCHANGED <<opened, current, events, reader>>
                         /\ \A q \in Procs : cur'[q] = 1 /\ then'[q] # "reissue"
    BY <1>5 DEF SniffExpiry, sessionVars, streamVars, readerVars, historyVars,
       TypeOK, ProcType, RefreshInv, OneStream
  <2> QED
    BY <1>5, <2>1, <2>2, CallStep DEF SniffExpiry, Steps, HoldsRejection, RefreshInv,
       OneStream, MayRefresh, Goto, TypeOK, ProcType
<1>6. ASSUME NEW c \in Consumers, Reissue(c) PROVE RefreshInv'
  <2>1. PICK s \in {"open", "idle"} : Goto(c, s)
    BY <1>6 DEF Reissue
  <2>2. /\ UNCHANGED <<refreshed, refreshes>>
        /\ ~refreshed => /\ UNCHANGED <<opened, current, events, reader>>
                         /\ \A q \in Procs : cur'[q] = 1 /\ then'[q] # "reissue"
    BY <1>6 DEF Reissue, sessionVars, streamVars, readerVars, historyVars,
       TypeOK, ProcType, RefreshInv, OneStream
  <2> QED
    BY <1>6, <2>1, <2>2, CallStep DEF Reissue, Steps, HoldsRejection, RefreshInv,
       OneStream, MayRefresh, Goto, TypeOK, ProcType
<1>7. ASSUME NEW c \in Consumers, OpenStream(c) PROVE RefreshInv'
  <2>1. PICK s \in {"swap"} : Goto(c, s)
    BY <1>7 DEF OpenStream
  <2>2. /\ UNCHANGED <<refreshed, refreshes>>
        /\ ~refreshed => /\ UNCHANGED <<opened, current, events, reader>>
                         /\ \A q \in Procs : cur'[q] = 1 /\ then'[q] # "reissue"
    BY <1>7 DEF OpenStream, sessionVars, streamVars, readerVars, historyVars,
       TypeOK, ProcType, RefreshInv, OneStream
  <2> QED
    BY <1>7, <2>1, <2>2, CallStep DEF OpenStream, Steps, HoldsRejection, RefreshInv,
       OneStream, MayRefresh, Goto, TypeOK, ProcType
<1>8. ASSUME NEW c \in Consumers, OpenFails(c) PROVE RefreshInv'
  <2>1. PICK s \in {"idle"} : Goto(c, s)
    BY <1>8 DEF OpenFails
  <2>2. /\ UNCHANGED <<refreshed, refreshes>>
        /\ ~refreshed => /\ UNCHANGED <<opened, current, events, reader>>
                         /\ \A q \in Procs : cur'[q] = 1 /\ then'[q] # "reissue"
    BY <1>8 DEF OpenFails, sessionVars, streamVars, readerVars, historyVars,
       TypeOK, ProcType, RefreshInv, OneStream
  <2> QED
    BY <1>8, <2>1, <2>2, CallStep DEF OpenFails, Steps, HoldsRejection, RefreshInv,
       OneStream, MayRefresh, Goto, TypeOK, ProcType
<1>9. ASSUME NEW c \in Consumers, SwapStream(c) PROVE RefreshInv'
  <2>1. PICK s \in {"again", "enter"} : Goto(c, s)
    BY <1>9 DEF SwapStream, ReplayEntry
  <2>2. /\ UNCHANGED <<refreshed, refreshes>>
        /\ ~refreshed => /\ UNCHANGED <<opened, current, events, reader>>
                         /\ \A q \in Procs : cur'[q] = 1 /\ then'[q] # "reissue"
    BY <1>9 DEF SwapStream, ReplayEntry, sessionVars, streamVars, readerVars, historyVars,
       TypeOK, ProcType, RefreshInv, OneStream
  <2> QED
    BY <1>9, <2>1, <2>2, CallStep DEF SwapStream, Steps, HoldsRejection, RefreshInv,
       OneStream, MayRefresh, Goto, TypeOK, ProcType
<1>10. ASSUME NEW w \in Writers, InputCall(w) PROVE RefreshInv'
  <2>1. PICK s \in {"enter"} : Goto(w, s)
    BY <1>10 DEF InputCall
  <2>2. /\ UNCHANGED <<refreshed, refreshes>>
        /\ ~refreshed => /\ UNCHANGED <<opened, current, events, reader>>
                         /\ \A q \in Procs : cur'[q] = 1 /\ then'[q] # "reissue"
    BY <1>10 DEF InputCall, sessionVars, streamVars, readerVars, historyVars,
       TypeOK, ProcType, RefreshInv, OneStream
  <2> QED
    BY <1>10, <2>1, <2>2, CallStep DEF InputCall, Steps, HoldsRejection, RefreshInv,
       OneStream, MayRefresh, Goto, TypeOK, ProcType
<1>11. ASSUME NEW p \in Procs, EnterData(p) PROVE RefreshInv'
  <2>1. PICK s \in {"record", "idle", "again", "enter", "lock"} : Goto(p, s)
    BY <1>11 DEF EnterData, InputDone
  <2>2. /\ UNCHANGED <<refreshed, refreshes>>
        /\ ~refreshed => /\ UNCHANGED <<opened, current, events, reader>>
                         /\ \A q \in Procs : cur'[q] = 1 /\ then'[q] # "reissue"
    BY <1>11 DEF EnterData, InputDone, sessionVars, streamVars, readerVars, historyVars,
       TypeOK, ProcType, RefreshInv, OneStream
  <2> QED
    BY <1>11, <2>1, <2>2, CallStep DEF EnterData, Steps, HoldsRejection, RefreshInv,
       OneStream, MayRefresh, Goto, TypeOK, ProcType
<1>12. ASSUME NEW p \in Procs, EnterCloseStdin(p) PROVE RefreshInv'
  <2>1. PICK s \in {"record", "idle", "again", "enter", "lock"} : Goto(p, s)
    BY <1>12 DEF EnterCloseStdin, InputDone
  <2>2. /\ UNCHANGED <<refreshed, refreshes>>
        /\ ~refreshed => /\ UNCHANGED <<opened, current, events, reader>>
                         /\ \A q \in Procs : cur'[q] = 1 /\ then'[q] # "reissue"
    BY <1>12 DEF EnterCloseStdin, InputDone, sessionVars, streamVars, readerVars,
       historyVars,
       TypeOK, ProcType, RefreshInv, OneStream
  <2> QED
    BY <1>12, <2>1, <2>2, CallStep DEF EnterCloseStdin, Steps, HoldsRejection,
       RefreshInv, OneStream, MayRefresh, Goto, TypeOK, ProcType
<1>13. ASSUME NEW p \in Procs, LockSend(p) PROVE RefreshInv'
  <2>1. PICK s \in {"send", "closeSend"} : Goto(p, s)
    BY <1>13 DEF LockSend
  <2>2. /\ UNCHANGED <<refreshed, refreshes>>
        /\ ~refreshed => /\ UNCHANGED <<opened, current, events, reader>>
                         /\ \A q \in Procs : cur'[q] = 1 /\ then'[q] # "reissue"
    BY <1>13 DEF LockSend, sessionVars, streamVars, readerVars, historyVars,
       TypeOK, ProcType, RefreshInv, OneStream
  <2> QED
    BY <1>13, <2>1, <2>2, CallStep DEF LockSend, Steps, HoldsRejection, RefreshInv,
       OneStream, MayRefresh, Goto, TypeOK, ProcType
<1>14. ASSUME NEW p \in Procs, SendData(p) PROVE RefreshInv'
  <2>1. PICK s \in {"record", "idle", "again", "enter"} : Goto(p, s)
    BY <1>14 DEF SendData, InputDone
  <2>2. /\ UNCHANGED <<refreshed, refreshes>>
        /\ ~refreshed => /\ UNCHANGED <<opened, current, events, reader>>
                         /\ \A q \in Procs : cur'[q] = 1 /\ then'[q] # "reissue"
    BY <1>14 DEF SendData, InputDone, sessionVars, streamVars, readerVars, historyVars,
       TypeOK, ProcType, RefreshInv, OneStream
  <2> QED
    BY <1>14, <2>1, <2>2, CallStep DEF SendData, Steps, HoldsRejection, RefreshInv,
       OneStream, MayRefresh, Goto, TypeOK, ProcType
<1>15. ASSUME NEW p \in Procs, SendCloseStdin(p) PROVE RefreshInv'
  <2>1. PICK s \in {"record", "idle", "again", "enter"} : Goto(p, s)
    BY <1>15 DEF SendCloseStdin, InputDone
  <2>2. /\ UNCHANGED <<refreshed, refreshes>>
        /\ ~refreshed => /\ UNCHANGED <<opened, current, events, reader>>
                         /\ \A q \in Procs : cur'[q] = 1 /\ then'[q] # "reissue"
    BY <1>15 DEF SendCloseStdin, InputDone, sessionVars, streamVars, readerVars,
       historyVars,
       TypeOK, ProcType, RefreshInv, OneStream
  <2> QED
    BY <1>15, <2>1, <2>2, CallStep DEF SendCloseStdin, Steps, HoldsRejection,
       RefreshInv, OneStream, MayRefresh, Goto, TypeOK, ProcType
<1>16. ASSUME NEW w \in Writers, RecordInput(w) PROVE RefreshInv'
  <2>1. PICK s \in {"idle"} : Goto(w, s)
    BY <1>16 DEF RecordInput
  <2>2. /\ UNCHANGED <<refreshed, refreshes>>
        /\ ~refreshed => /\ UNCHANGED <<opened, current, events, reader>>
                         /\ \A q \in Procs : cur'[q] = 1 /\ then'[q] # "reissue"
    BY <1>16 DEF RecordInput, sessionVars, streamVars, readerVars, historyVars,
       TypeOK, ProcType, RefreshInv, OneStream
  <2> QED
    BY <1>16, <2>1, <2>2, CallStep DEF RecordInput, Steps, HoldsRejection, RefreshInv,
       OneStream, MayRefresh, Goto, TypeOK, ProcType
<1>17. ASSUME NEW x \in Closers, BeginClose(x) PROVE RefreshInv'
  <2>1. PICK s \in {"closeMark"} : Goto(x, s)
    BY <1>17 DEF BeginClose
  <2>2. /\ UNCHANGED <<refreshed, refreshes>>
        /\ ~refreshed => /\ UNCHANGED <<opened, current, events, reader>>
                         /\ \A q \in Procs : cur'[q] = 1 /\ then'[q] # "reissue"
    BY <1>17 DEF BeginClose, sessionVars, streamVars, readerVars, historyVars,
       TypeOK, ProcType, RefreshInv, OneStream
  <2> QED
    BY <1>17, <2>1, <2>2, CallStep DEF BeginClose, Steps, HoldsRejection, RefreshInv,
       OneStream, MayRefresh, Goto, TypeOK, ProcType
<1>18. ASSUME NEW p \in Procs, CloseMark(p) PROVE RefreshInv'
  <2>1. PICK s \in {"idle", "mark", "reissue", "closeLock"} : Goto(p, s)
    BY <1>18 DEF CloseMark, TypeOK, ProcType
  <2>2. /\ UNCHANGED <<refreshed, refreshes>>
        /\ ~refreshed => /\ UNCHANGED <<opened, current, events, reader>>
                         /\ \A q \in Procs : cur'[q] = 1 /\ then'[q] # "reissue"
    BY <1>18 DEF CloseMark, TypeOK, ProcType, sessionVars, streamVars, readerVars,
       historyVars,
       TypeOK, ProcType, RefreshInv, OneStream
  <2> QED
    BY <1>18, <2>1, <2>2, CallStep DEF CloseMark, Steps, HoldsRejection, RefreshInv,
       OneStream, MayRefresh, Goto, TypeOK, ProcType
<1>19. ASSUME NEW p \in Procs, CloseSend(p) PROVE RefreshInv'
  <2>1. PICK s \in {"closeWait"} : Goto(p, s)
    BY <1>19 DEF CloseSend
  <2>2. /\ UNCHANGED <<refreshed, refreshes>>
        /\ ~refreshed => /\ UNCHANGED <<opened, current, events, reader>>
                         /\ \A q \in Procs : cur'[q] = 1 /\ then'[q] # "reissue"
    BY <1>19 DEF CloseSend, sessionVars, streamVars, readerVars, historyVars,
       TypeOK, ProcType, RefreshInv, OneStream
  <2> QED
    BY <1>19, <2>1, <2>2, CallStep DEF CloseSend, Steps, HoldsRejection, RefreshInv,
       OneStream, MayRefresh, Goto, TypeOK, ProcType
<1>20. ASSUME NEW p \in Procs, CloseWait(p) PROVE RefreshInv'
  <2>1. PICK s \in {"idle", "mark", "reissue"} : Goto(p, s)
    BY <1>20 DEF CloseWait, TypeOK, ProcType
  <2>2. /\ UNCHANGED <<refreshed, refreshes>>
        /\ ~refreshed => /\ UNCHANGED <<opened, current, events, reader>>
                         /\ \A q \in Procs : cur'[q] = 1 /\ then'[q] # "reissue"
    BY <1>20 DEF CloseWait, TypeOK, ProcType, sessionVars, streamVars, readerVars,
       historyVars,
       TypeOK, ProcType, RefreshInv, OneStream
  <2> QED
    BY <1>20, <2>1, <2>2, CallStep DEF CloseWait, Steps, HoldsRejection, RefreshInv,
       OneStream, MayRefresh, Goto, TypeOK, ProcType
<1>21. ASSUME NEW p \in Procs, InputStep(p) \/ CloseStep(p) \/ LockSend(p)
      PROVE  RefreshInv'
  BY <1>21, <1>11, <1>12, <1>14, <1>15, <1>13, <1>18, <1>19, <1>20
     DEF InputStep, CloseStep
<1>22. ASSUME NEW c \in Consumers, RefreshStep(c) PROVE RefreshInv'
  BY <1>22, <1>4, <1>5, <1>6, <1>7, <1>8, <1>9, CommitOnce
     DEF RefreshStep
<1>23. ASSUME NEW c \in Consumers, NextCall(c) \/ ConsumerStep(c)
      PROVE  RefreshInv'
  BY <1>23, <1>1, <1>2, <1>3, <1>21, <1>22, TakeRefresh
     DEF NextCall, NextAgain, ConsumerStep
<1>24. ASSUME NEW w \in Writers, InputCall(w) \/ WriterStep(w) PROVE RefreshInv'
  BY <1>24, <1>10, <1>16, <1>21 DEF WriterStep
<1>25. ASSUME NEW x \in Closers, CloseCall(x) \/ CancelCall(x) \/ CloserStep(x)
      PROVE  RefreshInv'
  BY <1>25, <1>17, <1>21 DEF CloseCall, CancelCall, CloserStep
<1>26. ASSUME NEW i \in Streams, ReaderStep(i) PROVE RefreshInv'
  BY <1>26, RecvRefresh, EmitRefresh DEF ReaderStep
<1>27. ASSUME NEW i \in Streams, GuestStep(i) \/ ContextExpires(i)
      PROVE  RefreshInv'
  BY <1>27, Undisturbed
     DEF GuestStep, GuestTakes, GuestOutput, GuestEnds, ContextExpires, sessionVars,
         streamVars, readerVars, procVars, historyVars
<1>28. CASE DeadlinePasses \/ CapabilityExpires \/ UNCHANGED vars
  BY <1>28, Undisturbed
     DEF DeadlinePasses, CapabilityExpires, vars, sessionVars, streamVars, readerVars,
         procVars, historyVars
<1> QED
  BY <1>23, <1>24, <1>25, <1>26, <1>27, <1>28 DEF Next

\* However many goroutines call Next, and although s.refreshed is tested in
\* one lock section and set in another, a session commits to a refresh at
\* most once: there is one rejection to act on and one consumer gets it.
THEOREM RefreshedOnce == Spec => []RefreshAtMostOnce
<1>1. Init => TypeOK /\ RefreshInv
  BY InitType, InitRefresh
<1>2. TypeOK /\ RefreshInv /\ [Next]_vars => TypeOK' /\ RefreshInv'
  BY TypeInductive, RefreshInductive
<1>3. RefreshInv => RefreshAtMostOnce
  BY DEF RefreshInv, OneStream, RefreshAtMostOnce
<1> QED
  BY <1>1, <1>2, <1>3, PTL DEF Spec

-----------------------------------------------------------------------------
(***************************************************************************)
(* The steps.                                                              *)
(***************************************************************************)
\* The types as one fact for each variable.
LEMMA TypesOf ==
  ASSUME TypeOK
  PROVE  /\ current \in Streams /\ opened \in Streams /\ 1 \in Streams /\ 2 \in Streams
         /\ closed \in BOOLEAN /\ refreshed \in BOOLEAN /\ responsesStarted \in BOOLEAN
         /\ cancelled \in [Streams -> BOOLEAN] /\ stdinClosed \in [Streams -> BOOLEAN]
         /\ halfClosed \in [Streams -> BOOLEAN] /\ over \in [Streams -> BOOLEAN]
         /\ reader \in [Streams -> {"none", "recv", "emit", "done"}]
         /\ guest \in [Streams -> {"running", "ended"}]
         /\ lost \in [Streams -> BOOLEAN]
         /\ pc \in [Procs -> Steps] /\ cur \in [Procs -> Streams]
         /\ then \in [Procs -> {"idle", "mark", "reissue"}]
         /\ retried \in [Procs -> BOOLEAN] /\ keep \in [Procs -> BOOLEAN]
         /\ deadline \in BOOLEAN /\ capExpired \in BOOLEAN
  BY BoundsAssumption DEF BoundsAssumption, Streams, TypeOK, SessionType, StreamType,
     ReaderType, GrpcType, GuestType, ProcType, EnvType, HistoryType

\* What travels, and what is kept of it.
LEMMA SeqTypesOf ==
  ASSUME TypeOK
  PROVE  /\ pending \in Seq(Inputs)
         /\ events \in [Streams -> Seq(Events)] /\ held \in [Streams -> Events]
         /\ wire \in [Streams -> Seq(Frames)] /\ down \in [Streams -> Seq(Events)]
         /\ delivered \in [Streams -> Seq(Events)]
         /\ outs \in [Streams -> 0 .. MaxOutputs]
         /\ todo \in [Procs -> Seq(Inputs)] /\ calls \in 0 .. MaxInputs
         /\ \A p \in Procs :
              pc[p] \in {"enter", "lock", "send", "record"} => todo[p] # <<>>
  BY DEF TypeOK, SessionType, ReaderType, GrpcType, GuestType, ProcType, HistoryType

\* The steps of Next, by who takes them.
LEMMA StepCases ==
  ASSUME [Next]_vars
  PROVE  \/ \E c \in Consumers :
              \/ NextCall(c) \/ NextAgain(c)
              \/ Take(c)
              \/ Expire(c)
              \/ MarkStarted(c)
              \/ RefreshCheck(c) \/ SniffExpiry(c)
              \/ CommitRefresh(c)
              \/ Reissue(c) \/ OpenFails(c)
              \/ OpenStream(c)
              \/ SwapStream(c)
         \/ \E w \in Writers : InputCall(w) \/ RecordInput(w)
         \/ \E p \in Consumers \cup Writers :
              \/ EnterData(p) \/ EnterCloseStdin(p)
              \/ SendData(p) \/ SendCloseStdin(p)
         \/ \E p \in Procs : LockSend(p)
         \/ \E x \in Closers : CloseCall(x) \/ CancelCall(x)
         \/ \E p \in Consumers \cup Closers : CloseMark(p) \/ CloseSend(p) \/ CloseWait(p)
         \/ \E i \in Streams :
              \/ RecvResponse(i) \/ RecvError(i)
              \/ Emit(i) \/ GiveUp(i)
              \/ GuestStep(i) \/ ContextExpires(i)
         \/ DeadlinePasses \/ CapabilityExpires \/ UNCHANGED vars
<1>1. ASSUME NEW c \in Consumers, NextCall(c) \/ ConsumerStep(c) PROVE c \in Procs
  BY DEF Procs
<1>2. \A w \in Writers : w \in Procs
  BY DEF Procs
<1>3. \A x \in Closers : x \in Procs
  BY DEF Procs
<1> QED
  BY <1>1, <1>2, <1>3 DEF Next, ConsumerStep, WriterStep, CloserStep, ReaderStep,
     RefreshStep, InputStep, CloseStep

\* How a process is done with an input: a writer keeps it for a replay or
\* returns, a replay goes on to the next one or to the second next().
Finishes(p, ok) ==
  \/ /\ p \in Writers /\ ok /\ keep[p]
     /\ Goto(p, "record") /\ UNCHANGED todo
  \/ /\ todo' = [todo EXCEPT ![p] = Tail(@)]
     /\ \/ p \in Writers /\ ~(ok /\ keep[p]) /\ Goto(p, "idle")
        \/ p \in Consumers /\ Tail(todo[p]) = <<>> /\ Goto(p, "again")
        \/ p \in Consumers /\ Tail(todo[p]) # <<>> /\ Goto(p, "enter")

\* The alternatives of InputDone, as they are told apart in the proofs.
LEMMA InputDoneFinishes ==
  ASSUME NEW p \in Consumers \cup Writers, NEW ok \in BOOLEAN, InputDone(p, ok)
  PROVE  Finishes(p, ok)
<1>1. p \in Consumers <=> p \notin Writers
  BY ProcsAssumption DEF ProcsAssumption
<1>2. CASE Keeps(p, ok)
  BY <1>2 DEF InputDone, Keeps, Finishes
<1>3. CASE ~Keeps(p, ok) /\ p \in Writers
  BY <1>3 DEF InputDone, Keeps, Finishes
<1>4. CASE ~Keeps(p, ok) /\ p \notin Writers /\ Tail(todo[p]) = <<>>
  BY <1>1, <1>4 DEF InputDone, Keeps, Finishes
<1>5. CASE ~Keeps(p, ok) /\ p \notin Writers /\ Tail(todo[p]) # <<>>
  BY <1>1, <1>5 DEF InputDone, Keeps, Finishes
<1> QED
  BY <1>2, <1>3, <1>4, <1>5

\* Where Next goes with an event it took.
LEMMA AfterTakeGoes ==
  ASSUME NEW c \in Consumers, NEW e \in Events
  PROVE  \/ /\ AfterTake(c, e) = "mark"
            /\ retried[c] \/ e.kind \in {"output", "exit", "end"}
         \/ AfterTake(c, e) = "rejected" /\ e.kind = "rejected"
         \/ AfterTake(c, e) = "idle" /\ e.kind \notin {"output", "exit", "end"}
  BY DEF AfterTake

\* What the reader does after an event.
LEMMA AfterEmitGoes ==
  ASSUME NEW i \in Streams, AfterEmit(i)
  PROVE  \/ /\ held[i].kind = "exit"
            /\ held' = [held EXCEPT ![i] = Event("end")]
            /\ reader' = [reader EXCEPT ![i] = "emit"]
         \/ /\ held[i].kind = "output" /\ held' = [held EXCEPT ![i] = held[i]]
            /\ reader' = [reader EXCEPT ![i] = "recv"]
         \/ /\ held[i].kind \notin {"output", "exit"}
            /\ held' = [held EXCEPT ![i] = held[i]]
            /\ reader' = [reader EXCEPT ![i] = "done"]
<1>1. CASE held[i].kind = "exit"
  BY <1>1 DEF AfterEmit
<1>2. CASE held[i].kind = "output"
  BY <1>2 DEF AfterEmit
<1>3. CASE held[i].kind \notin {"output", "exit"}
  BY <1>3 DEF AfterEmit
<1> QED
  BY <1>1, <1>2, <1>3

-----------------------------------------------------------------------------
(***************************************************************************)
(* What each step does, process by process and stream by stream.           *)
(***************************************************************************)
\* No process but p has moved.
Others(p) ==
  \A q \in Procs \ {p} :
    /\ pc'[q] = pc[q] /\ cur'[q] = cur[q] /\ then'[q] = then[q]
    /\ todo'[q] = todo[q] /\ retried'[q] = retried[q] /\ keep'[q] = keep[q]

\* f and g agree on every stream but i.
Apart(i, f, g) == \A k \in Streams \ {i} : g[k] = f[k]

\* Next begins, or asks the new stream.
LEMMA BeginDoes ==
  ASSUME TypeOK, NEW c \in Consumers, NextCall(c) \/ NextAgain(c)
  PROVE  /\ pc[c] \in {"idle", "again"} /\ pc'[c] \in {"expired", "select"}
         /\ pc[c] = "idle" /\ Serial => \A q \in Procs : pc[q] = "idle"
         /\ cur'[c] = current
         /\ retried'[c] = (pc[c] = "again")
         /\ then'[c] = then[c] /\ todo'[c] = todo[c]
         /\ keep'[c] = keep[c]
         /\ Others(c)
         /\ UNCHANGED <<current, closed, refreshed, responsesStarted, pending,
                        opened, cancelled, stdinClosed, sendMu, events, reader,
                        held, halfClosed, over, wire, taken, guest, outs, down,
                        then, todo, keep, deadline, capExpired, delivered, lost,
                        calls, refreshes>>
  BY TypesOf, SeqTypesOf DEF NextCall, NextAgain, CanStart, BeginNext, Procs, Goto,
     Others, Apart, sessionVars, streamVars,
     readerVars, grpcVars, guestVars, procVars, envVars, historyVars

\* Next takes an event.
LEMMA TakeDoes ==
  ASSUME TypeOK, NEW c \in Consumers, Take(c)
  PROVE  /\ pc[c] = "select" /\ events[cur[c]] # <<>>
         /\ events'[cur[c]] = Tail(events[cur[c]])
         /\ delivered'[cur[c]] = Append(delivered[cur[c]], Head(events[cur[c]]))
         /\ Apart(cur[c], events, events') /\ Apart(cur[c], delivered, delivered')
         /\ pc'[c] = AfterTake(c, Head(events[cur[c]]))
         /\ cur'[c] = cur[c] /\ then'[c] = then[c]
         /\ todo'[c] = todo[c] /\ retried'[c] = retried[c]
         /\ keep'[c] = keep[c]
         /\ Others(c)
         /\ UNCHANGED <<current, closed, refreshed, responsesStarted, pending,
                        opened, cancelled, stdinClosed, sendMu, reader, held,
                        halfClosed, over, wire, taken, guest, outs, down, cur,
                        then, todo, retried, keep, deadline, capExpired, lost,
                        calls, refreshes>>
  BY TypesOf, SeqTypesOf DEF Take, Procs, Goto, Others, Apart, sessionVars, streamVars,
     readerVars, grpcVars, guestVars, procVars, envVars, historyVars

\* The deadline is over: Next cancels.
LEMMA ExpireDoes ==
  ASSUME TypeOK, NEW c \in Consumers, Expire(c)
  PROVE  /\ pc[c] = "expired" \/ (pc[c] = "select" /\ deadline)
         /\ pc'[c] = "closeMark" /\ cur'[c] = current
         /\ then'[c] \in {"mark", "idle"}
         /\ todo'[c] = todo[c] /\ retried'[c] = retried[c]
         /\ keep'[c] = keep[c]
         /\ Others(c)
         /\ UNCHANGED <<current, closed, refreshed, responsesStarted, pending,
                        opened, cancelled, stdinClosed, sendMu, events, reader,
                        held, halfClosed, over, wire, taken, guest, outs, down,
                        todo, retried, keep, deadline, capExpired, delivered, lost,
                        calls, refreshes>>
  BY TypesOf, SeqTypesOf DEF Expire, Procs, Goto, Others, Apart, sessionVars, streamVars,
     readerVars, grpcVars, guestVars, procVars, envVars, historyVars

\* Next remembers that the command answered.
LEMMA MarkDoes ==
  ASSUME TypeOK, NEW c \in Consumers, MarkStarted(c)
  PROVE  /\ pc[c] = "mark" /\ pc'[c] = "idle" /\ responsesStarted'
         /\ Others(c)
         /\ UNCHANGED <<current, closed, refreshed, pending, opened, cancelled,
                        stdinClosed, sendMu, events, reader, held, halfClosed,
                        over, wire, taken, guest, outs, down, cur, then, todo,
                        retried, keep, deadline, capExpired, delivered, lost,
                        calls, refreshes>>
  BY TypesOf, SeqTypesOf DEF MarkStarted, Procs, Goto, Others, Apart, sessionVars,
     streamVars,
     readerVars, grpcVars, guestVars, procVars, envVars, historyVars

\* The tests before the commit.
LEMMA LookDoes ==
  ASSUME TypeOK, NEW c \in Consumers, RefreshCheck(c) \/ SniffExpiry(c)
  PROVE  /\ \/ pc[c] = "rejected" /\ pc'[c] = "sniff" /\ ~refreshed /\ ~responsesStarted
            \/ pc[c] = "sniff" /\ pc'[c] = "commit"
            \/ pc[c] \in {"rejected", "sniff"} /\ pc'[c] = "idle"
         /\ Others(c)
         /\ UNCHANGED <<current, closed, refreshed, responsesStarted, pending,
                        opened, cancelled, stdinClosed, sendMu, events, reader,
                        held, halfClosed, over, wire, taken, guest, outs, down,
                        cur, then, todo, retried, keep, deadline, capExpired,
                        delivered, lost, calls, refreshes>>
  BY TypesOf, SeqTypesOf DEF RefreshCheck, SniffExpiry, MayRefresh, Procs, Goto,
     Others, Apart, sessionVars, streamVars,
     readerVars, grpcVars, guestVars, procVars, envVars, historyVars

\* The commit.
LEMMA CommitDoes ==
  ASSUME TypeOK, NEW c \in Consumers, CommitRefresh(c)
  PROVE  /\ pc[c] = "commit" /\ pc'[c] = "closeMark" /\ then'[c] = "reissue"
         /\ cur'[c] = current /\ refreshed' /\ refreshes' = refreshes + 1
         /\ todo'[c] = todo[c] /\ retried'[c] = retried[c]
         /\ keep'[c] = keep[c]
         /\ Others(c)
         /\ UNCHANGED <<current, closed, responsesStarted, pending, opened,
                        cancelled, stdinClosed, sendMu, events, reader, held,
                        halfClosed, over, wire, taken, guest, outs, down, todo,
                        retried, keep, deadline, capExpired, delivered, lost,
                        calls>>
  BY TypesOf, SeqTypesOf DEF CommitRefresh, Procs, Goto, Others, Apart, sessionVars,
     streamVars,
     readerVars, grpcVars, guestVars, procVars, envVars, historyVars

\* A new capability, or none, or a stream that does not open.
LEMMA ReissueDoes ==
  ASSUME TypeOK, NEW c \in Consumers, Reissue(c) \/ OpenFails(c)
  PROVE  /\ \/ pc[c] = "reissue" /\ pc'[c] = "open"
            \/ pc[c] \in {"reissue", "open"} /\ pc'[c] = "idle"
         /\ Others(c)
         /\ UNCHANGED <<current, closed, refreshed, responsesStarted, pending,
                        opened, cancelled, stdinClosed, sendMu, events, reader,
                        held, halfClosed, over, wire, taken, guest, outs, down,
                        cur, then, todo, retried, keep, deadline, delivered, lost,
                        calls, refreshes>>
  BY TypesOf, SeqTypesOf DEF Reissue, OpenFails, Procs, Goto, Others, Apart,
     sessionVars, streamVars,
     readerVars, grpcVars, guestVars, procVars, envVars, historyVars

\* The new stream.
LEMMA OpenDoes ==
  ASSUME TypeOK, NEW c \in Consumers, OpenStream(c)
  PROVE  /\ pc[c] = "open" /\ pc'[c] = "swap" /\ opened' = opened + 1 /\ opened + 1 \in Streams
         /\ cur'[c] = opened + 1 /\ reader'[opened + 1] = "recv"
         /\ Apart(opened + 1, reader, reader')
         /\ then'[c] = then[c] /\ todo'[c] = todo[c]
         /\ retried'[c] = retried[c] /\ keep'[c] = keep[c]
         /\ Others(c)
         /\ UNCHANGED <<current, closed, refreshed, responsesStarted, pending,
                        cancelled, stdinClosed, sendMu, events, held, halfClosed,
                        over, wire, taken, guest, outs, down, then, todo, retried,
                        keep, deadline, capExpired, delivered, lost, calls,
                        refreshes>>
  BY TypesOf, SeqTypesOf DEF OpenStream, Procs, Goto, Others, Apart, sessionVars,
     streamVars,
     readerVars, grpcVars, guestVars, procVars, envVars, historyVars

\* The new stream is published.
LEMMA SwapDoes ==
  ASSUME TypeOK, NEW c \in Consumers, SwapStream(c)
  PROVE  /\ pc[c] = "swap" /\ current' = cur[c] /\ todo'[c] = pending
         /\ IF pending = <<>> THEN pc'[c] = "again" ELSE pc'[c] = "enter"
         /\ cur'[c] = cur[c] /\ then'[c] = then[c]
         /\ retried'[c] = retried[c] /\ keep'[c] = keep[c]
         /\ Others(c)
         /\ UNCHANGED <<closed, refreshed, responsesStarted, pending, opened,
                        cancelled, stdinClosed, sendMu, events, reader, held,
                        halfClosed, over, wire, taken, guest, outs, down, cur,
                        then, retried, keep, deadline, capExpired, delivered, lost,
                        calls, refreshes>>
  BY TypesOf, SeqTypesOf DEF SwapStream, ReplayEntry, Procs, Goto, Others, Apart,
     sessionVars, streamVars,
     readerVars, grpcVars, guestVars, procVars, envVars, historyVars

\* An input call begins.
LEMMA InputCallDoes ==
  ASSUME TypeOK, NEW w \in Writers, InputCall(w)
  PROVE  /\ pc[w] = "idle" /\ pc'[w] = "enter" /\ cur'[w] = current
         /\ Serial => \A q \in Procs : pc[q] = "idle"
         /\ calls' = calls + 1 /\ calls < MaxInputs
         /\ \E k \in Kinds : todo'[w] = <<[kind |-> k, n |-> calls + 1]>>
         /\ keep'[w] = MayRefresh
         /\ then'[w] = then[w] /\ retried'[w] = retried[w]
         /\ Others(w)
         /\ UNCHANGED <<current, closed, refreshed, responsesStarted, pending,
                        opened, cancelled, stdinClosed, sendMu, events, reader,
                        held, halfClosed, over, wire, taken, guest, outs, down,
                        then, retried, deadline, capExpired, delivered, lost,
                        refreshes>>
  BY TypesOf, SeqTypesOf DEF InputCall, CanStart, MayRefresh, Procs, Goto, Others,
     Apart, sessionVars, streamVars,
     readerVars, grpcVars, guestVars, procVars, envVars, historyVars

\* An accepted input is kept.
LEMMA RecordDoes ==
  ASSUME TypeOK, NEW w \in Writers, RecordInput(w)
  PROVE  /\ pc[w] = "record" /\ pc'[w] = "idle"
         /\ pending' = Append(pending, Head(todo[w]))
         /\ cur'[w] = cur[w] /\ then'[w] = then[w]
         /\ retried'[w] = retried[w] /\ keep'[w] = keep[w]
         /\ Others(w)
         /\ UNCHANGED <<current, closed, refreshed, responsesStarted, opened,
                        cancelled, stdinClosed, sendMu, events, reader, held,
                        halfClosed, over, wire, taken, guest, outs, down, cur,
                        then, retried, keep, deadline, capExpired, delivered, lost,
                        calls, refreshes>>
  BY TypesOf, SeqTypesOf DEF RecordInput, PendingWith, Procs, Goto, Others, Apart,
     sessionVars, streamVars,
     readerVars, grpcVars, guestVars, procVars, envVars, historyVars

\* p is done with its input; ok tells whether the call got no error.
Ends(p, ok) ==
  \/ p \in Writers /\ ok /\ keep[p] /\ pc'[p] = "record" /\ todo'[p] = todo[p]
  \/ /\ todo'[p] = Tail(todo[p])
     /\ \/ p \in Writers /\ ~(ok /\ keep[p]) /\ pc'[p] = "idle"
        \/ p \in Consumers /\ Tail(todo[p]) = <<>> /\ pc'[p] = "again"
        \/ p \in Consumers /\ Tail(todo[p]) # <<>> /\ pc'[p] = "enter"

\* An input that is done with, process by process.
LEMMA DoneEnds ==
  ASSUME TypeOK, NEW p \in Consumers \cup Writers, NEW ok \in BOOLEAN, InputDone(p, ok)
  PROVE  /\ Ends(p, ok)
         /\ \A q \in Procs \ {p} : pc'[q] = pc[q] /\ todo'[q] = todo[q]
<1>1. Finishes(p, ok)
  BY InputDoneFinishes
<1> QED
  BY <1>1, TypesOf, SeqTypesOf DEF Finishes, Ends, Goto, Procs

\* Which input a stream takes is settled before it is sent.
LEMMA EnterDoes ==
  ASSUME TypeOK, NEW p \in Consumers \cup Writers, EnterData(p) \/ EnterCloseStdin(p)
  PROVE  /\ pc[p] = "enter"
         /\ \/ /\ Head(todo[p]).kind # "closeStdin" /\ UNCHANGED stdinClosed
               /\ \/ (cancelled[cur[p]] \/ stdinClosed[cur[p]]) /\ Ends(p, FALSE)
                  \/ ~cancelled[cur[p]] /\ ~stdinClosed[cur[p]] /\ pc'[p] = "lock" /\ todo'[p] = todo[p]
            \/ /\ Head(todo[p]).kind = "closeStdin" /\ stdinClosed'[cur[p]]
               /\ Apart(cur[p], stdinClosed, stdinClosed')
               /\ \/ stdinClosed[cur[p]] /\ Ends(p, TRUE)
                  \/ ~stdinClosed[cur[p]] /\ pc'[p] = "lock" /\ todo'[p] = todo[p]
         /\ cur'[p] = cur[p] /\ then'[p] = then[p]
         /\ retried'[p] = retried[p] /\ keep'[p] = keep[p]
         /\ Others(p)
         /\ UNCHANGED <<current, closed, refreshed, responsesStarted, pending,
                        opened, cancelled, sendMu, events, reader, held,
                        halfClosed, over, wire, taken, guest, outs, down, cur,
                        then, retried, keep, deadline, capExpired, delivered, lost,
                        calls, refreshes>>
<1>0. p \in Procs /\ cur[p] \in Streams
  BY TypesOf DEF Procs
<1>1. pc[p] = "enter" /\ UNCHANGED <<cur, then, retried, keep>>
  BY DEF EnterData, EnterCloseStdin
<1>2. CASE EnterData(p) /\ InputRefused(cur[p])
  <2>1. InputDone(p, FALSE)
    BY <1>2 DEF EnterData
  <2> QED
    BY <1>0, <1>1, <1>2, <2>1, DoneEnds DEF EnterData, InputRefused, Others,
       sessionVars, streamVars, readerVars, grpcVars, guestVars, procVars,
     envVars, historyVars
<1>3. CASE EnterData(p) /\ ~InputRefused(cur[p])
  BY <1>0, <1>1, <1>3, TypesOf DEF EnterData, InputRefused, Goto, Others, sessionVars,
     streamVars, readerVars, grpcVars, guestVars, procVars,
     envVars, historyVars
<1>4. CASE EnterCloseStdin(p) /\ stdinClosed[cur[p]]
  <2>1. InputDone(p, TRUE)
    BY <1>4 DEF EnterCloseStdin
  <2> QED
    BY <1>0, <1>1, <1>4, <2>1, DoneEnds, TypesOf
       DEF EnterCloseStdin, Others, Apart, sessionVars, streamVars, readerVars, grpcVars, guestVars, procVars,
     envVars, historyVars
<1>5. CASE EnterCloseStdin(p) /\ ~stdinClosed[cur[p]]
  BY <1>0, <1>1, <1>5, TypesOf DEF EnterCloseStdin, Goto, Others, Apart, sessionVars,
     streamVars, readerVars, grpcVars, guestVars, procVars,
     envVars, historyVars
<1> QED
  BY <1>2, <1>3, <1>4, <1>5

\* An input is sent.
LEMMA SendDoes ==
  ASSUME TypeOK, NEW p \in Consumers \cup Writers, SendData(p) \/ SendCloseStdin(p)
  PROVE  /\ pc[p] = "send" /\ sendMu'[cur[p]] = None /\ Apart(cur[p], sendMu, sendMu')
         /\ Apart(cur[p], wire, wire') /\ Apart(cur[p], over, over')
         /\ Apart(cur[p], halfClosed, halfClosed')
         /\ \/ /\ Head(todo[p]).kind # "closeStdin" /\ UNCHANGED <<halfClosed, over>>
               /\ ~over[cur[p]] /\ ~halfClosed[cur[p]]
               /\ wire'[cur[p]] = Append(wire[cur[p]], Head(todo[p])) /\ Ends(p, TRUE)
            \/ /\ Head(todo[p]).kind # "closeStdin" /\ UNCHANGED <<halfClosed, wire>>
               /\ over[cur[p]] \/ halfClosed[cur[p]] \/ guest[cur[p]] = "ended"
               /\ over'[cur[p]] = (over[cur[p]] \/ halfClosed[cur[p]]) /\ Ends(p, FALSE)
            \/ /\ Head(todo[p]).kind = "closeStdin" /\ UNCHANGED over /\ halfClosed'[cur[p]]
               /\ IF halfClosed[cur[p]] \/ over[cur[p]] THEN UNCHANGED wire
                  ELSE wire'[cur[p]] = Append(wire[cur[p]], Head(todo[p]))
               /\ Ends(p, TRUE)
         /\ cur'[p] = cur[p] /\ then'[p] = then[p]
         /\ retried'[p] = retried[p] /\ keep'[p] = keep[p]
         /\ Others(p)
         /\ UNCHANGED <<current, closed, refreshed, responsesStarted, pending,
                        opened, cancelled, stdinClosed, events, reader, held,
                        taken, guest, outs, down, cur, then, retried, keep,
                        deadline, capExpired, delivered, lost, calls, refreshes>>
<1>0. /\ p \in Procs /\ cur[p] \in Streams /\ sendMu \in [Streams -> Procs \cup {None}]
      /\ over \in [Streams -> BOOLEAN] /\ halfClosed \in [Streams -> BOOLEAN]
      /\ wire \in [Streams -> Seq(Frames)]
  BY TypesOf, SeqTypesOf DEF Procs, TypeOK, StreamType
<1>1. /\ pc[p] = "send" /\ UNCHANGED <<cur, then, retried, keep>>
      /\ sendMu' = [sendMu EXCEPT ![cur[p]] = None]
      /\ UNCHANGED <<current, closed, refreshed, responsesStarted, pending, opened,
                     cancelled, stdinClosed, events, reader, held, taken, guest, outs,
                     down, deadline, capExpired, delivered, lost, calls, refreshes>>
  BY DEF SendData, SendCloseStdin, sessionVars, readerVars, guestVars, envVars, historyVars
<1>2. ASSUME NEW ok \in BOOLEAN, InputDone(p, ok)
      PROVE  Ends(p, ok) /\ Others(p)
  BY <1>1, <1>2, DoneEnds DEF Others
<1>3. CASE SendData(p)
  <2>1. PICK ok \in BOOLEAN : GrpcSend(cur[p], Head(todo[p]), ok) /\ InputDone(p, ok)
    BY <1>3 DEF SendData
  <2>2. Ends(p, ok) /\ Others(p)
    BY <1>2, <2>1
  <2>3. CASE ok
    BY <1>0, <1>1, <1>3, <2>1, <2>2, <2>3 DEF SendData, GrpcSend, SendTakes, Apart
  <2>4. CASE ~ok
    BY <1>0, <1>1, <1>3, <2>1, <2>2, <2>4 DEF SendData, GrpcSend, SendFails, Apart
  <2> QED
    BY <2>3, <2>4
<1>4. CASE SendCloseStdin(p)
  <2>1. Ends(p, TRUE) /\ Others(p)
    BY <1>2, <1>4 DEF SendCloseStdin
  <2> QED
    BY <1>0, <1>1, <1>4, <2>1 DEF SendCloseStdin, Apart
<1> QED
  BY <1>3, <1>4

\* sendMu is taken.
LEMMA LockDoes ==
  ASSUME TypeOK, NEW p \in Procs, LockSend(p)
  PROVE  /\ \/ pc[p] = "lock" /\ pc'[p] = "send"
            \/ pc[p] = "closeLock" /\ pc'[p] = "closeSend"
         /\ cur'[p] = cur[p] /\ then'[p] = then[p]
         /\ todo'[p] = todo[p] /\ retried'[p] = retried[p]
         /\ keep'[p] = keep[p]
         /\ Others(p)
         /\ UNCHANGED <<current, closed, refreshed, responsesStarted, pending,
                        opened, cancelled, stdinClosed, events, reader, held,
                        halfClosed, over, wire, taken, guest, outs, down, cur,
                        then, todo, retried, keep, deadline, capExpired, delivered,
                        lost, calls, refreshes>>
  BY TypesOf, SeqTypesOf DEF LockSend, Procs, Goto, Others, Apart, sessionVars, streamVars,
     readerVars, grpcVars, guestVars, procVars, envVars, historyVars

\* Close or Cancel begins.
LEMMA CloseDoes ==
  ASSUME TypeOK, NEW x \in Closers, CloseCall(x) \/ CancelCall(x)
  PROVE  /\ pc[x] = "idle" /\ pc'[x] = "closeMark" /\ cur'[x] = current /\ then'[x] = "idle"
         /\ Serial => \A q \in Procs : pc[q] = "idle"
         /\ closed' \in BOOLEAN
         /\ todo'[x] = todo[x] /\ retried'[x] = retried[x]
         /\ keep'[x] = keep[x]
         /\ Others(x)
         /\ UNCHANGED <<current, refreshed, responsesStarted, pending, opened,
                        cancelled, stdinClosed, sendMu, events, reader, held,
                        halfClosed, over, wire, taken, guest, outs, down, todo,
                        retried, keep, deadline, capExpired, delivered, lost,
                        calls, refreshes>>
  BY TypesOf, SeqTypesOf DEF CloseCall, CancelCall, BeginClose, CanStart, Procs, Goto,
     Others, Apart, sessionVars, streamVars,
     readerVars, grpcVars, guestVars, procVars, envVars, historyVars

\* The first close of a stream goes on.
LEMMA CloseMarkDoes ==
  ASSUME TypeOK, NEW p \in Consumers \cup Closers, CloseMark(p)
  PROVE  /\ pc[p] = "closeMark" /\ cancelled'[cur[p]] /\ Apart(cur[p], cancelled, cancelled')
         /\ stdinClosed'[cur[p]] = (stdinClosed[cur[p]] \/ ~cancelled[cur[p]])
         /\ Apart(cur[p], stdinClosed, stdinClosed')
         /\ IF cancelled[cur[p]] THEN pc'[p] = then[p] ELSE pc'[p] = "closeLock"
         /\ cur'[p] = cur[p] /\ then'[p] = then[p]
         /\ todo'[p] = todo[p] /\ retried'[p] = retried[p]
         /\ keep'[p] = keep[p]
         /\ Others(p)
         /\ UNCHANGED <<current, closed, refreshed, responsesStarted, pending,
                        opened, sendMu, events, reader, held, halfClosed, over,
                        wire, taken, guest, outs, down, cur, then, todo, retried,
                        keep, deadline, capExpired, delivered, lost, calls,
                        refreshes>>
  BY TypesOf, SeqTypesOf DEF CloseMark, Procs, Goto, Others, Apart, sessionVars, streamVars,
     readerVars, grpcVars, guestVars, procVars, envVars, historyVars

\* The cancel frame.
LEMMA CloseSendDoes ==
  ASSUME TypeOK, NEW p \in Consumers \cup Closers, CloseSend(p)
  PROVE  /\ pc[p] = "closeSend" /\ pc'[p] = "closeWait"
         /\ halfClosed'[cur[p]] /\ Apart(cur[p], halfClosed, halfClosed')
         /\ Apart(cur[p], wire, wire') /\ Apart(cur[p], over, over') /\ over'[cur[p]] \in BOOLEAN
         /\ over[cur[p]] => over'[cur[p]]
         /\ \/ UNCHANGED wire
            \/ ~halfClosed[cur[p]] /\ wire'[cur[p]] = Append(wire[cur[p]], CancelFrame)
         /\ cur'[p] = cur[p] /\ then'[p] = then[p]
         /\ todo'[p] = todo[p] /\ retried'[p] = retried[p]
         /\ keep'[p] = keep[p]
         /\ Others(p)
         /\ UNCHANGED <<current, closed, refreshed, responsesStarted, pending,
                        opened, cancelled, stdinClosed, events, reader, held,
                        taken, guest, outs, down, cur, then, todo, retried, keep,
                        deadline, capExpired, delivered, lost, calls, refreshes>>
  BY TypesOf, SeqTypesOf DEF CloseSend, GrpcSend, SendTakes, SendFails, Procs, Goto,
     Others, Apart, sessionVars, streamVars,
     readerVars, grpcVars, guestVars, procVars, envVars, historyVars

\* The stream is cancelled.
LEMMA CloseWaitDoes ==
  ASSUME TypeOK, NEW p \in Consumers \cup Closers, CloseWait(p)
  PROVE  /\ pc[p] = "closeWait" /\ pc'[p] = then[p]
         /\ over'[cur[p]] /\ Apart(cur[p], over, over')
         /\ cur'[p] = cur[p] /\ then'[p] = then[p]
         /\ todo'[p] = todo[p] /\ retried'[p] = retried[p]
         /\ keep'[p] = keep[p]
         /\ Others(p)
         /\ UNCHANGED <<current, closed, refreshed, responsesStarted, pending,
                        opened, cancelled, stdinClosed, sendMu, events, reader,
                        held, halfClosed, wire, taken, guest, outs, down, cur,
                        then, todo, retried, keep, deadline, capExpired, delivered,
                        lost, calls, refreshes>>
  BY TypesOf, SeqTypesOf DEF CloseWait, Procs, Goto, Others, Apart, sessionVars, streamVars,
     readerVars, grpcVars, guestVars, procVars, envVars, historyVars

\* The reader receives.
LEMMA RecvDoes ==
  ASSUME TypeOK, NEW i \in Streams, RecvResponse(i) \/ RecvError(i)
  PROVE  /\ reader[i] = "recv" /\ reader'[i] = "emit" /\ Apart(i, reader, reader')
         /\ Apart(i, held, held') /\ Apart(i, down, down') /\ Apart(i, over, over')
         /\ \/ /\ down[i] # <<>> /\ down'[i] = Tail(down[i]) /\ UNCHANGED over
               /\ \/ Head(down[i]).kind \in {"output", "exit"} /\ held'[i] = Head(down[i])
                  \/ Head(down[i]).kind = "malformed" /\ held'[i] = Event("failed")
            \/ /\ down[i] # <<>> /\ down'[i] = Tail(down[i]) /\ over'[i]
               /\ Head(down[i]).kind \in {"rejected", "failed"}
               /\ IF cancelled[i] THEN held'[i] = Event("end") ELSE held'[i] = Event(Head(down[i]).kind)
            \/ /\ over[i] /\ UNCHANGED <<down, over>>
               /\ IF cancelled[i] THEN held'[i] = Event("end") ELSE held'[i] = Event("failed")
         /\ UNCHANGED <<current, closed, refreshed, responsesStarted, pending,
                        opened, cancelled, stdinClosed, sendMu, events, halfClosed,
                        wire, taken, guest, outs, pc, cur, then, todo, retried,
                        keep, deadline, capExpired, delivered, lost, calls,
                        refreshes>>
<1>0. /\ reader \in [Streams -> {"none", "recv", "emit", "done"}]
      /\ held \in [Streams -> Events] /\ down \in [Streams -> Seq(Events)]
      /\ over \in [Streams -> BOOLEAN]
  BY TypesOf, SeqTypesOf
<1>1. CASE RecvResponse(i)
  BY <1>0, <1>1 DEF RecvResponse, Apart, sessionVars, streamVars, readerVars, grpcVars,
     guestVars, procVars,
     envVars, historyVars
<1>2. CASE RecvError(i) /\ down' = down
  BY <1>0, <1>2 DEF RecvError, RecvErrorEvent, Apart, sessionVars, streamVars,
     readerVars, grpcVars, guestVars, procVars,
     envVars, historyVars
<1>3. CASE RecvError(i) /\ down' # down
  BY <1>0, <1>3 DEF RecvError, RecvErrorEvent, Apart, sessionVars, streamVars,
     readerVars, grpcVars, guestVars, procVars,
     envVars, historyVars
<1> QED
  BY <1>1, <1>2, <1>3

\* The reader emits, or gives the event up.
LEMMA EmitDoes ==
  ASSUME TypeOK, NEW i \in Streams, Emit(i) \/ GiveUp(i)
  PROVE  /\ reader[i] = "emit" /\ Apart(i, reader, reader') /\ Apart(i, held, held')
         /\ Apart(i, events, events') /\ Apart(i, lost, lost')
         /\ \/ events'[i] = Append(events[i], held[i]) /\ lost'[i] = lost[i]
            \/ events'[i] = events[i] /\ lost'[i]
         /\ \/ held[i].kind = "exit" /\ held'[i] = Event("end") /\ reader'[i] = "emit"
            \/ held[i].kind = "output" /\ held'[i] = held[i] /\ reader'[i] = "recv"
            \/ held[i].kind \notin {"output", "exit"} /\ held'[i] = held[i] /\ reader'[i] = "done"
         /\ UNCHANGED <<current, closed, refreshed, responsesStarted, pending,
                        opened, cancelled, stdinClosed, sendMu, halfClosed, over,
                        wire, taken, guest, outs, down, pc, cur, then, todo,
                        retried, keep, deadline, capExpired, delivered, calls,
                        refreshes>>
<1>0. /\ reader \in [Streams -> {"none", "recv", "emit", "done"}]
      /\ held \in [Streams -> Events] /\ events \in [Streams -> Seq(Events)]
      /\ lost \in [Streams -> BOOLEAN]
  BY TypesOf, SeqTypesOf
<1>1. AfterEmit(i) /\ reader[i] = "emit"
  BY DEF Emit, Queued, GiveUp
<1>2. /\ Apart(i, reader, reader') /\ Apart(i, held, held')
      /\ \/ held[i].kind = "exit" /\ held'[i] = Event("end") /\ reader'[i] = "emit"
         \/ held[i].kind = "output" /\ held'[i] = held[i] /\ reader'[i] = "recv"
         \/ /\ held[i].kind \notin {"output", "exit"}
            /\ held'[i] = held[i] /\ reader'[i] = "done"
  BY <1>0, <1>1, AfterEmitGoes DEF Apart
<1>3. CASE Emit(i)
  BY <1>0, <1>1, <1>2, <1>3 DEF Emit, Queued, Apart, sessionVars, streamVars, readerVars,
     grpcVars, guestVars, procVars,
     envVars, historyVars
<1>4. CASE GiveUp(i)
  BY <1>0, <1>1, <1>2, <1>4 DEF GiveUp, Apart, sessionVars, streamVars, readerVars,
     grpcVars, guestVars, procVars,
     envVars, historyVars
<1> QED
  BY <1>3, <1>4

\* The guest reads, answers or ends; the context of a stream expires.
LEMMA GuestDoes ==
  ASSUME TypeOK, NEW i \in Streams, GuestStep(i) \/ ContextExpires(i)
  PROVE  /\ i <= opened /\ ~over[i]
         /\ Apart(i, down, down') /\ Apart(i, outs, outs') /\ Apart(i, guest, guest') /\ Apart(i, over, over')
         /\ \/ UNCHANGED <<down, outs, guest, over>>
            \/ /\ guest[i] = "running" /\ outs'[i] = outs[i] + 1 /\ UNCHANGED <<guest, over>>
               /\ down'[i] = Append(down[i], Output(outs[i] + 1))
            \/ /\ guest[i] = "running" /\ guest'[i] = "ended" /\ UNCHANGED <<outs, over>>
               /\ \E k \in {"exit", "rejected", "failed", "malformed"} :
                    down'[i] = Append(down[i], Event(k))
            \/ deadline /\ over'[i] /\ UNCHANGED <<down, outs, guest>>
         /\ UNCHANGED <<current, closed, refreshed, responsesStarted, pending,
                        opened, cancelled, stdinClosed, sendMu, events, reader,
                        held, halfClosed, wire, pc, cur, then, todo, retried, keep,
                        deadline, capExpired, delivered, lost, calls, refreshes>>
<1>0. /\ down \in [Streams -> Seq(Events)] /\ outs \in [Streams -> 0 .. MaxOutputs]
      /\ guest \in [Streams -> {"running", "ended"}] /\ over \in [Streams -> BOOLEAN]
  BY TypesOf, SeqTypesOf
<1>1. CASE GuestTakes(i)
  BY <1>0, <1>1 DEF GuestTakes, Serving, Apart, sessionVars, streamVars, readerVars,
     grpcVars, guestVars, procVars,
     envVars, historyVars
<1>2. CASE GuestOutput(i)
  BY <1>0, <1>2 DEF GuestOutput, Serving, Apart, sessionVars, streamVars, readerVars,
     grpcVars, guestVars, procVars,
     envVars, historyVars
<1>3. CASE GuestEnds(i)
  BY <1>0, <1>3 DEF GuestEnds, Serving, Apart, sessionVars, streamVars, readerVars,
     grpcVars, guestVars, procVars,
     envVars, historyVars
<1>4. CASE ContextExpires(i)
  BY <1>0, <1>4 DEF ContextExpires, Apart, sessionVars, streamVars, readerVars,
     grpcVars, guestVars, procVars,
     envVars, historyVars
<1> QED
  BY <1>1, <1>2, <1>3, <1>4 DEF GuestStep

\* Time.
LEMMA TimeDoes ==
  ASSUME DeadlinePasses \/ CapabilityExpires \/ UNCHANGED vars
  PROVE  /\ deadline => deadline'
         /\ UNCHANGED <<current, closed, refreshed, responsesStarted, pending, opened,
                        cancelled, stdinClosed, sendMu, events, reader, held, halfClosed,
                        over, wire, taken, guest, outs, down, pc, cur, then, todo,
                        retried, keep, delivered, lost, calls, refreshes>>
  BY DEF DeadlinePasses, CapabilityExpires, vars, sessionVars, streamVars, readerVars,
     grpcVars, guestVars, procVars, envVars, historyVars

\* What the steps of an input leave alone.
LEMMA EnterLeaves ==
  ASSUME TypeOK, NEW p \in Consumers \cup Writers, EnterData(p) \/ EnterCloseStdin(p)
  PROVE  /\ pc[p] = "enter" /\ p \in Procs /\ cur[p] \in Streams
         /\ Others(p) /\ pc'[p] \in {"lock", "record", "idle", "again", "enter"}
         /\ Apart(cur[p], stdinClosed, stdinClosed')
         /\ UNCHANGED <<current, closed, refreshed, responsesStarted, pending,
                        opened, cancelled, sendMu, events, reader, held,
                        halfClosed, over, wire, taken, guest, outs, down, cur,
                        then, retried, keep, deadline, capExpired, delivered, lost,
                        calls, refreshes>>
<1>1. p \in Procs /\ cur[p] \in Streams
  BY TypesOf DEF Procs
<1>2. Apart(cur[p], stdinClosed, stdinClosed')
  BY EnterDoes DEF Apart
<1>3. \A ok \in BOOLEAN : Ends(p, ok) => pc'[p] \in {"record", "idle", "again", "enter"}
  BY <1>1, EnterDoes DEF Ends
<1>4. pc'[p] \in {"lock", "record", "idle", "again", "enter"}
  BY <1>3, EnterDoes
<1> QED
  BY <1>1, <1>2, <1>4, EnterDoes

\* The same of a send, which moves one process and one stream.
LEMMA SendLeaves ==
  ASSUME TypeOK, NEW p \in Consumers \cup Writers, SendData(p) \/ SendCloseStdin(p)
  PROVE  /\ pc[p] = "send" /\ p \in Procs /\ cur[p] \in Streams
         /\ Others(p) /\ pc'[p] \in {"record", "idle", "again", "enter"}
         /\ Apart(cur[p], wire, wire') /\ Apart(cur[p], over, over')
         /\ Apart(cur[p], halfClosed, halfClosed')
         /\ UNCHANGED <<current, closed, refreshed, responsesStarted, pending,
                        opened, cancelled, stdinClosed, events, reader, held,
                        taken, guest, outs, down, cur, then, retried, keep,
                        deadline, capExpired, delivered, lost, calls, refreshes>>
<1>1. p \in Procs /\ cur[p] \in Streams
  BY TypesOf DEF Procs
<1>2. \A ok \in BOOLEAN : Ends(p, ok) => pc'[p] \in {"record", "idle", "again", "enter"}
  BY <1>1, SendDoes DEF Ends
<1>3. pc'[p] \in {"record", "idle", "again", "enter"}
  BY <1>2, SendDoes
<1> QED
  BY <1>1, <1>3, SendDoes
=============================================================================
