----------------------------- MODULE AtomicFiles -----------------------------
(***************************************************************************)
(* What the file operations of a handle promise their callers: a remote    *)
(* file that is written and read in one step, at some moment of the call,  *)
(* with no chunks, streams, capabilities or second runs.  A call that      *)
(* succeeds did what it was asked; one that fails may have done it too.    *)
(* FileTransfer implements it (FileRefinement).                            *)
(***************************************************************************)
EXTENDS Naturals, Sequences

CONSTANTS
  Callers,
  Ops,          \* operations they call
  MaxCalls,     \* bound: calls
  Limit,        \* longest content ReadFile returns
  Payload(_),   \* what call n writes, or finds in its local file
  Old,          \* the remote file before the first call
  OldDest       \* a local destination before the first download

VARIABLES
  file,         \* the content at the remote path
  op, number,   \* each caller's call
  done,         \* whether it has written the remote file
  seen,         \* the content it has read there, as <<content>>
  dest,         \* its local destination
  answer        \* what its last call returned

filesVars == <<file, op, number, done, seen, dest, answer>>

Reads  == {"ReadFile", "DownloadFile", "ListFiles"}
Writes == {"WriteFile", "UploadFile"}
Error  == [kind |-> "error", bytes |-> <<>>]
Ok(bytes) == [kind |-> "ok", bytes |-> bytes]

Init ==
  /\ file = Old
  /\ op = [p \in Callers |-> "none"]
  /\ number = [p \in Callers |-> 0]
  /\ done = [p \in Callers |-> FALSE]
  /\ seen = [p \in Callers |-> <<>>]
  /\ dest = [p \in Callers |-> OldDest]
  /\ answer = [p \in Callers |-> [kind |-> "none", bytes |-> <<>>]]

Begin(p) ==
  /\ op[p] = "none"
  /\ \E o \in Ops : op' = [op EXCEPT ![p] = o]
  /\ \E n \in 1 .. MaxCalls :
       /\ \A q \in Callers : number[q] < n
       /\ number' = [number EXCEPT ![p] = n]
  /\ UNCHANGED <<file, done, seen, dest, answer>>

\* WriteFile puts the whole of its bytes there.  UploadFile may put a part of
\* the local file: what its second run finds left, or what was read before
\* a local error.
Versions(p) ==
  LET bytes == Payload(number[p]) IN
  IF op[p] = "WriteFile" THEN {bytes}
  ELSE {SubSeq(bytes, i, j) : i \in 1 .. Len(bytes) + 1, j \in 0 .. Len(bytes)}

Write(p) ==
  /\ op[p] \in Writes
  /\ done' = [done EXCEPT ![p] = TRUE]
  /\ file' \in Versions(p)
  /\ UNCHANGED <<op, number, seen, dest, answer>>

Look(p) ==
  /\ op[p] \in Reads
  /\ seen' = [seen EXCEPT ![p] = <<file>>]
  /\ UNCHANGED <<file, op, number, done, dest, answer>>

LookAgain(p) ==
  /\ op[p] \in Reads
  /\ seen' = [seen EXCEPT ![p] = <<>>]
  /\ UNCHANGED <<file, op, number, done, dest, answer>>

\* The content p has read, if any.
Content(p) == {seen[p][i] : i \in DOMAIN seen[p]}

\* What a call that succeeds may return.
Earned(p) ==
  CASE op[p] \in Writes -> IF done[p] THEN {Ok(<<>>)} ELSE {}
    [] op[p] = "ReadFile" -> {Ok(bytes) : bytes \in {b \in Content(p) : Len(b) <= Limit}}
    [] op[p] = "ListFiles" -> {Ok(bytes) : bytes \in Content(p)}
    [] op[p] = "DownloadFile" -> {}
    [] OTHER -> {Ok(<<>>)}

\* A download that succeeds has also replaced its destination.
Return(p) ==
  /\ op[p] # "none"
  /\ op' = [op EXCEPT ![p] = "none"]
  /\ number' = [number EXCEPT ![p] = 0]
  /\ done' = [done EXCEPT ![p] = FALSE]
  /\ seen' = [seen EXCEPT ![p] = <<>>]
  /\ \/ /\ \E a \in Earned(p) \cup {Error} : answer' = [answer EXCEPT ![p] = a]
        /\ UNCHANGED dest
     \/ /\ op[p] = "DownloadFile" /\ seen[p] # <<>>
        /\ answer' = [answer EXCEPT ![p] = Ok(<<>>)]
        /\ dest' = [dest EXCEPT ![p] = seen[p][1]]
  /\ UNCHANGED file

Next ==
  \E p \in Callers : Begin(p) \/ Write(p) \/ Look(p) \/ LookAgain(p) \/ Return(p)

Spec == Init /\ [][Next]_filesVars
=============================================================================
