--------------------------- MODULE ExecRefinement ---------------------------
(***************************************************************************)
(* An ExecSession keeps the promise of ExecContract.  A stream is a run;   *)
(* what was popped from its channel was given, and its input frames were   *)
(* accepted; a closed stream was stopped.  A consumer waits while it is in *)
(* the select of next().                                                   *)
(*                                                                         *)
(* One goroutine (Serial) is promised more than several, for two reasons.  *)
(* tryRefresh publishes the new stream before it replays, so that a Write  *)
(* may overtake the replay; and Next remembers that the command answered   *)
(* in a lock section after the one that took the answer, so that another   *)
(* Next may take a rejection in between and run the command again.         *)
(***************************************************************************)
EXTENDS ExecSession

NumbersOn(i) == [j \in 1 .. Len(InputsOn(i)) |-> InputsOn(i)[j].n]

Contract == INSTANCE ExecContract WITH
  Alone    <- Serial,
  Callers  <- Consumers,
  Outputs  <- MaxOutputs,
  MaxInput <- MaxInputs,
  runs     <- opened,
  given    <- [i \in {1, 2} |-> delivered[i]],
  accepted <- [i \in {1, 2} |-> NumbersOn(i)],
  stopped  <- {i \in Streams : cancelled[i]},
  dropped  <- {i \in Streams : lost[i]},
  calls    <- {c \in Consumers : pc[c] # "idle"},
  waiting  <- {c \in Consumers : pc[c] = "select"}

\* To its callers a session is one command: the events of each run come
\* whole and in order, each to one caller, the command is run again once at
\* most and only after a rejection, which for a single goroutine is all it
\* ever said, and only the newest run takes input, in order for a single
\* goroutine.  So it is whatever the streams, the locks and the reader
\* goroutines of session.go do in between.
KeepsContract == Contract!Spec
=============================================================================
