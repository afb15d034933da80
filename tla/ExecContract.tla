---------------------------- MODULE ExecContract ----------------------------
(***************************************************************************)
(* What an Exec session promises the goroutines that share it, without     *)
(* streams, locks, channels or reader goroutines: a remote command, run    *)
(* again at most once and only when its last word was that it refused the  *)
(* capability, whose events are handed out one by one, each to one caller. *)
(* To a caller with one goroutine it promises more: the refusal was its    *)
(* only word, and its input is taken in the order it was offered.          *)
(* ExecSession implements it (ExecRefinement).                             *)
(***************************************************************************)
EXTENDS Naturals, Sequences

CONSTANTS
  Alone,        \* the session is used by one goroutine
  Callers,      \* goroutines that call Next
  Outputs,      \* bound: outputs of one run
  MaxInput      \* bound: inputs of the session

VARIABLES
  runs,         \* times the command was started
  given,        \* per run, the events handed to callers
  accepted,     \* per run, the inputs the command was sent
  stopped,      \* runs the client asked to stop
  dropped,      \* runs of which an event was thrown away
  calls,        \* callers with a Next under way
  waiting       \* those of them that may be handed an event

contractVars == <<runs, given, accepted, stopped, dropped, calls, waiting>>

Runs    == {1, 2}
Last(s) == s[Len(s)]
Refused == [kind |-> "rejected", n |-> 0]
Answers == [kind : {"output"}, n : 1 .. Outputs]
           \cup [kind : {"exit", "rejected", "failed", "end"}, n : {0}]

Init ==
  /\ runs = 1
  /\ given = [r \in Runs |-> <<>>]
  /\ accepted = [r \in Runs |-> <<>>]
  /\ stopped = {} /\ dropped = {} /\ calls = {} /\ waiting = {}

\* Whether run r may hand out e next: the outputs as they were written and
\* without a gap, nothing after the last word, and a clean end only after
\* an exit or of a run that was stopped.
Follows(r, e) ==
  LET said == given[r] IN
  /\ said # <<>> => \/ Last(said).kind = "output"
                    \/ Last(said).kind = "exit" /\ e.kind = "end"
  /\ e.kind = "output" =>
       /\ r \notin dropped => e.n = Len(said) + 1
       /\ said # <<>> => e.n > Last(said).n
  /\ e.kind = "end" /\ r \notin dropped =>
       r \in stopped \/ (said # <<>> /\ Last(said).kind = "exit")

\* A call begins; with its deadline over it may wait for nothing.
Call(c) ==
  /\ calls' = calls \cup {c}
  /\ waiting' \in {waiting, waiting \cup {c}}
  /\ UNCHANGED <<runs, given, accepted, stopped, dropped>>

\* One event of a run, to one caller.
Give(c) ==
  /\ waiting' = waiting \ {c}
  /\ calls' \in {calls, calls \ {c}}
  /\ \E r \in 1 .. runs, e \in Answers :
       /\ Follows(r, e)
       /\ given' = [given EXCEPT ![r] = Append(@, e)]
  /\ UNCHANGED <<runs, accepted, stopped, dropped>>

\* The command is started again, by a call that was told of the refusal.
Rerun ==
  /\ calls \ waiting # {}
  /\ runs = 1 /\ runs' = 2
  /\ given[1] # <<>> /\ Last(given[1]) = Refused
  /\ Alone => Len(given[1]) = 1
  /\ UNCHANGED <<given, accepted, stopped, dropped, calls, waiting>>

AskAgain(c) ==
  /\ runs = 2
  /\ waiting' = waiting \cup {c}
  /\ UNCHANGED <<runs, given, accepted, stopped, dropped, calls>>

TimeUp(c) ==
  /\ waiting' = waiting \ {c}
  /\ UNCHANGED <<runs, given, accepted, stopped, dropped, calls>>

Return(c) ==
  /\ calls' = calls \ {c}
  /\ UNCHANGED <<runs, given, accepted, stopped, dropped, waiting>>

\* An input goes to the newest run.
Accept(n) ==
  /\ Alone /\ accepted[runs] # <<>> => Last(accepted[runs]) < n
  /\ accepted' = [accepted EXCEPT ![runs] = Append(@, n)]
  /\ UNCHANGED <<runs, given, stopped, dropped, calls, waiting>>

Stop(r) ==
  /\ r \in 1 .. runs \ stopped
  /\ stopped' = stopped \cup {r}
  /\ UNCHANGED <<runs, given, accepted, dropped, calls, waiting>>

Drop(r) ==
  /\ r \in 1 .. runs \ dropped
  /\ dropped' = dropped \cup {r}
  /\ UNCHANGED <<runs, given, accepted, stopped, calls, waiting>>

Next ==
  \/ \E c \in Callers \ calls : Call(c)
  \/ \E c \in waiting : Give(c) \/ TimeUp(c)
  \/ \E c \in calls \ waiting : AskAgain(c) \/ Return(c)
  \/ Rerun
  \/ \E n \in 1 .. MaxInput : Accept(n)
  \/ \E r \in Runs : Stop(r) \/ Drop(r)

Spec == Init /\ [][Next]_contractVars
=============================================================================
