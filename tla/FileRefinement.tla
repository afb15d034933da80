--------------------------- MODULE FileRefinement ---------------------------
(***************************************************************************)
(* The file operations of FileTransfer behave as the one-step operations   *)
(* of AtomicFiles.  A read takes effect when the guest opens the file for  *)
(* it, in the last run of the closure; a write, when the guest publishes.  *)
(***************************************************************************)
EXTENDS FileTransfer

\* The content caller p has read so far in this run of its call.
SeenBy(p) ==
  CASE pc[p] \in {"sync", "rename"} -> <<data[p]>>
    [] op[p] \in Fetched /\ rpc[p].state = "accepted" -> <<rpc[p].snap>>
    [] OTHER -> <<>>

WroteIn(p) == op[p] \in Streamed /\ \E f \in published : f.call = call[p]

Atomic == INSTANCE AtomicFiles WITH
  Limit   <- ReadLimit,
  Old     <- OldRemote.chunks,
  OldDest <- OldLocal,
  file    <- remote.chunks,
  number  <- call,
  done    <- [p \in Callers |-> WroteIn(p)],
  seen    <- [p \in Callers |-> SeenBy(p)],
  answer  <- [p \in Callers |-> [kind |-> result[p].kind, bytes |-> result[p].bytes]]

\* Whatever is rejected, refreshed, lost and run again on the way, a file call
\* that returns nil has written or read the remote file in one step within
\* the call: no bytes of two runs or of two versions, none of a version that
\* was replaced before the call, no success without the write.
FilesAtomic == Atomic!Spec
=============================================================================
