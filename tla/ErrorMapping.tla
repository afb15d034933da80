----------------------------- MODULE ErrorMapping -----------------------------
(***************************************************************************)
(* What the SDK makes of an error answer (errors.go).  An answer is a gRPC *)
(* code and the part of its details the SDK looks at; the kind of a call   *)
(* is the one option flag of MapRPCError that tells calls apart.  Messages *)
(* and the identity fields of an error are left out, and so are errors     *)
(* that are typed already and pass through.                                *)
(***************************************************************************)

\* WithCreate, WithExecRPC, WithFilesystemRPC, WithSessionRPC, WithJobRPC,
\* WithJobScheduleRPC, or none of them.
CallKinds == {"plain", "create", "exec", "file", "session", "job", "schedule"}

\* "Other": the codes MapRPCError does not name.
Codes == {"DeadlineExceeded", "Unavailable", "Unauthenticated",
          "InvalidArgument", "NotFound", "AlreadyExists", "PermissionDenied",
          "FailedPrecondition", "Aborted", "ResourceExhausted", "Other"}

\* "capability": one of the two messages of a rejected file capability.
Details == {"none", "capability", "sandbox_deleted", "sandbox_suspended",
            "sandbox_failed", "cross_filesystem_move"}

Answers  == [code : Codes, detail : Details]
Answer(c) == [code |-> c, detail |-> "none"]
Precondition(d) == [code |-> "FailedPrecondition", detail |-> d]

\* The error of each kind of call: special where a kind has its own.
ByKind(default, special) ==
  [k \in CallKinds |-> IF k \in DOMAIN special THEN special[k] ELSE default]
Always(error) == [k \in CallKinds |-> error]

\* The codes whose error does not depend on the details.
OfCode ==
  [DeadlineExceeded |-> ByKind("Timeout", [create |-> "SandboxCreationTimeout",
                                           file |-> "Filesystem"]),
   Unavailable      |-> ByKind("Connection", [file |-> "Filesystem"]),
   Unauthenticated  |-> Always("Authentication"),
   InvalidArgument  |-> Always("InvalidRequest"),
   NotFound         |-> ByKind("SandboxNotFound",
                               [file     |-> "RemoteFileNotFound",
                                session  |-> "SessionNotFound",
                                job      |-> "JobRunNotFound",
                                schedule |-> "JobScheduleNotFound"]),
   AlreadyExists    |-> ByKind("Service", [file    |-> "RemoteFileExists",
                                           session |-> "SessionExists"]),
   Aborted          |-> ByKind("SandboxBusy", [file |-> "Filesystem"]),
   ResourceExhausted |-> ByKind("Service", [file |-> "FilesystemLimit"]),
   Other            |-> ByKind("Service", [file |-> "Filesystem"])]

\* A file call's capability is rejected only by its two messages: any other
\* denial is about the file.
OfPermissionDenied(kind, detail) ==
  IF kind = "file" /\ detail # "capability" THEN "Filesystem"
  ELSE ByKind("Service", [exec    |-> "CapabilityRejected",
                          session |-> "CapabilityRejected",
                          file    |-> "CapabilityRejected"])[kind]

SandboxErrors == [sandbox_deleted   |-> "SandboxDeleted",
                  sandbox_suspended |-> "SandboxSuspended",
                  sandbox_failed    |-> "SandboxFailed"]

\* Variant: a failed precondition is taken for a sandbox that is gone.
AlwaysDeleted(kind, detail) == "SandboxDeleted"

\* The state of the sandbox, when the details name it, comes before the kind
\* of the call.
OfFailedPrecondition(kind, detail) ==
  IF detail \in DOMAIN SandboxErrors THEN SandboxErrors[detail]
  ELSE IF kind = "file" /\ detail = "cross_filesystem_move"
  THEN "CrossFilesystemMove"
  ELSE ByKind("Service", [create |-> "SandboxCreationFailed",
                          file   |-> "Filesystem"])[kind]

MapRPCError(kind, answer) ==
  IF answer.code = "PermissionDenied" THEN OfPermissionDenied(kind, answer.detail)
  ELSE IF answer.code = "FailedPrecondition"
  THEN OfFailedPrecondition(kind, answer.detail)
  ELSE OfCode[answer.code][kind]

Errors ==
  {"SandboxCreationTimeout", "SandboxCreationFailed", "SandboxNotFound",
   "SandboxDeleted", "SandboxSuspended", "SandboxFailed", "SandboxBusy",
   "Authentication", "InvalidRequest", "CapabilityRejected", "Timeout",
   "Connection", "Service", "SessionNotFound", "SessionExists",
   "JobRunNotFound", "JobScheduleNotFound", "Filesystem", "FilesystemLimit",
   "RemoteFileNotFound", "RemoteFileExists", "CrossFilesystemMove"}

\* The errors that leave open whether the request was performed.
Ambiguous == {"Timeout", "Connection", "Filesystem", "Service",
              "SandboxCreationTimeout"}
=============================================================================
