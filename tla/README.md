# A verification of tyto-sdk-go

TLA+ models of the Go SDK in `src/` (package `tyto`), TLC runs that check them
on small instances, and TLAPS proofs of the properties that matter most. The
SDK is a thin client, so what can go wrong in it is not arithmetic but order:
goroutines of the caller, a reader goroutine per stream, deadlines, retries
after ambiguous errors, and a capability (a short-lived token) that expires
under running work.

## 1. Inventory

| Component | State | Operations | Hard behaviour | What makes it correct |
|---|---|---|---|---|
| Exec session (`session.go`, `jws.go`) | `current`, `closed`, `refreshed`, `responsesStarted`, `pending` under `s.mu`; per stream `cancelled`, `stdinClosed` under `es.mu`, `sendMu`, the `events` channel, a reader goroutine | `Next`, `Write`, `CloseStdin`, `Resize`, `Cancel`, `Close` | the capability refresh replaces the stream under the other calls and replays their input; every `Send` may block; a slow consumer makes the reader drop events | one refresh; no rerun after output; input replayed once, in order and whole; nothing runs after `Close`; every call and every reader ends |
| Session attach (`session_stream.go`, `AttachSession` in `sessions.go`) | `closed`, `lastActivity` under `s.mu`, `sendMu`, `activity`, `events`, the reader | `AttachSession`, `Next`, `Write`, `Resize`, `Detach`, `Close` | two kinds of deadline; the idle timer races the input that resets it; `Detach` needs the lock that a blocked `Send` holds | never expires under an active client; `Detach` is last and no error; every call ends |
| Managed sessions (`sessions.go`) | none of their own | `CreateSession`, `ListSessions`, `KillSession` | one reissue of the capability and a second run | performed at most once; an error that names a reason means it was not performed |
| Sandbox handle (`sandbox.go`) | `deleted`, `LastObservedStatus`, `execEndpoint`, `capability`, failure details, partly under `s.mu` | `Exec`, `ExecStream`, `Delete`, `Snapshot`, `Resume`, `ReissueCapability`, `refreshCapabilityOnce`, `observeExecError` | late answers overwrite newer state; unlocked reads; answers that leave values out | a deleted sandbox stays deleted; a working one is never refused for good; a guest call always has an endpoint and a capability |
| Listings and lookup (`ListSandboxes`, `GetSandboxByName` in `sandboxes.go`, the loops of `jobs.go`, `job_schedules.go`) | the results and the page token of the call | the listings, `GetSandboxByName` | other clients create and delete between two pages; pages of any length; a limit | nothing missed, nothing twice, never an arbitrary one of several of a name |
| Files (`files.go`) | a local file, a temporary file, a slice, across two runs of one closure | 9 operations | the closure runs again after a rejected capability | writes and downloads whole or not at all; mutations sent once |
| Control plane (`sandboxes.go`, `jobs.go`, `job_schedules.go`, `templates.go`, `organizations.go`, `previews.go`) | none but the local call | 25 RPCs in one retry loop | UNAVAILABLE is ambiguous; the request may be performed after the caller has left | one key, one object; bounded attempts; the caller learns the key |
| Client (`client.go`, `transport.go`) | `closed`, `channels`, `organizationID` under `c.mu` | `channel`, `Close`, `SetOrganizationID`, interceptors, deadlines | `Close` and `SetOrganizationID` beside running calls | no channel outlives `Close` |
| Error mapping (`errors.go`) | none | `MapRPCError`, `IsRetryable` | an order of cases; an ambiguous answer beside a definite one | a lost answer never looks like a refusal; a status never like a state the sandbox is not in |
| Validation, types (`validate.go`, `types.go`) | none | pure | none | left to unit tests |

They interact as follows. A `Sandbox` reads its endpoint and capability for
every call and takes a channel of the `Client`'s cache. Exec, files and
sessions call the guest over it; each of them, when the guest rejects the
capability, asks the control plane once for a new one (`ReissueCapability` for
Exec and sessions, `GetSandbox` for files), stores it on the handle and tries
once more. The control-plane calls all run the same retry loop. A handle comes
from `Create`, from `GetSandbox`, or from the lookup of a name, which is a
listing and then a `GetSandbox`; what its calls learn, from answers and from
errors, they write back on it.

## 2. Modules

| Module | Models | Composes |
|---|---|---|
| `ExecSession` | `session.go` whole, the expiry check of `jws.go`, the gRPC stream and the guest below them as their environment | |
| `SessionStream` | `session_stream.go`, `AttachSession` | |
| `FileTransfer` | `files.go`, `refreshCapabilityOnce` as files see it | |
| `ControlPlane` | the retry loop with a record of flags for each RPC, the channel cache, the organization, the service as environment | |
| `ErrorMapping` | `MapRPCError` of `errors.go`, as a function of the call's kind, the code and the details it looks at | |
| `SandboxHandle` | `sandbox.go`, `sessionCall` and its three users in `sessions.go`, the handle's side of files, Exec and previews | `ErrorMapping` |
| `Listing` | the paged listings and `GetSandboxByName` | |
| `Reconnect` | a client from the lookup of a sandbox to the use of its handle | `SandboxHandle`, `Listing` |
| `ExecContract` | what an Exec session promises its callers (abstract) | |
| `ExecRefinement` | the mapping under which `ExecSession` implements it | `ExecSession`, `ExecContract` |
| `AtomicFiles` | file operations that take one step each (abstract) | |
| `FileRefinement` | the mapping under which `FileTransfer` implements them | `FileTransfer`, `AtomicFiles` |
| `ExecInvariants` | the inductive invariant of `ExecSession`, part by part (definitions only) | `ExecSession` |
| `ExecSessionProofs` | types and the one refresh; what each step of a session does, lemma by lemma | `ExecSession` |
| `ExecInvariantProofs` | that every step keeps the invariant of a session, and the properties that follow | `ExecInvariants`, `ExecSessionProofs` |
| `ExecRefinementProofs` | the order and completeness of a serial caller's inputs, and the refinement of `ExecContract` | `ExecRefinement`, `ExecInvariantProofs` |
| `ControlPlaneProofs`, `SandboxHandleProofs`, `SessionStreamProofs` | theorems about the module each is named after, with their inductive invariants | that module |
| `FileTransferProofs` | theorems about `FileTransfer`, the refinement of `AtomicFiles` among them | `FileRefinement` |
| `ReconnectProofs` | the listing's theorems; that `Reconnect` implements the handle's specification, and what follows | `Reconnect`, `SandboxHandleProofs` |
| `MCExecSession`, `MCSessionStream`, `MCFileTransfer`, `MCControlPlane`, `MCReconnect` | instances for TLC | `ExecRefinement`, `SessionStream`, `FileRefinement`, `ControlPlane`, `Reconnect` |

### How the models are cut

Callers are processes and `pc[p]` is the step a process takes next. A call is
cut wherever another goroutine can get in: at each lock section, at the
acquisition of `sendMu` (which is held across a `Send` that may block), at each
`select`, at each remote call. What lies between two cuts is one action. gRPC
is modelled from how the code uses it: `Send` takes a frame while the window
has room, fails when the stream is over, and blocks otherwise; a send after
`CloseSend` ends the whole RPC. The guest and the service may do anything a
peer may: read, answer, reject, fail, or stop for ever.

**ExecSession.** `current`, `closed`, `refreshed`, `responsesStarted` and
`pending` are the fields of `ExecSession`; `cancelled`, `stdinClosed`,
`sendMu` and `events` those of each `execStream`; `reader` and `held` are the
program counter and the local event of `readLoop`. `BeginNext`, `Take`,
`Expire`, `MarkStarted` are `Next` and `next`; `RefreshCheck`, `SniffExpiry`,
`CommitRefresh`, `Reissue`, `OpenStream`, `SwapStream` and the replay that
follows are `tryRefresh`, in its order and with its gaps. `InputCall`, `Enter*`,
`LockSend`, `Send*`, `RecordInput` are the three input calls, `BeginClose`,
`CloseMark`, `CloseSend`, `CloseWait` are `Cancel`, `Close` and
`execStream.close`. `Serial = TRUE` restricts the callers to one call at a time
with the same actions.

**SessionStream.** Time is counted in ticks, relative to what the code compares:
`quiet` is `now - lastActivity`, `timer[c]` what is left of the timer of a
`Next`, `age` the age of the attach. So the timer that was set before an input
and the clock that the input reset are two variables, as in the code. The
values of `IdleTimeout > 0` are in `Modes`; `idle` is chosen at the start.

**FileTransfer.** The closure of an operation runs at most twice (`attempt`);
what it keeps between the runs is `cursor` (the position in the local file of
an upload) and `data` (the temporary file of a download). The remote path has
one content, a sequence of chunks that name the call that wrote them, and
`published` is every content it has had. A `Send` takes a chunk whenever the
stream stands; that it may have to wait for the flow-control window is in the
fairness (section 3), which never forces it.

**ControlPlane.** An operation is a record: what it makes, whether its request
carries an idempotency key, whether it is retried, which of its errors carry
the key. `TakeChannel` and `DialFails` are `c.channel`: a channel, or the error
of `grpc.NewClient`, which carries no key. A listing calls its record once for every page;
the loop of a page is the loop modelled. Requests outlive their callers in
`inflight` and the service may perform them at any later time, once each;
a keyed request it has performed before, for the same organization, makes
nothing new (that is what the code assumes of the service).

**ErrorMapping.** A table: for every code the error of each kind of call, with
the two codes whose error depends on the details apart. `SandboxHandle` turns
every answer its guest and its service give through it, so that a case in
the wrong order shows as a wrong step of the handle.

**SandboxHandle.** `deleted`, `status`, `endpoint` and `capability` are the
fields of `Sandbox`; a call is at `guard` (`isDeleted`), `status` (the unlocked
look at `LastObservedStatus`), `read` and `readCapability` (one lock section for
Exec and sessions, two for files), `guest` and `performed` (on the wire, and
past the point where the guest did it), `erred` (the error in hand, the handle
not yet told), `sniff` (`jwsExpired`), `own`, `reissue` and `refresh` (a control
call) and `store` (its answer in hand). So the answer a call stores may be of a
state that is gone. The sandbox itself suspends, wakes, fails and is deleted by
others; capabilities expire by epochs, and an answer may leave out what the
code allows it to. A stream of Exec or of an attach is one guest call here:
`ExecSession` and `SessionStream` have the streams. The operations of files are
two: `File` (transfers, listing, stat: a stream, or an answer the client looks
into) and `FileMutation` (`MkdirFile`, `RemoveFile`, `MoveFile`: one request and
one answer, nothing of the client's around them). A `File` call may end with an
error of the client's own after the guest has done its part (`GuestOk`): a local
file that cannot be read to its end, after which `UploadFile` half-closes
all the same (`files.go:338`), a temporary file that cannot be synced or
renamed, missing metadata, a limit. `told` remembers whether a call has returned
to a goroutine what leaves no doubt that the sandbox is deleted. A control call is one
exchange: `ControlPlane` has the attempts. `ControlRetries` keeps of them that
a request may be performed twice.

**Listing.** One directory of sandboxes that other clients create and delete at
any time; `Page` is one turn of the loop, with every page length and with or
without a token behind the last result; a page may be empty and have a token,
and the loop then goes on. `throughout` and `alone` remember what
matched all the while; the model only reads them in properties. The service is
taken to list in the order of the ids; a token is the first id the next page may
have, and what of the rest precedes it is on the page. `ListJobRuns` and `ListJobSchedules` have the same loop.

**Reconnect.** `Look` runs listings until there is a handle; `ReconnectByName`
is the `GetSandbox` of the one sandbox found, whose record may by then say that
it is deleted, `Own` a `Create` or a `GetSandbox` of
an id that was kept; then `HandleStep`. When a handle exists the listing part is
forgotten but for what the property about the two together needs.

### The contracts

`ExecContract` knows no streams, locks or readers: a session is one command
with at most two runs. The events of a run come whole and in order, each to one
caller; the command is run again once at most, after a rejection; only the
newest run takes input. `ExecRefinement` maps a stream to a run, the events that
were popped to those given, the input frames sent to those accepted, a closed
stream to a stopped run, and a consumer in the `select` of `next` to a caller that
waits; `KeepsContract` is checked on the runs `exec_serial` and `exec_shared`.

The promise differs with the callers (`Alone`). One goroutine is promised that a
rejection was all the command had said when it is run again, and its input
in order. Several are not: `tryRefresh` publishes the new stream before it
replays (`session.go:290-300`), so a `Write` may overtake the replay; and `Next`
sets `responsesStarted` in a lock section after the one that took the answer
(`session.go:229-231`), so with two goroutines in `Next` one may hold an output
while the other takes the rejection behind it and runs the command again,
which is not what `README.md:169-171` says ("before responses start"). TLC
refutes the second on `exec_shared` when the mapping has `Alone <- TRUE`; there is
no run for it here, it is listed among the hazards. So the contract for several
goroutines is weaker than what the README of the repository says, on purpose: it
permits this rerun, and `KeepsContract` on `exec_shared` does not mean that
output is never produced twice. `RerunOnlyBeforeOutput` is the same
promise on the level of `ExecSession` and is checked with one consumer.

`AtomicFiles` has one file and one step for an operation. `FileRefinement` lets
a write take effect when the guest publishes it and a read when the guest opens the
file, in the last of the two runs of the closure, so `FilesAtomic` says that the
rejected first run, the refresh, the chunks and the temporary file cannot be
seen from outside.

## 3. Runs

| Run | Instance | Shows |
|---|---|---|
| `exec_serial` | one caller at a time over `Next`, two input calls, `Close`/`Cancel`; a window of 2 | type invariant; `ReplayInOrder`, `ReplayComplete`: a caller with one goroutine has its input replayed whole, once and in order; `AbortOnlyWhenAsked`: no sequence of input calls aborts the Exec; `KeepsContract`: the session implements `ExecContract` for one goroutine |
| `exec_shared` | two goroutines in `Next`, one closing; room for three streams | `RefreshAtMostOnce` although the flag is tested and set in two lock sections; `OnlyCurrentRuns`: what is true of a closed session; `KeepsContract`: it implements `ExecContract` for several goroutines |
| `exec_live` | a consumer beside a writer, a channel of two, two outputs for each stream, dropped events, a guest that may freeze, fair goroutines | `RerunOnlyBeforeOutput`; `DeliveryOrder`: outputs in order and once even when the reader drops events, without a gap when it drops none; `CallsReturn`, `ReaderExits` |
| `exec_close_reruns` | one caller at a time | *violated*: `CloseStopsRemote` |
| `exec_replay_lost` | a consumer beside a writer | *violated*: `ReplayComplete` |
| `attach` | a consumer, a writer, a closer, both deadlines | `ExpiresOnlyWhenQuiet`, `DetachIsLast`, `DetachIsNoError`, `DeadlineFreesCalls` |
| `idle_blocked` | a consumer and a writer with an idle timeout | *violated*: `ExpiryEndsAttach` |
| `files` | two callers, two calls of any two operations, capabilities that expire | `WritesWhole`, `DownloadsWhole`, `ReadsBounded`, `MutatesOnce`, `CallsReturn`; `FilesAtomic`: the operations implement `AtomicFiles` |
| `upload_empty` | the same with `UploadFile` | *violated*: `UploadsWhole` |
| `control_plane` | two callers, two calls of `CreateSandbox` and `CreatePreview`, a shared key, two organizations, one guest channel | `OneObjectPerKey`, `AttemptsBounded`, `CreateTellsItsKey`, `NoChannelAfterClose` |
| `reconnect` | a lookup among three sandboxes, then two goroutines and three calls of any of nine operations on one handle; one expiry, one move of the sandbox | `DeletedForGood` although late answers overwrite the status; `NoFalseVerdict`; `GuestCallsAddressed`; `PerformedOnce` of file and session calls; `RefusedMeansNotDone` of session calls and file mutations; `ListsAll`, `ListsOnce`; `NothingArbitraryDeleted` of the lookup and the `Delete` after it |
| `trigger_twice` | the same with `TriggerJobSchedule` | *violated*: `OneObjectPerCall` |

### What the violated runs show

* `exec_close_reruns`: the rejection is in the channel when `Close` runs; the
  next `Next` finds it, does not look at `closed`, reissues the capability and
  starts the command again on a stream nobody closes.
* `exec_replay_lost`: `Write` sends on the stream it has read and remembers the
  input in a later lock section; a refresh that comes in between replays
  without it.
* `idle_blocked`: an attach with an idle timeout has no deadline under it. The
  frame of an earlier `Write` is unread and the window is full; `Next` finds the
  time over and calls `Detach`, whose own `Send` blocks for ever. A `Write` that
  blocks with `sendMu` held does the same.
* `upload_empty`: the closure of `UploadFile` runs a second time over a file it
  has already read; the guest publishes an empty file and the call returns nil.
* `trigger_twice`: the service performs the first request and its answer is
  lost; the second attempt has no key to be recognized by.

### Bounds, and why they are enough

* `EventCap` is 1 instead of 16: a full channel, an empty one and a dropped
  event are what the code distinguishes. It is 2 in `exec_live`, with two outputs:
  there an event can overtake another in the channel, and with the exit or the
  error behind the outputs a third event finds the channel full and is dropped.
  `Window` is 1, or 2 where the order of two frames in flight matters.
* Two inputs show order and loss; one output per stream separates before
  output, output and after output where the order of outputs is not the
  question. Longer channels and more outputs are the theorem's
  (`DeliveredInOrder`).
* `MaxStreams` is one more than the code can use, so that a second refresh
  would show, where `RefreshAtMostOnce` is checked; elsewhere it is 2.
* One tick for each timeout of `SessionStream`: a timer is running or over, and
  the clock has been reset or not.
* Two chunks and two runs show a prefix, a repetition and a gap; the first
  content of the remote file has one chunk and `ReadLimit` is 1, so reads pass
  and fail.
* `MaxRetries` is 1 and two calls share a caller's key or have their own.
* Two callers of a handle and three calls: a call that is overtaken by one
  answer, and a call after both. `MaxEpoch` and `MaxMoves` are 1: a value is current
  or stale, and a call that is run again is not run a third time.
* Three ids, a limit of two or none and pages of one to three: a page that is
  cut, a full listing with more behind it, a last page with and without a token.
* `CHECK_DEADLOCK FALSE` in the cfgs of `files`, `control_plane`, `reconnect` and of
  the two violated runs with them: their calls are bounded by `MaxCalls`, and
  when all are made nothing is left to do. No other run needs it.
* Symmetry (of the callers) is used in `exec_shared`, `control_plane` and `reconnect`,
  where no liveness is checked; `KeepsContract` names no caller.

### Fairness

Goroutines that can step do (`WF` for each process and each reader), timers
fire and time passes. In `FileTransfer` that is `OwnStep`, what a goroutine does
without waiting for the guest, and `ContextEnds`, the deadline of the call:
`SendChunk` is in neither, a `Send` may wait for the flow-control window until
the deadline frees it, and a read for the guest. A mutex is handed on in turn (`SF` on the two lock steps
of `SessionStream`): Go's `sync.Mutex` goes into its starvation mode after a
millisecond. Nothing is assumed of the guest or the service: liveness holds, or
fails, with a peer that stops reading and answering.

## 4. Proofs

`ExecSessionProofs` proves, for any number of goroutines, any capacities and
any bounds:

* `TypeCorrect`: `Spec => []TypeOK`. The invariant is inductive as it stands; there
  is a lemma for each action.
* `RefreshedOnce`: `Spec => []RefreshAtMostOnce`. `tryRefresh` tests `refreshed`
  in one lock section and sets it in another, so the property is not inductive.
  The strengthening is `RefreshInv`: until the commit only the first stream
  exists (`OneStream`), a rejection is the last event its reader will ever
  emit (`RejectionIsLast`), so at most one goroutine can hold it on the way from
  `Take` to `CommitRefresh` (`OneHolder`); once `refreshed` is set nobody is left
  on that way. The lemmas follow this argument: `TakeRefresh` (the only step that
  makes a holder), `CommitOnce` (the holder commits alone), `RecvRefresh` and
  `EmitRefresh` (the reader stops after a rejection), `Undisturbed` (the steps
  that touch none of it).
* The lemmas named `...Does` say once what each action of `ExecSession` changes
  and leaves alone; the two modules below cite them and never open an action.

`ExecInvariantProofs` proves `SessionInv` (module `ExecInvariants`) for any number of
goroutines: `SessionStep` has one lemma for each part, each with one step per
action. The parts, and what each is for:

* `StreamsInv`: who has committed the refresh and not published its stream is alone,
  the second stream is its own until `SwapStream`, and the first ended with a
  rejection that a consumer took (`RefusedInv`). `UntouchedInv`, `ReadersInv`: nobody
  has written to, closed or read a stream that is not published.
* `CloseInv`: a stream whose `es.cancelled` is set is over, or the goroutine that set it
  is still inside `execStream.close`. A second `Close` returns at once, so the property
  speaks only of moments when nobody is inside: `QuietRunsCurrent` (`OnlyCurrentRuns`).
* `DeliveryInv`: what the reader has given (delivered, then the channel) is some of the outputs
  received so far, in their order, and then what ended the stream; what it holds may
  follow that; what is on its way comes after. Of a stream that dropped nothing it is all
  of them. `DeliveredInOrder` (`DeliveryOrder`) says both: order and uniqueness of every
  stream, no gap and the exit in its place of one that dropped nothing.
* `RerunInv`: with one goroutine in `Next` (`OneConsumer`: the callers are serial, or
  there is one consumer) nobody can take a rejection between a `Take` and the lock
  section that remembers it: `RerunsBeforeOutput` (`RerunOnlyBeforeOutput`). With two
  consumers the hazard at `session.go:230` is real and the hypothesis necessary.

`ExecRefinementProofs` first proves `InputInv`, which adds to `SessionInv` what a caller
with one goroutine can rely on (`Serial`; `exec_replay_lost` is the counterexample
without it):

* `SendingInv`, `AbortInv`: an input about to be sent finds its stream open, so no `Send`
  follows a `CloseSend`: `EndedOnlyWhenAsked` (`AbortOnlyWhenAsked`).
* `OrderInv`: a writer's input is younger than all that is sent or kept, and a replay has
  the last of `pending` still to send: `InputsInOrder` (`ReplayInOrder`).
* `KeepInv`: while the session may be refreshed, every input on the first stream is in
  `pending` or its writer is at the append. `write` and `resize` refuse after a `CloseStdin`,
  so what counts of `pending` is what precedes the first one. `ReplayInv`: the part
  replayed is on the second stream. Together `InputsReplayed` (`ReplayComplete`).

TLC finds `SessionInv` and `InputInv` true of every state of `exec_serial`, `exec_shared` and
`exec_live` too (a module that extends `MCExecSession` and `ExecInvariants`, with the
constants of those runs).

`SessionKeepsContract` is `Spec => KeepsContract`, for any goroutines, serial or not. A
session's contract sees five variables and which callers wait (`Unseen`, `NothingSeen`): the
steps that move neither are stutters; `Take` is the abstract delivery, a send the
abstract acceptance, `OpenStream` the abstract rerun, `CloseMark` the abstract stop and
the reader's give-up the abstract drop. That a rerun is allowed needs `RefusedInv` and, for
one goroutine, `RerunInv`; that a delivery is needs `DeliveryInv`; that an input is
accepted in order needs `OrderInv`.

`ControlPlaneProofs` proves all five properties of the run `control_plane`, for
all 25 operations and not the two of the instance, any callers, organizations,
endpoints and any `MaxRetries`:

* `TypeCorrect`, `OneObject`, `BoundedAttempts`, `CreateTells`, `NoneAfterClose`.
  None of `TypeOK`, `OneObjectPerKey` and `AttemptsBounded` is inductive. The
  invariant is `Inv`: a call under way has a number and a key of its own
  (`CallInv`); requests with its number carry its key, and none but the one it
  waits for has its present attempt (`RequestInv`), so requests of one call
  differ in their attempts alone (`SameCall`); a key has made one object
  (`CreatedInv`); a closed client's channels are shut or about to be
  (`ChannelInv`). `OneObject` follows from `SameCall` and `CreatedInv`;
  `BoundedAttempts` because the attempt number injects the requests of a call
  into `0 .. MaxRetries`. `Inv` holds on the instance of the run as well.
* `OpFields` is the one lemma that looks into the table of operations.

`SandboxHandleProofs` proves the five properties of a handle for any number of
goroutines, calls, expiries and moves of the sandbox. The invariant is `HandleInv`:

* `StepsInv`: a call is at a step its operation has, and only a call that is
  about to store an answer has one in hand.
* `VerdictInv`: whatever says "deleted" or "failed" (the flag, the status, an
  error or an answer in hand) says so of a state the sandbox cannot leave. This
  is what makes the order in which answers are stored harmless;
  `VerdictsAreTrue` (`NoFalseVerdict`) follows.
* `DoomedInv`: once a goroutine has been told of the deletion (its `Delete` returned nil, or
  its Exec or file call the guest's word) the flag is set, and it is never taken back; a guarded
  call or a `Delete` begun after that is still at its guard: `DeletedIsForGood`
  (`DeletedForGood`). A session call that is told does not set the flag
  (`sessions.go:267`), and the next guarded call goes out; the property leaves it out.
* `AddressInv`: `Exec` and sessions read endpoint and capability in one lock
  section, files in two. Between the two a refresh may store an answer, so the
  invariant says that an endpoint never comes without a capability, on the handle
  and in every answer on its way: `CallsAreAddressed` (`GuestCallsAddressed`).
* `DoneInv`: a guest call that has been performed is over: it has its answer, or
  an error that leads to no second run and, of a session call or a file mutation, leaves
  open what happened: `OncePerformed`, `RefusedIsNotDone`. Of a transfer, a listing or a
  stat the second is not true (`GuestOk`) and not claimed. The lemma
  `LostIsAmbiguous` looks into the table of `ErrorMapping`.

`ReconnectProofs` proves `ListsAll` and `ListsOnce` of `Listing` for any set of ids, any page
lengths and limits. The results are strictly increasing and reach as far as the
page token; up to there they have all that matched all the while (`PageInv`). What
is assumed of the service is its order (section 5). It then
proves that every step of `Reconnect` is a step of `HandleSpec` or leaves the handle
alone (`ImplementsHandle`); the handle's theorems then hold of a handle that a
lookup led to (`ReconnectedHandle`), and with `GetInv` (the one sandbox found is
all there was) a `Delete` on it destroys no arbitrary one of several
(`NothingArbitrary`).

`SessionStreamProofs` proves, for any goroutines, timeouts and queue lengths:

* `NeverExpiresEarly` (`ExpiresOnlyWhenQuiet`): an input may reset the clock after
  `Next` has set its timer, so the timer says nothing of `quiet`; the code looks again
  when it fires. For an attach without an idle timeout `TimerInv` relates the
  timer to the age.
* `DetachFrameIsLast` (`DetachIsLast`): `Write` and `Detach` test `closed` before they
  wait for `sendMu`. `MutexInv` says who holds it, `HalfCloseInv` that once the detach
  frame is sent the stream is half-closed or the same goroutine still holds the lock, so
  an input sent afterwards breaks the stream and is not read.
* `DetachIsClean` (`DetachIsNoError`): `CloseInv` and `EmitInv` relate what ended the
  stream to what the reader made of it.

`FileTransferProofs` proves the type invariant and the four safety properties of the run `files`, for any
callers, payloads, limits and calls, and the refinement. The invariant has four
parts for each caller: where its operation may take it and that its number is
its own (`CallOf`, `NumberInv`); that the bytes on a stream are those before the
cursor (`SentOf`), so what the guest publishes on a half-close is the whole of a
`WriteFile` even in its second run; that the bytes received begin one content
the file really had (`ReceivedOf`); that a mutation which was performed is not run
again (`AppliedOf`). `ImplementsAtomicFiles` is `Spec => FilesAtomic`: `WroteIn` and `SeenBy`
of `FileRefinement` are the abstract caller and the lemmas follow the steps in
the order of the code: most of them leave both as they were (`SameIsUnseen`), publishing
is the abstract write, opening the file the abstract read, and returning the
abstract return.

The assumptions are those the modules state of their constants: the sets of
processes are disjoint, `None` is in none of them, the operations are those of
the table, the bounds, timeouts, limits and ids are natural numbers, queues have
room for one element. TLC evaluates each of them on the run of its module. What
is assumed of the service in `OneObject` is `Replayed`: it remembers the keyed
requests it has performed.

Only model-checked:

* All liveness: `CallsReturn`, `ReaderExits`, `DeadlineFreesCalls` (fairness and
  ENABLED are beyond the prover).
* The properties that are violated: a run shows a counterexample, a proof could
  not.

## 5. What is assumed

* Of gRPC: messages of a stream arrive in order; a send blocks while the peer
  does not read; a send after `CloseSend` ends the RPC.
* Of the service: it recognizes the key of a request it has performed; it lists
  in a fixed order, and what precedes the position of a page's token is on that
  page or an earlier one (pages may be empty, and no more than that is assumed of
  them); of a failed sandbox it tells neither endpoint nor capability.
* Of the guest: it serves a call only with a capability that has not expired;
  it answers a rejection before it does anything for the call; it does not
  publish an upload whose call was cancelled.
* Of the one request and answer of a session call or a file mutation: when the guest has
  performed it, its answer is the success, or it is lost. An answer that gRPC
  refuses for its size, and one that does not follow the protocol, are left out.

## 6. What is not modelled

* `validate.go`, `types.go`, the conversions from and to protocol messages,
  endpoint normalization, the wording and the redaction of messages: pure
  functions that unit tests reach. Examples and CI.
* The `deleted` flag of a `Snapshot` (`Snapshot.Delete` checks and sets it as
  `Sandbox.Delete` does).
* Output beyond its order, TTY sizes, exit codes.
* That an older answer stored after a newer one puts an older capability on the
  handle. `SandboxHandle` has the interleaving, but no promise of the repository
  forbids it: the next call is rejected and refreshed.
* `sandbox.go:453-458`: the comment of `observeExecError` says it notes a failed
  sandbox, the code has no case for one. The model is of the code; a status that
  is only less informed breaks none of the properties.
* `PROJECT.json` lists under `hazards` what no property covers yet, and why.

## 7. Plan

Done: all modules of section 2, the two contracts, and a theorem
for every invariant, action property and refinement that a passing run checks.
What is left:

1. Lemmas of the table of `ErrorMapping` that hold for every code, beside the one the
   handle's proofs need.
2. The `deleted` flag of a `Snapshot`, as an instance of what `SandboxHandle` says of a
   handle.
