# A TLA+ model of the yanbot-harness local runtime

yanbot-harness runs coding agents behind adapters. Its local runtime is one
Node.js process that admits runs, drives an adapter for each, asks clients for
permissions, persists every event before broadcasting it, replays events to
clients that reconnect, and recovers its files after a crash. This directory
models the parts of it whose correctness depends on the order in which things
happen, checks them with TLC on small instances and proves the main safety
properties with TLAPS for every value of the constants.

## The system

| component | state | operations | what makes it hard | modelled in |
|---|---|---|---|---|
| event hub (`event-hub.ts`) | subscribers of each run with their queue, `closed`, `error` and wake-up | `publish`, `subscribe` / `#iterate` | history, queue and live broadcast overlap; overflow, abort, failing persistence | `EventHub` |
| run supervisor (`run-supervisor.ts`) | active runs, active run of each session, idempotency keys, pending interactions, recorded responses, the create queue | `createRun`, `cancelRun`, `respondToInteraction`, `shutdown`, `#execute` | checks before awaits and updates after them; every write may fail; cancel, timeout and shutdown race the adapter | `RunSupervisor`, `Interactions`, `Admission` |
| local state store (`local-state-store.ts`) | `session.json`, `run.json`, `events.jsonl` | create, update, `appendEvent`, `readEvents`, `initialize` with recovery | a crash between any two file operations | `StateStore` |
| managed run (`harness-core`) | pending interactions, responses, once-only cancel and dispose | `respond`, `cancel`, `dispose`, `#iterate` | answers, cancel and the terminal event race | `ManagedRun`, `RunStream` |
| CodeBuddy adapter | one active run: queue, running tools, pending permission calls, watchdog, stop | `startRun`, `#consume`, `canUseTool`, `cancel`, `respondToInteraction`, `dispose` | vendor messages, vendor callbacks, timers and the supervisor in any order | `CodeBuddyRuntime` |
| reference adapter | scenario, the generator's position, the interaction's promise | `startRun`, `cancel`, `respondToInteraction`, `dispose` | calls that come before or after the await they are for | `ReferenceRuntime` |
| HTTP application, adapter service (`app.ts`, `adapters.ts`) | open event streams, runtimes opened to ask what an adapter can do | routes, `#withRuntime`, `startRun` | every step may fail with a runtime open | `EventHub`, `Admission` |
| workspace grants, authentication | grants, bindings, browser sessions | issue, resolve, revoke, exchange, authenticate | a grant ends while a request waits; expiry boundary; single use | `Access`, `Admission` |
| permission engine, configuration layers, extensions | none | pure functions | precedence, merge and deletion over five scopes | `Permissions`, `ConfigLayers` |
| SDK managed runtime (`managed-runtime.ts`, `main.ts`) | child process, descriptor, temporary root | `startManagedRuntime`, `close`, the process's own shutdown | the child exits, hangs or ignores signals at any time; two owners of one file | `ManagedRuntime` |
| CLI, SDK client, kits, contracts, redaction, sidecar, scripts | little or none | plumbing | - | not modelled |

The HTTP application authenticates a request and hands it to the supervisor,
which resolves the workspace grant, merges the configuration, opens a runtime of
the adapter to learn its capabilities and disposes it, records the run, and
starts it with a second runtime behind a managed run. The supervisor iterates
the managed run's events and hands each to the event hub; the hub appends it to
the store, calls back the supervisor, which rewrites `run.json` and
`session.json`, and broadcasts it to the subscribers. A client of the event
stream is a subscriber behind the SSE route; its answers go the other way,
through the supervisor and the managed run to the adapter. `PROJECT.json` lists
every part, with what is left out and why, and the hazards of the code with the
line where each bites.

In a single-threaded process what runs between two awaits is atomic, so this is
the grain of the models: one action per segment between awaits, with every
segment of every run and every client interleaved.

The properties that make each part correct. The code departs from some of them;
where, is in the two sections on disagreements below, and the properties name
those cases as their exceptions.

* event hub: no gap, no reordering, nothing unpersisted, no missed wake-up,
  across any hand-over from history to live and any number of reconnections
  (except for an event whose own append failed after its line was written);
* supervisor: limits hold across awaits, one start per idempotency key, a
  released run is recorded, terminal states are final, one verdict per
  interaction and no race of answers that fails a run;
* store: an acknowledged event is never lost, a status follows the log, a
  recovery closes what was left open;
* adapters: one terminal event at the end; tools settled before it (except when
  the vendor's stream ends without a result); no permission call with an id of
  its own left waiting (except one made after the run's `finally`); every run
  that was told to end, once it can be told, does;
* admission: an ended grant does not admit a request that waited for its turn,
  runtimes are disposed on every way out, the create queue is handed on, the
  configuration is the documented one (except where an object is copied with a
  null in it);
* managed runtime: starts and closes end, leave no orphan, and leave a temporary
  root or a descriptor behind only in the cases that `WhatIsLeftBehind` lists.

## Modules

### The run and its events

`EventHub` models one run's publications and its clients. `publisher` is
the position of `publish` (persisting, recording in the callback,
broadcasting, or failing over to `#finishWithFailure`), `persisted`, `recorded`
and `ended` are the log and `run.json`, and each client has the fields of its
`Subscriber` (`queue`, `closed`, ...), the position of its generator
(`connection`), whether it sleeps on a promise in `waiters` (`waiting`), and
what it has received over all its connections. `Broadcast`, `ClosedByFailure`
and `Abort` wake it as `#wake` does (`Woken`). An append may fail before its
line is written or after (`AppendFails`): in the second case the event is in the
log and, since the append is outside the `try` of `publish`, nobody is told and
nobody is closed. `unannounced` is a history variable, the events this happened
to. `Restart` is a crash with the store's recovery; `StopAborted` cuts a
response. Clients share the publisher and nothing else.

`RunSupervisor` models admission, execution, cancellation and shutdown of any
number of runs. `step[r]` is the position of `createRun` or `#execute`;
`active` and `activeOf` are the two maps; `adapter[r]` is what the run's
`ManagedRunController` still controls. A log is abstracted to what the
supervisor branches on: empty, open, or its terminal event, where `over`
stands for `run.completed` and `run.cancelled`, which the supervisor treats
alike. The adapter is an environment: it may start or not, emit, end, throw,
or break the protocol at any point. Each write of `#updateFromEvent` and of
`#finishWithFailure` may fail. Two things deserve attention:

* a `createRun` is atomic only between its awaits, so `BeginCreate` (all checks
  before the first await), `StoreRun` and `Activate` are separate actions;
* `ManagedAdapterRun.cancel` calls the runtime once and a runtime ignores a
  cancel of a run it has not begun: an adapter whose only cancel was spent so is
  `deaf`, and only `dispose` stops it.

`StateStore` models the files of the local state store and everything that
writes them. The variables of `disk` survive a crash: how much of a directory
exists (`sessionPlace`, `runPlace`), the statuses in `session.json` and
`run.json`, and for `events.jsonl` its complete lines (`log`) and whether an
incomplete line follows (`tail`). `process` and `step[r]` are where the process
stands. One action is one file operation: `Start`, `LoadSession`, `LoadRun` and
`BeginRecovery` are `#loadExistingState`; `RecoverRun`, `CloseRun`,
`RecoverStatus`, `RecoverSession` and `FinishRecovery` the loop of
`#recoverInterruptedRuns`; `MakeSessionDirectory` to `MarkRunning` are
`createSession` and `createRun`; `BeginAppend` to `FinishWithFailure` are the
loop of `#execute` with `appendEvent`, `#updateFromEvent` and
`#finishWithFailure`, cut at their writes. `Crash` may come between any two of
them; of a line that is being appended nothing, a part or all of it remains. A
failing operation (`Fault`) ends in the error path of its caller. `rename`
makes a JSON file appear at once, so it needs no partial state. `acked` is a
history variable: how many events of a run `appendEvent` has returned for. A
crash is one of the process; a power failure is not modelled (only
`appendEvent` syncs).

`DurableLog` is what the store promises about logs, without files or
processes: a run's log takes `run.started`, events and one terminal event, in
several logs at once if need be (a crash), and never loses one that was
acknowledged. `StateStore` implements it.

### Adapters and interactions

`ManagedRun` is the managed run of the harness core as a record and the
operators of its checks: `Admits` are the protocol checks of `#iterate`,
`Passed` what an accepted event changes, `MayRespond` and `Answered` are
`respond`, `MayCancel` the once-only `cancel`. The two adapters and
`Interactions` use it. `RunStream` is what the managed run's stream promises:
`run.started` first, an interaction resolved only while open, one terminal
event when none is open, nothing after it.

`CodeBuddyRuntime` is a run of the CodeBuddy adapter under the managed run.
`generator` is `#run`, `producer` is `#consume`, `calls` is where each
`canUseTool` call of the vendor stands, `stop` the vendor's shutdown; the
watchdog's run and idle timers may fire whenever they run. The queue is the
part of `stream` that the generator has not `read`. The vendor's SDK is an
environment that sends messages, calls `canUseTool` (also after it was
aborted), ends, throws or does nothing. Contents of messages are left out.

`ReferenceRuntime` plays each scenario of the reference adapter up to each of
its awaits. `AdapterRuntimes` puts the two beside each other, one of them
playing the run, so that one run checks what the supervisor is promised of
either.

`Interactions` composes the supervisor (pending interactions, recorded
responses and timers, kept by request id for all runs), a managed run for each
run, an adapter that asks, takes or refuses answers, the permission policy
(`Permissions`) and the clients that answer. `ops` and `given` are the managed
run's `#responseOperations` and `#responses`; an answer is on its way between
`Hand` (in `respondToInteraction`, the timer or `Decide`) and `TakeAnswer` or
`RefuseAnswer`, and anything may happen in between. `AnswerOnce` is what
clients are promised: one verdict per interaction, and a client that is told
its answer was taken gave it. `Interactions` implements it.

### Getting in

`Access` holds the access token, browser bindings and sessions and workspace
grants, with a clock. `ConfigLayers` is the resolution of the configuration
layers as operators in the shape of the code (merge of neighbours, lowest
first), and beside it a reference that says of each key by itself what LR-R9 of
`docs/specs/local-runtime/requirements.md` says: the highest value counts, an
explicit null at any place deletes what is below it (it splits the layers of a
key into segments), values that no null separates must be of one type, and
objects follow the same rule key by key. The code does otherwise in one case:
an object that meets no object below it is copied as it is, with the nulls in
it, and a copied null is a value of type null. `CopiesNull` says when that
happens, and the comparison is made for all other layers.

`Admission` is the way of a request: authentication, the turn in the create
queue, the grant, the directory, the configuration, the first runtime with its
probing and disposal, the checks of resume and extensions, the records, and the
second runtime with the run. A discovery goes the same way without a turn. The
listing of all adapters opens one runtime for each of them at once; each of its
branches is a discovery here, and any number of discoveries run together.
`h[r]` is the request's handler with the two runtimes it has opened.

### The process

`ManagedRuntime` has any number of managers (a call of `startManagedRuntime`
with its `close`), each with a runtime process. `parent[m]` and `child[m]` are
where the SDK and the runtime's `main` stand; they share `rootExists` and
`descriptor` and the `signals`. Crashes, hangs, failing kills and the errors
that `removeOwnedDescriptor` throws are faults; the last skip the removal of the
root that comes after it, and a `close` rejects. A manager may own a temporary
root or share one it was given. `overlapped` is a history variable: the managers
whose root was in use when another began.

### Instances and mutants

The `MC` modules give the constants of the instances. The state machines hold
mutated forms of a few operators ("Mutant:"), each a plausible bug of the code
that one of the properties must catch; `PROJECT.json` pairs them. The modules
whose name ends in `Proofs` hold the theorems.

## What is checked

| configuration | shows | bounds |
|---|---|---|
| `EventHub.cfg` | a client gets the run from its first event, in order, and misses no event but one whose own append failed after its line was written (`ReceivedInOrder`); only persisted events (`DeliveredIsPersisted`); a generator that sleeps has an empty queue and was told of nothing (`NoMissedWakeUp`); at the end of the run live connections are closed, with the same exception (`ClosedAtTheEnd`); a client that reconnects gets the whole run, unless it sleeps through a terminal event whose append failed (`EventuallyComplete`) | 1 client, queue of 3, 6 events, 3 faults |
| `RunSupervisor.cfg` | the run limit, one run per session, one start per idempotency key, released runs are recorded, sessions are not left running, final terminal states, the run timer and shutdown end the streams they reach (`StreamingRunsEnd`) | 2 runs, 2 sessions, limit 1, 1 key, 1 lost failure |
| `StateStore.cfg` | logs stay readable (`LogIsReadable`), a terminal status stands for the terminal event in the log (`StatusFollowsLog`) and is final (`StatusIsFinal`), recovery leaves no unfinished run behind (`NoneLeftBehind`) and closes what it began with (`RecoverySettlesRuns`), nothing acknowledged is lost (`ImplementsDurableLog`) | 2 runs, 2 sessions, 2 events before the terminal one, 2 crashes, 1 failing operation |
| `AdapterRuntimes.cfg` | a CodeBuddy run has its terminal event once and at the end (`OneTerminalAtTheEnd`); settles each tool before it, except when the vendor's stream ends without a result (`ToolsSettledBeforeTheEnd`); leaves no interaction open after a cancel, disposal or deadline, no call registered once the generator is done, and no call with an id of its own unanswered, except one made after the `finally` (`NobodyIsLeftWaiting`); ends whatever the vendor does (`RunsEnd`); both adapters behind the managed run implement `RunStream`, which orders the start, the interactions and the end, not the tools | 2 tools, 3 permission calls (1 with an id, 2 without), 2 things the vendor does or, of a vendor that only calls, all 3 calls; every scenario of the reference adapter |
| `Interactions.cfg` | one verdict per interaction and the truth about every answer (`ImplementsAnswerOnce`), pending entries that can be answered and go with their run (`PendingIsAnswerable`), no race of client, timer and cancel fails a run (`RacesDoNotFailRuns`), a visible interaction gets a verdict (`InteractionsAreSettled`) | 2 runs, 2 request ids of which one is used by both runs, 2 calls of clients, 2 interactions, 4 choices of policies |
| `ManagedRuntime.cfg` | no orphan (`NoOrphan`), an honest `close` (`CloseTellsTheTruth`), what a start or close may leave behind (`WhatIsLeftBehind`), a runtime keeps its descriptor while managers of one root come one after another (`DescriptorKept`), starts and closes end (`StartsAndClosesEnd`) | 2 managers, own or shared root, 1 fault, both platforms |
| `Admission.cfg` | an ended grant admits no run (`EndedGrantAdmitsNoRun`), runtimes are disposed (`RuntimesAreDisposed`), turns are taken one at a time (`TurnsAreTaken`), access needs the token or a session that lasts and came from a binding of one's own (`AccessIsBound`), the configuration is LR-R9's unless an object is copied with a null in it (`ConfigIsTheReference`) | 2 requests, 1 grant, 1 binding, 2 browser sessions, 2 origins of which one may use the token, 3 sets of layers over 5 scopes with 2 keys and 2 inner keys, 3 instants; requests and sessions are symmetric |
| `EventHubCleanEndIsComplete.cfg` | expected violation: a stream ends normally without the terminal event | 1 client |
| `EventHubEachEventOnce.cfg` | expected violation: a client that resumes from an event is handed it again | 1 client, 1 cut connection |
| `RunSupervisorCancelEndsRun.cfg` | expected violation: a run cancelled while its adapter starts runs on | 1 run |
| `StateStoreRestartSettlesRuns.cfg` | expected violation: a directory without its JSON file stops every restart | 1 crash |
| `CodeBuddyRuntimeResolvedBeforeTheEnd.cfg` | expected violation: a run ends with an interaction open | 1 permission call |

The bounds are small and enough for the cases that matter. In the event hub a
queue of three holds more than one event while the history is replayed and
overflows with the fourth, so overflow, drain and broadcast meet in every order;
six events leave room for a history, a live part and a failure's own event after
an append that failed; three faults are a failing append, a cut connection and a
restart, in any order. One client is enough because no action of one reads a
variable of another; the proofs are for any number. For the supervisor a limit
of one is reached, and two sessions let one run drain or fail while the next is
created on the same or the other session; the proofs cover more runs and
generations. For the store, two crashes let recovery itself be cut off and
repeated, one failing operation meets a crash before or after it, and two runs
are executed together or one after the other. For the adapter, `MaxActivity`
counts what the vendor does of its own accord - messages, tools and permission
calls - and a vendor that has done nothing but call may make all three calls,
which is what the numbering of request ids needs to repeat a number: the
call with an id is answered between two calls without one, of which the first
stays open. Every stop,
answer, timer and vendor error may come at any step. For interactions, a
client's answer, another client's different answer, the timer, a cancel and the
policy meet on one interaction, and the shared id lets two runs meet in the maps
that are keyed by it alone. Two requests are enough for one to wait while the
other holds the queue; three instants are "before", "at" and "after" an expiry,
and a session made at the first ends before the token does. Of the three sets of
layers one has scopes that agree on a type until a third does not, one deletes
between and inside objects, and one copies a null. Two managers are one that
runs and one that comes to its root.

`MaxEvents`, `MaxFaults`, `MaxUnrecorded`, `MaxCrashes`, `MaxActivity`,
`MaxAsked`, `MaxCalls`, `MaxTime` and the finite sets of runs, requests and ids
are bounds of the model; `MaxBufferedEvents`, `MaxConcurrentRuns` and the
lifetimes are the code's. The proofs remove them for the modules they are
about. A scope has one layer in `ConfigLayers`, an object's members are not
objects themselves, and a layer's other fields are left out.

Deadlock is not checked where the model may stop: when the run, request or call
ids are used up, when runs, starts and closes are over, and when a run's failure
handling has failed too, after which nothing is published until a restart that
need not come.

Fairness. The event loop runs what is ready, so the steps of generators, of
`#execute` and of `publish` are weakly fair. In `EventHub` a client that is away
and misses events reconnects (the property is about such clients), and the run's
stream ends, by itself or by its timeout; no restart is fair there, so of a run
whose failure handler failed too `EventuallyComplete` says nothing. In
`RunSupervisor` the run timer and the grace period expire, `startRun` answers,
and a runtime that was told to stop ends its stream, as
`docs/architecture/adapter-protocol.md` requires; nothing else of an adapter is
fair there. In `StateStore` only the steps of `initialize` are fair, and the
start of a process after a crash with them. In `CodeBuddyRuntime` the run timer
fires, the vendor's stop returns (the adapter bounds it) and the generator and
its consumer go on; the vendor owes nothing. The reference adapter is pulled by
its consumer. In `Interactions` an adapter gets to the answers it is given and
timers fire; clients owe nothing. In `ManagedRuntime` the host's event loop and
timers run and nothing is assumed of the runtime. `Admission` states no
liveness: `capabilities()` may never answer, nothing in the code bounds it, and
with it the create queue of all sessions stands still.

## Disagreements between code and documents

Five runs show the code doing what a document or an assertion of the code rules
out; `PROJECT.json` quotes the lines under "findings".

1. When the terminal event is recorded between the read of the history and the
   metadata check, the stream ends normally without it and drops its queue. A
   client that reconnects recovers (`EventuallyComplete`); one that takes a
   normal end for the end of the run does not.
2. A cancel during `startRun` is lost, with the run timeout and the cancel of
   shutdown after it.
3. A crash between `mkdir` and the first `session.json` or `run.json` leaves a
   directory that makes `initialize` reject from then on, so that no unfinished
   run of any session is closed. This is why `RecoverySettlesRuns` speaks of a
   recovery that has begun.
4. A vendor error, result or end of stream while a client is asked ends a
   CodeBuddy run with the interaction open. The managed run takes that for a
   protocol error, so the run fails with another code than the vendor's. This
   is why `RunStream` is implemented only behind the managed run.
5. A client that loses its connection after it read an event from the history,
   and before that event was broadcast, resumes from it and is handed it again:
   the new connection has nothing to replay, so its last sequence is 0. The
   requirement (resume after the confirmed event), the comment at `event-hub.ts`
   86-89 and the test "without duplicates" say that it is not.
   `RepeatsOnlyTheCursor`, which is proved, says that there is no other repeat.

### Known divergences, delimited by passing properties

The code departs from a document here too. A passing property has each as its
exception, by name, and so says that there is no further case of the kind.

* An append that writes its line and then fails in `sync` or `close`
  (`local-state-store.ts` 156-163) leaves its event in the log and unannounced.
  A live client goes on with the next event, which is the failure's, and skips
  one; when the terminal event is the one, `#finishWithFailure` only applies it
  to the metadata, and a live connection stays open and silent until it is cut.
  `docs/specs/local-runtime/design.md` has each event persisted and then
  broadcast (203) and the stream closed after the terminal event (236).
  Exceptions of `ReceivedInOrder`, `ClosedAtTheEnd` and `EventuallyComplete`
  (`unannounced`, `Stranded`).
* A start that is refused before it spawns its runtime, by an error of the file
  system or a batch launcher without its script, leaves the temporary root it
  made: lines 61 to 72 of `managed-runtime.ts` are outside the `try`.
  `docs/specs/managed-local-runtime/design.md` 57 has it removed on close or
  when a start fails. `WhatIsLeftBehind` says that such a start always leaves
  it.
* A null inside an object that meets no object below it is copied as a value of
  type null, so that it conflicts with a higher value of another type, where
  LR-R9 (`docs/specs/local-runtime/requirements.md` 92) has an explicit null
  delete. The premise `~CopiesNull` of `ConfigIsTheReference`.

## Behaviours to know

The models contain these too. Nothing documented rules them out plainly, or a
property names them as its exception, so there is no run of their own.

* A `createRun` in flight starts its run after `shutdown` has returned.
* A crash between the `run.json` and the `session.json` of a terminal event
  leaves the session running: recovery passes over runs that are terminal. A
  second crash inside recovery leaves the status that the first one's event
  gives.
* A loop that fails after its run was released applies the terminal event again
  and may overwrite the `lastRun` of a session that has gone on.
* Recorded responses and pending interactions are keyed by request id alone: an
  id that two runs use is refused to the second, fails its run, or answers it
  with the first one's record. The promises of `Interactions` are about ids of
  one run.
* A run whose policy decides by itself fails, instead of ending as cancelled,
  when a cancel resolved the interaction before the decision arrived.
* CodeBuddy permission calls without an id are numbered by how many are pending,
  so a number can repeat: the managed run refuses the second request
  (`RunStreamsAreImplemented` is checked with such a collision), its entry
  replaces the first one's, and the first call is never answered. Nor is a
  `canUseTool` call after the run's `finally`. `NobodyIsLeftWaiting` excludes
  both, so it does not say that every call gets an answer.
* When the vendor's stream ends without a result the tools that run are not
  settled; on every other path they are, the watchdog's authentication timeout
  included.
* The reference adapter loses a cancel or dispose that comes before it asks.
  `RunsEnd` is about waits that were told to end, so such a run is outside it.
* A grant is checked when the createRun has its turn, not when the run starts.
* The supervisor never tells the permission engine whether a tool stays in the
  workspace, so under auto-edit every edit is asked about (`UnknownPlaceThm`).
* Two starts on one root at the same time race for its descriptor.
  `DescriptorKept` is about managers that come one after another.
* `removeOwnedDescriptor` throws on any error but ENOENT. The removal of an
  owned root comes after it in the same `finally` block and is skipped, and the
  `close` rejects. In a failing start the error of the root's removal takes the
  place of the start's.
* A start that fails after its runtime wrote the descriptor leaves it in a root
  that it was given, and every later start on that root is refused until
  somebody removes it. A failed kill reported by an `error` event counts as the
  child's exit. `health()` is not covered by the start's timeout.

## What is proved

`EventHubProofs` proves the safety properties of `EventHub.cfg` for any set of
clients, queue bound, run length and number of faults. The invariant says, for
each position of a generator, what its last sequence and its snapshot are worth,
that its queue grows and skips only unannounced events, that between what
history will cover and the head of the queue there are only such events
(`QueueInv`), and that between the last queued event and the last broadcast one
there are only such events too: the hand-over property is not inductive without
the position of the broadcast loop. An append that fails after its line adds its
event to `unannounced` in the same step, which is why all of this survives it.
`RepeatThm` is about `RepeatsOnlyTheCursor`, which no run checks.

`RunSupervisorProofs` proves the safety properties of `RunSupervisor.cfg` for
any sets of runs, sessions and keys, any limit of at least one and any number of
failing writes. `Admission` in its invariant adds to the limits that at most one
call is under creation and that what it checked still holds (`StillAdmissible`):
between its checks and its activation other runs can only leave. `Recording`
says for each step of `#execute` what is in the log and in `run.json`;
`SessionInv` and `DisposingInv` say which run a running session names.

`StateStoreProofs` proves the safety properties of `StateStore.cfg`, the action
property and the refinement of `DurableLog`, for any sets of runs and sessions
and any number of crashes and failing operations. The conjuncts of the invariant
are what a step may rely on: `LogInv`, `RecoveryInv` and `ExecutionInv` (what is
already in the log and in `run.json` at each step of recovery and execution),
`PlaceInv` and `ProcessInv`. `StatusFollowsLog` is not inductive without the
steps, since a status is written one step after the event it stands for. The
central lemma, `AppendReadable`, says that a readable log takes one more event
that passed the checks of `appendEvent`.

`AdmissionProofs` proves all properties of `Admission.cfg`, for any requests,
grants, bindings, sessions, lifetimes and layers. A grant that a request names
has been issued (`GrantInv`), and what was issued once is never issued again, so
that it has ended stays true; `HandlerInv` says at which steps a runtime may be
open; `QueueInv` says that the queue holds each pending createRun once and that
only its first has begun, so that whoever leaves is the first. A second
invariant, `ConfigInv`, says that a request goes on, from its check to the end
of its run, with what the layers give for the scopes it asked for. Each step
either keeps the configuration or computes it (`Keeps`), and `ReferenceThm`
below turns what was computed into the documented order: that is
`ConfigIsTheReference`, and `RunConfigThm` says the same of the runtime of the
run; both have `~CopiesNull` as their premise.

`ManagedRuntimeProofs` proves the safety properties of `ManagedRuntime.cfg` for
any number of managers on any roots and any number of faults. `StoppedInv` says
that whoever is past termination has seen an outcome or given up; `LeftInv` that
what is there after a cleanup that did not throw was written after it, by a
runtime that was not stopped, and that a start which spawned nothing has its
temporary root, which makes the two sides of `WhatIsLeftBehind`; `AloneInv` that
managers of one root that come one after another do not get past the look for a
descriptor while there is one.

`PolicyProofs` is about operators: what the permission engine allows and denies
for every name, risk and place; that the enforced layer has the last word; that
a layer that was not selected has none; that a credential is the one the highest
layer names. `ReferenceThm` says that the merge of the layers, which goes
through the scopes and merges objects as it goes, is `ReferenceConfig`, LR-R9's
rule, which looks at all the scopes of a key at once, unless an object is copied
with a null in it (`CopiesNull`). The proof adds one scope above the others at a
time. What it can change is the part of a column that no tombstone hides
(`Open`); a scope with a value joins it, a tombstone closes it, and the segments
further down stay as they are (`SegmentKept`, `SegmentJoined`). So the addition
of a scope is shown to be one merge for the types (`DisagreeAdd`), the value
that counts (`HighestAdd`), one key of the objects of a segment (`SubValueAdd`),
the objects (`ObjectAdd`), a key (`ReferenceAdd`) and the configuration
(`ConfigAdd`). It is about objects whose members are scalars, as the model has
them: `mergeObjects` calls itself for deeper ones, and an induction over their
depth is out of the prover's reach.

`AdapterRuntimesProofs` proves the safety properties of `AdapterRuntimes.cfg`
and, for both adapters, the refinement of `RunStream`, for any tools, any finite
set of calls and any length of the vendor's stream and of a text. None of the
properties of the stream is inductive without the others. `BeginInv` and
`OverInv` tie the terminal event to the producer and the generator: the producer
is not done, and the generator is not past its queue, without it. `StreamInv`
and `ToolInv` say what the events are about: a tool that runs has its start in
the stream and not its end, one that is settled has both, in that order.
`PendingInv` gives each call that waits an entry of its own id, and `ResolveInv`
says that a requested interaction is resolved or still has its entry, which is
why clearing the entries leaves no request open; `OrphanInv` that a call with an
id of its own is orphaned only after the generator's end, since no numbered id
is one. `CoreInv` says what the managed run knows: it is a function of the part
of the stream that it has passed on (`OpenIn`). With it every step of `#iterate`
is a step of `RunStream` that publishes one event, and every other step a
stutter. `RunStream` says nothing of the order of tool events; that is `ToolInv`
and `ToolsThm`, of the CodeBuddy adapter. The reference adapter is one script
for each scenario, so `ReferenceInv` is about the position in it.

`InteractionsProofs` proves the safety properties of `Interactions.cfg` and the
refinement of `AnswerOnce` for any runs, request ids, policies and clients'
calls. `OutboxInv` says of the events that the loop has not read that each
interaction is requested once and before it is pending, and resolved once and
after it was closed: so the managed run admits whatever it is handed, and only a
decision of the policy that meets a cancel fails a run. `ShownInv` is
`PendingIsAnswerable` with the steps of the loop: an interaction is pending from
the moment its request is in hand. `RecordInv` and `WaitingInv` say that a
recorded response is the one in progress or the one that the adapter was given,
which is why a call that waits is told the truth; `VerdictInv` that the answer
given is the verdict. Interactions whose request id two runs share are outside
of these properties, and `PrivateOwner` shows that their clearing leaves the
others alone.

The proofs assume of the constants only the named assumptions of the modules,
which TLC evaluates for the instances: that values are distinct, that bounds are
numbers, and, for `ReferenceThm`, that a scalar is of no type that objects and
null have (`KindsAreJson`, which is `jsonKind`). Every invariant, safety action
property and refinement that a passing run checks is a theorem. Only
model-checked is liveness, one property of each of the passing runs but
`admission` (`EventuallyComplete`, `StreamingRunsEnd`, `RecoverySettlesRuns`,
`RunsEnd`, `InteractionsAreSettled`, `StartsAndClosesEnd`): the prover reasons
neither about fairness nor about ENABLED.

## Not modelled

The command line client, the SDK's HTTP plumbing, the schemas of the contracts,
redaction, the sidecar proposal and the build and release scripts hold no state
of their own whose order matters. `readConfigLayer` and the discovery of
extensions read files once; file permissions, hashing, secrets and path
canonicalisation belong to the platform. The vendor's SDK is an environment.
`readEvents` of a client while the same run appends is not a step of
`StateStore`: its repair of the tail could meet the line that is being written.
The listings and the inspection routes only read or delegate.
