--------------------------- MODULE RunSupervisor ---------------------------
(***************************************************************************)
(* The run supervisor of the local runtime: admission of runs (createRun), *)
(* the execution of each run (#execute, #updateFromEvent,                  *)
(* #finishWithFailure, #releaseActive), cancellation, the run timeout and  *)
(* shutdown.  The adapter of a run, seen through its ManagedRunController, *)
(* is an environment that emits events, fails and reacts to cancel and     *)
(* dispose.                                                                *)
(*                                                                         *)
(* A step is what runs between two awaits.  A run's log is abstracted to   *)
(* what the supervisor branches on: empty, open, or its terminal event.    *)
(***************************************************************************)
EXTENDS Naturals, FiniteSets

CONSTANTS Runs,               \* run ids that may be generated
          Sessions,           \* the sessions of the store
          Keys,               \* idempotency keys of the clients
          NoRun, NoSession, NoKey,
          MaxConcurrentRuns,  \* #maxConcurrentRuns
          MaxUnrecorded       \* model bound: runs whose #finishWithFailure fails

ASSUME ConcurrencyAssumption == MaxConcurrentRuns \in Nat \ {0}
ASSUME UnrecordedAssumption == MaxUnrecorded \in Nat
ASSUME NoRunAssumption == NoRun \notin Runs
ASSUME NoSessionAssumption == NoSession \notin Sessions
ASSUME NoKeyAssumption == NoKey \notin Keys

VARIABLES
  accepting,      \* #acceptingRuns
  shutdown,       \* where shutdown() stands (ShutdownSteps)
  active,         \* the keys of #activeRuns
  activeOf,       \* session -> its entry in #activeSessionRuns
  step,           \* run -> where its creation or its #execute stands (Steps)
  sessionOf,      \* run -> the session of its request
  keyOf,          \* run -> the idempotency key of its request
  finishing,      \* run -> #finishWithFailure has taken over
  adapter,        \* run -> its adapter behind the controller (AdapterSteps)
  cancelReason,   \* run -> active.cancelReason is set
  log,            \* run -> its event log (Logs)
  runStatus,      \* run -> status in run.json
  sessionStatus,  \* session -> status in session.json
  lastRun,        \* session -> lastRunId in session.json
  unrecorded      \* the runs whose #finishWithFailure failed too

admission == <<accepting, shutdown, active, activeOf>>
request == <<sessionOf, keyOf>>
control == <<finishing, adapter, cancelReason>>
stored == <<log, runStatus, sessionStatus, lastRun>>
vars == <<admission, step, request, control, stored, unrecorded>>

ShutdownSteps == {"off", "grace", "disposing", "returned"}

\* unused, resolving, stored and orphan are steps of createRun, the others of
\* #execute: starting awaits startRun, streaming the next event, appended and
\* runUpdated are in the afterPersist callback of an event, failing is at the
\* head of #finishWithFailure, draining awaits the end of the stream after its
\* terminal event, disposing is the finally block.
Creating == {"resolving", "stored"}
Executing == {"starting", "streaming", "appended", "runUpdated", "failing", "draining", "disposing"}
Steps == {"unused", "orphan", "gone"} \cup Creating \cup Executing

\* deaf: its runtime runs, and the one cancel of its controller was spent before
\* the runtime had started (ManagedAdapterRun.#cancelPromise).
AdapterSteps == {"idle", "running", "deaf", "stopping", "ended"}

\* over: run.completed or run.cancelled, which the supervisor treats alike.
Terminals == {"over", "failed"}
Logs == {"empty", "open"} \cup Terminals
Statuses == {"queued", "running"} \cup Terminals

TypeOK ==
  /\ accepting \in BOOLEAN
  /\ shutdown \in ShutdownSteps
  /\ active \subseteq Runs
  /\ activeOf \in [Sessions -> Runs \cup {NoRun}]
  /\ step \in [Runs -> Steps]
  /\ sessionOf \in [Runs -> Sessions \cup {NoSession}]
  /\ keyOf \in [Runs -> Keys \cup {NoKey}]
  /\ finishing \in [Runs -> BOOLEAN]
  /\ adapter \in [Runs -> AdapterSteps]
  /\ cancelReason \in [Runs -> BOOLEAN]
  /\ log \in [Runs -> Logs]
  /\ runStatus \in [Runs -> Statuses]
  /\ sessionStatus \in [Sessions -> {"idle", "running", "failed"}]
  /\ lastRun \in [Sessions -> Runs \cup {NoRun}]
  /\ unrecorded \subseteq Runs

Init ==
  /\ accepting = TRUE
  /\ shutdown = "off"
  /\ active = {}
  /\ activeOf = [s \in Sessions |-> NoRun]
  /\ step = [r \in Runs |-> "unused"]
  /\ sessionOf = [r \in Runs |-> NoSession]
  /\ keyOf = [r \in Runs |-> NoKey]
  /\ finishing = [r \in Runs |-> FALSE]
  /\ adapter = [r \in Runs |-> "idle"]
  /\ cancelReason = [r \in Runs |-> FALSE]
  /\ log = [r \in Runs |-> "empty"]
  /\ runStatus = [r \in Runs |-> "queued"]
  /\ sessionStatus = [s \in Sessions |-> "idle"]
  /\ lastRun = [s \in Sessions |-> NoRun]
  /\ unrecorded = {}

\* A run that #execute was called for, now or earlier.
Started(r) == step[r] \in Executing \cup {"gone"}

\* Mutant: a key is forgotten when its run is released.
RememberedWhileActive(s, k) ==
  {r \in active : k # NoKey /\ sessionOf[r] = s /\ keyOf[r] = k}

\* The run an idempotency key of a session stands for (#idempotency).
Remembered(s, k) == {r \in Runs : Started(r) /\ k # NoKey /\ sessionOf[r] = s /\ keyOf[r] = k}

-----------------------------------------------------------------------------
(* createRun.  One call at a time is between its first check and its end:  *)
(* #serializeCreate chains them.                                           *)

CreateQueueFree == \A r \in Runs : step[r] \notin Creating

\* Mutant: the comparison lets one run too many in.
BelowLimitOffByOne == Cardinality(active) <= MaxConcurrentRuns

\* The run limit is compared when the call starts, before its awaits.
BelowLimit == Cardinality(active) < MaxConcurrentRuns

\* The checks before the first await; a repeated key returns the remembered run
\* and a failed check an error, neither changes anything.
BeginCreate(r, s, k) ==
  /\ step[r] = "unused" /\ CreateQueueFree
  /\ Remembered(s, k) = {}
  /\ accepting
  /\ activeOf[s] = NoRun
  /\ BelowLimit
  /\ step' = [step EXCEPT ![r] = "resolving"]
  /\ sessionOf' = [sessionOf EXCEPT ![r] = s]
  /\ keyOf' = [keyOf EXCEPT ![r] = k]
  /\ UNCHANGED <<admission, control, stored, unrecorded>>

\* The workspace grant, the configuration, the capabilities, the extensions or
\* the store refuse the run.
RejectCreate(r) ==
  /\ step[r] = "resolving"
  /\ step' = [step EXCEPT ![r] = "unused"]
  /\ sessionOf' = [sessionOf EXCEPT ![r] = NoSession]
  /\ keyOf' = [keyOf EXCEPT ![r] = NoKey]
  /\ UNCHANGED <<admission, control, stored, unrecorded>>

\* store.createRun: run.json says queued, the log is empty.
StoreRun(r) ==
  /\ step[r] = "resolving"
  /\ step' = [step EXCEPT ![r] = "stored"]
  /\ UNCHANGED <<admission, request, control, stored, unrecorded>>

\* store.updateSession fails: the stored run stays queued and is never executed.
OrphanRun(r) ==
  /\ step[r] = "stored"
  /\ step' = [step EXCEPT ![r] = "orphan"]
  /\ UNCHANGED <<admission, request, control, stored, unrecorded>>

\* store.updateSession has been done: the run becomes active and #execute starts.
Activate(r) ==
  /\ step[r] = "stored"
  /\ step' = [step EXCEPT ![r] = "starting"]
  /\ active' = active \cup {r}
  /\ activeOf' = [activeOf EXCEPT ![sessionOf[r]] = r]
  /\ sessionStatus' = [sessionStatus EXCEPT ![sessionOf[r]] = "running"]
  /\ lastRun' = [lastRun EXCEPT ![sessionOf[r]] = r]
  /\ UNCHANGED <<accepting, shutdown, request, control, log, runStatus, unrecorded>>

-----------------------------------------------------------------------------
(* Cancellation.                                                           *)

\* controller.cancel: the first call reaches the runtime, which ignores it
\* unless its stream has started; later calls return the first one's promise.
Cancelled(a) == IF a = "running" THEN "stopping" ELSE a

\* Mutant: a controller whose cancel was spent is not disposed.
DisposedUnlessCancelled(a) == Cancelled(a)

\* controller.dispose, which every runtime obeys.
Disposed(a) == IF a \in {"running", "deaf"} THEN "stopping" ELSE a

\* cancelRun of a run that is not terminal and active, called by a client or by
\* the run timer.  When cancelReason is set the controller has been cancelled or
\* will be by StartRun, and another call changes nothing; when the adapter has
\* ended nobody reads the reason.
CancelRun(r) ==
  /\ r \in active
  /\ runStatus[r] \notin Terminals
  /\ ~cancelReason[r] /\ adapter[r] # "ended"
  /\ cancelReason' = [cancelReason EXCEPT ![r] = TRUE]
  /\ adapter' = [adapter EXCEPT ![r] = Cancelled(@)]
  /\ UNCHANGED <<admission, step, request, finishing, stored, unrecorded>>

-----------------------------------------------------------------------------
(* #execute.                                                               *)

\* Mutant: the session's entry is deleted whichever run it names.
ReleasedAnyway(r) == [activeOf EXCEPT ![sessionOf[r]] = NoRun]

\* #releaseActive: entries that belong to another run stay.
ReleasedSession(r) == [s \in Sessions |-> IF activeOf[s] = r THEN NoRun ELSE activeOf[s]]

Release(r) ==
  /\ active' = active \ {r}
  /\ activeOf' = ReleasedSession(r)
  /\ shutdown' = IF active' = {} /\ shutdown \in {"grace", "disposing"} THEN "returned" ELSE shutdown
  /\ UNCHANGED accepting

\* adapters.startRun has answered.  A cancel that came meanwhile is passed on
\* before the stream is iterated, and is spent on a runtime that has not started.
StartRun(r) ==
  /\ step[r] = "starting"
  /\ step' = [step EXCEPT ![r] = "streaming"]
  /\ adapter' = [adapter EXCEPT ![r] = IF cancelReason[r] THEN "deaf" ELSE "running"]
  /\ UNCHANGED <<admission, request, finishing, cancelReason, stored, unrecorded>>

StartFails(r) ==
  /\ step[r] = "starting"
  /\ step' = [step EXCEPT ![r] = "failing"]
  /\ finishing' = [finishing EXCEPT ![r] = TRUE]
  /\ adapter' = [adapter EXCEPT ![r] = "ended"]
  /\ UNCHANGED <<admission, request, cancelReason, stored, unrecorded>>

\* An event that is not terminal is appended; a runtime told to stop emits none
\* after run.started.
Emit(r) ==
  /\ step[r] = "streaming"
  /\ adapter[r] \in {"running", "deaf"} \/ log[r] = "empty"
  /\ log' = [log EXCEPT ![r] = "open"]
  /\ step' = [step EXCEPT ![r] = "appended"]
  /\ UNCHANGED <<admission, request, control, runStatus, sessionStatus, lastRun, unrecorded>>

\* The terminal event is appended.
EmitTerminal(r, t) ==
  /\ step[r] = "streaming"
  /\ log[r] = "open"
  /\ log' = [log EXCEPT ![r] = t]
  /\ adapter' = [adapter EXCEPT ![r] = "ended"]
  /\ step' = [step EXCEPT ![r] = "appended"]
  /\ UNCHANGED <<admission, request, finishing, cancelReason, runStatus, sessionStatus,
                 lastRun, unrecorded>>

\* The stream throws, breaks the protocol, or its event cannot be appended: the
\* managed run disposes of the runtime on the way out.
StreamFails(r) ==
  /\ step[r] = "streaming"
  /\ step' = [step EXCEPT ![r] = "failing"]
  /\ finishing' = [finishing EXCEPT ![r] = TRUE]
  /\ adapter' = [adapter EXCEPT ![r] = "ended"]
  /\ UNCHANGED <<admission, request, cancelReason, stored, unrecorded>>

\* Mutant: only a failure changes the status of the session.
SessionStatusOfFailure(entry) == IF entry = "failed" THEN "failed" ELSE "running"

StatusOf(entry) == IF entry \in Terminals THEN entry ELSE "running"
SessionStatusOf(entry) ==
  IF entry \notin Terminals THEN "running" ELSE IF entry = "failed" THEN "failed" ELSE "idle"

\* #updateFromEvent, first write: run.json.
UpdateRun(r) ==
  /\ step[r] = "appended"
  /\ runStatus' = [runStatus EXCEPT ![r] = StatusOf(log[r])]
  /\ step' = [step EXCEPT ![r] = "runUpdated"]
  /\ UNCHANGED <<admission, request, control, log, sessionStatus, lastRun, unrecorded>>

\* #updateFromEvent, second write: session.json; then the run is released if
\* its stream has published the terminal event, and the event is broadcast.
UpdateSession(r) ==
  /\ step[r] = "runUpdated"
  /\ sessionStatus' = [sessionStatus EXCEPT ![sessionOf[r]] = SessionStatusOf(log[r])]
  /\ lastRun' = [lastRun EXCEPT ![sessionOf[r]] = r]
  /\ step' = [step EXCEPT ![r] =
                IF log[r] \in Terminals
                THEN IF finishing[r] THEN "disposing" ELSE "draining"
                ELSE IF finishing[r] THEN "failing" ELSE "streaming"]
  /\ IF log[r] \in Terminals /\ ~finishing[r] THEN Release(r) ELSE UNCHANGED admission
  /\ UNCHANGED <<request, control, log, runStatus, unrecorded>>

CanLose == Cardinality(unrecorded) < MaxUnrecorded

\* Mutant: the failed write of an event of the stream is ignored.
UpdateFailsSwallowed(r) ==
  /\ step[r] \in {"appended", "runUpdated"}
  /\ step' = [step EXCEPT ![r] = IF log[r] \in Terminals THEN "draining" ELSE "streaming"]
  /\ UNCHANGED <<admission, request, control, stored, unrecorded>>

\* A write of #updateFromEvent fails.  For an event of the stream the failure is
\* handled by #finishWithFailure, one of #finishWithFailure itself is swallowed.
UpdateFails(r) ==
  /\ step[r] \in {"appended", "runUpdated"}
  /\ IF finishing[r]
     THEN /\ CanLose
          /\ unrecorded' = unrecorded \cup {r}
          /\ step' = [step EXCEPT ![r] = "disposing"]
          /\ UNCHANGED <<finishing, adapter>>
     ELSE /\ step' = [step EXCEPT ![r] = "failing"]
          /\ finishing' = [finishing EXCEPT ![r] = TRUE]
          /\ adapter' = [adapter EXCEPT ![r] = "ended"]
          /\ UNCHANGED unrecorded
  /\ UNCHANGED <<admission, request, cancelReason, stored>>

\* Mutant: #finishWithFailure does not look for a terminal event in the log.
FailureEventBlind(entry) == IF entry = "empty" THEN "open" ELSE "failed"

\* What #finishWithFailure has the log end with: a persisted terminal event is
\* applied again, an empty log gets run.started first, an open one run.failed.
FailureEvent(entry) ==
  IF entry \in Terminals THEN entry ELSE IF entry = "empty" THEN "open" ELSE "failed"

FinishWithFailure(r) ==
  /\ step[r] = "failing"
  /\ log' = [log EXCEPT ![r] = FailureEvent(@)]
  /\ step' = [step EXCEPT ![r] = "appended"]
  /\ UNCHANGED <<admission, request, control, runStatus, sessionStatus, lastRun, unrecorded>>

\* The append of #finishWithFailure fails, or the log it reads is taken for
\* empty and the store refuses a second first event.
FinishFails(r) ==
  /\ step[r] = "failing"
  /\ CanLose
  /\ unrecorded' = unrecorded \cup {r}
  /\ step' = [step EXCEPT ![r] = "disposing"]
  /\ UNCHANGED <<admission, request, control, stored>>

\* The stream is over after its terminal event.
EndStream(r) ==
  /\ step[r] = "draining"
  /\ step' = [step EXCEPT ![r] = "disposing"]
  /\ UNCHANGED <<admission, request, control, stored, unrecorded>>

\* The runtime emits another event or its disposal is rejected: the loop throws
\* after the run was released.
EndStreamFails(r) ==
  /\ step[r] = "draining"
  /\ step' = [step EXCEPT ![r] = "failing"]
  /\ finishing' = [finishing EXCEPT ![r] = TRUE]
  /\ UNCHANGED <<admission, request, adapter, cancelReason, stored, unrecorded>>

\* The finally block: the controller is disposed, the run released (again).  Its
\* ActiveRun record is out of reach then, and its fields are cleared here.
Dispose(r) ==
  /\ step[r] = "disposing"
  /\ step' = [step EXCEPT ![r] = "gone"]
  /\ Release(r)
  /\ finishing' = [finishing EXCEPT ![r] = FALSE]
  /\ adapter' = [adapter EXCEPT ![r] = "ended"]
  /\ cancelReason' = [cancelReason EXCEPT ![r] = FALSE]
  /\ UNCHANGED <<request, stored, unrecorded>>

-----------------------------------------------------------------------------
(* shutdown.                                                               *)

\* shutdown(): no more runs are accepted and every active run is cancelled.
Shutdown ==
  /\ shutdown = "off"
  /\ accepting' = FALSE
  /\ cancelReason' = [r \in Runs |-> cancelReason[r] \/ (r \in active /\ adapter[r] # "ended")]
  /\ adapter' = [r \in Runs |-> IF r \in active THEN Cancelled(adapter[r]) ELSE adapter[r]]
  /\ shutdown' = IF active = {} THEN "returned" ELSE "grace"
  /\ UNCHANGED <<active, activeOf, step, request, finishing, stored, unrecorded>>

\* The grace period is over: what has a controller is disposed, and shutdown
\* waits once more.
GraceExpires ==
  /\ \/ /\ shutdown = "grace"
        /\ shutdown' = "disposing"
        /\ adapter' = [r \in Runs |-> IF r \in active THEN Disposed(adapter[r]) ELSE adapter[r]]
     \/ /\ shutdown = "disposing"
        /\ shutdown' = "returned"
        /\ UNCHANGED adapter
  /\ UNCHANGED <<accepting, active, activeOf, step, request, finishing, cancelReason, stored,
                 unrecorded>>

-----------------------------------------------------------------------------
Create(r) ==
  \/ \E s \in Sessions, k \in Keys \cup {NoKey} : BeginCreate(r, s, k)
  \/ RejectCreate(r) \/ StoreRun(r) \/ OrphanRun(r) \/ Activate(r)

\* What #execute does by itself, whatever the adapter does.
Proceed(r) == UpdateRun(r) \/ UpdateSession(r) \/ FinishWithFailure(r) \/ EndStream(r) \/ Dispose(r)

\* What the adapter's stream brings.
StreamSteps(r) == Emit(r) \/ StreamFails(r) \/ \E t \in Terminals : EmitTerminal(r, t)

Execute(r) ==
  \/ StartRun(r) \/ StartFails(r) \/ StreamSteps(r)
  \/ Proceed(r) \/ UpdateFails(r) \/ FinishFails(r) \/ EndStreamFails(r)

Next ==
  \/ \E r \in Runs : Create(r) \/ Execute(r) \/ CancelRun(r)
  \/ Shutdown \/ GraceExpires

Spec == Init /\ [][Next]_vars

\* The event loop runs what is ready; startRun answers; the run timer cancels; a
\* runtime that was told to stop ends its stream (adapter-protocol: cancel and
\* dispose are obeyed).  One that was not may run for ever.
FairSpec ==
  /\ Spec
  /\ \A r \in Runs :
       /\ WF_vars(Proceed(r))
       /\ WF_vars(StartRun(r) \/ StartFails(r))
       /\ WF_vars(adapter[r] = "stopping" /\ StreamSteps(r))
       /\ WF_vars(CancelRun(r))
  /\ WF_vars(GraceExpires)
-----------------------------------------------------------------------------
(* Properties.                                                             *)

\* However the awaits of createRun interleave with the runs that end and fail,
\* no more than #maxConcurrentRuns runs are active: the limit is checked before
\* the awaits and the run is added after them (createRun).
ConcurrencyBound == Cardinality(active) <= MaxConcurrentRuns

\* A session has at most one active run and #activeSessionRuns names it, although
\* a run is released twice and the session may have a new run when the second
\* release comes (createRun, #releaseActive).
OneRunPerSession ==
  /\ \A r \in active : activeOf[sessionOf[r]] = r
  /\ \A s \in Sessions : activeOf[s] # NoRun => activeOf[s] \in active /\ sessionOf[activeOf[s]] = s

\* Two requests of a session with one idempotency key never both start the
\* adapter, even when the first run ended long ago (createRun, #idempotency).
StartsOncePerKey ==
  \A r1, r2 \in Runs :
    Started(r1) /\ Started(r2) /\ keyOf[r1] # NoKey /\ keyOf[r1] = keyOf[r2] /\ sessionOf[r1] = sessionOf[r2]
      => r1 = r2

\* A run that is no longer active has its terminal event in the log and run.json
\* agrees with it, whichever write failed on the way, unless #finishWithFailure
\* failed too: who finds the session free finds the run ended (#execute).
ReleasedIsRecorded ==
  \A r \in Runs :
    Started(r) /\ r \notin active /\ r \notin unrecorded => log[r] \in Terminals /\ runStatus[r] = log[r]

\* session.json says running only while a run of the session is active, or when
\* the end of its last run could not be recorded (#updateFromEvent).
SessionNotStuck ==
  \A s \in Sessions : sessionStatus[s] = "running" => activeOf[s] # NoRun \/ lastRun[s] \in unrecorded

\* A terminal event is the last of its log and a terminal status stays, also when
\* a failure is handled after the terminal event (#finishWithFailure).
TerminalIsFinal ==
  [][\A r \in Runs :
       /\ log[r] \in Terminals => log'[r] = log[r]
       /\ runStatus[r] \in Terminals => runStatus'[r] = runStatus[r]]_vars

\* Streams end.  A run that reached its stream before anyone cancelled it is
\* released in the end: the run timer cancels it if nothing else does.  Shutdown
\* ends every run that is in its stream when the grace period begins, also one
\* that no cancel can reach: it is disposed (#runTimer, #execute, shutdown).
StreamingRunsEnd ==
  \A r \in Runs :
    /\ step[r] = "streaming" /\ ~cancelReason[r] ~> r \notin active
    /\ shutdown = "grace" /\ step[r] = "streaming" ~> r \notin active

\* What requirements.md LR-R5 says: a cancelled run ends.  The code spends the
\* cancel of a run that is still starting on a runtime that ignores it.
CancelEndsRun == \A r \in Runs : r \in active /\ cancelReason[r] ~> r \notin active
=============================================================================
