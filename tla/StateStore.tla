----------------------------- MODULE StateStore -----------------------------
(***************************************************************************)
(* The file store of the local runtime: the files a process leaves behind, *)
(* how the next one loads them, closes the runs that were cut off and goes *)
(* on.  The store is driven in the order in which run-supervisor.ts calls  *)
(* it; a process may crash between any two steps and in the middle of an   *)
(* append.                                                                 *)
(*                                                                         *)
(* A step is one file operation.  rename makes a JSON file appear at once, *)
(* so a crash before it leaves the old file; the temporary file it may     *)
(* leave behind is ignored by the loader.  The maps in memory hold what is *)
(* on disk whenever no write is on its way, so only their keys are state.  *)
(***************************************************************************)
EXTENDS Naturals, Sequences, FiniteSets

CONSTANTS Runs,        \* run ids
          Sessions,    \* session ids
          NoRun,
          MaxEvents,   \* model bound: events of a run's log before its terminal event
          MaxCrashes,  \* model bound: crashes
          MaxFaults    \* model bound: file operations that fail

ASSUME MaxEventsAssumption == MaxEvents \in Nat \ {0}
ASSUME MaxCrashesAssumption == MaxCrashes \in Nat
ASSUME MaxFaultsAssumption == MaxFaults \in Nat
ASSUME NoRunAssumption == NoRun \notin Runs

VARIABLES
  sessionPlace,   \* session -> how much of its directory exists (Places)
  sessionStatus,  \* session -> status in session.json
  lastRun,        \* session -> lastRunId in session.json
  runPlace,       \* run -> how much of its directory exists (Places)
  sessionOf,      \* run -> the session whose directory holds it
  runStatus,      \* run -> status in run.json
  log,            \* run -> the complete lines of events.jsonl (kinds of events)
  tail,           \* run -> events.jsonl ends with an incomplete line
  process,        \* where the process stands (Processes)
  knownSessions,  \* the keys of #sessions
  known,          \* the keys of #runs
  toRecover,      \* the rest of the loop of #recoverInterruptedRuns
  creating,       \* the sessions whose createSession is on its way
  step,           \* run -> what the process is doing with it (Steps)
  pending,        \* run -> the kind of the event being appended
  finishing,      \* run -> #finishWithFailure has taken over
  lost,           \* the runs this process gave up while their status was not final
  acked,          \* run -> how many events were acknowledged to the supervisor
  crashes, faults

disk == <<sessionPlace, sessionStatus, lastRun, runPlace, sessionOf, runStatus, log, tail>>
keys == <<knownSessions, known>>
work == <<creating, step, pending, finishing, lost>>
budget == <<crashes, faults>>
vars == <<disk, process, keys, toRecover, work, acked, budget>>

Places == {"none", "directory", "stored"}
Processes == {"down", "loading", "recovering", "up", "refused"}
Terminals == {"completed", "failed", "cancelled"}
Kinds == {"started", "event"} \cup Terminals
Statuses == {"queued", "running", "interrupted"} \cup Terminals
SessionStatuses == {"idle", "running", "failed"}

\* made, written and registered are steps of createRun; streaming awaits the
\* next event, appending is in appendEvent, appended and updated are in the
\* afterPersist callback, failing is at the head of #finishWithFailure; the
\* others are steps of #recoverInterruptedRuns.
Creating == {"made", "written", "registered"}
Executing == {"streaming", "appending", "appended", "updated", "failing"}
Recovering == {"found", "closing", "closed", "recovered"}
Steps == {"idle"} \cup Creating \cup Executing \cup Recovering

Last(events) == events[Len(events)]

\* isTerminalEvent of the last event.
Ended(events) == events # <<>> /\ Last(events) \in Terminals

\* What #readEventFile accepts: known records, run.started first and only
\* first, nothing after a terminal event.
Readable(events) ==
  \A i \in 1 .. Len(events) : /\ events[i] \in Kinds
                              /\ i = 1 <=> events[i] = "started"
                              /\ events[i] \in Terminals => i = Len(events)

Unfinished(r) == runPlace[r] = "stored" /\ runStatus[r] \in {"queued", "running"}

Busy(s) == \E r \in Runs : sessionOf[r] = s /\ step[r] \in Creating \cup Executing

TypeOK ==
  /\ sessionPlace \in [Sessions -> Places]
  /\ sessionStatus \in [Sessions -> SessionStatuses]
  /\ lastRun \in [Sessions -> Runs \cup {NoRun}]
  /\ runPlace \in [Runs -> Places]
  /\ sessionOf \in [Runs -> Sessions]
  /\ runStatus \in [Runs -> Statuses]
  /\ log \in [Runs -> Seq(Kinds \cup {"garbage"})]
  /\ tail \in [Runs -> BOOLEAN]
  /\ process \in Processes
  /\ knownSessions \subseteq Sessions
  /\ known \subseteq Runs
  /\ toRecover \subseteq known
  /\ creating \subseteq Sessions
  /\ step \in [Runs -> Steps]
  /\ pending \in [Runs -> Kinds]
  /\ finishing \in [Runs -> BOOLEAN]
  /\ lost \subseteq Runs
  /\ acked \in [Runs -> Nat]
  /\ crashes \in Nat
  /\ faults \in Nat

Init ==
  /\ sessionPlace = [s \in Sessions |-> "none"]
  /\ sessionStatus = [s \in Sessions |-> "idle"]
  /\ lastRun = [s \in Sessions |-> NoRun]
  /\ runPlace = [r \in Runs |-> "none"]
  /\ sessionOf \in [Runs -> Sessions]
  /\ runStatus = [r \in Runs |-> "queued"]
  /\ log = [r \in Runs |-> <<>>]
  /\ tail = [r \in Runs |-> FALSE]
  /\ process = "down"
  /\ knownSessions = {} /\ known = {} /\ toRecover = {}
  /\ creating = {}
  /\ step = [r \in Runs |-> "idle"]
  /\ pending = [r \in Runs |-> "started"]
  /\ finishing = [r \in Runs |-> FALSE]
  /\ lost = {}
  /\ acked = [r \in Runs |-> 0]
  /\ crashes = 0 /\ faults = 0

\* A file operation fails.
Fault == faults < MaxFaults /\ faults' = faults + 1 /\ UNCHANGED crashes

-----------------------------------------------------------------------------
(* Start: initialize, #loadExistingState.                                  *)

\* A new process opens the directory; a refused one is started again.
Start ==
  /\ process \in {"down", "refused"}
  /\ process' = "loading"
  /\ knownSessions' = {} /\ known' = {} /\ toRecover' = {}
  /\ UNCHANGED <<disk, work, acked, budget>>

\* A session directory without its session.json stops the process.
LoadSession(s) ==
  /\ process = "loading"
  /\ sessionPlace[s] # "none" /\ s \notin knownSessions
  /\ IF sessionPlace[s] = "stored"
     THEN knownSessions' = knownSessions \cup {s} /\ UNCHANGED process
     ELSE process' = "refused" /\ UNCHANGED knownSessions
  /\ UNCHANGED <<disk, known, toRecover, work, acked, budget>>

\* Mutant: the repair cuts before the last newline instead of after it.
KeptShort(r) == IF log[r] = <<>> THEN <<>> ELSE SubSeq(log[r], 1, Len(log[r]) - 1)

\* What the repair of an incomplete tail leaves of the log.
Kept(r) == log[r]

\* Mutant: an incomplete line stays.
RepairNothing(r) == UNCHANGED <<log, tail>>

Repair(r) ==
  /\ log' = [log EXCEPT ![r] = IF tail[r] THEN Kept(r) ELSE @]
  /\ tail' = [tail EXCEPT ![r] = FALSE]

\* A run directory without its run.json, or with a log that is not readable,
\* stops the process; an incomplete last line is cut off.
LoadRun(r) ==
  /\ process = "loading"
  /\ runPlace[r] # "none" /\ sessionOf[r] \in knownSessions /\ r \notin known
  /\ IF runPlace[r] = "stored" /\ Readable(Kept(r))
     THEN known' = known \cup {r} /\ UNCHANGED process
     ELSE process' = "refused" /\ UNCHANGED known
  /\ IF runPlace[r] = "stored" THEN Repair(r) ELSE UNCHANGED <<log, tail>>
  /\ UNCHANGED <<sessionPlace, sessionStatus, lastRun, runPlace, sessionOf, runStatus, knownSessions,
                 toRecover, work, acked, budget>>

\* Everything is loaded: the loop of #recoverInterruptedRuns begins.
BeginRecovery ==
  /\ process = "loading"
  /\ \A s \in Sessions : sessionPlace[s] # "none" => s \in knownSessions
  /\ \A r \in Runs : runPlace[r] # "none" => r \in known
  /\ process' = "recovering"
  /\ toRecover' = known
  /\ UNCHANGED <<disk, keys, work, acked, budget>>

-----------------------------------------------------------------------------
(* #recoverInterruptedRuns.                                                *)

\* Mutant: recovery closes the finished runs again.
NeedsRecoveryAlways(r) == TRUE

\* Mutant: recovery does not see the runs that had not started.
NeedsRecoveryIfRunning(r) == runStatus[r] = "running"

NeedsRecovery(r) == runStatus[r] \in {"queued", "running"}

\* The next run of the loop: a log with a terminal event only lacks its
\* metadata, another one is closed with run.failed.
RecoverRun(r) ==
  /\ process = "recovering" /\ r \in toRecover
  /\ \A q \in Runs : step[q] = "idle"
  /\ toRecover' = toRecover \ {r}
  /\ \/ ~NeedsRecovery(r) /\ UNCHANGED <<step, pending>>
     \/ NeedsRecovery(r) /\ Ended(log[r]) /\ step' = [step EXCEPT ![r] = "found"] /\ UNCHANGED pending
     \/ /\ NeedsRecovery(r) /\ ~Ended(log[r])
        /\ step' = [step EXCEPT ![r] = "closing"]
        /\ pending' = [pending EXCEPT ![r] = IF log[r] = <<>> THEN "started" ELSE "failed"]
  /\ UNCHANGED <<disk, process, keys, creating, finishing, lost, acked, budget>>

\* Mutant: an event is appended without a look at the log.
AppendableAlways(r) == TRUE

\* appendEvent reads the log first: it must be readable, without a terminal
\* event, and the new event must have the next sequence.
Appendable(r) ==
  /\ ~tail[r] /\ Readable(log[r])
  /\ ~Ended(log[r])
  /\ pending[r] = "started" <=> log[r] = <<>>

\* A line written behind an incomplete one becomes one illegal record with it.
Written(r) == Append(log[r], IF tail[r] THEN "garbage" ELSE pending[r])

Acknowledge(r) ==
  /\ log' = [log EXCEPT ![r] = Written(r)]
  /\ tail' = [tail EXCEPT ![r] = FALSE]
  /\ acked' = [acked EXCEPT ![r] = Len(log[r]) + 1]

\* run.started, for a run with an empty log, and then run.failed.
CloseRun(r) ==
  /\ step[r] = "closing" /\ Appendable(r)
  /\ Acknowledge(r)
  /\ \/ /\ pending[r] = "started"
        /\ pending' = [pending EXCEPT ![r] = "failed"]
        /\ UNCHANGED step
     \/ /\ pending[r] # "started"
        /\ step' = [step EXCEPT ![r] = "closed"]
        /\ UNCHANGED pending
  /\ UNCHANGED <<sessionPlace, sessionStatus, lastRun, runPlace, sessionOf, runStatus, process, keys,
                 toRecover, creating, finishing, lost, budget>>

\* Mutant: a cancelled run is recovered as a failed one.
RecoveredStatusFailed(r) ==
  IF step[r] = "closed" THEN "interrupted" ELSE IF Last(log[r]) = "completed" THEN "completed" ELSE "failed"

\* runStatusFromTerminal of a terminal event that was found.
RecoveredStatus(r) == IF step[r] = "closed" THEN "interrupted" ELSE Last(log[r])

RecoverStatus(r) ==
  /\ step[r] \in {"found", "closed"}
  /\ runStatus' = [runStatus EXCEPT ![r] = RecoveredStatus(r)]
  /\ step' = [step EXCEPT ![r] = "recovered"]
  /\ UNCHANGED <<sessionPlace, sessionStatus, lastRun, runPlace, sessionOf, log, tail, process, keys,
                 toRecover, creating, pending, finishing, lost, acked, budget>>

SessionStatusOf(kind) ==
  CASE kind = "failed" -> "failed"
    [] kind \in {"completed", "cancelled"} -> "idle"
    [] OTHER -> "running"

RecordInSession(r) ==
  /\ sessionStatus' = [sessionStatus EXCEPT ![sessionOf[r]] = SessionStatusOf(Last(log[r]))]
  /\ lastRun' = [lastRun EXCEPT ![sessionOf[r]] = r]

RecoverSession(r) ==
  /\ step[r] = "recovered"
  /\ RecordInSession(r)
  /\ step' = [step EXCEPT ![r] = "idle"]
  /\ UNCHANGED <<sessionPlace, runPlace, sessionOf, runStatus, log, tail, process, keys, toRecover,
                 creating, pending, finishing, lost, acked, budget>>

\* initialize returns and the server starts to listen.
FinishRecovery ==
  /\ process = "recovering" /\ toRecover = {}
  /\ \A r \in Runs : step[r] = "idle"
  /\ process' = "up"
  /\ UNCHANGED <<disk, keys, toRecover, work, acked, budget>>

-----------------------------------------------------------------------------
(* createSession, and createRun up to the start of the run.                *)

MakeSessionDirectory(s) ==
  /\ process = "up" /\ sessionPlace[s] = "none"
  /\ sessionPlace' = [sessionPlace EXCEPT ![s] = "directory"]
  /\ creating' = creating \cup {s}
  /\ UNCHANGED <<sessionStatus, lastRun, runPlace, sessionOf, runStatus, log, tail, process, keys,
                 toRecover, step, pending, finishing, lost, acked, budget>>

WriteSession(s) ==
  /\ s \in creating
  /\ creating' = creating \ {s}
  /\ \/ /\ sessionPlace' = [sessionPlace EXCEPT ![s] = "stored"]
        /\ knownSessions' = knownSessions \cup {s}
        /\ UNCHANGED budget
     \/ Fault /\ UNCHANGED <<sessionPlace, knownSessions>>
  /\ UNCHANGED <<sessionStatus, lastRun, runPlace, sessionOf, runStatus, log, tail, process, known,
                 toRecover, step, pending, finishing, lost, acked>>

\* The supervisor lets one createRun in at a time, and no second active run
\* into a session.
MakeRunDirectory(r) ==
  /\ process = "up" /\ runPlace[r] = "none" /\ sessionOf[r] \in knownSessions
  /\ \A q \in Runs : step[q] \notin Creating
  /\ ~Busy(sessionOf[r])
  /\ runPlace' = [runPlace EXCEPT ![r] = "directory"]
  /\ step' = [step EXCEPT ![r] = "made"]
  /\ UNCHANGED <<sessionPlace, sessionStatus, lastRun, sessionOf, runStatus, log, tail, process, keys,
                 toRecover, creating, pending, finishing, lost, acked, budget>>

WriteRun(r) ==
  /\ step[r] = "made"
  /\ runPlace' = [runPlace EXCEPT ![r] = "stored"]
  /\ step' = [step EXCEPT ![r] = "written"]
  /\ UNCHANGED <<sessionPlace, sessionStatus, lastRun, sessionOf, runStatus, log, tail, process, keys,
                 toRecover, creating, pending, finishing, lost, acked, budget>>

\* The empty events.jsonl is created and the run gets into the maps.
RegisterRun(r) ==
  /\ step[r] = "written"
  /\ known' = known \cup {r}
  /\ step' = [step EXCEPT ![r] = "registered"]
  /\ UNCHANGED <<disk, process, knownSessions, toRecover, creating, pending, finishing, lost, acked,
                 budget>>

\* updateSession of createRun.
MarkRunning(r) ==
  /\ step[r] = "registered"
  /\ sessionStatus' = [sessionStatus EXCEPT ![sessionOf[r]] = "running"]
  /\ lastRun' = [lastRun EXCEPT ![sessionOf[r]] = r]
  /\ step' = [step EXCEPT ![r] = "streaming"]
  /\ UNCHANGED <<sessionPlace, runPlace, sessionOf, runStatus, log, tail, process, keys, toRecover,
                 creating, pending, finishing, lost, acked, budget>>

\* The process goes on without the run.
GiveUp(r) == step' = [step EXCEPT ![r] = "idle"] /\ lost' = lost \cup {r}

CreateRunFails(r) ==
  /\ step[r] \in Creating
  /\ Fault
  /\ GiveUp(r)
  /\ UNCHANGED <<disk, process, keys, toRecover, creating, pending, finishing, acked>>

-----------------------------------------------------------------------------
(* The events of a run: appendEvent and the updates after it.              *)

\* The adapter's next event; the stream begins with run.started.
BeginAppend(r) ==
  /\ step[r] = "streaming"
  /\ \E kind \in Kinds :
       /\ kind = "started" <=> log[r] = <<>>
       /\ kind \in Terminals \/ Len(log[r]) < MaxEvents
       /\ pending' = [pending EXCEPT ![r] = kind]
  /\ step' = [step EXCEPT ![r] = "appending"]
  /\ UNCHANGED <<disk, process, keys, toRecover, creating, finishing, lost, acked, budget>>

\* The adapter's stream throws.
StreamFails(r) ==
  /\ step[r] = "streaming"
  /\ step' = [step EXCEPT ![r] = "failing"]
  /\ UNCHANGED <<disk, process, keys, toRecover, creating, pending, finishing, lost, acked, budget>>

\* An error: of the run the first time, of #finishWithFailure the second.
Throw(r) ==
  IF finishing[r] THEN GiveUp(r)
                  ELSE step' = [step EXCEPT ![r] = "failing"] /\ UNCHANGED lost

AppendEvent(r) ==
  /\ step[r] = "appending" /\ Appendable(r)
  /\ Acknowledge(r)
  /\ step' = [step EXCEPT ![r] = "appended"]
  /\ UNCHANGED <<sessionPlace, sessionStatus, lastRun, runPlace, sessionOf, runStatus, process, keys,
                 toRecover, creating, pending, finishing, lost, budget>>

\* STATE_CONFLICT or STATE_CORRUPT.
RefuseEvent(r) ==
  /\ step[r] = "appending" /\ ~Appendable(r)
  /\ Throw(r)
  /\ UNCHANGED <<disk, process, keys, toRecover, creating, pending, finishing, acked, budget>>

\* The write or the sync fails: nothing, a part of the line or the line is in
\* the file.
AppendFails(r) ==
  /\ step[r] = "appending" /\ Appendable(r)
  /\ Fault
  /\ \/ UNCHANGED <<log, tail>>
     \/ tail' = [tail EXCEPT ![r] = TRUE] /\ UNCHANGED log
     \/ log' = [log EXCEPT ![r] = Written(r)] /\ UNCHANGED tail
  /\ Throw(r)
  /\ UNCHANGED <<sessionPlace, sessionStatus, lastRun, runPlace, sessionOf, runStatus, process, keys,
                 toRecover, creating, pending, finishing, acked>>

\* statusFromEvent.
StatusOf(kind, current) ==
  CASE kind \in Terminals -> kind
    [] kind = "started" -> "running"
    [] OTHER -> current

UpdateRun(r) ==
  /\ step[r] = "appended"
  /\ runStatus' = [runStatus EXCEPT ![r] = StatusOf(Last(log[r]), @)]
  /\ step' = [step EXCEPT ![r] = "updated"]
  /\ UNCHANGED <<sessionPlace, sessionStatus, lastRun, runPlace, sessionOf, log, tail, process, keys,
                 toRecover, creating, pending, finishing, lost, acked, budget>>

\* A terminal event ends the run; #finishWithFailure goes on from run.started
\* to run.failed.
UpdateSession(r) ==
  /\ step[r] = "updated"
  /\ RecordInSession(r)
  /\ \/ Ended(log[r]) /\ step' = [step EXCEPT ![r] = "idle"] /\ UNCHANGED pending
     \/ ~Ended(log[r]) /\ ~finishing[r] /\ step' = [step EXCEPT ![r] = "streaming"] /\ UNCHANGED pending
     \/ /\ ~Ended(log[r]) /\ finishing[r]
        /\ step' = [step EXCEPT ![r] = "appending"]
        /\ pending' = [pending EXCEPT ![r] = "failed"]
  /\ UNCHANGED <<sessionPlace, runPlace, sessionOf, runStatus, log, tail, process, keys, toRecover,
                 creating, finishing, lost, acked, budget>>

UpdateFails(r) ==
  /\ step[r] \in {"appended", "updated"}
  /\ Fault
  /\ Throw(r)
  /\ UNCHANGED <<disk, process, keys, toRecover, creating, pending, finishing, acked>>

\* #finishWithFailure reads the log, which repairs its tail; if that fails it
\* takes the log for empty.
FinishWithFailure(r) ==
  /\ step[r] = "failing"
  /\ finishing' = [finishing EXCEPT ![r] = TRUE]
  /\ \/ /\ Readable(Kept(r)) /\ Repair(r)
        /\ \/ Ended(Kept(r)) /\ step' = [step EXCEPT ![r] = "appended"] /\ UNCHANGED pending
           \/ /\ ~Ended(Kept(r))
              /\ step' = [step EXCEPT ![r] = "appending"]
              /\ pending' = [pending EXCEPT ![r] = IF Kept(r) = <<>> THEN "started" ELSE "failed"]
        /\ UNCHANGED budget
     \/ /\ Fault
        /\ step' = [step EXCEPT ![r] = "appending"]
        /\ pending' = [pending EXCEPT ![r] = "started"]
        /\ UNCHANGED <<log, tail>>
  /\ UNCHANGED <<sessionPlace, sessionStatus, lastRun, runPlace, sessionOf, runStatus, process, keys,
                 toRecover, creating, lost, acked>>

-----------------------------------------------------------------------------

InFlight == {r \in Runs : step[r] \in {"appending", "closing"} /\ Appendable(r)}

\* The process stops.  Of a line being appended nothing, a part or all is in
\* the file.  An error inside initialize ends the process in the same way.
Crash ==
  /\ process \in {"loading", "recovering", "up"}
  /\ crashes < MaxCrashes /\ crashes' = crashes + 1
  /\ process' = "down"
  /\ \E whole \in SUBSET InFlight : \E part \in SUBSET (InFlight \ whole) :
       /\ log' = [r \in Runs |-> IF r \in whole THEN Written(r) ELSE log[r]]
       /\ tail' = [r \in Runs |-> tail[r] \/ r \in part]
  /\ knownSessions' = {} /\ known' = {} /\ toRecover' = {}
  /\ creating' = {} /\ lost' = {}
  /\ step' = [r \in Runs |-> "idle"]
  /\ pending' = [r \in Runs |-> "started"]
  /\ finishing' = [r \in Runs |-> FALSE]
  /\ UNCHANGED <<sessionPlace, sessionStatus, lastRun, runPlace, sessionOf, runStatus, acked, faults>>

Initialize ==
  \/ Start \/ BeginRecovery \/ FinishRecovery
  \/ \E s \in Sessions : LoadSession(s)
  \/ \E r \in Runs : LoadRun(r) \/ RecoverRun(r) \/ CloseRun(r) \/ RecoverStatus(r) \/ RecoverSession(r)

Create ==
  \/ \E s \in Sessions : MakeSessionDirectory(s) \/ WriteSession(s)
  \/ \E r \in Runs : \/ MakeRunDirectory(r) \/ WriteRun(r) \/ RegisterRun(r) \/ MarkRunning(r)
                     \/ CreateRunFails(r)

Execute ==
  \E r \in Runs : \/ BeginAppend(r) \/ StreamFails(r) \/ AppendEvent(r) \/ RefuseEvent(r)
                  \/ AppendFails(r) \/ UpdateRun(r) \/ UpdateSession(r) \/ UpdateFails(r)
                  \/ FinishWithFailure(r)

Next == Initialize \/ Create \/ Execute \/ Crash

Spec == Init /\ [][Next]_vars

\* The user starts the runtime again and initialize goes on by itself.
FairSpec == Spec /\ WF_vars(Initialize)

-----------------------------------------------------------------------------

\* Every log can be read by the next process: no crash, failed write or
\* repair leaves a gap, a record behind the terminal event or an illegal line.
LogIsReadable == \A r \in Runs : Readable(log[r])

\* run.json never claims an end that the log does not hold, and never another
\* one: the terminal event is durable before the status.
StatusFollowsLog ==
  \A r \in Runs : runStatus[r] \notin {"queued", "running"} =>
    /\ Ended(log[r])
    /\ Last(log[r]) = (IF runStatus[r] = "interrupted" THEN "failed" ELSE runStatus[r])

\* In a process that is up, an unfinished run is being executed, or was given
\* up by this process: recovery leaves none of an earlier one behind.
NoneLeftBehind ==
  process = "up" => \A r \in Runs : Unfinished(r) /\ step[r] = "idle" => r \in lost

\* A final status is final: no restart, not even one that was interrupted by
\* another crash, changes it.
StatusIsFinal ==
  [][\A r \in Runs : ~Unfinished(r) /\ runPlace[r] = "stored" => runStatus'[r] = runStatus[r]]_vars

Durable == INSTANCE DurableLog WITH Runs <- Runs, log <- log, acked <- acked

\* What was acknowledged survives crashes, failed writes and repairs.
ImplementsDurableLog == Durable!Spec

\* A recovery that has begun closes every run, whatever crashes in between.
RecoverySettlesRuns ==
  \A r \in Runs : (process = "recovering" /\ r \in known /\ Unfinished(r)) ~> ~Unfinished(r)

\* requirements.md: a restart that finds an unfinished run closes it.
RestartSettlesRuns ==
  \A r \in Runs : (process = "loading" /\ Unfinished(r)) ~> ~Unfinished(r)
=============================================================================
