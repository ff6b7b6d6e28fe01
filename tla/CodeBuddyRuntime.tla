-------------------------- MODULE CodeBuddyRuntime --------------------------
(***************************************************************************)
(* The runtime of the CodeBuddy adapter for one run, under the managed run *)
(* of the harness core that consumes it.  Four parties share its state:    *)
(* the generator #run, which the managed run pulls; the producer #consume, *)
(* which races the vendor's stream against the watchdog; the vendor, which *)
(* calls canUseTool when it likes, also after it was aborted; and the      *)
(* supervisor, which answers, cancels and disposes.                        *)
(*                                                                         *)
(* A step is what runs between two awaits.  The queue is the part of       *)
(* stream that was not read: it ends with the terminal event, and what is  *)
(* pushed later is dropped.  Time is abstract: a timer may fire whenever   *)
(* it runs.  The vendor's SDK is an environment.                           *)
(***************************************************************************)
EXTENDS ManagedRun, Naturals, Sequences, SequencesExt

CONSTANTS Tools,        \* tool use ids of the vendor
          NamedCalls,   \* canUseTool calls whose toolUseID is set
          UnnamedCalls, \* and those of one tool whose toolUseID is empty
          Questions,    \* the calls for AskUserQuestion
          ReadOnly,     \* the permission policy of the run is read-only
          NumberedIds,  \* `interaction:<tool>:<number>` by number
          NoId,
          MaxActivity   \* model bound: messages, tools and calls of the vendor in any mix

Calls == NamedCalls \cup UnnamedCalls

ASSUME CallsAssumption == /\ IsFiniteSet(Calls)
                          /\ NamedCalls \cap UnnamedCalls = {}
                          /\ Questions \subseteq NamedCalls
ASSUME NumberedIdsAssumption ==
  DOMAIN NumberedIds = 1..Cardinality(Calls) /\ Range(NumberedIds) \cap NamedCalls = {}
ASSUME PolicyAssumption == ReadOnly \in BOOLEAN
ASSUME ActivityAssumption == MaxActivity \in Nat

VARIABLES
  core,       \* the managed run
  generator,  \* where #run stands (GeneratorSteps)
  producer,   \* #consume: off, waiting in Promise.race, done
  stream,     \* every event pushed to the queue, run.started first
  read,       \* how many of them the generator has yielded
  broken,     \* the managed run refused the last event read
  terminal, cancelled, failure,   \* active.terminal, .cancelled, .pendingFailure
  running,    \* the keys of active.runningTools, in insertion order
  settled,    \* active.settledTools
  pending,    \* #pendingInteractions in insertion order: [id, call]
  calls,      \* call -> where the vendor's canUseTool stands (CallSteps)
  stop,       \* active.stopPromise: no, stopping, stopped
  disposed    \* #disposed

position == <<core, generator, read, broken>>
outcome == <<terminal, cancelled>>
tools == <<running, settled>>
vars == <<position, producer, stream, outcome, failure, tools, pending, calls, stop, disposed>>

\* idle: nothing pulled yet; yielded: the consumer has the last event or waits for
\* the next; settling: for the producer; closing: in the finally block.
GeneratorSteps == {"idle", "yielded", "settling", "closing", "done"}

\* orphaned: asked after the runtime was done with the run, or its entry was
\* overwritten by a call with the same request id.
CallSteps == {"unasked", "waiting", "allowed", "denied", "orphaned"}

\* A request id is the toolUseID of its call or a numbered one.
RequestIds == NamedCalls \cup Range(NumberedIds)

EventTypes ==
  Terminals \cup {"run.started", "session.initialized", "assistant", "usage.updated",
                  "tool.started", "tool.settled", "interaction.requested", "interaction.resolved"}

\* The path on which a run ends, and so what the terminal event says in its payload.
Causes == {"query", "run", "idle", "authentication", "vendor", "ended", "ended unauthorized",
           "result", "cancel"}

Events == [type : EventTypes, id : Tools \cup RequestIds \cup Causes \cup {NoId}]

TypeOK ==
  /\ core \in CoreType(RequestIds)
  /\ generator \in GeneratorSteps
  /\ producer \in {"off", "waiting", "done"}
  /\ stream \in Seq(Events) /\ read \in 0..Len(stream)
  /\ broken \in BOOLEAN /\ terminal \in BOOLEAN /\ cancelled \in BOOLEAN /\ failure \in BOOLEAN
  /\ running \in Seq(Tools) /\ settled \subseteq Tools
  /\ pending \in Seq([id : RequestIds, call : Calls])
  /\ calls \in [Calls -> CallSteps]
  /\ stop \in {"no", "stopping", "stopped"}
  /\ disposed \in BOOLEAN

Init ==
  /\ core = NewCore
  /\ generator = "idle" /\ producer = "off"
  /\ stream = <<>> /\ read = 0
  /\ broken = FALSE /\ terminal = FALSE /\ cancelled = FALSE /\ failure = FALSE
  /\ running = <<>> /\ settled = {}
  /\ pending = <<>> /\ calls = [c \in Calls |-> "unasked"]
  /\ stop = "no" /\ disposed = FALSE

Event(type, id) == [type |-> type, id |-> id]

\* #active: the run whose query was accepted, until its generator is done.
Active == producer # "off" /\ generator # "done"

-----------------------------------------------------------------------------
(* The queue and the helpers that push to it.                              *)

\* Mutant: the queue takes events after its end.
PushedAlways(events) == stream \o events

\* AsyncQueue.push, which drops what comes after end().
Pushed(events) == IF terminal THEN stream ELSE stream \o events

\* #emitTerminal.
Ending(type, cause) == <<Event(type, cause)>>

\* Mutant: the tools are forgotten without their events.
SettlingSilently == <<>>

\* #settleRunningTools settles in the order in which the tools started.
Settling == [i \in 1..Len(running) |-> Event("tool.settled", running[i])]

\* Mutant: the interactions are dropped without their events.
ResolvingSilently == <<>>

\* #resolvePendingInteractions: the events, and what the callbacks are told.
Resolving == [i \in 1..Len(pending) |-> Event("interaction.resolved", pending[i].id)]
Callers == {pending[i].call : i \in 1..Len(pending)}

Denied == [c \in Calls |-> IF c \in Callers THEN "denied" ELSE calls[c]]

\* #stopVendor: the first call aborts, interrupts and returns the vendor stream.
Stopping == IF stop = "no" THEN "stopping" ELSE stop

\* The terminal event of a run is pushed and its tools are settled before it.
SettleAndEnd(type, cause) ==
  /\ stream' = Pushed(Settling \o Ending(type, cause))
  /\ running' = <<>> /\ settled' = settled \cup ToSet(running)
  /\ terminal' = TRUE

\* So are its tools and its interactions.
ResolveAndEnd(type, cause) ==
  /\ stream' = Pushed(Settling \o Resolving \o Ending(type, cause))
  /\ running' = <<>> /\ settled' = settled \cup ToSet(running)
  /\ pending' = <<>> /\ calls' = Denied
  /\ terminal' = TRUE
  /\ stop' = Stopping

\* CodeBuddyRuntime.cancel, which ignores a run that is not active or has ended.
CancelRuntime ==
  IF Active /\ ~terminal
  THEN cancelled' = TRUE /\ ResolveAndEnd("run.cancelled", "cancel")
  ELSE UNCHANGED <<stream, outcome, tools, pending, calls, stop>>

\* The model's bound: the vendor does MaxActivity things in any mix of messages,
\* tools and calls; while it has done nothing but call, it may make all its calls.
Reported ==
  Cardinality({i \in 1..Len(stream) : stream[i].type \in {"session.initialized", "assistant", "tool.started"}})
    + (IF failure THEN 1 ELSE 0)
CanAct == Reported + Cardinality({c \in Calls : calls[c] # "unasked"}) < MaxActivity
CanAsk == CanAct \/ (Reported = 0 /\ ~terminal)

-----------------------------------------------------------------------------
(* The generator and the loop of the managed run.                          *)

\* The managed run gets the next event; one it refuses closes the generator.
Take(e) ==
  IF Admits(core, e)
  THEN core' = Passed(core, e) /\ generator' = "yielded" /\ UNCHANGED broken
  ELSE broken' = TRUE /\ generator' = "yielded" /\ UNCHANGED core

\* #run up to its first yield.  A runtime that is disposed or has no credential
\* throws before it; one whose query is refused fails without an active run.
Begin ==
  /\ generator = "idle"
  /\ UNCHANGED <<cancelled, failure, tools, pending, calls, stop>>
  /\ \/ /\ ~disposed
        /\ stream' = <<Event("run.started", NoId)>>
        /\ read' = 1 /\ Take(Event("run.started", NoId))
        /\ producer' = "waiting" /\ UNCHANGED <<terminal, disposed>>
     \/ /\ ~disposed
        /\ stream' = <<Event("run.started", NoId), Event("run.failed", "query")>>
        /\ read' = 1 /\ Take(Event("run.started", NoId))
        /\ terminal' = TRUE /\ UNCHANGED <<producer, disposed>>
     \/ /\ generator' = "done"
        /\ core' = [core EXCEPT !.disposed = TRUE] /\ disposed' = TRUE
        /\ UNCHANGED <<stream, read, broken, producer, terminal>>

\* The supervisor has published the event and asks for the next one.  Until there
\* is one it waits in the queue, which is not told from its being still busy.
Deliver ==
  /\ generator = "yielded" /\ ~broken /\ read < Len(stream)
  /\ read' = read + 1
  /\ Take(stream[read + 1])
  /\ UNCHANGED <<producer, stream, outcome, failure, tools, pending, calls, stop, disposed>>

QueueEnds ==
  /\ generator = "yielded" /\ ~broken /\ read = Len(stream) /\ terminal /\ producer # "off"
  /\ generator' = "settling"
  /\ UNCHANGED <<core, read, broken, producer, stream, outcome, failure, tools, pending, calls,
                 stop, disposed>>

\* The finally block is entered: when the producer has settled or its grace is
\* over, when the supervisor's loop throws at an event, when the managed run has
\* refused it.  A run that still goes on is cancelled there.
Close ==
  /\ Active
  /\ generator \in {"yielded", "settling"}
  /\ generator' = "closing"
  /\ IF producer # "done" /\ ~terminal
     THEN CancelRuntime
     ELSE stop' = Stopping /\ UNCHANGED <<stream, outcome, tools, pending, calls>>
  /\ UNCHANGED <<core, read, broken, producer, failure, disposed>>

\* The finally block is left: what still asks is denied; the managed run disposes.
Finish ==
  /\ \/ generator = "closing" /\ stop = "stopped"
     \/ generator = "yielded" /\ producer = "off"
  /\ generator' = "done"
  /\ pending' = <<>> /\ calls' = Denied
  /\ core' = [core EXCEPT !.disposed = TRUE] /\ disposed' = TRUE
  /\ UNCHANGED <<read, broken, producer, stream, outcome, failure, tools, stop>>

\* The vendor stream has been interrupted and returned, or the grace is over.
VendorStopped ==
  /\ stop = "stopping"
  /\ stop' = "stopped"
  /\ UNCHANGED <<position, producer, stream, outcome, failure, tools, pending, calls, disposed>>

-----------------------------------------------------------------------------
(* The producer.                                                           *)

Consuming == producer = "waiting" /\ ~terminal

Initialize ==
  /\ Consuming /\ CanAct
  /\ \A i \in 1..Len(stream) : stream[i].type # "session.initialized"
  /\ stream' = Pushed(<<Event("session.initialized", NoId)>>)
  /\ UNCHANGED <<position, producer, outcome, failure, tools, pending, calls, stop, disposed>>

\* A delta or the text of a message.
Report ==
  /\ Consuming /\ CanAct
  /\ stream' = Pushed(<<Event("assistant", NoId)>>)
  /\ UNCHANGED <<position, producer, outcome, failure, tools, pending, calls, stop, disposed>>

\* A message that is a legacy 401 is kept back: its terminal signal may follow.
LegacyAuthenticationFailure ==
  /\ Consuming /\ ~failure /\ CanAct
  /\ failure' = TRUE
  /\ UNCHANGED <<position, producer, stream, outcome, tools, pending, calls, stop, disposed>>

\* #startTool ignores a tool that runs or was settled.
StartTool(t) ==
  /\ Consuming /\ CanAct
  /\ t \notin ToSet(running) \cup settled
  /\ running' = Append(running, t)
  /\ stream' = Pushed(<<Event("tool.started", t)>>)
  /\ UNCHANGED <<position, producer, outcome, failure, settled, pending, calls, stop, disposed>>

\* #settleTool for a tool_result, which starts a tool that nobody announced; the
\* result without an id is that of the tool that started last.
SettleTool(t) ==
  /\ Consuming
  /\ t \notin settled /\ (t \in ToSet(running) \/ CanAct)
  /\ running' = RemoveFirst(running, t)
  /\ settled' = settled \cup {t}
  /\ stream' = Pushed((IF t \in ToSet(running) THEN <<>> ELSE <<Event("tool.started", t)>>)
                        \o <<Event("tool.settled", t)>>)
  /\ UNCHANGED <<position, producer, outcome, failure, pending, calls, stop, disposed>>

\* An error message, an error result or an exception of the vendor stream.
VendorFails ==
  /\ Consuming
  /\ SettleAndEnd("run.failed", "vendor")
  /\ producer' = "done"
  /\ UNCHANGED <<position, cancelled, failure, pending, calls, stop, disposed>>

\* The result of a run that succeeded, with its usage if the vendor reports any.
VendorResult ==
  /\ Consuming
  /\ \E usage \in {<<>>, <<Event("usage.updated", NoId)>>} :
       stream' = Pushed(Settling \o usage \o Ending("run.completed", "result"))
  /\ running' = <<>> /\ settled' = settled \cup ToSet(running)
  /\ terminal' = TRUE /\ producer' = "done"
  /\ UNCHANGED <<position, cancelled, failure, pending, calls, stop, disposed>>

\* Mutant: there is no error to fall back on.
EndWithoutError == IF failure THEN "ended unauthorized" ELSE "undefined"

\* The error of a run whose vendor stream has ended without a result.
EndError == IF failure THEN "ended unauthorized" ELSE "ended"

\* The vendor stream is done and had no result.
VendorEnds ==
  /\ Consuming
  /\ stream' = Pushed(Ending("run.failed", EndError))
  /\ terminal' = TRUE /\ producer' = "done"
  /\ UNCHANGED <<position, cancelled, failure, tools, pending, calls, stop, disposed>>

\* Whatever comes after a cancel ends the loop.
ProducerStops ==
  /\ producer = "waiting" /\ terminal
  /\ producer' = "done"
  /\ UNCHANGED <<position, stream, outcome, failure, tools, pending, calls, stop, disposed>>

\* Mutant: a client that is asked keeps the run's own deadline away as well.
DueUnlessAsked(kind) ==
  /\ pending = <<>>
  /\ kind = "authentication" => failure

\* What the watchdog may report: the idle time does not count while a client is
\* asked, the other deadlines do.
Due(kind) ==
  CASE kind = "run" -> TRUE
    [] kind = "authentication" -> failure
    [] kind = "idle" -> pending = <<>>

Timeout(kind) ==
  /\ Consuming /\ Due(kind)
  /\ ResolveAndEnd("run.failed", kind)
  /\ producer' = "done"
  /\ UNCHANGED <<position, cancelled, failure, disposed>>

-----------------------------------------------------------------------------
(* The vendor's canUseTool.                                                *)

\* The request id of a call; the number of an unnamed one counts what is pending.
RequestId(c) == IF c \in NamedCalls THEN c ELSE NumberedIds[Len(pending) + 1]

\* #pendingInteractions.set, which replaces an entry in its place.
WithEntry(c) ==
  IF \E i \in 1..Len(pending) : pending[i].id = RequestId(c)
  THEN [i \in 1..Len(pending) |->
          IF pending[i].id = RequestId(c) THEN [id |-> RequestId(c), call |-> c] ELSE pending[i]]
  ELSE Append(pending, [id |-> RequestId(c), call |-> c])

Replaced(c) == {d \in Calls : \E i \in 1..Len(pending) : pending[i] = [id |-> RequestId(c), call |-> d]}

\* The client is asked.  After the finally block nobody answers any more.
CanUseTool(c) ==
  /\ producer # "off" /\ calls[c] = "unasked" /\ CanAsk
  /\ ReadOnly => c \in Questions
  /\ pending' = WithEntry(c)
  /\ calls' = [d \in Calls |->
                 IF d \in Replaced(c) \/ (d = c /\ generator = "done") THEN "orphaned"
                 ELSE IF d = c THEN "waiting" ELSE calls[d]]
  /\ stream' = Pushed(<<Event("interaction.requested", RequestId(c))>>)
  /\ UNCHANGED <<position, producer, outcome, failure, tools, stop, disposed>>

\* The read-only policy denies every tool at once; so is AskUserQuestion without
\* valid questions.
DenyAtOnce(c) ==
  /\ producer # "off" /\ calls[c] = "unasked" /\ CanAsk
  /\ ReadOnly \/ c \in Questions
  /\ calls' = [calls EXCEPT ![c] = "denied"]
  /\ UNCHANGED <<position, producer, stream, outcome, failure, tools, pending, stop, disposed>>

-----------------------------------------------------------------------------
(* The supervisor, through the managed run.                                *)

\* The answers that fit the kind of a request.
Actions(c) == IF c \in Questions THEN {"submit", "deny"} ELSE {"allow", "deny"}

\* respondToInteraction: an entry that is gone is refused, and nothing changes.
Respond(i, action) ==
  /\ MayRespond(core, pending[i].id) /\ Active
  /\ action \in Actions(pending[i].call)
  /\ pending' = RemoveAt(pending, i)
  /\ stream' = Pushed(<<Event("interaction.resolved", pending[i].id)>>)
  /\ calls' = [calls EXCEPT ![pending[i].call] = IF action = "deny" THEN "denied" ELSE "allowed"]
  /\ core' = Answered(core, pending[i].id)
  /\ UNCHANGED <<generator, read, broken, producer, outcome, failure, tools, stop, disposed>>

\* After the terminal event a cancel changes nothing but its own promise.
Cancel ==
  /\ MayCancel(core) /\ ~terminal
  /\ core' = [core EXCEPT !.cancelSent = TRUE]
  /\ CancelRuntime
  /\ UNCHANGED <<generator, read, broken, producer, failure, disposed>>

\* The supervisor's shutdown disposes of a run that does not end.
Dispose ==
  /\ ~core.disposed
  /\ core' = [core EXCEPT !.disposed = TRUE]
  /\ disposed' = TRUE
  /\ CancelRuntime
  /\ UNCHANGED <<generator, read, broken, producer, failure>>

-----------------------------------------------------------------------------
Produce ==
  \/ Initialize \/ Report \/ LegacyAuthenticationFailure
  \/ \E t \in Tools : StartTool(t) \/ SettleTool(t)
  \/ VendorFails \/ VendorResult \/ VendorEnds \/ ProducerStops
  \/ \E kind \in {"run", "idle", "authentication"} : Timeout(kind)

Generate == Begin \/ Deliver \/ QueueEnds \/ Close \/ Finish \/ VendorStopped

Ask(c) == CanUseTool(c) \/ DenyAtOnce(c)

Supervise ==
  \/ \E i \in 1..Len(pending) : \E action \in {"allow", "submit", "deny"} : Respond(i, action)
  \/ Cancel \/ Dispose

Next == Generate \/ Produce \/ Supervise \/ \E c \in Calls : Ask(c)

Spec == Init /\ [][Next]_vars

\* The supervisor pulls until the run is over, the event loop runs what is ready,
\* and the timers fire: the deadline of the run, the grace of a vendor that does
\* not stop and of a producer that does not settle.  The vendor owes nothing.
Fairness ==
  /\ WF_vars(Deliver) /\ WF_vars(QueueEnds) /\ WF_vars(Finish)
  /\ WF_vars(generator = "settling" /\ Close) /\ WF_vars(broken /\ Close)
  /\ WF_vars(VendorStopped)
  /\ WF_vars(Timeout("run"))

FairSpec == Spec /\ Fairness
-----------------------------------------------------------------------------
(* Properties.                                                             *)

HasEnded == stream # <<>> /\ Last(stream).type \in Terminals

Requested(q) == \E i \in 1..Len(stream) : stream[i] = Event("interaction.requested", q)
Resolved(q) == \E i \in 1..Len(stream) : stream[i] = Event("interaction.resolved", q)

\* Completion, failure, timeout and cancellation go through one guard: a stream
\* has its terminal event at its end and nowhere else, whatever the vendor, the
\* timers and the supervisor do afterwards (#emitTerminal, AsyncQueue.end).
OneTerminalAtTheEnd ==
  \A i \in 1..Len(stream) : stream[i].type \in Terminals <=> terminal /\ i = Len(stream)

\* A tool is started once and settled at most once, after its start; and when the
\* run ends none is left unsettled, whichever of the vendor, the three deadlines,
\* a cancel and a disposal ends it (#settleRunningTools).  One path is different
\* in the code and left out here: a vendor stream that ends without a result.
ToolsSettledBeforeTheEnd ==
  /\ HasEnded /\ Last(stream).id \notin {"ended", "ended unauthorized"} => running = <<>>
  /\ \A t \in Tools :
       LET On(type) == {i \in 1..Len(stream) : stream[i] = Event(type, t)} IN
       /\ Cardinality(On("tool.started")) = (IF t \in ToSet(running) \cup settled THEN 1 ELSE 0)
       /\ Cardinality(On("tool.settled")) = (IF t \in settled THEN 1 ELSE 0)
       /\ \A i \in On("tool.started"), j \in On("tool.settled") : i < j

\* A cancel, a disposal and a deadline leave no interaction open in the stream;
\* when the generator is done no call is still registered to be answered later;
\* and a call that bears its own id was allowed only if a client's answer is
\* recorded, and has an answer by then unless it was made after the finally block
\* (cancel, #consume, respondToInteraction, the finally block of #run).  A call
\* made after it, and one whose entry a later call with the same numbered id has
\* replaced, is orphaned: the code never answers it and the vendor waits for ever.
NobodyIsLeftWaiting ==
  /\ HasEnded /\ Last(stream).id \in {"cancel", "run", "idle"} =>
       \A q \in RequestIds : Requested(q) => Resolved(q)
  /\ generator = "done" => \A c \in Calls : calls[c] # "waiting"
  /\ \A c \in NamedCalls :
       /\ calls[c] = "allowed" => c \in core.answered
       /\ calls[c] = "orphaned" => generator = "done"

Publishing == IF broken THEN read - 1 ELSE read
InteractionTypes == {"interaction.requested", "interaction.resolved"}
Published ==
  [i \in 1..Publishing |->
     IF stream[i].type \in InteractionTypes THEN stream[i] ELSE Event(stream[i].type, NoId)]

RunStreamSpec == INSTANCE RunStream
                   WITH events <- Published, RequestIds <- RequestIds, NoRequest <- NoId

\* What the supervisor gets keeps the order that the protocol promises, although
\* the adapter's own stream need not: the managed run stops at an event that
\* breaks it (#iterate).
ImplementsRunStream == RunStreamSpec!Spec

\* A run that has begun is over in the end, whatever the vendor does or omits:
\* the deadline of the run does not wait for clients (createWatchdog, #run).
RunEnds == generator # "idle" ~> generator = "done"

\* What the managed run asserts of every adapter (#iterate): no run ends while an
\* interaction is pending.  An error, a result or the end of the vendor stream
\* while a client is asked ends the run with the interaction open.
ResolvedBeforeTheEnd == HasEnded => \A q \in RequestIds : Requested(q) => Resolved(q)
=============================================================================
