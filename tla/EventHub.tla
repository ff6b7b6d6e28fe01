------------------------------ MODULE EventHub ------------------------------
(***************************************************************************)
(* One run's event stream: the publisher side (LocalEventHub.publish,      *)
(* driven by RunSupervisor.#execute and #finishWithFailure) and the        *)
(* subscriber side (the generator LocalEventHub.#iterate, one per SSE      *)
(* connection), over the run's persisted event log.                        *)
(*                                                                         *)
(* An event is its sequence number: the store accepts number               *)
(* persisted + 1 and nothing else, so events 1 .. persisted exist.  Only   *)
(* the last one can be terminal, and it is when "ended" is TRUE.           *)
(***************************************************************************)
EXTENDS Naturals, Sequences

CONSTANTS Clients,            \* clients that follow the run, one connection each at a time
          MaxBufferedEvents,  \* bound of a subscriber's live queue (#maxBufferedEvents)
          MaxEvents,          \* model bound: the run ends at the latest with this event
          MaxFaults           \* model bound: failed writes, failed reads, aborts and restarts

ASSUME MaxBufferedEventsAssumption == MaxBufferedEvents \in Nat \ {0}
ASSUME MaxEventsAssumption == MaxEvents \in Nat /\ MaxEvents >= 2
ASSUME MaxFaultsAssumption == MaxFaults \in Nat

VARIABLES
  persisted,     \* number of events in events.jsonl
  ended,         \* the last persisted event is terminal
  recorded,      \* run.terminalEventType is set in the store's run metadata
  publisher,     \* where the run's only publisher stands (PublisherSteps)
  finishing,     \* #finishWithFailure has taken over from the adapter stream
  connection,    \* client -> where its generator stands (ConnectionSteps)
  cursor,        \* client -> afterEventId of this connection, 0 for none
  snapshot,      \* client -> length of the log when the history was read
  yielded,       \* client -> how far the history has been yielded
  lastSequence,  \* client -> subscriber.lastSequence
  queue,         \* client -> subscriber.queue
  closed,        \* client -> subscriber.closed
  overflowed,    \* client -> subscriber.overflowed
  aborted,       \* client -> the connection's abort signal
  seen,          \* client -> a value read from the store before an await and used after it
  waiting,       \* client -> its generator sleeps on a promise in subscriber.waiters
  outcome,       \* client -> how its last connection ended
  received,      \* client -> every event its connections have handed to it, in order
  unannounced,   \* history: the events whose line was written by an append that then failed
  faults         \* faults so far

publication == <<persisted, ended, recorded, publisher, finishing, unannounced>>
subscriber == <<cursor, snapshot, yielded, lastSequence, queue, closed, overflowed, aborted, seen, waiting>>
vars == <<publication, subscriber, connection, outcome, received, faults>>

PublisherSteps == {"ready", "persisted", "recorded", "failing", "over"}
ConnectionSteps == {"away", "reading", "read", "history", "tail", "tailRead", "checkRun", "live"}
Outcomes == {"open", "returned", "overflow", "aborted", "failed"}

TypeOK ==
  /\ persisted \in Nat
  /\ ended \in BOOLEAN
  /\ recorded \in BOOLEAN
  /\ publisher \in PublisherSteps
  /\ finishing \in BOOLEAN
  /\ connection \in [Clients -> ConnectionSteps]
  /\ cursor \in [Clients -> Nat]
  /\ snapshot \in [Clients -> Nat]
  /\ yielded \in [Clients -> Nat]
  /\ lastSequence \in [Clients -> Nat]
  /\ queue \in [Clients -> Seq(Nat)]
  /\ closed \in [Clients -> BOOLEAN]
  /\ overflowed \in [Clients -> BOOLEAN]
  /\ aborted \in [Clients -> BOOLEAN]
  /\ seen \in [Clients -> BOOLEAN]
  /\ waiting \in [Clients -> BOOLEAN]
  /\ outcome \in [Clients -> Outcomes]
  /\ received \in [Clients -> Seq(Nat)]
  /\ unannounced \in SUBSET Nat
  /\ faults \in Nat

Init ==
  /\ persisted = 0
  /\ ended = FALSE
  /\ recorded = FALSE
  /\ publisher = "ready"
  /\ finishing = FALSE
  /\ connection = [c \in Clients |-> "away"]
  /\ cursor = [c \in Clients |-> 0]
  /\ snapshot = [c \in Clients |-> 0]
  /\ yielded = [c \in Clients |-> 0]
  /\ lastSequence = [c \in Clients |-> 0]
  /\ queue = [c \in Clients |-> <<>>]
  /\ closed = [c \in Clients |-> TRUE]
  /\ overflowed = [c \in Clients |-> FALSE]
  /\ aborted = [c \in Clients |-> FALSE]
  /\ seen = [c \in Clients |-> FALSE]
  /\ waiting = [c \in Clients |-> FALSE]
  /\ outcome = [c \in Clients |-> "open"]
  /\ received = [c \in Clients |-> <<>>]
  /\ unannounced = {}
  /\ faults = 0

\* The terminal event is the last one of an ended log.
Terminal(event) == ended /\ event = persisted

\* The last event a client has been handed: what it sends as Last-Event-ID.
Confirmed(c) == IF received[c] = <<>> THEN 0 ELSE received[c][Len(received[c])]

\* The client has everything the run will ever publish.
Complete(c) == ended /\ Confirmed(c) = persisted

Registered(c) == connection[c] # "away"

\* Something the environment may do to the system a bounded number of times.
Fault == faults < MaxFaults /\ faults' = faults + 1

-----------------------------------------------------------------------------
(* The publisher.                                                          *)

\* The next event's line is written.  The first one is run.started.
WriteEvent ==
  /\ ~ended /\ persisted < MaxEvents
  /\ persisted' = persisted + 1
  /\ ended' \in {persisted + 1 = MaxEvents, persisted > 0}

\* store.appendEvent: the next event of the adapter's stream is on disk.
PersistEvent ==
  /\ publisher = "ready"
  /\ WriteEvent
  /\ publisher' = "persisted"
  /\ UNCHANGED <<recorded, finishing, unannounced, subscriber, connection, outcome, received, faults>>

\* The adapter's stream throws, or the append of its next event does before it
\* writes: #execute goes to #finishWithFailure.
StreamFails ==
  /\ publisher = "ready"
  /\ publisher' = "failing"
  /\ finishing' = TRUE
  /\ UNCHANGED <<persisted, ended, recorded, unannounced, subscriber, connection, outcome, received, faults>>

\* The append writes its line and throws after it (sync or close fails).  The
\* event is in the log, and publish neither tells nor closes a subscriber: the
\* append is outside its try block.
AppendFails ==
  /\ publisher = "ready"
  /\ Fault
  /\ WriteEvent
  /\ unannounced' = unannounced \cup {persisted + 1}
  /\ publisher' = "failing"
  /\ finishing' = TRUE
  /\ UNCHANGED <<recorded, subscriber, connection, outcome, received>>

\* #finishWithFailure: a run that has its terminal event has it applied to the
\* metadata again and nothing is published; otherwise run.failed is published,
\* after a run.started if the log is empty.
FinishWithFailure ==
  /\ publisher = "failing"
  /\ \/ /\ ended
        /\ recorded' = TRUE
        /\ publisher' = "over"
        /\ UNCHANGED <<persisted, ended, unannounced, faults>>
     \/ /\ ~ended
        /\ persisted' = persisted + 1
        /\ ended' = (persisted > 0)
        /\ publisher' = "persisted"
        /\ UNCHANGED <<recorded, unannounced, faults>>
     \/ /\ Fault            \* the read, the append or the metadata write fails: #execute gives up
        /\ publisher' = "over"
        /\ UNCHANGED <<persisted, ended, recorded, unannounced>>
     \/ /\ ~ended           \* the append fails after its line is written
        /\ Fault
        /\ persisted' = persisted + 1
        /\ ended' = (persisted > 0)
        /\ unannounced' = unannounced \cup {persisted + 1}
        /\ publisher' = "over"
        /\ UNCHANGED recorded
  /\ UNCHANGED <<finishing, subscriber, connection, outcome, received>>

\* afterPersist, first half: #updateFromEvent has written run.json.
Record ==
  /\ publisher = "persisted"
  /\ recorded' = ended
  /\ publisher' = "recorded"
  /\ UNCHANGED <<persisted, ended, finishing, unannounced, subscriber, connection, outcome, received, faults>>

\* Mutant: a failed publication leaves its subscribers as they are.
KeptOpenByFailure(c) == closed[c]

ClosedByFailure(c) == closed[c] \/ Registered(c)

\* afterPersist throws, before or after run.json is written: every subscriber
\* is closed without the event and woken, and publish rethrows.
AfterPersistFails ==
  /\ publisher \in {"persisted", "recorded"}
  /\ Fault
  /\ closed' = [c \in Clients |-> ClosedByFailure(c)]
  /\ waiting' = [c \in Clients |-> FALSE]
  /\ publisher' = IF finishing THEN "over" ELSE "failing"
  /\ finishing' = TRUE
  /\ UNCHANGED <<persisted, ended, recorded, unannounced, connection, cursor, snapshot, yielded,
                 lastSequence, queue, overflowed, aborted, seen, outcome, received>>

\* What the broadcast loop does with a subscriber that is not skipped.
Takes(c) == Registered(c) /\ ~closed[c] /\ persisted > lastSequence[c]
Fits(c) == Len(queue[c]) < MaxBufferedEvents

\* Mutant: only the terminal event wakes the subscribers that wait.
WokenAtTheEnd(c) == Takes(c) /\ ended

\* #wake: the subscribers the loop has not skipped.
Woken(c) == Takes(c)

\* The broadcast loop of publish, one synchronous pass over the subscribers.
Broadcast ==
  /\ publisher = "recorded"
  /\ queue' = [c \in Clients |-> IF Takes(c) /\ Fits(c) THEN Append(queue[c], persisted) ELSE queue[c]]
  /\ overflowed' = [c \in Clients |-> overflowed[c] \/ (Takes(c) /\ ~Fits(c))]
  /\ closed' = [c \in Clients |-> closed[c] \/ (Takes(c) /\ (ended \/ ~Fits(c)))]
  /\ waiting' = [c \in Clients |-> waiting[c] /\ ~Woken(c)]
  /\ publisher' = IF ended THEN "over" ELSE IF finishing THEN "failing" ELSE "ready"
  /\ UNCHANGED <<persisted, ended, recorded, finishing, unannounced, connection, cursor, snapshot,
                 yielded, lastSequence, aborted, seen, outcome, received, faults>>

-----------------------------------------------------------------------------
(* The subscribers.                                                        *)

\* The generator of client c returns or throws: its finally block removes it.  It
\* is running, so nothing of it waits.
Leave(c, how) ==
  /\ connection' = [connection EXCEPT ![c] = "away"]
  /\ closed' = [closed EXCEPT ![c] = TRUE]
  /\ outcome' = [outcome EXCEPT ![c] = how]

\* The generator's next value is handed to the client.
HandTo(c, event) ==
  /\ lastSequence' = [lastSequence EXCEPT ![c] = event]
  /\ received' = [received EXCEPT ![c] = Append(@, event)]

\* GET /local/runs/:runId/events with the last confirmed event as cursor: the
\* subscriber is registered before the history is read.
Subscribe(c) ==
  /\ connection[c] = "away"
  /\ connection' = [connection EXCEPT ![c] = "reading"]
  /\ cursor' = [cursor EXCEPT ![c] = Confirmed(c)]
  /\ snapshot' = [snapshot EXCEPT ![c] = 0]
  /\ yielded' = [yielded EXCEPT ![c] = 0]
  /\ lastSequence' = [lastSequence EXCEPT ![c] = 0]
  /\ queue' = [queue EXCEPT ![c] = <<>>]
  /\ closed' = [closed EXCEPT ![c] = FALSE]
  /\ overflowed' = [overflowed EXCEPT ![c] = FALSE]
  /\ aborted' = [aborted EXCEPT ![c] = FALSE]
  /\ seen' = [seen EXCEPT ![c] = FALSE]
  /\ waiting' = [waiting EXCEPT ![c] = FALSE]
  /\ outcome' = [outcome EXCEPT ![c] = "open"]
  /\ UNCHANGED <<publication, received, faults>>

\* store.readEvents(runId, afterEventId): the file is read here ...
ReadHistory(c) ==
  /\ connection[c] = "reading"
  /\ connection' = [connection EXCEPT ![c] = "read"]
  /\ snapshot' = [snapshot EXCEPT ![c] = persisted]
  /\ yielded' = [yielded EXCEPT ![c] = cursor[c]]
  /\ UNCHANGED <<publication, cursor, lastSequence, queue, closed, overflowed, aborted, seen, waiting,
                 outcome, received, faults>>

\* ... or cannot be read, or the append it waits for is rejected.
ReadFails(c) ==
  /\ connection[c] \in {"reading", "tail"}
  /\ Fault
  /\ Leave(c, "failed")
  /\ UNCHANGED <<publication, cursor, snapshot, yielded, lastSequence, queue, overflowed, aborted,
                 seen, waiting, received>>

\* Mutant: the live queue is emptied once the history was read.
AfterForgetsQueue(events, event) == <<>>

\* Events of an ascending queue that come after the given one.
After(events, event) ==
  LET stale == CHOOSE k \in 0 .. Len(events) :
                 /\ \A i \in 1 .. k : events[i] <= event
                 /\ \A i \in k + 1 .. Len(events) : events[i] > event
  IN SubSeq(events, stale + 1, Len(events))

\* The last event of the history, 0 for an empty history.
HistoricalLastSequence(c) == IF snapshot[c] > cursor[c] THEN snapshot[c] ELSE 0

\* ... and the generator goes on here: what the history holds leaves the queue.
StartHistory(c) ==
  /\ connection[c] = "read"
  /\ connection' = [connection EXCEPT ![c] = "history"]
  /\ queue' = [queue EXCEPT ![c] = After(@, HistoricalLastSequence(c))]
  /\ UNCHANGED <<publication, cursor, snapshot, yielded, lastSequence, closed, overflowed, aborted,
                 seen, waiting, outcome, received, faults>>

\* The client pulls the next event of the history.
YieldHistory(c) ==
  /\ connection[c] = "history" /\ ~aborted[c]
  /\ yielded[c] < snapshot[c]
  /\ yielded' = [yielded EXCEPT ![c] = @ + 1]
  /\ HandTo(c, yielded[c] + 1)
  /\ UNCHANGED <<publication, connection, cursor, snapshot, queue, closed, overflowed, aborted,
                 seen, waiting, outcome, faults>>

HistoryHasTerminal(c) == HistoricalLastSequence(c) > 0 /\ Terminal(snapshot[c])
NothingAfterCursor(c) == cursor[c] > 0 /\ HistoricalLastSequence(c) = 0

\* The client pulls after the last event of the history: a history with the
\* terminal event ends the stream; an empty one after a cursor makes the
\* generator read the log again; otherwise it asks for the run's metadata.
EndHistory(c) ==
  /\ connection[c] = "history" /\ ~aborted[c]
  /\ yielded[c] = snapshot[c]
  /\ \/ /\ HistoryHasTerminal(c)
        /\ Leave(c, "returned")
        /\ UNCHANGED seen
     \/ /\ NothingAfterCursor(c)
        /\ connection' = [connection EXCEPT ![c] = "tail"]
        /\ UNCHANGED <<closed, seen, outcome>>
     \/ /\ ~HistoryHasTerminal(c) /\ ~NothingAfterCursor(c)
        /\ connection' = [connection EXCEPT ![c] = "checkRun"]
        /\ seen' = [seen EXCEPT ![c] = recorded]
        /\ UNCHANGED <<closed, outcome>>
  /\ UNCHANGED <<publication, cursor, snapshot, yielded, lastSequence, queue, overflowed, aborted,
                 waiting, received, faults>>

\* The second readEvents: the log is read ...
ReadTail(c) ==
  /\ connection[c] = "tail"
  /\ connection' = [connection EXCEPT ![c] = "tailRead"]
  /\ seen' = [seen EXCEPT ![c] = ended]
  /\ UNCHANGED <<publication, cursor, snapshot, yielded, lastSequence, queue, closed, overflowed,
                 aborted, waiting, outcome, received, faults>>

\* ... and the generator goes on: a log that had ended ends the stream.
EndTail(c) ==
  /\ connection[c] = "tailRead"
  /\ \/ /\ seen[c]
        /\ Leave(c, "returned")
        /\ UNCHANGED seen
     \/ /\ ~seen[c]
        /\ connection' = [connection EXCEPT ![c] = "checkRun"]
        /\ seen' = [seen EXCEPT ![c] = recorded]
        /\ UNCHANGED <<closed, outcome>>
  /\ UNCHANGED <<publication, cursor, snapshot, yielded, lastSequence, queue, overflowed, aborted,
                 waiting, received, faults>>

\* After await store.getRun: a recorded terminal type ends the stream, and the
\* live queue is not looked at.
CheckRun(c) ==
  /\ connection[c] = "checkRun"
  /\ \/ seen[c] /\ Leave(c, "returned")
     \/ /\ ~seen[c]
        /\ connection' = [connection EXCEPT ![c] = "live"]
        /\ UNCHANGED <<closed, outcome>>
  /\ UNCHANGED <<publication, cursor, snapshot, yielded, lastSequence, queue, overflowed, aborted,
                 seen, waiting, received, faults>>

Fresh(c, event) == event > lastSequence[c]

\* The client pulls in live mode and the queue is not empty.
Deliver(c) ==
  /\ connection[c] = "live" /\ ~aborted[c] /\ ~waiting[c]
  /\ queue[c] # <<>>
  /\ queue' = [queue EXCEPT ![c] = Tail(@)]
  /\ LET event == Head(queue[c])
     IN \/ /\ ~Fresh(c, event)
           /\ UNCHANGED <<lastSequence, received, connection, closed, outcome>>
        \/ /\ Fresh(c, event)
           /\ HandTo(c, event)
           /\ IF Terminal(event) THEN Leave(c, "returned")
                                 ELSE UNCHANGED <<connection, closed, outcome>>
  /\ UNCHANGED <<publication, cursor, snapshot, yielded, overflowed, aborted, seen, waiting, faults>>

DrainedOutcome(c) == IF overflowed[c] THEN "overflow" ELSE "returned"

\* The client pulls in live mode and the queue is empty: an overflowed
\* subscriber throws, a closed one returns ...
Drained(c) ==
  /\ connection[c] = "live" /\ ~aborted[c] /\ ~waiting[c]
  /\ queue[c] = <<>>
  /\ overflowed[c] \/ closed[c]
  /\ Leave(c, DrainedOutcome(c))
  /\ UNCHANGED <<publication, cursor, snapshot, yielded, lastSequence, queue, overflowed, aborted,
                 seen, waiting, received, faults>>

\* ... and another one waits to be woken.
Wait(c) ==
  /\ connection[c] = "live" /\ ~aborted[c] /\ ~waiting[c]
  /\ queue[c] = <<>> /\ ~overflowed[c] /\ ~closed[c]
  /\ waiting' = [waiting EXCEPT ![c] = TRUE]
  /\ UNCHANGED <<publication, connection, cursor, snapshot, yielded, lastSequence, queue, closed,
                 overflowed, aborted, seen, outcome, received, faults>>

\* The client's connection closes: the abort signal closes and wakes the subscriber.
Abort(c) ==
  /\ Registered(c) /\ ~aborted[c]
  /\ Fault
  /\ aborted' = [aborted EXCEPT ![c] = TRUE]
  /\ closed' = [closed EXCEPT ![c] = TRUE]
  /\ waiting' = [waiting EXCEPT ![c] = FALSE]
  /\ UNCHANGED <<publication, connection, cursor, snapshot, yielded, lastSequence, queue, overflowed,
                 seen, outcome, received>>

\* The route's loop stops at the next event, or the generator returns by itself.
StopAborted(c) ==
  /\ aborted[c] /\ ~waiting[c] /\ connection[c] \in {"history", "live"}
  /\ Leave(c, "aborted")
  /\ UNCHANGED <<publication, cursor, snapshot, yielded, lastSequence, queue, overflowed, aborted,
                 seen, waiting, received, faults>>

-----------------------------------------------------------------------------
\* Mutant: recovery takes the last complete record for a torn one.
RecoveredLengthMinusLast == persisted - 1

RecoveredLength == IF ended THEN persisted ELSE IF persisted = 0 THEN 2 ELSE persisted + 1

\* The process dies and is started again: connections are gone, and recovery
\* gives a run without a terminal event a run.failed (recoverInterruptedRuns).
Restart ==
  /\ Fault
  /\ persisted' = RecoveredLength
  /\ ended' = TRUE
  /\ recorded' = TRUE
  /\ publisher' = "over"
  /\ finishing' = TRUE
  /\ connection' = [c \in Clients |-> "away"]
  /\ closed' = [c \in Clients |-> TRUE]
  /\ waiting' = [c \in Clients |-> FALSE]
  /\ outcome' = [c \in Clients |-> IF Registered(c) THEN "aborted" ELSE outcome[c]]
  /\ UNCHANGED <<cursor, snapshot, yielded, lastSequence, queue, overflowed, aborted, seen, received,
                 unannounced>>

Publish ==
  \/ PersistEvent \/ StreamFails \/ AppendFails \/ FinishWithFailure
  \/ Record \/ AfterPersistFails \/ Broadcast

Iterate(c) ==
  \/ ReadHistory(c) \/ StartHistory(c) \/ YieldHistory(c) \/ EndHistory(c) \/ ReadTail(c)
  \/ EndTail(c) \/ CheckRun(c) \/ Deliver(c) \/ Drained(c) \/ Wait(c) \/ StopAborted(c)

Next ==
  \/ Publish
  \/ \E c \in Clients : Subscribe(c) \/ Iterate(c) \/ ReadFails(c) \/ Abort(c)
  \/ Restart

Spec == Init /\ [][Next]_vars

\* The event loop runs every continuation that is ready, a run's stream ends
\* (by itself or by its timeout), and a client pulls what is there and
\* reconnects as long as it misses events.
FairSpec ==
  /\ Spec
  /\ WF_vars(PersistEvent) /\ WF_vars(FinishWithFailure) /\ WF_vars(Record) /\ WF_vars(Broadcast)
  /\ \A c \in Clients : WF_vars(Subscribe(c) /\ ~Complete(c)) /\ WF_vars(Iterate(c))

-----------------------------------------------------------------------------
(* Properties.                                                             *)

\* Nothing lies between two events but events whose append failed after its line
\* was written: nobody is told of those.
OnlyUnannouncedBetween(former, latter) == \A n \in former + 1 .. latter - 1 : n \in unannounced

\* What a client is handed, over all its connections, never goes back and skips
\* no event but those whose own append failed: the switch from history to live
\* (registration before the read, filter, lastSequence) leaves no gap, whatever
\* is published meanwhile and however a connection ended.  Being handed the same
\* event again is not excluded here: see EachEventOnce.
ReceivedInOrder ==
  \A c \in Clients : \A i \in DOMAIN received[c] :
    LET former == IF i = 1 THEN 0 ELSE received[c][i - 1]
    IN received[c][i] >= former /\ OnlyUnannouncedBetween(former, received[c][i])

\* An event is broadcast after it is persisted, also when the process restarts
\* in between: what a client holds or has queued can be replayed (publish
\* appends first).
DeliveredIsPersisted ==
  \A c \in Clients :
    /\ \A i \in DOMAIN received[c] : received[c][i] \in 1 .. persisted
    /\ \A i \in DOMAIN queue[c] : queue[c][i] \in 1 .. persisted

\* Nobody sleeps through a wake-up: a generator that waits has an empty queue and
\* an open connection, so each event, overflow, failure and abort that reaches a
\* subscriber wakes it (#wake in publish and onAbort).
NoMissedWakeUp ==
  \A c \in Clients :
    waiting[c] => queue[c] = <<>> /\ ~overflowed[c] /\ ~closed[c] /\ ~aborted[c]

\* Nobody waits for an event that will not come: once the publication of the
\* terminal event is over, a live subscriber with an empty queue has been closed
\* (publish closes on terminal, overflow and failure; the checks between history
\* and live catch those who came later).  The exception is a terminal event whose
\* append failed after its line was written: #finishWithFailure only applies it to
\* the metadata, and a live subscriber stays open.
ClosedAtTheEnd ==
  \A c \in Clients :
    connection[c] = "live" /\ queue[c] = <<>> /\ ended /\ publisher = "over" =>
      closed[c] \/ persisted \in unannounced

\* A stream returns without an error only when the run has its terminal event
\* or a publication failed; overflow and a lost client are told apart.
NoEarlyReturn == \A c \in Clients : outcome[c] = "returned" => ended \/ finishing

\* The only event a client is handed twice in a row is the one it resumed
\* from, as the first live event of a connection that had nothing to replay.
RepeatsOnlyTheCursor ==
  [][\A c \in Clients :
       Len(received'[c]) > Len(received[c]) /\ Confirmed(c)' = Confirmed(c)
         => Confirmed(c) = cursor[c] /\ connection[c] = "live" /\ lastSequence[c] = 0]_vars

\* The client sleeps through the end of the run: the terminal event's append failed.
Stranded(c) == waiting[c] /\ persisted \in unannounced

\* A client that reconnects from its last confirmed event gets to the end of the
\* run, through overflows, truncated streams, failed publications and a restart,
\* unless it was live when the append of the terminal event failed after its line
\* was written: then its connection stays open and silent.
EventuallyComplete == \A c \in Clients : ended ~> Complete(c) \/ Stranded(c)

\* requirements.md LR-R5 (resume after the confirmed event, seamless switch) and
\* event-hub.test.ts (bridges history and live events without duplicates): no
\* client is handed an event twice.
EachEventOnce ==
  \A c \in Clients : \A i, j \in DOMAIN received[c] : received[c][i] = received[c][j] => i = j

\* Design, section 9: the queue is drained after the history and the stream is
\* closed after the terminal event was sent, so a stream that returns without
\* an error has delivered the run's terminal event.
CleanEndIsComplete == \A c \in Clients : outcome[c] = "returned" => Complete(c)
=============================================================================
