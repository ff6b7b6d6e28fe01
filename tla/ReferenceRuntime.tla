-------------------------- MODULE ReferenceRuntime --------------------------
(* The runtime of the reference adapter, which plays a scenario, under the  *)
(* managed run that consumes it.  Its generator runs only when it is pulled, *)
(* up to its next yield, or to an await: for the answer of the client or for *)
(* a cancel.                                                                 *)
EXTENDS ManagedRun, Naturals, Sequences

CONSTANTS RunRequest,\* the request id of the run's interaction
          NoId,
          Chunks     \* model bound: the chunks of a text

VARIABLES
  scenario,   \* #scenario.kind
  managed,    \* the managed run
  place,      \* where #run stands: idle, yielded, done; #activeRunId is set when yielded
  taken,      \* how many events the managed run has pulled
  released,   \* #cancellation is resolved
  verdict,    \* what the promise of the interaction was resolved with, or none
  retired     \* #disposed

vars == <<scenario, managed, place, taken, released, verdict, retired>>

Asking == {"permission", "question"}
Scenarios == Asking \cup {"text", "tool", "failure", "wait-for-cancel"}

TypeOK ==
  /\ scenario \in Scenarios
  /\ managed \in CoreType({RunRequest})
  /\ place \in {"idle", "yielded", "done"}
  /\ taken \in Nat
  /\ released \in BOOLEAN /\ retired \in BOOLEAN
  /\ verdict \in {"none", "accepted", "refused"}

Init ==
  /\ scenario \in Scenarios
  /\ managed = NewCore
  /\ place = "idle" /\ taken = 0
  /\ released = FALSE /\ verdict = "none" /\ retired = FALSE

-----------------------------------------------------------------------------

Report(type) == [type |-> type, id |-> NoId]
Interaction(type) == [type |-> type, id |-> RunRequest]

\* What follows the await of the client's answer.
AfterVerdict ==
  CASE verdict = "none" -> <<>>
    [] verdict = "accepted" ->
         <<Interaction("interaction.resolved"), Report("assistant"), Report("run.completed")>>
    [] verdict = "refused" -> <<Interaction("interaction.resolved"), Report("run.failed")>>

\* The events up to the next await that is not over.
Script ==
  <<Report("run.started"), Report("session.initialized")>> \o
  CASE scenario = "text" ->
         [i \in 1..Chunks + 1 |-> Report("assistant")] \o <<Report("usage.updated"), Report("run.completed")>>
    [] scenario = "tool" -> <<Report("tool.started"), Report("tool.settled"), Report("run.completed")>>
    [] scenario \in Asking -> <<Interaction("interaction.requested")>> \o AfterVerdict
    [] scenario = "failure" -> <<Report("run.failed")>>
    [] scenario = "wait-for-cancel" -> IF released THEN <<Report("run.cancelled")>> ELSE <<>>

\* #pendingInteraction is set when the request is yielded, cleared by who settles it.
Pending == scenario \in Asking /\ place = "yielded" /\ taken >= 3 /\ verdict = "none"

\* The stream is over, and the managed run disposes of the runtime.
Over == place' = "done" /\ managed' = [managed EXCEPT !.disposed = TRUE] /\ retired' = TRUE

\* A runtime that is disposed throws before its first event.
Begin ==
  /\ place = "idle"
  /\ IF retired
     THEN Over /\ UNCHANGED taken
     ELSE place' = "yielded" /\ taken' = 1 /\ managed' = Passed(managed, Script[1]) /\ UNCHANGED retired
  /\ UNCHANGED <<scenario, released, verdict>>

\* The managed run passes the next event on, or refuses it and closes the stream.
Pull ==
  /\ place = "yielded" /\ taken < Len(Script)
  /\ taken' = taken + 1
  /\ IF Admits(managed, Script[taken + 1])
     THEN managed' = Passed(managed, Script[taken + 1]) /\ UNCHANGED <<place, retired>>
     ELSE Over
  /\ UNCHANGED <<scenario, released, verdict>>

\* The last event was pulled, or the supervisor's loop throws at an event.
Finish ==
  /\ place = "yielded" /\ managed.terminalSeen
  /\ Over /\ UNCHANGED <<scenario, taken, released, verdict>>

Close ==
  /\ place = "yielded" /\ ~managed.terminalSeen
  /\ Over /\ UNCHANGED <<scenario, taken, released, verdict>>

\* A permission is accepted by allow and a question by the answers it asks for.
Respond(answer) ==
  /\ MayRespond(managed, RunRequest) /\ Pending
  /\ verdict' = answer
  /\ managed' = Answered(managed, RunRequest)
  /\ UNCHANGED <<scenario, place, taken, released, retired>>

\* A run that is active stops waiting; what it asks for later it waits for again.
Settle ==
  IF place = "yielded"
  THEN released' = TRUE /\ verdict' = IF Pending THEN "refused" ELSE verdict
  ELSE UNCHANGED <<released, verdict>>

Cancel ==
  /\ MayCancel(managed)
  /\ managed' = [managed EXCEPT !.cancelSent = TRUE]
  /\ Settle
  /\ UNCHANGED <<scenario, place, taken, retired>>

Dispose ==
  /\ ~managed.disposed
  /\ managed' = [managed EXCEPT !.disposed = TRUE] /\ retired' = TRUE
  /\ Settle
  /\ UNCHANGED <<scenario, place, taken>>

Next ==
  \/ Begin \/ Pull \/ Finish \/ Close
  \/ Respond("accepted") \/ Respond("refused") \/ Cancel \/ Dispose

\* The supervisor pulls until the stream is over.
Fairness == WF_vars(Pull) /\ WF_vars(Finish)

Spec == Init /\ [][Next]_vars /\ Fairness

-----------------------------------------------------------------------------
(* Properties.                                                             *)

RunStreamSpec == INSTANCE RunStream
                   WITH events <- SubSeq(Script, 1, taken), RequestIds <- {RunRequest}, NoRequest <- NoId

\* The events of the adapter itself, before the managed run looks at them, keep
\* the order that the protocol promises, whoever settles the interaction (#run).
ImplementsRunStream == RunStreamSpec!Spec

\* A run that waits for nobody, or whose wait was ended by an answer, a cancel or
\* a disposal, is over in the end (#run, cancel, dispose).
NothingToWaitFor ==
  /\ place = "yielded"
  /\ \/ scenario \in {"text", "tool", "failure"}
     \/ scenario = "wait-for-cancel" /\ released
     \/ verdict # "none"
RunEnds == NothingToWaitFor ~> place = "done"
=============================================================================
