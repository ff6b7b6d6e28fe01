----------------------------- MODULE ManagedRun -----------------------------
(***************************************************************************)
(* The managed run of the harness core, which stands between an adapter's  *)
(* runtime and the supervisor: its event loop checks the order of the      *)
(* adapter's events and keeps the interactions that may be answered, and   *)
(* its calls reach the runtime at most once (ManagedAdapterRun).           *)
(*                                                                         *)
(* It is a record, so that a module can hold one or one for each run.  An  *)
(* event is a record with a type and an id, the request id of an           *)
(* interaction.  The sequence numbers, which adapters take from one        *)
(* counter per event pushed, are the positions of the events.              *)
(***************************************************************************)
EXTENDS FiniteSets

Terminals == {"run.completed", "run.failed", "run.cancelled"}

CoreType(RequestIds) ==
  [started : BOOLEAN,                \* an event has passed (expectedSequence > 1)
   pending : SUBSET RequestIds,      \* the keys of #pending
   answered : SUBSET RequestIds,     \* the keys of #responses
   terminalSeen : BOOLEAN,           \* #terminalSeen
   cancelSent : BOOLEAN,             \* #cancelPromise is set
   disposed : BOOLEAN]               \* #disposePromise is set

NewCore ==
  [started |-> FALSE, pending |-> {}, answered |-> {}, terminalSeen |-> FALSE,
   cancelSent |-> FALSE, disposed |-> FALSE]

\* Mutant: a request id that is open or answered may be used again.
AdmitsAgain(core, e) ==
  /\ core.started \/ e.type = "run.started"
  /\ ~core.terminalSeen
  /\ e.type = "interaction.resolved" => e.id \in core.pending
  /\ e.type \in Terminals => core.pending = {}

\* The protocol checks of #iterate; an event that fails one ends the loop.
Admits(core, e) ==
  /\ core.started \/ e.type = "run.started"
  /\ ~core.terminalSeen
  /\ e.type = "interaction.requested" => e.id \notin core.pending \cup core.answered
  /\ e.type = "interaction.resolved" => e.id \in core.pending
  /\ e.type \in Terminals => core.pending = {}

\* #iterate passes an event on to its consumer.
Passed(core, e) ==
  [core EXCEPT !.started = TRUE,
               !.pending = CASE e.type = "interaction.requested" -> @ \cup {e.id}
                             [] e.type = "interaction.resolved" -> @ \ {e.id}
                             [] OTHER -> @,
               !.terminalSeen = e.type \in Terminals]

\* respond() hands an answer to the runtime; the same answer once more is
\* confirmed without it and another one refused.
MayRespond(core, q) ==
  q \in core.pending /\ q \notin core.answered /\ ~core.terminalSeen /\ ~core.disposed

Answered(core, q) == [core EXCEPT !.answered = @ \cup {q}]

\* cancel() reaches the runtime.
MayCancel(core) == ~core.terminalSeen /\ ~core.disposed /\ ~core.cancelSent
=============================================================================
