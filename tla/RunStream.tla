----------------------------- MODULE RunStream -----------------------------
(***************************************************************************)
(* What the stream of a run promises its consumer: it starts with          *)
(* run.started, no request id is open twice, an interaction is resolved    *)
(* only while it is open, the run ends with exactly one terminal event     *)
(* when no interaction is open any more, and nothing follows.              *)
(***************************************************************************)
EXTENDS Naturals, Sequences

CONSTANTS RequestIds, NoRequest

VARIABLE events  \* what was published so far, a sequence of [type, id]

Terminals == {"run.completed", "run.failed", "run.cancelled"}
Reports == {"session.initialized", "assistant", "usage.updated", "tool.started", "tool.settled"}

IsOpen(q) ==
  \E i \in 1..Len(events) :
    /\ events[i] = [type |-> "interaction.requested", id |-> q]
    /\ \A j \in i + 1..Len(events) : events[j] # [type |-> "interaction.resolved", id |-> q]

Running == events # <<>> /\ events[Len(events)].type \notin Terminals

Init == events = <<>>

Publish(type, id) == events' = Append(events, [type |-> type, id |-> id])

Start == events = <<>> /\ Publish("run.started", NoRequest)
Report == Running /\ \E type \in Reports : Publish(type, NoRequest)
Request(q) == Running /\ ~IsOpen(q) /\ Publish("interaction.requested", q)
Resolve(q) == Running /\ IsOpen(q) /\ Publish("interaction.resolved", q)
End == /\ Running
       /\ \A q \in RequestIds : ~IsOpen(q)
       /\ \E type \in Terminals : Publish(type, NoRequest)

Next == Start \/ Report \/ End \/ \E q \in RequestIds : Request(q) \/ Resolve(q)

Spec == Init /\ [][Next]_events
=============================================================================
