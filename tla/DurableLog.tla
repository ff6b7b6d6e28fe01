----------------------------- MODULE DurableLog -----------------------------
(***************************************************************************)
(* What the state store promises about the event log of a run: it grows    *)
(* by one event at a time, starting with run.started and ending with its   *)
(* only terminal event, and an event whose append was acknowledged is      *)
(* never lost.  An event may be in the log without having been             *)
(* acknowledged, when a crash or an error came in between.                 *)
(***************************************************************************)
EXTENDS Naturals, Sequences

CONSTANT Runs

VARIABLES log,    \* run -> the sequence of the kinds of its events
          acked   \* run -> how many of them were acknowledged

vars == <<log, acked>>

Terminals == {"completed", "failed", "cancelled"}
Kinds == {"started", "event"} \cup Terminals

Ended(events) == events # <<>> /\ events[Len(events)] \in Terminals

Init == /\ log = [r \in Runs |-> <<>>]
        /\ acked = [r \in Runs |-> 0]

\* The log of a run takes its next event, acknowledged or not.
Persist(r) ==
  /\ ~Ended(log[r])
  /\ \E kind \in Kinds : /\ kind = "started" <=> log[r] = <<>>
                         /\ log'[r] = Append(log[r], kind)
  /\ acked'[r] \in {acked[r], Len(log[r]) + 1}

Keep(r) == log'[r] = log[r] /\ acked'[r] = acked[r]

\* A crash may leave an event in several logs at once.
Next ==
  /\ log' \in [Runs -> Seq(Kinds)] /\ acked' \in [Runs -> Nat]
  /\ \A r \in Runs : Persist(r) \/ Keep(r)

Spec == Init /\ [][Next]_vars
=============================================================================
