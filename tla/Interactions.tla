---------------------------- MODULE Interactions ----------------------------
(***************************************************************************)
(* The interactions of runs that are active together, from the adapter     *)
(* that asks to the client that answers: the supervisor's pending          *)
(* interactions, recorded responses and timers, which it keeps by request  *)
(* id for all runs; the managed run of each run; and each run's adapter,   *)
(* which takes or refuses an answer when it gets to it.                    *)
(*                                                                         *)
(* A step is what runs between two awaits.  The events of a run are those  *)
(* of its interactions and its terminal event; the others pass unseen.     *)
(* An answer stands for the whole serialized response.                     *)
(***************************************************************************)
EXTENDS ManagedRun, Permissions, Naturals, Sequences, SequencesExt

CONSTANTS Runs,
          RequestIds,
          IdsOf,     \* run -> the request ids its adapter may choose
          RequestOf, \* request id -> what is asked under it: kind, tool name, risk
          PolicyChoices, \* model bound: the permission policies the runs may have
          MaxCalls,  \* model bound: calls of respondToInteraction by clients
          NoRun, NoId,
          MaxAsked   \* model bound: interactions of all runs together

ASSUME IdsOfAssumption == IdsOf \in [Runs -> SUBSET RequestIds]
ASSUME RequestOfAssumption ==
  RequestOf \in [RequestIds -> [kind : {"permission", "question"}, name : SUBSET Patterns, risk : Risks]]
ASSUME PolicyAssumption == PolicyChoices \subseteq [Runs -> Policies]
ASSUME BoundsAssumption == MaxAsked \in Nat /\ MaxCalls \in Nat
ASSUME NoRunAssumption == NoRun \notin Runs
ASSUME NoIdAssumption == NoId \notin RequestIds

\* The calls, numbered as they come.
Calls == 1..MaxCalls

VARIABLES
  policy,     \* run -> its permissionPolicy
  step,       \* run -> where #execute stands (Steps)
  hand,       \* run -> the event it handles
  core,       \* run -> its managed run
  ops,        \* run -> request id -> the answer in #responseOperations
  given,      \* run -> request id -> the answer in the managed run's #responses
  asked,      \* run -> the request ids its adapter has used
  open,       \* run -> the interactions its adapter holds open
  outbox,     \* run -> the events of its adapter that were not read
  ended,      \* run -> its adapter has emitted its terminal event
  verdict,    \* run -> request id -> how the adapter settled it
  visible,    \* run -> the interactions whose request is published
  outcome,    \* run -> its published terminal event
  supPending, \* #pendingInteractions: request id -> run
  responses,  \* #responses: request id -> the run and the answer recorded
  timers,     \* run -> its interactionTimers: request id -> off, set, fired
  active,     \* #activeRuns
  call        \* call -> its state, the run that it reached, request id and answer

loop == <<step, hand, core>>
answers == <<ops, given>>
adapter == <<asked, open, outbox, ended, verdict>>
shown == <<visible, outcome>>
supervisor == <<supPending, responses, timers, active>>
vars == <<policy, loop, answers, adapter, shown, supervisor, call>>

\* deciding awaits controller.respond in #handleInteraction, publishing the event
\* hub; failing is #finishWithFailure and the finally block.
Steps == {"streaming", "deciding", "publishing", "failing", "gone"}

\* allow and deny are clients' answers, timeout is the interaction timer's and
\* decision the policy's; the others are the adapter's
\* own, when its run is cancelled or has failed.
Answers == {"allow", "deny", "timeout", "decision"}
Verdicts == Answers \cup {"cancelled", "abandoned"}
None == "none"

EventTypes == {"interaction.requested", "interaction.resolved"} \cup Terminals
Event(type, id) == [type |-> type, id |-> id]
Nothing == Event(None, NoId)
NoRecord == [run |-> NoRun, answer |-> None]

\* What the policy of a run says of an interaction: the supervisor does not know
\* whether a tool stays in the workspace.
Decision(r, q) ==
  DecidePermission(policy[r], RequestOf[q].kind, RequestOf[q].name, RequestOf[q].risk, "unknown")

TypeOK ==
  /\ policy \in [Runs -> Policies]
  /\ step \in [Runs -> Steps]
  /\ hand \in [Runs -> [type : EventTypes \cup {None}, id : RequestIds \cup {NoId}]]
  /\ core \in [Runs -> CoreType(RequestIds)]
  /\ ops \in [Runs -> [RequestIds -> Answers \cup {None}]]
  /\ given \in [Runs -> [RequestIds -> Answers \cup {None}]]
  /\ asked \in [Runs -> SUBSET RequestIds] /\ open \in [Runs -> SUBSET RequestIds]
  /\ outbox \in [Runs -> Seq([type : EventTypes, id : RequestIds \cup {NoId}])]
  /\ ended \in [Runs -> BOOLEAN]
  /\ verdict \in [Runs -> [RequestIds -> Verdicts \cup {None}]]
  /\ visible \in [Runs -> SUBSET RequestIds]
  /\ outcome \in [Runs -> Terminals \cup {None}]
  /\ supPending \in [RequestIds -> Runs \cup {NoRun}]
  /\ responses \in [RequestIds -> [run : Runs \cup {NoRun}, answer : Answers \cup {None}]]
  /\ timers \in [Runs -> [RequestIds -> {"off", "set", "fired"}]]
  /\ active \subseteq Runs
  /\ call \in [Calls -> [state : {"unsent", "waiting", "taken", "refused"},
                         run : Runs \cup {NoRun}, id : RequestIds \cup {NoId},
                         answer : Answers \cup {None}]]

Init ==
  /\ policy \in PolicyChoices
  /\ step = [r \in Runs |-> "streaming"]
  /\ hand = [r \in Runs |-> Nothing]
  /\ core = [r \in Runs |-> [NewCore EXCEPT !.started = TRUE]]
  /\ ops = [r \in Runs |-> [q \in RequestIds |-> None]]
  /\ given = [r \in Runs |-> [q \in RequestIds |-> None]]
  /\ asked = [r \in Runs |-> {}] /\ open = [r \in Runs |-> {}]
  /\ outbox = [r \in Runs |-> <<>>] /\ ended = [r \in Runs |-> FALSE]
  /\ verdict = [r \in Runs |-> [q \in RequestIds |-> None]]
  /\ visible = [r \in Runs |-> {}] /\ outcome = [r \in Runs |-> None]
  /\ supPending = [q \in RequestIds |-> NoRun]
  /\ responses = [q \in RequestIds |-> NoRecord]
  /\ timers = [r \in Runs |-> [q \in RequestIds |-> "off"]]
  /\ active = Runs
  /\ call = [c \in Calls |-> [state |-> "unsent", run |-> NoRun, id |-> NoId, answer |-> None]]

-----------------------------------------------------------------------------
(* The adapter.                                                            *)

Ask(r, q) ==
  /\ ~ended[r]
  /\ q \in IdsOf[r] \ asked[r]
  /\ Cardinality(UNION {{s} \X asked[s] : s \in Runs}) < MaxAsked
  /\ asked' = [asked EXCEPT ![r] = @ \cup {q}]
  /\ open' = [open EXCEPT ![r] = @ \cup {q}]
  /\ outbox' = [outbox EXCEPT ![r] = Append(@, Event("interaction.requested", q))]
  /\ UNCHANGED <<policy, loop, answers, ended, verdict, shown, supervisor, call>>

Complete(r) ==
  /\ ~ended[r] /\ open[r] = {} /\ asked[r] # {}
  /\ outbox' = [outbox EXCEPT ![r] = Append(@, Event("run.completed", NoId))]
  /\ ended' = [ended EXCEPT ![r] = TRUE]
  /\ UNCHANGED <<policy, loop, answers, asked, open, verdict, shown, supervisor, call>>

\* Mutant: a cancel does not resolve the interactions it finds open.
ResolvingNone(r) == <<>>

\* The events by which a cancel resolves what is open.
Resolving(r) == [i \in 1..Cardinality(open[r]) |-> Event("interaction.resolved", SetToSeq(open[r])[i])]

\* Mutant: the verdict of a cancel is the empty one.
SettleOpenWithNothing(r, v) ==
  /\ verdict' = [verdict EXCEPT ![r] = [q \in RequestIds |-> IF q \in open[r] THEN NoId ELSE @[q]]]
  /\ open' = [open EXCEPT ![r] = {}]

SettleOpen(r, v) ==
  /\ verdict' = [verdict EXCEPT ![r] = [q \in RequestIds |-> IF q \in open[r] THEN v ELSE @[q]]]
  /\ open' = [open EXCEPT ![r] = {}]

\* A client, the run timer or shutdown cancels: the adapter resolves what is open
\* and ends the run, unless it has ended it.  A run that never asks touches nothing
\* here and is left alone.
Cancel(r) ==
  /\ r \in active /\ asked[r] # {} /\ MayCancel(core[r])
  /\ core' = [core EXCEPT ![r].cancelSent = TRUE]
  /\ IF ended[r]
     THEN UNCHANGED adapter
     ELSE /\ SettleOpen(r, "cancelled")
          /\ outbox' = [outbox EXCEPT ![r] = @ \o Resolving(r) \o <<Event("run.cancelled", NoId)>>]
          /\ ended' = [ended EXCEPT ![r] = TRUE]
          /\ UNCHANGED asked
  /\ UNCHANGED <<policy, step, hand, answers, shown, supervisor, call>>

-----------------------------------------------------------------------------
(* An answer on its way: the supervisor, the managed run, the adapter.     *)

\* ManagedAdapterRun.respond: the answer that was taken is confirmed and another
\* one refused; so it is with an answer in progress; a new one is sent.
CoreReply(r, q, a) ==
  CASE given[r][q] # None -> IF given[r][q] = a THEN "taken" ELSE "refused"
    [] given[r][q] = None /\ (core[r].terminalSeen \/ core[r].disposed) -> "refused"
    [] MayRespond(core[r], q) /\ ops[r][q] = None -> "sent"
    [] OTHER -> IF ops[r][q] = a THEN "waiting" ELSE "refused"

Recorded(q) == responses[q] # NoRecord

\* Mutant: a recorded response is returned for any answer.
ReplyOfAnyRecord(q, a) ==
  IF Recorded(q)
  THEN IF ops[responses[q].run][q] # None THEN "waiting" ELSE "taken"
  ELSE IF supPending[q] \in active THEN CoreReply(supPending[q], q, a) ELSE "refused"

\* RunSupervisor.respondToInteraction: the record of the request id comes first.
Reply(q, a) ==
  IF Recorded(q)
  THEN CASE responses[q].answer # a -> "refused"
         [] ops[responses[q].run][q] = a -> "waiting"
         [] OTHER -> "taken"
  ELSE IF supPending[q] \in active THEN CoreReply(supPending[q], q, a) ELSE "refused"

Reached(q) == IF Recorded(q) THEN responses[q].run ELSE supPending[q]

\* What the reply changes: a new answer is in progress and recorded.
Hand(q, a) ==
  IF Reply(q, a) = "sent"
  THEN /\ ops' = [ops EXCEPT ![supPending[q]][q] = a]
       /\ responses' = [responses EXCEPT ![q] = [run |-> supPending[q], answer |-> a]]
  ELSE UNCHANGED <<ops, responses>>

\* Clients differ only in whether their answers are equal: the first says allow.
Respond(c, q, a) ==
  /\ c = 1 => a = "allow"
  /\ call[c].state = "unsent" /\ \A d \in 1..c - 1 : call[d].state # "unsent"
  /\ Hand(q, a)
  /\ call' = [call EXCEPT ![c] =
                [state |-> IF Reply(q, a) = "sent" THEN "waiting" ELSE Reply(q, a),
                 run |-> Reached(q), id |-> q, answer |-> a]]
  /\ UNCHANGED <<policy, loop, given, adapter, shown, supPending, timers, active>>

\* Mutant: the timer of an interaction answers nothing.
TimerAnswersNothing(r, q) ==
  /\ timers[r][q] = "set"
  /\ timers' = [timers EXCEPT ![r][q] = "fired"]
  /\ UNCHANGED <<policy, loop, answers, adapter, shown, supPending, responses, active, call>>

\* The interaction timer answers as a client does, and nobody waits for it.
TimerFires(r, q) ==
  /\ timers[r][q] = "set"
  /\ timers' = [timers EXCEPT ![r][q] = "fired"]
  /\ Hand(q, "timeout")
  /\ UNCHANGED <<policy, loop, given, adapter, shown, supPending, active, call>>

\* The calls that wait for an answer are told how it went.
Told(r, q, state) ==
  [c \in Calls |->
     IF call[c].state = "waiting" /\ call[c].run = r /\ call[c].id = q
     THEN [call[c] EXCEPT !.state = state] ELSE call[c]]

\* The loop gives up: the managed run disposes of the adapter on the way out.
Throw(r) ==
  /\ step' = [step EXCEPT ![r] = "failing"]
  /\ hand' = [hand EXCEPT ![r] = Nothing]
  /\ SettleOpen(r, "abandoned")
  /\ outbox' = [outbox EXCEPT ![r] = <<>>]
  /\ ended' = [ended EXCEPT ![r] = TRUE]
  /\ UNCHANGED asked

Deciding(r, q) == step[r] = "deciding" /\ hand[r].id = q

\* The adapter takes the answer of an open interaction and resolves it.
TakeAnswer(r, q) ==
  /\ ops[r][q] # None /\ q \in open[r]
  /\ verdict' = [verdict EXCEPT ![r][q] = ops[r][q]]
  /\ open' = [open EXCEPT ![r] = @ \ {q}]
  /\ outbox' = [outbox EXCEPT ![r] = Append(@, Event("interaction.resolved", q))]
  /\ given' = [given EXCEPT ![r][q] = ops[r][q]]
  /\ core' = [core EXCEPT ![r] = Answered(@, q)]
  /\ ops' = [ops EXCEPT ![r][q] = None]
  /\ call' = Told(r, q, "taken")
  /\ step' = [step EXCEPT ![r] = IF Deciding(r, q) THEN "publishing" ELSE @]
  /\ UNCHANGED <<policy, hand, asked, ended, shown, supervisor>>

\* It refuses one that comes too late; the record of the answer is deleted.  The
\* loop that waits for its own decision throws.
RefuseAnswer(r, q) ==
  /\ ops[r][q] # None /\ q \notin open[r]
  /\ ops' = [ops EXCEPT ![r][q] = None]
  /\ responses' = [responses EXCEPT ![q] = IF @ = [run |-> r, answer |-> ops[r][q]] THEN NoRecord ELSE @]
  /\ call' = Told(r, q, "refused")
  /\ IF Deciding(r, q)
     THEN Throw(r) /\ core' = [core EXCEPT ![r].disposed = TRUE]
     ELSE UNCHANGED <<loop, adapter>>
  /\ UNCHANGED <<policy, given, shown, supPending, timers, active>>

-----------------------------------------------------------------------------
(* The loop of #execute.                                                   *)

\* An event that the managed run refuses, or a request that cannot be handled,
\* ends the loop.
Fails(r) ==
  /\ Throw(r)
  /\ core' = [core EXCEPT ![r].disposed = TRUE]
  /\ UNCHANGED <<answers, supervisor>>

\* #handleInteraction when the policy decides: the decision is sent without
\* the client being asked.
Decide(r, q) ==
  /\ ops' = [ops EXCEPT ![r][q] = "decision"]
  /\ core' = [core EXCEPT ![r] = Passed(@, Head(outbox[r]))]
  /\ step' = [step EXCEPT ![r] = "deciding"]
  /\ hand' = [hand EXCEPT ![r] = Head(outbox[r])]
  /\ outbox' = [outbox EXCEPT ![r] = Tail(@)]
  /\ UNCHANGED <<given, asked, open, ended, verdict, supervisor>>

\* #handleInteraction when the policy prompts: the interaction is pending,
\* for the client and the timer, before its event is published.
Prompt(r, q) ==
  IF supPending[q] # NoRun
  THEN Fails(r)
  ELSE /\ supPending' = [supPending EXCEPT ![q] = r]
       /\ timers' = [timers EXCEPT ![r][q] = "set"]
       /\ core' = [core EXCEPT ![r] = Passed(@, Head(outbox[r]))]
       /\ step' = [step EXCEPT ![r] = "publishing"]
       /\ hand' = [hand EXCEPT ![r] = Head(outbox[r])]
       /\ outbox' = [outbox EXCEPT ![r] = Tail(@)]
       /\ UNCHANGED <<answers, asked, open, ended, verdict, responses, active>>

\* The next event of the adapter.
Receive(r) ==
  /\ step[r] = "streaming" /\ outbox[r] # <<>>
  /\ LET e == Head(outbox[r]) IN
       CASE ~Admits(core[r], e) -> Fails(r)
         [] Admits(core[r], e) /\ e.type = "interaction.requested" ->
              IF Decision(r, e.id) = "prompt" THEN Prompt(r, e.id) ELSE Decide(r, e.id)
         [] OTHER ->
              /\ core' = [core EXCEPT ![r] = Passed(@, e)]
              /\ step' = [step EXCEPT ![r] = "publishing"]
              /\ hand' = [hand EXCEPT ![r] = e]
              /\ outbox' = [outbox EXCEPT ![r] = Tail(@)]
              /\ UNCHANGED <<answers, asked, open, ended, verdict, supervisor>>
  /\ UNCHANGED <<policy, shown, call>>

\* Mutant: a resolved interaction takes the run's others with it.
ClearedAll(r, q) == {p \in RequestIds : timers[r][p] # "off"} \cup {q}

\* The request ids that #clearInteraction is called for, one for a resolved event.
Cleared(r, q) == {q}

\* #clearInteraction: the timer of the run and the entry of the request id, which
\* may be another run's.
Clear(r, ids) ==
  /\ timers' = [timers EXCEPT ![r] = [p \in RequestIds |-> IF p \in ids THEN "off" ELSE @[p]]]
  /\ supPending' = [p \in RequestIds |-> IF p \in ids THEN NoRun ELSE supPending[p]]

\* #releaseActive.
Release(r) ==
  /\ Clear(r, {q \in RequestIds : timers[r][q] # "off"})
  /\ active' = active \ {r}

\* The event is persisted and broadcast, and the supervisor acts on it.
Publish(r) ==
  /\ step[r] = "publishing"
  /\ hand' = [hand EXCEPT ![r] = Nothing]
  /\ LET e == hand[r] IN
       \/ /\ e.type = "interaction.requested"
          /\ visible' = [visible EXCEPT ![r] = @ \cup {e.id}]
          /\ step' = [step EXCEPT ![r] = "streaming"]
          /\ UNCHANGED <<outcome, supPending, timers, active>>
       \/ /\ e.type = "interaction.resolved"
          /\ Clear(r, Cleared(r, e.id))
          /\ step' = [step EXCEPT ![r] = "streaming"]
          /\ UNCHANGED <<shown, active>>
       \/ /\ e.type \in Terminals
          /\ outcome' = [outcome EXCEPT ![r] = e.type]
          /\ Release(r)
          /\ step' = [step EXCEPT ![r] = "gone"]
          /\ UNCHANGED visible
  /\ UNCHANGED <<policy, core, answers, adapter, responses, call>>

\* #finishWithFailure and the finally block.
FinishWithFailure(r) ==
  /\ step[r] = "failing"
  /\ outcome' = [outcome EXCEPT ![r] = "run.failed"]
  /\ Release(r)
  /\ step' = [step EXCEPT ![r] = "gone"]
  /\ UNCHANGED <<policy, hand, core, answers, adapter, visible, responses, call>>

-----------------------------------------------------------------------------
Settle(r, q) == TakeAnswer(r, q) \/ RefuseAnswer(r, q)
Execute(r) == Receive(r) \/ Publish(r) \/ FinishWithFailure(r)

Next ==
  \/ \E r \in Runs : Execute(r) \/ Complete(r) \/ Cancel(r)
  \/ \E r \in Runs, q \in RequestIds : Ask(r, q) \/ Settle(r, q) \/ TimerFires(r, q)
  \/ \E c \in Calls, q \in RequestIds, a \in {"allow", "deny"} : Respond(c, q, a)

Spec == Init /\ [][Next]_vars

\* The event loop runs what is ready, an adapter gets to the answers it is given,
\* and the interaction timers fire.  Clients need not answer.  Each kind of step is
\* taken finitely often, so that one condition for all runs is as good as one each.
FairSpec ==
  /\ Spec
  /\ WF_vars(\E r \in Runs : Execute(r))
  /\ WF_vars(\E r \in Runs, q \in RequestIds : Settle(r, q))
  /\ WF_vars(\E r \in Runs, q \in RequestIds : TimerFires(r, q))

-----------------------------------------------------------------------------
(* Properties.  Ids that adapters of several runs use are out of the       *)
(* promises: records and pending entries are kept by request id alone.     *)

Shared == {q \in RequestIds : \E r, s \in Runs : r # s /\ q \in IdsOf[r] \cap IdsOf[s]}
OwnerOf(q) == CHOOSE r \in Runs : q \in IdsOf[r]
Private == {q \in RequestIds \ Shared : \E r \in Runs : q \in IdsOf[r]}
PrivateCalls == {c \in Calls : call[c].id \in Private \cup {NoId}}

\* However clients, the timer, the policy and a cancel race, an interaction gets
\* one verdict, and a client that is told so gave it: a repeated answer gets the
\* first one's result, a different one is refused, whether the first is in
\* progress or done (respondToInteraction, ManagedAdapterRun.respond).
AnswerOnceSpec ==
  INSTANCE AnswerOnce WITH
    Interactions <- Private, Verdicts <- Verdicts, Undecided <- None,
    verdict <- [q \in Private |-> verdict[OwnerOf(q)][q]],
    told <- [c \in Calls |-> IF c \in PrivateCalls
                             THEN [state |-> call[c].state, interaction |-> call[c].id, answer |-> call[c].answer]
                             ELSE [state |-> "refused", interaction |-> NoId, answer |-> None]]
ImplementsAnswerOnce == AnswerOnceSpec!Spec

\* A pending interaction belongs to an active run, which has a timer for it: none
\* is left behind when a run ends or fails.  And an interaction that a client can
\* see and that the adapter holds open is pending, also while another one of the
\* run is resolved (#handleInteraction, #clearInteraction, #releaseActive).
PendingIsAnswerable ==
  /\ \A q \in RequestIds : supPending[q] # NoRun => supPending[q] \in active /\ timers[supPending[q]][q] # "off"
  /\ \A r \in active, q \in Private :
       Decision(r, q) = "prompt" /\ q \in visible[r] \cap open[r] =>
         supPending[q] = r /\ timers[r][q] # "off" /\ q \in core[r].pending

\* No race of answers, timers and cancels fails a run whose clients are asked; a
\* run whose policy decides fails when a cancel has resolved the interaction
\* before the decision (#handleInteraction).
RacesDoNotFailRuns ==
  \A r \in Runs :
    outcome[r] = "run.failed" /\ asked[r] \subseteq Private =>
      \E q \in asked[r] : Decision(r, q) # "prompt" /\ verdict[r][q] = "cancelled"

\* An interaction that is open and visible gets its verdict in the end, from the
\* timer if from nobody else (#handleInteraction).
InteractionsAreSettled ==
  \A r \in Runs, q \in Private : q \in visible[r] ~> verdict[r][q] # None
=============================================================================
