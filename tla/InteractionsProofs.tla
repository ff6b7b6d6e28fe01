------------------------- MODULE InteractionsProofs -------------------------
(***************************************************************************)
(* Proofs about Interactions for any runs, request ids and policies and    *)
(* any number of clients' calls.                                           *)
(***************************************************************************)
EXTENDS Interactions, TLAPS, FiniteSetTheorems

-----------------------------------------------------------------------------
(* The inductive invariant.                                                *)

Over == {"failing", "gone"}
Published == EventTypes \ {"run.failed"}

\* What is kept about an interaction is about one that its run has asked.
AskedInv ==
  \A r \in Runs :
    /\ IsFiniteSet(asked[r])
    /\ asked[r] \subseteq IdsOf[r]
    /\ open[r] \cup core[r].pending \cup core[r].answered \cup visible[r] \subseteq asked[r]
    /\ step[r] \in {"deciding", "publishing"} /\ hand[r].type \notin Terminals => hand[r].id \in asked[r]
    /\ \A q \in RequestIds :
         q \notin asked[r] =>
           ops[r][q] = None /\ given[r][q] = None /\ verdict[r][q] = None /\ timers[r][q] = "off"

\* The adapter settles an interaction when it closes it, with the answer that the
\* managed run was given if there is one.
VerdictInv ==
  \A r \in Runs :
    /\ ended[r] => open[r] = {}
    /\ core[r].disposed => step[r] \in Over /\ ended[r]
    /\ \A q \in RequestIds :
         /\ q \in open[r] => verdict[r][q] = None
         /\ q \in asked[r] \ open[r] => verdict[r][q] # None
         /\ verdict[r][q] \in Answers => given[r][q] = verdict[r][q]
         /\ verdict[r][q] = "abandoned" => core[r].disposed
         /\ given[r][q] # None => verdict[r][q] = given[r][q] /\ q \in core[r].answered

Requested(q) == Event("interaction.requested", q)
Resolved(q) == Event("interaction.resolved", q)
Live(b) == \A i \in 1..Len(b) : b[i].type \notin Terminals
In(b, e) == \E i \in 1..Len(b) : b[i] = e

\* The events that were not read, where A is what the run has asked, O what is open
\* and P what is pending in the managed run: an interaction is requested once, before
\* it is pending, and resolved once, when it is not open any more, and nothing follows
\* the terminal event.
BoxOK(b, A, O, P) ==
  /\ \A i \in 1..Len(b) :
       /\ b[i].type \in Published
       /\ b[i].type \in Terminals => i = Len(b)
       /\ b[i].type \notin Terminals => b[i].id \in A /\ \A j \in 1..Len(b) : b[j] = b[i] => j = i
       /\ b[i].type = "interaction.resolved" =>
            b[i].id \notin O /\ (b[i].id \in P \/ \E j \in 1..i - 1 : b[j] = Requested(b[i].id))
  /\ \A q \in A :
       /\ In(b, Requested(q)) => q \notin P
       /\ (q \in P \/ In(b, Requested(q))) => (q \in O \/ In(b, Resolved(q)))
       /\ q \in O => q \in P \/ In(b, Requested(q))

\* What was not read is in order, and nobody has an answer to it.
OutboxOf(r) ==
  /\ (core[r].disposed \/ core[r].terminalSeen) => ended[r] /\ outbox[r] = <<>>
  /\ core[r].disposed \/ BoxOK(outbox[r], asked[r], open[r], core[r].pending)
  /\ ended[r] \/ Live(outbox[r])
  /\ \A q \in RequestIds :
       In(outbox[r], Requested(q)) =>
         q \notin core[r].answered /\ ops[r][q] = None /\ given[r][q] = None /\ supPending[q] # r
OutboxInv == \A r \in Runs : OutboxOf(r)

\* Where the loop stands: the interaction it decides is one that the adapter was
\* not given an answer of, and the event it publishes is one that has passed.
LoopInv ==
  \A r \in Runs :
    /\ r \in active <=> step[r] # "gone"
    /\ core[r].started
    /\ core[r].terminalSeen =>
         /\ core[r].pending = {}
         /\ step[r] = "publishing" => hand[r].type \in Terminals
         /\ step[r] \in {"publishing", "gone"}
    /\ step[r] = "failing" => core[r].disposed
    /\ outcome[r] = "run.failed" => core[r].disposed
    /\ step[r] = "deciding" =>
         /\ hand[r].type = "interaction.requested" /\ Decision(r, hand[r].id) # "prompt"
         /\ given[r][hand[r].id] = None
    /\ step[r] = "publishing" =>
         /\ hand[r].type \in Published
         /\ hand[r].type \in Terminals => core[r].terminalSeen
         /\ hand[r].type = "interaction.resolved" => hand[r].id \notin open[r]

\* A pending entry is one of an active run that asked, with a timer.
PendingInv ==
  \A q \in RequestIds :
    supPending[q] # NoRun =>
      supPending[q] \in active /\ q \in asked[supPending[q]] /\ timers[supPending[q]][q] # "off"

\* The request of the interaction is published or is being published.
Shown(r, q) == q \in visible[r] \/ (step[r] = "publishing" /\ hand[r] = Requested(q))

\* An open interaction stays pending once it is shown.
ShownInv ==
  \A r \in active, q \in Private :
    Decision(r, q) = "prompt" /\ q \in open[r] /\ Shown(r, q) =>
      supPending[q] = r /\ timers[r][q] # "off" /\ q \in core[r].pending

\* A recorded response is in progress or was given.
RecordOf(q) ==
  LET s == responses[q].run
      a == responses[q].answer
  IN s \in Runs /\ a # None /\ q \in asked[s] /\ (ops[s][q] = a \/ given[s][q] = a)
RecordInv == \A q \in RequestIds : Recorded(q) => RecordOf(q)

\* A call that waits waits for the answer in progress.
WaitingInv ==
  \A c \in Calls :
    /\ call[c].state = "unsent" => call[c].id = NoId
    /\ call[c].state # "unsent" => call[c].id \in RequestIds
    /\ call[c].state = "waiting" =>
         /\ call[c].run \in Runs /\ call[c].answer # None
         /\ ops[call[c].run][call[c].id] = call[c].answer

\* A run that failed is one whose decision came after a cancel.
FailureOf(r) ==
  core[r].disposed /\ asked[r] \subseteq Private =>
    \E q \in asked[r] : Decision(r, q) # "prompt" /\ verdict[r][q] = "cancelled"
FailureInv == \A r \in Runs : FailureOf(r)

IInv ==
  /\ TypeOK
  /\ AskedInv
  /\ VerdictInv
  /\ OutboxInv
  /\ LoopInv
  /\ PendingInv
  /\ ShownInv
  /\ RecordInv
  /\ WaitingInv
  /\ FailureInv

-----------------------------------------------------------------------------
(* Steps, one by one: the branches of those that have several.             *)

Events == [type : EventTypes, id : RequestIds \cup {NoId}]

\* An answer is sent to the run s.
Sends(s, q, a) ==
  /\ s \in active /\ supPending[q] = s /\ ~Recorded(q)
  /\ q \in core[s].pending \ core[s].answered /\ ~core[s].terminalSeen /\ ~core[s].disposed
  /\ ops[s][q] = None /\ given[s][q] = None
  /\ ops' = [ops EXCEPT ![s][q] = a]
  /\ responses' = [responses EXCEPT ![q] = [run |-> s, answer |-> a]]

\* Its caller, a client or a timer.
Asks(c, q, a, state) ==
  /\ call[c].state = "unsent"
  /\ call' = [call EXCEPT ![c] = [state |-> state, run |-> Reached(q), id |-> q, answer |-> a]]
  /\ UNCHANGED <<policy, loop, given, adapter, shown, supPending, timers, active>>

Fires(r, q) ==
  /\ timers[r][q] = "set"
  /\ timers' = [timers EXCEPT ![r][q] = "fired"]
  /\ UNCHANGED <<policy, loop, given, adapter, shown, supPending, active, call>>

RespondSends(c, q, a, s) == Sends(s, q, a) /\ Asks(c, q, a, "waiting") /\ Reached(q) = s

\* An answer that was taken before, or is in progress.
RespondKnown(c, q, a, s, state) ==
  /\ s \in Runs /\ Reached(q) = s
  /\ state = "taken" => given[s][q] = a
  /\ state = "waiting" => ops[s][q] = a
  /\ state \in {"taken", "waiting"} => q \in asked[s]
  /\ Asks(c, q, a, state) /\ UNCHANGED <<ops, responses>>

RespondRefused(c, q, a) == Asks(c, q, a, "refused") /\ UNCHANGED <<ops, responses>>

TimerSends(r, q, s) == Sends(s, q, "timeout") /\ Fires(r, q)
TimerIsLate(r, q) == Fires(r, q) /\ UNCHANGED <<ops, responses>>

\* A cancel reaches a run, which has ended or not.
Stops(r) ==
  /\ core' = [core EXCEPT ![r].cancelSent = TRUE]
  /\ UNCHANGED <<policy, step, hand, answers, shown, supervisor, call>>
CancelsLate(r) == Stops(r) /\ UNCHANGED adapter
Cancels(r) ==
  /\ Stops(r) /\ ~ended[r] /\ SettleOpen(r, "cancelled")
  /\ outbox' = [outbox EXCEPT ![r] = @ \o Resolving(r) \o <<Event("run.cancelled", NoId)>>]
  /\ ended' = [ended EXCEPT ![r] = TRUE]
  /\ ~core[r].terminalSeen /\ ~core[r].disposed
  /\ UNCHANGED asked

\* The adapter refuses an answer.
Refuses(r, q) ==
  /\ ops[r][q] # None /\ q \notin open[r]
  /\ ops' = [ops EXCEPT ![r][q] = None]
  /\ responses' = [responses EXCEPT ![q] = IF @ = [run |-> r, answer |-> ops[r][q]] THEN NoRecord ELSE @]
  /\ call' = Told(r, q, "refused")
  /\ UNCHANGED <<policy, given, shown, supPending, timers, active>>
RefuseClient(r, q) == Refuses(r, q) /\ UNCHANGED <<loop, adapter>>
RefuseDecision(r, q) ==
  /\ Refuses(r, q) /\ Deciding(r, q) /\ Throw(r)
  /\ core' = [core EXCEPT ![r].disposed = TRUE]

\* The loop reads an event.
Reads(r) == step[r] = "streaming" /\ outbox[r] # <<>>
Shift(r) ==
  /\ Reads(r) /\ Admits(core[r], Head(outbox[r]))
  /\ core' = [core EXCEPT ![r] = Passed(@, Head(outbox[r]))]
  /\ hand' = [hand EXCEPT ![r] = Head(outbox[r])]
  /\ outbox' = [outbox EXCEPT ![r] = Tail(@)]
  /\ UNCHANGED <<policy, asked, open, ended, verdict, shown, call>>

Falls(r) ==
  /\ Reads(r) /\ Fails(r) /\ UNCHANGED <<policy, shown, call>>
  /\ \/ ~Admits(core[r], Head(outbox[r]))
     \/ Head(outbox[r]).type = "interaction.requested" /\ supPending[Head(outbox[r]).id] # NoRun
Decides(r, q) ==
  /\ Shift(r) /\ Head(outbox[r]) = Event("interaction.requested", q) /\ Decision(r, q) # "prompt"
  /\ ops' = [ops EXCEPT ![r][q] = "decision"]
  /\ step' = [step EXCEPT ![r] = "deciding"]
  /\ UNCHANGED <<given, supervisor>>
Prompts(r, q) ==
  /\ Shift(r) /\ Head(outbox[r]) = Event("interaction.requested", q)
  /\ Decision(r, q) = "prompt" /\ supPending[q] = NoRun
  /\ supPending' = [supPending EXCEPT ![q] = r]
  /\ timers' = [timers EXCEPT ![r][q] = "set"]
  /\ step' = [step EXCEPT ![r] = "publishing"]
  /\ UNCHANGED <<answers, responses, active>>
Passes(r) ==
  /\ Shift(r) /\ Head(outbox[r]).type # "interaction.requested"
  /\ step' = [step EXCEPT ![r] = "publishing"]
  /\ UNCHANGED <<answers, supervisor>>

\* The event in the loop's hand is published.
Puts(r) ==
  /\ step[r] = "publishing"
  /\ hand' = [hand EXCEPT ![r] = Nothing]
  /\ UNCHANGED <<policy, core, answers, adapter, responses, call>>
PublishRequested(r) ==
  /\ Puts(r) /\ hand[r].type = "interaction.requested"
  /\ visible' = [visible EXCEPT ![r] = @ \cup {hand[r].id}]
  /\ step' = [step EXCEPT ![r] = "streaming"]
  /\ UNCHANGED <<outcome, supPending, timers, active>>
PublishResolved(r) ==
  /\ Puts(r) /\ hand[r].type = "interaction.resolved"
  /\ Clear(r, {hand[r].id})
  /\ step' = [step EXCEPT ![r] = "streaming"]
  /\ UNCHANGED <<shown, active>>
PublishTerminal(r) ==
  /\ Puts(r) /\ hand[r].type \in Terminals
  /\ outcome' = [outcome EXCEPT ![r] = hand[r].type]
  /\ Release(r)
  /\ step' = [step EXCEPT ![r] = "gone"]
  /\ UNCHANGED visible

\* The steps of a run, and of an answer on its way to it.
RunStep(r) ==
  \/ Complete(r) \/ CancelsLate(r) \/ Cancels(r)
  \/ Falls(r) \/ Passes(r)
  \/ PublishRequested(r) \/ PublishResolved(r) \/ PublishTerminal(r) \/ FinishWithFailure(r)

InteractionStep(r, q) ==
  \/ Ask(r, q) \/ TakeAnswer(r, q) \/ RefuseClient(r, q) \/ RefuseDecision(r, q)
  \/ Decides(r, q) \/ Prompts(r, q)
  \/ TimerIsLate(r, q) \/ \E s \in Runs : TimerSends(r, q, s)

CallStep(c, q, a) ==
  \/ RespondRefused(c, q, a)
  \/ \E s \in Runs : RespondSends(c, q, a, s)
  \/ \E s \in Runs : RespondKnown(c, q, a, s, "taken") \/ RespondKnown(c, q, a, s, "waiting")

Step ==
  \/ \E r \in Runs : RunStep(r)
  \/ \E r \in Runs, q \in RequestIds : InteractionStep(r, q)
  \/ \E c \in Calls, q \in RequestIds, a \in {"allow", "deny"} : CallStep(c, q, a)

\* The head and the tail of a sequence of events.
LEMMA BoxHead ==
  ASSUME NEW E, NEW b \in Seq(E), b # <<>>
  PROVE  /\ Len(b) \in Nat \ {0} /\ Head(b) = b[1] /\ Head(b) \in E
         /\ Tail(b) \in Seq(E) /\ Len(Tail(b)) = Len(b) - 1
         /\ \A i \in 1..Len(b) - 1 : Tail(b)[i] = b[i + 1]
<1>1. Len(b) \in Nat /\ \A i \in 1..Len(b) : b[i] \in E
  OBVIOUS
<1>2. Len(b) # 0
  OBVIOUS
<1>3. Head(b) = b[1] /\ Head(b) \in E
  BY <1>1, <1>2
<1>4. Tail(b) \in Seq(E) /\ Len(Tail(b)) = Len(b) - 1
  BY <1>1, <1>2
<1>5. \A i \in 1..Len(b) - 1 : Tail(b)[i] = b[i + 1]
  BY <1>1, <1>2
<1>. QED  BY <1>1, <1>2, <1>3, <1>4, <1>5

\* What reading the next event may do: pass it and publish, decide it, or fail the run.
LEMMA ReceiveCases ==
  ASSUME TypeOK, NEW r \in Runs, Receive(r),
         Head(outbox[r]).type = "interaction.requested" => Head(outbox[r]).id \in RequestIds
  PROVE  Falls(r) \/ Passes(r) \/ \E q \in RequestIds : Decides(r, q) \/ Prompts(r, q)
<1>1. CASE ~Admits(core[r], Head(outbox[r]))
  BY <1>1 DEF Receive, Falls, Reads
<1>2. CASE Admits(core[r], Head(outbox[r])) /\ Head(outbox[r]).type = "interaction.requested"
  <2>. DEFINE q == Head(outbox[r]).id
  <2>1. Reads(r) /\ UNCHANGED <<policy, shown, call>>
    BY DEF Receive, Reads
  <2>2. IF Decision(r, q) = "prompt" THEN Prompt(r, q) ELSE Decide(r, q)
    BY <1>2 DEF Receive
  <2>3. outbox[r] \in Seq(Events) /\ outbox[r] # <<>>
    BY <2>1 DEF TypeOK, Events, Reads
  <2>4. Head(outbox[r]) \in Events
    BY <2>3, BoxHead
  <2>5. Head(outbox[r]) = Event("interaction.requested", q) /\ q \in RequestIds
    BY <1>2, <2>4 DEF Event, Events
  <2>6. CASE Decision(r, q) # "prompt"
    <3>1. Decides(r, q)
      BY <1>2, <2>1, <2>2, <2>5, <2>6 DEF Decides, Shift, Decide, supervisor
    <3>. QED  BY <3>1, <2>5
  <2>7. CASE Decision(r, q) = "prompt" /\ supPending[q] # NoRun
    BY <1>2, <2>1, <2>2, <2>7 DEF Prompt, Falls
  <2>8. CASE Decision(r, q) = "prompt" /\ supPending[q] = NoRun
    <3>1. Prompts(r, q)
      BY <1>2, <2>1, <2>2, <2>5, <2>8 DEF Prompts, Shift, Prompt, answers
    <3>. QED  BY <3>1, <2>5
  <2>. QED  BY <2>6, <2>7, <2>8
<1>3. CASE Admits(core[r], Head(outbox[r])) /\ Head(outbox[r]).type # "interaction.requested"
  BY <1>3 DEF Receive, Passes, Shift, Reads
<1>. QED  BY <1>1, <1>2, <1>3

\* A cancel settles what is open unless the adapter was told before.
LEMMA CancelCases ==
  ASSUME NEW r \in Runs, Cancel(r)
  PROVE  CancelsLate(r) \/ Cancels(r)
<1>1. CASE ended[r]
  BY <1>1 DEF Cancel, CancelsLate, Stops
<1>2. CASE ~ended[r]
  BY <1>2 DEF Cancel, Cancels, Stops, MayCancel
<1>. QED  BY <1>1, <1>2

\* An answer that the adapter refuses is a client's, or the automatic one of the loop.
LEMMA RefuseCases ==
  ASSUME NEW r \in Runs, NEW q \in RequestIds, RefuseAnswer(r, q)
  PROVE  RefuseClient(r, q) \/ RefuseDecision(r, q)
<1>1. CASE Deciding(r, q)
  BY <1>1 DEF RefuseAnswer, RefuseDecision, Refuses
<1>2. CASE ~Deciding(r, q)
  BY <1>2 DEF RefuseAnswer, RefuseClient, Refuses
<1>. QED  BY <1>1, <1>2

\* What publishing the event in hand may be, by its type.
LEMMA PublishCases ==
  ASSUME NEW r \in Runs, Publish(r)
  PROVE  PublishRequested(r) \/ PublishResolved(r) \/ PublishTerminal(r)
<1>1. Puts(r)
  BY DEF Publish, Puts
<1>2. CASE hand[r].type = "interaction.requested"
  BY <1>1, <1>2 DEF Publish, PublishRequested, Terminals
<1>3. CASE hand[r].type = "interaction.resolved"
  BY <1>1, <1>3 DEF Publish, PublishResolved, Terminals, Cleared
<1>4. CASE hand[r].type \in Terminals
  BY <1>1, <1>4 DEF Publish, PublishTerminal, Terminals
<1>. QED  BY <1>2, <1>3, <1>4 DEF Publish

\* Only a new answer is sent.
LEMMA SentReply ==
  ASSUME TypeOK, VerdictInv, NEW q \in RequestIds, NEW a, Reply(q, a) = "sent"
  PROVE  LET s == supPending[q] IN
           /\ s \in active /\ ~Recorded(q)
           /\ q \in core[s].pending \ core[s].answered /\ ~core[s].terminalSeen /\ ~core[s].disposed
           /\ ops[s][q] = None /\ given[s][q] = None
<1>. DEFINE s == supPending[q]
<1>1. ~Recorded(q)
  BY DEF Reply
<1>2. s \in active /\ CoreReply(s, q, a) = "sent"
  BY <1>1 DEF Reply
<1>3. s \in Runs
  BY <1>2 DEF TypeOK
<1>4. given[s][q] = None
  BY <1>2, <1>3 DEF CoreReply, VerdictInv, MayRespond
<1>5. ~core[s].terminalSeen /\ ~core[s].disposed
  BY <1>2, <1>4 DEF CoreReply, MayRespond
<1>6. MayRespond(core[s], q) /\ ops[s][q] = None
  BY <1>2, <1>4, <1>5 DEF CoreReply
<1>. QED  BY <1>1, <1>2, <1>4, <1>5, <1>6 DEF MayRespond

\* What was said before is said again.
LEMMA KnownReply ==
  ASSUME TypeOK, AskedInv, VerdictInv, PendingInv, RecordInv,
         NEW q \in RequestIds, NEW a \in Answers, Reply(q, a) # "sent"
  PROVE  /\ Reply(q, a) \in {"taken", "waiting", "refused"}
         /\ Reply(q, a) \in {"taken", "waiting"} => Reached(q) \in Runs /\ q \in asked[Reached(q)]
         /\ Reply(q, a) = "taken" => given[Reached(q)][q] = a
         /\ Reply(q, a) = "waiting" => ops[Reached(q)][q] = a
<1>0. a # None
  BY DEF Answers, None
<1>1. CASE Recorded(q)
  <2>1. Reached(q) \in Runs /\ q \in asked[Reached(q)]
    BY <1>1 DEF RecordInv, RecordOf, Reached
  <2>2. ops[Reached(q)][q] = responses[q].answer \/ given[Reached(q)][q] = responses[q].answer
    BY <1>1 DEF RecordInv, RecordOf, Reached
  <2>. QED  BY <1>1, <2>1, <2>2 DEF Reply, Reached
<1>2. CASE ~Recorded(q) /\ supPending[q] \in active
  <2>. DEFINE s == supPending[q]
  <2>1. Reached(q) = s /\ Reply(q, a) = CoreReply(s, q, a)
    BY <1>2 DEF Reached, Reply
  <2>2. s \in Runs /\ s # NoRun
    BY <1>2, NoRunAssumption DEF TypeOK
  <2>3. q \in asked[s]
    BY <2>2 DEF PendingInv
  <2>4. CASE given[s][q] # None
    <3>1. ~MayRespond(core[s], q)
      BY <2>2, <2>4 DEF VerdictInv, MayRespond
    <3>2. CoreReply(s, q, a) = IF given[s][q] = a THEN "taken" ELSE "refused"
      BY <2>4, <3>1 DEF CoreReply
    <3>. QED  BY <2>1, <2>2, <2>3, <3>2
  <2>5. CASE given[s][q] = None /\ (core[s].terminalSeen \/ core[s].disposed)
    <3>1. CoreReply(s, q, a) = "refused"
      BY <2>5 DEF CoreReply, MayRespond
    <3>. QED  BY <2>1, <3>1
  <2>6. CASE given[s][q] = None /\ ~core[s].terminalSeen /\ ~core[s].disposed
    <3>1. CoreReply(s, q, a) = IF MayRespond(core[s], q) /\ ops[s][q] = None THEN "sent"
                               ELSE IF ops[s][q] = a THEN "waiting" ELSE "refused"
      BY <2>6 DEF CoreReply
    <3>. QED  BY <2>1, <2>2, <2>3, <3>1
  <2>. QED  BY <2>4, <2>5, <2>6
<1>3. CASE ~Recorded(q) /\ supPending[q] \notin active
  BY <1>3 DEF Reply
<1>. QED  BY <1>1, <1>2, <1>3

\* What taking an automatic decision to the managed run may be.
LEMMA HandCases ==
  ASSUME TypeOK, VerdictInv, NEW q \in RequestIds, NEW a, Hand(q, a)
  PROVE  \/ Reply(q, a) = "sent" /\ \E s \in Runs : s = Reached(q) /\ Sends(s, q, a)
         \/ Reply(q, a) # "sent" /\ UNCHANGED <<ops, responses>>
<1>1. CASE Reply(q, a) = "sent"
  <2>1. supPending[q] \in Runs /\ ~Recorded(q)
    BY <1>1, SentReply DEF TypeOK
  <2>2. Sends(supPending[q], q, a)
    BY <1>1, SentReply DEF Hand, Sends
  <2>. QED  BY <1>1, <2>1, <2>2 DEF Reached
<1>2. CASE Reply(q, a) # "sent"
  BY <1>2 DEF Hand
<1>. QED  BY <1>1, <1>2

\* A timer that fires sends a timeout, or finds that there is nothing to send.
LEMMA TimerCases ==
  ASSUME TypeOK, VerdictInv, NEW r \in Runs, NEW q \in RequestIds, TimerFires(r, q)
  PROVE  TimerIsLate(r, q) \/ \E s \in Runs : TimerSends(r, q, s)
<1>1. Fires(r, q) /\ Hand(q, "timeout")
  BY DEF TimerFires, Fires
<1>. QED  BY <1>1, HandCases DEF TimerIsLate, TimerSends

\* What a client's call to respond may do, by the reply it gets.
LEMMA RespondCases ==
  ASSUME TypeOK, AskedInv, VerdictInv, PendingInv, RecordInv,
         NEW c \in Calls, NEW q \in RequestIds, NEW a \in {"allow", "deny"}, Respond(c, q, a)
  PROVE  CallStep(c, q, a)
<1>0. a \in Answers
  BY DEF Answers
<1>1. CASE Reply(q, a) = "sent"
  <2>1. PICK s \in Runs : s = Reached(q) /\ Sends(s, q, a)
    BY <1>1, HandCases DEF Respond
  <2>2. Asks(c, q, a, "waiting")
    BY <1>1 DEF Respond, Asks
  <2>3. RespondSends(c, q, a, s)
    BY <2>1, <2>2 DEF RespondSends
  <2>. QED  BY <2>3 DEF CallStep
<1>2. CASE Reply(q, a) # "sent"
  <2>1. UNCHANGED <<ops, responses>>
    BY <1>2, HandCases DEF Respond
  <2>2. Asks(c, q, a, Reply(q, a))
    BY <1>2 DEF Respond, Asks
  <2>3. CASE Reply(q, a) = "refused"
    BY <2>1, <2>2, <2>3 DEF CallStep, RespondRefused
  <2>4. CASE Reply(q, a) \in {"taken", "waiting"}
    <3>1. PICK s \in Runs : s = Reached(q)
      BY <1>0, <1>2, <2>4, KnownReply
    <3>2. RespondKnown(c, q, a, s, Reply(q, a))
      BY <1>0, <1>2, <2>1, <2>2, <2>4, <3>1, KnownReply DEF RespondKnown
    <3>. QED  BY <2>4, <3>2 DEF CallStep
  <2>. QED  BY <1>0, <1>2, <2>3, <2>4, KnownReply
<1>. QED  BY <1>1, <1>2

\* The steps are these.
LEMMA NextCases ==
  ASSUME IInv, Next
  PROVE  Step
<1>. USE DEF IInv
<1>1. ASSUME NEW r \in Runs, Receive(r)
      PROVE  RunStep(r) \/ \E q \in RequestIds : InteractionStep(r, q)
  <2>1. outbox[r] \in Seq(Events) /\ outbox[r] # <<>>
    BY <1>1 DEF Receive, TypeOK, Events
  <2>2. Len(outbox[r]) \in Nat \ {0} /\ Head(outbox[r]) = outbox[r][1]
    BY <2>1, BoxHead
  <2>3. Head(outbox[r]).type = "interaction.requested" => Head(outbox[r]).id \in asked[r]
    BY <2>1, <2>2 DEF OutboxInv, OutboxOf, BoxOK, Terminals
  <2>4. asked[r] \subseteq RequestIds
    BY DEF TypeOK
  <2>. QED  BY <1>1, <2>3, <2>4, ReceiveCases DEF RunStep, InteractionStep
<1>2. ASSUME NEW r \in Runs, Publish(r) PROVE RunStep(r)
  BY <1>2, PublishCases DEF RunStep
<1>3. ASSUME NEW r \in Runs, Complete(r) \/ Cancel(r) \/ FinishWithFailure(r) PROVE RunStep(r)
  BY <1>3, CancelCases DEF RunStep
<1>4. ASSUME NEW r \in Runs, NEW q \in RequestIds, Ask(r, q) \/ Settle(r, q) PROVE InteractionStep(r, q)
  BY <1>4, RefuseCases DEF Settle, InteractionStep
<1>5. ASSUME NEW r \in Runs, NEW q \in RequestIds, TimerFires(r, q) PROVE InteractionStep(r, q)
  BY <1>5, TimerCases DEF InteractionStep
<1>. QED
  BY <1>1, <1>2, <1>3, <1>4, <1>5, RespondCases DEF Next, Execute, Step

-----------------------------------------------------------------------------
(* Sequences of events.                                                    *)

\* An element of a sequence with one more is one of the sequence or the last.
LEMMA BoxAppend ==
  ASSUME NEW E, NEW b \in Seq(E), NEW e \in E
  PROVE  /\ Len(b) \in Nat /\ Append(b, e) \in Seq(E) /\ Len(Append(b, e)) = Len(b) + 1
         /\ Append(b, e)[Len(b) + 1] = e
         /\ \A i \in 1..Len(b) : Append(b, e)[i] = b[i]
OBVIOUS

\* Some sequence lists a finite set without repetition.
LEMMA SetToSeqBijection ==
  ASSUME NEW S, IsFiniteSet(S)
  PROVE  Cardinality(S) \in Nat /\ SetToSeq(S) \in Bijection(1..Cardinality(S), S)
<1>. DEFINE n == Cardinality(S)
            D == 1..n
<1>1. n \in Nat /\ ExistsBijection(D, S)
  BY FS_CardinalityType
<1>2. \E f \in [D -> S] : IsInjective(f)
  BY <1>1 DEF ExistsBijection, Bijection, Injection
<1>3. SetToSeq(S) \in [D -> S] /\ IsInjective(SetToSeq(S))
  BY <1>2 DEF SetToSeq
<1>4. SetToSeq(S) \in Injection(D, S)
  BY <1>3 DEF Injection
<1>5. Cardinality(D) = n
  BY <1>1, FS_Interval
<1>6. SetToSeq(S) \in Surjection(D, S)
  BY <1>4, <1>5, FS_Injection
<1>. QED  BY <1>1, <1>4, <1>6 DEF Bijection

\* A cancel resolves each open interaction once.
LEMMA ResolvingOnce ==
  ASSUME TypeOK, AskedInv, NEW r \in Runs
  PROVE  /\ Resolving(r) \in Seq(Events)
         /\ Len(Resolving(r)) \in Nat
         /\ \A i \in 1..Len(Resolving(r)) : \E q \in open[r] : Resolving(r)[i] = Event("interaction.resolved", q)
         /\ \A q \in open[r] : \E i \in 1..Len(Resolving(r)) : Resolving(r)[i] = Event("interaction.resolved", q)
         /\ \A i, j \in 1..Len(Resolving(r)) : Resolving(r)[i] = Resolving(r)[j] => i = j
<1>. DEFINE n == Cardinality(open[r])
            f == SetToSeq(open[r])
<1>1. IsFiniteSet(open[r])
  BY FS_Subset DEF AskedInv
<1>2. n \in Nat /\ f \in Bijection(1..n, open[r])
  BY <1>1, SetToSeqBijection
<1>3. /\ f \in [1..n -> open[r]]
      /\ \A i, j \in 1..n : f[i] = f[j] => i = j
      /\ \A q \in open[r] : \E i \in 1..n : f[i] = q
  BY <1>2 DEF Bijection, Injection, Surjection, IsInjective
<1>4. Resolving(r) = [i \in 1..n |-> Event("interaction.resolved", f[i])]
  BY DEF Resolving
<1>5. \A q \in open[r] : Event("interaction.resolved", q) \in Events
  BY DEF TypeOK, Event, Events, EventTypes
<1>6. Resolving(r) \in Seq(Events)
  <2>. DEFINE g == [i \in 1..n |-> Event("interaction.resolved", f[i])]
  <2>1. \A i \in 1..n : f[i] \in open[r]
    BY <1>3
  <2>2. \A i \in 1..n : Event("interaction.resolved", f[i]) \in Events
    BY <1>5, <2>1
  <2>3. g \in [1..n -> Events]
    BY <2>2
  <2>4. g \in Seq(Events)
    BY <1>2, <2>3
  <2>. QED  BY <1>4, <2>4
<1>7. Len(Resolving(r)) = n
  <2>1. DOMAIN Resolving(r) = 1..n
    BY <1>4
  <2>. QED  BY <1>2, <1>6, <2>1
<1>8. \A i \in 1..n : Resolving(r)[i] = Event("interaction.resolved", f[i])
  BY <1>4
<1>9. \A p, q : Event("interaction.resolved", p) = Event("interaction.resolved", q) => p = q
  BY DEF Event
<1>. HIDE DEF n, f
<1>. QED  BY <1>2, <1>3, <1>6, <1>7, <1>8, <1>9

-----------------------------------------------------------------------------
(* Each part of the invariant is preserved.                                *)

LoopType ==
  /\ policy \in [Runs -> Policies]
  /\ step \in [Runs -> Steps]
  /\ hand \in [Runs -> [type : EventTypes \cup {None}, id : RequestIds \cup {NoId}]]
  /\ core \in [Runs -> CoreType(RequestIds)]
AnswerType ==
  /\ ops \in [Runs -> [RequestIds -> Answers \cup {None}]]
  /\ given \in [Runs -> [RequestIds -> Answers \cup {None}]]
  /\ responses \in [RequestIds -> [run : Runs \cup {NoRun}, answer : Answers \cup {None}]]
CallType ==
  call \in [Calls -> [state : {"unsent", "waiting", "taken", "refused"},
                      run : Runs \cup {NoRun}, id : RequestIds \cup {NoId}, answer : Answers \cup {None}]]
AdapterType ==
  /\ asked \in [Runs -> SUBSET RequestIds] /\ open \in [Runs -> SUBSET RequestIds]
  /\ outbox \in [Runs -> Seq(Events)]
  /\ ended \in [Runs -> BOOLEAN]
  /\ verdict \in [Runs -> [RequestIds -> Verdicts \cup {None}]]
SupervisorType ==
  /\ visible \in [Runs -> SUBSET RequestIds]
  /\ outcome \in [Runs -> Terminals \cup {None}]
  /\ supPending \in [RequestIds -> Runs \cup {NoRun}]
  /\ timers \in [Runs -> [RequestIds -> {"off", "set", "fired"}]]
  /\ active \subseteq Runs

\* The type invariant, in the parts that the actions disturb.
LEMMA TypeParts == TypeOK <=> LoopType /\ AnswerType /\ CallType /\ AdapterType /\ SupervisorType
BY DEF TypeOK, LoopType, AnswerType, CallType, AdapterType, SupervisorType, Events

\* The fields of a managed run that passes an event on.
LEMMA PassedFields ==
  ASSUME NEW k \in CoreType(RequestIds), NEW e \in Events, e.type = "interaction.requested" => e.id \in RequestIds
  PROVE  /\ Passed(k, e) \in CoreType(RequestIds)
         /\ Passed(k, e).started = TRUE /\ Passed(k, e).answered = k.answered /\ Passed(k, e).disposed = k.disposed
         /\ Passed(k, e).terminalSeen = (e.type \in Terminals)
         /\ e.type = "interaction.requested" => Passed(k, e).pending = k.pending \cup {e.id}
         /\ e.type = "interaction.resolved" => Passed(k, e).pending = k.pending \ {e.id}
         /\ e.type \in Terminals => Passed(k, e).pending = k.pending
<1>1. e.type = "interaction.requested" => e.type # "interaction.resolved" /\ e.type \notin Terminals
  BY DEF Terminals
<1>2. e.type = "interaction.resolved" => e.type \notin Terminals
  BY DEF Terminals
<1>3. Passed(k, e) = [started |-> TRUE,
                      pending |-> IF e.type = "interaction.requested" THEN k.pending \cup {e.id}
                                  ELSE IF e.type = "interaction.resolved" THEN k.pending \ {e.id} ELSE k.pending,
                      answered |-> k.answered, terminalSeen |-> e.type \in Terminals,
                      cancelSent |-> k.cancelSent, disposed |-> k.disposed]
  <2>. DEFINE m == CASE e.type = "interaction.requested" -> k.pending \cup {e.id}
                     [] e.type = "interaction.resolved" -> k.pending \ {e.id}
                     [] OTHER -> k.pending
  <2>1. m = IF e.type = "interaction.requested" THEN k.pending \cup {e.id}
            ELSE IF e.type = "interaction.resolved" THEN k.pending \ {e.id} ELSE k.pending
    OBVIOUS
  <2>2. Passed(k, e) = [k EXCEPT !.started = TRUE, !.pending = m, !.terminalSeen = e.type \in Terminals]
    BY DEF Passed
  <2>. HIDE DEF m
  <2>. QED  BY <2>1, <2>2 DEF CoreType
<1>4. k.pending \in SUBSET RequestIds /\ k.answered \in SUBSET RequestIds /\ k.cancelSent \in BOOLEAN /\ k.disposed \in BOOLEAN
  BY DEF CoreType
<1>. DEFINE m == Passed(k, e)
<1>5. /\ m.started = TRUE /\ m.answered = k.answered /\ m.disposed = k.disposed /\ m.cancelSent = k.cancelSent
      /\ m.terminalSeen = (e.type \in Terminals)
      /\ m.pending = IF e.type = "interaction.requested" THEN k.pending \cup {e.id}
                     ELSE IF e.type = "interaction.resolved" THEN k.pending \ {e.id} ELSE k.pending
  BY <1>3
<1>6. m.pending \in SUBSET RequestIds
  BY <1>4, <1>5
<1>7. m \in CoreType(RequestIds)
  BY <1>3, <1>4, <1>6 DEF CoreType
<1>. QED  BY <1>1, <1>2, <1>5, <1>7

\* The first event of a run's outbox.
LEMMA HeadEvent ==
  ASSUME TypeOK, AskedInv, OutboxInv, NEW r \in Runs, outbox[r] # <<>>
  PROVE  /\ Head(outbox[r]) = outbox[r][1] /\ Head(outbox[r]) \in Events
         /\ Head(outbox[r]).type \in Published
         /\ Head(outbox[r]).type \notin Terminals => Head(outbox[r]).id \in asked[r]
         /\ asked[r] \subseteq RequestIds
         /\ Len(outbox[r]) \in Nat \ {0} /\ 1 \in 1..Len(outbox[r])
<1>1. outbox[r] \in Seq(Events) /\ asked[r] \subseteq RequestIds
  BY DEF TypeOK, Events
<1>2. Head(outbox[r]) = outbox[r][1] /\ Head(outbox[r]) \in Events /\ Len(outbox[r]) \in Nat \ {0}
  BY <1>1, BoxHead
<1>3. 1 \in 1..Len(outbox[r])
  BY <1>2
<1>4. BoxOK(outbox[r], asked[r], open[r], core[r].pending)
  BY DEF OutboxInv, OutboxOf
<1>. QED  BY <1>1, <1>2, <1>3, <1>4 DEF BoxOK

\* Every step keeps the types.
LEMMA TypeStep ==
  ASSUME TypeOK, AskedInv, OutboxInv, Step
  PROVE  TypeOK'
<1>. USE NoRunAssumption, NoIdAssumption DEF None, Step, loop, answers, adapter, shown, supervisor
<1>00. TypeOK' <=> LoopType' /\ AnswerType' /\ CallType' /\ AdapterType' /\ SupervisorType'
  BY DEF TypeOK, LoopType, AnswerType, CallType, AdapterType, SupervisorType, Events
<1>0. LoopType /\ AnswerType /\ CallType /\ AdapterType /\ SupervisorType
  BY TypeParts
<1>1. ASSUME NEW r \in Runs, RunStep(r) PROVE TypeOK'
  <2>1. CASE Complete(r)
    <3>0. outbox[r] \in Seq(Events) /\ Event("run.completed", NoId) \in Events
      BY TypeParts DEF AdapterType, Events, Event, EventTypes, Terminals
    <3>00. Append(outbox[r], Event("run.completed", NoId)) \in Seq(Events)
      BY <3>0, BoxAppend
    <3>1. LoopType'
      BY <1>0, <2>1 DEF LoopType, Steps, EventTypes, Terminals, CoreType, Nothing, Event, Complete
    <3>2. AnswerType'
      BY <1>0, <2>1 DEF AnswerType, Answers, NoRecord, Complete
    <3>3. CallType'
      BY <1>0, <2>1 DEF CallType, Answers, Reached, Complete
    <3>4. AdapterType'
      BY <1>0, <2>1, <3>00 DEF AdapterType, Verdicts, Answers, Complete
    <3>5. SupervisorType'
      BY <1>0, <2>1 DEF SupervisorType, Terminals, EventTypes, Complete
    <3>. QED  BY <3>1, <3>2, <3>3, <3>4, <3>5, <1>00
  <2>2. CASE CancelsLate(r)
    <3>1. LoopType'
      BY <1>0, <2>2
         DEF LoopType, Steps, EventTypes, Terminals, CoreType, Nothing, Event, CancelsLate, Stops,
             adapter
    <3>2. AnswerType'
      BY <1>0, <2>2 DEF AnswerType, Answers, NoRecord, CancelsLate, Stops, adapter
    <3>3. CallType'
      BY <1>0, <2>2 DEF CallType, Answers, Reached, CancelsLate, Stops, adapter
    <3>4. AdapterType'
      BY <1>0, <2>2 DEF AdapterType, Verdicts, Answers, CancelsLate, Stops, adapter
    <3>5. SupervisorType'
      BY <1>0, <2>2 DEF SupervisorType, Terminals, EventTypes, CancelsLate, Stops, adapter
    <3>. QED  BY <3>1, <3>2, <3>3, <3>4, <3>5, <1>00
  <2>3. CASE Cancels(r)
    <3>0. Resolving(r) \in Seq(Events) /\ outbox[r] \in Seq(Events)
      BY ResolvingOnce, TypeParts DEF AdapterType
    <3>01. <<Event("run.cancelled", NoId)>> \in Seq(Events)
      BY DEF Events, Event, EventTypes, Terminals
    <3>00. outbox[r] \o Resolving(r) \o <<Event("run.cancelled", NoId)>> \in Seq(Events)
      BY <3>0, <3>01
    <3>1. LoopType'
      BY <1>0, <2>3
         DEF LoopType, Steps, EventTypes, Terminals, CoreType, Nothing, Event, Cancels, Stops,
             SettleOpen
    <3>2. AnswerType'
      BY <1>0, <2>3 DEF AnswerType, Answers, NoRecord, Cancels, Stops, SettleOpen
    <3>3. CallType'
      BY <1>0, <2>3 DEF CallType, Answers, Reached, Cancels, Stops, SettleOpen
    <3>4. AdapterType'
      <4>0. <<>> \in Seq(Events)
        OBVIOUS
      <4>1. asked' \in [Runs -> SUBSET RequestIds] /\ open' \in [Runs -> SUBSET RequestIds]
        BY <1>0, <2>3 DEF AdapterType, Cancels, Stops, SettleOpen
      <4>2. outbox' \in [Runs -> Seq(Events)] /\ ended' \in [Runs -> BOOLEAN]
        BY <1>0, <4>0, <2>3, <3>00 DEF AdapterType, Cancels, Stops, SettleOpen
      <4>3. verdict' \in [Runs -> [RequestIds -> Verdicts \cup {None}]]
        BY <1>0, <2>3 DEF AdapterType, AnswerType, Verdicts, Answers, Cancels, Stops, SettleOpen
      <4>. QED  BY <4>1, <4>2, <4>3 DEF AdapterType
    <3>5. SupervisorType'
      BY <1>0, <2>3 DEF SupervisorType, Terminals, EventTypes, Cancels, Stops, SettleOpen
    <3>. QED  BY <3>1, <3>2, <3>3, <3>4, <3>5, <1>00
  <2>4. CASE Falls(r)
    <3>1. LoopType'
      BY <1>0, <2>4
         DEF LoopType, Steps, EventTypes, Terminals, CoreType, Nothing, Event, Falls, Fails, Throw,
             Reads, SettleOpen
    <3>2. AnswerType'
      BY <1>0, <2>4 DEF AnswerType, Answers, NoRecord, Falls, Fails, Throw, Reads, SettleOpen
    <3>3. CallType'
      BY <1>0, <2>4 DEF CallType, Answers, Reached, Falls, Fails, Throw, Reads, SettleOpen
    <3>4. AdapterType'
      BY <1>0, <2>4 DEF AdapterType, Verdicts, Answers, Falls, Fails, Throw, Reads, SettleOpen
    <3>5. SupervisorType'
      BY <1>0, <2>4
         DEF SupervisorType, Terminals, EventTypes, Falls, Fails, Throw, Reads, SettleOpen
    <3>. QED  BY <3>1, <3>2, <3>3, <3>4, <3>5, <1>00
  <2>5. CASE Passes(r)
    <3>0. outbox[r] \in Seq(Events) /\ outbox[r] # <<>> /\ core[r] \in CoreType(RequestIds)
      BY <2>5, TypeParts DEF Passes, Shift, Reads, AdapterType, LoopType
    <3>00. Tail(outbox[r]) \in Seq(Events) /\ Head(outbox[r]) \in Events
      BY <3>0, BoxHead
    <3>01. Passed(core[r], Head(outbox[r])) \in CoreType(RequestIds)
      <4>1. Head(outbox[r]).type = "interaction.requested" => Head(outbox[r]).id \in RequestIds
        BY <3>0, HeadEvent DEF Terminals
      <4>. QED  BY <3>0, <3>00, <4>1, PassedFields
    <3>02. Head(outbox[r]) \in [type : EventTypes \cup {None}, id : RequestIds \cup {NoId}]
      BY <3>00 DEF Events
    <3>1. LoopType'
      BY <1>0, <2>5, <3>01, <3>02 DEF LoopType, Steps, Passes, Shift, Reads
    <3>2. AnswerType'
      BY <1>0, <2>5 DEF AnswerType, Answers, NoRecord, Passes, Shift, Reads
    <3>3. CallType'
      BY <1>0, <2>5 DEF CallType, Answers, Reached, Passes, Shift, Reads
    <3>4. AdapterType'
      BY <1>0, <2>5, <3>00 DEF AdapterType, Verdicts, Answers, Passes, Shift, Reads
    <3>5. SupervisorType'
      BY <1>0, <2>5 DEF SupervisorType, Terminals, EventTypes, Passes, Shift, Reads
    <3>. QED  BY <3>1, <3>2, <3>3, <3>4, <3>5, <1>00
  <2>6. CASE PublishRequested(r)
    <3>1. LoopType'
      BY <1>0, <2>6
         DEF LoopType, Steps, EventTypes, Terminals, CoreType, Nothing, Event, PublishRequested,
             Puts
    <3>2. AnswerType'
      BY <1>0, <2>6 DEF AnswerType, Answers, NoRecord, PublishRequested, Puts
    <3>3. CallType'
      BY <1>0, <2>6 DEF CallType, Answers, Reached, PublishRequested, Puts
    <3>4. AdapterType'
      BY <1>0, <2>6 DEF AdapterType, Verdicts, Answers, PublishRequested, Puts
    <3>0. hand[r].id \in RequestIds
      BY <1>0, <2>6 DEF AskedInv, AdapterType, PublishRequested, Puts, Terminals
    <3>5. SupervisorType'
      BY <1>0, <2>6, <3>0 DEF SupervisorType, Terminals, EventTypes, PublishRequested, Puts
    <3>. QED  BY <3>1, <3>2, <3>3, <3>4, <3>5, <1>00
  <2>7. CASE PublishResolved(r)
    <3>1. LoopType'
      BY <1>0, <2>7
         DEF LoopType, Steps, EventTypes, Terminals, CoreType, Nothing, Event, PublishResolved,
             Puts, Clear
    <3>2. AnswerType'
      BY <1>0, <2>7 DEF AnswerType, Answers, NoRecord, PublishResolved, Puts, Clear
    <3>3. CallType'
      BY <1>0, <2>7 DEF CallType, Answers, Reached, PublishResolved, Puts, Clear
    <3>4. AdapterType'
      BY <1>0, <2>7 DEF AdapterType, Verdicts, Answers, PublishResolved, Puts, Clear
    <3>5. SupervisorType'
      BY <1>0, <2>7 DEF SupervisorType, Terminals, EventTypes, PublishResolved, Puts, Clear
    <3>. QED  BY <3>1, <3>2, <3>3, <3>4, <3>5, <1>00
  <2>8. CASE PublishTerminal(r)
    <3>1. LoopType'
      BY <1>0, <2>8
         DEF LoopType, Steps, EventTypes, Terminals, CoreType, Nothing, Event, PublishTerminal,
             Puts, Release, Clear
    <3>2. AnswerType'
      BY <1>0, <2>8 DEF AnswerType, Answers, NoRecord, PublishTerminal, Puts, Release, Clear
    <3>3. CallType'
      BY <1>0, <2>8 DEF CallType, Answers, Reached, PublishTerminal, Puts, Release, Clear
    <3>4. AdapterType'
      BY <1>0, <2>8 DEF AdapterType, Verdicts, Answers, PublishTerminal, Puts, Release, Clear
    <3>5. SupervisorType'
      BY <1>0, <2>8 DEF SupervisorType, Terminals, EventTypes, PublishTerminal, Puts, Release, Clear
    <3>. QED  BY <3>1, <3>2, <3>3, <3>4, <3>5, <1>00
  <2>9. CASE FinishWithFailure(r)
    <3>1. LoopType'
      BY <1>0, <2>9
         DEF LoopType, Steps, EventTypes, Terminals, CoreType, Nothing, Event, FinishWithFailure,
             Release, Clear
    <3>2. AnswerType'
      BY <1>0, <2>9 DEF AnswerType, Answers, NoRecord, FinishWithFailure, Release, Clear
    <3>3. CallType'
      BY <1>0, <2>9 DEF CallType, Answers, Reached, FinishWithFailure, Release, Clear
    <3>4. AdapterType'
      BY <1>0, <2>9 DEF AdapterType, Verdicts, Answers, FinishWithFailure, Release, Clear
    <3>5. SupervisorType'
      BY <1>0, <2>9 DEF SupervisorType, Terminals, EventTypes, FinishWithFailure, Release, Clear
    <3>. QED  BY <3>1, <3>2, <3>3, <3>4, <3>5, <1>00
  <2>. QED  BY <1>1, <2>1, <2>2, <2>3, <2>4, <2>5, <2>6, <2>7, <2>8, <2>9 DEF RunStep
<1>2. ASSUME NEW r \in Runs, NEW q \in RequestIds, InteractionStep(r, q) PROVE TypeOK'
  <2>1. CASE Ask(r, q)
    <3>0. outbox[r] \in Seq(Events) /\ Event("interaction.requested", q) \in Events
      BY TypeParts DEF AdapterType, Events, Event, EventTypes, Terminals
    <3>00. Append(outbox[r], Event("interaction.requested", q)) \in Seq(Events)
      BY <3>0, BoxAppend
    <3>1. LoopType'
      BY <1>0, <2>1 DEF LoopType, Steps, EventTypes, Terminals, CoreType, Nothing, Event, Ask
    <3>2. AnswerType'
      BY <1>0, <2>1 DEF AnswerType, Answers, NoRecord, Ask
    <3>3. CallType'
      BY <1>0, <2>1 DEF CallType, Answers, Reached, Ask
    <3>4. AdapterType'
      BY <1>0, <2>1, <3>00 DEF AdapterType, Verdicts, Answers, Ask
    <3>5. SupervisorType'
      BY <1>0, <2>1 DEF SupervisorType, Terminals, EventTypes, Ask
    <3>. QED  BY <3>1, <3>2, <3>3, <3>4, <3>5, <1>00
  <2>2. CASE TakeAnswer(r, q)
    <3>0. outbox[r] \in Seq(Events) /\ Event("interaction.resolved", q) \in Events
      BY TypeParts DEF AdapterType, Events, Event, EventTypes, Terminals
    <3>00. Append(outbox[r], Event("interaction.resolved", q)) \in Seq(Events)
      BY <3>0, BoxAppend
    <3>1. LoopType'
      BY <1>0, <2>2
         DEF LoopType, Steps, EventTypes, Terminals, CoreType, Nothing, Event, TakeAnswer, Told,
             Answered, Deciding
    <3>2. AnswerType'
      BY <1>0, <2>2 DEF AnswerType, Answers, NoRecord, TakeAnswer, Told, Answered, Deciding
    <3>3. CallType'
      BY <1>0, <2>2 DEF CallType, Answers, Reached, TakeAnswer, Told, Answered, Deciding
    <3>4. AdapterType'
      <4>0. <<>> \in Seq(Events)
        OBVIOUS
      <4>1. asked' \in [Runs -> SUBSET RequestIds] /\ open' \in [Runs -> SUBSET RequestIds]
        BY <1>0, <2>2 DEF AdapterType, TakeAnswer, Told, Answered, Deciding
      <4>2. outbox' \in [Runs -> Seq(Events)] /\ ended' \in [Runs -> BOOLEAN]
        BY <1>0, <4>0, <2>2, <3>00 DEF AdapterType, TakeAnswer, Told, Answered, Deciding
      <4>3. verdict' \in [Runs -> [RequestIds -> Verdicts \cup {None}]]
        BY <1>0, <2>2
           DEF AdapterType, AnswerType, Verdicts, Answers, TakeAnswer, Told, Answered, Deciding
      <4>. QED  BY <4>1, <4>2, <4>3 DEF AdapterType
    <3>5. SupervisorType'
      BY <1>0, <2>2 DEF SupervisorType, Terminals, EventTypes, TakeAnswer, Told, Answered, Deciding
    <3>. QED  BY <3>1, <3>2, <3>3, <3>4, <3>5, <1>00
  <2>3. CASE RefuseClient(r, q)
    <3>1. LoopType'
      BY <1>0, <2>3
         DEF LoopType, Steps, EventTypes, Terminals, CoreType, Nothing, Event, RefuseClient,
             Refuses, Told
    <3>2. AnswerType'
      BY <1>0, <2>3 DEF AnswerType, Answers, NoRecord, RefuseClient, Refuses, Told
    <3>3. CallType'
      BY <1>0, <2>3 DEF CallType, Answers, Reached, RefuseClient, Refuses, Told
    <3>4. AdapterType'
      BY <1>0, <2>3 DEF AdapterType, Verdicts, Answers, RefuseClient, Refuses, Told
    <3>5. SupervisorType'
      BY <1>0, <2>3 DEF SupervisorType, Terminals, EventTypes, RefuseClient, Refuses, Told
    <3>. QED  BY <3>1, <3>2, <3>3, <3>4, <3>5, <1>00
  <2>4. CASE RefuseDecision(r, q)
    <3>1. LoopType'
      BY <1>0, <2>4
         DEF LoopType, Steps, EventTypes, Terminals, CoreType, Nothing, Event, RefuseDecision,
             Refuses, Told, Throw, SettleOpen, Deciding
    <3>2. AnswerType'
      BY <1>0, <2>4
         DEF AnswerType, Answers, NoRecord, RefuseDecision, Refuses, Told, Throw, SettleOpen,
             Deciding
    <3>3. CallType'
      BY <1>0, <2>4
         DEF CallType, Answers, Reached, RefuseDecision, Refuses, Told, Throw, SettleOpen, Deciding
    <3>4. AdapterType'
      <4>0. <<>> \in Seq(Events)
        OBVIOUS
      <4>1. asked' \in [Runs -> SUBSET RequestIds] /\ open' \in [Runs -> SUBSET RequestIds]
        BY <1>0, <2>4 DEF AdapterType, RefuseDecision, Refuses, Told, Throw, SettleOpen, Deciding
      <4>2. outbox' \in [Runs -> Seq(Events)] /\ ended' \in [Runs -> BOOLEAN]
        BY <1>0, <4>0, <2>4
           DEF AdapterType, RefuseDecision, Refuses, Told, Throw, SettleOpen, Deciding
      <4>3. verdict' \in [Runs -> [RequestIds -> Verdicts \cup {None}]]
        BY <1>0, <2>4
           DEF AdapterType, AnswerType, Verdicts, Answers, RefuseDecision, Refuses, Told, Throw,
               SettleOpen, Deciding
      <4>. QED  BY <4>1, <4>2, <4>3 DEF AdapterType
    <3>5. SupervisorType'
      BY <1>0, <2>4
         DEF SupervisorType, Terminals, EventTypes, RefuseDecision, Refuses, Told, Throw,
             SettleOpen, Deciding
    <3>. QED  BY <3>1, <3>2, <3>3, <3>4, <3>5, <1>00
  <2>5. CASE Decides(r, q)
    <3>0. outbox[r] \in Seq(Events) /\ outbox[r] # <<>> /\ core[r] \in CoreType(RequestIds)
      BY <2>5, TypeParts DEF Decides, Shift, Reads, AdapterType, LoopType
    <3>00. Tail(outbox[r]) \in Seq(Events) /\ Head(outbox[r]) \in Events
      BY <3>0, BoxHead
    <3>01. Passed(core[r], Head(outbox[r])) \in CoreType(RequestIds)
      <4>1. Head(outbox[r]).type = "interaction.requested" => Head(outbox[r]).id \in RequestIds
        BY <3>0, HeadEvent DEF Terminals
      <4>. QED  BY <3>0, <3>00, <4>1, PassedFields
    <3>02. Head(outbox[r]) \in [type : EventTypes \cup {None}, id : RequestIds \cup {NoId}]
      BY <3>00 DEF Events
    <3>1. LoopType'
      BY <1>0, <2>5, <3>01, <3>02 DEF LoopType, Steps, Decides, Shift, Reads
    <3>2. AnswerType'
      BY <1>0, <2>5 DEF AnswerType, Answers, NoRecord, Decides, Shift, Reads
    <3>3. CallType'
      BY <1>0, <2>5 DEF CallType, Answers, Reached, Decides, Shift, Reads
    <3>4. AdapterType'
      BY <1>0, <2>5, <3>00 DEF AdapterType, Verdicts, Answers, Decides, Shift, Reads
    <3>5. SupervisorType'
      BY <1>0, <2>5 DEF SupervisorType, Terminals, EventTypes, Decides, Shift, Reads
    <3>. QED  BY <3>1, <3>2, <3>3, <3>4, <3>5, <1>00
  <2>6. CASE Prompts(r, q)
    <3>0. outbox[r] \in Seq(Events) /\ outbox[r] # <<>> /\ core[r] \in CoreType(RequestIds)
      BY <2>6, TypeParts DEF Prompts, Shift, Reads, AdapterType, LoopType
    <3>00. Tail(outbox[r]) \in Seq(Events) /\ Head(outbox[r]) \in Events
      BY <3>0, BoxHead
    <3>01. Passed(core[r], Head(outbox[r])) \in CoreType(RequestIds)
      <4>1. Head(outbox[r]).type = "interaction.requested" => Head(outbox[r]).id \in RequestIds
        BY <3>0, HeadEvent DEF Terminals
      <4>. QED  BY <3>0, <3>00, <4>1, PassedFields
    <3>02. Head(outbox[r]) \in [type : EventTypes \cup {None}, id : RequestIds \cup {NoId}]
      BY <3>00 DEF Events
    <3>1. LoopType'
      BY <1>0, <2>6, <3>01, <3>02 DEF LoopType, Steps, Prompts, Shift, Reads
    <3>2. AnswerType'
      BY <1>0, <2>6 DEF AnswerType, Answers, NoRecord, Prompts, Shift, Reads
    <3>3. CallType'
      BY <1>0, <2>6 DEF CallType, Answers, Reached, Prompts, Shift, Reads
    <3>4. AdapterType'
      BY <1>0, <2>6, <3>00 DEF AdapterType, Verdicts, Answers, Prompts, Shift, Reads
    <3>5. SupervisorType'
      BY <1>0, <2>6 DEF SupervisorType, Terminals, EventTypes, Prompts, Shift, Reads
    <3>. QED  BY <3>1, <3>2, <3>3, <3>4, <3>5, <1>00
  <2>7. CASE TimerIsLate(r, q)
    <3>1. LoopType'
      BY <1>0, <2>7
         DEF LoopType, Steps, EventTypes, Terminals, CoreType, Nothing, Event, TimerIsLate, Fires
    <3>2. AnswerType'
      BY <1>0, <2>7 DEF AnswerType, Answers, NoRecord, TimerIsLate, Fires
    <3>3. CallType'
      BY <1>0, <2>7 DEF CallType, Answers, Reached, TimerIsLate, Fires
    <3>4. AdapterType'
      BY <1>0, <2>7 DEF AdapterType, Verdicts, Answers, TimerIsLate, Fires
    <3>5. SupervisorType'
      BY <1>0, <2>7 DEF SupervisorType, Terminals, EventTypes, TimerIsLate, Fires
    <3>. QED  BY <3>1, <3>2, <3>3, <3>4, <3>5, <1>00
  <2>8. ASSUME NEW s \in Runs, TimerSends(r, q, s) PROVE TypeOK'
    <3>1. LoopType'
      BY <1>0, <2>8
         DEF LoopType, Steps, EventTypes, Terminals, CoreType, Nothing, Event, TimerSends, Sends,
             Fires, Recorded
    <3>2. AnswerType'
      BY <1>0, <2>8 DEF AnswerType, Answers, NoRecord, TimerSends, Sends, Fires, Recorded
    <3>3. CallType'
      BY <1>0, <2>8 DEF CallType, Answers, Reached, TimerSends, Sends, Fires, Recorded
    <3>4. AdapterType'
      BY <1>0, <2>8 DEF AdapterType, Verdicts, Answers, TimerSends, Sends, Fires, Recorded
    <3>5. SupervisorType'
      BY <1>0, <2>8 DEF SupervisorType, Terminals, EventTypes, TimerSends, Sends, Fires, Recorded
    <3>. QED  BY <3>1, <3>2, <3>3, <3>4, <3>5, <1>00
  <2>. QED  BY <1>2, <2>1, <2>2, <2>3, <2>4, <2>5, <2>6, <2>7, <2>8 DEF InteractionStep
<1>3. ASSUME NEW c \in Calls, NEW q \in RequestIds, NEW a \in {"allow", "deny"}, CallStep(c, q, a) PROVE TypeOK'
  <2>1. CASE RespondRefused(c, q, a)
    <3>1. LoopType'
      BY <1>0, <2>1
         DEF LoopType, Steps, EventTypes, Terminals, CoreType, Nothing, Event, RespondRefused, Asks
    <3>2. AnswerType'
      BY <1>0, <2>1 DEF AnswerType, Answers, NoRecord, RespondRefused, Asks
    <3>3. CallType'
      BY <1>0, <2>1 DEF CallType, Answers, Reached, AnswerType, SupervisorType, RespondRefused, Asks
    <3>4. AdapterType'
      BY <1>0, <2>1 DEF AdapterType, Verdicts, Answers, RespondRefused, Asks
    <3>5. SupervisorType'
      BY <1>0, <2>1 DEF SupervisorType, Terminals, EventTypes, RespondRefused, Asks
    <3>. QED  BY <3>1, <3>2, <3>3, <3>4, <3>5, <1>00
  <2>2. ASSUME NEW s \in Runs, RespondSends(c, q, a, s) PROVE TypeOK'
    <3>1. LoopType'
      BY <1>0, <2>2
         DEF LoopType, Steps, EventTypes, Terminals, CoreType, Nothing, Event, RespondSends, Sends,
             Asks, Recorded
    <3>2. AnswerType'
      BY <1>0, <2>2 DEF AnswerType, Answers, NoRecord, RespondSends, Sends, Asks, Recorded
    <3>3. CallType'
      BY <1>0, <2>2 DEF CallType, Answers, Reached, RespondSends, Sends, Asks, Recorded
    <3>4. AdapterType'
      BY <1>0, <2>2 DEF AdapterType, Verdicts, Answers, RespondSends, Sends, Asks, Recorded
    <3>5. SupervisorType'
      BY <1>0, <2>2 DEF SupervisorType, Terminals, EventTypes, RespondSends, Sends, Asks, Recorded
    <3>. QED  BY <3>1, <3>2, <3>3, <3>4, <3>5, <1>00
  <2>3. ASSUME NEW s \in Runs, NEW state \in {"taken", "waiting"}, RespondKnown(c, q, a, s, state) PROVE TypeOK'
    <3>1. LoopType'
      BY <1>0, <2>3
         DEF LoopType, Steps, EventTypes, Terminals, CoreType, Nothing, Event, RespondKnown, Asks
    <3>2. AnswerType'
      BY <1>0, <2>3 DEF AnswerType, Answers, NoRecord, RespondKnown, Asks
    <3>3. CallType'
      BY <1>0, <2>3 DEF CallType, Answers, Reached, RespondKnown, Asks
    <3>4. AdapterType'
      BY <1>0, <2>3 DEF AdapterType, Verdicts, Answers, RespondKnown, Asks
    <3>5. SupervisorType'
      BY <1>0, <2>3 DEF SupervisorType, Terminals, EventTypes, RespondKnown, Asks
    <3>. QED  BY <3>1, <3>2, <3>3, <3>4, <3>5, <1>00
  <2>. QED  BY <1>3, <2>1, <2>2, <2>3 DEF CallStep
<1>. QED  BY <1>1, <1>2, <1>3 DEF Step

\* What is known of the event that the loop reads, and what becomes of the managed run.
ShiftFacts(r, e) ==
  /\ e = outbox[r][1] /\ e \in Events /\ e.type \in Published
  /\ e.type \notin Terminals => e.id \in asked[r] /\ e.id \in RequestIds
  /\ hand' = [hand EXCEPT ![r] = e]
  /\ \A s \in Runs \ {r} : core'[s] = core[s]
  /\ core'[r].started = TRUE /\ core'[r].answered = core[r].answered
  /\ core'[r].disposed = core[r].disposed
  /\ core'[r].terminalSeen = (e.type \in Terminals)
  /\ e.type = "interaction.requested" => core'[r].pending = core[r].pending \cup {e.id}
  /\ e.type = "interaction.resolved" => core'[r].pending = core[r].pending \ {e.id}
  /\ e.type \in Terminals => core'[r].pending = core[r].pending
  /\ ~core[r].terminalSeen
  /\ e.type = "interaction.requested" => e.id \notin core[r].pending \cup core[r].answered
  /\ e.type = "interaction.resolved" => e.id \in core[r].pending
  /\ e.type \in Terminals => core[r].pending = {}
  /\ e.type = "interaction.requested" =>
       ops[r][e.id] = None /\ given[r][e.id] = None /\ supPending[e.id] # r
  /\ e.type = "interaction.resolved" => e.id \notin open[r]

\* What an event that is read and admitted changes.
LEMMA ShiftFields ==
  ASSUME TypeOK, AskedInv, OutboxInv, NEW r \in Runs, Shift(r)
  PROVE  ShiftFacts(r, Head(outbox[r]))
<1>. DEFINE e == Head(outbox[r])
<1>1. outbox[r] # <<>> /\ Admits(core[r], e)
  BY DEF Shift, Reads
<1>2. /\ e = outbox[r][1] /\ e \in Events /\ e.type \in Published
      /\ e.type \notin Terminals => e.id \in asked[r] /\ e.id \in RequestIds
  BY <1>1, HeadEvent
<1>3. core[r] \in CoreType(RequestIds) /\ core \in [Runs -> CoreType(RequestIds)]
  BY DEF TypeOK
<1>4. e.type = "interaction.requested" => e.id \in RequestIds
  BY <1>2 DEF Terminals
<1>5. core' = [core EXCEPT ![r] = Passed(core[r], e)] /\ hand' = [hand EXCEPT ![r] = e]
  BY DEF Shift
<1>6. core'[r] = Passed(core[r], e) /\ \A s \in Runs \ {r} : core'[s] = core[s]
  BY <1>3, <1>5
<1>7. /\ ~core[r].terminalSeen
      /\ e.type = "interaction.requested" => e.id \notin core[r].pending \cup core[r].answered
      /\ e.type = "interaction.resolved" => e.id \in core[r].pending
      /\ e.type \in Terminals => core[r].pending = {}
  BY <1>1 DEF Admits
<1>8. e.type = "interaction.requested" =>
        ops[r][e.id] = None /\ given[r][e.id] = None /\ supPending[e.id] # r
  <2>1. 1 \in 1..Len(outbox[r])
    BY <1>1, HeadEvent
  <2>2. e.type = "interaction.requested" => e = Requested(e.id)
    BY <1>2 DEF Event, Events, Requested
  <2>3. e.type = "interaction.requested" => In(outbox[r], Requested(e.id))
    BY <1>2, <2>1, <2>2 DEF In
  <2>. QED  BY <1>4, <2>3 DEF OutboxInv, OutboxOf
<1>9. e.type = "interaction.resolved" => e.id \notin open[r]
  <2>1. BoxOK(outbox[r], asked[r], open[r], core[r].pending) /\ 1 \in 1..Len(outbox[r])
    BY <1>1, HeadEvent DEF OutboxInv, OutboxOf
  <2>. QED  BY <1>2, <2>1 DEF BoxOK
<1>. QED  BY <1>2, <1>3, <1>4, <1>5, <1>6, <1>7, <1>8, <1>9, PassedFields DEF ShiftFacts

\* What is kept is about what was asked.
LEMMA AskedStep ==
  ASSUME TypeOK, AskedInv, OutboxInv, PendingInv, Step
  PROVE  AskedInv'
<1>0. \A r \in Runs : Shift(r) => ShiftFacts(r, Head(outbox[r]))
  BY ShiftFields
<1>. USE NoRunAssumption, NoIdAssumption DEF None, TypeOK, CoreType, AskedInv, PendingInv, Nothing,
      Published, EventTypes, Terminals, loop, answers, adapter, shown, supervisor
<1>1. ASSUME NEW r \in Runs, RunStep(r) PROVE AskedInv'
  <2>1. CASE Complete(r)
    BY <2>1 DEF Complete
  <2>2. CASE CancelsLate(r)
    BY <2>2 DEF CancelsLate, Stops, adapter
  <2>3. CASE Cancels(r)
    BY <2>3 DEF Cancels, Stops, SettleOpen
  <2>4. CASE Falls(r)
    BY <2>4 DEF Falls, Fails, Throw, Reads, SettleOpen
  <2>5. CASE Passes(r)
    <3>1. Shift(r)
      BY <2>5 DEF Passes
    <3>2. ShiftFacts(r, Head(outbox[r]))
      BY <1>0, <3>1
    <3>. QED  BY <2>5, <3>2 DEF ShiftFacts, Passes, Shift, Reads, Event
  <2>6. CASE PublishRequested(r)
    BY <2>6 DEF PublishRequested, Puts
  <2>7. CASE PublishResolved(r)
    BY <2>7 DEF PublishResolved, Puts, Clear
  <2>8. CASE PublishTerminal(r)
    BY <2>8 DEF PublishTerminal, Puts, Release, Clear
  <2>9. CASE FinishWithFailure(r)
    BY <2>9 DEF FinishWithFailure, Release, Clear
  <2>. QED  BY <1>1, <2>1, <2>2, <2>3, <2>4, <2>5, <2>6, <2>7, <2>8, <2>9 DEF RunStep
<1>2. ASSUME NEW r \in Runs, NEW q \in RequestIds, InteractionStep(r, q) PROVE AskedInv'
  <2>1. CASE Ask(r, q)
    <3>1. IsFiniteSet(asked[r] \cup {q})
      BY FS_AddElement DEF AskedInv
    <3>. QED  BY <2>1, <3>1 DEF Ask
  <2>2. CASE TakeAnswer(r, q)
    BY <2>2 DEF TakeAnswer, Told, Answered, Deciding
  <2>3. CASE RefuseClient(r, q)
    BY <2>3 DEF RefuseClient, Refuses, Told
  <2>4. CASE RefuseDecision(r, q)
    BY <2>4 DEF RefuseDecision, Refuses, Told, Throw, SettleOpen, Deciding
  <2>5. CASE Decides(r, q)
    <3>1. Shift(r)
      BY <2>5 DEF Decides
    <3>2. ShiftFacts(r, Head(outbox[r]))
      BY <1>0, <3>1
    <3>. QED  BY <2>5, <3>2 DEF ShiftFacts, Decides, Shift, Reads, Event
  <2>6. CASE Prompts(r, q)
    <3>1. Shift(r)
      BY <2>6 DEF Prompts
    <3>2. ShiftFacts(r, Head(outbox[r]))
      BY <1>0, <3>1
    <3>. QED  BY <2>6, <3>2 DEF ShiftFacts, Prompts, Shift, Reads, Event
  <2>7. CASE TimerIsLate(r, q)
    BY <2>7 DEF TimerIsLate, Fires
  <2>8. ASSUME NEW s \in Runs, TimerSends(r, q, s) PROVE AskedInv'
    BY <2>8 DEF TimerSends, Sends, Fires, Recorded
  <2>. QED  BY <1>2, <2>1, <2>2, <2>3, <2>4, <2>5, <2>6, <2>7, <2>8 DEF InteractionStep
<1>3. ASSUME NEW c \in Calls, NEW q \in RequestIds, NEW a \in {"allow", "deny"}, CallStep(c, q, a) PROVE AskedInv'
  <2>1. CASE RespondRefused(c, q, a)
    BY <2>1 DEF RespondRefused, Asks
  <2>2. ASSUME NEW s \in Runs, RespondSends(c, q, a, s) PROVE AskedInv'
    BY <2>2 DEF RespondSends, Sends, Asks, Recorded
  <2>3. ASSUME NEW s \in Runs, NEW state \in {"taken", "waiting"}, RespondKnown(c, q, a, s, state) PROVE AskedInv'
    BY <2>3 DEF RespondKnown, Asks
  <2>. QED  BY <1>3, <2>1, <2>2, <2>3 DEF CallStep
<1>. QED  BY <1>1, <1>2, <1>3 DEF Step

\* The adapter settles what it closes.
LEMMA VerdictStep ==
  ASSUME TypeOK, AskedInv, VerdictInv, OutboxInv, Step
  PROVE  VerdictInv'
<1>0. \A r \in Runs : Shift(r) => ShiftFacts(r, Head(outbox[r]))
  BY ShiftFields
<1>00. LoopType /\ AnswerType /\ AdapterType
  BY TypeParts
<1>. USE <1>00, NoRunAssumption, NoIdAssumption DEF None, LoopType, CoreType, AnswerType,
      AdapterType, AskedInv, VerdictInv, Answers, Over, loop, answers, adapter, shown, supervisor
<1>1. ASSUME NEW r \in Runs, RunStep(r) PROVE VerdictInv'
  <2>1. CASE Complete(r)
    BY <2>1 DEF Complete
  <2>2. CASE CancelsLate(r)
    BY <2>2 DEF CancelsLate, Stops, adapter
  <2>3. CASE Cancels(r)
    <3>1. \A s \in Runs : core'[s].disposed = core[s].disposed /\ core'[s].answered = core[s].answered
      BY <2>3 DEF Cancels, Stops
    <3>2. /\ \A s \in Runs, q \in RequestIds :
               verdict'[s][q] = IF s = r /\ q \in open[r] THEN "cancelled" ELSE verdict[s][q]
          /\ \A s \in Runs : open'[s] = IF s = r THEN {} ELSE open[s]
          /\ ended'[r] = TRUE /\ \A s \in Runs \ {r} : ended'[s] = ended[s]
      BY <2>3 DEF Cancels, SettleOpen
    <3>3. UNCHANGED <<step, asked, given>>
      BY <2>3 DEF Cancels, Stops
    <3>4. ASSUME NEW s \in Runs
          PROVE  (ended'[s] => open'[s] = {}) /\ (core'[s].disposed => step'[s] \in Over /\ ended'[s])
      <4>1. CASE s = r
        BY <3>1, <3>2, <3>3, <4>1
      <4>2. CASE s # r
        BY <3>1, <3>2, <3>3, <4>2
      <4>. QED  BY <4>1, <4>2
    <3>5. ASSUME NEW s \in Runs, NEW p \in RequestIds
          PROVE  /\ p \in open'[s] => verdict'[s][p] = None
                 /\ p \in asked'[s] \ open'[s] => verdict'[s][p] # None
                 /\ verdict'[s][p] \in Answers => given'[s][p] = verdict'[s][p]
                 /\ verdict'[s][p] = "abandoned" => core'[s].disposed
                 /\ given'[s][p] # None => verdict'[s][p] = given'[s][p] /\ p \in core'[s].answered
      BY <3>1, <3>2, <3>3
    <3>. QED  BY <3>4, <3>5
  <2>4. CASE Falls(r)
    BY <2>4 DEF Falls, Fails, Throw, Reads, SettleOpen
  <2>5. CASE Passes(r)
    <3>1. Shift(r)
      BY <2>5 DEF Passes
    <3>2. ShiftFacts(r, Head(outbox[r]))
      BY <1>0, <3>1
    <3>. QED  BY <2>5, <3>2 DEF ShiftFacts, Passes, Shift, Reads, Event
  <2>6. CASE PublishRequested(r)
    BY <2>6 DEF PublishRequested, Puts
  <2>7. CASE PublishResolved(r)
    BY <2>7 DEF PublishResolved, Puts, Clear
  <2>8. CASE PublishTerminal(r)
    BY <2>8 DEF PublishTerminal, Puts, Release, Clear
  <2>9. CASE FinishWithFailure(r)
    BY <2>9 DEF FinishWithFailure, Release, Clear
  <2>. QED  BY <1>1, <2>1, <2>2, <2>3, <2>4, <2>5, <2>6, <2>7, <2>8, <2>9 DEF RunStep
<1>2. ASSUME NEW r \in Runs, NEW q \in RequestIds, InteractionStep(r, q) PROVE VerdictInv'
  <2>1. CASE Ask(r, q)
    BY <2>1 DEF Ask
  <2>2. CASE TakeAnswer(r, q)
    BY <2>2 DEF TakeAnswer, Told, Answered, Deciding
  <2>3. CASE RefuseClient(r, q)
    BY <2>3 DEF RefuseClient, Refuses, Told
  <2>4. CASE RefuseDecision(r, q)
    BY <2>4 DEF RefuseDecision, Refuses, Told, Throw, SettleOpen, Deciding
  <2>5. CASE Decides(r, q)
    <3>1. Shift(r)
      BY <2>5 DEF Decides
    <3>2. ShiftFacts(r, Head(outbox[r]))
      BY <1>0, <3>1
    <3>. QED  BY <2>5, <3>2 DEF ShiftFacts, Decides, Shift, Reads, Event
  <2>6. CASE Prompts(r, q)
    <3>1. Shift(r)
      BY <2>6 DEF Prompts
    <3>2. ShiftFacts(r, Head(outbox[r]))
      BY <1>0, <3>1
    <3>. QED  BY <2>6, <3>2 DEF ShiftFacts, Prompts, Shift, Reads, Event
  <2>7. CASE TimerIsLate(r, q)
    BY <2>7 DEF TimerIsLate, Fires
  <2>8. ASSUME NEW s \in Runs, TimerSends(r, q, s) PROVE VerdictInv'
    BY <2>8 DEF TimerSends, Sends, Fires, Recorded
  <2>. QED  BY <1>2, <2>1, <2>2, <2>3, <2>4, <2>5, <2>6, <2>7, <2>8 DEF InteractionStep
<1>3. ASSUME NEW c \in Calls, NEW q \in RequestIds, NEW a \in {"allow", "deny"}, CallStep(c, q, a) PROVE VerdictInv'
  <2>1. CASE RespondRefused(c, q, a)
    BY <2>1 DEF RespondRefused, Asks
  <2>2. ASSUME NEW s \in Runs, RespondSends(c, q, a, s) PROVE VerdictInv'
    BY <2>2 DEF RespondSends, Sends, Asks, Recorded
  <2>3. ASSUME NEW s \in Runs, NEW state \in {"taken", "waiting"}, RespondKnown(c, q, a, s, state) PROVE VerdictInv'
    BY <2>3 DEF RespondKnown, Asks
  <2>. QED  BY <1>3, <2>1, <2>2, <2>3 DEF CallStep
<1>. QED  BY <1>1, <1>2, <1>3 DEF Step

\* Where the loop stands.
LEMMA LoopStep ==
  ASSUME TypeOK, AskedInv, VerdictInv, OutboxInv, LoopInv, Step
  PROVE  LoopInv'
<1>0. \A r \in Runs : Shift(r) => ShiftFacts(r, Head(outbox[r]))
  BY ShiftFields
<1>. USE NoRunAssumption, NoIdAssumption DEF None, TypeOK, CoreType, AskedInv, VerdictInv, LoopInv,
      Decision, Answers, Over, Published, EventTypes, Terminals, Nothing, loop, answers, adapter,
      shown, supervisor
<1>1. ASSUME NEW r \in Runs, RunStep(r) PROVE LoopInv'
  <2>1. CASE Complete(r)
    BY <2>1 DEF Complete
  <2>2. CASE CancelsLate(r)
    BY <2>2 DEF CancelsLate, Stops, adapter
  <2>3. CASE Cancels(r)
    BY <2>3 DEF Cancels, Stops, SettleOpen
  <2>4. CASE Falls(r)
    BY <2>4 DEF Falls, Fails, Throw, Reads, SettleOpen
  <2>5. CASE Passes(r)
    <3>1. Shift(r)
      BY <2>5 DEF Passes
    <3>2. ShiftFacts(r, Head(outbox[r]))
      BY <1>0, <3>1
    <3>. QED  BY <2>5, <3>2 DEF ShiftFacts, Passes, Shift, Reads, Event
  <2>6. CASE PublishRequested(r)
    BY <2>6 DEF PublishRequested, Puts
  <2>7. CASE PublishResolved(r)
    BY <2>7 DEF PublishResolved, Puts, Clear
  <2>8. CASE PublishTerminal(r)
    BY <2>8 DEF PublishTerminal, Puts, Release, Clear
  <2>9. CASE FinishWithFailure(r)
    BY <2>9 DEF FinishWithFailure, Release, Clear
  <2>. QED  BY <1>1, <2>1, <2>2, <2>3, <2>4, <2>5, <2>6, <2>7, <2>8, <2>9 DEF RunStep
<1>2. ASSUME NEW r \in Runs, NEW q \in RequestIds, InteractionStep(r, q) PROVE LoopInv'
  <2>1. CASE Ask(r, q)
    BY <2>1 DEF Ask
  <2>2. CASE TakeAnswer(r, q)
    BY <2>2 DEF TakeAnswer, Told, Answered, Deciding
  <2>3. CASE RefuseClient(r, q)
    BY <2>3 DEF RefuseClient, Refuses, Told
  <2>4. CASE RefuseDecision(r, q)
    BY <2>4 DEF RefuseDecision, Refuses, Told, Throw, SettleOpen, Deciding
  <2>5. CASE Decides(r, q)
    <3>1. Shift(r)
      BY <2>5 DEF Decides
    <3>2. ShiftFacts(r, Head(outbox[r]))
      BY <1>0, <3>1
    <3>. QED  BY <2>5, <3>2 DEF ShiftFacts, Decides, Shift, Reads, Event
  <2>6. CASE Prompts(r, q)
    <3>1. Shift(r)
      BY <2>6 DEF Prompts
    <3>2. ShiftFacts(r, Head(outbox[r]))
      BY <1>0, <3>1
    <3>. QED  BY <2>6, <3>2 DEF ShiftFacts, Prompts, Shift, Reads, Event
  <2>7. CASE TimerIsLate(r, q)
    BY <2>7 DEF TimerIsLate, Fires
  <2>8. ASSUME NEW s \in Runs, TimerSends(r, q, s) PROVE LoopInv'
    BY <2>8 DEF TimerSends, Sends, Fires, Recorded
  <2>. QED  BY <1>2, <2>1, <2>2, <2>3, <2>4, <2>5, <2>6, <2>7, <2>8 DEF InteractionStep
<1>3. ASSUME NEW c \in Calls, NEW q \in RequestIds, NEW a \in {"allow", "deny"}, CallStep(c, q, a) PROVE LoopInv'
  <2>1. CASE RespondRefused(c, q, a)
    BY <2>1 DEF RespondRefused, Asks
  <2>2. ASSUME NEW s \in Runs, RespondSends(c, q, a, s) PROVE LoopInv'
    BY <2>2 DEF RespondSends, Sends, Asks, Recorded
  <2>3. ASSUME NEW s \in Runs, NEW state \in {"taken", "waiting"}, RespondKnown(c, q, a, s, state) PROVE LoopInv'
    BY <2>3 DEF RespondKnown, Asks
  <2>. QED  BY <1>3, <2>1, <2>2, <2>3 DEF CallStep
<1>. QED  BY <1>1, <1>2, <1>3 DEF Step

\* Recorded responses.
LEMMA RecordStep ==
  ASSUME TypeOK, AskedInv, VerdictInv, OutboxInv, RecordInv, Step
  PROVE  RecordInv'
<1>0. \A r \in Runs : Shift(r) => ShiftFacts(r, Head(outbox[r]))
  BY ShiftFields
<1>00. AnswerType /\ AdapterType
  BY TypeParts
<1>. USE <1>00, NoRunAssumption, NoIdAssumption DEF None, AnswerType, AdapterType, AskedInv,
      VerdictInv, RecordInv, RecordOf, Recorded, NoRecord, Answers, loop, answers, adapter, shown,
      supervisor
<1>1. ASSUME NEW r \in Runs, RunStep(r) PROVE RecordInv'
  <2>1. CASE Complete(r)
    BY <2>1 DEF Complete
  <2>2. CASE CancelsLate(r)
    BY <2>2 DEF CancelsLate, Stops, adapter
  <2>3. CASE Cancels(r)
    BY <2>3 DEF Cancels, Stops, SettleOpen
  <2>4. CASE Falls(r)
    BY <2>4 DEF Falls, Fails, Throw, Reads, SettleOpen
  <2>5. CASE Passes(r)
    <3>1. Shift(r)
      BY <2>5 DEF Passes
    <3>2. ShiftFacts(r, Head(outbox[r]))
      BY <1>0, <3>1
    <3>. QED  BY <2>5, <3>2 DEF ShiftFacts, Passes, Shift, Reads, Event
  <2>6. CASE PublishRequested(r)
    BY <2>6 DEF PublishRequested, Puts
  <2>7. CASE PublishResolved(r)
    BY <2>7 DEF PublishResolved, Puts, Clear
  <2>8. CASE PublishTerminal(r)
    BY <2>8 DEF PublishTerminal, Puts, Release, Clear
  <2>9. CASE FinishWithFailure(r)
    BY <2>9 DEF FinishWithFailure, Release, Clear
  <2>. QED  BY <1>1, <2>1, <2>2, <2>3, <2>4, <2>5, <2>6, <2>7, <2>8, <2>9 DEF RunStep
<1>2. ASSUME NEW r \in Runs, NEW q \in RequestIds, InteractionStep(r, q) PROVE RecordInv'
  <2>1. CASE Ask(r, q)
    BY <2>1 DEF Ask
  <2>2. CASE TakeAnswer(r, q)
    <3>1. /\ \A t \in Runs, p \in RequestIds : ops'[t][p] = IF t = r /\ p = q THEN None ELSE ops[t][p]
          /\ \A t \in Runs, p \in RequestIds : given'[t][p] = IF t = r /\ p = q THEN ops[t][p] ELSE given[t][p]
          /\ given[r][q] = None
          /\ UNCHANGED <<asked, responses>>
      BY <2>2 DEF TakeAnswer
    <3>. HIDE DEF Recorded, RecordInv, RecordOf, AskedInv, AdapterType, AnswerType
    <3>2. ASSUME NEW p \in RequestIds, Recorded(p)' PROVE RecordOf(p)'
      <4>1. CASE p = q
        <5>1. Recorded(q) => RecordOf(q)
          BY DEF RecordInv
        <5>. QED  BY <2>2, <3>1, <3>2, <4>1, <5>1 DEF RecordOf, Recorded
      <4>2. CASE p # q
        <5>1. Recorded(p) /\ responses'[p] = responses[p]
          BY <3>1, <3>2, <4>2 DEF Recorded
        <5>2. \A t \in Runs : ops'[t][p] = ops[t][p] /\ given'[t][p] = given[t][p] /\ asked'[t] = asked[t]
          BY <3>1, <4>2
        <5>3. RecordOf(p)
          BY <5>1 DEF RecordInv
        <5>. QED  BY <5>1, <5>2, <5>3 DEF RecordOf
      <4>. QED  BY <4>1, <4>2
    <3>. QED  BY <3>2 DEF RecordInv
  <2>3. CASE RefuseClient(r, q)
    <3>0. Refuses(r, q) /\ UNCHANGED asked
      BY <2>3 DEF RefuseClient, Throw
    <3>1. /\ \A t \in Runs, p \in RequestIds : ops'[t][p] = IF t = r /\ p = q THEN None ELSE ops[t][p]
          /\ \A p \in RequestIds : p # q => responses'[p] = responses[p]
          /\ responses'[q] = IF responses[q] = [run |-> r, answer |-> ops[r][q]] THEN NoRecord ELSE responses[q]
          /\ responses[q] \in [run : Runs \cup {NoRun}, answer : Answers \cup {None}]
          /\ UNCHANGED <<given, asked>>
      BY <3>0 DEF Refuses
    <3>. HIDE DEF Recorded, RecordInv, RecordOf, AskedInv, AdapterType, AnswerType
    <3>2. ASSUME NEW p \in RequestIds, Recorded(p)' PROVE RecordOf(p)'
      <4>1. CASE p = q
        <5>1. Recorded(q) => RecordOf(q)
          BY DEF RecordInv
        <5>. QED  BY <2>3, <3>1, <3>2, <4>1, <5>1 DEF RecordOf, Recorded
      <4>2. CASE p # q
        <5>1. Recorded(p) /\ responses'[p] = responses[p]
          BY <3>1, <3>2, <4>2 DEF Recorded
        <5>2. \A t \in Runs : ops'[t][p] = ops[t][p] /\ given'[t][p] = given[t][p] /\ asked'[t] = asked[t]
          BY <3>1, <4>2
        <5>3. RecordOf(p)
          BY <5>1 DEF RecordInv
        <5>. QED  BY <5>1, <5>2, <5>3 DEF RecordOf
      <4>. QED  BY <4>1, <4>2
    <3>. QED  BY <3>2 DEF RecordInv
  <2>4. CASE RefuseDecision(r, q)
    <3>0. Refuses(r, q) /\ UNCHANGED asked
      BY <2>4 DEF RefuseDecision, Throw
    <3>1. /\ \A t \in Runs, p \in RequestIds : ops'[t][p] = IF t = r /\ p = q THEN None ELSE ops[t][p]
          /\ \A p \in RequestIds : p # q => responses'[p] = responses[p]
          /\ responses'[q] = IF responses[q] = [run |-> r, answer |-> ops[r][q]] THEN NoRecord ELSE responses[q]
          /\ responses[q] \in [run : Runs \cup {NoRun}, answer : Answers \cup {None}]
          /\ UNCHANGED <<given, asked>>
      BY <3>0 DEF Refuses
    <3>. HIDE DEF Recorded, RecordInv, RecordOf, AskedInv, AdapterType, AnswerType
    <3>2. ASSUME NEW p \in RequestIds, Recorded(p)' PROVE RecordOf(p)'
      <4>1. CASE p = q
        <5>1. Recorded(q) => RecordOf(q)
          BY DEF RecordInv
        <5>. QED  BY <2>4, <3>1, <3>2, <4>1, <5>1 DEF RecordOf, Recorded
      <4>2. CASE p # q
        <5>1. Recorded(p) /\ responses'[p] = responses[p]
          BY <3>1, <3>2, <4>2 DEF Recorded
        <5>2. \A t \in Runs : ops'[t][p] = ops[t][p] /\ given'[t][p] = given[t][p] /\ asked'[t] = asked[t]
          BY <3>1, <4>2
        <5>3. RecordOf(p)
          BY <5>1 DEF RecordInv
        <5>. QED  BY <5>1, <5>2, <5>3 DEF RecordOf
      <4>. QED  BY <4>1, <4>2
    <3>. QED  BY <3>2 DEF RecordInv
  <2>5. CASE Decides(r, q)
    <3>1. Shift(r) /\ Head(outbox[r]) = Event("interaction.requested", q)
      BY <2>5 DEF Decides
    <3>2. ops[r][q] = None
      BY <1>0, <3>1 DEF ShiftFacts, Event
    <3>3. /\ \A t \in Runs, p \in RequestIds : ops[t][p] # None => ops'[t][p] = ops[t][p]
          /\ UNCHANGED <<given, asked, responses>>
      BY <2>5, <3>2 DEF Decides, Shift
    <3>. HIDE DEF Recorded, RecordInv, RecordOf, AskedInv, AdapterType, AnswerType
    <3>4. ASSUME NEW p \in RequestIds, Recorded(p)' PROVE RecordOf(p)'
      <4>1. Recorded(p) /\ responses'[p] = responses[p]
        BY <3>3, <3>4 DEF Recorded
      <4>2. RecordOf(p)
        BY <4>1 DEF RecordInv
      <4>. QED  BY <3>3, <4>1, <4>2 DEF RecordOf
    <3>. QED  BY <3>4 DEF RecordInv
  <2>6. CASE Prompts(r, q)
    <3>. HIDE DEF Recorded, RecordInv, RecordOf, AskedInv, VerdictInv
    <3>1. UNCHANGED <<ops, given, asked, responses>>
      BY <2>6 DEF Prompts, Shift
    <3>. QED  BY <3>1 DEF RecordInv, RecordOf, Recorded
  <2>7. CASE TimerIsLate(r, q)
    BY <2>7 DEF TimerIsLate, Fires
  <2>8. ASSUME NEW s \in Runs, TimerSends(r, q, s) PROVE RecordInv'
    <3>0. Sends(s, q, "timeout") /\ UNCHANGED <<given, asked>>
      BY <2>8 DEF TimerSends, Asks, Fires
    <3>1. /\ \A t \in Runs, p \in RequestIds : ops'[t][p] = IF t = s /\ p = q THEN "timeout" ELSE ops[t][p]
          /\ \A p \in RequestIds : responses'[p] = IF p = q THEN [run |-> s, answer |-> "timeout"] ELSE responses[p]
          /\ q \in asked[s] /\ UNCHANGED <<given, asked>>
      BY <3>0 DEF Sends
    <3>. HIDE DEF Recorded, RecordInv, RecordOf, AskedInv, AdapterType, AnswerType
    <3>2. ASSUME NEW p \in RequestIds, Recorded(p)' PROVE RecordOf(p)'
      <4>1. CASE p = q
        <5>1. Recorded(q) => RecordOf(q)
          BY DEF RecordInv
        <5>. QED  BY <2>8, <3>1, <3>2, <4>1, <5>1 DEF RecordOf, Recorded
      <4>2. CASE p # q
        <5>1. Recorded(p) /\ responses'[p] = responses[p]
          BY <3>1, <3>2, <4>2 DEF Recorded
        <5>2. \A t \in Runs : ops'[t][p] = ops[t][p] /\ given'[t][p] = given[t][p] /\ asked'[t] = asked[t]
          BY <3>1, <4>2
        <5>3. RecordOf(p)
          BY <5>1 DEF RecordInv
        <5>. QED  BY <5>1, <5>2, <5>3 DEF RecordOf
      <4>. QED  BY <4>1, <4>2
    <3>. QED  BY <3>2 DEF RecordInv
  <2>. QED  BY <1>2, <2>1, <2>2, <2>3, <2>4, <2>5, <2>6, <2>7, <2>8 DEF InteractionStep
<1>3. ASSUME NEW c \in Calls, NEW q \in RequestIds, NEW a \in {"allow", "deny"}, CallStep(c, q, a) PROVE RecordInv'
  <2>1. CASE RespondRefused(c, q, a)
    BY <2>1 DEF RespondRefused, Asks
  <2>2. ASSUME NEW s \in Runs, RespondSends(c, q, a, s) PROVE RecordInv'
    <3>0. Sends(s, q, a) /\ UNCHANGED <<given, asked>>
      BY <2>2 DEF RespondSends, Asks, Fires
    <3>1. /\ \A t \in Runs, p \in RequestIds : ops'[t][p] = IF t = s /\ p = q THEN a ELSE ops[t][p]
          /\ \A p \in RequestIds : responses'[p] = IF p = q THEN [run |-> s, answer |-> a] ELSE responses[p]
          /\ q \in asked[s] /\ UNCHANGED <<given, asked>>
      BY <3>0 DEF Sends
    <3>. HIDE DEF Recorded, RecordInv, RecordOf, AskedInv, AdapterType, AnswerType
    <3>2. ASSUME NEW p \in RequestIds, Recorded(p)' PROVE RecordOf(p)'
      <4>1. CASE p = q
        <5>1. Recorded(q) => RecordOf(q)
          BY DEF RecordInv
        <5>. QED  BY <2>2, <3>1, <3>2, <4>1, <5>1 DEF RecordOf, Recorded
      <4>2. CASE p # q
        <5>1. Recorded(p) /\ responses'[p] = responses[p]
          BY <3>1, <3>2, <4>2 DEF Recorded
        <5>2. \A t \in Runs : ops'[t][p] = ops[t][p] /\ given'[t][p] = given[t][p] /\ asked'[t] = asked[t]
          BY <3>1, <4>2
        <5>3. RecordOf(p)
          BY <5>1 DEF RecordInv
        <5>. QED  BY <5>1, <5>2, <5>3 DEF RecordOf
      <4>. QED  BY <4>1, <4>2
    <3>. QED  BY <3>2 DEF RecordInv
  <2>3. ASSUME NEW s \in Runs, NEW state \in {"taken", "waiting"}, RespondKnown(c, q, a, s, state) PROVE RecordInv'
    BY <2>3 DEF RespondKnown, Asks
  <2>. QED  BY <1>3, <2>1, <2>2, <2>3 DEF CallStep
<1>. QED  BY <1>1, <1>2, <1>3 DEF Step

\* Calls that wait.
LEMMA WaitingStep ==
  ASSUME TypeOK, AskedInv, OutboxInv, WaitingInv, Step
  PROVE  WaitingInv'
<1>0. \A r \in Runs : Shift(r) => ShiftFacts(r, Head(outbox[r]))
  BY ShiftFields
<1>00. AnswerType /\ CallType
  BY TypeParts
<1>. USE <1>00, NoRunAssumption, NoIdAssumption DEF None, AnswerType, CallType, WaitingInv, Answers,
      loop, answers, adapter, shown, supervisor
<1>1. ASSUME NEW r \in Runs, RunStep(r) PROVE WaitingInv'
  <2>1. CASE Complete(r)
    BY <2>1 DEF Complete
  <2>2. CASE CancelsLate(r)
    BY <2>2 DEF CancelsLate, Stops, adapter
  <2>3. CASE Cancels(r)
    BY <2>3 DEF Cancels, Stops, SettleOpen
  <2>4. CASE Falls(r)
    BY <2>4 DEF Falls, Fails, Throw, Reads, SettleOpen
  <2>5. CASE Passes(r)
    <3>1. Shift(r)
      BY <2>5 DEF Passes
    <3>2. ShiftFacts(r, Head(outbox[r]))
      BY <1>0, <3>1
    <3>. QED  BY <2>5, <3>2 DEF ShiftFacts, Passes, Shift, Reads, Event
  <2>6. CASE PublishRequested(r)
    BY <2>6 DEF PublishRequested, Puts
  <2>7. CASE PublishResolved(r)
    BY <2>7 DEF PublishResolved, Puts, Clear
  <2>8. CASE PublishTerminal(r)
    BY <2>8 DEF PublishTerminal, Puts, Release, Clear
  <2>9. CASE FinishWithFailure(r)
    BY <2>9 DEF FinishWithFailure, Release, Clear
  <2>. QED  BY <1>1, <2>1, <2>2, <2>3, <2>4, <2>5, <2>6, <2>7, <2>8, <2>9 DEF RunStep
<1>2. ASSUME NEW r \in Runs, NEW q \in RequestIds, InteractionStep(r, q) PROVE WaitingInv'
  <2>1. CASE Ask(r, q)
    BY <2>1 DEF Ask
  <2>2. CASE TakeAnswer(r, q)
    BY <2>2 DEF TakeAnswer, Told, Answered, Deciding
  <2>3. CASE RefuseClient(r, q)
    BY <2>3 DEF RefuseClient, Refuses, Told
  <2>4. CASE RefuseDecision(r, q)
    BY <2>4 DEF RefuseDecision, Refuses, Told, Throw, SettleOpen, Deciding
  <2>5. CASE Decides(r, q)
    <3>1. Shift(r)
      BY <2>5 DEF Decides
    <3>2. ShiftFacts(r, Head(outbox[r]))
      BY <1>0, <3>1
    <3>. QED  BY <2>5, <3>2 DEF ShiftFacts, Decides, Shift, Reads, Event
  <2>6. CASE Prompts(r, q)
    <3>1. Shift(r)
      BY <2>6 DEF Prompts
    <3>2. ShiftFacts(r, Head(outbox[r]))
      BY <1>0, <3>1
    <3>. QED  BY <2>6, <3>2 DEF ShiftFacts, Prompts, Shift, Reads, Event
  <2>7. CASE TimerIsLate(r, q)
    BY <2>7 DEF TimerIsLate, Fires
  <2>8. ASSUME NEW s \in Runs, TimerSends(r, q, s) PROVE WaitingInv'
    BY <2>8 DEF TimerSends, Sends, Fires, Recorded
  <2>. QED  BY <1>2, <2>1, <2>2, <2>3, <2>4, <2>5, <2>6, <2>7, <2>8 DEF InteractionStep
<1>3. ASSUME NEW c \in Calls, NEW q \in RequestIds, NEW a \in {"allow", "deny"}, CallStep(c, q, a) PROVE WaitingInv'
  <2>1. CASE RespondRefused(c, q, a)
    BY <2>1 DEF RespondRefused, Asks
  <2>2. ASSUME NEW s \in Runs, RespondSends(c, q, a, s) PROVE WaitingInv'
    <3>1. Sends(s, q, a) /\ Asks(c, q, a, "waiting") /\ Reached(q) = s
      BY <2>2 DEF RespondSends
    <3>2. \A t \in Runs, p \in RequestIds : ops'[t][p] = IF t = s /\ p = q THEN a ELSE ops[t][p]
      BY <3>1 DEF Sends
    <3>3. ops[s][q] = None /\ a # None
      BY <3>1 DEF Sends
    <3>4. /\ call'[c].state = "waiting" /\ call'[c].run = s /\ call'[c].id = q /\ call'[c].answer = a
          /\ \A d \in Calls \ {c} : call'[d] = call[d]
      BY <3>1 DEF Asks
    <3>. HIDE DEF CallType, AnswerType
    <3>. QED  BY <3>2, <3>3, <3>4
  <2>3. ASSUME NEW s \in Runs, NEW state \in {"taken", "waiting"}, RespondKnown(c, q, a, s, state) PROVE WaitingInv'
    <3>1. Asks(c, q, a, state) /\ Reached(q) = s /\ UNCHANGED ops /\ (state = "waiting" => ops[s][q] = a)
      BY <2>3 DEF RespondKnown
    <3>2. \A d \in Calls : call'[d] = IF d = c THEN [state |-> state, run |-> s, id |-> q, answer |-> a] ELSE call[d]
      BY <3>1 DEF Asks
    <3>. QED  BY <3>1, <3>2
  <2>. QED  BY <1>3, <2>1, <2>2, <2>3 DEF CallStep
<1>. QED  BY <1>1, <1>2, <1>3 DEF Step

-----------------------------------------------------------------------------
(* The order of the events, whatever is appended and read.                 *)

\* The names of the events that the proofs distinguish.
LEMMA EventNames ==
  /\ \A p, q : Requested(p) = Requested(q) => p = q
  /\ \A p, q : Resolved(p) = Resolved(q) => p = q
  /\ \A p, q : Requested(p) # Resolved(q)
  /\ \A q : Requested(q).type = "interaction.requested" /\ Requested(q).id = q
  /\ \A q : Resolved(q).type = "interaction.resolved" /\ Resolved(q).id = q
  /\ {"interaction.requested", "interaction.resolved", "run.completed", "run.cancelled"} \subseteq Published
  /\ "interaction.requested" \notin Terminals /\ "interaction.resolved" \notin Terminals
BY DEF Requested, Resolved, Event, Published, EventTypes, Terminals

\* An event is its type and its id.
LEMMA EventOf ==
  ASSUME NEW e \in Events
  PROVE  /\ e.type = "interaction.requested" => e = Requested(e.id)
         /\ e.type = "interaction.resolved" => e = Resolved(e.id)
BY DEF Events, Requested, Resolved, Event

\* What is in a sequence with one element more.
LEMMA InAppend ==
  ASSUME NEW b \in Seq(Events), NEW e \in Events
  PROVE  \A x : In(Append(b, e), x) <=> In(b, x) \/ x = e
<1>1. /\ Len(b) \in Nat /\ Len(Append(b, e)) = Len(b) + 1
      /\ Append(b, e)[Len(b) + 1] = e
      /\ \A i \in 1..Len(b) : Append(b, e)[i] = b[i]
  BY BoxAppend
<1>. QED  BY <1>1 DEF In

\* Ask.
LEMMA BoxAsked ==
  ASSUME NEW b \in Seq(Events), NEW A, NEW O, NEW P, NEW q \in RequestIds,
         BoxOK(b, A, O, P), Live(b), q \notin A, O \subseteq A, P \subseteq A
  PROVE  BoxOK(Append(b, Requested(q)), A \cup {q}, O \cup {q}, P) /\ Live(Append(b, Requested(q)))
<1>. DEFINE c == Append(b, Requested(q))
<1>0. Requested(q) \in Events
  BY DEF Requested, Event, Events, EventTypes
<1>1. /\ Len(b) \in Nat /\ Len(c) = Len(b) + 1
      /\ c[Len(b) + 1] = Requested(q)
      /\ \A i \in 1..Len(b) : c[i] = b[i] /\ b[i] \in Events
  BY <1>0, BoxAppend
<1>2. \A x : In(c, x) <=> In(b, x) \/ x = Requested(q)
  BY <1>0, InAppend
<1>. HIDE DEF c
<1>3. \A i \in 1..Len(b) : b[i] # Requested(q)
  BY EventNames DEF BoxOK, Live
<1>4. ~In(b, Requested(q)) /\ ~In(b, Resolved(q))
  BY EventNames DEF BoxOK, In
<1>5. ASSUME NEW i \in 1..Len(c)
      PROVE  /\ c[i].type \in Published
             /\ c[i].type \in Terminals => FALSE /\ i = Len(c)
             /\ c[i].type \notin Terminals => c[i].id \in A \cup {q} /\ \A j \in 1..Len(c) : c[j] = c[i] => j = i
             /\ c[i].type = "interaction.resolved" =>
                  c[i].id \notin O \cup {q} /\ (c[i].id \in P \/ \E j \in 1..i - 1 : c[j] = Requested(c[i].id))
  <2>1. CASE i = Len(b) + 1
    BY <1>1, <1>3, <2>1, EventNames
  <2>2. CASE i \in 1..Len(b)
    <3>1. c[i] = b[i] /\ \A j \in 1..Len(c) : j \in 1..Len(b) \/ j = Len(b) + 1
      BY <1>1, <2>2
    <3>2. b[i].type \in Published /\ b[i].type \notin Terminals /\ b[i].id \in A
          /\ \A j \in 1..Len(b) : b[j] = b[i] => j = i
      BY <2>2 DEF BoxOK, Live
    <3>3. b[i].type = "interaction.resolved" =>
            b[i].id \notin O /\ (b[i].id \in P \/ \E j \in 1..i - 1 : b[j] = Requested(b[i].id))
      BY <2>2 DEF BoxOK
    <3>4. \A j \in 1..i - 1 : j \in 1..Len(b)
      BY <1>1, <2>2
    <3>. QED  BY <1>1, <1>3, <2>2, <3>1, <3>2, <3>3, <3>4
  <2>. QED  BY <1>1, <2>1, <2>2
<1>6. ASSUME NEW p \in A \cup {q}
      PROVE  /\ In(c, Requested(p)) => p \notin P
             /\ (p \in P \/ In(c, Requested(p))) => (p \in O \cup {q} \/ In(c, Resolved(p)))
             /\ p \in O \cup {q} => p \in P \/ In(c, Requested(p))
  BY <1>2, <1>4, EventNames DEF BoxOK
<1>7. BoxOK(c, A \cup {q}, O \cup {q}, P) /\ Live(c)
  BY <1>5, <1>6 DEF BoxOK, Live
<1>. QED  BY <1>7 DEF c

\* TakeAnswer: the answered interaction was pending.
LEMMA BoxAnswered ==
  ASSUME NEW b \in Seq(Events), NEW A, NEW O, NEW P, NEW q \in RequestIds,
         BoxOK(b, A, O, P), Live(b), q \in O, O \subseteq A, ~In(b, Requested(q))
  PROVE  BoxOK(Append(b, Resolved(q)), A, O \ {q}, P) /\ Live(Append(b, Resolved(q)))
<1>. DEFINE c == Append(b, Resolved(q))
<1>0. Resolved(q) \in Events
  BY DEF Resolved, Event, Events, EventTypes
<1>1. /\ Len(b) \in Nat /\ Len(c) = Len(b) + 1
      /\ c[Len(b) + 1] = Resolved(q)
      /\ \A i \in 1..Len(b) : c[i] = b[i] /\ b[i] \in Events
  BY <1>0, BoxAppend
<1>2. \A x : In(c, x) <=> In(b, x) \/ x = Resolved(q)
  BY <1>0, InAppend
<1>. HIDE DEF c
<1>3. q \in A /\ q \in P
  BY DEF BoxOK
<1>4. \A i \in 1..Len(b) : b[i] # Resolved(q)
  BY EventNames DEF BoxOK
<1>5. ASSUME NEW i \in 1..Len(c)
      PROVE  /\ c[i].type \in Published
             /\ c[i].type \in Terminals => FALSE /\ i = Len(c)
             /\ c[i].type \notin Terminals => c[i].id \in A /\ \A j \in 1..Len(c) : c[j] = c[i] => j = i
             /\ c[i].type = "interaction.resolved" =>
                  c[i].id \notin O \ {q} /\ (c[i].id \in P \/ \E j \in 1..i - 1 : c[j] = Requested(c[i].id))
  <2>1. CASE i = Len(b) + 1
    BY <1>1, <1>3, <1>4, <2>1, EventNames
  <2>2. CASE i \in 1..Len(b)
    <3>1. c[i] = b[i] /\ \A j \in 1..Len(c) : j \in 1..Len(b) \/ j = Len(b) + 1
      BY <1>1, <2>2
    <3>2. b[i].type \in Published /\ b[i].type \notin Terminals /\ b[i].id \in A
          /\ \A j \in 1..Len(b) : b[j] = b[i] => j = i
      BY <2>2 DEF BoxOK, Live
    <3>3. b[i].type = "interaction.resolved" =>
            b[i].id \notin O /\ (b[i].id \in P \/ \E j \in 1..i - 1 : b[j] = Requested(b[i].id))
      BY <2>2 DEF BoxOK
    <3>4. \A j \in 1..i - 1 : j \in 1..Len(b)
      BY <1>1, <2>2
    <3>. QED  BY <1>1, <1>4, <2>2, <3>1, <3>2, <3>3, <3>4
  <2>. QED  BY <1>1, <2>1, <2>2
<1>6. ASSUME NEW p \in A
      PROVE  /\ In(c, Requested(p)) => p \notin P
             /\ (p \in P \/ In(c, Requested(p))) => (p \in O \ {q} \/ In(c, Resolved(p)))
             /\ p \in O \ {q} => p \in P \/ In(c, Requested(p))
  BY <1>2, <1>3, EventNames DEF BoxOK
<1>7. BoxOK(c, A, O \ {q}, P) /\ Live(c)
  BY <1>5, <1>6 DEF BoxOK, Live
<1>. QED  BY <1>7 DEF c

\* The events d resolve what is in O, once each.
Closing(d, O) ==
  /\ \A i \in 1..Len(d) : \E q \in O : d[i] = Resolved(q)
  /\ \A q \in O : \E i \in 1..Len(d) : d[i] = Resolved(q)
  /\ \A i, j \in 1..Len(d) : d[i] = d[j] => i = j

\* The run ends, completed or cancelled; a cancel resolves first what is open.
LEMMA BoxEnded ==
  ASSUME NEW b \in Seq(Events), NEW A, NEW O, NEW P, BoxOK(b, A, O, P), Live(b), O \subseteq A,
         NEW d \in Seq(Events), NEW e \in Events, e.type \in {"run.completed", "run.cancelled"},
         Closing(d, O),
         NEW c, c = b \o d \o <<e>>
  PROVE  BoxOK(c, A, {}, P) /\ \A q : In(c, Requested(q)) => In(b, Requested(q))
<1>. DEFINE m == Len(b)
            n == Len(d)
<1>1. /\ m \in Nat /\ n \in Nat /\ Len(c) = m + n + 1
      /\ \A i \in 1..m : c[i] = b[i] /\ b[i] \in Events
      /\ \A i \in 1..n : c[m + i] = d[i] /\ d[i] \in Events
      /\ c[m + n + 1] = e
  <2>1. m \in Nat /\ n \in Nat /\ b \o d \in Seq(Events) /\ Len(b \o d) = m + n /\ <<e>> \in Seq(Events) /\ Len(<<e>>) = 1
    OBVIOUS
  <2>2. \A i \in 1..m : (b \o d)[i] = b[i] /\ b[i] \in Events
    OBVIOUS
  <2>3. \A i \in 1..n : (b \o d)[m + i] = d[i] /\ d[i] \in Events
    OBVIOUS
  <2>4. c \in Seq(Events) /\ Len(c) = m + n + 1 /\ c[m + n + 1] = e
    BY <2>1
  <2>5. \A i \in 1..m + n : c[i] = (b \o d)[i]
    BY <2>1
  <2>. QED  BY <2>1, <2>2, <2>3, <2>4, <2>5
<1>. HIDE DEF m, n
<1>2. \A i \in 1..Len(c) : i \in 1..m \/ (\E k \in 1..n : i = m + k) \/ i = m + n + 1
  <2>1. ASSUME NEW i \in 1..Len(c), i \notin 1..m, i # m + n + 1 PROVE i - m \in 1..n /\ i = m + (i - m)
    BY <1>1, <2>1
  <2>. QED  BY <2>1
<1>3. \A i \in 1..m : /\ b[i].type \in Published /\ b[i].type \notin Terminals /\ b[i].id \in A
                      /\ \A j \in 1..m : b[j] = b[i] => j = i
                      /\ \A q \in O : b[i] # Resolved(q)
  <2>1. ASSUME NEW i \in 1..m
        PROVE  /\ b[i].type \in Published /\ b[i].type \notin Terminals /\ b[i].id \in A
               /\ \A j \in 1..m : b[j] = b[i] => j = i
               /\ b[i].type = "interaction.resolved" => b[i].id \notin O
    BY DEF BoxOK, Live, m
  <2>. QED  BY <2>1, EventNames
<1>4. e.type \in Terminals /\ e.type \in Published
  BY DEF Terminals, Published, EventTypes
<1>5. ASSUME NEW x, In(b, x) PROVE In(c, x)
  <2>1. PICK i \in 1..m : b[i] = x
    BY <1>5 DEF In, m
  <2>2. i \in 1..Len(c)
    BY <1>1, <2>1
  <2>3. c[i] = x
    BY <1>1, <2>1
  <2>. QED  BY <2>2, <2>3 DEF In
<1>6. ASSUME NEW q \in O PROVE In(c, Resolved(q))
  <2>1. PICK i \in 1..n : d[i] = Resolved(q)
    BY <1>6 DEF Closing, n
  <2>2. m + i \in 1..Len(c) /\ c[m + i] = Resolved(q)
    BY <1>1, <2>1
  <2>. QED  BY <2>2 DEF In
<1>7. ASSUME NEW q, In(c, Requested(q)) PROVE In(b, Requested(q))
  <2>1. PICK i \in 1..Len(c) : c[i] = Requested(q)
    BY <1>7 DEF In
  <2>2. CASE i \in 1..m
    BY <1>1, <2>1, <2>2 DEF In, m
  <2>3. CASE \E k \in 1..n : i = m + k
    <3>1. PICK k \in 1..n : i = m + k
      BY <2>3
    <3>2. PICK p \in O : d[k] = Resolved(p)
      BY DEF Closing, n
    <3>3. c[i] = Resolved(p)
      BY <1>1, <3>1, <3>2
    <3>. QED  BY <2>1, <3>3, EventNames
  <2>4. CASE i = m + n + 1
    BY <1>1, <1>4, <2>1, <2>4, EventNames
  <2>. QED  BY <1>2, <2>2, <2>3, <2>4
<1>8. ASSUME NEW i \in 1..Len(c)
      PROVE  /\ c[i].type \in Published
             /\ c[i].type \in Terminals => i = Len(c)
             /\ c[i].type \notin Terminals => c[i].id \in A /\ \A j \in 1..Len(c) : c[j] = c[i] => j = i
             /\ c[i].type = "interaction.resolved" =>
                  c[i].id \in P \/ \E j \in 1..i - 1 : c[j] = Requested(c[i].id)
  <2>1. CASE i \in 1..m
    <3>1. ASSUME NEW j \in 1..Len(c), c[j] = c[i] PROVE j = i
      <4>1. CASE j \in 1..m
        BY <1>1, <1>3, <2>1, <3>1, <4>1
      <4>2. CASE \E k \in 1..n : j = m + k
        BY <1>1, <1>3, <2>1, <3>1, <4>2 DEF Closing, n
      <4>3. CASE j = m + n + 1
        BY <1>1, <1>3, <1>4, <2>1, <3>1, <4>3
      <4>. QED  BY <1>2, <4>1, <4>2, <4>3
    <3>2. b[i].type = "interaction.resolved" =>
            b[i].id \in P \/ \E j \in 1..i - 1 : b[j] = Requested(b[i].id)
      BY <2>1 DEF BoxOK, m
    <3>3. \A j \in 1..i - 1 : j \in 1..m
      BY <1>1, <2>1
    <3>. QED  BY <1>1, <1>3, <2>1, <3>1, <3>2, <3>3
  <2>2. CASE \E k \in 1..n : i = m + k
    <3>1. PICK k \in 1..n : i = m + k
      BY <2>2
    <3>2. PICK q \in O : d[k] = Resolved(q)
      BY DEF Closing, n
    <3>3. c[i] = Resolved(q) /\ c[i] = d[k]
      BY <1>1, <3>1, <3>2
    <3>4. ASSUME NEW j \in 1..Len(c), c[j] = c[i] PROVE j = i
      <4>1. CASE j \in 1..m
        <5>1. c[j] = b[j] /\ b[j] # Resolved(q)
          BY <1>1, <1>3, <4>1
        <5>. QED  BY <3>3, <3>4, <5>1
      <4>2. CASE \E l \in 1..n : j = m + l
        <5>1. PICK l \in 1..n : j = m + l
          BY <4>2
        <5>2. d[l] = d[k]
          BY <1>1, <3>3, <3>4, <5>1
        <5>3. l = k
          BY <5>2 DEF Closing, n
        <5>. QED  BY <3>1, <5>1, <5>3
      <4>3. CASE j = m + n + 1
        <5>1. c[j] = e
          BY <1>1, <4>3
        <5>2. Resolved(q).type = "interaction.resolved" /\ "interaction.resolved" \notin Terminals
          BY EventNames
        <5>. QED  BY <1>4, <3>3, <3>4, <5>1, <5>2
      <4>. QED  BY <1>2, <4>1, <4>2, <4>3
    <3>5. q \in P \/ In(b, Requested(q))
      BY DEF BoxOK
    <3>6. In(b, Requested(q)) => \E j \in 1..i - 1 : c[j] = Requested(q)
      <4>1. ASSUME NEW j \in 1..m, b[j] = Requested(q) PROVE j \in 1..i - 1 /\ c[j] = Requested(q)
        <5>1. k \in Nat \ {0} /\ m \in Nat /\ n \in Nat
          BY <1>1
        <5>2. j \in 1..i - 1
          BY <3>1, <5>1
        <5>. QED  BY <1>1, <4>1, <5>2
      <4>. QED  BY <4>1 DEF In, m
    <3>7. Resolved(q).type = "interaction.resolved" /\ Resolved(q).id = q /\ "interaction.resolved" \notin Terminals
          /\ "interaction.resolved" \in Published
      BY EventNames
    <3>8. q \in A
      OBVIOUS
    <3>. HIDE DEF BoxOK
    <3>. QED  BY <3>3, <3>4, <3>5, <3>6, <3>7, <3>8
  <2>3. CASE i = m + n + 1
    BY <1>1, <1>4, <2>3, EventNames
  <2>. QED  BY <1>2, <2>1, <2>2, <2>3
<1>9. ASSUME NEW q \in A
      PROVE  /\ In(c, Requested(q)) => q \notin P
             /\ (q \in P \/ In(c, Requested(q))) => In(c, Resolved(q))
  BY <1>5, <1>6, <1>7 DEF BoxOK
<1>10. BoxOK(c, A, {}, P)
  BY <1>8, <1>9 DEF BoxOK
<1>. QED  BY <1>7, <1>10

\* R is pending when P was and the event e has passed.
Turns(e, P, R) ==
  /\ e.type = "interaction.requested" => R = P \cup {e.id}
  /\ e.type = "interaction.resolved" => R = P \ {e.id}
  /\ e.type \in Terminals => R = P

\* The loop reads the first event.
LEMMA BoxRead ==
  ASSUME NEW b \in Seq(Events), NEW A, NEW O, NEW P, BoxOK(b, A, O, P), P \subseteq A, b # <<>>,
         NEW e, e = Head(b), NEW R, Turns(e, P, R)
  PROVE  /\ BoxOK(Tail(b), A, O, R)
         /\ \A x : In(Tail(b), x) => In(b, x)
         /\ e.type \notin Terminals => ~In(Tail(b), e)
         /\ e.type \in Terminals => ~Live(b) /\ Tail(b) = <<>>
         /\ Live(b) => Live(Tail(b))
<1>. USE DEF Turns
<1>. DEFINE c == Tail(b)
            m == Len(c)
<1>1. /\ c \in Seq(Events) /\ m \in Nat /\ Len(b) = m + 1 /\ e = b[1] /\ e \in Events
      /\ \A i \in 1..m : c[i] = b[i + 1]
  BY BoxHead
<1>2. \A i \in 1..m : i + 1 \in 1..Len(b) /\ i + 1 # 1 /\ c[i] = b[i + 1] /\ b[i + 1] \in Events
  BY <1>1
<1>3. 1 \in 1..Len(b)
  BY <1>1
<1>4. /\ e.type \in Published
      /\ e.type \notin Terminals => e.id \in A /\ \A j \in 1..Len(b) : b[j] = e => j = 1
      /\ e.type \in Terminals => ~Live(b) /\ m = 0
      /\ e.type = "interaction.resolved" => e.id \notin O /\ e.id \in P
  <2>1. ~\E j \in 1..1 - 1 : TRUE
    OBVIOUS
  <2>2. /\ b[1].type \in Published
        /\ b[1].type \in Terminals => ~Live(b) /\ 1 = Len(b)
        /\ b[1].type \notin Terminals => b[1].id \in A /\ \A j \in 1..Len(b) : b[j] = b[1] => j = 1
        /\ b[1].type = "interaction.resolved" =>
             b[1].id \notin O /\ (b[1].id \in P \/ \E j \in 1..1 - 1 : b[j] = Requested(b[1].id))
    BY <1>3 DEF BoxOK, Live
  <2>. QED  BY <1>1, <2>1, <2>2
<1>. HIDE DEF c, m
<1>5. e.type = "interaction.requested" \/ e.type = "interaction.resolved" \/ e.type \in Terminals
  BY <1>4 DEF Published, EventTypes
<1>6. e.type = "interaction.requested" => e = Requested(e.id)
  BY <1>1, EventOf
<1>7. e.type = "interaction.resolved" => e = Resolved(e.id)
  BY <1>1, EventOf
<1>8. ASSUME NEW x PROVE In(b, x) <=> (x = e \/ In(c, x))
  <2>1. ASSUME In(b, x), x # e PROVE In(c, x)
    <3>1. PICK i \in 1..Len(b) : b[i] = x
      BY <2>1 DEF In
    <3>2. i - 1 \in 1..m /\ c[i - 1] = x
      BY <1>1, <2>1, <3>1
    <3>. QED  BY <3>2 DEF In, m
  <2>2. ASSUME In(c, x) PROVE In(b, x)
    BY <1>2, <2>2 DEF In, m
  <2>. QED  BY <1>1, <1>3, <2>1, <2>2 DEF In
<1>9. ASSUME e.type \notin Terminals PROVE ~In(c, e)
  BY <1>2, <1>4, <1>9 DEF In, m
<1>10. ASSUME NEW i \in 1..Len(c)
       PROVE  /\ c[i].type \in Published
              /\ c[i].type \in Terminals => i = Len(c)
              /\ c[i].type \notin Terminals => c[i].id \in A /\ \A j \in 1..Len(c) : c[j] = c[i] => j = i
              /\ c[i].type = "interaction.resolved" =>
                   c[i].id \notin O /\ (c[i].id \in R \/ \E j \in 1..i - 1 : c[j] = Requested(c[i].id))
  <2>1. i + 1 \in 1..Len(b) /\ c[i] = b[i + 1] /\ i \in 1..m
    BY <1>2 DEF m
  <2>2. c[i].type \in Published /\ (c[i].type \in Terminals => i = Len(c))
    BY <1>1, <2>1 DEF BoxOK, m
  <2>3. c[i].type \notin Terminals => c[i].id \in A /\ \A j \in 1..Len(c) : c[j] = c[i] => j = i
    <3>1. c[i].type \notin Terminals => c[i].id \in A /\ \A j \in 1..Len(b) : b[j] = b[i + 1] => j = i + 1
      BY <2>1 DEF BoxOK
    <3>2. ASSUME NEW j \in 1..Len(c), c[j] = c[i], c[i].type \notin Terminals PROVE j = i
      <4>1. j + 1 \in 1..Len(b) /\ b[j + 1] = b[i + 1]
        BY <1>2, <2>1, <3>2 DEF m
      <4>2. j + 1 = i + 1
        BY <3>1, <3>2, <4>1
      <4>. QED  BY <4>2
    <3>. QED  BY <3>1, <3>2
  <2>4. ASSUME c[i].type = "interaction.resolved"
        PROVE  c[i].id \notin O /\ (c[i].id \in R \/ \E j \in 1..i - 1 : c[j] = Requested(c[i].id))
    <3>. DEFINE q == c[i].id
    <3>1. q \notin O /\ (q \in P \/ \E j \in 1..i : b[j] = Requested(q))
      BY <2>1, <2>4 DEF BoxOK
    <3>2. c[i] = Resolved(q)
      BY <1>2, <2>1, <2>4, EventOf
    <3>3. e # Resolved(q)
      <4>1. ASSUME e = Resolved(q) PROVE FALSE
        <5>1. e.type \notin Terminals
          BY <4>1, EventNames
        <5>. QED  BY <1>9, <2>1, <3>2, <4>1, <5>1 DEF In, m
      <4>. QED  BY <4>1
    <3>4. e.type \notin Terminals
      BY <1>1, <1>4, <2>1
    <3>5. CASE q \in P
      <4>1. CASE e.type = "interaction.requested"
        BY <3>1, <3>5, <4>1
      <4>2. CASE e.type = "interaction.resolved"
        <5>1. e.id # q
          BY <1>7, <3>3, <4>2
        <5>. QED  BY <3>1, <3>5, <4>2, <5>1
      <4>. QED  BY <1>5, <3>1, <3>4, <4>1, <4>2
    <3>6. CASE \E j \in 1..i : b[j] = Requested(q)
      <4>1. PICK j \in 1..i : b[j] = Requested(q)
        BY <3>6
      <4>2. CASE j = 1
        <5>1. e.type = "interaction.requested" /\ e.id = q
          BY <1>1, <4>1, <4>2, EventNames
        <5>. QED  BY <3>1, <5>1
      <4>3. CASE j # 1
        <5>1. j - 1 \in 1..i - 1 /\ c[j - 1] = Requested(q)
          BY <1>1, <2>1, <4>1, <4>3
        <5>. QED  BY <3>1, <5>1
      <4>. QED  BY <4>2, <4>3
    <3>. QED  BY <3>1, <3>5, <3>6
  <2>. QED  BY <2>2, <2>3, <2>4
<1>11. ASSUME NEW q \in A
       PROVE  /\ In(c, Requested(q)) => q \notin R
              /\ (q \in R \/ In(c, Requested(q))) => (q \in O \/ In(c, Resolved(q)))
              /\ q \in O => q \in R \/ In(c, Requested(q))
  <2>1. /\ In(b, Requested(q)) => q \notin P
        /\ (q \in P \/ In(b, Requested(q))) => (q \in O \/ In(b, Resolved(q)))
        /\ q \in O => q \in P \/ In(b, Requested(q))
    BY DEF BoxOK
  <2>2. CASE e.type = "interaction.requested"
    <3>1. In(b, Resolved(q)) <=> In(c, Resolved(q))
      BY <1>6, <1>8, <2>2, EventNames
    <3>2. In(b, Requested(q)) <=> (q = e.id \/ In(c, Requested(q)))
      BY <1>6, <1>8, <2>2, EventNames
    <3>3. q = e.id => ~In(c, Requested(q))
      BY <1>6, <1>9, <2>2, EventNames
    <3>. QED  BY <2>1, <2>2, <3>1, <3>2, <3>3
  <2>3. CASE e.type = "interaction.resolved"
    <3>1. In(b, Resolved(q)) <=> (q = e.id \/ In(c, Resolved(q)))
      BY <1>7, <1>8, <2>3, EventNames
    <3>2. In(b, Requested(q)) <=> In(c, Requested(q))
      BY <1>7, <1>8, <2>3, EventNames
    <3>3. q = e.id => q \notin O /\ q \in P
      BY <1>4, <2>3
    <3>. QED  BY <2>1, <2>3, <3>1, <3>2, <3>3
  <2>4. CASE e.type \in Terminals
    <3>1. e # Resolved(q) /\ e # Requested(q)
      BY <2>4, EventNames
    <3>2. (In(b, Resolved(q)) <=> In(c, Resolved(q))) /\ (In(b, Requested(q)) <=> In(c, Requested(q)))
      BY <1>8, <3>1
    <3>. QED  BY <2>1, <2>4, <3>2
  <2>. QED  BY <1>5, <2>2, <2>3, <2>4
<1>. HIDE DEF BoxOK
<1>12. BoxOK(c, A, O, R)
  BY <1>10, <1>11 DEF BoxOK
<1>13. e.type \in Terminals => ~Live(b) /\ c = <<>>
  BY <1>1, <1>4 DEF m
<1>14. Live(b) => Live(c)
  BY <1>2 DEF Live, m
<1>. QED  BY <1>8, <1>9, <1>12, <1>13, <1>14 DEF c

-----------------------------------------------------------------------------
(* The order of the events is preserved.                                   *)

\* A step leaves the outbox of a run alone, and what is said of it.
Kept(s) ==
  /\ outbox'[s] = outbox[s] /\ open'[s] = open[s] /\ asked'[s] = asked[s] /\ ended'[s] = ended[s]
  /\ core'[s].pending = core[s].pending /\ core'[s].answered = core[s].answered
  /\ core'[s].terminalSeen = core[s].terminalSeen /\ core'[s].disposed = core[s].disposed
  /\ given'[s] = given[s]
  /\ \A q \in RequestIds : In(outbox[s], Requested(q)) => ops'[s][q] = None /\ supPending'[q] # s

\* What is said of a run's outbox depends on that run's own state.
LEMMA OutboxKept ==
  ASSUME NEW s \in Runs, OutboxOf(s), Kept(s)
  PROVE  OutboxOf(s)'
<1>1. BoxOK(outbox[s], asked[s], open[s], core[s].pending)' <=> BoxOK(outbox[s], asked[s], open[s], core[s].pending)
  BY DEF Kept, BoxOK, In
<1>2. \A q : In(outbox[s], Requested(q))' <=> In(outbox[s], Requested(q))
  BY DEF Kept, In
<1>3. Live(outbox[s])' <=> Live(outbox[s])
  BY DEF Kept, Live
<1>. QED  BY <1>1, <1>2, <1>3 DEF Kept, OutboxOf

\* What was not read stays in order.
LEMMA OutboxStep ==
  ASSUME TypeOK, AskedInv, VerdictInv, OutboxInv, PendingInv, Step
  PROVE  OutboxInv'
<1>0. \A r \in Runs : Shift(r) => ShiftFacts(r, Head(outbox[r]))
  BY ShiftFields
<1>00. LoopType /\ AnswerType /\ AdapterType /\ SupervisorType
  BY TypeParts
<1>. USE <1>00, NoRunAssumption, NoIdAssumption DEF None, LoopType, CoreType, AnswerType,
      AdapterType, SupervisorType, loop, answers, adapter, shown, supervisor
<1>1. ASSUME NEW r \in Runs, RunStep(r) PROVE OutboxInv'
  <2>1. CASE Complete(r)
    <3>1. ASSUME NEW t \in Runs \ {r} PROVE Kept(t)
      <4>1. \A p \in RequestIds : In(outbox[t], Requested(p)) => ops[t][p] = None /\ supPending[p] # t
        BY DEF OutboxInv, OutboxOf
      <4>. QED  BY <2>1, <4>1 DEF Kept, Complete
    <3>2. OutboxOf(r)'
      <4>1. /\ outbox[r] \in Seq(Events) /\ ended[r] = FALSE /\ ~core[r].terminalSeen /\ ~core[r].disposed
            /\ open[r] \subseteq asked[r] /\ core[r].pending \subseteq asked[r]
        BY <2>1 DEF OutboxInv, OutboxOf, AskedInv, Complete
      <4>2. BoxOK(outbox[r], asked[r], open[r], core[r].pending) /\ Live(outbox[r])
        BY <4>1 DEF OutboxInv, OutboxOf
      <4>3. \A p \in RequestIds : In(outbox[r], Requested(p)) =>
              p \notin core[r].answered /\ ops[r][p] = None /\ given[r][p] = None /\ supPending[p] # r
        BY DEF OutboxInv, OutboxOf
      <4>. DEFINE e == Event("run.completed", NoId)
      <4>4. e \in Events /\ e.type = "run.completed"
        BY DEF Event, Events, EventTypes, Terminals
      <4>5. outbox'[r] = Append(outbox[r], e) /\ open[r] = {}
        BY <2>1 DEF Complete
      <4>6. Append(outbox[r], e) = outbox[r] \o <<>> \o <<e>>
        BY <4>1, <4>4
      <4>7. <<>> \in Seq(Events) /\ Len(<<>>) = 0
        OBVIOUS
      <4>. HIDE DEF e
      <4>8. /\ BoxOK(outbox'[r], asked[r], {}, core[r].pending)
           /\ \A p : In(outbox'[r], Requested(p)) => In(outbox[r], Requested(p))
        <5>. DEFINE b == outbox[r]
                    A == asked[r]
                    O == open[r]
                    P == core[r].pending
                    d == <<>>
                    c == b \o d \o <<e>>
        <5>1. b \in Seq(Events) /\ BoxOK(b, A, O, P) /\ Live(b) /\ O \subseteq A
          BY <4>1, <4>2
        <5>2. /\ d \in Seq(Events) /\ e \in Events /\ e.type \in {"run.completed", "run.cancelled"}
              /\ c = b \o d \o <<e>> /\ c = outbox'[r]
          BY <4>4, <4>5, <4>6, <4>7
        <5>3. O = {} /\ Len(d) = 0
          BY <4>5, <4>7
        <5>. HIDE <1>00, NoRunAssumption, NoIdAssumption DEF LoopType, CoreType, AnswerType,
              AdapterType, SupervisorType, None, loop, answers, adapter, shown, supervisor, b, A, O,
              P, d, c
        <5>4. Closing(d, O)
          BY <5>3 DEF Closing
        <5>5. BoxOK(c, A, {}, P)
          BY <5>1, <5>2, <5>4, BoxEnded
        <5>6. \A p : In(c, Requested(p)) => In(b, Requested(p))
          BY <5>1, <5>2, <5>4, BoxEnded, Zenon
        <5>. QED  BY <5>2, <5>5, <5>6 DEF b, A, P
      <4>9. /\ ended'[r] = TRUE /\ asked'[r] = asked[r] /\ open'[r] = {} /\ core'[r] = core[r]
            /\ UNCHANGED <<ops, given, supPending>>
        BY <2>1 DEF Complete
      <4>. QED  BY <4>1, <4>3, <4>8, <4>9 DEF OutboxOf
    <3>. QED  BY <3>1, <3>2, OutboxKept DEF OutboxInv
  <2>2. CASE CancelsLate(r)
    <3>1. ASSUME NEW t \in Runs PROVE Kept(t)
      <4>1. \A p \in RequestIds : In(outbox[t], Requested(p)) => ops[t][p] = None /\ supPending[p] # t
        BY DEF OutboxInv, OutboxOf
      <4>. QED  BY <2>2, <4>1 DEF Kept, CancelsLate, Stops, adapter
    <3>. QED  BY <3>1, OutboxKept DEF OutboxInv
  <2>3. CASE Cancels(r)
    <3>1. ASSUME NEW t \in Runs \ {r} PROVE Kept(t)
      <4>1. \A p \in RequestIds : In(outbox[t], Requested(p)) => ops[t][p] = None /\ supPending[p] # t
        BY DEF OutboxInv, OutboxOf
      <4>. QED  BY <2>3, <4>1 DEF Kept, Cancels, Stops, SettleOpen
    <3>2. OutboxOf(r)'
      <4>1. /\ outbox[r] \in Seq(Events) /\ ended[r] = FALSE /\ ~core[r].terminalSeen /\ ~core[r].disposed
            /\ open[r] \subseteq asked[r] /\ core[r].pending \subseteq asked[r]
        BY <2>3 DEF OutboxInv, OutboxOf, AskedInv, Cancels
      <4>2. BoxOK(outbox[r], asked[r], open[r], core[r].pending) /\ Live(outbox[r])
        BY <4>1 DEF OutboxInv, OutboxOf
      <4>3. \A p \in RequestIds : In(outbox[r], Requested(p)) =>
              p \notin core[r].answered /\ ops[r][p] = None /\ given[r][p] = None /\ supPending[p] # r
        BY DEF OutboxInv, OutboxOf
      <4>. DEFINE e == Event("run.cancelled", NoId)
      <4>4. e \in Events /\ e.type = "run.cancelled"
        BY DEF Event, Events, EventTypes, Terminals
      <4>5. outbox'[r] = outbox[r] \o Resolving(r) \o <<e>>
        BY <2>3 DEF Cancels
      <4>6. /\ Resolving(r) \in Seq(Events)
            /\ \A i \in 1..Len(Resolving(r)) : \E p \in open[r] : Resolving(r)[i] = Resolved(p)
            /\ \A p \in open[r] : \E i \in 1..Len(Resolving(r)) : Resolving(r)[i] = Resolved(p)
            /\ \A i, j \in 1..Len(Resolving(r)) : Resolving(r)[i] = Resolving(r)[j] => i = j
        BY ResolvingOnce DEF Resolved
      <4>. HIDE DEF e
      <4>8. /\ BoxOK(outbox'[r], asked[r], {}, core[r].pending)
           /\ \A p : In(outbox'[r], Requested(p)) => In(outbox[r], Requested(p))
        <5>. DEFINE b == outbox[r]
                    A == asked[r]
                    O == open[r]
                    P == core[r].pending
                    d == Resolving(r)
                    c == b \o d \o <<e>>
        <5>1. b \in Seq(Events) /\ BoxOK(b, A, O, P) /\ Live(b) /\ O \subseteq A
          BY <4>1, <4>2
        <5>2. /\ d \in Seq(Events) /\ e \in Events /\ e.type \in {"run.completed", "run.cancelled"}
              /\ c = b \o d \o <<e>> /\ c = outbox'[r]
          BY <4>4, <4>5, <4>6
        <5>4. Closing(d, O)
          BY <4>6 DEF Closing
        <5>. HIDE <1>00, NoRunAssumption, NoIdAssumption DEF LoopType, CoreType, AnswerType,
              AdapterType, SupervisorType, None, loop, answers, adapter, shown, supervisor, b, A, O,
              P, d, c
        <5>5. BoxOK(c, A, {}, P)
          BY <5>1, <5>2, <5>4, BoxEnded
        <5>6. \A p : In(c, Requested(p)) => In(b, Requested(p))
          BY <5>1, <5>2, <5>4, BoxEnded, Zenon
        <5>. QED  BY <5>2, <5>5, <5>6 DEF b, A, P
      <4>9. /\ ended'[r] = TRUE /\ asked'[r] = asked[r] /\ open'[r] = {}
            /\ core'[r].pending = core[r].pending /\ core'[r].answered = core[r].answered
            /\ core'[r].terminalSeen = core[r].terminalSeen /\ core'[r].disposed = core[r].disposed
            /\ UNCHANGED <<ops, given, supPending>>
        BY <2>3 DEF Cancels, Stops, SettleOpen
      <4>. QED  BY <4>1, <4>3, <4>8, <4>9 DEF OutboxOf
    <3>. QED  BY <3>1, <3>2, OutboxKept DEF OutboxInv
  <2>4. CASE Falls(r)
    <3>1. ASSUME NEW t \in Runs \ {r} PROVE Kept(t)
      <4>1. \A p \in RequestIds : In(outbox[t], Requested(p)) => ops[t][p] = None /\ supPending[p] # t
        BY DEF OutboxInv, OutboxOf
      <4>. QED  BY <2>4, <4>1 DEF Kept, Falls, Fails, Throw, Reads, SettleOpen
    <3>2. OutboxOf(r)'
      <4>1. outbox'[r] = <<>> /\ ended'[r] = TRUE /\ core'[r].disposed = TRUE
        BY <2>4 DEF Falls, Fails, Throw, Reads, SettleOpen
      <4>2. \A p \in RequestIds : ~In(outbox'[r], Requested(p))
        <5>1. Len(outbox'[r]) = 0
          BY <4>1
        <5>. QED  BY <5>1 DEF In
      <4>. QED  BY <4>1, <4>2 DEF OutboxOf
    <3>. QED  BY <3>1, <3>2, OutboxKept DEF OutboxInv
  <2>5. CASE Passes(r)
    <3>1. ASSUME NEW t \in Runs \ {r} PROVE Kept(t)
      <4>1. \A p \in RequestIds : In(outbox[t], Requested(p)) => ops[t][p] = None /\ supPending[p] # t
        BY DEF OutboxInv, OutboxOf
      <4>2. ShiftFacts(r, Head(outbox[r]))
        BY <2>5, <1>0 DEF Passes
      <4>. QED  BY <2>5, <4>1, <4>2 DEF Kept, Passes, Shift, Reads, ShiftFacts, Event
    <3>2. OutboxOf(r)'
      <4>. DEFINE e == Head(outbox[r])
      <4>0. Shift(r) /\ outbox[r] # <<>>
        BY <2>5 DEF Passes, Shift, Reads
      <4>1. /\ outbox[r] \in Seq(Events) /\ ~core[r].disposed
            /\ core[r].pending \subseteq asked[r]
        BY <4>0 DEF OutboxInv, OutboxOf, AskedInv
      <4>2. BoxOK(outbox[r], asked[r], open[r], core[r].pending) /\ (ended[r] \/ Live(outbox[r]))
        BY <4>1 DEF OutboxInv, OutboxOf
      <4>3. \A p \in RequestIds : In(outbox[r], Requested(p)) =>
              p \notin core[r].answered /\ ops[r][p] = None /\ given[r][p] = None /\ supPending[p] # r
        BY DEF OutboxInv, OutboxOf
      <4>4. ShiftFacts(r, e)
        BY <1>0, <4>0
      <4>. HIDE DEF e
      <4>5. /\ e.type = "interaction.requested" => core'[r].pending = core[r].pending \cup {e.id}
            /\ e.type = "interaction.resolved" => core'[r].pending = core[r].pending \ {e.id}
            /\ e.type \in Terminals => core'[r].pending = core[r].pending
            /\ core'[r].answered = core[r].answered /\ core'[r].disposed = core[r].disposed
            /\ core'[r].terminalSeen = (e.type \in Terminals)
        BY <4>4 DEF ShiftFacts
      <4>6. /\ BoxOK(Tail(outbox[r]), asked[r], open[r], core'[r].pending)
            /\ \A x : In(Tail(outbox[r]), x) => In(outbox[r], x)
            /\ e.type \notin Terminals => ~In(Tail(outbox[r]), e)
            /\ e.type \in Terminals => ~Live(outbox[r]) /\ Tail(outbox[r]) = <<>>
            /\ Live(outbox[r]) => Live(Tail(outbox[r]))
        <5>. DEFINE b == outbox[r]
                    A == asked[r]
                    O == open[r]
                    P == core[r].pending
                    R == core'[r].pending
        <5>1. /\ b \in Seq(Events) /\ BoxOK(b, A, O, P) /\ P \subseteq A /\ b # <<>> /\ e = Head(b) /\ Turns(e, P, R)
          BY <4>0, <4>1, <4>2, <4>5 DEF e, Turns
        <5>. HIDE <1>00, NoRunAssumption, NoIdAssumption DEF LoopType, CoreType, AnswerType,
              AdapterType, SupervisorType, None, loop, answers, adapter, shown, supervisor, b, A, O,
              P, R
        <5>2. BoxOK(Tail(b), A, O, R)
          BY <5>1, BoxRead
        <5>3. /\ \A x : In(Tail(b), x) => In(b, x)
              /\ e.type \notin Terminals => ~In(Tail(b), e)
              /\ e.type \in Terminals => ~Live(b) /\ Tail(b) = <<>>
              /\ Live(b) => Live(Tail(b))
          BY <5>1, BoxRead, Zenon
        <5>. QED  BY <5>2, <5>3 DEF b, A, O, R
      <4>7. /\ outbox'[r] = Tail(outbox[r]) /\ UNCHANGED <<asked, open, ended, given>>
        BY <2>5 DEF Passes, Shift
      <4>8. UNCHANGED <<ops, supPending>>
        BY <2>5 DEF Passes
      <4>. QED  BY <4>1, <4>2, <4>3, <4>5, <4>6, <4>7, <4>8, EventNames DEF OutboxOf
    <3>. QED  BY <3>1, <3>2, OutboxKept DEF OutboxInv
  <2>6. CASE PublishRequested(r)
    <3>1. ASSUME NEW t \in Runs PROVE Kept(t)
      <4>1. \A p \in RequestIds : In(outbox[t], Requested(p)) => ops[t][p] = None /\ supPending[p] # t
        BY DEF OutboxInv, OutboxOf
      <4>. QED  BY <2>6, <4>1 DEF Kept, PublishRequested, Puts
    <3>. QED  BY <3>1, OutboxKept DEF OutboxInv
  <2>7. CASE PublishResolved(r)
    <3>1. ASSUME NEW t \in Runs PROVE Kept(t)
      <4>1. \A p \in RequestIds : In(outbox[t], Requested(p)) => ops[t][p] = None /\ supPending[p] # t
        BY DEF OutboxInv, OutboxOf
      <4>. QED  BY <2>7, <4>1 DEF Kept, PublishResolved, Puts, Clear
    <3>. QED  BY <3>1, OutboxKept DEF OutboxInv
  <2>8. CASE PublishTerminal(r)
    <3>1. ASSUME NEW t \in Runs PROVE Kept(t)
      <4>1. \A p \in RequestIds : In(outbox[t], Requested(p)) => ops[t][p] = None /\ supPending[p] # t
        BY DEF OutboxInv, OutboxOf
      <4>. QED  BY <2>8, <4>1 DEF Kept, PublishTerminal, Puts, Release, Clear
    <3>. QED  BY <3>1, OutboxKept DEF OutboxInv
  <2>9. CASE FinishWithFailure(r)
    <3>1. ASSUME NEW t \in Runs PROVE Kept(t)
      <4>1. \A p \in RequestIds : In(outbox[t], Requested(p)) => ops[t][p] = None /\ supPending[p] # t
        BY DEF OutboxInv, OutboxOf
      <4>. QED  BY <2>9, <4>1 DEF Kept, FinishWithFailure, Release, Clear
    <3>. QED  BY <3>1, OutboxKept DEF OutboxInv
  <2>. QED  BY <1>1, <2>1, <2>2, <2>3, <2>4, <2>5, <2>6, <2>7, <2>8, <2>9 DEF RunStep
<1>2. ASSUME NEW r \in Runs, NEW q \in RequestIds, InteractionStep(r, q) PROVE OutboxInv'
  <2>1. CASE Ask(r, q)
    <3>1. ASSUME NEW t \in Runs \ {r} PROVE Kept(t)
      <4>1. \A p \in RequestIds : In(outbox[t], Requested(p)) => ops[t][p] = None /\ supPending[p] # t
        BY DEF OutboxInv, OutboxOf
      <4>. QED  BY <2>1, <4>1 DEF Kept, Ask
    <3>2. OutboxOf(r)'
      <4>1. /\ outbox[r] \in Seq(Events) /\ ended[r] = FALSE /\ ~core[r].terminalSeen /\ ~core[r].disposed
            /\ open[r] \subseteq asked[r] /\ core[r].pending \subseteq asked[r]
        BY <2>1 DEF OutboxInv, OutboxOf, AskedInv, Ask
      <4>2. BoxOK(outbox[r], asked[r], open[r], core[r].pending) /\ Live(outbox[r])
        BY <4>1 DEF OutboxInv, OutboxOf
      <4>3. \A p \in RequestIds : In(outbox[r], Requested(p)) =>
              p \notin core[r].answered /\ ops[r][p] = None /\ given[r][p] = None /\ supPending[p] # r
        BY DEF OutboxInv, OutboxOf
      <4>4. outbox'[r] = Append(outbox[r], Requested(q)) /\ q \notin asked[r]
        BY <2>1 DEF Ask, Requested
      <4>5. BoxOK(outbox'[r], asked[r] \cup {q}, open[r] \cup {q}, core[r].pending) /\ Live(outbox'[r])
        <5>. DEFINE b == outbox[r]
                    A == asked[r]
                    O == open[r]
                    P == core[r].pending
        <5>1. b \in Seq(Events) /\ BoxOK(b, A, O, P) /\ Live(b) /\ q \notin A /\ O \subseteq A /\ P \subseteq A
          BY <4>1, <4>2, <4>4
        <5>. HIDE <1>00, NoRunAssumption, NoIdAssumption DEF LoopType, CoreType, AnswerType,
              AdapterType, SupervisorType, None, loop, answers, adapter, shown, supervisor, b, A, O,
              P
        <5>2. BoxOK(Append(b, Requested(q)), A \cup {q}, O \cup {q}, P) /\ Live(Append(b, Requested(q)))
          BY <5>1, BoxAsked
        <5>. QED  BY <4>4, <5>2 DEF b, A, O, P
      <4>6. \A p : In(outbox'[r], Requested(p)) => In(outbox[r], Requested(p)) \/ p = q
        <5>1. Requested(q) \in Events
          BY DEF Requested, Event, Events, EventTypes
        <5>. QED  BY <4>1, <4>4, <5>1, InAppend, EventNames
      <4>7. /\ ended'[r] = FALSE /\ asked'[r] = asked[r] \cup {q} /\ open'[r] = open[r] \cup {q} /\ core'[r] = core[r]
            /\ UNCHANGED <<ops, given, supPending>>
        BY <2>1, <4>1 DEF Ask
      <4>8. q \notin core[r].answered /\ ops[r][q] = None /\ given[r][q] = None /\ supPending[q] # r
        BY <2>1, <4>4 DEF AskedInv, PendingInv
      <4>. QED  BY <4>1, <4>3, <4>5, <4>6, <4>7, <4>8 DEF OutboxOf
    <3>. QED  BY <3>1, <3>2, OutboxKept DEF OutboxInv
  <2>2. CASE TakeAnswer(r, q)
    <3>1. ASSUME NEW t \in Runs \ {r} PROVE Kept(t)
      <4>1. \A p \in RequestIds : In(outbox[t], Requested(p)) => ops[t][p] = None /\ supPending[p] # t
        BY DEF OutboxInv, OutboxOf
      <4>. QED  BY <2>2, <4>1 DEF Kept, TakeAnswer, Told, Answered, Deciding
    <3>2. OutboxOf(r)'
      <4>0. ended[r] = FALSE
        BY <2>2 DEF VerdictInv, TakeAnswer
      <4>1. /\ outbox[r] \in Seq(Events) /\ ended[r] = FALSE /\ ~core[r].terminalSeen /\ ~core[r].disposed
            /\ open[r] \subseteq asked[r] /\ core[r].pending \subseteq asked[r]
        BY <2>2, <4>0 DEF OutboxInv, OutboxOf, AskedInv, TakeAnswer
      <4>2. BoxOK(outbox[r], asked[r], open[r], core[r].pending) /\ Live(outbox[r])
        BY <4>1 DEF OutboxInv, OutboxOf
      <4>3. \A p \in RequestIds : In(outbox[r], Requested(p)) =>
              p \notin core[r].answered /\ ops[r][p] = None /\ given[r][p] = None /\ supPending[p] # r
        BY DEF OutboxInv, OutboxOf
      <4>4. outbox'[r] = Append(outbox[r], Resolved(q)) /\ q \in open[r] /\ ops[r][q] # None
        BY <2>2 DEF TakeAnswer, Resolved
      <4>5. BoxOK(outbox'[r], asked[r], open[r] \ {q}, core[r].pending) /\ Live(outbox'[r])
        <5>. DEFINE b == outbox[r]
                    A == asked[r]
                    O == open[r]
                    P == core[r].pending
        <5>1. /\ b \in Seq(Events) /\ BoxOK(b, A, O, P) /\ Live(b)
              /\ q \in O /\ O \subseteq A /\ ~In(b, Requested(q))
          BY <4>1, <4>2, <4>3, <4>4
        <5>. HIDE <1>00, NoRunAssumption, NoIdAssumption DEF LoopType, CoreType, AnswerType,
              AdapterType, SupervisorType, None, loop, answers, adapter, shown, supervisor, b, A, O,
              P
        <5>2. BoxOK(Append(b, Resolved(q)), A, O \ {q}, P) /\ Live(Append(b, Resolved(q)))
          BY <5>1, BoxAnswered
        <5>. QED  BY <4>4, <5>2 DEF b, A, O, P
      <4>6. \A p : In(outbox'[r], Requested(p)) => In(outbox[r], Requested(p))
        <5>1. Resolved(q) \in Events
          BY DEF Resolved, Event, Events, EventTypes
        <5>. QED  BY <4>1, <4>4, <5>1, InAppend, EventNames
      <4>7. /\ ended'[r] = FALSE /\ asked'[r] = asked[r] /\ open'[r] = open[r] \ {q}
            /\ core'[r].pending = core[r].pending /\ core'[r].answered = core[r].answered \cup {q}
            /\ core'[r].terminalSeen = core[r].terminalSeen /\ core'[r].disposed = core[r].disposed
            /\ \A p \in RequestIds \ {q} : ops'[r][p] = ops[r][p] /\ given'[r][p] = given[r][p]
            /\ UNCHANGED supPending
        BY <2>2, <4>1 DEF TakeAnswer, Answered
      <4>. QED  BY <4>1, <4>3, <4>4, <4>5, <4>6, <4>7 DEF OutboxOf
    <3>. QED  BY <3>1, <3>2, OutboxKept DEF OutboxInv
  <2>3. CASE RefuseClient(r, q)
    <3>1. ASSUME NEW t \in Runs PROVE Kept(t)
      <4>1. \A p \in RequestIds : In(outbox[t], Requested(p)) => ops[t][p] = None /\ supPending[p] # t
        BY DEF OutboxInv, OutboxOf
      <4>. QED  BY <2>3, <4>1 DEF Kept, RefuseClient, Refuses, Told
    <3>. QED  BY <3>1, OutboxKept DEF OutboxInv
  <2>4. CASE RefuseDecision(r, q)
    <3>1. ASSUME NEW t \in Runs \ {r} PROVE Kept(t)
      <4>1. \A p \in RequestIds : In(outbox[t], Requested(p)) => ops[t][p] = None /\ supPending[p] # t
        BY DEF OutboxInv, OutboxOf
      <4>. QED  BY <2>4, <4>1 DEF Kept, RefuseDecision, Refuses, Told, Throw, SettleOpen, Deciding
    <3>2. OutboxOf(r)'
      <4>1. outbox'[r] = <<>> /\ ended'[r] = TRUE /\ core'[r].disposed = TRUE
        BY <2>4 DEF RefuseDecision, Refuses, Told, Throw, SettleOpen, Deciding
      <4>2. \A p \in RequestIds : ~In(outbox'[r], Requested(p))
        <5>1. Len(outbox'[r]) = 0
          BY <4>1
        <5>. QED  BY <5>1 DEF In
      <4>. QED  BY <4>1, <4>2 DEF OutboxOf
    <3>. QED  BY <3>1, <3>2, OutboxKept DEF OutboxInv
  <2>5. CASE Decides(r, q)
    <3>1. ASSUME NEW t \in Runs \ {r} PROVE Kept(t)
      <4>1. \A p \in RequestIds : In(outbox[t], Requested(p)) => ops[t][p] = None /\ supPending[p] # t
        BY DEF OutboxInv, OutboxOf
      <4>2. ShiftFacts(r, Head(outbox[r]))
        BY <2>5, <1>0 DEF Decides
      <4>. QED  BY <2>5, <4>1, <4>2 DEF Kept, Decides, Shift, Reads, ShiftFacts, Event
    <3>2. OutboxOf(r)'
      <4>. DEFINE e == Head(outbox[r])
      <4>0. Shift(r) /\ outbox[r] # <<>>
        BY <2>5 DEF Decides, Shift, Reads
      <4>1. /\ outbox[r] \in Seq(Events) /\ ~core[r].disposed
            /\ core[r].pending \subseteq asked[r]
        BY <4>0 DEF OutboxInv, OutboxOf, AskedInv
      <4>2. BoxOK(outbox[r], asked[r], open[r], core[r].pending) /\ (ended[r] \/ Live(outbox[r]))
        BY <4>1 DEF OutboxInv, OutboxOf
      <4>3. \A p \in RequestIds : In(outbox[r], Requested(p)) =>
              p \notin core[r].answered /\ ops[r][p] = None /\ given[r][p] = None /\ supPending[p] # r
        BY DEF OutboxInv, OutboxOf
      <4>4. ShiftFacts(r, e)
        BY <1>0, <4>0
      <4>. HIDE DEF e
      <4>5. /\ e.type = "interaction.requested" => core'[r].pending = core[r].pending \cup {e.id}
            /\ e.type = "interaction.resolved" => core'[r].pending = core[r].pending \ {e.id}
            /\ e.type \in Terminals => core'[r].pending = core[r].pending
            /\ core'[r].answered = core[r].answered /\ core'[r].disposed = core[r].disposed
            /\ core'[r].terminalSeen = (e.type \in Terminals)
        BY <4>4 DEF ShiftFacts
      <4>6. /\ BoxOK(Tail(outbox[r]), asked[r], open[r], core'[r].pending)
            /\ \A x : In(Tail(outbox[r]), x) => In(outbox[r], x)
            /\ e.type \notin Terminals => ~In(Tail(outbox[r]), e)
            /\ e.type \in Terminals => ~Live(outbox[r]) /\ Tail(outbox[r]) = <<>>
            /\ Live(outbox[r]) => Live(Tail(outbox[r]))
        <5>. DEFINE b == outbox[r]
                    A == asked[r]
                    O == open[r]
                    P == core[r].pending
                    R == core'[r].pending
        <5>1. /\ b \in Seq(Events) /\ BoxOK(b, A, O, P) /\ P \subseteq A /\ b # <<>> /\ e = Head(b) /\ Turns(e, P, R)
          BY <4>0, <4>1, <4>2, <4>5 DEF e, Turns
        <5>. HIDE <1>00, NoRunAssumption, NoIdAssumption DEF LoopType, CoreType, AnswerType,
              AdapterType, SupervisorType, None, loop, answers, adapter, shown, supervisor, b, A, O,
              P, R
        <5>2. BoxOK(Tail(b), A, O, R)
          BY <5>1, BoxRead
        <5>3. /\ \A x : In(Tail(b), x) => In(b, x)
              /\ e.type \notin Terminals => ~In(Tail(b), e)
              /\ e.type \in Terminals => ~Live(b) /\ Tail(b) = <<>>
              /\ Live(b) => Live(Tail(b))
          BY <5>1, BoxRead, Zenon
        <5>. QED  BY <5>2, <5>3 DEF b, A, O, R
      <4>7. /\ outbox'[r] = Tail(outbox[r]) /\ UNCHANGED <<asked, open, ended, given>>
        BY <2>5 DEF Decides, Shift
      <4>8. e = Requested(q) /\ e.type \notin Terminals
        BY <2>5, EventNames DEF Decides, Requested, e
      <4>9. \A p \in RequestIds \ {q} : ops'[r][p] = ops[r][p] /\ (supPending'[p] = r => supPending[p] = r)
        BY <2>5 DEF Decides
      <4>. QED  BY <4>1, <4>2, <4>3, <4>5, <4>6, <4>7, <4>8, <4>9, EventNames DEF OutboxOf
    <3>. QED  BY <3>1, <3>2, OutboxKept DEF OutboxInv
  <2>6. CASE Prompts(r, q)
    <3>1. ASSUME NEW t \in Runs \ {r} PROVE Kept(t)
      <4>1. \A p \in RequestIds : In(outbox[t], Requested(p)) => ops[t][p] = None /\ supPending[p] # t
        BY DEF OutboxInv, OutboxOf
      <4>2. ShiftFacts(r, Head(outbox[r]))
        BY <2>6, <1>0 DEF Prompts
      <4>. QED  BY <2>6, <4>1, <4>2 DEF Kept, Prompts, Shift, Reads, ShiftFacts, Event
    <3>2. OutboxOf(r)'
      <4>. DEFINE e == Head(outbox[r])
      <4>0. Shift(r) /\ outbox[r] # <<>>
        BY <2>6 DEF Prompts, Shift, Reads
      <4>1. /\ outbox[r] \in Seq(Events) /\ ~core[r].disposed
            /\ core[r].pending \subseteq asked[r]
        BY <4>0 DEF OutboxInv, OutboxOf, AskedInv
      <4>2. BoxOK(outbox[r], asked[r], open[r], core[r].pending) /\ (ended[r] \/ Live(outbox[r]))
        BY <4>1 DEF OutboxInv, OutboxOf
      <4>3. \A p \in RequestIds : In(outbox[r], Requested(p)) =>
              p \notin core[r].answered /\ ops[r][p] = None /\ given[r][p] = None /\ supPending[p] # r
        BY DEF OutboxInv, OutboxOf
      <4>4. ShiftFacts(r, e)
        BY <1>0, <4>0
      <4>. HIDE DEF e
      <4>5. /\ e.type = "interaction.requested" => core'[r].pending = core[r].pending \cup {e.id}
            /\ e.type = "interaction.resolved" => core'[r].pending = core[r].pending \ {e.id}
            /\ e.type \in Terminals => core'[r].pending = core[r].pending
            /\ core'[r].answered = core[r].answered /\ core'[r].disposed = core[r].disposed
            /\ core'[r].terminalSeen = (e.type \in Terminals)
        BY <4>4 DEF ShiftFacts
      <4>6. /\ BoxOK(Tail(outbox[r]), asked[r], open[r], core'[r].pending)
            /\ \A x : In(Tail(outbox[r]), x) => In(outbox[r], x)
            /\ e.type \notin Terminals => ~In(Tail(outbox[r]), e)
            /\ e.type \in Terminals => ~Live(outbox[r]) /\ Tail(outbox[r]) = <<>>
            /\ Live(outbox[r]) => Live(Tail(outbox[r]))
        <5>. DEFINE b == outbox[r]
                    A == asked[r]
                    O == open[r]
                    P == core[r].pending
                    R == core'[r].pending
        <5>1. /\ b \in Seq(Events) /\ BoxOK(b, A, O, P) /\ P \subseteq A /\ b # <<>> /\ e = Head(b) /\ Turns(e, P, R)
          BY <4>0, <4>1, <4>2, <4>5 DEF e, Turns
        <5>. HIDE <1>00, NoRunAssumption, NoIdAssumption DEF LoopType, CoreType, AnswerType,
              AdapterType, SupervisorType, None, loop, answers, adapter, shown, supervisor, b, A, O,
              P, R
        <5>2. BoxOK(Tail(b), A, O, R)
          BY <5>1, BoxRead
        <5>3. /\ \A x : In(Tail(b), x) => In(b, x)
              /\ e.type \notin Terminals => ~In(Tail(b), e)
              /\ e.type \in Terminals => ~Live(b) /\ Tail(b) = <<>>
              /\ Live(b) => Live(Tail(b))
          BY <5>1, BoxRead, Zenon
        <5>. QED  BY <5>2, <5>3 DEF b, A, O, R
      <4>7. /\ outbox'[r] = Tail(outbox[r]) /\ UNCHANGED <<asked, open, ended, given>>
        BY <2>6 DEF Prompts, Shift
      <4>8. e = Requested(q) /\ e.type \notin Terminals
        BY <2>6, EventNames DEF Prompts, Requested, e
      <4>9. \A p \in RequestIds \ {q} : ops'[r][p] = ops[r][p] /\ (supPending'[p] = r => supPending[p] = r)
        BY <2>6 DEF Prompts
      <4>. QED  BY <4>1, <4>2, <4>3, <4>5, <4>6, <4>7, <4>8, <4>9, EventNames DEF OutboxOf
    <3>. QED  BY <3>1, <3>2, OutboxKept DEF OutboxInv
  <2>7. CASE TimerIsLate(r, q)
    <3>1. ASSUME NEW t \in Runs PROVE Kept(t)
      <4>1. \A p \in RequestIds : In(outbox[t], Requested(p)) => ops[t][p] = None /\ supPending[p] # t
        BY DEF OutboxInv, OutboxOf
      <4>. QED  BY <2>7, <4>1 DEF Kept, TimerIsLate, Fires
    <3>. QED  BY <3>1, OutboxKept DEF OutboxInv
  <2>8. ASSUME NEW s \in Runs, TimerSends(r, q, s) PROVE OutboxInv'
    <3>1. ASSUME NEW t \in Runs PROVE Kept(t)
      <4>1. \A p \in RequestIds : In(outbox[t], Requested(p)) => ops[t][p] = None /\ supPending[p] # t
        BY DEF OutboxInv, OutboxOf
      <4>2. ~In(outbox[s], Requested(q))
        <5>1. BoxOK(outbox[s], asked[s], open[s], core[s].pending)
          BY <2>8 DEF OutboxInv, OutboxOf, Sends, TimerSends
        <5>2. q \in core[s].pending /\ q \in asked[s]
          BY <2>8 DEF Sends, AskedInv, TimerSends
        <5>. QED  BY <5>1, <5>2 DEF BoxOK
      <4>3. t = s => \A p \in RequestIds : In(outbox[t], Requested(p)) => p # q
        BY <4>2
      <4>. QED  BY <2>8, <4>1, <4>3 DEF Kept, TimerSends, Sends, Fires, Recorded
    <3>. QED  BY <3>1, OutboxKept DEF OutboxInv
  <2>. QED  BY <1>2, <2>1, <2>2, <2>3, <2>4, <2>5, <2>6, <2>7, <2>8 DEF InteractionStep
<1>3. ASSUME NEW c \in Calls, NEW q \in RequestIds, NEW a \in {"allow", "deny"}, CallStep(c, q, a) PROVE OutboxInv'
  <2>1. CASE RespondRefused(c, q, a)
    <3>1. ASSUME NEW t \in Runs PROVE Kept(t)
      <4>1. \A p \in RequestIds : In(outbox[t], Requested(p)) => ops[t][p] = None /\ supPending[p] # t
        BY DEF OutboxInv, OutboxOf
      <4>. QED  BY <2>1, <4>1 DEF Kept, RespondRefused, Asks
    <3>. QED  BY <3>1, OutboxKept DEF OutboxInv
  <2>2. ASSUME NEW s \in Runs, RespondSends(c, q, a, s) PROVE OutboxInv'
    <3>1. ASSUME NEW t \in Runs PROVE Kept(t)
      <4>1. \A p \in RequestIds : In(outbox[t], Requested(p)) => ops[t][p] = None /\ supPending[p] # t
        BY DEF OutboxInv, OutboxOf
      <4>2. ~In(outbox[s], Requested(q))
        <5>1. BoxOK(outbox[s], asked[s], open[s], core[s].pending)
          BY <2>2 DEF OutboxInv, OutboxOf, Sends, RespondSends
        <5>2. q \in core[s].pending /\ q \in asked[s]
          BY <2>2 DEF Sends, AskedInv, RespondSends
        <5>. QED  BY <5>1, <5>2 DEF BoxOK
      <4>3. t = s => \A p \in RequestIds : In(outbox[t], Requested(p)) => p # q
        BY <4>2
      <4>. QED  BY <2>2, <4>1, <4>3 DEF Kept, RespondSends, Sends, Asks, Recorded
    <3>. QED  BY <3>1, OutboxKept DEF OutboxInv
  <2>3. ASSUME NEW s \in Runs, NEW state \in {"taken", "waiting"}, RespondKnown(c, q, a, s, state) PROVE OutboxInv'
    <3>1. ASSUME NEW t \in Runs PROVE Kept(t)
      <4>1. \A p \in RequestIds : In(outbox[t], Requested(p)) => ops[t][p] = None /\ supPending[p] # t
        BY DEF OutboxInv, OutboxOf
      <4>. QED  BY <2>3, <4>1 DEF Kept, RespondKnown, Asks
    <3>. QED  BY <3>1, OutboxKept DEF OutboxInv
  <2>. QED  BY <1>3, <2>1, <2>2, <2>3 DEF CallStep
<1>. QED  BY <1>1, <1>2, <1>3 DEF Step

-----------------------------------------------------------------------------
(* Pending interactions.                                                   *)

\* A request id that is private is asked about by one run.
LEMMA PrivateOwner ==
  ASSUME NEW q \in Private, NEW r \in Runs, NEW s \in Runs, q \in IdsOf[r], q \in IdsOf[s]
  PROVE  r = s
BY DEF Private, Shared

\* Pending entries.
LEMMA PendingStep ==
  ASSUME TypeOK, AskedInv, OutboxInv, LoopInv, PendingInv, Step
  PROVE  PendingInv'
<1>0. \A r \in Runs : Shift(r) => ShiftFacts(r, Head(outbox[r]))
  BY ShiftFields
<1>00. SupervisorType /\ AdapterType
  BY TypeParts
<1>. USE <1>00, NoRunAssumption, NoIdAssumption DEF None, SupervisorType, AdapterType, PendingInv,
      loop, answers, adapter, shown, supervisor
<1>1. ASSUME NEW r \in Runs, RunStep(r) PROVE PendingInv'
  <2>1. CASE Complete(r)
    BY <2>1 DEF Complete
  <2>2. CASE CancelsLate(r)
    BY <2>2 DEF CancelsLate, Stops, adapter
  <2>3. CASE Cancels(r)
    BY <2>3 DEF Cancels, Stops, SettleOpen
  <2>4. CASE Falls(r)
    BY <2>4 DEF Falls, Fails, Throw, Reads, SettleOpen
  <2>5. CASE Passes(r)
    <3>1. Shift(r)
      BY <2>5 DEF Passes
    <3>2. ShiftFacts(r, Head(outbox[r]))
      BY <1>0, <3>1
    <3>. QED  BY <2>5, <3>2 DEF ShiftFacts, Passes, Shift, Reads, Event
  <2>6. CASE PublishRequested(r)
    BY <2>6 DEF PublishRequested, Puts
  <2>7. CASE PublishResolved(r)
    BY <2>7 DEF PublishResolved, Puts, Clear
  <2>8. CASE PublishTerminal(r)
    BY <2>8 DEF PublishTerminal, Puts, Release, Clear
  <2>9. CASE FinishWithFailure(r)
    BY <2>9 DEF FinishWithFailure, Release, Clear
  <2>. QED  BY <1>1, <2>1, <2>2, <2>3, <2>4, <2>5, <2>6, <2>7, <2>8, <2>9 DEF RunStep
<1>2. ASSUME NEW r \in Runs, NEW q \in RequestIds, InteractionStep(r, q) PROVE PendingInv'
  <2>1. CASE Ask(r, q)
    BY <2>1 DEF Ask
  <2>2. CASE TakeAnswer(r, q)
    BY <2>2 DEF TakeAnswer, Told, Answered, Deciding
  <2>3. CASE RefuseClient(r, q)
    BY <2>3 DEF RefuseClient, Refuses, Told
  <2>4. CASE RefuseDecision(r, q)
    BY <2>4 DEF RefuseDecision, Refuses, Told, Throw, SettleOpen, Deciding
  <2>5. CASE Decides(r, q)
    <3>1. Shift(r)
      BY <2>5 DEF Decides
    <3>2. ShiftFacts(r, Head(outbox[r]))
      BY <1>0, <3>1
    <3>. QED  BY <2>5, <3>2 DEF ShiftFacts, Decides, Shift, Reads, Event
  <2>6. CASE Prompts(r, q)
    <3>1. Shift(r)
      BY <2>6 DEF Prompts
    <3>2. ShiftFacts(r, Head(outbox[r])) /\ Head(outbox[r]) = Requested(q)
      BY <2>6, <1>0, <3>1 DEF Prompts, Requested
    <3>3. q \in asked[r] /\ r \in active
      BY <3>1, <3>2, EventNames DEF ShiftFacts, Shift, Reads, LoopInv
    <3>4. /\ supPending'[q] = r /\ \A p \in RequestIds \ {q} : supPending'[p] = supPending[p]
          /\ timers'[r][q] = "set" /\ \A t \in Runs, p \in RequestIds \ {q} : timers'[t][p] = timers[t][p]
          /\ UNCHANGED <<active, asked>>
      BY <2>6 DEF Prompts, Shift
    <3>5. ASSUME NEW p \in RequestIds, supPending'[p] # NoRun
          PROVE  supPending'[p] \in active' /\ p \in asked'[supPending'[p]] /\ timers'[supPending'[p]][p] # "off"
      <4>1. CASE p = q
        BY <3>3, <3>4, <4>1
      <4>2. CASE p # q
        <5>1. supPending'[p] = supPending[p] /\ supPending[p] \in Runs
          BY <3>4, <3>5, <4>2
        <5>. QED  BY <3>4, <3>5, <4>2, <5>1
      <4>. QED  BY <4>1, <4>2
    <3>. QED  BY <3>5
  <2>7. CASE TimerIsLate(r, q)
    BY <2>7 DEF TimerIsLate, Fires
  <2>8. ASSUME NEW s \in Runs, TimerSends(r, q, s) PROVE PendingInv'
    BY <2>8 DEF TimerSends, Sends, Fires, Recorded
  <2>. QED  BY <1>2, <2>1, <2>2, <2>3, <2>4, <2>5, <2>6, <2>7, <2>8 DEF InteractionStep
<1>3. ASSUME NEW c \in Calls, NEW q \in RequestIds, NEW a \in {"allow", "deny"}, CallStep(c, q, a) PROVE PendingInv'
  <2>1. CASE RespondRefused(c, q, a)
    BY <2>1 DEF RespondRefused, Asks
  <2>2. ASSUME NEW s \in Runs, RespondSends(c, q, a, s) PROVE PendingInv'
    BY <2>2 DEF RespondSends, Sends, Asks, Recorded
  <2>3. ASSUME NEW s \in Runs, NEW state \in {"taken", "waiting"}, RespondKnown(c, q, a, s, state) PROVE PendingInv'
    BY <2>3 DEF RespondKnown, Asks
  <2>. QED  BY <1>3, <2>1, <2>2, <2>3 DEF CallStep
<1>. QED  BY <1>1, <1>2, <1>3 DEF Step

\* What is shown stays pending.
LEMMA ShownStep ==
  ASSUME TypeOK, AskedInv, VerdictInv, OutboxInv, LoopInv, PendingInv, ShownInv, Step
  PROVE  ShownInv'
<1>0. \A r \in Runs : Shift(r) => ShiftFacts(r, Head(outbox[r]))
  BY ShiftFields
<1>00. SupervisorType /\ AdapterType /\ LoopType
  BY TypeParts
<1>. USE <1>00, NoRunAssumption, NoIdAssumption DEF None, SupervisorType, AdapterType, LoopType,
      CoreType, Decision, ShownInv, Shown, Requested, Event, loop, answers, adapter, shown,
      supervisor
<1>1. ASSUME NEW r \in Runs, RunStep(r) PROVE ShownInv'
  <2>1. CASE Complete(r)
    BY <2>1 DEF Complete
  <2>2. CASE CancelsLate(r)
    BY <2>2 DEF CancelsLate, Stops, adapter
  <2>3. CASE Cancels(r)
    BY <2>3 DEF Cancels, Stops, SettleOpen
  <2>4. CASE Falls(r)
    BY <2>4 DEF Falls, Fails, Throw, Reads, SettleOpen
  <2>5. CASE Passes(r)
    <3>1. SUFFICES ASSUME NEW s \in active', NEW p \in Private, Decision(s, p)' = "prompt", p \in open'[s], Shown(s, p)'
                 PROVE  (supPending[p] = s /\ timers[s][p] # "off" /\ p \in core[s].pending)'
      OBVIOUS
    <3>2. Decision(s, p) = "prompt" /\ p \in RequestIds /\ s \in Runs
      BY <3>1, <2>5 DEF Passes, Shift, Private
    <3>. DEFINE e == Head(outbox[r])
    <3>3. Shift(r) /\ ShiftFacts(r, e) /\ e.type # "interaction.requested"
      BY <2>5, <1>0 DEF Passes
    <3>4. /\ step[r] = "streaming" /\ hand'[r] = e /\ e.type \in Published
          /\ UNCHANGED <<visible, open, active, supPending, timers>>
          /\ \A t \in Runs \ {r} : step'[t] = step[t] /\ hand'[t] = hand[t] /\ core'[t] = core[t]
          /\ e.type = "interaction.resolved" => core'[r].pending = core[r].pending \ {e.id} /\ e.id \notin open[r]
          /\ e.type \in Terminals => core'[r].pending = core[r].pending
      BY <2>5, <3>3 DEF Passes, Shift, Reads, ShiftFacts
    <3>. HIDE DEF e, Decision, LoopType, AdapterType, SupervisorType, CoreType
    <3>5. e.type = "interaction.resolved" \/ e.type \in Terminals
      BY <3>3, <3>4 DEF Published, EventTypes
    <3>6. e # Requested(p)
      BY <3>3 DEF Requested, Event
    <3>7. Shown(s, p)
      BY <3>1, <3>2, <3>4, <3>6 DEF Shown, Requested
    <3>8. supPending[p] = s /\ timers[s][p] # "off" /\ p \in core[s].pending
      BY <3>1, <3>2, <3>4, <3>7 DEF ShownInv
    <3>. QED  BY <3>1, <3>2, <3>4, <3>5, <3>8
  <2>6. CASE PublishRequested(r)
    BY <2>6 DEF PublishRequested, Puts
  <2>7. CASE PublishResolved(r)
    <3>1. SUFFICES ASSUME NEW s \in active', NEW p \in Private, Decision(s, p)' = "prompt", p \in open'[s], Shown(s, p)'
                 PROVE  (supPending[p] = s /\ timers[s][p] # "off" /\ p \in core[s].pending)'
      OBVIOUS
    <3>2. Decision(s, p) = "prompt" /\ p \in RequestIds /\ s \in Runs
      BY <3>1, <2>7 DEF PublishResolved, Puts, Private
    <3>3. hand[r].id \in asked[r] /\ hand[r].id \notin open[r]
      BY <2>7, EventNames DEF PublishResolved, Puts, AskedInv, LoopInv
    <3>4. /\ step'[r] = "streaming" /\ UNCHANGED <<visible, open, active, core>>
          /\ \A t \in Runs \ {r} : step'[t] = step[t] /\ hand'[t] = hand[t]
      BY <2>7 DEF PublishResolved, Puts
    <3>5. /\ p # hand[r].id => supPending'[p] = supPending[p] /\ timers'[s][p] = timers[s][p]
          /\ s # r => timers'[s][p] = timers[s][p]
      BY <2>7, <3>2 DEF PublishResolved, Clear
    <3>6. p # hand[r].id
      BY <3>1, <3>2, <3>3, <3>4, PrivateOwner DEF AskedInv
    <3>7. Shown(s, p)
      BY <3>1, <3>2, <3>4
    <3>. QED  BY <3>1, <3>2, <3>4, <3>5, <3>6, <3>7
  <2>8. CASE PublishTerminal(r)
    <3>1. SUFFICES ASSUME NEW s \in active', NEW p \in Private, Decision(s, p)' = "prompt", p \in open'[s], Shown(s, p)'
                 PROVE  (supPending[p] = s /\ timers[s][p] # "off" /\ p \in core[s].pending)'
      OBVIOUS
    <3>2. Decision(s, p) = "prompt" /\ p \in RequestIds /\ s \in Runs
      BY <3>1, <2>8 DEF PublishTerminal, Puts, Release, Private
    <3>3. /\ UNCHANGED <<visible, open, core>> /\ step'[r] = "gone" /\ s # r /\ s \in active
          /\ \A t \in Runs \ {r} : step'[t] = step[t] /\ hand'[t] = hand[t]
      BY <2>8 DEF PublishTerminal, Puts, Release
    <3>4. timers[r][p] = "off"
      BY <3>1, <3>2, <3>3, PrivateOwner DEF AskedInv
    <3>5. timers'[s][p] = timers[s][p] /\ supPending'[p] = supPending[p]
      BY <2>8, <3>2, <3>3, <3>4 DEF PublishTerminal, Release, Clear
    <3>6. Shown(s, p)
      BY <3>1, <3>2, <3>3
    <3>. QED  BY <3>1, <3>2, <3>3, <3>5, <3>6
  <2>9. CASE FinishWithFailure(r)
    <3>1. SUFFICES ASSUME NEW s \in active', NEW p \in Private, Decision(s, p)' = "prompt", p \in open'[s], Shown(s, p)'
                 PROVE  (supPending[p] = s /\ timers[s][p] # "off" /\ p \in core[s].pending)'
      OBVIOUS
    <3>2. Decision(s, p) = "prompt" /\ p \in RequestIds /\ s \in Runs
      BY <3>1, <2>9 DEF FinishWithFailure, Release, Private
    <3>3. /\ UNCHANGED <<visible, open, core>> /\ step'[r] = "gone" /\ s # r /\ s \in active
          /\ \A t \in Runs \ {r} : step'[t] = step[t] /\ hand'[t] = hand[t]
      BY <2>9 DEF FinishWithFailure, Release
    <3>4. timers[r][p] = "off"
      BY <3>1, <3>2, <3>3, PrivateOwner DEF AskedInv
    <3>5. timers'[s][p] = timers[s][p] /\ supPending'[p] = supPending[p]
      BY <2>9, <3>2, <3>3, <3>4 DEF FinishWithFailure, Release, Clear
    <3>6. Shown(s, p)
      BY <3>1, <3>2, <3>3
    <3>. QED  BY <3>1, <3>2, <3>3, <3>5, <3>6
  <2>. QED  BY <1>1, <2>1, <2>2, <2>3, <2>4, <2>5, <2>6, <2>7, <2>8, <2>9 DEF RunStep
<1>2. ASSUME NEW r \in Runs, NEW q \in RequestIds, InteractionStep(r, q) PROVE ShownInv'
  <2>1. CASE Ask(r, q)
    <3>1. SUFFICES ASSUME NEW s \in active', NEW p \in Private, Decision(s, p)' = "prompt", p \in open'[s], Shown(s, p)'
                 PROVE  (supPending[p] = s /\ timers[s][p] # "off" /\ p \in core[s].pending)'
      OBVIOUS
    <3>2. Decision(s, p) = "prompt" /\ p \in RequestIds /\ s \in Runs
      BY <3>1, <2>1 DEF Ask, Private
    <3>3. /\ UNCHANGED <<visible, core, step, hand, active, supPending, timers>> /\ q \notin asked[r]
          /\ \A t \in Runs : p \in open'[t] => p \in open[t] \/ (t = r /\ p = q)
      BY <2>1 DEF Ask
    <3>4. Shown(s, p)
      BY <3>1, <3>3
    <3>5. p \in asked[s]
      <4>1. CASE p \in visible[s]
        BY <3>2, <4>1 DEF AskedInv
      <4>2. CASE step[s] = "publishing" /\ hand[s] = Requested(p)
        <5>1. hand[s].type \notin Terminals /\ hand[s].id = p
          BY <4>2, EventNames
        <5>. QED  BY <3>2, <4>2, <5>1 DEF AskedInv
      <4>. QED  BY <3>4, <4>1, <4>2
    <3>6. p \in open[s]
      BY <3>1, <3>2, <3>3, <3>5
    <3>7. supPending[p] = s /\ timers[s][p] # "off" /\ p \in core[s].pending
      <4>. HIDE DEF Decision, Shown, LoopType, AdapterType, SupervisorType, CoreType
      <4>. QED  BY <3>2, <3>1, <3>3, <3>4, <3>6
    <3>. QED  BY <3>3, <3>7
  <2>2. CASE TakeAnswer(r, q)
    BY <2>2 DEF TakeAnswer, Told, Answered, Deciding
  <2>3. CASE RefuseClient(r, q)
    BY <2>3 DEF RefuseClient, Refuses, Told
  <2>4. CASE RefuseDecision(r, q)
    BY <2>4 DEF RefuseDecision, Refuses, Told, Throw, SettleOpen, Deciding
  <2>5. CASE Decides(r, q)
    <3>1. Shift(r)
      BY <2>5 DEF Decides
    <3>2. ShiftFacts(r, Head(outbox[r]))
      BY <1>0, <3>1
    <3>. QED  BY <2>5, <3>2 DEF ShiftFacts, Decides, Shift, Reads, Event
  <2>6. CASE Prompts(r, q)
    <3>1. Shift(r)
      BY <2>6 DEF Prompts
    <3>2. ShiftFacts(r, Head(outbox[r]))
      BY <1>0, <3>1
    <3>. QED  BY <2>6, <3>2 DEF ShiftFacts, Prompts, Shift, Reads, Event
  <2>7. CASE TimerIsLate(r, q)
    BY <2>7 DEF TimerIsLate, Fires
  <2>8. ASSUME NEW s \in Runs, TimerSends(r, q, s) PROVE ShownInv'
    BY <2>8 DEF TimerSends, Sends, Fires, Recorded
  <2>. QED  BY <1>2, <2>1, <2>2, <2>3, <2>4, <2>5, <2>6, <2>7, <2>8 DEF InteractionStep
<1>3. ASSUME NEW c \in Calls, NEW q \in RequestIds, NEW a \in {"allow", "deny"}, CallStep(c, q, a) PROVE ShownInv'
  <2>1. CASE RespondRefused(c, q, a)
    BY <2>1 DEF RespondRefused, Asks
  <2>2. ASSUME NEW s \in Runs, RespondSends(c, q, a, s) PROVE ShownInv'
    BY <2>2 DEF RespondSends, Sends, Asks, Recorded
  <2>3. ASSUME NEW s \in Runs, NEW state \in {"taken", "waiting"}, RespondKnown(c, q, a, s, state) PROVE ShownInv'
    BY <2>3 DEF RespondKnown, Asks
  <2>. QED  BY <1>3, <2>1, <2>2, <2>3 DEF CallStep
<1>. QED  BY <1>1, <1>2, <1>3 DEF Step

-----------------------------------------------------------------------------
(* Failures.                                                               *)

\* The managed run admits what it gets, and the interaction of a request is not
\* pending: the loop of a run with request ids of its own does not end here.
LEMMA NeverFalls ==
  ASSUME TypeOK, AskedInv, VerdictInv, OutboxInv, LoopInv, PendingInv, NEW r \in Runs, Falls(r)
  PROVE  ~(asked[r] \subseteq Private)
<1>. DEFINE e == Head(outbox[r])
            b == outbox[r]
<1>1. /\ step[r] = "streaming" /\ b # <<>>
      /\ ~Admits(core[r], e) \/ (e.type = "interaction.requested" /\ supPending[e.id] # NoRun)
  BY DEF Falls, Reads
<1>2. /\ e = b[1] /\ e \in Events /\ e.type \in Published
      /\ e.type \notin Terminals => e.id \in asked[r]
      /\ Len(b) \in Nat \ {0} /\ 1 \in 1..Len(b) /\ asked[r] \subseteq RequestIds
  BY <1>1, HeadEvent
<1>3. /\ core[r].started /\ ~core[r].terminalSeen /\ ~core[r].disposed
  BY <1>1 DEF LoopInv, VerdictInv, Over
<1>4. BoxOK(b, asked[r], open[r], core[r].pending)
  BY <1>3 DEF OutboxInv, OutboxOf
<1>5. e.type = "interaction.requested" =>
        e.id \notin core[r].pending \cup core[r].answered /\ supPending[e.id] # r
  <2>1. SUFFICES ASSUME e.type = "interaction.requested"
                 PROVE  e.id \notin core[r].pending \cup core[r].answered /\ supPending[e.id] # r
    OBVIOUS
  <2>2. e = Requested(e.id) /\ e.id \in asked[r] /\ e.id \in RequestIds
    BY <1>2, <2>1, EventOf, EventNames
  <2>3. In(b, Requested(e.id))
    BY <1>2, <2>2 DEF In
  <2>4. e.id \notin core[r].pending
    BY <1>4, <2>2, <2>3 DEF BoxOK
  <2>. QED  BY <2>2, <2>3, <2>4 DEF OutboxInv, OutboxOf
<1>6. e.type = "interaction.resolved" => e.id \in core[r].pending
  <2>1. ~\E j \in 1..1 - 1 : b[j] = Requested(e.id)
    OBVIOUS
  <2>. QED  BY <1>2, <1>4, <2>1 DEF BoxOK
<1>7. e.type \in Terminals => core[r].pending = {}
  <2>1. SUFFICES ASSUME e.type \in Terminals, NEW q \in core[r].pending PROVE FALSE
    OBVIOUS
  <2>2. Len(b) = 1
    BY <1>2, <1>4, <2>1 DEF BoxOK
  <2>3. ~In(b, Resolved(q))
    BY <1>2, <2>1, <2>2, EventNames DEF In
  <2>4. q \in asked[r]
    BY <2>1 DEF AskedInv
  <2>5. q \in open[r]
    BY <1>4, <2>1, <2>3, <2>4 DEF BoxOK
  <2>6. ~Live(b)
    BY <1>2, <2>1 DEF Live
  <2>7. ended[r]
    BY <2>6 DEF OutboxInv, OutboxOf
  <2>. QED  BY <2>5, <2>7 DEF VerdictInv
<1>8. Admits(core[r], e)
  BY <1>3, <1>5, <1>6, <1>7 DEF Admits
<1>9. e.type = "interaction.requested" /\ supPending[e.id] # NoRun /\ supPending[e.id] # r
  BY <1>1, <1>5, <1>8
<1>10. e.id \in asked[r] /\ e.id \in RequestIds
  BY <1>2, <1>9, EventNames
<1>11. supPending[e.id] \in Runs /\ e.id \in asked[supPending[e.id]]
  BY <1>9, <1>10 DEF PendingInv, TypeOK
<1>12. e.id \in IdsOf[r] /\ e.id \in IdsOf[supPending[e.id]]
  BY <1>10, <1>11 DEF AskedInv
<1>. QED  BY <1>9, <1>10, <1>11, <1>12, PrivateOwner

\* What is said of a failed run depends on that run's own state.
LEMMA FailureKept ==
  ASSUME NEW s \in Runs, FailureOf(s), UNCHANGED policy, asked'[s] = asked[s], verdict'[s] = verdict[s],
         core'[s].disposed = core[s].disposed
  PROVE  FailureOf(s)'
<1>1. \A q : Decision(s, q)' = Decision(s, q)
  BY DEF Decision
<1>. QED  BY <1>1 DEF FailureOf

\* A run that fails has lost its decision to a cancel.
LEMMA FailureStep ==
  ASSUME TypeOK, AskedInv, VerdictInv, OutboxInv, LoopInv, PendingInv, FailureInv, Step
  PROVE  FailureInv'
<1>0. \A r \in Runs : Shift(r) => ShiftFacts(r, Head(outbox[r]))
  BY ShiftFields
<1>00. AdapterType /\ LoopType
  BY TypeParts
<1>. USE <1>00, NoRunAssumption, NoIdAssumption DEF None, LoopType, CoreType, AdapterType, loop,
      answers, adapter, shown, supervisor
<1>1. ASSUME NEW r \in Runs, RunStep(r) PROVE FailureInv'
  <2>1. CASE Complete(r)
    <3>1. \A s \in Runs : core'[s].disposed = core[s].disposed /\ UNCHANGED <<asked, verdict, policy>>
      BY <2>1 DEF Complete
    <3>. QED  BY <3>1, FailureKept DEF FailureInv
  <2>2. CASE CancelsLate(r)
    <3>1. \A s \in Runs : core'[s].disposed = core[s].disposed /\ UNCHANGED <<asked, verdict, policy>>
      BY <2>2 DEF CancelsLate, Stops, adapter
    <3>. QED  BY <3>1, FailureKept DEF FailureInv
  <2>3. CASE Cancels(r)
    <3>1. /\ \A s \in Runs \ {r} : core'[s].disposed = core[s].disposed /\ asked'[s] = asked[s] /\ verdict'[s] = verdict[s]
          /\ UNCHANGED policy
      BY <2>3 DEF Cancels, Stops, SettleOpen
    <3>2. ~core'[r].disposed
      BY <2>3 DEF Cancels, Stops
    <3>3. FailureOf(r)'
      BY <3>2 DEF FailureOf
    <3>. QED  BY <3>1, <3>3, FailureKept DEF FailureInv
  <2>4. CASE Falls(r)
    <3>1. /\ \A s \in Runs \ {r} : core'[s].disposed = core[s].disposed /\ asked'[s] = asked[s] /\ verdict'[s] = verdict[s]
          /\ UNCHANGED policy
      BY <2>4 DEF Falls, Fails, Throw, Reads, SettleOpen
    <3>2. ~(asked'[r] \subseteq Private)
      BY <2>4, NeverFalls DEF Falls, Fails, Throw
    <3>3. FailureOf(r)'
      BY <3>2 DEF FailureOf
    <3>. QED  BY <3>1, <3>3, FailureKept DEF FailureInv
  <2>5. CASE Passes(r)
    <3>1. Shift(r)
      BY <2>5 DEF Passes
    <3>2. ShiftFacts(r, Head(outbox[r]))
      BY <1>0, <3>1
    <3>3. /\ \A s \in Runs : core'[s].disposed = core[s].disposed
          /\ UNCHANGED <<asked, verdict, policy>>
      BY <3>1, <3>2 DEF ShiftFacts, Shift
    <3>. QED  BY <3>3, FailureKept DEF FailureInv
  <2>6. CASE PublishRequested(r)
    <3>1. \A s \in Runs : core'[s].disposed = core[s].disposed /\ UNCHANGED <<asked, verdict, policy>>
      BY <2>6 DEF PublishRequested, Puts
    <3>. QED  BY <3>1, FailureKept DEF FailureInv
  <2>7. CASE PublishResolved(r)
    <3>1. \A s \in Runs : core'[s].disposed = core[s].disposed /\ UNCHANGED <<asked, verdict, policy>>
      BY <2>7 DEF PublishResolved, Puts, Clear
    <3>. QED  BY <3>1, FailureKept DEF FailureInv
  <2>8. CASE PublishTerminal(r)
    <3>1. \A s \in Runs : core'[s].disposed = core[s].disposed /\ UNCHANGED <<asked, verdict, policy>>
      BY <2>8 DEF PublishTerminal, Puts, Release, Clear
    <3>. QED  BY <3>1, FailureKept DEF FailureInv
  <2>9. CASE FinishWithFailure(r)
    <3>1. \A s \in Runs : core'[s].disposed = core[s].disposed /\ UNCHANGED <<asked, verdict, policy>>
      BY <2>9 DEF FinishWithFailure, Release, Clear
    <3>. QED  BY <3>1, FailureKept DEF FailureInv
  <2>. QED  BY <1>1, <2>1, <2>2, <2>3, <2>4, <2>5, <2>6, <2>7, <2>8, <2>9 DEF RunStep
<1>2. ASSUME NEW r \in Runs, NEW q \in RequestIds, InteractionStep(r, q) PROVE FailureInv'
  <2>1. CASE Ask(r, q)
    <3>1. /\ \A s \in Runs \ {r} : core'[s].disposed = core[s].disposed /\ asked'[s] = asked[s] /\ verdict'[s] = verdict[s]
          /\ UNCHANGED policy
      BY <2>1 DEF Ask
    <3>2. ~core'[r].disposed
      BY <2>1 DEF Ask, VerdictInv
    <3>3. FailureOf(r)'
      BY <3>2 DEF FailureOf
    <3>. QED  BY <3>1, <3>3, FailureKept DEF FailureInv
  <2>2. CASE TakeAnswer(r, q)
    <3>1. /\ \A s \in Runs \ {r} : core'[s].disposed = core[s].disposed /\ asked'[s] = asked[s] /\ verdict'[s] = verdict[s]
          /\ UNCHANGED policy
      BY <2>2 DEF TakeAnswer, Told, Answered, Deciding
    <3>2. ~core'[r].disposed
      BY <2>2 DEF TakeAnswer, VerdictInv, Answered
    <3>3. FailureOf(r)'
      BY <3>2 DEF FailureOf
    <3>. QED  BY <3>1, <3>3, FailureKept DEF FailureInv
  <2>3. CASE RefuseClient(r, q)
    <3>1. \A s \in Runs : core'[s].disposed = core[s].disposed /\ UNCHANGED <<asked, verdict, policy>>
      BY <2>3 DEF RefuseClient, Refuses, Told
    <3>. QED  BY <3>1, FailureKept DEF FailureInv
  <2>4. CASE RefuseDecision(r, q)
    <3>1. /\ \A s \in Runs \ {r} : core'[s].disposed = core[s].disposed /\ asked'[s] = asked[s] /\ verdict'[s] = verdict[s]
          /\ UNCHANGED policy
      BY <2>4 DEF RefuseDecision, Refuses, Told, Throw, SettleOpen, Deciding
    <3>2. ops[r][q] # None /\ q \notin open[r] /\ step[r] = "deciding" /\ hand[r].id = q
      BY <2>4 DEF RefuseDecision, Refuses, Deciding
    <3>3. given[r][q] = None /\ Decision(r, q) # "prompt" /\ hand[r].type \notin Terminals
      BY <3>2 DEF LoopInv, Terminals
    <3>4. q \in asked[r]
      BY <3>2, <3>3 DEF AskedInv
    <3>5. verdict[r][q] # None /\ verdict[r][q] \notin Answers /\ verdict[r][q] # "abandoned"
      <4>1. verdict[r][q] # None /\ (verdict[r][q] \in Answers => given[r][q] = verdict[r][q])
        BY <3>2, <3>4 DEF VerdictInv
      <4>2. ~core[r].disposed
        BY <3>2 DEF VerdictInv, Over
      <4>3. verdict[r][q] # "abandoned"
        BY <4>2 DEF VerdictInv
      <4>. QED  BY <3>3, <4>1, <4>3
    <3>6. verdict[r][q] = "cancelled"
      BY <3>5 DEF Verdicts
    <3>7. verdict'[r][q] = "cancelled" /\ asked'[r] = asked[r]
      BY <2>4, <3>2, <3>6 DEF RefuseDecision, Throw, SettleOpen
    <3>8. Decision(r, q)' # "prompt"
      BY <3>1, <3>3 DEF Decision
    <3>9. FailureOf(r)'
      BY <3>4, <3>7, <3>8 DEF FailureOf
    <3>. QED  BY <3>1, <3>9, FailureKept DEF FailureInv
  <2>5. CASE Decides(r, q)
    <3>1. Shift(r)
      BY <2>5 DEF Decides
    <3>2. ShiftFacts(r, Head(outbox[r]))
      BY <1>0, <3>1
    <3>3. /\ \A s \in Runs : core'[s].disposed = core[s].disposed
          /\ UNCHANGED <<asked, verdict, policy>>
      BY <3>1, <3>2 DEF ShiftFacts, Shift
    <3>. QED  BY <3>3, FailureKept DEF FailureInv
  <2>6. CASE Prompts(r, q)
    <3>1. Shift(r)
      BY <2>6 DEF Prompts
    <3>2. ShiftFacts(r, Head(outbox[r]))
      BY <1>0, <3>1
    <3>3. /\ \A s \in Runs : core'[s].disposed = core[s].disposed
          /\ UNCHANGED <<asked, verdict, policy>>
      BY <3>1, <3>2 DEF ShiftFacts, Shift
    <3>. QED  BY <3>3, FailureKept DEF FailureInv
  <2>7. CASE TimerIsLate(r, q)
    <3>1. \A s \in Runs : core'[s].disposed = core[s].disposed /\ UNCHANGED <<asked, verdict, policy>>
      BY <2>7 DEF TimerIsLate, Fires
    <3>. QED  BY <3>1, FailureKept DEF FailureInv
  <2>8. ASSUME NEW s \in Runs, TimerSends(r, q, s) PROVE FailureInv'
    <3>1. \A t \in Runs : core'[t].disposed = core[t].disposed /\ UNCHANGED <<asked, verdict, policy>>
      BY <2>8 DEF TimerSends, Sends, Fires, Recorded
    <3>. QED  BY <3>1, FailureKept DEF FailureInv
  <2>. QED  BY <1>2, <2>1, <2>2, <2>3, <2>4, <2>5, <2>6, <2>7, <2>8 DEF InteractionStep
<1>3. ASSUME NEW c \in Calls, NEW q \in RequestIds, NEW a \in {"allow", "deny"}, CallStep(c, q, a) PROVE FailureInv'
  <2>1. CASE RespondRefused(c, q, a)
    <3>1. \A s \in Runs : core'[s].disposed = core[s].disposed /\ UNCHANGED <<asked, verdict, policy>>
      BY <2>1 DEF RespondRefused, Asks
    <3>. QED  BY <3>1, FailureKept DEF FailureInv
  <2>2. ASSUME NEW s \in Runs, RespondSends(c, q, a, s) PROVE FailureInv'
    <3>1. \A t \in Runs : core'[t].disposed = core[t].disposed /\ UNCHANGED <<asked, verdict, policy>>
      BY <2>2 DEF RespondSends, Sends, Asks, Recorded
    <3>. QED  BY <3>1, FailureKept DEF FailureInv
  <2>3. ASSUME NEW s \in Runs, NEW state \in {"taken", "waiting"}, RespondKnown(c, q, a, s, state) PROVE FailureInv'
    <3>1. \A t \in Runs : core'[t].disposed = core[t].disposed /\ UNCHANGED <<asked, verdict, policy>>
      BY <2>3 DEF RespondKnown, Asks
    <3>. QED  BY <3>1, FailureKept DEF FailureInv
  <2>. QED  BY <1>3, <2>1, <2>2, <2>3 DEF CallStep
<1>. QED  BY <1>1, <1>2, <1>3 DEF Step

-----------------------------------------------------------------------------
(* The invariant.                                                          *)

\* The invariant holds at the start.
LEMMA InitInvariant == Init => IInv
<1>. SUFFICES ASSUME Init PROVE IInv
  OBVIOUS
<1>1. LoopType
  BY PolicyAssumption DEF Init, LoopType, Steps, CoreType, NewCore, Nothing, Event, None
<1>2. AnswerType /\ CallType
  BY DEF Init, AnswerType, CallType, NoRecord, None
<1>3. AdapterType
  <2>1. <<>> \in Seq(Events)
    OBVIOUS
  <2>. QED  BY <2>1 DEF Init, AdapterType, None
<1>4. SupervisorType
  BY DEF Init, SupervisorType, None
<1>5. TypeOK
  BY <1>1, <1>2, <1>3, <1>4, TypeParts
<1>6. \A r \in Runs : /\ core[r].started /\ core[r].pending = {} /\ core[r].answered = {}
                      /\ ~core[r].terminalSeen /\ ~core[r].disposed
  BY DEF Init, NewCore
<1>7. AskedInv
  BY <1>6, FS_EmptySet DEF Init, AskedInv
<1>8. VerdictInv
  BY <1>6 DEF Init, VerdictInv, None, Answers
<1>9. OutboxInv
  <2>1. \A r \in Runs : Len(outbox[r]) = 0
    BY DEF Init
  <2>2. ASSUME NEW r \in Runs PROVE OutboxOf(r)
    <3>1. \A e : ~In(outbox[r], e)
      BY <2>1 DEF In
    <3>2. BoxOK(outbox[r], asked[r], open[r], core[r].pending)
      BY <1>6, <2>1, <3>1 DEF BoxOK, Init
    <3>3. Live(outbox[r])
      BY <2>1 DEF Live
    <3>. QED  BY <1>6, <3>1, <3>2, <3>3 DEF OutboxOf
  <2>. QED  BY <2>2 DEF OutboxInv
<1>10. LoopInv
  BY <1>6 DEF Init, LoopInv, None
<1>11. PendingInv /\ ShownInv
  BY DEF Init, PendingInv, ShownInv
<1>12. RecordInv
  BY DEF Init, RecordInv, Recorded
<1>13. WaitingInv
  BY DEF Init, WaitingInv
<1>14. FailureInv
  BY <1>6 DEF FailureInv, FailureOf
<1>. QED  BY <1>5, <1>7, <1>8, <1>9, <1>10, <1>11, <1>12, <1>13, <1>14 DEF IInv

\* The invariant depends on the variables alone.
LEMMA StutterInvariant == IInv /\ UNCHANGED vars => IInv'
<1>. SUFFICES ASSUME IInv, UNCHANGED vars PROVE IInv'
  OBVIOUS
<1>1. /\ UNCHANGED <<policy, step, hand, core, ops, given, asked, open, outbox, ended, verdict, visible, outcome>>
      /\ UNCHANGED <<supPending, responses, timers, active, call>>
  BY DEF vars, loop, answers, adapter, shown, supervisor
<1>2. TypeOK'
  BY <1>1 DEF IInv, TypeOK
<1>3. AskedInv' /\ VerdictInv'
  BY <1>1 DEF IInv, AskedInv, VerdictInv
<1>4. OutboxInv'
  BY <1>1 DEF IInv, OutboxInv, OutboxOf, BoxOK, Live, In
<1>5. LoopInv' /\ PendingInv' /\ ShownInv'
  BY <1>1 DEF IInv, LoopInv, PendingInv, ShownInv, Shown, Decision
<1>6. RecordInv' /\ WaitingInv' /\ FailureInv'
  BY <1>1 DEF IInv, RecordInv, RecordOf, Recorded, WaitingInv, FailureInv, FailureOf, Decision
<1>. QED  BY <1>2, <1>3, <1>4, <1>5, <1>6 DEF IInv

\* Everything that is kept about interactions agrees, whatever clients, timers,
\* policies and cancels do.
THEOREM InvariantThm == Spec => []IInv
<1>1. IInv /\ [Next]_vars => IInv'
  <2>1. ASSUME IInv, Next PROVE IInv'
    <3>1. Step
      BY <2>1, NextCases
    <3>. QED
      BY <2>1, <3>1, TypeStep, AskedStep, VerdictStep, OutboxStep, LoopStep, PendingStep, ShownStep,
               RecordStep, WaitingStep, FailureStep DEF IInv
  <2>. QED  BY <2>1, StutterInvariant
<1>. QED  BY <1>1, InitInvariant, PTL DEF Spec

\* The types of everything that is kept.
THEOREM TypeThm == Spec => []TypeOK
<1>1. IInv => TypeOK
  BY DEF IInv
<1>. QED  BY <1>1, InvariantThm, PTL

\* No pending interaction outlives its run, and one that is open and visible can be
\* answered, whatever else is resolved (#clearInteraction, #releaseActive).
THEOREM AnswerableThm == Spec => []PendingIsAnswerable
<1>1. IInv => PendingIsAnswerable
  <2>. SUFFICES ASSUME IInv PROVE PendingIsAnswerable
    OBVIOUS
  <2>1. \A q \in RequestIds :
          supPending[q] # NoRun => supPending[q] \in active /\ timers[supPending[q]][q] # "off"
    BY DEF IInv, PendingInv
  <2>2. ASSUME NEW r \in active, NEW q \in Private, Decision(r, q) = "prompt", q \in visible[r] \cap open[r]
        PROVE  supPending[q] = r /\ timers[r][q] # "off" /\ q \in core[r].pending
    <3>1. Shown(r, q)
      BY <2>2 DEF Shown
    <3>. QED  BY <2>2, <3>1 DEF IInv, ShownInv
  <2>. QED  BY <2>1, <2>2 DEF PendingIsAnswerable
<1>. QED  BY <1>1, InvariantThm, PTL

\* A run fails over an interaction only when its policy decided after a cancel had
\* resolved it: the races of clients, timers and cancels fail none.
THEOREM FailureThm == Spec => []RacesDoNotFailRuns
<1>1. IInv => RacesDoNotFailRuns
  BY DEF IInv, LoopInv, FailureInv, FailureOf, RacesDoNotFailRuns
<1>. QED  BY <1>1, InvariantThm, PTL

-----------------------------------------------------------------------------
(* The refinement of AnswerOnce.                                           *)

\* A verdict is given once, and stays.
VerdictsStay ==
  \A r \in Runs, q \in RequestIds :
    verdict'[r][q] = verdict[r][q] \/ (verdict[r][q] = None /\ verdict'[r][q] \in Verdicts)

\* A verdict is given once.
LEMMA VerdictOnce ==
  ASSUME TypeOK, VerdictInv, Step
  PROVE  VerdictsStay
<1>00. AdapterType /\ AnswerType
  BY TypeParts
<1>. USE <1>00, NoRunAssumption, NoIdAssumption DEF None, AdapterType, AnswerType, loop, answers,
      adapter, shown, supervisor
<1>1. ASSUME NEW r \in Runs, RunStep(r) PROVE VerdictsStay
  <2>1. CASE Complete(r)
    <3>1. UNCHANGED verdict
      BY <2>1 DEF Complete
    <3>. QED  BY <3>1 DEF VerdictsStay
  <2>2. CASE CancelsLate(r)
    <3>1. UNCHANGED verdict
      BY <2>2 DEF CancelsLate, Stops, adapter
    <3>. QED  BY <3>1 DEF VerdictsStay
  <2>3. CASE Cancels(r)
    <3>1. \A s \in Runs, p \in RequestIds :
            verdict'[s][p] = verdict[s][p] \/ (p \in open[s] /\ verdict'[s][p] = "cancelled")
      BY <2>3 DEF Cancels, Stops, SettleOpen
    <3>. QED  BY <3>1 DEF VerdictsStay, VerdictInv, Verdicts
  <2>4. CASE Falls(r)
    <3>1. \A s \in Runs, p \in RequestIds :
            verdict'[s][p] = verdict[s][p] \/ (p \in open[s] /\ verdict'[s][p] = "abandoned")
      BY <2>4 DEF Falls, Fails, Throw, Reads, SettleOpen
    <3>. QED  BY <3>1 DEF VerdictsStay, VerdictInv, Verdicts
  <2>5. CASE Passes(r)
    <3>1. UNCHANGED verdict
      BY <2>5 DEF Passes, Shift, Reads
    <3>. QED  BY <3>1 DEF VerdictsStay
  <2>6. CASE PublishRequested(r)
    <3>1. UNCHANGED verdict
      BY <2>6 DEF PublishRequested, Puts
    <3>. QED  BY <3>1 DEF VerdictsStay
  <2>7. CASE PublishResolved(r)
    <3>1. UNCHANGED verdict
      BY <2>7 DEF PublishResolved, Puts, Clear
    <3>. QED  BY <3>1 DEF VerdictsStay
  <2>8. CASE PublishTerminal(r)
    <3>1. UNCHANGED verdict
      BY <2>8 DEF PublishTerminal, Puts, Release, Clear
    <3>. QED  BY <3>1 DEF VerdictsStay
  <2>9. CASE FinishWithFailure(r)
    <3>1. UNCHANGED verdict
      BY <2>9 DEF FinishWithFailure, Release, Clear
    <3>. QED  BY <3>1 DEF VerdictsStay
  <2>. QED  BY <1>1, <2>1, <2>2, <2>3, <2>4, <2>5, <2>6, <2>7, <2>8, <2>9 DEF RunStep
<1>2. ASSUME NEW r \in Runs, NEW q \in RequestIds, InteractionStep(r, q) PROVE VerdictsStay
  <2>1. CASE Ask(r, q)
    <3>1. UNCHANGED verdict
      BY <2>1 DEF Ask
    <3>. QED  BY <3>1 DEF VerdictsStay
  <2>2. CASE TakeAnswer(r, q)
    <3>1. q \in open[r] /\ ops[r][q] \in Answers
      BY <2>2 DEF TakeAnswer
    <3>2. \A s \in Runs, p \in RequestIds :
            verdict'[s][p] = verdict[s][p] \/ (s = r /\ p = q /\ verdict'[s][p] = ops[r][q])
      BY <2>2 DEF TakeAnswer
    <3>. QED  BY <3>1, <3>2 DEF VerdictsStay, VerdictInv, Verdicts
  <2>3. CASE RefuseClient(r, q)
    <3>1. UNCHANGED verdict
      BY <2>3 DEF RefuseClient, Refuses, Told
    <3>. QED  BY <3>1 DEF VerdictsStay
  <2>4. CASE RefuseDecision(r, q)
    <3>1. \A s \in Runs, p \in RequestIds :
            verdict'[s][p] = verdict[s][p] \/ (p \in open[s] /\ verdict'[s][p] = "abandoned")
      BY <2>4 DEF RefuseDecision, Refuses, Told, Throw, SettleOpen, Deciding
    <3>. QED  BY <3>1 DEF VerdictsStay, VerdictInv, Verdicts
  <2>5. CASE Decides(r, q)
    <3>1. UNCHANGED verdict
      BY <2>5 DEF Decides, Shift, Reads
    <3>. QED  BY <3>1 DEF VerdictsStay
  <2>6. CASE Prompts(r, q)
    <3>1. UNCHANGED verdict
      BY <2>6 DEF Prompts, Shift, Reads
    <3>. QED  BY <3>1 DEF VerdictsStay
  <2>7. CASE TimerIsLate(r, q)
    <3>1. UNCHANGED verdict
      BY <2>7 DEF TimerIsLate, Fires
    <3>. QED  BY <3>1 DEF VerdictsStay
  <2>8. ASSUME NEW s \in Runs, TimerSends(r, q, s) PROVE VerdictsStay
    <3>1. UNCHANGED verdict
      BY <2>8 DEF TimerSends, Sends, Fires, Recorded
    <3>. QED  BY <3>1 DEF VerdictsStay
  <2>. QED  BY <1>2, <2>1, <2>2, <2>3, <2>4, <2>5, <2>6, <2>7, <2>8 DEF InteractionStep
<1>3. ASSUME NEW c \in Calls, NEW q \in RequestIds, NEW a \in {"allow", "deny"}, CallStep(c, q, a) PROVE VerdictsStay
  <2>1. CASE RespondRefused(c, q, a)
    <3>1. UNCHANGED verdict
      BY <2>1 DEF RespondRefused, Asks
    <3>. QED  BY <3>1 DEF VerdictsStay
  <2>2. ASSUME NEW s \in Runs, RespondSends(c, q, a, s) PROVE VerdictsStay
    <3>1. UNCHANGED verdict
      BY <2>2 DEF RespondSends, Sends, Asks, Recorded
    <3>. QED  BY <3>1 DEF VerdictsStay
  <2>3. ASSUME NEW s \in Runs, NEW state \in {"taken", "waiting"}, RespondKnown(c, q, a, s, state) PROVE VerdictsStay
    <3>1. UNCHANGED verdict
      BY <2>3 DEF RespondKnown, Asks
    <3>. QED  BY <3>1 DEF VerdictsStay
  <2>. QED  BY <1>3, <2>1, <2>2, <2>3 DEF CallStep
<1>. QED  BY <1>1, <1>2, <1>3 DEF Step

\* How a call changes: it is sent, or told how it went.  One that is told that its
\* answer was taken gave the verdict.
CallsMove ==
  \A c \in Calls :
    \/ call'[c] = call[c]
    \/ /\ call[c].state = "unsent" /\ call'[c].id \in RequestIds
       /\ \/ call'[c].state \in {"waiting", "refused"}
          \/ /\ call'[c].state = "taken"
             /\ \E s \in Runs : call'[c].id \in asked[s] /\ verdict'[s][call'[c].id] = call'[c].answer
    \/ /\ call[c].state = "waiting" /\ call'[c] = [call[c] EXCEPT !.state = "refused"]
    \/ /\ call[c].state = "waiting" /\ call'[c] = [call[c] EXCEPT !.state = "taken"]
       /\ \E s \in Runs : call[c].id \in asked[s] /\ verdict'[s][call[c].id] = call[c].answer

\* Calls are told the verdict.
LEMMA CallsAreTold ==
  ASSUME TypeOK, AskedInv, VerdictInv, WaitingInv, Step
  PROVE  CallsMove
<1>00. CallType /\ AnswerType /\ AdapterType
  BY TypeParts
<1>. USE <1>00, NoRunAssumption, NoIdAssumption DEF None, CallType, AnswerType, AdapterType, loop,
      answers, adapter, shown, supervisor
<1>1. ASSUME NEW r \in Runs, RunStep(r) PROVE CallsMove
  <2>1. CASE Complete(r)
    <3>1. UNCHANGED call
      BY <2>1 DEF Complete
    <3>. QED  BY <3>1 DEF CallsMove
  <2>2. CASE CancelsLate(r)
    <3>1. UNCHANGED call
      BY <2>2 DEF CancelsLate, Stops, adapter
    <3>. QED  BY <3>1 DEF CallsMove
  <2>3. CASE Cancels(r)
    <3>1. UNCHANGED call
      BY <2>3 DEF Cancels, Stops, SettleOpen
    <3>. QED  BY <3>1 DEF CallsMove
  <2>4. CASE Falls(r)
    <3>1. UNCHANGED call
      BY <2>4 DEF Falls, Fails, Throw, Reads, SettleOpen
    <3>. QED  BY <3>1 DEF CallsMove
  <2>5. CASE Passes(r)
    <3>1. UNCHANGED call
      BY <2>5 DEF Passes, Shift, Reads
    <3>. QED  BY <3>1 DEF CallsMove
  <2>6. CASE PublishRequested(r)
    <3>1. UNCHANGED call
      BY <2>6 DEF PublishRequested, Puts
    <3>. QED  BY <3>1 DEF CallsMove
  <2>7. CASE PublishResolved(r)
    <3>1. UNCHANGED call
      BY <2>7 DEF PublishResolved, Puts, Clear
    <3>. QED  BY <3>1 DEF CallsMove
  <2>8. CASE PublishTerminal(r)
    <3>1. UNCHANGED call
      BY <2>8 DEF PublishTerminal, Puts, Release, Clear
    <3>. QED  BY <3>1 DEF CallsMove
  <2>9. CASE FinishWithFailure(r)
    <3>1. UNCHANGED call
      BY <2>9 DEF FinishWithFailure, Release, Clear
    <3>. QED  BY <3>1 DEF CallsMove
  <2>. QED  BY <1>1, <2>1, <2>2, <2>3, <2>4, <2>5, <2>6, <2>7, <2>8, <2>9 DEF RunStep
<1>2. ASSUME NEW r \in Runs, NEW q \in RequestIds, InteractionStep(r, q) PROVE CallsMove
  <2>1. CASE Ask(r, q)
    <3>1. UNCHANGED call
      BY <2>1 DEF Ask
    <3>. QED  BY <3>1 DEF CallsMove
  <2>2. CASE TakeAnswer(r, q)
    <3>1. call' = Told(r, q, "taken") /\ q \in open[r] /\ verdict'[r][q] = ops[r][q]
      BY <2>2 DEF TakeAnswer
    <3>2. q \in asked[r]
      BY <3>1 DEF AskedInv
    <3>3. ASSUME NEW c \in Calls, call[c].state = "waiting", call[c].run = r, call[c].id = q
          PROVE  verdict'[r][call[c].id] = call[c].answer
      BY <3>1, <3>3 DEF WaitingInv
    <3>. QED  BY <3>1, <3>2, <3>3 DEF CallsMove, Told
  <2>3. CASE RefuseClient(r, q)
    <3>1. call' = Told(r, q, "refused")
      BY <2>3 DEF RefuseClient, Refuses
    <3>. QED  BY <3>1 DEF CallsMove, Told
  <2>4. CASE RefuseDecision(r, q)
    <3>1. call' = Told(r, q, "refused")
      BY <2>4 DEF RefuseDecision, Refuses
    <3>. QED  BY <3>1 DEF CallsMove, Told
  <2>5. CASE Decides(r, q)
    <3>1. UNCHANGED call
      BY <2>5 DEF Decides, Shift, Reads
    <3>. QED  BY <3>1 DEF CallsMove
  <2>6. CASE Prompts(r, q)
    <3>1. UNCHANGED call
      BY <2>6 DEF Prompts, Shift, Reads
    <3>. QED  BY <3>1 DEF CallsMove
  <2>7. CASE TimerIsLate(r, q)
    <3>1. UNCHANGED call
      BY <2>7 DEF TimerIsLate, Fires
    <3>. QED  BY <3>1 DEF CallsMove
  <2>8. ASSUME NEW s \in Runs, TimerSends(r, q, s) PROVE CallsMove
    <3>1. UNCHANGED call
      BY <2>8 DEF TimerSends, Sends, Fires, Recorded
    <3>. QED  BY <3>1 DEF CallsMove
  <2>. QED  BY <1>2, <2>1, <2>2, <2>3, <2>4, <2>5, <2>6, <2>7, <2>8 DEF InteractionStep
<1>3. ASSUME NEW c \in Calls, NEW q \in RequestIds, NEW a \in {"allow", "deny"}, CallStep(c, q, a) PROVE CallsMove
  <2>1. CASE RespondRefused(c, q, a)
    <3>1. Asks(c, q, a, "refused")
      BY <2>1 DEF RespondRefused
    <3>2. /\ call[c].state = "unsent" /\ call'[c].state = "refused" /\ call'[c].id = q /\ call'[c].answer = a
          /\ \A d \in Calls \ {c} : call'[d] = call[d]
          /\ UNCHANGED <<verdict, asked>>
      BY <3>1 DEF Asks
    <3>. QED  BY <3>2 DEF CallsMove
  <2>2. ASSUME NEW s \in Runs, RespondSends(c, q, a, s) PROVE CallsMove
    <3>1. Asks(c, q, a, "waiting")
      BY <2>2 DEF RespondSends
    <3>2. /\ call[c].state = "unsent" /\ call'[c].state = "waiting" /\ call'[c].id = q /\ call'[c].answer = a
          /\ \A d \in Calls \ {c} : call'[d] = call[d]
          /\ UNCHANGED <<verdict, asked>>
      BY <3>1 DEF Asks
    <3>. QED  BY <3>2 DEF CallsMove
  <2>3. ASSUME NEW s \in Runs, NEW state \in {"taken", "waiting"}, RespondKnown(c, q, a, s, state) PROVE CallsMove
    <3>1. Asks(c, q, a, state)
      BY <2>3 DEF RespondKnown
    <3>2. /\ call[c].state = "unsent" /\ call'[c].state = state /\ call'[c].id = q /\ call'[c].answer = a
          /\ \A d \in Calls \ {c} : call'[d] = call[d]
          /\ UNCHANGED <<verdict, asked>>
      BY <3>1 DEF Asks
    <3>3. state = "taken" => q \in asked[s] /\ verdict[s][q] = a
      BY <2>3 DEF RespondKnown, VerdictInv
    <3>. QED  BY <3>2, <3>3 DEF CallsMove
  <2>. QED  BY <1>3, <2>1, <2>2, <2>3 DEF CallStep
<1>. QED  BY <1>1, <1>2, <1>3 DEF Step

\* An interaction with a private id is asked by one run only.
LEMMA OwnerIsUnique ==
  ASSUME NEW q \in Private
  PROVE  /\ OwnerOf(q) \in Runs /\ q \in IdsOf[OwnerOf(q)]
         /\ \A r \in Runs : q \in IdsOf[r] => r = OwnerOf(q)
<1>1. \E r \in Runs : q \in IdsOf[r]
  BY DEF Private
<1>2. OwnerOf(q) \in Runs /\ q \in IdsOf[OwnerOf(q)]
  BY <1>1 DEF OwnerOf
<1>. QED  BY <1>2, PrivateOwner

\* What AnswerOnce sees of a call.
View(c) ==
  IF c \in PrivateCalls
  THEN [state |-> call[c].state, interaction |-> call[c].id, answer |-> call[c].answer]
  ELSE [state |-> "refused", interaction |-> NoId, answer |-> None]
Settled == [q \in Private |-> verdict[OwnerOf(q)][q]]

\* Interactions get one verdict and clients are told it: the supervisor, the managed
\* runs and the adapters together implement AnswerOnce.
THEOREM AnswerOnceThm == Spec => ImplementsAnswerOnce
<1>1. Init => AnswerOnceSpec!Init
  <2>. SUFFICES ASSUME Init PROVE AnswerOnceSpec!Init
    OBVIOUS
  <2>1. \A q \in Private : OwnerOf(q) \in Runs /\ q \in RequestIds
    BY OwnerIsUnique DEF Private
  <2>2. \A q \in Private : verdict[OwnerOf(q)][q] = None
    BY <2>1 DEF Init
  <2>3. \A c \in Calls : c \in PrivateCalls /\ call[c].state = "unsent"
    BY DEF Init, PrivateCalls
  <2>. QED  BY <2>2, <2>3 DEF AnswerOnceSpec!Init
<1>2. IInv /\ [Next]_vars => [AnswerOnceSpec!Next]_AnswerOnceSpec!vars
  <2>1. ASSUME UNCHANGED vars PROVE UNCHANGED AnswerOnceSpec!vars
    <3>1. UNCHANGED <<verdict, call>>
      BY <2>1 DEF vars, adapter
    <3>. QED  BY <3>1 DEF AnswerOnceSpec!vars, PrivateCalls
  <2>2. ASSUME IInv, Next PROVE AnswerOnceSpec!Next
    <3>1. TypeOK /\ AskedInv /\ VerdictInv /\ WaitingInv /\ Step
      BY <2>2, NextCases DEF IInv
    <3>2. VerdictsStay /\ CallsMove
      BY <3>1, VerdictOnce, CallsAreTold
    <3>3. \A q \in Private : q \in RequestIds /\ OwnerOf(q) \in Runs
      BY OwnerIsUnique DEF Private
    <3>4. ASSUME NEW q \in Private PROVE AnswerOnceSpec!Decide(q)
      BY <3>2, <3>3 DEF VerdictsStay, AnswerOnceSpec!Decide
    <3>5. ASSUME NEW c \in Calls PROVE AnswerOnceSpec!Tell(c)
      <4>1. call[c].state = "unsent" => c \in PrivateCalls
        BY <3>1 DEF WaitingInv, PrivateCalls
      <4>2. ASSUME NEW s \in Runs, NEW q \in Private, q \in asked[s] PROVE verdict'[OwnerOf(q)][q] = verdict'[s][q]
        BY <3>1, <4>2, OwnerIsUnique DEF AskedInv
      <4>3. SUFFICES
              \/ View(c)' = View(c)
              \/ View(c).state = "unsent" /\ View(c)'.state \in {"waiting", "refused"}
              \/ /\ View(c).state \in {"unsent", "waiting"} /\ View(c)'.state = "taken"
                 /\ Settled'[View(c)'.interaction] = View(c)'.answer
              \/ View(c).state = "waiting" /\ View(c)' = [View(c) EXCEPT !.state = "refused"]
        BY <4>3 DEF View, Settled, AnswerOnceSpec!Tell
      <4>4. /\ c \in PrivateCalls <=> call[c].id \in Private \cup {NoId}
            /\ c \in PrivateCalls' <=> call'[c].id \in Private \cup {NoId}
        BY DEF PrivateCalls
      <4>5. /\ c \in PrivateCalls => View(c).state = call[c].state
            /\ c \in PrivateCalls' => /\ View(c)'.state = call'[c].state /\ View(c)'.interaction = call'[c].id
                                      /\ View(c)'.answer = call'[c].answer
            /\ c \notin PrivateCalls' => View(c)'.state = "refused"
        BY DEF View
      <4>6. ASSUME NEW q \in Private PROVE Settled'[q] = verdict'[OwnerOf(q)][q]
        BY DEF Settled
      <4>7. CASE call'[c] = call[c]
        BY <4>4, <4>7 DEF View
      <4>8. CASE call[c].state = "unsent" /\ call'[c].id \in RequestIds
        <5>1. CASE c \notin PrivateCalls'
          BY <4>1, <4>5, <4>8, <5>1
        <5>2. CASE c \in PrivateCalls' /\ call'[c].state \in {"waiting", "refused"}
          BY <4>1, <4>5, <4>8, <5>2
        <5>3. CASE /\ c \in PrivateCalls' /\ call'[c].state = "taken"
                   /\ \E s \in Runs : call'[c].id \in asked[s] /\ verdict'[s][call'[c].id] = call'[c].answer
          <6>1. call'[c].id \in Private
            BY <4>4, <4>8, <5>3, NoIdAssumption
          <6>. QED  BY <4>1, <4>2, <4>5, <4>6, <4>8, <5>3, <6>1
        <5>. QED  BY <3>2, <4>7, <4>8, <5>1, <5>2, <5>3 DEF CallsMove
      <4>9. CASE call[c].state = "waiting" /\ call'[c] = [call[c] EXCEPT !.state = "refused"]
        BY <4>4, <4>9 DEF View
      <4>10. CASE /\ call[c].state = "waiting" /\ call'[c] = [call[c] EXCEPT !.state = "taken"]
                  /\ \E s \in Runs : call[c].id \in asked[s] /\ verdict'[s][call[c].id] = call[c].answer
        <5>1. call'[c].id = call[c].id /\ call'[c].state = "taken" /\ call'[c].answer = call[c].answer
          BY <3>1, <4>10 DEF TypeOK
        <5>2. CASE c \notin PrivateCalls
          BY <4>4, <5>1, <5>2 DEF View
        <5>3. CASE c \in PrivateCalls
          <6>1. call[c].id \in Private /\ c \in PrivateCalls'
            BY <3>1, <4>4, <4>10, <5>1, <5>3, NoIdAssumption DEF TypeOK
          <6>2. Settled'[call[c].id] = call[c].answer
            BY <4>2, <4>6, <4>10, <6>1
          <6>. QED  BY <4>5, <4>10, <5>1, <5>3, <6>1, <6>2
        <5>. QED  BY <5>2, <5>3
      <4>. QED  BY <3>2, <4>7, <4>8, <4>9, <4>10 DEF CallsMove
    <3>. QED  BY <3>4, <3>5 DEF AnswerOnceSpec!Next
  <2>. QED  BY <2>1, <2>2
<1>. QED  BY <1>1, <1>2, InvariantThm, PTL DEF Spec, ImplementsAnswerOnce, AnswerOnceSpec!Spec
=============================================================================
