----------------------- MODULE AdapterRuntimesProofs -----------------------
(***************************************************************************)
(* Proofs about the runs of both adapters, for any tools and calls of the  *)
(* vendor, any length of its stream and any length of a text.              *)
(***************************************************************************)
EXTENDS AdapterRuntimes, TLAPS, FiniteSetTheorems, SequenceTheorems

-----------------------------------------------------------------------------
(* The inductive invariant of a CodeBuddy run.                             *)

\* A run that was not begun has nothing, and one without a query only its failure.
BeginInv ==
  /\ generator = "idle" =>
       /\ producer = "off" /\ stream = <<>> /\ read = 0 /\ ~broken
       /\ ~core.started /\ ~core.terminalSeen /\ core.pending = {}
  /\ producer = "off" =>
       /\ generator \in {"idle", "yielded", "done"}
       /\ running = <<>> /\ settled = {} /\ pending = <<>>
       /\ terminal <=> stream # <<>>
  /\ producer # "off" => stream # <<>>

\* The run has its terminal event when the producer is done or the generator is
\* past its queue.
OverInv ==
  /\ producer = "done" \/ generator \in {"settling", "closing"} => terminal
  /\ generator = "done" /\ stream # <<>> => terminal
  /\ terminal => stream # <<>>

\* What the events are about, and that the first one alone starts the run.
StreamInv ==
  \A i \in 1..Len(stream) :
    /\ stream[i].type \in {"tool.started", "tool.settled"} => stream[i].id \in Tools
    /\ stream[i].type \in InteractionTypes => stream[i].id \in RequestIds
    /\ stream[i].type = "run.started" <=> i = 1

\* The positions of an event of a tool in s, and its being there once at most.
Has(s, e) == \E i \in 1..Len(s) : s[i] = e
Once(s, e) == \A i, j \in 1..Len(s) : s[i] = e /\ s[j] = e => i = j

Distinct(s) == \A i, j \in 1..Len(s) : s[i] = s[j] => i = j

\* The events of a tool in s, when it runs or was settled.
ToolOK(s, t, runs, over) ==
  LET started == Event("tool.started", t)
      ended == Event("tool.settled", t)
  IN /\ Has(s, started) <=> runs \/ over
     /\ Has(s, ended) <=> over
     /\ Once(s, started) /\ Once(s, ended)
     /\ \A i, j \in 1..Len(s) : s[i] = started /\ s[j] = ended => i < j

\* A run that has ended, but not with the end of the vendor's stream, has settled
\* its tools.
ToolInv ==
  /\ Distinct(running) /\ ToSet(running) \cap settled = {}
  /\ \A t \in Tools : ToolOK(stream, t, t \in ToSet(running), t \in settled)
  /\ terminal /\ Last(stream).id \notin {"ended", "ended unauthorized"} => running = <<>>

\* The entries of #pendingInteractions: each has an id and a call of its own, and a
\* call that waits has one.
PendingInv ==
  /\ \A i, j \in 1..Len(pending) :
       pending[i].id = pending[j].id \/ pending[i].call = pending[j].call => i = j
  /\ \A i \in 1..Len(pending) :
       /\ calls[pending[i].call] # "unasked"
       /\ pending[i].call \in NamedCalls => pending[i].id = pending[i].call
       /\ pending[i].call \notin NamedCalls => pending[i].id \in Range(NumberedIds)
  /\ \A c \in Calls :
       calls[c] = "waiting" => generator # "done" /\ \E i \in 1..Len(pending) : pending[i].call = c

\* An interaction that was requested is resolved or pending, until the run ends; the
\* ends that resolve leave none.
ResolveInv ==
  /\ ~terminal =>
       \A q \in RequestIds : Requested(q) => Resolved(q) \/ \E i \in 1..Len(pending) : pending[i].id = q
  /\ terminal /\ Last(stream).id \in {"cancel", "run", "idle"} =>
       \A q \in RequestIds : Requested(q) => Resolved(q)

AllowedInv == \A c \in NamedCalls : calls[c] = "allowed" => c \in core.answered

\* No later call can take the id of a call that bears its own.
OrphanInv == \A c \in NamedCalls : calls[c] = "orphaned" => generator = "done"

\* q is open after the first n events of s.
OpenIn(s, n, q) ==
  \E i \in 1..n :
    /\ s[i] = Event("interaction.requested", q)
    /\ \A j \in i + 1..n : s[j] # Event("interaction.resolved", q)

\* What the managed run knows is what it has passed on.
CoreInv ==
  /\ broken => read >= 1
  /\ core.started <=> Publishing >= 1
  /\ core.pending = {q \in RequestIds : OpenIn(stream, Publishing, q)}
  /\ core.terminalSeen <=> Publishing >= 1 /\ stream[Publishing].type \in Terminals

IInv ==
  /\ TypeOK
  /\ BeginInv
  /\ OverInv
  /\ StreamInv
  /\ OneTerminalAtTheEnd
  /\ ToolInv
  /\ PendingInv
  /\ ResolveInv
  /\ AllowedInv
  /\ OrphanInv
  /\ CoreInv

-----------------------------------------------------------------------------
(* The inductive invariant of a run of the reference adapter.              *)

Asks == scenario \in Reference!Asking

ReferenceInv ==
  /\ Reference!TypeOK
  /\ taken \in 0..Len(Reference!Script)
  /\ place = "idle" => taken = 0 /\ verdict = "none" /\ ~released
  /\ place = "yielded" => taken >= 1
  /\ verdict # "none" => Asks /\ taken >= 3
  /\ managed.started <=> taken >= 1
  /\ managed.pending = IF Asks /\ taken = 3 THEN {RunRequest} ELSE {}
  /\ managed.answered # {} => Asks /\ taken >= 3
  /\ managed.terminalSeen <=> taken >= 1 /\ Reference!Script[taken].type \in Terminals

AllInv == adapterMode \in {"codebuddy", "reference"} /\ IInv /\ ReferenceInv

-----------------------------------------------------------------------------
(* What the actions push.                                                  *)

\* The stream of a run that has begun goes on with the events of new.
Extends(new) ==
  /\ stream # <<>>
  /\ new \in Seq(Events) /\ stream' \in Seq(Events)
  /\ Len(stream') = Len(stream) + Len(new)
  /\ \A i \in 1..Len(stream) : stream'[i] = stream[i]
  /\ \A i \in 1..Len(new) : stream'[Len(stream) + i] = new[i]

\* An event with an id of one of the kinds that there are.
LEMMA EventIsOne ==
  ASSUME NEW type \in EventTypes, NEW id \in Tools \cup RequestIds \cup Causes \cup {NoId}
  PROVE  Event(type, id) \in Events /\ Event(type, id).type = type /\ Event(type, id).id = id
BY DEF Event, Events

\* Pushing before the end adds the events, and after it none.
LEMMA PushExtends ==
  ASSUME TypeOK, BeginInv, NEW new \in Seq(Events), stream' = Pushed(new), ~terminal, producer # "off"
  PROVE  Extends(new)
BY DEF Pushed, Extends, TypeOK, BeginInv

\* A run that has ended takes no more events.
LEMMA PushAfterEnd ==
  ASSUME NEW new, stream' = Pushed(new), terminal
  PROVE  stream' = stream
BY DEF Pushed

\* Two sequences, one after the other.
LEMMA ConcatAt ==
  ASSUME NEW a \in Seq(Events), NEW b \in Seq(Events)
  PROVE  /\ a \o b \in Seq(Events) /\ Len(a \o b) = Len(a) + Len(b)
         /\ Len(a) \in Nat /\ Len(b) \in Nat
         /\ \A i \in 1..Len(a) : (a \o b)[i] = a[i]
         /\ \A i \in 1..Len(b) : (a \o b)[Len(a) + i] = b[i]
         /\ \A i \in 1..Len(a) + Len(b) : i \in 1..Len(a) \/ (i - Len(a) \in 1..Len(b) /\ (a \o b)[i] = b[i - Len(a)])
OBVIOUS

\* Two sequences and an element.
LEMMA ThreeParts ==
  ASSUME NEW a \in Seq(Events), NEW b \in Seq(Events), NEW e \in Events
  PROVE  LET new == a \o b \o <<e>> IN
         /\ new \in Seq(Events) /\ Len(new) = Len(a) + Len(b) + 1
         /\ \A i \in 1..Len(a) : new[i] = a[i]
         /\ \A i \in 1..Len(b) : new[Len(a) + i] = b[i]
         /\ new[Len(a) + Len(b) + 1] = e
OBVIOUS

\* The events that settle the running tools.
LEMMA SettlingIs ==
  ASSUME TypeOK
  PROVE  /\ Settling \in Seq(Events) /\ Len(Settling) = Len(running)
         /\ \A i \in 1..Len(running) : Settling[i] = Event("tool.settled", running[i])
<1>1. running \in Seq(Tools) /\ Len(running) \in Nat
  BY DEF TypeOK
<1>2. \A i \in 1..Len(running) : Event("tool.settled", running[i]) \in Events
  BY <1>1 DEF Event, Events, EventTypes
<1>. QED  BY <1>1, <1>2 DEF Settling

\* The entries of #pendingInteractions.
LEMMA PendingEntries ==
  ASSUME TypeOK
  PROVE  \A i \in 1..Len(pending) : pending[i].id \in RequestIds /\ pending[i].call \in Calls
<1>. DEFINE E == [id : RequestIds, call : Calls]
<1>1. pending \in Seq(E)
  BY DEF TypeOK
<1>2. ASSUME NEW i \in 1..Len(pending)
      PROVE  pending[i] \in E
  <2>. HIDE DEF E
  <2>. QED  BY <1>1
<1>. QED  BY <1>2

\* The events that resolve the pending interactions.
LEMMA ResolvingIs ==
  ASSUME TypeOK
  PROVE  /\ Resolving \in Seq(Events) /\ Len(Resolving) = Len(pending)
         /\ \A i \in 1..Len(pending) : Resolving[i] = Event("interaction.resolved", pending[i].id)
<1>1. pending \in Seq([id : RequestIds, call : Calls]) /\ Len(pending) \in Nat
  BY DEF TypeOK
<1>2. \A i \in 1..Len(pending) : pending[i].id \in RequestIds
  BY <1>1, PendingEntries
<1>3. \A i \in 1..Len(pending) : Event("interaction.resolved", pending[i].id) \in Events
  BY <1>2 DEF Event, Events, EventTypes
<1>. QED  BY <1>1, <1>3 DEF Resolving

\* The end of a run: its tools are settled, some events follow, and the terminal event.
EndsAs(between, type, cause) ==
  LET m == Len(running)
      k == Len(between)
      new == Settling \o between \o <<Event(type, cause)>>
  IN /\ Extends(new) /\ Len(new) = m + k + 1
     /\ \A i \in 1..m : new[i] = Event("tool.settled", running[i])
     /\ \A i \in 1..k : new[m + i] = between[i]
     /\ new[m + k + 1] = Event(type, cause)
     /\ \A i \in 1..Len(new) : i \in 1..m \/ i - m \in 1..k \/ i = m + k + 1

\* Pushing the events of an end ends the run so.
LEMMA EndsWith ==
  ASSUME TypeOK, BeginInv, ~terminal, producer # "off",
         NEW between \in Seq(Events), NEW type \in Terminals, NEW cause \in Causes,
         stream' = Pushed(Settling \o between \o <<Event(type, cause)>>)
  PROVE  EndsAs(between, type, cause)
<1>. DEFINE e == Event(type, cause)
            new == Settling \o between \o <<e>>
            m == Len(running)
            k == Len(between)
<1>1. e \in Events
  BY DEF Event, Events, EventTypes
<1>2. Settling \in Seq(Events) /\ Len(Settling) = m /\ m \in Nat /\ k \in Nat
  BY SettlingIs DEF TypeOK
<1>. HIDE DEF e
<1>3. /\ new \in Seq(Events) /\ Len(new) = m + k + 1
      /\ \A i \in 1..m : new[i] = Settling[i]
      /\ \A i \in 1..k : new[m + i] = between[i]
      /\ new[m + k + 1] = e
  <2>1. /\ new \in Seq(Events) /\ Len(new) = Len(Settling) + Len(between) + 1
        /\ \A i \in 1..Len(Settling) : new[i] = Settling[i]
        /\ \A i \in 1..Len(between) : new[Len(Settling) + i] = between[i]
        /\ new[Len(Settling) + Len(between) + 1] = e
    BY <1>1, <1>2, ThreeParts
  <2>. HIDE DEF new, m, k
  <2>2. m = Len(Settling) /\ k = Len(between)
    BY <1>2 DEF k
  <2>. QED  BY <2>1, <2>2
<1>4. Extends(new)
  BY <1>3, PushExtends DEF e
<1>5. \A i \in 1..m + k + 1 : i \in 1..m \/ i - m \in 1..k \/ i = m + k + 1
  BY <1>2
<1>6. \A i \in 1..m : new[i] = Event("tool.settled", running[i])
  BY <1>3, SettlingIs
<1>. HIDE DEF m, k, new
<1>7. /\ Extends(new) /\ Len(new) = m + k + 1
      /\ \A i \in 1..m : new[i] = Event("tool.settled", running[i])
      /\ \A i \in 1..k : new[m + i] = between[i]
      /\ new[m + k + 1] = e
      /\ \A i \in 1..Len(new) : i \in 1..m \/ i - m \in 1..k \/ i = m + k + 1
  BY <1>3, <1>4, <1>5, <1>6
<1>. QED  BY <1>7 DEF EndsAs, e, m, k, new

\* An end that settles the tools has nothing between them and the terminal event.
LEMMA SettleAndEndIs ==
  ASSUME TypeOK, BeginInv, ~terminal, producer # "off",
         NEW type \in Terminals, NEW cause \in Causes, SettleAndEnd(type, cause)
  PROVE  EndsAs(<<>>, type, cause)
<1>1. Settling \o <<>> = Settling
  BY SettlingIs
<1>2. stream' = Pushed(Settling \o <<>> \o <<Event(type, cause)>>)
  BY <1>1 DEF SettleAndEnd, Ending
<1>3. <<>> \in Seq(Events)
  OBVIOUS
<1>. QED  BY <1>2, <1>3, EndsWith

\* An end that resolves the interactions has them between the tools and the terminal event.
LEMMA ResolveAndEndIs ==
  ASSUME TypeOK, BeginInv, ~terminal, producer # "off",
         NEW type \in Terminals, NEW cause \in Causes, ResolveAndEnd(type, cause)
  PROVE  EndsAs(Resolving, type, cause)
BY ResolvingIs, EndsWith DEF ResolveAndEnd, Ending

-----------------------------------------------------------------------------
(* The steps, by what they do to the events, the tools and the calls.      *)

Kept == UNCHANGED <<stream, terminal, running, settled, pending, calls>>

Starts ==
  /\ Begin /\ generator = "idle"
  /\ UNCHANGED <<running, settled, pending, calls>>
  /\ \/ stream' = <<Event("run.started", NoId)>> /\ UNCHANGED terminal
     \/ stream' = <<Event("run.started", NoId), Event("run.failed", "query")>> /\ terminal' = TRUE

DeniesRest ==
  /\ terminal \/ pending = <<>>
  /\ pending' = <<>> /\ calls' = Denied
  /\ UNCHANGED <<stream, terminal, running, settled>>

Reports(type) ==
  /\ ~terminal /\ UNCHANGED <<terminal, running, settled, pending, calls>>
  /\ Extends(<<Event(type, NoId)>>)

StartsTool(t) ==
  /\ ~terminal /\ UNCHANGED <<terminal, settled, pending, calls>>
  /\ t \notin ToSet(running) \cup settled /\ running' = Append(running, t)
  /\ Extends(<<Event("tool.started", t)>>)

SettlesTool(t) ==
  /\ ~terminal /\ UNCHANGED <<terminal, pending, calls>>
  /\ t \notin settled /\ settled' = settled \cup {t} /\ running' = RemoveFirst(running, t)
  /\ IF t \in ToSet(running) THEN Extends(<<Event("tool.settled", t)>>)
     ELSE Extends(<<Event("tool.started", t), Event("tool.settled", t)>>)

\* The run ends with its tools settled; its interactions are left alone, or resolved.
EndsSettled(between) ==
  /\ ~terminal /\ terminal' = TRUE /\ UNCHANGED <<pending, calls>>
  /\ running' = <<>> /\ settled' = settled \cup ToSet(running)
  /\ \E type \in Terminals, cause \in {"vendor", "result"} : EndsAs(between, type, cause)

EndsResolved(cause) ==
  /\ ~terminal /\ terminal' = TRUE /\ pending' = <<>> /\ calls' = Denied
  /\ running' = <<>> /\ settled' = settled \cup ToSet(running)
  /\ \E type \in Terminals : EndsAs(Resolving, type, cause)

EndsBare ==
  /\ ~terminal /\ terminal' = TRUE /\ UNCHANGED <<running, settled, pending, calls>>
  /\ Extends(<<Event("run.failed", EndError)>>)

\* The client is asked in the stream, unless the run has ended.
AsksClient(c) ==
  /\ calls[c] = "unasked" /\ pending' = WithEntry(c)
  /\ calls' = [d \in Calls |->
                 IF d \in Replaced(c) \/ (d = c /\ generator = "done") THEN "orphaned"
                 ELSE IF d = c THEN "waiting" ELSE calls[d]]
  /\ producer # "off" /\ UNCHANGED <<terminal, running, settled>>
  /\ IF terminal THEN UNCHANGED stream ELSE Extends(<<Event("interaction.requested", RequestId(c))>>)

DeniesCall(c) ==
  /\ calls[c] = "unasked" /\ calls' = [calls EXCEPT ![c] = "denied"]
  /\ UNCHANGED <<stream, terminal, running, settled, pending>>

AnswersEntry(i) ==
  /\ core' = Answered(core, pending[i].id)
  /\ pending' = RemoveAt(pending, i)
  /\ \E answer \in {"allowed", "denied"} : calls' = [calls EXCEPT ![pending[i].call] = answer]
  /\ UNCHANGED <<terminal, running, settled>>
  /\ IF terminal THEN UNCHANGED stream ELSE Extends(<<Event("interaction.resolved", pending[i].id)>>)

DataStep ==
  \/ Kept \/ Starts \/ DeniesRest
  \/ \E type \in {"session.initialized", "assistant"} : Reports(type)
  \/ \E t \in Tools : StartsTool(t) \/ SettlesTool(t)
  \/ EndsSettled(<<>>) \/ EndsSettled(<<Event("usage.updated", NoId)>>) \/ EndsBare
  \/ \E cause \in {"run", "idle", "authentication", "cancel"} : EndsResolved(cause)
  \/ \E c \in Calls : AsksClient(c) \/ DeniesCall(c)
  \/ \E i \in 1..Len(pending) : AnswersEntry(i)

\* No generator is done while an entry is pending that was pending before.
Leaves == generator' = "done" => generator = "done" \/ pending' = <<>>

\* One event is pushed.
LEMMA PushOne ==
  ASSUME TypeOK, BeginInv, producer # "off",
         NEW type \in EventTypes, NEW id \in Tools \cup RequestIds \cup Causes \cup {NoId},
         stream' = Pushed(<<Event(type, id)>>)
  PROVE  IF terminal THEN UNCHANGED stream ELSE Extends(<<Event(type, id)>>)
<1>1. <<Event(type, id)>> \in Seq(Events)
  BY EventIsOne
<1>2. CASE terminal
  BY <1>2, PushAfterEnd
<1>3. CASE ~terminal
  BY <1>1, <1>3, PushExtends
<1>. QED  BY <1>2, <1>3

\* A cancel of an active run that has not ended resolves and ends it.
LEMMA CancelCases ==
  ASSUME TypeOK, BeginInv, CancelRuntime
  PROVE  \/ UNCHANGED <<stream, terminal, cancelled, running, settled, pending, calls, stop>>
         \/ EndsResolved("cancel") /\ cancelled' = TRUE /\ stop' = Stopping /\ Active
<1>1. CASE Active /\ ~terminal
  <2>1. ResolveAndEnd("run.cancelled", "cancel") /\ cancelled' = TRUE
    BY <1>1 DEF CancelRuntime
  <2>2. "run.cancelled" \in Terminals /\ "cancel" \in Causes
    BY DEF Terminals, Causes
  <2>3. EndsAs(Resolving, "run.cancelled", "cancel")
    BY <1>1, <2>1, <2>2, ResolveAndEndIs DEF Active
  <2>. QED  BY <1>1, <2>1, <2>2, <2>3 DEF EndsResolved, ResolveAndEnd
<1>2. CASE ~(Active /\ ~terminal)
  BY <1>2 DEF CancelRuntime, outcome, tools
<1>. QED  BY <1>1, <1>2

\* The request id of a call is one of the request ids.
LEMMA RequestIdIs ==
  ASSUME TypeOK, PendingInv, NEW c \in Calls, calls[c] = "unasked"
  PROVE  /\ RequestId(c) \in RequestIds
         /\ c \in NamedCalls => RequestId(c) = c
         /\ c \notin NamedCalls => RequestId(c) \in Range(NumberedIds)
<1>1. CASE c \in NamedCalls
  BY <1>1 DEF RequestId, RequestIds
<1>2. CASE c \notin NamedCalls
  <2>. DEFINE n == Len(pending)
              f == [i \in 1..n |-> pending[i].call]
  <2>1. n \in Nat /\ IsFiniteSet(1..n) /\ Cardinality(1..n) = n
    BY FS_Interval DEF TypeOK
  <2>2. f \in Injection(1..n, Calls \ {c})
    <3>1. \A i \in 1..n : pending[i].call \in Calls \ {c}
      BY PendingEntries DEF PendingInv
    <3>2. \A i, j \in 1..n : f[i] = f[j] => i = j
      BY DEF PendingInv
    <3>. QED  BY <3>1, <3>2 DEF Injection, IsInjective
  <2>3. IsFiniteSet(Calls) /\ IsFiniteSet(Calls \ {c}) /\ Cardinality(Calls \ {c}) = Cardinality(Calls) - 1
    BY CallsAssumption, FS_RemoveElement
  <2>4. n <= Cardinality(Calls \ {c})
    BY <2>1, <2>2, <2>3, FS_Injection
  <2>5. n + 1 \in 1..Cardinality(Calls)
    BY <2>1, <2>3, <2>4, FS_CardinalityType
  <2>6. NumberedIds[n + 1] \in Range(NumberedIds)
    BY <2>5, NumberedIdsAssumption DEF Range
  <2>. QED  BY <1>2, <2>6 DEF RequestId, RequestIds
<1>. QED  BY <1>1, <1>2

\* Every step of the run is one of these.
LEMMA NextIsDataStep ==
  ASSUME TypeOK, BeginInv, OverInv, PendingInv, Next
  PROVE  DataStep /\ Leaves
<1>0. generator \in GeneratorSteps
  BY DEF TypeOK
<1>1. CASE Begin
  <2>1. Starts \/ Kept
    BY <1>1 DEF Begin, Starts, Kept, tools
  <2>2. pending' = <<>>
    BY <1>1 DEF Begin, BeginInv
  <2>. QED  BY <2>1, <2>2 DEF DataStep, Leaves
<1>2. CASE Deliver \/ QueueEnds \/ VendorStopped \/ LegacyAuthenticationFailure \/ ProducerStops
  <2>1. Kept
    BY <1>2 DEF Deliver, QueueEnds, VendorStopped, LegacyAuthenticationFailure, ProducerStops,
                Kept, outcome, tools
  <2>2. generator' = "done" => generator = "done"
    BY <1>2 DEF Deliver, QueueEnds, VendorStopped, LegacyAuthenticationFailure, ProducerStops, Take, position
  <2>. QED  BY <2>1, <2>2 DEF DataStep, Leaves
<1>3. CASE Close
  <2>1. CancelRuntime \/ Kept
    BY <1>3 DEF Close, Kept, outcome, tools
  <2>2. EndsResolved("cancel") \/ Kept
    BY <2>1, CancelCases DEF Kept
  <2>3. generator' = "closing"
    BY <1>3 DEF Close
  <2>. QED  BY <2>2, <2>3 DEF DataStep, Leaves
<1>4. CASE Finish
  <2>1. DeniesRest
    BY <1>4 DEF Finish, DeniesRest, outcome, tools, OverInv, BeginInv
  <2>. QED  BY <2>1 DEF DataStep, Leaves, DeniesRest
<1>5. CASE Initialize \/ Report
  <2>1. ~terminal /\ producer # "off" /\ UNCHANGED <<terminal, running, settled, pending, calls, generator>>
    BY <1>5 DEF Initialize, Report, Consuming, outcome, tools, position
  <2>2. PICK type \in {"session.initialized", "assistant"} : stream' = Pushed(<<Event(type, NoId)>>)
    BY <1>5 DEF Initialize, Report
  <2>3. Extends(<<Event(type, NoId)>>)
    BY <2>1, <2>2, PushOne DEF EventTypes
  <2>. QED  BY <2>1, <2>3 DEF DataStep, Leaves, Reports
<1>6. ASSUME NEW t \in Tools, StartTool(t) PROVE DataStep /\ Leaves
  <2>1. ~terminal /\ producer # "off" /\ UNCHANGED <<terminal, settled, pending, calls, generator>>
    BY <1>6 DEF StartTool, Consuming, outcome, position
  <2>2. Extends(<<Event("tool.started", t)>>)
    BY <1>6, <2>1, PushOne DEF EventTypes, StartTool
  <2>3. StartsTool(t)
    BY <1>6, <2>1, <2>2 DEF StartsTool, StartTool
  <2>. QED  BY <2>1, <2>3 DEF DataStep, Leaves
<1>7. ASSUME NEW t \in Tools, SettleTool(t) PROVE DataStep /\ Leaves
  <2>1. ~terminal /\ producer # "off" /\ UNCHANGED <<terminal, pending, calls, generator>>
    BY <1>7 DEF SettleTool, Consuming, outcome, position
  <2>. DEFINE a == Event("tool.started", t)
              b == Event("tool.settled", t)
  <2>2. a \in Events /\ b \in Events
    BY EventIsOne DEF EventTypes
  <2>3. IF t \in ToSet(running) THEN Extends(<<b>>) ELSE Extends(<<a, b>>)
    <3>1. stream' = Pushed((IF t \in ToSet(running) THEN <<>> ELSE <<a>>) \o <<b>>)
      BY <1>7 DEF SettleTool
    <3>. HIDE DEF a, b
    <3>2. <<>> \o <<b>> = <<b>> /\ <<a>> \o <<b>> = <<a, b>> /\ <<b>> \in Seq(Events) /\ <<a, b>> \in Seq(Events)
      <4>1. <<a>> \in Seq(Events) /\ <<b>> \in Seq(Events) /\ <<a, b>> \in Seq(Events)
        BY <2>2
      <4>2. <<>> \o <<b>> = <<b>>
        BY <4>1
      <4>3. <<a>> \o <<b>> = <<a, b>>
        <5>. DEFINE p == <<a>> \o <<b>>
                    q == <<a, b>>
        <5>1. p \in Seq(Events) /\ Len(p) = 2 /\ p[1] = a /\ p[2] = b
          BY <4>1
        <5>2. q \in Seq(Events) /\ Len(q) = 2 /\ q[1] = a /\ q[2] = b
          BY <4>1
        <5>. HIDE DEF p, q
        <5>3. \A i \in 1..2 : p[i] = q[i]
          BY <5>1, <5>2
        <5>. QED  BY <5>1, <5>2, <5>3, SeqEqual DEF p, q
      <4>. QED  BY <4>1, <4>2, <4>3
    <3>3. stream' = Pushed(IF t \in ToSet(running) THEN <<b>> ELSE <<a, b>>)
      BY <3>1, <3>2
    <3>. QED  BY <2>1, <3>2, <3>3, PushExtends
  <2>4. SettlesTool(t)
    BY <1>7, <2>1, <2>3 DEF SettlesTool, SettleTool
  <2>. QED  BY <2>1, <2>4 DEF DataStep, Leaves
<1>8. CASE VendorFails
  <2>1. /\ ~terminal /\ producer # "off" /\ SettleAndEnd("run.failed", "vendor")
        /\ UNCHANGED <<pending, calls, generator>>
    BY <1>8 DEF VendorFails, Consuming, position
  <2>2. "run.failed" \in Terminals /\ "vendor" \in Causes
    BY DEF Terminals, Causes
  <2>3. EndsSettled(<<>>)
    BY <2>1, <2>2, SettleAndEndIs DEF EndsSettled, SettleAndEnd
  <2>. QED  BY <2>1, <2>3 DEF DataStep, Leaves
<1>9. CASE VendorResult
  <2>1. /\ ~terminal /\ producer # "off" /\ terminal' = TRUE /\ UNCHANGED <<pending, calls, generator>>
        /\ running' = <<>> /\ settled' = settled \cup ToSet(running)
    BY <1>9 DEF VendorResult, Consuming, position
  <2>2. "run.completed" \in Terminals /\ "result" \in Causes
    BY DEF Terminals, Causes
  <2>3. <<>> \in Seq(Events) /\ <<Event("usage.updated", NoId)>> \in Seq(Events)
    BY EventIsOne DEF EventTypes
  <2>4. ASSUME NEW usage \in Seq(Events), stream' = Pushed(Settling \o usage \o Ending("run.completed", "result"))
        PROVE  EndsSettled(usage)
    <3>1. EndsAs(usage, "run.completed", "result")
      BY <2>1, <2>2, <2>4, EndsWith DEF Ending
    <3>. QED  BY <2>1, <2>2, <3>1 DEF EndsSettled
  <2>5. EndsSettled(<<>>) \/ EndsSettled(<<Event("usage.updated", NoId)>>)
    BY <1>9, <2>3, <2>4 DEF VendorResult
  <2>. QED  BY <2>1, <2>5 DEF DataStep, Leaves
<1>10. CASE VendorEnds
  <2>1. /\ ~terminal /\ producer # "off" /\ terminal' = TRUE
        /\ UNCHANGED <<running, settled, pending, calls, generator>>
    BY <1>10 DEF VendorEnds, Consuming, position, tools
  <2>2. "run.failed" \in EventTypes /\ EndError \in Causes
    BY DEF EventTypes, Terminals, Causes, EndError
  <2>3. Extends(<<Event("run.failed", EndError)>>)
    BY <1>10, <2>1, <2>2, PushOne DEF VendorEnds, Ending
  <2>. QED  BY <2>1, <2>3 DEF DataStep, Leaves, EndsBare
<1>11. ASSUME NEW kind \in {"run", "idle", "authentication"}, Timeout(kind) PROVE DataStep /\ Leaves
  <2>1. ~terminal /\ producer # "off" /\ ResolveAndEnd("run.failed", kind) /\ UNCHANGED generator
    BY <1>11 DEF Timeout, Consuming, position
  <2>2. "run.failed" \in Terminals /\ kind \in Causes
    BY DEF Terminals, Causes
  <2>3. EndsResolved(kind)
    BY <2>1, <2>2, ResolveAndEndIs DEF EndsResolved, ResolveAndEnd
  <2>. QED  BY <2>1, <2>3 DEF DataStep, Leaves
<1>12. ASSUME NEW c \in Calls, CanUseTool(c) PROVE DataStep /\ Leaves
  <2>1. UNCHANGED <<terminal, running, settled, generator>> /\ calls[c] = "unasked" /\ producer # "off"
    BY <1>12 DEF CanUseTool, outcome, tools, position
  <2>2. RequestId(c) \in RequestIds
    BY <2>1, RequestIdIs
  <2>3. IF terminal THEN UNCHANGED stream ELSE Extends(<<Event("interaction.requested", RequestId(c))>>)
    BY <1>12, <2>2, PushOne DEF CanUseTool, EventTypes
  <2>4. AsksClient(c)
    BY <1>12, <2>1, <2>3 DEF CanUseTool, AsksClient
  <2>. QED  BY <2>1, <2>4 DEF DataStep, Leaves
<1>13. ASSUME NEW c \in Calls, DenyAtOnce(c) PROVE DataStep /\ Leaves
  <2>1. DeniesCall(c) /\ UNCHANGED generator
    BY <1>13 DEF DenyAtOnce, DeniesCall, outcome, tools, position
  <2>. QED  BY <2>1 DEF DataStep, Leaves
<1>14. ASSUME NEW i \in 1..Len(pending), NEW action \in {"allow", "submit", "deny"}, Respond(i, action)
       PROVE  DataStep /\ Leaves
  <2>1. UNCHANGED <<terminal, running, settled, generator>> /\ producer # "off"
    BY <1>14 DEF Respond, outcome, tools, Active
  <2>2. IF terminal THEN UNCHANGED stream ELSE Extends(<<Event("interaction.resolved", pending[i].id)>>)
    <3>1. pending[i].id \in RequestIds /\ "interaction.resolved" \in EventTypes
      BY PendingEntries DEF EventTypes
    <3>. QED  BY <1>14, <2>1, <3>1, PushOne DEF Respond
  <2>3. AnswersEntry(i)
    BY <1>14, <2>1, <2>2 DEF Respond, AnswersEntry
  <2>. QED  BY <2>1, <2>3 DEF DataStep, Leaves
<1>15. CASE Cancel \/ Dispose
  <2>1. CancelRuntime /\ UNCHANGED generator
    BY <1>15 DEF Cancel, Dispose
  <2>2. EndsResolved("cancel") \/ Kept
    BY <2>1, CancelCases DEF Kept
  <2>. QED  BY <2>1, <2>2 DEF DataStep, Leaves
<1>. QED
  BY <1>1, <1>2, <1>3, <1>4, <1>5, <1>6, <1>7, <1>8, <1>9, <1>10, <1>11, <1>12, <1>13, <1>14, <1>15
     DEF Next, Generate, Produce, Supervise, Ask

-----------------------------------------------------------------------------
(* The order of the events.                                                *)

\* The events of new go on with a run without starting or ending it.
GoOn(new) ==
  \A i \in 1..Len(new) :
    /\ new[i].type \notin Terminals /\ new[i].type # "run.started"
    /\ new[i].type \in {"tool.started", "tool.settled"} => new[i].id \in Tools
    /\ new[i].type \in InteractionTypes => new[i].id \in RequestIds

\* What the positions of a stream that goes on are.
LEMMA ExtendedAt ==
  ASSUME TypeOK, NEW new, Extends(new), NEW i \in 1..Len(stream')
  PROVE  \/ i \in 1..Len(stream) /\ stream'[i] = stream[i]
         \/ i > Len(stream) /\ i - Len(stream) \in 1..Len(new) /\ stream'[i] = new[i - Len(stream)]
<1>1. Len(stream) \in Nat /\ Len(new) \in Nat /\ Len(stream') = Len(stream) + Len(new)
  BY DEF TypeOK, Extends
<1>2. CASE i <= Len(stream)
  BY <1>1, <1>2 DEF Extends
<1>3. CASE i > Len(stream)
  <2>1. i - Len(stream) \in 1..Len(new) /\ i = Len(stream) + (i - Len(stream))
    BY <1>1, <1>3
  <2>. QED  BY <1>3, <2>1 DEF Extends
<1>. QED  BY <1>1, <1>2, <1>3

\* A run that goes on keeps its order.
LEMMA GoesOn ==
  ASSUME TypeOK, StreamInv, OneTerminalAtTheEnd, NEW new, Extends(new), GoOn(new), ~terminal, ~terminal'
  PROVE  StreamInv' /\ OneTerminalAtTheEnd'
<1>. SUFFICES ASSUME NEW i \in 1..Len(stream')
     PROVE  /\ stream'[i].type \in {"tool.started", "tool.settled"} => stream'[i].id \in Tools
            /\ stream'[i].type \in InteractionTypes => stream'[i].id \in RequestIds
            /\ stream'[i].type = "run.started" <=> i = 1
            /\ stream'[i].type \notin Terminals
  BY DEF StreamInv, OneTerminalAtTheEnd
<1>1. Len(stream) \in Nat /\ Len(stream) >= 1
  BY DEF TypeOK, Extends
<1>2. CASE i \in 1..Len(stream) /\ stream'[i] = stream[i]
  BY <1>1, <1>2 DEF StreamInv, OneTerminalAtTheEnd
<1>3. CASE i > Len(stream) /\ i - Len(stream) \in 1..Len(new) /\ stream'[i] = new[i - Len(stream)]
  BY <1>1, <1>3 DEF GoOn
<1>. QED  BY <1>2, <1>3, ExtendedAt

\* A run ends with its last event.
LEMMA ComesToAnEnd ==
  ASSUME TypeOK, StreamInv, OneTerminalAtTheEnd, NEW new, Extends(new), ~terminal, terminal', Len(new) >= 1,
         \A i \in 1..Len(new) - 1 :
           /\ new[i].type \in {"tool.settled", "interaction.resolved", "usage.updated"}
           /\ new[i].type = "tool.settled" => new[i].id \in Tools
           /\ new[i].type = "interaction.resolved" => new[i].id \in RequestIds,
         new[Len(new)].type \in Terminals
  PROVE  StreamInv' /\ OneTerminalAtTheEnd'
<1>. SUFFICES ASSUME NEW i \in 1..Len(stream')
     PROVE  /\ stream'[i].type \in {"tool.started", "tool.settled"} => stream'[i].id \in Tools
            /\ stream'[i].type \in InteractionTypes => stream'[i].id \in RequestIds
            /\ stream'[i].type = "run.started" <=> i = 1
            /\ stream'[i].type \in Terminals <=> i = Len(stream')
  BY DEF StreamInv, OneTerminalAtTheEnd
<1>1. Len(stream) \in Nat /\ Len(stream) >= 1 /\ Len(new) \in Nat /\ Len(stream') = Len(stream) + Len(new)
  BY DEF TypeOK, Extends
<1>2. CASE i \in 1..Len(stream) /\ stream'[i] = stream[i]
  BY <1>1, <1>2 DEF StreamInv, OneTerminalAtTheEnd
<1>3. CASE i > Len(stream) /\ i - Len(stream) \in 1..Len(new) /\ stream'[i] = new[i - Len(stream)]
  <2>1. i # 1 /\ i - Len(stream) \in Nat
    BY <1>1, <1>3
  <2>2. CASE i - Len(stream) = Len(new)
    <3>1. i = Len(stream') /\ stream'[i].type \in Terminals
      BY <1>1, <1>3, <2>2
    <3>. QED  BY <2>1, <3>1 DEF Terminals, InteractionTypes
  <2>3. CASE i - Len(stream) # Len(new)
    <3>1. i - Len(stream) \in 1..Len(new) - 1 /\ i # Len(stream')
      BY <1>1, <1>3, <2>3
    <3>. QED  BY <1>3, <2>1, <3>1 DEF Terminals, InteractionTypes
  <2>. QED  BY <2>2, <2>3
<1>. QED  BY <1>2, <1>3, ExtendedAt

\* So does a run whose tools are settled before.
LEMMA EndsInOrder ==
  ASSUME TypeOK, StreamInv, OneTerminalAtTheEnd, NEW between \in Seq(Events), NEW type \in Terminals,
         NEW cause \in Causes, EndsAs(between, type, cause), ~terminal, terminal',
         \A i \in 1..Len(between) :
           \/ between[i].type = "usage.updated"
           \/ between[i].type = "interaction.resolved" /\ between[i].id \in RequestIds
  PROVE  StreamInv' /\ OneTerminalAtTheEnd'
<1>. DEFINE new == Settling \o between \o <<Event(type, cause)>>
            m == Len(running)
            k == Len(between)
<1>1. m \in Nat /\ k \in Nat /\ \A i \in 1..m : running[i] \in Tools
  BY DEF TypeOK
<1>2. /\ Extends(new) /\ Len(new) = m + k + 1
      /\ \A i \in 1..m : new[i] = Event("tool.settled", running[i])
      /\ \A i \in 1..k : new[m + i] = between[i]
      /\ new[m + k + 1] = Event(type, cause)
  BY DEF EndsAs
<1>. HIDE DEF new
<1>3. ASSUME NEW i \in 1..Len(new) - 1
      PROVE  /\ new[i].type \in {"tool.settled", "interaction.resolved", "usage.updated"}
             /\ new[i].type = "tool.settled" => new[i].id \in Tools
             /\ new[i].type = "interaction.resolved" => new[i].id \in RequestIds
  <2>1. CASE i \in 1..m
    <3>1. new[i] = Event("tool.settled", running[i]) /\ running[i] \in Tools
      BY <1>1, <1>2, <2>1
    <3>. QED  BY <3>1 DEF Event
  <2>2. CASE i \notin 1..m
    <3>1. i - m \in 1..k /\ i = m + (i - m)
      BY <1>1, <1>2, <2>2
    <3>2. new[i] = between[i - m]
      BY <1>2, <3>1
    <3>. QED  BY <3>1, <3>2
  <2>. QED  BY <2>1, <2>2
<1>4. new[Len(new)].type \in Terminals /\ Len(new) >= 1
  BY <1>1, <1>2 DEF Event
<1>. QED  BY <1>2, <1>3, <1>4, ComesToAnEnd

\* The order of the events holds after every step.
LEMMA OrderStep ==
  ASSUME TypeOK, BeginInv, StreamInv, OneTerminalAtTheEnd, PendingInv, DataStep
  PROVE  StreamInv' /\ OneTerminalAtTheEnd'
<1>1. CASE Kept
  BY <1>1 DEF Kept, StreamInv, OneTerminalAtTheEnd
<1>2. CASE Starts
  <2>1. stream = <<>> /\ ~terminal
    BY <1>2 DEF Starts, BeginInv
  <2>2. CASE stream' = <<Event("run.started", NoId)>> /\ UNCHANGED terminal
    <3>1. Len(stream') = 1 /\ stream'[1].type = "run.started" /\ ~terminal'
      BY <2>1, <2>2 DEF Event
    <3>. QED  BY <3>1 DEF StreamInv, OneTerminalAtTheEnd, Terminals, InteractionTypes
  <2>3. CASE stream' = <<Event("run.started", NoId), Event("run.failed", "query")>> /\ terminal' = TRUE
    <3>1. /\ Len(stream') = 2 /\ stream'[1].type = "run.started" /\ stream'[2].type = "run.failed"
          /\ terminal'
      BY <2>3 DEF Event
    <3>. QED  BY <3>1 DEF StreamInv, OneTerminalAtTheEnd, Terminals, InteractionTypes
  <2>. QED  BY <1>2, <2>2, <2>3 DEF Starts
<1>3. CASE DeniesRest
  BY <1>3 DEF DeniesRest, StreamInv, OneTerminalAtTheEnd
<1>4. ASSUME NEW type \in {"session.initialized", "assistant"}, Reports(type)
      PROVE  StreamInv' /\ OneTerminalAtTheEnd'
  <2>1. GoOn(<<Event(type, NoId)>>)
    BY DEF GoOn, Event, Terminals, InteractionTypes
  <2>. QED  BY <1>4, <2>1, GoesOn DEF Reports
<1>5. ASSUME NEW t \in Tools, StartsTool(t)
      PROVE  StreamInv' /\ OneTerminalAtTheEnd'
  <2>1. GoOn(<<Event("tool.started", t)>>)
    BY DEF GoOn, Event, Terminals, InteractionTypes
  <2>. QED  BY <1>5, <2>1, GoesOn DEF StartsTool
<1>6. ASSUME NEW t \in Tools, SettlesTool(t)
      PROVE  StreamInv' /\ OneTerminalAtTheEnd'
  <2>1. GoOn(<<Event("tool.settled", t)>>)
    BY DEF GoOn, Event, Terminals, InteractionTypes
  <2>2. GoOn(<<Event("tool.started", t), Event("tool.settled", t)>>)
    BY DEF GoOn, Event, Terminals, InteractionTypes
  <2>. QED  BY <1>6, <2>1, <2>2, GoesOn DEF SettlesTool
<1>7. CASE EndsSettled(<<>>)
  <2>. DEFINE none == <<>>
  <2>1. none \in Seq(Events) /\ Len(none) = 0
    OBVIOUS
  <2>2. PICK type \in Terminals, cause \in {"vendor", "result"} : EndsAs(none, type, cause)
    BY <1>7 DEF EndsSettled
  <2>3. ~terminal /\ terminal' /\ cause \in Causes
    BY <1>7, <2>2 DEF EndsSettled, Causes
  <2>. HIDE DEF none
  <2>4. \A i \in 1..Len(none) :
          \/ none[i].type = "usage.updated"
          \/ none[i].type = "interaction.resolved" /\ none[i].id \in RequestIds
    BY <2>1
  <2>. QED  BY <2>1, <2>2, <2>3, <2>4, EndsInOrder
<1>8. CASE EndsSettled(<<Event("usage.updated", NoId)>>)
  <2>. DEFINE usage == <<Event("usage.updated", NoId)>>
  <2>1. usage \in Seq(Events) /\ Len(usage) = 1 /\ usage[1].type = "usage.updated"
    BY EventIsOne DEF EventTypes
  <2>2. {"vendor", "result"} \subseteq Causes
    BY DEF Causes
  <2>3. PICK type \in Terminals, cause \in {"vendor", "result"} : EndsAs(usage, type, cause)
    BY <1>8 DEF EndsSettled
  <2>4. ~terminal /\ terminal'
    BY <1>8 DEF EndsSettled
  <2>. HIDE DEF usage
  <2>5. \A i \in 1..Len(usage) :
          \/ usage[i].type = "usage.updated"
          \/ usage[i].type = "interaction.resolved" /\ usage[i].id \in RequestIds
    BY <2>1
  <2>6. cause \in Causes
    BY <2>2, <2>3
  <2>. QED  BY <2>1, <2>3, <2>4, <2>5, <2>6, EndsInOrder
<1>9. CASE EndsBare
  <2>. DEFINE new == <<Event("run.failed", EndError)>>
  <2>1. Extends(new) /\ ~terminal /\ terminal'
    BY <1>9 DEF EndsBare
  <2>2. Len(new) = 1 /\ new[1].type \in Terminals
    BY DEF Event, Terminals
  <2>. HIDE DEF new
  <2>. QED  BY <2>1, <2>2, ComesToAnEnd
<1>10. ASSUME NEW cause \in {"run", "idle", "authentication", "cancel"}, EndsResolved(cause)
       PROVE  StreamInv' /\ OneTerminalAtTheEnd'
  <2>1. PICK type \in Terminals : EndsAs(Resolving, type, cause)
    BY <1>10 DEF EndsResolved
  <2>2. Resolving \in Seq(Events) /\ Len(Resolving) = Len(pending)
    BY ResolvingIs
  <2>3. \A i \in 1..Len(Resolving) : Resolving[i].type = "interaction.resolved" /\ Resolving[i].id \in RequestIds
    <3>. SUFFICES ASSUME NEW i \in 1..Len(pending)
         PROVE  Resolving[i].type = "interaction.resolved" /\ Resolving[i].id \in RequestIds
      BY <2>2
    <3>1. Resolving[i] = Event("interaction.resolved", pending[i].id) /\ pending[i].id \in RequestIds
      BY ResolvingIs, PendingEntries
    <3>. QED  BY <3>1 DEF Event
  <2>4. cause \in Causes
    BY DEF Causes
  <2>5. ~terminal /\ terminal'
    BY <1>10 DEF EndsResolved
  <2>. QED  BY <2>1, <2>2, <2>3, <2>4, <2>5, EndsInOrder
<1>11. ASSUME NEW c \in Calls, AsksClient(c)
       PROVE  StreamInv' /\ OneTerminalAtTheEnd'
  <2>1. RequestId(c) \in RequestIds
    BY <1>11, RequestIdIs DEF AsksClient
  <2>2. GoOn(<<Event("interaction.requested", RequestId(c))>>)
    BY <2>1 DEF GoOn, Event, Terminals, InteractionTypes
  <2>3. CASE terminal
    BY <1>11, <2>3 DEF AsksClient, StreamInv, OneTerminalAtTheEnd
  <2>4. CASE ~terminal
    BY <1>11, <2>2, <2>4, GoesOn DEF AsksClient
  <2>. QED  BY <2>3, <2>4
<1>12. ASSUME NEW c \in Calls, DeniesCall(c)
       PROVE  StreamInv' /\ OneTerminalAtTheEnd'
  BY <1>12 DEF DeniesCall, StreamInv, OneTerminalAtTheEnd
<1>13. ASSUME NEW i \in 1..Len(pending), AnswersEntry(i)
       PROVE  StreamInv' /\ OneTerminalAtTheEnd'
  <2>1. GoOn(<<Event("interaction.resolved", pending[i].id)>>)
    BY PendingEntries DEF GoOn, Event, Terminals, InteractionTypes
  <2>2. CASE terminal
    BY <1>13, <2>2 DEF AnswersEntry, StreamInv, OneTerminalAtTheEnd
  <2>3. CASE ~terminal
    BY <1>13, <2>1, <2>3, GoesOn DEF AnswersEntry
  <2>. QED  BY <2>2, <2>3
<1>. QED
  BY <1>1, <1>2, <1>3, <1>4, <1>5, <1>6, <1>7, <1>8, <1>9, <1>10, <1>11, <1>12, <1>13 DEF DataStep

-----------------------------------------------------------------------------
(* The events of the tools.                                                *)

\* The elements of a sequence.
LEMMA ToSetIs ==
  ASSUME NEW S, NEW s \in Seq(S)
  PROVE  /\ Len(s) \in Nat /\ ToSet(s) \subseteq S
         /\ \A x : x \in ToSet(s) <=> \E i \in 1..Len(s) : s[i] = x
BY DEF ToSet

\* What is left of a sequence when the element at a position is removed.
LEMMA RemoveAtAt ==
  ASSUME NEW S, NEW s \in Seq(S), NEW n \in 1..Len(s)
  PROVE  /\ RemoveAt(s, n) \in Seq(S) /\ Len(RemoveAt(s, n)) = Len(s) - 1
         /\ \A i \in 1..Len(s) - 1 : RemoveAt(s, n)[i] = IF i < n THEN s[i] ELSE s[i + 1]
<1>. DEFINE a == SubSeq(s, 1, n - 1)
            b == SubSeq(s, n + 1, Len(s))
<1>1. Len(s) \in Nat /\ n \in Nat /\ n >= 1 /\ n <= Len(s)
  OBVIOUS
<1>2. a \in Seq(S) /\ Len(a) = n - 1 /\ \A i \in 1..n - 1 : a[i] = s[i]
  BY <1>1
<1>3. b \in Seq(S) /\ Len(b) = Len(s) - n /\ \A i \in 1..Len(s) - n : b[i] = s[n + i]
  BY <1>1
<1>. HIDE DEF a, b
<1>4. /\ a \o b \in Seq(S) /\ Len(a \o b) = Len(s) - 1
      /\ \A i \in 1..Len(s) - 1 : (a \o b)[i] = IF i <= n - 1 THEN a[i] ELSE b[i - (n - 1)]
  BY <1>1, <1>2, <1>3, ConcatProperties
<1>5. ASSUME NEW i \in 1..Len(s) - 1
      PROVE  (a \o b)[i] = IF i < n THEN s[i] ELSE s[i + 1]
  <2>1. CASE i < n
    BY <1>1, <1>2, <1>4, <2>1
  <2>2. CASE i >= n
    <3>1. i - (n - 1) \in 1..Len(s) - n /\ n + (i - (n - 1)) = i + 1 /\ ~(i <= n - 1)
      BY <1>1, <2>2
    <3>2. b[i - (n - 1)] = s[n + (i - (n - 1))]
      BY <1>3, <3>1
    <3>3. (a \o b)[i] = b[i - (n - 1)]
      <4>1. (a \o b)[i] = IF i <= n - 1 THEN a[i] ELSE b[i - (n - 1)]
        BY <1>4, Zenon
      <4>. QED  BY <3>1, <4>1, Zenon
    <3>4. b[i - (n - 1)] = s[i + 1]
      BY <3>1, <3>2
    <3>5. ~(i < n)
      BY <1>1, <2>2
    <3>. QED  BY <3>3, <3>4, <3>5
  <2>3. i < n \/ i >= n
    BY <1>1
  <2>. QED  BY <2>1, <2>2, <2>3, Zenon
<1>. QED  BY <1>4, <1>5 DEF RemoveAt, a, b

\* A sequence without repetition loses the element and stays without repetition.
LEMMA RemoveAtIs ==
  ASSUME NEW S, NEW s \in Seq(S), NEW n \in 1..Len(s), Distinct(s)
  PROVE  /\ RemoveAt(s, n) \in Seq(S) /\ Distinct(RemoveAt(s, n))
         /\ ToSet(RemoveAt(s, n)) = ToSet(s) \ {s[n]}
<1>. DEFINE r == RemoveAt(s, n)
<1>1. /\ r \in Seq(S) /\ Len(r) = Len(s) - 1
      /\ \A i \in 1..Len(s) - 1 : r[i] = IF i < n THEN s[i] ELSE s[i + 1]
  BY RemoveAtAt
<1>. HIDE DEF r
<1>2. Len(s) \in Nat /\ n \in Nat /\ n >= 1 /\ n <= Len(s)
  OBVIOUS
<1>3. Distinct(r)
  BY <1>1, <1>2 DEF Distinct
<1>4. ASSUME NEW x
      PROVE  x \in ToSet(r) <=> x \in ToSet(s) \ {s[n]}
  <2>1. ASSUME NEW i \in 1..Len(r), r[i] = x
        PROVE  x \in ToSet(s) /\ x # s[n]
    BY <1>1, <1>2, <2>1, ToSetIs DEF Distinct
  <2>2. ASSUME NEW i \in 1..Len(s), s[i] = x, x # s[n]
        PROVE  \E j \in 1..Len(r) : r[j] = x
    <3>1. CASE i < n
      BY <1>1, <1>2, <2>2, <3>1
    <3>2. CASE i > n
      <4>1. i - 1 \in 1..Len(r) /\ r[i - 1] = s[i]
        BY <1>1, <1>2, <2>2, <3>2
      <4>. QED  BY <2>2, <4>1
    <3>. QED  BY <1>2, <2>2, <3>1, <3>2
  <2>3. x \in ToSet(r) <=> \E i \in 1..Len(r) : r[i] = x
    BY <1>1, ToSetIs
  <2>4. x \in ToSet(s) <=> \E i \in 1..Len(s) : s[i] = x
    BY ToSetIs
  <2>. QED  BY <2>1, <2>2, <2>3, <2>4
<1>. QED  BY <1>1, <1>3, <1>4 DEF r

\* Removing the only occurrence of an element.
LEMMA RemoveFirstIs ==
  ASSUME NEW S, NEW s \in Seq(S), NEW x, Distinct(s)
  PROVE  /\ RemoveFirst(s, x) \in Seq(S) /\ Distinct(RemoveFirst(s, x))
         /\ ToSet(RemoveFirst(s, x)) = ToSet(s) \ {x}
<1>1. CASE \E i \in 1..Len(s) : s[i] = x
  <2>. DEFINE I == {i \in 1..Len(s) : s[i] = x}
              k == SelectInSeq(s, LAMBDA v : v = x)
              r == RemoveAt(s, k)
  <2>1. PICK n \in 1..Len(s) : s[n] = x
    BY <1>1
  <2>2. I = {n} /\ n \in Nat
    BY <2>1 DEF Distinct
  <2>3. Min(I) = n
    BY <2>2 DEF Min
  <2>4. k = n
    BY <2>2, <2>3 DEF SelectInSeq
  <2>5. RemoveFirst(s, x) = RemoveAt(s, n)
    BY <1>1, <2>4 DEF RemoveFirst
  <2>. QED  BY <2>1, <2>5, RemoveAtIs
<1>2. CASE ~\E i \in 1..Len(s) : s[i] = x
  BY <1>2, ToSetIs DEF RemoveFirst
<1>. QED  BY <1>1, <1>2

\* An event is in a stream that goes on when it was there or is new.
LEMMA HasExtended ==
  ASSUME TypeOK, NEW new, Extends(new), NEW e
  PROVE  /\ Has(stream', e) <=> Has(stream, e) \/ Has(new, e)
         /\ Once(stream, e) /\ Once(new, e) /\ ~(Has(stream, e) /\ Has(new, e)) => Once(stream', e)
<1>. DEFINE n == Len(stream)
<1>1. n \in Nat /\ Len(new) \in Nat /\ Len(stream') = n + Len(new)
  BY DEF TypeOK, Extends
<1>2. ASSUME NEW i \in 1..n, stream[i] = e
      PROVE  i \in 1..Len(stream') /\ stream'[i] = e
  BY <1>1, <1>2 DEF Extends
<1>3. ASSUME NEW i \in 1..Len(new), new[i] = e
      PROVE  n + i \in 1..Len(stream') /\ stream'[n + i] = e
  BY <1>1, <1>3 DEF Extends
<1>4. ASSUME NEW i \in 1..Len(stream'), stream'[i] = e
      PROVE  (i \in 1..n /\ stream[i] = e) \/ (i - n \in 1..Len(new) /\ new[i - n] = e)
  BY <1>4, ExtendedAt
<1>5. Has(stream', e) <=> Has(stream, e) \/ Has(new, e)
  <2>1. ASSUME Has(stream, e) PROVE Has(stream', e)
    BY <1>2, <2>1 DEF Has
  <2>2. ASSUME Has(new, e) PROVE Has(stream', e)
    BY <1>3, <2>2 DEF Has
  <2>3. ASSUME Has(stream', e) PROVE Has(stream, e) \/ Has(new, e)
    <3>1. PICK i \in 1..Len(stream') : stream'[i] = e
      BY <2>3 DEF Has
    <3>. QED  BY <1>4, <3>1 DEF Has
  <2>. QED  BY <2>1, <2>2, <2>3
<1>6. ASSUME Once(stream, e), Once(new, e), ~(Has(stream, e) /\ Has(new, e)),
             NEW i \in 1..Len(stream'), NEW j \in 1..Len(stream'), stream'[i] = e, stream'[j] = e
      PROVE  i = j
  <2>1. CASE i \in 1..n /\ stream[i] = e /\ j \in 1..n /\ stream[j] = e
    BY <1>6, <2>1 DEF Once
  <2>2. CASE i - n \in 1..Len(new) /\ new[i - n] = e /\ j - n \in 1..Len(new) /\ new[j - n] = e
    <3>1. i - n = j - n
      BY <1>6, <2>2 DEF Once
    <3>. QED  BY <1>1, <3>1
  <2>3. ~(i \in 1..n /\ stream[i] = e /\ j - n \in 1..Len(new) /\ new[j - n] = e)
    BY <1>6 DEF Has
  <2>4. ~(j \in 1..n /\ stream[j] = e /\ i - n \in 1..Len(new) /\ new[i - n] = e)
    BY <1>6 DEF Has
  <2>. QED  BY <1>4, <1>6, <2>1, <2>2, <2>3, <2>4
<1>. QED  BY <1>5, <1>6 DEF Once

\* In s a tool is started before it is settled.
InOrder(s, t) ==
  \A i, j \in 1..Len(s) : s[i] = Event("tool.started", t) /\ s[j] = Event("tool.settled", t) => i < j

\* A tool is started and settled once at most when the new events do so and agree
\* with what runs and was settled.
LEMMA ToolGoesOn ==
  ASSUME TypeOK, NEW new, Extends(new), NEW t,
         ToolOK(stream, t, t \in ToSet(running), t \in settled),
         Once(new, Event("tool.started", t)), Once(new, Event("tool.settled", t)), InOrder(new, t),
         Has(new, Event("tool.started", t)) => t \notin ToSet(running) \cup settled,
         Has(new, Event("tool.settled", t)) => t \notin settled,
         t \in ToSet(running') \cup settled'
           <=> t \in ToSet(running) \cup settled \/ Has(new, Event("tool.started", t)),
         t \in settled' <=> t \in settled \/ Has(new, Event("tool.settled", t))
  PROVE  ToolOK(stream', t, t \in ToSet(running'), t \in settled')
<1>. DEFINE started == Event("tool.started", t)
            ended == Event("tool.settled", t)
<1>1. /\ Has(stream, started) <=> t \in ToSet(running) \cup settled
      /\ Has(stream, ended) <=> t \in settled
      /\ Once(stream, started) /\ Once(stream, ended)
      /\ \A i, j \in 1..Len(stream) : stream[i] = started /\ stream[j] = ended => i < j
  BY DEF ToolOK
<1>2. Once(new, started) /\ Once(new, ended)
  OBVIOUS
<1>3. \A i, j \in 1..Len(new) : new[i] = started /\ new[j] = ended => i < j
  BY DEF InOrder
<1>. HIDE DEF started, ended
<1>4. Has(stream', started) <=> Has(stream, started) \/ Has(new, started)
  BY HasExtended
<1>5. Has(stream', ended) <=> Has(stream, ended) \/ Has(new, ended)
  BY HasExtended
<1>6. Once(stream', started)
  BY <1>1, <1>2, HasExtended DEF started
<1>7. Once(stream', ended)
  BY <1>1, <1>2, HasExtended DEF ended
<1>8. ASSUME NEW i \in 1..Len(stream'), NEW j \in 1..Len(stream'), stream'[i] = started, stream'[j] = ended
      PROVE  i < j
  <2>. DEFINE n == Len(stream)
  <2>1. n \in Nat /\ Len(new) \in Nat /\ Len(stream') = n + Len(new)
    BY DEF TypeOK, Extends
  <2>2. \/ i \in 1..n /\ stream[i] = started
        \/ i > n /\ i - n \in 1..Len(new) /\ new[i - n] = started
    BY <1>8, ExtendedAt
  <2>3. \/ j \in 1..n /\ stream[j] = ended
        \/ j > n /\ j - n \in 1..Len(new) /\ new[j - n] = ended
    BY <1>8, ExtendedAt
  <2>4. CASE i \in 1..n /\ j \in 1..n
    BY <1>1, <2>1, <2>2, <2>3, <2>4
  <2>5. CASE i \in 1..n /\ j > n
    BY <2>1, <2>5
  <2>6. CASE i > n /\ j > n
    <3>1. i - n < j - n
      BY <1>3, <2>1, <2>2, <2>3, <2>6
    <3>. QED  BY <2>1, <3>1
  <2>7. ~(i > n /\ j \in 1..n)
    <3>. SUFFICES ASSUME i > n, j \in 1..n PROVE FALSE
      OBVIOUS
    <3>1. Has(new, started) /\ Has(stream, ended)
      BY <2>1, <2>2, <2>3 DEF Has
    <3>. QED  BY <1>1, <3>1 DEF started
  <2>. QED  BY <2>1, <2>2, <2>3, <2>4, <2>5, <2>6, <2>7
<1>. QED  BY <1>1, <1>4, <1>5, <1>6, <1>7, <1>8 DEF ToolOK, started, ended

\* Events that are not about a tool leave it alone.
LEMMA ToolUntouched ==
  ASSUME TypeOK, NEW new, Extends(new), NEW t,
         ToolOK(stream, t, t \in ToSet(running), t \in settled),
         \A i \in 1..Len(new) : new[i] # Event("tool.started", t) /\ new[i] # Event("tool.settled", t),
         t \in ToSet(running') <=> t \in ToSet(running), t \in settled' <=> t \in settled
  PROVE  ToolOK(stream', t, t \in ToSet(running'), t \in settled')
<1>1. ~Has(new, Event("tool.started", t)) /\ ~Has(new, Event("tool.settled", t))
  BY DEF Has
<1>2. Once(new, Event("tool.started", t)) /\ Once(new, Event("tool.settled", t)) /\ InOrder(new, t)
  BY DEF Once, InOrder
<1>. QED  BY <1>1, <1>2, ToolGoesOn

\* Events of different kinds or tools are different.
LEMMA ToolEvents ==
  ASSUME NEW t, NEW u, NEW type, NEW id
  PROVE  /\ Event("tool.started", t) = Event("tool.started", u) <=> t = u
         /\ Event("tool.settled", t) = Event("tool.settled", u) <=> t = u
         /\ Event("tool.started", t) # Event("tool.settled", u)
         /\ type \notin {"tool.started", "tool.settled"} =>
              Event(type, id) # Event("tool.started", t) /\ Event(type, id) # Event("tool.settled", t)
<1>1. /\ Event("tool.started", t).type = "tool.started" /\ Event("tool.started", t).id = t
      /\ Event("tool.settled", t).type = "tool.settled" /\ Event("tool.settled", t).id = t
      /\ Event("tool.started", u).id = u /\ Event("tool.settled", u).id = u
      /\ Event("tool.settled", u).type = "tool.settled" /\ Event(type, id).type = type
  BY DEF Event
<1>. QED  BY <1>1

\* A tool is settled before the end of a run when it runs.
LEMMA ToolEnds ==
  ASSUME TypeOK, ToolInv, NEW between \in Seq(Events), NEW type \in Terminals, NEW cause,
         EndsAs(between, type, cause), running' = <<>>, settled' = settled \cup ToSet(running),
         \A i \in 1..Len(between) : between[i].type \notin {"tool.started", "tool.settled"},
         NEW t \in Tools
  PROVE  ToolOK(stream', t, t \in ToSet(running'), t \in settled')
<1>. DEFINE new == Settling \o between \o <<Event(type, cause)>>
            m == Len(running)
            k == Len(between)
            ended == Event("tool.settled", t)
            started == Event("tool.started", t)
<1>1. m \in Nat /\ k \in Nat /\ Distinct(running)
  <2>1. running \in Seq(Tools)
    BY DEF TypeOK
  <2>2. Len(running) \in Nat /\ Len(between) \in Nat
    BY <2>1
  <2>. QED  BY <2>2 DEF ToolInv
<1>2. /\ Extends(new) /\ Len(new) = m + k + 1
      /\ \A i \in 1..m : new[i] = Event("tool.settled", running[i])
      /\ \A i \in 1..k : new[m + i] = between[i]
      /\ new[m + k + 1] = Event(type, cause)
      /\ \A i \in 1..Len(new) : i \in 1..m \/ i - m \in 1..k \/ i = m + k + 1
  BY DEF EndsAs
<1>3. Event(type, cause).type \notin {"tool.started", "tool.settled"}
  BY DEF Event, Terminals
<1>4. ended.type = "tool.settled" /\ started.type = "tool.started"
  BY DEF Event
<1>. HIDE DEF new
<1>5. ASSUME NEW i \in 1..Len(new)
      PROVE  /\ new[i] # started
             /\ new[i] = ended => i \in 1..m /\ running[i] = t
  <2>1. CASE i \in 1..m
    <3>1. new[i] = Event("tool.settled", running[i])
      BY <1>2, <2>1
    <3>. QED  BY <2>1, <3>1, ToolEvents
  <2>2. CASE i - m \in 1..k
    <3>1. i = m + (i - m)
      BY <1>1, <1>2
    <3>2. new[i] = between[i - m]
      BY <1>2, <2>2, <3>1
    <3>. QED  BY <1>4, <2>2, <3>2
  <2>3. CASE i = m + k + 1
    BY <1>2, <1>3, <1>4, <2>3
  <2>. QED  BY <1>2, <2>1, <2>2, <2>3
<1>6. ~Has(new, started) /\ Once(new, started) /\ InOrder(new, t)
  BY <1>5 DEF Has, Once, InOrder
<1>7. Once(new, ended)
  BY <1>1, <1>5 DEF Once, Distinct
<1>8. Has(new, ended) <=> t \in ToSet(running)
  <2>1. t \in ToSet(running) <=> \E i \in 1..m : running[i] = t
    BY ToSetIs DEF TypeOK
  <2>2. ASSUME NEW i \in 1..m, running[i] = t
        PROVE  Has(new, ended)
    <3>1. i \in 1..Len(new) /\ new[i] = ended
      BY <1>1, <1>2, <2>2
    <3>. QED  BY <3>1 DEF Has
  <2>. QED  BY <1>5, <2>1, <2>2 DEF Has
<1>9. ToSet(<<>>) = {}
  BY DEF ToSet
<1>10. ToolOK(stream, t, t \in ToSet(running), t \in settled) /\ ToSet(running) \cap settled = {}
  BY DEF ToolInv
<1>. HIDE DEF m, k
<1>. QED  BY <1>2, <1>6, <1>7, <1>8, <1>9, <1>10, ToolGoesOn DEF started, ended

\* After a report, a request or an answer the tools are as before.
LEMMA ToolsUntouched ==
  ASSUME TypeOK, ToolInv, NEW type, NEW id, Extends(<<Event(type, id)>>),
         type \notin {"tool.started", "tool.settled"}, UNCHANGED <<running, settled>>
  PROVE  \A t \in Tools : ToolOK(stream', t, t \in ToSet(running'), t \in settled')
<1>. SUFFICES ASSUME NEW t \in Tools
     PROVE  ToolOK(stream', t, t \in ToSet(running'), t \in settled')
  OBVIOUS
<1>. DEFINE new == <<Event(type, id)>>
<1>1. Extends(new) /\ Len(new) = 1 /\ new[1] = Event(type, id)
  OBVIOUS
<1>. HIDE DEF new
<1>2. \A i \in 1..Len(new) : new[i] # Event("tool.started", t) /\ new[i] # Event("tool.settled", t)
  BY <1>1, ToolEvents
<1>. QED  BY <1>1, <1>2, ToolUntouched DEF ToolInv

\* A tool that starts.
LEMMA ToolStarts ==
  ASSUME TypeOK, ToolInv, NEW t \in Tools, StartsTool(t), ~terminal
  PROVE  ToolInv'
<1>. DEFINE new == <<Event("tool.started", t)>>
<1>1. Extends(new) /\ Len(new) = 1 /\ new[1] = Event("tool.started", t)
  BY DEF StartsTool
<1>2. running' = Append(running, t) /\ t \notin ToSet(running) \cup settled /\ settled' = settled /\ ~terminal'
  BY DEF StartsTool
<1>3. running \in Seq(Tools) /\ Len(running) \in Nat
  BY DEF TypeOK
<1>4. /\ running' \in Seq(Tools) /\ Len(running') = Len(running) + 1
      /\ \A i \in 1..Len(running) : running'[i] = running[i]
      /\ running'[Len(running) + 1] = t
  BY <1>2, <1>3
<1>5. \A x : x \in ToSet(running) <=> \E i \in 1..Len(running) : running[i] = x
  BY <1>3, ToSetIs
<1>6. \A x : x \in ToSet(running') <=> \E i \in 1..Len(running') : running'[i] = x
  BY <1>4, ToSetIs
<1>7. ToSet(running') = ToSet(running) \cup {t}
  <2>1. ASSUME NEW x \in ToSet(running) PROVE x \in ToSet(running')
    BY <1>3, <1>4, <1>5, <1>6
  <2>2. t \in ToSet(running')
    BY <1>3, <1>4, <1>6
  <2>3. ASSUME NEW x \in ToSet(running') PROVE x \in ToSet(running) \cup {t}
    <3>1. PICK i \in 1..Len(running') : running'[i] = x
      BY <1>6
    <3>2. i \in 1..Len(running) \/ i = Len(running) + 1
      BY <1>3, <1>4
    <3>. QED  BY <1>4, <1>5, <3>1, <3>2
  <2>. QED  BY <2>1, <2>2, <2>3
<1>8. Distinct(running')
  <2>. SUFFICES ASSUME NEW i \in 1..Len(running'), NEW j \in 1..Len(running'), running'[i] = running'[j]
       PROVE  i = j
    BY DEF Distinct
  <2>1. /\ i \in 1..Len(running) \/ i = Len(running) + 1
        /\ j \in 1..Len(running) \/ j = Len(running) + 1
    BY <1>3, <1>4
  <2>2. \A n \in 1..Len(running) : running[n] # t
    BY <1>2, <1>5
  <2>. QED  BY <1>4, <2>1, <2>2 DEF ToolInv, Distinct
<1>. HIDE DEF new
<1>9. ASSUME NEW u \in Tools
      PROVE  ToolOK(stream', u, u \in ToSet(running'), u \in settled')
  <2>1. Has(new, Event("tool.started", u)) <=> u = t
    BY <1>1, ToolEvents DEF Has
  <2>2. ~Has(new, Event("tool.settled", u)) /\ InOrder(new, u)
    BY <1>1, ToolEvents DEF Has, InOrder
  <2>3. Once(new, Event("tool.started", u)) /\ Once(new, Event("tool.settled", u))
    BY <1>1 DEF Once
  <2>4. ToolOK(stream, u, u \in ToSet(running), u \in settled)
    BY DEF ToolInv
  <2>. QED  BY <1>1, <1>2, <1>7, <2>1, <2>2, <2>3, <2>4, ToolGoesOn
<1>. QED  BY <1>2, <1>7, <1>8, <1>9 DEF ToolInv

\* A tool that is settled, and started before when nobody announced it.
LEMMA ToolSettles ==
  ASSUME TypeOK, ToolInv, NEW t \in Tools, SettlesTool(t), ~terminal
  PROVE  ToolInv'
<1>1. /\ running' = RemoveFirst(running, t) /\ t \notin settled /\ settled' = settled \cup {t} /\ ~terminal'
  BY DEF SettlesTool
<1>2. ToSet(running') = ToSet(running) \ {t} /\ Distinct(running')
  BY <1>1, RemoveFirstIs DEF TypeOK, ToolInv
<1>3. ASSUME NEW u \in Tools
      PROVE  ToolOK(stream', u, u \in ToSet(running'), u \in settled')
  <2>1. ToolOK(stream, u, u \in ToSet(running), u \in settled) /\ ToSet(running) \cap settled = {}
    BY DEF ToolInv
  <2>2. CASE t \in ToSet(running)
    <3>. DEFINE new == <<Event("tool.settled", t)>>
    <3>1. Extends(new) /\ Len(new) = 1 /\ new[1] = Event("tool.settled", t)
      BY <2>2 DEF SettlesTool
    <3>. HIDE DEF new
    <3>2. Has(new, Event("tool.settled", u)) <=> u = t
      BY <3>1, ToolEvents DEF Has
    <3>3. ~Has(new, Event("tool.started", u)) /\ InOrder(new, u)
      BY <3>1, ToolEvents DEF Has, InOrder
    <3>4. Once(new, Event("tool.started", u)) /\ Once(new, Event("tool.settled", u))
      BY <3>1 DEF Once
    <3>. QED  BY <1>1, <1>2, <2>1, <2>2, <3>1, <3>2, <3>3, <3>4, ToolGoesOn
  <2>3. CASE t \notin ToSet(running)
    <3>. DEFINE new == <<Event("tool.started", t), Event("tool.settled", t)>>
    <3>1. Extends(new) /\ Len(new) = 2 /\ new[1] = Event("tool.started", t) /\ new[2] = Event("tool.settled", t)
      BY <2>3 DEF SettlesTool
    <3>. HIDE DEF new
    <3>2. /\ Has(new, Event("tool.settled", u)) <=> u = t
          /\ Has(new, Event("tool.started", u)) <=> u = t
      BY <3>1, ToolEvents DEF Has
    <3>3. InOrder(new, u)
      BY <3>1, ToolEvents DEF InOrder
    <3>4. Once(new, Event("tool.started", u)) /\ Once(new, Event("tool.settled", u))
      BY <3>1, ToolEvents DEF Once
    <3>. QED  BY <1>1, <1>2, <2>1, <2>3, <3>1, <3>2, <3>3, <3>4, ToolGoesOn
  <2>. QED  BY <2>2, <2>3
<1>4. ToSet(running') \cap settled' = {}
  BY <1>1, <1>2 DEF ToolInv
<1>. QED  BY <1>1, <1>2, <1>3, <1>4 DEF ToolInv

\* The tools are as the events say after every step.
LEMMA ToolStep ==
  ASSUME TypeOK, BeginInv, ToolInv, PendingInv, DataStep
  PROVE  ToolInv'
<1>1. CASE Kept
  BY <1>1 DEF Kept, ToolInv
<1>2. CASE Starts
  <2>1. running' = <<>> /\ settled' = {}
    BY <1>2 DEF Starts, BeginInv
  <2>2. ToSet(running') = {}
    BY <2>1 DEF ToSet
  <2>3. Distinct(running')
    BY <2>1 DEF Distinct
  <2>4. Len(stream') \in Nat /\ \A i \in 1..Len(stream') : stream'[i].type \in {"run.started", "run.failed"}
    <3>1. CASE stream' = <<Event("run.started", NoId)>>
      BY <3>1 DEF Event
    <3>2. CASE stream' = <<Event("run.started", NoId), Event("run.failed", "query")>>
      BY <3>2 DEF Event
    <3>. QED  BY <1>2, <3>1, <3>2 DEF Starts
  <2>5. ASSUME NEW t \in Tools
        PROVE  ToolOK(stream', t, t \in ToSet(running'), t \in settled')
    <3>1. Event("tool.started", t).type = "tool.started" /\ Event("tool.settled", t).type = "tool.settled"
      BY DEF Event
    <3>2. \A i \in 1..Len(stream') : stream'[i] # Event("tool.started", t) /\ stream'[i] # Event("tool.settled", t)
      BY <2>4, <3>1
    <3>3. t \notin ToSet(running') /\ t \notin settled'
      BY <2>1, <2>2
    <3>. QED  BY <3>2, <3>3 DEF ToolOK, Has, Once
  <2>. QED  BY <2>1, <2>2, <2>3, <2>5 DEF ToolInv
<1>3. CASE DeniesRest
  BY <1>3 DEF DeniesRest, ToolInv
<1>4. ASSUME NEW type \in {"session.initialized", "assistant"}, Reports(type)
      PROVE  ToolInv'
  <2>1. \A t \in Tools : ToolOK(stream', t, t \in ToSet(running'), t \in settled')
    <3>1. Extends(<<Event(type, NoId)>>) /\ UNCHANGED <<running, settled>>
      BY <1>4 DEF Reports
    <3>2. type \notin {"tool.started", "tool.settled"}
      OBVIOUS
    <3>. QED  BY <3>1, <3>2, ToolsUntouched
  <2>. QED  BY <1>4, <2>1 DEF Reports, ToolInv
<1>5. ASSUME NEW t \in Tools, StartsTool(t)
      PROVE  ToolInv'
  BY <1>5, ToolStarts DEF StartsTool
<1>6. ASSUME NEW t \in Tools, SettlesTool(t)
      PROVE  ToolInv'
  BY <1>6, ToolSettles DEF SettlesTool
<1>7. ASSUME NEW between \in Seq(Events),
             EndsSettled(between) \/ \E cause \in Causes : EndsResolved(cause) /\ between = Resolving,
             \A i \in 1..Len(between) : between[i].type \notin {"tool.started", "tool.settled"}
      PROVE  ToolInv'
  <2>1. running' = <<>> /\ settled' = settled \cup ToSet(running)
    BY <1>7 DEF EndsSettled, EndsResolved
  <2>2. ToSet(running') = {} /\ Distinct(running')
    BY <2>1 DEF ToSet, Distinct
  <2>3. PICK type \in Terminals, cause \in Causes : EndsAs(between, type, cause)
    <3>1. {"vendor", "result"} \subseteq Causes
      BY DEF Causes
    <3>. QED  BY <1>7, <3>1 DEF EndsSettled, EndsResolved
  <2>4. \A t \in Tools : ToolOK(stream', t, t \in ToSet(running'), t \in settled')
    BY <1>7, <2>1, <2>3, ToolEnds
  <2>. QED  BY <2>1, <2>2, <2>4 DEF ToolInv
<1>8. CASE EndsSettled(<<>>)
  <2>. DEFINE none == <<>>
  <2>1. none \in Seq(Events) /\ \A i \in 1..Len(none) : none[i].type \notin {"tool.started", "tool.settled"}
    OBVIOUS
  <2>2. EndsSettled(none)
    BY <1>8
  <2>. HIDE DEF none
  <2>. QED  BY <1>7, <2>1, <2>2
<1>9. CASE EndsSettled(<<Event("usage.updated", NoId)>>)
  <2>. DEFINE usage == <<Event("usage.updated", NoId)>>
  <2>1. usage \in Seq(Events)
    BY EventIsOne DEF EventTypes
  <2>2. Len(usage) = 1 /\ usage[1].type = "usage.updated"
    BY DEF Event
  <2>3. EndsSettled(usage)
    BY <1>9
  <2>. HIDE DEF usage
  <2>. QED  BY <1>7, <2>1, <2>2, <2>3
<1>10. ASSUME NEW cause \in {"run", "idle", "authentication", "cancel"}, EndsResolved(cause)
       PROVE  ToolInv'
  <2>1. Resolving \in Seq(Events) /\ cause \in Causes
    BY ResolvingIs DEF Causes
  <2>2. \A i \in 1..Len(Resolving) : Resolving[i].type \notin {"tool.started", "tool.settled"}
    <3>. SUFFICES ASSUME NEW i \in 1..Len(pending)
         PROVE  Resolving[i].type \notin {"tool.started", "tool.settled"}
      BY ResolvingIs
    <3>1. Resolving[i] = Event("interaction.resolved", pending[i].id)
      BY ResolvingIs
    <3>. QED  BY <3>1 DEF Event
  <2>. QED  BY <1>7, <1>10, <2>1, <2>2
<1>11. CASE EndsBare
  <2>1. \A t \in Tools : ToolOK(stream', t, t \in ToSet(running'), t \in settled')
    BY <1>11, ToolsUntouched DEF EndsBare
  <2>2. Last(stream').id \in {"ended", "ended unauthorized"}
    <3>. DEFINE new == <<Event("run.failed", EndError)>>
    <3>1. Extends(new) /\ Len(new) = 1 /\ new[1] = Event("run.failed", EndError)
      BY <1>11 DEF EndsBare
    <3>. HIDE DEF new
    <3>2. stream'[Len(stream')] = Event("run.failed", EndError)
      BY <3>1 DEF Extends
    <3>3. Last(stream').id = EndError
      BY <3>2 DEF Last, Event
    <3>. QED  BY <3>3 DEF EndError
  <2>. QED  BY <1>11, <2>1, <2>2 DEF EndsBare, ToolInv
<1>12. ASSUME NEW c \in Calls, AsksClient(c)
       PROVE  ToolInv'
  <2>1. CASE terminal
    BY <1>12, <2>1 DEF AsksClient, ToolInv
  <2>2. CASE ~terminal
    <3>1. \A t \in Tools : ToolOK(stream', t, t \in ToSet(running'), t \in settled')
      BY <1>12, <2>2, ToolsUntouched DEF AsksClient
    <3>. QED  BY <1>12, <2>2, <3>1 DEF AsksClient, ToolInv
  <2>. QED  BY <2>1, <2>2
<1>13. ASSUME NEW c \in Calls, DeniesCall(c)
       PROVE  ToolInv'
  BY <1>13 DEF DeniesCall, ToolInv
<1>14. ASSUME NEW i \in 1..Len(pending), AnswersEntry(i)
       PROVE  ToolInv'
  <2>1. CASE terminal
    BY <1>14, <2>1 DEF AnswersEntry, ToolInv
  <2>2. CASE ~terminal
    <3>1. \A t \in Tools : ToolOK(stream', t, t \in ToSet(running'), t \in settled')
      BY <1>14, <2>2, ToolsUntouched DEF AnswersEntry
    <3>. QED  BY <1>14, <2>2, <3>1 DEF AnswersEntry, ToolInv
  <2>. QED  BY <2>1, <2>2
<1>. QED
  BY <1>1, <1>2, <1>3, <1>4, <1>5, <1>6, <1>8, <1>9, <1>10, <1>11, <1>12, <1>13, <1>14 DEF DataStep

-----------------------------------------------------------------------------
(* The entries of #pendingInteractions and the calls that wait.            *)

\* Nothing changes for the calls, and no generator leaves one behind.
LEMMA PendingKept ==
  ASSUME PendingInv, Leaves, UNCHANGED <<pending, calls>>
  PROVE  PendingInv'
BY DEF PendingInv, Leaves

\* Every call that waits is denied.
LEMMA PendingDenied ==
  ASSUME PendingInv, pending' = <<>>, calls' = Denied
  PROVE  PendingInv'
<1>1. ASSUME NEW c \in Calls
      PROVE  calls'[c] # "waiting"
  <2>1. CASE c \in Callers
    BY <2>1 DEF Denied
  <2>2. CASE c \notin Callers
    BY <2>2 DEF Denied, Callers, PendingInv
  <2>. QED  BY <2>1, <2>2
<1>. QED  BY <1>1 DEF PendingInv

\* An entry of its own: a call that was not asked has none yet.
LEMMA AskedAnew ==
  ASSUME TypeOK, PendingInv, Leaves, NEW c \in Calls, AsksClient(c),
         \A i \in 1..Len(pending) : pending[i].id # RequestId(c)
  PROVE  PendingInv'
<1>. DEFINE n == Len(pending)
            e == [id |-> RequestId(c), call |-> c]
            E == [id : RequestIds, call : Calls]
<1>1. pending \in Seq(E) /\ n \in Nat /\ calls[c] = "unasked"
  BY DEF TypeOK, AsksClient
<1>2. RequestId(c) \in RequestIds
  BY <1>1, RequestIdIs
<1>3. e \in E /\ e.id = RequestId(c) /\ e.call = c
  BY <1>2
<1>4. pending' = Append(pending, e)
  BY DEF AsksClient, WithEntry
<1>. HIDE DEF e, E
<1>5. Len(pending') = n + 1 /\ pending'[n + 1] = e /\ \A i \in 1..n : pending'[i] = pending[i]
  BY <1>1, <1>3, <1>4
<1>6. \A i \in 1..n : pending[i].call \in Calls /\ pending[i].call # c
  BY <1>1, PendingEntries DEF PendingInv
<1>7. \A d \in Calls : d \notin Replaced(c)
  BY DEF Replaced
<1>8. /\ \A d \in Calls \ {c} : calls'[d] = calls[d]
      /\ calls'[c] = IF generator = "done" THEN "orphaned" ELSE "waiting"
  BY <1>7 DEF AsksClient
<1>9. \A i \in 1..n + 1 : i \in 1..n \/ i = n + 1
  BY <1>1
<1>10. generator' = "done" => generator = "done"
  BY <1>1, <1>5 DEF Leaves
<1>11. \A i, j \in 1..Len(pending') :
         pending'[i].id = pending'[j].id \/ pending'[i].call = pending'[j].call => i = j
  BY <1>1, <1>3, <1>5, <1>6, <1>9 DEF PendingInv
<1>12. ASSUME NEW i \in 1..Len(pending')
       PROVE  /\ calls'[pending'[i].call] # "unasked"
              /\ pending'[i].call \in NamedCalls => pending'[i].id = pending'[i].call
              /\ pending'[i].call \notin NamedCalls => pending'[i].id \in Range(NumberedIds)
  <2>1. CASE i \in 1..n
    <3>1. pending'[i] = pending[i] /\ calls'[pending[i].call] = calls[pending[i].call]
      BY <1>5, <1>6, <1>8, <2>1
    <3>. QED  BY <2>1, <3>1 DEF PendingInv
  <2>2. CASE i = n + 1
    BY <1>1, <1>3, <1>5, <1>8, <2>2, RequestIdIs
  <2>. QED  BY <1>5, <1>9, <2>1, <2>2
<1>13. ASSUME NEW d \in Calls, calls'[d] = "waiting"
       PROVE  generator' # "done" /\ \E i \in 1..Len(pending') : pending'[i].call = d
  <2>1. CASE d = c
    <3>1. generator # "done" /\ n + 1 \in 1..Len(pending') /\ pending'[n + 1].call = c
      BY <1>1, <1>3, <1>5, <1>8, <1>13, <2>1
    <3>. QED  BY <1>10, <2>1, <3>1
  <2>2. CASE d # c
    <3>1. calls[d] = "waiting"
      BY <1>8, <1>13, <2>2
    <3>2. PICK i \in 1..n : pending[i].call = d
      BY <3>1 DEF PendingInv
    <3>3. generator # "done"
      BY <3>1 DEF PendingInv
    <3>4. i \in 1..Len(pending') /\ pending'[i].call = d
      BY <1>1, <1>5, <3>2
    <3>. QED  BY <1>10, <3>3, <3>4
  <2>. QED  BY <2>1, <2>2
<1>. QED  BY <1>11, <1>12, <1>13 DEF PendingInv

\* An entry with the same id is overwritten, and its call is never answered.
LEMMA AskedAgain ==
  ASSUME TypeOK, PendingInv, Leaves, NEW c \in Calls, AsksClient(c),
         NEW k \in 1..Len(pending), pending[k].id = RequestId(c)
  PROVE  PendingInv' /\ Len(pending') = Len(pending) /\ \A i \in 1..Len(pending) : pending'[i].id = pending[i].id
<1>. DEFINE n == Len(pending)
            e == [id |-> RequestId(c), call |-> c]
<1>1. n \in Nat /\ calls[c] = "unasked"
  BY DEF TypeOK, AsksClient
<1>2. e.id = RequestId(c) /\ e.call = c
  OBVIOUS
<1>3. pending' = [i \in 1..n |-> IF pending[i].id = RequestId(c) THEN e ELSE pending[i]]
  BY DEF AsksClient, WithEntry
<1>. HIDE DEF e
<1>4. Len(pending') = n /\ pending'[k] = e /\ \A i \in 1..n : i # k => pending'[i] = pending[i]
  BY <1>1, <1>3 DEF PendingInv
<1>5. \A i \in 1..n : pending[i].call \in Calls /\ pending[i].call # c
  BY <1>1, PendingEntries DEF PendingInv
<1>6. Replaced(c) = {pending[k].call}
  <2>. DEFINE E == [id : RequestIds, call : Calls]
  <2>1. pending[k] \in E
    <3>1. pending \in Seq(E)
      BY DEF TypeOK
    <3>. HIDE DEF E
    <3>. QED  BY <3>1
  <2>2. pending[k] = [id |-> RequestId(c), call |-> pending[k].call]
    BY <2>1
  <2>3. pending[k].call \in Replaced(c)
    BY <1>5, <2>2 DEF Replaced
  <2>4. ASSUME NEW d \in Replaced(c)
        PROVE  d = pending[k].call
    <3>1. PICK i \in 1..n : pending[i] = [id |-> RequestId(c), call |-> d]
      BY <2>4 DEF Replaced
    <3>2. i = k
      BY <3>1 DEF PendingInv
    <3>. QED  BY <3>1, <3>2
  <2>. QED  BY <2>3, <2>4
<1>7. /\ \A d \in Calls : d # c /\ d # pending[k].call => calls'[d] = calls[d]
      /\ calls'[pending[k].call] = "orphaned"
      /\ calls'[c] = IF generator = "done" THEN "orphaned" ELSE "waiting"
  BY <1>5, <1>6 DEF AsksClient
<1>8. generator' = "done" => generator = "done"
  BY <1>1, <1>4 DEF Leaves
<1>9. \A i \in 1..n : pending'[i].id = pending[i].id
  BY <1>2, <1>4
<1>10. \A i, j \in 1..Len(pending') :
         pending'[i].id = pending'[j].id \/ pending'[i].call = pending'[j].call => i = j
  BY <1>2, <1>4, <1>5, <1>9 DEF PendingInv
<1>11. ASSUME NEW i \in 1..Len(pending')
       PROVE  /\ calls'[pending'[i].call] # "unasked"
              /\ pending'[i].call \in NamedCalls => pending'[i].id = pending'[i].call
              /\ pending'[i].call \notin NamedCalls => pending'[i].id \in Range(NumberedIds)
  <2>1. CASE i # k
    <3>1. pending'[i] = pending[i] /\ pending[i].call # pending[k].call
      BY <1>4, <2>1 DEF PendingInv
    <3>2. calls'[pending[i].call] = calls[pending[i].call]
      BY <1>4, <1>5, <1>7, <3>1
    <3>. QED  BY <1>4, <3>1, <3>2 DEF PendingInv
  <2>2. CASE i = k
    BY <1>1, <1>2, <1>4, <1>7, <2>2, RequestIdIs
  <2>. QED  BY <2>1, <2>2
<1>12. ASSUME NEW d \in Calls, calls'[d] = "waiting"
       PROVE  generator' # "done" /\ \E i \in 1..Len(pending') : pending'[i].call = d
  <2>1. CASE d = c
    <3>1. generator # "done" /\ k \in 1..Len(pending') /\ pending'[k].call = c
      BY <1>2, <1>4, <1>7, <1>12, <2>1
    <3>. QED  BY <1>8, <2>1, <3>1
  <2>2. CASE d # c
    <3>1. calls[d] = "waiting" /\ d # pending[k].call
      BY <1>7, <1>12, <2>2
    <3>2. PICK i \in 1..n : pending[i].call = d
      BY <3>1 DEF PendingInv
    <3>3. generator # "done"
      BY <3>1 DEF PendingInv
    <3>4. i \in 1..Len(pending') /\ pending'[i].call = d
      BY <1>1, <1>4, <3>1, <3>2
    <3>. QED  BY <1>8, <3>3, <3>4
  <2>. QED  BY <2>1, <2>2
<1>. QED  BY <1>4, <1>9, <1>10, <1>11, <1>12 DEF PendingInv

\* An entry that is answered is gone, and its call has its answer.
LEMMA EntryAnswered ==
  ASSUME TypeOK, PendingInv, Leaves, NEW k \in 1..Len(pending), AnswersEntry(k)
  PROVE  PendingInv'
<1>. DEFINE n == Len(pending)
            E == [id : RequestIds, call : Calls]
            At(i) == IF i < k THEN i ELSE i + 1
<1>1. pending \in Seq(E) /\ n \in Nat /\ k \in Nat /\ k >= 1 /\ k <= n
  BY DEF TypeOK
<1>. HIDE DEF E
<1>2. Len(pending') = n - 1 /\ \A i \in 1..n - 1 : pending'[i] = IF i < k THEN pending[i] ELSE pending[i + 1]
  BY <1>1, RemoveAtAt DEF AnswersEntry
<1>3. \A i \in 1..Len(pending') : At(i) \in 1..n /\ At(i) # k /\ pending'[i] = pending[At(i)]
  BY <1>1, <1>2
<1>4. \A i, j \in 1..Len(pending') : At(i) = At(j) => i = j
  BY <1>1, <1>2
<1>5. \A i \in 1..n : i # k => \E j \in 1..Len(pending') : At(j) = i
  <2>. SUFFICES ASSUME NEW i \in 1..n, i # k PROVE \E j \in 1..Len(pending') : At(j) = i
    OBVIOUS
  <2>1. CASE i < k
    <3>1. i \in 1..Len(pending') /\ At(i) = i
      BY <1>1, <1>2, <2>1
    <3>. QED  BY <3>1
  <2>2. CASE i > k
    <3>1. i - 1 \in 1..Len(pending') /\ At(i - 1) = i
      BY <1>1, <1>2, <2>2
    <3>. QED  BY <3>1
  <2>. QED  BY <1>1, <2>1, <2>2
<1>. HIDE DEF At
<1>6. PICK answer \in {"allowed", "denied"} : calls' = [calls EXCEPT ![pending[k].call] = answer]
  BY DEF AnswersEntry
<1>7. \A i \in 1..n : pending[i].call \in Calls
  BY PendingEntries
<1>8. /\ \A d \in Calls : d # pending[k].call => calls'[d] = calls[d]
      /\ calls'[pending[k].call] = answer
  BY <1>6, <1>7 DEF TypeOK
<1>9. \A i, j \in 1..Len(pending') :
        pending'[i].id = pending'[j].id \/ pending'[i].call = pending'[j].call => i = j
  BY <1>3, <1>4 DEF PendingInv
<1>10. ASSUME NEW i \in 1..Len(pending')
       PROVE  /\ calls'[pending'[i].call] # "unasked"
              /\ pending'[i].call \in NamedCalls => pending'[i].id = pending'[i].call
              /\ pending'[i].call \notin NamedCalls => pending'[i].id \in Range(NumberedIds)
  <2>1. At(i) \in 1..n /\ pending'[i] = pending[At(i)] /\ pending[At(i)].call # pending[k].call
    BY <1>3 DEF PendingInv
  <2>2. calls'[pending[At(i)].call] = calls[pending[At(i)].call]
    BY <1>7, <1>8, <2>1
  <2>. QED  BY <2>1, <2>2 DEF PendingInv
<1>11. ASSUME NEW d \in Calls, calls'[d] = "waiting"
       PROVE  generator' # "done" /\ \E i \in 1..Len(pending') : pending'[i].call = d
  <2>1. calls[d] = "waiting" /\ d # pending[k].call
    BY <1>8, <1>11
  <2>2. PICK i \in 1..n : pending[i].call = d
    BY <2>1 DEF PendingInv
  <2>3. PICK j \in 1..Len(pending') : At(j) = i
    BY <1>5, <2>1, <2>2
  <2>4. pending'[j].call = d
    BY <1>3, <2>2, <2>3
  <2>5. pending' # <<>>
    BY <2>3
  <2>6. generator # "done"
    BY <2>1 DEF PendingInv
  <2>. QED  BY <2>4, <2>5, <2>6 DEF Leaves
<1>. QED  BY <1>9, <1>10, <1>11 DEF PendingInv

\* The calls that wait have their entries after every step.
LEMMA PendingStep ==
  ASSUME TypeOK, BeginInv, PendingInv, DataStep, Leaves
  PROVE  PendingInv'
<1>1. CASE UNCHANGED <<pending, calls>>
  BY <1>1, PendingKept
<1>2. CASE pending' = <<>> /\ calls' = Denied
  BY <1>2, PendingDenied
<1>3. ASSUME NEW c \in Calls, AsksClient(c)
      PROVE  PendingInv'
  <2>1. CASE \A i \in 1..Len(pending) : pending[i].id # RequestId(c)
    BY <1>3, <2>1, AskedAnew
  <2>2. CASE \E i \in 1..Len(pending) : pending[i].id = RequestId(c)
    BY <1>3, <2>2, AskedAgain
  <2>. QED  BY <2>1, <2>2
<1>4. ASSUME NEW c \in Calls, DeniesCall(c)
      PROVE  PendingInv'
  <2>1. \A d \in Calls : calls'[d] = IF d = c THEN "denied" ELSE calls[d]
    BY <1>4 DEF DeniesCall, TypeOK
  <2>2. pending' = pending /\ \A i \in 1..Len(pending) : pending[i].call \in Calls
    BY <1>4, PendingEntries DEF DeniesCall
  <2>. QED  BY <2>1, <2>2 DEF PendingInv, Leaves
<1>5. ASSUME NEW i \in 1..Len(pending), AnswersEntry(i)
      PROVE  PendingInv'
  BY <1>5, EntryAnswered
<1>. QED
  BY <1>1, <1>2, <1>3, <1>4, <1>5
     DEF DataStep, Kept, Starts, DeniesRest, Reports, StartsTool, SettlesTool, EndsSettled, EndsResolved, EndsBare

-----------------------------------------------------------------------------
(* The interactions in the stream.                                         *)

\* The interactions in a stream that goes on.
LEMMA InteractionsExtended ==
  ASSUME TypeOK, NEW new, Extends(new), NEW q
  PROVE  /\ Requested(q)' <=> Requested(q) \/ Has(new, Event("interaction.requested", q))
         /\ Resolved(q)' <=> Resolved(q) \/ Has(new, Event("interaction.resolved", q))
<1>1. Requested(q) <=> Has(stream, Event("interaction.requested", q))
  BY DEF Requested, Has
<1>2. Resolved(q) <=> Has(stream, Event("interaction.resolved", q))
  BY DEF Resolved, Has
<1>3. Requested(q)' <=> Has(stream', Event("interaction.requested", q))
  BY DEF Requested, Has
<1>4. Resolved(q)' <=> Has(stream', Event("interaction.resolved", q))
  BY DEF Resolved, Has
<1>. QED  BY <1>1, <1>2, <1>3, <1>4, HasExtended

\* A run that goes on with events that request nothing.
LEMMA NothingRequested ==
  ASSUME TypeOK, ResolveInv, NEW new, Extends(new), ~terminal, ~terminal', UNCHANGED pending,
         \A i \in 1..Len(new) : new[i].type # "interaction.requested"
  PROVE  ResolveInv'
<1>1. ASSUME NEW q \in RequestIds
      PROVE  ~Has(new, Event("interaction.requested", q))
  BY DEF Has, Event
<1>2. ASSUME NEW q \in RequestIds, Requested(q)'
      PROVE  Resolved(q)' \/ \E i \in 1..Len(pending') : pending'[i].id = q
  BY <1>1, <1>2, InteractionsExtended DEF ResolveInv
<1>. QED  BY <1>2 DEF ResolveInv

\* The last event of a stream that goes on.
LEMMA LastExtended ==
  ASSUME TypeOK, NEW new \in Seq(Events), Extends(new), Len(new) >= 1
  PROVE  Last(stream') = new[Len(new)]
<1>1. Len(new) \in 1..Len(new)
  OBVIOUS
<1>2. Len(stream') = Len(stream) + Len(new) /\ stream'[Len(stream) + Len(new)] = new[Len(new)]
  BY <1>1 DEF Extends
<1>. QED  BY <1>2 DEF Last

\* A run that ends without resolving says so in its last event.
LEMMA EndsUnresolved ==
  ASSUME TypeOK, NEW new \in Seq(Events), Extends(new), Len(new) >= 1, terminal',
         new[Len(new)].id \notin {"cancel", "run", "idle"}
  PROVE  ResolveInv'
BY LastExtended DEF ResolveInv

\* A run that ends with its interactions resolved.
LEMMA EndsAllResolved ==
  ASSUME TypeOK, ResolveInv, NEW type \in Terminals, NEW cause, EndsAs(Resolving, type, cause), ~terminal, terminal'
  PROVE  ResolveInv'
<1>. DEFINE new == Settling \o Resolving \o <<Event(type, cause)>>
            m == Len(running)
            k == Len(Resolving)
<1>1. m \in Nat /\ k \in Nat /\ k = Len(pending)
  BY ResolvingIs DEF TypeOK
<1>2. /\ Extends(new) /\ Len(new) = m + k + 1
      /\ \A i \in 1..m : new[i] = Event("tool.settled", running[i])
      /\ \A i \in 1..k : new[m + i] = Resolving[i]
      /\ new[m + k + 1] = Event(type, cause)
      /\ \A i \in 1..Len(new) : i \in 1..m \/ i - m \in 1..k \/ i = m + k + 1
  BY DEF EndsAs
<1>3. \A i \in 1..k : Resolving[i] = Event("interaction.resolved", pending[i].id)
  BY <1>1, ResolvingIs
<1>. HIDE DEF new, k, m
<1>4. ASSUME NEW q \in RequestIds
      PROVE  ~Has(new, Event("interaction.requested", q))
  <2>. SUFFICES ASSUME NEW i \in 1..Len(new), new[i] = Event("interaction.requested", q)
       PROVE  FALSE
    BY DEF Has
  <2>1. new[i].type = "interaction.requested"
    BY DEF Event
  <2>2. CASE i \in 1..m
    <3>1. new[i] = Event("tool.settled", running[i])
      BY <1>2, <2>2
    <3>. QED  BY <2>1, <3>1 DEF Event
  <2>3. CASE i - m \in 1..k
    <3>1. i = m + (i - m)
      BY <1>1, <1>2
    <3>2. new[i] = Resolving[i - m]
      BY <1>2, <2>3, <3>1
    <3>3. Resolving[i - m] = Event("interaction.resolved", pending[i - m].id)
      BY <1>3, <2>3
    <3>4. new[i].type = "interaction.resolved"
      BY <3>2, <3>3 DEF Event
    <3>. QED  BY <2>1, <3>4
  <2>4. CASE i = m + k + 1
    <3>1. new[i] = Event(type, cause)
      BY <1>2, <2>4
    <3>. QED  BY <2>1, <3>1 DEF Event, Terminals
  <2>. QED  BY <1>2, <2>2, <2>3, <2>4
<1>5. ASSUME NEW q \in RequestIds, Requested(q)'
      PROVE  Resolved(q)'
  <2>1. Requested(q)
    BY <1>2, <1>4, <1>5, InteractionsExtended
  <2>2. CASE Resolved(q)
    BY <1>2, <2>2, InteractionsExtended
  <2>3. ASSUME NEW i \in 1..Len(pending), pending[i].id = q
        PROVE  Resolved(q)'
    <3>1. m + i \in 1..Len(new) /\ i \in 1..k
      BY <1>1, <1>2, <2>3
    <3>2. new[m + i] = Resolving[i] /\ Resolving[i] = Event("interaction.resolved", q)
      BY <1>2, <1>3, <2>3, <3>1
    <3>3. Has(new, Event("interaction.resolved", q))
      BY <3>1, <3>2 DEF Has
    <3>. QED  BY <1>2, <3>3, InteractionsExtended
  <2>. QED  BY <2>1, <2>2, <2>3 DEF ResolveInv
<1>. QED  BY <1>5 DEF ResolveInv

\* A client is asked: what is requested has its entry.
LEMMA AskIsPending ==
  ASSUME TypeOK, PendingInv, ResolveInv, Leaves, NEW c \in Calls, AsksClient(c), ~terminal
  PROVE  ResolveInv'
<1>. DEFINE r == RequestId(c)
            new == <<Event("interaction.requested", r)>>
            n == Len(pending)
<1>1. Extends(new) /\ Len(new) = 1 /\ new[1] = Event("interaction.requested", r) /\ ~terminal'
  BY DEF AsksClient
<1>2. n \in Nat /\ pending \in Seq([id : RequestIds, call : Calls])
  BY DEF TypeOK
<1>3. /\ n <= Len(pending') /\ Len(pending') \in Nat /\ \A i \in 1..n : pending'[i].id = pending[i].id
      /\ \E i \in 1..Len(pending') : pending'[i].id = r
  <2>1. CASE \E i \in 1..n : pending[i].id = r
    <3>1. PICK k \in 1..n : pending[k].id = r
      BY <2>1
    <3>2. Len(pending') = n /\ \A i \in 1..n : pending'[i].id = pending[i].id
      BY <3>1, AskedAgain
    <3>. QED  BY <1>2, <3>1, <3>2
  <2>2. CASE ~\E i \in 1..n : pending[i].id = r
    <3>. DEFINE e == [id |-> r, call |-> c]
                E == [id : RequestIds, call : Calls]
    <3>1. r \in RequestIds
      BY RequestIdIs DEF AsksClient
    <3>2. e \in E /\ e.id = r
      BY <3>1
    <3>3. pending' = Append(pending, e) /\ pending \in Seq(E)
      BY <1>2, <2>2 DEF AsksClient, WithEntry
    <3>. HIDE DEF e, E
    <3>4. Len(pending') = n + 1 /\ pending'[n + 1] = e /\ \A i \in 1..n : pending'[i] = pending[i]
      BY <1>2, <3>2, <3>3
    <3>. QED  BY <1>2, <3>2, <3>4
  <2>. QED  BY <2>1, <2>2
<1>. HIDE DEF r, new, n
<1>4. ASSUME NEW q \in RequestIds, Requested(q)'
      PROVE  Resolved(q)' \/ \E i \in 1..Len(pending') : pending'[i].id = q
  <2>1. CASE Requested(q)
    <3>1. CASE Resolved(q)
      BY <1>1, <3>1, InteractionsExtended
    <3>2. ASSUME NEW i \in 1..n, pending[i].id = q
          PROVE  \E j \in 1..Len(pending') : pending'[j].id = q
      <4>1. i \in 1..Len(pending') /\ pending'[i].id = q
        BY <1>2, <1>3, <3>2
      <4>. QED  BY <4>1
    <3>. QED  BY <2>1, <3>1, <3>2 DEF ResolveInv, n
  <2>2. CASE Has(new, Event("interaction.requested", q))
    <3>1. Event("interaction.requested", q) = Event("interaction.requested", r)
      BY <1>1, <2>2 DEF Has
    <3>2. q = r
      BY <3>1 DEF Event
    <3>. QED  BY <1>3, <3>2
  <2>. QED  BY <1>1, <1>4, <2>1, <2>2, InteractionsExtended
<1>. QED  BY <1>1, <1>4 DEF ResolveInv

\* An entry is answered: what is not pending any more is resolved.
LEMMA AnswerIsResolved ==
  ASSUME TypeOK, PendingInv, ResolveInv, NEW k \in 1..Len(pending), AnswersEntry(k), ~terminal
  PROVE  ResolveInv'
<1>. DEFINE r == pending[k].id
            new == <<Event("interaction.resolved", r)>>
            n == Len(pending)
            E == [id : RequestIds, call : Calls]
<1>1. Extends(new) /\ Len(new) = 1 /\ new[1] = Event("interaction.resolved", r) /\ ~terminal'
  BY DEF AnswersEntry
<1>2. n \in Nat /\ pending \in Seq(E) /\ k \in Nat /\ k >= 1 /\ k <= n
  BY DEF TypeOK
<1>. HIDE DEF E
<1>3. Len(pending') = n - 1 /\ \A i \in 1..n - 1 : pending'[i] = IF i < k THEN pending[i] ELSE pending[i + 1]
  BY <1>2, RemoveAtAt DEF AnswersEntry
<1>4. ASSUME NEW i \in 1..n, i # k
      PROVE  \E j \in 1..Len(pending') : pending'[j].id = pending[i].id
  <2>1. CASE i < k
    <3>1. i \in 1..Len(pending') /\ pending'[i] = pending[i]
      BY <1>2, <1>3, <2>1
    <3>. QED  BY <3>1
  <2>2. CASE i > k
    <3>1. i - 1 \in 1..Len(pending') /\ pending'[i - 1] = pending[i]
      BY <1>2, <1>3, <2>2
    <3>. QED  BY <3>1
  <2>. QED  BY <1>2, <1>4, <2>1, <2>2
<1>. HIDE DEF new, n
<1>5. ASSUME NEW q \in RequestIds, Requested(q)'
      PROVE  Resolved(q)' \/ \E i \in 1..Len(pending') : pending'[i].id = q
  <2>1. ~Has(new, Event("interaction.requested", q))
    BY <1>1 DEF Has, Event
  <2>2. Requested(q)
    BY <1>1, <1>5, <2>1, InteractionsExtended
  <2>3. CASE Resolved(q)
    BY <1>1, <2>3, InteractionsExtended
  <2>4. CASE q = r
    <3>1. Has(new, Event("interaction.resolved", q))
      BY <1>1, <2>4 DEF Has
    <3>. QED  BY <1>1, <3>1, InteractionsExtended
  <2>5. ASSUME NEW i \in 1..n, pending[i].id = q, q # r
        PROVE  \E j \in 1..Len(pending') : pending'[j].id = q
    BY <1>4, <2>5
  <2>. QED  BY <2>2, <2>3, <2>4, <2>5 DEF ResolveInv, n
<1>. QED  BY <1>1, <1>5 DEF ResolveInv

\* What is requested is resolved or pending after every step.
LEMMA ResolveStep ==
  ASSUME TypeOK, BeginInv, PendingInv, ResolveInv, DataStep, Leaves
  PROVE  ResolveInv'
<1>1. CASE UNCHANGED <<stream, terminal, pending>> \/ DeniesRest
  BY <1>1 DEF DeniesRest, ResolveInv, Requested, Resolved
<1>2. CASE Starts
  <2>1. Len(stream') \in Nat /\ \A i \in 1..Len(stream') : stream'[i].type \in {"run.started", "run.failed"}
    <3>1. CASE stream' = <<Event("run.started", NoId)>>
      BY <3>1 DEF Event
    <3>2. CASE stream' = <<Event("run.started", NoId), Event("run.failed", "query")>>
      BY <3>2 DEF Event
    <3>. QED  BY <1>2, <3>1, <3>2 DEF Starts
  <2>2. ASSUME NEW q
        PROVE  ~Requested(q)'
    BY <2>1 DEF Requested, Event
  <2>. QED  BY <2>2 DEF ResolveInv
<1>3. ASSUME NEW type, NEW id, Extends(<<Event(type, id)>>), type # "interaction.requested",
             ~terminal, ~terminal', UNCHANGED pending
      PROVE  ResolveInv'
  <2>. DEFINE new == <<Event(type, id)>>
  <2>1. Extends(new) /\ Len(new) = 1 /\ new[1].type = type
    BY <1>3 DEF Event
  <2>. HIDE DEF new
  <2>2. \A i \in 1..Len(new) : new[i].type # "interaction.requested"
    BY <1>3, <2>1
  <2>. QED  BY <1>3, <2>1, <2>2, NothingRequested
<1>4. ASSUME NEW type \in {"session.initialized", "assistant"}, Reports(type)
      PROVE  ResolveInv'
  <2>1. type # "interaction.requested"
    OBVIOUS
  <2>. QED  BY <1>3, <1>4, <2>1 DEF Reports
<1>5. ASSUME NEW t \in Tools, StartsTool(t)
      PROVE  ResolveInv'
  BY <1>3, <1>5 DEF StartsTool
<1>6. ASSUME NEW t \in Tools, SettlesTool(t)
      PROVE  ResolveInv'
  <2>1. ~terminal /\ ~terminal' /\ UNCHANGED pending
    BY <1>6 DEF SettlesTool
  <2>2. CASE Extends(<<Event("tool.settled", t)>>)
    BY <1>3, <2>1, <2>2
  <2>3. CASE Extends(<<Event("tool.started", t), Event("tool.settled", t)>>)
    <3>. DEFINE new == <<Event("tool.started", t), Event("tool.settled", t)>>
    <3>1. Extends(new) /\ Len(new) = 2 /\ new[1].type = "tool.started" /\ new[2].type = "tool.settled"
      BY <2>3 DEF Event
    <3>. HIDE DEF new
    <3>2. \A i \in 1..Len(new) : new[i].type # "interaction.requested"
      BY <3>1
    <3>. QED  BY <2>1, <3>1, <3>2, NothingRequested
  <2>. QED  BY <1>6, <2>2, <2>3 DEF SettlesTool
<1>7. ASSUME NEW between \in Seq(Events), EndsSettled(between)
      PROVE  ResolveInv'
  <2>1. PICK type \in Terminals, cause \in {"vendor", "result"} : EndsAs(between, type, cause)
    BY <1>7 DEF EndsSettled
  <2>. DEFINE new == Settling \o between \o <<Event(type, cause)>>
              m == Len(running)
              k == Len(between)
  <2>2. m \in Nat /\ k \in Nat /\ terminal'
    BY <1>7 DEF TypeOK, EndsSettled
  <2>3. Extends(new) /\ Len(new) = m + k + 1 /\ new[m + k + 1] = Event(type, cause)
    BY <2>1 DEF EndsAs
  <2>. HIDE DEF new, m, k
  <2>4. new \in Seq(Events) /\ Len(new) >= 1 /\ new[Len(new)] = Event(type, cause)
    BY <2>2, <2>3 DEF Extends
  <2>5. new[Len(new)].id \notin {"cancel", "run", "idle"}
    BY <2>4 DEF Event
  <2>. QED  BY <2>2, <2>3, <2>4, <2>5, EndsUnresolved
<1>8. CASE EndsSettled(<<>>)
  <2>1. <<>> \in Seq(Events)
    OBVIOUS
  <2>. QED  BY <1>7, <1>8, <2>1
<1>9. CASE EndsSettled(<<Event("usage.updated", NoId)>>)
  <2>1. <<Event("usage.updated", NoId)>> \in Seq(Events)
    BY EventIsOne DEF EventTypes
  <2>. QED  BY <1>7, <1>9, <2>1
<1>10. CASE EndsBare
  <2>. DEFINE new == <<Event("run.failed", EndError)>>
  <2>1. Extends(new) /\ terminal'
    BY <1>10 DEF EndsBare
  <2>2. new \in Seq(Events) /\ Len(new) = 1 /\ new[1].id \notin {"cancel", "run", "idle"}
    BY <2>1 DEF Extends, Event, EndError
  <2>. HIDE DEF new
  <2>3. Len(new) >= 1 /\ new[Len(new)].id \notin {"cancel", "run", "idle"}
    BY <2>2
  <2>. QED  BY <2>1, <2>2, <2>3, EndsUnresolved
<1>11. ASSUME NEW cause \in {"run", "idle", "authentication", "cancel"}, EndsResolved(cause)
       PROVE  ResolveInv'
  BY <1>11, EndsAllResolved DEF EndsResolved
<1>12. ASSUME NEW c \in Calls, AsksClient(c)
       PROVE  ResolveInv'
  <2>1. CASE terminal
    BY <1>12, <2>1 DEF AsksClient, ResolveInv, Requested, Resolved
  <2>. QED  BY <1>12, <2>1, AskIsPending
<1>13. ASSUME NEW i \in 1..Len(pending), AnswersEntry(i)
       PROVE  ResolveInv'
  <2>1. CASE terminal
    BY <1>13, <2>1 DEF AnswersEntry, ResolveInv, Requested, Resolved
  <2>. QED  BY <1>13, <2>1, AnswerIsResolved
<1>. QED
  BY <1>1, <1>2, <1>4, <1>5, <1>6, <1>8, <1>9, <1>10, <1>11, <1>12, <1>13
     DEF DataStep, Kept, DeniesCall

-----------------------------------------------------------------------------
(* What a step leaves: the types, and a stream that only grows.            *)

Grows ==
  /\ stream' \in Seq(Events) /\ Len(stream) <= Len(stream')
  /\ \A i \in 1..Len(stream) : stream'[i] = stream[i]

\* The stream only grows.
LEMMA StreamGrows ==
  ASSUME TypeOK, BeginInv, DataStep
  PROVE  Grows /\ (terminal => terminal')
<1>1. stream \in Seq(Events) /\ Len(stream) \in Nat
  BY DEF TypeOK
<1>2. CASE UNCHANGED stream
  <2>1. terminal => terminal'
    BY DEF DataStep, Kept, Starts, DeniesRest, Reports, StartsTool, SettlesTool, EndsSettled, EndsResolved,
           EndsBare, AsksClient, DeniesCall, AnswersEntry
  <2>. QED  BY <1>1, <1>2, <2>1 DEF Grows
<1>3. ASSUME NEW new, Extends(new) PROVE Grows
  <2>1. Len(new) \in Nat
    BY <1>3 DEF Extends
  <2>. QED  BY <1>1, <1>3, <2>1 DEF Extends, Grows
<1>4. CASE Starts
  <2>. DEFINE a == Event("run.started", NoId)
              b == Event("run.failed", "query")
  <2>1. a \in Events /\ b \in Events
    BY EventIsOne DEF EventTypes, Terminals, Causes
  <2>. HIDE DEF a, b
  <2>2. stream' = <<a>> \/ stream' = <<a, b>>
    BY <1>4 DEF Starts, a, b
  <2>3. stream' \in Seq(Events) /\ Len(stream') \in Nat
    <3>1. <<a>> \in Seq(Events) /\ <<a, b>> \in Seq(Events)
      BY <2>1
    <3>2. stream' \in Seq(Events)
      BY <2>2, <3>1
    <3>. QED  BY <3>2
  <2>. QED  BY <1>1, <1>4, <2>3 DEF Starts, BeginInv, Grows
<1>5. ASSUME NEW between, EndsSettled(between) PROVE Grows /\ terminal'
  BY <1>3, <1>5 DEF EndsSettled, EndsAs
<1>6. ASSUME NEW cause, EndsResolved(cause) PROVE Grows /\ terminal'
  BY <1>3, <1>6 DEF EndsResolved, EndsAs
<1>. QED
  BY <1>2, <1>3, <1>4, <1>5, <1>6
     DEF DataStep, Kept, DeniesRest, Reports, StartsTool, SettlesTool, EndsBare, AsksClient, DeniesCall, AnswersEntry

\* The types of what the data steps change.
LEMMA DataTypes ==
  ASSUME TypeOK, BeginInv, ToolInv, PendingInv, DataStep
  PROVE  /\ terminal' \in BOOLEAN /\ running' \in Seq(Tools) /\ settled' \subseteq Tools
         /\ pending' \in Seq([id : RequestIds, call : Calls])
         /\ calls' \in [Calls -> CallSteps]
<1>. DEFINE E == [id : RequestIds, call : Calls]
<1>1. /\ terminal \in BOOLEAN /\ running \in Seq(Tools) /\ settled \subseteq Tools
      /\ pending \in Seq(E) /\ calls \in [Calls -> CallSteps] /\ Len(pending) \in Nat
  BY DEF TypeOK
<1>2. ToSet(running) \subseteq Tools /\ <<>> \in Seq(Tools) /\ <<>> \in Seq(E)
  BY <1>1, ToSetIs
<1>3. Denied \in [Calls -> CallSteps]
  BY <1>1 DEF Denied, CallSteps
<1>4. ASSUME NEW t \in Tools, StartsTool(t)
      PROVE  running' \in Seq(Tools)
  BY <1>1, <1>4 DEF StartsTool
<1>5. ASSUME NEW t \in Tools, SettlesTool(t)
      PROVE  running' \in Seq(Tools) /\ settled' \subseteq Tools
  BY <1>1, <1>5, RemoveFirstIs DEF SettlesTool, ToolInv
<1>6. ASSUME NEW c \in Calls, AsksClient(c)
      PROVE  pending' \in Seq(E) /\ calls' \in [Calls -> CallSteps]
  <2>. DEFINE e == [id |-> RequestId(c), call |-> c]
  <2>1. e \in E
    BY <1>6, RequestIdIs DEF AsksClient
  <2>2. calls' \in [Calls -> CallSteps]
    BY <1>1, <1>6 DEF AsksClient, CallSteps
  <2>3. \/ pending' = [i \in 1..Len(pending) |-> IF pending[i].id = RequestId(c) THEN e ELSE pending[i]]
        \/ pending' = Append(pending, e)
    BY <1>6 DEF AsksClient, WithEntry
  <2>. HIDE DEF E, e
  <2>4. CASE pending' = [i \in 1..Len(pending) |-> IF pending[i].id = RequestId(c) THEN e ELSE pending[i]]
    <3>1. \A i \in 1..Len(pending) : pending'[i] \in E
      BY <1>1, <2>1, <2>4
    <3>. QED  BY <1>1, <2>2, <2>4, <3>1
  <2>5. CASE pending' = Append(pending, e)
    BY <1>1, <2>1, <2>2, <2>5
  <2>. QED  BY <2>3, <2>4, <2>5
<1>7. ASSUME NEW i \in 1..Len(pending), AnswersEntry(i)
      PROVE  pending' \in Seq(E) /\ calls' \in [Calls -> CallSteps]
  <2>1. calls' \in [Calls -> CallSteps]
    BY <1>1, <1>7 DEF AnswersEntry, CallSteps
  <2>. HIDE DEF E
  <2>2. pending' \in Seq(E)
    BY <1>1, <1>7, RemoveAtAt DEF AnswersEntry
  <2>. QED  BY <2>1, <2>2
<1>8. ASSUME NEW c \in Calls, DeniesCall(c)
      PROVE  calls' \in [Calls -> CallSteps]
  BY <1>1, <1>8 DEF DeniesCall, CallSteps
<1>. HIDE DEF E
<1>9. /\ terminal' \in BOOLEAN /\ running' \in Seq(Tools) /\ settled' \subseteq Tools
      /\ pending' \in Seq(E) /\ calls' \in [Calls -> CallSteps]
  <2>1. CASE Kept \/ Starts \/ DeniesRest \/ \E type \in {"session.initialized", "assistant"} : Reports(type)
    BY <1>1, <1>2, <1>3, <2>1 DEF Kept, Starts, DeniesRest, Reports
  <2>2. CASE \E t \in Tools : StartsTool(t) \/ SettlesTool(t)
    BY <1>1, <1>4, <1>5, <2>2 DEF StartsTool, SettlesTool
  <2>3. CASE EndsSettled(<<>>) \/ EndsSettled(<<Event("usage.updated", NoId)>>) \/ EndsBare
    BY <1>1, <1>2, <2>3 DEF EndsSettled, EndsBare
  <2>4. CASE \E cause \in {"run", "idle", "authentication", "cancel"} : EndsResolved(cause)
    BY <1>1, <1>2, <1>3, <2>4 DEF EndsResolved
  <2>5. CASE \E c \in Calls : AsksClient(c) \/ DeniesCall(c)
    BY <1>1, <1>6, <1>8, <2>5 DEF AsksClient, DeniesCall
  <2>6. CASE \E i \in 1..Len(pending) : AnswersEntry(i)
    BY <1>1, <1>7, <2>6 DEF AnswersEntry
  <2>. QED  BY <2>1, <2>2, <2>3, <2>4, <2>5, <2>6 DEF DataStep
<1>. QED  BY <1>9 DEF E

\* What the managed run is after an event has passed.
LEMMA PassedIs ==
  ASSUME TypeOK, NEW e, e.type \in InteractionTypes => e.id \in RequestIds
  PROVE  /\ Passed(core, e) \in CoreType(RequestIds)
         /\ Passed(core, e).started = TRUE
         /\ Passed(core, e).pending =
              IF e.type = "interaction.requested" THEN core.pending \cup {e.id}
              ELSE IF e.type = "interaction.resolved" THEN core.pending \ {e.id}
              ELSE core.pending
         /\ Passed(core, e).terminalSeen = (e.type \in Terminals)
         /\ Passed(core, e).answered = core.answered
<1>. DEFINE p == CASE e.type = "interaction.requested" -> core.pending \cup {e.id}
                   [] e.type = "interaction.resolved" -> core.pending \ {e.id}
                   [] OTHER -> core.pending
<1>1. core \in CoreType(RequestIds)
  BY DEF TypeOK
<1>2. p = IF e.type = "interaction.requested" THEN core.pending \cup {e.id}
          ELSE IF e.type = "interaction.resolved" THEN core.pending \ {e.id}
          ELSE core.pending
  OBVIOUS
<1>3. p \in SUBSET RequestIds
  BY <1>1, <1>2 DEF CoreType, InteractionTypes
<1>4. Passed(core, e) = [core EXCEPT !.started = TRUE, !.pending = p, !.terminalSeen = e.type \in Terminals]
  BY DEF Passed
<1>. HIDE DEF p
<1>5. (e.type \in Terminals) \in BOOLEAN
  OBVIOUS
<1>. QED  BY <1>1, <1>2, <1>3, <1>4, <1>5 DEF CoreType

\* What the managed run is after it got an event.
LEMMA TakeIs ==
  ASSUME TypeOK, NEW e, e.type \in InteractionTypes => e.id \in RequestIds, Take(e)
  PROVE  /\ core' \in CoreType(RequestIds) /\ broken' \in BOOLEAN /\ generator' = "yielded"
         /\ \/ Admits(core, e) /\ core' = Passed(core, e) /\ broken' = broken
            \/ ~Admits(core, e) /\ core' = core /\ broken' = TRUE
  <1>1. core \in CoreType(RequestIds) /\ broken \in BOOLEAN
    BY DEF TypeOK
  <1>. QED  BY <1>1, PassedIs DEF Take

\* The events that the managed run gets.
LEMMA BeginTakes ==
  ASSUME TypeOK, BeginInv, Begin
  PROVE  /\ generator = "idle" /\ UNCHANGED <<cancelled, failure, tools, pending, calls, stop>>
         /\ \/ /\ read' = 1 /\ Take(Event("run.started", NoId)) /\ producer' \in {"waiting", "off"}
               /\ disposed' = disposed /\ generator' = "yielded" /\ stream' # <<>>
               /\ producer' = "off" => terminal'
               /\ stream'[1] = Event("run.started", NoId) /\ Len(stream') \in 1..2
            \/ /\ read' = read /\ broken' = broken /\ generator' = "done" /\ producer' = producer /\ disposed' = TRUE
               /\ core' = [core EXCEPT !.disposed = TRUE]
               /\ UNCHANGED <<stream, terminal>>
<1>1. producer = "off" /\ generator = "idle" /\ UNCHANGED <<cancelled, failure, tools, pending, calls, stop>>
  BY DEF Begin, BeginInv
<1>. DEFINE a == Event("run.started", NoId)
            b == Event("run.failed", "query")
<1>2. CASE /\ stream' = <<a>> /\ read' = 1 /\ Take(a)
           /\ producer' = "waiting" /\ UNCHANGED <<terminal, disposed>>
  <2>1. stream' # <<>> /\ stream'[1] = a /\ Len(stream') \in 1..2
    BY <1>2
  <2>2. generator' = "yielded"
    BY <1>2 DEF Take
  <2>. QED  BY <1>1, <1>2, <2>1, <2>2
<1>3. CASE /\ stream' = <<a, b>> /\ read' = 1 /\ Take(a)
           /\ terminal' = TRUE /\ UNCHANGED <<producer, disposed>>
  <2>1. stream' # <<>> /\ stream'[1] = a /\ Len(stream') \in 1..2
    BY <1>3
  <2>2. generator' = "yielded"
    BY <1>3 DEF Take
  <2>. QED  BY <1>1, <1>3, <2>1, <2>2
<1>4. CASE /\ generator' = "done"
           /\ core' = [core EXCEPT !.disposed = TRUE] /\ disposed' = TRUE
           /\ UNCHANGED <<stream, read, broken, producer, terminal>>
  BY <1>1, <1>4
<1>. QED  BY <1>1, <1>2, <1>3, <1>4 DEF Begin

\* Every step has one of these effects on what the managed run and the generator are.
Steers ==
  \/ UNCHANGED <<core, generator, read, broken, producer>>
  \/ Begin
  \/ Deliver
  \/ UNCHANGED <<core, read, broken, producer>> /\ QueueEnds /\ generator' = "settling"
  \/ UNCHANGED <<core, read, broken, producer>> /\ Close /\ generator' = "closing"
  \/ UNCHANGED <<read, broken, producer>> /\ Finish /\ generator' = "done" /\ core' = [core EXCEPT !.disposed = TRUE]
  \/ UNCHANGED <<core, generator, read, broken>> /\ producer = "waiting" /\ producer' = "done" /\ terminal'
  \/ /\ UNCHANGED <<generator, read, broken, producer>> /\ Active
     /\ \E i \in 1..Len(pending) : core' = Answered(core, pending[i].id)
  \/ UNCHANGED <<generator, read, broken, producer>> /\ core' = [core EXCEPT !.cancelSent = TRUE]
  \/ UNCHANGED <<generator, read, broken, producer>> /\ core' = [core EXCEPT !.disposed = TRUE]

\* Every step steers the generator and the managed run in one of these ways.
LEMMA NextSteers ==
  ASSUME Next
  PROVE  Steers
<1>1. CASE Begin \/ Deliver
  BY <1>1 DEF Steers
<1>2. CASE QueueEnds
  BY <1>2 DEF QueueEnds, Steers
<1>3. CASE Close
  BY <1>3 DEF Close, Steers
<1>4. CASE Finish
  BY <1>4 DEF Finish, Steers
<1>5. CASE VendorStopped \/ Initialize \/ Report \/ LegacyAuthenticationFailure
  BY <1>5 DEF VendorStopped, Initialize, Report, LegacyAuthenticationFailure, position, Steers
<1>6. ASSUME NEW t \in Tools, StartTool(t) \/ SettleTool(t) PROVE Steers
  BY <1>6 DEF StartTool, SettleTool, position, Steers
<1>7. CASE VendorFails \/ VendorResult \/ VendorEnds \/ ProducerStops
  BY <1>7 DEF VendorFails, VendorResult, VendorEnds, ProducerStops, SettleAndEnd, Consuming, position, outcome, Steers
<1>8. ASSUME NEW kind \in {"run", "idle", "authentication"}, Timeout(kind) PROVE Steers
  BY <1>8 DEF Timeout, ResolveAndEnd, Consuming, position, Steers
<1>9. ASSUME NEW c \in Calls, Ask(c) PROVE Steers
  BY <1>9 DEF Ask, CanUseTool, DenyAtOnce, position, Steers
<1>10. ASSUME NEW i \in 1..Len(pending), NEW action \in {"allow", "submit", "deny"}, Respond(i, action) PROVE Steers
  BY <1>10 DEF Respond, Steers
<1>11. CASE Cancel \/ Dispose
  BY <1>11 DEF Cancel, Dispose, Steers
<1>. QED
  BY <1>1, <1>2, <1>3, <1>4, <1>5, <1>6, <1>7, <1>8, <1>9, <1>10, <1>11 DEF Next, Generate, Produce, Supervise

\* The flags of a run are Booleans.
LEMMA FlagTypes ==
  ASSUME TypeOK, BeginInv, Next
  PROVE  /\ cancelled' \in BOOLEAN /\ failure' \in BOOLEAN /\ disposed' \in BOOLEAN
         /\ stop' \in {"no", "stopping", "stopped"}
<1>1. /\ cancelled \in BOOLEAN /\ failure \in BOOLEAN /\ disposed \in BOOLEAN
      /\ stop \in {"no", "stopping", "stopped"} /\ Stopping \in {"no", "stopping", "stopped"}
  BY DEF TypeOK, Stopping
<1>2. CancelRuntime => cancelled' \in {cancelled, TRUE} /\ stop' \in {stop, Stopping}
  BY CancelCases
<1>3. CASE Begin
  BY <1>1, <1>3 DEF Begin
<1>4. CASE Deliver \/ QueueEnds \/ Finish \/ VendorStopped
  BY <1>1, <1>4 DEF Deliver, QueueEnds, Finish, VendorStopped, outcome
<1>5. CASE Close
  BY <1>1, <1>2, <1>5 DEF Close, outcome
<1>6. CASE Initialize \/ Report \/ LegacyAuthenticationFailure
  BY <1>1, <1>6 DEF Initialize, Report, LegacyAuthenticationFailure, outcome
<1>7. ASSUME NEW t \in Tools, StartTool(t) \/ SettleTool(t)
      PROVE  /\ cancelled' \in BOOLEAN /\ failure' \in BOOLEAN /\ disposed' \in BOOLEAN
             /\ stop' \in {"no", "stopping", "stopped"}
  BY <1>1, <1>7 DEF StartTool, SettleTool, outcome
<1>8. CASE VendorFails \/ VendorResult \/ VendorEnds \/ ProducerStops
  BY <1>1, <1>8 DEF VendorFails, VendorResult, VendorEnds, ProducerStops, outcome
<1>9. ASSUME NEW kind \in {"run", "idle", "authentication"}, Timeout(kind)
      PROVE  /\ cancelled' \in BOOLEAN /\ failure' \in BOOLEAN /\ disposed' \in BOOLEAN
             /\ stop' \in {"no", "stopping", "stopped"}
  BY <1>1, <1>9 DEF Timeout, ResolveAndEnd
<1>10. ASSUME NEW c \in Calls, Ask(c)
       PROVE  /\ cancelled' \in BOOLEAN /\ failure' \in BOOLEAN /\ disposed' \in BOOLEAN
              /\ stop' \in {"no", "stopping", "stopped"}
  BY <1>1, <1>10 DEF Ask, CanUseTool, DenyAtOnce, outcome
<1>11. ASSUME NEW i \in 1..Len(pending), NEW action \in {"allow", "submit", "deny"}, Respond(i, action)
       PROVE  /\ cancelled' \in BOOLEAN /\ failure' \in BOOLEAN /\ disposed' \in BOOLEAN
              /\ stop' \in {"no", "stopping", "stopped"}
  BY <1>1, <1>11 DEF Respond, outcome
<1>12. CASE Cancel \/ Dispose
  BY <1>1, <1>2, <1>12 DEF Cancel, Dispose
<1>. QED
  BY <1>3, <1>4, <1>5, <1>6, <1>7, <1>8, <1>9, <1>10, <1>11, <1>12 DEF Next, Generate, Produce, Supervise

\* The event that the managed run gets next is about a request id if it is an interaction.
LEMMA DeliverTakes ==
  ASSUME TypeOK, StreamInv, Deliver
  PROVE  /\ stream[read + 1].type \in InteractionTypes => stream[read + 1].id \in RequestIds
         /\ Take(stream[read + 1]) /\ read' = read + 1 /\ read + 1 \in 1..Len(stream)
         /\ ~broken /\ generator = "yielded" /\ producer' = producer
BY DEF Deliver, StreamInv, TypeOK

\* The types hold after every step.
LEMMA TypeStep ==
  ASSUME TypeOK, BeginInv, StreamInv, ToolInv, PendingInv, Next, DataStep
  PROVE  TypeOK'
<1>1. /\ core \in CoreType(RequestIds) /\ generator \in GeneratorSteps /\ producer \in {"off", "waiting", "done"}
      /\ broken \in BOOLEAN /\ read \in 0..Len(stream) /\ Len(stream) \in Nat
  BY DEF TypeOK
<1>2. Grows /\ Len(stream') \in Nat
  BY StreamGrows DEF Grows
<1>3. read \in 0..Len(stream')
  BY <1>1, <1>2 DEF Grows
<1>4. /\ core' \in CoreType(RequestIds) /\ generator' \in GeneratorSteps
      /\ producer' \in {"off", "waiting", "done"}
      /\ broken' \in BOOLEAN /\ read' \in 0..Len(stream')
  <2>1. CASE Begin
    <3>1. Take(Event("run.started", NoId)) => core' \in CoreType(RequestIds) /\ broken' \in BOOLEAN
      <4>. DEFINE e == Event("run.started", NoId)
      <4>1. e.type \notin InteractionTypes
        BY DEF Event, InteractionTypes
      <4>. HIDE DEF e
      <4>2. Take(e) => core' \in CoreType(RequestIds) /\ broken' \in BOOLEAN
        BY <4>1, TakeIs
      <4>. QED  BY <4>2 DEF e
    <3>2. CASE /\ read' = 1 /\ Take(Event("run.started", NoId)) /\ producer' \in {"waiting", "off"}
               /\ generator' = "yielded" /\ Len(stream') \in 1..2
      BY <1>2, <3>1, <3>2 DEF GeneratorSteps
    <3>3. CASE /\ read' = read /\ broken' = broken /\ generator' = "done" /\ producer' = producer
               /\ core' = [core EXCEPT !.disposed = TRUE]
      BY <1>1, <1>3, <3>3 DEF GeneratorSteps, CoreType
    <3>. QED  BY <2>1, <3>2, <3>3, BeginTakes
  <2>2. CASE Deliver
    <3>. DEFINE e == stream[read + 1]
    <3>1. e.type \in InteractionTypes => e.id \in RequestIds
      BY <2>2, DeliverTakes
    <3>2. Take(e) /\ read' = read + 1 /\ read + 1 \in 1..Len(stream) /\ producer' = producer
      BY <2>2, DeliverTakes
    <3>. HIDE DEF e
    <3>3. core' \in CoreType(RequestIds) /\ broken' \in BOOLEAN /\ generator' = "yielded"
      BY <3>1, <3>2, TakeIs
    <3>. QED  BY <1>1, <1>2, <3>2, <3>3 DEF GeneratorSteps, Grows
  <2>3. CASE UNCHANGED <<core, read, broken>> /\ generator' \in GeneratorSteps /\ producer' \in {producer, "done"}
    BY <1>1, <1>3, <2>3
  <2>4. ASSUME NEW i \in 1..Len(pending), core' = Answered(core, pending[i].id),
               UNCHANGED <<generator, read, broken, producer>>
        PROVE  core' \in CoreType(RequestIds)
    <3>1. pending[i].id \in RequestIds
      BY PendingEntries
    <3>. QED  BY <1>1, <2>4, <3>1 DEF Answered, CoreType
  <2>5. CASE /\ UNCHANGED <<read, broken, producer>> /\ generator' \in {generator, "done"}
             /\ core' = [core EXCEPT !.cancelSent = TRUE] \/ core' = [core EXCEPT !.disposed = TRUE]
    BY <1>1, <1>3, <2>5 DEF CoreType, GeneratorSteps
  <2>6. Steers
    BY NextSteers
  <2>. QED  BY <1>1, <1>3, <2>1, <2>2, <2>3, <2>4, <2>5, <2>6 DEF Steers, GeneratorSteps
<1>. QED  BY <1>2, <1>4, FlagTypes, DataTypes DEF TypeOK, Grows

\* A run without a query does nothing after its beginning.
LEMMA OffStays ==
  ASSUME BeginInv, producer = "off", DataStep, ~Begin
  PROVE  UNCHANGED <<stream, terminal, running, settled, pending>>
<1>1. ASSUME NEW new, Extends(new), ~terminal PROVE FALSE
  BY <1>1 DEF Extends, BeginInv
<1>2. ASSUME NEW between, EndsSettled(between) PROVE FALSE
  BY <1>1, <1>2 DEF EndsSettled, EndsAs
<1>3. ASSUME NEW cause, EndsResolved(cause) PROVE FALSE
  BY <1>1, <1>3 DEF EndsResolved, EndsAs
<1>4. ASSUME NEW i \in 1..Len(pending) PROVE FALSE
  BY DEF BeginInv
<1>. QED
  BY <1>1, <1>2, <1>3, <1>4
     DEF DataStep, Kept, Starts, DeniesRest, Reports, StartsTool, SettlesTool, EndsBare, AsksClient,
         DeniesCall, BeginInv

\* A run that was not begun, or has no query, has nothing after any step.
LEMMA BeginStep ==
  ASSUME TypeOK, BeginInv, StreamInv, Next, DataStep
  PROVE  BeginInv'
<1>1. CASE Begin
  <2>1. producer = "off" /\ running = <<>> /\ settled = {} /\ pending = <<>> /\ stream = <<>> /\ ~terminal
    BY <1>1 DEF Begin, BeginInv
  <2>2. running' = <<>> /\ settled' = {} /\ pending' = <<>>
    BY <1>1, <2>1 DEF Begin, tools
  <2>3. \/ /\ producer' \in {"waiting", "off"} /\ generator' = "yielded" /\ stream' # <<>>
           /\ producer' = "off" => terminal'
        \/ producer' = "off" /\ generator' = "done" /\ stream' = <<>> /\ ~terminal'
    BY <1>1, <2>1, BeginTakes
  <2>. QED  BY <2>2, <2>3 DEF BeginInv
<1>2. CASE ~Begin
  <2>1. Steers /\ Grows
    BY NextSteers, StreamGrows
  <2>2. generator' = "idle" => generator = "idle" /\ UNCHANGED <<read, broken, producer>>
    <3>1. Deliver => generator' = "yielded"
      BY DEF Deliver, Take
    <3>2. Active => generator # "idle"
      BY DEF Active, BeginInv
    <3>3. producer = "waiting" => generator # "idle"
      BY DEF BeginInv
    <3>. QED  BY <1>2, <2>1, <3>1, <3>2, <3>3 DEF Steers
  <2>3. CASE producer = "off"
    <3>1. UNCHANGED <<stream, terminal, running, settled, pending>>
      BY <1>2, <2>3, OffStays
    <3>2. producer' = "off" /\ generator' \in {"idle", "yielded", "done"}
      BY <1>2, <2>1, <2>3 DEF Steers, Deliver, Take, QueueEnds, Close, Active, BeginInv
    <3>3. generator' = "idle" => \/ UNCHANGED <<core>>
                                 \/ core' = [core EXCEPT !.cancelSent = TRUE]
                                 \/ core' = [core EXCEPT !.disposed = TRUE]
      BY <1>2, <2>1, <2>3 DEF Steers, Deliver, Take, Active
    <3>4. generator' = "idle" => ~core'.started /\ ~core'.terminalSeen /\ core'.pending = {}
      BY <2>2, <3>3 DEF BeginInv, TypeOK, CoreType
    <3>. QED  BY <2>2, <2>3, <3>1, <3>2, <3>4 DEF BeginInv
  <2>4. CASE producer # "off"
    <3>1. producer' # "off"
      BY <1>2, <2>1, <2>4 DEF Steers, Deliver
    <3>2. stream # <<>> /\ generator # "idle"
      BY <2>4 DEF BeginInv
    <3>3. stream' # <<>>
      BY <2>1, <3>2 DEF Grows, TypeOK
    <3>. QED  BY <2>2, <3>1, <3>2, <3>3 DEF BeginInv
  <2>. QED  BY <2>3, <2>4
<1>. QED  BY <1>1, <1>2

\* A run that the producer or the generator has left has its terminal event after
\* every step.
LEMMA OverStep ==
  ASSUME TypeOK, BeginInv, OverInv, Next, DataStep
  PROVE  OverInv'
<1>1. CASE Begin
  <2>1. producer = "off" /\ stream = <<>> /\ ~terminal
    BY <1>1 DEF Begin, BeginInv
  <2>2. \/ producer' \in {"waiting", "off"} /\ generator' = "yielded" /\ stream' # <<>>
        \/ producer' = "off" /\ generator' = "done" /\ stream' = <<>> /\ ~terminal'
    BY <1>1, <2>1, BeginTakes
  <2>. QED  BY <2>2 DEF OverInv
<1>2. CASE ~Begin
  <2>1. Steers /\ Grows /\ (terminal => terminal')
    BY NextSteers, StreamGrows
  <2>2. stream = <<>> => UNCHANGED <<stream, terminal>>
    BY <1>2, OffStays DEF BeginInv
  <2>3. stream # <<>> => stream' # <<>>
    BY <2>1 DEF Grows, TypeOK
  <2>4. producer' = "done" => terminal'
    BY <1>2, <2>1 DEF Steers, Deliver, OverInv
  <2>5. generator' \in {"settling", "closing"} => terminal'
    <3>1. Close => terminal'
      BY <2>1 DEF Close, CancelRuntime, ResolveAndEnd, OverInv
    <3>2. QueueEnds => terminal
      BY DEF QueueEnds
    <3>. QED  BY <1>2, <2>1, <3>1, <3>2 DEF Steers, Deliver, Take, OverInv
  <2>6. generator' = "done" /\ stream' # <<>> => terminal'
    <3>1. Finish /\ stream' # <<>> => terminal
      BY DEF Finish, OverInv, BeginInv
    <3>. QED  BY <1>2, <2>1, <2>2, <3>1 DEF Steers, Deliver, Take, OverInv
  <2>7. terminal' => stream' # <<>>
    BY <2>2, <2>3 DEF OverInv
  <2>. QED  BY <2>4, <2>5, <2>6, <2>7 DEF OverInv
<1>. QED  BY <1>1, <1>2

\* A call with an id of its own is allowed by an answer only, after every step.
LEMMA AllowedStep ==
  ASSUME TypeOK, BeginInv, StreamInv, PendingInv, AllowedInv, Next, DataStep
  PROVE  AllowedInv'
<1>1. core.answered \subseteq core'.answered
  <2>1. Steers /\ core \in CoreType(RequestIds)
    BY NextSteers DEF TypeOK
  <2>2. ASSUME NEW e, Take(e) PROVE core.answered \subseteq core'.answered
    BY <2>1, <2>2 DEF Take, Passed, CoreType
  <2>3. CASE Begin
    BY <2>1, <2>2, <2>3 DEF Begin, CoreType
  <2>4. CASE Deliver
    BY <2>2, <2>4 DEF Deliver
  <2>. QED  BY <2>1, <2>3, <2>4 DEF Steers, Answered, CoreType
<1>. SUFFICES ASSUME NEW c \in NamedCalls, calls'[c] = "allowed", calls[c] # "allowed"
     PROVE  c \in core'.answered
  BY <1>1 DEF AllowedInv
<1>2. c \in Calls /\ calls \in [Calls -> CallSteps]
  BY DEF Calls, TypeOK
<1>3. \E i \in 1..Len(pending) : AnswersEntry(i)
  <2>1. calls' # Denied
    BY <1>2 DEF Denied
  <2>2. \A d \in Calls : ~AsksClient(d)
    BY <1>2 DEF AsksClient
  <2>3. \A d \in Calls : ~DeniesCall(d)
    BY <1>2 DEF DeniesCall
  <2>. QED
    BY <2>1, <2>2, <2>3 DEF DataStep, Kept, Starts, DeniesRest, Reports, StartsTool, SettlesTool, EndsSettled,
                            EndsResolved, EndsBare
<1>4. PICK i \in 1..Len(pending) : AnswersEntry(i)
  BY <1>3
<1>5. c = pending[i].call
  BY <1>2, <1>4 DEF AnswersEntry
<1>6. pending[i].id = c
  BY <1>5 DEF PendingInv
<1>. QED  BY <1>4, <1>6 DEF AnswersEntry, Answered, TypeOK, CoreType

\* A call with an id of its own is orphaned only when it comes late, after every step.
LEMMA OrphanStep ==
  ASSUME TypeOK, PendingInv, OrphanInv, Next, DataStep
  PROVE  OrphanInv'
<1>1. generator = "done" => generator' = "done"
  <2>1. Steers
    BY NextSteers
  <2>. QED  BY <2>1 DEF Steers, Begin, Deliver, QueueEnds, Close, Finish
<1>. SUFFICES ASSUME NEW c \in NamedCalls, calls'[c] = "orphaned", calls[c] # "orphaned"
     PROVE  generator = "done"
  BY <1>1 DEF OrphanInv
<1>2. c \in Calls /\ calls \in [Calls -> CallSteps]
  BY DEF Calls, TypeOK
<1>3. \E d \in Calls : AsksClient(d)
  <2>1. calls' # Denied
    BY <1>2 DEF Denied
  <2>2. \A d \in Calls : ~DeniesCall(d)
    BY <1>2 DEF DeniesCall
  <2>3. \A i \in 1..Len(pending) : ~AnswersEntry(i)
    BY <1>2 DEF AnswersEntry
  <2>. QED
    BY <2>1, <2>2, <2>3 DEF DataStep, Kept, Starts, DeniesRest, Reports, StartsTool, SettlesTool, EndsSettled,
                            EndsResolved, EndsBare
<1>4. PICK d \in Calls : AsksClient(d)
  BY <1>3
<1>5. c \notin Replaced(d)
  <2>. SUFFICES ASSUME c \in Replaced(d) PROVE FALSE
    OBVIOUS
  <2>1. PICK i \in 1..Len(pending) : pending[i] = [id |-> RequestId(d), call |-> c]
    BY DEF Replaced
  <2>2. pending[i].id = RequestId(d) /\ pending[i].call = c
    BY <2>1
  <2>3. RequestId(d) = c /\ calls[c] # "unasked"
    BY <2>2 DEF PendingInv
  <2>4. calls[d] = "unasked"
    BY <1>4 DEF AsksClient
  <2>5. d \notin NamedCalls /\ RequestId(d) \in Range(NumberedIds)
    BY <2>3, <2>4, RequestIdIs
  <2>. QED  BY <2>3, <2>5, NumberedIdsAssumption
<1>. QED  BY <1>2, <1>4, <1>5 DEF AsksClient

-----------------------------------------------------------------------------
(* What the managed run knows.                                             *)

\* What is open after one more event.
LEMMA OpenAfterOne ==
  ASSUME NEW s, NEW n \in Nat, NEW q
  PROVE  OpenIn(s, n + 1, q) <=>
           \/ s[n + 1] = Event("interaction.requested", q)
           \/ OpenIn(s, n, q) /\ s[n + 1] # Event("interaction.resolved", q)
<1>. DEFINE asked == Event("interaction.requested", q)
            answered == Event("interaction.resolved", q)
<1>0. asked # answered
  BY DEF Event
<1>. HIDE DEF asked, answered
<1>1. ASSUME OpenIn(s, n + 1, q), s[n + 1] # asked
      PROVE  OpenIn(s, n, q) /\ s[n + 1] # answered
  <2>1. PICK i \in 1..n + 1 : s[i] = asked /\ \A j \in i + 1..n + 1 : s[j] # answered
    BY <1>1 DEF OpenIn, asked, answered
  <2>2. i \in 1..n /\ n + 1 \in i + 1..n + 1
    BY <1>1, <2>1
  <2>3. \A j \in i + 1..n : j \in i + 1..n + 1
    OBVIOUS
  <2>. QED  BY <2>1, <2>2, <2>3 DEF OpenIn, asked, answered
<1>2. ASSUME s[n + 1] = asked
      PROVE  OpenIn(s, n + 1, q)
  <2>1. n + 1 \in 1..n + 1 /\ \A j \in n + 1 + 1..n + 1 : FALSE
    OBVIOUS
  <2>. QED  BY <1>2, <2>1 DEF OpenIn, asked
<1>3. ASSUME OpenIn(s, n, q), s[n + 1] # answered
      PROVE  OpenIn(s, n + 1, q)
  <2>1. PICK i \in 1..n : s[i] = asked /\ \A j \in i + 1..n : s[j] # answered
    BY <1>3 DEF OpenIn, asked, answered
  <2>2. i \in 1..n + 1 /\ \A j \in i + 1..n + 1 : j \in i + 1..n \/ j = n + 1
    OBVIOUS
  <2>. QED  BY <1>3, <2>1, <2>2 DEF OpenIn, asked, answered
<1>. QED  BY <1>1, <1>2, <1>3 DEF asked, answered

\* What is open depends on the first events only.
LEMMA OpenInSame ==
  ASSUME NEW s, NEW r, NEW n \in Nat, NEW q, \A i \in 1..n : r[i] = s[i]
  PROVE  OpenIn(r, n, q) <=> OpenIn(s, n, q)
<1>1. \A i \in 1..n : \A j \in i + 1..n : j \in 1..n
  OBVIOUS
<1>. QED  BY <1>1 DEF OpenIn

\* CoreInv, for a managed run that has passed on the first n events of s.
Knows(c, s, n) ==
  /\ c.started <=> n >= 1
  /\ c.pending = {q \in RequestIds : OpenIn(s, n, q)}
  /\ c.terminalSeen <=> n >= 1 /\ s[n].type \in Terminals

\* What the managed run knows depends on the events that it has passed on and on no others.
LEMMA KnowsSame ==
  ASSUME NEW c, NEW s, NEW r, NEW n \in Nat, \A i \in 1..n : r[i] = s[i], Knows(c, s, n)
  PROVE  Knows(c, r, n)
<1>1. \A q : OpenIn(r, n, q) <=> OpenIn(s, n, q)
  BY OpenInSame
<1>2. n >= 1 => r[n] = s[n]
  OBVIOUS
<1>. QED  BY <1>1, <1>2 DEF Knows

\* One more event has passed.
LEMMA KnowsMore ==
  ASSUME TypeOK, NEW s \in Seq(Events), NEW n \in Nat, n + 1 \in 1..Len(s), Knows(core, s, n),
         s[n + 1].type \in InteractionTypes => s[n + 1].id \in RequestIds
  PROVE  Knows(Passed(core, s[n + 1]), s, n + 1)
<1>. DEFINE e == s[n + 1]
            p == Passed(core, e)
<1>1. e \in Events
  OBVIOUS
<1>2. e.type \in InteractionTypes => e.id \in RequestIds
  OBVIOUS
<1>3. \A type, q : e = Event(type, q) <=> e.type = type /\ e.id = q
  BY <1>1 DEF Events, Event
<1>4. \A q : OpenIn(s, n + 1, q) <=>
               \/ e = Event("interaction.requested", q)
               \/ OpenIn(s, n, q) /\ e # Event("interaction.resolved", q)
  BY OpenAfterOne
<1>. HIDE DEF e
<1>5. /\ p.started = TRUE
      /\ p.pending =
           IF e.type = "interaction.requested" THEN core.pending \cup {e.id}
           ELSE IF e.type = "interaction.resolved" THEN core.pending \ {e.id}
           ELSE core.pending
      /\ p.terminalSeen = (e.type \in Terminals)
  BY <1>2, PassedIs
<1>. HIDE DEF p
<1>6. core.pending = {q \in RequestIds : OpenIn(s, n, q)}
  BY DEF Knows
<1>7. p.pending = {q \in RequestIds : OpenIn(s, n + 1, q)}
  BY <1>2, <1>3, <1>4, <1>5, <1>6 DEF InteractionTypes
<1>8. n + 1 >= 1
  OBVIOUS
<1>. QED  BY <1>5, <1>7, <1>8 DEF Knows, e, p

\* What was passed on.
LEMMA PublishingIs ==
  ASSUME TypeOK, CoreInv
  PROVE  Publishing \in 0..Len(stream) /\ Len(stream) \in Nat /\ Knows(core, stream, Publishing)
BY DEF TypeOK, CoreInv, Publishing, Knows

\* The managed run knows what it has passed on after every step.
LEMMA CoreStep ==
  ASSUME TypeOK, BeginInv, StreamInv, CoreInv, Next, DataStep
  PROVE  CoreInv'
<1>. SUFFICES (broken' => read' >= 1) /\ Knows(core', stream', Publishing')
  BY DEF CoreInv, Knows
<1>1. Grows /\ Steers
  BY StreamGrows, NextSteers
<1>2. Publishing \in 0..Len(stream) /\ Len(stream) \in Nat /\ Knows(core, stream, Publishing) /\ read \in Nat
  BY PublishingIs DEF TypeOK
<1>3. Knows(core, stream', Publishing)
  <2>1. \A i \in 1..Publishing : stream'[i] = stream[i]
    BY <1>1, <1>2 DEF Grows
  <2>. QED  BY <1>2, <2>1, KnowsSame
<1>4. CASE UNCHANGED <<read, broken>> /\ \A f \in {"started", "pending", "terminalSeen"} : core'[f] = core[f]
  <2>1. Publishing' = Publishing
    BY <1>4 DEF Publishing
  <2>2. core'.started = core.started /\ core'.pending = core.pending /\ core'.terminalSeen = core.terminalSeen
    BY <1>4
  <2>. QED  BY <1>3, <1>4, <2>1, <2>2 DEF Knows, CoreInv
<1>5. ASSUME ~broken, Publishing + 1 \in 1..Len(stream'), read' = Publishing + 1, Take(stream'[Publishing + 1]),
             stream'[Publishing + 1].type \in InteractionTypes => stream'[Publishing + 1].id \in RequestIds
      PROVE  (broken' => read' >= 1) /\ Knows(core', stream', Publishing')
  <2>. DEFINE e == stream'[Publishing + 1]
  <2>1. read' >= 1 /\ stream' \in Seq(Events) /\ Publishing \in Nat
    BY <1>1, <1>2, <1>5 DEF Grows
  <2>2. CASE core' = Passed(core, e) /\ broken' = broken
    <3>1. Publishing' = Publishing + 1
      BY <1>5, <2>2 DEF Publishing
    <3>2. Knows(Passed(core, e), stream', Publishing + 1)
      BY <1>3, <1>5, <2>1, KnowsMore
    <3>. QED  BY <2>1, <2>2, <3>1, <3>2
  <2>3. CASE core' = core /\ broken' = TRUE
    <3>1. Publishing' = Publishing
      BY <1>2, <1>5, <2>1, <2>3 DEF Publishing
    <3>. QED  BY <1>3, <2>1, <2>3, <3>1
  <2>. QED  BY <1>5, <2>2, <2>3 DEF Take
<1>6. CASE Begin
  <2>1. Publishing = 0 /\ ~broken /\ core \in CoreType(RequestIds)
    BY <1>6 DEF Begin, BeginInv, Publishing, TypeOK
  <2>2. CASE /\ read' = 1 /\ Take(Event("run.started", NoId))
             /\ stream'[1] = Event("run.started", NoId) /\ Len(stream') \in 1..2
    <3>1. stream'[1].type \notin InteractionTypes
      BY <2>2 DEF Event, InteractionTypes
    <3>2. Publishing + 1 = 1 /\ 1 \in 1..Len(stream')
      BY <2>1, <2>2
    <3>. QED  BY <1>5, <2>1, <2>2, <3>1, <3>2
  <2>3. CASE UNCHANGED <<read, broken>> /\ core' = [core EXCEPT !.disposed = TRUE]
    BY <1>4, <2>1, <2>3 DEF CoreType
  <2>. QED  BY <1>6, <2>2, <2>3, BeginTakes
<1>7. CASE Deliver
  <2>1. /\ stream[read + 1].type \in InteractionTypes => stream[read + 1].id \in RequestIds
        /\ Take(stream[read + 1]) /\ read' = read + 1 /\ read + 1 \in 1..Len(stream) /\ ~broken
    BY <1>7, DeliverTakes
  <2>2. Publishing = read /\ stream' = stream
    BY <1>7, <2>1 DEF Publishing, Deliver
  <2>. QED  BY <1>5, <2>1, <2>2
<1>8. core \in CoreType(RequestIds)
  BY DEF TypeOK
<1>. QED  BY <1>1, <1>4, <1>6, <1>7, <1>8 DEF Steers, Answered, CoreType

-----------------------------------------------------------------------------
(* The invariant of a CodeBuddy run.                                       *)

\* The invariant holds of a run that nobody has begun.
LEMMA InvariantInit ==
  ASSUME Init
  PROVE  IInv
<1>1. /\ stream = <<>> /\ running = <<>> /\ pending = <<>> /\ settled = {}
      /\ Len(stream) = 0 /\ Len(running) = 0 /\ Len(pending) = 0
  BY DEF Init
<1>2. TypeOK
  <2>1. NewCore \in CoreType(RequestIds)
    BY DEF NewCore, CoreType
  <2>2. <<>> \in Seq(Events) /\ <<>> \in Seq(Tools) /\ <<>> \in Seq([id : RequestIds, call : Calls])
    OBVIOUS
  <2>3. calls \in [Calls -> CallSteps]
    BY DEF Init, CallSteps
  <2>4. core \in CoreType(RequestIds)
    BY <2>1 DEF Init
  <2>5. read \in 0..Len(stream)
    <3>1. read = 0
      BY DEF Init
    <3>. QED  BY <1>1, <3>1
  <2>6. /\ generator \in GeneratorSteps /\ producer \in {"off", "waiting", "done"}
        /\ broken \in BOOLEAN /\ terminal \in BOOLEAN /\ cancelled \in BOOLEAN /\ failure \in BOOLEAN
        /\ stop \in {"no", "stopping", "stopped"} /\ disposed \in BOOLEAN
    BY DEF Init, GeneratorSteps
  <2>7. stream \in Seq(Events) /\ running \in Seq(Tools) /\ pending \in Seq([id : RequestIds, call : Calls])
    BY <1>1, <2>2
  <2>. QED  BY <1>1, <2>3, <2>4, <2>5, <2>6, <2>7 DEF TypeOK
<1>3. BeginInv /\ OverInv /\ StreamInv /\ OneTerminalAtTheEnd
  BY <1>1 DEF Init, NewCore, BeginInv, OverInv, StreamInv, OneTerminalAtTheEnd
<1>4. ToolInv
  <2>1. ToSet(running) = {}
    BY <1>1 DEF ToSet
  <2>. QED  BY <1>1, <2>1 DEF ToolInv, ToolOK, Has, Once, Distinct
<1>5. PendingInv /\ ResolveInv
  <2>1. \A c \in Calls : calls[c] = "unasked"
    BY DEF Init
  <2>2. ~terminal
    BY DEF Init
  <2>. QED  BY <1>1, <2>1, <2>2 DEF PendingInv, ResolveInv, Requested
<1>6. AllowedInv /\ OrphanInv
  BY DEF Init, AllowedInv, OrphanInv, Calls
<1>7. CoreInv
  <2>1. Publishing = 0 /\ ~broken /\ core = NewCore
    BY DEF Init, Publishing
  <2>2. \A q : ~OpenIn(stream, 0, q)
    BY DEF OpenIn
  <2>. QED  BY <2>1, <2>2 DEF CoreInv, NewCore
<1>. QED  BY <1>2, <1>3, <1>4, <1>5, <1>6, <1>7 DEF IInv

\* Every step of a CodeBuddy run keeps its invariant.
LEMMA InvariantStep ==
  ASSUME IInv, Next
  PROVE  IInv'
<1>1. /\ TypeOK /\ BeginInv /\ OverInv /\ StreamInv /\ OneTerminalAtTheEnd /\ ToolInv /\ PendingInv
      /\ ResolveInv /\ AllowedInv /\ OrphanInv /\ CoreInv
  BY DEF IInv
<1>2. DataStep /\ Leaves
  BY <1>1, NextIsDataStep
<1>3. TypeOK' /\ BeginInv' /\ OverInv'
  BY <1>1, <1>2, TypeStep, BeginStep, OverStep
<1>4. StreamInv' /\ OneTerminalAtTheEnd' /\ ToolInv'
  BY <1>1, <1>2, OrderStep, ToolStep
<1>5. PendingInv' /\ ResolveInv' /\ AllowedInv' /\ OrphanInv' /\ CoreInv'
  BY <1>1, <1>2, PendingStep, ResolveStep, AllowedStep, OrphanStep, CoreStep
<1>. QED  BY <1>3, <1>4, <1>5 DEF IInv

\* So does a step of the other adapter.
LEMMA InvariantStutter ==
  ASSUME IInv, UNCHANGED vars
  PROVE  IInv'
<1>. USE DEF vars, position, outcome, tools
<1>1. TypeOK' /\ BeginInv' /\ OverInv' /\ AllowedInv' /\ OrphanInv'
  BY DEF IInv, TypeOK, BeginInv, OverInv, AllowedInv, OrphanInv
<1>2. StreamInv' /\ OneTerminalAtTheEnd' /\ ToolInv'
  BY DEF IInv, StreamInv, OneTerminalAtTheEnd, ToolInv
<1>3. PendingInv' /\ ResolveInv'
  BY DEF IInv, PendingInv, ResolveInv, Requested, Resolved
<1>4. CoreInv'
  BY DEF IInv, CoreInv, Publishing
<1>. QED  BY <1>1, <1>2, <1>3, <1>4 DEF IInv

-----------------------------------------------------------------------------
(* What a CodeBuddy run publishes.                                         *)

\* What the supervisor gets for an event of the queue.
Shown(e) == IF e.type \in InteractionTypes THEN e ELSE Event(e.type, NoId)

\* The events that the supervisor was handed are the first ones of the queue.
LEMMA PublishedIs ==
  ASSUME TypeOK, CoreInv
  PROVE  /\ Publishing \in Nat /\ Publishing <= Len(stream) /\ Len(Published) = Publishing
         /\ \A i \in 1..Publishing : i \in 1..Len(stream) /\ Published[i] = Shown(stream[i])
         /\ Published \in Seq(Events)
<1>1. Publishing \in 0..Len(stream) /\ Len(stream) \in Nat
  BY PublishingIs
<1>2. \A i \in 1..Len(stream) : stream[i] \in Events
  BY DEF TypeOK
<1>3. \A e \in Events : Shown(e) \in Events
  BY DEF Shown, Event, Events
<1>4. Published = [i \in 1..Publishing |-> Shown(stream[i])]
  BY DEF Published, Shown
<1>5. \A i \in 1..Publishing : i \in 1..Len(stream)
  BY <1>1
<1>6. \A i \in 1..Publishing : Shown(stream[i]) \in Events
  BY <1>2, <1>3, <1>5
<1>. QED  BY <1>1, <1>4, <1>5, <1>6

\* What is shown of an event has its type, and an interaction is shown as it is.
LEMMA ShownIs ==
  ASSUME NEW e \in Events
  PROVE  /\ Shown(e).type = e.type
         /\ \A type \in InteractionTypes :
              \A q : Shown(e) = [type |-> type, id |-> q] <=> e = Event(type, q)
BY DEF Shown, Event, Events, InteractionTypes

\* An interaction is open for the supervisor when the managed run knows it as pending.
LEMMA OpenIsPending ==
  ASSUME TypeOK, CoreInv, NEW q
  PROVE  RunStreamSpec!IsOpen(q) <=> OpenIn(stream, Publishing, q)
<1>1. /\ Publishing \in Nat /\ Len(Published) = Publishing
      /\ \A i \in 1..Publishing : i \in 1..Len(stream) /\ Published[i] = Shown(stream[i])
  BY PublishedIs
<1>2. \A i \in 1..Publishing : stream[i] \in Events
  BY <1>1 DEF TypeOK
<1>3. ASSUME NEW i \in 1..Publishing
      PROVE  /\ Published[i] = [type |-> "interaction.requested", id |-> q]
                  <=> stream[i] = Event("interaction.requested", q)
             /\ Published[i] = [type |-> "interaction.resolved", id |-> q]
                  <=> stream[i] = Event("interaction.resolved", q)
  BY <1>1, <1>2, ShownIs DEF InteractionTypes
<1>4. \A i \in 1..Publishing : \A j \in i + 1..Publishing : j \in 1..Publishing
  BY <1>1
<1>. QED  BY <1>1, <1>3, <1>4 DEF RunStreamSpec!IsOpen, OpenIn

\* An event that the managed run admits is one that the supervisor may get next.
LEMMA AdmittedIsPublished ==
  ASSUME TypeOK, CoreInv, NEW e \in Events, Admits(core, e),
         e.type = "run.started" <=> Publishing = 0,
         e.type \in InteractionTypes => e.id \in RequestIds,
         Published' = Append(Published, Shown(e))
  PROVE  RunStreamSpec!Next
<1>1. /\ Publishing \in Nat /\ Len(Published) = Publishing /\ Published \in Seq(Events)
      /\ \A i \in 1..Publishing : i \in 1..Len(stream) /\ Published[i] = Shown(stream[i])
  BY PublishedIs
<1>2. core.started <=> Publishing >= 1
  BY DEF CoreInv
<1>3. \A q \in RequestIds : q \in core.pending <=> RunStreamSpec!IsOpen(q)
  BY OpenIsPending DEF CoreInv
<1>4. CASE Publishing = 0
  <2>1. Published = <<>> /\ Shown(e) = [type |-> "run.started", id |-> NoId]
    BY <1>1, <1>4 DEF Shown, InteractionTypes, Event
  <2>. QED  BY <2>1 DEF RunStreamSpec!Next, RunStreamSpec!Start, RunStreamSpec!Publish
<1>5. CASE Publishing # 0
  <2>1. RunStreamSpec!Running
    <3>1. Published # <<>> /\ Publishing \in 1..Publishing
      BY <1>1, <1>5
    <3>2. Published[Len(Published)] = Shown(stream[Publishing]) /\ stream[Publishing] \in Events
      BY <1>1, <3>1 DEF TypeOK
    <3>3. stream[Publishing].type \notin Terminals
      BY <1>1, <1>5 DEF CoreInv, Admits
    <3>. QED  BY <3>1, <3>2, <3>3, ShownIs DEF RunStreamSpec!Running, RunStreamSpec!Terminals, Terminals
  <2>2. CASE e.type = "interaction.requested"
    <3>1. Shown(e) = [type |-> "interaction.requested", id |-> e.id] /\ e.id \in RequestIds
      BY <2>2 DEF Shown, Events, InteractionTypes
    <3>2. ~RunStreamSpec!IsOpen(e.id)
      BY <1>3, <2>2, <3>1 DEF Admits
    <3>3. RunStreamSpec!Request(e.id)
      BY <2>1, <3>1, <3>2 DEF RunStreamSpec!Request, RunStreamSpec!Publish
    <3>. QED  BY <3>1, <3>3 DEF RunStreamSpec!Next
  <2>3. CASE e.type = "interaction.resolved"
    <3>1. Shown(e) = [type |-> "interaction.resolved", id |-> e.id] /\ e.id \in RequestIds
      BY <2>3 DEF Shown, Events, InteractionTypes
    <3>2. RunStreamSpec!IsOpen(e.id)
      BY <1>3, <2>3, <3>1 DEF Admits
    <3>3. RunStreamSpec!Resolve(e.id)
      BY <2>1, <3>1, <3>2 DEF RunStreamSpec!Resolve, RunStreamSpec!Publish
    <3>. QED  BY <3>1, <3>3 DEF RunStreamSpec!Next
  <2>4. CASE e.type \notin InteractionTypes
    <3>1. Published' = Append(Published, [type |-> e.type, id |-> NoId])
      BY <2>4 DEF Shown, Event
    <3>2. CASE e.type \in Terminals
      <4>1. \A q \in RequestIds : ~RunStreamSpec!IsOpen(q)
        BY <1>3, <3>2 DEF Admits
      <4>2. RunStreamSpec!End
        BY <2>1, <3>1, <3>2, <4>1 DEF RunStreamSpec!End, RunStreamSpec!Publish, RunStreamSpec!Terminals, Terminals
      <4>. QED  BY <4>2 DEF RunStreamSpec!Next
    <3>3. CASE e.type \notin Terminals
      <4>1. e.type \in RunStreamSpec!Reports
        BY <1>5, <2>4, <3>3 DEF Events, EventTypes, InteractionTypes, RunStreamSpec!Reports
      <4>2. RunStreamSpec!Report
        BY <2>1, <3>1, <4>1 DEF RunStreamSpec!Report, RunStreamSpec!Publish
      <4>. QED  BY <4>2 DEF RunStreamSpec!Next
    <3>. QED  BY <3>2, <3>3
  <2>. QED  BY <2>2, <2>3, <2>4 DEF InteractionTypes
<1>. QED  BY <1>4, <1>5

\* What is published after a step that passes nothing on.
LEMMA PublishedKept ==
  ASSUME TypeOK, CoreInv, Grows, Publishing' = Publishing
  PROVE  Published' = Published
<1>1. /\ Publishing \in Nat
      /\ \A i \in 1..Publishing : i \in 1..Len(stream)
  BY PublishedIs
<1>2. \A i \in 1..Publishing : stream'[i] = stream[i]
  BY <1>1 DEF Grows
<1>3. Published' = [i \in 1..Publishing |->
                      IF stream'[i].type \in InteractionTypes THEN stream'[i] ELSE Event(stream'[i].type, NoId)]
  BY DEF Published
<1>4. Published' = [i \in 1..Publishing |->
                      IF stream[i].type \in InteractionTypes THEN stream[i] ELSE Event(stream[i].type, NoId)]
  BY <1>2, <1>3
<1>. QED  BY <1>4 DEF Published

\* And after a step that passes on one event.
LEMMA PublishedMore ==
  ASSUME TypeOK, CoreInv, Grows, Publishing' = Publishing + 1, Publishing + 1 \in 1..Len(stream')
  PROVE  Published' = Append(Published, Shown(stream'[Publishing + 1]))
<1>. DEFINE n == Publishing
            e == stream'[n + 1]
            p == [i \in 1..n + 1 |-> Shown(stream'[i])]
            r == Append(Published, Shown(e))
<1>1. /\ n \in Nat /\ Len(Published) = n /\ Published \in Seq(Events)
      /\ \A i \in 1..n : i \in 1..Len(stream) /\ Published[i] = Shown(stream[i])
  BY PublishedIs
<1>2. \A i \in 1..n : stream'[i] = stream[i]
  BY <1>1 DEF Grows
<1>3. Published' = p
  BY DEF Published, Shown
<1>4. e \in Events /\ Shown(e) \in Events
  <2>1. e \in Events
    BY DEF Grows
  <2>. QED  BY <2>1 DEF Shown, Event, Events
<1>. HIDE DEF n, e
<1>5. r \in Seq(Events) /\ Len(r) = n + 1 /\ r[n + 1] = Shown(e) /\ \A i \in 1..n : r[i] = Published[i]
  BY <1>1, <1>4
<1>6. \A i \in 1..n : p[i] = Shown(stream[i])
  BY <1>1, <1>2
<1>7. p[n + 1] = Shown(e)
  BY <1>1 DEF e
<1>8. \A i \in 1..n + 1 : p[i] \in Events
  <2>1. \A i \in 1..n : Published[i] \in Events /\ p[i] = Published[i]
    <3>1. \A i \in 1..n : Published[i] \in Events
      BY <1>1
    <3>2. \A i \in 1..n : p[i] = Published[i]
      BY <1>1, <1>6
    <3>. QED  BY <3>1, <3>2
  <2>2. \A i \in 1..n + 1 : i \in 1..n \/ i = n + 1
    BY <1>1
  <2>. HIDE DEF p
  <2>. QED  BY <1>4, <1>7, <2>1, <2>2
<1>9. p \in Seq(Events) /\ Len(p) = n + 1
  <2>1. p \in [1..n + 1 -> Events] /\ n + 1 \in Nat
    BY <1>1, <1>8
  <2>. HIDE DEF p
  <2>. QED  BY <2>1
<1>. HIDE DEF p, r
<1>10. \A i \in 1..n + 1 : p[i] = r[i]
  BY <1>1, <1>5, <1>6, <1>7
<1>11. p = r
  BY <1>5, <1>9, <1>10, SeqEqual
<1>. QED  BY <1>3, <1>11 DEF r, n, e

\* Every step of a CodeBuddy run publishes what the protocol allows, or nothing.
LEMMA PublishStep ==
  ASSUME IInv, Next
  PROVE  [RunStreamSpec!Next]_Published
<1>1. TypeOK /\ BeginInv /\ OverInv /\ StreamInv /\ OneTerminalAtTheEnd /\ PendingInv /\ CoreInv
  BY DEF IInv
<1>2. DataStep /\ Grows /\ Steers
  BY <1>1, NextIsDataStep, StreamGrows, NextSteers
<1>3. StreamInv' /\ Publishing \in Nat
  BY <1>1, <1>2, OrderStep, PublishedIs
<1>4. CASE UNCHANGED <<read, broken>>
  <2>1. Publishing' = Publishing
    BY <1>4 DEF Publishing
  <2>. QED  BY <1>1, <1>2, <2>1, PublishedKept
<1>5. ASSUME ~broken, Publishing + 1 \in 1..Len(stream'), read = Publishing \/ (read = 0 /\ Publishing = 0),
             read' = Publishing + 1, Take(stream'[Publishing + 1])
      PROVE  [RunStreamSpec!Next]_Published
  <2>. DEFINE n == Publishing
              e == stream'[Publishing + 1]
  <2>1. CASE Admits(core, e)
    <3>1. Publishing' = Publishing + 1
      BY <1>5, <2>1 DEF Publishing, Take
    <3>2. Published' = Append(Published, Shown(e))
      BY <1>1, <1>2, <1>5, <3>1, PublishedMore
    <3>3. e \in Events
      BY <1>2, <1>5 DEF Grows
    <3>4. /\ e.type = "run.started" <=> Publishing = 0
          /\ e.type \in InteractionTypes => e.id \in RequestIds
      BY <1>3, <1>5 DEF StreamInv
    <3>. HIDE DEF e
    <3>. QED  BY <1>1, <2>1, <3>2, <3>3, <3>4, AdmittedIsPublished
  <2>2. CASE ~Admits(core, e)
    <3>1. broken' = TRUE
      BY <1>5, <2>2 DEF Take
    <3>2. Publishing' = Publishing
      BY <1>3, <1>5, <3>1 DEF Publishing
    <3>. QED  BY <1>1, <1>2, <3>2, PublishedKept
  <2>. QED  BY <2>1, <2>2
<1>6. CASE Begin
  <2>1. Publishing = 0 /\ ~broken /\ read = 0
    BY <1>1, <1>6 DEF Begin, BeginInv, Publishing
  <2>2. CASE /\ read' = 1 /\ Take(Event("run.started", NoId))
             /\ stream'[1] = Event("run.started", NoId) /\ Len(stream') \in 1..2
    BY <1>5, <2>1, <2>2
  <2>3. CASE UNCHANGED <<read, broken>>
    BY <1>4, <2>3
  <2>. QED  BY <1>1, <1>6, <2>2, <2>3, BeginTakes
<1>7. CASE Deliver
  <2>1. Take(stream[read + 1]) /\ read' = read + 1 /\ read + 1 \in 1..Len(stream) /\ ~broken
    BY <1>1, <1>7, DeliverTakes
  <2>2. Publishing = read /\ stream' = stream
    BY <1>7, <2>1 DEF Publishing, Deliver
  <2>. QED  BY <1>5, <2>1, <2>2
<1>. QED  BY <1>2, <1>4, <1>6, <1>7 DEF Steers

-----------------------------------------------------------------------------
(* The scenario of a run of the reference adapter, event by event.         *)

ReferenceEvents == [type : EventTypes, id : {NoId, RunRequest}]

ScriptLength ==
  CASE scenario = "text" -> Chunks + 5
    [] scenario = "tool" -> 5
    [] Asks -> (CASE verdict = "none" -> 3 [] verdict = "accepted" -> 6 [] verdict = "refused" -> 5)
    [] scenario = "failure" -> 3
    [] scenario = "wait-for-cancel" -> IF released THEN 3 ELSE 2

\* The type of the event at i, after the first two.
LaterType(i) ==
  CASE scenario = "text" ->
         IF i <= Chunks + 3 THEN "assistant" ELSE IF i = Chunks + 4 THEN "usage.updated" ELSE "run.completed"
    [] scenario = "tool" ->
         IF i = 3 THEN "tool.started" ELSE IF i = 4 THEN "tool.settled" ELSE "run.completed"
    [] Asks ->
         IF i = 3 THEN "interaction.requested" ELSE IF i = 4 THEN "interaction.resolved"
         ELSE IF verdict = "refused" THEN "run.failed"
         ELSE IF i = 5 THEN "assistant" ELSE "run.completed"
    [] scenario = "failure" -> "run.failed"
    [] scenario = "wait-for-cancel" -> "run.cancelled"

TypeAt(i) == IF i = 1 THEN "run.started" ELSE IF i = 2 THEN "session.initialized" ELSE LaterType(i)

EventAt(i) == [type |-> TypeAt(i), id |-> IF TypeAt(i) \in InteractionTypes THEN RunRequest ELSE NoId]

\* The events of s are those of the scenario from its third one on.
Goes(s) ==
  /\ s \in Seq(ReferenceEvents) /\ Len(s) = ScriptLength - 2
  /\ \A i \in 1..Len(s) : s[i] = EventAt(i + 2)

\* A scenario has two events at least.
LEMMA ScriptLengthIs ==
  ASSUME Reference!TypeOK
  PROVE  ScriptLength \in Nat /\ ScriptLength >= 2
<1>1. scenario \in {"text", "tool", "permission", "question", "failure", "wait-for-cancel"}
  BY DEF Reference!TypeOK, Reference!Scenarios, Reference!Asking
<1>2. verdict \in {"none", "accepted", "refused"}
  BY DEF Reference!TypeOK
<1>. QED  BY <1>1, <1>2, ChunksAssumption DEF ScriptLength, Asks, Reference!Asking

\* The first two events and the rest.
LEMMA ScriptOfRest ==
  ASSUME Reference!TypeOK, NEW s, Goes(s),
         Reference!Script = <<Reference!Report("run.started"), Reference!Report("session.initialized")>> \o s
  PROVE  /\ Reference!Script \in Seq(ReferenceEvents) /\ Len(Reference!Script) = ScriptLength
         /\ ScriptLength \in Nat /\ ScriptLength >= 2
         /\ \A i \in 1..ScriptLength : Reference!Script[i] = EventAt(i)
<1>. DEFINE a == Reference!Report("run.started")
            b == Reference!Report("session.initialized")
            p == <<a, b>>
<1>1. a \in ReferenceEvents /\ b \in ReferenceEvents
  BY DEF Reference!Report, ReferenceEvents, EventTypes
<1>2. a = EventAt(1) /\ b = EventAt(2)
  BY DEF Reference!Report, EventAt, TypeAt, InteractionTypes
<1>. HIDE DEF a, b
<1>3. p \in Seq(ReferenceEvents) /\ Len(p) = 2 /\ p[1] = a /\ p[2] = b
  BY <1>1
<1>4. s \in Seq(ReferenceEvents) /\ Len(s) \in Nat /\ Len(s) = ScriptLength - 2 /\ Reference!Script = p \o s
  BY DEF Goes, a, b
<1>. HIDE DEF p
<1>5. /\ p \o s \in Seq(ReferenceEvents) /\ Len(p \o s) = 2 + Len(s)
      /\ \A i \in 1..2 + Len(s) : (p \o s)[i] = IF i <= 2 THEN p[i] ELSE s[i - 2]
  BY <1>3, <1>4, ConcatProperties
<1>6. ScriptLength \in Nat /\ ScriptLength = 2 + Len(s)
  BY <1>4, ScriptLengthIs
<1>7. ASSUME NEW i \in 1..ScriptLength
      PROVE  Reference!Script[i] = EventAt(i)
  <2>1. CASE i <= 2
    BY <1>2, <1>3, <1>4, <1>5, <1>6, <2>1
  <2>2. CASE i > 2
    <3>1. i - 2 \in 1..Len(s) /\ (i - 2) + 2 = i
      BY <1>4, <1>6, <2>2
    <3>2. s[i - 2] = EventAt(i)
      BY <3>1 DEF Goes
    <3>. QED  BY <1>4, <1>5, <1>6, <2>2, <3>2
  <2>. QED  BY <1>6, <2>1, <2>2
<1>8. Reference!Script \in Seq(ReferenceEvents) /\ Len(Reference!Script) = ScriptLength
  BY <1>4, <1>5, <1>6
<1>. QED  BY <1>6, <1>7, <1>8, ScriptLengthIs

\* The events of the reference adapter that are no interactions, and those that are.
LEMMA ReportIs ==
  ASSUME NEW type \in EventTypes
  PROVE  /\ Reference!Report(type) \in ReferenceEvents /\ Reference!Interaction(type) \in ReferenceEvents
         /\ \A i : TypeAt(i) = type =>
              EventAt(i) = IF type \in InteractionTypes THEN Reference!Interaction(type)
                           ELSE Reference!Report(type)
BY DEF Reference!Report, Reference!Interaction, ReferenceEvents, EventAt

\* The events of a text: its chunks, the usage and the end.
LEMMA TextScript ==
  ASSUME Reference!TypeOK, scenario = "text"
  PROVE  Goes([i \in 1..Chunks + 1 |-> Reference!Report("assistant")]
              \o <<Reference!Report("usage.updated"), Reference!Report("run.completed")>>)
<1>. DEFINE a == Reference!Report("assistant")
            b == Reference!Report("usage.updated")
            c == Reference!Report("run.completed")
            s == [i \in 1..Chunks + 1 |-> a]
            t == <<b, c>>
<1>1. /\ "assistant" \in EventTypes /\ "usage.updated" \in EventTypes /\ "run.completed" \in EventTypes
      /\ "assistant" \notin InteractionTypes /\ "usage.updated" \notin InteractionTypes
      /\ "run.completed" \notin InteractionTypes
  BY DEF EventTypes, Terminals, InteractionTypes
<1>2. a \in ReferenceEvents /\ b \in ReferenceEvents /\ c \in ReferenceEvents
  BY <1>1, ReportIs
<1>3. ASSUME NEW i \in Nat, i >= 3
      PROVE  /\ i <= Chunks + 3 => EventAt(i) = a
             /\ i = Chunks + 4 => EventAt(i) = b
             /\ i = Chunks + 5 => EventAt(i) = c
  <2>1. TypeAt(i) = IF i <= Chunks + 3 THEN "assistant"
                    ELSE IF i = Chunks + 4 THEN "usage.updated" ELSE "run.completed"
    BY <1>3 DEF TypeAt, LaterType, Asks, Reference!Asking
  <2>2. ASSUME i <= Chunks + 3 PROVE EventAt(i) = a
    BY <1>1, <2>1, <2>2, ReportIs
  <2>3. ASSUME i = Chunks + 4 PROVE EventAt(i) = b
    <3>1. TypeAt(i) = "usage.updated"
      BY <2>1, <2>3, ChunksAssumption
    <3>. QED  BY <1>1, <3>1, ReportIs
  <2>4. ASSUME i = Chunks + 5 PROVE EventAt(i) = c
    <3>1. TypeAt(i) = "run.completed"
      BY <2>1, <2>4, ChunksAssumption
    <3>. QED  BY <1>1, <3>1, ReportIs
  <2>. QED  BY <2>2, <2>3, <2>4
<1>. HIDE DEF a, b, c
<1>4. s \in Seq(ReferenceEvents) /\ Len(s) = Chunks + 1 /\ \A i \in 1..Chunks + 1 : s[i] = a
  BY <1>2, ChunksAssumption
<1>5. t \in Seq(ReferenceEvents) /\ Len(t) = 2 /\ t[1] = b /\ t[2] = c
  BY <1>2
<1>. HIDE DEF s, t
<1>6. /\ s \o t \in Seq(ReferenceEvents) /\ Len(s \o t) = Chunks + 3
      /\ \A i \in 1..Chunks + 3 : (s \o t)[i] = IF i <= Chunks + 1 THEN s[i] ELSE t[i - (Chunks + 1)]
  <2>1. /\ s \o t \in Seq(ReferenceEvents) /\ Len(s \o t) = Len(s) + Len(t)
        /\ \A i \in 1..Len(s) + Len(t) : (s \o t)[i] = IF i <= Len(s) THEN s[i] ELSE t[i - Len(s)]
    BY <1>4, <1>5, ConcatProperties
  <2>2. Len(s) + Len(t) = Chunks + 3
    BY <1>4, <1>5, ChunksAssumption
  <2>. QED  BY <1>4, <2>1, <2>2
<1>7. ScriptLength = Chunks + 5
  BY DEF ScriptLength, Asks, Reference!Asking
<1>8. ASSUME NEW i \in 1..Chunks + 3
      PROVE  (s \o t)[i] = EventAt(i + 2)
  <2>1. CASE i <= Chunks + 1
    <3>1. (s \o t)[i] = a
      BY <1>4, <1>6, <2>1
    <3>2. i + 2 \in Nat /\ i + 2 >= 3 /\ i + 2 <= Chunks + 3
      BY <2>1, ChunksAssumption
    <3>. QED  BY <1>3, <3>1, <3>2
  <2>2. CASE i = Chunks + 2
    <3>1. ~(i <= Chunks + 1) /\ i - (Chunks + 1) = 1 /\ i + 2 = Chunks + 4 /\ i + 2 \in Nat /\ i + 2 >= 3
      BY <2>2, ChunksAssumption
    <3>2. (s \o t)[i] = b
      BY <1>5, <1>6, <3>1
    <3>. QED  BY <1>3, <3>1, <3>2
  <2>3. CASE i = Chunks + 3
    <3>1. ~(i <= Chunks + 1) /\ i - (Chunks + 1) = 2 /\ i + 2 = Chunks + 5 /\ i + 2 \in Nat /\ i + 2 >= 3
      BY <2>3, ChunksAssumption
    <3>2. (s \o t)[i] = c
      BY <1>5, <1>6, <3>1
    <3>. QED  BY <1>3, <3>1, <3>2
  <2>4. i <= Chunks + 1 \/ i = Chunks + 2 \/ i = Chunks + 3
    BY ChunksAssumption
  <2>. QED  BY <2>1, <2>2, <2>3, <2>4
<1>9. Goes(s \o t)
  BY <1>6, <1>7, <1>8, ChunksAssumption DEF Goes
<1>. QED  BY <1>9 DEF s, t, a, b, c

\* Those of a tool.
LEMMA ToolScript ==
  ASSUME Reference!TypeOK, scenario = "tool"
  PROVE  Goes(<<Reference!Report("tool.started"), Reference!Report("tool.settled"),
                Reference!Report("run.completed")>>)
<1>. DEFINE a == Reference!Report("tool.started")
            b == Reference!Report("tool.settled")
            c == Reference!Report("run.completed")
            s == <<a, b, c>>
<1>1. /\ "tool.started" \in EventTypes /\ "tool.settled" \in EventTypes /\ "run.completed" \in EventTypes
      /\ "tool.started" \notin InteractionTypes /\ "tool.settled" \notin InteractionTypes
      /\ "run.completed" \notin InteractionTypes
  BY DEF EventTypes, Terminals, InteractionTypes
<1>2. a \in ReferenceEvents /\ b \in ReferenceEvents /\ c \in ReferenceEvents
  BY <1>1, ReportIs
<1>3. TypeAt(3) = "tool.started" /\ TypeAt(4) = "tool.settled" /\ TypeAt(5) = "run.completed"
  BY DEF TypeAt, LaterType, Asks, Reference!Asking
<1>4. EventAt(3) = a /\ EventAt(4) = b /\ EventAt(5) = c
  BY <1>1, <1>3, ReportIs
<1>. HIDE DEF a, b, c
<1>5. s \in Seq(ReferenceEvents) /\ Len(s) = 3 /\ s[1] = a /\ s[2] = b /\ s[3] = c
  BY <1>2
<1>6. ScriptLength = 5
  BY DEF ScriptLength, Asks, Reference!Asking
<1>. HIDE DEF s
<1>7. Goes(s)
  BY <1>4, <1>5, <1>6 DEF Goes
<1>. QED  BY <1>7 DEF s, a, b, c

\* That of a failure.
LEMMA FailureScript ==
  ASSUME Reference!TypeOK, scenario = "failure"
  PROVE  Goes(<<Reference!Report("run.failed")>>)
<1>. DEFINE a == Reference!Report("run.failed")
            s == <<a>>
<1>1. "run.failed" \in EventTypes /\ "run.failed" \notin InteractionTypes
  BY DEF EventTypes, Terminals, InteractionTypes
<1>2. TypeAt(3) = "run.failed"
  BY DEF TypeAt, LaterType, Asks, Reference!Asking
<1>3. a \in ReferenceEvents /\ EventAt(3) = a
  BY <1>1, <1>2, ReportIs
<1>. HIDE DEF a
<1>4. s \in Seq(ReferenceEvents) /\ Len(s) = 1 /\ s[1] = a
  BY <1>3
<1>5. ScriptLength = 3
  BY DEF ScriptLength, Asks, Reference!Asking
<1>. HIDE DEF s
<1>6. Goes(s)
  BY <1>3, <1>4, <1>5 DEF Goes
<1>. QED  BY <1>6 DEF s, a

\* That of a wait, which comes when it was ended.
LEMMA WaitScript ==
  ASSUME Reference!TypeOK, scenario = "wait-for-cancel"
  PROVE  Goes(IF released THEN <<Reference!Report("run.cancelled")>> ELSE <<>>)
<1>. DEFINE a == Reference!Report("run.cancelled")
            s == <<a>>
            none == <<>>
<1>1. "run.cancelled" \in EventTypes /\ "run.cancelled" \notin InteractionTypes
  BY DEF EventTypes, Terminals, InteractionTypes
<1>2. TypeAt(3) = "run.cancelled"
  BY DEF TypeAt, LaterType, Asks, Reference!Asking
<1>3. a \in ReferenceEvents /\ EventAt(3) = a
  BY <1>1, <1>2, ReportIs
<1>. HIDE DEF a
<1>4. s \in Seq(ReferenceEvents) /\ Len(s) = 1 /\ s[1] = a
  BY <1>3
<1>5. none \in Seq(ReferenceEvents) /\ Len(none) = 0
  OBVIOUS
<1>6. ScriptLength = IF released THEN 3 ELSE 2
  BY DEF ScriptLength, Asks, Reference!Asking
<1>. HIDE DEF s, none
<1>7. CASE released
  <2>1. Goes(s)
    BY <1>3, <1>4, <1>6, <1>7 DEF Goes
  <2>. QED  BY <1>7, <2>1 DEF s, a
<1>8. CASE ~released
  <2>1. Goes(none)
    BY <1>5, <1>6, <1>8 DEF Goes
  <2>. QED  BY <1>8, <2>1 DEF none
<1>. QED  BY <1>7, <1>8

\* Those of an interaction, which go on with the verdict.
LEMMA AskScript ==
  ASSUME Reference!TypeOK, Asks
  PROVE  Goes(<<Reference!Interaction("interaction.requested")>> \o Reference!AfterVerdict)
<1>. DEFINE r == Reference!Interaction("interaction.requested")
            d == Reference!Interaction("interaction.resolved")
            a == Reference!Report("assistant")
            c == Reference!Report("run.completed")
            f == Reference!Report("run.failed")
            s == <<r>>
            t == Reference!AfterVerdict
<1>1. /\ "interaction.requested" \in EventTypes /\ "interaction.resolved" \in EventTypes
      /\ "assistant" \in EventTypes /\ "run.completed" \in EventTypes /\ "run.failed" \in EventTypes
      /\ "interaction.requested" \in InteractionTypes /\ "interaction.resolved" \in InteractionTypes
      /\ "assistant" \notin InteractionTypes /\ "run.completed" \notin InteractionTypes
      /\ "run.failed" \notin InteractionTypes
  BY DEF EventTypes, Terminals, InteractionTypes
<1>2. /\ r \in ReferenceEvents /\ d \in ReferenceEvents /\ a \in ReferenceEvents
      /\ c \in ReferenceEvents /\ f \in ReferenceEvents
  BY <1>1, ReportIs
<1>3. /\ TypeAt(3) = "interaction.requested" /\ TypeAt(4) = "interaction.resolved"
      /\ verdict = "accepted" => TypeAt(5) = "assistant" /\ TypeAt(6) = "run.completed"
      /\ verdict = "refused" => TypeAt(5) = "run.failed"
  BY DEF TypeAt, LaterType, Asks, Reference!Asking
<1>4. /\ EventAt(3) = r /\ EventAt(4) = d
      /\ verdict = "accepted" => EventAt(5) = a /\ EventAt(6) = c
      /\ verdict = "refused" => EventAt(5) = f
  BY <1>1, <1>3, ReportIs
<1>5. /\ verdict = "none" => t = <<>> /\ ScriptLength = 3
      /\ verdict = "accepted" => t = <<d, a, c>> /\ ScriptLength = 6
      /\ verdict = "refused" => t = <<d, f>> /\ ScriptLength = 5
  BY DEF Reference!AfterVerdict, ScriptLength, Asks, Reference!Asking
<1>6. verdict \in {"none", "accepted", "refused"}
  BY DEF Reference!TypeOK
<1>. HIDE DEF r, d, a, c, f, t
<1>7. s \in Seq(ReferenceEvents) /\ Len(s) = 1 /\ s[1] = r
  BY <1>2
<1>. HIDE DEF s
<1>8. ASSUME t \in Seq(ReferenceEvents), NEW n \in Nat, Len(t) = n, ScriptLength = n + 3,
             \A i \in 1..n : t[i] = EventAt(i + 3)
      PROVE  Goes(s \o t)
  <2>1. /\ s \o t \in Seq(ReferenceEvents) /\ Len(s \o t) = Len(s) + Len(t)
        /\ \A i \in 1..Len(s) + Len(t) : (s \o t)[i] = IF i <= Len(s) THEN s[i] ELSE t[i - Len(s)]
    BY <1>7, <1>8, ConcatProperties
  <2>2. Len(s) = 1 /\ Len(s) + Len(t) = n + 1
    BY <1>7, <1>8
  <2>3. ASSUME NEW i \in 1..n + 1
        PROVE  (s \o t)[i] = EventAt(i + 2)
    <3>1. CASE i = 1
      BY <1>4, <1>7, <2>1, <2>2, <3>1
    <3>2. CASE i # 1
      <4>1. i - 1 \in 1..n /\ ~(i <= 1) /\ (i - 1) + 3 = i + 2
        BY <3>2
      <4>2. (s \o t)[i] = t[i - 1] /\ t[i - 1] = EventAt((i - 1) + 3)
        BY <1>8, <2>1, <2>2, <4>1
      <4>. QED  BY <4>1, <4>2
    <3>. QED  BY <3>1, <3>2
  <2>. QED  BY <1>8, <2>1, <2>2, <2>3 DEF Goes
<1>9. CASE verdict = "none"
  <2>1. t \in Seq(ReferenceEvents) /\ Len(t) = 0 /\ ScriptLength = 0 + 3
    BY <1>5, <1>9
  <2>. QED  BY <1>8, <2>1 DEF s, r, t
<1>10. CASE verdict = "accepted"
  <2>1. t \in Seq(ReferenceEvents) /\ Len(t) = 3 /\ t[1] = d /\ t[2] = a /\ t[3] = c
    <3>1. <<d, a, c>> \in Seq(ReferenceEvents)
      BY <1>2
    <3>2. t = <<d, a, c>>
      BY <1>5, <1>10
    <3>. QED  BY <3>1, <3>2
  <2>2. ScriptLength = 3 + 3 /\ EventAt(4) = d /\ EventAt(5) = a /\ EventAt(6) = c
    BY <1>4, <1>5, <1>10
  <2>3. \A i \in 1..3 : t[i] = EventAt(i + 3)
    BY <2>1, <2>2
  <2>. QED  BY <1>8, <2>1, <2>2, <2>3 DEF s, r, t
<1>11. CASE verdict = "refused"
  <2>1. t \in Seq(ReferenceEvents) /\ Len(t) = 2 /\ t[1] = d /\ t[2] = f
    <3>1. <<d, f>> \in Seq(ReferenceEvents)
      BY <1>2
    <3>2. t = <<d, f>>
      BY <1>5, <1>11
    <3>. QED  BY <3>1, <3>2
  <2>2. ScriptLength = 2 + 3 /\ EventAt(4) = d /\ EventAt(5) = f
    BY <1>4, <1>5, <1>11
  <2>3. \A i \in 1..2 : t[i] = EventAt(i + 3)
    BY <2>1, <2>2
  <2>. QED  BY <1>8, <2>1, <2>2, <2>3 DEF s, r, t
<1>. QED  BY <1>6, <1>9, <1>10, <1>11

\* The scenario, event by event.
ScriptGoes ==
  /\ Reference!Script \in Seq(ReferenceEvents) /\ Len(Reference!Script) = ScriptLength
  /\ ScriptLength \in Nat /\ ScriptLength >= 2
  /\ \A i \in 1..ScriptLength : Reference!Script[i] = EventAt(i)

\* Whatever the scenario, its events go as described.
LEMMA ScriptIs == Reference!TypeOK => ScriptGoes
<1>. SUFFICES ASSUME Reference!TypeOK PROVE ScriptGoes
  OBVIOUS
<1>. USE DEF ScriptGoes
<1>1. scenario \in {"text", "tool", "permission", "question", "failure", "wait-for-cancel"}
  BY DEF Reference!TypeOK, Reference!Scenarios, Reference!Asking
<1>2. CASE scenario = "text"
  <2>1. Reference!Script = <<Reference!Report("run.started"), Reference!Report("session.initialized")>> \o
          ([i \in 1..Chunks + 1 |-> Reference!Report("assistant")]
              \o <<Reference!Report("usage.updated"), Reference!Report("run.completed")>>)
    BY <1>2 DEF Reference!Script, Reference!Asking
  <2>. QED  BY <1>2, <2>1, TextScript, ScriptOfRest
<1>3. CASE scenario = "tool"
  <2>1. Reference!Script = <<Reference!Report("run.started"), Reference!Report("session.initialized")>> \o
          <<Reference!Report("tool.started"), Reference!Report("tool.settled"), Reference!Report("run.completed")>>
    BY <1>3 DEF Reference!Script, Reference!Asking
  <2>. QED  BY <1>3, <2>1, ToolScript, ScriptOfRest
<1>4. CASE scenario \in {"permission", "question"}
  <2>1. Asks
    BY <1>4 DEF Asks, Reference!Asking
  <2>2. Reference!Script = <<Reference!Report("run.started"), Reference!Report("session.initialized")>> \o
          (<<Reference!Interaction("interaction.requested")>> \o Reference!AfterVerdict)
    BY <1>4 DEF Reference!Script, Reference!Asking
  <2>. QED  BY <2>1, <2>2, AskScript, ScriptOfRest
<1>5. CASE scenario = "failure"
  <2>1. Reference!Script = <<Reference!Report("run.started"), Reference!Report("session.initialized")>> \o
          <<Reference!Report("run.failed")>>
    BY <1>5 DEF Reference!Script, Reference!Asking
  <2>. QED  BY <1>5, <2>1, FailureScript, ScriptOfRest
<1>6. CASE scenario = "wait-for-cancel"
  <2>1. Reference!Script = <<Reference!Report("run.started"), Reference!Report("session.initialized")>> \o
          (IF released THEN <<Reference!Report("run.cancelled")>> ELSE <<>>)
    BY <1>6 DEF Reference!Script, Reference!Asking
  <2>. QED  BY <1>6, <2>1, WaitScript, ScriptOfRest
<1>. QED  BY <1>1, <1>2, <1>3, <1>4, <1>5, <1>6

\* Where the events of a scenario are: the first one starts the run, an interaction
\* is requested by the third and resolved by the fourth, and the last one ends it.
LEMMA TypesOfScript ==
  ASSUME Reference!TypeOK, NEW i \in 1..ScriptLength
  PROVE  /\ TypeAt(i) \in EventTypes
         /\ TypeAt(i) = "run.started" <=> i = 1
         /\ TypeAt(i) = "interaction.requested" <=> Asks /\ i = 3
         /\ TypeAt(i) = "interaction.resolved" <=> Asks /\ i = 4
         /\ TypeAt(i) \in Terminals => i = ScriptLength /\ i >= 3
<1>1. scenario \in {"text", "tool", "permission", "question", "failure", "wait-for-cancel"}
  BY DEF Reference!TypeOK, Reference!Scenarios, Reference!Asking
<1>2. verdict \in {"none", "accepted", "refused"} /\ ScriptLength \in Nat
  BY ScriptLengthIs DEF Reference!TypeOK
<1>3. CASE scenario = "text"
  BY <1>2, <1>3, ChunksAssumption
     DEF TypeAt, LaterType, ScriptLength, Asks, Reference!Asking, EventTypes, Terminals
<1>4. CASE scenario = "tool"
  BY <1>2, <1>4 DEF TypeAt, LaterType, ScriptLength, Asks, Reference!Asking, EventTypes, Terminals
<1>5. CASE scenario \in {"permission", "question"}
  BY <1>2, <1>5 DEF TypeAt, LaterType, ScriptLength, Asks, Reference!Asking, EventTypes, Terminals
<1>6. CASE scenario \in {"failure", "wait-for-cancel"}
  BY <1>2, <1>6 DEF TypeAt, LaterType, ScriptLength, Asks, Reference!Asking, EventTypes, Terminals
<1>. QED  BY <1>1, <1>3, <1>4, <1>5, <1>6

\* The scenario after a step.
LEMMA ScriptIsNext == (Reference!TypeOK => ScriptGoes)'
BY ScriptIs, PTL

\* An answer, a cancel or a disposal lets a scenario go on, and changes none of its
\* events.
LEMMA ScriptGoesOn ==
  ASSUME Reference!TypeOK, Reference!TypeOK', scenario' = scenario, released => released',
         verdict' = verdict \/ verdict = "none"
  PROVE  /\ ScriptGoes /\ ScriptGoes' /\ ScriptLength <= ScriptLength'
         /\ \A i \in 1..ScriptLength : EventAt(i)' = EventAt(i) /\ Reference!Script'[i] = Reference!Script[i]
         /\ Asks' = Asks
<1>1. ScriptGoes /\ ScriptGoes'
  BY ScriptIs, ScriptIsNext
<1>2. scenario \in {"text", "tool", "permission", "question", "failure", "wait-for-cancel"}
  BY DEF Reference!TypeOK, Reference!Scenarios, Reference!Asking
<1>3. verdict \in {"none", "accepted", "refused"} /\ verdict' \in {"none", "accepted", "refused"}
  BY DEF Reference!TypeOK
<1>4. Asks' = Asks
  BY DEF Asks
<1>5. ScriptLength <= ScriptLength'
  BY <1>2, <1>3, ChunksAssumption DEF ScriptLength, Asks, Reference!Asking
<1>6. ASSUME NEW i \in 1..ScriptLength
      PROVE  TypeAt(i)' = TypeAt(i)
  <2>1. i \in Nat /\ i >= 1 /\ i <= ScriptLength /\ ScriptLength \in Nat
    BY <1>1 DEF ScriptGoes
  <2>2. CASE scenario \in {"permission", "question"}
    BY <1>3, <2>1, <2>2 DEF TypeAt, LaterType, ScriptLength, Asks, Reference!Asking
  <2>3. CASE scenario \in {"text", "tool", "failure", "wait-for-cancel"}
    BY <2>3 DEF TypeAt, LaterType, Asks, Reference!Asking
  <2>. QED  BY <1>2, <2>2, <2>3
<1>7. \A i \in 1..ScriptLength : EventAt(i)' = EventAt(i)
  BY <1>6 DEF EventAt
<1>8. \A i \in 1..ScriptLength : Reference!Script'[i] = Reference!Script[i]
  <2>. SUFFICES ASSUME NEW i \in 1..ScriptLength PROVE Reference!Script'[i] = Reference!Script[i]
    OBVIOUS
  <2>1. i \in 1..ScriptLength'
    BY <1>1, <1>5 DEF ScriptGoes
  <2>2. Reference!Script'[i] = EventAt(i)' /\ Reference!Script[i] = EventAt(i)
    BY <1>1, <2>1 DEF ScriptGoes
  <2>. QED  BY <1>7, <2>2
<1>. QED  BY <1>1, <1>4, <1>5, <1>7, <1>8

-----------------------------------------------------------------------------
(* The invariant of a run of the reference adapter.                        *)

\* The invariant holds of a run that nobody has begun.
LEMMA ReferenceInit ==
  ASSUME Reference!Init
  PROVE  ReferenceInv
<1>1. Reference!TypeOK
  BY DEF Reference!Init, Reference!TypeOK, Reference!NewCore, Reference!CoreType
<1>2. 0 \in 0..Len(Reference!Script)
  BY <1>1, ScriptIs DEF ScriptGoes
<1>. QED  BY <1>1, <1>2 DEF Reference!Init, Reference!NewCore, ReferenceInv

\* What the invariant says of a run whose scenario goes on and of which n events
\* were pulled.
PulledInv(n) ==
  /\ n \in 0..ScriptLength
  /\ managed.started <=> n >= 1
  /\ managed.pending = IF Asks /\ n = 3 THEN {RunRequest} ELSE {}
  /\ managed.terminalSeen <=> n >= 1 /\ TypeAt(n) \in Terminals

\* The invariant, in terms of the positions of the scenario instead of its events.
LEMMA ReferenceInvIs ==
  Reference!TypeOK =>
    (ReferenceInv <=>
       /\ PulledInv(taken)
       /\ place = "idle" => taken = 0 /\ verdict = "none" /\ ~released
       /\ place = "yielded" => taken >= 1
       /\ verdict # "none" => Asks /\ taken >= 3
       /\ managed.answered # {} => Asks /\ taken >= 3)
<1>. SUFFICES ASSUME Reference!TypeOK
     PROVE  ReferenceInv <=>
              /\ PulledInv(taken)
              /\ place = "idle" => taken = 0 /\ verdict = "none" /\ ~released
              /\ place = "yielded" => taken >= 1
              /\ verdict # "none" => Asks /\ taken >= 3
              /\ managed.answered # {} => Asks /\ taken >= 3
  OBVIOUS
<1>1. ScriptGoes
  BY ScriptIs
<1>2. taken \in 0..ScriptLength /\ taken >= 1 => Reference!Script[taken].type = TypeAt(taken)
  BY <1>1 DEF ScriptGoes, EventAt
<1>. QED  BY <1>1, <1>2 DEF ReferenceInv, PulledInv, ScriptGoes

\* The same of the next state.
LEMMA ReferenceInvIsNext ==
  (Reference!TypeOK =>
    (ReferenceInv <=>
       /\ PulledInv(taken)
       /\ place = "idle" => taken = 0 /\ verdict = "none" /\ ~released
       /\ place = "yielded" => taken >= 1
       /\ verdict # "none" => Asks /\ taken >= 3
       /\ managed.answered # {} => Asks /\ taken >= 3))'
BY ReferenceInvIs, PTL

\* A step that pulls nothing keeps what is known of the events that were pulled.
LEMMA PulledKept ==
  ASSUME Reference!TypeOK, Reference!TypeOK', scenario' = scenario, released => released',
         verdict' = verdict \/ verdict = "none", PulledInv(taken), taken' = taken,
         managed'.started = managed.started, managed'.pending = managed.pending,
         managed'.terminalSeen = managed.terminalSeen
  PROVE  PulledInv(taken)'
<1>1. /\ ScriptGoes /\ ScriptLength <= ScriptLength' /\ ScriptGoes' /\ Asks' = Asks
      /\ \A i \in 1..ScriptLength : EventAt(i)' = EventAt(i)
  BY ScriptGoesOn
<1>2. taken \in Nat /\ taken <= ScriptLength /\ ScriptLength \in Nat /\ ScriptLength' \in Nat
  BY <1>1 DEF PulledInv, ScriptGoes
<1>3. taken >= 1 => TypeAt(taken)' = TypeAt(taken)
  <2>1. scenario \in {"text", "tool", "permission", "question", "failure", "wait-for-cancel"}
    BY DEF Reference!TypeOK, Reference!Scenarios, Reference!Asking
  <2>2. verdict \in {"none", "accepted", "refused"} /\ verdict' \in {"none", "accepted", "refused"}
    BY DEF Reference!TypeOK
  <2>3. CASE scenario \in {"permission", "question"}
    BY <1>2, <2>2, <2>3 DEF TypeAt, LaterType, ScriptLength, Asks, Reference!Asking
  <2>4. CASE scenario \in {"text", "tool", "failure", "wait-for-cancel"}
    BY <2>4 DEF TypeAt, LaterType, Asks, Reference!Asking
  <2>. QED  BY <2>1, <2>3, <2>4
<1>. QED  BY <1>1, <1>2, <1>3 DEF PulledInv

\* One more event of the same scenario has passed.
LEMMA PulledMore ==
  ASSUME Reference!TypeOK, UNCHANGED <<scenario, released, verdict>>, PulledInv(taken), taken < ScriptLength,
         taken' = taken + 1, managed.answered # {} => Asks /\ taken >= 3,
         managed' = Reference!Passed(managed, Reference!Script[taken + 1])
  PROVE  /\ PulledInv(taken)' /\ managed' \in Reference!CoreType({RunRequest})
         /\ managed'.answered = managed.answered
<1>. DEFINE n == taken + 1
            e == Reference!Script[n]
<1>1. ScriptGoes /\ taken \in Nat /\ n \in 1..ScriptLength /\ n >= 1
  BY ScriptIs DEF PulledInv, ScriptGoes
<1>2. e = EventAt(n)
  BY <1>1 DEF ScriptGoes
<1>3. /\ e.type = TypeAt(n) /\ (e.type \in InteractionTypes => e.id = RunRequest)
  BY <1>2 DEF EventAt
<1>4. /\ TypeAt(n) = "interaction.requested" <=> Asks /\ n = 3
      /\ TypeAt(n) = "interaction.resolved" <=> Asks /\ n = 4
      /\ TypeAt(n) \in Terminals => n = ScriptLength /\ n >= 3
  BY <1>1, TypesOfScript
<1>5. ScriptLength' = ScriptLength /\ TypeAt(taken)' = TypeAt(n) /\ Asks' = Asks
  BY DEF ScriptLength, TypeAt, LaterType, Asks
<1>6. managed \in Reference!CoreType({RunRequest})
  BY DEF Reference!TypeOK
<1>7. Reference!Terminals = Terminals
  BY DEF Reference!Terminals, Terminals
<1>. DEFINE p == CASE e.type = "interaction.requested" -> managed.pending \cup {e.id}
                   [] e.type = "interaction.resolved" -> managed.pending \ {e.id}
                   [] OTHER -> managed.pending
<1>8. managed' = [managed EXCEPT !.started = TRUE, !.pending = p, !.terminalSeen = e.type \in Terminals]
  BY <1>7 DEF Reference!Passed
<1>9. managed.pending = IF Asks /\ taken = 3 THEN {RunRequest} ELSE {}
  BY DEF PulledInv
<1>. HIDE DEF e, n
<1>10. p = IF Asks /\ n = 3 THEN {RunRequest} ELSE {}
  <2>1. CASE TypeAt(n) = "interaction.requested"
    BY <1>1, <1>3, <1>4, <1>9, <2>1 DEF InteractionTypes, n
  <2>2. CASE TypeAt(n) = "interaction.resolved"
    BY <1>1, <1>3, <1>4, <1>9, <2>2 DEF InteractionTypes, n
  <2>3. CASE TypeAt(n) \notin InteractionTypes
    <3>1. p = managed.pending
      BY <1>3, <2>3 DEF InteractionTypes
    <3>2. ~(Asks /\ n = 3) /\ ~(Asks /\ n = 4)
      BY <1>4, <2>3 DEF InteractionTypes
    <3>. QED  BY <1>1, <1>9, <3>1, <3>2 DEF n
  <2>. QED  BY <2>1, <2>2, <2>3 DEF InteractionTypes
<1>. HIDE DEF p
<1>11. p \subseteq {RunRequest} /\ (e.type \in Terminals) \in BOOLEAN
  BY <1>10
<1>12. /\ managed' \in Reference!CoreType({RunRequest}) /\ managed'.answered = managed.answered
       /\ managed'.started = TRUE /\ managed'.pending = p /\ managed'.terminalSeen = (e.type \in Terminals)
  BY <1>6, <1>8, <1>11 DEF Reference!CoreType
<1>13. taken' = n
  BY DEF n
<1>14. taken' \in 0..ScriptLength' /\ taken' >= 1
  BY <1>1, <1>5, <1>13 DEF ScriptGoes
<1>15. managed'.pending = IF Asks' /\ taken' = 3 THEN {RunRequest} ELSE {}
  BY <1>5, <1>10, <1>12, <1>13
<1>16. managed'.terminalSeen <=> TypeAt(taken)' \in Terminals
  BY <1>3, <1>5, <1>12
<1>17. PulledInv(taken)'
  BY <1>12, <1>14, <1>15, <1>16 DEF PulledInv
<1>. QED  BY <1>12, <1>17

\* The managed run admits every event of a scenario.
LEMMA AllAdmitted ==
  ASSUME Reference!TypeOK, ReferenceInv, place = "yielded", taken < Len(Reference!Script)
  PROVE  Reference!Admits(managed, Reference!Script[taken + 1])
<1>. DEFINE n == taken + 1
            e == Reference!Script[n]
<1>1. /\ PulledInv(taken) /\ taken >= 1
      /\ managed.answered # {} => Asks /\ taken >= 3
  BY ReferenceInvIs
<1>2. ScriptGoes /\ taken \in Nat /\ n \in 1..ScriptLength /\ taken \in 1..ScriptLength /\ taken # ScriptLength
  BY <1>1, ScriptIs DEF PulledInv, ScriptGoes
<1>3. e = EventAt(n)
  BY <1>2 DEF ScriptGoes
<1>4. e.type = TypeAt(n) /\ (e.type \in InteractionTypes => e.id = RunRequest)
  BY <1>3 DEF EventAt
<1>5. /\ TypeAt(n) = "interaction.requested" <=> Asks /\ n = 3
      /\ TypeAt(n) = "interaction.resolved" <=> Asks /\ n = 4
      /\ TypeAt(n) \in Terminals => n = ScriptLength /\ n >= 3
  BY <1>2, TypesOfScript
<1>6. TypeAt(taken) \notin Terminals
  BY <1>2, TypesOfScript
<1>. HIDE DEF e
<1>7. managed.started /\ ~managed.terminalSeen
  BY <1>1, <1>6 DEF PulledInv
<1>8. e.type = "interaction.requested" => e.id \notin managed.pending \cup managed.answered
  BY <1>1, <1>2, <1>5, <1>4 DEF PulledInv
<1>9. e.type = "interaction.resolved" => e.id \in managed.pending
  BY <1>1, <1>2, <1>5, <1>4 DEF PulledInv, InteractionTypes
<1>10. e.type \in Reference!Terminals => managed.pending = {}
  <2>1. e.type \in Terminals /\ Asks => n # 4
    BY <1>4, <1>5 DEF Terminals
  <2>. QED  BY <1>1, <1>2, <1>4, <2>1 DEF PulledInv, Reference!Terminals, Terminals
<1>. QED  BY <1>7, <1>8, <1>9, <1>10 DEF Reference!Admits, e

\* A step that pulls nothing keeps the invariant.
LEMMA ReferenceKept ==
  ASSUME Reference!TypeOK, Reference!TypeOK', ReferenceInv,
         scenario' = scenario, released => released', verdict' = verdict \/ verdict = "none", taken' = taken,
         managed'.started = managed.started, managed'.pending = managed.pending,
         managed'.terminalSeen = managed.terminalSeen,
         place' = "idle" => place = "idle" /\ UNCHANGED <<verdict, released>>,
         place' = "yielded" => place = "yielded",
         verdict' # verdict => Asks /\ taken >= 3,
         managed'.answered # managed.answered => Asks /\ taken >= 3
  PROVE  ReferenceInv'
<1>1. /\ PulledInv(taken)
      /\ place = "idle" => taken = 0 /\ verdict = "none" /\ ~released
      /\ place = "yielded" => taken >= 1
      /\ verdict # "none" => Asks /\ taken >= 3
      /\ managed.answered # {} => Asks /\ taken >= 3
  BY ReferenceInvIs
<1>2. PulledInv(taken)' /\ Asks' = Asks
  BY <1>1, PulledKept DEF Asks
<1>. QED  BY <1>1, <1>2, ReferenceInvIsNext

\* Every step of a run of the reference adapter keeps its invariant.
LEMMA ReferenceStep ==
  ASSUME ReferenceInv, Reference!Next
  PROVE  ReferenceInv'
<1>1. /\ Reference!TypeOK /\ PulledInv(taken)
      /\ place = "idle" => taken = 0 /\ verdict = "none" /\ ~released
      /\ place = "yielded" => taken >= 1
      /\ verdict # "none" => Asks /\ taken >= 3
      /\ managed.answered # {} => Asks /\ taken >= 3
  BY ReferenceInvIs DEF ReferenceInv
<1>2. /\ scenario \in Reference!Scenarios /\ managed \in Reference!CoreType({RunRequest})
      /\ place \in {"idle", "yielded", "done"} /\ taken \in Nat
      /\ released \in BOOLEAN /\ retired \in BOOLEAN /\ verdict \in {"none", "accepted", "refused"}
  BY <1>1 DEF Reference!TypeOK
<1>3. ScriptGoes /\ Len(Reference!Script) = ScriptLength /\ ScriptLength \in Nat /\ ScriptLength >= 2
  BY <1>1, ScriptIs DEF ScriptGoes
<1>4. ASSUME Reference!Over, UNCHANGED <<scenario, taken, released, verdict>>
      PROVE  ReferenceInv'
  <2>1. managed' = [managed EXCEPT !.disposed = TRUE] /\ place' = "done" /\ retired' = TRUE
    BY <1>4 DEF Reference!Over
  <2>2. Reference!TypeOK'
    BY <1>2, <1>4, <2>1 DEF Reference!TypeOK, Reference!CoreType
  <2>3. /\ managed'.started = managed.started /\ managed'.pending = managed.pending
        /\ managed'.terminalSeen = managed.terminalSeen /\ managed'.answered = managed.answered
    BY <1>2, <2>1 DEF Reference!CoreType
  <2>. QED  BY <1>1, <1>4, <2>1, <2>2, <2>3, ReferenceKept
<1>5. ASSUME taken < ScriptLength, taken' = taken + 1, place' = "yielded",
             UNCHANGED <<scenario, released, verdict, retired>>,
             managed' = Reference!Passed(managed, Reference!Script[taken + 1])
      PROVE  ReferenceInv'
  <2>1. /\ PulledInv(taken)' /\ managed' \in Reference!CoreType({RunRequest})
        /\ managed'.answered = managed.answered
    BY <1>1, <1>5, PulledMore
  <2>2. Reference!TypeOK'
    BY <1>2, <1>5, <2>1 DEF Reference!TypeOK
  <2>3. Asks' = Asks
    BY <1>5 DEF Asks
  <2>. QED  BY <1>1, <1>2, <1>5, <2>1, <2>2, <2>3, ReferenceInvIsNext
<1>6. CASE Reference!Begin
  <2>1. place = "idle" /\ taken = 0 /\ UNCHANGED <<scenario, released, verdict>>
    BY <1>1, <1>6 DEF Reference!Begin
  <2>2. CASE retired
    BY <1>4, <1>6, <2>1, <2>2 DEF Reference!Begin
  <2>3. CASE ~retired
    <3>1. /\ place' = "yielded" /\ taken' = 1 /\ retired' = retired
          /\ managed' = Reference!Passed(managed, Reference!Script[1])
      BY <1>6, <2>3 DEF Reference!Begin
    <3>2. taken + 1 = 1 /\ taken < ScriptLength
      BY <1>3, <2>1
    <3>. QED  BY <1>5, <2>1, <3>1, <3>2
  <2>. QED  BY <2>2, <2>3
<1>7. CASE Reference!Pull
  <2>1. /\ place = "yielded" /\ taken < Len(Reference!Script) /\ taken' = taken + 1
        /\ UNCHANGED <<scenario, released, verdict>>
    BY <1>7 DEF Reference!Pull
  <2>2. Reference!Admits(managed, Reference!Script[taken + 1])
    BY <1>1, <2>1, AllAdmitted
  <2>3. managed' = Reference!Passed(managed, Reference!Script[taken + 1]) /\ UNCHANGED <<place, retired>>
    BY <1>7, <2>2 DEF Reference!Pull
  <2>. QED  BY <1>3, <1>5, <2>1, <2>3
<1>8. CASE Reference!Finish \/ Reference!Close
  BY <1>4, <1>8 DEF Reference!Finish, Reference!Close
<1>9. ASSUME NEW answer \in {"accepted", "refused"}, Reference!Respond(answer)
      PROVE  ReferenceInv'
  <2>1. /\ verdict' = answer /\ managed' = Reference!Answered(managed, RunRequest)
        /\ UNCHANGED <<scenario, place, taken, released, retired>>
        /\ Asks /\ place = "yielded" /\ taken >= 3 /\ verdict = "none"
    BY <1>9 DEF Reference!Respond, Reference!Pending, Asks
  <2>2. managed' \in Reference!CoreType({RunRequest})
    BY <1>2, <2>1 DEF Reference!Answered, Reference!CoreType
  <2>3. /\ managed'.started = managed.started /\ managed'.pending = managed.pending
        /\ managed'.terminalSeen = managed.terminalSeen
    BY <1>2, <2>1 DEF Reference!Answered, Reference!CoreType
  <2>4. Reference!TypeOK'
    BY <1>2, <2>1, <2>2 DEF Reference!TypeOK
  <2>. QED  BY <1>1, <2>1, <2>3, <2>4, ReferenceKept
<1>10. CASE Reference!Cancel \/ Reference!Dispose
  <2>1. /\ Reference!Settle /\ UNCHANGED <<scenario, place, taken>> /\ retired' \in {retired, TRUE}
        /\ managed' = [managed EXCEPT !.cancelSent = TRUE] \/ managed' = [managed EXCEPT !.disposed = TRUE]
    BY <1>10 DEF Reference!Cancel, Reference!Dispose
  <2>2. /\ managed' \in Reference!CoreType({RunRequest})
        /\ managed'.started = managed.started /\ managed'.pending = managed.pending
        /\ managed'.terminalSeen = managed.terminalSeen /\ managed'.answered = managed.answered
    BY <1>2, <2>1 DEF Reference!CoreType
  <2>3. CASE place = "yielded"
    <3>1. released' = TRUE /\ verdict' = IF Reference!Pending THEN "refused" ELSE verdict
      BY <2>1, <2>3 DEF Reference!Settle
    <3>2. Reference!Pending => verdict = "none" /\ Asks /\ taken >= 3
      BY DEF Reference!Pending, Asks
    <3>3. /\ verdict' \in {"none", "accepted", "refused"} /\ (verdict' = verdict \/ verdict = "none")
          /\ verdict' # verdict => Asks /\ taken >= 3
      BY <1>2, <3>1, <3>2
    <3>4. Reference!TypeOK'
      BY <1>2, <2>1, <2>2, <3>1, <3>3 DEF Reference!TypeOK
    <3>. QED  BY <1>1, <2>1, <2>2, <2>3, <3>1, <3>3, <3>4, ReferenceKept
  <2>4. CASE place # "yielded"
    <3>1. UNCHANGED <<released, verdict>>
      BY <2>1, <2>4 DEF Reference!Settle
    <3>2. Reference!TypeOK'
      BY <1>2, <2>1, <2>2, <3>1 DEF Reference!TypeOK
    <3>. QED  BY <1>1, <2>1, <2>2, <3>1, <3>2, ReferenceKept
  <2>. QED  BY <2>3, <2>4
<1>. QED  BY <1>6, <1>7, <1>8, <1>9, <1>10 DEF Reference!Next

\* A step of the CodeBuddy adapter keeps the invariant of the reference adapter.
LEMMA ReferenceStutter ==
  ASSUME ReferenceInv, UNCHANGED reference
  PROVE  ReferenceInv'
<1>. USE DEF reference
<1>1. Reference!TypeOK /\ Reference!TypeOK'
  BY DEF ReferenceInv, Reference!TypeOK
<1>. QED  BY <1>1, ReferenceKept

-----------------------------------------------------------------------------
(* What the reference adapter publishes.                                   *)

\* The first events of a scenario.
LEMMA PulledIs ==
  ASSUME ReferenceInv
  PROVE  LET p == SubSeq(Reference!Script, 1, taken) IN
         /\ p \in Seq(ReferenceEvents) /\ Len(p) = taken /\ taken \in Nat
         /\ \A i \in 1..taken : p[i] = EventAt(i) /\ i \in 1..ScriptLength
<1>. DEFINE s == Reference!Script
            p == SubSeq(s, 1, taken)
<1>1. ScriptGoes /\ taken \in 0..ScriptLength /\ taken \in Nat
  BY ScriptIs, ReferenceInvIs DEF ReferenceInv, PulledInv, ScriptGoes
<1>2. s \in Seq(ReferenceEvents) /\ Len(s) = ScriptLength /\ ScriptLength \in Nat
  BY <1>1 DEF ScriptGoes
<1>. HIDE DEF s
<1>3. p \in Seq(ReferenceEvents) /\ Len(p) = taken /\ \A i \in 1..taken : p[i] = s[i]
  BY <1>1, <1>2
<1>. HIDE DEF p
<1>4. \A i \in 1..taken : i \in 1..ScriptLength
  BY <1>1, <1>2
<1>5. \A i \in 1..taken : p[i] = EventAt(i)
  BY <1>1, <1>3, <1>4 DEF ScriptGoes, s
<1>. QED  BY <1>1, <1>3, <1>4, <1>5 DEF p, s

\* Two sequences are the same when one goes on with the other's first events.
LEMMA SamePrefix ==
  ASSUME NEW S, NEW s \in Seq(S), NEW r \in Seq(S), NEW n \in Nat, n <= Len(s), n <= Len(r),
         \A i \in 1..n : r[i] = s[i]
  PROVE  SubSeq(r, 1, n) = SubSeq(s, 1, n)
<1>. DEFINE a == SubSeq(r, 1, n)
            b == SubSeq(s, 1, n)
<1>1. a \in Seq(S) /\ Len(a) = n /\ \A i \in 1..n : a[i] = r[i]
  OBVIOUS
<1>2. b \in Seq(S) /\ Len(b) = n /\ \A i \in 1..n : b[i] = s[i]
  OBVIOUS
<1>. HIDE DEF a, b
<1>3. \A i \in 1..n : a[i] = b[i]
  BY <1>1, <1>2
<1>4. a = b
  BY <1>1, <1>2, <1>3, SeqEqual
<1>. QED  BY <1>4 DEF a, b

\* A step pulls one event of the scenario or none.
LEMMA PullsOneOrNone ==
  ASSUME ReferenceInv, Reference!Next
  PROVE  \/ taken < ScriptLength /\ taken' = taken + 1 /\ UNCHANGED <<scenario, released, verdict>>
         \/ /\ scenario' = scenario /\ taken' = taken
            /\ released => released'
            /\ verdict' = verdict \/ verdict = "none"
<1>1. place = "idle" => taken = 0
  BY ReferenceInvIs DEF ReferenceInv
<1>2. Len(Reference!Script) = ScriptLength /\ ScriptLength \in Nat /\ ScriptLength >= 2
  BY ScriptIs DEF ReferenceInv, ScriptGoes
<1>3. CASE Reference!Begin
  BY <1>2, <1>3 DEF Reference!Begin, ReferenceInv
<1>4. CASE Reference!Pull
  BY <1>2, <1>4 DEF Reference!Pull
<1>5. CASE Reference!Finish \/ Reference!Close
  BY <1>5 DEF Reference!Finish, Reference!Close
<1>6. ASSUME NEW answer, Reference!Respond(answer)
      PROVE  /\ scenario' = scenario /\ taken' = taken
             /\ released => released'
             /\ verdict' = verdict \/ verdict = "none"
  BY <1>6 DEF Reference!Respond, Reference!Pending
<1>7. CASE Reference!Cancel \/ Reference!Dispose
  BY <1>7 DEF Reference!Cancel, Reference!Dispose, Reference!Settle, Reference!Pending
<1>. QED  BY <1>3, <1>4, <1>5, <1>6, <1>7 DEF Reference!Next

\* The run's interaction is open after three events, when it was requested and not resolved.
LEMMA ReferenceOpen ==
  ASSUME ReferenceInv
  PROVE  Reference!RunStreamSpec!IsOpen(RunRequest) <=> Asks /\ taken = 3
<1>. DEFINE p == SubSeq(Reference!Script, 1, taken)
            asked == [type |-> "interaction.requested", id |-> RunRequest]
            resolved == [type |-> "interaction.resolved", id |-> RunRequest]
<1>1. /\ Len(p) = taken /\ taken \in Nat
      /\ \A i \in 1..taken : p[i] = EventAt(i) /\ i \in 1..ScriptLength
  BY PulledIs
<1>. HIDE DEF p
<1>2. ASSUME NEW i \in 1..taken
      PROVE  /\ p[i] = asked <=> Asks /\ i = 3
             /\ p[i] = resolved <=> Asks /\ i = 4
  <2>1. p[i] = EventAt(i) /\ i \in 1..ScriptLength /\ Reference!TypeOK
    BY <1>1 DEF ReferenceInv
  <2>2. /\ TypeAt(i) = "interaction.requested" <=> Asks /\ i = 3
        /\ TypeAt(i) = "interaction.resolved" <=> Asks /\ i = 4
    BY <2>1, TypesOfScript
  <2>3. /\ EventAt(i).type = TypeAt(i)
        /\ TypeAt(i) = "interaction.requested" => EventAt(i) = asked
        /\ TypeAt(i) = "interaction.resolved" => EventAt(i) = resolved
    BY DEF EventAt, InteractionTypes
  <2>4. asked.type = "interaction.requested" /\ resolved.type = "interaction.resolved"
    OBVIOUS
  <2>. HIDE DEF asked, resolved
  <2>. QED  BY <2>1, <2>2, <2>3, <2>4
<1>3. Reference!RunStreamSpec!IsOpen(RunRequest) <=>
        \E i \in 1..taken : p[i] = asked /\ \A j \in i + 1..taken : p[j] # resolved
  BY <1>1 DEF Reference!RunStreamSpec!IsOpen, p
<1>. HIDE DEF asked, resolved
<1>4. ASSUME NEW i \in 1..taken, p[i] = asked, \A j \in i + 1..taken : p[j] # resolved
      PROVE  Asks /\ taken = 3
  <2>1. Asks /\ i = 3
    BY <1>2, <1>4
  <2>2. taken >= 4 => 4 \in i + 1..taken /\ 4 \in 1..taken
    BY <1>1, <2>1
  <2>. QED  BY <1>1, <1>2, <1>4, <2>1, <2>2
<1>5. ASSUME Asks, taken = 3
      PROVE  \E i \in 1..taken : p[i] = asked /\ \A j \in i + 1..taken : p[j] # resolved
  <2>1. 3 \in 1..taken /\ p[3] = asked /\ \A j \in 3 + 1..taken : FALSE
    BY <1>2, <1>5
  <2>. QED  BY <2>1
<1>. QED  BY <1>3, <1>4, <1>5

\* One more event of the scenario is one that the supervisor may get next.
LEMMA NextIsPublished ==
  ASSUME ReferenceInv, taken < ScriptLength,
         SubSeq(Reference!Script, 1, taken)' = Append(SubSeq(Reference!Script, 1, taken), EventAt(taken + 1))
  PROVE  Reference!RunStreamSpec!Next
<1>. DEFINE p == SubSeq(Reference!Script, 1, taken)
            n == taken + 1
            e == EventAt(n)
<1>1. /\ p \in Seq(ReferenceEvents) /\ Len(p) = taken /\ taken \in Nat
      /\ \A i \in 1..taken : p[i] = EventAt(i) /\ i \in 1..ScriptLength
  BY PulledIs
<1>2. Reference!TypeOK /\ n \in 1..ScriptLength /\ ScriptLength \in Nat /\ n >= 1
  BY <1>1, ScriptIs DEF ReferenceInv, ScriptGoes
<1>3. /\ TypeAt(n) \in EventTypes
      /\ TypeAt(n) = "run.started" <=> n = 1
      /\ TypeAt(n) = "interaction.requested" <=> Asks /\ n = 3
      /\ TypeAt(n) = "interaction.resolved" <=> Asks /\ n = 4
      /\ TypeAt(n) \in Terminals => n = ScriptLength /\ n >= 3
  BY <1>2, TypesOfScript
<1>4. e = [type |-> TypeAt(n), id |-> IF TypeAt(n) \in InteractionTypes THEN RunRequest ELSE NoId]
  BY DEF EventAt
<1>5. Reference!RunStreamSpec!IsOpen(RunRequest) <=> Asks /\ n = 4
  BY <1>1, ReferenceOpen
<1>6. p' = Append(p, e)
  OBVIOUS
<1>7. taken # 0 => Reference!RunStreamSpec!Running
  <2>. SUFFICES ASSUME taken # 0 PROVE Reference!RunStreamSpec!Running
    OBVIOUS
  <2>1. taken \in 1..taken /\ taken \in 1..ScriptLength /\ taken # ScriptLength
    BY <1>1, <1>2
  <2>2. TypeAt(taken) \notin Terminals
    BY <1>2, <2>1, TypesOfScript
  <2>. HIDE DEF p
  <2>3. p[taken] = EventAt(taken) /\ EventAt(taken).type = TypeAt(taken)
    BY <1>1, <2>1 DEF EventAt
  <2>4. p # <<>> /\ p[Len(p)].type = TypeAt(taken)
    <3>1. Len(p) = taken /\ Len(p) # 0
      BY <1>1, <2>1
    <3>. QED  BY <2>3, <3>1
  <2>. QED  BY <2>2, <2>4 DEF Reference!RunStreamSpec!Running, Reference!RunStreamSpec!Terminals, Terminals, p
<1>. HIDE DEF e, n
<1>8. CASE taken = 0
  <2>1. p = <<>> /\ e = [type |-> "run.started", id |-> NoId]
    BY <1>1, <1>3, <1>4, <1>8 DEF n, InteractionTypes
  <2>2. Reference!RunStreamSpec!Start
    BY <1>6, <2>1 DEF Reference!RunStreamSpec!Start, Reference!RunStreamSpec!Publish
  <2>. QED  BY <2>2 DEF Reference!RunStreamSpec!Next
<1>9. CASE taken # 0
  <2>1. Reference!RunStreamSpec!Running /\ TypeAt(n) # "run.started"
    BY <1>1, <1>3, <1>7, <1>9 DEF n
  <2>2. CASE TypeAt(n) = "interaction.requested"
    <3>1. e = [type |-> "interaction.requested", id |-> RunRequest]
      BY <1>4, <2>2 DEF InteractionTypes
    <3>2. ~Reference!RunStreamSpec!IsOpen(RunRequest)
      BY <1>3, <1>5, <2>2
    <3>3. Reference!RunStreamSpec!Request(RunRequest)
      BY <1>6, <2>1, <3>1, <3>2 DEF Reference!RunStreamSpec!Request, Reference!RunStreamSpec!Publish
    <3>. QED  BY <3>3 DEF Reference!RunStreamSpec!Next
  <2>3. CASE TypeAt(n) = "interaction.resolved"
    <3>1. e = [type |-> "interaction.resolved", id |-> RunRequest]
      BY <1>4, <2>3 DEF InteractionTypes
    <3>2. Reference!RunStreamSpec!IsOpen(RunRequest)
      BY <1>3, <1>5, <2>3
    <3>3. Reference!RunStreamSpec!Resolve(RunRequest)
      BY <1>6, <2>1, <3>1, <3>2 DEF Reference!RunStreamSpec!Resolve, Reference!RunStreamSpec!Publish
    <3>. QED  BY <3>3 DEF Reference!RunStreamSpec!Next
  <2>4. CASE TypeAt(n) \notin InteractionTypes
    <3>1. e = [type |-> TypeAt(n), id |-> NoId]
      BY <1>4, <2>4
    <3>2. CASE TypeAt(n) \in Terminals
      <4>1. ~Reference!RunStreamSpec!IsOpen(RunRequest)
        BY <1>3, <1>5, <3>2 DEF Terminals
      <4>2. Reference!RunStreamSpec!End
        BY <1>6, <2>1, <3>1, <3>2, <4>1
           DEF Reference!RunStreamSpec!End, Reference!RunStreamSpec!Publish,
               Reference!RunStreamSpec!Terminals, Terminals
      <4>. QED  BY <4>2 DEF Reference!RunStreamSpec!Next
    <3>3. CASE TypeAt(n) \notin Terminals
      <4>1. TypeAt(n) \in Reference!RunStreamSpec!Reports
        BY <1>3, <2>1, <2>4, <3>3 DEF EventTypes, InteractionTypes, Reference!RunStreamSpec!Reports
      <4>2. Reference!RunStreamSpec!Report
        BY <1>6, <2>1, <3>1, <4>1 DEF Reference!RunStreamSpec!Report, Reference!RunStreamSpec!Publish
      <4>. QED  BY <4>2 DEF Reference!RunStreamSpec!Next
    <3>. QED  BY <3>2, <3>3
  <2>. QED  BY <2>2, <2>3, <2>4 DEF InteractionTypes
<1>. QED  BY <1>8, <1>9

\* Every step of a run of the reference adapter publishes what the protocol allows,
\* or nothing.
LEMMA ReferencePublishStep ==
  ASSUME ReferenceInv, Reference!Next
  PROVE  [Reference!RunStreamSpec!Next]_(SubSeq(Reference!Script, 1, taken))
<1>. DEFINE s == Reference!Script
<1>1. Reference!TypeOK /\ Reference!TypeOK' /\ taken \in Nat /\ taken <= ScriptLength
  BY ReferenceStep, ReferenceInvIs, ScriptIs DEF ReferenceInv, PulledInv, ScriptGoes
<1>2. s \in Seq(ReferenceEvents) /\ Len(s) = ScriptLength /\ ScriptLength \in Nat
  BY <1>1, ScriptIs DEF ScriptGoes
<1>3. CASE taken < ScriptLength /\ taken' = taken + 1 /\ UNCHANGED <<scenario, released, verdict>>
  <2>1. s' = s
    BY <1>3 DEF Reference!Script, Reference!AfterVerdict, Reference!Report, Reference!Interaction
  <2>2. s[taken + 1] = EventAt(taken + 1) /\ taken + 1 \in 1..Len(s)
    <3>1. taken + 1 \in 1..ScriptLength
      BY <1>1, <1>2, <1>3
    <3>. QED  BY <1>1, <1>2, <3>1, ScriptIs DEF ScriptGoes
  <2>. HIDE DEF s
  <2>3. SubSeq(s, 1, taken + 1) = Append(SubSeq(s, 1, taken), s[taken + 1])
    <3>. DEFINE a == SubSeq(s, 1, taken + 1)
                b == SubSeq(s, 1, taken)
                c == Append(b, s[taken + 1])
    <3>1. a \in Seq(ReferenceEvents) /\ Len(a) = taken + 1 /\ \A i \in 1..taken + 1 : a[i] = s[i]
      BY <1>1, <1>2, <2>2
    <3>2. b \in Seq(ReferenceEvents) /\ Len(b) = taken /\ \A i \in 1..taken : b[i] = s[i]
      BY <1>1, <1>2, <2>2
    <3>3. s[taken + 1] \in ReferenceEvents
      BY <1>2, <2>2
    <3>. HIDE DEF a, b
    <3>4. c \in Seq(ReferenceEvents) /\ Len(c) = taken + 1 /\ \A i \in 1..taken + 1 : c[i] = s[i]
      BY <1>1, <3>2, <3>3
    <3>. HIDE DEF c
    <3>5. a = c
      BY <3>1, <3>4, SeqEqual
    <3>. QED  BY <3>5 DEF a, b, c
  <2>4. SubSeq(s, 1, taken)' = Append(SubSeq(s, 1, taken), EventAt(taken + 1))
    BY <1>3, <2>1, <2>2, <2>3
  <2>. QED  BY <1>3, <2>4, NextIsPublished DEF s
<1>4. CASE /\ scenario' = scenario /\ taken' = taken
           /\ released => released'
           /\ verdict' = verdict \/ verdict = "none"
  <2>1. /\ ScriptGoes' /\ ScriptLength <= ScriptLength'
        /\ \A i \in 1..ScriptLength : s'[i] = s[i]
    BY <1>1, <1>4, ScriptGoesOn
  <2>2. s' \in Seq(ReferenceEvents) /\ Len(s') = ScriptLength' /\ ScriptLength' \in Nat
    BY <2>1 DEF ScriptGoes
  <2>. HIDE DEF s
  <2>3. SubSeq(s', 1, taken) = SubSeq(s, 1, taken)
    <3>1. taken <= Len(s) /\ taken <= Len(s') /\ \A i \in 1..taken : s'[i] = s[i]
      BY <1>1, <1>2, <2>1, <2>2
    <3>. QED  BY <1>1, <1>2, <2>2, <3>1, SamePrefix
  <2>. QED  BY <1>4, <2>3 DEF s
<1>. QED  BY <1>3, <1>4, PullsOneOrNone

-----------------------------------------------------------------------------
(* The theorems.                                                           *)

\* A run of either adapter keeps the invariants of both: the events pushed and the
\* tools, interactions and calls they are about stay in step, and the managed run
\* knows what it has passed on (#run, #consume, canUseTool, #iterate).
THEOREM InvariantThm == AllSpec => []AllInv
<1>1. AllInit => AllInv
  BY InvariantInit, ReferenceInit DEF AllInit, AllInv
<1>2. AllInv /\ [AllNext]_all => AllInv'
  <2>. SUFFICES ASSUME AllInv, [AllNext]_all PROVE AllInv'
    OBVIOUS
  <2>1. CASE CodeBuddyNext
    BY <2>1, InvariantStep, ReferenceStutter DEF CodeBuddyNext, AllInv
  <2>2. CASE ReferenceNext
    BY <2>2, InvariantStutter, ReferenceStep DEF ReferenceNext, AllInv, codeBuddy
  <2>3. CASE UNCHANGED all
    BY <2>3, InvariantStutter, ReferenceStutter DEF all, codeBuddy, AllInv
  <2>. QED  BY <2>1, <2>2, <2>3 DEF AllNext
<1>. QED  BY <1>1, <1>2, PTL DEF AllSpec

\* Every step keeps the type of the state of both adapters.
THEOREM TypeThm == AllSpec => []AllTypeOK
<1>1. AllInv => AllTypeOK
  BY DEF AllInv, AllTypeOK, IInv, ReferenceInv
<1>. QED  BY <1>1, InvariantThm, PTL

\* Completion, failure, timeout and cancellation go through one guard: a run of the
\* CodeBuddy adapter has its terminal event at its end and nowhere else, whatever the
\* vendor, the timers and the supervisor do afterwards (#emitTerminal, AsyncQueue.end).
THEOREM OneTerminalThm == AllSpec => []OneTerminalAtTheEnd
<1>1. AllInv => OneTerminalAtTheEnd
  BY DEF AllInv, IInv
<1>. QED  BY <1>1, InvariantThm, PTL

\* The stream has ended when its terminal event was pushed.
LEMMA EndedIsTerminal ==
  ASSUME TypeOK, OneTerminalAtTheEnd, HasEnded
  PROVE  terminal
<1>1. stream \in Seq(Events) /\ stream # <<>> /\ Last(stream).type \in Terminals
  BY DEF TypeOK, HasEnded
<1>2. Len(stream) \in 1..Len(stream) /\ stream[Len(stream)].type \in Terminals
  BY <1>1 DEF Last
<1>. QED  BY <1>2 DEF OneTerminalAtTheEnd

\* An event that a stream has once is at one position, and one it has not is at none.
LEMMA CountOf ==
  ASSUME NEW s, NEW e, Once(s, e)
  PROVE  Cardinality({i \in 1..Len(s) : s[i] = e}) = (IF Has(s, e) THEN 1 ELSE 0)
<1>. DEFINE on == {i \in 1..Len(s) : s[i] = e}
<1>1. CASE Has(s, e)
  <2>1. PICK n \in 1..Len(s) : s[n] = e
    BY <1>1 DEF Has
  <2>2. on = {n}
    BY <2>1 DEF Once
  <2>3. Cardinality({n}) = 1
    BY FS_Singleton
  <2>. QED  BY <1>1, <2>2, <2>3
<1>2. CASE ~Has(s, e)
  <2>1. on = {}
    BY <1>2 DEF Has
  <2>. QED  BY <1>2, <2>1, FS_EmptySet
<1>. QED  BY <1>1, <1>2

\* A tool is started once and settled at most once, after its start; and when the
\* run ends none is left unsettled, unless it ends because the vendor stream ended
\* without a result, where the code leaves them (#settleRunningTools, #consume).
THEOREM ToolsThm == AllSpec => []ToolsSettledBeforeTheEnd
<1>1. ASSUME AllInv PROVE ToolsSettledBeforeTheEnd
  <2>1. TypeOK /\ OneTerminalAtTheEnd /\ ToolInv
    BY <1>1 DEF AllInv, IInv
  <2>2. HasEnded /\ Last(stream).id \notin {"ended", "ended unauthorized"} => running = <<>>
    BY <2>1, EndedIsTerminal DEF ToolInv
  <2>3. ASSUME NEW t \in Tools
        PROVE  LET On(type) == {i \in 1..Len(stream) : stream[i] = Event(type, t)} IN
               /\ Cardinality(On("tool.started")) = (IF t \in ToSet(running) \cup settled THEN 1 ELSE 0)
               /\ Cardinality(On("tool.settled")) = (IF t \in settled THEN 1 ELSE 0)
               /\ \A i \in On("tool.started"), j \in On("tool.settled") : i < j
    <3>. DEFINE started == Event("tool.started", t)
                ended == Event("tool.settled", t)
    <3>1. /\ Has(stream, started) <=> t \in ToSet(running) \cup settled
          /\ Has(stream, ended) <=> t \in settled
          /\ Once(stream, started) /\ Once(stream, ended)
          /\ \A i, j \in 1..Len(stream) : stream[i] = started /\ stream[j] = ended => i < j
      BY <2>1 DEF ToolInv, ToolOK
    <3>. HIDE DEF started, ended
    <3>2. Cardinality({i \in 1..Len(stream) : stream[i] = started})
            = (IF t \in ToSet(running) \cup settled THEN 1 ELSE 0)
      BY <3>1, CountOf
    <3>3. Cardinality({i \in 1..Len(stream) : stream[i] = ended}) = (IF t \in settled THEN 1 ELSE 0)
      BY <3>1, CountOf
    <3>. QED  BY <3>1, <3>2, <3>3 DEF started, ended
  <2>. QED  BY <2>2, <2>3 DEF ToolsSettledBeforeTheEnd
<1>. QED  BY <1>1, InvariantThm, PTL

\* A cancel, a disposal and a deadline leave no interaction open in the stream; when
\* the generator is done no call is still registered to be answered; and a call with
\* an id of its own was allowed only if a client's answer is recorded, and is left
\* without an answer only if it was made after the finally block.  A call whose
\* numbered id was used again may be left without one (cancel, #consume,
\* respondToInteraction, the finally block of #run).
THEOREM NobodyThm == AllSpec => []NobodyIsLeftWaiting
<1>1. ASSUME AllInv PROVE NobodyIsLeftWaiting
  <2>1. /\ TypeOK /\ OneTerminalAtTheEnd /\ PendingInv /\ ResolveInv /\ AllowedInv /\ OrphanInv
    BY <1>1 DEF AllInv, IInv
  <2>2. HasEnded => terminal
    BY <2>1, EndedIsTerminal
  <2>. QED  BY <2>1, <2>2 DEF NobodyIsLeftWaiting, PendingInv, ResolveInv, AllowedInv, OrphanInv
<1>. QED  BY <1>1, InvariantThm, PTL

\* Whichever adapter plays the run, the supervisor is handed run.started first, no
\* request id that is open already, no resolution of one that is not, and one
\* terminal event, last, when none is open (#iterate, #run).
THEOREM RunStreamThm == AllSpec => RunStreamsAreImplemented
<1>1. AllInit => RunStreamSpec!Init /\ Reference!RunStreamSpec!Init
  <2>1. ASSUME Init PROVE RunStreamSpec!Init
    <3>1. Publishing = 0
      BY <2>1 DEF Init, Publishing
    <3>2. Published = <<>>
      BY <3>1 DEF Published
    <3>. QED  BY <3>2 DEF RunStreamSpec!Init
  <2>2. ASSUME Reference!Init PROVE Reference!RunStreamSpec!Init
    <3>1. taken = 0 /\ Len(SubSeq(Reference!Script, 1, 0)) = 0
      BY <2>2 DEF Reference!Init
    <3>2. SubSeq(Reference!Script, 1, 0) = <<>>
      BY <3>1
    <3>. QED  BY <3>1, <3>2 DEF Reference!RunStreamSpec!Init
  <2>. QED  BY <2>1, <2>2 DEF AllInit
<1>2. AllInv /\ [AllNext]_all => [RunStreamSpec!Next]_Published
  <2>. SUFFICES ASSUME AllInv, [AllNext]_all PROVE [RunStreamSpec!Next]_Published
    OBVIOUS
  <2>1. CASE CodeBuddyNext
    BY <2>1, PublishStep DEF CodeBuddyNext, AllInv
  <2>2. CASE UNCHANGED vars
    BY <2>2 DEF vars, position, Published, Publishing
  <2>. QED  BY <2>1, <2>2 DEF AllNext, ReferenceNext, codeBuddy, all
<1>3. AllInv /\ [AllNext]_all => [Reference!RunStreamSpec!Next]_(SubSeq(Reference!Script, 1, taken))
  <2>. SUFFICES ASSUME AllInv, [AllNext]_all
                PROVE  [Reference!RunStreamSpec!Next]_(SubSeq(Reference!Script, 1, taken))
    OBVIOUS
  <2>1. CASE ReferenceNext
    BY <2>1, ReferencePublishStep DEF ReferenceNext, AllInv
  <2>2. CASE UNCHANGED reference
    BY <2>2 DEF reference, Reference!Script, Reference!AfterVerdict, Reference!Report, Reference!Interaction
  <2>. QED  BY <2>1, <2>2 DEF AllNext, CodeBuddyNext, all
<1>. QED  BY <1>1, <1>2, <1>3, InvariantThm, PTL
          DEF AllSpec, RunStreamsAreImplemented, ImplementsRunStream, Reference!ImplementsRunStream,
              RunStreamSpec!Spec, Reference!RunStreamSpec!Spec
=============================================================================
