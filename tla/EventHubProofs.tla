--------------------------- MODULE EventHubProofs ---------------------------
(***************************************************************************)
(* Proofs about EventHub for any set of clients, any queue bound, any      *)
(* length of the run and any number of faults.                             *)
(***************************************************************************)
EXTENDS EventHub, FiniteSetTheorems, TLAPS

\* The events the broadcast loop is done with: all but the one in publication.
Broadcasted == IF publisher \in {"persisted", "recorded"} THEN persisted - 1 ELSE persisted

\* What the publisher's position says about the log.
PublisherInv ==
  /\ ended => persisted > 0
  /\ publisher \in {"persisted", "recorded"} => persisted > 0
  /\ publisher = "ready" => ~ended
  /\ unannounced \subseteq 1 .. persisted

\* The events that reach the client before those of its live queue.
Covered(c) == IF connection[c] \in {"read", "history"} THEN snapshot[c] ELSE Confirmed(c)

\* What the generator has read from the store, by where it stands.
PositionInv(c) ==
  /\ connection[c] # "away" =>
       /\ cursor[c] <= Confirmed(c)
       /\ lastSequence[c] <= Confirmed(c)
       /\ lastSequence[c] = 0 => Confirmed(c) = cursor[c]
       /\ lastSequence[c] # 0 => lastSequence[c] = Confirmed(c)
  /\ connection[c] \in {"reading", "read"} => lastSequence[c] = 0
  /\ connection[c] \notin {"away", "reading"} => snapshot[c] \in cursor[c] .. persisted
  /\ connection[c] \in {"read", "history"} =>
       /\ yielded[c] \in cursor[c] .. snapshot[c]
       /\ yielded[c] = Confirmed(c)
       /\ yielded[c] = cursor[c] => lastSequence[c] = 0
  /\ connection[c] \in {"tail", "tailRead"} => lastSequence[c] = 0
  /\ connection[c] = "tailRead" /\ ended /\ ~seen[c] => Confirmed(c) < persisted
  /\ connection[c] \in {"checkRun", "live"} /\ ended => Confirmed(c) < persisted

\* A queue in order.
Ascending(q) == \A i, j \in 1 .. Len(q) : i < j => q[i] < q[j]

\* Only events of the given set lie between two events ...
Gap(skipped, former, latter) == \A n \in former + 1 .. latter - 1 : n \in skipped

\* ... and between the neighbours of a queue.
Linked(skipped, q) == \A i \in 1 .. Len(q) - 1 : Gap(skipped, q[i], q[i + 1])

\* The live queue continues what the client gets before it, up to the last event
\* that is broadcast, and skips only events nobody was told of.
QueueInv(c) ==
  /\ Ascending(queue[c]) /\ Linked(unannounced, queue[c])
  /\ connection[c] # "away" /\ queue[c] # <<>> =>
       /\ queue[c][1] > 0
       /\ queue[c][1] >= cursor[c]
       /\ queue[c][Len(queue[c])] <= Broadcasted
       /\ ~closed[c] => Gap(unannounced, queue[c][Len(queue[c])], Broadcasted + 1)
  /\ connection[c] \notin {"away", "reading"} /\ queue[c] # <<>> =>
       /\ Gap(unannounced, Covered(c), queue[c][1])
       /\ queue[c][1] >= lastSequence[c]
  /\ connection[c] \notin {"away", "reading", "read"} /\ queue[c] # <<>> /\ snapshot[c] > cursor[c] =>
       queue[c][1] >= snapshot[c]
  /\ connection[c] \notin {"away", "reading"} /\ queue[c] = <<>> /\ ~closed[c] =>
       Gap(unannounced, Covered(c), Broadcasted + 1)

\* A subscriber still open when the publication of the terminal event is over
\* is one that came later and is going to find the event in the log, unless
\* nobody was told of the event.
WakeUpInv(c) ==
  /\ ended /\ publisher \in {"failing", "over"} /\ persisted \notin unannounced
  /\ connection[c] # "away" /\ ~closed[c]
  => /\ connection[c] \in {"reading", "read", "history", "tail", "tailRead"}
     /\ connection[c] \in {"read", "history"} => snapshot[c] = persisted
     /\ connection[c] = "tailRead" => seen[c]

ReceivedInv(c) ==
  /\ \A i \in 1 .. Len(received[c]) :
       /\ received[c][i] \in 1 .. persisted
       /\ i = 1 => Gap(unannounced, 0, received[c][i])
       /\ i > 1 => /\ received[c][i] >= received[c][i - 1]
                   /\ Gap(unannounced, received[c][i - 1], received[c][i])

\* An unregistered subscriber's queue is within the log too.
IdleInv(c) == \A i \in 1 .. Len(queue[c]) : queue[c][i] \in 1 .. persisted

ClientInv(c) == PositionInv(c) /\ QueueInv(c) /\ WakeUpInv(c) /\ ReceivedInv(c) /\ IdleInv(c)

IInv == TypeOK /\ PublisherInv /\ \A c \in Clients : ClientInv(c)
-----------------------------------------------------------------------------
(* Type correctness.                                                       *)

LEMMA InitTypeOK == Init => TypeOK
<1> SUFFICES ASSUME Init PROVE TypeOK
  OBVIOUS
<1>1. <<>> \in Seq(Nat)
  OBVIOUS
<1>2. queue \in [Clients -> Seq(Nat)] /\ received \in [Clients -> Seq(Nat)]
  BY <1>1 DEF Init
<1>3. /\ closed \in [Clients -> BOOLEAN] /\ overflowed \in [Clients -> BOOLEAN]
      /\ aborted \in [Clients -> BOOLEAN] /\ seen \in [Clients -> BOOLEAN]
      /\ waiting \in [Clients -> BOOLEAN]
  BY Zenon DEF Init
<1>4. /\ connection \in [Clients -> ConnectionSteps] /\ outcome \in [Clients -> Outcomes]
      /\ publisher \in PublisherSteps
  BY DEF Init, ConnectionSteps, Outcomes, PublisherSteps
<1>5. /\ cursor \in [Clients -> Nat] /\ snapshot \in [Clients -> Nat]
      /\ yielded \in [Clients -> Nat] /\ lastSequence \in [Clients -> Nat]
  BY DEF Init
<1> QED
  BY <1>2, <1>3, <1>4, <1>5 DEF Init, TypeOK

LEMMA PublishTypeOK == TypeOK /\ Publish => TypeOK'
<1> SUFFICES ASSUME TypeOK, Publish PROVE TypeOK'
  OBVIOUS
<1> USE DEF TypeOK, PublisherSteps, subscriber
<1>1. CASE PersistEvent
  <2>1. ended' \in BOOLEAN
    <3>1. (persisted + 1 = MaxEvents) \in BOOLEAN /\ (persisted > 0) \in BOOLEAN
      OBVIOUS
    <3> QED
      BY <1>1, <3>1, Zenon DEF PersistEvent, WriteEvent
  <2> QED
    BY <1>1, <2>1 DEF PersistEvent, WriteEvent
<1>2. CASE StreamFails
  BY <1>2 DEF StreamFails
<1>8. CASE AppendFails
  <2>1. ended' \in BOOLEAN
    <3>1. (persisted + 1 = MaxEvents) \in BOOLEAN /\ (persisted > 0) \in BOOLEAN
      OBVIOUS
    <3> QED
      BY <1>8, <3>1, Zenon DEF AppendFails, WriteEvent
  <2> QED
    BY <1>8, <2>1 DEF AppendFails, WriteEvent, Fault
<1>3. CASE FinishWithFailure
  <2>1. ended' \in BOOLEAN /\ recorded' \in BOOLEAN
    <3>1. (persisted > 0) \in BOOLEAN
      OBVIOUS
    <3> QED
      BY <1>3, <3>1, Zenon DEF FinishWithFailure
  <2>2. persisted' \in Nat /\ publisher' \in PublisherSteps /\ faults' \in Nat
    BY <1>3 DEF FinishWithFailure, Fault
  <2>3. unannounced' \in SUBSET Nat
    <3>1. unannounced' = unannounced \/ unannounced' = unannounced \cup {persisted + 1}
      BY <1>3 DEF FinishWithFailure
    <3>2. persisted + 1 \in Nat
      OBVIOUS
    <3> QED
      BY <3>1, <3>2
  <2> QED
    BY <1>3, <2>1, <2>2, <2>3 DEF FinishWithFailure
<1>4. CASE Record
  BY <1>4 DEF Record
<1>5. CASE AfterPersistFails
  <2>1. closed' \in [Clients -> BOOLEAN]
    BY <1>5, Zenon DEF AfterPersistFails, ClosedByFailure, Registered
  <2> QED
    BY <1>5, <2>1 DEF AfterPersistFails, Fault
<1>6. CASE Broadcast
  <2>1. closed' \in [Clients -> BOOLEAN]
    BY <1>6, Zenon DEF Broadcast, Takes, Fits, Registered
  <2>2. overflowed' \in [Clients -> BOOLEAN]
    BY <1>6, Zenon DEF Broadcast, Takes, Fits, Registered
  <2>4. waiting' \in [Clients -> BOOLEAN]
    BY <1>6, Zenon DEF Broadcast, Woken, Takes, Registered
  <2>3. queue' \in [Clients -> Seq(Nat)]
    <3>1. \A c \in Clients : Append(queue[c], persisted) \in Seq(Nat)
      OBVIOUS
    <3> QED
      BY <1>6, <3>1 DEF Broadcast
  <2> QED
    BY <1>6, <2>1, <2>2, <2>3, <2>4 DEF Broadcast
<1> QED
  BY <1>1, <1>2, <1>3, <1>4, <1>5, <1>6, <1>8 DEF Publish

\* A part of a gap is a gap.
LEMMA GapInside ==
  ASSUME NEW a \in Nat, NEW b \in Nat, Gap(unannounced, a, b),
         NEW x \in Nat, NEW y \in Nat, a <= x, y <= b
  PROVE  Gap(unannounced, x, y)
BY DEF Gap

\* Between an event and itself, its predecessor or its successor nothing lies.
LEMMA GapNone ==
  ASSUME NEW a \in Nat, NEW b \in Nat, b <= a + 1
  PROVE  Gap(unannounced, a, b)
BY DEF Gap

\* A set of positions that contains all those before each of its own is an interval.
LEMMA Cut ==
  ASSUME NEW N \in Nat, NEW S \in SUBSET (1 .. N), \A i \in S : \A j \in 1 .. i : j \in S
  PROVE  \E k \in 0 .. N : S = 1 .. k
<1>1. IsFiniteSet(1 .. N) /\ Cardinality(1 .. N) = N
  BY FS_Interval
<1>2. IsFiniteSet(S) /\ Cardinality(S) <= N /\ Cardinality(S) \in Nat
  BY <1>1, FS_Subset, FS_CardinalityType
<1> DEFINE k == Cardinality(S)
<1>3. IsFiniteSet(1 .. k) /\ Cardinality(1 .. k) = k
  BY <1>2, FS_Interval
<1>4. ASSUME NEW i \in S PROVE i \in 1 .. k
  <2>1. i \in 1 .. N /\ 1 .. i \in SUBSET S
    BY <1>4
  <2>2. Cardinality(1 .. i) = i
    BY <2>1, FS_Interval
  <2>3. Cardinality(1 .. i) <= k
    BY <1>2, <2>1, FS_Subset
  <2> HIDE DEF k
  <2> QED
    BY <2>1, <2>2, <2>3
<1>5. S \in SUBSET (1 .. k)
  BY <1>4
<1>6. S = 1 .. k
  BY <1>3, <1>5, FS_Subset
<1>7. k \in 0 .. N
  BY <1>2
<1> QED
  BY <1>6, <1>7

\* The first and the last event of a queue in order.
LEMMA Ends ==
  ASSUME NEW q \in Seq(Nat), q # <<>>, Ascending(q)
  PROVE  /\ Len(q) \in Nat \ {0} /\ 1 \in 1 .. Len(q) /\ Len(q) \in 1 .. Len(q)
         /\ q[1] \in Nat /\ q[Len(q)] \in Nat /\ q[1] <= q[Len(q)]
<1>1. Len(q) \in Nat \ {0}
  OBVIOUS
<1>2. 1 \in 1 .. Len(q) /\ Len(q) \in 1 .. Len(q)
  BY <1>1
<1>3. q[1] \in Nat /\ q[Len(q)] \in Nat
  BY <1>2
<1>4. q[1] <= q[Len(q)]
  BY <1>1, <1>2, <1>3 DEF Ascending
<1> QED
  BY <1>1, <1>2, <1>3, <1>4

\* What is left of a queue in order is its end: the events after the given one.
LEMMA AfterType ==
  ASSUME NEW q \in Seq(Nat), NEW n \in Nat, Ascending(q)
  PROVE  /\ After(q, n) \in Seq(Nat)
         /\ Len(After(q, n)) <= Len(q)
         /\ \A i \in 1 .. Len(After(q, n)) :
              After(q, n)[i] = q[Len(q) - Len(After(q, n)) + i]
         /\ \A i \in 1 .. Len(After(q, n)) : After(q, n)[i] > n
         /\ \A i \in 1 .. Len(q) - Len(After(q, n)) : q[i] <= n
<1> DEFINE Stale(k) == /\ \A i \in 1 .. k : q[i] <= n
                       /\ \A i \in k + 1 .. Len(q) : q[i] > n
           S == {i \in 1 .. Len(q) : q[i] <= n}
<1>1. \E k \in 0 .. Len(q) : Stale(k)
  <2>1. Len(q) \in Nat /\ S \in SUBSET (1 .. Len(q))
    OBVIOUS
  <2>2. ASSUME NEW i \in S, NEW j \in 1 .. i PROVE j \in S
    <3>1. i \in 1 .. Len(q) /\ q[i] <= n /\ j \in 1 .. Len(q) /\ (j < i \/ j = i)
      BY <2>1, <2>2
    <3>2. q[i] \in Nat /\ q[j] \in Nat
      BY <3>1
    <3>3. j < i => q[j] < q[i]
      BY <3>1 DEF Ascending
    <3> QED
      BY <3>1, <3>2, <3>3
  <2> HIDE DEF S
  <2>3. PICK k \in 0 .. Len(q) : S = 1 .. k
    BY <2>1, <2>2, Cut
  <2> USE DEF S
  <2>4. \A i \in 1 .. k : q[i] <= n
    BY <2>3
  <2>5. ASSUME NEW i \in k + 1 .. Len(q) PROVE q[i] > n
    <3>1. i \in 1 .. Len(q) /\ i \notin 1 .. k
      BY <2>1, <2>3, <2>5
    <3>2. ~(q[i] <= n) /\ q[i] \in Nat
      BY <2>3, <3>1
    <3> QED
      BY <3>2
  <2> QED
    BY <2>4, <2>5
<1>2. PICK k \in 0 .. Len(q) : Stale(k) /\ After(q, n) = SubSeq(q, k + 1, Len(q))
  BY <1>1 DEF After
<1>3. /\ After(q, n) \in Seq(Nat)
      /\ Len(After(q, n)) = Len(q) - k
      /\ \A i \in 1 .. Len(q) - k : After(q, n)[i] = q[k + i]
  <2>1. Len(q) \in Nat
    OBVIOUS
  <2>2. SubSeq(q, k + 1, Len(q)) \in Seq(Nat)
    BY <2>1
  <2>3. Len(SubSeq(q, k + 1, Len(q))) = Len(q) - k
    BY <2>1
  <2>4. \A i \in 1 .. Len(q) - k : SubSeq(q, k + 1, Len(q))[i] = q[k + i]
    BY <2>1
  <2> QED
    BY <1>2, <2>2, <2>3, <2>4
<1>4. Len(q) \in Nat /\ Len(q) - (Len(q) - k) = k
  OBVIOUS
<1>5. \A i \in 1 .. Len(q) - k : After(q, n)[i] > n
  <2> SUFFICES ASSUME NEW i \in 1 .. Len(q) - k PROVE q[k + i] > n
    BY <1>3
  <2>1. k + i \in k + 1 .. Len(q)
    BY <1>4
  <2> QED
    BY <1>2, <2>1
<1>6. \A i \in 1 .. Len(After(q, n)) :
        After(q, n)[i] = q[Len(q) - Len(After(q, n)) + i] /\ After(q, n)[i] > n
  BY <1>3, <1>4, <1>5
<1>7. Len(After(q, n)) <= Len(q)
  BY <1>3, <1>4
<1>8. \A i \in 1 .. Len(q) - Len(After(q, n)) : q[i] <= n
  BY <1>2, <1>3, <1>4
<1> QED
  BY <1>3, <1>6, <1>7, <1>8

\* What is left of a linked queue is linked, and starts where the dropped part
\* ended.
LEMMA AfterLinked ==
  ASSUME NEW q \in Seq(Nat), NEW n \in Nat, Ascending(q), Linked(unannounced, q), NEW a \in Seq(Nat),
         a = After(q, n)
  PROVE  /\ a \in Seq(Nat) /\ Ascending(a) /\ Linked(unannounced, a)
         /\ \A i \in 1 .. Len(a) : \E k \in 1 .. Len(q) : a[i] = q[k]
         /\ a = <<>> /\ q # <<>> => q[Len(q)] <= n
         /\ a # <<>> => /\ q # <<>> /\ a[1] \in Nat /\ a[1] > n /\ a[1] >= q[1]
                        /\ a[1] = q[1] \/ Gap(unannounced, n, a[1])
                        /\ a[Len(a)] = q[Len(q)]
<1>1. /\ a \in Seq(Nat)
      /\ Len(a) <= Len(q)
      /\ \A i \in 1 .. Len(a) : a[i] = q[Len(q) - Len(a) + i]
      /\ \A i \in 1 .. Len(a) : a[i] > n
      /\ \A i \in 1 .. Len(q) - Len(a) : q[i] <= n
  BY AfterType
<1>2. Len(a) \in Nat /\ Len(q) \in Nat
  BY <1>1
<1> DEFINE d == Len(q) - Len(a)
<1>3. d \in Nat /\ Len(q) = d + Len(a)
  BY <1>1, <1>2
<1>4. \A i \in 1 .. Len(a) : d + i \in 1 .. Len(q) /\ a[i] = q[d + i]
  <2> SUFFICES ASSUME NEW i \in 1 .. Len(a) PROVE d + i \in 1 .. Len(q) /\ a[i] = q[d + i]
    OBVIOUS
  <2>1. a[i] = q[d + i]
    BY <1>1
  <2> HIDE DEF d
  <2>2. d + i \in 1 .. Len(q)
    BY <1>2, <1>3
  <2> QED
    BY <2>1, <2>2
<1>d. \A i \in 1 .. d : q[i] <= n
  BY <1>1
<1> HIDE DEF d
<1>5. Ascending(a)
  <2> SUFFICES ASSUME NEW i \in 1 .. Len(a), NEW j \in 1 .. Len(a), i < j PROVE a[i] < a[j]
    BY DEF Ascending
  <2>1. /\ d + i \in 1 .. Len(q) /\ a[i] = q[d + i]
        /\ d + j \in 1 .. Len(q) /\ a[j] = q[d + j]
    BY <1>4
  <2>2. d + i < d + j
    BY <1>3
  <2> QED
    BY <2>1, <2>2 DEF Ascending
<1>6. Linked(unannounced, a)
  <2> SUFFICES ASSUME NEW i \in 1 .. Len(a) - 1 PROVE Gap(unannounced, a[i], a[i + 1])
    BY DEF Linked
  <2>1. i \in 1 .. Len(a) /\ i + 1 \in 1 .. Len(a)
    BY <1>2
  <2>2. a[i] = q[d + i] /\ a[i + 1] = q[d + (i + 1)]
    BY <1>4, <2>1
  <2>3. d + i \in 1 .. Len(q) - 1 /\ d + (i + 1) = (d + i) + 1
    BY <1>2, <1>3
  <2> QED
    BY <2>2, <2>3 DEF Linked
<1>7. ASSUME a # <<>>
      PROVE  /\ q # <<>> /\ a[1] \in Nat /\ a[1] > n /\ a[1] = q[d + 1] /\ q[1] \in Nat
             /\ d + 1 \in 1 .. Len(q) /\ a[Len(a)] = q[Len(q)]
  <2>1. Len(a) \in 1 .. Len(a) /\ 1 \in 1 .. Len(a)
    BY <1>1, <1>7
  <2>2. q # <<>>
    BY <1>1, <1>2, <2>1
  <2>3. q[1] \in Nat
    BY <2>2, Ends
  <2>4. a[1] = q[d + 1] /\ a[1] > n /\ d + 1 \in 1 .. Len(q) /\ a[1] \in Nat
    BY <1>1, <1>4, <2>1
  <2>5. a[Len(a)] = q[d + Len(a)]
    BY <1>4, <2>1
  <2> QED
    BY <1>3, <2>2, <2>3, <2>4, <2>5
<1>8. a = <<>> /\ q # <<>> => q[Len(q)] <= n
  <2> SUFFICES ASSUME a = <<>>, q # <<>> PROVE q[Len(q)] <= n
    OBVIOUS
  <2>1. Len(q) \in 1 .. Len(q) /\ Len(a) = 0
    BY Ends
  <2>2. d = Len(q)
    BY <1>2, <1>3, <2>1
  <2> QED
    BY <1>d, <2>1, <2>2
<1>9. a # <<>> => a[1] = q[1] \/ Gap(unannounced, n, a[1])
  <2> SUFFICES ASSUME a # <<>>, d > 0 PROVE Gap(unannounced, n, a[1])
    BY <1>3, <1>7
  <2>1. d \in 1 .. d /\ d \in 1 .. Len(q) - 1 /\ d \in 1 .. Len(q)
    BY <1>2, <1>3, <1>7
  <2>2. q[d] <= n /\ Gap(unannounced, q[d], q[d + 1]) /\ q[d] \in Nat
    BY <1>d, <2>1 DEF Linked
  <2>3. a[1] = q[d + 1] /\ a[1] \in Nat
    BY <1>7
  <2> QED
    BY <2>2, <2>3 DEF Gap
<1>10. \A i \in 1 .. Len(a) : \E k \in 1 .. Len(q) : a[i] = q[k]
  BY <1>4
<1>11. a # <<>> => a[1] >= q[1]
  <2> SUFFICES ASSUME a # <<>> PROVE a[1] >= q[1]
    OBVIOUS
  <2>1. d + 1 \in 1 .. Len(q) /\ 1 \in 1 .. Len(q) /\ a[1] = q[d + 1] /\ a[1] \in Nat /\ q[1] \in Nat
    BY <1>7, <1>2
  <2>2. d = 0 \/ 1 < d + 1
    BY <1>3
  <2>3. 1 < d + 1 => q[1] < q[d + 1]
    BY <2>1 DEF Ascending
  <2> QED
    BY <2>1, <2>2, <2>3
<1> QED
  BY <1>1, <1>5, <1>6, <1>7, <1>8, <1>9, <1>10, <1>11

\* The same for what is left after the first event.
LEMMA TailLinked ==
  ASSUME NEW q \in Seq(Nat), q # <<>>, Ascending(q), Linked(unannounced, q), NEW t, t = Tail(q)
  PROVE  /\ t \in Seq(Nat) /\ Ascending(t) /\ Linked(unannounced, t) /\ Head(q) = q[1]
         /\ \A i \in 1 .. Len(t) : i + 1 \in 1 .. Len(q) /\ t[i] = q[i + 1]
         /\ t = <<>> => q[Len(q)] = q[1]
         /\ t # <<>> => /\ t[1] \in Nat /\ t[1] > q[1] /\ Gap(unannounced, q[1], t[1])
                        /\ t[Len(t)] = q[Len(q)]
<1>1. /\ t \in Seq(Nat) /\ Head(q) = q[1] /\ Len(q) \in Nat \ {0} /\ Len(t) = Len(q) - 1
      /\ \A i \in 1 .. Len(t) : t[i] = q[i + 1]
  OBVIOUS
<1>2. \A i \in 1 .. Len(t) : i + 1 \in 1 .. Len(q)
  BY <1>1
<1>3. Ascending(t)
  <2> SUFFICES ASSUME NEW i \in 1 .. Len(t), NEW j \in 1 .. Len(t), i < j PROVE t[i] < t[j]
    BY DEF Ascending
  <2>1. /\ i + 1 \in 1 .. Len(q) /\ t[i] = q[i + 1]
        /\ j + 1 \in 1 .. Len(q) /\ t[j] = q[j + 1]
    BY <1>1, <1>2
  <2>2. i + 1 < j + 1
    OBVIOUS
  <2> QED
    BY <2>1, <2>2 DEF Ascending
<1>4. Linked(unannounced, t)
  <2> SUFFICES ASSUME NEW i \in 1 .. Len(t) - 1 PROVE Gap(unannounced, t[i], t[i + 1])
    BY DEF Linked
  <2>1. i \in 1 .. Len(t) /\ i + 1 \in 1 .. Len(t) /\ i + 1 \in 1 .. Len(q) - 1
    BY <1>1
  <2>2. t[i] = q[i + 1] /\ t[i + 1] = q[(i + 1) + 1]
    BY <1>1, <2>1
  <2> QED
    BY <2>1, <2>2 DEF Linked
<1>6. t # <<>> => /\ t[1] \in Nat /\ t[1] > q[1] /\ Gap(unannounced, q[1], t[1])
                  /\ t[Len(t)] = q[Len(q)]
  <2> SUFFICES ASSUME t # <<>>
               PROVE  /\ t[1] \in Nat /\ t[1] > q[1] /\ Gap(unannounced, q[1], t[1])
                      /\ t[Len(t)] = q[Len(q)]
    OBVIOUS
  <2>1. 1 \in 1 .. Len(t) /\ Len(t) \in 1 .. Len(t) /\ 1 \in 1 .. Len(q) - 1
    BY <1>1
  <2>2. t[1] = q[1 + 1] /\ t[1] \in Nat /\ t[Len(t)] = q[Len(t) + 1]
    BY <1>1, <2>1
  <2>3. 1 \in 1 .. Len(q) /\ 1 + 1 \in 1 .. Len(q) /\ Len(t) + 1 = Len(q)
    BY <1>1, <2>1
  <2>4. q[1] < q[1 + 1] /\ q[1] \in Nat
    BY <2>3 DEF Ascending
  <2>5. Gap(unannounced, q[1], q[1 + 1])
    BY <2>1 DEF Linked
  <2> QED
    BY <2>2, <2>3, <2>4, <2>5
<1>8. t = <<>> => q[Len(q)] = q[1]
  <2>1. t = <<>> => Len(t) = 0
    OBVIOUS
  <2>2. t = <<>> => Len(q) = 1
    BY <1>1, <2>1
  <2> QED
    BY <2>2
<1> QED
  BY <1>1, <1>2, <1>3, <1>4, <1>6, <1>8

\* One event more at the end of a linked queue, if only events of the set are skipped.
LEMMA AppendLinked ==
  ASSUME NEW q \in Seq(Nat), NEW e \in Nat, Ascending(q), Linked(unannounced, q),
         q # <<>> => q[Len(q)] < e /\ Gap(unannounced, q[Len(q)], e),
         NEW b \in Seq(Nat), Len(b) = Len(q) + 1, b[Len(q) + 1] = e, \A i \in 1 .. Len(q) : b[i] = q[i]
  PROVE  /\ b # <<>> /\ Ascending(b) /\ Linked(unannounced, b) /\ b[Len(b)] = e
         /\ q = <<>> => b[1] = e
         /\ q # <<>> => b[1] = q[1]
<1>1. /\ b \in Seq(Nat) /\ Len(q) \in Nat /\ Len(b) = Len(q) + 1 /\ b[Len(q) + 1] = e
      /\ \A i \in 1 .. Len(q) : b[i] = q[i]
  OBVIOUS
<1>2. \A i \in 1 .. Len(b) : i = Len(q) + 1 \/ i \in 1 .. Len(q)
  BY <1>1
<1>3. (q = <<>> => b[1] = e) /\ (q # <<>> => b[1] = q[1])
  BY <1>1
<1>4. Ascending(b)
  <2> SUFFICES ASSUME NEW i \in 1 .. Len(b), NEW j \in 1 .. Len(b), i < j PROVE b[i] < b[j]
    BY DEF Ascending
  <2>1. i \in 1 .. Len(q) /\ b[i] = q[i] /\ q[i] \in Nat /\ q # <<>> /\ Len(q) \in 1 .. Len(q)
    BY <1>1
  <2>2. CASE j \in 1 .. Len(q)
    <3>1. b[j] = q[j] /\ q[i] < q[j]
      BY <1>1, <2>1, <2>2 DEF Ascending
    <3> QED
      BY <2>1, <3>1
  <2>3. CASE j = Len(q) + 1
    <3>1. b[j] = e /\ q[Len(q)] < e /\ q[Len(q)] \in Nat
      BY <1>1, <2>1, <2>3
    <3>2. q[i] <= q[Len(q)]
      <4>1. i = Len(q) \/ i < Len(q)
        BY <1>1, <2>1
      <4>2. i < Len(q) => q[i] < q[Len(q)]
        BY <2>1 DEF Ascending
      <4> QED
        BY <2>1, <3>1, <4>1, <4>2
    <3> QED
      BY <2>1, <3>1, <3>2
  <2> QED
    BY <1>2, <2>2, <2>3
<1>5. Linked(unannounced, b)
  <2> SUFFICES ASSUME NEW i \in 1 .. Len(b) - 1 PROVE Gap(unannounced, b[i], b[i + 1])
    BY DEF Linked
  <2>1. i \in 1 .. Len(q) /\ b[i] = q[i] /\ q # <<>>
    BY <1>1
  <2>2. CASE i = Len(q)
    BY <1>1, <2>1, <2>2
  <2>3. CASE i \in 1 .. Len(q) - 1
    <3>1. i + 1 \in 1 .. Len(q) /\ b[i + 1] = q[i + 1]
      BY <1>1, <2>3
    <3> QED
      BY <2>1, <2>3, <3>1 DEF Linked
  <2> QED
    BY <1>1, <2>1, <2>2, <2>3
<1>6. b[Len(b)] = e /\ b # <<>>
  BY <1>1
<1> QED
  BY <1>1, <1>3, <1>4, <1>5, <1>6

LEMMA AppendElements ==
  ASSUME NEW q \in Seq(Nat), NEW e \in Nat, NEW b, b = Append(q, e), NEW i \in 1 .. Len(b)
  PROVE  b[i] = e \/ (i \in 1 .. Len(q) /\ b[i] = q[i])
<1>1. Len(b) = Len(q) + 1 /\ Len(q) \in Nat
  OBVIOUS
<1>2. CASE i = Len(q) + 1
  BY <1>1, <1>2
<1>3. CASE i \in 1 .. Len(q)
  BY <1>1, <1>3
<1> QED
  BY <1>1, <1>2, <1>3

\* The type of everything a subscriber's step may change at its own client.
LEMMA IterateTypeOK ==
  ASSUME TypeOK, NEW c \in Clients, QueueInv(c),
         Subscribe(c) \/ Iterate(c) \/ ReadFails(c) \/ Abort(c)
  PROVE  TypeOK'
<1> USE DEF TypeOK, ConnectionSteps, Outcomes, publication
<1>1. Confirmed(c) \in Nat
  BY DEF Confirmed
<1>2. CASE Subscribe(c)
  <2>1. <<>> \in Seq(Nat)
    OBVIOUS
  <2> QED
    BY <1>1, <1>2, <2>1 DEF Subscribe
<1>3. CASE ReadHistory(c)
  BY <1>3 DEF ReadHistory
<1>4. CASE StartHistory(c)
  <2>1. HistoricalLastSequence(c) \in Nat
    BY DEF HistoricalLastSequence
  <2>2. After(queue[c], HistoricalLastSequence(c)) \in Seq(Nat)
    BY <2>1, AfterType DEF QueueInv
  <2> QED
    BY <1>4, <2>2 DEF StartHistory
<1>5. CASE YieldHistory(c)
  <2>1. Append(received[c], yielded[c] + 1) \in Seq(Nat)
    OBVIOUS
  <2>2. /\ received' \in [Clients -> Seq(Nat)]
        /\ lastSequence' \in [Clients -> Nat] /\ yielded' \in [Clients -> Nat]
    BY <1>5, <2>1 DEF YieldHistory, HandTo
  <2> QED
    BY <1>5, <2>2 DEF YieldHistory
<1>6. CASE EndHistory(c)
  <2>1. connection' \in [Clients -> ConnectionSteps] /\ outcome' \in [Clients -> Outcomes]
    BY <1>6 DEF EndHistory, Leave
  <2>2. closed' \in [Clients -> BOOLEAN]
    BY <1>6, Zenon DEF EndHistory, Leave
  <2>3. seen' \in [Clients -> BOOLEAN]
    BY <1>6, Zenon DEF EndHistory
  <2> QED
    BY <1>6, <2>1, <2>2, <2>3 DEF EndHistory
<1>7. CASE ReadTail(c)
  <2>1. connection' \in [Clients -> ConnectionSteps] /\ outcome' \in [Clients -> Outcomes]
    BY <1>7 DEF ReadTail
  <2>2. closed' \in [Clients -> BOOLEAN]
    BY <1>7, Zenon DEF ReadTail
  <2>3. seen' \in [Clients -> BOOLEAN]
    BY <1>7, Zenon DEF ReadTail
  <2> QED
    BY <1>7, <2>1, <2>2, <2>3 DEF ReadTail
<1>8. CASE EndTail(c)
  <2>1. connection' \in [Clients -> ConnectionSteps] /\ outcome' \in [Clients -> Outcomes]
    BY <1>8 DEF EndTail, Leave
  <2>2. closed' \in [Clients -> BOOLEAN]
    BY <1>8, Zenon DEF EndTail, Leave
  <2>3. seen' \in [Clients -> BOOLEAN]
    BY <1>8, Zenon DEF EndTail
  <2> QED
    BY <1>8, <2>1, <2>2, <2>3 DEF EndTail
<1>9. CASE CheckRun(c)
  <2>1. connection' \in [Clients -> ConnectionSteps] /\ outcome' \in [Clients -> Outcomes]
    BY <1>9 DEF CheckRun, Leave
  <2>2. closed' \in [Clients -> BOOLEAN]
    BY <1>9, Zenon DEF CheckRun, Leave
  <2>3. seen' \in [Clients -> BOOLEAN]
    BY <1>9, Zenon DEF CheckRun
  <2> QED
    BY <1>9, <2>1, <2>2, <2>3 DEF CheckRun
<1>10. CASE Deliver(c)
  <2>1. Tail(queue[c]) \in Seq(Nat) /\ Head(queue[c]) \in Nat
    BY <1>10 DEF Deliver
  <2>2. Append(received[c], Head(queue[c])) \in Seq(Nat)
    BY <2>1
  <2>3. lastSequence' \in [Clients -> Nat] /\ received' \in [Clients -> Seq(Nat)]
    <3>1. CASE Fresh(c, Head(queue[c]))
      <4>1. HandTo(c, Head(queue[c]))
        BY <1>10, <3>1 DEF Deliver
      <4> QED
        BY <2>1, <2>2, <4>1 DEF HandTo
    <3>2. CASE ~Fresh(c, Head(queue[c]))
      BY <1>10, <3>2 DEF Deliver
    <3> QED
      BY <3>1, <3>2
  <2>4. connection' \in [Clients -> ConnectionSteps] /\ outcome' \in [Clients -> Outcomes]
    BY <1>10 DEF Deliver, Leave
  <2>5. closed' \in [Clients -> BOOLEAN]
    BY <1>10, Zenon DEF Deliver, Leave
  <2>6. queue' \in [Clients -> Seq(Nat)]
    BY <1>10, <2>1 DEF Deliver
  <2> QED
    BY <1>10, <2>3, <2>4, <2>5, <2>6 DEF Deliver
<1>11. CASE Drained(c)
  BY <1>11 DEF Drained, Leave, DrainedOutcome
<1>12. CASE StopAborted(c)
  BY <1>12 DEF StopAborted, Leave
<1>13. CASE ReadFails(c)
  BY <1>13 DEF ReadFails, Leave, Fault
<1>14. CASE Abort(c)
  BY <1>14 DEF Abort, Fault
<1>15. CASE Wait(c)
  BY <1>15 DEF Wait
<1> QED
  BY <1>15, <1>2, <1>3, <1>4, <1>5, <1>6, <1>7, <1>8, <1>9, <1>10, <1>11, <1>12, <1>13, <1>14 DEF Iterate

LEMMA RestartTypeOK == TypeOK /\ Restart => TypeOK'
<1> SUFFICES ASSUME TypeOK, Restart PROVE TypeOK'
  OBVIOUS
<1>1. persisted' \in Nat
  BY DEF TypeOK, Restart, RecoveredLength
<1>2. outcome' \in [Clients -> Outcomes]
  BY DEF TypeOK, Restart, Outcomes
<1> QED
  BY <1>1, <1>2 DEF TypeOK, Restart, Fault, PublisherSteps, ConnectionSteps

-----------------------------------------------------------------------------
(* The inductive invariant.                                                *)

\* A client whose subscriber a step leaves alone keeps its invariant.
LEMMA Frame ==
  ASSUME NEW d \in Clients, ClientInv(d), UNCHANGED publication,
         connection'[d] = connection[d], cursor'[d] = cursor[d], snapshot'[d] = snapshot[d],
         yielded'[d] = yielded[d], lastSequence'[d] = lastSequence[d], queue'[d] = queue[d],
         closed'[d] = closed[d], seen'[d] = seen[d], received'[d] = received[d]
  PROVE  ClientInv(d)'
<1> USE DEF publication, Confirmed
<1>1. PositionInv(d)'
  BY DEF ClientInv, PositionInv
<1>2. QueueInv(d)'
  BY DEF ClientInv, QueueInv, Covered, Broadcasted
<1>3. WakeUpInv(d)'
  BY DEF ClientInv, WakeUpInv
<1>4. ReceivedInv(d)' /\ IdleInv(d)'
  BY DEF ClientInv, ReceivedInv, IdleInv
<1> QED
  BY <1>1, <1>2, <1>3, <1>4 DEF ClientInv

LEMMA InitInv == Init => IInv
<1> SUFFICES ASSUME Init PROVE IInv
  OBVIOUS
<1>1. TypeOK
  BY InitTypeOK
<1>2. PublisherInv
  BY DEF Init, PublisherInv
<1>3. ASSUME NEW c \in Clients PROVE ClientInv(c)
  <2>1. connection[c] = "away" /\ Len(queue[c]) = 0 /\ Len(received[c]) = 0
    BY DEF Init
  <2>2. lastSequence[c] = 0
    BY DEF Init
  <2> QED
    BY <2>1, <2>2 DEF ClientInv, PositionInv, QueueInv, Ascending, Linked, WakeUpInv, ReceivedInv, IdleInv
<1> QED
  BY <1>1, <1>2, <1>3 DEF IInv

LEMMA SubscribeInv ==
  ASSUME IInv, NEW c \in Clients, Subscribe(c)
  PROVE  ClientInv(c)'
<1> USE DEF IInv, TypeOK, Subscribe, publication
<1>1. /\ connection'[c] = "reading" /\ cursor'[c] = Confirmed(c) /\ lastSequence'[c] = 0
      /\ queue'[c] = <<>> /\ received'[c] = received[c]
  OBVIOUS
<1>2. Len(queue'[c]) = 0 /\ Confirmed(c)' = Confirmed(c) /\ Confirmed(c) \in Nat
  BY <1>1 DEF Confirmed
<1>3. PositionInv(c)' /\ QueueInv(c)' /\ WakeUpInv(c)'
  BY <1>1, <1>2 DEF PositionInv, QueueInv, Ascending, Linked, WakeUpInv
<1>4. ReceivedInv(c)' /\ IdleInv(c)'
  BY <1>1, <1>2 DEF ClientInv, ReceivedInv, IdleInv
<1> QED
  BY <1>3, <1>4 DEF ClientInv

\* What the invariant says of one client, its types included.
LEMMA ClientFacts ==
  ASSUME IInv, NEW c \in Clients
  PROVE  /\ PositionInv(c) /\ QueueInv(c) /\ WakeUpInv(c) /\ ReceivedInv(c) /\ IdleInv(c)
         /\ persisted \in Nat /\ cursor[c] \in Nat /\ snapshot[c] \in Nat /\ yielded[c] \in Nat
         /\ lastSequence[c] \in Nat /\ queue[c] \in Seq(Nat) /\ received[c] \in Seq(Nat)
         /\ Broadcasted \in Nat /\ Broadcasted <= persisted
         /\ Confirmed(c) \in Nat /\ Confirmed(c) <= persisted
         /\ queue[c] # <<>> => /\ 1 \in 1 .. Len(queue[c]) /\ queue[c][1] \in 1 .. persisted
                               /\ queue[c][Len(queue[c])] \in 1 .. persisted
<1>1. /\ PositionInv(c) /\ QueueInv(c) /\ WakeUpInv(c) /\ ReceivedInv(c) /\ IdleInv(c)
  BY DEF IInv, ClientInv
<1>2. /\ persisted \in Nat /\ cursor[c] \in Nat /\ snapshot[c] \in Nat /\ yielded[c] \in Nat
      /\ lastSequence[c] \in Nat /\ queue[c] \in Seq(Nat) /\ received[c] \in Seq(Nat)
  BY DEF IInv, TypeOK
<1>3. Broadcasted \in Nat /\ Broadcasted <= persisted
  BY <1>2 DEF Broadcasted, IInv, PublisherInv
<1>4. Confirmed(c) \in Nat /\ Confirmed(c) <= persisted
  BY <1>1, <1>2 DEF Confirmed, ReceivedInv
<1>5. queue[c] # <<>> => /\ 1 \in 1 .. Len(queue[c]) /\ queue[c][1] \in 1 .. persisted
                         /\ queue[c][Len(queue[c])] \in 1 .. persisted
  <2>1. queue[c] # <<>> => 1 \in 1 .. Len(queue[c]) /\ Len(queue[c]) \in 1 .. Len(queue[c])
    BY <1>2
  <2> QED
    BY <1>1, <2>1 DEF IdleInv
<1> QED
  BY <1>1, <1>2, <1>3, <1>4, <1>5

\* A client whose generator is gone is only bound by what it has received.
LEMMA LeaveInv ==
  ASSUME NEW c \in Clients, connection'[c] = "away", ReceivedInv(c)', IdleInv(c)',
         Ascending(queue[c])', Linked(unannounced, queue[c])'
  PROVE  ClientInv(c)'
BY DEF ClientInv, PositionInv, QueueInv, WakeUpInv

\* ... so a step that only ends its connection keeps its invariant.
LEMMA LeaveOnlyInv ==
  ASSUME IInv, NEW c \in Clients, connection'[c] = "away", UNCHANGED <<publication, queue, received>>
  PROVE  ClientInv(c)'
<1>1. ReceivedInv(c)' /\ IdleInv(c)'
  BY ClientFacts DEF ReceivedInv, IdleInv, publication
<1>2. Ascending(queue[c])' /\ Linked(unannounced, queue[c])'
  BY ClientFacts DEF QueueInv, publication
<1> QED
  BY <1>1, <1>2, LeaveInv

\* Handing an event to the client makes it the confirmed one ...
LEMMA AppendConfirms ==
  ASSUME NEW c \in Clients, received[c] \in Seq(Nat), NEW e \in Nat,
         received'[c] = Append(received[c], e)
  PROVE  Confirmed(c)' = e
BY DEF Confirmed

\* ... and keeps the order if only events nobody was told of are skipped.
LEMMA AppendReceived ==
  ASSUME NEW c \in Clients, received[c] \in Seq(Nat), ReceivedInv(c), persisted \in Nat,
         persisted' = persisted, unannounced' = unannounced, NEW e \in 1 .. persisted,
         e >= Confirmed(c), Gap(unannounced, Confirmed(c), e),
         received'[c] = Append(received[c], e)
  PROVE  ReceivedInv(c)'
<1> DEFINE r == received[c]
           s == received'[c]
<1>1. /\ Len(r) \in Nat /\ Len(s) = Len(r) + 1 /\ s[Len(r) + 1] = e
      /\ \A i \in 1 .. Len(r) : s[i] = r[i]
  OBVIOUS
<1>2. ASSUME NEW i \in 1 .. Len(s)
      PROVE  /\ s[i] \in 1 .. persisted
             /\ i = 1 => Gap(unannounced, 0, s[i])
             /\ i > 1 => s[i] >= s[i - 1] /\ Gap(unannounced, s[i - 1], s[i])
  <2>1. CASE i \in 1 .. Len(r)
    <3>1. i > 1 => i - 1 \in 1 .. Len(r)
      BY <2>1
    <3> QED
      BY <1>1, <2>1, <3>1 DEF ReceivedInv
  <2>2. CASE i = Len(r) + 1 /\ r = <<>>
    <3>1. i = 1 /\ Confirmed(c) = 0
      BY <2>2 DEF Confirmed
    <3> QED
      BY <1>1, <2>2, <3>1
  <2>3. CASE i = Len(r) + 1 /\ r # <<>>
    <3>1. i - 1 \in 1 .. Len(r) /\ i > 1 /\ i - 1 = Len(r)
      BY <1>1, <2>3
    <3>2. s[i - 1] = Confirmed(c)
      BY <1>1, <2>3, <3>1 DEF Confirmed
    <3> QED
      BY <1>1, <2>3, <3>1, <3>2
  <2>4. i \in 1 .. Len(r) \/ i = Len(r) + 1
    BY <1>1
  <2> QED
    BY <2>1, <2>2, <2>3, <2>4, Zenon
<1> QED
  BY <1>2 DEF ReceivedInv

\* What the queue of a registered client holds, without its order.
LEMMA QueueBounds ==
  ASSUME IInv, NEW c \in Clients, connection[c] # "away", queue[c] # <<>>
  PROVE  /\ queue[c][1] > 0 /\ queue[c][1] >= cursor[c]
         /\ queue[c][Len(queue[c])] <= Broadcasted
         /\ ~closed[c] => Gap(unannounced, queue[c][Len(queue[c])], Broadcasted + 1)
<1>1. QueueInv(c)
  BY ClientFacts
<1> QED
  BY <1>1 DEF QueueInv

\* Where the queue of a client with a snapshot may begin.
LEMMA QueueStarts ==
  ASSUME IInv, NEW c \in Clients, connection[c] \notin {"away", "reading"}, queue[c] # <<>>
  PROVE  /\ Gap(unannounced, Covered(c), queue[c][1])
         /\ queue[c][1] >= lastSequence[c]
         /\ connection[c] # "read" /\ snapshot[c] > cursor[c] => queue[c][1] >= snapshot[c]
<1>1. QueueInv(c)
  BY ClientFacts
<1> QED
  BY <1>1 DEF QueueInv

\* The queue's clauses after a step that tells nobody of anything, from its
\* state before it.
LEMMA QueueKeeps ==
  ASSUME NEW c \in Clients, QueueInv(c), unannounced' = unannounced, Broadcasted' = Broadcasted,
         queue'[c] = queue[c], snapshot'[c] = snapshot[c], cursor'[c] = cursor[c],
         closed[c] => closed'[c], connection[c] \notin {"away", "reading", "read"},
         connection'[c] \notin {"away", "reading", "read"}, Covered(c)' = Covered(c),
         lastSequence'[c] = lastSequence[c]
  PROVE  QueueInv(c)'
BY DEF QueueInv

LEMMA StartHistoryInv ==
  ASSUME IInv, NEW c \in Clients, StartHistory(c)
  PROVE  ClientInv(c)'
<1> DEFINE q == queue[c]
           h == HistoricalLastSequence(c)
           a == After(q, h)
<1>1. /\ connection[c] = "read" /\ connection'[c] = "history" /\ snapshot' = snapshot
      /\ yielded' = yielded /\ persisted' = persisted /\ publisher' = publisher
      /\ ended' = ended /\ cursor' = cursor /\ lastSequence' = lastSequence /\ queue'[c] = a
      /\ closed' = closed /\ received' = received /\ seen' = seen /\ unannounced' = unannounced
  BY DEF IInv, TypeOK, StartHistory, publication
<1>2. Confirmed(c)' = Confirmed(c) /\ Broadcasted' = Broadcasted
  BY <1>1 DEF Confirmed, Broadcasted
<1>3. PositionInv(c)'
  BY <1>1, <1>2, ClientFacts DEF PositionInv
<1>4. h \in Nat /\ h <= snapshot[c] /\ (snapshot[c] > cursor[c] => h = snapshot[c])
  BY ClientFacts DEF HistoricalLastSequence
<1>5. q \in Seq(Nat) /\ Ascending(q) /\ Linked(unannounced, q)
  BY ClientFacts DEF QueueInv
<1>6. /\ a \in Seq(Nat) /\ Ascending(a) /\ Linked(unannounced, a)
      /\ \A i \in 1 .. Len(a) : \E k \in 1 .. Len(q) : a[i] = q[k]
      /\ a = <<>> /\ q # <<>> => q[Len(q)] <= h
      /\ a # <<>> => /\ q # <<>> /\ a[1] \in Nat /\ a[1] > h /\ a[1] >= q[1]
                     /\ a[1] = q[1] \/ Gap(unannounced, h, a[1])
                     /\ a[Len(a)] = q[Len(q)]
  <2>1. PICK n \in Nat : n = h
    BY <1>4
  <2>2. PICK p \in Seq(Nat) : p = q
    BY <1>5
  <2>3. Ascending(p) /\ Linked(unannounced, p) /\ a = After(p, n)
    BY <1>5, <2>1, <2>2
  <2>7. After(p, n) \in Seq(Nat)
    BY <2>3, AfterType
  <2> HIDE DEF h, q, a
  <2>8. PICK b \in Seq(Nat) : b = a /\ b = After(p, n)
    BY <2>3, <2>7
  <2>4. /\ a \in Seq(Nat) /\ Ascending(a) /\ Linked(unannounced, a)
        /\ \A i \in 1 .. Len(a) : \E k \in 1 .. Len(p) : a[i] = p[k]
        /\ a = <<>> /\ p # <<>> => p[Len(p)] <= n
        /\ a # <<>> => /\ p # <<>> /\ a[1] \in Nat /\ a[1] > n /\ a[1] >= p[1]
                       /\ a[1] = p[1] \/ Gap(unannounced, n, a[1])
                       /\ a[Len(a)] = p[Len(p)]
    <3>1. /\ b \in Seq(Nat) /\ Ascending(b) /\ Linked(unannounced, b)
          /\ \A i \in 1 .. Len(b) : \E k \in 1 .. Len(p) : b[i] = p[k]
          /\ b = <<>> /\ p # <<>> => p[Len(p)] <= n
          /\ b # <<>> => /\ p # <<>> /\ b[1] \in Nat /\ b[1] > n /\ b[1] >= p[1]
                         /\ b[1] = p[1] \/ Gap(unannounced, n, b[1])
                         /\ b[Len(b)] = p[Len(p)]
      BY <2>3, <2>8, AfterLinked
    <3> QED
      BY <2>8, <3>1
  <2>5. ASSUME a # <<>>
        PROVE  /\ q # <<>> /\ a[1] \in Nat /\ a[1] > h /\ a[1] >= q[1]
               /\ a[1] = q[1] \/ Gap(unannounced, h, a[1])
               /\ a[Len(a)] = q[Len(q)]
    BY <2>1, <2>2, <2>4, <2>5
  <2>6. /\ \A i \in 1 .. Len(a) : \E k \in 1 .. Len(q) : a[i] = q[k]
        /\ a = <<>> /\ q # <<>> => q[Len(q)] <= h
    BY <2>1, <2>2, <2>4
  <2> QED
    BY <2>4, <2>5, <2>6
<1> HIDE DEF a, h
<1>7. /\ cursor[c] \in Nat /\ snapshot[c] \in Nat /\ Broadcasted \in Nat /\ persisted \in Nat
      /\ Covered(c) = snapshot[c] /\ Covered(c)' = snapshot[c]
      /\ q # <<>> => /\ q[1] \in Nat /\ q[Len(q)] \in Nat
                     /\ Gap(unannounced, snapshot[c], q[1])
                     /\ q[1] > 0 /\ q[1] >= cursor[c] /\ q[Len(q)] <= Broadcasted
                     /\ ~closed[c] => Gap(unannounced, q[Len(q)], Broadcasted + 1)
  BY <1>1, ClientFacts, QueueBounds, QueueStarts DEF Covered
<1>8. ASSUME a = <<>> PROVE QueueInv(c)'
  <2>1. ASSUME ~closed[c] PROVE Gap(unannounced, snapshot[c], Broadcasted + 1)
    <3>1. CASE q = <<>>
      BY <1>1, <1>7, <2>1, <3>1, ClientFacts DEF QueueInv
    <3>2. CASE q # <<>>
      BY <1>4, <1>6, <1>7, <1>8, <2>1, <3>2, GapInside
    <3> QED
      BY <3>1, <3>2
  <2>2. Ascending(queue[c])' /\ Linked(unannounced, queue[c])'
    BY <1>1, <1>6
  <2> QED
    BY <1>1, <1>2, <1>7, <1>8, <2>1, <2>2 DEF QueueInv
<1>9. ASSUME a # <<>> PROVE QueueInv(c)'
  <2>1. lastSequence[c] = 0
    BY <1>1, ClientFacts DEF PositionInv
  <2>2. Gap(unannounced, snapshot[c], a[1])
    BY <1>4, <1>6, <1>7, <1>9, GapInside
  <2>3. /\ a[1] > 0 /\ a[1] >= cursor[c] /\ a[Len(a)] <= Broadcasted
        /\ ~closed[c] => Gap(unannounced, a[Len(a)], Broadcasted + 1)
        /\ snapshot[c] > cursor[c] => a[1] >= snapshot[c]
    BY <1>4, <1>6, <1>7, <1>9
  <2>4. Ascending(queue[c])' /\ Linked(unannounced, queue[c])'
    BY <1>1, <1>6
  <2> QED
    BY <1>1, <1>2, <1>6, <1>7, <1>9, <2>1, <2>2, <2>3, <2>4 DEF QueueInv
<1>10. IdleInv(c)'
  BY <1>1, <1>6, ClientFacts DEF IdleInv
<1>12. WakeUpInv(c)'
  BY <1>1, ClientFacts DEF WakeUpInv
<1>13. ReceivedInv(c)'
  BY <1>1, ClientFacts DEF ReceivedInv
<1> QED
  BY <1>3, <1>8, <1>9, <1>10, <1>12, <1>13 DEF ClientInv

LEMMA ReadHistoryInv ==
  ASSUME IInv, NEW c \in Clients, ReadHistory(c)
  PROVE  ClientInv(c)'
<1>1. /\ connection[c] = "reading" /\ connection'[c] = "read" /\ snapshot'[c] = persisted
      /\ yielded'[c] = cursor[c] /\ persisted' = persisted /\ publisher' = publisher
      /\ unannounced' = unannounced
      /\ ended' = ended /\ cursor' = cursor /\ lastSequence' = lastSequence /\ queue' = queue
      /\ closed' = closed /\ received' = received /\ seen' = seen
  BY DEF IInv, TypeOK, ReadHistory, publication
<1>2. PositionInv(c) /\ QueueInv(c) /\ WakeUpInv(c) /\ ReceivedInv(c) /\ IdleInv(c)
  BY DEF IInv, ClientInv
<1>3. /\ persisted \in Nat /\ cursor[c] \in Nat /\ queue[c] \in Seq(Nat)
      /\ received[c] \in Seq(Nat) /\ lastSequence[c] \in Nat
  BY DEF IInv, TypeOK
<1>4. Confirmed(c)' = Confirmed(c) /\ Confirmed(c) \in Nat /\ Confirmed(c) <= persisted
  <2>1. Confirmed(c)' = Confirmed(c)
    BY <1>1 DEF Confirmed
  <2> QED
    BY <2>1, ClientFacts
<1>5. PositionInv(c)'
  BY <1>1, <1>2, <1>3, <1>4 DEF PositionInv
<1>6. Broadcasted' = Broadcasted /\ Broadcasted <= persisted /\ Covered(c)' = persisted
  BY <1>1, <1>3 DEF Broadcasted, Covered
<1>7. QueueInv(c)'
  <2>1. queue[c] # <<>> => queue[c][1] \in 1 .. persisted
    BY ClientFacts
  <2>2. queue[c] # <<>> => Gap(unannounced, persisted, queue[c][1])
    BY <1>3, <2>1 DEF Gap
  <2>3. lastSequence[c] = 0
    BY <1>1, <1>2 DEF PositionInv
  <2>4. Gap(unannounced, persisted, Broadcasted + 1)
    <3>1. Broadcasted \in Nat
      BY ClientFacts
    <3> QED
      BY <1>3, <1>6, <3>1 DEF Gap
  <2>5. Ascending(queue[c])' /\ Linked(unannounced, queue[c])'
    BY <1>1, <1>2 DEF QueueInv
  <2>6. connection[c] # "away" /\ connection'[c] = "read"
    BY <1>1
  <2> QED
    BY <1>1, <1>2, <1>6, <2>1, <2>2, <2>3, <2>4, <2>5, <2>6 DEF QueueInv
<1>8. WakeUpInv(c)'
  BY <1>1, <1>2 DEF WakeUpInv
<1>9. ReceivedInv(c)' /\ IdleInv(c)'
  BY <1>1, <1>2 DEF ReceivedInv, IdleInv
<1> QED
  BY <1>5, <1>7, <1>8, <1>9 DEF ClientInv

LEMMA YieldHistoryInv ==
  ASSUME IInv, NEW c \in Clients, YieldHistory(c)
  PROVE  ClientInv(c)'
<1> DEFINE e == yielded[c] + 1
<1>1. /\ connection[c] = "history" /\ connection' = connection /\ snapshot' = snapshot
      /\ yielded'[c] = e /\ persisted' = persisted /\ publisher' = publisher
      /\ ended' = ended /\ cursor' = cursor /\ lastSequence'[c] = e /\ queue' = queue
      /\ closed' = closed /\ received'[c] = Append(received[c], e) /\ seen' = seen
      /\ yielded[c] < snapshot[c] /\ unannounced' = unannounced
  BY DEF IInv, TypeOK, YieldHistory, HandTo, publication
<1>2. /\ PositionInv(c) /\ QueueInv(c) /\ WakeUpInv(c) /\ ReceivedInv(c) /\ IdleInv(c)
      /\ persisted \in Nat /\ cursor[c] \in Nat /\ snapshot[c] \in Nat /\ yielded[c] \in Nat
      /\ received[c] \in Seq(Nat) /\ Confirmed(c) \in Nat
  BY ClientFacts
<1>3. /\ yielded[c] = Confirmed(c) /\ cursor[c] <= yielded[c] /\ snapshot[c] <= persisted
  BY <1>1, <1>2 DEF PositionInv
<1>4. Confirmed(c)' = e /\ Broadcasted' = Broadcasted /\ Covered(c)' = Covered(c)
  BY <1>1, <1>2, AppendConfirms DEF Broadcasted, Covered
<1>5. PositionInv(c)'
  BY <1>1, <1>2, <1>3, <1>4 DEF PositionInv
<1>6. QueueInv(c)'
  <2>1. queue[c] # <<>> => queue[c][1] >= e
    <3> SUFFICES ASSUME queue[c] # <<>> PROVE queue[c][1] >= e
      OBVIOUS
    <3>1. connection[c] \notin {"away", "reading", "read"} /\ snapshot[c] > cursor[c]
      BY <1>1, <1>2, <1>3
    <3>2. queue[c][1] >= snapshot[c]
      BY <3>1, QueueStarts
    <3>3. queue[c][1] \in 1 .. persisted
      BY ClientFacts
    <3> QED
      BY <1>1, <1>2, <3>2, <3>3
  <2> QED
    BY <1>1, <1>2, <1>4, <2>1 DEF QueueInv
<1>7. WakeUpInv(c)'
  BY <1>1, <1>2 DEF WakeUpInv
<1>8. ReceivedInv(c)'
  <2>1. e \in 1 .. persisted /\ e = Confirmed(c) + 1
    BY <1>1, <1>2, <1>3
  <2>2. Gap(unannounced, Confirmed(c), e) /\ e >= Confirmed(c)
    BY <1>2, <2>1, GapNone
  <2> QED
    BY <1>1, <1>2, <2>1, <2>2, AppendReceived
<1>9. IdleInv(c)'
  BY <1>1, <1>2 DEF IdleInv
<1> QED
  BY <1>5, <1>6, <1>7, <1>8, <1>9 DEF ClientInv

LEMMA EndHistoryInv ==
  ASSUME IInv, NEW c \in Clients, EndHistory(c)
  PROVE  ClientInv(c)'
<1>1. /\ connection[c] = "history" /\ snapshot' = snapshot
      /\ yielded' = yielded /\ persisted' = persisted /\ publisher' = publisher
      /\ ended' = ended /\ cursor' = cursor /\ lastSequence' = lastSequence /\ queue' = queue
      /\ received' = received /\ yielded[c] = snapshot[c] /\ UNCHANGED publication
  BY DEF EndHistory, publication
<1>2. /\ PositionInv(c) /\ QueueInv(c) /\ WakeUpInv(c) /\ ReceivedInv(c) /\ IdleInv(c)
      /\ persisted \in Nat /\ cursor[c] \in Nat /\ snapshot[c] \in Nat /\ yielded[c] \in Nat
      /\ Confirmed(c) \in Nat
  BY ClientFacts
<1>3. /\ snapshot[c] = Confirmed(c) /\ cursor[c] <= snapshot[c] /\ snapshot[c] <= persisted
      /\ snapshot[c] = cursor[c] => lastSequence[c] = 0
      /\ ended => persisted > 0
  BY <1>1, <1>2 DEF PositionInv, IInv, PublisherInv
<1>4. Confirmed(c)' = Confirmed(c) /\ Broadcasted' = Broadcasted
  BY <1>1 DEF Confirmed, Broadcasted
<1>5. ReceivedInv(c)' /\ IdleInv(c)'
  BY <1>1, <1>2 DEF ReceivedInv, IdleInv, publication
<1>6. CASE connection'[c] = "away"
  BY <1>1, <1>6, LeaveOnlyInv
<1>7. CASE connection'[c] \in {"tail", "checkRun"} /\ closed' = closed
  <2>1. QueueInv(c)'
    <3>1. Covered(c) = snapshot[c] /\ Covered(c)' = snapshot[c]
      BY <1>1, <1>3, <1>4, <1>7 DEF Covered
    <3> QED
      BY <1>1, <1>2, <1>4, <1>7, <3>1, QueueKeeps DEF publication
  <2>2. CASE connection'[c] = "tail" /\ NothingAfterCursor(c)
    <3>1. lastSequence[c] = 0
      BY <1>2, <1>3, <2>2 DEF NothingAfterCursor, HistoricalLastSequence
    <3>2. PositionInv(c)'
      BY <1>1, <1>2, <1>3, <1>4, <2>2, <3>1 DEF PositionInv
    <3>3. WakeUpInv(c)'
      BY <1>1, <1>2, <1>7, <2>2 DEF WakeUpInv, publication
    <3> QED
      BY <1>5, <2>1, <3>2, <3>3 DEF ClientInv
  <2>3. CASE /\ connection'[c] = "checkRun"
             /\ ~HistoryHasTerminal(c) /\ ~NothingAfterCursor(c)
    <3>1. ended => snapshot[c] < persisted
      BY <1>2, <1>3, <2>3
         DEF HistoryHasTerminal, NothingAfterCursor, HistoricalLastSequence, Terminal
    <3>2. PositionInv(c)'
      BY <1>1, <1>2, <1>3, <1>4, <2>3, <3>1 DEF PositionInv
    <3>3. WakeUpInv(c)'
      BY <1>1, <1>2, <1>7, <2>3, <3>1 DEF WakeUpInv, publication
    <3> QED
      BY <1>5, <2>1, <3>2, <3>3 DEF ClientInv
  <2> QED
    BY <1>7, <2>2, <2>3 DEF EndHistory, Leave, IInv, TypeOK
<1> QED
  BY <1>6, <1>7 DEF EndHistory, Leave, IInv, TypeOK

LEMMA TailInv ==
  ASSUME IInv, NEW c \in Clients, ReadTail(c) \/ EndTail(c) \/ CheckRun(c)
  PROVE  ClientInv(c)'
<1>1. /\ snapshot' = snapshot /\ yielded' = yielded /\ persisted' = persisted
      /\ publisher' = publisher /\ ended' = ended /\ cursor' = cursor
      /\ lastSequence' = lastSequence /\ queue' = queue /\ received' = received
      /\ UNCHANGED publication
  BY DEF ReadTail, EndTail, CheckRun, publication
<1>2. /\ PositionInv(c) /\ QueueInv(c) /\ WakeUpInv(c) /\ ReceivedInv(c) /\ IdleInv(c)
      /\ connection \in [Clients -> ConnectionSteps] /\ seen \in [Clients -> BOOLEAN]
  BY ClientFacts DEF IInv, TypeOK
<1>3. Confirmed(c)' = Confirmed(c) /\ Broadcasted' = Broadcasted
  BY <1>1 DEF Confirmed, Broadcasted
<1>4. ReceivedInv(c)' /\ IdleInv(c)'
  BY <1>1, <1>2 DEF ReceivedInv, IdleInv, publication
<1>5. CASE connection'[c] = "away"
  BY <1>1, <1>5, LeaveOnlyInv
<1>6. ASSUME connection[c] \in {"tail", "tailRead", "checkRun"},
             connection'[c] \in {"tailRead", "checkRun", "live"}, closed' = closed
      PROVE  QueueInv(c)'
  <2>1. Covered(c)' = Covered(c)
    BY <1>3, <1>6 DEF Covered
  <2> QED
    BY <1>1, <1>2, <1>3, <1>6, <2>1, QueueKeeps DEF publication
<1>7. CASE ReadTail(c)
  <2>1. /\ connection[c] = "tail" /\ connection'[c] = "tailRead" /\ seen'[c] = ended
        /\ closed' = closed
    BY <1>2, <1>7 DEF ReadTail
  <2>2. PositionInv(c)' /\ WakeUpInv(c)'
    BY <1>1, <1>2, <1>3, <2>1 DEF PositionInv, WakeUpInv, publication
  <2> QED
    BY <1>4, <1>6, <2>1, <2>2 DEF ClientInv
<1>8. CASE EndTail(c) /\ ~seen[c]
  <2>1. connection[c] = "tailRead" /\ connection'[c] = "checkRun" /\ closed' = closed
    BY <1>2, <1>8 DEF EndTail
  <2>2. PositionInv(c)' /\ WakeUpInv(c)'
    BY <1>1, <1>2, <1>3, <1>8, <2>1 DEF PositionInv, WakeUpInv, publication
  <2> QED
    BY <1>4, <1>6, <2>1, <2>2 DEF ClientInv
<1>9. CASE CheckRun(c) /\ ~seen[c]
  <2>1. connection[c] = "checkRun" /\ connection'[c] = "live" /\ closed' = closed
    BY <1>2, <1>9 DEF CheckRun
  <2>2. PositionInv(c)' /\ WakeUpInv(c)'
    BY <1>1, <1>2, <1>3, <2>1 DEF PositionInv, WakeUpInv, publication
  <2> QED
    BY <1>4, <1>6, <2>1, <2>2 DEF ClientInv
<1>10. CASE (EndTail(c) \/ CheckRun(c)) /\ seen[c]
  <2>1. connection'[c] = "away"
    BY <1>2, <1>10 DEF EndTail, CheckRun, Leave
  <2> QED
    BY <1>5, <2>1
<1> QED
  BY <1>7, <1>8, <1>9, <1>10

LEMMA DeliverInv ==
  ASSUME IInv, NEW c \in Clients, Deliver(c)
  PROVE  ClientInv(c)'
<1> DEFINE q == queue[c]
           e == q[1]
           t == Tail(q)
<1>1. /\ connection[c] = "live" /\ snapshot' = snapshot
      /\ yielded' = yielded /\ persisted' = persisted /\ publisher' = publisher
      /\ ended' = ended /\ cursor' = cursor /\ q # <<>> /\ queue'[c] = t /\ UNCHANGED publication
  BY DEF Deliver, publication, IInv, TypeOK
<1>2. /\ PositionInv(c) /\ QueueInv(c) /\ WakeUpInv(c) /\ ReceivedInv(c) /\ IdleInv(c)
      /\ persisted \in Nat /\ cursor[c] \in Nat /\ snapshot[c] \in Nat /\ lastSequence[c] \in Nat
      /\ received[c] \in Seq(Nat) /\ Confirmed(c) \in Nat /\ q \in Seq(Nat)
      /\ e \in 1 .. persisted
  BY <1>1, ClientFacts
<1>3. /\ t \in Seq(Nat) /\ Ascending(t) /\ Linked(unannounced, t) /\ Head(q) = e
      /\ \A i \in 1 .. Len(t) : i + 1 \in 1 .. Len(q) /\ t[i] = q[i + 1]
      /\ t = <<>> => q[Len(q)] = e
      /\ t # <<>> => /\ t[1] \in Nat /\ t[1] > e /\ Gap(unannounced, e, t[1])
                     /\ t[Len(t)] = q[Len(q)]
  BY <1>1, <1>2, TailLinked DEF QueueInv
<1>4. Broadcasted' = Broadcasted
  BY <1>1 DEF Broadcasted
<1>5. IdleInv(c)'
  BY <1>1, <1>2, <1>3 DEF IdleInv
<1>6. /\ e >= cursor[c] /\ q[Len(q)] <= Broadcasted
      /\ ~closed[c] => Gap(unannounced, q[Len(q)], Broadcasted + 1)
      /\ Gap(unannounced, Confirmed(c), e) /\ e >= lastSequence[c]
      /\ snapshot[c] > cursor[c] => e >= snapshot[c]
  BY <1>1, <1>2 DEF QueueInv, Covered
<1>7. /\ cursor[c] <= Confirmed(c)
      /\ lastSequence[c] = 0 => Confirmed(c) = cursor[c]
      /\ lastSequence[c] # 0 => lastSequence[c] = Confirmed(c)
      /\ snapshot[c] \in cursor[c] .. persisted
      /\ ended => Confirmed(c) < persisted
  BY <1>1, <1>2 DEF PositionInv
<1> HIDE DEF t, e
<1>8. ASSUME connection'[c] = "live", closed'[c] = closed[c],
             Confirmed(c)' = e, lastSequence'[c] = e
      PROVE  QueueInv(c)'
  <2>1. e \in Nat /\ Covered(c)' = e /\ cursor[c] <= e
    BY <1>2, <1>6, <1>8 DEF Covered
  <2>4. Ascending(queue[c])' /\ Linked(unannounced, queue[c])'
    BY <1>1, <1>3 DEF publication
  <2>5. unannounced' = unannounced
    BY <1>1 DEF publication
  <2>2. CASE t = <<>>
    <3>1. ~closed[c] => Gap(unannounced, e, Broadcasted + 1)
      BY <1>3, <1>6, <2>2
    <3> QED
      BY <1>1, <1>4, <1>8, <2>1, <2>2, <2>4, <2>5, <3>1 DEF QueueInv
  <2>3. CASE t # <<>>
    <3>1. /\ t[1] \in Nat /\ t[1] > e /\ Gap(unannounced, e, t[1])
          /\ t[Len(t)] = q[Len(q)]
      BY <1>3, <2>3
    <3>2. /\ t[1] > 0 /\ t[1] >= cursor[c] /\ t[1] >= e
          /\ snapshot[c] > cursor[c] => t[1] >= snapshot[c]
      BY <1>2, <1>6, <2>1, <3>1
    <3>3. t[Len(t)] <= Broadcasted /\ (~closed[c] => Gap(unannounced, t[Len(t)], Broadcasted + 1))
      BY <1>6, <3>1
    <3> QED
      BY <1>1, <1>4, <1>8, <2>1, <2>3, <2>4, <2>5, <3>1, <3>2, <3>3 DEF QueueInv
  <2> QED
    BY <2>2, <2>3
<1>9. ASSUME connection'[c] = "live", closed'[c] = closed[c]
      PROVE  WakeUpInv(c)'
  BY <1>1, <1>2, <1>9 DEF WakeUpInv, publication
<1>10. CASE ~Fresh(c, Head(q))
  <2>1. /\ lastSequence' = lastSequence /\ received' = received /\ connection' = connection
        /\ closed' = closed
    BY <1>10 DEF Deliver
  <2>2. e <= lastSequence[c]
    BY <1>2, <1>3, <1>10 DEF Fresh
  <2>3. lastSequence[c] = e /\ Confirmed(c) = e
    BY <1>2, <1>6, <1>7, <2>2
  <2>4. Confirmed(c)' = Confirmed(c)
    BY <2>1 DEF Confirmed
  <2>5. PositionInv(c)' /\ ReceivedInv(c)'
    BY <1>1, <1>2, <2>1, <2>4 DEF PositionInv, ReceivedInv, publication
  <2> QED
    BY <1>1, <1>5, <1>8, <1>9, <2>1, <2>3, <2>4, <2>5 DEF ClientInv
<1>11. CASE Fresh(c, Head(q))
  <2>1. /\ lastSequence'[c] = e /\ received'[c] = Append(received[c], e)
        /\ IF Terminal(e) THEN connection'[c] = "away"
                          ELSE connection' = connection /\ closed' = closed
    BY <1>3, <1>11 DEF Deliver, HandTo, Leave, IInv, TypeOK
  <2>2. e > lastSequence[c]
    BY <1>3, <1>11 DEF Fresh
  <2>3. e >= Confirmed(c) /\ unannounced' = unannounced
    BY <1>1, <1>2, <1>6, <1>7, <2>2 DEF publication
  <2>4. ReceivedInv(c)'
    BY <1>1, <1>2, <1>6, <2>1, <2>3, AppendReceived
  <2>5. Confirmed(c)' = e
    <3>1. e \in Nat
      BY <1>2
    <3> QED
      BY <1>2, <2>1, <3>1, AppendConfirms
  <2>6. CASE Terminal(e)
    <3>1. Ascending(queue[c])' /\ Linked(unannounced, queue[c])'
      BY <1>1, <1>3 DEF publication
    <3> QED
      BY <1>5, <2>1, <2>4, <2>6, <3>1, LeaveInv
  <2>7. CASE ~Terminal(e)
    <3>1. ended => e < persisted
      BY <1>2, <2>7 DEF Terminal
    <3>2. PositionInv(c)'
      <4>1. cursor[c] <= e /\ snapshot[c] \in cursor[c] .. persisted
        BY <1>6, <1>7
      <4>2. /\ connection'[c] = "live" /\ cursor'[c] = cursor[c] /\ snapshot'[c] = snapshot[c]
            /\ persisted' = persisted /\ ended' = ended /\ lastSequence'[c] = e
        BY <1>1, <2>1, <2>7
      <4>3. e \in Nat \ {0} /\ cursor[c] \in Nat
        BY <1>2
      <4> QED
        BY <2>5, <3>1, <4>1, <4>2, <4>3 DEF PositionInv
    <3> QED
      BY <1>1, <1>5, <1>8, <1>9, <2>1, <2>4, <2>5, <2>7, <3>2 DEF ClientInv
  <2> QED
    BY <2>6, <2>7
<1> QED
  BY <1>10, <1>11

LEMMA AbortInv ==
  ASSUME IInv, NEW c \in Clients, Abort(c)
  PROVE  ClientInv(c)'
<1>1. /\ UNCHANGED <<publication, connection, cursor, snapshot, yielded, lastSequence, queue, seen,
                     received>>
      /\ closed'[c]
  BY DEF Abort, IInv, TypeOK
<1>2. Confirmed(c)' = Confirmed(c) /\ Broadcasted' = Broadcasted /\ Covered(c)' = Covered(c)
  BY <1>1 DEF Confirmed, Broadcasted, Covered, publication
<1>3. PositionInv(c)'
  BY <1>1, <1>2, ClientFacts DEF PositionInv, publication
<1>5. QueueInv(c)'
  BY <1>1, <1>2, ClientFacts DEF QueueInv, publication
<1>4. WakeUpInv(c)' /\ ReceivedInv(c)' /\ IdleInv(c)'
  BY <1>1, ClientFacts DEF WakeUpInv, ReceivedInv, IdleInv, publication
<1> QED
  BY <1>3, <1>4, <1>5 DEF ClientInv

LEMMA WaitInv ==
  ASSUME IInv, NEW c \in Clients, Wait(c)
  PROVE  ClientInv(c)'
BY Frame DEF Wait, IInv

\* The steps of the subscribers keep the invariant of every client.
LEMMA SubscriberInv ==
  ASSUME IInv, NEW c \in Clients, Subscribe(c) \/ Iterate(c) \/ ReadFails(c) \/ Abort(c)
  PROVE  IInv'
<1>1. TypeOK'
  BY ClientFacts, IterateTypeOK DEF IInv
<1>2. UNCHANGED publication
  BY DEF Subscribe, Iterate, ReadHistory, StartHistory, YieldHistory, EndHistory, ReadTail, EndTail,
         CheckRun, Deliver, Drained, Wait, StopAborted, ReadFails, Abort
<1>3. PublisherInv'
  BY <1>2 DEF IInv, PublisherInv, publication
<1>4. ClientInv(c)'
  <2>1. CASE Drained(c) \/ StopAborted(c) \/ ReadFails(c)
    BY <2>1, LeaveOnlyInv DEF Drained, StopAborted, ReadFails, Leave, IInv, TypeOK
  <2> QED
    BY <2>1, SubscribeInv, ReadHistoryInv, StartHistoryInv, YieldHistoryInv, EndHistoryInv, TailInv,
       DeliverInv, AbortInv, WaitInv DEF Iterate
<1>5. ASSUME NEW d \in Clients, d # c PROVE ClientInv(d)'
  <2>1. /\ connection'[d] = connection[d] /\ cursor'[d] = cursor[d] /\ snapshot'[d] = snapshot[d]
        /\ yielded'[d] = yielded[d] /\ lastSequence'[d] = lastSequence[d] /\ queue'[d] = queue[d]
        /\ closed'[d] = closed[d] /\ seen'[d] = seen[d] /\ received'[d] = received[d]
    <3> USE <1>5 DEF IInv, TypeOK
    <3>1. CASE Subscribe(c) \/ Abort(c)
      BY <3>1 DEF Subscribe, Abort
    <3>5. CASE ReadHistory(c) \/ StartHistory(c) \/ YieldHistory(c)
      BY <3>5 DEF ReadHistory, StartHistory, YieldHistory, HandTo
    <3>2. CASE EndHistory(c) \/ CheckRun(c)
      BY <3>2 DEF EndHistory, CheckRun, Leave
    <3>6. CASE ReadTail(c) \/ EndTail(c)
      BY <3>6 DEF ReadTail, EndTail, Leave
    <3>3. CASE Deliver(c)
      <4>1. CASE Fresh(c, Head(queue[c])) /\ Terminal(Head(queue[c]))
        BY <3>3, <4>1 DEF Deliver, HandTo, Leave
      <4>2. CASE ~(Fresh(c, Head(queue[c])) /\ Terminal(Head(queue[c])))
        BY <3>3, <4>2 DEF Deliver, HandTo
      <4> QED
        BY <4>1, <4>2
    <3>4. CASE Drained(c) \/ Wait(c) \/ StopAborted(c) \/ ReadFails(c)
      BY <3>4 DEF Drained, Wait, StopAborted, ReadFails, Leave
    <3> QED
      BY <3>1, <3>2, <3>3, <3>4, <3>5, <3>6 DEF Iterate
  <2> QED
    BY <1>2, <2>1, Frame DEF IInv
<1> QED
  BY <1>1, <1>3, <1>4, <1>5 DEF IInv

\* A log that grows by an event of which nobody knows yet, or of which nobody is
\* going to be told because its append failed.
LEMMA AppendInv ==
  ASSUME IInv, publisher \in {"ready", "failing"}, ~ended,
         persisted' = persisted + 1,
         \/ publisher' = "persisted" /\ unannounced' = unannounced
         \/ publisher' \in {"failing", "over"} /\ unannounced' = unannounced \cup {persisted + 1},
         UNCHANGED <<connection, cursor, snapshot, yielded, lastSequence, queue, closed, seen, received>>
  PROVE  PublisherInv' /\ \A c \in Clients : ClientInv(c)'
<1>1. PublisherInv'
  <2>1. persisted \in Nat /\ unannounced \subseteq 1 .. persisted
    BY DEF IInv, TypeOK, PublisherInv
  <2>2. unannounced' \subseteq 1 .. persisted'
    <3>1. 1 .. persisted \subseteq 1 .. persisted' /\ persisted + 1 \in 1 .. persisted'
      BY <2>1
    <3>2. unannounced' \subseteq unannounced \cup {persisted + 1}
      OBVIOUS
    <3> QED
      BY <2>1, <3>1, <3>2
  <2>3. persisted' > 0 /\ publisher' # "ready"
    BY <2>1
  <2> QED
    BY <2>2, <2>3 DEF PublisherInv
<1>2. ASSUME NEW c \in Clients PROVE ClientInv(c)'
  <2>1. /\ PositionInv(c) /\ QueueInv(c) /\ WakeUpInv(c) /\ ReceivedInv(c) /\ IdleInv(c)
        /\ persisted \in Nat /\ cursor[c] \in Nat /\ snapshot[c] \in Nat /\ Confirmed(c) \in Nat
        /\ Confirmed(c) <= persisted /\ Covered(c) \in Nat
    BY ClientFacts DEF Covered
  <2>2. /\ Confirmed(c)' = Confirmed(c) /\ Broadcasted = persisted /\ Covered(c)' = Covered(c)
    BY <2>1 DEF Confirmed, Broadcasted, Covered
  <2>3. PositionInv(c)'
    BY <2>1, <2>2 DEF PositionInv
  <2>4. QueueInv(c)'
    <3>1. \A a, b : Gap(unannounced, a, b) => Gap(unannounced', a, b)
      BY DEF Gap
    <3>2. \A a \in Nat : Gap(unannounced, a, Broadcasted + 1) => Gap(unannounced', a, Broadcasted' + 1)
      <4> SUFFICES ASSUME NEW a \in Nat, Gap(unannounced, a, persisted + 1)
                   PROVE  Gap(unannounced', a, Broadcasted' + 1)
        BY <2>2
      <4>1. CASE publisher' = "persisted" /\ unannounced' = unannounced
        BY <2>1, <4>1 DEF Broadcasted
      <4>2. CASE /\ publisher' \in {"failing", "over"}
                 /\ unannounced' = unannounced \cup {persisted + 1}
        <5>1. Broadcasted' = persisted + 1
          BY <2>1, <4>2 DEF Broadcasted
        <5> QED
          BY <2>1, <4>2, <5>1 DEF Gap
      <4> QED
        BY <4>1, <4>2
    <3>3. Ascending(queue'[c]) /\ Linked(unannounced', queue'[c])
      BY <2>1, <3>1 DEF QueueInv, Linked
    <3>4. queue[c] # <<>> => queue[c][Len(queue[c])] \in Nat
      BY ClientFacts
    <3>5. Broadcasted' \in {persisted, persisted + 1}
      BY <2>1 DEF Broadcasted
    <3> QED
      BY <2>1, <2>2, <3>1, <3>2, <3>3, <3>4, <3>5 DEF QueueInv
  <2>5. WakeUpInv(c)'
    BY <2>1 DEF WakeUpInv
  <2>6. \A n \in 1 .. persisted : n \in 1 .. persisted'
    BY <2>1
  <2>7. ReceivedInv(c)'
    <3>1. ReceivedInv(c) /\ received'[c] = received[c]
      BY <2>1
    <3> QED
      BY <2>6, <3>1 DEF ReceivedInv, Gap
  <2>8. IdleInv(c)'
    <3>1. IdleInv(c) /\ queue'[c] = queue[c]
      BY <2>1
    <3> QED
      BY <2>6, <3>1 DEF IdleInv
  <2> QED
    BY <2>3, <2>4, <2>5, <2>7, <2>8 DEF ClientInv
<1> QED
  BY <1>1, <1>2

\* A step that only moves the publisher on, with nothing more broadcast.
LEMMA MoveInv ==
  ASSUME IInv, Broadcasted' = Broadcasted,
         ended /\ publisher' \in {"failing", "over"} => publisher \in {"failing", "over"},
         UNCHANGED <<persisted, ended, unannounced, connection, cursor, snapshot, yielded, lastSequence,
                     queue, closed, seen, received>>
  PROVE  \A c \in Clients : ClientInv(c)'
<1> SUFFICES ASSUME NEW c \in Clients PROVE ClientInv(c)'
  OBVIOUS
<1>1. PositionInv(c) /\ QueueInv(c) /\ WakeUpInv(c) /\ ReceivedInv(c) /\ IdleInv(c)
  BY ClientFacts
<1>2. Confirmed(c)' = Confirmed(c) /\ Covered(c)' = Covered(c)
  BY DEF Confirmed, Covered
<1>3. PositionInv(c)'
  BY <1>1, <1>2 DEF PositionInv
<1>4. QueueInv(c)'
  BY <1>1, <1>2 DEF QueueInv
<1>5. WakeUpInv(c)' /\ ReceivedInv(c)' /\ IdleInv(c)'
  BY <1>1 DEF WakeUpInv, ReceivedInv, IdleInv
<1> QED
  BY <1>3, <1>4, <1>5 DEF ClientInv

LEMMA AfterPersistFailsInv ==
  ASSUME IInv, AfterPersistFails
  PROVE  PublisherInv' /\ \A c \in Clients : ClientInv(c)'
<1>1. /\ publisher \in {"persisted", "recorded"} /\ publisher' \in {"failing", "over"}
      /\ UNCHANGED <<persisted, ended, unannounced, connection, cursor, snapshot, yielded,
                     lastSequence, queue, seen, received>>
      /\ closed' = [c \in Clients |-> ClosedByFailure(c)]
  BY DEF AfterPersistFails
<1>2. PublisherInv'
  BY <1>1 DEF IInv, PublisherInv
<1>3. ASSUME NEW c \in Clients PROVE ClientInv(c)'
  <2>1. /\ PositionInv(c) /\ QueueInv(c) /\ WakeUpInv(c) /\ ReceivedInv(c) /\ IdleInv(c)
        /\ persisted \in Nat /\ Broadcasted \in Nat
    BY ClientFacts
  <2>2. Confirmed(c)' = Confirmed(c) /\ Covered(c)' = Covered(c)
    BY <1>1 DEF Confirmed, Covered
  <2>3. Broadcasted' = persisted /\ Broadcasted <= persisted
    BY <1>1, <2>1 DEF Broadcasted
  <2>4. connection[c] # "away" => closed'[c]
    BY <1>1 DEF ClosedByFailure, Registered
  <2>5. PositionInv(c)'
    BY <1>1, <2>1, <2>2 DEF PositionInv
  <2>6. QueueInv(c)'
    <3>1. queue[c] # <<>> => queue[c][Len(queue[c])] \in Nat
      BY ClientFacts
    <3> QED
      BY <1>1, <2>1, <2>2, <2>3, <2>4, <3>1 DEF QueueInv
  <2>7. WakeUpInv(c)' /\ ReceivedInv(c)' /\ IdleInv(c)'
    BY <1>1, <2>1, <2>4 DEF WakeUpInv, ReceivedInv, IdleInv
  <2> QED
    BY <2>5, <2>6, <2>7 DEF ClientInv
<1> QED
  BY <1>2, <1>3

LEMMA BroadcastInv ==
  ASSUME IInv, Broadcast
  PROVE  PublisherInv' /\ \A c \in Clients : ClientInv(c)'
<1>1. /\ publisher = "recorded"
      /\ UNCHANGED <<persisted, ended, unannounced, connection, cursor, snapshot, yielded,
                     lastSequence, seen, received>>
      /\ publisher' \in {"over", "failing", "ready"}
      /\ ended <=> publisher' = "over"
  BY DEF Broadcast
<1>2. PublisherInv'
  BY <1>1 DEF IInv, PublisherInv
<1>3. ASSUME NEW c \in Clients PROVE ClientInv(c)'
  <2> DEFINE q == queue[c]
  <2>1. /\ PositionInv(c) /\ QueueInv(c) /\ WakeUpInv(c) /\ ReceivedInv(c) /\ IdleInv(c)
        /\ persisted \in Nat /\ cursor[c] \in Nat /\ lastSequence[c] \in Nat /\ snapshot[c] \in Nat
        /\ Confirmed(c) \in Nat /\ Confirmed(c) <= persisted /\ q \in Seq(Nat)
        /\ Ascending(q) /\ Linked(unannounced, q)
    BY ClientFacts DEF QueueInv
  <2>2. persisted > 0 /\ Broadcasted = persisted - 1 /\ Broadcasted' = persisted
    BY <1>1 DEF IInv, PublisherInv, Broadcasted
  <2>3. Confirmed(c)' = Confirmed(c) /\ Covered(c)' = Covered(c)
    BY <1>1 DEF Confirmed, Covered
  <2>4. PositionInv(c)' /\ ReceivedInv(c)'
    BY <1>1, <2>1, <2>3 DEF PositionInv, ReceivedInv
  <2>5. q # <<>> => q[1] \in Nat /\ q[Len(q)] \in Nat /\ q[1] <= q[Len(q)]
    BY <2>1, Ends
  <2>6. /\ queue'[c] = IF Takes(c) /\ Fits(c) THEN Append(q, persisted) ELSE q
        /\ closed'[c] = (closed[c] \/ (Takes(c) /\ (ended \/ ~Fits(c))))
    BY DEF Broadcast
  <2>7. CASE Takes(c) /\ Fits(c)
    <3>1. /\ connection[c] # "away" /\ ~closed[c] /\ persisted > lastSequence[c]
          /\ queue'[c] = Append(q, persisted) /\ (closed'[c] <=> ended)
      BY <2>6, <2>7 DEF Takes, Registered
    <3>2. q # <<>> => q[Len(q)] < persisted /\ Gap(unannounced, q[Len(q)], persisted)
      <4> SUFFICES ASSUME queue[c] # <<>>
                   PROVE  /\ queue[c][Len(queue[c])] < persisted
                          /\ Gap(unannounced, queue[c][Len(queue[c])], persisted)
        OBVIOUS
      <4>1. /\ queue[c][Len(queue[c])] <= Broadcasted
            /\ Gap(unannounced, queue[c][Len(queue[c])], Broadcasted + 1)
        BY <3>1, QueueBounds, Zenon
      <4>2. Broadcasted + 1 = persisted /\ queue[c][Len(queue[c])] \in Nat
        BY <2>1, <2>2, <2>5
      <4> QED
        BY <2>1, <2>2, <4>1, <4>2
    <3> DEFINE b == queue'[c]
    <3>3. /\ b \in Seq(Nat) /\ b # <<>> /\ Ascending(b) /\ Linked(unannounced, b) /\ b[Len(b)] = persisted
          /\ q = <<>> => b[1] = persisted
          /\ q # <<>> => b[1] = q[1]
      <4>1. PICK e \in Nat : e = persisted
        BY <2>1
      <4>2. PICK p \in Seq(Nat) : p = q
        BY <2>1
      <4>3. /\ Ascending(p) /\ Linked(unannounced, p)
            /\ p # <<>> => p[Len(p)] < e /\ Gap(unannounced, p[Len(p)], e)
        BY <2>1, <3>2, <4>1, <4>2
      <4>4. /\ Append(p, e) \in Seq(Nat) /\ Len(Append(p, e)) = Len(p) + 1
            /\ Append(p, e)[Len(p) + 1] = e
            /\ \A i \in 1 .. Len(p) : Append(p, e)[i] = p[i]
        OBVIOUS
      <4>5. PICK d \in Seq(Nat) : /\ d = queue'[c] /\ Len(d) = Len(p) + 1 /\ d[Len(p) + 1] = e
                                 /\ \A i \in 1 .. Len(p) : d[i] = p[i]
        BY <3>1, <4>1, <4>2, <4>4
      <4>6. /\ d # <<>> /\ Ascending(d) /\ Linked(unannounced, d) /\ d[Len(d)] = e
            /\ p = <<>> => d[1] = e
            /\ p # <<>> => d[1] = p[1]
        BY <4>3, <4>5, AppendLinked
      <4> QED
        BY <4>1, <4>2, <4>5, <4>6
    <3>4. IdleInv(c)'
      <4>1. \A i \in 1 .. Len(q) : q[i] \in 1 .. persisted
        BY <2>1 DEF IdleInv
      <4>2. persisted \in 1 .. persisted
        BY <2>1, <2>2
      <4>3. \A i \in 1 .. Len(b) : b[i] \in 1 .. persisted
        <5> SUFFICES ASSUME NEW i \in 1 .. Len(b) PROVE b[i] \in 1 .. persisted
          OBVIOUS
        <5>1. b[i] = persisted \/ (i \in 1 .. Len(q) /\ b[i] = q[i])
          BY <2>1, <3>1, AppendElements
        <5> QED
          BY <4>1, <4>2, <5>1
      <4> QED
        BY <1>1, <4>3 DEF IdleInv
    <3>5. /\ b[1] > 0 /\ b[1] >= cursor[c]
          /\ connection[c] \notin {"away", "reading"} =>
               Gap(unannounced, Covered(c), b[1]) /\ b[1] >= lastSequence[c]
          /\ connection[c] \notin {"away", "reading", "read"} /\ snapshot[c] > cursor[c] =>
               b[1] >= snapshot[c]
      <4>1. CASE q = <<>>
        <5>1. b[1] = persisted
          BY <3>3, <4>1
        <5>2. cursor[c] <= persisted
          BY <2>1, <3>1 DEF PositionInv
        <5>3. connection[c] \notin {"away", "reading"} => Gap(unannounced, Covered(c), persisted)
          <6>1. Broadcasted + 1 = persisted
            BY <2>1, <2>2
          <6> QED
            BY <2>1, <3>1, <4>1, <6>1 DEF QueueInv
        <5>4. connection[c] \notin {"away", "reading"} => snapshot[c] <= persisted
          BY <2>1 DEF PositionInv
        <5> HIDE DEF b
        <5> QED
          BY <2>1, <2>2, <3>1, <5>1, <5>2, <5>3, <5>4
      <4>2. CASE q # <<>>
        <5>1. b[1] = q[1]
          BY <3>3, <4>2
        <5> HIDE DEF b
        <5> QED
          BY <2>1, <3>1, <4>2, <5>1 DEF QueueInv
      <4> QED
        BY <4>1, <4>2
    <3>7. QueueInv(c)'
      <4>1. Ascending(queue[c])' /\ Linked(unannounced, queue[c])'
        BY <1>1, <3>3
      <4>3. queue'[c] # <<>> /\ queue'[c][Len(queue'[c])] = persisted
        BY <3>3
      <4>4. Gap(unannounced, persisted, persisted + 1)
        BY <2>1, GapNone
      <4>2. /\ cursor'[c] = cursor[c] /\ snapshot'[c] = snapshot[c] /\ connection'[c] = connection[c]
            /\ lastSequence'[c] = lastSequence[c]
        BY <1>1
      <4> QED
        BY <1>1, <2>1, <2>2, <2>3, <3>5, <4>1, <4>2, <4>3, <4>4 DEF QueueInv
    <3>8. WakeUpInv(c)'
      BY <1>1, <3>1 DEF WakeUpInv
    <3> QED
      BY <2>4, <3>4, <3>7, <3>8 DEF ClientInv
  <2>8. CASE connection[c] = "away"
    <3>1. queue'[c] = q /\ connection'[c] = "away"
      BY <1>1, <2>6, <2>8 DEF Takes, Registered
    <3>2. IdleInv(c)' /\ Ascending(queue[c])' /\ Linked(unannounced, queue[c])'
      BY <1>1, <2>1, <3>1 DEF IdleInv
    <3> QED
      BY <2>4, <3>1, <3>2, LeaveInv
  <2>9. CASE connection[c] # "away" /\ closed'[c] /\ queue'[c] = q
    <3>1. q # <<>> => q[Len(q)] <= persisted
      <4> SUFFICES ASSUME queue[c] # <<>> PROVE queue[c][Len(queue[c])] <= persisted
        OBVIOUS
      <4>1. queue[c][Len(queue[c])] <= Broadcasted
        BY <2>9, QueueBounds, Zenon
      <4>2. queue[c][Len(queue[c])] \in Nat /\ persisted \in Nat
        BY <2>1, <2>5
      <4> QED
        BY <2>2, <4>1, <4>2
    <3>2. QueueInv(c)'
      BY <1>1, <2>1, <2>2, <2>3, <2>9, <3>1 DEF QueueInv
    <3>3. WakeUpInv(c)' /\ IdleInv(c)'
      BY <1>1, <2>1, <2>9 DEF WakeUpInv, IdleInv
    <3> QED
      BY <2>4, <3>2, <3>3 DEF ClientInv
  <2>10. CASE connection[c] # "away" /\ ~closed[c] /\ persisted <= lastSequence[c]
    <3>1. queue'[c] = q /\ (closed'[c] <=> closed[c])
      <4>1. ~Takes(c)
        BY <2>1, <2>10 DEF Takes
      <4> QED
        BY <2>6, <4>1
    <3>2. /\ Confirmed(c) = persisted /\ lastSequence[c] = persisted
          /\ connection[c] \notin {"away", "reading", "read", "tail", "tailRead"}
          /\ connection[c] \in {"checkRun", "live"} => ~ended
      BY <2>1, <2>2, <2>10 DEF PositionInv
    <3>3. q = <<>>
      <4>1. q # <<>> => q[1] >= persisted /\ q[Len(q)] <= persisted - 1
        BY <2>1, <2>2, <2>10, <3>2 DEF QueueInv
      <4> QED
        BY <2>1, <2>5, <4>1
    <3>4. /\ connection[c] = "history" => snapshot[c] = persisted
          /\ Covered(c) = persisted
      BY <2>1, <3>2 DEF PositionInv, Covered
    <3>5. QueueInv(c)'
      <4>1. Gap(unannounced, persisted, persisted + 1)
        BY <2>1, GapNone
      <4>2. Ascending(queue[c])' /\ Linked(unannounced, queue[c])'
        BY <1>1, <2>1, <3>1
      <4> QED
        BY <1>1, <2>2, <2>3, <3>1, <3>3, <3>4, <4>1, <4>2 DEF QueueInv
    <3>6. connection[c] = "history" \/ ~ended
      BY <3>2, <2>10 DEF IInv, TypeOK, ConnectionSteps
    <3>7. WakeUpInv(c)'
      BY <1>1, <3>4, <3>6 DEF WakeUpInv
    <3>8. IdleInv(c)'
      BY <1>1, <2>1, <3>1 DEF IdleInv
    <3> QED
      BY <2>4, <3>5, <3>7, <3>8 DEF ClientInv
  <2> QED
    <3>1. CASE Takes(c) /\ ~Fits(c)
      BY <2>6, <2>9, <3>1 DEF Takes, Registered
    <3>2. CASE ~Takes(c) /\ closed[c]
      BY <2>6, <2>8, <2>9, <3>2
    <3>3. CASE ~Takes(c) /\ ~closed[c]
      BY <2>1, <2>8, <2>10, <3>3 DEF Takes, Registered
    <3> QED
      BY <2>7, <3>1, <3>2, <3>3
<1> QED
  BY <1>2, <1>3

LEMMA PublishInv == IInv /\ Publish => IInv'
<1> SUFFICES ASSUME IInv, Publish PROVE IInv'
  OBVIOUS
<1>1. TypeOK'
  BY PublishTypeOK DEF IInv
<1>2. CASE PersistEvent
  BY <1>1, <1>2, AppendInv DEF PersistEvent, WriteEvent, IInv, subscriber
<1>8. CASE AppendFails
  BY <1>1, <1>8, AppendInv DEF AppendFails, WriteEvent, IInv, subscriber
<1>3. CASE StreamFails
  <2>1. Broadcasted' = Broadcasted /\ ~ended /\ PublisherInv'
    BY <1>3 DEF StreamFails, Broadcasted, IInv, PublisherInv
  <2> QED
    BY <1>1, <1>3, <2>1, MoveInv DEF StreamFails, IInv, subscriber
<1>4. CASE FinishWithFailure
  <2>1. CASE /\ ~ended /\ persisted' = persisted + 1
             /\ \/ publisher' = "persisted" /\ unannounced' = unannounced
                \/ publisher' = "over" /\ unannounced' = unannounced \cup {persisted + 1}
    <3>1. PublisherInv' /\ \A c \in Clients : ClientInv(c)'
      BY <1>4, <2>1, AppendInv DEF FinishWithFailure, subscriber
    <3> QED
      BY <1>1, <3>1 DEF IInv
  <2>2. CASE UNCHANGED <<persisted, ended, unannounced>> /\ publisher' = "over"
    <3>1. Broadcasted' = Broadcasted /\ PublisherInv'
      BY <1>4, <2>2 DEF FinishWithFailure, Broadcasted, IInv, PublisherInv
    <3> QED
      BY <1>1, <1>4, <2>2, <3>1, MoveInv DEF FinishWithFailure, IInv, subscriber
  <2> QED
    BY <1>4, <2>1, <2>2 DEF FinishWithFailure
<1>5. CASE Record
  <2>1. Broadcasted' = Broadcasted /\ PublisherInv'
    BY <1>5 DEF Record, Broadcasted, IInv, PublisherInv
  <2> QED
    BY <1>1, <1>5, <2>1, MoveInv DEF Record, IInv, subscriber
<1>6. CASE AfterPersistFails
  BY <1>1, <1>6, AfterPersistFailsInv DEF IInv
<1>7. CASE Broadcast
  BY <1>1, <1>7, BroadcastInv DEF IInv
<1> QED
  BY <1>2, <1>3, <1>4, <1>5, <1>6, <1>7, <1>8 DEF Publish

LEMMA RestartInv == IInv /\ Restart => IInv'
<1> SUFFICES ASSUME IInv, Restart PROVE IInv'
  OBVIOUS
<1>1. TypeOK'
  BY RestartTypeOK DEF IInv
<1>2. persisted' \in Nat /\ persisted' > 0 /\ persisted' >= persisted /\ persisted \in Nat
  BY DEF Restart, RecoveredLength, IInv, TypeOK, PublisherInv
<1>3. PublisherInv'
  BY <1>2 DEF Restart, PublisherInv, IInv
<1>4. ASSUME NEW c \in Clients PROVE ClientInv(c)'
  <2>1. connection'[c] = "away" /\ queue' = queue /\ received' = received /\ unannounced' = unannounced
    BY DEF Restart
  <2>2. ReceivedInv(c) /\ IdleInv(c) /\ Ascending(queue[c]) /\ Linked(unannounced, queue[c])
    BY ClientFacts DEF QueueInv
  <2>3. ReceivedInv(c)' /\ IdleInv(c)'
    BY <1>2, <2>1, <2>2 DEF ReceivedInv, IdleInv
  <2>4. Ascending(queue[c])' /\ Linked(unannounced, queue[c])'
    BY <2>1, <2>2
  <2> QED
    BY <2>1, <2>3, <2>4, LeaveInv
<1> QED
  BY <1>1, <1>3, <1>4 DEF IInv

LEMMA StepInv == IInv /\ [Next]_vars => IInv'
<1> SUFFICES ASSUME IInv, [Next]_vars PROVE IInv'
  OBVIOUS
<1>1. CASE UNCHANGED vars
  <2>1. TypeOK' /\ PublisherInv'
    BY <1>1 DEF IInv, TypeOK, PublisherInv, vars, publication, subscriber
  <2>2. ASSUME NEW c \in Clients PROVE ClientInv(c)'
    BY <1>1, Frame DEF IInv, vars, subscriber
  <2> QED
    BY <2>1, <2>2 DEF IInv
<1> QED
  BY <1>1, PublishInv, SubscriberInv, RestartInv DEF Next

-----------------------------------------------------------------------------
(* The theorems.                                                           *)

\* IInv holds throughout.
THEOREM InvariantThm == Spec => []IInv
BY InitInv, StepInv, PTL DEF Spec

\* The types of everything the publisher and the subscribers keep.
THEOREM TypeThm == Spec => []TypeOK
<1>1. IInv => TypeOK
  BY DEF IInv
<1> QED
  BY <1>1, InvariantThm, PTL

\* What a client is handed never goes back and skips nothing but events whose own
\* append failed, over any number of connections (LocalEventHub.#iterate).
THEOREM OrderThm == Spec => []ReceivedInOrder
<1>1. IInv => ReceivedInOrder
  <2> SUFFICES ASSUME IInv, NEW c \in Clients, NEW i \in DOMAIN received[c]
               PROVE  LET former == IF i = 1 THEN 0 ELSE received[c][i - 1]
                      IN received[c][i] >= former /\ Gap(unannounced, former, received[c][i])
    BY DEF ReceivedInOrder, OnlyUnannouncedBetween, Gap
  <2>1. received[c] \in Seq(Nat) /\ ReceivedInv(c)
    BY ClientFacts
  <2>2. DOMAIN received[c] = 1 .. Len(received[c]) /\ Len(received[c]) \in Nat
    BY <2>1
  <2>3. i \in 1 .. Len(received[c]) /\ received[c][i] >= 0 /\ (i = 1 \/ i > 1)
    BY <2>1, <2>2
  <2> QED
    BY <2>1, <2>3 DEF ReceivedInv
<1> QED
  BY <1>1, InvariantThm, PTL

\* What is handed over or queued is in the persisted log (publish appends
\* before it broadcasts, and recovery keeps every complete event).
THEOREM PersistedThm == Spec => []DeliveredIsPersisted
<1>1. IInv => DeliveredIsPersisted
  <2> SUFFICES ASSUME IInv, NEW c \in Clients
               PROVE  /\ \A i \in DOMAIN received[c] : received[c][i] \in 1 .. persisted
                      /\ \A i \in DOMAIN queue[c] : queue[c][i] \in 1 .. persisted
    BY DEF DeliveredIsPersisted
  <2>1. received[c] \in Seq(Nat) /\ queue[c] \in Seq(Nat) /\ ReceivedInv(c) /\ IdleInv(c)
    BY ClientFacts
  <2>2. DOMAIN received[c] = 1 .. Len(received[c]) /\ DOMAIN queue[c] = 1 .. Len(queue[c])
    BY <2>1
  <2>3. \A i \in 1 .. Len(received[c]) : received[c][i] \in 1 .. persisted
    BY <2>1 DEF ReceivedInv
  <2>4. \A i \in 1 .. Len(queue[c]) : queue[c][i] \in 1 .. persisted
    BY <2>1 DEF IdleInv
  <2> QED
    BY <2>2, <2>3, <2>4
<1> QED
  BY <1>1, InvariantThm, PTL

\* A live subscriber with an empty queue is closed once the terminal event's
\* publication is over, unless that event's append failed after it wrote its line
\* (publish's close, the checks between history and live).
THEOREM ClosedThm == Spec => []ClosedAtTheEnd
<1>1. IInv => ClosedAtTheEnd
  BY DEF IInv, ClientInv, WakeUpInv, ClosedAtTheEnd
<1> QED
  BY <1>1, InvariantThm, PTL

\* A generator that waits is live, has an empty queue and has been told nothing.
SleepInv ==
  \A c \in Clients :
    waiting[c] => /\ connection[c] = "live" /\ queue[c] = <<>>
                  /\ ~closed[c] /\ ~overflowed[c] /\ ~aborted[c]

LEMMA PublishSleep ==
  ASSUME TypeOK, SleepInv, Publish \/ Restart
  PROVE  SleepInv'
<1> SUFFICES ASSUME NEW c \in Clients, waiting'[c]
             PROVE  /\ connection'[c] = "live" /\ queue'[c] = <<>>
                    /\ ~closed'[c] /\ ~overflowed'[c] /\ ~aborted'[c]
  BY DEF SleepInv
<1>1. CASE PersistEvent \/ StreamFails \/ AppendFails \/ FinishWithFailure \/ Record
  BY <1>1 DEF SleepInv, PersistEvent, StreamFails, AppendFails, FinishWithFailure, Record, subscriber
<1>2. CASE AfterPersistFails \/ Restart
  BY <1>2 DEF AfterPersistFails, Restart
<1>3. CASE Broadcast
  <2>1. waiting[c] /\ ~Takes(c)
    BY <1>3 DEF Broadcast, Woken
  <2> QED
    BY <1>3, <2>1 DEF Broadcast, SleepInv
<1> QED
  BY <1>1, <1>2, <1>3 DEF Publish

LEMMA SubscriberSleep ==
  ASSUME TypeOK, SleepInv, NEW c \in Clients, Subscribe(c) \/ Iterate(c) \/ ReadFails(c) \/ Abort(c)
  PROVE  SleepInv'
<1> SUFFICES ASSUME NEW d \in Clients, waiting'[d]
             PROVE  /\ connection'[d] = "live" /\ queue'[d] = <<>>
                    /\ ~closed'[d] /\ ~overflowed'[d] /\ ~aborted'[d]
  BY DEF SleepInv
<1>1. waiting[d] => /\ connection[d] = "live" /\ queue[d] = <<>>
                    /\ ~closed[d] /\ ~overflowed[d] /\ ~aborted[d]
  BY DEF SleepInv
<1> USE <1>1 DEF TypeOK, Leave
<1>2. CASE Subscribe(c)
  BY <1>2 DEF Subscribe
<1>3. CASE ReadHistory(c) \/ StartHistory(c) \/ YieldHistory(c)
  BY <1>3 DEF ReadHistory, StartHistory, YieldHistory
<1>4. CASE EndHistory(c)
  BY <1>4 DEF EndHistory
<1>5. CASE ReadTail(c) \/ EndTail(c)
  BY <1>5 DEF ReadTail, EndTail
<1>7. CASE CheckRun(c)
  BY <1>7 DEF CheckRun
<1>8. CASE Deliver(c)
  BY <1>8 DEF Deliver
<1>9. CASE Drained(c) \/ Wait(c)
  BY <1>9 DEF Drained, Wait
<1>10. CASE StopAborted(c) \/ ReadFails(c)
  BY <1>10 DEF StopAborted, ReadFails
<1>11. CASE Abort(c)
  BY <1>11 DEF Abort
<1> QED
  BY <1>2, <1>3, <1>4, <1>5, <1>7, <1>8, <1>9, <1>10, <1>11 DEF Iterate

\* Nobody sleeps through a wake-up: each event, overflow, failure, end and abort
\* that reaches a subscriber wakes its generator (#wake in publish and onAbort).
THEOREM WakeUpThm == Spec => []NoMissedWakeUp
<1>1. Init => SleepInv
  BY DEF Init, SleepInv
<1>2. TypeOK /\ SleepInv /\ [Next]_vars => SleepInv'
  <2>1. ASSUME SleepInv, UNCHANGED vars PROVE SleepInv'
    BY <2>1 DEF SleepInv, vars, subscriber
  <2> QED
    BY <2>1, PublishSleep, SubscriberSleep DEF Next
<1>3. SleepInv => NoMissedWakeUp
  BY DEF SleepInv, NoMissedWakeUp
<1> QED
  BY <1>1, <1>2, <1>3, TypeThm, PTL DEF Spec

\* Why a stream that returns without an error has a reason to: what a generator
\* has read or been closed by was there, and is never taken back.
EndInv ==
  /\ recorded => ended
  /\ \A c \in Clients :
       /\ seen[c] => ended
       /\ Registered(c) /\ closed[c] /\ ~overflowed[c] /\ ~aborted[c] => ended \/ finishing
       /\ outcome[c] = "returned" => ended \/ finishing

LEMMA PublishEnd ==
  ASSUME TypeOK, EndInv, Publish \/ Restart
  PROVE  EndInv'
<1>1. (ended => ended') /\ (finishing => finishing') /\ (recorded' => ended')
  BY DEF EndInv, Publish, PersistEvent, StreamFails, AppendFails, WriteEvent, FinishWithFailure, Record,
         AfterPersistFails, Broadcast, Restart
<1>2. ASSUME NEW c \in Clients
      PROVE  /\ seen'[c] => ended'
             /\ Registered(c)' /\ closed'[c] /\ ~overflowed'[c] /\ ~aborted'[c] => ended' \/ finishing'
             /\ outcome'[c] = "returned" => ended' \/ finishing'
  <2>1. /\ seen[c] => ended
        /\ Registered(c) /\ closed[c] /\ ~overflowed[c] /\ ~aborted[c] => ended \/ finishing
        /\ outcome[c] = "returned" => ended \/ finishing
    BY DEF EndInv
  <2>2. CASE PersistEvent \/ StreamFails \/ AppendFails \/ FinishWithFailure \/ Record
    BY <1>1, <2>1, <2>2
       DEF PersistEvent, StreamFails, AppendFails, FinishWithFailure, Record, subscriber, Registered
  <2>3. CASE AfterPersistFails
    BY <1>1, <2>1, <2>3 DEF AfterPersistFails
  <2>4. CASE Broadcast
    BY <1>1, <2>1, <2>4 DEF Broadcast, Registered
  <2>5. CASE Restart
    BY <1>1, <2>1, <2>5 DEF Restart
  <2> QED
    BY <2>2, <2>3, <2>4, <2>5 DEF Publish
<1> QED
  BY <1>1, <1>2 DEF EndInv

LEMMA SubscriberEnd ==
  ASSUME TypeOK, EndInv, NEW c \in Clients, Subscribe(c) \/ Iterate(c) \/ ReadFails(c) \/ Abort(c)
  PROVE  EndInv'
<1>1. UNCHANGED publication
  BY DEF Subscribe, Iterate, ReadHistory, StartHistory, YieldHistory, EndHistory, ReadTail, EndTail,
         CheckRun, Deliver, Drained, Wait, StopAborted, ReadFails, Abort
<1>2. ASSUME NEW d \in Clients
      PROVE  /\ seen'[d] => ended
             /\ Registered(d)' /\ closed'[d] /\ ~overflowed'[d] /\ ~aborted'[d] => ended \/ finishing
             /\ outcome'[d] = "returned" => ended \/ finishing
  <2>1. /\ seen[d] => ended
        /\ Registered(d) /\ closed[d] /\ ~overflowed[d] /\ ~aborted[d] => ended \/ finishing
        /\ outcome[d] = "returned" => ended \/ finishing
        /\ recorded => ended
    BY DEF EndInv
  <2> USE <2>1 DEF TypeOK, Registered, Leave
  <2>2. CASE Subscribe(c)
    BY <2>2 DEF Subscribe
  <2>3. CASE ReadHistory(c) \/ StartHistory(c) \/ YieldHistory(c)
    BY <2>3 DEF ReadHistory, StartHistory, YieldHistory
  <2>4. CASE EndHistory(c)
    BY <2>4 DEF EndHistory, HistoryHasTerminal, Terminal
  <2>5. CASE ReadTail(c)
    BY <2>5 DEF ReadTail
  <2>6. CASE EndTail(c)
    BY <2>6 DEF EndTail
  <2>7. CASE CheckRun(c)
    BY <2>7 DEF CheckRun
  <2>8. CASE Deliver(c)
    BY <2>8 DEF Deliver, Terminal
  <2>9. CASE Drained(c)
    BY <2>9 DEF Drained, DrainedOutcome
  <2>10. CASE Wait(c) \/ StopAborted(c) \/ ReadFails(c)
    BY <2>10 DEF Wait, StopAborted, ReadFails
  <2>11. CASE Abort(c)
    BY <2>11 DEF Abort
  <2> QED
    BY <2>2, <2>3, <2>4, <2>5, <2>6, <2>7, <2>8, <2>9, <2>10, <2>11 DEF Iterate
<1> QED
  BY <1>1, <1>2 DEF EndInv, publication

\* A stream returns without an error only if the run has its terminal event or
\* a publication failed (the outcomes of LocalEventHub.#iterate).
THEOREM EarlyReturnThm == Spec => []NoEarlyReturn
<1>1. Init => EndInv
  BY DEF Init, EndInv, Registered
<1>2. TypeOK /\ EndInv /\ [Next]_vars => EndInv'
  <2>1. ASSUME EndInv, UNCHANGED vars PROVE EndInv'
    BY <2>1 DEF EndInv, Registered, vars, publication, subscriber
  <2> QED
    BY <2>1, PublishEnd, SubscriberEnd DEF Next
<1>3. EndInv => NoEarlyReturn
  BY DEF EndInv, NoEarlyReturn
<1> QED
  BY <1>1, <1>2, <1>3, TypeThm, PTL DEF Spec

\* Where the promise that nobody is handed an event twice fails: only the first live
\* event of a connection that had nothing to replay can be the one the connection
\* resumed from (subscriber.lastSequence starts at 0).
THEOREM RepeatThm == Spec => RepeatsOnlyTheCursor
<1> DEFINE Repeat(c) == Len(received'[c]) > Len(received[c]) /\ Confirmed(c)' = Confirmed(c)
           Allowed(c) == Confirmed(c) = cursor[c] /\ connection[c] = "live" /\ lastSequence[c] = 0
<1>1. ASSUME IInv, [Next]_vars, NEW c \in Clients, Repeat(c) PROVE Allowed(c)
  <2>1. /\ received[c] \in Seq(Nat) /\ Len(received[c]) \in Nat /\ Confirmed(c) \in Nat
        /\ PositionInv(c) /\ QueueInv(c)
    BY <1>1, ClientFacts
  <2>2. received'[c] # received[c]
    BY <1>1, <2>1
  <2>3. YieldHistory(c) \/ Deliver(c)
    <3>1. CASE UNCHANGED vars
      BY <2>2, <3>1 DEF vars
    <3>2. CASE Publish \/ Restart
      BY <2>2, <3>2 DEF Publish, PersistEvent, StreamFails, AppendFails, FinishWithFailure, Record,
                        AfterPersistFails, Broadcast, Restart
    <3>3. ASSUME NEW d \in Clients, Subscribe(d) \/ Iterate(d) \/ ReadFails(d) \/ Abort(d)
          PROVE  YieldHistory(c) \/ Deliver(c)
      <4>1. YieldHistory(d) \/ Deliver(d)
        BY <2>2, <3>3 DEF Subscribe, Iterate, ReadHistory, StartHistory, EndHistory, ReadTail,
                          EndTail, CheckRun, Drained, Wait, StopAborted, ReadFails, Abort
      <4>2. d = c
        <5>1. received' = received \/ \E e : received' = [received EXCEPT ![d] = Append(@, e)]
          BY <4>1 DEF YieldHistory, Deliver, HandTo
        <5> QED
          BY <1>1, <2>2, <5>1 DEF IInv, TypeOK
      <4> QED
        BY <4>1, <4>2
    <3> QED
      BY <1>1, <3>1, <3>2, <3>3 DEF Next
  <2>4. CASE YieldHistory(c)
    <3>1. received'[c] = Append(received[c], yielded[c] + 1) /\ yielded[c] = Confirmed(c)
      BY <1>1, <2>1, <2>4 DEF YieldHistory, HandTo, PositionInv, IInv, TypeOK
    <3>2. yielded[c] + 1 \in Nat /\ yielded[c] \in Nat
      BY <1>1, ClientFacts
    <3>3. Confirmed(c)' = yielded[c] + 1
      BY <2>1, <3>1, <3>2, AppendConfirms
    <3> QED
      BY <1>1, <3>1, <3>2, <3>3
  <2>5. CASE Deliver(c)
    <3> DEFINE e == Head(queue[c])
    <3>1. received'[c] = Append(received[c], e) /\ e > lastSequence[c] /\ connection[c] = "live"
      BY <1>1, <2>2, <2>5 DEF Deliver, HandTo, Fresh, IInv, TypeOK
    <3>2. e \in Nat /\ lastSequence[c] \in Nat
      BY <1>1, <2>5, ClientFacts DEF Deliver
    <3>3. Confirmed(c)' = e
      BY <2>1, <3>1, <3>2, AppendConfirms
    <3>4. lastSequence[c] = 0
      BY <1>1, <2>1, <3>1, <3>2, <3>3 DEF PositionInv
    <3> QED
      BY <2>1, <3>1, <3>4 DEF PositionInv
  <2> QED
    BY <2>3, <2>4, <2>5
<1>2. IInv /\ [Next]_vars => [\A c \in Clients : Repeat(c) => Allowed(c)]_vars
  BY <1>1
<1> QED
  BY <1>2, InvariantThm, PTL DEF Spec, RepeatsOnlyTheCursor
=============================================================================
