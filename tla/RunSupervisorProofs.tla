------------------------ MODULE RunSupervisorProofs ------------------------
(* The safety properties of RunSupervisor, for all constants.              *)
EXTENDS RunSupervisor, TLAPS, FiniteSetTheorems

\* One createRun at a time is past its checks.
OneCreating == \A r, q \in Runs : step[r] \in Creating /\ step[q] \in Creating => r = q

\* What createRun checked before its awaits still holds after them.
StillAdmissible ==
  \A r \in Runs : step[r] \in Creating =>
    /\ Cardinality(active) < MaxConcurrentRuns
    /\ activeOf[sessionOf[r]] = NoRun
    /\ \A q \in Runs : Started(q) /\ keyOf[r] # NoKey /\ keyOf[q] = keyOf[r] => sessionOf[q] # sessionOf[r]

Requested == \A r \in Runs : step[r] # "unused" => sessionOf[r] \in Sessions

Admission ==
  /\ IsFiniteSet(active)
  /\ OneCreating
  /\ StillAdmissible
  /\ Requested
  /\ ConcurrencyBound
  /\ OneRunPerSession
  /\ StartsOncePerKey

\* The terminal event is in the log and run.json agrees.
Recorded(r) == log[r] \in Terminals /\ runStatus[r] = log[r]

\* What each step of a run knows of its log, its run.json and its entries.
RunInv(r) ==
  /\ r \in active => step[r] \in Executing \ {"draining"}
  /\ step[r] \in {"starting", "streaming"} => r \in active /\ log[r] \notin Terminals
  /\ step[r] \in {"starting", "streaming"} \/ ~Started(r) => ~finishing[r]
  /\ step[r] = "failing" => finishing[r]
  /\ step[r] \in {"appended", "runUpdated"} => log[r] # "empty" /\ (finishing[r] \/ r \in active)
  /\ step[r] = "runUpdated" => runStatus[r] = StatusOf(log[r])
  /\ step[r] = "draining" => Recorded(r)
  /\ step[r] \in {"disposing", "gone"} => Recorded(r) \/ r \in unrecorded
  /\ ~Started(r) => log[r] = "empty" /\ runStatus[r] = "queued"
  /\ Started(r) /\ r \notin active => Recorded(r) \/ r \in unrecorded
  /\ r \in unrecorded => step[r] \in {"disposing", "gone"}
  /\ runStatus[r] \in Terminals => log[r] = runStatus[r]

Recording == \A r \in Runs : RunInv(r)

\* A session that is running has an active run, its last, or lost its end.
SessionInv ==
  \A s \in Sessions : sessionStatus[s] = "running" =>
    IF activeOf[s] = NoRun THEN lastRun[s] \in unrecorded ELSE lastRun[s] = activeOf[s]

\* The finally block releases a run whose end was lost or whose session is told.
DisposingInv ==
  \A r \in Runs : step[r] = "disposing" /\ r \in active =>
    r \in unrecorded \/ sessionStatus[sessionOf[r]] # "running"

IInv == TypeOK /\ Admission /\ Recording /\ SessionInv /\ DisposingInv
-----------------------------------------------------------------------------
(* Type correctness.                                                       *)

LEMMA InitTypeOK == Init => TypeOK
  BY DEF Init, TypeOK, ShutdownSteps, Steps, AdapterSteps, Logs, Statuses

LEMMA CreateTypeOK ==
  ASSUME TypeOK, NEW r \in Runs, Create(r)
  PROVE  TypeOK'
<1>1. ASSUME NEW s \in Sessions, NEW k \in Keys \cup {NoKey}, BeginCreate(r, s, k) PROVE TypeOK'
  BY <1>1 DEF TypeOK, BeginCreate, Steps, Creating, admission, control, stored
<1>2. CASE RejectCreate(r)
  BY <1>2 DEF TypeOK, RejectCreate, Steps, admission, control, stored
<1>3. CASE StoreRun(r)
  BY <1>3 DEF TypeOK, StoreRun, Steps, Creating, admission, request, control, stored
<1>4. CASE OrphanRun(r)
  BY <1>4 DEF TypeOK, OrphanRun, Steps, admission, request, control, stored
<1>5. CASE Activate(r)
  BY <1>5 DEF TypeOK, Activate, Steps, Executing, request, control
<1> QED BY <1>1, <1>2, <1>3, <1>4, <1>5 DEF Create

LEMMA ReleaseTypeOK ==
  ASSUME TypeOK, NEW r \in Runs, Release(r)
  PROVE  /\ accepting' \in BOOLEAN
         /\ shutdown' \in ShutdownSteps
         /\ active' \subseteq Runs
         /\ activeOf' \in [Sessions -> Runs \cup {NoRun}]
  BY DEF TypeOK, Release, ReleasedSession, ShutdownSteps

LEMMA ExecuteTypeOK ==
  ASSUME TypeOK, NEW r \in Runs, Execute(r)
  PROVE  TypeOK'
<1> USE DEF TypeOK
<1>1. CASE StartRun(r)
  BY <1>1 DEF StartRun, Steps, Executing, AdapterSteps, admission, request, stored
<1>2. CASE StartFails(r)
  BY <1>2 DEF StartFails, Steps, Executing, AdapterSteps, admission, request, stored
<1>3. CASE Emit(r)
  BY <1>3 DEF Emit, Steps, Executing, Logs, admission, request, control
<1>4. ASSUME NEW t \in Terminals, EmitTerminal(r, t) PROVE TypeOK'
  BY <1>4 DEF EmitTerminal, Steps, Executing, AdapterSteps, Logs, admission, request
<1>5. CASE StreamFails(r)
  BY <1>5 DEF StreamFails, Steps, Executing, AdapterSteps, admission, request, stored
<1>6. CASE UpdateRun(r)
  <2>1. StatusOf(log[r]) \in Statuses
    BY DEF StatusOf, Logs, Statuses
  <2> QED BY <1>6, <2>1 DEF UpdateRun, Steps, Executing, admission, request, control
<1>7. CASE UpdateSession(r)
  <2>1. SessionStatusOf(log[r]) \in {"idle", "running", "failed"}
    BY DEF SessionStatusOf
  <2>2. /\ accepting' \in BOOLEAN
        /\ shutdown' \in ShutdownSteps
        /\ active' \subseteq Runs
        /\ activeOf' \in [Sessions -> Runs \cup {NoRun}]
    BY <1>7, ReleaseTypeOK DEF UpdateSession, admission
  <2>3. step' \in [Runs -> Steps]
    BY <1>7 DEF UpdateSession, Steps, Executing
  <2>4. sessionStatus' \in [Sessions -> {"idle", "running", "failed"}] /\ lastRun' \in [Sessions -> Runs \cup {NoRun}]
    BY <1>7, <2>1 DEF UpdateSession
  <2> QED BY <1>7, <2>2, <2>3, <2>4 DEF UpdateSession, request, control
<1>8. CASE FinishWithFailure(r)
  BY <1>8 DEF FinishWithFailure, FailureEvent, Logs, Terminals, Steps, Executing, admission, request, control
<1>9. CASE EndStream(r)
  BY <1>9 DEF EndStream, Steps, Executing, admission, request, control, stored
<1>10. CASE Dispose(r)
  BY <1>10, ReleaseTypeOK DEF Dispose, Steps, AdapterSteps, request, stored
<1>11. CASE UpdateFails(r)
  <2>1. step' \in [Runs -> Steps]
    BY <1>11 DEF UpdateFails, Steps, Executing
  <2>2. finishing' \in [Runs -> BOOLEAN] /\ adapter' \in [Runs -> AdapterSteps] /\ unrecorded' \subseteq Runs
    <3>1. CASE finishing[r]
      BY <1>11, <3>1 DEF UpdateFails
    <3>2. CASE ~finishing[r]
      BY <1>11, <3>2 DEF UpdateFails, AdapterSteps
    <3> QED BY <3>1, <3>2
  <2> QED BY <1>11, <2>1, <2>2 DEF UpdateFails, admission, request, stored
<1>12. CASE FinishFails(r)
  BY <1>12 DEF FinishFails, Steps, Executing, admission, request, control, stored
<1>13. CASE EndStreamFails(r)
  BY <1>13 DEF EndStreamFails, Steps, Executing, admission, request, stored
<1> QED
  BY <1>1, <1>2, <1>3, <1>4, <1>5, <1>6, <1>7, <1>8, <1>9, <1>10, <1>11, <1>12, <1>13
  DEF Execute, StreamSteps, Proceed

LEMMA CancelTypeOK ==
  ASSUME TypeOK, NEW r \in Runs, CancelRun(r)
  PROVE  TypeOK'
  BY DEF TypeOK, CancelRun, Cancelled, AdapterSteps, admission, request, stored

LEMMA ShutdownTypeOK ==
  ASSUME TypeOK, Shutdown \/ GraceExpires
  PROVE  TypeOK'
<1> USE DEF TypeOK
<1>1. CASE Shutdown
  <2>1. cancelReason' \in [Runs -> BOOLEAN]
    BY <1>1, Zenon DEF Shutdown
  <2>2. adapter' \in [Runs -> AdapterSteps]
    BY <1>1 DEF Shutdown, Cancelled, AdapterSteps
  <2>3. shutdown' \in ShutdownSteps /\ accepting' \in BOOLEAN
    BY <1>1 DEF Shutdown, ShutdownSteps
  <2> QED BY <1>1, <2>1, <2>2, <2>3 DEF Shutdown, request, stored
<1>2. CASE GraceExpires
  <2>1. adapter' \in [Runs -> AdapterSteps] /\ shutdown' \in ShutdownSteps
    BY <1>2 DEF GraceExpires, Disposed, AdapterSteps, ShutdownSteps
  <2> QED BY <1>2, <2>1 DEF GraceExpires, request, stored
<1> QED BY <1>1, <1>2

LEMMA NextTypeOK == TypeOK /\ [Next]_vars => TypeOK'
<1> SUFFICES ASSUME TypeOK, [Next]_vars PROVE TypeOK'
  OBVIOUS
<1>1. ASSUME NEW r \in Runs, Create(r) PROVE TypeOK'
  BY <1>1, CreateTypeOK
<1>2. ASSUME NEW r \in Runs, Execute(r) PROVE TypeOK'
  BY <1>2, ExecuteTypeOK
<1>3. ASSUME NEW r \in Runs, CancelRun(r) PROVE TypeOK'
  BY <1>3, CancelTypeOK
<1>4. CASE Shutdown \/ GraceExpires
  BY <1>4, ShutdownTypeOK
<1>5. CASE UNCHANGED vars
  BY <1>5 DEF TypeOK, vars, admission, request, control, stored
<1> QED BY <1>1, <1>2, <1>3, <1>4, <1>5 DEF Next

-----------------------------------------------------------------------------
(* Admission.                                                              *)

\* A step of #execute.
StepsOn(r) == step[r] \in Executing /\ \E x \in Executing \cup {"gone"} : step' = [step EXCEPT ![r] = x]

LEMMA ExecuteStepsOn ==
  ASSUME TypeOK, NEW r \in Runs, Execute(r)
  PROVE  StepsOn(r) /\ UNCHANGED request
<1>1. CASE StartRun(r) \/ StartFails(r) \/ Emit(r) \/ StreamFails(r)
  BY <1>1 DEF StartRun, StartFails, Emit, StreamFails, StepsOn, Executing
<1>2. ASSUME NEW t \in Terminals, EmitTerminal(r, t) PROVE StepsOn(r) /\ UNCHANGED request
  BY <1>2 DEF EmitTerminal, StepsOn, Executing
<1>3. CASE UpdateRun(r) \/ FinishWithFailure(r) \/ EndStream(r) \/ Dispose(r)
  BY <1>3 DEF UpdateRun, FinishWithFailure, EndStream, Dispose, StepsOn, Executing
<1>4. CASE UpdateSession(r)
  BY <1>4 DEF UpdateSession, StepsOn, Executing
<1>5. CASE UpdateFails(r)
  BY <1>5 DEF UpdateFails, StepsOn, Executing
<1>6. CASE FinishFails(r) \/ EndStreamFails(r)
  BY <1>6 DEF FinishFails, EndStreamFails, StepsOn, Executing
<1> QED BY <1>1, <1>2, <1>3, <1>4, <1>5, <1>6 DEF Execute, StreamSteps, Proceed

\* No run comes under creation and none starts.
SameStanding ==
  \A q \in Runs :
    /\ step'[q] \in Creating => step[q] \in Creating
    /\ step'[q] \in Executing \cup {"gone"} => step[q] \in Executing \cup {"gone"}
    /\ step'[q] # "unused" => step[q] # "unused"

LEMMA ExecuteFrame ==
  ASSUME TypeOK, NEW r \in Runs, StepsOn(r)
  PROVE  /\ SameStanding
         /\ \A q \in Runs \ {r} : step'[q] = step[q]
<1>1. PICK x \in Executing \cup {"gone"} : step' = [step EXCEPT ![r] = x]
  BY DEF StepsOn
<1>2. \A q \in Runs \ {r} : step'[q] = step[q]
  BY <1>1 DEF TypeOK
<1>3. step'[r] = x /\ step[r] \in Executing
  BY <1>1 DEF TypeOK, StepsOn
<1>4. SameStanding
  BY <1>2, <1>3 DEF SameStanding, Creating, Executing
<1> QED BY <1>2, <1>4

\* What #execute changes of the admission: nothing, or it releases its run.
LEMMA ExecuteAdmission ==
  ASSUME TypeOK, NEW r \in Runs, Execute(r)
  PROVE  UNCHANGED <<active, activeOf>> \/ Release(r)
<1>1. CASE StartRun(r) \/ StartFails(r) \/ Emit(r) \/ StreamFails(r)
  BY <1>1 DEF StartRun, StartFails, Emit, StreamFails, admission
<1>2. ASSUME NEW t \in Terminals, EmitTerminal(r, t) PROVE UNCHANGED <<active, activeOf>>
  BY <1>2 DEF EmitTerminal, admission
<1>3. CASE UpdateRun(r) \/ FinishWithFailure(r) \/ EndStream(r) \/ UpdateFails(r) \/ FinishFails(r) \/ EndStreamFails(r)
  BY <1>3 DEF UpdateRun, FinishWithFailure, EndStream, UpdateFails, FinishFails, EndStreamFails, admission
<1>4. CASE UpdateSession(r)
  BY <1>4 DEF UpdateSession, admission
<1>5. CASE Dispose(r)
  BY <1>5 DEF Dispose
<1> QED BY <1>1, <1>2, <1>3, <1>4, <1>5 DEF Execute, StreamSteps, Proceed

ActiveStarted == \A r \in active : Started(r)

LEMMA KeptAdmission ==
  ASSUME TypeOK, TypeOK', Admission, UNCHANGED request,
         ActiveStarted,
         SameStanding,
         UNCHANGED <<active, activeOf>> \/ \E r \in Runs : Release(r)
  PROVE  Admission'
<1>1. IsFiniteSet(active')
  BY FS_RemoveElement DEF Admission, Release
<1>2. Cardinality(active') \in Nat /\ Cardinality(active') <= Cardinality(active) /\ Cardinality(active) \in Nat
  <2>1. CASE UNCHANGED <<active, activeOf>>
    BY <2>1, FS_CardinalityType DEF Admission
  <2>2. ASSUME NEW r \in Runs, Release(r)
        PROVE  /\ Cardinality(active') \in Nat
               /\ Cardinality(active') <= Cardinality(active)
               /\ Cardinality(active) \in Nat
    <3>1. active' = active \ {r}
      BY <2>2 DEF Release
    <3>2. Cardinality(active) \in Nat
      BY FS_CardinalityType DEF Admission
    <3>3. CASE r \in active
      BY <3>1, <3>2, <3>3, FS_RemoveElement, <1>1, FS_CardinalityType DEF Admission
    <3>4. CASE r \notin active
      BY <3>1, <3>2, <3>4
    <3> QED BY <3>3, <3>4
  <2> QED BY <2>1, <2>2
<1>3. \A s \in Sessions : activeOf[s] = NoRun => activeOf'[s] = NoRun
  BY DEF Release, ReleasedSession
<1>4. OneCreating' /\ Requested'
  BY DEF Admission, OneCreating, Requested, request, SameStanding
<1>5. StillAdmissible'
  <2> SUFFICES ASSUME NEW r \in Runs, step'[r] \in Creating
               PROVE  /\ Cardinality(active') < MaxConcurrentRuns
                      /\ activeOf'[sessionOf'[r]] = NoRun
                      /\ \A q \in Runs : Started(q)' /\ keyOf'[r] # NoKey /\ keyOf'[q] = keyOf'[r] => sessionOf'[q] # sessionOf'[r]
    BY DEF StillAdmissible
  <2>1. step[r] \in Creating /\ sessionOf[r] \in Sessions
    BY DEF Admission, Requested, Creating, SameStanding
  <2>2. Cardinality(active) < MaxConcurrentRuns /\ activeOf[sessionOf[r]] = NoRun
    BY <2>1 DEF Admission, StillAdmissible
  <2>3. Cardinality(active') < MaxConcurrentRuns
    BY <1>2, <2>2, ConcurrencyAssumption
  <2>4. activeOf'[sessionOf'[r]] = NoRun
    BY <1>3, <2>1, <2>2 DEF request
  <2>5. ASSUME NEW q \in Runs, Started(q)', keyOf'[r] # NoKey, keyOf'[q] = keyOf'[r] PROVE sessionOf'[q] # sessionOf'[r]
    BY <2>1, <2>5 DEF Admission, StillAdmissible, request, SameStanding, Started
  <2> QED BY <2>3, <2>4, <2>5
<1>6. ConcurrencyBound'
  BY <1>2, ConcurrencyAssumption DEF Admission, ConcurrencyBound
<1>7. OneRunPerSession'
  <2>1. CASE UNCHANGED <<active, activeOf>>
    BY <2>1 DEF Admission, OneRunPerSession, request
  <2>2. ASSUME NEW r \in Runs, Release(r) PROVE OneRunPerSession'
    <3>1. active' = active \ {r} /\ activeOf' = [s \in Sessions |-> IF activeOf[s] = r THEN NoRun ELSE activeOf[s]]
      BY <2>2 DEF Release, ReleasedSession
    <3>2. ASSUME NEW q \in active' PROVE activeOf'[sessionOf'[q]] = q
      <4>1. q \in active /\ q # r /\ activeOf[sessionOf[q]] = q /\ q \in Runs
        BY <3>1, <3>2 DEF Admission, OneRunPerSession, TypeOK
      <4>2. sessionOf[q] \in Sessions
        BY <4>1 DEF Admission, Requested, ActiveStarted, Started, Executing
      <4> QED BY <3>1, <4>1, <4>2 DEF request
    <3>3. ASSUME NEW s \in Sessions, activeOf'[s] # NoRun PROVE activeOf'[s] \in active' /\ sessionOf'[activeOf'[s]] = s
      BY <3>1, <3>3 DEF Admission, OneRunPerSession, request
    <3> QED BY <3>2, <3>3 DEF OneRunPerSession
  <2> QED BY <2>1, <2>2
<1>8. StartsOncePerKey'
  BY DEF Admission, StartsOncePerKey, request, SameStanding, Started
<1> QED BY <1>1, <1>4, <1>5, <1>6, <1>7, <1>8 DEF Admission

LEMMA BeginCreateAdmission ==
  ASSUME TypeOK, Admission, ActiveStarted,
         NEW r \in Runs, NEW s \in Sessions, NEW k \in Keys \cup {NoKey}, BeginCreate(r, s, k)
  PROVE  Admission'
<1> USE DEF BeginCreate, admission
<1>1. /\ step'[r] = "resolving" /\ sessionOf'[r] = s /\ keyOf'[r] = k
      /\ \A q \in Runs \ {r} : step'[q] = step[q] /\ sessionOf'[q] = sessionOf[q] /\ keyOf'[q] = keyOf[q]
      /\ step[r] = "unused"
  BY DEF TypeOK
<1>2. r \notin active /\ ~Started(r) /\ ~Started(r)'
  BY <1>1 DEF ActiveStarted, Started, Executing
<1>3. \A q \in Runs \ {r} : step'[q] \notin Creating
  BY <1>1 DEF CreateQueueFree
<1>4. OneCreating' /\ Requested'
  BY <1>1, <1>3 DEF Admission, OneCreating, Requested, Creating
<1>5. StillAdmissible'
  <2>1. Cardinality(active') < MaxConcurrentRuns /\ activeOf'[s] = NoRun
    BY DEF BelowLimit
  <2>2. ASSUME NEW q \in Runs, Started(q)', k # NoKey, keyOf'[q] = k PROVE sessionOf'[q] # s
    BY <1>1, <1>2, <2>2 DEF Remembered, Started
  <2> QED BY <1>1, <1>3, <2>1, <2>2 DEF StillAdmissible
<1>6. OneRunPerSession'
  BY <1>1, <1>2 DEF Admission, OneRunPerSession, TypeOK
<1>7. StartsOncePerKey'
  BY <1>1, <1>2 DEF Admission, StartsOncePerKey, Started
<1> QED BY <1>4, <1>5, <1>6, <1>7 DEF Admission, ConcurrencyBound

LEMMA RejectCreateAdmission ==
  ASSUME TypeOK, Admission, ActiveStarted, NEW r \in Runs, RejectCreate(r)
  PROVE  Admission'
<1> USE DEF RejectCreate, admission
<1>1. /\ step'[r] = "unused"
      /\ \A q \in Runs \ {r} : step'[q] = step[q] /\ sessionOf'[q] = sessionOf[q] /\ keyOf'[q] = keyOf[q]
      /\ step[r] = "resolving"
  BY DEF TypeOK
<1>2. r \notin active /\ ~Started(r) /\ ~Started(r)'
  BY <1>1 DEF ActiveStarted, Started, Executing
<1>3. \A q \in Runs : step'[q] \notin Creating
  BY <1>1 DEF Admission, OneCreating, Creating
<1>4. OneCreating' /\ Requested' /\ StillAdmissible'
  BY <1>1, <1>3 DEF Admission, OneCreating, Requested, StillAdmissible
<1>5. OneRunPerSession'
  BY <1>1, <1>2 DEF Admission, OneRunPerSession, TypeOK
<1>6. StartsOncePerKey'
  BY <1>1, <1>2 DEF Admission, StartsOncePerKey, Started
<1> QED BY <1>4, <1>5, <1>6 DEF Admission, ConcurrencyBound

LEMMA ActivateAdmission ==
  ASSUME TypeOK, Admission, ActiveStarted, NEW r \in Runs, Activate(r)
  PROVE  Admission'
<1> USE DEF Activate, request
<1>1. /\ step'[r] = "starting" /\ step[r] \in Creating
      /\ \A q \in Runs \ {r} : step'[q] = step[q]
      /\ sessionOf[r] \in Sessions
      /\ active' = active \cup {r}
      /\ activeOf'[sessionOf[r]] = r
      /\ \A s \in Sessions \ {sessionOf[r]} : activeOf'[s] = activeOf[s]
  BY DEF TypeOK, Creating, Admission, Requested
<1>2. /\ Cardinality(active) < MaxConcurrentRuns
      /\ activeOf[sessionOf[r]] = NoRun
      /\ \A q \in Runs : Started(q) /\ keyOf[r] # NoKey /\ keyOf[q] = keyOf[r] => sessionOf[q] # sessionOf[r]
  BY <1>1 DEF Admission, StillAdmissible
<1>3. r \notin active
  BY <1>1 DEF ActiveStarted, Started, Executing, Creating
<1>4. IsFiniteSet(active') /\ Cardinality(active') = Cardinality(active) + 1 /\ Cardinality(active) \in Nat
  BY <1>1, <1>3, FS_AddElement, FS_CardinalityType DEF Admission
<1>5. ConcurrencyBound'
  BY <1>2, <1>4, ConcurrencyAssumption DEF ConcurrencyBound
<1>6. \A q \in Runs : step'[q] \notin Creating
  BY <1>1 DEF Admission, OneCreating, Creating
<1>7. OneCreating' /\ Requested' /\ StillAdmissible'
  BY <1>1, <1>6 DEF Admission, OneCreating, Requested, StillAdmissible
<1>8. OneRunPerSession'
  <2>1. \A q \in active : q \in Runs /\ activeOf[sessionOf[q]] = q /\ sessionOf[q] \in Sessions
    BY DEF Admission, OneRunPerSession, TypeOK, Requested, ActiveStarted, Started, Executing
  <2>2. ASSUME NEW q \in active' PROVE activeOf'[sessionOf'[q]] = q
    BY <1>1, <1>2, <2>1, <2>2, NoRunAssumption
  <2>3. ASSUME NEW s \in Sessions, activeOf'[s] # NoRun PROVE activeOf'[s] \in active' /\ sessionOf'[activeOf'[s]] = s
    BY <1>1, <2>3 DEF Admission, OneRunPerSession
  <2> QED BY <2>2, <2>3 DEF OneRunPerSession
<1>9. StartsOncePerKey'
  <2>1. \A q \in Runs \ {r} : Started(q)' => Started(q)
    BY <1>1 DEF Started
  <2> QED BY <1>2, <2>1 DEF Admission, StartsOncePerKey
<1> QED BY <1>4, <1>5, <1>7, <1>8, <1>9 DEF Admission

LEMMA NextAdmission ==
  ASSUME TypeOK, TypeOK', Admission, ActiveStarted, [Next]_vars
  PROVE  Admission'
<1>1. ASSUME NEW r \in Runs, NEW s \in Sessions, NEW k \in Keys \cup {NoKey}, BeginCreate(r, s, k)
      PROVE  Admission'
  BY <1>1, BeginCreateAdmission
<1>2. ASSUME NEW r \in Runs, RejectCreate(r) PROVE Admission'
  BY <1>2, RejectCreateAdmission
<1>3. ASSUME NEW r \in Runs, StoreRun(r) \/ OrphanRun(r) PROVE Admission'
  <2>1. SameStanding
    BY <1>3 DEF StoreRun, OrphanRun, SameStanding, TypeOK, Creating, Executing
  <2> QED BY <1>3, <2>1, KeptAdmission DEF StoreRun, OrphanRun, admission
<1>4. ASSUME NEW r \in Runs, Activate(r) PROVE Admission'
  BY <1>4, ActivateAdmission
<1>5. ASSUME NEW r \in Runs, Execute(r) PROVE Admission'
  <2>1. StepsOn(r) /\ UNCHANGED request
    BY <1>5, ExecuteStepsOn
  <2>2. SameStanding
    BY <2>1, ExecuteFrame
  <2>3. UNCHANGED <<active, activeOf>> \/ Release(r)
    BY <1>5, ExecuteAdmission
  <2> QED BY <2>1, <2>2, <2>3, KeptAdmission
<1>6. ASSUME (\E r \in Runs : CancelRun(r)) \/ Shutdown \/ GraceExpires \/ UNCHANGED vars PROVE Admission'
  <2>1. UNCHANGED <<step, request, active, activeOf>>
    BY <1>6 DEF CancelRun, Shutdown, GraceExpires, vars, admission
  <2>2. SameStanding
    BY <2>1 DEF SameStanding
  <2> QED BY <2>1, <2>2, KeptAdmission
<1> QED BY <1>1, <1>2, <1>3, <1>4, <1>5, <1>6 DEF Next, Create

-----------------------------------------------------------------------------
(* What a run knows of its log.                                            *)

\* A step that leaves a run alone keeps what the run knows.
LEMMA OtherRun ==
  ASSUME NEW q \in Runs, RunInv(q),
         step'[q] = step[q], log'[q] = log[q], runStatus'[q] = runStatus[q], finishing'[q] = finishing[q],
         q \in active' <=> q \in active, q \in unrecorded' <=> q \in unrecorded
  PROVE  RunInv(q)'
  BY DEF RunInv, Recorded, Started

LEMMA CreateRecording ==
  ASSUME TypeOK, Recording, NEW r \in Runs, Create(r)
  PROVE  Recording'
<1>1. RunInv(r)
  BY DEF Recording
<1>2. UNCHANGED <<log, runStatus, finishing, unrecorded>>
  BY DEF Create, BeginCreate, RejectCreate, StoreRun, OrphanRun, Activate, control, stored
<1>3. ASSUME NEW q \in Runs \ {r} PROVE RunInv(q)'
  <2>1. step'[q] = step[q] /\ (q \in active' <=> q \in active)
    BY DEF TypeOK, Create, BeginCreate, RejectCreate, StoreRun, OrphanRun, Activate, admission
  <2> QED BY <1>2, <2>1, OtherRun DEF Recording
<1>4. CASE Activate(r)
  <2>1. step[r] = "stored" /\ step'[r] = "starting" /\ r \in active'
    BY <1>4 DEF Activate, TypeOK
  <2> QED
    BY <1>1, <1>2, <1>3, <2>1 DEF RunInv, Recorded, Started, Executing, Terminals, Recording
<1>5. CASE ~Activate(r)
  <2>1. step[r] \in {"unused", "resolving", "stored"} /\ step'[r] \in {"unused", "resolving", "stored", "orphan"}
    BY <1>5 DEF TypeOK, Create, BeginCreate, RejectCreate, StoreRun, OrphanRun
  <2>2. active' = active
    BY <1>5 DEF Create, BeginCreate, RejectCreate, StoreRun, OrphanRun, admission
  <2> QED
    BY <1>1, <1>2, <1>3, <2>1, <2>2 DEF RunInv, Recorded, Started, Executing, Terminals, Recording
<1> QED BY <1>4, <1>5

\* The steps of #execute change what belongs to their run, and nothing else.
LEMMA ExecuteOthers ==
  ASSUME TypeOK, Recording, NEW r \in Runs, Execute(r), NEW q \in Runs \ {r}
  PROVE  RunInv(q)'
<1>1. step'[q] = step[q]
  BY ExecuteStepsOn, ExecuteFrame
<1>2. q \in active' <=> q \in active
  BY ExecuteAdmission DEF Release
<1>3. ASSUME StartRun(r) \/ StartFails(r) \/ Emit(r) \/ StreamFails(r)
      PROVE  log'[q] = log[q] /\ runStatus'[q] = runStatus[q] /\ finishing'[q] = finishing[q] /\ unrecorded' = unrecorded
  BY <1>3 DEF TypeOK, StartRun, StartFails, Emit, StreamFails, control, stored
<1>4. ASSUME NEW t \in Terminals, EmitTerminal(r, t)
      PROVE  log'[q] = log[q] /\ runStatus'[q] = runStatus[q] /\ finishing'[q] = finishing[q] /\ unrecorded' = unrecorded
  BY <1>4 DEF TypeOK, EmitTerminal
<1>5. ASSUME Proceed(r)
      PROVE  log'[q] = log[q] /\ runStatus'[q] = runStatus[q] /\ finishing'[q] = finishing[q] /\ unrecorded' = unrecorded
  <2>1. CASE UpdateRun(r) \/ FinishWithFailure(r) \/ EndStream(r) \/ Dispose(r)
    BY <2>1 DEF TypeOK, UpdateRun, FinishWithFailure, EndStream, Dispose, control, stored
  <2>2. CASE UpdateSession(r)
    BY <2>2 DEF UpdateSession, control
  <2> QED BY <1>5, <2>1, <2>2 DEF Proceed
<1>6. ASSUME UpdateFails(r) \/ FinishFails(r) \/ EndStreamFails(r)
      PROVE  /\ log'[q] = log[q] /\ runStatus'[q] = runStatus[q] /\ finishing'[q] = finishing[q]
             /\ q \in unrecorded' <=> q \in unrecorded
  <2>1. CASE UpdateFails(r)
    BY <2>1 DEF TypeOK, UpdateFails, stored
  <2>2. CASE FinishFails(r) \/ EndStreamFails(r)
    BY <2>2 DEF TypeOK, FinishFails, EndStreamFails, control, stored
  <2> QED BY <1>6, <2>1, <2>2
<1> QED
  BY <1>1, <1>2, <1>3, <1>4, <1>5, <1>6, OtherRun DEF Recording, Execute, StreamSteps

LEMMA ExecuteRecording ==
  ASSUME TypeOK, Recording, NEW r \in Runs, Execute(r)
  PROVE  Recording'
<1> SUFFICES RunInv(r)'
  BY ExecuteOthers DEF Recording
<1>1. RunInv(r) /\ r \in Runs
  BY DEF Recording
<1> USE <1>1 DEF TypeOK, RunInv, Recorded, Started, Executing
<1>2. CASE StartRun(r) \/ StartFails(r)
  BY <1>2 DEF StartRun, StartFails, admission, stored
<1>3. CASE Emit(r)
  BY <1>3 DEF Emit, admission, control, Terminals
<1>4. ASSUME NEW t \in Terminals, EmitTerminal(r, t) PROVE RunInv(r)'
  BY <1>4 DEF EmitTerminal, admission, Terminals
<1>5. CASE StreamFails(r)
  BY <1>5 DEF StreamFails, admission, stored
<1>6. CASE UpdateRun(r)
  BY <1>6 DEF UpdateRun, admission, control, StatusOf, Terminals
<1>7. CASE UpdateSession(r)
  <2>1. step[r] = "runUpdated" /\ UNCHANGED <<log, runStatus, finishing, unrecorded>>
    BY <1>7 DEF UpdateSession, control
  <2>2. CASE log[r] \in Terminals /\ ~finishing[r]
    <3>1. step'[r] = "draining" /\ active' = active \ {r}
      BY <1>7, <2>2 DEF UpdateSession, Release
    <3> QED BY <2>1, <2>2, <3>1 DEF StatusOf
  <2>3. CASE log[r] \in Terminals /\ finishing[r]
    <3>1. step'[r] = "disposing" /\ active' = active
      BY <1>7, <2>3 DEF UpdateSession, admission
    <3> QED BY <2>1, <2>3, <3>1 DEF StatusOf
  <2>4. CASE log[r] \notin Terminals
    <3>1. step'[r] = (IF finishing[r] THEN "failing" ELSE "streaming") /\ active' = active
      BY <1>7, <2>4 DEF UpdateSession, admission
    <3> QED BY <2>1, <2>4, <3>1 DEF StatusOf
  <2> QED BY <2>2, <2>3, <2>4
<1>8. CASE FinishWithFailure(r)
  BY <1>8 DEF FinishWithFailure, FailureEvent, admission, control, Terminals
<1>9. CASE EndStream(r) \/ EndStreamFails(r)
  BY <1>9 DEF EndStream, EndStreamFails, admission, control, stored
<1>10. CASE Dispose(r)
  BY <1>10 DEF Dispose, Release, stored
<1>11. CASE UpdateFails(r)
  <2>1. CASE finishing[r]
    BY <1>11, <2>1 DEF UpdateFails, admission, stored
  <2>2. CASE ~finishing[r]
    BY <1>11, <2>2 DEF UpdateFails, admission, stored
  <2> QED BY <2>1, <2>2
<1>12. CASE FinishFails(r)
  BY <1>12 DEF FinishFails, admission, control, stored
<1> QED
  BY <1>2, <1>3, <1>4, <1>5, <1>6, <1>7, <1>8, <1>9, <1>10, <1>11, <1>12 DEF Execute, StreamSteps, Proceed

LEMMA NextRecording ==
  ASSUME TypeOK, Recording, [Next]_vars
  PROVE  Recording'
<1>1. ASSUME NEW r \in Runs, Create(r) PROVE Recording'
  BY <1>1, CreateRecording
<1>2. ASSUME NEW r \in Runs, Execute(r) PROVE Recording'
  BY <1>2, ExecuteRecording
<1>3. ASSUME (\E r \in Runs : CancelRun(r)) \/ Shutdown \/ GraceExpires \/ UNCHANGED vars PROVE Recording'
  <2>1. UNCHANGED <<step, log, runStatus, finishing, active, unrecorded>>
    BY <1>3 DEF CancelRun, Shutdown, GraceExpires, vars, admission, control, stored
  <2> QED BY <2>1, OtherRun DEF Recording
<1> QED BY <1>1, <1>2, <1>3 DEF Next

-----------------------------------------------------------------------------
(* What session.json says.                                                 *)

LEMMA KeptSession ==
  ASSUME TypeOK, SessionInv, DisposingInv,
         UNCHANGED <<sessionStatus, lastRun, activeOf, active>>,
         unrecorded \subseteq unrecorded',
         \A q \in active : /\ sessionOf'[q] = sessionOf[q]
                           /\ step'[q] = "disposing" => step[q] = "disposing" \/ q \in unrecorded'
  PROVE  SessionInv' /\ DisposingInv'
<1>1. SessionInv'
  BY DEF SessionInv
<1>2. DisposingInv'
  BY DEF TypeOK, DisposingInv
<1> QED BY <1>1, <1>2

LEMMA ActivateSession ==
  ASSUME TypeOK, Admission, Recording, SessionInv, DisposingInv, NEW r \in Runs, Activate(r)
  PROVE  SessionInv' /\ DisposingInv'
<1>1. /\ step'[r] = "starting" /\ \A q \in Runs \ {r} : step'[q] = step[q]
      /\ sessionOf[r] \in Sessions /\ activeOf[sessionOf[r]] = NoRun
      /\ UNCHANGED <<sessionOf, unrecorded>> /\ active' = active \cup {r}
  BY DEF TypeOK, Activate, Admission, Requested, StillAdmissible, Creating, request
<1>2. \A s \in Sessions \ {sessionOf[r]} :
        sessionStatus'[s] = sessionStatus[s] /\ lastRun'[s] = lastRun[s] /\ activeOf'[s] = activeOf[s]
  BY DEF TypeOK, Activate
<1>3. lastRun'[sessionOf[r]] = r /\ activeOf'[sessionOf[r]] = r
  BY <1>1 DEF TypeOK, Activate
<1>4. SessionInv'
  BY <1>1, <1>2, <1>3, NoRunAssumption DEF SessionInv
<1>5. ASSUME NEW q \in Runs, step'[q] = "disposing", q \in active'
      PROVE  q \in unrecorded \/ sessionStatus'[sessionOf[q]] # "running"
  <2>1. q # r /\ step[q] = "disposing" /\ q \in active
    BY <1>1, <1>5
  <2>2. sessionOf[q] \in Sessions /\ activeOf[sessionOf[q]] = q
    BY <2>1 DEF Admission, Requested, OneRunPerSession
  <2>3. sessionOf[q] # sessionOf[r]
    BY <1>1, <2>2, NoRunAssumption
  <2> QED BY <1>2, <2>1, <2>2, <2>3 DEF DisposingInv
<1> QED BY <1>1, <1>4, <1>5 DEF DisposingInv

LEMMA UpdateSessionSession ==
  ASSUME TypeOK, Admission, Recording, SessionInv, DisposingInv, NEW r \in Runs, UpdateSession(r)
  PROVE  SessionInv' /\ DisposingInv'
<1>1. /\ step[r] = "runUpdated" /\ \A q \in Runs \ {r} : step'[q] = step[q]
      /\ UNCHANGED <<sessionOf, unrecorded, log>>
      /\ RunInv(r)
  BY DEF TypeOK, UpdateSession, request, Recording
<1>2. sessionOf[r] \in Sessions
  BY <1>1 DEF Admission, Requested
<1>3. /\ \A s \in Sessions \ {sessionOf[r]} : sessionStatus'[s] = sessionStatus[s] /\ lastRun'[s] = lastRun[s]
      /\ lastRun'[sessionOf[r]] = r
      /\ sessionStatus'[sessionOf[r]] = SessionStatusOf(log[r])
  BY <1>2 DEF TypeOK, UpdateSession
<1>4. CASE log[r] \in Terminals
  <2>1. sessionStatus'[sessionOf[r]] # "running"
    BY <1>3, <1>4 DEF SessionStatusOf
  <2>2. active' \subseteq active
    BY <1>4 DEF UpdateSession, Release, admission
  <2>3. \A s \in Sessions \ {sessionOf[r]} : activeOf'[s] = activeOf[s]
    <3>1. CASE finishing[r]
      BY <1>4, <3>1 DEF UpdateSession, admission
    <3>2. CASE ~finishing[r]
      <4>1. activeOf' = [s \in Sessions |-> IF activeOf[s] = r THEN NoRun ELSE activeOf[s]]
        BY <1>4, <3>2 DEF UpdateSession, Release, ReleasedSession
      <4>2. \A s \in Sessions : activeOf[s] = r => s = sessionOf[r]
        BY NoRunAssumption DEF Admission, OneRunPerSession
      <4> QED BY <4>1, <4>2
    <3> QED BY <3>1, <3>2
  <2>4. SessionInv'
    BY <1>1, <1>3, <2>1, <2>3 DEF SessionInv
  <2>5. ASSUME NEW q \in Runs, step'[q] = "disposing", q \in active'
        PROVE  q \in unrecorded \/ sessionStatus'[sessionOf[q]] # "running"
    <3>1. CASE sessionOf[q] = sessionOf[r]
      BY <2>1, <3>1
    <3>2. CASE sessionOf[q] # sessionOf[r]
      <4>1. q # r /\ step[q] = "disposing" /\ q \in active /\ sessionOf[q] \in Sessions
        BY <1>1, <2>2, <2>5, <3>2 DEF Admission, Requested
      <4> QED BY <1>3, <3>2, <4>1 DEF DisposingInv
    <3> QED BY <3>1, <3>2
  <2> QED BY <1>1, <2>4, <2>5 DEF DisposingInv
<1>5. CASE log[r] \notin Terminals
  <2>1. UNCHANGED <<active, activeOf>>
    BY <1>5 DEF UpdateSession, admission
  <2>2. r \in active
    BY <1>1, <1>5 DEF RunInv, Recorded, Started, Executing
  <2>3. activeOf[sessionOf[r]] = r
    BY <2>2 DEF Admission, OneRunPerSession
  <2>4. SessionInv'
    BY <1>1, <1>2, <1>3, <2>1, <2>3, NoRunAssumption DEF SessionInv
  <2>5. step'[r] # "disposing"
    BY <1>5 DEF TypeOK, UpdateSession
  <2>6. ASSUME NEW q \in Runs, step'[q] = "disposing", q \in active'
        PROVE  q \in unrecorded \/ sessionStatus'[sessionOf[q]] # "running"
    <3>1. q # r /\ step[q] = "disposing" /\ q \in active
      BY <1>1, <2>1, <2>5, <2>6
    <3>2. sessionOf[q] \in Sessions /\ activeOf[sessionOf[q]] = q
      BY <3>1 DEF Admission, Requested, OneRunPerSession
    <3> QED BY <1>3, <2>3, <3>1, <3>2 DEF DisposingInv
  <2> QED BY <1>1, <2>4, <2>6 DEF DisposingInv
<1> QED BY <1>4, <1>5

LEMMA DisposeSession ==
  ASSUME TypeOK, Admission, Recording, SessionInv, DisposingInv, NEW r \in Runs, Dispose(r)
  PROVE  SessionInv' /\ DisposingInv'
<1>1. /\ step[r] = "disposing" /\ \A q \in Runs \ {r} : step'[q] = step[q]
      /\ step'[r] = "gone"
      /\ UNCHANGED <<sessionOf, sessionStatus, lastRun, unrecorded>>
      /\ active' = active \ {r}
      /\ activeOf' = [s \in Sessions |-> IF activeOf[s] = r THEN NoRun ELSE activeOf[s]]
  BY DEF TypeOK, Dispose, Release, ReleasedSession, request, stored
<1>2. ASSUME NEW s \in Sessions, activeOf[s] = r, sessionStatus[s] = "running" PROVE lastRun[s] \in unrecorded
  <2>1. r \in active /\ sessionOf[r] = s
    BY <1>2, NoRunAssumption DEF Admission, OneRunPerSession
  <2>2. lastRun[s] = r
    BY <1>2, NoRunAssumption DEF SessionInv
  <2> QED BY <1>1, <1>2, <2>1, <2>2 DEF DisposingInv
<1>3. SessionInv'
  BY <1>1, <1>2 DEF SessionInv
<1>4. DisposingInv'
  BY <1>1 DEF DisposingInv
<1> QED BY <1>3, <1>4

LEMMA NextSession ==
  ASSUME TypeOK, Admission, Recording, SessionInv, DisposingInv, [Next]_vars
  PROVE  SessionInv' /\ DisposingInv'
<1>1. ASSUME NEW r \in Runs, NEW s \in Sessions, NEW k \in Keys \cup {NoKey}, BeginCreate(r, s, k)
      PROVE  SessionInv' /\ DisposingInv'
  <2>1. r \notin active
    BY <1>1 DEF BeginCreate, Recording, RunInv, Executing
  <2> QED BY <1>1, <2>1, KeptSession DEF TypeOK, BeginCreate, admission, stored
<1>2. ASSUME NEW r \in Runs, RejectCreate(r) \/ StoreRun(r) \/ OrphanRun(r)
      PROVE  SessionInv' /\ DisposingInv'
  <2>1. r \notin active
    BY <1>2 DEF RejectCreate, StoreRun, OrphanRun, Recording, RunInv, Executing
  <2>2. \A q \in active : step'[q] = step[q] /\ sessionOf'[q] = sessionOf[q]
    BY <1>2, <2>1 DEF TypeOK, RejectCreate, StoreRun, OrphanRun, request
  <2>3. UNCHANGED <<sessionStatus, lastRun, activeOf, active, unrecorded>>
    BY <1>2 DEF RejectCreate, StoreRun, OrphanRun, admission, stored
  <2> QED BY <2>2, <2>3, KeptSession
<1>3. ASSUME NEW r \in Runs, Activate(r) PROVE SessionInv' /\ DisposingInv'
  BY <1>3, ActivateSession
<1>4. ASSUME NEW r \in Runs, UpdateSession(r) PROVE SessionInv' /\ DisposingInv'
  BY <1>4, UpdateSessionSession
<1>5. ASSUME NEW r \in Runs, Dispose(r) PROVE SessionInv' /\ DisposingInv'
  BY <1>5, DisposeSession
<1>6. ASSUME NEW r \in Runs,
             \/ StartRun(r) \/ StartFails(r) \/ StreamSteps(r) \/ UpdateRun(r) \/ FinishWithFailure(r)
             \/ EndStreamFails(r)
      PROVE  SessionInv' /\ DisposingInv'
  <2>1. \A q \in Runs : step'[q] = "disposing" => step[q] = "disposing"
    BY <1>6 DEF TypeOK, StartRun, StartFails, StreamSteps, Emit, EmitTerminal, StreamFails, UpdateRun,
                FinishWithFailure, EndStreamFails
  <2>2. UNCHANGED <<sessionStatus, lastRun, activeOf, active, unrecorded, sessionOf>>
    BY <1>6 DEF StartRun, StartFails, StreamSteps, Emit, EmitTerminal, StreamFails, UpdateRun,
                FinishWithFailure, EndStreamFails, admission, request, stored
  <2> QED BY <2>1, <2>2, KeptSession DEF TypeOK
<1>7. ASSUME NEW r \in Runs, EndStream(r) PROVE SessionInv' /\ DisposingInv'
  <2>1. r \notin active
    BY <1>7 DEF EndStream, Recording, RunInv
  <2> QED BY <1>7, <2>1, KeptSession DEF TypeOK, EndStream, admission, request, stored
<1>8. ASSUME NEW r \in Runs, UpdateFails(r) \/ FinishFails(r) PROVE SessionInv' /\ DisposingInv'
  <2>1. \A q \in Runs : step'[q] = "disposing" => step[q] = "disposing" \/ q \in unrecorded'
    BY <1>8 DEF TypeOK, UpdateFails, FinishFails
  <2>2. UNCHANGED <<sessionStatus, lastRun, activeOf, active, sessionOf>> /\ unrecorded \subseteq unrecorded'
    BY <1>8 DEF UpdateFails, FinishFails, admission, request, stored
  <2> QED BY <2>1, <2>2, KeptSession DEF TypeOK
<1>9. ASSUME (\E r \in Runs : CancelRun(r)) \/ Shutdown \/ GraceExpires \/ UNCHANGED vars
      PROVE  SessionInv' /\ DisposingInv'
  <2>1. UNCHANGED <<sessionStatus, lastRun, activeOf, active, unrecorded, sessionOf, step>>
    BY <1>9 DEF CancelRun, Shutdown, GraceExpires, vars, admission, request, stored
  <2> QED BY <2>1, KeptSession
<1> QED BY <1>1, <1>2, <1>3, <1>4, <1>5, <1>6, <1>7, <1>8, <1>9 DEF Next, Create, Execute, Proceed

-----------------------------------------------------------------------------
(* The inductive invariant and the theorems.                               *)

LEMMA InitIInv == Init => IInv
<1> SUFFICES ASSUME Init PROVE IInv
  OBVIOUS
<1>1. TypeOK
  BY InitTypeOK
<1>2. Admission
  <2>1. IsFiniteSet(active) /\ Cardinality(active) = 0
    BY FS_EmptySet DEF Init
  <2>2. \A r \in Runs : step[r] = "unused"
    BY DEF Init
  <2>3. OneCreating /\ StillAdmissible /\ Requested /\ StartsOncePerKey
    BY <2>2 DEF OneCreating, StillAdmissible, Requested, StartsOncePerKey, Creating, Started, Executing
  <2>4. ConcurrencyBound
    BY <2>1, ConcurrencyAssumption DEF ConcurrencyBound
  <2>5. OneRunPerSession
    BY DEF Init, OneRunPerSession
  <2> QED BY <2>1, <2>3, <2>4, <2>5 DEF Admission
<1>3. Recording
  BY DEF Init, Recording, RunInv, Recorded, Started, Executing, Terminals
<1>4. SessionInv /\ DisposingInv
  BY DEF Init, SessionInv, DisposingInv
<1> QED BY <1>1, <1>2, <1>3, <1>4 DEF IInv

LEMMA NextIInv == IInv /\ [Next]_vars => IInv'
<1> SUFFICES ASSUME IInv, [Next]_vars PROVE IInv'
  OBVIOUS
<1>1. TypeOK'
  BY NextTypeOK DEF IInv
<1>2. Admission'
  <2>1. ActiveStarted
    BY DEF IInv, TypeOK, Recording, RunInv, ActiveStarted, Started
  <2> QED BY <1>1, <2>1, NextAdmission DEF IInv
<1>3. Recording'
  BY NextRecording DEF IInv
<1>4. SessionInv' /\ DisposingInv'
  BY NextSession DEF IInv
<1> QED BY <1>1, <1>2, <1>3, <1>4 DEF IInv

\* The inductive invariant holds in every reachable state.
THEOREM InvariantThm == Spec => []IInv
<1> QED BY InitIInv, NextIInv, PTL DEF Spec

\* Every variable keeps its type, whatever the adapters and the store do.
THEOREM TypeThm == Spec => []TypeOK
<1>1. IInv => TypeOK
  BY DEF IInv
<1> QED BY InvariantThm, <1>1, PTL

\* The run limit holds for any limit, any number of sessions and any interleaving
\* of createRun with the runs that end.
THEOREM ConcurrencyThm == Spec => []ConcurrencyBound
<1>1. IInv => ConcurrencyBound
  BY DEF IInv, Admission
<1> QED BY InvariantThm, <1>1, PTL

\* A session has one active run at most, and #activeSessionRuns names it.
THEOREM SessionThm == Spec => []OneRunPerSession
<1>1. IInv => OneRunPerSession
  BY DEF IInv, Admission
<1> QED BY InvariantThm, <1>1, PTL

\* Requests with the same idempotency key start the adapter once.
THEOREM KeyThm == Spec => []StartsOncePerKey
<1>1. IInv => StartsOncePerKey
  BY DEF IInv, Admission
<1> QED BY InvariantThm, <1>1, PTL

\* Released runs are recorded, for any number of failing writes.
THEOREM RecordedThm == Spec => []ReleasedIsRecorded
<1>1. IInv => ReleasedIsRecorded
  BY DEF IInv, Recording, RunInv, Recorded, ReleasedIsRecorded
<1> QED BY InvariantThm, <1>1, PTL

\* A session without an active run is not left running unless its end was lost.
THEOREM NotStuckThm == Spec => []SessionNotStuck
<1>1. IInv => SessionNotStuck
  BY DEF IInv, SessionInv, SessionNotStuck
<1> QED BY InvariantThm, <1>1, PTL

\* Terminal events and terminal statuses are final.
THEOREM FinalThm == Spec => TerminalIsFinal
<1> DEFINE Final(r) == /\ log[r] \in Terminals => log'[r] = log[r]
                       /\ runStatus[r] \in Terminals => runStatus'[r] = runStatus[r]
<1>1. ASSUME IInv, [Next]_vars, NEW r \in Runs PROVE Final(r)
  <2>1. RunInv(r) /\ log \in [Runs -> Logs] /\ runStatus \in [Runs -> Statuses]
    BY <1>1 DEF IInv, Recording, TypeOK
  <2>2. CASE UNCHANGED <<log, runStatus>>
    BY <2>2
  <2>3. ASSUME NEW q \in Runs, Emit(q) \/ (\E t \in Terminals : EmitTerminal(q, t)) PROVE Final(r)
    <3>1. log[q] \notin Terminals
      BY <1>1, <2>3 DEF IInv, Recording, RunInv, Emit, EmitTerminal
    <3> QED BY <2>1, <2>3, <3>1 DEF Emit, EmitTerminal
  <2>4. ASSUME NEW q \in Runs, UpdateRun(q) PROVE Final(r)
    BY <2>1, <2>4 DEF UpdateRun, RunInv, StatusOf
  <2>5. ASSUME NEW q \in Runs, FinishWithFailure(q) PROVE Final(r)
    BY <2>1, <2>5 DEF FinishWithFailure, FailureEvent
  <2>6. \/ UNCHANGED <<log, runStatus>>
        \/ \E q \in Runs : \/ Emit(q) \/ (\E t \in Terminals : EmitTerminal(q, t))
                           \/ UpdateRun(q) \/ FinishWithFailure(q)
    <3>1. ASSUME NEW q \in Runs, Create(q) PROVE UNCHANGED <<log, runStatus>>
      BY <3>1 DEF Create, BeginCreate, RejectCreate, StoreRun, OrphanRun, Activate, stored
    <3>2. ASSUME NEW q \in Runs,
                 StartRun(q) \/ StartFails(q) \/ StreamFails(q) \/ EndStream(q) \/ Dispose(q) \/ UpdateSession(q)
          PROVE  UNCHANGED <<log, runStatus>>
      BY <3>2 DEF StartRun, StartFails, StreamFails, EndStream, Dispose, UpdateSession, stored
    <3>3. ASSUME NEW q \in Runs, UpdateFails(q) \/ FinishFails(q) \/ EndStreamFails(q)
          PROVE  UNCHANGED <<log, runStatus>>
      BY <3>3 DEF UpdateFails, FinishFails, EndStreamFails, stored
    <3>4. ASSUME (\E q \in Runs : CancelRun(q)) \/ Shutdown \/ GraceExpires \/ UNCHANGED vars
          PROVE  UNCHANGED <<log, runStatus>>
      BY <3>4 DEF CancelRun, Shutdown, GraceExpires, vars, stored
    <3> QED BY <1>1, <3>1, <3>2, <3>3, <3>4 DEF Next, Execute, StreamSteps, Proceed
  <2> QED BY <2>2, <2>3, <2>4, <2>5, <2>6
<1>2. IInv /\ [Next]_vars => [\A r \in Runs :
         /\ log[r] \in Terminals => log'[r] = log[r]
         /\ runStatus[r] \in Terminals => runStatus'[r] = runStatus[r]]_vars
  BY <1>1
<1> QED BY InvariantThm, <1>2, PTL DEF Spec, TerminalIsFinal
=============================================================================
