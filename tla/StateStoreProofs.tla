-------------------------- MODULE StateStoreProofs --------------------------
(***************************************************************************)
(* The safety properties of StateStore for any number of runs, sessions,   *)
(* crashes and failing file operations, and the refinement of DurableLog.  *)
(***************************************************************************)
EXTENDS StateStore, TLAPS

Final(r) == runStatus[r] \notin {"queued", "running"}

\* The end of the log that the status in run.json stands for.
EndOf(status) == IF status = "interrupted" THEN "failed" ELSE status

\* What recovery knows of a run between two of its steps.
RecoveryInv(r) ==
  /\ step[r] \in {"found", "closed", "recovered"} => Ended(log[r])
  /\ step[r] = "closed" => Last(log[r]) = "failed"
  /\ step[r] = "closing" => pending[r] \in {"started", "failed"}
  /\ step[r] \in {"found", "closing", "closed"} => ~Final(r)
  /\ step[r] = "recovered" => Final(r)

\* What the execution of a run knows of its log and its run.json.
ExecutionInv(r) ==
  /\ step[r] \in {"appended", "updated"} => log[r] # <<>>
  /\ step[r] = "updated" /\ Ended(log[r]) => Final(r)
  /\ step[r] \in Creating \cup Executing => runStatus[r] # "interrupted"
  /\ runPlace[r] = "none" => runStatus[r] = "queued"

\* Which steps a process takes, and which unfinished runs are left to whom.
ProcessInv(r) ==
  /\ step[r] \in Creating \cup Executing => process = "up"
  /\ step[r] \in Recovering => process = "recovering"
  /\ process = "recovering" /\ Unfinished(r) /\ step[r] = "idle" => r \in toRecover
  /\ process = "up" /\ Unfinished(r) /\ step[r] = "idle" => r \in lost

\* A run that the process has loaded or written has a run.json.
PlaceInv(r) ==
  r \in known \/ step[r] \in Recovering \cup Executing \cup {"written", "registered"} =>
    runPlace[r] = "stored"

LogInv(r) ==
  /\ Readable(log[r])
  /\ Final(r) => Ended(log[r]) /\ Last(log[r]) = EndOf(runStatus[r])

RunInv(r) == LogInv(r) /\ RecoveryInv(r) /\ ExecutionInv(r) /\ PlaceInv(r) /\ ProcessInv(r)

IInv == TypeOK /\ \A r \in Runs : RunInv(r)
-----------------------------------------------------------------------------
(* Logs.                                                                   *)

Lines == Seq(Kinds \cup {"garbage"})

\* A readable log takes another event that is not out of place.
LEMMA AppendReadable ==
  ASSUME NEW events \in Lines, Readable(events), ~Ended(events),
         NEW kind \in Kinds, kind = "started" <=> events = <<>>,
         NEW grown, grown = Append(events, kind)
  PROVE  /\ grown \in Lines /\ grown # <<>> /\ Len(grown) = Len(events) + 1
         /\ Last(grown) = kind /\ Readable(grown)
<1>1. /\ grown \in Lines /\ Len(events) \in Nat /\ Len(grown) = Len(events) + 1
      /\ grown[Len(events) + 1] = kind
      /\ \A i \in 1 .. Len(events) : grown[i] = events[i]
  BY DEF Lines
<1>2. grown # <<>> /\ Last(grown) = kind
  BY <1>1 DEF Last
<1>3. Readable(grown)
  <2> SUFFICES ASSUME NEW i \in 1 .. Len(grown)
               PROVE  /\ grown[i] \in Kinds
                      /\ i = 1 <=> grown[i] = "started"
                      /\ grown[i] \in Terminals => i = Len(grown)
    BY DEF Readable
  <2>1. CASE i = Len(grown)
    <3>1. grown[i] = kind
      BY <1>1, <2>1
    <3>2. i = 1 <=> events = <<>>
      BY <1>1, <2>1 DEF Lines
    <3> QED
      BY <2>1, <3>1, <3>2
  <2>2. CASE i # Len(grown)
    <3>1. i \in 1 .. Len(events) /\ grown[i] = events[i]
      BY <1>1, <2>2
    <3>2. /\ events[i] \in Kinds
          /\ i = 1 <=> events[i] = "started"
          /\ events[i] \in Terminals => i = Len(events)
      BY <3>1 DEF Readable
    <3>3. events[i] \notin Terminals
      <4> SUFFICES ASSUME events[i] \in Terminals PROVE FALSE
        OBVIOUS
      <4>1. i = Len(events) /\ events # <<>>
        BY <3>1, <3>2
      <4> QED
        BY <4>1 DEF Ended, Last
    <3> QED
      BY <3>1, <3>2, <3>3
  <2> QED
    BY <2>1, <2>2
<1> QED
  BY <1>1, <1>2, <1>3

\* A readable log consists of kinds of events.
LEMMA ReadableKinds ==
  ASSUME NEW events \in Lines, Readable(events)
  PROVE  events \in Seq(Kinds)
  BY DEF Lines, Readable

\* What an append does to the log of a run that can be appended to.
LEMMA AppendToLog ==
  ASSUME TypeOK, NEW r \in Runs, RunInv(r), Appendable(r)
  PROVE  /\ Written(r) \in Lines /\ Written(r) = Append(log[r], pending[r])
         /\ Written(r) # <<>> /\ Last(Written(r)) = pending[r]
         /\ Readable(Written(r)) /\ ~Final(r)
<1>1. /\ log[r] \in Lines /\ pending[r] \in Kinds /\ Readable(log[r]) /\ ~Ended(log[r])
      /\ pending[r] = "started" <=> log[r] = <<>>
  BY DEF TypeOK, Lines, Appendable
<1>2. Written(r) = Append(log[r], pending[r])
  BY DEF Written, Appendable
<1>3. ~Final(r)
  BY <1>1 DEF RunInv, LogInv
<1> QED
  BY <1>1, <1>2, <1>3, AppendReadable
-----------------------------------------------------------------------------
(* Type correctness.                                                       *)

LEMMA InitTypeOK == Init => TypeOK
<1> SUFFICES ASSUME Init PROVE TypeOK
  OBVIOUS
<1>1. <<>> \in Lines
  BY DEF Lines
<1>2. log \in [Runs -> Lines]
  BY <1>1 DEF Init
<1>3. tail \in [Runs -> BOOLEAN] /\ finishing \in [Runs -> BOOLEAN]
  BY Zenon DEF Init
<1> QED
  BY <1>2, <1>3 DEF Init, TypeOK, Lines, Places, SessionStatuses, Statuses, Processes, Steps, Kinds

\* A repair leaves a log.
LEMMA RepairType ==
  ASSUME TypeOK, NEW r \in Runs, Repair(r)
  PROVE  log' = log /\ tail' \in [Runs -> BOOLEAN] /\ tail'[r] = FALSE
<1>1. tail' \in [Runs -> BOOLEAN]
  BY Zenon DEF TypeOK, Repair
<1>2. log' = log
  <2>1. log' = [log EXCEPT ![r] = log[r]]
    BY DEF TypeOK, Repair, Kept
  <2> QED
    BY <2>1 DEF TypeOK
<1> QED
  BY <1>1, <1>2 DEF TypeOK, Repair

LEMMA InitializeTypeOK == IInv /\ Initialize => TypeOK'
<1> SUFFICES ASSUME IInv, Initialize PROVE TypeOK'
  OBVIOUS
<1>a. TypeOK
  BY DEF IInv
<1> USE <1>a DEF TypeOK, disk, keys, work, budget
<1>1. CASE Start
  BY <1>1 DEF Start, Processes
<1>2. CASE BeginRecovery
  BY <1>2 DEF BeginRecovery, Processes
<1>3. CASE FinishRecovery
  BY <1>3 DEF FinishRecovery, Processes
<1>4. ASSUME NEW s \in Sessions, LoadSession(s) PROVE TypeOK'
  BY <1>4 DEF LoadSession, Processes
<1>5. ASSUME NEW r \in Runs, LoadRun(r) PROVE TypeOK'
  <2>1. log' = log /\ tail' \in [Runs -> BOOLEAN]
    BY <1>5, RepairType DEF LoadRun
  <2> QED
    BY <1>5, <2>1 DEF LoadRun, Processes
<1>6. ASSUME NEW r \in Runs, RecoverRun(r) PROVE TypeOK'
  BY <1>6 DEF RecoverRun, Steps, Recovering, Kinds, Terminals
<1>7. ASSUME NEW r \in Runs, CloseRun(r) PROVE TypeOK'
  <2>1. Written(r) \in Lines /\ Len(log[r]) + 1 \in Nat
    BY DEF Written, Lines
  <2>2. log' \in [Runs -> Lines] /\ acked' \in [Runs -> Nat]
    BY <1>7, <2>1 DEF CloseRun, Acknowledge, Lines
  <2>3. tail' \in [Runs -> BOOLEAN]
    BY <1>7, Zenon DEF CloseRun, Acknowledge
  <2>4. step' \in [Runs -> Steps] /\ pending' \in [Runs -> Kinds]
    BY <1>7 DEF CloseRun, Steps, Recovering, Kinds, Terminals
  <2> QED
    BY <1>7, <2>2, <2>3, <2>4 DEF CloseRun, Lines
<1>8. ASSUME NEW r \in Runs, RecoverStatus(r) PROVE TypeOK'
  <2>1. RecoveredStatus(r) \in Statuses
    <3>1. step[r] = "found" => Last(log[r]) \in Terminals
      BY DEF IInv, RunInv, RecoveryInv, Ended
    <3> QED
      BY <1>8, <3>1 DEF RecoverStatus, RecoveredStatus, Statuses
  <2> QED
    BY <1>8, <2>1 DEF RecoverStatus, Steps, Recovering
<1>9. ASSUME NEW r \in Runs, RecoverSession(r) PROVE TypeOK'
  <2>1. SessionStatusOf(Last(log[r])) \in SessionStatuses
    BY DEF SessionStatusOf, SessionStatuses
  <2> QED
    BY <1>9, <2>1 DEF RecoverSession, RecordInSession, Steps
<1> QED
  BY <1>1, <1>2, <1>3, <1>4, <1>5, <1>6, <1>7, <1>8, <1>9 DEF Initialize

LEMMA FaultType ==
  ASSUME TypeOK, Fault \/ UNCHANGED budget
  PROVE  crashes' \in Nat /\ faults' \in Nat
  BY DEF TypeOK, Fault, budget

LEMMA CreateTypeOK == TypeOK /\ Create => TypeOK'
<1> SUFFICES ASSUME TypeOK, Create PROVE TypeOK'
  OBVIOUS
<1> USE DEF TypeOK, disk, keys, work, budget
<1>1. ASSUME NEW s \in Sessions, MakeSessionDirectory(s) PROVE TypeOK'
  BY <1>1 DEF MakeSessionDirectory, Places
<1>2. ASSUME NEW s \in Sessions, WriteSession(s) PROVE TypeOK'
  <2>1. sessionPlace' \in [Sessions -> Places] /\ knownSessions' \subseteq Sessions
    BY <1>2 DEF WriteSession, Places
  <2>2. Fault \/ UNCHANGED budget
    BY <1>2 DEF WriteSession
  <2> QED
    BY <1>2, <2>1, <2>2, FaultType DEF WriteSession
<1>3. ASSUME NEW r \in Runs, MakeRunDirectory(r) PROVE TypeOK'
  BY <1>3 DEF MakeRunDirectory, Places, Steps, Creating
<1>4. ASSUME NEW r \in Runs, WriteRun(r) PROVE TypeOK'
  BY <1>4 DEF WriteRun, Places, Steps, Creating
<1>5. ASSUME NEW r \in Runs, RegisterRun(r) PROVE TypeOK'
  BY <1>5 DEF RegisterRun, Steps, Creating
<1>6. ASSUME NEW r \in Runs, MarkRunning(r) PROVE TypeOK'
  BY <1>6 DEF MarkRunning, SessionStatuses, Steps, Executing
<1>7. ASSUME NEW r \in Runs, CreateRunFails(r) PROVE TypeOK'
  BY <1>7 DEF CreateRunFails, Fault, GiveUp, Steps
<1> QED
  BY <1>1, <1>2, <1>3, <1>4, <1>5, <1>6, <1>7 DEF Create

LEMMA ThrowType ==
  ASSUME TypeOK, NEW r \in Runs, Throw(r)
  PROVE  step' \in [Runs -> Steps] /\ lost' \subseteq Runs
  BY DEF TypeOK, Throw, GiveUp, Steps, Executing

LEMMA ExecuteTypeOK == TypeOK /\ Execute => TypeOK'
<1> SUFFICES ASSUME TypeOK, NEW r \in Runs,
                    \/ BeginAppend(r) \/ StreamFails(r) \/ AppendEvent(r) \/ RefuseEvent(r)
                    \/ AppendFails(r) \/ UpdateRun(r) \/ UpdateSession(r) \/ UpdateFails(r)
                    \/ FinishWithFailure(r)
             PROVE  TypeOK'
  BY DEF Execute
<1> USE DEF TypeOK, disk, keys, budget
<1>w. Written(r) \in Lines /\ Len(log[r]) + 1 \in Nat
  BY DEF Written, Lines
<1>1. CASE BeginAppend(r)
  BY <1>1 DEF BeginAppend, Steps, Executing
<1>2. CASE StreamFails(r)
  BY <1>2 DEF StreamFails, Steps, Executing
<1>3. CASE AppendEvent(r)
  <2>1. log' \in [Runs -> Lines] /\ acked' \in [Runs -> Nat]
    BY <1>3, <1>w DEF AppendEvent, Acknowledge, Lines
  <2>2. tail' \in [Runs -> BOOLEAN]
    BY <1>3, Zenon DEF AppendEvent, Acknowledge
  <2> QED
    BY <1>3, <2>1, <2>2 DEF AppendEvent, Steps, Executing, Lines
<1>4. CASE RefuseEvent(r)
  BY <1>4, ThrowType DEF RefuseEvent
<1>5. CASE AppendFails(r)
  <2>1. log' \in [Runs -> Lines]
    BY <1>5, <1>w DEF AppendFails, Lines
  <2>2. tail' \in [Runs -> BOOLEAN]
    BY <1>5, Zenon DEF AppendFails
  <2>3. step' \in [Runs -> Steps] /\ lost' \subseteq Runs
    BY <1>5, ThrowType DEF AppendFails
  <2> QED
    BY <1>5, <2>1, <2>2, <2>3 DEF AppendFails, Fault, Lines
<1>6. CASE UpdateRun(r)
  <2>1. StatusOf(Last(log[r]), runStatus[r]) \in Statuses
    BY DEF StatusOf, Statuses
  <2> QED
    BY <1>6, <2>1 DEF UpdateRun, Steps, Executing
<1>7. CASE UpdateSession(r)
  <2>1. SessionStatusOf(Last(log[r])) \in SessionStatuses
    BY DEF SessionStatusOf, SessionStatuses
  <2>2. step' \in [Runs -> Steps] /\ pending' \in [Runs -> Kinds]
    BY <1>7 DEF UpdateSession, Steps, Executing, Kinds, Terminals
  <2> QED
    BY <1>7, <2>1, <2>2 DEF UpdateSession, RecordInSession
<1>8. CASE UpdateFails(r)
  BY <1>8, ThrowType DEF UpdateFails, Fault
<1>9. CASE FinishWithFailure(r)
  <2>1. finishing' \in [Runs -> BOOLEAN]
    BY <1>9, Zenon DEF FinishWithFailure
  <2>2. log' = log /\ tail' \in [Runs -> BOOLEAN]
    BY <1>9, RepairType DEF FinishWithFailure
  <2>3. step' \in [Runs -> Steps]
    BY <1>9 DEF FinishWithFailure, Steps, Executing
  <2>5. crashes' \in Nat /\ faults' \in Nat
    <3>1. Fault \/ UNCHANGED budget
      BY <1>9 DEF FinishWithFailure
    <3> QED
      BY <3>1, FaultType
  <2>4. pending' \in [Runs -> Kinds]
    <3>1. \/ pending' = [pending EXCEPT ![r] = IF Kept(r) = <<>> THEN "started" ELSE "failed"]
          \/ pending' = [pending EXCEPT ![r] = "started"]
          \/ pending' = pending
      BY <1>9 DEF FinishWithFailure
    <3>2. (IF Kept(r) = <<>> THEN "started" ELSE "failed") \in Kinds /\ "started" \in Kinds
      BY DEF Kinds, Terminals
    <3> QED
      BY <3>1, <3>2
  <2> QED
    BY <1>9, <2>1, <2>2, <2>3, <2>4, <2>5 DEF FinishWithFailure
<1> QED
  BY <1>1, <1>2, <1>3, <1>4, <1>5, <1>6, <1>7, <1>8, <1>9

LEMMA CrashTypeOK == TypeOK /\ Crash => TypeOK'
<1> SUFFICES ASSUME TypeOK, Crash PROVE TypeOK'
  OBVIOUS
<1>1. PICK whole \in SUBSET InFlight, part \in SUBSET InFlight :
        /\ log' = [r \in Runs |-> IF r \in whole THEN Written(r) ELSE log[r]]
        /\ tail' = [r \in Runs |-> tail[r] \/ r \in part]
  BY DEF Crash
<1>2. \A r \in Runs : Written(r) \in Lines
  BY DEF TypeOK, Written, Lines
<1>3. log' \in [Runs -> Lines]
  BY <1>1, <1>2 DEF TypeOK, Lines
<1>4. tail' \in [Runs -> BOOLEAN] /\ finishing' \in [Runs -> BOOLEAN]
  BY <1>1, Zenon DEF Crash
<1> QED
  BY <1>3, <1>4 DEF TypeOK, Crash, Lines, Processes, Steps, Kinds

LEMMA NextTypeOK == IInv /\ [Next]_vars => TypeOK'
<1>1. TypeOK /\ UNCHANGED vars => TypeOK'
  BY DEF TypeOK, vars, disk, keys, work, budget
<1> QED
  BY <1>1, InitializeTypeOK, CreateTypeOK, ExecuteTypeOK, CrashTypeOK DEF Next, IInv
-----------------------------------------------------------------------------
(* What a step does to the invariant of a run.                             *)

Facts(r) == LogInv(r) /\ RecoveryInv(r) /\ ExecutionInv(r) /\ PlaceInv(r)

\* A run whose files and whose step stay.
LEMMA KeptFacts ==
  ASSUME NEW q \in Runs, Facts(q),
         log'[q] = log[q], step'[q] = step[q], pending'[q] = pending[q],
         runStatus'[q] = runStatus[q], runPlace'[q] = runPlace[q],
         q \in known' => q \in known \/ runPlace[q] = "stored"
  PROVE  Facts(q)'
<1>1. LogInv(q)' /\ RecoveryInv(q)' /\ ExecutionInv(q)'
  BY DEF Facts, LogInv, RecoveryInv, ExecutionInv, Final
<1>2. PlaceInv(q)'
  BY DEF Facts, PlaceInv
<1> QED
  BY <1>1, <1>2 DEF Facts

\* A run of which the process knows as much as before.
LEMMA OtherRun ==
  ASSUME NEW q \in Runs, RunInv(q), process' = process,
         log'[q] = log[q], step'[q] = step[q], pending'[q] = pending[q],
         runStatus'[q] = runStatus[q], runPlace'[q] = runPlace[q],
         q \in known' => q \in known,
         q \in toRecover => q \in toRecover', q \in lost => q \in lost'
  PROVE  RunInv(q)'
<1>1. Facts(q)'
  BY KeptFacts DEF RunInv, Facts
<1>2. ProcessInv(q)'
  BY DEF RunInv, ProcessInv, Unfinished
<1> QED
  BY <1>1, <1>2 DEF RunInv, Facts

\* The steps of initialize that are about no run.
LEMMA PhaseInv ==
  ASSUME IInv, Start \/ BeginRecovery \/ FinishRecovery \/ (\E s \in Sessions : LoadSession(s)),
         NEW q \in Runs
  PROVE  RunInv(q)'
<1>1. RunInv(q)
  BY DEF IInv
<1>2. UNCHANGED <<log, step, pending, runStatus, runPlace, lost>>
  BY DEF Start, BeginRecovery, FinishRecovery, LoadSession, disk, work
<1>k. q \in known' => q \in known
  BY DEF Start, BeginRecovery, FinishRecovery, LoadSession, keys
<1>3. Facts(q)'
  BY <1>1, <1>2, <1>k, KeptFacts DEF RunInv, Facts
<1>4. ProcessInv(q)'
  <2>1. step'[q] = step[q] /\ (Unfinished(q)' <=> Unfinished(q))
    BY <1>2 DEF Unfinished
  <2>2. CASE Start
    BY <1>1, <2>1, <2>2 DEF Start, RunInv, ProcessInv
  <2>3. CASE BeginRecovery
    <3>1. Unfinished(q) => q \in toRecover'
      BY <2>3 DEF BeginRecovery, Unfinished
    <3> QED
      BY <1>1, <2>1, <2>3, <3>1 DEF BeginRecovery, RunInv, ProcessInv
  <2>4. CASE FinishRecovery
    BY <1>1, <2>1, <2>4 DEF FinishRecovery, RunInv, ProcessInv, Creating, Executing, Recovering
  <2>5. CASE \E s \in Sessions : LoadSession(s)
    BY <1>1, <2>1, <2>5 DEF LoadSession, RunInv, ProcessInv
  <2> QED
    BY <2>2, <2>3, <2>4, <2>5
<1> QED
  BY <1>3, <1>4 DEF RunInv, Facts

LEMMA LoadRunInv ==
  ASSUME IInv, NEW r \in Runs, LoadRun(r), NEW q \in Runs
  PROVE  RunInv(q)'
<1>1. RunInv(q)
  BY DEF IInv
<1>2. log' = log
  BY RepairType DEF IInv, LoadRun
<1>3. UNCHANGED <<step, pending, runStatus, runPlace, lost, toRecover>>
  BY DEF LoadRun, work
<1>4. process = "loading" /\ process' \in {"loading", "refused"}
  BY DEF LoadRun
<1>k. q \in known' => q \in known \/ runPlace[q] = "stored"
  BY DEF LoadRun
<1>5. Facts(q)'
  BY <1>1, <1>2, <1>3, <1>k, KeptFacts DEF RunInv, Facts
<1>6. ProcessInv(q)'
  BY <1>1, <1>3, <1>4 DEF RunInv, ProcessInv, Unfinished
<1> QED
  BY <1>5, <1>6 DEF RunInv, Facts

RecoveryStep(r) == RecoverRun(r) \/ CloseRun(r) \/ RecoverStatus(r) \/ RecoverSession(r)

LEMMA RecoveryOthers ==
  ASSUME IInv, NEW r \in Runs, RecoveryStep(r), NEW q \in Runs, q # r
  PROVE  RunInv(q)'
<1> USE DEF IInv, TypeOK
<1>1. RunInv(q)
  OBVIOUS
<1>2. CASE RecoverRun(r)
  BY <1>1, <1>2, OtherRun DEF RecoverRun, disk, keys
<1>3. CASE CloseRun(r)
  BY <1>1, <1>3, OtherRun DEF CloseRun, Acknowledge, keys
<1>4. CASE RecoverStatus(r)
  BY <1>1, <1>4, OtherRun DEF RecoverStatus, keys
<1>5. CASE RecoverSession(r)
  BY <1>1, <1>5, OtherRun DEF RecoverSession, keys
<1> QED
  BY <1>2, <1>3, <1>4, <1>5 DEF RecoveryStep

LEMMA RecoverRunInv ==
  ASSUME IInv, NEW r \in Runs, RecoverRun(r)
  PROVE  RunInv(r)'
<1>1. /\ LogInv(r) /\ ExecutionInv(r) /\ step[r] = "idle" /\ process = "recovering"
      /\ UNCHANGED <<log, runStatus, runPlace, process, known>>
      /\ step \in [Runs -> Steps] /\ pending \in [Runs -> Kinds] /\ runPlace[r] = "stored"
  BY DEF IInv, TypeOK, RunInv, PlaceInv, RecoverRun, disk, keys
<1>2. LogInv(r)' /\ PlaceInv(r)'
  BY <1>1 DEF LogInv, PlaceInv, Final
<1>3. CASE ~NeedsRecovery(r)
  <2>1. step'[r] = "idle" /\ ~Unfinished(r)
    BY <1>1, <1>3 DEF RecoverRun, NeedsRecovery, Unfinished
  <2> QED
    BY <1>1, <1>2, <2>1 DEF RunInv, RecoveryInv, ExecutionInv, ProcessInv, Unfinished,
                            Creating, Executing, Recovering
<1>4. CASE NeedsRecovery(r)
  <2>1. ~Final(r)
    BY <1>4 DEF Final, NeedsRecovery
  <2>2. \/ step'[r] = "found" /\ Ended(log[r])
        \/ step'[r] = "closing" /\ pending'[r] \in {"started", "failed"}
    BY <1>1, <1>4 DEF RecoverRun
  <2> QED
    BY <1>1, <1>2, <2>1, <2>2 DEF RunInv, RecoveryInv, ExecutionInv, ProcessInv, Final,
                                  Creating, Executing, Recovering
<1> QED
  BY <1>3, <1>4

LEMMA CloseRunInv ==
  ASSUME IInv, NEW r \in Runs, CloseRun(r)
  PROVE  RunInv(r)'
<1>1. /\ RunInv(r) /\ step[r] = "closing" /\ Appendable(r)
      /\ UNCHANGED <<runStatus, runPlace, process, known>>
      /\ pending[r] \in {"started", "failed"} /\ process = "recovering" /\ runPlace[r] = "stored"
  BY DEF IInv, RunInv, RecoveryInv, ProcessInv, PlaceInv, Recovering, CloseRun, keys
<1>2. log'[r] = Written(r)
  BY DEF IInv, TypeOK, CloseRun, Acknowledge
<1>3. /\ log'[r] # <<>> /\ Last(log'[r]) = pending[r] /\ Readable(log'[r]) /\ ~Final(r)
  BY <1>1, <1>2, AppendToLog DEF IInv
<1>4. LogInv(r)' /\ PlaceInv(r)'
  BY <1>1, <1>3 DEF LogInv, PlaceInv, Final
<1>5. \/ step'[r] = "closing" /\ pending'[r] = "failed"
      \/ step'[r] = "closed" /\ pending[r] = "failed"
  BY <1>1 DEF IInv, TypeOK, CloseRun
<1>6. RecoveryInv(r)'
  BY <1>1, <1>3, <1>5 DEF RecoveryInv, Final, Ended, Terminals
<1>7. ExecutionInv(r)' /\ ProcessInv(r)'
  BY <1>1, <1>5 DEF RunInv, ExecutionInv, ProcessInv, Creating, Executing, Recovering
<1> QED
  BY <1>4, <1>6, <1>7 DEF RunInv

LEMMA RecoverStatusInv ==
  ASSUME IInv, NEW r \in Runs, RecoverStatus(r)
  PROVE  RunInv(r)'
<1>1. /\ RunInv(r) /\ step[r] \in {"found", "closed"} /\ step'[r] = "recovered"
      /\ UNCHANGED <<log, runPlace, process, known>> /\ runStatus'[r] = RecoveredStatus(r)
      /\ process = "recovering" /\ runPlace[r] = "stored"
  BY DEF IInv, TypeOK, RunInv, ProcessInv, PlaceInv, RecoverStatus, Recovering, keys
<1>2. /\ Ended(log[r]) /\ Last(log[r]) \in Terminals
      /\ step[r] = "closed" => Last(log[r]) = "failed"
  BY <1>1 DEF RunInv, RecoveryInv, Ended
<1>3. Final(r)' /\ Last(log[r]) = EndOf(runStatus'[r])
  <2>1. CASE step[r] = "closed"
    BY <1>1, <1>2, <2>1 DEF RecoveredStatus, Final, EndOf
  <2>2. CASE step[r] = "found"
    <3>1. runStatus'[r] = Last(log[r])
      BY <1>1, <2>2 DEF RecoveredStatus
    <3> QED
      BY <1>2, <3>1 DEF Final, EndOf, Terminals
  <2> QED
    BY <1>1, <2>1, <2>2
<1>4. LogInv(r)' /\ RecoveryInv(r)' /\ PlaceInv(r)'
  BY <1>1, <1>2, <1>3 DEF RunInv, LogInv, RecoveryInv, PlaceInv
<1>6. ExecutionInv(r)' /\ ProcessInv(r)'
  BY <1>1, <1>3 DEF ExecutionInv, ProcessInv, Creating, Executing, Recovering
<1> QED
  BY <1>4, <1>6 DEF RunInv

LEMMA RecoverSessionInv ==
  ASSUME IInv, NEW r \in Runs, RecoverSession(r)
  PROVE  RunInv(r)'
<1>1. /\ RunInv(r) /\ step[r] = "recovered" /\ step'[r] = "idle" /\ process = "recovering"
      /\ UNCHANGED <<log, runPlace, runStatus, process, known>> /\ runPlace[r] = "stored"
  BY DEF IInv, TypeOK, RunInv, ProcessInv, PlaceInv, RecoverSession, Recovering, keys
<1>2. Final(r)
  BY <1>1 DEF RunInv, RecoveryInv
<1>3. LogInv(r)' /\ PlaceInv(r)'
  BY <1>1 DEF RunInv, LogInv, PlaceInv, Final
<1>4. RecoveryInv(r)' /\ ExecutionInv(r)'
  BY <1>1 DEF RunInv, RecoveryInv, ExecutionInv, Creating, Executing
<1>5. ProcessInv(r)'
  BY <1>1, <1>2 DEF ProcessInv, Unfinished, Final, Creating, Executing, Recovering
<1> QED
  BY <1>3, <1>4, <1>5 DEF RunInv

\* The steps of createSession are about no run.
LEMMA SessionInv ==
  ASSUME IInv, NEW s \in Sessions, MakeSessionDirectory(s) \/ WriteSession(s), NEW q \in Runs
  PROVE  RunInv(q)'
<1>1. UNCHANGED <<log, step, pending, runStatus, runPlace, process, known, toRecover, lost>>
  BY DEF MakeSessionDirectory, WriteSession, keys
<1> QED
  BY <1>1, OtherRun DEF IInv

CreateStep(r) ==
  MakeRunDirectory(r) \/ WriteRun(r) \/ RegisterRun(r) \/ MarkRunning(r) \/ CreateRunFails(r)

LEMMA CreateOthers ==
  ASSUME IInv, NEW r \in Runs, CreateStep(r), NEW q \in Runs, q # r
  PROVE  RunInv(q)'
<1> USE DEF IInv, TypeOK
<1>1. RunInv(q)
  OBVIOUS
<1>2. CASE MakeRunDirectory(r)
  BY <1>1, <1>2, OtherRun DEF MakeRunDirectory, keys
<1>3. CASE WriteRun(r)
  BY <1>1, <1>3, OtherRun DEF WriteRun, keys
<1>4. CASE RegisterRun(r)
  BY <1>1, <1>4, OtherRun DEF RegisterRun, disk
<1>5. CASE MarkRunning(r)
  BY <1>1, <1>5, OtherRun DEF MarkRunning, keys
<1>6. CASE CreateRunFails(r)
  BY <1>1, <1>6, OtherRun DEF CreateRunFails, GiveUp, disk, keys
<1> QED
  BY <1>2, <1>3, <1>4, <1>5, <1>6 DEF CreateStep

LEMMA CreateRunInv ==
  ASSUME IInv, NEW r \in Runs, CreateStep(r)
  PROVE  RunInv(r)'
<1>1. RunInv(r) /\ log' = log /\ runStatus' = runStatus /\ TypeOK
  BY DEF IInv, CreateStep, MakeRunDirectory, WriteRun, RegisterRun, MarkRunning, CreateRunFails, disk
<1>2. LogInv(r)'
  BY <1>1 DEF RunInv, LogInv, Final
<1>3. CASE MakeRunDirectory(r)
  <2>1. /\ process = "up" /\ runPlace[r] = "none" /\ runPlace'[r] = "directory"
        /\ step'[r] = "made" /\ UNCHANGED <<process, known>> /\ runStatus[r] = "queued" /\ r \notin known
    BY <1>1, <1>3 DEF MakeRunDirectory, TypeOK, RunInv, ExecutionInv, PlaceInv, keys
  <2> QED
    BY <1>1, <1>2, <2>1 DEF RunInv, RecoveryInv, ExecutionInv, PlaceInv, ProcessInv,
                            Creating, Executing, Recovering
<1>4. CASE WriteRun(r)
  <2>1. /\ step[r] = "made" /\ runPlace'[r] = "stored" /\ step'[r] = "written" /\ process' = process
    BY <1>1, <1>4 DEF WriteRun, TypeOK
  <2> QED
    BY <1>1, <1>2, <2>1 DEF RunInv, RecoveryInv, ExecutionInv, PlaceInv, ProcessInv,
                            Creating, Executing, Recovering
<1>5. CASE RegisterRun(r)
  <2>1. /\ step[r] = "written" /\ step'[r] = "registered" /\ runPlace[r] = "stored"
        /\ UNCHANGED <<process, runPlace>>
    BY <1>1, <1>5 DEF RegisterRun, TypeOK, RunInv, PlaceInv, disk
  <2> QED
    BY <1>1, <1>2, <2>1 DEF RunInv, RecoveryInv, ExecutionInv, PlaceInv, ProcessInv,
                            Creating, Executing, Recovering
<1>6. CASE MarkRunning(r)
  <2>1. /\ step[r] = "registered" /\ step'[r] = "streaming" /\ UNCHANGED <<process, runPlace, known>>
    BY <1>1, <1>6 DEF MarkRunning, TypeOK, keys
  <2> QED
    BY <1>1, <1>2, <2>1 DEF RunInv, RecoveryInv, ExecutionInv, PlaceInv, ProcessInv,
                            Creating, Executing, Recovering
<1>7. CASE CreateRunFails(r)
  <2>1. /\ step[r] \in Creating /\ step'[r] = "idle" /\ r \in lost'
        /\ UNCHANGED <<process, runPlace, known>>
    BY <1>1, <1>7 DEF CreateRunFails, GiveUp, TypeOK, disk, keys
  <2> QED
    BY <1>1, <1>2, <2>1 DEF RunInv, RecoveryInv, ExecutionInv, PlaceInv, ProcessInv,
                            Creating, Executing, Recovering
<1> QED
  BY <1>3, <1>4, <1>5, <1>6, <1>7 DEF CreateStep

\* A step of the execution of r after which r has a step of its execution, or
\* is idle and either final or given up, keeps the invariant if what it says of
\* the log and the status of r is kept.
LEMMA ExecutionStep ==
  ASSUME IInv, NEW r \in Runs, step[r] \in Executing,
         UNCHANGED <<runPlace, process, known>>,
         step'[r] \in Executing \/ (step'[r] = "idle" /\ (r \in lost' \/ Final(r)')),
         LogInv(r)', runStatus'[r] # "interrupted",
         step'[r] \in {"appended", "updated"} => log'[r] # <<>>,
         step'[r] = "updated" /\ Ended(log'[r]) => Final(r)'
  PROVE  RunInv(r)'
<1>1. runPlace'[r] = "stored" /\ process' = "up"
  BY DEF IInv, RunInv, PlaceInv, ProcessInv
<1>2. PlaceInv(r)'
  BY <1>1 DEF PlaceInv
<1>3. RecoveryInv(r)'
  BY DEF RecoveryInv, Executing
<1>4. ExecutionInv(r)'
  BY <1>1 DEF ExecutionInv
<1>5. ProcessInv(r)'
  BY <1>1 DEF ProcessInv, Executing, Recovering, Unfinished, Final
<1> QED
  BY <1>2, <1>3, <1>4, <1>5 DEF RunInv

ExecuteStep(r) ==
  \/ BeginAppend(r) \/ StreamFails(r) \/ AppendEvent(r) \/ RefuseEvent(r) \/ AppendFails(r)
  \/ UpdateRun(r) \/ UpdateSession(r) \/ UpdateFails(r) \/ FinishWithFailure(r)

LEMMA ExecuteOthers ==
  ASSUME IInv, NEW r \in Runs, ExecuteStep(r), NEW q \in Runs, q # r
  PROVE  RunInv(q)'
<1> USE DEF IInv, TypeOK
<1>1. RunInv(q)
  OBVIOUS
<1>2. CASE BeginAppend(r)
  BY <1>1, <1>2, OtherRun DEF BeginAppend, disk, keys
<1>3. CASE StreamFails(r)
  BY <1>1, <1>3, OtherRun DEF StreamFails, disk, keys
<1>4. CASE AppendEvent(r)
  BY <1>1, <1>4, OtherRun DEF AppendEvent, Acknowledge, keys
<1>5. CASE RefuseEvent(r)
  BY <1>1, <1>5, OtherRun DEF RefuseEvent, Throw, GiveUp, disk, keys
<1>6. CASE AppendFails(r)
  BY <1>1, <1>6, OtherRun DEF AppendFails, Throw, GiveUp, keys
<1>7. CASE UpdateRun(r)
  BY <1>1, <1>7, OtherRun DEF UpdateRun, keys
<1>8. CASE UpdateSession(r)
  BY <1>1, <1>8, OtherRun DEF UpdateSession, keys
<1>9. CASE UpdateFails(r)
  BY <1>1, <1>9, OtherRun DEF UpdateFails, Throw, GiveUp, disk, keys
<1>10. CASE FinishWithFailure(r)
  <2>1. log'[q] = log[q] /\ step'[q] = step[q] /\ pending'[q] = pending[q]
    BY <1>10 DEF FinishWithFailure, Repair
  <2>2. UNCHANGED <<runStatus, runPlace, process, known, toRecover, lost>>
    BY <1>10 DEF FinishWithFailure, keys
  <2> QED
    BY <1>1, <2>1, <2>2, OtherRun
<1> QED
  BY <1>2, <1>3, <1>4, <1>5, <1>6, <1>7, <1>8, <1>9, <1>10 DEF ExecuteStep

LEMMA ThrowStep ==
  ASSUME TypeOK, NEW r \in Runs, Throw(r)
  PROVE  step'[r] = "failing" \/ (step'[r] = "idle" /\ r \in lost')
  BY DEF TypeOK, Throw, GiveUp

LEMMA ExecuteRunInv ==
  ASSUME IInv, NEW r \in Runs, ExecuteStep(r)
  PROVE  RunInv(r)'
<1>1. /\ TypeOK /\ LogInv(r) /\ RecoveryInv(r) /\ ExecutionInv(r)
  BY DEF IInv, RunInv
<1>2. /\ step[r] \in Executing /\ UNCHANGED <<runPlace, process, known>>
      /\ runStatus[r] # "interrupted"
  <2>1. step[r] \in Executing /\ UNCHANGED <<runPlace, process, known>>
    BY DEF ExecuteStep, BeginAppend, StreamFails, AppendEvent, RefuseEvent, AppendFails, UpdateRun,
           UpdateSession, UpdateFails, FinishWithFailure, disk, keys, Executing
  <2> QED
    BY <1>1, <2>1 DEF ExecutionInv
<1>3. CASE BeginAppend(r)
  <2>1. step'[r] = "appending" /\ UNCHANGED <<log, runStatus>>
    BY <1>1, <1>3 DEF TypeOK, BeginAppend, disk
  <2> QED
    BY <1>1, <1>2, <2>1, ExecutionStep DEF LogInv, Final, Executing
<1>4. CASE StreamFails(r)
  <2>1. step'[r] = "failing" /\ UNCHANGED <<log, runStatus>>
    BY <1>1, <1>4 DEF TypeOK, StreamFails, disk
  <2> QED
    BY <1>1, <1>2, <2>1, ExecutionStep DEF LogInv, Final, Executing
<1>5. CASE AppendEvent(r)
  <2>1. step'[r] = "appended" /\ log'[r] = Written(r) /\ runStatus' = runStatus
    BY <1>1, <1>5 DEF TypeOK, AppendEvent, Acknowledge
  <2>2. Written(r) # <<>> /\ Readable(Written(r)) /\ ~Final(r)
    BY <1>5, AppendToLog DEF AppendEvent, IInv
  <2>3. LogInv(r)'
    BY <2>1, <2>2 DEF LogInv, Final
  <2> QED
    BY <1>2, <2>1, <2>2, <2>3, ExecutionStep DEF Executing
<1>6. CASE RefuseEvent(r)
  <2>1. UNCHANGED <<log, runStatus>> /\ (step'[r] = "failing" \/ (step'[r] = "idle" /\ r \in lost'))
    BY <1>1, <1>6, ThrowStep DEF RefuseEvent, disk
  <2> QED
    BY <1>1, <1>2, <2>1, ExecutionStep DEF LogInv, Final, Executing
<1>7. CASE AppendFails(r)
  <2>1. runStatus' = runStatus /\ (step'[r] = "failing" \/ (step'[r] = "idle" /\ r \in lost'))
    BY <1>1, <1>7, ThrowStep DEF AppendFails
  <2>2. Readable(Written(r)) /\ ~Final(r)
    BY <1>7, AppendToLog DEF AppendFails, IInv
  <2>3. log'[r] = log[r] \/ log'[r] = Written(r)
    BY <1>1, <1>7 DEF TypeOK, AppendFails
  <2>4. LogInv(r)'
    BY <1>1, <2>1, <2>2, <2>3 DEF LogInv, Final
  <2> QED
    BY <1>2, <2>1, <2>4, ExecutionStep DEF Executing
<1>8. CASE UpdateRun(r)
  <2>1. /\ step[r] = "appended" /\ step'[r] = "updated" /\ log' = log
        /\ runStatus'[r] = StatusOf(Last(log[r]), runStatus[r])
    BY <1>1, <1>8 DEF TypeOK, UpdateRun
  <2>2. log[r] # <<>>
    BY <1>1, <2>1 DEF ExecutionInv
  <2>3. CASE Last(log[r]) \in Terminals
    <3>1. runStatus'[r] = Last(log[r]) /\ Ended(log[r])
      BY <2>1, <2>2, <2>3 DEF StatusOf, Ended, Terminals
    <3>2. Final(r)' /\ runStatus'[r] # "interrupted" /\ EndOf(runStatus'[r]) = Last(log[r])
      BY <2>3, <3>1 DEF Final, EndOf, Terminals
    <3>3. LogInv(r)'
      BY <1>1, <2>1, <3>1, <3>2 DEF LogInv
    <3> QED
      BY <1>2, <2>1, <2>2, <3>2, <3>3, ExecutionStep DEF Executing
  <2>4. CASE Last(log[r]) \notin Terminals
    <3>1. ~Ended(log[r]) /\ ~Final(r)
      BY <1>1, <2>4 DEF Ended, LogInv
    <3>2. runStatus'[r] \in {"running", runStatus[r]}
      BY <2>1, <2>4 DEF StatusOf
    <3>3. LogInv(r)' /\ runStatus'[r] # "interrupted"
      BY <1>1, <2>1, <3>1, <3>2 DEF LogInv, Final
    <3> QED
      BY <1>2, <2>1, <2>2, <3>1, <3>3, ExecutionStep DEF Executing
  <2> QED
    BY <2>3, <2>4
<1>9. CASE UpdateSession(r)
  <2>1. /\ step[r] = "updated" /\ UNCHANGED <<log, runStatus>>
        /\ step'[r] \in {"streaming", "appending"} \/ (step'[r] = "idle" /\ Ended(log[r]))
    BY <1>1, <1>9 DEF TypeOK, UpdateSession
  <2>2. step'[r] = "idle" => Final(r)
    BY <1>1, <2>1 DEF ExecutionInv
  <2> QED
    BY <1>1, <1>2, <2>1, <2>2, ExecutionStep DEF LogInv, Final, Executing
<1>10. CASE UpdateFails(r)
  <2>1. UNCHANGED <<log, runStatus>> /\ (step'[r] = "failing" \/ (step'[r] = "idle" /\ r \in lost'))
    BY <1>1, <1>10, ThrowStep DEF UpdateFails, disk
  <2> QED
    BY <1>1, <1>2, <2>1, ExecutionStep DEF LogInv, Final, Executing
<1>11. CASE FinishWithFailure(r)
  <2>1. log' = log
    BY <1>1, <1>11, RepairType DEF FinishWithFailure
  <2>2. step'[r] = "appending" \/ (step'[r] = "appended" /\ Ended(Kept(r)))
    BY <1>1, <1>11 DEF TypeOK, FinishWithFailure
  <2>3. step'[r] = "appended" => log[r] # <<>>
    BY <2>2 DEF Ended, Kept
  <2>4. runStatus' = runStatus
    BY <1>11 DEF FinishWithFailure
  <2> QED
    BY <1>1, <1>2, <2>1, <2>2, <2>3, <2>4, ExecutionStep DEF LogInv, Final, Executing
<1> QED
  BY <1>3, <1>4, <1>5, <1>6, <1>7, <1>8, <1>9, <1>10, <1>11 DEF ExecuteStep

LEMMA CrashInv ==
  ASSUME IInv, Crash, NEW r \in Runs
  PROVE  RunInv(r)'
<1>1. /\ RunInv(r) /\ TypeOK /\ step'[r] = "idle" /\ process' = "down" /\ known' = {}
      /\ UNCHANGED <<runStatus, runPlace>>
  BY DEF IInv, Crash
<1>2. log'[r] = log[r] \/ (log'[r] = Written(r) /\ Appendable(r))
  BY DEF Crash, InFlight
<1>3. LogInv(r)'
  <2>1. Appendable(r) => Readable(Written(r)) /\ ~Final(r)
    BY <1>1, AppendToLog
  <2> QED
    BY <1>1, <1>2, <2>1 DEF RunInv, LogInv, Final
<1>4. RecoveryInv(r)' /\ PlaceInv(r)' /\ ProcessInv(r)'
  BY <1>1 DEF RecoveryInv, PlaceInv, ProcessInv, Creating, Executing, Recovering
<1>5. ExecutionInv(r)'
  BY <1>1 DEF RunInv, ExecutionInv, Creating, Executing
<1> QED
  BY <1>3, <1>4, <1>5 DEF RunInv
-----------------------------------------------------------------------------
(* The inductive invariant.                                                *)

LEMMA InitIInv == Init => IInv
<1> SUFFICES ASSUME Init, NEW r \in Runs PROVE RunInv(r)
  BY InitTypeOK DEF IInv
<1>1. /\ log[r] = <<>> /\ step[r] = "idle" /\ runStatus[r] = "queued" /\ runPlace[r] = "none"
      /\ process = "down" /\ known = {}
  BY DEF Init
<1>2. Readable(<<>>)
  BY DEF Readable
<1>3. LogInv(r)
  BY <1>1, <1>2 DEF LogInv, Final
<1> QED
  BY <1>1, <1>3 DEF RunInv, RecoveryInv, ExecutionInv, PlaceInv, ProcessInv, Unfinished,
                    Creating, Executing, Recovering

LEMMA NextIInv == IInv /\ [Next]_vars => IInv'
<1> SUFFICES ASSUME IInv, [Next]_vars, NEW q \in Runs PROVE RunInv(q)'
  BY NextTypeOK DEF IInv
<1>1. CASE Initialize
  <2>1. ASSUME NEW r \in Runs, LoadRun(r) PROVE RunInv(q)'
    BY <2>1, LoadRunInv
  <2>2. ASSUME NEW r \in Runs, RecoveryStep(r) PROVE RunInv(q)'
    BY <2>2, RecoveryOthers, RecoverRunInv, CloseRunInv, RecoverStatusInv, RecoverSessionInv
       DEF RecoveryStep
  <2> QED
    BY <1>1, <2>1, <2>2, PhaseInv DEF Initialize, RecoveryStep
<1>2. CASE Create
  BY <1>2, SessionInv, CreateOthers, CreateRunInv DEF Create, CreateStep
<1>3. CASE Execute
  BY <1>3, ExecuteOthers, ExecuteRunInv DEF Execute, ExecuteStep
<1>4. CASE Crash
  BY <1>4, CrashInv
<1>5. CASE UNCHANGED vars
  <2>1. UNCHANGED <<log, step, pending, runStatus, runPlace, process, known, toRecover, lost>>
    BY <1>5 DEF vars, disk, keys, work
  <2> QED
    BY <2>1, OtherRun DEF IInv
<1> QED
  BY <1>1, <1>2, <1>3, <1>4, <1>5 DEF Next

\* The invariant of the store, by induction over its steps.
THEOREM InvariantThm == Spec => []IInv
<1> QED
  BY InitIInv, NextIInv, PTL DEF Spec

\* Every variable keeps its type, whatever crashes and fails.
THEOREM TypeThm == Spec => []TypeOK
<1>1. IInv => TypeOK
  BY DEF IInv
<1> QED
  BY <1>1, InvariantThm, PTL

\* No crash, failed write or repair leaves a log that the next process cannot
\* read (#readEventFile).
THEOREM ReadableThm == Spec => []LogIsReadable
<1>1. IInv => LogIsReadable
  BY DEF IInv, RunInv, LogInv, LogIsReadable
<1> QED
  BY <1>1, InvariantThm, PTL

\* run.json claims an end only when the log holds it (#updateFromEvent and
\* recovery write the status after the terminal event).
THEOREM StatusThm == Spec => []StatusFollowsLog
<1>1. IInv => StatusFollowsLog
  BY DEF IInv, RunInv, LogInv, EndOf, Final, StatusFollowsLog
<1> QED
  BY <1>1, InvariantThm, PTL

\* A process that is up executes every unfinished run or gave it up itself
\* (#recoverInterruptedRuns has closed the others).
THEOREM NoneLeftThm == Spec => []NoneLeftBehind
<1>1. IInv => NoneLeftBehind
  BY DEF IInv, RunInv, ProcessInv, NoneLeftBehind
<1> QED
  BY <1>1, InvariantThm, PTL
-----------------------------------------------------------------------------
(* Steps.                                                                  *)

\* Only RecoverStatus and UpdateRun write a status.
LEMMA StatusStep ==
  ASSUME IInv, [Next]_vars, NEW q \in Runs
  PROVE  runStatus'[q] = runStatus[q] \/ RecoverStatus(q) \/ UpdateRun(q)
<1>1. CASE Initialize
  <2>1. ASSUME NEW r \in Runs, RecoverStatus(r) PROVE runStatus'[q] = runStatus[q] \/ RecoverStatus(q)
    BY <2>1 DEF IInv, TypeOK, RecoverStatus
  <2> QED
    BY <1>1, <2>1 DEF Initialize, Start, BeginRecovery, FinishRecovery, LoadSession, LoadRun,
                      RecoverRun, CloseRun, RecoverSession, disk
<1>2. CASE Create
  BY <1>2 DEF Create, MakeSessionDirectory, WriteSession, MakeRunDirectory, WriteRun, RegisterRun,
              MarkRunning, CreateRunFails, disk
<1>3. CASE Execute
  <2>1. ASSUME NEW r \in Runs, UpdateRun(r) PROVE runStatus'[q] = runStatus[q] \/ UpdateRun(q)
    BY <2>1 DEF IInv, TypeOK, UpdateRun
  <2> QED
    BY <1>3, <2>1 DEF Execute, BeginAppend, StreamFails, AppendEvent, RefuseEvent, AppendFails,
                      UpdateSession, UpdateFails, FinishWithFailure, disk
<1>4. CASE Crash
  BY <1>4 DEF Crash
<1>5. CASE UNCHANGED vars
  BY <1>5 DEF vars, disk
<1> QED
  BY <1>1, <1>2, <1>3, <1>4, <1>5 DEF Next

\* A final status is written again only with the same value (#updateFromEvent
\* and #recoverInterruptedRuns, across any restarts).
THEOREM FinalThm == Spec => StatusIsFinal
<1>1. IInv /\ [Next]_vars =>
        [\A r \in Runs : ~Unfinished(r) /\ runPlace[r] = "stored" => runStatus'[r] = runStatus[r]]_vars
  <2> SUFFICES ASSUME IInv, [Next]_vars, NEW r \in Runs, ~Unfinished(r), runPlace[r] = "stored"
               PROVE  runStatus'[r] = runStatus[r]
    OBVIOUS
  <2>1. Final(r) /\ RunInv(r) /\ TypeOK
    BY DEF IInv, Unfinished, Final
  <2>2. ~RecoverStatus(r)
    BY <2>1 DEF RecoverStatus, RunInv, RecoveryInv
  <2>3. CASE UpdateRun(r)
    <3>1. step[r] = "appended" /\ runStatus'[r] = StatusOf(Last(log[r]), runStatus[r])
      BY <2>1, <2>3 DEF TypeOK, UpdateRun
    <3>2. Last(log[r]) \in Terminals /\ Last(log[r]) = EndOf(runStatus[r])
      BY <2>1 DEF RunInv, LogInv, Ended
    <3>3. runStatus[r] # "interrupted"
      BY <2>1, <3>1 DEF RunInv, ExecutionInv, Executing
    <3> QED
      BY <3>1, <3>2, <3>3 DEF StatusOf, EndOf, Terminals
  <2> QED
    BY <2>2, <2>3, StatusStep
<1> QED
  BY <1>1, InvariantThm, PTL DEF Spec, StatusIsFinal

\* The store starts as DurableLog does.
LEMMA DurableInit == Init => Durable!Init
  BY DEF Init, Durable!Init

\* The logs hold kinds of events only, no illegal lines.
LEMMA DurableTypes ==
  ASSUME IInv, [Next]_vars
  PROVE  log' \in [Runs -> Seq(Kinds)] /\ acked' \in [Runs -> Nat]
<1>1. IInv'
  BY NextIInv
<1>2. TypeOK' /\ \A r \in Runs : Readable(log'[r])
  BY <1>1 DEF IInv, RunInv, LogInv
<1>3. \A r \in Runs : log'[r] \in Lines
  BY <1>2 DEF TypeOK, Lines
<1>4. \A r \in Runs : log'[r] \in Seq(Kinds)
  BY <1>2, <1>3, ReadableKinds
<1> QED
  BY <1>2, <1>4 DEF TypeOK

\* The log of a run takes an event, acknowledged or not.
LEMMA PersistStep ==
  ASSUME IInv, NEW r \in Runs, Appendable(r), log'[r] = Written(r),
         acked'[r] \in {acked[r], Len(log[r]) + 1}
  PROVE  Durable!Persist(r)
<1>1. Written(r) = Append(log[r], pending[r]) /\ pending[r] \in Kinds
  BY AppendToLog DEF IInv, TypeOK
<1>2. ~Ended(log[r]) /\ (pending[r] = "started" <=> log[r] = <<>>)
  BY DEF Appendable
<1>3. ~Durable!Ended(log[r])
  BY <1>2 DEF Durable!Ended, Durable!Terminals, Ended, Last, Terminals
<1> QED
  BY <1>1, <1>2, <1>3 DEF Durable!Persist, Durable!Kinds, Durable!Terminals, Kinds, Terminals

\* Every step is one of DurableLog or a stutter, for each of the runs.
LEMMA DurableStep ==
  ASSUME IInv, [Next]_vars, NEW q \in Runs
  PROVE  Durable!Persist(q) \/ Durable!Keep(q)
<1> USE DEF Durable!Keep
<1>1. TypeOK
  BY DEF IInv
<1>2. CASE Initialize
  <2>1. ASSUME NEW r \in Runs, LoadRun(r) PROVE Durable!Keep(q)
    BY <1>1, <2>1, RepairType DEF LoadRun
  <2>2. ASSUME NEW r \in Runs, CloseRun(r) PROVE Durable!Persist(q) \/ Durable!Keep(q)
    <3>1. CASE q = r
      BY <1>1, <2>2, <3>1, PersistStep DEF TypeOK, CloseRun, Acknowledge
    <3>2. CASE q # r
      BY <1>1, <2>2, <3>2 DEF TypeOK, CloseRun, Acknowledge
    <3> QED
      BY <3>1, <3>2
  <2> QED
    BY <1>2, <2>1, <2>2 DEF Initialize, Start, BeginRecovery, FinishRecovery, LoadSession, RecoverRun,
                            RecoverStatus, RecoverSession, disk
<1>3. CASE Create
  BY <1>3 DEF Create, MakeSessionDirectory, WriteSession, MakeRunDirectory, WriteRun, RegisterRun,
              MarkRunning, CreateRunFails, disk
<1>4. CASE Execute
  <2>1. ASSUME NEW r \in Runs, AppendEvent(r) PROVE Durable!Persist(q) \/ Durable!Keep(q)
    <3>1. CASE q = r
      BY <1>1, <2>1, <3>1, PersistStep DEF TypeOK, AppendEvent, Acknowledge
    <3>2. CASE q # r
      BY <1>1, <2>1, <3>2 DEF TypeOK, AppendEvent, Acknowledge
    <3> QED
      BY <3>1, <3>2
  <2>2. ASSUME NEW r \in Runs, AppendFails(r) PROVE Durable!Persist(q) \/ Durable!Keep(q)
    <3>1. acked' = acked /\ Appendable(r)
      BY <2>2 DEF AppendFails
    <3>2. log'[q] = log[q] \/ (q = r /\ log'[q] = Written(q))
      BY <1>1, <2>2 DEF TypeOK, AppendFails
    <3> QED
      BY <3>1, <3>2, PersistStep
  <2>3. ASSUME NEW r \in Runs, FinishWithFailure(r) PROVE Durable!Keep(q)
    BY <1>1, <2>3, RepairType DEF FinishWithFailure
  <2> QED
    BY <1>4, <2>1, <2>2, <2>3 DEF Execute, BeginAppend, StreamFails, RefuseEvent, UpdateRun,
                                  UpdateSession, UpdateFails, disk
<1>5. CASE Crash
  <2>1. acked' = acked
    BY <1>5 DEF Crash
  <2>2. log'[q] = log[q] \/ (log'[q] = Written(q) /\ Appendable(q))
    BY <1>5 DEF Crash, InFlight
  <2> QED
    BY <2>1, <2>2, PersistStep
<1>6. CASE UNCHANGED vars
  BY <1>6 DEF vars, disk
<1> QED
  BY <1>2, <1>3, <1>4, <1>5, <1>6 DEF Next

\* An acknowledged event is never lost and the log of a run only grows, up to
\* its one terminal event: the store implements DurableLog.
THEOREM RefinementThm == Spec => ImplementsDurableLog
<1>1. IInv /\ [Next]_vars => [Durable!Next]_Durable!vars
  <2> SUFFICES ASSUME IInv, [Next]_vars PROVE Durable!Next
    OBVIOUS
  <2>1. log' \in [Runs -> Seq(Durable!Kinds)] /\ acked' \in [Runs -> Nat]
    BY DurableTypes DEF Durable!Kinds, Durable!Terminals, Kinds, Terminals
  <2>2. \A r \in Runs : Durable!Persist(r) \/ Durable!Keep(r)
    BY DurableStep
  <2> QED
    BY <2>1, <2>2 DEF Durable!Next
<1> QED
  BY <1>1, InvariantThm, DurableInit, PTL DEF Spec, ImplementsDurableLog, Durable!Spec
=============================================================================
