------------------------ MODULE ManagedRuntimeProofs ------------------------
(* What starts and closes of runtimes leave behind, for any number of       *)
(* managers and any number of crashes, hangs and kills that fail.           *)
EXTENDS ManagedRuntime, TLAPS

-----------------------------------------------------------------------------
(* The inductive invariant.                                                *)

Active(m) == parent[m] \notin {"idle"} \cup Ended \/ Running(m)

\* terminateOwnedChild is over.
PastTermination == {"reading", "removing", "removingRoot", "failed", "closed", "closeFailed"}

RootInv == \A m \in Managers : rootOf[m] \in {m, Given}

\* A start that was refused has spawned nothing; an exit is seen of a dead child only.
ChildInv ==
  \A m \in Managers :
    /\ parent[m] \in {"idle", "preparing", "checked", "refused"} => child[m] = "none"
    /\ outcome[m] = "exit" => child[m] = "dead"

\* Whoever is past termination has seen an outcome or given up, a close that
\* succeeded has not given up, and only what has ended has failed to clean up.
StoppedInv ==
  \A m \in Managers :
    /\ parent[m] \in PastTermination => outcome[m] # None \/ unkilled[m]
    /\ parent[m] = "closed" => ~unkilled[m]
    /\ uncleaned[m] => parent[m] \in {"failed", "closeFailed"}
    /\ parent[m] = "closeFailed" => unkilled[m] \/ uncleaned[m]

\* A descriptor is in the root of the manager whose runtime wrote it.
WrittenInv ==
  \A s \in Roots : \A m \in Managers :
    descriptor[s] = m => rootOf[m] = s /\ child[m] \notin {"none", "booting"}

\* What is in place after a cleanup that did not fail was written after it, by a
\* runtime that was not stopped; a start that fails leaves what is in a root that it
\* was given, and one that spawned nothing has its temporary root.
LeftInv ==
  \A m \in Managers :
    /\ closing[m] => parent[m] # "failed"
    /\ ~closing[m] => parent[m] \notin {"reading", "removing", "closed", "closeFailed"}
    /\ Owned(m) /\ parent[m] \in {"preparing", "checked", "refused"} => rootExists[m]
    /\ Owned(m) /\ rootExists[m] /\ parent[m] \in {"failed", "closed", "closeFailed"} => NotStopped(m) \/ uncleaned[m]
    /\ descriptor[rootOf[m]] = m =>
         /\ parent[m] \in {"closed", "closeFailed"} => NotStopped(m) \/ uncleaned[m]
         /\ parent[m] = "removingRoot" /\ closing[m] => NotStopped(m)
         /\ parent[m] = "failed" /\ Owned(m) => NotStopped(m) \/ uncleaned[m]

\* Managers of one root that come one after another: while one is active the
\* others are not, and while its descriptor is there the others get no further
\* than to look for it.
AloneInv ==
  \A m, n \in Managers :
    m # n /\ rootOf[n] = rootOf[m] /\ m \notin overlapped =>
      /\ Active(m) => ~Active(n)
      /\ descriptor[rootOf[m]] = m => parent[n] = "preparing" \/ ~Active(n)

IInv == TypeOK /\ RootInv /\ ChildInv /\ StoppedInv /\ WrittenInv /\ LeftInv /\ AloneInv
-----------------------------------------------------------------------------
(* Each part of the invariant is preserved.                                *)

\* Every step keeps the types, and a descriptor keeps its root.
LEMMA TypeStep ==
  ASSUME TypeOK, RootInv, NEW m \in Managers,
         Start(m) \/ Await(m) \/ Close(m) \/ Stop(m) \/ Runtime(m) \/ Signal(m) \/ Fault(m)
  PROVE  TypeOK'
<1>. USE GivenAssumption, FaultsAssumption DEF TypeOK, RootInv, Roots, ParentSteps, ChildSteps, GoTo, Become, Running, Owned, Cleanup, Send, manager, process, files, OwnDescriptor, InUse
<1>1. CASE Prepare(m)
  BY <1>1 DEF Prepare
<1>2. CASE AssertDescriptorAbsent(m)
  BY <1>2 DEF AssertDescriptorAbsent
<1>3. CASE Refuse(m)
  BY <1>3 DEF Refuse
<1>4. CASE Spawn(m)
  BY <1>4 DEF Spawn
<1>5. CASE WaitForDescriptor(m)
  BY <1>5 DEF WaitForDescriptor
<1>6. CASE Probe(m)
  BY <1>6 DEF Probe
<1>7. CASE ObserveExit(m)
  BY <1>7 DEF ObserveExit
<1>8. CASE Close(m)
  BY <1>8 DEF Close
<1>9. CASE AlreadyExited(m)
  BY <1>9 DEF AlreadyExited
<1>10. CASE Terminate(m)
  BY <1>10 DEF Terminate
<1>11. CASE Settles(m)
  BY <1>11 DEF Settles
<1>12. CASE Kill(m)
  BY <1>12 DEF Kill
<1>13. CASE KillTimesOut(m)
  BY <1>13 DEF KillTimesOut
<1>14. CASE ReadDescriptor(m)
  BY <1>14 DEF ReadDescriptor
<1>15. CASE RemoveDescriptor(m)
  BY <1>15 DEF RemoveDescriptor
<1>16. CASE RemoveRoot(m)
  BY <1>16 DEF RemoveRoot
<1>17. CASE BootFails(m)
  BY <1>17 DEF BootFails
<1>18. CASE WriteDescriptor(m)
  BY <1>18 DEF WriteDescriptor
<1>19. CASE Serve(m)
  BY <1>19 DEF Serve
<1>20. CASE ShutDown(m)
  BY <1>20 DEF ShutDown
<1>21. CASE ChildReadsDescriptor(m)
  BY <1>21 DEF ChildReadsDescriptor
<1>22. CASE ChildRemovesDescriptor(m)
  BY <1>22 DEF ChildRemovesDescriptor
<1>23. CASE Leave(m)
  BY <1>23 DEF Leave
<1>24. CASE ReceiveTerm(m)
  BY <1>24 DEF ReceiveTerm
<1>25. CASE ReceiveKill(m)
  BY <1>25 DEF ReceiveKill
<1>26. CASE TaskkillFails(m)
  BY <1>26 DEF TaskkillFails
<1>27. CASE KillFails(m)
  BY <1>27 DEF KillFails
<1>28. CASE Crash(m)
  BY <1>28 DEF Crash
<1>29. CASE Hang(m)
  BY <1>29 DEF Hang
<1>30. CASE RemoveDescriptorFails(m)
  BY <1>30 DEF RemoveDescriptorFails
<1>31. CASE RemoveRootFails(m)
  BY <1>31 DEF RemoveRootFails
<1>32. CASE ChildCleanupFails(m)
  BY <1>32 DEF ChildCleanupFails
<1>. QED
  BY <1>1, <1>2, <1>3, <1>4, <1>5, <1>6, <1>7, <1>8, <1>9, <1>10, <1>11, <1>12, <1>13, <1>14, <1>15, <1>16, <1>17, <1>18, <1>19, <1>20, <1>21, <1>22, <1>23, <1>24, <1>25, <1>26, <1>27, <1>28, <1>29,
     <1>30, <1>31, <1>32
     DEF Start, Await, Stop, Runtime, Signal, Fault

\* The root of a manager never changes.
LEMMA RootStep ==
  ASSUME RootInv, NEW m \in Managers,
         Start(m) \/ Await(m) \/ Close(m) \/ Stop(m) \/ Runtime(m) \/ Signal(m) \/ Fault(m)
  PROVE  RootInv'
<1>. USE GivenAssumption, FaultsAssumption DEF RootInv, GoTo, Become, Running, Owned, Cleanup, Send, manager, process, files, OwnDescriptor, InUse
<1>1. CASE Prepare(m)
  BY <1>1 DEF Prepare
<1>2. CASE AssertDescriptorAbsent(m)
  BY <1>2 DEF AssertDescriptorAbsent
<1>3. CASE Refuse(m)
  BY <1>3 DEF Refuse
<1>4. CASE Spawn(m)
  BY <1>4 DEF Spawn
<1>5. CASE WaitForDescriptor(m)
  BY <1>5 DEF WaitForDescriptor
<1>6. CASE Probe(m)
  BY <1>6 DEF Probe
<1>7. CASE ObserveExit(m)
  BY <1>7 DEF ObserveExit
<1>8. CASE Close(m)
  BY <1>8 DEF Close
<1>9. CASE AlreadyExited(m)
  BY <1>9 DEF AlreadyExited
<1>10. CASE Terminate(m)
  BY <1>10 DEF Terminate
<1>11. CASE Settles(m)
  BY <1>11 DEF Settles
<1>12. CASE Kill(m)
  BY <1>12 DEF Kill
<1>13. CASE KillTimesOut(m)
  BY <1>13 DEF KillTimesOut
<1>14. CASE ReadDescriptor(m)
  BY <1>14 DEF ReadDescriptor
<1>15. CASE RemoveDescriptor(m)
  BY <1>15 DEF RemoveDescriptor
<1>16. CASE RemoveRoot(m)
  BY <1>16 DEF RemoveRoot
<1>17. CASE BootFails(m)
  BY <1>17 DEF BootFails
<1>18. CASE WriteDescriptor(m)
  BY <1>18 DEF WriteDescriptor
<1>19. CASE Serve(m)
  BY <1>19 DEF Serve
<1>20. CASE ShutDown(m)
  BY <1>20 DEF ShutDown
<1>21. CASE ChildReadsDescriptor(m)
  BY <1>21 DEF ChildReadsDescriptor
<1>22. CASE ChildRemovesDescriptor(m)
  BY <1>22 DEF ChildRemovesDescriptor
<1>23. CASE Leave(m)
  BY <1>23 DEF Leave
<1>24. CASE ReceiveTerm(m)
  BY <1>24 DEF ReceiveTerm
<1>25. CASE ReceiveKill(m)
  BY <1>25 DEF ReceiveKill
<1>26. CASE TaskkillFails(m)
  BY <1>26 DEF TaskkillFails
<1>27. CASE KillFails(m)
  BY <1>27 DEF KillFails
<1>28. CASE Crash(m)
  BY <1>28 DEF Crash
<1>29. CASE Hang(m)
  BY <1>29 DEF Hang
<1>30. CASE RemoveDescriptorFails(m)
  BY <1>30 DEF RemoveDescriptorFails
<1>31. CASE RemoveRootFails(m)
  BY <1>31 DEF RemoveRootFails
<1>32. CASE ChildCleanupFails(m)
  BY <1>32 DEF ChildCleanupFails
<1>. QED
  BY <1>1, <1>2, <1>3, <1>4, <1>5, <1>6, <1>7, <1>8, <1>9, <1>10, <1>11, <1>12, <1>13, <1>14, <1>15, <1>16, <1>17, <1>18, <1>19, <1>20, <1>21, <1>22, <1>23, <1>24, <1>25, <1>26, <1>27, <1>28, <1>29,
     <1>30, <1>31, <1>32
     DEF Start, Await, Stop, Runtime, Signal, Fault

\* Only a spawn starts a runtime, and an exit is final.
LEMMA ChildStep ==
  ASSUME TypeOK, ChildInv, NEW m \in Managers,
         Start(m) \/ Await(m) \/ Close(m) \/ Stop(m) \/ Runtime(m) \/ Signal(m) \/ Fault(m)
  PROVE  ChildInv'
<1>. USE GivenAssumption, FaultsAssumption DEF TypeOK, ChildInv, ParentSteps, ChildSteps, GoTo, Become, Running, Owned, Cleanup, Send, manager, process, files, OwnDescriptor, InUse
<1>1. CASE Prepare(m)
  BY <1>1 DEF Prepare
<1>2. CASE AssertDescriptorAbsent(m)
  BY <1>2 DEF AssertDescriptorAbsent
<1>3. CASE Refuse(m)
  BY <1>3 DEF Refuse
<1>4. CASE Spawn(m)
  BY <1>4 DEF Spawn
<1>5. CASE WaitForDescriptor(m)
  BY <1>5 DEF WaitForDescriptor
<1>6. CASE Probe(m)
  BY <1>6 DEF Probe
<1>7. CASE ObserveExit(m)
  BY <1>7 DEF ObserveExit
<1>8. CASE Close(m)
  BY <1>8 DEF Close
<1>9. CASE AlreadyExited(m)
  BY <1>9 DEF AlreadyExited
<1>10. CASE Terminate(m)
  BY <1>10 DEF Terminate
<1>11. CASE Settles(m)
  BY <1>11 DEF Settles
<1>12. CASE Kill(m)
  BY <1>12 DEF Kill
<1>13. CASE KillTimesOut(m)
  BY <1>13 DEF KillTimesOut
<1>14. CASE ReadDescriptor(m)
  BY <1>14 DEF ReadDescriptor
<1>15. CASE RemoveDescriptor(m)
  BY <1>15 DEF RemoveDescriptor
<1>16. CASE RemoveRoot(m)
  BY <1>16 DEF RemoveRoot
<1>17. CASE BootFails(m)
  BY <1>17 DEF BootFails
<1>18. CASE WriteDescriptor(m)
  BY <1>18 DEF WriteDescriptor
<1>19. CASE Serve(m)
  BY <1>19 DEF Serve
<1>20. CASE ShutDown(m)
  BY <1>20 DEF ShutDown
<1>21. CASE ChildReadsDescriptor(m)
  BY <1>21 DEF ChildReadsDescriptor
<1>22. CASE ChildRemovesDescriptor(m)
  BY <1>22 DEF ChildRemovesDescriptor
<1>23. CASE Leave(m)
  BY <1>23 DEF Leave
<1>24. CASE ReceiveTerm(m)
  BY <1>24 DEF ReceiveTerm
<1>25. CASE ReceiveKill(m)
  BY <1>25 DEF ReceiveKill
<1>26. CASE TaskkillFails(m)
  BY <1>26 DEF TaskkillFails
<1>27. CASE KillFails(m)
  BY <1>27 DEF KillFails
<1>28. CASE Crash(m)
  BY <1>28 DEF Crash
<1>29. CASE Hang(m)
  BY <1>29 DEF Hang
<1>30. CASE RemoveDescriptorFails(m)
  BY <1>30 DEF RemoveDescriptorFails
<1>31. CASE RemoveRootFails(m)
  BY <1>31 DEF RemoveRootFails
<1>32. CASE ChildCleanupFails(m)
  BY <1>32 DEF ChildCleanupFails
<1>. QED
  BY <1>1, <1>2, <1>3, <1>4, <1>5, <1>6, <1>7, <1>8, <1>9, <1>10, <1>11, <1>12, <1>13, <1>14, <1>15, <1>16, <1>17, <1>18, <1>19, <1>20, <1>21, <1>22, <1>23, <1>24, <1>25, <1>26, <1>27, <1>28, <1>29,
     <1>30, <1>31, <1>32
     DEF Start, Await, Stop, Runtime, Signal, Fault

\* Nobody gets past termination without an outcome or a failure.
LEMMA StoppedStep ==
  ASSUME TypeOK, ChildInv, StoppedInv, NEW m \in Managers,
         Start(m) \/ Await(m) \/ Close(m) \/ Stop(m) \/ Runtime(m) \/ Signal(m) \/ Fault(m)
  PROVE  StoppedInv'
<1>. USE GivenAssumption, FaultsAssumption DEF TypeOK, ChildInv, StoppedInv, PastTermination, ParentSteps, GoTo, Become, Running, Owned, Cleanup, Send, manager, process, files, OwnDescriptor, InUse
<1>1. CASE Prepare(m)
  BY <1>1 DEF Prepare
<1>2. CASE AssertDescriptorAbsent(m)
  BY <1>2 DEF AssertDescriptorAbsent
<1>3. CASE Refuse(m)
  BY <1>3 DEF Refuse
<1>4. CASE Spawn(m)
  BY <1>4 DEF Spawn
<1>5. CASE WaitForDescriptor(m)
  BY <1>5 DEF WaitForDescriptor
<1>6. CASE Probe(m)
  BY <1>6 DEF Probe
<1>7. CASE ObserveExit(m)
  BY <1>7 DEF ObserveExit
<1>8. CASE Close(m)
  BY <1>8 DEF Close
<1>9. CASE AlreadyExited(m)
  BY <1>9 DEF AlreadyExited
<1>10. CASE Terminate(m)
  BY <1>10 DEF Terminate
<1>11. CASE Settles(m)
  BY <1>11 DEF Settles
<1>12. CASE Kill(m)
  BY <1>12 DEF Kill
<1>13. CASE KillTimesOut(m)
  BY <1>13 DEF KillTimesOut
<1>14. CASE ReadDescriptor(m)
  BY <1>14 DEF ReadDescriptor
<1>15. CASE RemoveDescriptor(m)
  BY <1>15 DEF RemoveDescriptor
<1>16. CASE RemoveRoot(m)
  BY <1>16 DEF RemoveRoot
<1>17. CASE BootFails(m)
  BY <1>17 DEF BootFails
<1>18. CASE WriteDescriptor(m)
  BY <1>18 DEF WriteDescriptor
<1>19. CASE Serve(m)
  BY <1>19 DEF Serve
<1>20. CASE ShutDown(m)
  BY <1>20 DEF ShutDown
<1>21. CASE ChildReadsDescriptor(m)
  BY <1>21 DEF ChildReadsDescriptor
<1>22. CASE ChildRemovesDescriptor(m)
  BY <1>22 DEF ChildRemovesDescriptor
<1>23. CASE Leave(m)
  BY <1>23 DEF Leave
<1>24. CASE ReceiveTerm(m)
  BY <1>24 DEF ReceiveTerm
<1>25. CASE ReceiveKill(m)
  BY <1>25 DEF ReceiveKill
<1>26. CASE TaskkillFails(m)
  BY <1>26 DEF TaskkillFails
<1>27. CASE KillFails(m)
  BY <1>27 DEF KillFails
<1>28. CASE Crash(m)
  BY <1>28 DEF Crash
<1>29. CASE Hang(m)
  BY <1>29 DEF Hang
<1>30. CASE RemoveDescriptorFails(m)
  BY <1>30 DEF RemoveDescriptorFails
<1>31. CASE RemoveRootFails(m)
  BY <1>31 DEF RemoveRootFails
<1>32. CASE ChildCleanupFails(m)
  BY <1>32 DEF ChildCleanupFails
<1>. QED
  BY <1>1, <1>2, <1>3, <1>4, <1>5, <1>6, <1>7, <1>8, <1>9, <1>10, <1>11, <1>12, <1>13, <1>14, <1>15, <1>16, <1>17, <1>18, <1>19, <1>20, <1>21, <1>22, <1>23, <1>24, <1>25, <1>26, <1>27, <1>28, <1>29,
     <1>30, <1>31, <1>32
     DEF Start, Await, Stop, Runtime, Signal, Fault

\* Only a runtime that boots writes a descriptor, its own.
LEMMA WrittenStep ==
  ASSUME TypeOK, RootInv, ChildInv, WrittenInv, NEW m \in Managers,
         Start(m) \/ Await(m) \/ Close(m) \/ Stop(m) \/ Runtime(m) \/ Signal(m) \/ Fault(m)
  PROVE  WrittenInv'
<1>. USE GivenAssumption, FaultsAssumption DEF TypeOK, RootInv, ChildInv, WrittenInv, Roots, ParentSteps, ChildSteps, GoTo, Become, Running, Owned, Cleanup, Send, manager, process, files, OwnDescriptor, InUse
<1>1. CASE Prepare(m)
  BY <1>1 DEF Prepare
<1>2. CASE AssertDescriptorAbsent(m)
  BY <1>2 DEF AssertDescriptorAbsent
<1>3. CASE Refuse(m)
  BY <1>3 DEF Refuse
<1>4. CASE Spawn(m)
  BY <1>4 DEF Spawn
<1>5. CASE WaitForDescriptor(m)
  BY <1>5 DEF WaitForDescriptor
<1>6. CASE Probe(m)
  BY <1>6 DEF Probe
<1>7. CASE ObserveExit(m)
  BY <1>7 DEF ObserveExit
<1>8. CASE Close(m)
  BY <1>8 DEF Close
<1>9. CASE AlreadyExited(m)
  BY <1>9 DEF AlreadyExited
<1>10. CASE Terminate(m)
  BY <1>10 DEF Terminate
<1>11. CASE Settles(m)
  BY <1>11 DEF Settles
<1>12. CASE Kill(m)
  BY <1>12 DEF Kill
<1>13. CASE KillTimesOut(m)
  BY <1>13 DEF KillTimesOut
<1>14. CASE ReadDescriptor(m)
  BY <1>14 DEF ReadDescriptor
<1>15. CASE RemoveDescriptor(m)
  BY <1>15 DEF RemoveDescriptor
<1>16. CASE RemoveRoot(m)
  BY <1>16 DEF RemoveRoot
<1>17. CASE BootFails(m)
  BY <1>17 DEF BootFails
<1>18. CASE WriteDescriptor(m)
  BY <1>18 DEF WriteDescriptor
<1>19. CASE Serve(m)
  BY <1>19 DEF Serve
<1>20. CASE ShutDown(m)
  BY <1>20 DEF ShutDown
<1>21. CASE ChildReadsDescriptor(m)
  BY <1>21 DEF ChildReadsDescriptor
<1>22. CASE ChildRemovesDescriptor(m)
  BY <1>22 DEF ChildRemovesDescriptor
<1>23. CASE Leave(m)
  BY <1>23 DEF Leave
<1>24. CASE ReceiveTerm(m)
  BY <1>24 DEF ReceiveTerm
<1>25. CASE ReceiveKill(m)
  BY <1>25 DEF ReceiveKill
<1>26. CASE TaskkillFails(m)
  BY <1>26 DEF TaskkillFails
<1>27. CASE KillFails(m)
  BY <1>27 DEF KillFails
<1>28. CASE Crash(m)
  BY <1>28 DEF Crash
<1>29. CASE Hang(m)
  BY <1>29 DEF Hang
<1>30. CASE RemoveDescriptorFails(m)
  BY <1>30 DEF RemoveDescriptorFails
<1>31. CASE RemoveRootFails(m)
  BY <1>31 DEF RemoveRootFails
<1>32. CASE ChildCleanupFails(m)
  BY <1>32 DEF ChildCleanupFails
<1>. QED
  BY <1>1, <1>2, <1>3, <1>4, <1>5, <1>6, <1>7, <1>8, <1>9, <1>10, <1>11, <1>12, <1>13, <1>14, <1>15, <1>16, <1>17, <1>18, <1>19, <1>20, <1>21, <1>22, <1>23, <1>24, <1>25, <1>26, <1>27, <1>28, <1>29,
     <1>30, <1>31, <1>32
     DEF Start, Await, Stop, Runtime, Signal, Fault

\* Cleanup removes what is there; only a runtime that was not stopped writes more.
LEMMA LeftStep ==
  ASSUME TypeOK, RootInv, ChildInv, StoppedInv, WrittenInv, LeftInv, NEW m \in Managers,
         Start(m) \/ Await(m) \/ Close(m) \/ Stop(m) \/ Runtime(m) \/ Signal(m) \/ Fault(m)
  PROVE  LeftInv'
<1>. USE GivenAssumption, FaultsAssumption DEF TypeOK, RootInv, ChildInv, StoppedInv, WrittenInv, LeftInv, PastTermination, NotStopped, Roots, ParentSteps, ChildSteps, GoTo, Become, Running, Owned, Cleanup, Send, manager, process, files, OwnDescriptor, InUse
<1>1. CASE Prepare(m)
  BY <1>1 DEF Prepare
<1>2. CASE AssertDescriptorAbsent(m)
  BY <1>2 DEF AssertDescriptorAbsent
<1>3. CASE Refuse(m)
  BY <1>3 DEF Refuse
<1>4. CASE Spawn(m)
  BY <1>4 DEF Spawn
<1>5. CASE WaitForDescriptor(m)
  BY <1>5 DEF WaitForDescriptor
<1>6. CASE Probe(m)
  BY <1>6 DEF Probe
<1>7. CASE ObserveExit(m)
  BY <1>7 DEF ObserveExit
<1>8. CASE Close(m)
  BY <1>8 DEF Close
<1>9. CASE AlreadyExited(m)
  BY <1>9 DEF AlreadyExited
<1>10. CASE Terminate(m)
  BY <1>10 DEF Terminate
<1>11. CASE Settles(m)
  BY <1>11 DEF Settles
<1>12. CASE Kill(m)
  BY <1>12 DEF Kill
<1>13. CASE KillTimesOut(m)
  BY <1>13 DEF KillTimesOut
<1>14. CASE ReadDescriptor(m)
  BY <1>14 DEF ReadDescriptor
<1>15. CASE RemoveDescriptor(m)
  BY <1>15 DEF RemoveDescriptor
<1>16. CASE RemoveRoot(m)
  BY <1>16 DEF RemoveRoot
<1>17. CASE BootFails(m)
  BY <1>17 DEF BootFails
<1>18. CASE WriteDescriptor(m)
  BY <1>18 DEF WriteDescriptor
<1>19. CASE Serve(m)
  BY <1>19 DEF Serve
<1>20. CASE ShutDown(m)
  BY <1>20 DEF ShutDown
<1>21. CASE ChildReadsDescriptor(m)
  BY <1>21 DEF ChildReadsDescriptor
<1>22. CASE ChildRemovesDescriptor(m)
  BY <1>22 DEF ChildRemovesDescriptor
<1>23. CASE Leave(m)
  BY <1>23 DEF Leave
<1>24. CASE ReceiveTerm(m)
  BY <1>24 DEF ReceiveTerm
<1>25. CASE ReceiveKill(m)
  BY <1>25 DEF ReceiveKill
<1>26. CASE TaskkillFails(m)
  BY <1>26 DEF TaskkillFails
<1>27. CASE KillFails(m)
  BY <1>27 DEF KillFails
<1>28. CASE Crash(m)
  BY <1>28 DEF Crash
<1>29. CASE Hang(m)
  BY <1>29 DEF Hang
<1>30. CASE RemoveDescriptorFails(m)
  BY <1>30 DEF RemoveDescriptorFails
<1>31. CASE RemoveRootFails(m)
  BY <1>31 DEF RemoveRootFails
<1>32. CASE ChildCleanupFails(m)
  BY <1>32 DEF ChildCleanupFails
<1>. QED
  BY <1>1, <1>2, <1>3, <1>4, <1>5, <1>6, <1>7, <1>8, <1>9, <1>10, <1>11, <1>12, <1>13, <1>14, <1>15, <1>16, <1>17, <1>18, <1>19, <1>20, <1>21, <1>22, <1>23, <1>24, <1>25, <1>26, <1>27, <1>28, <1>29,
     <1>30, <1>31, <1>32
     DEF Start, Await, Stop, Runtime, Signal, Fault

\* A start that finds its root in use is known as overlapped with all who use it.
LEMMA AloneStep ==
  ASSUME TypeOK, RootInv, ChildInv, WrittenInv, AloneInv, NEW m \in Managers,
         Start(m) \/ Await(m) \/ Close(m) \/ Stop(m) \/ Runtime(m) \/ Signal(m) \/ Fault(m)
  PROVE  AloneInv'
<1>. USE GivenAssumption, FaultsAssumption DEF TypeOK, RootInv, ChildInv, WrittenInv, AloneInv, Active, Ended, Roots, ParentSteps, ChildSteps, GoTo, Become, Running, Owned, Cleanup, Send, manager, process, files, OwnDescriptor, InUse
<1>1. CASE Prepare(m)
  BY <1>1 DEF Prepare
<1>2. CASE AssertDescriptorAbsent(m)
  BY <1>2 DEF AssertDescriptorAbsent
<1>3. CASE Refuse(m)
  BY <1>3 DEF Refuse
<1>4. CASE Spawn(m)
  BY <1>4 DEF Spawn
<1>5. CASE WaitForDescriptor(m)
  BY <1>5 DEF WaitForDescriptor
<1>6. CASE Probe(m)
  BY <1>6 DEF Probe
<1>7. CASE ObserveExit(m)
  BY <1>7 DEF ObserveExit
<1>8. CASE Close(m)
  BY <1>8 DEF Close
<1>9. CASE AlreadyExited(m)
  BY <1>9 DEF AlreadyExited
<1>10. CASE Terminate(m)
  BY <1>10 DEF Terminate
<1>11. CASE Settles(m)
  BY <1>11 DEF Settles
<1>12. CASE Kill(m)
  BY <1>12 DEF Kill
<1>13. CASE KillTimesOut(m)
  BY <1>13 DEF KillTimesOut
<1>14. CASE ReadDescriptor(m)
  BY <1>14 DEF ReadDescriptor
<1>15. CASE RemoveDescriptor(m)
  BY <1>15 DEF RemoveDescriptor
<1>16. CASE RemoveRoot(m)
  BY <1>16 DEF RemoveRoot
<1>17. CASE BootFails(m)
  BY <1>17 DEF BootFails
<1>18. CASE WriteDescriptor(m)
  BY <1>18 DEF WriteDescriptor
<1>19. CASE Serve(m)
  BY <1>19 DEF Serve
<1>20. CASE ShutDown(m)
  BY <1>20 DEF ShutDown
<1>21. CASE ChildReadsDescriptor(m)
  BY <1>21 DEF ChildReadsDescriptor
<1>22. CASE ChildRemovesDescriptor(m)
  BY <1>22 DEF ChildRemovesDescriptor
<1>23. CASE Leave(m)
  BY <1>23 DEF Leave
<1>24. CASE ReceiveTerm(m)
  BY <1>24 DEF ReceiveTerm
<1>25. CASE ReceiveKill(m)
  BY <1>25 DEF ReceiveKill
<1>26. CASE TaskkillFails(m)
  BY <1>26 DEF TaskkillFails
<1>27. CASE KillFails(m)
  BY <1>27 DEF KillFails
<1>28. CASE Crash(m)
  BY <1>28 DEF Crash
<1>29. CASE Hang(m)
  BY <1>29 DEF Hang
<1>30. CASE RemoveDescriptorFails(m)
  BY <1>30 DEF RemoveDescriptorFails
<1>31. CASE RemoveRootFails(m)
  BY <1>31 DEF RemoveRootFails
<1>32. CASE ChildCleanupFails(m)
  BY <1>32 DEF ChildCleanupFails
<1>. QED
  BY <1>1, <1>2, <1>3, <1>4, <1>5, <1>6, <1>7, <1>8, <1>9, <1>10, <1>11, <1>12, <1>13, <1>14, <1>15, <1>16, <1>17, <1>18, <1>19, <1>20, <1>21, <1>22, <1>23, <1>24, <1>25, <1>26, <1>27, <1>28, <1>29,
     <1>30, <1>31, <1>32
     DEF Start, Await, Stop, Runtime, Signal, Fault
-----------------------------------------------------------------------------
(* The inductive invariant holds.                                          *)

LEMMA InitInvariant == Init => IInv
<1>. SUFFICES ASSUME Init PROVE IInv
  OBVIOUS
<1>. USE GivenAssumption, FaultsAssumption DEF Init
<1>1. TypeOK
  BY DEF TypeOK, Roots, ParentSteps, ChildSteps
<1>2. RootInv
  BY DEF RootInv
<1>3. ChildInv /\ StoppedInv /\ WrittenInv
  BY DEF ChildInv, StoppedInv, WrittenInv, PastTermination, Roots
<1>4. LeftInv
  BY DEF LeftInv, Roots
<1>5. AloneInv
  BY <1>2 DEF AloneInv, RootInv, Active, Running, Roots
<1>. QED  BY <1>1, <1>2, <1>3, <1>4, <1>5 DEF IInv

LEMMA StepInvariant == IInv /\ [Next]_vars => IInv'
<1>. SUFFICES ASSUME IInv, [Next]_vars PROVE IInv'
  OBVIOUS
<1>1. CASE UNCHANGED vars
  BY <1>1 DEF vars, manager, process, files, IInv, TypeOK, RootInv, ChildInv, StoppedInv, WrittenInv,
              LeftInv, AloneInv, Active, Running, Owned, NotStopped
<1>2. ASSUME NEW m \in Managers,
             Start(m) \/ Await(m) \/ Close(m) \/ Stop(m) \/ Runtime(m) \/ Signal(m) \/ Fault(m)
      PROVE  IInv'
  <2>1. TypeOK /\ RootInv /\ ChildInv /\ StoppedInv /\ WrittenInv /\ LeftInv /\ AloneInv
    BY DEF IInv
  <2>2. TypeOK' /\ RootInv' /\ ChildInv'
    BY <1>2, <2>1, TypeStep, RootStep, ChildStep
  <2>3. StoppedInv' /\ WrittenInv'
    BY <1>2, <2>1, StoppedStep, WrittenStep
  <2>4. LeftInv'
    BY <1>2, <2>1, LeftStep
  <2>5. AloneInv'
    BY <1>2, <2>1, AloneStep
  <2>. QED  BY <2>2, <2>3, <2>4, <2>5 DEF IInv
<1>. QED  BY <1>1, <1>2 DEF Next

\* The invariant holds throughout.
THEOREM InvariantThm == Spec => []IInv
BY InitInvariant, StepInvariant, PTL DEF Spec

-----------------------------------------------------------------------------
(* What follows from it.                                                   *)

\* The types of both sides, and that a descriptor is never without its root
\* (writeDescriptor, startManagedRuntime).
THEOREM TypeThm == Spec => []TypeOK
<1>1. IInv => TypeOK
  BY DEF IInv
<1>. QED  BY <1>1, InvariantThm, PTL

\* A runtime outlives its failed start or its close only if it could not be
\* killed (terminateOwnedChild).
THEOREM OrphanThm == Spec => []NoOrphan
<1>1. IInv => NoOrphan
  BY GivenAssumption DEF IInv, TypeOK, ChildInv, StoppedInv, PastTermination, NoOrphan, NotStopped, Running
<1>. QED  BY <1>1, InvariantThm, PTL

\* A close that succeeds has stopped its runtime, unless the kill failed with an
\* error event (closeManagedRuntime).
THEOREM CloseThm == Spec => []CloseTellsTheTruth
<1>1. IInv => CloseTellsTheTruth
  BY GivenAssumption DEF IInv, TypeOK, ChildInv, StoppedInv, PastTermination, CloseTellsTheTruth, Running
<1>. QED  BY <1>1, InvariantThm, PTL

\* A start refused before it spawned leaves its temporary root, against
\* managed-local-runtime/design.md:57; otherwise a temporary root or the descriptor
\* of a dead runtime stays only when the runtime could not be stopped or the cleanup
\* threw, which a close tells, or in a root that was given to a start that failed
\* (startManagedRuntime, closeManagedRuntime, removeOwnedDescriptor).
THEOREM LeftThm == Spec => []WhatIsLeftBehind
<1>1. IInv => WhatIsLeftBehind
  <2>. SUFFICES ASSUME IInv, NEW m \in Managers
                PROVE  LET Excused == \/ parent[m] = "closeFailed" /\ (unkilled[m] \/ uncleaned[m])
                                      \/ parent[m] = "failed" /\ (NotStopped(m) \/ uncleaned[m])
                                      \/ parent[m] = "closed" /\ outcome[m] = "error"
                       IN  /\ Owned(m) /\ parent[m] = "refused" => rootExists[m]
                           /\ parent[m] \in Ended \ {"refused"} =>
                                /\ Owned(m) /\ rootExists[m] => Excused
                                /\ descriptor[rootOf[m]] = m /\ ~Running(m) =>
                                     Excused \/ (~Owned(m) /\ parent[m] = "failed")
    BY DEF WhatIsLeftBehind
  <2>. DEFINE Excused == \/ parent[m] = "closeFailed" /\ (unkilled[m] \/ uncleaned[m])
                         \/ parent[m] = "failed" /\ (NotStopped(m) \/ uncleaned[m])
                         \/ parent[m] = "closed" /\ outcome[m] = "error"
  <2>1. Owned(m) /\ parent[m] = "refused" => rootExists[m]
    BY DEF IInv, LeftInv
  <2>2. (parent[m] = "closeFailed" => unkilled[m] \/ uncleaned[m]) /\ (parent[m] = "closed" => ~unkilled[m] /\ ~uncleaned[m])
    BY DEF IInv, StoppedInv
  <2>3. ASSUME parent[m] \in Ended \ {"refused"}, Owned(m) /\ rootExists[m] PROVE Excused
    BY <2>2, <2>3 DEF IInv, LeftInv, Ended, NotStopped
  <2>4. ASSUME parent[m] \in Ended \ {"refused"}, descriptor[rootOf[m]] = m
        PROVE  Excused \/ (~Owned(m) /\ parent[m] = "failed")
    BY <2>2, <2>4 DEF IInv, LeftInv, Ended, NotStopped
  <2>. QED  BY <2>1, <2>3, <2>4
<1>. QED  BY <1>1, InvariantThm, PTL

\* A runtime whose root nobody else used at the same time keeps its descriptor
\* until it or its manager removes it (assertDescriptorAbsent,
\* removeOwnedDescriptor).
THEOREM DescriptorThm == Spec => DescriptorKept
<1>. DEFINE Kept(s) ==
       descriptor[s] # None /\ descriptor[s] \notin overlapped /\ descriptor'[s] # descriptor[s] =>
         parent[descriptor[s]] \in {"removing", "removingRoot"} \/ child[descriptor[s]] = "removing"
<1>1. IInv /\ [Next]_vars => [\A s \in Roots : Kept(s)]_vars
  <2>. SUFFICES ASSUME IInv, NEW n \in Managers,
                       Start(n) \/ Await(n) \/ Close(n) \/ Stop(n) \/ Runtime(n) \/ Signal(n) \/ Fault(n),
                       NEW s \in Roots, NEW m \in Managers, descriptor[s] = m, m \notin overlapped,
                       descriptor'[s] # m
                PROVE  parent[m] \in {"removing", "removingRoot"} \/ child[m] = "removing"
    BY DEF Next, IInv, TypeOK
  <2>1. rootOf[m] = s /\ rootOf[n] \in {n, Given} /\ rootOf[m] \in {m, Given} /\ descriptor \in [Roots -> Managers \cup {None}]
    BY DEF IInv, WrittenInv, RootInv, TypeOK
  <2>2. n # m /\ rootOf[n] = s => parent[n] = "preparing" \/ ~Active(n)
    BY <2>1 DEF IInv, AloneInv
  <2>3. CASE WriteDescriptor(n)
    BY <2>1, <2>2, <2>3 DEF WriteDescriptor, Active, Running, IInv, ChildInv
  <2>4. CASE ChildRemovesDescriptor(n)
    BY <2>1, <2>2, <2>4 DEF ChildRemovesDescriptor, Active, Running, IInv, ChildInv
  <2>5. CASE RemoveDescriptor(n)
    BY <2>1, <2>2, <2>5 DEF RemoveDescriptor, Active, Ended
  <2>6. CASE RemoveRoot(n)
    BY <2>1, <2>2, <2>6, GivenAssumption DEF RemoveRoot, Owned
  <2>7. CASE RemoveRootFails(n)
    BY <2>1, <2>2, <2>7, GivenAssumption DEF RemoveRootFails, Owned
  <2>. QED
    BY <2>3, <2>4, <2>5, <2>6, <2>7
       DEF Start, Await, Stop, Runtime, Signal, Fault, files, manager, process,
           Prepare, AssertDescriptorAbsent, Refuse, Spawn, WaitForDescriptor, Probe, ObserveExit, Close,
           AlreadyExited, Terminate, Settles, Kill, KillTimesOut, ReadDescriptor, BootFails, Serve, ShutDown,
           ChildReadsDescriptor, Leave, ReceiveTerm, ReceiveKill, TaskkillFails, KillFails,
           RemoveDescriptorFails, ChildCleanupFails, Crash, Hang
<1>. QED  BY <1>1, InvariantThm, PTL DEF Spec, DescriptorKept
=============================================================================
