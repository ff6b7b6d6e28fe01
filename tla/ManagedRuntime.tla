--------------------------- MODULE ManagedRuntime ---------------------------
(***************************************************************************)
(* startManagedRuntime and close of the SDK, and the runtime processes     *)
(* that they start: the descriptor and the state root that the two share,  *)
(* the signals between them, and their failures.                           *)
(*                                                                         *)
(* Each manager starts one runtime, in a temporary root of its own or in   *)
(* the root that its callers share.  A step is what a process does between *)
(* two awaits.                                                             *)
(***************************************************************************)
EXTENDS Naturals, FiniteSets

CONSTANTS Managers,
          Given,     \* the state root that callers give
          None,
          MaxFaults  \* model bound: crashes, hangs and kills that fail

ASSUME GivenAssumption ==
  Given \notin Managers /\ None \notin Managers \cup {Given} /\ None \notin {"exit", "error"}
ASSUME FaultsAssumption == MaxFaults \in Nat

\* A manager stands for its temporary root, too.
Roots == Managers \cup {Given}

VARIABLES
  platform,    \* of the machine
  rootOf,      \* manager -> its state root
  parent,      \* manager -> where startManagedRuntime or close stands
  closing,     \* manager -> its handle was closed
  outcome,     \* manager -> what observeChild has seen of its child
  unkilled,    \* manager -> terminateOwnedChild has thrown
  uncleaned,   \* manager -> the cleanup after it has thrown
  child,       \* manager -> where the main of its runtime stands
  hung,        \* manager -> its runtime does nothing any more
  signals,     \* manager -> the signals on their way to its runtime
  rootExists,  \* root -> it exists
  descriptor,  \* root -> the manager whose runtime wrote runtime.json
  overlapped,  \* the managers that were given a root still in use (a history)
  faults

manager == <<rootOf, parent, closing, outcome, unkilled, uncleaned>>
process == <<child, hung, signals>>
files == <<rootExists, descriptor>>
vars == <<platform, manager, process, files, overlapped, faults>>

\* preparing to polling are startManagedRuntime before the descriptor is read,
\* stopping to removingRoot closeManagedRuntime and the catch block.
ParentSteps == {"idle", "preparing", "checked", "polling", "probing", "ready",
                "stopping", "terminating", "killing", "reading", "removing", "removingRoot",
                "refused", "failed", "closed", "closeFailed"}
Ended == {"refused", "failed", "closed", "closeFailed"}

\* described is after the descriptor and before the signal handlers; closing is
\* supervisor.shutdown, removing is between the two steps of removeOwnedDescriptor.
ChildSteps == {"none", "booting", "described", "serving", "closing", "reading", "removing", "leaving", "dead"}
Running(m) == child[m] \notin {"none", "dead"}

Owned(m) == rootOf[m] = m

TypeOK ==
  /\ platform \in {"posix", "win32"}
  /\ rootOf \in [Managers -> Roots] /\ parent \in [Managers -> ParentSteps]
  /\ closing \in [Managers -> BOOLEAN]
  /\ unkilled \in [Managers -> BOOLEAN] /\ uncleaned \in [Managers -> BOOLEAN]
  /\ outcome \in [Managers -> {None, "exit", "error"}]
  /\ child \in [Managers -> ChildSteps] /\ hung \in [Managers -> BOOLEAN]
  /\ signals \in [Managers -> SUBSET {"SIGTERM", "SIGKILL"}]
  /\ rootExists \in [Roots -> BOOLEAN] /\ descriptor \in [Roots -> Managers \cup {None}]
  /\ overlapped \subseteq Managers
  /\ faults \in 0..MaxFaults
  /\ \A s \in Roots : descriptor[s] # None => rootExists[s]

Init ==
  /\ platform \in {"posix", "win32"}
  /\ rootOf \in {f \in [Managers -> Roots] : \A m \in Managers : f[m] \in {m, Given}}
  /\ parent = [m \in Managers |-> "idle"] /\ closing = [m \in Managers |-> FALSE]
  /\ outcome = [m \in Managers |-> None]
  /\ unkilled = [m \in Managers |-> FALSE] /\ uncleaned = [m \in Managers |-> FALSE]
  /\ child = [m \in Managers |-> "none"] /\ hung = [m \in Managers |-> FALSE]
  /\ signals = [m \in Managers |-> {}]
  /\ rootExists = [s \in Roots |-> FALSE] /\ descriptor = [s \in Roots |-> None]
  /\ overlapped = {} /\ faults = 0

GoTo(m, step) == parent' = [parent EXCEPT ![m] = step]

-----------------------------------------------------------------------------
(* startManagedRuntime.                                                    *)

InUse(s, m) ==
  \E n \in Managers \ {m} : rootOf[n] = s /\ (parent[n] \notin {"idle"} \cup Ended \/ Running(n))

Prepare(m) ==
  /\ parent[m] = "idle" /\ GoTo(m, "preparing")
  /\ rootExists' = [rootExists EXCEPT ![rootOf[m]] = TRUE]
  /\ overlapped' = IF InUse(rootOf[m], m)
                   THEN overlapped \cup {m} \cup {n \in Managers : rootOf[n] = rootOf[m]}
                   ELSE overlapped
  /\ UNCHANGED <<platform, rootOf, closing, outcome, unkilled, uncleaned, process, descriptor, faults>>

\* Mutant: the descriptor that is there is not looked at.
NothingAsserted(m) ==
  /\ parent[m] = "preparing" /\ GoTo(m, "checked")
  /\ UNCHANGED <<platform, rootOf, closing, outcome, unkilled, uncleaned, process, files, overlapped, faults>>

\* assertDescriptorAbsent.
AssertDescriptorAbsent(m) ==
  /\ parent[m] = "preparing"
  /\ GoTo(m, IF descriptor[rootOf[m]] = None THEN "checked" ELSE "refused")
  /\ UNCHANGED <<platform, rootOf, closing, outcome, unkilled, uncleaned, process, files, overlapped, faults>>

\* What throws before the try is not caught: a root that cannot be made or looked
\* at, a batch launcher without its script, a spawn that throws.
Refuse(m) ==
  /\ parent[m] \in {"preparing", "checked"} /\ GoTo(m, "refused")
  /\ UNCHANGED <<platform, rootOf, closing, outcome, unkilled, uncleaned, process, files, overlapped, faults>>

Spawn(m) ==
  /\ parent[m] = "checked" /\ GoTo(m, "polling")
  /\ \/ child' = [child EXCEPT ![m] = "booting"] /\ UNCHANGED outcome
     \/ outcome' = [outcome EXCEPT ![m] = "error"] /\ UNCHANGED child
  /\ UNCHANGED <<platform, rootOf, closing, unkilled, uncleaned, hung, signals, files, overlapped, faults>>

\* observeChild: the first of exit and error counts.
ObserveExit(m) ==
  /\ child[m] = "dead" /\ outcome[m] = None
  /\ outcome' = [outcome EXCEPT ![m] = "exit"]
  /\ UNCHANGED <<platform, rootOf, parent, closing, unkilled, uncleaned, process, files, overlapped, faults>>

\* The descriptor is that of the child, which runs.
OwnDescriptor(m) == descriptor[rootOf[m]] = m /\ child[m] # "dead"

\* A round of waitForDescriptor, or its deadline, which may come at any round.
WaitForDescriptor(m) ==
  /\ parent[m] = "polling"
  /\ \/ outcome[m] # None /\ GoTo(m, "stopping")
     \/ /\ outcome[m] = None /\ descriptor[rootOf[m]] # None
        /\ GoTo(m, IF OwnDescriptor(m) THEN "probing" ELSE "stopping")
     \/ outcome[m] = None /\ descriptor[rootOf[m]] = None /\ GoTo(m, "stopping")
  /\ UNCHANGED <<platform, rootOf, closing, outcome, unkilled, uncleaned, process, files, overlapped, faults>>

\* client.health() is answered while the runtime listens; nothing bounds it but the
\* time limits of fetch.
Probe(m) ==
  /\ parent[m] = "probing"
  /\ GoTo(m, IF child[m] \in {"described", "serving"} /\ ~hung[m] THEN "ready" ELSE "stopping")
  /\ UNCHANGED <<platform, rootOf, closing, outcome, unkilled, uncleaned, process, files, overlapped, faults>>

\* The first close of the handle; later ones wait for the same promise.
Close(m) ==
  /\ parent[m] = "ready" /\ GoTo(m, "stopping")
  /\ closing' = [closing EXCEPT ![m] = TRUE]
  /\ UNCHANGED <<platform, rootOf, outcome, unkilled, uncleaned, process, files, overlapped, faults>>

-----------------------------------------------------------------------------
(* terminateOwnedChild, and what follows it in closeManagedRuntime and in  *)
(* the catch block of startManagedRuntime.                                 *)

Cleanup(m) == GoTo(m, IF closing[m] THEN "reading" ELSE "removingRoot")

AlreadyExited(m) ==
  /\ parent[m] = "stopping" /\ outcome[m] = "exit" /\ Cleanup(m)
  /\ UNCHANGED <<platform, rootOf, closing, outcome, unkilled, uncleaned, process, files, overlapped, faults>>

Send(m, signal) == signals' = [signals EXCEPT ![m] = IF Running(m) THEN @ \cup {signal} ELSE @]

Terminate(m) ==
  /\ parent[m] = "stopping" /\ outcome[m] # "exit"
  /\ IF platform = "posix"
     THEN GoTo(m, "terminating") /\ Send(m, "SIGTERM")
     ELSE GoTo(m, "killing") /\ Send(m, "SIGKILL")
  /\ UNCHANGED <<platform, rootOf, closing, outcome, unkilled, uncleaned, child, hung, files, overlapped, faults>>

\* taskkill fails and the child does not exit by itself at once.
TaskkillFails(m) ==
  /\ parent[m] = "stopping" /\ outcome[m] = None /\ platform = "win32" /\ faults < MaxFaults
  /\ Cleanup(m) /\ unkilled' = [unkilled EXCEPT ![m] = TRUE] /\ faults' = faults + 1
  /\ UNCHANGED <<platform, rootOf, closing, outcome, uncleaned, process, files, overlapped>>

\* child.kill reports an error instead of sending the signal, and observeChild
\* takes it for the child's outcome.
KillFails(m) ==
  /\ parent[m] = "stopping" /\ outcome[m] = None /\ platform = "posix" /\ faults < MaxFaults
  /\ GoTo(m, "terminating") /\ outcome' = [outcome EXCEPT ![m] = "error"] /\ faults' = faults + 1
  /\ UNCHANGED <<platform, rootOf, closing, unkilled, uncleaned, process, files, overlapped>>

Settles(m) ==
  /\ parent[m] \in {"terminating", "killing"} /\ outcome[m] # None /\ Cleanup(m)
  /\ UNCHANGED <<platform, rootOf, closing, outcome, unkilled, uncleaned, process, files, overlapped, faults>>

\* Mutant: the grace period is waited for and nothing follows.
GivesUp(m) ==
  /\ parent[m] = "terminating" /\ outcome[m] = None /\ Cleanup(m)
  /\ UNCHANGED <<platform, rootOf, closing, outcome, unkilled, uncleaned, process, files, overlapped, faults>>

\* Mutant: the child is waited for as long as it takes.
WaitsForChild(m) ==
  /\ parent[m] = "terminating" /\ outcome[m] = None /\ child[m] = "dead"
  /\ GoTo(m, "killing") /\ Send(m, "SIGKILL")
  /\ UNCHANGED <<platform, rootOf, closing, outcome, unkilled, uncleaned, child, hung, files, overlapped, faults>>

\* The grace period is over.
Kill(m) ==
  /\ parent[m] = "terminating" /\ outcome[m] = None
  /\ GoTo(m, "killing") /\ Send(m, "SIGKILL")
  /\ UNCHANGED <<platform, rootOf, closing, outcome, unkilled, uncleaned, child, hung, files, overlapped, faults>>

KillTimesOut(m) ==
  /\ parent[m] = "killing" /\ outcome[m] = None
  /\ Cleanup(m) /\ unkilled' = [unkilled EXCEPT ![m] = TRUE]
  /\ UNCHANGED <<platform, rootOf, closing, outcome, uncleaned, process, files, overlapped, faults>>

\* removeOwnedDescriptor reads the descriptor,
ReadDescriptor(m) ==
  /\ parent[m] = "reading"
  /\ GoTo(m, IF descriptor[rootOf[m]] = m THEN "removing" ELSE "removingRoot")
  /\ UNCHANGED <<platform, rootOf, closing, outcome, unkilled, uncleaned, process, files, overlapped, faults>>

\* and removes the file, whatever it has become.
RemoveDescriptor(m) ==
  /\ parent[m] = "removing" /\ GoTo(m, "removingRoot")
  /\ descriptor' = [descriptor EXCEPT ![rootOf[m]] = None]
  /\ UNCHANGED <<platform, rootOf, closing, outcome, unkilled, uncleaned, process, rootExists, overlapped, faults>>

\* An error other than ENOENT of its read, parse or rm: the finally block ends
\* before the rm of the root.
RemoveDescriptorFails(m) ==
  /\ parent[m] \in {"reading", "removing"} /\ faults < MaxFaults
  /\ GoTo(m, "closeFailed") /\ uncleaned' = [uncleaned EXCEPT ![m] = TRUE] /\ faults' = faults + 1
  /\ UNCHANGED <<platform, rootOf, closing, outcome, unkilled, process, files, overlapped>>

\* Mutant: the temporary root is left behind.
LeaveRoot(m) ==
  /\ parent[m] = "removingRoot"
  /\ GoTo(m, CASE ~closing[m] -> "failed" [] unkilled[m] -> "closeFailed" [] OTHER -> "closed")
  /\ UNCHANGED <<platform, rootOf, closing, outcome, unkilled, uncleaned, process, files, overlapped, faults>>

\* Mutant: a close that could not stop the runtime succeeds.
RemoveRootAndSucceed(m) ==
  /\ parent[m] = "removingRoot" /\ GoTo(m, IF closing[m] THEN "closed" ELSE "failed")
  /\ rootExists' = [rootExists EXCEPT ![rootOf[m]] = @ /\ ~Owned(m)]
  /\ descriptor' = [descriptor EXCEPT ![rootOf[m]] = IF Owned(m) THEN None ELSE @]
  /\ UNCHANGED <<platform, rootOf, closing, outcome, unkilled, uncleaned, process, overlapped, faults>>

\* The root goes if it is the manager's own.
RemoveRoot(m) ==
  /\ parent[m] = "removingRoot"
  /\ GoTo(m, CASE ~closing[m] -> "failed" [] closing[m] /\ unkilled[m] -> "closeFailed" [] OTHER -> "closed")
  /\ rootExists' = [rootExists EXCEPT ![rootOf[m]] = @ /\ ~Owned(m)]
  /\ descriptor' = [descriptor EXCEPT ![rootOf[m]] = IF Owned(m) THEN None ELSE @]
  /\ UNCHANGED <<platform, rootOf, closing, outcome, unkilled, uncleaned, process, overlapped, faults>>

\* The rm of the root fails, before or after it came to the descriptor.
RemoveRootFails(m) ==
  /\ parent[m] = "removingRoot" /\ Owned(m) /\ faults < MaxFaults
  /\ GoTo(m, IF closing[m] THEN "closeFailed" ELSE "failed")
  /\ uncleaned' = [uncleaned EXCEPT ![m] = TRUE] /\ faults' = faults + 1
  /\ \E d \in {None, descriptor[rootOf[m]]} : descriptor' = [descriptor EXCEPT ![rootOf[m]] = d]
  /\ UNCHANGED <<platform, rootOf, closing, outcome, unkilled, process, rootExists, overlapped>>

-----------------------------------------------------------------------------
(* The main of the runtime.                                                *)

Become(m, step) == child' = [child EXCEPT ![m] = step]

\* startLocalRuntime rejects before it has a descriptor.
BootFails(m) ==
  /\ child[m] = "booting" /\ ~hung[m] /\ Become(m, "dead") /\ signals' = [signals EXCEPT ![m] = {}]
  /\ UNCHANGED <<platform, manager, hung, files, overlapped, faults>>

\* Mutant: the directory is not made.
WriteDescriptorOnly(m) ==
  /\ child[m] = "booting" /\ ~hung[m] /\ Become(m, "described")
  /\ descriptor' = [descriptor EXCEPT ![rootOf[m]] = m]
  /\ UNCHANGED <<platform, manager, hung, signals, rootExists, overlapped, faults>>

\* writeDescriptor makes the directory and replaces the file.
WriteDescriptor(m) ==
  /\ child[m] = "booting" /\ ~hung[m] /\ Become(m, "described")
  /\ rootExists' = [rootExists EXCEPT ![rootOf[m]] = TRUE]
  /\ descriptor' = [descriptor EXCEPT ![rootOf[m]] = m]
  /\ UNCHANGED <<platform, manager, hung, signals, overlapped, faults>>

\* process.once('SIGTERM', close).
Serve(m) ==
  /\ child[m] = "described" /\ ~hung[m] /\ Become(m, "serving")
  /\ UNCHANGED <<platform, manager, hung, signals, files, overlapped, faults>>

\* A handled signal closes the runtime once, an unhandled one ends the process.
ReceiveTerm(m) ==
  /\ "SIGTERM" \in signals[m]
  /\ \/ child[m] \in {"booting", "described"} /\ Become(m, "dead") /\ signals' = [signals EXCEPT ![m] = {}]
     \/ /\ child[m] = "serving" /\ ~hung[m] /\ Become(m, "closing")
        /\ signals' = [signals EXCEPT ![m] = @ \ {"SIGTERM"}]
  /\ UNCHANGED <<platform, manager, hung, files, overlapped, faults>>

ReceiveKill(m) ==
  /\ "SIGKILL" \in signals[m] /\ Running(m)
  /\ Become(m, "dead") /\ signals' = [signals EXCEPT ![m] = {}]
  /\ UNCHANGED <<platform, manager, hung, files, overlapped, faults>>

\* closeRuntime: the supervisor has shut down and the server is closed.
ShutDown(m) ==
  /\ child[m] = "closing" /\ ~hung[m] /\ Become(m, "reading")
  /\ UNCHANGED <<platform, manager, hung, signals, files, overlapped, faults>>

\* removeOwnedDescriptor of the runtime, in two steps as the SDK's.
ChildReadsDescriptor(m) ==
  /\ child[m] = "reading" /\ ~hung[m]
  /\ Become(m, IF descriptor[rootOf[m]] = m THEN "removing" ELSE "leaving")
  /\ UNCHANGED <<platform, manager, hung, signals, files, overlapped, faults>>

ChildRemovesDescriptor(m) ==
  /\ child[m] = "removing" /\ ~hung[m] /\ Become(m, "leaving")
  /\ descriptor' = [descriptor EXCEPT ![rootOf[m]] = None]
  /\ UNCHANGED <<platform, manager, hung, signals, rootExists, overlapped, faults>>

\* Its error is the exit code of the process.
ChildCleanupFails(m) ==
  /\ child[m] \in {"reading", "removing"} /\ ~hung[m] /\ faults < MaxFaults
  /\ Become(m, "leaving") /\ faults' = faults + 1
  /\ UNCHANGED <<platform, manager, hung, signals, files, overlapped>>

Leave(m) ==
  /\ child[m] = "leaving" /\ ~hung[m] /\ Become(m, "dead") /\ signals' = [signals EXCEPT ![m] = {}]
  /\ UNCHANGED <<platform, manager, hung, files, overlapped, faults>>

Crash(m) ==
  /\ Running(m) /\ faults < MaxFaults /\ faults' = faults + 1
  /\ Become(m, "dead") /\ signals' = [signals EXCEPT ![m] = {}]
  /\ UNCHANGED <<platform, manager, hung, files, overlapped>>

Hang(m) ==
  /\ Running(m) /\ ~hung[m] /\ faults < MaxFaults /\ faults' = faults + 1
  /\ hung' = [hung EXCEPT ![m] = TRUE]
  /\ UNCHANGED <<platform, manager, child, signals, files, overlapped>>

-----------------------------------------------------------------------------
Start(m) == Prepare(m) \/ AssertDescriptorAbsent(m) \/ Refuse(m) \/ Spawn(m)
Await(m) == WaitForDescriptor(m) \/ Probe(m) \/ ObserveExit(m)
Stop(m) == AlreadyExited(m) \/ Terminate(m) \/ Settles(m) \/ Kill(m) \/ KillTimesOut(m)
           \/ ReadDescriptor(m) \/ RemoveDescriptor(m) \/ RemoveRoot(m)
Runtime(m) == BootFails(m) \/ WriteDescriptor(m) \/ Serve(m) \/ ShutDown(m)
              \/ ChildReadsDescriptor(m) \/ ChildRemovesDescriptor(m) \/ Leave(m)
Signal(m) == ReceiveTerm(m) \/ ReceiveKill(m)
Fault(m) == TaskkillFails(m) \/ KillFails(m) \/ RemoveDescriptorFails(m) \/ RemoveRootFails(m)
            \/ ChildCleanupFails(m) \/ Crash(m) \/ Hang(m)

Next == \E m \in Managers : Start(m) \/ Await(m) \/ Close(m) \/ Stop(m) \/ Runtime(m) \/ Signal(m) \/ Fault(m)

Spec == Init /\ [][Next]_vars

\* The host's event loop and timers run.  Nothing is assumed of the runtime.
FairSpec == Spec /\ \A m \in Managers : WF_vars(Start(m) \/ WaitForDescriptor(m) \/ Probe(m) \/ Stop(m))

-----------------------------------------------------------------------------
\* terminateOwnedChild did not see its child exit: it threw, or took the error of a
\* kill for an exit.
NotStopped(m) == unkilled[m] \/ outcome[m] = "error"

\* When close returns, or a start has failed, the runtime is gone, unless it could
\* not be killed (terminateOwnedChild).
NoOrphan == \A m \in Managers : parent[m] \in {"failed", "closed"} /\ Running(m) => NotStopped(m)

\* close reports a runtime that it could not stop, but for a kill that failed with
\* an error event; a start that fails does not.
CloseTellsTheTruth ==
  \A m \in Managers : parent[m] = "closed" /\ Running(m) => outcome[m] = "error"

\* What a manager leaves behind.  A start refused before it spawned always leaves
\* its temporary root (managed-local-runtime/design.md:57 has it removed; lines 61
\* to 72 of managed-runtime.ts are before the try).  Otherwise a temporary root, or
\* a dead runtime's descriptor, which makes every later start on its root fail, is
\* there only when the runtime could not be stopped or the cleanup threw, and a
\* close then rejects, but for a kill that failed with an error event; and a start
\* that fails after its runtime wrote the descriptor into a root that it was given
\* leaves it there (closeManagedRuntime, removeOwnedDescriptor, the catch block).
WhatIsLeftBehind ==
  \A m \in Managers :
    LET Excused == \/ parent[m] = "closeFailed" /\ (unkilled[m] \/ uncleaned[m])
                   \/ parent[m] = "failed" /\ (NotStopped(m) \/ uncleaned[m])
                   \/ parent[m] = "closed" /\ outcome[m] = "error"
    IN  /\ Owned(m) /\ parent[m] = "refused" => rootExists[m]
        /\ parent[m] \in Ended \ {"refused"} =>
             /\ Owned(m) /\ rootExists[m] => Excused
             /\ descriptor[rootOf[m]] = m /\ ~Running(m) => Excused \/ (~Owned(m) /\ parent[m] = "failed")

\* The descriptor of a runtime is replaced or removed by nobody else when the
\* managers of its root come one after another; a start that fails may remove
\* nothing (assertDescriptorAbsent, removeOwnedDescriptor).
DescriptorKept ==
  [][\A s \in Roots : LET m == descriptor[s] IN
       m # None /\ m \notin overlapped /\ descriptor'[s] # m =>
         parent[m] \in {"removing", "removingRoot"} \/ child[m] = "removing"]_vars

\* A start ends and a close ends, whatever the runtime does (waitForDescriptor,
\* terminateOwnedChild).
StartsAndClosesEnd ==
  \A m \in Managers :
    /\ parent[m] = "preparing" ~> parent[m] \in Ended \cup {"ready"}
    /\ parent[m] = "stopping" ~> parent[m] \in Ended
=============================================================================
