\* One client, a queue of three events, a run of at most six events, three faults.
\* Clients share nothing but the publisher's steps: the proofs are for any set of
\* them.  The run checks liveness.
SPECIFICATION FairSpec
CONSTANTS
  Clients = {c1}
  MaxBufferedEvents = 3
  MaxEvents = 6
  MaxFaults = 3
INVARIANTS ReceivedInOrder DeliveredIsPersisted NoMissedWakeUp ClosedAtTheEnd
PROPERTY EventuallyComplete
\* A run whose #finishWithFailure failed too publishes nothing any more.
CHECK_DEADLOCK FALSE
