\* Two runs with several policies, two request ids, one of them used by both runs,
\* and two calls of clients.
SPECIFICATION FairSpec
CONSTANTS
  r1 = r1
  r2 = r2
  q1 = q1
  q2 = q2
  Runs <- TwoRuns
  RequestIds <- TwoIds
  IdsOf <- OneShared
  RequestOf <- ReadAndEdit
  PolicyChoices <- FourPolicies
  MaxCalls = 2
  NoRun = NoRun
  NoId = NoId
  MaxAsked = 2
INVARIANTS TypeOK PendingIsAnswerable RacesDoNotFailRuns
PROPERTIES ImplementsAnswerOnce InteractionsAreSettled
\* Runs end.
CHECK_DEADLOCK FALSE
