\* One run, cancelled while its adapter starts.
SPECIFICATION FairSpec
CONSTANTS
  Runs = {r1}
  Sessions = {s1}
  Keys = {}
  NoRun = NoRun
  NoSession = NoSession
  NoKey = NoKey
  MaxConcurrentRuns = 1
  MaxUnrecorded = 0
PROPERTY CancelEndsRun
\* The run ids are finite.
CHECK_DEADLOCK FALSE
