\* Two runs on two sessions, one active at a time, one idempotency key, one run
\* whose failure cannot be recorded.
SPECIFICATION FairSpec
CONSTANTS
  Runs = {r1, r2}
  Sessions = {s1, s2}
  Keys = {k1}
  NoRun = NoRun
  NoSession = NoSession
  NoKey = NoKey
  MaxConcurrentRuns = 1
  MaxUnrecorded = 1
INVARIANTS ConcurrencyBound OneRunPerSession StartsOncePerKey ReleasedIsRecorded SessionNotStuck
PROPERTY TerminalIsFinal StreamingRunsEnd
\* The run ids are finite.
CHECK_DEADLOCK FALSE
