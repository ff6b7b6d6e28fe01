CONSTANTS
  Runs = {r1, r2}
  Sessions = {s1, s2}
  NoRun = NoRun
  MaxEvents = 2
  MaxCrashes = 2
  MaxFaults = 1
SPECIFICATION FairSpec
INVARIANTS LogIsReadable StatusFollowsLog NoneLeftBehind
PROPERTIES StatusIsFinal ImplementsDurableLog RecoverySettlesRuns
CHECK_DEADLOCK FALSE
