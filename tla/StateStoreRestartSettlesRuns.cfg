CONSTANTS
  Runs = {r1, r2}
  Sessions = {s1, s2}
  NoRun = NoRun
  MaxEvents = 2
  MaxCrashes = 1
  MaxFaults = 0
SPECIFICATION FairSpec
PROPERTY RestartSettlesRuns
CHECK_DEADLOCK FALSE
