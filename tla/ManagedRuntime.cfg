\* Two managers on temporary roots or on one root, and one fault.
SPECIFICATION FairSpec
CONSTANTS
  m1 = m1
  m2 = m2
  Managers <- TwoManagers
  Given = Given
  None = None
  MaxFaults = 1
INVARIANTS TypeOK NoOrphan CloseTellsTheTruth 
PROPERTIES DescriptorKept StartsAndClosesEnd
\* Starts and closes end.
CHECK_DEADLOCK FALSE
