\* One permission, no tools.
SPECIFICATION Spec
CONSTANTS
  Tools = {}
  NamedCalls = {c1}
  UnnamedCalls = {}
  Questions = {}
  ReadOnly = FALSE
  n1 = n1
  NumberedIds <- OneNumber
  NoId = NoId
  MaxActivity = 1
INVARIANT ResolvedBeforeTheEnd
\* A run that is over stops.
CHECK_DEADLOCK FALSE
