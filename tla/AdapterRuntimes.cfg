\* Two tools, a question with an id and two permissions without.  Any two things
\* the vendor may do meet every answer, cancel, disposal, failure and timer, and
\* so do all three calls, of which two can get the same numbered id.  And every
\* scenario of the reference adapter.
SPECIFICATION AllFairSpec
CONSTANTS
  Tools = {t1, t2}
  NamedCalls = {c1}
  UnnamedCalls = {u1, u2}
  Questions = {c1}
  ReadOnly = FALSE
  n1 = n1
  n2 = n2
  n3 = n3
  NumberedIds <- ThreeNumbers
  NoId = NoId
  MaxActivity = 2
  RunRequest = q1
  Chunks = 2
INVARIANTS AllTypeOK OneTerminalAtTheEnd ToolsSettledBeforeTheEnd NobodyIsLeftWaiting
PROPERTIES RunStreamsAreImplemented RunsEnd
\* A run that is over stops.
CHECK_DEADLOCK FALSE
