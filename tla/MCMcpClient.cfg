CHECK_DEADLOCK FALSE
SPECIFICATION FairSpec
CONSTANTS
  Templates = 2
  Hints = 1
  MaxSessions = 3
  MaxNoise = 1
INVARIANTS CallAfterInitialize ProbeVerdict
PROPERTIES ImplementsToolCall CallersAndReadersEnd
