SPECIFICATION LiveSpec
CONSTANTS
  d1 = d1
  d2 = d2
  d3 = d3
  d4 = d4
  d5 = d5
  d6 = d6
  d7 = d7
  d8 = d8
  d9 = d9
  None = None
  Devices = {d1, d2, d3, d4, d5, d6, d7, d8, d9}
  Type <- MCType
  OtherNames <- MCOtherNames
  Questions <- MCQuestions
  Plans <- MCPlans
  Contexts <- MCContexts
  PendingLists <- MCPendingLists
  Results <- MCResults
  PerCommand = 2
  Total = 3
  MaxBatch = 2
  Categories = {"cpu", "memory", "route_table", "bgp", "bfd", "interface_status", "interface_error", "optical_power", "log", "device_health"}
  MaxStored = 2
  MaxQuestions = 1
INVARIANTS EvidenceIsBeginning AnalysisGrounded NamedDeviceWins GeneratedListPasses
PROPERTIES Answered
CHECK_DEADLOCK FALSE
