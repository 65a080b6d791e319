SPECIFICATION Spec
CONSTANTS
  r1 = r1
  r2 = r2
  c1 = c1
  c2 = c2
  t1 = t1
  t2 = t2
  error = error
  Requests = {r1, r2}
  Convs = {c1, c2}
  NoConv = NoConv
  Older = Older
  Texts = {t1, error}
  ErrorText = error
  SavedTexts <- MCSavedTexts
  BridgeTexts <- MCBridgeTexts
  AllowedActions <- MCAllowedActions
  OtherActions <- MCOtherActions
  MaxHistory = 3
  MaxActive = 2
  Turns <- MCTurns
  Refs = {r1, r2}
  Devices = {}
  NoDevice = NoDevice
  SavedTurns <- NoTurnLists
  Absent = Absent
  Garbage = Garbage
  MaxTurns = 2
  MaxRefs = 2
  MaxRevision = 4
  MaxDamage = 1
SYMMETRY Symmetry
INVARIANTS OkReplyRecorded RefsResolve ErrorNotAuditedOk FallbackLeavesNoTrace
PROPERTIES QuarantineShown
CHECK_DEADLOCK FALSE
