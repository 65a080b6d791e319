SPECIFICATION FairSpec
CONSTANTS
  t1 = t1
  t2 = t2
  t3 = t3
  Turns = {t1, t2, t3}
  Refs = {r1}
  Devices = {}
  NoDevice = NoDevice
  SavedTurns <- MCSavedTurns
  Absent = Absent
  Garbage = Garbage
  MaxTurns = 2
  MaxRefs = 1
  MaxRevision = 2
  Procs = {p1, p2}
  NoProc = NoProc
  MaxDamage = 1
INVARIANTS StoredWellFormed AcknowledgedSurvives
PROPERTIES GarbageNeverOverwritten NoLostUpdate ImplementsAtomicContext LockReleased
