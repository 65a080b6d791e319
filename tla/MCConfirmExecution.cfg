CHECK_DEADLOCK FALSE
SPECIFICATION FairSpec
CONSTANTS
  c1 = c1
  c2 = c2
  u1 = u1
  u2 = u2
  f1 = f1
  f2 = f2
  a = a
  b = b
  x = x
  Convs = {c1, c2}
  Users = {u1, u2}
  CompareUsers = {u1, u2}
  UserFiles = {f1, f2}
  UserFile <- MCUserFile
  Commands = {a, b, x}
  Guard <- MCGuard
  Lists <- MCLists
  Typed <- MCTyped
  Numbers = {0, 1, 2}
  MaxBatch = 2
  MaxRequests = 2
  NoEntry = NoEntry
  Torn = Torn
INVARIANTS OnlyGuardedCommandsSent BatchLimit YesWithoutPlanner NoSuccessRepeated
PROPERTIES ListIsolation Answered
