CHECK_DEADLOCK FALSE
SPECIFICATION Spec
CONSTANTS
  c1 = c1
  c2 = c2
  u1 = u1
  u2 = u2
  f1 = f1
  f2 = f2
  a = a
  b = b
  x = x
  Convs = {c1, c2}
  Users = {u1}
  CompareUsers = {}
  UserFiles = {f1, f2}
  UserFile <- MCSharedUserFile
  Commands = {a, b, x}
  Guard <- MCGuard
  Lists <- MCShortLists
  Typed <- MCTypedOne
  Numbers = {0, 1, 2}
  MaxBatch = 2
  MaxRequests = 2
  NoEntry = NoEntry
  Torn = Torn
INVARIANTS ExplicitYes
