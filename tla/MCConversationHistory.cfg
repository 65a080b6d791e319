SPECIFICATION Spec
CONSTANTS
  c1 = c1
  c2 = c2
  c3 = c3
  t1 = t1
  Questions = {q1, q2}
  SavedTurns = {t1}
  Convs = {c1, c2}
  NoConv = NoConv
  Saved <- MCSaved
  Absent = Absent
  Empty = Empty
  Garbage = Garbage
  NoTurn = NoTurn
  MaxTurns = 2
  MaxActive = 2
SYMMETRY Symmetry
INVARIANTS SerialHistory NoForeignTurn AnswerRecorded
CHECK_DEADLOCK FALSE
