CHECK_DEADLOCK FALSE
SPECIFICATION Spec
SYMMETRY Symmetry
CONSTANTS
  None = None Garbage = Garbage
  r1 = r1 r2 = r2 c1 = c1 c2 = c2 u1 = u1 u2 = u2 f1 = f1 f2 = f2
  d1 = d1 d2 = d2 cpu = cpu bfd = bfd
  showCpu = showCpu showLog = showLog
  Requests = {r1, r2}
  Conversations = {c1, c2}
  Users = {u1, u2}
  Files = {f1, f2}
  FileOf <- MCFileOf
  Plain = {u1}
  Devices = {d1, d2}
  HasIp = {d1, d2}
  Intents = {cpu, bfd}
  LogAided = {cpu}
  Commands = {showCpu, showLog}
  TopicOf <- MCTopicOf
  Inferred <- MCInferred
  Template <- MCTemplate
INVARIANTS EvidenceOwn FollowupJustified SerialContext
PROPERTIES EvidenceKept
