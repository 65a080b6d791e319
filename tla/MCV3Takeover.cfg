CHECK_DEADLOCK FALSE
SPECIFICATION Spec
SYMMETRY Symmetry
CONSTANTS
  q1 = q1 q2 = q2 canary1 = canary1 plain = plain
  tester = tester other = other t1 = t1 t2 = t2
  Questions = {q1, q2}
  Conversations = {canary1, plain}
  Canary = {canary1}
  Users = {tester, other}
  AllowedUsers = {tester}
  Texts = {t1, t2}
  TypedIn <- MCTypedIn
  Named = {"general_chat", "advice_analysis", "analyze_existing_evidence",
           "execute_provided_commands", "need_clarification"}
  Confidences = {0, 3}
  Thresholds = {0, 3}
  MaxTurns = 2
INVARIANTS TakeoverJustified AnswersRemembered
