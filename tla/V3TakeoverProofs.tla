-------------------------- MODULE V3TakeoverProofs --------------------------
(***************************************************************************)
(* What an answer of V3 rests on, and what the follow-up files hold, for   *)
(* every set of questions, conversations, users and texts.                 *)
(***************************************************************************)
EXTENDS V3Takeover, SequenceTheorems, TLAPS

Wrapping == {"rebuild", "judge", "read", "replace"}

\* A question in the wrapper is of the canary, and its plan is what the
\* dispatcher makes of its decision.
Watched(q) ==
  /\ pc[q] \in Wrapping => InCanary(q)
  /\ pc[q] \in {"read", "replace"} => reply[q] # "none"
  /\ \E typed \in Commands : shadow[q].plan = Plan(shadow[q].decision, typed)

\* The turns of one conversation, each once, no more than the limit.
Good(turns, c) ==
  /\ turns \in Seq(AllTurns)
  /\ Len(turns) <= MaxTurns
  /\ \A i, j \in 1..Len(turns) : turns[i].conv = c /\ (turns[i] = turns[j] => i = j)

Kept(c) == Good(store[c], c) /\ (c \notin Canary => store[c] = <<>>)

\* A writer holds turns of its own conversation.
Drafted(q) == pc[q] = "replace" => Good(draft[q], Conv(q))

\* Without two writers at a time the one there is has read what the file shows,
\* or nothing.
Serial(c) ==
  /\ store[c] = promised[c]
  /\ \A p, q \in Writing(c) : p = q
  /\ \A q \in Writing(c) : draft[q] = IF q \in misread THEN <<>> ELSE promised[c]

PlanSet == [action : Actions \cup {"blocked_unsafe_commands"}, accepted : BOOLEAN,
            effective : Levels, safe : BOOLEAN]

ShadowSet == [built : BOOLEAN, decision : Decisions, available : BOOLEAN, plan : PlanSet]

-----------------------------------------------------------------------------
(* Arbiter and dispatcher *)

LEMMA ConfidenceType == Confidences \cup {0} \subseteq Levels
<1>1. Confidences \subseteq 0..3
  BY ThresholdsAssumption, Zenon
<1>2. 0 \in 0..3
  OBVIOUS
<1> QED BY <1>1, <1>2 DEF Levels

LEMMA DecisionType ==
  ASSUME NEW d \in Decisions
  PROVE  /\ d.action \in Actions
         /\ d.confidence \in Levels
         /\ d.commands \in Commands
<1>1. PICK f \in LlmAnswers, s \in LlmAnswers, p \in Payloads : d = Decide(f, s, p)
  BY DEF Decisions
<1>2. CASE Parsed(Called(f, s)) /\ p.action # "unknown"
  <2> DEFINE n == NormalizePayload(p)
  <2>1. n \in Payloads /\ n.action # "unknown"
    BY <1>2 DEF NormalizePayload, Payloads, Commands
  <2> HIDE DEF n
  <2>2. d = Validated(n)
    BY <1>1, <1>2 DEF Decide, n
  <2>3. n.action \in Actions /\ n.confidence \in Levels /\ n.commands \in Commands
    <3>1. n.action \in Named /\ n.confidence \in Confidences \cup {0} /\ n.commands \in Commands
      BY <2>1 DEF Payloads
    <3>2. n.confidence \in Levels
      BY <3>1, ConfidenceType
    <3> QED BY <3>1, <3>2, NamedAssumption DEF Actions, Executing, StageAllowed
  <2> QED BY <2>1, <2>2, <2>3 DEF Validated, Payloads, Commands
<1>3. CASE ~(Parsed(Called(f, s)) /\ p.action # "unknown")
  <2>1. d = Unclear
    BY <1>1, <1>3 DEF Decide
  <2> QED BY <2>1 DEF Unclear, Actions, Levels, Commands
<1> QED BY <1>2, <1>3

LEMMA EffectiveType ==
  ASSUME NEW d \in Decisions
  PROVE  EffectiveConfidence(d) \in Levels
BY DecisionType DEF EffectiveConfidence, Cap, ClarifyThreshold, AcceptThreshold, Levels

LEMMA PlanType ==
  ASSUME NEW d \in Decisions, NEW typed \in Commands
  PROVE  Plan(d, typed) \in PlanSet
<1>1. d.action \in Actions /\ d.commands \in Commands /\ EffectiveConfidence(d) \in Levels
  BY DecisionType, EffectiveType
<1>2. 0 \in Levels /\ "need_clarification" \in Actions
  BY DEF Levels, Actions
<1>3. Clarification(EffectiveConfidence(d)) \in PlanSet
  BY <1>1, <1>2 DEF Clarification, MakePlan, PlanSet
<1>4. MakePlan(d.action, TRUE, EffectiveConfidence(d), TRUE) \in PlanSet
  BY <1>1 DEF MakePlan, PlanSet
<1>5. ExecutionPlan(d, typed) \in PlanSet
  <2> DEFINE commands == IF d.commands # "none" THEN d.commands ELSE typed
  <2>1. commands \in {"none", "safe", "unsafe"}
    BY <1>1 DEF Commands
  <2>2. CASE commands = "none"
    BY <1>2, <2>2 DEF ExecutionPlan, Clarification, MakePlan, PlanSet
  <2>3. CASE commands = "unsafe"
    BY <1>2, <2>3 DEF ExecutionPlan, MakePlan, PlanSet
  <2>4. CASE commands = "safe"
    BY <1>4, <2>4 DEF ExecutionPlan
  <2> QED BY <2>1, <2>2, <2>3, <2>4
<1> QED BY <1>3, <1>4, <1>5 DEF Plan

\* For an action of this stage the plan carries the confidence that is left,
\* and is accepted only above the threshold of a clarification.
LEMMA PlanOfStage ==
  ASSUME NEW d \in Decisions, NEW typed \in Commands, d.action \in StageAllowed
  PROVE  /\ Plan(d, typed).effective = EffectiveConfidence(d)
         /\ Plan(d, typed).accepted => EffectiveConfidence(d) >= ClarifyThreshold
<1>1. d.action \notin Executing /\ d.action # "need_clarification"
  BY DEF StageAllowed, Executing
<1>2. EffectiveConfidence(d) \in Levels
  BY EffectiveType
<1> QED BY <1>1, <1>2
        DEF Plan, MakePlan, Clarification, Levels, ClarifyThreshold, AcceptThreshold

LEMMA UnclearDecided ==
  /\ Unclear \in Decisions
  /\ Clarification(0) = Plan(Unclear, "none")
  /\ NoShadow \in ShadowSet
<1>1. Unclear \in Decisions
  <2> DEFINE p == [action |-> "unknown", confidence |-> 0, commands |-> "none",
                   executes |-> FALSE, clarifies |-> FALSE]
  <2>1. p \in Payloads /\ "failed" \in LlmAnswers
    BY DEF Payloads, Commands, LlmAnswers
  <2>2. Unclear = Decide("failed", "failed", p)
    BY DEF Decide, Parsed, Called
  <2> HIDE DEF p
  <2> QED BY <2>1, <2>2 DEF Decisions
<1>2. Clarification(0) = Plan(Unclear, "none")
  BY DEF Clarification, Plan, Unclear, EffectiveConfidence, Cap, ClarifyThreshold
<1>3. Plan(Unclear, "none") \in PlanSet
  BY <1>1, PlanType DEF Commands
<1> QED BY <1>1, <1>2, <1>3 DEF NoShadow, ShadowSet

-----------------------------------------------------------------------------
(* Turns *)

LEMMA EmptyGood == \A c : Good(<<>>, c)
BY EmptySeq, MaxTurnsAssumption DEF Good

LEMMA TurnType ==
  ASSUME NEW c \in Conversations, NEW t \in Texts, NEW source \in {"older"} \cup Sources
  PROVE  Turn(c, t, source) \in AllTurns /\ Turn(c, t, source).conv = c
BY DEF Turn, AllTurns

LEMMA LastNGood ==
  ASSUME NEW c, NEW h \in Seq(AllTurns),
         \A i, j \in 1..Len(h) : h[i].conv = c /\ (h[i] = h[j] => i = j)
  PROVE  Good(LastN(h, MaxTurns), c)
<1>1. CASE Len(h) <= MaxTurns
  BY <1>1 DEF LastN, Good
<1>2. CASE Len(h) > MaxTurns
  <2> DEFINE m == Len(h) - MaxTurns + 1
             u == SubSeq(h, m, Len(h))
  <2>1. Len(h) \in Nat /\ MaxTurns \in Nat \ {0}
    BY LenProperties, MaxTurnsAssumption
  <2>2. m \in 1..Len(h) + 1 /\ Len(h) - m + 1 = MaxTurns /\ m \in 1..Len(h)
    BY <1>2, <2>1
  <2>3. /\ u \in Seq(AllTurns)
        /\ Len(u) = MaxTurns
        /\ \A i \in 1..MaxTurns : u[i] = h[m + i - 1] /\ m + i - 1 \in 1..Len(h)
    BY <1>2, <2>1, <2>2, SubSeqProperties, ElementOfSeq
  <2>4. LastN(h, MaxTurns) = u
    BY <1>2, <2>1 DEF LastN
  <2>5. \A i, j \in 1..Len(u) : u[i].conv = c /\ (u[i] = u[j] => i = j)
    <3> SUFFICES ASSUME NEW i \in 1..MaxTurns, NEW j \in 1..MaxTurns
                 PROVE  u[i].conv = c /\ (u[i] = u[j] => i = j)
      BY <2>3
    <3>1. u[i] = h[m + i - 1] /\ m + i - 1 \in 1..Len(h)
          /\ u[j] = h[m + j - 1] /\ m + j - 1 \in 1..Len(h)
      BY <2>3
    <3> HIDE DEF u
    <3>2. u[i].conv = c /\ (u[i] = u[j] => m + i - 1 = m + j - 1)
      BY <3>1
    <3> QED BY <3>2, <2>2, <2>1
  <2> HIDE DEF u, m
  <2>6. Good(u, c)
    <3>1. u \in Seq(AllTurns)
      BY <2>3, Zenon
    <3>2. Len(u) <= MaxTurns
      BY <2>1, <2>3
    <3> QED BY <3>1, <3>2, <2>5, Zenon DEF Good
  <2> QED BY <2>4, <2>6, Zenon
<1> QED BY <1>1, <1>2, LenProperties, MaxTurnsAssumption

\* A recorded turn keeps the file good.
LEMMA WithTurnGood ==
  ASSUME NEW c, NEW h, Good(h, c), NEW turn \in AllTurns, turn.conv = c
  PROVE  Good(WithTurn(h, turn), c)
<1>1. CASE Holds(h, turn)
  BY <1>1 DEF WithTurn
<1>2. CASE ~Holds(h, turn)
  <2> DEFINE a == Append(h, turn)
  <2>1. /\ a \in Seq(AllTurns)
        /\ Len(a) = Len(h) + 1
        /\ \A i \in 1..Len(h) : a[i] = h[i]
        /\ a[Len(h) + 1] = turn
        /\ Len(h) \in Nat
    BY AppendProperties, LenProperties DEF Good
  <2> HIDE DEF a
  <2>2. \A i \in 1..Len(a) : i \in 1..Len(h) \/ i = Len(h) + 1
    BY <2>1
  <2>3. \A i, j \in 1..Len(a) : a[i].conv = c /\ (a[i] = a[j] => i = j)
    BY <1>2, <2>1, <2>2 DEF Good, Holds
  <2>4. Good(LastN(a, MaxTurns), c)
    BY <2>1, <2>3, LastNGood
  <2> QED BY <1>2, <2>4 DEF WithTurn, a
<1> QED BY <1>1, <1>2

LEMMA WithTurnType ==
  ASSUME NEW h \in Seq(AllTurns), NEW turn \in AllTurns
  PROVE  WithTurn(h, turn) \in Seq(AllTurns)
<1>1. Append(h, turn) \in Seq(AllTurns)
  BY AppendProperties
<1>2. ASSUME NEW a \in Seq(AllTurns) PROVE LastN(a, MaxTurns) \in Seq(AllTurns)
  <2>1. CASE Len(a) <= MaxTurns
    BY <2>1 DEF LastN
  <2>2. CASE Len(a) > MaxTurns
    <3>1. Len(a) \in Nat /\ MaxTurns \in Nat \ {0}
      BY LenProperties, MaxTurnsAssumption
    <3>2. Len(a) - MaxTurns + 1 \in 1..Len(a) + 1
      BY <2>2, <3>1
    <3>3. SubSeq(a, Len(a) - MaxTurns + 1, Len(a)) \in Seq(AllTurns)
      BY <2>2, <3>1, <3>2, SubSeqProperties, ElementOfSeq
    <3> QED BY <2>2, <3>1, <3>3 DEF LastN
  <2> QED BY <2>1, <2>2, LenProperties, MaxTurnsAssumption
<1> QED BY <1>1, <1>2 DEF WithTurn

LEMMA SavedGood ==
  ASSUME NEW c \in Conversations, NEW h \in Saved(c)
  PROVE  Good(h, c)
<1>1. CASE h = <<>>
  BY <1>1, EmptyGood
<1>2. ASSUME NEW t \in Texts, h = LastN(<<Turn(c, t, "older"), Turn(c, t, "llm")>>, MaxTurns)
      PROVE  Good(h, c)
  <2> DEFINE a == Turn(c, t, "older")
             b == Turn(c, t, "llm")
  <2>1. a \in AllTurns /\ b \in AllTurns /\ a.conv = c /\ b.conv = c
    BY TurnType DEF Sources
  <2>2. a # b
    BY DEF Turn
  <2> HIDE DEF a, b
  <2>3. <<a, b>> \in Seq(AllTurns) /\ Len(<<a, b>>) = 2 /\ <<a, b>>[1] = a /\ <<a, b>>[2] = b
    BY <2>1
  <2>4. \A i, j \in 1..Len(<<a, b>>) :
          <<a, b>>[i].conv = c /\ (<<a, b>>[i] = <<a, b>>[j] => i = j)
    <3>1. \A i \in 1..2 : i = 1 \/ i = 2
      OBVIOUS
    <3> QED BY <2>1, <2>2, <2>3, <3>1
  <2>5. Good(LastN(<<a, b>>, MaxTurns), c)
    BY <2>3, <2>4, LastNGood
  <2> QED BY <1>2, <2>5 DEF a, b
<1> QED BY <1>1, <1>2 DEF Saved

-----------------------------------------------------------------------------
(* The invariant *)

Justified(q) ==
  pc[q] \in {"read", "replace"} /\ reply[q] \in Sources =>
    LET d == shadow[q].decision
    IN /\ InCanary(q)
       /\ d.action \in StageAllowed
       /\ EffectiveConfidence(d) >= env.threshold
       /\ EffectiveConfidence(d) >= ClarifyThreshold
       /\ reply[q] \in env.sources
       /\ d.action = "analyze_existing_evidence" => shadow[q].available

Own(q) == Watched(q) /\ Drafted(q) /\ Justified(q)

Inv ==
  /\ TypeOK
  /\ \A q \in Questions : Own(q)
  /\ \A c \in Conversations : Kept(c) /\ (c \notin overlapped => Serial(c))

LEMMA Known ==
  /\ NoAsk \in Asked
  /\ NoShadow \in ShadowSet
  /\ <<>> \in Seq(AllTurns)
  /\ {"free", "done", "dead", "shadow", "route", "handed", "rebuild", "judge", "read",
      "replace"} \subseteq Labels
BY InputAssumption, UnclearDecided, EmptySeq DEF NoAsk, Asked, Labels

\* A question that is nowhere yet, or gone.
LEMMA Outside ==
  ASSUME NEW q \in Questions, pc[q] \notin Wrapping, shadow[q] = NoShadow
  PROVE  Own(q)
<1>1. NoShadow.plan = Plan(NoShadow.decision, "none") /\ "none" \in Commands
  BY UnclearDecided DEF NoShadow, Commands
<1> QED BY <1>1 DEF Own, Watched, Drafted, Justified, Wrapping

THEOREM InitInv == Init => Inv
<1> SUFFICES ASSUME Init PROVE Inv
  OBVIOUS
<1>1. PICK f \in [Canary -> UNION {Saved(c) : c \in Canary}] :
        /\ \A c \in Canary : f[c] \in Saved(c)
        /\ store = [c \in Conversations |-> IF c \in Canary THEN f[c] ELSE <<>>]
  BY DEF Init
<1>2. \A c \in Conversations : Good(store[c], c) /\ (c \notin Canary => store[c] = <<>>)
  BY <1>1, SavedGood, EmptyGood
<1>3. store \in [Conversations -> Seq(AllTurns)]
  BY <1>1, <1>2 DEF Good
<1>4. known \in SUBSET Conversations /\ promised = store /\ overlapped = {}
  BY CanaryAssumption DEF Init
<1>5. TypeOK
  <2>1. \A c \in Conversations : Len(store[c]) <= MaxTurns
    BY <1>2 DEF Good
  <2>2. env \in [threshold : Thresholds, sources : SUBSET Sources]
    BY DEF Init, Sources
  <2>3. /\ pc \in [Questions -> Labels] /\ pool \in SUBSET Questions
        /\ ask \in [Questions -> Asked] /\ shadow \in [Questions -> ShadowSet]
        /\ older \in [Questions -> {"none"} \cup Answers]
        /\ reply \in [Questions -> {"none", "older"} \cup Sources]
        /\ draft \in [Questions -> Seq(AllTurns)] /\ misread \in SUBSET Questions
    BY Known DEF Init
  <2> QED BY <1>3, <1>4, <2>1, <2>2, <2>3 DEF TypeOK, Asked, ShadowSet, PlanSet
<1>6. \A q \in Questions : Own(q)
  BY Outside DEF Init, Wrapping
<1>7. \A c \in Conversations : Serial(c)
  BY <1>4 DEF Serial, Writing, Init
<1> QED BY <1>2, <1>5, <1>6, <1>7 DEF Inv, Kept

-----------------------------------------------------------------------------
(* What a step leaves alone *)

\* Every other question.
Alone(q) ==
  \A p \in Questions \ {q} :
    /\ pc'[p] = pc[p] /\ ask'[p] = ask[p] /\ shadow'[p] = shadow[p]
    /\ reply'[p] = reply[p] /\ draft'[p] = draft[p]
    /\ p \in misread' <=> p \in misread

\* The local variables keep their types.
LocalType ==
  /\ pc \in [Questions -> Labels]
  /\ pool \in SUBSET Questions
  /\ ask \in [Questions -> Asked]
  /\ shadow \in [Questions -> ShadowSet]
  /\ older \in [Questions -> {"none"} \cup Answers]
  /\ reply \in [Questions -> {"none", "older"} \cup Sources]
  /\ draft \in [Questions -> Seq(AllTurns)]
  /\ misread \in SUBSET Questions

FileType ==
  /\ store \in [Conversations -> Seq(AllTurns)]
  /\ promised \in [Conversations -> Seq(AllTurns)]
  /\ \A c \in Conversations : Len(store[c]) <= MaxTurns
  /\ known \in SUBSET Conversations
  /\ overlapped \in SUBSET Conversations

LEMMA TypeParts ==
  TypeOK <=> /\ env \in [threshold : Thresholds, sources : SUBSET Sources]
             /\ LocalType
             /\ FileType
BY DEF TypeOK, LocalType, FileType, Asked, ShadowSet, PlanSet

LEMMA TypePartsNext ==
  ASSUME env' \in [threshold : Thresholds, sources : SUBSET Sources], LocalType', FileType'
  PROVE  TypeOK'
BY DEF TypeOK, LocalType, FileType, Asked, ShadowSet, PlanSet

LEMMA OthersKeep ==
  ASSUME NEW q \in Questions, Alone(q), UNCHANGED env, \A p \in Questions : Own(p)
  PROVE  \A p \in Questions \ {q} : Own(p)'
BY DEF Alone, Own, Watched, Drafted, Justified, InCanary, Conv

LEMMA LeavesStep ==
  ASSUME LocalType, NEW q \in Questions, NEW l \in {"done", "dead"}, Leaves(q, l)
  PROVE  /\ LocalType'
         /\ Alone(q)
         /\ Own(q)'
         /\ pc'[q] = l
<1>1. LocalType' /\ Alone(q) /\ pc'[q] = l /\ shadow'[q] = NoShadow
  BY Known DEF LocalType, Leaves, Alone
<1>2. Own(q)'
  <2>1. NoShadow.plan = Plan(NoShadow.decision, "none") /\ "none" \in Commands
    BY UnclearDecided DEF NoShadow, Commands
  <2> QED BY <1>1, <2>1 DEF Own, Watched, Drafted, Justified, Wrapping
<1> QED BY <1>1, <1>2

LEMMA ShadowType ==
  ASSUME LocalType, NEW q \in Questions, NEW s \in Shadows(q)
  PROVE  /\ s \in ShadowSet
         /\ \E typed \in Commands : s.plan = Plan(s.decision, typed)
<1> DEFINE typed == TypedIn[ask[q].text]
           Made(d, found) ==
             [built |-> TRUE, decision |-> d, plan |-> Plan(d, typed),
              available |-> found /\ d.action = "analyze_existing_evidence"]
<1>1. typed \in Commands
  BY TextsAssumption DEF LocalType, Asked, Commands
<1>2. PICK d \in Decisions, found \in {FALSE, Available(Conv(q))} : s = Made(d, found)
  BY DEF Shadows, typed
<1>3. Plan(d, typed) \in PlanSet
  BY <1>1, PlanType
<1> HIDE DEF typed
<1> QED BY <1>1, <1>2, <1>3 DEF ShadowSet

\* The canary of a question does not change while it is in work.
LEMMA SameCanary ==
  ASSUME NEW q \in Questions, ask'[q] = ask[q]
  PROVE  InCanary(q)' <=> InCanary(q)
BY DEF InCanary, Conv

\* Where a question stands when its answer is decided.
LEMMA TakesJustified ==
  ASSUME LocalType, NEW q \in Questions, Watched(q), pc[q] = "judge", NEW source, Takes(q, source)
  PROVE  LET d == shadow[q].decision
         IN /\ InCanary(q)
            /\ d.action \in StageAllowed
            /\ EffectiveConfidence(d) >= env.threshold
            /\ EffectiveConfidence(d) >= ClarifyThreshold
            /\ source \in env.sources
            /\ d.action = "analyze_existing_evidence" => shadow[q].available
<1> DEFINE d == shadow[q].decision
<1>1. d \in Decisions
  BY DEF LocalType, ShadowSet
<1>2. PICK typed \in Commands : shadow[q].plan = Plan(d, typed)
  BY DEF Watched
<1>3. /\ d.action \in StageAllowed
      /\ d.action = "analyze_existing_evidence" => shadow[q].available
      /\ source \in env.sources
      /\ Eligible(Normalized(shadow[q].plan, d), env.threshold)
  BY DEF Takes
<1>4. /\ shadow[q].plan.effective = EffectiveConfidence(d)
      /\ shadow[q].plan.accepted => EffectiveConfidence(d) >= ClarifyThreshold
  BY <1>1, <1>2, <1>3, PlanOfStage
<1>5. shadow[q].plan \in PlanSet
  BY DEF LocalType, ShadowSet
<1>6. /\ shadow[q].plan.effective >= env.threshold
      /\ shadow[q].plan.accepted \/ d.action = "need_clarification"
  BY <1>3, <1>5 DEF Eligible, Normalized, PlanSet
<1>7. d.action # "need_clarification"
  BY <1>3 DEF StageAllowed
<1>8. InCanary(q)
  BY DEF Watched, Wrapping
<1> QED BY <1>3, <1>4, <1>6, <1>7, <1>8

LEMMA FinishStep ==
  ASSUME LocalType, NEW q \in Questions, Watched(q), pc[q] \in {"rebuild", "judge"},
         NEW source \in {"older"} \cup Sources, Finish(q, source),
         source \in Sources => pc[q] = "judge" /\ Takes(q, source), UNCHANGED env
  PROVE  LocalType' /\ Alone(q) /\ Own(q)' /\ pc'[q] \in {"read", "done"}
<1>1. CASE source \in Sources \/ older[q] # "error"
  <2>1. /\ reply' = [reply EXCEPT ![q] = source]
        /\ pc' = [pc EXCEPT ![q] = "read"]
        /\ shadow' = IF source = "older" THEN [shadow EXCEPT ![q] = NoShadow] ELSE shadow
        /\ UNCHANGED <<pool, ask, older, draft, misread>>
    BY <1>1 DEF Finish
  <2>2. LocalType' /\ Alone(q) /\ pc'[q] = "read" /\ reply'[q] = source /\ ask'[q] = ask[q]
    BY <2>1, Known DEF LocalType, Alone
  <2>3. InCanary(q)'
    BY <2>2, SameCanary DEF Watched, Wrapping
  <2>4. CASE source = "older"
    <3>1. shadow'[q] = NoShadow /\ source \notin Sources
      BY <2>1, <2>4 DEF LocalType, Sources
    <3>2. NoShadow.plan = Plan(NoShadow.decision, "none") /\ "none" \in Commands
      BY UnclearDecided DEF NoShadow, Commands
    <3> QED BY <2>2, <2>3, <3>1, <3>2 DEF Own, Watched, Drafted, Justified
  <2>5. CASE source # "older"
    <3>1. source \in Sources /\ shadow' = shadow
      BY <2>1, <2>5
    <3>2. Justified(q)'
      BY <2>2, <2>3, <3>1, TakesJustified DEF Justified
    <3>3. Watched(q)' /\ Drafted(q)'
      BY <2>2, <2>3, <3>1 DEF Watched, Drafted, Sources
    <3> QED BY <2>2, <3>2, <3>3 DEF Own
  <2> QED BY <2>2, <2>4, <2>5
<1>2. CASE ~(source \in Sources \/ older[q] # "error")
  <2>1. Leaves(q, "done")
    BY <1>2 DEF Finish
  <2> QED BY <2>1, LeavesStep
<1> QED BY <1>1, <1>2

LEMMA WrappedStep ==
  ASSUME LocalType, NEW q \in Questions, Own(q), pc[q] \notin Wrapping,
         NEW answer \in Answers, Wrapped(q, answer)
  PROVE  LocalType' /\ Alone(q) /\ Own(q)' /\ pc'[q] \in {"judge", "rebuild", "done"}
<1>1. CASE InCanary(q)
  <2>1. /\ older' = [older EXCEPT ![q] = answer]
        /\ pc' = [pc EXCEPT ![q] = IF shadow[q].built THEN "judge" ELSE "rebuild"]
        /\ UNCHANGED <<pool, ask, shadow, reply, draft, misread>>
    BY <1>1 DEF Wrapped
  <2>2. LocalType' /\ Alone(q) /\ pc'[q] \in {"judge", "rebuild"}
    BY <2>1, Known DEF LocalType, Alone
  <2>3. InCanary(q)'
    BY <1>1, <2>1, SameCanary
  <2> QED BY <2>1, <2>2, <2>3 DEF Own, Watched, Drafted, Justified
<1>2. CASE ~InCanary(q)
  BY <1>2, LeavesStep DEF Wrapped
<1> QED BY <1>1, <1>2

\* Where a source comes from, it is one the canary knows.
LEMMA SourceType ==
  ASSUME NEW d, NEW available, NEW spoken
  PROVE  GeneratedFrom(d, available, spoken) \in {"none"} \cup Sources
BY DEF GeneratedFrom, FromLlm, Sources

-----------------------------------------------------------------------------
(* The steps *)

\* A question stays what it is, the others are left alone.
LEMMA OwnStep ==
  ASSUME Inv, NEW q \in Questions, Step(q)
  PROVE  LocalType' /\ Alone(q) /\ Own(q)' /\ UNCHANGED env
<1>0. LocalType /\ Own(q) /\ Watched(q) /\ Drafted(q) /\ Justified(q)
  BY TypeParts DEF Inv, Own
<1>1. CASE BuildShadow(q)
  <2>1. \/ \E s \in Shadows(q) : shadow' = [shadow EXCEPT ![q] = s]
        \/ shadow' = shadow
    BY <1>1 DEF BuildShadow
  <2>2. /\ shadow' \in [Questions -> ShadowSet]
        /\ \A p \in Questions \ {q} : shadow'[p] = shadow[p]
        /\ \E typed \in Commands : shadow'[q].plan = Plan(shadow'[q].decision, typed)
    <3>1. CASE shadow' = shadow
      BY <1>0, <3>1 DEF LocalType, Watched
    <3>2. ASSUME NEW s \in Shadows(q), shadow' = [shadow EXCEPT ![q] = s]
          PROVE  /\ shadow' \in [Questions -> ShadowSet]
                 /\ \A p \in Questions \ {q} : shadow'[p] = shadow[p]
                 /\ \E typed \in Commands : shadow'[q].plan = Plan(shadow'[q].decision, typed)
      BY <1>0, <3>2, ShadowType DEF LocalType
    <3> QED BY <2>1, <3>1, <3>2
  <2>3. LocalType' /\ Alone(q) /\ pc'[q] = "route" /\ UNCHANGED env
    BY <1>0, <1>1, <2>2, Known DEF BuildShadow, LocalType, Alone
  <2> QED BY <2>2, <2>3 DEF Own, Watched, Drafted, Justified, Wrapping
<1>2. CASE Route(q)
  BY <1>0, <1>2, WrappedStep DEF Route, Wrapping
<1>3. CASE HandOver(q)
  <2>1. LocalType' /\ Alone(q) /\ pc'[q] = "handed" /\ shadow'[q] = NoShadow /\ UNCHANGED env
    BY <1>0, <1>3, Known DEF HandOver, LocalType, Alone
  <2>2. NoShadow.plan = Plan(NoShadow.decision, "none") /\ "none" \in Commands
    BY UnclearDecided DEF NoShadow, Commands
  <2> QED BY <2>1, <2>2 DEF Own, Watched, Drafted, Justified, Wrapping
<1>4. CASE ChatAnswers(q)
  BY <1>0, <1>4, WrappedStep DEF ChatAnswers, Wrapping
<1>5. CASE Rebuild(q)
  <2>1. CASE Finish(q, "older")
    BY <1>0, <1>5, <2>1, FinishStep DEF Rebuild, Sources
  <2>2. ASSUME NEW s \in Shadows(q), shadow' = [shadow EXCEPT ![q] = s],
               pc' = [pc EXCEPT ![q] = "judge"],
               UNCHANGED <<pool, ask, older, reply, draft, misread>>
        PROVE  LocalType' /\ Alone(q) /\ Own(q)'
    <3>1. s \in ShadowSet /\ \E typed \in Commands : s.plan = Plan(s.decision, typed)
      BY <1>0, ShadowType
    <3>2. LocalType' /\ Alone(q) /\ pc'[q] = "judge" /\ shadow'[q] = s
      BY <1>0, <2>2, <3>1, Known DEF LocalType, Alone
    <3>3. InCanary(q)'
      BY <1>0, <1>5, <2>2, SameCanary DEF Watched, Wrapping, Rebuild
    <3> QED BY <3>1, <3>2, <3>3 DEF Own, Watched, Drafted, Justified
  <2> QED BY <1>5, <2>1, <2>2 DEF Rebuild
<1>6. CASE Judge(q)
  <2>1. PICK spoken \in Spoken :
          LET source == GeneratedFrom(shadow[q].decision, shadow[q].available, spoken)
          IN Finish(q, IF Takes(q, source) THEN source ELSE "older")
    BY <1>6 DEF Judge
  <2> DEFINE source == GeneratedFrom(shadow[q].decision, shadow[q].available, spoken)
             shown == IF Takes(q, source) THEN source ELSE "older"
  <2>2. source \in {"none"} \cup Sources
    BY SourceType
  <2>3. Takes(q, source) => source \in Sources
    <3>1. env.sources \in SUBSET Sources
      BY DEF Inv, TypeOK
    <3> QED BY <3>1 DEF Takes
  <2>4. Finish(q, shown) /\ pc[q] = "judge" /\ UNCHANGED env
    BY <1>6, <2>1 DEF Judge
  <2> HIDE DEF source
  <2>5. shown \in {"older"} \cup Sources /\ (shown \in Sources => Takes(q, shown))
    BY <2>3 DEF Sources
  <2> HIDE DEF shown
  <2> QED BY <1>0, <2>4, <2>5, FinishStep
<1>7. CASE WrapperFails(q)
  BY <1>0, <1>7, LeavesStep DEF WrapperFails
<1>8. CASE Read(q)
  <2>1. Conv(q) \in Conversations
    BY <1>0 DEF LocalType, Conv, Asked
  <2>2. PICK turns \in {store[Conv(q)], <<>>} :
          /\ draft' = [draft EXCEPT ![q] = turns]
          /\ misread' = IF turns = store[Conv(q)] THEN misread \ {q} ELSE misread \cup {q}
    BY <1>8 DEF Read
  <2>8. Good(turns, Conv(q))
    BY <2>1, <2>2, EmptyGood DEF Inv, Kept
  <2>3. /\ LocalType' /\ Alone(q) /\ UNCHANGED env /\ UNCHANGED <<ask, shadow, reply>>
        /\ pc'[q] = "replace" /\ draft'[q] = turns
    BY <1>0, <1>8, <2>2, <2>8, Known DEF Read, LocalType, Alone, Good
  <2>4. InCanary(q)'
    BY <1>0, <1>8, <2>3, SameCanary DEF Watched, Wrapping, Read
  <2>5. Watched(q)'
    BY <1>0, <1>8, <2>3, <2>4 DEF Watched, Read
  <2>6. Drafted(q)'
    BY <2>8, <2>3 DEF Drafted, Conv
  <2>7. Justified(q)'
    BY <1>0, <1>8, <2>3, <2>4 DEF Justified, Read
  <2> QED BY <2>3, <2>5, <2>6, <2>7 DEF Own
<1>9. CASE Replace(q)
  BY <1>0, <1>9, LeavesStep DEF Replace
<1>10. CASE RecordFails(q)
  BY <1>0, <1>10, LeavesStep DEF RecordFails
<1> QED BY <1>1, <1>2, <1>3, <1>4, <1>5, <1>6, <1>7, <1>8, <1>9, <1>10 DEF Step

LEMMA AskStep ==
  ASSUME Inv, NEW q \in Questions, NEW asked \in Asked, Ask(q, asked)
  PROVE  LocalType' /\ Alone(q) /\ Own(q)'
<1>0. LocalType /\ Own(q)
  BY TypeParts DEF Inv
<1>1. LocalType' /\ Alone(q) /\ pc'[q] = "shadow" /\ shadow' = shadow
  BY <1>0, Known DEF Ask, LocalType, Alone
<1> QED BY <1>0, <1>1 DEF Own, Watched, Drafted, Justified, Wrapping

LEMMA CrashStep ==
  ASSUME Inv, Crash
  PROVE  LocalType' /\ \A q \in Questions : Own(q)' /\ pc'[q] # "replace"
<1>0. LocalType
  BY TypeParts DEF Inv
<1>1. LocalType' /\ \A q \in Questions : pc'[q] \in {"free", "done", "dead"}
                                         /\ shadow'[q] = NoShadow
  BY <1>0, Known DEF Crash, LocalType
<1>2. NoShadow.plan = Plan(NoShadow.decision, "none") /\ "none" \in Commands
  BY UnclearDecided DEF NoShadow, Commands
<1> QED BY <1>1, <1>2 DEF Own, Watched, Drafted, Justified, Wrapping

-----------------------------------------------------------------------------
(* The files *)

\* Fewer writers of the same drafts, and the same file.
LEMMA FilesKept ==
  ASSUME Inv, UNCHANGED <<store, promised, overlapped>>,
         \A q \in Questions : pc'[q] = "replace" =>
           pc[q] = "replace" /\ ask'[q] = ask[q] /\ draft'[q] = draft[q]
           /\ (q \in misread' <=> q \in misread)
  PROVE  /\ \A c \in Conversations : Kept(c)' /\ (c \notin overlapped' => Serial(c)')
         /\ known' \in SUBSET Conversations => FileType'
<1>1. FileType' <=> known' \in SUBSET Conversations
  BY TypeParts DEF Inv, FileType
<1>2. \A c \in Conversations : Kept(c)'
  BY DEF Inv, Kept
<1>3. ASSUME NEW c \in Conversations, c \notin overlapped PROVE Serial(c)'
  <2>1. Writing(c)' \subseteq Writing(c) /\ \A q \in Writing(c)' : draft'[q] = draft[q] /\ (q \in misread' <=> q \in misread)
    BY DEF Writing, Conv
  <2>2. Serial(c)
    BY <1>3 DEF Inv
  <2> QED BY <2>1, <2>2 DEF Serial
<1> QED BY <1>1, <1>2, <1>3

LEMMA ReadFiles ==
  ASSUME Inv, NEW q \in Questions, Read(q)
  PROVE  FileType' /\ \A c \in Conversations : Kept(c)' /\ (c \notin overlapped' => Serial(c)')
<1>0. LocalType /\ FileType /\ Conv(q) \in Conversations
  BY TypeParts DEF Inv, LocalType, Conv, Asked
<1>1. FileType' /\ \A c \in Conversations : Kept(c)'
  BY <1>0 DEF Inv, Kept, FileType, Read
<1>2. ASSUME NEW c \in Conversations, c \notin overlapped' PROVE Serial(c)'
  <2>1. c \notin overlapped /\ (c = Conv(q) => Writing(c) = {})
    BY <1>0, <1>2 DEF Read, FileType
  <2>2. Serial(c)
    BY <2>1 DEF Inv
  <2>7. PICK turns \in {store[Conv(q)], <<>>} :
          /\ draft' = [draft EXCEPT ![q] = turns]
          /\ misread' = IF turns = store[Conv(q)] THEN misread \ {q} ELSE misread \cup {q}
    BY DEF Read
  <2>8. ASSUME NEW p \in Questions \ {q}
        PROVE  pc'[p] = pc[p] /\ draft'[p] = draft[p] /\ (p \in misread' <=> p \in misread)
    BY <1>0, <2>7 DEF Read, LocalType
  <2>3. /\ pc'[q] = "replace"
        /\ draft'[q] = IF q \in misread' THEN <<>> ELSE store[Conv(q)]
        /\ UNCHANGED <<ask, store, promised>>
    BY <1>0, <2>7 DEF Read, LocalType
  <2>4. \A p \in Writing(c)' : p = q \/ p \in Writing(c)
    BY <2>3, <2>8 DEF Writing, Conv
  <2>5. CASE c = Conv(q)
    BY <2>1, <2>2, <2>3, <2>4, <2>5 DEF Serial
  <2>6. CASE c # Conv(q)
    <3>1. q \notin Writing(c)'
      BY <2>3, <2>6 DEF Writing, Conv
    <3>2. \A p \in Writing(c)' : p \in Writing(c) /\ p \in Questions \ {q}
      BY <2>4, <3>1 DEF Writing
    <3>3. ASSUME NEW p \in Writing(c)'
          PROVE  draft'[p] = IF p \in misread' THEN <<>> ELSE promised'[c]
      <4>1. p \in Writing(c) /\ p \in Questions \ {q}
        BY <3>2
      <4>2. draft[p] = IF p \in misread THEN <<>> ELSE promised[c]
        BY <2>2, <4>1 DEF Serial
      <4>3. draft'[p] = draft[p] /\ (p \in misread' <=> p \in misread) /\ promised' = promised
        BY <2>3, <2>8, <4>1
      <4> QED BY <4>2, <4>3
    <3>4. \A p, r \in Writing(c)' : p = r
      BY <2>2, <3>2 DEF Serial
    <3> QED BY <2>2, <2>3, <3>3, <3>4 DEF Serial
  <2> QED BY <2>5, <2>6
<1> QED BY <1>1, <1>2

LEMMA ReplaceFiles ==
  ASSUME Inv, NEW q \in Questions, Replace(q)
  PROVE  FileType' /\ \A c \in Conversations : Kept(c)' /\ (c \notin overlapped' => Serial(c)')
<1> DEFINE c0 == Conv(q)
           turn == Turn(c0, ask[q].text, reply[q])
<1>0. LocalType /\ FileType /\ c0 \in Conversations
  BY TypeParts DEF Inv, LocalType, Conv, Asked
<1>1. /\ pc[q] = "replace" /\ Leaves(q, "done")
      /\ store' = [store EXCEPT ![c0] = WithTurn(draft[q], turn)]
      /\ promised' = [promised EXCEPT ![c0] = WithTurn(Seen(q), turn)]
      /\ UNCHANGED <<known, overlapped>>
  BY DEF Replace
<1>2. /\ LocalType' /\ Alone(q) /\ pc'[q] = "done"
  BY <1>0, <1>1, LeavesStep
<1>3. c0 \in Canary /\ Good(draft[q], c0) /\ turn \in AllTurns /\ turn.conv = c0
  <2>1. InCanary(q) /\ reply[q] # "none" /\ Good(draft[q], c0)
    BY <1>1 DEF Inv, Own, Watched, Drafted, Wrapping
  <2>2. reply[q] \in {"older"} \cup Sources /\ ask[q].text \in Texts
    BY <1>0, <2>1 DEF LocalType, Asked
  <2> QED BY <1>0, <2>1, <2>2, TurnType DEF InCanary
<1> HIDE DEF turn
<1>4. Good(WithTurn(draft[q], turn), c0)
  BY <1>3, WithTurnGood
<1>5. \A c \in Conversations : Kept(c)'
  BY <1>0, <1>1, <1>3, <1>4 DEF Inv, Kept, FileType
<1>6. ASSUME NEW c \in Conversations, c \notin overlapped' PROVE Serial(c)'
  <2>1. Serial(c)
    BY <1>1, <1>6 DEF Inv
  <2>2. \A p \in Writing(c)' : /\ p \in Writing(c) /\ p # q /\ draft'[p] = draft[p]
                               /\ p \in misread' <=> p \in misread
    BY <1>2 DEF Writing, Alone, Conv
  <2>3. CASE c = c0
    <3>1. q \in Writing(c)
      BY <1>1, <2>3 DEF Writing
    <3>2. Writing(c)' = {}
      BY <2>1, <2>2, <3>1 DEF Serial
    <3>3. draft[q] = Seen(q)
      BY <2>1, <2>3, <3>1 DEF Serial, Seen
    <3>4. store'[c] = promised'[c]
      BY <1>0, <1>1, <2>3, <3>3 DEF FileType
    <3> QED BY <3>2, <3>4 DEF Serial
  <2>4. CASE c # c0
    <3>1. store'[c] = store[c] /\ promised'[c] = promised[c]
      BY <1>0, <1>1, <2>4 DEF FileType
    <3> QED BY <2>1, <2>2, <3>1 DEF Serial
  <2> QED BY <2>3, <2>4
<1>7. FileType'
  <2>1. Seen(q) \in Seq(AllTurns)
    BY <1>0, Known DEF FileType, Seen
  <2>2. WithTurn(Seen(q), turn) \in Seq(AllTurns)
    BY <1>3, <2>1, WithTurnType
  <2>3. WithTurn(draft[q], turn) \in Seq(AllTurns) /\ Len(WithTurn(draft[q], turn)) <= MaxTurns
    BY <1>4 DEF Good
  <2> QED BY <1>0, <1>1, <2>2, <2>3 DEF FileType
<1> QED BY <1>5, <1>6, <1>7

\* All other steps of a question leave the files alone.
LEMMA QuietStep ==
  ASSUME Inv, NEW q \in Questions, Step(q), ~Read(q), ~Replace(q)
  PROVE  /\ UNCHANGED <<store, promised, overlapped>>
         /\ pc'[q] # "replace"
         /\ known' \in SUBSET Conversations
<1>0. LocalType /\ known \in SUBSET Conversations /\ Conv(q) \in Conversations
  BY TypeParts DEF Inv, FileType, LocalType, Conv, Asked
<1>1. CASE BuildShadow(q) \/ HandOver(q)
  BY <1>0, <1>1 DEF BuildShadow, HandOver, Files, LocalType
<1>2. CASE Route(q)
  BY <1>0, <1>2 DEF Route, Wrapped, Leaves, LocalType
<1>3. CASE ChatAnswers(q)
  BY <1>0, <1>3 DEF ChatAnswers, Wrapped, Leaves, Files, LocalType
<1>4. CASE Rebuild(q)
  BY <1>0, <1>4 DEF Rebuild, Finish, Leaves, Files, LocalType
<1>5. CASE Judge(q)
  BY <1>0, <1>5 DEF Judge, Finish, Leaves, Files, LocalType
<1>6. CASE WrapperFails(q) \/ RecordFails(q)
  BY <1>0, <1>6 DEF WrapperFails, RecordFails, Leaves, Files, LocalType
<1> QED BY <1>1, <1>2, <1>3, <1>4, <1>5, <1>6 DEF Step

LEMMA StepInv == ASSUME Inv, [Next]_vars PROVE Inv'
<1>0. LocalType /\ FileType /\ env \in [threshold : Thresholds, sources : SUBSET Sources]
      /\ known \in SUBSET Conversations
  BY TypeParts DEF Inv, FileType
<1> DEFINE Filed == FileType' /\ \A c \in Conversations :
                     Kept(c)' /\ (c \notin overlapped' => Serial(c)')
<1>1. ASSUME NEW q \in Questions, Step(q) PROVE Inv'
  <2>1. LocalType' /\ Alone(q) /\ Own(q)' /\ UNCHANGED env
    BY <1>1, OwnStep
  <2>2. \A p \in Questions : Own(p)'
    BY <2>1, OthersKeep DEF Inv
  <2>3. Filed
    <3>1. CASE Read(q)
      BY <3>1, ReadFiles
    <3>2. CASE Replace(q)
      BY <3>2, ReplaceFiles
    <3>3. CASE ~Read(q) /\ ~Replace(q)
      <4>1. UNCHANGED <<store, promised, overlapped>> /\ pc'[q] # "replace"
            /\ known' \in SUBSET Conversations
        BY <1>0, <1>1, <3>3, QuietStep
      <4> QED BY <2>1, <4>1, FilesKept DEF Alone
    <3> QED BY <3>1, <3>2, <3>3
  <2> QED BY <1>0, <2>1, <2>2, <2>3, TypePartsNext DEF Inv
<1>2. ASSUME NEW q \in Questions, NEW asked \in Asked, Ask(q, asked) PROVE Inv'
  <2>1. LocalType' /\ Alone(q) /\ Own(q)'
    BY <1>2, AskStep
  <2>2. UNCHANGED env /\ UNCHANGED Files /\ pc'[q] # "replace"
    BY <1>0, <1>2 DEF Ask, LocalType
  <2>3. \A p \in Questions : Own(p)'
    BY <2>1, <2>2, OthersKeep DEF Inv
  <2>4. Filed
    BY <1>0, <2>1, <2>2, FilesKept DEF Alone, Files
  <2> QED BY <1>0, <2>1, <2>2, <2>3, <2>4, TypePartsNext DEF Inv
<1>3. ASSUME NEW c \in Conversations, Forget(c) PROVE Inv'
  <2>1. LocalType' /\ \A q \in Questions : Own(q)'
    BY <1>0, <1>3 DEF Forget, LocalType, Inv, Own, Watched, Drafted, Justified, InCanary, Conv
  <2>2. Filed
    BY <1>0, <1>3, FilesKept DEF Forget
  <2>3. UNCHANGED env
    BY <1>3 DEF Forget
  <2> QED BY <1>0, <2>1, <2>2, <2>3, TypePartsNext DEF Inv
<1>4. ASSUME Crash PROVE Inv'
  <2>1. LocalType' /\ \A q \in Questions : Own(q)' /\ pc'[q] # "replace"
    BY <1>4, CrashStep
  <2>2. UNCHANGED env /\ UNCHANGED Files
    BY <1>4 DEF Crash
  <2>3. Filed
    BY <1>0, <2>1, <2>2, FilesKept DEF Files
  <2> QED BY <1>0, <2>1, <2>2, <2>3, TypePartsNext DEF Inv
<1>5. CASE UNCHANGED vars
  <2>1. UNCHANGED <<pc, ask, shadow, reply, draft, misread, env, pool, older>> /\ UNCHANGED Files
    BY <1>5 DEF vars, Files
  <2>2. LocalType' /\ \A q \in Questions : Own(q)'
    BY <1>0, <2>1 DEF LocalType, Inv, Own, Watched, Drafted, Justified, InCanary, Conv
  <2>3. Filed
    BY <1>0, <2>1, FilesKept DEF Files
  <2> QED BY <1>0, <2>1, <2>2, <2>3, TypePartsNext DEF Inv
<1> QED BY <1>1, <1>2, <1>3, <1>4, <1>5 DEF Next

-----------------------------------------------------------------------------
(* Theorems *)

\* Every variable of the takeover keeps its type; no follow-up file outgrows
\* its limit (app.py, followup_context.py).
THEOREM TakeoverTypeCorrect == Spec => []TypeOK
<1>1. Inv => TypeOK
  BY DEF Inv
<1> QED BY <1>1, InitInv, StepInv, PTL DEF Spec

\* An answer of V3 is shown only to the canary, for an action of the stage,
\* with the confidence left after all doubts, whatever the model answers and
\* whenever the shadow was made (evaluate_takeover, app.py 787-1211).
THEOREM AlwaysJustified == Spec => []TakeoverJustified
<1>1. Inv => TakeoverJustified
  BY DEF Inv, Own, Justified, TakeoverJustified
<1> QED BY <1>1, InitInv, StepInv, PTL DEF Spec

\* The follow-up files keep turns of their own conversation, each once, within
\* the limit, and without two writers at a time all that were recorded since
\* the last who could not read them (record_v3_turn, followup_context.py).
THEOREM AlwaysRemembered == Spec => []AnswersRemembered
<1>1. Inv => AnswersRemembered
  <2> SUFFICES ASSUME Inv, NEW c \in Conversations
               PROVE  /\ c \notin Canary => store[c] = <<>>
                      /\ Len(store[c]) <= MaxTurns
                      /\ \A i, j \in 1..Len(store[c]) :
                           store[c][i].conv = c /\ (store[c][i] = store[c][j] => i = j)
                      /\ c \notin overlapped => store[c] = promised[c]
    BY DEF AnswersRemembered
  <2> QED BY DEF Inv, Kept, Good, Serial
<1> QED BY <1>1, InitInv, StepInv, PTL DEF Spec
=============================================================================
