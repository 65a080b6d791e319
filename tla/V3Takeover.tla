----------------------------- MODULE V3Takeover -----------------------------
(***************************************************************************)
(* The canary takeover of chat V3 (app.py 51-1211, chat_v3).  A question   *)
(* that V4 did not answer gets a shadow: the arbiter (an LLM) names an     *)
(* action, the dispatcher makes a plan of it.  Then the older routes       *)
(* answer.  Around that answer a wrapper decides, for the users and        *)
(* conversations of the canary, whether an answer V3 generates replaces    *)
(* it, and records the turn in a follow-up file of the conversation.       *)
(*                                                                         *)
(* The middleware runs on the event loop, one question at a time; the      *)
(* legacy chat route runs in a pool of threads, where the wrapper finds no *)
(* shadow and builds one itself.  The follow-up files have no lock, and a  *)
(* file that cannot be read just now counts as an empty one.               *)
(***************************************************************************)
EXTENDS Naturals, Sequences

CONSTANTS
  Questions,      \* the chat requests
  Conversations,  \* conversation ids
  Canary,         \* the ids with an allowed prefix
  Users, AllowedUsers,
  Texts,          \* what a question and its answer say
  TypedIn,        \* the commands typed in a text: none, safe or unsafe
  Named,          \* the actions a model names
  Confidences,    \* the levels of confidence it names
  Thresholds,     \* values of NETAIOPS_V3_TAKEOVER_MIN_CONFIDENCE
  MaxTurns        \* DEFAULT_MAX_TURNS

ASSUME CanaryAssumption ==
  /\ Canary \subseteq Conversations
  /\ AllowedUsers \subseteq Users
ASSUME InputAssumption == Conversations # {} /\ Users # {} /\ Texts # {}
ASSUME NamedAssumption ==
  Named \subseteq
    {"general_chat", "advice_analysis", "analyze_existing_evidence",
     "execute_provided_commands", "execute_provided_commands_and_analyze",
     "generate_commands", "confirm_execute_pending", "cmdb_query",
     "need_clarification"}
ASSUME ThresholdsAssumption == Thresholds \subseteq 0..3 /\ Confidences \subseteq 0..3
ASSUME TextsAssumption == TypedIn \in [Texts -> {"none", "safe", "unsafe"}]
ASSUME MaxTurnsAssumption == MaxTurns \in Nat \ {0}

VARIABLES
  env,        \* the settings of the process
  pc,         \* where a question stands
  pool,       \* questions handed over to the legacy chat
  ask,        \* what was asked, by whom and where
  shadow,     \* what arbiter, dispatcher and context say of it
  older,      \* the older routes' answer
  reply,      \* the answer after the wrapper: its source
  draft,      \* turns read from the follow-up file
  misread,    \* history: questions that have missed turns by reading
  store,      \* the follow-up file of a conversation
  known,      \* conversations with V2 context, V4 context or history
  promised,   \* turns recorded in a conversation, as one writer would, since
              \* the last who could not read them
  overlapped  \* conversations that had two writers at a time

vars == <<env, pc, pool, ask, shadow, older, reply, draft, misread, store, known,
          promised, overlapped>>

-----------------------------------------------------------------------------
(* Arbiter and dispatcher.  A confidence is a level: 0 below the           *)
(* clarify threshold of 0.50, 1 and 2 around the canary's 0.70, 3 from the *)
(* accept threshold of 0.80 on.  A cap is just below its threshold.        *)

ClarifyThreshold == 1
AcceptThreshold == 3
Levels == 0..3

Executing == {"execute_provided_commands", "execute_provided_commands_and_analyze"}
StageAllowed == {"general_chat", "advice_analysis", "analyze_existing_evidence"}
StageBlocked == Executing \cup
  {"generate_commands", "confirm_execute_pending", "blocked_unsafe_commands"}
Actions == Executing \cup StageAllowed \cup
  {"generate_commands", "confirm_execute_pending", "cmdb_query", "need_clarification"}

Commands == {"none", "safe", "unsafe"}

(* A call of the model: JSON, a text, an error, or the refusal of JSON mode, *)
(* after which the arbiter asks once more without that mode.                *)
LlmAnswers == {"json", "text", "failed", "rejected"}

Called(first, second) == IF first = "rejected" THEN second ELSE first

(* parse_json_from_text finds an object. *)
Parsed(answer) == answer = "json"

(* The fields of that object.  The action may be a word nobody knows.       *)
Payloads == [action : Named \cup {"unknown"}, confidence : Confidences \cup {0},
             commands : Commands, executes : BOOLEAN, clarifies : BOOLEAN]

(* normalize_payload: commands are the generator's, not the model's.        *)
NormalizePayload(p) ==
  IF p.action = "generate_commands" THEN [p EXCEPT !.commands = "none", !.executes = FALSE]
  ELSE p

(* IntentDecision: a clarification has its question.  Dropped is what no    *)
(* later stage looks at: commands and flags beside actions without them.    *)
Validated(p) ==
  [p EXCEPT
     !.commands = IF p.action \in Executing THEN p.commands
                  ELSE IF p.action = "analyze_existing_evidence" /\ p.commands # "none"
                  THEN "safe" ELSE "none",
     !.executes = p.executes /\ p.action = "advice_analysis",
     !.clarifies = \/ p.action = "need_clarification"
                   \/ p.clarifies /\ p.action \in StageAllowed]

(* No client, no answer, no JSON, no valid schema. *)
Unclear == [action |-> "need_clarification", confidence |-> 0,
            commands |-> "none", executes |-> FALSE, clarifies |-> TRUE]

(* IntentArbiter.decide *)
Decide(first, second, p) ==
  IF Parsed(Called(first, second)) /\ p.action # "unknown"
  THEN Validated(NormalizePayload(p)) ELSE Unclear

Decisions == {Decide(f, s, p) : f \in LlmAnswers, s \in LlmAnswers, p \in Payloads}

(* calculate_effective_confidence: what an answer contradicts itself in.    *)
Doubtful(d) ==
  \/ d.action \in Executing /\ d.commands = "none"
  \/ d.action = "analyze_existing_evidence" /\ d.commands # "none"
  \/ d.action = "advice_analysis" /\ d.executes

Cap(d) ==
  IF d.action = "need_clarification" THEN ClarifyThreshold - 1
  ELSE IF Doubtful(d) THEN AcceptThreshold - 1 ELSE 3

EffectiveConfidence(d) == IF d.confidence <= Cap(d) THEN d.confidence ELSE Cap(d)

MakePlan(action, accepted, effective, safe) ==
  [action |-> action, accepted |-> accepted, effective |-> effective, safe |-> safe]

Clarification(effective) == MakePlan("need_clarification", FALSE, effective, TRUE)

(* check_commands on the commands of the decision, else of the text. *)
ExecutionPlan(d, typed) ==
  LET commands == IF d.commands # "none" THEN d.commands ELSE typed
  IN CASE commands = "none" -> [Clarification(0) EXCEPT !.safe = FALSE]
       [] commands = "unsafe" -> MakePlan("blocked_unsafe_commands", FALSE, 0, FALSE)
       [] commands = "safe" -> MakePlan(d.action, TRUE, EffectiveConfidence(d), TRUE)

(* build_dispatch_plan *)
Plan(d, typed) ==
  LET effective == EffectiveConfidence(d)
  IN IF \/ effective < ClarifyThreshold
        \/ d.action = "need_clarification"
        \/ /\ effective < AcceptThreshold
           /\ d.action \in Executing \cup {"confirm_execute_pending"}
     THEN Clarification(effective)
     ELSE IF d.action \in Executing THEN ExecutionPlan(d, typed)
     ELSE MakePlan(d.action, TRUE, effective, TRUE)

(* Mutant: what the plan lacks is not filled in but overwritten. *)
NormalizedOver(plan, d) ==
  MakePlan(d.action, TRUE, d.confidence, TRUE)

(* The decision's action replaces the plan's; all else stays the plan's. *)
Normalized(plan, d) == [plan EXCEPT !.action = d.action]

(* evaluate_takeover with the sets of this stage *)
Eligible(plan, threshold) ==
  /\ plan.action \notin StageBlocked
  /\ plan.action \in StageAllowed
  /\ plan.effective >= threshold
  /\ plan.safe
  /\ plan.accepted \/ plan.action = "need_clarification"

(* The generator's own call of the LLM: not live, failed, an answer of less *)
(* than 20 characters, or one that can be shown.                            *)
Spoken == {"off", "failed", "short", "answer"}

(* Without an answer of the arbiter's own the generator asks the LLM.       *)
FromLlm(spoken) == IF spoken = "answer" THEN "llm" ELSE "none"

(* generate_v3_response for an eligible plan: where the answer comes from, *)
(* "none" if there is none.                                                *)
GeneratedFrom(d, available, spoken) ==
  IF d.action = "analyze_existing_evidence" /\ ~available THEN "none"
  ELSE IF d.clarifies THEN "existing_frontend_answer" ELSE FromLlm(spoken)

(* evaluate_response_readiness for a plan with that answer, without items. *)
Ready(action, source) ==
  action = "need_clarification" \/ (action \in StageAllowed /\ source # "none")

-----------------------------------------------------------------------------
(* The follow-up file *)

Sources == {"llm", "existing_frontend_answer"}

Turn(conv, text, source) == [conv |-> conv, text |-> text, source |-> source]

AllTurns == [conv : Conversations, text : Texts,
             source : {"older"} \cup Sources]

LastN(turns, n) ==
  IF Len(turns) <= n THEN turns ELSE SubSeq(turns, Len(turns) - n + 1, Len(turns))

Holds(turns, turn) == \E i \in 1..Len(turns) : turns[i] = turn

(* _dedupe_turns: a turn with a known fingerprint stays where it was.  The *)
(* fingerprint has everything of a turn but its time.                      *)
WithTurn(turns, turn) ==
  IF Holds(turns, turn) THEN turns ELSE LastN(Append(turns, turn), MaxTurns)

NoShadow == [built |-> FALSE, decision |-> Unclear, plan |-> Clarification(0),
             available |-> FALSE]
NoAsk == [conv |-> CHOOSE c \in Conversations : TRUE,
          user |-> CHOOSE u \in Users : TRUE,
          text |-> CHOOSE t \in Texts : TRUE]

(* What an older route answers: an error, something, a device's output. *)
Answers == {"error", "ok", "executed"}

Labels == {"free", "shadow", "route", "handed", "rebuild", "judge", "read",
           "replace", "done", "dead"}

TypeOK ==
  /\ env \in [threshold : Thresholds, sources : SUBSET Sources]
  /\ pc \in [Questions -> Labels]
  /\ pool \in SUBSET Questions
  /\ ask \in [Questions -> [conv : Conversations, user : Users, text : Texts]]
  /\ shadow \in [Questions ->
       [built : BOOLEAN, decision : Decisions, available : BOOLEAN,
        plan : [action : Actions \cup {"blocked_unsafe_commands"}, accepted : BOOLEAN,
                effective : Levels, safe : BOOLEAN]]]
  /\ older \in [Questions -> {"none"} \cup Answers]
  /\ reply \in [Questions -> {"none", "older"} \cup Sources]
  /\ draft \in [Questions -> Seq(AllTurns)]
  /\ misread \in SUBSET Questions
  /\ store \in [Conversations -> Seq(AllTurns)]
  /\ promised \in [Conversations -> Seq(AllTurns)]
  /\ \A c \in Conversations : Len(store[c]) <= MaxTurns
  /\ known \in SUBSET Conversations
  /\ overlapped \in SUBSET Conversations

(* A file from earlier days, or none. *)
Saved(c) ==
  {<<>>} \cup {LastN(<<Turn(c, t, "older"), Turn(c, t, "llm")>>, MaxTurns) : t \in Texts}

Init ==
  /\ env \in [threshold : Thresholds, sources : {{"llm"}, Sources}]
  /\ pc = [q \in Questions |-> "free"]
  /\ pool = {}
  /\ ask = [q \in Questions |-> NoAsk]
  /\ shadow = [q \in Questions |-> NoShadow]
  /\ older = [q \in Questions |-> "none"]
  /\ reply = [q \in Questions |-> "none"]
  /\ draft = [q \in Questions |-> <<>>]
  /\ misread = {}
  /\ \E f \in [Canary -> UNION {Saved(c) : c \in Canary}] :
       /\ \A c \in Canary : f[c] \in Saved(c)
       /\ store = [c \in Conversations |-> IF c \in Canary THEN f[c] ELSE <<>>]
  /\ known \in SUBSET Canary
  /\ promised = store
  /\ overlapped = {}

-----------------------------------------------------------------------------
(* A question *)

LoopBusy ==
  \E q \in Questions \ pool : pc[q] \notin {"free", "done", "dead"}

Conv(q) == ask[q].conv
Files == <<store, known, promised, overlapped>>

Ask(q, asked) ==
  /\ pc[q] = "free"
  /\ ~LoopBusy
  /\ pc' = [pc EXCEPT ![q] = "shadow"]
  /\ ask' = [ask EXCEPT ![q] = asked]
  /\ UNCHANGED <<env, pool, shadow, older, reply, draft, misread, Files>>

(* build_followup_context: any of the stores has something.  A read error  *)
(* counts as nothing.  Only the analysis of evidence looks at it.          *)
Available(c) == store[c] # <<>> \/ c \in known

Shadows(q) ==
  {[built |-> TRUE, decision |-> d, plan |-> Plan(d, TypedIn[ask[q].text]),
    available |-> found /\ d.action = "analyze_existing_evidence"] :
   d \in Decisions, found \in {FALSE, Available(Conv(q))}}

InCanary(q) == ask[q].user \in AllowedUsers /\ Conv(q) \in Canary

(* The shadow of the middleware, V4's own if V4 has handed the question   *)
(* on.  Outside the canary it ends in the log. *)
BuildShadow(q) ==
  /\ pc[q] = "shadow"
  /\ pc' = [pc EXCEPT ![q] = "route"]
  /\ \/ InCanary(q) /\ \E s \in Shadows(q) : shadow' = [shadow EXCEPT ![q] = s]
     \/ UNCHANGED shadow
  /\ UNCHANGED <<env, pool, ask, older, reply, draft, misread, Files>>

(* The answer goes out; the request's own state with it. *)
Leaves(q, label) ==
  /\ pc' = [pc EXCEPT ![q] = label]
  /\ pool' = pool \ {q}
  /\ ask' = [ask EXCEPT ![q] = NoAsk]
  /\ shadow' = [shadow EXCEPT ![q] = NoShadow]
  /\ older' = [older EXCEPT ![q] = "none"]
  /\ reply' = [reply EXCEPT ![q] = "none"]
  /\ draft' = [draft EXCEPT ![q] = <<>>]
  /\ misread' = misread \ {q}

(* Before the first store is touched the wrapper turns away who is not of  *)
(* the canary.                                                             *)
Wrapped(q, answer) ==
  IF InCanary(q)
  THEN /\ older' = [older EXCEPT ![q] = answer]
       /\ pc' = [pc EXCEPT ![q] = IF shadow[q].built THEN "judge" ELSE "rebuild"]
       /\ UNCHANGED <<pool, ask, shadow, reply, draft, misread>>
  ELSE Leaves(q, "done")

(* A route of the middleware answers; it may save a context on its way.    *)
Route(q) ==
  /\ pc[q] = "route"
  /\ \E answer \in Answers :
       /\ Wrapped(q, answer)
       /\ known' \in {known, known \cup {Conv(q)}}
  /\ UNCHANGED <<env, store, promised, overlapped>>

(* No route did: call_next.  The shadow stays behind. *)
HandOver(q) ==
  /\ pc[q] = "route"
  /\ pc' = [pc EXCEPT ![q] = "handed"]
  /\ pool' = pool \cup {q}
  /\ shadow' = [shadow EXCEPT ![q] = NoShadow]
  /\ UNCHANGED <<env, ask, older, reply, draft, misread, Files>>

ChatAnswers(q) ==
  /\ pc[q] = "handed"
  /\ \E answer \in Answers \ {"executed"} : Wrapped(q, answer)
  /\ UNCHANGED <<env, Files>>

-----------------------------------------------------------------------------
(* The wrapper, for a question of the canary *)

Finish(q, source) ==
  IF source \in Sources \/ older[q] # "error"
  THEN /\ reply' = [reply EXCEPT ![q] = source]
       /\ pc' = [pc EXCEPT ![q] = "read"]
       /\ shadow' = IF source = "older" THEN [shadow EXCEPT ![q] = NoShadow] ELSE shadow
       /\ UNCHANGED <<pool, ask, older, draft, misread>>
  ELSE Leaves(q, "done")

Rebuild(q) ==
  /\ pc[q] = "rebuild"
  /\ \/ /\ \E s \in Shadows(q) : shadow' = [shadow EXCEPT ![q] = s]
        /\ pc' = [pc EXCEPT ![q] = "judge"]
        /\ UNCHANGED <<pool, ask, older, reply, draft, misread>>
     \/ Finish(q, "older")
  /\ UNCHANGED <<env, Files>>

Takes(q, source) ==
  LET s == shadow[q]
  IN /\ s.decision.action \in StageAllowed
     /\ s.decision.action = "analyze_existing_evidence" => s.available
     /\ s.decision.confidence >= env.threshold
     /\ Eligible(Normalized(s.plan, s.decision), env.threshold)
     /\ Ready(s.decision.action, source)
     /\ source \in env.sources

Judge(q) ==
  /\ pc[q] = "judge"
  /\ \E spoken \in Spoken :
       LET source == GeneratedFrom(shadow[q].decision, shadow[q].available, spoken)
       IN Finish(q, IF Takes(q, source) THEN source ELSE "older")
  /\ UNCHANGED <<env, Files>>

(* Mutant: the file of the answer's conversation is read, which need not be *)
(* the request's.                                                          *)
ReadElsewhere(q) ==
  /\ pc[q] = "read"
  /\ pc' = [pc EXCEPT ![q] = "replace"]
  /\ \E c \in Conversations : draft' = [draft EXCEPT ![q] = store[c]]
  /\ UNCHANGED <<env, pool, ask, shadow, older, reply, misread, Files>>

Writing(c) == {q \in Questions : pc[q] = "replace" /\ Conv(q) = c}

(* record_v3_turn reads the file; _read_json makes nothing of a read error. *)
Read(q) ==
  LET c == Conv(q)
  IN /\ pc[q] = "read"
     /\ pc' = [pc EXCEPT ![q] = "replace"]
     /\ \E turns \in {store[c], <<>>} :
          /\ draft' = [draft EXCEPT ![q] = turns]
          /\ misread' = IF turns = store[c] THEN misread \ {q} ELSE misread \cup {q}
     /\ overlapped' = IF Writing(c) = {} THEN overlapped ELSE overlapped \cup {c}
     /\ UNCHANGED <<env, pool, ask, shadow, older, reply, store, known, promised>>

(* What is left of the turns promised when q has not seen them.            *)
Seen(q) == IF q \in misread THEN <<>> ELSE promised[Conv(q)]

(* The temporary name is the writer's own and the rename is atomic.  The   *)
(* turn goes to the conversation of the request.                           *)
Replace(q) ==
  LET turn == Turn(Conv(q), ask[q].text, reply[q])
  IN /\ pc[q] = "replace"
     /\ Leaves(q, "done")
     /\ store' = [store EXCEPT ![Conv(q)] = WithTurn(draft[q], turn)]
     /\ promised' = [promised EXCEPT ![Conv(q)] = WithTurn(Seen(q), turn)]
     /\ UNCHANGED <<env, known, overlapped>>

(* Nothing is recorded, the answer is returned all the same.               *)
RecordFails(q) ==
  /\ pc[q] \in {"read", "replace"}
  /\ Leaves(q, "done")
  /\ UNCHANGED <<env, Files>>

(* An exception anywhere else in the wrapper: the older answer, unrecorded. *)
WrapperFails(q) ==
  /\ pc[q] \in {"rebuild", "judge"}
  /\ Leaves(q, "done")
  /\ UNCHANGED <<env, Files>>

(* A conversation is deleted or expires; the follow-up file stays.         *)
Forget(c) ==
  /\ c \in known
  /\ known' = known \ {c}
  /\ UNCHANGED <<env, pc, pool, ask, shadow, older, reply, draft, misread,
                 store, promised, overlapped>>

Crash ==
  /\ \E q \in Questions : pc[q] \notin {"free", "done", "dead"}
  /\ pc' = [q \in Questions |-> IF pc[q] \in {"free", "done"} THEN pc[q] ELSE "dead"]
  /\ pool' = {}
  /\ ask' = [q \in Questions |-> NoAsk]
  /\ shadow' = [q \in Questions |-> NoShadow]
  /\ older' = [q \in Questions |-> "none"]
  /\ reply' = [q \in Questions |-> "none"]
  /\ draft' = [q \in Questions |-> <<>>]
  /\ misread' = {}
  /\ UNCHANGED <<env, Files>>

Step(q) ==
  \/ BuildShadow(q) \/ Route(q) \/ HandOver(q) \/ ChatAnswers(q)
  \/ Rebuild(q) \/ Judge(q) \/ WrapperFails(q)
  \/ Read(q) \/ Replace(q) \/ RecordFails(q)

Asked == [conv : Conversations, user : Users, text : Texts]

Next ==
  \/ \E q \in Questions : Step(q) \/ \E asked \in Asked : Ask(q, asked)
  \/ \E c \in Conversations : Forget(c)
  \/ Crash

Spec == Init /\ [][Next]_vars

-----------------------------------------------------------------------------
(* Properties *)

(* An answer of V3 is shown only to the canary, only for an action of this *)
(* stage, only with the confidence that is left after all doubts of the    *)
(* arbiter, and from evidence only if there is some (the conditions of     *)
(* docs/v3_4_4_followup_convergence.md).                                   *)
TakeoverJustified ==
  \A q \in Questions :
    pc[q] \in {"read", "replace"} /\ reply[q] \in Sources =>
      LET d == shadow[q].decision
      IN /\ InCanary(q)
         /\ d.action \in StageAllowed
         /\ EffectiveConfidence(d) >= env.threshold
         /\ EffectiveConfidence(d) >= ClarifyThreshold
         /\ reply[q] \in env.sources
         /\ d.action = "analyze_existing_evidence" => shadow[q].available

(* A follow-up file holds turns of its own conversation, of the canary,    *)
(* each once and no more than the limit, whoever writes at the same time.  *)
(* Turns that were recorded get lost only with two writers at a time or    *)
(* when a writer could not read the file: without the first it is what the *)
(* turns recorded one after the other since the last of the second make of *)
(* it.                                                                     *)
AnswersRemembered ==
  \A c \in Conversations :
    /\ c \notin Canary => store[c] = <<>>
    /\ Len(store[c]) <= MaxTurns
    /\ \A i, j \in 1..Len(store[c]) :
         store[c][i].conv = c /\ (store[c][i] = store[c][j] => i = j)
    /\ c \notin overlapped => store[c] = promised[c]

-----------------------------------------------------------------------------
(* What the documents want and the code does not do: execution is outside  *)
(* the takeover ("命令生成、命令执行、确认执行和配置变更仍不属于本批接管范围"). The  *)
(* arbiter and the older routes decide apart from each other, so V3's      *)
(* answer can replace the report of an execution.                          *)
ExecutionShown ==
  \A q \in Questions :
    pc[q] \in {"read", "replace"} /\ older[q] = "executed" => reply[q] \notin Sources
=============================================================================
