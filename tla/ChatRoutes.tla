----------------------------- MODULE ChatRoutes -----------------------------
(* Which part of V2 answers a question, and with what: the planner           *)
(* (chat_v2/llm_intent_planner.py), its validation (plan_dispatcher.py), the *)
(* semantic route (semantic_router.py), the cascade of the chat middleware   *)
(* (app.py), the suggestions of the router (router.py), the replies of the   *)
(* confirmation and the analysis of their output by the LLM                  *)
(* (execution_response_enricher.py, followup.py, llm_evidence_analyzer.py).  *)
(* Before them the advice route of app.py, beside them the V4 handler that   *)
(* generates commands; a question with typed commands is in                  *)
(* ConfirmExecution.                                                         *)
(*                                                                           *)
(* The context and the pending list are read anew at each stage, and what    *)
(* other requests store there in between is any context and any list;        *)
(* ContextV2 and ConfirmExecution say which.                                 *)
EXTENDS CommandCatalog

CONSTANTS
  Devices,      \* devices; a device stands for its name or its address
  Type,         \* the Netmiko type of each device
  None,         \* no device, no context, no list
  Questions,    \* words, number, device name, address and interface of a question
  Plans,        \* what the LLM may answer
  Contexts,     \* contexts of the conversation
  PendingLists, \* pending lists of the conversation
  Results,      \* lengths of audited text and preview after a device call
  PerCommand,   \* MAX_PER_COMMAND_CHARS
  Total,        \* MAX_TOTAL_EVIDENCE_CHARS
  MaxBatch,     \* MAX_BATCH_EXECUTE
  Categories,   \* categories of the V4 handler
  MaxStored,    \* bound: changes of context or list by other requests
  MaxQuestions  \* bound: questions

ASSUME LengthsAssumption ==
  {PerCommand, Total, MaxBatch, MaxStored, MaxQuestions} \subseteq Nat

ASSUME TypeAssumption == Type \in [Devices -> STRING] /\ None \notin Devices

\* An interface is a kind and numbers (extract_interface_from_text), or none.
ASSUME QuestionsAssumption ==
  /\ Questions # {}
  /\ Questions \subseteq
       [words : Seq(STRING), number : Nat, device : Devices \cup {None},
        address : Devices \cup {None}, interface : STRING \ Meaningful]

\* What may be stored: a context with its executions, a pending list.
ASSUME StoresAssumption ==
  /\ Contexts \subseteq
       [device : Devices \cup {None}, intent : STRING, analysis : BOOLEAN,
        executions : Seq([device : Devices, command : Seq(STRING), ran : BOOLEAN,
                          text : Nat, preview : Nat])]
  /\ PendingLists \subseteq
       [device : Devices,
        items : Seq([command : Seq(STRING), guard : {"passed", "review", "blocked"}])]
  /\ Results \subseteq [text : Nat, preview : Nat]
  /\ None \notin Contexts \cup PendingLists

VARIABLES
  configured, \* whether a base URL and a model of the LLM are set
  context,    \* the stored context
  pending,    \* the stored pending list
  pc,         \* the stage the question is in
  question,   \* the question in work, or the last one
  seen,       \* the context the planner was given
  plan,       \* the plan after its validation
  work,       \* items under analysis and the evidence taken from them
  reply,      \* the last reply
  stored,     \* changes by other requests so far
  asked       \* questions so far

vars == <<configured, context, pending, pc, question, seen, plan, work, reply,
          stored, asked>>

----------------------------------------------------------------------------
(* The words of a question *)

Says(q, words) == \E i \in DOMAIN q.words : q.words[i] \in words

\* Words of these classes, one right after the other.
Phrase(q, classes) ==
  \E i \in DOMAIN q.words : \A k \in DOMAIN classes :
    i + k - 1 \in DOMAIN q.words /\ q.words[i + k - 1] \in classes[k]

\* Words of these three classes in this order, anything between them.
InOrder(q, a, b, c) ==
  \E i, j, k \in DOMAIN q.words :
    i < j /\ j < k /\ q.words[i] \in a /\ q.words[j] \in b /\ q.words[k] \in c

Run == {"run", "start"}
Bulk == {"all", "these", "above", "just_now"}
Ordinal == {"nth", "nth_cn"}

\* is_v2_execution_request_question
IsExecutionRequest(q) ==
  \/ Phrase(q, <<{"confirm"}, {"run"}, {"nth"}, {"commands"}>>)
  \/ Phrase(q, <<{"confirm"}, {"run"}, {"commands"}>>)
  \/ Phrase(q, <<{"confirm"}, {"run"}, Bulk, {"commands"}>>)
  \/ Phrase(q, <<Run, Bulk, {"commands"}>>)
  \/ InOrder(q, {"take"}, {"commands"}, Run)
  \/ Says(q, {"YES"}) /\ Says(q, {"run"}) /\ Says(q, {"commands", "nth"})

\* is_execution_result_followup_question_text
AsksAboutResults(q) ==
  \/ Phrase(q, <<{"run", "commands"}, {"result"}>>)
  \/ Phrase(q, <<{"analyse"}, {"reason"}>>)
  \/ Says(q, {"result", "commands"}) /\ Says(q, {"analyse", "reason", "conclusion"})

\* is_followup_question: a request to execute is none.
IsFollowup(q) ==
  /\ ~IsExecutionRequest(q)
  /\ \/ AsksAboutResults(q)
     \/ Says(q, {"summary", "next"})
     \/ Phrase(q, <<{"above", "these", "just_now"}, {"result"}>>)
     \/ Says(q, {"conclusion"}) /\ Says(q, {"device", "cpu", "check", "result"})

\* What a text confirms: a number or all of the list, with or without YES.
Confirmation(index, yes) == [index |-> index, yes |-> yes]
All == 0

\* is_bulk_context_request
IsBulk(q) ==
  \/ \E i, j \in DOMAIN q.words : i < j /\ q.words[i] \in Run /\ q.words[j] \in Bulk
  \/ /\ Phrase(q, <<{"above", "just_now", "these"}, {"commands"}>>)
     /\ Says(q, Run \cup {"analyse", "result"})

\* normalize_execution_confirmation_question: the texts it rewrites.
Rewritten(q) ==
  /\ Says(q, {"YES"})
  /\ \/ Says(q, Run) /\ Says(q, {"nth"} \cup Bulk)
     \/ Says(q, {"confirm"}) /\ Says(q, {"commands"}) /\ Says(q, Bulk)

\* parse_confirmation_index on the normalised text; the empty set is no
\* confirmation.
Confirms(q) ==
  IF Rewritten(q)
    THEN {Confirmation(IF Says(q, {"nth"}) /\ Says(q, Run) THEN q.number ELSE All, TRUE)}
  ELSE IF Phrase(q, <<{"run"}, Ordinal>>) THEN {Confirmation(q.number, Says(q, {"YES"}))}
  ELSE IF IsBulk(q) THEN {Confirmation(All, Says(q, {"YES"}))}
  ELSE {}

\* semantic_confirm_question_from_route
SemanticConfirmation(q) ==
  Confirmation(IF Says(q, {"nth"}) THEN q.number ELSE All, TRUE)

\* _batch67_is_advice_analysis_question: advice or risks, unless the words are
\* those of an execution, or ask for commands and not for risks.
HardExecution(q) ==
  \/ Phrase(q, <<{"confirm"}, {"run"}>>)
  \/ Phrase(q, <<{"run"}, {"above"}, {"commands"}>>)

WantsCommands(q) ==
  /\ Phrase(q, <<{"check"}, {"commands"}>>) \/ Says(q, {"show"})
  /\ ~Says(q, {"no commands", "risk"})

IsAdvice(q) == ~HardExecution(q) /\ ~WantsCommands(q) /\ Says(q, {"risk", "assess"})

----------------------------------------------------------------------------
(* The planner *)

\* _normalize_action and normalize_action, one after the other; a word they
\* do not know is no action.
ActionOf ==
  [suggest |-> "suggest_commands", suggest_commands |-> "suggest_commands",
   prometheus_query |-> "prometheus_query", execute |-> "execute_pending",
   execute_pending |-> "execute_pending", execute_all |-> "execute_all_pending",
   execute_all_pending |-> "execute_all_pending", summary |-> "followup_analysis",
   followup_analysis |-> "followup_analysis", asset |-> "cmdb_query",
   cmdb_query |-> "cmdb_query", need_clarification |-> "need_clarification"]

Action(plain) ==
  IF plain \in DOMAIN ActionOf THEN ActionOf[plain] ELSE "need_clarification"

\* _normalize_category and normalize_category
CategoryOf ==
  [cpu_check |-> "cpu", mem |-> "memory", route |-> "route_table",
   crc |-> "interface_error", port_down |-> "interface_down", asset |-> "cmdb"]

Category(plain) == IF plain \in DOMAIN CategoryOf THEN CategoryOf[plain] ELSE plain

\* CATEGORY_TO_V2_INTENT
IntentOf ==
  [cpu |-> "cpu_check", memory |-> "memory_check", route_table |-> "route_table",
   bgp |-> "bgp_check", bfd |-> "bfd_check", interface_error |-> "interface_error_check",
   interface_status |-> "interface_check", interface_down |-> "interface_check",
   optical_power |-> "optical_power_check", transceiver |-> "optical_power_check",
   log |-> "log_check", device_health |-> "device_health_check"]

Intent(category) == IF category \in DOMAIN IntentOf THEN IntentOf[category] ELSE "none"

Plan(action, category, device, address, interface) ==
  [action |-> action, category |-> category, device |-> device,
   address |-> address, interface |-> interface]

\* _fallback_plan: what is done when the LLM cannot be asked; the first row
\* that applies.
FallbackTopics(q) ==
  << <<Phrase(q, <<{"run"}, {"all"}>>) /\ Says(q, {"YES"}), "execute_all_pending", "unknown">>,
     <<(Phrase(q, <<{"confirm"}, {"run"}>>) \/ Phrase(q, <<{"run"}, Ordinal>>))
         /\ Says(q, {"YES"}), "execute_pending", "unknown">>,
     <<Says(q, {"summary", "conclusion", "just_now", "next"})
         \/ Phrase(q, <<{"these"}, {"result"}>>),
       "followup_analysis", IF Says(q, {"cpu"}) THEN "cpu" ELSE "unknown">>,
     <<Phrase(q, <<{"interface"}, {"down"}>>), "suggest_commands", "interface_down">>,
     <<Says(q, {"errors"}), "suggest_commands", "interface_error">>,
     <<Says(q, {"cpu"}), "suggest_commands", "cpu">>,
     <<Says(q, {"route"}), "suggest_commands", "route_table">>,
     <<Says(q, {"bgp"}), "suggest_commands", "bgp">>,
     <<Says(q, {"optical"}), "suggest_commands", "optical_power">>,
     <<TRUE, "cmdb_query", "cmdb">> >>

Fallback(q) ==
  LET topic == Head(SelectSeq(FallbackTopics(q), LAMBDA row : row[1]))
  IN Plan(topic[2], topic[3], q.device, q.address, q.interface)

----------------------------------------------------------------------------
(* The validation of a plan *)

RouteOf ==
  [suggest_commands |-> "chat", prometheus_query |-> "chat",
   execute_pending |-> "confirm", execute_all_pending |-> "confirm",
   followup_analysis |-> "followup", cmdb_query |-> "cmdb",
   need_clarification |-> "clarify"]

\* A suggestion without an intent, or without a device and a context, becomes
\* a request to say more: only these are errors.
Refused(action, category, device, address, ctx) ==
  /\ RouteOf[action] = "chat"
  /\ \/ Intent(category) = "none" /\ category # "cmdb"
     \/ Intent(category) # "none" /\ {device, address} = {None} /\ ctx = None

DeviceOf(ctx) == IF ctx = None THEN None ELSE ctx.device

Mentioned(p, q) ==
  IF {p.device, p.address} = {None} THEN q.device ELSE p.device

\* Mutant: the device of the context goes before the one in the text.
DispatchContextFirst(p, q, ctx) ==
  LET action == Action(p.action)
      category == Category(p.category)
      inherits == RouteOf[action] = "chat" /\ Intent(category) # "none" /\ ctx # None
                    /\ {p.device, p.address} = {None}
  IN [action |-> action, category |-> category, intent |-> Intent(category),
      interface |-> IF p.interface = "" THEN q.interface ELSE p.interface,
      device |-> IF inherits THEN ctx.device ELSE Mentioned(p, q),
      address |-> p.address, raw |-> p,
      refused |-> Refused(action, category, Mentioned(p, q), p.address, ctx),
      route |-> IF Refused(action, category, Mentioned(p, q), p.address, ctx) THEN "clarify"
                ELSE IF RouteOf[action] = "chat" /\ category = "cmdb" THEN "cmdb"
                ELSE RouteOf[action]]

\* validate_and_dispatch_plan: the device of the plan, else the one the text
\* names, else, for a suggestion, the one of the context.
Dispatch(p, q, ctx) ==
  LET action == Action(p.action)
      category == Category(p.category)
      device == Mentioned(p, q)
      refused == Refused(action, category, device, p.address, ctx)
      inherits == RouteOf[action] = "chat" /\ Intent(category) # "none" /\ ctx # None
                    /\ {device, p.address} = {None}
  IN [action |-> action, category |-> category, intent |-> Intent(category),
      interface |-> IF p.interface = "" THEN q.interface ELSE p.interface,
      device |-> IF inherits THEN ctx.device ELSE device,
      address |-> p.address, raw |-> p, refused |-> refused,
      route |-> IF refused THEN "clarify"
                ELSE IF RouteOf[action] = "chat" /\ category = "cmdb" THEN "cmdb"
                ELSE RouteOf[action]]

----------------------------------------------------------------------------
(* Replies *)

Reply(route, status, answer, device, items, evidence) ==
  [route |-> route, status |-> status, answer |-> answer, device |-> device,
   items |-> items, evidence |-> evidence]

\* A reply in the handler's own words, about nothing.
Own(route, status) == Reply(route, status, "own", None, <<>>, <<>>)

NoReply == Own("none", "none")

Idle == [route |-> "none", status |-> "none", items |-> <<>>, used |-> <<>>, total |-> 0]

Answer(r) ==
  /\ reply' = r
  /\ pc' = "idle"
  /\ work' = Idle
  /\ UNCHANGED <<configured, context, pending, question, seen, plan, stored, asked>>

\* The reply under way: its items are analysed before it is sent.
Collect(route, status, items) ==
  /\ pc' = "collect"
  /\ work' = [Idle EXCEPT !.route = route, !.status = status, !.items = items]
  /\ UNCHANGED <<configured, context, pending, question, seen, plan, reply, stored, asked>>

GoTo(stage) ==
  /\ pc' = stage
  /\ UNCHANGED <<configured, context, pending, question, seen, plan, work, reply,
                 stored, asked>>

Init ==
  /\ configured \in BOOLEAN
  /\ context \in Contexts \cup {None}
  /\ pending \in PendingLists \cup {None}
  /\ pc = "idle"
  /\ question = CHOOSE q \in Questions : TRUE
  /\ seen = None
  /\ plan = Dispatch(Fallback(question), question, None)
  /\ work = Idle
  /\ reply = NoReply
  /\ stored = 0
  /\ asked = 0

\* Other requests of the conversation store contexts and lists.
Store ==
  /\ stored < MaxStored
  /\ stored' = stored + 1
  /\ \/ context' \in (Contexts \cup {None}) \ {context} /\ UNCHANGED pending
     \/ pending' \in (PendingLists \cup {None}) \ {pending} /\ UNCHANGED context
  /\ UNCHANGED <<configured, pc, question, seen, plan, work, reply, asked>>

\* A question arrives; the context is loaded for the advice or the planner.
Ask(q) ==
  /\ pc = "idle"
  /\ asked < MaxQuestions
  /\ asked' = asked + 1
  /\ question' = q
  /\ seen' = context
  /\ reply' = NoReply
  /\ pc' = IF IsAdvice(q) THEN "advise" ELSE "plan"
  /\ UNCHANGED <<configured, context, pending, plan, work, stored>>

\* The advice route goes before all others.
LlmAdvises == pc = "advise" /\ configured /\ Answer(Own("advice", "ok"))

\* The call raises, times out or is refused, or the advice is empty.
AdviceFails == pc = "advise" /\ Answer(Own("advice", "error"))

\* The first plan is for the semantic route, the second for the router.
AfterPlan == IF pc = "plan" THEN "route" ELSE "chat"

Planned(p) ==
  /\ pc \in {"plan", "plan again"}
  /\ plan' = Dispatch(p, question, seen)
  /\ pc' = AfterPlan
  /\ UNCHANGED <<configured, context, pending, question, seen, work, reply, stored, asked>>

\* The LLM's answer holds a JSON object.
LlmPlans(p) == configured /\ Planned(p)

\* No configuration, an HTTP error, no JSON, or the timeout.
LlmFails == Planned(Fallback(question))

----------------------------------------------------------------------------
(* The cascade of the middleware *)

\* has_usable_context
Usable(ctx) == ctx.executions # <<>> \/ ctx.analysis

\* A route the planner decided: an execution or a follow-up, without a look at
\* the words; everything else goes on to the local rules.
Route ==
  /\ pc = "route"
  /\ CASE plan.route = "confirm" -> GoTo("confirm")
       [] plan.route = "followup" /\ context = None ->
            Answer(Own("followup", "need_clarification"))
       [] plan.route = "followup" /\ context # None ->
            Collect("followup", "ok", context.executions)
       [] OTHER -> GoTo("local")

\* Execution requests, then follow-ups, then confirmations; what is none of
\* them is planned once more, for the router.
Local ==
  /\ pc = "local"
  /\ LET confirms == Confirms(question) # {}
         followup == context # None /\ IsFollowup(question)
     IN \/ confirms /\ (IsExecutionRequest(question) \/ ~followup) /\ GoTo("confirm")
        \/ /\ followup
           /\ IF Usable(context) THEN Collect("followup", "ok", context.executions)
              ELSE Answer(Own("followup", "need_more_evidence"))
        \/ /\ ~confirms /\ ~followup
           /\ pc' = "plan again"
           /\ seen' = context
           /\ UNCHANGED <<configured, context, pending, question, plan, work, reply,
                          stored, asked>>

\* The text that reaches the confirmation.
Asked ==
  IF plan.route = "confirm" THEN SemanticConfirmation(question)
  ELSE CHOOSE c \in Confirms(question) : TRUE

\* A command that was not sent: nothing to read of it.
Unsent(device, command) ==
  [device |-> device, command |-> command, ran |-> FALSE, text |-> 0, preview |-> 0]

\* What an execution leaves: the guard is asked again with the device's type,
\* and a rejection is audited too; its audit file may be missing.
Sent(list, i) ==
  LET command == list.items[i].command
      passes == Verdict(command, Type[list.device]) = "passed"
  IN {[device |-> list.device, command |-> command, ran |-> TRUE,
       text |-> r.text, preview |-> r.preview] :
        r \in IF passes THEN Results ELSE [text : {0, 1}, preview : {0}]}

Passed(list) == {i \in DOMAIN list.items : list.items[i].guard = "passed"}

Judged(passes) == IF passes THEN "passed" ELSE "rejected"

\* _handle_single_confirmation
One(list, n) == [status |-> Judged(n \in Passed(list)), items |-> {n}]

\* _handle_bulk_confirmation: all that passed, if they are not too many; what
\* is refused is shown.
Every(list) ==
  [status |-> Judged(Cardinality(Passed(list)) \in 1..MaxBatch),
   items |-> IF Passed(list) = {} THEN DOMAIN list.items ELSE Passed(list)]

\* The items a confirmation is about.
Selection(list, ask) ==
  IF ask.index = All THEN Every(list)
  ELSE IF ask.index \in DOMAIN list.items THEN One(list, ask.index)
  ELSE [status |-> "not_found", items |-> {}]

\* try_handle_v2_execution_confirmation, and what enrich_v2_execution_response
\* does with its reply: one without items is sent, all others are analysed.
Confirm ==
  /\ pc = "confirm"
  /\ IF pending = None THEN Answer(Own("confirm", "not_found"))
     ELSE LET selection == Selection(pending, Asked)
              order == Ascending(selection.items)
          IN IF order = <<>> THEN Answer(Own("confirm", selection.status))
             ELSE IF selection.status = "passed" /\ Asked.yes
               THEN \E sent \in [DOMAIN order -> UNION {Sent(pending, i) : i \in selection.items}] :
                      /\ \A k \in DOMAIN order : sent[k] \in Sent(pending, order[k])
                      /\ Collect("confirm", "executed", sent)
             ELSE Collect("confirm",
                          IF selection.status = "passed" THEN "pending_confirmation"
                            ELSE "rejected",
                          [k \in DOMAIN order |-> Unsent(pending.device, pending.items[order[k]].command)])

----------------------------------------------------------------------------
(* The evidence and its analysis *)

Smaller(a, b) == IF a <= b THEN a ELSE b

\* _load_output_for_item: the audited text, else the preview, cut.
Output(item) == Smaller(IF item.text > 0 THEN item.text ELSE item.preview, PerCommand)

\* Mutant: what is cut does not count.
TakeEvidenceUncounted ==
  /\ pc = "collect"
  /\ Len(work.used) < Len(work.items)
  /\ LET output == Output(work.items[Len(work.used) + 1])
         fits == work.total + output <= Total
     IN work' = [work EXCEPT !.used = Append(@, IF fits THEN output ELSE Total - work.total),
                             !.total = IF fits THEN @ + output ELSE @]
  /\ UNCHANGED <<configured, context, pending, pc, question, seen, plan, reply,
                 stored, asked>>

\* collect_evidence_from_items: the next item.
TakeEvidence ==
  /\ pc = "collect"
  /\ Len(work.used) < Len(work.items)
  /\ LET output == Output(work.items[Len(work.used) + 1])
         fits == work.total + output <= Total
     IN work' = [work EXCEPT !.used = Append(@, IF fits THEN output ELSE Total - work.total),
                             !.total = IF fits THEN @ + output ELSE Total]
  /\ UNCHANGED <<configured, context, pending, pc, question, seen, plan, reply,
                 stored, asked>>

Evidence == \E i \in DOMAIN work.used : work.used[i] > 0

\* The reply about the items under work, in these words.
Analysed(words) == Reply(work.route, work.status, words, None, work.items, work.used)

\* Without items or without a word of output the LLM is not asked.
EvidenceTaken ==
  /\ pc = "collect"
  /\ Len(work.used) = Len(work.items)
  /\ IF Evidence THEN GoTo("analyse") ELSE Answer(Analysed("failure"))

LlmAnalyses == pc = "analyse" /\ configured /\ Answer(Analysed("analysis"))

\* Mutant: the template's text stands in for the analysis.
AnalysisFailsSilently == pc = "analyse" /\ Answer(Analysed("analysis"))

\* Mutant: the call has no timeout.
AnalysisHangs == pc = "analyse" /\ ~configured /\ Answer(Analysed("failure"))

\* No configuration, an HTTP error, an empty answer or the timeout is shown.
AnalysisFails == pc = "analyse" /\ Answer(Analysed("failure"))

----------------------------------------------------------------------------
(* The router *)

TroubleHints == {"commands", "down", "check", "abnormal"}

\* detect_v2_intent: the first row that applies.
Detected(q) ==
  LET rows == << <<Says(q, {"route"}), "route_table">>, <<Says(q, {"cpu"}), "cpu_check">>,
                 <<Says(q, {"bgp"}), "bgp_check">>, <<Says(q, {"bfd"}), "bfd_check">>,
                 <<Says(q, {"interface"}), "interface_check">>, <<TRUE, "none">> >>
  IN IF Says(q, TroubleHints) THEN Head(SelectSeq(rows, LAMBDA row : row[1]))[2] ELSE "none"

\* infer_v2_intent_from_context
Inferred(q, ctx) ==
  IF ctx # None /\ Says(q, {"above", "just_now", "next", "this"}) THEN ctx.intent ELSE "none"

RouterIntent ==
  IF plan.intent # "none" THEN plan.intent
  ELSE IF Detected(question) # "none" THEN Detected(question)
  ELSE Inferred(question, seen)

\* The device of the plan, else the address or the name in the text, else the
\* device of the context.
RouterDevice ==
  LET heard == <<plan.device, plan.address, question.address, question.device>>
      named == {i \in DOMAIN heard : heard[i] # None}
  IN IF named # {} THEN heard[Min(named)] ELSE DeviceOf(seen)

\* The templates are written for one platform and always pass.
Suggested(device) ==
  LET commands == SelectCommands(plan.category, RouterIntent, plan.interface)
  IN [i \in DOMAIN commands |-> Unsent(device, commands[i])]

\* try_handle_v2_chat with its second plan.
Chat ==
  /\ pc = "chat"
  /\ Answer(
       IF plan.route = "cmdb" \/ (~plan.refused /\ RouterIntent = "none")
         THEN Own("legacy", "none")
       ELSE IF plan.refused \/ RouterDevice = None THEN Own("chat", "need_clarification")
       ELSE Reply("chat", "ok", "own", RouterDevice, Suggested(RouterDevice), <<>>))

\* A store, the resolver or the history raises: the question goes to the legacy
\* chat.
Raises == pc # "idle" /\ Answer(Own("legacy", "none"))

Interfaces == {q.interface : q \in Questions}

Checked(commands, type, max) ==
  /\ CheckCommands(commands, max)
  /\ \A i \in DOMAIN commands : Verdict(commands[i], type) = "passed"

\* What the V4 handler makes of a device, a category, an interface and a limit.
Generated ==
  [ask \in [device : Devices, category : Categories, interface : Interfaces, max : 1..8] |->
     LET type == Type[ask.device]
         commands == SplitCommandList(
                       BuildCommandSpecs(ask.category, type, ask.interface), ask.max)
     IN IF Checked(commands, type, ask.max)
          THEN Reply("v4", "confirmation_required", "own", ask.device,
                     [i \in DOMAIN commands |-> Unsent(ask.device, commands[i])], <<>>)
          ELSE Reply("v4", "unsafe", "own", ask.device, <<>>, <<>>)]

\* generate_commands: the device the arbiter heard of or else V4 remembers;
\* none, unknown to the resolver, the resolver fails, or a list.
Generate(device, category, interface, max) ==
  /\ pc = "idle"
  /\ asked < MaxQuestions
  /\ asked' = asked + 1
  /\ reply' \in IF device = None THEN {Own("v4", "no_device")}
                ELSE {Own("v4", "not_found"), Own("v4", "resolver_failed"),
                      Generated[[device |-> device, category |-> category,
                                 interface |-> interface, max |-> max]]}
  /\ UNCHANGED <<configured, context, pending, pc, question, seen, plan, work, stored>>

----------------------------------------------------------------------------
\* The server's own steps; a call of the LLM that is not answered ends in one.
Work ==
  \/ AdviceFails \/ LlmFails \/ Route \/ Local \/ Confirm \/ TakeEvidence \/ EvidenceTaken
  \/ AnalysisFails \/ Chat

LlmAnswers == (\E p \in Plans : LlmPlans(p)) \/ LlmAdvises \/ LlmAnalyses

Arrival ==
  \/ \E q \in Questions : Ask(q)
  \/ \E device \in Devices \cup {None}, category \in Categories,
        interface \in Interfaces, max \in 1..8 : Generate(device, category, interface, max)

Next == Store \/ Arrival \/ LlmAnswers \/ Work \/ Raises

Spec == Init /\ [][Next]_vars

\* The LLM need not answer, but each wait for it, the CMDB or a device ends by
\* its timeout.
LiveSpec == Spec /\ WF_vars(Work)

----------------------------------------------------------------------------
(* Properties *)

TypeOK ==
  /\ configured \in BOOLEAN
  /\ context \in Contexts \cup {None}
  /\ seen \in Contexts \cup {None}
  /\ pending \in PendingLists \cup {None}
  /\ pc \in {"idle", "advise", "plan", "route", "local", "plan again", "chat", "confirm",
             "collect", "analyse"}
  /\ question \in Questions
  /\ work.total \in 0..Total
  /\ stored \in 0..MaxStored
  /\ asked \in 0..MaxQuestions

\* The output of the items before the i-th one.
Before(items, i) ==
  LET sum[n \in 0..Len(items)] ==
        IF n = 0 THEN 0 ELSE sum[n - 1] + Output(items[n])
  IN sum[i - 1]

\* The evidence given to the LLM is the beginning of all output, each command
\* cut at its own limit: nothing is left out while there is room, and a cut or
\* an empty output lets no later one past the total
\* (collect_evidence_from_items).
EvidenceIsBeginning ==
  \A i \in DOMAIN work.used :
    LET before == Before(work.items, i)
    IN work.used[i] = IF before >= Total THEN 0
                      ELSE Smaller(Output(work.items[i]), Total - before)

\* A reply presented as the analysis of the LLM quotes output, and after a
\* confirmation only output of what this very request sent; in every other case
\* the reply about commands says that there is none
\* (execution_response_enricher.py:957, followup.py:745).
AnalysisGrounded ==
  reply.route \in {"confirm", "followup"} =>
    /\ reply.answer = "analysis" =>
         /\ configured
         /\ \E i \in DOMAIN reply.evidence : reply.evidence[i] > 0
         /\ reply.route = "confirm" =>
              \A i \in DOMAIN reply.evidence :
                reply.evidence[i] > 0 => reply.status = "executed" /\ reply.items[i].ran
    /\ reply.answer = "own" => reply.items = <<>>

\* Commands are suggested for the device the plan names, else for the one the
\* text names; the device of the context comes in only when neither names one,
\* whatever other requests store between the two plans of a question
\* (plan_dispatcher.py:263, router.py:137).
NamedDeviceWins ==
  reply.route = "chat" /\ reply.items # <<>> =>
    LET heard == {plan.raw.device, plan.raw.address} \ {None}
    IN CASE heard # {} -> reply.device \in heard
         [] heard = {} /\ question.device # None -> reply.device = question.device
         [] OTHER -> reply.device \in {question.address, DeviceOf(seen)}

\* The catalog of V4 asks for no command its own checks refuse: for every type,
\* category and interface a text can spell, the list passes the splitter, the
\* check of V3 and the guard of the device's type.  The one exception is the
\* type fortios: the catalog finds "ios" in it and writes for Cisco, the guard
\* knows it as FortiGate and sends every show to a person
\* (chat_v4/handlers/generate_commands.py:28 and 384, netmiko/cli_guard.py:324).
GeneratedListPasses ==
  reply.route = "v4" /\ reply.status = "unsafe" => Type[reply.device] = "fortios"

\* Every question is answered, whatever the LLM does.
Answered == pc # "idle" ~> pc = "idle"

----------------------------------------------------------------------------
(* Promises the code does not keep *)

\* router.py:8 "Validate every suggested command with CLI Guard.": the templates
\* take the place of the validated commands, and a device that is no Cisco gets
\* commands its guard does not pass, shown as passed.
ShownStatusIsVerdict ==
  reply.route = "chat" =>
    \A i \in DOMAIN reply.items :
      Verdict(reply.items[i].command, Type[reply.device]) = "passed"

\* docs/v2_frontend_test_cases.md:100: without YES the reply asks for it.  The
\* analysis of the items, which were not sent, takes the place of that text.
YesAsked == reply.status = "pending_confirmation" => reply.answer = "own"

\* followup.py:150: a request to execute must be handled by the confirmation
\* first.  The planner's word goes before that rule, and so does the advice
\* route when the request speaks of risks too.
RequestNotTaken == reply.route \in {"followup", "advice"} => ~IsExecutionRequest(question)

\* router.py:431: an address in the text is the device asked about.  When the
\* plan of the LLM leaves it out, the device of the context goes before it.
AddressHeeded ==
  reply.route = "chat" /\ reply.items # <<>> /\ question.address # None
    /\ plan.raw.device = None /\ question.device = None => reply.device = question.address
=============================================================================
