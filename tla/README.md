# NetAIOps asset agent: TLA+ models and proofs

The program answers questions about network devices in a chat: it looks devices
up in a CMDB and in Prometheus, suggests read-only CLI commands, runs them on
devices after a confirmation, and remembers what a conversation was about. It
is one FastAPI application (`src/app.py`) over the package
`src/netaiops_asset`. This directory models the parts of it that keep state or
decide what reaches a device, checks them with TLC and proves their safety
with TLAPS.

## 1. Inventory

### How the program runs

* One uvicorn process serves HTTP. The chat middleware
  (`v2_chat_router_middleware`, app.py 1280-1646) runs its body on the event
  loop without an `await`: one chat request at a time. The legacy `chat`, the
  conversation API and `/api/v1/llm/compare` are plain functions and run in a
  pool of threads beside it.
* All state is in files: V4 contexts, V2 contexts, pending command lists,
  conversations, titles, audits. Only the V4 context store takes a lock
  (`flock`), so only it is safe with several server processes.
* A chat question passes the routes in this order: advice, V4 (entry router),
  inline commands, conversation actions, confirmation, follow-up, the V2 router,
  the legacy chat. An exception in the middleware (1625-1645) hands the question
  to the legacy chat.

### Components

| component | state | operations | what is hard |
|---|---|---|---|
| V4 context store (`chat_v4/context_store.py`, `contracts.py`) | one JSON file per conversation, its lock, a quarantine | load, save, append_turn, add_audit_ref | several processes; kills and power loss between write, fsync, rename, fsync of the directory; invalid content; bounded lists |
| V4 chat path (`entry_router`, `action_dispatcher`, `context_migration`, `audit_writer`, `app_bridge`) | V4 context, audit file of a request, legacy conversation | route, dispatch, load_or_migrate, write audit, attach reference, record history | four stores written one after the other, each may fail; races of two migrations; when to fall back to the older routes and when to show an error |
| V4 handlers (`chat_v4/handlers`) | none | answer a question | the command handler shows a list and stores none |
| confirmation and execution (`chat_v2/confirmation.py`, `inline_command_execute.py`, `semantic_router.py`, `netmiko/executor.py`, the endpoint `execute_confirmed`) | pending lists, one file per conversation and one per user name; execution audits | store, load, confirm one or all, execute, execute directly, audit | stale lists, two writers, the planner's rewriting of a confirmation, retries, batch limits, crashes between device call and audit |
| conversation history (`agent/conversation_store.py`, `conversation_actions.py`, the synchronisation of app.py 3093-3206) | one JSON file per conversation, one shared temporary name | append_turn, create, get, list with expiry, delete, export | no lock: overlapping writers, torn temporary files, deletes and expiry under a writer |
| V2 context (`chat_v2/context.py`) | two files per save: conversation and user | save, load, sanitise | topic and device changes, two files without a lock, requests with and without a conversation id |
| V2 follow-up and router (`followup.py`, `router.py`, `plan_dispatcher.py`, `command_templates.py`, `execution_response_enricher.py`) and the advice route | none of its own | classify, plan, answer, suggest a list, analyse outputs | two plans of one question with a context that changes between them; the analysis takes the place of the reply; outputs cut around two limits; three tables of platforms that have to agree |
| CLI guard, PromQL guard (`netmiko/cli_guard.py`, `observability/promql_guard.py`) | none | passed, review or blocked | classification of text |
| V3 arbiter, shadow, takeover (`chat_v3`, app.py 51-1211) | follow-up files, one per conversation; log lines | decide, plan, judge, take over, record the turn | gates spread over decision, plan and environment; a shadow made before or after the older answer; follow-up files without a lock |
| MCP clients (`mcp`) | session, reader thread, message queue | connect, call a tool | timeouts, late answers, reader that dies |
| device identity, CMDB (`device_identity`, `cmdb`, `tools`, `agent/rule_parser.py`) | none | query by page, scan, count, export, resolve a device | a table read page by page while it changes; conditions the CMDB ignores or rejects; retries and a second scan without conditions; names that are parts of other names |
| LLM (`llm`, `llm_intent_planner`, `llm_evidence_analyzer`) | none | plan, analyse | unreachable, unexpected answers |
| titles (app.py 3640-3927) | one file for all users | get, rename, delete | unreadable file, shared temporary name |
| security audit, troubleshooting, web pages, tools | audit lines | - | - |

How they interact: the entry router reads a V4 context and asks the arbiter
(V3); the dispatcher loads or migrates the context (from the V2 follow-up
bridge and the legacy conversation), runs a handler, appends to the context,
writes the audit and attaches its reference; the bridge appends to the legacy
conversation. The V2 router suggests a list and stores it as pending; a
confirmation or an inline request loads a pending list and calls the executor,
which asks the guard and calls the device over MCP or Netmiko.

What makes each component correct, in a sentence: the context store is an
atomic register with bounded lists; the V4 path's reply, context, audit and
history agree; what reaches a device was guarded, confirmed and belongs to the
conversation; a conversation shows its turns, all of them and nobody else's; a
V2 follow-up is answered from evidence of its own conversation, device and
topic. `PROJECT.json` lists the hazards at their lines.

## 2. Modules

| module | what it is |
|---|---|
| `ContextOps` | the data of the V4 context: turns, audit references, revision; what each operation does to a context; the limits |
| `AtomicContext` | what the context store promises: each operation takes effect at one instant or not at all |
| `ContextStore` | the store, step by step: lock, read, temporary file, rename, fsync, unlock; failures, kills, power loss, damage |
| `ContextStoreProofs` | lemmas about lists and contexts, theorems |
| `ConfirmExecution` | pending lists, confirmations, inline commands, the direct endpoint, executor, audit, compare endpoint |
| `ConfirmExecutionProofs` | its theorems |
| `V4Dispatch` | a question through entry router, dispatcher, migration, handlers, response, audit and bridge; uses `ContextOps` for the context, one operation per step |
| `V4DispatchProofs` | its theorems |
| `ConversationHistory` | `append_turn` by its file operations, for every route that records a turn |
| `ConversationHistoryProofs` | its theorems |
| `ToolCall` | what a call of an MCP tool promises |
| `McpClient` | an MCP session with its reader thread, and its callers: a command, a device list, the CPU probe |
| `McpClientProofs` | its theorems |
| `V3Takeover` | arbiter, dispatcher, gate and wrapper of the V3 canary, and the follow-up files |
| `V3TakeoverProofs` | its theorems |
| `ContextV2` | the V2 context: what suggestions, confirmations, inline requests and follow-ups read from it and save to it |
| `ContextV2Proofs` | its theorems |
| `CmdbQuery` | a question about the CMDB on any of its ways, over the adapter's pages, retries and filters; the resolver |
| `CliGuard` | verdict of the read-only guard, the check and the splitter of command lists, as operators over words |
| `CommandCatalog` | the command templates of V2 and V4 |
| `ChatRoutes` | which part of V2 answers a question and with what; uses `CommandCatalog` and `CliGuard` |
| `ChatProofs` | theorems of `ChatRoutes` and `CmdbQuery`, and what splitter, check and guard make of the catalogue |
| `MC...` | instances for TLC |

`V4Dispatch` treats an operation of the context store as one step. That is what
`ContextStore` implements (`ImplementsAtomicContext`, checked and proved), so
the composition is sound: the detailed store is checked alone, its user against
its promise. In the same way `ChatRoutes` takes the stored context and the
pending list as whatever other requests may have left there, which `ContextV2`
and `ConfirmExecution` say, and `ConfirmExecution` takes any verdict of the guard,
which `CliGuard` computes.

### ContextOps, ContextStore, AtomicContext

A context keeps what the properties tell apart: `rev`, `turns`, `refs`,
`device`. `Prepare` is `_prepare_context`: cut the lists to their limits and
remove duplicates; `WithTurn` and `WithRef` are `append_turn` and
`add_audit_ref`; `Effect(o, file)` is the new content an operation `o` writes.
Truncation of texts, redaction and timestamps are left out.

`ContextStore` is about one conversation; two have separate files and locks.
`file` is what a reader sees, `disk` the set of contents that may be there after
a power loss: a rename adds to it, the fsync of the directory collapses it.
`pc` goes idle, lock, read, write, replace, sync, unlock. `Fail` covers every
raised exception between lock and unlock, `Crash` a killed worker (the kernel
releases its flock), `PowerLoss` both at once for all workers, `Damage` a file
made invalid from outside. `ReadGarbage` moves such a file to quarantine and
answers an error.

`AtomicContext` knows only the stored content and what each caller has been
told. The refinement maps a process that has done its rename to "committed" and
one before it to "called".

### ConfirmExecution

Requests arrive one at a time (`phase = "idle"`), because the middleware has no
`await`; the compare endpoint is a second writer of lists with steps of its own.
`Suggest` is the V2 router with the store behind it, `SuggestV4` the handler
that shows a list and stores none, `Confirm` a confirmation with a command number
or "all" (0), with or without YES, its number in digits or not, and with the
answer of the planner (execute, follow-up, other, unreachable). `Meant` is the
question after `semantic_confirm_question_from_route`. `Load` reads the pending
list (`LoadPending`: the conversation's file, else the user's) and `Selected`
the commands that are queued. `Execute` is `execute_confirmed`: stored guard
status, the guard asked again, the device call with its two outcomes. `Audit`
is the audit file, written after the call. `Inline` is a request with typed
commands: chunks of at most the batch limit, each stored as a list, then
confirmed, then confirmed again if nothing was really executed (`TryAgain`).
`WriteFails` leaves a file as it was or torn. `Direct` and `ExecuteDirect` are
`POST /api/v1/netmiko/execute_confirmed`: one command of the caller's, with YES and
the guard but without a list.

### V4Dispatch

A request is a record with a program counter. The labels follow the code:
snapshot (`_read_context_snapshot`), decide (arbiter, clarification gate,
allowed actions), ensure (conversation id), load, migrate, reload, handle,
append, audit, ref, history, save; error, internal and fallback are the three other
ways out; older is the V2 and V3 routes' answer, which goes into the history the
same way. How a handler can end is in
`Outcomes`: `Clarifies` (it answers or asks), `Generates` (it can fail too),
`Resolves` (it can find a device to remember). `BuildResponse` is the response of
the entry router with the audit id it shows, `Prepared` what
`load_or_migrate` makes where there is no file, `AuditWrite` the audit file, written
or not when the write fails. The legacy history has no lock: `append_turn` is a
read (`ReadHistory`, or `CreateHistory` where it finds no conversation) and a replace
(`SaveHistory`, `SaveFails`) that other requests may come between. `drafts` are the
texts of all who have written into a conversation's temporary file since it last had
no writer; any of them, or garbage if there were several, may be what a rename puts
into place (`InPlay`). Whatever reads a conversation may not be able to just now: the
migration then finds nothing of it (`Found`), the bridge makes a new one.
`overlapped` collects the conversations that had two writers at once; for them
`OkReplyRecorded` promises context and audit only. Every step that touches a
store has its failure. Conversations are deleted and contexts damaged
meanwhile, and a server process dies with its request. Several processes run
(`MaxActive`), as the store's lock allows.

### ConversationHistory

`Read`, `Create`, `Open`, `Write`, `Replace` are the steps of `append_turn` and
`_atomic_write`: `Open` truncates the temporary file, whose name all writers of a
conversation share, and a write goes to the file that was opened, wherever a
rename of another writer has put it meanwhile (`open` says where). `Overlay` is a
shorter text over a longer one. The routes are grouped by what they record:
`suggest` appends once; `analyse` (confirmation or follow-up answered by its
route) appends and is synchronised a second time by `_batch66`; `confirm` is
recorded only by that synchronisation; `query`, `other` and `export` run in
threads. `Failed` is the exception handling of the middleware: hand over to the
legacy chat, or try once more, or give up. Delete, expiry and creation by the
API are actions of their own. A read error of an intact file is left out here: the
legacy routes would then go on in a new conversation, and what is promised of the old
one would say less. `V4Dispatch` and `ContextV2` have it.

`promised` is a history variable: the turns appended one after the other.
`overlapped` collects the conversations that ever had two writers between read
and rename, or were removed under a writer.

### McpClient, ToolCall

Every call opens a session: `Open` starts the reader thread, the server offers
an endpoint, `Initialize` and `Call` post a request and wait. `stream` is what
the server has sent, `queue` what the reader has passed on; the caller takes
from the queue until it sees the id it waits for (`Awaited`), drops the rest
(`Drop`), or times out. A session whose `connect()` raises is never closed
(`ConnectFails`), one with an answer is (`ClosesThen`). The server is external:
it may run a request late, refuse it, answer twice or not at all. `Conclude` is
what the caller makes of a session: `NetmikoMcpClient`, `list_devices`, and the
CPU probe, which goes on to the next query template until one has data.
`ToolCall` is what other modules may rely on: at most one run, "ok" only after
one, "failed" says nothing. `Execute` of `ConfirmExecution` makes its device
call with these outcomes.

### V3Takeover

A question on the event loop passes `BuildShadow`, a route of the middleware
(`Route`) or the legacy chat in a thread (`HandOver`, `ChatAnswers`), then the
wrapper. The arbiter is a pipeline of operators: what the LLM sends (`LlmAnswers`,
asked once more where it refuses JSON mode), whether it holds an object (`Parsed`),
what is made of the object (`NormalizePayload`, `Validated`), the decision
(`Decide`). In the wrapper: `Rebuild` if there is no shadow, `Judge`, `Read` and `Replace` of the
follow-up file. `Plan` is `build_dispatch_plan`, `EffectiveConfidence` the cap
of an answer that contradicts itself, `Eligible` the gate, `GeneratedFrom` the
source of the generated answer. A follow-up file that cannot be read just now counts
as empty (`Read`, with `misread` for a question that has missed turns by it), and
`Replace` writes what it has made of that: `promised` starts anew there (`Seen`).
Confidences are levels around the two thresholds
of the dispatcher and the one of the canary. Texts are model values with what
`split_commands` finds in them.

### ContextV2

A context keeps its conversation, the name and address of its device, its topic
(`intent`) and the executions a follow-up may quote; `Items` are executions, with
the conversation they ran in as the model's knowledge. `Updated` joins the
update functions of `save_v2_context_from_response`: what a response does not
say stays. `Sanitized` is the filter that runs on every load and save; `TopicOf`
is the topic it reads from a command's text. `Load` reads the conversation's file or,
without an id, the user's; any exception there counts as no context. A save is `Read`, `WriteConversation`, `WriteUser`:
the two files follow each other, and writers of one path share its temporary
file. A save that could not read the context (`misread`) replaces it by one that holds
only its own update; `promised` begins anew with it (`Seen`). The chat's requests exclude each other (`LoopBusy`); the compare endpoint
does not. `Confirm` takes any report of a confirmation over the pending list
(`ConfirmExecution` says which it gives); two of its three routes save under the
id of the request, the third under the recorded turn's (`Recorded`: the id of the
request, or a new one where it has none, is unknown or deleted, or cannot be read). `Inline` first stores a
context without evidence and its own list, then executes it; a command without a topic
in a context without one makes the topic `inline_command`. `Follow` keeps in
`cited` the context it was answered from. `promised` replays the updates of a
conversation one after the other, since the last misread one.

### CmdbQuery

A condition is the set of devices it admits; `server` says which conditions the
CMDB applies, ignores or rejects and whether it reports totals. `ChatQuestion` and
`Compare` choose between the rule parser and the LLM's plan (`ShouldTryLlm`,
`SanitizePlan`, `AcceptLlm`) with the LLM's retries and base URLs (`LlmAgain`,
`LlmNextBase`); `Handle` is the V4 handler, `QueryTool` and `QueryDirect` the tool
and the endpoints, `Export` the export, `Resolve` the resolver. All of them share
the adapter: `GetPage` reads the next page of a table that `Change` alters
meanwhile, `GetFails` is a failed request with its retries and the begin of the
second scan without conditions, `GetUnfiltered` the page of a query that has no
condition, `Conclude` what the caller makes of the answer or of the error. `MatchNetmiko` is the resolver's look into
Netmiko's list, `SelectItem` its choice among several rows. The `truth` of an answer
(the rows that matched when it was given) and `exact` (nothing moved, totals
reported, limit not reached) are the model's knowledge. Assumptions: a table holds each row once, each device has a
name, the CMDB honours `pageSize` (the scan takes a shorter page for the last,
adapter.py:306), and the local filter of the scans is on, as is its default
(`local_filter_enabled`, adapter.py:37; without it, adapter.py:246, rows come back as
the CMDB serves them). One proof module
extends this model and `ChatRoutes`; names both would have carry the prefix `Cmdb`.

### CliGuard, CommandCatalog

A command is a sequence of words; a word may stand for several that no rule
tells apart. `Verdict` is `validate_cli_command`, `CheckCommands` the V3 check,
`SplitCommandList` the splitter. The catalog holds `Templates` (written for NX-OS,
`SelectCommands` chooses) and `BuildCommandSpecs` (by platform family).
`PlatformFamily` looks for parts of a type's name in the order of the code: the
families whose parts it holds are `NamesIn`, of the types the code names by a table
(`KnownNames`), of any other type by the constant `OtherNames`. The parts overlap:
"fortios" holds "ios", so the catalog writes for Cisco where the guard sees a
FortiGate.

### ChatRoutes

A question is a sequence of words, each for a group of phrases the code's
patterns do not tell apart, with the device, address, number and interface that
are found in it. Its stages (`pc`): the advice route, the planner, the semantic
route, the cascade of confirmation and follow-up (`Local`), the second plan, the
router (`Chat`), then for outputs `TakeEvidence` and the analysis. `Dispatch` is the
validation of a plan, `Fallback` the plan without an LLM, `Route` the semantic
route, `Selection` what a confirmation sends, `Answer` the end of a question.
`Store` is another request's save of a context or list between two stages.
`Raises` is an exception anywhere, which hands over to the legacy chat. `Generate`
is the V4 handler, for every device, category and interface.

## 3. Checked properties

Every run ends within minutes with two workers. `CHECK_DEADLOCK FALSE` stands
where behaviours end, as requests are bounded there; `store` goes on for ever
and is checked for deadlock.

| run | what it checks | bounds |
|---|---|---|
| `store` | `StoredWellFormed`, `AcknowledgedSurvives`, `GarbageNeverOverwritten`, `NoLostUpdate`, `ImplementsAtomicContext`, `LockReleased` (fair) | 2 processes, 3 turns with a limit of 2, 1 reference, 2 revisions, 1 damage |
| `confirm` | `OnlyGuardedCommandsSent`, `BatchLimit`, `YesWithoutPlanner`, `NoSuccessRepeated`, `ListIsolation`, `Answered` (fair) | 2 conversations, 2 users with files of their own, 2 requests, lists around the limit of 2, direct calls |
| `v4` | `OkReplyRecorded`, `RefsResolve`, `ErrorNotAuditedOk`, `FallbackLeavesNoTrace`, `QuarantineShown` | 2 requests at once, an old conversation and an unused id, list limits of 2, a limit of 3 turns in the history, 4 revisions, 1 damage |
| `v4_live` | `Answered` (fair) | 1 request with every failure and every action of the arbiter |
| `history` | `SerialHistory`, `NoForeignTurn`, `AnswerRecorded` | 2 requests, an old conversation and an unused id, a limit of 2 turns |
| `mcp` | `CallAfterInitialize`, `ProbeVerdict`, `ImplementsToolCall`, `CallersAndReadersEnd` (fair) | 3 sessions, 2 query templates and 1 hint, 1 message that answers nothing |
| `v3` | `TakeoverJustified`, `AnswersRemembered` | 2 questions, a conversation of the canary and one outside it, 2 users, 2 texts, a limit of 2 turns |
| `context` | `EvidenceOwn`, `FollowupJustified`, `SerialContext`, `EvidenceKept` | 2 requests, 2 conversations (one with or without a context of an earlier day), 2 users with files of their own, 2 devices, 2 topics, a command of one topic and a log command, which the other topic does not admit |
| `cmdb` | `AnswerMatches`, `StableAnswerComplete`, `ResolvedIsNamed`, `CmdbAnswered` (fair) | 3 devices whose names are parts of others, pages of 2 rows, a limit of 3 rows, 1 retry, 2 base URLs with 1 retry, 1 change of the table, 1 request |
| `routes` | `EvidenceIsBeginning`, `AnalysisGrounded`, `NamedDeviceWins`, `GeneratedListPasses`, `Answered` (fair) | 9 devices (one of each family, one whose name is of two families, two of types the guard has no alias for), 13 questions, 8 plans, 1 question with 2 stores by others; limits of 2 per output, 3 in sum, 2 commands |
| `explicit_yes`, `number` | one statement of the documents or comments each, which the code does not keep | 2 requests |

Why the bounds are enough to meet the interesting cases: two processes or
requests give every race the code can have on one file; a third only repeats the
part of the second. Limits of one or two are crossed within the runs (a migrated
list of three turns in `store`, three typed commands in `confirm`, a saved turn
and two new ones in `history`, three rows over pages of two in `cmdb`, two outputs
over the sum in `routes`). Two revisions are enough for a conflict, for a lost
update and for the state after a quarantine. One request is enough in `cmdb` and
`routes`: nothing a request leaves there is read by another but what the initial
state and `Store` already choose freely (the remembered device, a context, a
list). Every action fires in every model. Names of bounds: `MaxRevision`,
`MaxDamage`, `MaxRequests`, `MaxActive`, `MaxSessions`, `MaxNoise`, `MaxChanges`,
`MaxStored`, `MaxQuestions`; the others (`MaxTurns`, `MaxRefs`, `MaxBatch`,
`MaxHistory`, `MaxRows`, `PerCommand`, `Total`) are limits of the code with small
values. Symmetry is used in `v4`, `history`, `v3` and `context` for requests, in
`history` for unused conversation ids too, in `context` for conversations and devices,
and in no run with a liveness property.

`NoSuccessRepeated` is about one chunk and one number of its list: a command that two
chunks of an inline request hold, or that a list holds twice, is sent for each.

Fairness. `LockReleased` assumes that a process inside an operation goes on or
dies (`WF` per process): it waits for nothing but local file operations, which
return or raise. `Answered` of `confirm` assumes weak fairness of the
middleware's own steps: it awaits nothing, and every device call ends by its
timeout. `Answered` of `v4_live` assumes the same of each request; the LLM call
has a timeout. `CallersAndReadersEnd` of `mcp` assumes that a caller goes on (each
of its waits ends by a timeout) and that a reader whose session is closed comes
out of `readline`, which has a timeout of 30 seconds; nothing is assumed of the
server. `CmdbAnswered` and `Answered` of `routes` assume weak fairness of the server's
own work, to which the end of a wait by its timeout belongs; that the LLM, the
CMDB or a device answers is not assumed, its answers are no part of `Work` in
`routes`. A process that dies answers nobody; the properties say so. No
fairness is assumed of users, of crashes or of the compare endpoint.

Each property has a mutant, a plausible bug of the definition it guards, that
TLC finds (`PROJECT.json`, "mutants"; the mutated forms stand in the modules
before the definition they replace, marked "Mutant").

## 4. What the violation runs show

* `explicit_yes`: with the LLM planner, a confirmation without YES executes. The
  planner's `execute_pending` becomes a text with YES that the user never wrote.
  `YesWithoutPlanner` is what remains true.
* `number`: "第三条" (a Chinese ordinal) is dropped on that way, and the
  confirmation of one command becomes one of all.

More promises stand at the end of the modules and belong to no run; each can be
tried by naming it as INVARIANT (or PROPERTY) in the configuration of its module.

* `InlineExecutesTyped` (an inline request executes what was typed) fails when the
  compare endpoint stores a list between the store and the load of a chunk.
* `NewConversationExecutesNothing`: a confirmation in a new conversation executes the
  user's last list from another one (`docs/v2_frontend_test_cases.md` wants
  nothing executed). `ListIsolation` is what remains true: only without a
  readable list of its own, only under the same user file.
* `HistoryErrorNotRecorded` (V4Dispatch): a conversation deleted while its question
  is answered: the turn is recorded in a new conversation and reported as not
  recorded.
* `CoherentDevice` (ContextV2): a device without a known address, or a confirmation
  that names another device, keeps the address of the device before.
* `ExecutionsPersisted` (ContextV2): the outputs of an executed list (BFD has no
  entry in the reader of topics) are dropped by the save that is to keep them for
  follow-ups.
* `EveryExecutionAudited` fails with a crash between device call and audit.
* `HistoryErrorInAudit` fails when the second audit write fails, as its result
  is ignored.
* `LastListExecuted`: the V4 handler shows a list, the confirmation executes the
  one before.
* `FactoryFailureVisible`: if no conversation can be created, V4 falls back
  silently, though `docs/v4_2_3_entry_router_live_switch.md` wants a visible error.
* `EveryReaderEnds` (McpClient): the reader of a session whose `connect()` raised is
  left to the server's stream.
* `GeneratedListPasses` (ChatRoutes) without its exception fails, too: for a device of type "fortios"
  the catalog finds "ios" and lists `show` commands of Cisco (generate_commands.py:28);
  the guard knows the type as FortiGate and sends every `show` to review
  (cli_guard.py:324), so the list is refused as unsafe.
* `ExecutionShown` (V3Takeover): arbiter and older routes decide apart from each
  other, so an answer of V3 can replace the report of an execution, which
  `docs/v3_4_4_followup_convergence.md` excludes.
* `PlanFiltersAnswered` (CmdbQuery): without an operation in the plan, the device
  the context remembers becomes the keyword and the plan's filters are dropped.
* `TimeoutNamed` (CmdbQuery): a time-out of the CMDB gets another error code on the
  way through `normalize_tool_result`.
* `RememberedIsOnly` (CmdbQuery): the only row of a page is remembered as the only
  match.
* `EveryMatchFound` (CmdbQuery): without totals the first page ends the scan, and
  above the limit rows are left out.
* `NamedAlwaysResolved` (CmdbQuery): where more rows contain a name than a page
  holds, the first is taken, the named one or not.
* `ShownStatusIsVerdict` (ChatRoutes, router.py:8): the NX-OS templates replace the
  commands the guard has judged and are shown as passed for every device.
* `YesAsked` (ChatRoutes, docs/v2_frontend_test_cases.md:100): the analysis takes the
  place of the reply that asks for YES.
* `RequestNotTaken` (ChatRoutes, followup.py:150): a request to execute is taken by
  the follow-up when the planner says so, or by the advice route.
* `AddressHeeded` (ChatRoutes, router.py:431): an address in the text that the
  LLM's plan leaves out gives way to the device of the context.

## 5. Proofs

All theorems are about the specification for every value of its constants under
the modules' named assumptions: limits are positive, special values are distinct,
inputs have their types. TLAPS checks every step; nothing is assumed beside that.

**Context store** (`ContextStoreProofs`). The inductive invariant `Inv` joins the
properties with three facts they need: the holder of the lock is exactly the
process between read and unlock (`LockHeldInside`); a process outside idle runs an
operation and only writers prepare a draft (`OperationRuns`); a damaged file has
only itself on disk (`GarbageSettled`). From the first comes that at most one
process is inside (`OneInside`), so that what it has read stays true until its
rename. `Invariance` gives `TypeCorrect`, `StoredAlwaysWellFormed`,
`AcknowledgedAlwaysSurvives`, `DraftAlwaysCurrent`, `NeverTempResidue`. `GarbageSafe`
and `NoUpdateLost` are action properties from the same invariant; `NoUpdateLost`
needs that cutting and de-duplicating drop at most the oldest turn
(`AppendNewKeeps`, `EffectKeepsTurns`). `Refinement`: initial states map to
initial states, and each action maps to an action of `AtomicContext` or a stutter
(`NextRefines`, one lemma per kind of action). `HolderComesNearer`: every step of the
holder lowers what its operation has still to do (`WayLeft`), failures included, and no
step of another takes the lock from it.

**Confirmation** (`ConfirmExecutionProofs`). `TypeInv` strengthens `TypeOK` by which fields a request has in which
phase (`Requested`), that only passed commands of the loaded list are queued
(`Queued`), and that an entry lies only in files of its conversation or user
(`Owned`). `GuardAlwaysAsked`, `YesAlwaysNeeded` and `ListsIsolated` follow with
`StepCases`, which reduces the actions to these kinds: a request arrives, a list
is loaded, a command of a list is sent, one is sent by a direct call, a second pass
or the next chunk begins, nothing of that. `SuccessNeverRepeated` needs the order of calls
(`Ordered`: chunks and passes go up, a second pass follows a first one without
success, the queue goes up), `BatchNeverExceeded` counts the calls of a pass
plus what is still queued. `RequestComesNearer`: chunks, second confirmations, phases,
and files or calls left decrease in this order with every step of the chat, and the
compare endpoint, which may store another list meanwhile, changes none of them.

**Conversation history** (`ConversationHistoryProofs`). `Serial(c)`: a
conversation without overlap has at most one writer, its draft is what the file
shows with its turn appended, and the temporary file is its own while it writes.
`HistorySerial` follows for any number of requests, crashes and left-over
temporary files; `HistoryTypeCorrect` gives the bound on a draft. What a single turn
can do is a second invariant, `Traced`, beside the first. `FilesFit`: every readable
file and temporary file shows only turns that belong to its conversation, and a
conversation made for one request is never made again. `Placed(q)`: request `q` writes
only where it was asked or in what was made for it. `Kept(q)`: while its conversation
is neither overlapped nor removed, `q` stays with it, and its recorded answer leaves
only at the limit. `Settled`, `Grows` and `Still(q)` say what a step of one request
leaves to the others, so that each action is examined for its own request only.
`NeverForeign` needs no condition on overlaps; `AnswersStay` combines `Kept` with
`Serial`.

**V3 takeover** (`V3TakeoverProofs`). The decisions of the arbiter are typed through
its pipeline (`DecisionType`), and for an action of the stage the plan carries the
confidence that is left after the caps, accepted only above the threshold of a
clarification (`PlanOfStage`). `Inv`: a question in the wrapper is of the canary and
its plan is what the dispatcher makes of its decision, for whatever commands were
typed (`Watched`); a follow-up file holds turns of its conversation, each once,
within the limit (`Kept`), and so does the draft of each writer (`Drafted`); where no
two writers ever overlapped, at most one writes, its draft is what the file shows,
and the file is what its turns make of it (`Serial`). The draft of a question that
could not read the file is empty, and the promise starts anew when it writes; where
nobody misreads either, every turn stays. `AlwaysJustified` and
`AlwaysRemembered` follow.

**V4 path** (`V4DispatchProofs`). The type of a context that is migrated or extended
needs that cutting and removing duplicates give an admissible list: a migration
keeps the first place of each text, and that a set of n places has an n-th one
(`CountReaches`) is an argument with the least number. `Inv` has one clause per request and one per
conversation. Of a request (`Own`): what its record holds at each label (`Staged`),
which audits fit to the label (`AuditFits`), that nothing is created or recorded
before the dispatcher runs or after a fall-back (`Traceless`), and how far its answer
has come in context, references and history (`Written`). Of a conversation: its
context has a revision, and each of its references an audit (`Stored`); a history has
a creator (`Begun`). What a step of one request leaves to the others is in
`OthersKeep`, `FilesKeep` and `FrameInv`, so that each action's lemma is about its own
request only. The two facts that carry the properties are that a saved context
keeps each turn and reference of the one before or is full (`AppendEffect`,
`RefEffect`), and that a context is damaged or deleted for every request at once. For
the history there is a third: a conversation without overlap has one writer at most,
whose draft is the only one and keeps every turn of the file that it does not push out
(`Sole`, `DraftIn`); a rename puts a draft into place, or garbage
where writers overlap (`HistoryStep`). `QuestionComesNearer`: no label is
reached twice (`LabelsLeft`), not even by the second read after a migration by somebody
else or by the record of an error, and nothing outside leads a question back.

**MCP client** (`McpClientProofs`). An answer counts only if it has the id that is
awaited, and the server may send any answer late, twice or never; so `Inv` has to say
that every good answer on its way, in the stream or in the queue, is one to something
the server has done in this session (`HonestServer`), that nothing has happened in
the sessions to come (`Untouched`, `Numbered`), and that a call that still waits at the
server has not been run (`Once`). `InitializeFirst` and `ProbeVerdictTrue` (with
`Probing`: the templates asked so far had no data) follow. `Refinement` maps each
session to a call of `ToolCall`: `ServeCall` is its run, the end of a session its
"ok" or "failed", everything else a stutter. `CallerComesNearer`: a caller that drops
messages could wait for ever if they kept coming; each that may still come is counted
at the request it answers, the reader it ends, or the bound on noise (`MessagesLeft`), so
drops end, and every other step lowers the calls or the stages left.

**V2 context** (`ContextV2Proofs`). `Stored`: each stored context is one the sanitiser
leaves as it is (`Clean`); a conversation's file holds its own evidence, a user's file
that of conversations its users have asked in. `Staged` says the same of what a
request holds between its read and its two writes, and of what a follow-up quotes. A torn
or foreign text in a shared temporary file is one of another writer of the same path
(`WrittenFacts`), for whom the same holds: that is why `EvidenceAlwaysOwn` and
`FollowupsJustified` need no condition on overlaps. `Serial(c)` is, as in the
history, about a conversation without overlap: its only writer has read what the
file still holds, or nothing if it is misread. `ContextSerial` follows, and, as the sanitiser is idempotent
(`SanitizedFacts`, `SavedKeeps`), `EvidenceAlwaysKept`.

**Chat routes** (`ChatProofs`). `Inv` says that the item in work fits to its
outputs (`WorkFits`: as many lengths as outputs taken, their sum cut at the total),
that a plan has the device it names, else the one of the text, else one of the
context (`PlanFits`, in `StageFits`), and what the properties say of a reply
(`Replies`). The sum over the outputs is a recursive function; its equations come from
a lemma that a function defined step by step over the first positions of a list exists
(`UpTo`, `Recursion`, by the least number without a beginning), so no induction
theorem is needed, and `EvidenceStaysBeginning` follows from what one step takes.
`AnalysisStaysGrounded` and `NamedDeviceAlwaysWins` need that a reply is written only
at the end of a stage, from the plan and the outputs of this request.
`GeneratedListsPass` is about the operators of `CliGuard`: a line of the catalogue
begins with a word of a command and has no other (`OneStart`), so the splitter
keeps it whole (`SplitWhole`, `SplitListKeeps`); its first words are of no refused
prefix (`HeadsMean`, `StartsMean`) and are allowed for every type of the platform's
family (`HeadPasses`), and one lemma per family says so of its lists (`VrpGood`,
`FortiGood`, `F5Good`, `ShowGood`). Which family the catalog chooses follows from the
parts of a type's name in their order (`KnownFamilies`, `Families`), and that the
guard allows the family's first words for the type (`HeadsAllowed`) is true of every
type but "fortios", which the property excepts by name. A type the guard does not know
gets its general list, which has the first words of all families. Its assumption on an interface: it is no word the
rules give a meaning to. A name the text spells has digits
(`INTERFACE_TOKEN_RE`, llm_intent_planner.py:29-53), and no such word has. The handler
takes the interface from the plan of the LLM, which may spell anything; for such
names the theorem says nothing, and the handler's own checks decide.

`RoutesComeNearer`: every step of a question lowers the pair of `StagesLeft` and
`ItemsLeft`, and no store of another request changes it.

**CMDB** (`ChatProofs`). `Kept`, the filter of rows, is a recursive function; its
equations come from `Recursion` again, and by the least counterexample it keeps exactly
the rows it admits, none twice (`KeptRows`). `Inv` of the routes has
its counterpart `CmdbInv`: a request has the fields of its kind (`RequestFits`); while
nothing moved, a scan has read the first pages of what the CMDB serves, all of them
full (`ScanFits`), which the next page continues (`PagesJoin`); an answer that is exact
counts its matches (`WholeAnswer`); the row a keyword names is among those the resolver
chooses from (`Findable`). A scan stops only at the end of the rows, at the limit, or at
the last page, and the pages cover the limit (`PagesCover`); so what it has read is
everything there is, if the rows are within the limit (`ScanReadsAll`), and the filter
of `Conclude` leaves exactly the matches (`ScanAnswers`). `RowsMatch` needs only that
this filter runs after either scan. `NamedResolves` needs besides that the
resolver takes the row of the keyword's own device before any other, and that an entry of
Netmiko is looked up by this row. `AnswerComesNearer` is about termination: the stage of a request, the base URLs or pages it has left and its
retries decrease in this order with every step of the server, and no change of the
table raises them; with fairness that is `CmdbAnswered`.

Only model-checked: liveness (`LockReleased`, `CallersAndReadersEnd`, the three
`Answered` and `CmdbAnswered`). Of each, its measure is proved: it is a natural number
or a list of them, every step of the actor lowers it, no other step raises it (a crash
ends the request). What is left to TLC is that a step stays enabled while the measure is
not zero, and that fairness then takes it: ENABLED and fairness are out of the provers'
reach. A reader thread that was told to stop needs one step, so its half of
`CallersAndReadersEnd` has no measure.

## 6. Not modelled, and why

* The patterns that find a word group, a number or a name in a text: `CliGuard`,
  `CommandCatalog` and `ChatRoutes` start from words that stand for groups of phrases.
  The rule parser's result is a choice in `CmdbQuery`.
* The PromQL guard: only built-in query templates reach it, and the range query has
  no caller.
* What an LLM, Prometheus, the CMDB or a device answers: external, nondeterministic.
* Formatting, redaction, byte limits, time stamps, log lines, the web pages.
* V3 shadow log lines, which nothing reads.
* Conversation titles: the endpoints run on the event loop without an `await` between
  reading and writing the file, so nothing interleaves. What is left is a failed
  read, which counts as an empty file that the next rename writes back.
* Of the V2 context: Prometheus evidence, which the sanitiser looks for beside the
  place where it is stored and so never removes; the rolling summary, insights and
  lengths, by which nothing is decided.
* Troubleshooting reports and the analysis of outputs by rules: pure functions of
  texts, without state.
* Tools and tests: regression scripts and checkers of the sources.

## 7. Plan

Done: `ContextOps`, `AtomicContext`, `ContextStore` with proofs and refinement;
`ConfirmExecution`, `V4Dispatch`, `ConversationHistory`, `V3Takeover` and `ContextV2`
with proofs; `ToolCall` and `McpClient` with proofs and refinement; `CliGuard`,
`CommandCatalog`, `ChatRoutes` and `CmdbQuery` with proofs.

What is left: the title store with its read error.
