-------------------------- MODULE ConfirmExecution --------------------------
(***************************************************************************)
(* How commands that were suggested in a conversation reach a device: the  *)
(* V2 part of the chat middleware (app.py), the pending command lists      *)
(* (chat_v2/confirmation.py), commands typed into the question             *)
(* (chat_v2/inline_command_execute.py), the planner's route                *)
(* (chat_v2/semantic_router.py) and the executor (netmiko/executor.py),    *)
(* which an endpoint of its own calls too.                                 *)
(*                                                                         *)
(* The middleware handles one chat request at a time, without an await.    *)
(* The compare endpoint runs in a thread pool beside it and stores pending *)
(* lists too.  The server may die between any two steps.                   *)
(***************************************************************************)
EXTENDS Integers, Sequences, FiniteSets

CONSTANTS
  Convs,       \* conversation ids
  Users,       \* user names
  CompareUsers, \* the users of the compare endpoint among them
  UserFiles,   \* file names latest_user_*.json
  UserFile,    \* _safe_user: the file name of each user
  Commands,    \* CLI commands
  Guard,       \* what CliReadOnlyGuard says of each command
  Lists,       \* command lists the router may suggest
  Typed,       \* command sequences a user may type into a question
  Numbers,     \* command numbers a user may name; 0 stands for "all"
  MaxBatch,    \* MAX_BATCH_EXECUTE and the size of an inline chunk, 20
  MaxRequests, \* bound: requests of a behaviour
  NoEntry,     \* the pending file does not exist
  Torn         \* the pending file exists and is no JSON

Verdict == {"passed", "review", "blocked"}

\* A suggested command and the guard_status stored with it.
Item == [command: Commands, guard: Verdict]

Entry == [conv: Convs, user: Users, items: Seq(Item)]

ASSUME FileAssumption ==
  /\ UserFile \in [Users -> UserFiles]
  /\ Convs \cap UserFiles = {}
  /\ CompareUsers \subseteq Users

ASSUME GuardAssumption == Guard \in [Commands -> Verdict]

ASSUME InputAssumption ==
  /\ Lists \subseteq Seq(Item)
  /\ Typed \subseteq Seq(Commands)
  /\ Numbers \subseteq Nat

ASSUME BoundAssumption == MaxBatch \in Nat \ {0} /\ MaxRequests \in Nat

ASSUME NoEntryAssumption == NoEntry \notin Entry /\ Torn \notin Entry /\ NoEntry # Torn

VARIABLES
  files,    \* the pending files, one per conversation and one per user name
  writing,  \* the list each writer stores and the files it has left
  req,      \* the chat request in work, or the last one
  phase,    \* where the middleware is in it
  pending,  \* the list the confirmation has loaded
  queue,    \* indexes of that list still to be executed
  done,     \* commands of an inline request in finished chunks
  pass,     \* which of its two confirmation calls an inline chunk is in
  calls,    \* history: executor calls of the request
  audited,  \* the calls among them that left an audit file
  shown,    \* history: the list last shown in each conversation
  asked     \* requests so far

vars == <<files, writing, req, phase, pending, queue, done, pass, calls, audited,
          shown, asked>>

exec == <<pending, queue, done, pass, calls, audited>>

Nothing == [files |-> <<>>]

NoRequest == [kind |-> "none"]

NoList == <<>>

\* What the planner makes of a confirmation: the LLM says execute, the LLM
\* says follow-up, it says something else, or it cannot be reached.
Plans == {"execute", "followup", "other", "down"}

Min(a, b) == IF a <= b THEN a ELSE b

-----------------------------------------------------------------------------
Init ==
  /\ files = [f \in Convs \cup UserFiles |-> NoEntry]
  /\ writing = [w \in {"chat", "compare"} |-> Nothing]
  /\ req = NoRequest
  /\ phase = "idle"
  /\ pending = NoEntry
  /\ queue = {}
  /\ done = 0
  /\ pass = 1
  /\ calls = <<>>
  /\ audited = {}
  /\ shown = [c \in Convs |-> NoList]
  /\ asked = 0

\* The files store_pending_commands writes, in this order.
PendingPaths(c, u) == <<c, UserFile[u]>>

StoreJob(c, u, l) ==
  [entry |-> [conv |-> c, user |-> u, items |-> l], files |-> PendingPaths(c, u)]

\* The job of writer w with the files fs left to write.
Left(w, fs) == [entry |-> writing[w].entry, files |-> fs]

\* A chat request r arrives and the middleware enters phase ph.
Begin(r, ph) ==
  /\ phase = "idle"
  /\ asked < MaxRequests
  /\ asked' = asked + 1
  /\ req' = r
  /\ phase' = ph
  /\ pending' = NoEntry
  /\ queue' = {}
  /\ done' = 0
  /\ pass' = 1
  /\ calls' = <<>>
  /\ audited' = {}

\* try_handle_v2_chat suggests a list; it is stored before the reply.
Suggest(c, u, l) ==
  /\ Begin([kind |-> "suggest", conv |-> c, user |-> u, items |-> l], "store")
  /\ writing' = [writing EXCEPT !["chat"] = StoreJob(c, u, l)]
  /\ UNCHANGED <<files, shown>>

\* The V4 handler generate_commands shows a list and creates no pending one.
SuggestV4(c, u, l) ==
  /\ Begin([kind |-> "list", conv |-> c, user |-> u], "idle")
  /\ shown' = [shown EXCEPT ![c] = l]
  /\ UNCHANGED <<files, writing>>

\* POST /api/v1/llm/compare suggests a list, in a thread of its own.
Compare(c, u, l) ==
  /\ writing["compare"] = Nothing
  /\ asked < MaxRequests
  /\ asked' = asked + 1
  /\ writing' = [writing EXCEPT !["compare"] = StoreJob(c, u, l)]
  /\ UNCHANGED <<files, req, phase, exec, shown>>

\* "confirm execution of command n" (n = 0: of all), the ordinal written in
\* digits or in Chinese numerals, with or without YES.
Confirm(c, u, n, digits, yes, plan) ==
  /\ Begin([kind |-> "confirm", conv |-> c, user |-> u, number |-> n,
            digits |-> digits, yes |-> yes, plan |-> plan],
           IF plan = "followup" THEN "idle" ELSE "load")
  /\ UNCHANGED <<files, writing, shown>>

\* The commands of the chunk after the first n, as items that passed.
ChunkAfter(cmds, n) ==
  [i \in 1..Min(MaxBatch, Len(cmds) - n) |->
     [command |-> cmds[n + i], guard |-> "passed"]]

\* POST /api/v1/netmiko/execute_confirmed: one command and the caller's YES, on
\* the event loop like the chat.
Direct(c, u, cmd, yes) ==
  /\ Begin([kind |-> "direct", conv |-> c, user |-> u, command |-> cmd, yes |-> yes],
           "direct")
  /\ UNCHANGED <<files, writing, shown>>

\* The question contains read-only commands and asks to execute them.
Inline(c, u, cmds) ==
  /\ Begin([kind |-> "inline", conv |-> c, user |-> u, commands |-> cmds], "persist")
  /\ writing' = [writing EXCEPT !["chat"] = StoreJob(c, u, ChunkAfter(cmds, 0))]
  /\ UNCHANGED <<files, shown>>

-----------------------------------------------------------------------------
(* Pending lists                                                            *)

\* tmp and os.replace.  Two writers of one path share its tmp file, and what
\* they leave may be no JSON.
WriteFile(w) ==
  /\ writing[w].files # <<>>
  /\ LET f == Head(writing[w].files)
         shared == \E v \in {"chat", "compare"} \ {w} :
                     writing[v].files # <<>> /\ Head(writing[v].files) = f
     IN  \/ files' = [files EXCEPT ![f] = writing[w].entry]
         \/ shared /\ files' = [files EXCEPT ![f] = Torn]
  /\ writing' = [writing EXCEPT ![w] = Left(w, Tail(writing[w].files))]
  /\ UNCHANGED <<req, phase, exec, shown, asked>>

\* An OSError ends the loop over the paths.  It is swallowed, except where an
\* inline request persists its list: then the reply is an error.
WriteFails(w) ==
  /\ writing[w].files # <<>>
  /\ IF phase = "persist" /\ w = "chat"
     THEN phase' = "idle" /\ writing' = [writing EXCEPT ![w] = Nothing]
     ELSE UNCHANGED phase /\ writing' = [writing EXCEPT ![w] = Left(w, <<>>)]
  /\ UNCHANGED <<files, req, exec, shown, asked>>

\* The reply of the compare endpoint shows its list.
CompareReturns ==
  /\ writing["compare"] # Nothing
  /\ writing["compare"].files = <<>>
  /\ shown' = [shown EXCEPT ![writing["compare"].entry.conv] =
                 writing["compare"].entry.items]
  /\ writing' = [writing EXCEPT !["compare"] = Nothing]
  /\ UNCHANGED <<files, req, phase, exec, asked>>

\* The reply shows the suggested list, stored or not.
SuggestReturns ==
  /\ phase = "store"
  /\ req.kind = "suggest"
  /\ writing["chat"].files = <<>>
  /\ shown' = [shown EXCEPT ![req.conv] = req.items]
  /\ writing' = [writing EXCEPT !["chat"] = Nothing]
  /\ phase' = "idle"
  /\ UNCHANGED <<files, req, exec, asked>>

\* _persist_context_and_pending is done: _store_pending_standard stores the
\* chunk once more.
Persisted ==
  /\ phase = "persist"
  /\ writing["chat"].files = <<>>
  /\ writing' = [writing EXCEPT
       !["chat"] = Left("chat", PendingPaths(req.conv, req.user))]
  /\ phase' = "store"
  /\ UNCHANGED <<files, req, exec, shown, asked>>

\* The inline request calls the confirmation.
Stored ==
  /\ phase = "store"
  /\ req.kind = "inline"
  /\ writing["chat"].files = <<>>
  /\ writing' = [writing EXCEPT !["chat"] = Nothing]
  /\ phase' = "load"
  /\ UNCHANGED <<files, req, exec, shown, asked>>

-----------------------------------------------------------------------------
(* Confirmation                                                             *)

\* Mutant: the user's last list goes before the conversation's.
LoadUserFirst(c, u) ==
  IF files[UserFile[u]] \in {NoEntry, Torn} THEN files[c] ELSE files[UserFile[u]]

\* The conversation's list, or else the one last stored for the user name.
LoadPending(c, u) ==
  IF files[c] \in {NoEntry, Torn} THEN files[UserFile[u]] ELSE files[c]

\* The question that reaches confirmation.py.  The semantic route writes a
\* new one: it knows ordinals in digits only and always says YES.
Meant(r) ==
  CASE r.kind = "inline" -> [number |-> 0, yes |-> TRUE]
    [] r.kind = "confirm" /\ (r.plan = "execute" \/ (r.plan = "down" /\ r.yes)) ->
         [number |-> IF r.digits THEN r.number ELSE 0, yes |-> TRUE]
    [] OTHER -> [number |-> r.number, yes |-> r.yes]

Passed(items) == {i \in DOMAIN items : items[i].guard = "passed"}

\* Mutants: no batch limit, no look at YES, no look whether there is such a
\* command.
SelectedWithoutLimit(items, q) ==
  CASE ~q.yes -> {}
    [] q.yes /\ q.number # 0 -> Passed(items) \cap {q.number}
    [] q.yes /\ q.number = 0 -> Passed(items)

SelectedWithoutYes(items, q) ==
  CASE q.number # 0 -> Passed(items) \cap {q.number}
    [] q.number = 0 ->
         IF Cardinality(Passed(items)) <= MaxBatch THEN Passed(items) ELSE {}

\* The indexes of the list that the confirmation q executes.
Selected(items, q) ==
  CASE ~q.yes -> {}
    [] q.yes /\ q.number # 0 -> Passed(items) \cap {q.number}
    [] q.yes /\ q.number = 0 ->
         IF Cardinality(Passed(items)) <= MaxBatch THEN Passed(items) ELSE {}

\* try_handle_v2_execution_confirmation decides what it will execute.
Load ==
  /\ phase = "load"
  /\ pending' = LoadPending(req.conv, req.user)
  /\ queue' = IF pending' \in {NoEntry, Torn} THEN {}
              ELSE Selected(pending'.items, Meant(req))
  /\ phase' = "run"
  /\ UNCHANGED <<files, writing, req, done, pass, calls, audited, shown, asked>>

\* Mutant: the executor trusts the stored guard_status.
ExecuteUnguarded ==
  /\ phase = "run"
  /\ \E i \in queue :
       /\ \A j \in queue : i <= j
       /\ queue' = queue \ {i}
       /\ \E status \in {"executed", "failed"} :
            calls' = Append(calls,
              [index |-> i, item |-> pending.items[i], conv |-> pending.conv,
               user |-> pending.user, status |-> status, chunk |-> done,
               pass |-> pass])
  /\ phase' = "audit"
  /\ UNCHANGED <<files, writing, req, pending, done, pass, audited, shown, asked>>

\* execute_confirmed: without the guard's pass and a YES the device is not called.
Outcomes(command, yes) ==
  IF Guard[command] = "passed" /\ yes THEN {"executed", "failed"} ELSE {"rejected"}

\* The next command of the list: the guard is asked again, the YES is the
\* confirmation's.
Execute ==
  /\ phase = "run"
  /\ \E i \in queue :
       /\ \A j \in queue : i <= j
       /\ queue' = queue \ {i}
       /\ \E status \in Outcomes(pending.items[i].command, TRUE) :
            calls' = Append(calls,
              [index |-> i, item |-> pending.items[i], conv |-> pending.conv,
               user |-> pending.user, status |-> status, chunk |-> done,
               pass |-> pass])
  /\ phase' = "audit"
  /\ UNCHANGED <<files, writing, req, pending, done, pass, audited, shown, asked>>

\* The command of the endpoint, which no list holds.
ExecuteDirect ==
  /\ phase = "direct"
  /\ \E status \in Outcomes(req.command, req.yes) :
       calls' = Append(calls,
         [index |-> 0, item |-> [command |-> req.command, guard |-> Guard[req.command]],
          conv |-> req.conv, user |-> req.user, status |-> status, chunk |-> done,
          pass |-> pass])
  /\ phase' = "audit"
  /\ UNCHANGED <<files, writing, req, pending, queue, done, pass, audited, shown, asked>>

\* _with_audit writes the audit file after the call; an exception becomes
\* audit_error.
Audit ==
  /\ phase = "audit"
  /\ audited' \in {audited, audited \cup {Len(calls)}}
  /\ phase' = "run"
  /\ UNCHANGED <<files, writing, req, pending, queue, done, pass, calls, shown,
                 asked>>

\* Mutant: no reply when no pending list is found.
ReturnsWithList ==
  /\ phase = "run"
  /\ queue = {}
  /\ req.kind = "confirm"
  /\ pending \in Entry
  /\ phase' = "idle"
  /\ UNCHANGED <<files, writing, req, exec, shown, asked>>

\* The reply of a confirmation, or of the endpoint.
ConfirmReturns ==
  /\ phase = "run"
  /\ queue = {}
  /\ req.kind \in {"confirm", "direct"}
  /\ phase' = "idle"
  /\ UNCHANGED <<files, writing, req, exec, shown, asked>>

\* Mutant: only an audit file counts as an execution.
AuditedExecution ==
  \E i \in DOMAIN calls :
    /\ calls[i].chunk = done
    /\ calls[i].pass = pass
    /\ i \in audited

\* _result_has_real_execution on the calls of this confirmation.
RealExecution ==
  \E i \in DOMAIN calls :
    /\ calls[i].chunk = done
    /\ calls[i].pass = pass
    /\ i \in audited \/ calls[i].status = "executed"

\* _call_confirmation tries once more when nothing was really executed.
TryAgain ==
  /\ phase = "run"
  /\ queue = {}
  /\ req.kind = "inline"
  /\ ~RealExecution
  /\ pass = 1
  /\ pass' = 2
  /\ phase' = "load"
  /\ UNCHANGED <<files, writing, req, pending, queue, done, calls, audited, shown,
                 asked>>

\* The chunk was not executed: the reply is an error, without the chunks
\* executed before it.
InlineFails ==
  /\ phase = "run"
  /\ queue = {}
  /\ req.kind = "inline"
  /\ ~RealExecution
  /\ pass = 2
  /\ phase' = "idle"
  /\ UNCHANGED <<files, writing, req, exec, shown, asked>>

\* The next chunk of an inline request becomes the pending list.
NextChunk ==
  /\ phase = "run"
  /\ queue = {}
  /\ req.kind = "inline"
  /\ RealExecution
  /\ done + MaxBatch < Len(req.commands)
  /\ done' = done + MaxBatch
  /\ pass' = 1
  /\ phase' = "persist"
  /\ writing' = [writing EXCEPT
       !["chat"] = StoreJob(req.conv, req.user,
                            ChunkAfter(req.commands, done + MaxBatch))]
  /\ UNCHANGED <<files, req, pending, queue, calls, audited, shown, asked>>

\* The calls of the confirmation that ended each chunk.
Reported ==
  SelectSeq(calls, LAMBDA k : ~\E i \in DOMAIN calls :
                                 calls[i].chunk = k.chunk /\ calls[i].pass > k.pass)

\* The merged reply numbers the executed commands of all chunks.
InlineReturns ==
  /\ phase = "run"
  /\ queue = {}
  /\ req.kind = "inline"
  /\ RealExecution
  /\ done + MaxBatch >= Len(req.commands)
  /\ shown' = [shown EXCEPT ![req.conv] =
                 [i \in DOMAIN Reported |-> Reported[i].item]]
  /\ phase' = "idle"
  /\ UNCHANGED <<files, writing, req, exec, asked>>

\* The server process dies; the files stay.
Crash ==
  /\ phase # "idle" \/ writing["compare"] # Nothing
  /\ phase' = "idle"
  /\ writing' = [w \in {"chat", "compare"} |-> Nothing]
  /\ UNCHANGED <<files, req, exec, shown, asked>>

-----------------------------------------------------------------------------
Arrival ==
  \E c \in Convs, u \in Users :
    \/ \E l \in Lists : Suggest(c, u, l) \/ SuggestV4(c, u, l)
    \/ \E l \in Lists : u \in CompareUsers /\ Compare(c, u, l)
    \/ \E n \in Numbers, digits, yes \in BOOLEAN, plan \in Plans :
         Confirm(c, u, n, digits, yes, plan)
    \/ \E cmd \in Commands, yes \in BOOLEAN : Direct(c, u, cmd, yes)
    \/ \E cmds \in Typed : Inline(c, u, cmds)

ChatStep ==
  \/ WriteFile("chat")
  \/ WriteFails("chat")
  \/ SuggestReturns
  \/ Persisted
  \/ Stored
  \/ Load
  \/ Execute
  \/ ExecuteDirect
  \/ Audit
  \/ ConfirmReturns
  \/ TryAgain
  \/ InlineFails
  \/ NextChunk
  \/ InlineReturns

CompareStep == WriteFile("compare") \/ WriteFails("compare") \/ CompareReturns

Next == Arrival \/ ChatStep \/ CompareStep \/ Crash

Spec == Init /\ [][Next]_vars

\* The middleware never waits for another request: a request that is in work
\* goes on, and every device call ends by its timeout.
FairSpec == Spec /\ WF_vars(ChatStep)

-----------------------------------------------------------------------------
(* Properties                                                               *)

Phases == {"idle", "persist", "store", "load", "direct", "run", "audit"}

TypeOK ==
  /\ files \in [Convs \cup UserFiles -> Entry \cup {NoEntry, Torn}]
  /\ phase \in Phases
  /\ pending \in Entry \cup {NoEntry, Torn}
  /\ queue \subseteq IF pending \in Entry THEN DOMAIN pending.items ELSE {}
  /\ done \in Nat
  /\ pass \in {1, 2}
  /\ \A i \in DOMAIN calls :
       /\ calls[i].item \in Item
       /\ calls[i].status \in {"executed", "failed", "rejected"}
  /\ audited \subseteq DOMAIN calls
  /\ asked \in 0..MaxRequests

Sent(i) == calls[i].status \in {"executed", "failed"}

\* A command reaches a device only if it was stored as passed and passes the
\* guard again, whatever was stored, typed, overwritten or torn meanwhile.
OnlyGuardedCommandsSent ==
  \A i \in DOMAIN calls :
    Sent(i) => /\ calls[i].item.guard = "passed"
               /\ Guard[calls[i].item.command] = "passed"

\* A confirmation works on the list of its conversation; on the list of
\* another one only if its own cannot be read and the other was stored under
\* the same user file.
ListIsolation ==
  [][phase = "load" /\ phase' = "run" /\ pending' \in Entry =>
       \/ pending'.conv = req.conv
       \/ /\ files[req.conv] \notin Entry
          /\ UserFile[pending'.user] = UserFile[req.user]]_vars

\* One confirmation sends at most MaxBatch commands, also when another list
\* replaces the one it was meant for.
BatchLimit ==
  \A i \in DOMAIN calls :
    Cardinality({j \in DOMAIN calls : /\ calls[j].chunk = calls[i].chunk
                                      /\ calls[j].pass = calls[i].pass}) <= MaxBatch

\* Unless the LLM planner says "execute", a confirmation without YES calls no
\* device: the local rules and the planner's fallback insist on it, and the
\* executor insists for the endpoint that has no such rules.
YesWithoutPlanner ==
  /\ req.kind = "confirm" /\ req.plan # "execute" /\ calls # <<>> => req.yes
  /\ req.kind = "direct" => \A i \in DOMAIN calls : Sent(i) => req.yes

\* Within a chunk of one request, the command at an index that a device has
\* executed is not executed again: the second confirmation of a chunk comes
\* only after a first one without any success.  Of the same text in another
\* chunk, at another index or in another request nothing is said.
NoSuccessRepeated ==
  \A i, j \in DOMAIN calls :
    /\ i < j
    /\ calls[i].chunk = calls[j].chunk
    /\ calls[i].status = "executed"
    => /\ calls[i].pass = calls[j].pass
       /\ calls[i].index # calls[j].index

\* Every chat request is answered, or the server dies.
Answered == phase # "idle" ~> phase = "idle"

-----------------------------------------------------------------------------
(* What the documentation says and the code does not do                     *)

\* confirmation.py, v2_batch43: no execution without YES in the question.
ExplicitYes == req.kind = "confirm" /\ calls # <<>> => req.yes

\* v2_batch43: "execute command n" executes command n.
NumberRespected ==
  \A i \in DOMAIN calls :
    req.kind = "confirm" /\ req.number # 0 => calls[i].index = req.number

\* v2_frontend_test_cases: a confirmation in a new conversation, for which no
\* list was shown or stored, executes nothing.
NewConversationExecutesNothing ==
  /\ req.kind = "confirm"
  /\ shown[req.conv] = NoList
  /\ files[req.conv] = NoEntry
  => calls = <<>>

\* v2_frontend_test_cases: a confirmation executes the commands of the list
\* that the conversation showed last.
LastListExecuted ==
  req.kind = "confirm" /\ shown[req.conv] # NoList =>
    \A i \in DOMAIN calls :
      /\ calls[i].index \in DOMAIN shown[req.conv]
      /\ calls[i].item = shown[req.conv][calls[i].index]

\* v2_batch43: every execution leaves an audit file.
EveryExecutionAudited ==
  \A i \in DOMAIN calls :
    Sent(i) /\ (phase # "audit" \/ i < Len(calls)) => i \in audited

\* app.py: an inline request executes the commands the question contains.
InlineExecutesTyped ==
  req.kind = "inline" =>
    \A i \in DOMAIN calls :
      \E n \in DOMAIN req.commands : calls[i].item.command = req.commands[n]

=============================================================================
