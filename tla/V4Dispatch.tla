----------------------------- MODULE V4Dispatch -----------------------------
(***************************************************************************)
(* One chat question on its way through V4: the entry router               *)
(* (chat_v4/entry_router.py), the low-risk dispatcher                      *)
(* (action_dispatcher.py), the lazy migration (context_migration.py), the  *)
(* audit writer (audit_writer.py) and the bridge to the legacy             *)
(* conversations (app_bridge.py, agent/conversation_store.py).             *)
(*                                                                         *)
(* An operation of the context store is one step here: ContextStore        *)
(* implements that.  conversation_store.py has no lock: append_turn reads  *)
(* a conversation in one step and replaces it in another, through a        *)
(* temporary file its writers share (ConversationHistory has that file).   *)
(* Server processes run side by side, and each of their steps can fail;    *)
(* the conversation API deletes conversations meanwhile.                   *)
(***************************************************************************)
EXTENDS ContextOps, FiniteSets

CONSTANTS
  Requests,    \* chat requests; each names its own audit file
  Convs,       \* conversation ids
  NoConv,      \* no conversation id, or no such conversation
  Older,       \* the V2 and V3 routes
  Texts,       \* what a turn says: a question and its answer
  ErrorText,   \* the public error message
  SavedTexts,  \* the conversations that were there before V4, by their turns
  BridgeTexts, \* what the V3 bridge remembers of each conversation
  AllowedActions, \* actions V4 handles, NETAIOPS_V4_ENTRY_ALLOWED_ACTIONS
  OtherActions, \* actions left to the older routes
  MaxHistory,  \* conversation_max_turns, 50
  MaxActive,   \* bound: server processes, each with one request in work
  MaxDamage    \* bound: context files damaged from outside

Actions == AllowedActions \cup OtherActions

ASSUME ActionAssumption ==
  "need_clarification" \in Actions /\ AllowedActions \cap OtherActions = {}

\* The migration gives a turn another fingerprint than the dispatcher does.
ASSUME TurnAssumption ==
  /\ ErrorText \in Texts
  /\ Turns = [text : Texts, source : {"v4", "legacy"}]
  /\ Refs = Requests
  /\ BridgeTexts \in [Convs -> Seq(Texts)]
  /\ DOMAIN SavedTexts \subseteq Convs
  /\ \A c \in DOMAIN SavedTexts : SavedTexts[c] \in Seq(Texts)

ASSUME RequestAssumption ==
  /\ NoConv \notin Convs
  /\ Requests \cap {NoConv, Older} = {}
  /\ NoConv # Older

EntryList == Seq([text : Texts, by : Requests \cup {Older}])

\* A conversation file of two writers may hold garbage, too.
ASSUME HistoryAssumption ==
  /\ MaxHistory \in Nat \ {0}
  /\ Garbage \notin EntryList \cup {NoConv}

VARIABLES
  context,    \* the V4 context of each conversation
  history,    \* the legacy conversations, as the turns they show
  audit,      \* the status in each request's audit file
  errorAudit, \* requests with an error audit beside it, written without error
  req,        \* the requests
  drafts,     \* of each conversation, what its writers have made of it since
              \* it last had none
  creator,    \* history: who created a conversation, NoConv for an unused id
  overlapped, \* history: conversations that had two writers at once
  auditFailed, \* history: requests with a failed write of their audit
  damaged     \* history: conversations whose context was damaged

vars == <<context, history, audit, errorAudit, req, drafts, creator, overlapped,
          auditFailed, damaged>>

books == <<history, drafts, creator, overlapped>>

stores == <<context, books>>

audits == <<audit, errorAudit, auditFailed>>

\* No decision yet, or none any more.
NoAction == "none"

Turn(text) == [text |-> text, source |-> "v4"]

NewRequest ==
  [pc |-> "new", conv |-> NoConv, seen |-> Absent, blank |-> FALSE, action |-> NoAction,
   loaded |-> Absent, text |-> ErrorText, device |-> NoDevice, place |-> NoConv,
   reply |-> "none", shown |-> "none", reason |-> "none"]

Active == {r \in Requests : req[r].pc \notin {"new", "done", "dead"}}

Entry(text, by) == [text |-> text, by |-> by]

Init ==
  /\ context = [c \in Convs |-> Absent]
  /\ history = [c \in Convs |->
       IF c \in DOMAIN SavedTexts
       THEN [i \in DOMAIN SavedTexts[c] |-> Entry(SavedTexts[c][i], Older)]
       ELSE NoConv]
  /\ audit = [r \in Requests |-> "none"]
  /\ errorAudit = {}
  /\ req = [r \in Requests |-> NewRequest]
  /\ drafts = [c \in Convs |-> {}]
  /\ creator = [c \in Convs |-> IF c \in DOMAIN SavedTexts THEN Older ELSE NoConv]
  /\ overlapped = {}
  /\ auditFailed = {}
  /\ damaged = {}

At(r, l) == req[r].pc = l

GoTo(r, l) == req' = [req EXCEPT ![r].pc = l]

\* The request's own state leaves with its answer.
Over(request, reply) ==
  [request EXCEPT !.pc = "done", !.reply = reply, !.action = NoAction, !.blank = FALSE,
                  !.place = NoConv, !.reason = "none"]

\* _build_transport_payload
Answer(r, reply) == req' = [req EXCEPT ![r] = Over(@, reply)]

FallBack(r, reason) ==
  req' = [req EXCEPT ![r] = [Over(@, "legacy") EXCEPT !.pc = "older", !.reason = reason]]

-----------------------------------------------------------------------------
(* The entry router                                                         *)

\* A question arrives for a conversation of the user's list, or for none.
Arrive(r, c, blank) ==
  /\ At(r, "new")
  /\ Cardinality(Active) < MaxActive
  /\ c # NoConv => creator[c] # NoConv
  /\ req' = [req EXCEPT ![r].pc = "snapshot", ![r].conv = c, ![r].blank = blank]
  /\ UNCHANGED <<stores, audits, damaged>>

\* get_conversation finds a conversation.
Readable(c) == c \in {d \in Convs : history[d] \notin {NoConv, Garbage}}

\* What the migration finds of a conversation: a read error counts as nothing.
Found(c) == [history : {FALSE, Readable(c)}, bridge : {FALSE, BridgeTexts[c] # <<>>}]

HasLegacy(found) == found.history \/ found.bridge

\* The turns of a migrated context: those of the legacy conversation, then
\* those of the bridge, none twice.
Migrated(c, found) ==
  LET texts == (IF found.history THEN [i \in DOMAIN history[c] |-> history[c][i].text]
                ELSE <<>>) \o (IF found.bridge THEN BridgeTexts[c] ELSE <<>>)
      first == {i \in DOMAIN texts : \A j \in 1..(i - 1) : texts[j] # texts[i]}
      nth(n) == CHOOSE i \in first : Cardinality({j \in first : j <= i}) = n
  IN  [EmptyContext EXCEPT !.turns =
         [n \in 1..Cardinality(first) |->
            [text |-> texts[nth(n)], source |-> "legacy"]]]

\* _read_context_snapshot: nothing is written, not even a quarantine.
Snapshot(r) ==
  /\ At(r, "snapshot")
  /\ LET c == req[r].conv
         stored == IF c = NoConv THEN Absent ELSE context[c]
         legacy == IF c = NoConv THEN {Absent}
                   ELSE {IF HasLegacy(f) THEN Migrated(c, f) ELSE Absent : f \in Found(c)}
     IN  \E seen \in {Garbage} \cup (IF stored = Absent THEN legacy ELSE {stored}) :
           /\ c = NoConv => seen = Absent
           /\ req' = [req EXCEPT ![r].pc = "decide", ![r].seen = seen]
  /\ UNCHANGED <<stores, audits, damaged>>

\* canonical_to_followup_context: what the arbiter is told of a context.  The
\* evidence of executions is V2's, and part of sure below.
FollowupContext(x) ==
  [device |-> IF x \in Context THEN x.device ELSE NoDevice, error |-> x = Garbage]

KnownDevice(r) == FollowupContext(req[r].seen).device # NoDevice

\* _clarification_reason: what is uncertain, incomplete or without a context
\* becomes a question back.
Gate(r, action, sure, needsDevice) ==
  IF \/ ~sure
     \/ needsDevice /\ ~KnownDevice(r)
     \/ FollowupContext(req[r].seen).error
  THEN "need_clarification" ELSE action

\* The arbiter decides.  An action of the older routes falls back.
Decide(r, action, sure, needsDevice) ==
  /\ At(r, "decide")
  /\ LET gated == Gate(r, action, sure, needsDevice)
     IN  req' = [req EXCEPT
           ![r].pc = IF gated \in AllowedActions THEN "ensure" ELSE "fallback",
           ![r].action = gated,
           ![r].reason = IF gated \in AllowedActions THEN "none" ELSE "unsupported",
           ![r].seen = Absent]
  /\ UNCHANGED <<stores, audits, damaged>>

\* The LLM cannot be reached.
NoArbiter(r) ==
  /\ At(r, "decide")
  /\ req' = [req EXCEPT ![r].pc = "fallback", ![r].reason = "technical",
                        ![r].seen = Absent]
  /\ UNCHANGED <<stores, audits, damaged>>

\* An exception in arbiter or plan builder, or in a handler: the answer is an
\* internal error with an audit of its own.
Raise(r) ==
  /\ req[r].pc \in {"decide", "handle"}
  /\ GoTo(r, "internal")
  /\ UNCHANGED <<stores, audits, damaged>>

\* Writing an error audit, a file of its own, may fail; its id is shown only if
\* it was written.
ErrorAudit(r, id) ==
  /\ errorAudit' = IF id = "error" THEN errorAudit \cup {r} ELSE errorAudit
  /\ UNCHANGED <<audit, auditFailed>>

\* _write_stage_audit writes a file that nothing refers to; whether it works or
\* not, the older routes take over.
StageFallback(r) ==
  /\ At(r, "fallback")
  /\ FallBack(r, req[r].reason)
  /\ UNCHANGED <<stores, audits, damaged>>

InternalError(r) ==
  /\ At(r, "internal")
  /\ \E id \in {"none", "error"} :
       /\ ErrorAudit(r, id)
       /\ req' = [req EXCEPT ![r] = [Over(@, "internal_error") EXCEPT !.shown = id]]
  /\ UNCHANGED <<stores, damaged>>

\* Mutant: a known conversation is routed anew.
KeepRoutesAgain(r) ==
  /\ At(r, "ensure")
  /\ Readable(req[r].conv)
  /\ GoTo(r, "snapshot")
  /\ UNCHANGED <<stores, audits, damaged>>

\* _ensure_conversation_id: the conversation goes on if it can be read.
KeepConversation(r) ==
  /\ At(r, "ensure")
  /\ Readable(req[r].conv)
  /\ GoTo(r, "load")
  /\ UNCHANGED <<stores, audits, damaged>>

\* An id never used.
Fresh(c) == history[c] = NoConv /\ creator[c] = NoConv /\ context[c] = Absent

\* There is no such conversation, or it could not be read just now: a new one.
NewConversation(r, c) ==
  /\ At(r, "ensure")
  /\ Fresh(c)
  /\ history' = [history EXCEPT ![c] = <<>>]
  /\ creator' = [creator EXCEPT ![c] = r]
  /\ req' = [req EXCEPT ![r].pc = "load", ![r].conv = c]
  /\ UNCHANGED <<context, drafts, overlapped, audits, damaged>>

\* The new conversation cannot be written: the older routes take over.
NoConversation(r) ==
  /\ At(r, "ensure")
  /\ FallBack(r, "conversation_id_factory_failed")
  /\ UNCHANGED <<stores, audits, damaged>>

-----------------------------------------------------------------------------
(* The dispatcher                                                           *)

\* HandlerRequest: only a question back may answer an empty question.
Acceptable(r) == req[r].blank => req[r].action = "need_clarification"

\* question is required.
RefuseBlank(r) ==
  /\ At(r, "load")
  /\ ~Acceptable(r)
  /\ GoTo(r, "internal")
  /\ UNCHANGED <<stores, audits, damaged>>

\* Mutant: what does not validate counts as no context.
LoadMigratesGarbage(r) ==
  /\ At(r, "load")
  /\ LET c == req[r].conv
     IN  \/ /\ context[c] \in Context
            /\ req' = [req EXCEPT ![r].pc = "handle", ![r].loaded = context[c]]
            /\ UNCHANGED context
         \/ /\ context[c] \notin Context
            /\ context' = [context EXCEPT ![c] = Absent]
            /\ \E f \in Found(c) :
                 req' = [req EXCEPT ![r].pc = "migrate", ![r].loaded = Migrated(c, f)]
  /\ UNCHANGED <<books, audits, damaged>>

\* load_or_migrate where there is no file: a context to be saved, or one that
\* only the handler sees.
Prepared(r, found) ==
  IF HasLegacy(found)
  THEN [req[r] EXCEPT !.pc = "migrate", !.loaded = Migrated(req[r].conv, found)]
  ELSE [req[r] EXCEPT !.pc = "handle", !.loaded = EmptyContext]

\* store.load: a context, none, or an error; one that does not validate goes
\* into quarantine.
Load(r) ==
  /\ At(r, "load")
  /\ Acceptable(r)
  /\ LET c == req[r].conv
     IN  \/ /\ context[c] \in Context
            /\ req' = [req EXCEPT ![r].pc = "handle", ![r].loaded = context[c]]
            /\ UNCHANGED context
         \/ /\ context[c] = Absent
            /\ \E f \in Found(c) : req' = [req EXCEPT ![r] = Prepared(r, f)]
            /\ UNCHANGED context
         \/ /\ context[c] = Garbage
            /\ context' = [context EXCEPT ![c] = Absent]
            /\ GoTo(r, "error")
         \/ GoTo(r, "error") /\ UNCHANGED context
  /\ UNCHANGED <<books, audits, damaged>>

\* A store operation o of request r fails, before or after its effect; a
\* context that does not validate goes into quarantine.
StoreFails(r, o) ==
  LET c == req[r].conv
  IN  \/ UNCHANGED context
      \/ context[c] = Garbage /\ context' = [context EXCEPT ![c] = Absent]
      \/ /\ context[c] # Garbage
         /\ ~Conflicts(o, context[c])
         /\ context' = [context EXCEPT ![c] = Effect(o, context[c])]

\* Mutant: the migration does not expect revision 0.
SaveAnyRevision(r) ==
  [kind |-> "save", turns |-> req[r].loaded.turns,
   expected |-> Revision(context[req[r].conv])]

\* The save of the migrated context.
SaveMigrated(r) ==
  [kind |-> "save", turns |-> req[r].loaded.turns, expected |-> 0]

\* load_or_migrate saves what it has read; if another process was faster, its
\* context counts.
Migrate(r) ==
  /\ At(r, "migrate")
  /\ LET c == req[r].conv
         o == SaveMigrated(r)
     IN  \/ /\ context[c] # Garbage
            /\ ~Conflicts(o, context[c])
            /\ context' = [context EXCEPT ![c] = Effect(o, context[c])]
            /\ req' = [req EXCEPT ![r].pc = "handle", ![r].loaded = context'[c]]
         \/ /\ context[c] # Garbage
            /\ Conflicts(o, context[c])
            /\ GoTo(r, "reload")
            /\ UNCHANGED context
         \/ GoTo(r, "error") /\ StoreFails(r, o)
  /\ UNCHANGED <<books, audits, damaged>>

Reload(r) ==
  /\ At(r, "reload")
  /\ LET c == req[r].conv
     IN  \/ /\ context[c] \in Context
            /\ req' = [req EXCEPT ![r].pc = "handle", ![r].loaded = context[c]]
            /\ UNCHANGED context
         \/ /\ context[c] = Garbage
            /\ context' = [context EXCEPT ![c] = Absent]
            /\ GoTo(r, "error")
         \/ GoTo(r, "error") /\ UNCHANGED context
  /\ UNCHANGED <<books, audits, damaged>>

\* HandlerOutcome: an answer, perhaps with a device, or none.
Success(text, device) == [ok |-> TRUE, text |-> text, device |-> device]

Failure == [ok |-> FALSE, text |-> ErrorText, device |-> NoDevice]

Said == Texts \ {ErrorText}

\* ClarificationHandler has a question of its own if the arbiter has none.
Clarifies == {Success(t, NoDevice) : t \in Said}

\* generate_with_v3_adapter: the arbiter's or the LLM's answer; none if the LLM
\* is not live, fails or says too little.
Generates == Clarifies \cup {Failure}

\* cmdb_query and generate_commands name the device they have resolved.
Resolves == {Success(t, d) : t \in Said, d \in DeviceField} \cup {Failure}

\* The handlers of the dispatcher.
Outcomes(action) ==
  IF action = "need_clarification" THEN Clarifies
  ELSE IF action \in {"general_chat", "advice_analysis"} THEN Generates
  ELSE Resolves

\* The handler answers.  Its device_context, or else the one read, goes into
\* the context.
Handle(r, outcome) ==
  /\ At(r, "handle")
  /\ outcome.ok
  /\ req' = [req EXCEPT ![r].pc = "append", ![r].text = outcome.text,
       ![r].device = IF outcome.device = NoDevice THEN req[r].loaded.device ELSE outcome.device,
       ![r].loaded = Absent, ![r].blank = FALSE]
  /\ UNCHANGED <<stores, audits, damaged>>

HandlerFails(r, outcome) ==
  /\ At(r, "handle")
  /\ ~outcome.ok
  /\ req' = [req EXCEPT ![r].pc = "error", ![r].loaded = Absent]
  /\ UNCHANGED <<stores, audits, damaged>>

\* store.append_turn or store.add_audit_ref, o, and what follows.
Store(r, o, then) ==
  /\ LET c == req[r].conv
     IN  \/ /\ context[c] # Garbage
            /\ context' = [context EXCEPT ![c] = Effect(o, context[c])]
            /\ GoTo(r, then)
         \/ GoTo(r, "error") /\ StoreFails(r, o)
  /\ UNCHANGED <<books, damaged>>

AppendTurn(r) ==
  /\ At(r, "append")
  /\ Store(r, [kind |-> "append", turn |-> Turn(req[r].text), device |-> req[r].device],
           "audit")
  /\ UNCHANGED audits

\* build_audit_record: the audit of r with this status.
Audited(r, status) == [audit EXCEPT ![r] = status]

\* Mutant: a failed audit write is not noticed.
AuditBestEffort(r) ==
  /\ At(r, "audit")
  /\ \/ audit' = Audited(r, "ok") /\ UNCHANGED auditFailed
     \/ UNCHANGED audit /\ auditFailed' = auditFailed \cup {r}
  /\ GoTo(r, "ref")
  /\ UNCHANGED <<stores, errorAudit, damaged>>

\* AuditWriter.write: the status is on disk, or the write fails, and the file
\* may have been replaced nevertheless.
AuditWrite(r, status, ok) ==
  IF ok THEN audit' = Audited(r, status) /\ UNCHANGED auditFailed
  ELSE audit' \in {audit, Audited(r, status)} /\ auditFailed' = auditFailed \cup {r}

\* The audit of a turn that is in the context.
WriteAudit(r) ==
  /\ At(r, "audit")
  /\ \E ok \in BOOLEAN : /\ AuditWrite(r, "ok", ok)
                        /\ GoTo(r, IF ok THEN "ref" ELSE "error")
  /\ UNCHANGED <<stores, errorAudit, damaged>>

\* A second write of the audit, with status "error"; its result is not looked
\* at.
AmendAudit(r) == \E ok \in BOOLEAN : AuditWrite(r, "error", ok)

\* Mutant: the error of the reference is not written into the audit.
RefWithoutAmend(r) ==
  /\ At(r, "ref")
  /\ Store(r, [kind |-> "ref", ref |-> r], "reply")
  /\ UNCHANGED audits

\* attach_audit_reference.  If it fails the audit is amended.
AttachReference(r) ==
  /\ At(r, "ref")
  /\ Store(r, [kind |-> "ref", ref |-> r], "reply")
  /\ IF req'[r].pc = "error" THEN AmendAudit(r) ELSE UNCHANGED <<audit, auditFailed>>
  /\ UNCHANGED errorAudit

\* build_v4_response: what is shown as the status of an answer.
Status(action) == IF action = "need_clarification" THEN action ELSE "ok"

\* The answer is built, with the id of its audit; if that raises, the audit is
\* amended.
BuildResponse(r) ==
  /\ At(r, "reply")
  /\ \/ /\ req' = [req EXCEPT ![r].pc = "history", ![r].shown = "answer",
                               ![r].reply = Status(req[r].action)]
        /\ UNCHANGED audits
     \/ GoTo(r, "error") /\ AmendAudit(r) /\ UNCHANGED errorAudit
  /\ UNCHANGED <<stores, damaged>>

\* Mutant: an error of the dispatcher is a reason to fall back.
ErrorFallsBack(r) ==
  /\ At(r, "error")
  /\ FallBack(r, "unsupported")
  /\ UNCHANGED <<stores, audits, damaged>>

\* build_v4_error_response
ErrorResponse(request, id) ==
  [request EXCEPT !.pc = "history", !.reply = "error", !.text = ErrorText, !.shown = id,
                  !.action = NoAction, !.blank = FALSE]

\* _error_entry writes an audit of its own; the bridge records the error too.
ErrorEntry(r) ==
  /\ At(r, "error")
  /\ \E id \in {"none", "error"} :
       ErrorAudit(r, id) /\ req' = [req EXCEPT ![r] = ErrorResponse(@, id)]
  /\ UNCHANGED <<stores, damaged>>

-----------------------------------------------------------------------------
(* The bridge                                                               *)

\* The older routes have an answer to what V4 fell back from.
OlderAnswer(r, text) ==
  /\ At(r, "older")
  /\ req' = [req EXCEPT ![r].pc = "history", ![r].text = text]
  /\ UNCHANGED <<stores, audits, damaged>>

Author(r) == IF req[r].reply = "legacy" THEN Older ELSE r

TurnOf(r) == Entry(req[r].text, Author(r))

\* Requests between append_turn's read of conversation c and its replace.
Writing(c) == {r \in Requests : At(r, "save") /\ req[r].place = c}

\* r goes on to write this text into conversation c.
Drafted(r, c, text) ==
  /\ drafts' = [drafts EXCEPT ![c] = @ \cup {[of |-> r, text |-> text]}]
  /\ overlapped' = IF Writing(c) = {} THEN overlapped ELSE overlapped \cup {c}
  /\ req' = [req EXCEPT ![r].pc = "save", ![r].place = c]

\* append_turn reads the conversation and adds the reply to what it has read.
ReadHistory(r) ==
  /\ At(r, "history")
  /\ LET c == req[r].conv
     IN  Readable(c) /\ Drafted(r, c, LastN(Append(history[c], TurnOf(r)), MaxHistory))
  /\ UNCHANGED <<context, history, creator, audits, damaged>>

\* The conversation is gone, or could not be read just now: append_turn creates
\* another one for the reply.
CreateHistory(r, c) ==
  /\ At(r, "history")
  /\ Fresh(c)
  /\ history' = [history EXCEPT ![c] = <<>>]
  /\ creator' = [creator EXCEPT ![c] = Author(r)]
  /\ Drafted(r, c, <<TurnOf(r)>>)
  /\ UNCHANGED <<context, audits, damaged>>

\* r has been the last to write into c, or others are still at it.
Left(r, c) == drafts' = IF Writing(c) = {r} THEN [drafts EXCEPT ![c] = {}] ELSE drafts

\* Writers who share the temporary file of c.
Shared(c) == \E x, y \in drafts[c] : x.of # y.of

\* What may be renamed into the place of conversation c: a writer's text, or
\* what two of them have made of the temporary file.
InPlay(c) == {x.text : x \in drafts[c]} \cup (IF Shared(c) THEN {Garbage} ELSE {})

\* _mark_audit_history_error rewrites the audit that the entry carries.
MarkAudit(r) ==
  IF req[r].reply = "error" THEN \E id \in {"none", "error"} : ErrorAudit(r, id)
  ELSE AmendAudit(r) /\ UNCHANGED errorAudit

\* The answer is not in the history of its conversation.  The older routes do
\* not mind.
Unrecorded(r) ==
  IF req[r].reply = "legacy" THEN Answer(r, "legacy") /\ UNCHANGED audits
  ELSE Answer(r, "history_error") /\ MarkAudit(r)

\* append_turn replaces the file.  The bridge takes another conversation than
\* the request's for an error.
SaveHistory(r) ==
  /\ At(r, "save")
  /\ LET c == req[r].place
     IN  /\ \E h \in InPlay(c) : history' = [history EXCEPT ![c] = h]
         /\ IF c = req[r].conv THEN Answer(r, req[r].reply) /\ UNCHANGED audits
            ELSE Unrecorded(r)
         /\ Left(r, c)
  /\ UNCHANGED <<context, creator, overlapped, damaged>>

\* append_turn raises before it has written anything.
RecordFails(r) ==
  /\ At(r, "history")
  /\ Unrecorded(r)
  /\ UNCHANGED <<stores, damaged>>

\* A write of r ends unfinished: of that only writers who share the temporary
\* file see anything.
Unfinished(r) ==
  LET c == req[r].place
  IN  /\ \/ UNCHANGED history
         \/ /\ At(r, "save")
            /\ Shared(c)
            /\ \E h \in InPlay(c) : history' = [history EXCEPT ![c] = h]
      /\ Left(r, c)
      /\ UNCHANGED <<creator, overlapped>>

\* It raises later, or the temporary file is not there any more.
SaveFails(r) ==
  /\ At(r, "save")
  /\ Unfinished(r)
  /\ Unrecorded(r)
  /\ UNCHANGED <<context, damaged>>

-----------------------------------------------------------------------------
(* The environment                                                          *)

\* DELETE /api/v1/conversations, in a thread of its own, or the retention of
\* _cleanup_old_conversations.
Delete(c) ==
  /\ history[c] # NoConv
  /\ history' = [history EXCEPT ![c] = NoConv]
  /\ UNCHANGED <<context, drafts, creator, overlapped, audits, req, damaged>>

\* A context file is damaged.
Damage(c) ==
  /\ context[c] \in Context
  /\ Cardinality(damaged) < MaxDamage
  /\ context' = [context EXCEPT ![c] = Garbage]
  /\ damaged' = damaged \cup {c}
  /\ UNCHANGED <<books, audits, req>>

\* A server process dies, and with it what it knew of its request.
Crash(r) ==
  /\ r \in Active
  /\ Unfinished(r)
  /\ req' = [req EXCEPT ![r] = [NewRequest EXCEPT !.pc = "dead"]]
  /\ UNCHANGED <<context, audits, damaged>>

Step(r) ==
  \/ Snapshot(r)
  \/ \E a \in Actions, sure, needsDevice \in BOOLEAN : Decide(r, a, sure, needsDevice)
  \/ NoArbiter(r)
  \/ Raise(r)
  \/ StageFallback(r)
  \/ InternalError(r)
  \/ KeepConversation(r)
  \/ \E c \in Convs : NewConversation(r, c)
  \/ NoConversation(r)
  \/ RefuseBlank(r)
  \/ Load(r)
  \/ Migrate(r)
  \/ Reload(r)
  \/ \E o \in Outcomes(req[r].action) : Handle(r, o) \/ HandlerFails(r, o)
  \/ AppendTurn(r)
  \/ WriteAudit(r)
  \/ AttachReference(r)
  \/ BuildResponse(r)
  \/ ErrorEntry(r)
  \/ \E t \in Said : OlderAnswer(r, t)
  \/ ReadHistory(r)
  \/ \E c \in Convs : CreateHistory(r, c)
  \/ SaveHistory(r)
  \/ RecordFails(r)
  \/ SaveFails(r)

Next ==
  \/ \E r \in Requests, c \in Convs \cup {NoConv}, blank \in BOOLEAN : Arrive(r, c, blank)
  \/ \E r \in Requests : Step(r) \/ Crash(r)
  \/ \E c \in Convs : Delete(c) \/ Damage(c)

Spec == Init /\ [][Next]_vars

\* A step of the server is code that ends; a call of the LLM has a timeout.
LiveSpec == Spec /\ \A r \in Requests : WF_vars(Step(r))

-----------------------------------------------------------------------------
(* Properties                                                               *)

Labels == {"new", "snapshot", "decide", "fallback", "internal", "ensure", "load",
           "migrate", "reload", "handle", "append", "audit", "ref", "reply", "error",
           "history", "save", "older", "done", "dead"}

RequestType ==
  [pc : Labels, conv : Convs \cup {NoConv}, seen : Content, blank : BOOLEAN,
   action : Actions \cup {NoAction}, loaded : Content, text : Texts,
   device : DeviceField, place : Convs \cup {NoConv}, shown : {"none", "answer", "error"},
   reply : {"none", "ok", "need_clarification", "error", "internal_error",
            "history_error", "legacy"},
   reason : {"none", "unsupported", "technical", "conversation_id_factory_failed"}]

\* Every variable keeps its type.
TypeOK ==
  /\ context \in [Convs -> Content]
  /\ history \in [Convs -> EntryList \cup {NoConv, Garbage}]
  /\ audit \in [Requests -> {"none", "ok", "error"}]
  /\ errorAudit \subseteq Requests
  /\ req \in [Requests -> RequestType]
  /\ drafts \in [Convs -> SUBSET [of : Requests, text : EntryList]]
  /\ creator \in [Convs -> Requests \cup {Older, NoConv}]
  /\ overlapped \subseteq Convs
  /\ auditFailed \subseteq Requests
  /\ damaged \subseteq Convs

InHistory(r) ==
  LET h == history[req[r].conv]
  IN  \/ h = NoConv
      \/ Len(h) = MaxHistory
      \/ Entry(req[r].text, r) \in Range(h)

InContext(r) ==
  LET x == context[req[r].conv]
  IN  /\ x \in Context
      /\ Len(x.turns) = MaxTurns \/ Turn(req[r].text) \in Range(x.turns)
      /\ Len(x.refs) = MaxRefs \/ r \in Range(x.refs)

\* An answer of V4 (dispatch, try_handle_v4_pre_route) that reports no error is
\* in the V4 context with its audit reference, in the audit and in the legacy
\* conversation, unless newer turns have pushed it out, somebody has deleted
\* the conversation or damaged the context, or two writers had the conversation
\* at once, which append_turn does not prevent: whatever other processes, which
\* migrate the same conversation perhaps, do in between.
OkReplyRecorded ==
  \A r \in Requests :
    req[r].reply \in {"ok", "need_clarification"} =>
      /\ audit[r] = "ok"
      /\ At(r, "done") => req[r].conv \in overlapped \/ InHistory(r)
      /\ req[r].conv \in damaged \/ InContext(r)

\* An audit reference of a context (attach_audit_reference) and the audit id of
\* an answer (build_v4_response, build_v4_error_response) name an audit file that
\* exists: no crash, no failed write leaves one dangling.
RefsResolve ==
  /\ \A c \in Convs :
       context[c] \in Context => \A r \in Range(context[c].refs) : audit[r] # "none"
  /\ \A r \in Requests :
       /\ req[r].shown = "answer" => audit[r] # "none"
       /\ req[r].shown = "error" => r \in errorAudit

\* Whoever was shown an error finds no "ok" in the audit of the request, unless
\* an audit write failed.
ErrorNotAuditedOk ==
  \A r \in Requests :
    At(r, "done") /\ req[r].reply \in {"error", "history_error"} /\ audit[r] = "ok"
      => r \in auditFailed

\* A request handed to the older routes has left nothing behind in V4: no
\* conversation created, nothing recorded, no audit of an answer
\* (test_fallback_does_not_create_or_append_history).
FallbackLeavesNoTrace ==
  \A r \in Requests :
    req[r].reply = "legacy" =>
      /\ audit[r] = "none"
      /\ \A c \in Convs :
           /\ creator[c] # r
           /\ Readable(c) => \A i \in DOMAIN history[c] : history[c][i].by # r
           /\ context[c] \in Context => r \notin Range(context[c].refs)

\* A context that cannot be read (context_store.load, quarantine_invalid) leaves
\* its place only into quarantine, and by a request that reports an error: none
\* goes on with an empty or a newly migrated context in its stead
\* (test_corrupt_v4_context_blocks_lazy_migration).
QuarantineShown ==
  [][\A c \in Convs :
       context[c] = Garbage /\ context'[c] # Garbage =>
         /\ context'[c] = Absent
         /\ \E r \in Requests : req[r].conv = c /\ ~At(r, "error") /\ req'[r].pc = "error"]_vars

\* Every question that has come is answered, unless its server process dies.
Answered ==
  \A r \in Requests : At(r, "snapshot") ~> req[r].pc \in {"done", "dead"}

-----------------------------------------------------------------------------
(* What documents and messages say                                          *)

\* docs/v4_2_3_entry_router_live_switch.md 94-100: V4 falls back for
\* unsupported actions and when the arbiter cannot be reached; failures behind
\* are visible V4 errors.
FactoryFailureVisible ==
  \A r \in Requests :
    req[r].reply = "legacy" => req[r].reason # "conversation_id_factory_failed"

\* app_bridge.py 27: a failed history has been recorded in the V4 audit.
HistoryErrorInAudit ==
  \A r \in Requests :
    req[r].reply = "history_error" => audit[r] = "error" \/ r \in errorAudit

\* app_bridge.py 90 and 324: after such an error the legacy history has no record of
\* the question (legacy_history_recorded is False).
HistoryErrorNotRecorded ==
  \A r \in Requests :
    req[r].reply = "history_error" =>
      \A c \in Convs : Readable(c) => Entry(req[r].text, r) \notin Range(history[c])
=============================================================================
