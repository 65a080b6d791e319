------------------------------ MODULE ContextV2 -----------------------------
(***************************************************************************)
(* The V2 context (chat_v2/context.py): what a conversation is about and   *)
(* which command outputs a follow-up is answered from.  Four routes write  *)
(* it: the router suggests commands for a device and a topic, a            *)
(* confirmation executes them, an inline request brings commands of its    *)
(* own, a follow-up asks about the outputs.  A save reads the context of   *)
(* the conversation, updates it, and writes it to two files, the           *)
(* conversation's and the latest one of the user, without a lock.  A       *)
(* context that cannot be read just now counts as none.                    *)
(*                                                                         *)
(* The chat's requests run one at a time on the event loop; the compare    *)
(* endpoint runs the router in a thread beside them.  What a confirmation  *)
(* executes is ConfirmExecution; here it is a step with a result.          *)
(***************************************************************************)
EXTENDS Naturals

CONSTANTS
  Requests, Conversations, Users,
  Files,        \* the latest_user files
  FileOf,       \* the file of a user: names are sanitised
  Plain,        \* users whose name is its own sanitised form
  Devices,
  HasIp,        \* devices whose management address is known
  Intents,      \* the topics a question can be about
  LogAided,     \* topics that admit log commands as evidence
  Commands,
  TopicOf,      \* the topic the sanitiser sees in a command
  Inferred,     \* the topic an inline request sees in it, or None
  Template,     \* the commands suggested for a topic
  None, Garbage

ASSUME FilesAssumption == FileOf \in [Users -> Files] /\ Plain \subseteq Users
ASSUME PathsAssumption ==
  /\ Files \cap Conversations = {}
  /\ None \notin Files \cup Conversations \cup Devices \cup Intents \cup {"inline_command"}
ASSUME TopicsAssumption ==
  /\ TopicOf \in [Commands -> Intents \cup {"log", "unknown"}]
  /\ Inferred \in [Commands -> Intents \cup {None}]
  /\ Template \in [Intents -> SUBSET Commands]
  /\ LogAided \subseteq Intents \ {"log"}
ASSUME HasIpAssumption == HasIp \subseteq Devices

VARIABLES
  pc,          \* where a request stands
  req,         \* its kind, conversation (or None) and user
  cid,         \* the conversation its context is saved for, or None
  op,          \* what it does to the context
  draft,       \* the context it is about to write
  cited,       \* the context a follow-up was answered from, or None
  misread,     \* history: requests that miss their conversation's context
  disk,        \* the context files
  lists,       \* the pending lists, one per context path
  used,        \* conversations the users of a file have asked in
  promised,    \* a conversation's context if it had one writer at a time,
               \* since the last who could not read it
  overlapped   \* paths that had two writers at a time

local == <<pc, req, cid, op, draft, cited, misread>>
stores == <<disk, lists, used, promised, overlapped>>
vars == <<local, stores>>

Paths == Conversations \cup Files
Kinds == {"suggest", "compare", "confirm", "inline", "follow"}

(* The topic of a typed command that says none, in a context without one. *)
Topics == Intents \cup {"inline_command"}

(* A command that was run: by whom and in which conversation is only the   *)
(* model's knowledge.                                                      *)
Items == [device : Devices, command : Commands, conv : Conversations \cup {None}]

Contexts ==
  [conv : Conversations \cup {None}, name : Devices \cup {None},
   ip : HasIp \cup {None}, intent : Topics \cup {None}, execs : SUBSET Items]

NewContext(conv) ==
  [conv |-> conv, name |-> None, ip |-> None, intent |-> None, execs |-> {}]

(* What a response changes; None where it says nothing. *)
Ops == [name : Devices \cup {None}, ip : HasIp \cup {None},
        intent : Topics \cup {None}, execs : SUBSET Items, clears : BOOLEAN]

Nothing == [name |-> None, ip |-> None, intent |-> None, execs |-> {}, clears |-> FALSE]

NoReq == [kind |-> "suggest", conv |-> None, user |-> CHOOSE u \in Users : TRUE]

Labels == {"free", "asked", "execute", "load", "conv", "user", "done", "dead"}

(* Special values are no contexts. *)
ASSUME ContentAssumption ==
  None \notin Contexts /\ Garbage \notin Contexts /\ None # Garbage

TypeOK ==
  /\ pc \in [Requests -> Labels]
  /\ req \in [Requests -> [kind : Kinds, conv : Conversations \cup {None}, user : Users]]
  /\ cid \in [Requests -> Conversations \cup {None}]
  /\ op \in [Requests -> Ops]
  /\ draft \in [Requests -> Contexts]
  /\ cited \in [Requests -> Contexts \cup {None}]
  /\ misread \in SUBSET Requests
  /\ disk \in [Paths -> Contexts \cup {None, Garbage}]
  /\ lists \in [Paths -> [device : Devices, commands : SUBSET Commands] \cup {None}]
  /\ used \in [Files -> SUBSET (Conversations \cup {None})]
  /\ promised \in [Conversations -> Contexts \cup {None}]
  /\ overlapped \in SUBSET Paths

-----------------------------------------------------------------------------
(* Reading and updating a context *)

Or(x, y) == IF x = None THEN y ELSE x

(* Mutant: names are not compared. *)
AnyDevice(context, item) == TRUE

(* The items of an execution carry a device name and no address. *)
DeviceMatch(context, item) ==
  context.name = None \/ item.device = context.name

TopicMatch(context, item) ==
  \/ context.intent = None
  \/ TopicOf[item.command] = context.intent
  \/ TopicOf[item.command] = "log" /\ context.intent \in LogAided

(* _batch59_sanitize_context; its check of the Prometheus evidence looks   *)
(* beside the place where it is stored and never removes any.              *)
Sanitized(context) ==
  [context EXCEPT !.execs =
     {item \in @ : DeviceMatch(context, item) /\ TopicMatch(context, item)}]

(* What a context file shows to who can read it; None for no context. *)
Shown(conv, user) ==
  LET path == IF conv # None THEN conv ELSE FileOf[user]
  IN IF disk[path] \in {None, Garbage} THEN None ELSE Sanitized(disk[path])

(* Mutant: without a file of the conversation the user's latest one is     *)
(* taken, as before batch 59. *)
LoadFallingBack(conv, user) ==
  {None, Shown(conv, user)} \cup
  (IF Shown(conv, user) = None THEN {Shown(None, user)} ELSE {})

(* load_v2_context: every exception makes it None. *)
Load(conv, user) == {None, Shown(conv, user)}

(* Mutant: a response without executions empties the list. *)
UpdatedAlways(context, change, conv) ==
  [conv |-> Or(conv, context.conv),
   name |-> Or(change.name, context.name),
   ip |-> Or(change.ip, context.ip),
   intent |-> Or(change.intent, context.intent),
   execs |-> change.execs]

(* save_v2_context_from_response and, with clears, the inline request's    *)
(* own store.  What a response does not say stays as it was.               *)
Updated(context, change, conv) ==
  [conv |-> Or(conv, context.conv),
   name |-> Or(change.name, context.name),
   ip |-> Or(change.ip, context.ip),
   intent |-> Or(change.intent, context.intent),
   execs |-> IF change.execs # {} \/ change.clears THEN change.execs
             ELSE context.execs]

Saved(context, change, conv) ==
  Sanitized(Updated(IF context = None THEN NewContext(conv) ELSE context, change, conv))

-----------------------------------------------------------------------------
(* Requests *)

Suggestion(device, intent) ==
  [Nothing EXCEPT !.name = device, !.intent = intent,
                  !.ip = IF device \in HasIp THEN device ELSE None]

Executed(device, commands, conv) ==
  {[device |-> device, command |-> c, conv |-> conv] : c \in commands}

(* A suggestion and its execution, in a conversation of an earlier day. *)
Earlier(conv, device, intent) ==
  Saved(None, [Suggestion(device, intent) EXCEPT
                 !.execs = Executed(device, Template[intent], conv)], conv)

(* One conversation of one user has a context, or none has. *)
Init ==
  /\ pc = [r \in Requests |-> "free"]
  /\ req = [r \in Requests |-> NoReq]
  /\ cid = [r \in Requests |-> None]
  /\ op = [r \in Requests |-> Nothing]
  /\ draft = [r \in Requests |-> NewContext(None)]
  /\ cited = [r \in Requests |-> None]
  /\ misread = {}
  /\ overlapped = {}
  /\ \E c \in Conversations, u \in Users, d \in Devices, i \in Intents :
       \E mine \in {{}, {c, FileOf[u]}} :
         /\ disk = [p \in Paths |-> IF p \in mine THEN Earlier(c, d, i) ELSE None]
         /\ lists = [p \in Paths |->
                      IF p \in mine THEN [device |-> d, commands |-> Template[i]]
                      ELSE None]
         /\ used = [f \in Files |-> IF f \in mine THEN {c} ELSE {}]
         /\ promised = [x \in Conversations |-> disk[x]]

LoopBusy ==
  \E r \in Requests : pc[r] \notin {"free", "done", "dead"} /\ req[r].kind # "compare"

Ask(r, kind, conv, user) ==
  /\ pc[r] = "free"
  /\ kind # "compare" => ~LoopBusy
  /\ pc' = [pc EXCEPT ![r] = "asked"]
  /\ req' = [req EXCEPT ![r] = [kind |-> kind, conv |-> conv, user |-> user]]
  /\ used' = [used EXCEPT ![FileOf[user]] = @ \cup {conv}]
  /\ UNCHANGED <<cid, op, draft, cited, misread, disk, lists, promised, overlapped>>

(* The request's own state goes with its reply. *)
Leaves(r, label) ==
  /\ pc' = [pc EXCEPT ![r] = label]
  /\ req' = [req EXCEPT ![r] = NoReq]
  /\ cid' = [cid EXCEPT ![r] = None]
  /\ op' = [op EXCEPT ![r] = Nothing]
  /\ draft' = [draft EXCEPT ![r] = NewContext(None)]
  /\ cited' = [cited EXCEPT ![r] = None]
  /\ misread' = misread \ {r}

(* Nobody has used this id: append_turn makes a new one. *)
Fresh ==
  {c \in Conversations :
     /\ disk[c] = None /\ lists[c] = None
     /\ \A f \in Files : c \notin used[f]}

(* append_turn begins a new conversation without an id, or if there is no  *)
(* history it can read under the id: a deleted or unknown one, an error.   *)
Recorded(r) == ({req[r].conv} \ {None}) \cup Fresh

Drafting(p) ==
  {r \in Requests :
     \/ pc[r] = "conv" /\ cid[r] = p
     \/ pc[r] \in {"conv", "user"} /\ FileOf[req[r].user] = p}

(* A context has been read and updated; its two files are next. *)
Drafts(r, context, change, conv) ==
  /\ pc' = [pc EXCEPT ![r] = IF conv = None THEN "user" ELSE "conv"]
  /\ cid' = [cid EXCEPT ![r] = conv]
  /\ draft' = [draft EXCEPT ![r] = Saved(context, change, conv)]
  /\ misread' = IF conv # None /\ context = None /\ Shown(conv, req[r].user) # None
                THEN misread \cup {r} ELSE misread \ {r}
  /\ overlapped' = overlapped \cup
       {p \in ({conv} \ {None}) \cup {FileOf[req[r].user]} : Drafting(p) # {}}

SavesAs(r, conv, change) ==
  /\ pc' = [pc EXCEPT ![r] = "load"]
  /\ cid' = [cid EXCEPT ![r] = conv]
  /\ op' = [op EXCEPT ![r] = change]
  /\ used' = [used EXCEPT ![FileOf[req[r].user]] = @ \cup {conv}]
  /\ UNCHANGED <<req, draft, misread>>

MyContexts(r) == Load(req[r].conv, req[r].user)

DeviceIn(context) == IF context = None THEN None ELSE context.name

Stores(r, conv, device, commands) ==
  lists' = [p \in Paths |->
              IF p \in {conv, FileOf[req[r].user]}
              THEN [device |-> device, commands |-> commands] ELSE lists[p]]

(* The router.  Its device is one of the question or the context's, its    *)
(* address what the resolver finds.  The list is stored for conversation   *)
(* and user; a failed store is swallowed.  It may ask back: for a device,  *)
(* with the topic saved all the same, or for what the plan lacks.          *)
Suggest(r) ==
  /\ pc[r] = "asked" /\ req[r].kind \in {"suggest", "compare"}
  /\ \E conv \in Recorded(r) :
       \/ \E device \in Devices, intent \in Intents :
            /\ SavesAs(r, conv, Suggestion(device, intent))
            /\ Stores(r, conv, device, Template[intent]) \/ UNCHANGED lists
       \/ /\ \E intent \in {None} \cup Intents, context \in MyContexts(r) :
               /\ intent = None \/ DeviceIn(context) = None
               /\ SavesAs(r, conv, [Nothing EXCEPT !.intent = intent])
          /\ UNCHANGED lists
  /\ UNCHANGED <<cited, disk, promised, overlapped>>

Pending(r) ==
  IF req[r].conv # None /\ lists[req[r].conv] # None THEN lists[req[r].conv]
  ELSE lists[FileOf[req[r].user]]

(* Reports of a confirmation: nothing executed (no list, no YES), one      *)
(* command with the name of its device, or all of them, without a name.    *)
Reports(r, conv) ==
  {Nothing} \cup
  (IF Pending(r) = None THEN {}
   ELSE LET d == Pending(r).device  commands == Pending(r).commands
        IN {[Nothing EXCEPT !.execs = Executed(d, commands, conv)]} \cup
           {[Nothing EXCEPT !.name = d, !.execs = Executed(d, {c}, conv)] : c \in commands})

(* Two of the three routes save for the id of the request, if it has one;  *)
(* the last one records the turn before.                                   *)
Confirm(r) ==
  /\ pc[r] = "asked" /\ req[r].kind = "confirm"
  /\ \E conv \in {req[r].conv} \cup Recorded(r) :
       \E report \in Reports(r, conv) : SavesAs(r, conv, report)
  /\ UNCHANGED <<cited, disk, lists, promised, overlapped>>

InlineChange(context, command) ==
  [Nothing EXCEPT !.intent = Or(Inferred[command], Or(context.intent, "inline_command")),
                  !.clears = TRUE]

(* A typed command is to run on the device of the context.  First the      *)
(* context is stored with its topic and without evidence, and the command  *)
(* as a list of its own.                                                   *)
Inline(r) ==
  /\ pc[r] = "asked" /\ req[r].kind = "inline"
  /\ \E context \in MyContexts(r) :
       \/ /\ DeviceIn(context) # None
          /\ \E c \in Commands :
               /\ op' = [op EXCEPT ![r] = InlineChange(context, c)]
               /\ Drafts(r, context, InlineChange(context, c), req[r].conv)
               /\ Stores(r, req[r].conv, DeviceIn(context), {c}) \/ UNCHANGED lists
          /\ UNCHANGED <<req, cited>>
       \/ /\ DeviceIn(context) = None
          /\ Leaves(r, "done")
          /\ UNCHANGED <<lists, overlapped>>
  /\ UNCHANGED <<disk, used, promised>>

(* ... then the list is executed and the result saved, or there is none.   *)
InlineExecutes(r) ==
  /\ pc[r] = "execute"
  /\ \/ /\ Pending(r) # None
        /\ SavesAs(r, req[r].conv,
             [Nothing EXCEPT !.execs =
                Executed(Pending(r).device, Pending(r).commands, req[r].conv)])
        /\ UNCHANGED cited
     \/ Leaves(r, "done") /\ UNCHANGED used
  /\ UNCHANGED <<disk, lists, promised, overlapped>>

(* A follow-up is answered from the context alone.  The forced one of the  *)
(* planner saves nothing; the other one saves the device it was about.     *)
Follow(r) ==
  /\ pc[r] = "asked" /\ req[r].kind = "follow"
  /\ \/ \E context \in MyContexts(r) \ {None}, conv \in Recorded(r) :
          /\ cited' = [cited EXCEPT ![r] = context]
          /\ SavesAs(r, conv, [Nothing EXCEPT !.name = context.name, !.ip = context.ip])
     \/ Leaves(r, "done") /\ UNCHANGED used
  /\ UNCHANGED <<disk, lists, promised, overlapped>>

-----------------------------------------------------------------------------
(* A save *)

(* Mutant: the context the request was answered from is written back. *)
ReadByRequest(r) ==
  /\ pc[r] = "load"
  /\ \E context \in MyContexts(r) : Drafts(r, context, op[r], cid[r])
  /\ UNCHANGED <<req, op, cited, disk, lists, used, promised>>

Read(r) ==
  /\ pc[r] = "load"
  /\ \E context \in Load(cid[r], req[r].user) : Drafts(r, context, op[r], cid[r])
  /\ UNCHANGED <<req, op, cited, disk, lists, used, promised>>

(* Writers of a path share its temporary file: two at a time may leave     *)
(* either text or a mixture. *)
Written(r, p) ==
  {draft[r]} \cup
  (IF Drafting(p) \ {r} = {} THEN {}
   ELSE {Garbage} \cup {draft[q] : q \in Drafting(p)})

(* What is left of the conversation's context when r has not seen it. *)
Seen(r) == IF r \in misread THEN None ELSE promised[cid[r]]

WriteConversation(r) ==
  /\ pc[r] = "conv"
  /\ \E content \in Written(r, cid[r]) : disk' = [disk EXCEPT ![cid[r]] = content]
  /\ promised' = [promised EXCEPT ![cid[r]] = Saved(Seen(r), op[r], cid[r])]
  /\ pc' = [pc EXCEPT ![r] = "user"]
  /\ misread' = misread \ {r}
  /\ UNCHANGED <<req, cid, op, draft, cited, lists, used, overlapped>>

(* The inline request writes under the plain name of its user. *)
WritesUser(r) == ~op[r].clears \/ req[r].user \in Plain

WriteUser(r) ==
  LET p == FileOf[req[r].user]
  IN /\ pc[r] = "user"
     /\ IF WritesUser(r)
        THEN \E content \in Written(r, p) : disk' = [disk EXCEPT ![p] = content]
        ELSE UNCHANGED disk
     /\ IF op[r].clears
        THEN /\ pc' = [pc EXCEPT ![r] = "execute"]
             /\ UNCHANGED <<req, cid, op, draft, cited, misread>>
        ELSE Leaves(r, "done")
     /\ UNCHANGED <<lists, used, promised, overlapped>>

(* A failed save is swallowed, the second file is then not written. *)
SaveFails(r) ==
  /\ pc[r] \in {"load", "conv", "user"}
  /\ Leaves(r, "done")
  /\ UNCHANGED stores

(* append_turn or an audit raises before the save: the legacy chat         *)
(* answers. *)
Fails(r) ==
  /\ pc[r] \in {"asked", "execute"}
  /\ Leaves(r, "done")
  /\ UNCHANGED stores

Crash ==
  /\ \E r \in Requests : pc[r] \notin {"free", "done", "dead"}
  /\ pc' = [r \in Requests |-> IF pc[r] \in {"free", "done"} THEN pc[r] ELSE "dead"]
  /\ req' = [r \in Requests |-> NoReq]
  /\ cid' = [r \in Requests |-> None]
  /\ op' = [r \in Requests |-> Nothing]
  /\ draft' = [r \in Requests |-> NewContext(None)]
  /\ cited' = [r \in Requests |-> None]
  /\ misread' = {}
  /\ UNCHANGED stores

Step(r) ==
  \/ Suggest(r) \/ Confirm(r) \/ Inline(r) \/ InlineExecutes(r) \/ Follow(r)
  \/ Read(r) \/ WriteConversation(r) \/ WriteUser(r)
  \/ SaveFails(r) \/ Fails(r)

Next ==
  \/ \E r \in Requests :
       \/ Step(r)
       \/ \E k \in Kinds, c \in Conversations \cup {None}, u \in Users : Ask(r, k, c, u)
  \/ Crash

Spec == Init /\ [][Next]_vars

-----------------------------------------------------------------------------
(* Properties *)

(* Whatever is saved when and for whom, a conversation's file is about     *)
(* that conversation, and its evidence was gathered in it.                 *)
EvidenceOwn ==
  \A c \in Conversations :
    disk[c] \in Contexts =>
      disk[c].conv = c /\ \A item \in disk[c].execs : item.conv = c

(* A follow-up quotes outputs of the device its context names, that belong *)
(* to its topic, from its own conversation, or, without an id, from one    *)
(* the users of its file have asked in.                                    *)
FollowupJustified ==
  \A r \in Requests : cited[r] # None =>
    \A item \in cited[r].execs :
      /\ cited[r].name \in {None, item.device}
      /\ \/ cited[r].intent \in {None, TopicOf[item.command]}
         \/ TopicOf[item.command] = "log" /\ cited[r].intent \in LogAided
      /\ IF req[r].conv # None THEN item.conv = req[r].conv
         ELSE item.conv \in used[FileOf[req[r].user]]

(* A conversation whose writers never overlap has the context its updates, *)
(* one after the other, make of it.  A writer that cannot read the context *)
(* begins a new one, and the updates count from there.                     *)
SerialContext ==
  \A c \in Conversations \ overlapped : disk[c] = promised[c]

(* Evidence disappears from a conversation only if it gets a new device or *)
(* topic, new evidence, or an inline request of its own, or if the writer  *)
(* could not read the context it replaces.                                 *)
EvidenceKept ==
  [][\A c \in Conversations \ overlapped :
       disk[c] \in Contexts /\ disk'[c] # disk[c] =>
         \/ disk[c].execs \subseteq disk'[c].execs
         \/ disk'[c].name # disk[c].name
         \/ disk'[c].intent # disk[c].intent
         \/ \E r \in Requests :
              /\ pc[r] = "conv" /\ cid[r] = c
              /\ op[r].clears \/ op[r].execs # {} \/ r \in misread]_vars

-----------------------------------------------------------------------------
(* What documents want and the code does not do. *)

(* "批量执行后能继续基于上下文追问" (docs/v2_batch52_long_conversation.md): what a      *)
(* confirmation executed is there for a follow-up.  The topic of a command *)
(* is read from its text, so whatever the reader does not know is dropped. *)
ExecutionsPersisted ==
  \A r \in Requests :
    pc[r] = "user" /\ cid[r] # None /\ cid[r] \notin overlapped =>
      op[r].execs \subseteq disk[cid[r]].execs

(* The name and the address of a context belong to one device. *)
CoherentDevice ==
  \A p \in Paths : disk[p] \in Contexts =>
    None \in {disk[p].name, disk[p].ip} \/ disk[p].ip = disk[p].name
=============================================================================
