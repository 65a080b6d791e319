------------------------ MODULE ConversationHistory ------------------------
(***************************************************************************)
(* The conversations a user sees (agent/conversation_store.py), at the     *)
(* level of their files.  append_turn reads a file, changes it in memory   *)
(* and writes it back without a lock, through a temporary file whose name  *)
(* every writer of the conversation shares.                                *)
(*                                                                         *)
(* The chat middleware runs its routes one at a time on the event loop;    *)
(* the legacy chat, the compare endpoint and the conversation API run in a *)
(* pool of threads beside it.                                              *)
(*                                                                         *)
(* An intact file can always be read here.  Where a read fails for a       *)
(* moment, append_turn takes the file for missing and answers in a fresh   *)
(* conversation; V4Dispatch and ContextV2 model that.                      *)
(***************************************************************************)
EXTENDS Naturals, Sequences, FiniteSets

CONSTANTS
  Questions,   \* chat requests, and the turn each of them leaves
  SavedTurns,  \* turns of earlier days, results of device queries
  Convs,       \* conversation ids
  NoConv,      \* no conversation id
  Saved,       \* the conversations of earlier days, by their turns
  Absent,      \* no such file
  Empty,       \* a file that was truncated and not yet written
  Garbage,     \* a file that is not valid JSON
  NoTurn,      \* no result to export
  MaxTurns,    \* conversation_max_turns, 50
  MaxActive    \* bound: requests in work at once

ASSUME HistoryAssumption ==
  /\ MaxTurns \in Nat \ {0}
  /\ NoConv \notin Convs \cup Questions
  /\ {"none", "failed"} \cap Convs = {}
  /\ NoTurn \notin Questions \cup SavedTurns
  /\ Questions \cap SavedTurns = {}

Turns == Questions \cup SavedTurns

Histories == Seq(Turns)

ASSUME FileAssumption ==
  /\ {Absent, Empty, Garbage} \cap Histories = {}
  /\ Absent # Empty
  /\ Absent # Garbage
  /\ Empty # Garbage

ASSUME SavedAssumption ==
  /\ DOMAIN Saved \subseteq Convs
  /\ \A c \in DOMAIN Saved : Saved[c] \in Seq(SavedTurns) /\ Len(Saved[c]) <= MaxTurns

\* The routes of the middleware, and those of the thread pool.
LoopRoutes == {"suggest", "analyse", "confirm"}

PoolRoutes == {"query", "other", "export"}

VARIABLES
  file,       \* <conversation id>.json
  tmp,        \* <conversation id>.json.tmp
  aged,       \* conversations nobody wrote to for conversation_retention_days
  req,        \* the requests
  madeFor,    \* history: the request a conversation was created for
  promised,   \* history: the turns a conversation should show
  overlapped, \* history: conversations with two writers at once
  removed     \* history: conversations that were deleted or expired

vars == <<file, tmp, aged, req, madeFor, promised, overlapped, removed>>

NewRequest ==
  [pc |-> "new", route |-> "query", phase |-> "append", given |-> NoConv,
   conv |-> NoConv, draft |-> <<>>, open |-> "none", reply |-> "none",
   source |-> NoTurn]

Init ==
  /\ file = [c \in Convs |-> IF c \in DOMAIN Saved THEN Saved[c] ELSE Absent]
  /\ tmp = [c \in Convs |-> Absent]
  /\ aged \in SUBSET DOMAIN Saved
  /\ req = [q \in Questions |-> NewRequest]
  /\ madeFor = [c \in Convs |-> NoConv]
  /\ promised = file
  /\ overlapped = {}
  /\ removed = {}

At(q, l) == req[q].pc = l

Ended == {"done", "lost"}

Active == {q \in Questions : req[q].pc \notin Ended \cup {"new"}}

LoopBusy == \E q \in Active : req[q].route \in LoopRoutes

\* The writers of a conversation between their read and their replace.
Writing(c) == {q \in Questions : req[q].pc \in {"open", "write", "replace"} /\ req[q].conv = c}

IsHistory(h) == h \notin {Absent, Empty, Garbage}

-----------------------------------------------------------------------------
(* Requests                                                                 *)

\* A question for a conversation of the user's list, or for a new one.  The
\* execution of a confirmation records its turn only in the synchronisation
\* (_batch66_sync_history_before_return), and nothing without a conversation.
Ask(q, route, c) ==
  /\ At(q, "new")
  /\ Cardinality(Active) < MaxActive
  /\ route \in LoopRoutes => ~LoopBusy
  /\ c # NoConv => file[c] # Absent
  /\ req' = [req EXCEPT ![q] =
       [@ EXCEPT !.route = route, !.given = c, !.conv = c,
                 !.pc = CASE route = "export" -> "search"
                          [] route = "confirm" /\ c = NoConv -> "done"
                          [] OTHER -> "read",
                 !.phase = IF route = "confirm" THEN "sync" ELSE "append",
                 !.reply = IF route = "confirm" THEN c ELSE "none"]]
  /\ UNCHANGED <<file, tmp, aged, madeFor, promised, overlapped, removed>>

\* Turns with the result of a device query, which an export can repeat.
IsQuery(t) == t \in SavedTurns \/ (t \in Questions /\ req[t].route = "query")

LatestQuery(h) ==
  LET last == {i \in DOMAIN h : /\ IsQuery(h[i])
                                /\ \A j \in i + 1..Len(h) : ~IsQuery(h[j])}
  IN  IF last = {} THEN NoTurn ELSE h[CHOOSE i \in last : TRUE]

\* handle_conversation_action: the latest result of the conversation, in
\* whatever state it is read.
Search(q) ==
  /\ At(q, "search")
  /\ LET c == req[q].conv
         h == IF c = NoConv THEN Absent ELSE file[c]
     IN  req' = [req EXCEPT ![q].pc = "read",
                            ![q].source = IF IsHistory(h) THEN LatestQuery(h) ELSE NoTurn]
  /\ UNCHANGED <<file, tmp, aged, madeFor, promised, overlapped, removed>>

-----------------------------------------------------------------------------
(* append_turn                                                              *)

Cut(h) == IF Len(h) > MaxTurns THEN SubSeq(h, Len(h) - MaxTurns + 1, Len(h)) ELSE h

\* Mutant: without the conversation, any other one is continued.
ReadAnyConversation(q) ==
  /\ At(q, "read")
  /\ LET found == {c \in Convs : IsHistory(file[c]) /\ (IsHistory(file[req[q].conv]) => c = req[q].conv)}
     IN  IF req[q].conv # NoConv /\ found # {}
         THEN \E c \in found :
                /\ req' = [req EXCEPT ![q].pc = "open", ![q].conv = c,
                                      ![q].draft = Cut(Append(file[c], q))]
                /\ overlapped' = IF Writing(c) # {} THEN overlapped \cup {c} ELSE overlapped
         ELSE /\ req' = [req EXCEPT ![q].pc = "create"]
              /\ UNCHANGED overlapped
  /\ UNCHANGED <<file, tmp, aged, madeFor, promised, removed>>

\* get_conversation answers None for a file that is missing or torn.  It does
\* so for an intact file whose read fails too, which is left out here.
Read(q) ==
  /\ At(q, "read")
  /\ LET c == req[q].conv
     IN  IF c # NoConv /\ IsHistory(file[c])
         THEN /\ req' = [req EXCEPT ![q].pc = "open", ![q].draft = Cut(Append(file[c], q))]
              /\ overlapped' = IF Writing(c) # {} THEN overlapped \cup {c} ELSE overlapped
         ELSE /\ req' = [req EXCEPT ![q].pc = "create"]
              /\ UNCHANGED overlapped
  /\ UNCHANGED <<file, tmp, aged, madeFor, promised, removed>>

\* The files of gone are unlinked; who is writing into one goes on unseen.
Unlinked(gone) ==
  [q \in Questions |->
     IF req[q].conv \in gone /\ req[q].open = "file"
     THEN [req[q] EXCEPT !.open = "nothing"] ELSE req[q]]

Remove(gone) ==
  /\ removed' = removed \cup gone
  /\ overlapped' = overlapped \cup {c \in gone : Writing(c) # {}}
  /\ aged' = aged \ gone

\* _cleanup_old_conversations
Expired == {c \in aged : file[c] # Absent}

\* create_conversation: an id nobody had before, and first what has expired
\* is removed.
CreateFile(c) ==
  /\ file[c] = Absent
  /\ promised[c] = Absent
  /\ c \notin removed
  /\ file' = [d \in Convs |-> IF d = c THEN <<>> ELSE IF d \in Expired THEN Absent ELSE file[d]]
  /\ promised' = [d \in Convs |-> IF d = c THEN <<>>
                                  ELSE IF d \in Expired THEN Absent ELSE promised[d]]
  /\ Remove(Expired)

\* append_turn creates a conversation when it finds none.
Create(q, c) ==
  /\ At(q, "create")
  /\ CreateFile(c)
  /\ madeFor' = [madeFor EXCEPT ![c] = q]
  /\ req' = [Unlinked(Expired) EXCEPT ![q] =
       [@ EXCEPT !.pc = "open", !.conv = c, !.draft = <<q>>]]
  /\ UNCHANGED tmp

\* Mutant: the file itself is truncated and written.
OpenInPlace(q) ==
  /\ At(q, "open")
  /\ file' = [file EXCEPT ![req[q].conv] = Empty]
  /\ req' = [req EXCEPT ![q].pc = "write", ![q].open = "file"]
  /\ UNCHANGED <<tmp, aged, madeFor, promised, overlapped, removed>>

\* _atomic_write: the temporary file is truncated, ...
Open(q) ==
  /\ At(q, "open")
  /\ tmp' = [tmp EXCEPT ![req[q].conv] = Empty]
  /\ req' = [req EXCEPT ![q].pc = "write", ![q].open = "tmp"]
  /\ UNCHANGED <<file, aged, madeFor, promised, overlapped, removed>>

\* What stands in the file a request writes into, wherever that file is now.
Target(q) ==
  CASE req[q].open = "tmp" -> tmp[req[q].conv]
    [] req[q].open = "file" -> file[req[q].conv]
    [] OTHER -> Empty

\* A shorter text leaves the end of a longer one behind it.
Overlay(old, new) == IF old = Empty THEN {new} ELSE {new, Garbage}

Fill(q, text) ==
  LET c == req[q].conv
  IN  /\ tmp' = IF req[q].open = "tmp" THEN [tmp EXCEPT ![c] = text] ELSE tmp
      /\ file' = IF req[q].open = "file" THEN [file EXCEPT ![c] = text] ELSE file

\* ... written ...
Write(q) ==
  /\ At(q, "write")
  /\ \E text \in Overlay(Target(q), req[q].draft) : Fill(q, text)
  /\ req' = [req EXCEPT ![q].pc = "replace", ![q].open = "none"]
  /\ UNCHANGED <<aged, madeFor, promised, overlapped, removed>>

\* An answer with a synchronisation behind it is recorded once more.
Recorded(q, r) ==
  IF r.route = "analyse" /\ r.phase = "append"
  THEN [r EXCEPT !.pc = "read", !.phase = "sync", !.reply = r.conv]
  ELSE [r EXCEPT !.pc = "done", !.reply = IF r.phase = "append" THEN r.conv ELSE @]

\* Where an open file is after the rename of the temporary one.
Renamed(open) ==
  CASE open = "tmp" -> "file" [] open = "file" -> "nothing" [] OTHER -> open

\* ... and renamed, whoever wrote it last.
Replace(q) ==
  /\ At(q, "replace")
  /\ LET c == req[q].conv
     IN  /\ tmp[c] # Absent
         /\ file' = [file EXCEPT ![c] = tmp[c]]
         /\ tmp' = [tmp EXCEPT ![c] = Absent]
         /\ aged' = aged \ {c}
         /\ promised' = [promised EXCEPT ![c] =
              Cut(Append(IF IsHistory(promised[c]) THEN promised[c] ELSE <<>>, q))]
         /\ req' = [p \in Questions |->
              IF p = q THEN Recorded(q, req[q])
              ELSE IF req[p].conv = c THEN [req[p] EXCEPT !.open = Renamed(@)]
              ELSE req[p]]
  /\ UNCHANGED <<madeFor, overlapped, removed>>

-----------------------------------------------------------------------------
(* Failures                                                                 *)

\* Mutant: a failed append is ignored like a failed synchronisation.
FailedIgnored(r) ==
  [r EXCEPT !.pc = "done", !.reply = IF r.phase = "append" THEN r.conv ELSE @, !.open = "none"]

\* A failed append of the middleware hands the question to the legacy chat;
\* a failed synchronisation is tried a second time, then ignored.
Failed(r) ==
  CASE r.phase = "append" /\ r.route \in LoopRoutes ->
         [r EXCEPT !.pc = "read", !.route = "other", !.conv = r.given, !.open = "none"]
    [] r.phase = "sync" ->
         [r EXCEPT !.pc = "read", !.phase = "retry", !.conv = r.reply, !.open = "none"]
    [] r.phase = "retry" -> [r EXCEPT !.pc = "done", !.open = "none"]
    [] OTHER -> [r EXCEPT !.pc = "done", !.reply = "failed", !.open = "none"]

\* A file cannot be created, opened, written or renamed, or another writer
\* has renamed the temporary file away.
Fail(q) ==
  /\ req[q].pc \in {"create", "open", "write", "replace"}
  /\ req' = [req EXCEPT ![q] = Failed(@)]
  /\ IF At(q, "write")
     THEN \E text \in {Target(q), Garbage} : Fill(q, text)
     ELSE UNCHANGED <<file, tmp>>
  /\ UNCHANGED <<aged, madeFor, promised, overlapped, removed>>

\* The server process dies with every request in it.
Crash ==
  /\ Active # {}
  /\ req' = [q \in Questions |->
       IF q \in Active THEN [req[q] EXCEPT !.pc = "lost", !.open = "none"] ELSE req[q]]
  /\ UNCHANGED <<file, tmp, aged, madeFor, promised, overlapped, removed>>

-----------------------------------------------------------------------------
(* The conversation API                                                     *)

\* api_create_conversation
CreateByApi(c) ==
  /\ CreateFile(c)
  /\ req' = Unlinked(Expired)
  /\ UNCHANGED <<tmp, madeFor>>

Unlink(gone) ==
  /\ gone # {}
  /\ file' = [c \in Convs |-> IF c \in gone THEN Absent ELSE file[c]]
  /\ promised' = [c \in Convs |-> IF c \in gone THEN Absent ELSE promised[c]]
  /\ req' = Unlinked(gone)
  /\ Remove(gone)
  /\ UNCHANGED <<tmp, madeFor>>

\* api_delete_conversation
Delete(c) == file[c] # Absent /\ Unlink({c})

\* api_list_conversations
List == Unlink(Expired)

-----------------------------------------------------------------------------
Step(q) ==
  \/ \E route \in LoopRoutes \cup PoolRoutes, c \in Convs \cup {NoConv} : Ask(q, route, c)
  \/ Search(q)
  \/ Read(q)
  \/ \E c \in Convs : Create(q, c)
  \/ Open(q)
  \/ Write(q)
  \/ Replace(q)
  \/ Fail(q)

Next ==
  \/ \E q \in Questions : Step(q)
  \/ Crash
  \/ \E c \in Convs : CreateByApi(c) \/ Delete(c)
  \/ List

Spec == Init /\ [][Next]_vars
-----------------------------------------------------------------------------
(* Properties                                                               *)

Contents == {Absent, Empty, Garbage} \cup Histories

Labels == {"new", "search", "read", "create", "open", "write", "replace"} \cup Ended

Phases == {"append", "sync", "retry"}

Places == {"none", "tmp", "file", "nothing"}

Replies == Convs \cup {NoConv, "none", "failed"}

Request ==
  [pc : Labels, route : LoopRoutes \cup PoolRoutes, phase : Phases,
   given : Convs \cup {NoConv}, conv : Convs \cup {NoConv}, draft : Histories,
   open : Places, reply : Replies, source : Turns \cup {NoTurn}]

\* Every variable keeps its type: a file is absent, torn or a list of
\* turns, and what append_turn writes is never over conversation_max_turns.
TypeOK ==
  /\ file \in [Convs -> Contents]
  /\ tmp \in [Convs -> Contents]
  /\ aged \in SUBSET Convs
  /\ req \in [Questions -> Request]
  /\ madeFor \in [Convs -> Questions \cup {NoConv}]
  /\ promised \in [Convs -> {Absent} \cup Histories]
  /\ overlapped \in SUBSET Convs
  /\ removed \in SUBSET Convs
  /\ \A q \in Questions : Len(req[q].draft) <= MaxTurns

\* A conversation whose writers never overlapped shows exactly the turns that
\* were appended one after the other, whatever failed or crashed between two
\* steps of append_turn, whatever a dead writer left in the temporary file,
\* and whoever wrote to other conversations meanwhile.
SerialHistory == \A c \in Convs \ overlapped : file[c] = promised[c]

\* The turn of request q may be shown in conversation c.
Belongs(q, c) == req[q].given = c \/ madeFor[c] = q

\* Even with overlapping writers, torn files and lost turns, a conversation
\* shows no turn of a request for another conversation (append_turn writes to
\* the id it read, or to one it has just created), and an export repeats a
\* device query of its own conversation, never another export
\* (conversation_actions.py, _latest_query_turn).
NoForeignTurn ==
  /\ \A c \in Convs, q \in Questions :
       IsHistory(file[c]) /\ (\E i \in DOMAIN file[c] : file[c][i] = q) => Belongs(q, c)
  /\ \A q \in Questions :
       LET t == req[q].source
       IN  t # NoTurn =>
             /\ IsQuery(t)
             /\ t \in Questions => Belongs(t, req[q].given)

\* An answer names the conversation it was asked in, unless that was deleted,
\* expired or torn by two writers: the V4 bridge takes another id for an error
\* (app_bridge.py, try_handle_v4_pre_route).
SameConversation ==
  \A q \in Questions :
    LET given == req[q].given
    IN  /\ req[q].reply \in Convs
        /\ given \in Convs \ (overlapped \cup removed)
        => req[q].reply = given

\* An answer names its own conversation and can be read there, until newer
\* turns push it out.  A confirmation has no promise of the second: its
\* synchronisation may fail (app.py, _batch66_call_append_turn).
AnswerRecorded ==
  /\ SameConversation
  /\ \A q \in Questions :
       LET c == req[q].reply
       IN  /\ c \in Convs \ (overlapped \cup removed)
           /\ req[q].route # "confirm"
           => \/ \E i \in DOMAIN file[c] : file[c][i] = q
              \/ Len(file[c]) = MaxTurns
=============================================================================
