----------------------------- MODULE ContextOps -----------------------------
(***************************************************************************)
(* The canonical V4 context of one conversation and what the mutators of   *)
(* netaiops_asset/chat_v4/context_store.py do to it.  A turn stands for    *)
(* its turn_fingerprint (contracts.py builds it from the question, the     *)
(* answer and the routing labels), a ref for an audit file name and a      *)
(* device for the topic / device_context / last_intent triple that a turn  *)
(* carries.                                                                *)
(***************************************************************************)
EXTENDS Integers, Sequences, Functions

CONSTANTS
  Turns,      \* turn fingerprints
  Refs,       \* audit references
  Devices,    \* values of device_context
  NoDevice,   \* the empty device_context
  SavedTurns, \* turn lists a caller of save may bring
  Absent,     \* the file does not exist
  Garbage,    \* the file exists and does not validate
  MaxTurns,   \* MAX_CONTEXT_TURNS, 30 in the code
  MaxRefs,    \* MAX_CONTEXT_AUDIT_REFS, 50 in the code
  MaxRevision \* bound: no write starts once the file has this revision

ASSUME LimitsAssumption ==
  /\ MaxTurns \in Nat \ {0}
  /\ MaxRefs \in Nat \ {0}
  /\ MaxRevision \in Nat

ASSUME NoDeviceAssumption == NoDevice \notin Devices

DeviceField == Devices \cup {NoDevice}

\* Python's s[-n:]
LastN(s, n) == IF Len(s) <= n THEN s ELSE SubSeq(s, Len(s) - n + 1, Len(s))

\* Mutant: no dedupe.
AppendAny(s, e, n) == LastN(Append(s, e), n)

\* Append to a bounded list unless the element is already there.
AppendNew(s, e, n) == LastN(IF e \in Range(s) THEN s ELSE Append(s, e), n)

Context ==
  [rev: Nat, turns: Seq(Turns), refs: Seq(Refs), device: DeviceField]

\* CanonicalContext(conversation_id=...) before its first write.
EmptyContext ==
  [rev |-> 0, turns |-> <<>>, refs |-> <<>>, device |-> NoDevice]

\* The list limits that _prepare_context applies before every write.
Prepare(c) ==
  [c EXCEPT !.turns = LastN(@, MaxTurns), !.refs = LastN(@, MaxRefs)]

\* The mutator of append_turn: an empty device_context keeps the old one.
WithTurn(c, t, d) ==
  [c EXCEPT !.turns = AppendNew(@, t, MaxTurns),
            !.device = IF d = NoDevice THEN @ ELSE d]

\* The mutator of add_audit_ref.
WithRef(c, r) == [c EXCEPT !.refs = AppendNew(@, r, MaxRefs)]

\* A context that may be stored: list fields within their limits, no
\* fingerprint and no audit reference twice.
WellFormed(c) ==
  /\ Len(c.turns) <= MaxTurns
  /\ Len(c.refs) <= MaxRefs
  /\ IsInjective(c.turns)
  /\ IsInjective(c.refs)

-----------------------------------------------------------------------------
(* What the path of the context shows to a reader.                          *)

ASSUME ContentAssumption ==
  /\ Absent \notin Context
  /\ Garbage \notin Context
  /\ Absent # Garbage

Content == Context \cup {Absent, Garbage}

Revision(c) == IF c \in {Absent, Garbage} THEN 0 ELSE c.rev

-----------------------------------------------------------------------------
(* The operations of the store and their results.                           *)

\* contracts.py dedupes the turns of every CanonicalContext it constructs.
ASSUME SavedTurnsAssumption ==
  \A s \in SavedTurns : s \in Seq(Turns) /\ IsInjective(s)

LoadOp == [kind: {"load"}, quarantine: BOOLEAN]
SaveOp == [kind: {"save"}, turns: SavedTurns, expected: 0..MaxRevision]
AppendOp == [kind: {"append"}, turn: Turns, device: DeviceField]
RefOp == [kind: {"ref"}, ref: Refs]
Operation == LoadOp \cup SaveOp \cup AppendOp \cup RefOp

Writes(o) == o.kind \in {"save", "append", "ref"}

\* save compares the stored revision with the one its caller expects.
Conflicts(o, c) == o.kind = "save" /\ Revision(c) # o.expected

\* The context that the write operation o stores over the content c.
Effect(o, c) ==
  LET base == IF c = Absent THEN EmptyContext ELSE c
      mutated ==
        CASE o.kind = "append" -> WithTurn(base, o.turn, o.device)
          [] o.kind = "ref"    -> WithRef(base, o.ref)
          [] o.kind = "save"   -> [EmptyContext EXCEPT !.turns = o.turns]
  IN  [Prepare(mutated) EXCEPT !.rev = Revision(c) + 1]

Ok(c) == [status |-> "ok", context |-> c]
NotFound == [status |-> "not_found"]
Error(k) == [status |-> "error", error_kind |-> k]

ErrorKind == {"permission", "write", "corrupt", "conflict", "invalid"}

Reply ==
  [status: {"ok"}, context: Context]
    \cup {NotFound}
    \cup [status: {"error"}, error_kind: ErrorKind]

=============================================================================
