---------------------------- MODULE AtomicContext ----------------------------
(***************************************************************************)
(* What the V4 context store promises the code that calls it: every        *)
(* operation takes effect at one instant, on the context stored at that    *)
(* instant.  A write that returns ok has taken effect and survives a power *)
(* loss; a write that returns an error, or whose caller dies, has taken    *)
(* effect once or not at all; a read returns what is stored.  There are no *)
(* locks, no temporary files and no private copies here: ContextStore      *)
(* implements this module.                                                 *)
(***************************************************************************)
EXTENDS ContextOps

CONSTANTS Procs, MaxDamage

VARIABLES
  stored,     \* the content of the context
  survivors,  \* the contents a power loss may leave
  session,    \* what each caller is waiting for
  damage      \* how often the content was damaged from outside

vars == <<stored, survivors, session, damage>>

IdleSession == [state |-> "idle"]
Called(o) == [state |-> "called", op |-> o]
Committed(c) == [state |-> "committed", context |-> c]
Returning(r) == [state |-> "returning", reply |-> r]

Set(p, s) == session' = [session EXCEPT ![p] = s]

Init ==
  /\ stored = Absent
  /\ survivors = {Absent}
  /\ session = [p \in Procs |-> IdleSession]
  /\ damage = 0

Call(p, o) ==
  /\ session[p] = IdleSession
  /\ Writes(o) => Revision(stored) < MaxRevision
  /\ Set(p, Called(o))
  /\ UNCHANGED <<stored, survivors, damage>>

\* A read returns what is stored now.
Observe(p, o) ==
  /\ session[p] = Called(o)
  /\ ~Writes(o)
  /\ stored # Garbage
  /\ Set(p, Returning(IF stored = Absent THEN NotFound ELSE Ok(stored)))
  /\ UNCHANGED <<stored, survivors, damage>>

\* A write happens, on the content stored now.
Commit(p, o) ==
  /\ session[p] = Called(o)
  /\ Writes(o)
  /\ stored # Garbage
  /\ ~Conflicts(o, stored)
  /\ stored' = Effect(o, stored)
  /\ survivors' = survivors \cup {stored'}
  /\ Set(p, Committed(stored'))
  /\ UNCHANGED damage

\* A write becomes durable and will return ok.
Settle(p) ==
  /\ session[p] = Committed(stored)
  /\ survivors' = {stored}
  /\ Set(p, Returning(Ok(stored)))
  /\ UNCHANGED <<stored, damage>>

\* Content that does not validate is put aside, never built upon.
Discard(p, o) ==
  /\ session[p] = Called(o)
  /\ stored = Garbage
  /\ stored' = Absent
  /\ survivors' = survivors \cup {Absent}
  /\ Set(p, Returning(Error("corrupt")))
  /\ UNCHANGED damage

Refuse(p, o) ==
  /\ session[p] = Called(o)
  /\ Conflicts(o, stored)
  /\ Set(p, Returning(Error("conflict")))
  /\ UNCHANGED <<stored, survivors, damage>>

\* A failure: before or after the effect of the operation.
GiveUp(p) ==
  /\ session[p].state \in {"called", "committed"}
  /\ \E k \in ErrorKind \ {"conflict"} : Set(p, Returning(Error(k)))
  /\ UNCHANGED <<stored, survivors, damage>>

\* The caller gets its result, or dies.
Leave(p) ==
  /\ Set(p, IdleSession)
  /\ UNCHANGED <<stored, survivors, damage>>

PowerLoss ==
  /\ \E c \in survivors : stored' = c /\ survivors' = {c}
  /\ session' = [p \in Procs |-> IdleSession]
  /\ UNCHANGED damage

Damage ==
  /\ damage < MaxDamage
  /\ damage' = damage + 1
  /\ stored' = Garbage
  /\ survivors' = {Garbage}
  /\ UNCHANGED session

Next ==
  \/ \E p \in Procs :
       \/ \E o \in Operation :
            Call(p, o) \/ Observe(p, o) \/ Commit(p, o) \/ Discard(p, o)
              \/ Refuse(p, o)
       \/ Settle(p)
       \/ GiveUp(p)
       \/ Leave(p)
  \/ PowerLoss
  \/ Damage

Spec == Init /\ [][Next]_vars

=============================================================================
