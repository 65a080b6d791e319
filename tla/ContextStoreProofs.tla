------------------------- MODULE ContextStoreProofs -------------------------
(***************************************************************************)
(* The safety of the context store for every number of processes, every    *)
(* limit and every number of crashes, power losses and damages.            *)
(***************************************************************************)
EXTENDS ContextStore, SequenceTheorems, TLAPS

-----------------------------------------------------------------------------
(* The list helpers and the mutators of ContextOps, for every limit, every *)
(* turn and every audit reference.                                         *)

\* s[-n:] of a list without repetitions is a list of at most n elements
\* without repetitions.
LEMMA LastNProperties ==
  ASSUME NEW S, NEW s \in Seq(S), NEW n \in Nat
  PROVE  /\ LastN(s, n) \in Seq(S)
         /\ Len(LastN(s, n)) <= n
         /\ IsInjective(s) => IsInjective(LastN(s, n))
<1>1. CASE Len(s) <= n
  BY <1>1 DEF LastN
<1>2. CASE Len(s) > n
  <2> DEFINE m == Len(s) - n + 1
             u == SubSeq(s, m, Len(s))
  <2>1. /\ Len(s) \in Nat
        /\ DOMAIN s = 1..Len(s)
        /\ \A i \in 1..Len(s) : s[i] \in S
    BY LenProperties, ElementOfSeq
  <2>2. m \in 1..Len(s) + 1
    BY <1>2, <2>1
  <2>3. /\ u \in Seq(S)
        /\ Len(u) = n
        /\ \A i \in 1..n : u[i] = s[m + i - 1]
    BY <2>1, <2>2, SubSeqProperties, Z3
  <2>4. DOMAIN u = 1..n
    BY <2>3, LenProperties
  <2>5. IsInjective(s) => IsInjective(u)
    <3> SUFFICES ASSUME IsInjective(s), NEW i \in 1..n, NEW j \in 1..n, u[i] = u[j]
                 PROVE  i = j
      BY <2>4 DEF IsInjective
    <3>1. m + i - 1 \in 1..Len(s) /\ m + j - 1 \in 1..Len(s)
      BY <1>2, <2>1
    <3>2. s[m + i - 1] = s[m + j - 1]
      BY <2>3
    <3>3. m + i - 1 = m + j - 1
      BY <2>1, <3>1, <3>2 DEF IsInjective
    <3> HIDE DEF m
    <3> QED BY <2>2, <3>3
  <2>6. LastN(s, n) = u
    BY <1>2, <2>1 DEF LastN
  <2> QED BY <2>3, <2>5, <2>6
<1> QED BY <1>1, <1>2, LenProperties

\* Appending a new element to a bounded list keeps it bounded and without
\* repetitions.
LEMMA AppendNewProperties ==
  ASSUME NEW S, NEW s \in Seq(S), NEW e \in S, NEW n \in Nat
  PROVE  /\ AppendNew(s, e, n) \in Seq(S)
         /\ Len(AppendNew(s, e, n)) <= n
         /\ IsInjective(s) => IsInjective(AppendNew(s, e, n))
<1> DEFINE u == IF e \in Range(s) THEN s ELSE Append(s, e)
<1>1. u \in Seq(S)
  BY AppendProperties
<1>2. IsInjective(s) => IsInjective(u)
  <2>1. CASE e \in Range(s)
    BY <2>1
  <2>2. CASE e \notin Range(s)
    <3> DEFINE v == Append(s, e)
    <3>1. /\ Len(s) \in Nat
          /\ DOMAIN s = 1..Len(s)
          /\ Len(v) = Len(s) + 1
          /\ v \in Seq(S)
          /\ \A i \in 1..Len(s) : v[i] = s[i]
          /\ v[Len(s) + 1] = e
      BY AppendProperties, LenProperties
    <3>2. DOMAIN v = 1..Len(s) + 1
      BY <3>1, LenProperties
    <3>3. \A i \in 1..Len(s) : s[i] # e
      BY <2>2, <3>1 DEF Range
    <3> HIDE DEF v
    <3> SUFFICES ASSUME IsInjective(s) PROVE IsInjective(v)
      BY <2>2 DEF v
    <3> SUFFICES ASSUME NEW i \in 1..Len(s) + 1, NEW j \in 1..Len(s) + 1,
                        v[i] = v[j]
                 PROVE  i = j
      BY <3>2 DEF IsInjective
    <3>4. CASE i \in 1..Len(s) /\ j \in 1..Len(s)
      BY <3>1, <3>4 DEF IsInjective
    <3>5. CASE i = Len(s) + 1 \/ j = Len(s) + 1
      BY <3>1, <3>3, <3>5
    <3> QED BY <3>1, <3>4, <3>5
  <2> QED BY <2>1, <2>2
<1>3. AppendNew(s, e, n) = LastN(u, n)
  BY DEF AppendNew
<1> HIDE DEF u
<1> QED BY <1>1, <1>2, <1>3, LastNProperties

LEMMA EmptyContextProperties ==
  EmptyContext \in Context /\ WellFormed(EmptyContext)
BY LimitsAssumption DEF EmptyContext, Context, WellFormed, IsInjective, DeviceField

\* The parts of a context.
LEMMA ContextParts ==
  ASSUME NEW c \in Context
  PROVE  /\ c.rev \in Nat
         /\ c.turns \in Seq(Turns)
         /\ c.refs \in Seq(Refs)
         /\ c.device \in DeviceField
BY DEF Context

\* Content that is neither missing nor garbage is a context.
LEMMA ContentCases ==
  ASSUME NEW c \in Content
  PROVE  /\ c \in Context \/ c = Absent \/ c = Garbage
         /\ c \in Context => c # Absent /\ c # Garbage
         /\ Absent # Garbage
         /\ Revision(c) \in Nat
         /\ c \in Context => Revision(c) = c.rev
BY ContentAssumption, ContextParts DEF Content, Revision

\* A write stores a well-formed context with the next revision over every
\* well-formed one.
LEMMA EffectProperties ==
  ASSUME NEW c \in Context \cup {Absent}, NEW o \in Operation, Writes(o),
         c \in Context => WellFormed(c)
  PROVE  /\ Effect(o, c) \in Context
         /\ Effect(o, c).rev = Revision(c) + 1
         /\ WellFormed(Effect(o, c))
<1> DEFINE base == IF c = Absent THEN EmptyContext ELSE c
           mutated == CASE o.kind = "append" -> WithTurn(base, o.turn, o.device)
                        [] o.kind = "ref"    -> WithRef(base, o.ref)
                        [] o.kind = "save"   -> [EmptyContext EXCEPT !.turns = o.turns]
<1>1. base \in Context /\ WellFormed(base)
  BY EmptyContextProperties, ContentAssumption
<1>2. Revision(c) \in Nat
  BY ContentCases DEF Content
<1> HIDE DEF base
<1>3. /\ mutated \in Context
      /\ IsInjective(mutated.turns)
      /\ IsInjective(mutated.refs)
  <2>1. CASE o.kind = "append"
    <3>1. o.turn \in Turns /\ o.device \in DeviceField
      BY <2>1 DEF Operation, LoadOp, SaveOp, AppendOp, RefOp
    <3>2. /\ AppendNew(base.turns, o.turn, MaxTurns) \in Seq(Turns)
          /\ IsInjective(AppendNew(base.turns, o.turn, MaxTurns))
      BY <1>1, <3>1, ContextParts, AppendNewProperties, LimitsAssumption
         DEF WellFormed
    <3>3. mutated = WithTurn(base, o.turn, o.device)
      BY <2>1
    <3> QED BY <1>1, <3>1, <3>2, <3>3 DEF WithTurn, Context, WellFormed
  <2>2. CASE o.kind = "ref"
    <3>1. o.ref \in Refs
      BY <2>2 DEF Operation, LoadOp, SaveOp, AppendOp, RefOp
    <3>2. /\ AppendNew(base.refs, o.ref, MaxRefs) \in Seq(Refs)
          /\ IsInjective(AppendNew(base.refs, o.ref, MaxRefs))
      BY <1>1, <3>1, ContextParts, AppendNewProperties, LimitsAssumption
         DEF WellFormed
    <3>3. mutated = WithRef(base, o.ref)
      BY <2>2
    <3> QED BY <1>1, <3>1, <3>2, <3>3 DEF WithRef, Context, WellFormed
  <2>3. CASE o.kind = "save"
    <3>1. o.turns \in SavedTurns
      BY <2>3 DEF Operation, LoadOp, SaveOp, AppendOp, RefOp
    <3>2. o.turns \in Seq(Turns) /\ IsInjective(o.turns)
      BY <3>1, SavedTurnsAssumption
    <3>3. mutated = [EmptyContext EXCEPT !.turns = o.turns]
      BY <2>3
    <3> QED BY <3>2, <3>3, EmptyContextProperties
            DEF Context, WellFormed, EmptyContext
  <2> QED BY <2>1, <2>2, <2>3 DEF Writes
<1>4. Effect(o, c) = [Prepare(mutated) EXCEPT !.rev = Revision(c) + 1]
  BY DEF Effect, base
<1> HIDE DEF mutated
<1> DEFINE ts == LastN(mutated.turns, MaxTurns)
           rs == LastN(mutated.refs, MaxRefs)
<1>5. /\ ts \in Seq(Turns) /\ Len(ts) <= MaxTurns /\ IsInjective(ts)
      /\ rs \in Seq(Refs) /\ Len(rs) <= MaxRefs /\ IsInjective(rs)
  BY <1>3, ContextParts, LastNProperties, LimitsAssumption
<1>6. Effect(o, c) =
        [rev |-> Revision(c) + 1, turns |-> ts, refs |-> rs,
         device |-> mutated.device]
  BY <1>3, <1>4 DEF Prepare, Context
<1>7. mutated.device \in DeviceField
  BY <1>3, ContextParts
<1> HIDE DEF ts, rs
<1> QED BY <1>2, <1>5, <1>6, <1>7 DEF Context, WellFormed

\* A list within its limit keeps all but its first element when one is added.
LEMMA AppendNewKeeps ==
  ASSUME NEW S, NEW s \in Seq(S), NEW e \in S, NEW n \in Nat \ {0},
         Len(s) <= n, NEW i \in DOMAIN s, i > 1
  PROVE  s[i] \in Range(AppendNew(s, e, n))
<1>1. /\ Len(s) \in Nat
      /\ DOMAIN s = 1..Len(s)
  BY LenProperties
<1>2. CASE e \in Range(s)
  <2>1. AppendNew(s, e, n) = s
    BY <1>2 DEF AppendNew, LastN
  <2> QED BY <2>1 DEF Range
<1>3. CASE e \notin Range(s)
  <2> DEFINE v == Append(s, e)
  <2>1. /\ v \in Seq(S)
        /\ Len(v) = Len(s) + 1
        /\ v[i] = s[i]
    BY <1>1, AppendProperties
  <2>2. DOMAIN v = 1..Len(s) + 1
    BY <2>1, LenProperties
  <2>3. AppendNew(s, e, n) = LastN(v, n)
    BY <1>3 DEF AppendNew
  <2> HIDE DEF v
  <2>4. CASE Len(v) <= n
    BY <1>1, <2>1, <2>2, <2>3, <2>4 DEF LastN, Range
  <2>5. CASE Len(v) > n
    <3>1. Len(s) = n
      <4>1. Len(s) + 1 > n
        BY <2>1, <2>5
      <4>2. Len(s) \in Nat /\ n \in Nat /\ Len(s) <= n
        BY <1>1
      <4> QED BY <4>1, <4>2
    <3>2. AppendNew(s, e, n) = SubSeq(v, 2, n + 1)
      BY <2>1, <2>3, <2>5, <3>1 DEF LastN
    <3>3. \A j \in 2..n + 1 : v[j] \in S
      BY <1>1, <2>1, <2>2, <3>1, ElementOfSeq
    <3> DEFINE w == SubSeq(v, 2, n + 1)
    <3>4. /\ w \in Seq(S)
          /\ Len(w) = n
          /\ w[i - 1] = v[i]
      BY <1>1, <3>1, <3>3, SubSeqProperties, Z3
    <3>5. i - 1 \in DOMAIN w
      BY <1>1, <3>1, <3>4, LenProperties
    <3> HIDE DEF w
    <3> QED BY <2>1, <3>2, <3>4, <3>5 DEF w, Range
  <2> QED BY <1>1, <2>1, <2>4, <2>5
<1> QED BY <1>2, <1>3

\* append_turn and add_audit_ref keep every turn but the oldest.
LEMMA EffectKeepsTurns ==
  ASSUME NEW c \in Context, NEW o \in AppendOp \cup RefOp, WellFormed(c),
         NEW i \in DOMAIN c.turns, i > 1
  PROVE  c.turns[i] \in Range(Effect(o, c).turns)
<1>1. c # Absent
  BY ContentAssumption
<1>2. c.turns \in Seq(Turns) /\ Len(c.turns) <= MaxTurns
  BY ContextParts DEF WellFormed
<1>3. CASE o \in AppendOp
  <2> DEFINE u == AppendNew(c.turns, o.turn, MaxTurns)
  <2>1. o.kind = "append" /\ o.turn \in Turns
    BY <1>3 DEF AppendOp
  <2>2. u \in Seq(Turns) /\ Len(u) <= MaxTurns
    BY <1>2, <2>1, AppendNewProperties, LimitsAssumption
  <2>3. c.turns[i] \in Range(u)
    BY <1>2, <2>1, AppendNewKeeps, LimitsAssumption
  <2>4. LastN(u, MaxTurns) = u
    BY <2>2 DEF LastN
  <2>5. Effect(o, c) = [Prepare(WithTurn(c, o.turn, o.device))
                          EXCEPT !.rev = Revision(c) + 1]
    BY <1>1, <2>1 DEF Effect
  <2>6. Effect(o, c).turns = LastN(u, MaxTurns)
    BY <2>5 DEF Prepare, WithTurn, Context
  <2> QED BY <2>3, <2>4, <2>6
<1>4. CASE o \in RefOp
  <2>1. o.kind = "ref"
    BY <1>4 DEF RefOp
  <2>2. Effect(o, c) = [Prepare(WithRef(c, o.ref)) EXCEPT !.rev = Revision(c) + 1]
    BY <1>1, <2>1 DEF Effect
  <2>3. Effect(o, c).turns = LastN(c.turns, MaxTurns)
    BY <2>2 DEF Prepare, WithRef, Context
  <2>4. LastN(c.turns, MaxTurns) = c.turns
    BY <1>2 DEF LastN
  <2> QED BY <2>3, <2>4 DEF Range
<1> QED BY <1>3, <1>4

-----------------------------------------------------------------------------
(* The context store *)

\* A process outside idle runs an operation, and only writers prepare a draft.
OperationRuns ==
  \A p \in Procs :
    /\ pc[p] # "idle" => op[p] \in Operation
    /\ pc[p] \in {"write", "replace", "sync"} => Writes(op[p])

\* Content that does not validate was never replaced since it came.
GarbageSettled == file = Garbage => disk = {Garbage}

Inv ==
  /\ TypeOK
  /\ LockHeldInside
  /\ OperationRuns
  /\ DraftFromCurrent
  /\ StoredWellFormed
  /\ AcknowledgedSurvives
  /\ NoTempResidue
  /\ GarbageSettled

LEMMA InitInv == Init => Inv
<1> SUFFICES ASSUME Init PROVE Inv
  OBVIOUS
<1> USE DEF Init
<1>1. TypeOK
  BY EmptyContextProperties, DamageAssumption, ProcAssumption
     DEF TypeOK, Content, Steps, Reply, NotFound
<1>2. LockHeldInside /\ OperationRuns /\ DraftFromCurrent
  BY ProcAssumption DEF LockHeldInside, OperationRuns, DraftFromCurrent
<1>3. StoredWellFormed /\ AcknowledgedSurvives /\ NoTempResidue
  BY ContentAssumption
     DEF StoredWellFormed, AcknowledgedSurvives, NoTempResidue
<1>4. GarbageSettled
  BY ContentAssumption DEF GarbageSettled
<1> QED BY <1>1, <1>2, <1>3, <1>4 DEF Inv

\* What the invariant says of a draft that is about to be written.
LEMMA DraftProperties ==
  ASSUME Inv, NEW p \in Procs, pc[p] \in {"write", "replace"}
  PROVE  /\ file \in Context \cup {Absent}
         /\ draft[p] \in Context
         /\ draft[p].rev = Revision(file) + 1
         /\ WellFormed(draft[p])
<1>1. file \in Context \cup {Absent}
  BY DEF Inv, TypeOK, DraftFromCurrent, Content
<1>2. op[p] \in Operation /\ Writes(op[p])
  BY DEF Inv, OperationRuns
<1>3. file \in Context => WellFormed(file)
  BY DEF Inv, StoredWellFormed
<1>4. draft[p] = Effect(op[p], file)
  BY DEF Inv, DraftFromCurrent
<1> QED BY <1>1, <1>2, <1>3, <1>4, EffectProperties

\* Two processes are never between read and result together.
LEMMA OneInside ==
  ASSUME Inv, NEW p \in Procs, NEW q \in Procs,
         pc[p] \in {"read", "write", "replace", "sync", "unlock"},
         pc[q] \in {"read", "write", "replace", "sync", "unlock"}
  PROVE  p = q
BY DEF Inv, LockHeldInside

LEMMA TypeStep == Inv /\ [Next]_vars => TypeOK'
<1> SUFFICES ASSUME Inv, [Next]_vars PROVE TypeOK'
  OBVIOUS
<1> USE DEF Inv, TypeOK, Steps
<1>1. ASSUME NEW p \in Procs, NEW o \in Operation, Begin(p, o) PROVE TypeOK'
  BY <1>1 DEF Begin
<1>2. ASSUME NEW p \in Procs, LockFails(p) PROVE TypeOK'
  BY <1>2, EmptyContextProperties DEF LockFails, Return, Reply, NotFound
<1>3. ASSUME NEW p \in Procs, Acquire(p) PROVE TypeOK'
  BY <1>3 DEF Acquire
<1>4. ASSUME NEW p \in Procs, LoadMissing(p) PROVE TypeOK'
  BY <1>4 DEF LoadMissing, Finish, Reply
<1>5. ASSUME NEW p \in Procs, LoadContext(p) PROVE TypeOK'
  <2>1. Ok(file) \in Reply
    BY <1>5 DEF LoadContext, Ok, Reply
  <2> QED BY <1>5, <2>1 DEF LoadContext, Finish
<1>6. ASSUME NEW p \in Procs, ReadGarbage(p) PROVE TypeOK'
  <2>1. \A k \in ErrorKind : Error(k) \in Reply
    BY DEF Error, Reply
  <2>2. {"permission", "write", "corrupt"} \subseteq ErrorKind
    BY DEF ErrorKind
  <2>3. Absent \in Content
    BY DEF Content
  <2> QED BY <1>6, <2>1, <2>2, <2>3 DEF ReadGarbage, Finish
<1>7. ASSUME NEW p \in Procs, RejectConflict(p) PROVE TypeOK'
  <2>1. Error("conflict") \in Reply
    BY DEF Error, Reply, ErrorKind
  <2> QED BY <1>7, <2>1 DEF RejectConflict, Finish
<1>8. ASSUME NEW p \in Procs, PrepareWrite(p) PROVE TypeOK'
  <2>1. Effect(op[p], file) \in Context
    BY <1>8, EffectProperties, ContentCases
       DEF PrepareWrite, OperationRuns, StoredWellFormed
  <2> QED BY <1>8, <2>1 DEF PrepareWrite
<1>9. ASSUME NEW p \in Procs, WriteTemp(p) PROVE TypeOK'
  BY <1>9 DEF WriteTemp
<1>10. ASSUME NEW p \in Procs, Replace(p) PROVE TypeOK'
  BY <1>10 DEF Replace, Content
<1>11. ASSUME NEW p \in Procs, SyncDir(p) PROVE TypeOK'
  <2>1. Ok(draft[p]) \in Reply
    BY DEF Ok, Reply
  <2> QED BY <1>11, <2>1, ContextParts DEF SyncDir, Finish
<1>12. ASSUME NEW p \in Procs, Fail(p) PROVE TypeOK'
  <2>1. \A k \in {"permission", "write", "invalid"} : Error(k) \in Reply
    BY DEF Error, Reply, ErrorKind
  <2> QED BY <1>12, <2>1 DEF Fail, Finish
<1>13. ASSUME NEW p \in Procs, Release(p) PROVE TypeOK'
  BY <1>13, EmptyContextProperties DEF Release, Return, Reply
<1>14. ASSUME NEW p \in Procs, Crash(p) PROVE TypeOK'
  BY <1>14, EmptyContextProperties DEF Crash, Return, Reply
<1>15. CASE PowerLoss
  <2>1. NotFound \in Reply
    BY DEF Reply
  <2> QED BY <1>15, <2>1, EmptyContextProperties DEF PowerLoss
<1>16. CASE Damage
  BY <1>16, DamageAssumption DEF Damage, Content
<1>17. CASE UNCHANGED vars
  BY <1>17 DEF vars
<1> QED
  BY <1>1, <1>2, <1>3, <1>4, <1>5, <1>6, <1>7, <1>8, <1>9, <1>10, <1>11, <1>12,
     <1>13, <1>14, <1>15, <1>16, <1>17 DEF Next, Step

\* flock admits one process; leaving and dying give the lock back.
LEMMA LockStep == Inv /\ [Next]_vars => LockHeldInside'
<1> SUFFICES ASSUME Inv, [Next]_vars PROVE LockHeldInside'
  OBVIOUS
<1> USE DEF Inv, TypeOK, Steps, LockHeldInside
<1>1. ASSUME NEW p \in Procs, NEW o \in Operation, Begin(p, o) PROVE LockHeldInside'
  BY <1>1 DEF Begin
<1>2. ASSUME NEW p \in Procs, LockFails(p) PROVE LockHeldInside'
  BY <1>2 DEF LockFails, Return
<1>3. ASSUME NEW p \in Procs, Acquire(p) PROVE LockHeldInside'
  BY <1>3, ProcAssumption DEF Acquire
<1>4. ASSUME NEW p \in Procs, LoadMissing(p) PROVE LockHeldInside'
  BY <1>4 DEF LoadMissing, Finish
<1>5. ASSUME NEW p \in Procs, LoadContext(p) PROVE LockHeldInside'
  BY <1>5 DEF LoadContext, Finish
<1>6. ASSUME NEW p \in Procs, ReadGarbage(p) PROVE LockHeldInside'
  BY <1>6 DEF ReadGarbage, Finish
<1>7. ASSUME NEW p \in Procs, RejectConflict(p) PROVE LockHeldInside'
  BY <1>7 DEF RejectConflict, Finish
<1>8. ASSUME NEW p \in Procs, PrepareWrite(p) PROVE LockHeldInside'
  BY <1>8 DEF PrepareWrite
<1>9. ASSUME NEW p \in Procs, WriteTemp(p) PROVE LockHeldInside'
  BY <1>9 DEF WriteTemp
<1>10. ASSUME NEW p \in Procs, Replace(p) PROVE LockHeldInside'
  BY <1>10 DEF Replace
<1>11. ASSUME NEW p \in Procs, SyncDir(p) PROVE LockHeldInside'
  BY <1>11 DEF SyncDir, Finish
<1>12. ASSUME NEW p \in Procs, Fail(p) PROVE LockHeldInside'
  BY <1>12 DEF Fail, Finish
<1>13. ASSUME NEW p \in Procs, Release(p) PROVE LockHeldInside'
  BY <1>13, ProcAssumption DEF Release, Return
<1>14. ASSUME NEW p \in Procs, Crash(p) PROVE LockHeldInside'
  BY <1>14, ProcAssumption DEF Crash, Return
<1>15. CASE PowerLoss
  BY <1>15, ProcAssumption DEF PowerLoss
<1>16. CASE Damage
  BY <1>16 DEF Damage
<1>17. CASE UNCHANGED vars
  BY <1>17 DEF vars
<1> QED
  BY <1>1, <1>2, <1>3, <1>4, <1>5, <1>6, <1>7, <1>8, <1>9, <1>10, <1>11,
     <1>12, <1>13, <1>14, <1>15, <1>16, <1>17 DEF Next, Step

\* The operation of a process stays the one it began.
LEMMA OperationStep == Inv /\ [Next]_vars => OperationRuns'
<1> SUFFICES ASSUME Inv, [Next]_vars PROVE OperationRuns'
  OBVIOUS
<1> USE DEF Inv, TypeOK, Steps, OperationRuns
<1>1. ASSUME NEW p \in Procs, NEW o \in Operation, Begin(p, o) PROVE OperationRuns'
  BY <1>1 DEF Begin
<1>2. ASSUME NEW p \in Procs, LockFails(p) PROVE OperationRuns'
  BY <1>2 DEF LockFails, Return
<1>3. ASSUME NEW p \in Procs, Acquire(p) PROVE OperationRuns'
  BY <1>3 DEF Acquire
<1>4. ASSUME NEW p \in Procs, LoadMissing(p) PROVE OperationRuns'
  BY <1>4 DEF LoadMissing, Finish
<1>5. ASSUME NEW p \in Procs, LoadContext(p) PROVE OperationRuns'
  BY <1>5 DEF LoadContext, Finish
<1>6. ASSUME NEW p \in Procs, ReadGarbage(p) PROVE OperationRuns'
  BY <1>6 DEF ReadGarbage, Finish
<1>7. ASSUME NEW p \in Procs, RejectConflict(p) PROVE OperationRuns'
  BY <1>7 DEF RejectConflict, Finish
<1>8. ASSUME NEW p \in Procs, PrepareWrite(p) PROVE OperationRuns'
  BY <1>8 DEF PrepareWrite
<1>9. ASSUME NEW p \in Procs, WriteTemp(p) PROVE OperationRuns'
  BY <1>9 DEF WriteTemp
<1>10. ASSUME NEW p \in Procs, Replace(p) PROVE OperationRuns'
  BY <1>10 DEF Replace
<1>11. ASSUME NEW p \in Procs, SyncDir(p) PROVE OperationRuns'
  BY <1>11 DEF SyncDir, Finish
<1>12. ASSUME NEW p \in Procs, Fail(p) PROVE OperationRuns'
  BY <1>12 DEF Fail, Finish
<1>13. ASSUME NEW p \in Procs, Release(p) PROVE OperationRuns'
  BY <1>13 DEF Release, Return
<1>14. ASSUME NEW p \in Procs, Crash(p) PROVE OperationRuns'
  BY <1>14 DEF Crash, Return
<1>15. CASE PowerLoss
  BY <1>15 DEF PowerLoss
<1>16. CASE Damage
  BY <1>16 DEF Damage
<1>17. CASE UNCHANGED vars
  BY <1>17 DEF vars
<1> QED
  BY <1>1, <1>2, <1>3, <1>4, <1>5, <1>6, <1>7, <1>8, <1>9, <1>10, <1>11,
     <1>12, <1>13, <1>14, <1>15, <1>16, <1>17 DEF Next, Step

\* Only the holder of the lock changes the file, and damage needs a free lock.
LEMMA DraftStep == Inv /\ [Next]_vars => DraftFromCurrent'
<1> SUFFICES ASSUME Inv, [Next]_vars PROVE DraftFromCurrent'
  OBVIOUS
<1> USE DEF Inv, TypeOK, Steps, DraftFromCurrent, LockHeldInside
<1>1. ASSUME NEW p \in Procs, NEW o \in Operation, Begin(p, o) PROVE DraftFromCurrent'
  BY <1>1 DEF Begin
<1>2. ASSUME NEW p \in Procs, LockFails(p) PROVE DraftFromCurrent'
  BY <1>2 DEF LockFails, Return
<1>3. ASSUME NEW p \in Procs, Acquire(p) PROVE DraftFromCurrent'
  BY <1>3 DEF Acquire
<1>4. ASSUME NEW p \in Procs, LoadMissing(p) PROVE DraftFromCurrent'
  BY <1>4 DEF LoadMissing, Finish
<1>5. ASSUME NEW p \in Procs, LoadContext(p) PROVE DraftFromCurrent'
  BY <1>5 DEF LoadContext, Finish
<1>6. ASSUME NEW p \in Procs, ReadGarbage(p) PROVE DraftFromCurrent'
  BY <1>6 DEF ReadGarbage, Finish
<1>7. ASSUME NEW p \in Procs, RejectConflict(p) PROVE DraftFromCurrent'
  BY <1>7 DEF RejectConflict, Finish
<1>8. ASSUME NEW p \in Procs, PrepareWrite(p) PROVE DraftFromCurrent'
  BY <1>8 DEF PrepareWrite
<1>9. ASSUME NEW p \in Procs, WriteTemp(p) PROVE DraftFromCurrent'
  BY <1>9 DEF WriteTemp
<1>10. ASSUME NEW p \in Procs, Replace(p) PROVE DraftFromCurrent'
  BY <1>10 DEF Replace
<1>11. ASSUME NEW p \in Procs, SyncDir(p) PROVE DraftFromCurrent'
  BY <1>11 DEF SyncDir, Finish
<1>12. ASSUME NEW p \in Procs, Fail(p) PROVE DraftFromCurrent'
  BY <1>12 DEF Fail, Finish
<1>13. ASSUME NEW p \in Procs, Release(p) PROVE DraftFromCurrent'
  BY <1>13 DEF Release, Return
<1>14. ASSUME NEW p \in Procs, Crash(p) PROVE DraftFromCurrent'
  BY <1>14 DEF Crash, Return
<1>15. CASE PowerLoss
  BY <1>15 DEF PowerLoss
<1>16. CASE Damage
  BY <1>16, ProcAssumption DEF Damage
<1>17. CASE UNCHANGED vars
  BY <1>17 DEF vars
<1> QED
  BY <1>1, <1>2, <1>3, <1>4, <1>5, <1>6, <1>7, <1>8, <1>9, <1>10, <1>11,
     <1>12, <1>13, <1>14, <1>15, <1>16, <1>17 DEF Next, Step

\* Every replace installs a well-formed context.
LEMMA ContentStep == Inv /\ [Next]_vars => StoredWellFormed'
<1> SUFFICES ASSUME Inv, [Next]_vars PROVE StoredWellFormed'
  OBVIOUS
<1> USE DEF Inv, TypeOK, Steps, StoredWellFormed
<1>1. ASSUME NEW p \in Procs, NEW o \in Operation, Begin(p, o) PROVE StoredWellFormed'
  BY <1>1 DEF Begin
<1>2. ASSUME NEW p \in Procs, LockFails(p) PROVE StoredWellFormed'
  BY <1>2 DEF LockFails, Return
<1>3. ASSUME NEW p \in Procs, Acquire(p) PROVE StoredWellFormed'
  BY <1>3 DEF Acquire
<1>4. ASSUME NEW p \in Procs, LoadMissing(p) PROVE StoredWellFormed'
  BY <1>4 DEF LoadMissing, Finish
<1>5. ASSUME NEW p \in Procs, LoadContext(p) PROVE StoredWellFormed'
  BY <1>5 DEF LoadContext, Finish
<1>6. ASSUME NEW p \in Procs, ReadGarbage(p) PROVE StoredWellFormed'
  BY <1>6, ContentAssumption DEF ReadGarbage, Finish
<1>7. ASSUME NEW p \in Procs, RejectConflict(p) PROVE StoredWellFormed'
  BY <1>7 DEF RejectConflict, Finish
<1>8. ASSUME NEW p \in Procs, PrepareWrite(p) PROVE StoredWellFormed'
  BY <1>8 DEF PrepareWrite
<1>9. ASSUME NEW p \in Procs, WriteTemp(p) PROVE StoredWellFormed'
  BY <1>9 DEF WriteTemp
<1>10. ASSUME NEW p \in Procs, Replace(p) PROVE StoredWellFormed'
  <2>1. WellFormed(draft[p])
    BY <1>10, DraftProperties DEF Replace
  <2> QED BY <1>10, <2>1 DEF Replace
<1>11. ASSUME NEW p \in Procs, SyncDir(p) PROVE StoredWellFormed'
  BY <1>11 DEF SyncDir, Finish
<1>12. ASSUME NEW p \in Procs, Fail(p) PROVE StoredWellFormed'
  BY <1>12 DEF Fail, Finish
<1>13. ASSUME NEW p \in Procs, Release(p) PROVE StoredWellFormed'
  BY <1>13 DEF Release, Return
<1>14. ASSUME NEW p \in Procs, Crash(p) PROVE StoredWellFormed'
  BY <1>14 DEF Crash, Return
<1>15. CASE PowerLoss
  BY <1>15 DEF PowerLoss
<1>16. CASE Damage
  BY <1>16, ContentAssumption DEF Damage
<1>17. CASE UNCHANGED vars
  BY <1>17 DEF vars
<1> QED
  BY <1>1, <1>2, <1>3, <1>4, <1>5, <1>6, <1>7, <1>8, <1>9, <1>10, <1>11,
     <1>12, <1>13, <1>14, <1>15, <1>16, <1>17 DEF Next, Step

\* Revisions grow with every replace, so none is older than an acknowledged one.
LEMMA AcknowledgedStep == Inv /\ [Next]_vars => AcknowledgedSurvives'
<1> SUFFICES ASSUME Inv, [Next]_vars PROVE AcknowledgedSurvives'
  OBVIOUS
<1> USE DEF Inv, TypeOK, Steps, AcknowledgedSurvives
<1>1. ASSUME NEW p \in Procs, NEW o \in Operation, Begin(p, o) PROVE AcknowledgedSurvives'
  BY <1>1 DEF Begin
<1>2. ASSUME NEW p \in Procs, LockFails(p) PROVE AcknowledgedSurvives'
  BY <1>2 DEF LockFails, Return
<1>3. ASSUME NEW p \in Procs, Acquire(p) PROVE AcknowledgedSurvives'
  BY <1>3 DEF Acquire
<1>4. ASSUME NEW p \in Procs, LoadMissing(p) PROVE AcknowledgedSurvives'
  BY <1>4 DEF LoadMissing, Finish
<1>5. ASSUME NEW p \in Procs, LoadContext(p) PROVE AcknowledgedSurvives'
  BY <1>5 DEF LoadContext, Finish
<1>6. ASSUME NEW p \in Procs, ReadGarbage(p) PROVE AcknowledgedSurvives'
  BY <1>6, ContentAssumption DEF ReadGarbage, Finish
<1>7. ASSUME NEW p \in Procs, RejectConflict(p) PROVE AcknowledgedSurvives'
  BY <1>7 DEF RejectConflict, Finish
<1>8. ASSUME NEW p \in Procs, PrepareWrite(p) PROVE AcknowledgedSurvives'
  BY <1>8 DEF PrepareWrite
<1>9. ASSUME NEW p \in Procs, WriteTemp(p) PROVE AcknowledgedSurvives'
  BY <1>9 DEF WriteTemp
<1>10. ASSUME NEW p \in Procs, Replace(p) PROVE AcknowledgedSurvives'
  <2>1. /\ draft[p] \in Context
        /\ draft[p].rev = Revision(file) + 1
    BY <1>10, DraftProperties DEF Replace
  <2>2. file \in Context => Revision(file) = file.rev /\ file.rev \in Nat
    BY ContentCases, ContextParts
  <2> QED BY <1>10, <2>1, <2>2, ContextParts DEF Replace
<1>11. ASSUME NEW p \in Procs, SyncDir(p) PROVE AcknowledgedSurvives'
  BY <1>11, ContextParts DEF SyncDir, Finish, DraftFromCurrent
<1>12. ASSUME NEW p \in Procs, Fail(p) PROVE AcknowledgedSurvives'
  BY <1>12 DEF Fail, Finish
<1>13. ASSUME NEW p \in Procs, Release(p) PROVE AcknowledgedSurvives'
  BY <1>13 DEF Release, Return
<1>14. ASSUME NEW p \in Procs, Crash(p) PROVE AcknowledgedSurvives'
  BY <1>14 DEF Crash, Return
<1>15. CASE PowerLoss
  BY <1>15 DEF PowerLoss
<1>16. CASE Damage
  BY <1>16 DEF Damage
<1>17. CASE UNCHANGED vars
  BY <1>17 DEF vars
<1> QED
  BY <1>1, <1>2, <1>3, <1>4, <1>5, <1>6, <1>7, <1>8, <1>9, <1>10, <1>11,
     <1>12, <1>13, <1>14, <1>15, <1>16, <1>17 DEF Next, Step

\* Every way out of an operation unlinks or renames its temporary file.
LEMMA ResidueStep == Inv /\ [Next]_vars => NoTempResidue'
<1> SUFFICES ASSUME Inv, [Next]_vars PROVE NoTempResidue'
  OBVIOUS
<1> USE DEF Inv, TypeOK, Steps, NoTempResidue
<1>1. ASSUME NEW p \in Procs, NEW o \in Operation, Begin(p, o) PROVE NoTempResidue'
  BY <1>1 DEF Begin
<1>2. ASSUME NEW p \in Procs, LockFails(p) PROVE NoTempResidue'
  BY <1>2 DEF LockFails, Return
<1>3. ASSUME NEW p \in Procs, Acquire(p) PROVE NoTempResidue'
  BY <1>3 DEF Acquire
<1>4. ASSUME NEW p \in Procs, LoadMissing(p) PROVE NoTempResidue'
  BY <1>4 DEF LoadMissing, Finish
<1>5. ASSUME NEW p \in Procs, LoadContext(p) PROVE NoTempResidue'
  BY <1>5 DEF LoadContext, Finish
<1>6. ASSUME NEW p \in Procs, ReadGarbage(p) PROVE NoTempResidue'
  BY <1>6 DEF ReadGarbage, Finish
<1>7. ASSUME NEW p \in Procs, RejectConflict(p) PROVE NoTempResidue'
  BY <1>7 DEF RejectConflict, Finish
<1>8. ASSUME NEW p \in Procs, PrepareWrite(p) PROVE NoTempResidue'
  BY <1>8 DEF PrepareWrite
<1>9. ASSUME NEW p \in Procs, WriteTemp(p) PROVE NoTempResidue'
  BY <1>9 DEF WriteTemp
<1>10. ASSUME NEW p \in Procs, Replace(p) PROVE NoTempResidue'
  BY <1>10 DEF Replace
<1>11. ASSUME NEW p \in Procs, SyncDir(p) PROVE NoTempResidue'
  BY <1>11 DEF SyncDir, Finish
<1>12. ASSUME NEW p \in Procs, Fail(p) PROVE NoTempResidue'
  BY <1>12 DEF Fail, Finish
<1>13. ASSUME NEW p \in Procs, Release(p) PROVE NoTempResidue'
  BY <1>13 DEF Release, Return
<1>14. ASSUME NEW p \in Procs, Crash(p) PROVE NoTempResidue'
  BY <1>14 DEF Crash, Return
<1>15. CASE PowerLoss
  BY <1>15 DEF PowerLoss
<1>16. CASE Damage
  BY <1>16 DEF Damage
<1>17. CASE UNCHANGED vars
  BY <1>17 DEF vars
<1> QED
  BY <1>1, <1>2, <1>3, <1>4, <1>5, <1>6, <1>7, <1>8, <1>9, <1>10, <1>11,
     <1>12, <1>13, <1>14, <1>15, <1>16, <1>17 DEF Next, Step

\* A writer never replaces content that does not validate.
LEMMA SettledStep == Inv /\ [Next]_vars => GarbageSettled'
<1> SUFFICES ASSUME Inv, [Next]_vars PROVE GarbageSettled'
  OBVIOUS
<1> USE DEF Inv, TypeOK, Steps, GarbageSettled
<1>1. ASSUME NEW p \in Procs, NEW o \in Operation, Begin(p, o) PROVE GarbageSettled'
  BY <1>1 DEF Begin
<1>2. ASSUME NEW p \in Procs, LockFails(p) PROVE GarbageSettled'
  BY <1>2 DEF LockFails, Return
<1>3. ASSUME NEW p \in Procs, Acquire(p) PROVE GarbageSettled'
  BY <1>3 DEF Acquire
<1>4. ASSUME NEW p \in Procs, LoadMissing(p) PROVE GarbageSettled'
  BY <1>4 DEF LoadMissing, Finish
<1>5. ASSUME NEW p \in Procs, LoadContext(p) PROVE GarbageSettled'
  BY <1>5 DEF LoadContext, Finish
<1>6. ASSUME NEW p \in Procs, ReadGarbage(p) PROVE GarbageSettled'
  BY <1>6 DEF ReadGarbage, Finish
<1>7. ASSUME NEW p \in Procs, RejectConflict(p) PROVE GarbageSettled'
  BY <1>7 DEF RejectConflict, Finish
<1>8. ASSUME NEW p \in Procs, PrepareWrite(p) PROVE GarbageSettled'
  BY <1>8 DEF PrepareWrite
<1>9. ASSUME NEW p \in Procs, WriteTemp(p) PROVE GarbageSettled'
  BY <1>9 DEF WriteTemp
<1>10. ASSUME NEW p \in Procs, Replace(p) PROVE GarbageSettled'
  BY <1>10, ContentAssumption DEF Replace
<1>11. ASSUME NEW p \in Procs, SyncDir(p) PROVE GarbageSettled'
  BY <1>11 DEF SyncDir, Finish
<1>12. ASSUME NEW p \in Procs, Fail(p) PROVE GarbageSettled'
  BY <1>12 DEF Fail, Finish
<1>13. ASSUME NEW p \in Procs, Release(p) PROVE GarbageSettled'
  BY <1>13 DEF Release, Return
<1>14. ASSUME NEW p \in Procs, Crash(p) PROVE GarbageSettled'
  BY <1>14 DEF Crash, Return
<1>15. CASE PowerLoss
  BY <1>15 DEF PowerLoss
<1>16. CASE Damage
  BY <1>16 DEF Damage
<1>17. CASE UNCHANGED vars
  BY <1>17 DEF vars
<1> QED
  BY <1>1, <1>2, <1>3, <1>4, <1>5, <1>6, <1>7, <1>8, <1>9, <1>10, <1>11,
     <1>12, <1>13, <1>14, <1>15, <1>16, <1>17 DEF Next, Step

\* The invariant holds in every reachable state.
THEOREM Invariance == Spec => []Inv
<1>1. Inv /\ [Next]_vars => Inv'
  BY TypeStep, LockStep, OperationStep, DraftStep, ContentStep,
     AcknowledgedStep, ResidueStep, SettledStep DEF Inv
<1> QED BY InitInv, <1>1, PTL DEF Spec

-----------------------------------------------------------------------------
(* The properties of the runs.                                              *)

\* Every variable keeps its type.
THEOREM TypeCorrect == Spec => []TypeOK
BY Invariance, PTL DEF Inv

\* No sequence of writes, failures, crashes and power losses stores a context
\* beyond its limits or with a turn twice.
THEOREM StoredAlwaysWellFormed == Spec => []StoredWellFormed
BY Invariance, PTL DEF Inv

\* A write that returned ok is never lost.
THEOREM AcknowledgedAlwaysSurvives == Spec => []AcknowledgedSurvives
BY Invariance, PTL DEF Inv

\* Nobody changes the file between the read and the replace of a writer.
THEOREM DraftAlwaysCurrent == Spec => []DraftFromCurrent
BY Invariance, PTL DEF Inv

\* Only a killed worker leaves a temporary file.
THEOREM NeverTempResidue == Spec => []NoTempResidue
BY Invariance, PTL DEF Inv

\* A file that does not validate is quarantined, never overwritten.
THEOREM GarbageSafe == Spec => GarbageNeverOverwritten
<1>1. Inv /\ [Next]_vars => [file = Garbage => file' \in {Garbage, Absent}]_file
  <2> SUFFICES ASSUME Inv, [Next]_vars, file = Garbage, file' # file
               PROVE  file' = Absent
    OBVIOUS
  <2>1. ASSUME NEW p \in Procs, ReadGarbage(p) PROVE file' = Absent
    BY <2>1 DEF ReadGarbage
  <2>2. ASSUME NEW p \in Procs, Replace(p) PROVE FALSE
    BY <2>2 DEF Replace, Inv, DraftFromCurrent
  <2>3. CASE PowerLoss
    BY <2>3 DEF PowerLoss, Inv, GarbageSettled
  <2> QED
    BY <2>1, <2>2, <2>3 DEF Next, Step, Begin, LockFails, Acquire, LoadMissing,
       LoadContext, RejectConflict, PrepareWrite, WriteTemp, SyncDir, Fail,
       Release, Crash, Damage, vars
<1> QED BY Invariance, <1>1, PTL DEF Spec, GarbageNeverOverwritten

\* No update is lost: a context replaces the one it was computed from.
THEOREM NoUpdateLost == Spec => NoLostUpdate
<1> DEFINE Kept(p) ==
      pc[p] = "replace" /\ pc'[p] = "sync" /\ file \in Context =>
           /\ file'.rev = file.rev + 1
           /\ op[p].kind # "save" =>
                \A i \in DOMAIN file.turns :
                  i > 1 => file.turns[i] \in Range(file'.turns)
<1>1. ASSUME Inv, NEW p \in Procs, pc[p] = "replace", file \in Context, Replace(p)
      PROVE  Kept(p)
  <2>1. /\ file' = Effect(op[p], file)
        /\ file' = draft[p]
    BY <1>1 DEF Replace, Inv, DraftFromCurrent
  <2>2. file'.rev = file.rev + 1
    BY <1>1, <2>1, DraftProperties, ContentCases DEF Content
  <2>3. WellFormed(file)
    BY <1>1 DEF Inv, StoredWellFormed
  <2>4. op[p].kind # "save" => op[p] \in AppendOp \cup RefOp
    <3>1. op[p] \in Operation /\ Writes(op[p])
      BY <1>1 DEF Inv, OperationRuns
    <3>2. ASSUME op[p] \in LoadOp PROVE op[p].kind = "load"
      BY <3>2 DEF LoadOp
    <3>3. ASSUME op[p] \in SaveOp PROVE op[p].kind = "save"
      BY <3>3 DEF SaveOp
    <3> QED BY <3>1, <3>2, <3>3 DEF Operation, Writes
  <2>5. ASSUME op[p].kind # "save", NEW i \in DOMAIN file.turns, i > 1
        PROVE  file.turns[i] \in Range(file'.turns)
    <3>1. file.turns[i] \in Range(Effect(op[p], file).turns)
      BY <1>1, <2>3, <2>4, <2>5, EffectKeepsTurns
    <3> QED BY <2>1, <3>1
  <2> QED BY <2>2, <2>5
<1>2. Inv /\ [Next]_vars => [\A p \in Procs : Kept(p)]_vars
  <2> SUFFICES ASSUME Inv, [Next]_vars, NEW p \in Procs,
                      pc[p] = "replace", pc'[p] = "sync", file \in Context
               PROVE  Kept(p)
    BY DEF vars
  <2>1. ASSUME NEW q \in Procs, Replace(q) PROVE p = q
    BY <2>1, OneInside DEF Replace
  <2>2. \E q \in Procs : Replace(q)
    BY DEF Inv, TypeOK, Next, Step, Begin, LockFails, Acquire, LoadMissing,
       LoadContext, ReadGarbage, RejectConflict, PrepareWrite, WriteTemp,
       SyncDir, Fail, Release, Crash, Return, Finish, PowerLoss, Damage, vars
  <2> QED BY <1>1, <2>1, <2>2
<1> QED BY Invariance, <1>2, PTL DEF Spec, NoLostUpdate

-----------------------------------------------------------------------------
(* The store implements atomic operations.                                  *)

Sessions == [p \in Procs |-> SessionOf(p)]

\* A step of one process changes the session of that process only.
LEMMA OneSession ==
  ASSUME NEW p \in Procs, NEW s, SessionOf(p)' = s,
         \A q \in Procs \ {p} :
           /\ pc'[q] = pc[q]
           /\ op'[q] = op[q]
           /\ draft'[q] = draft[q]
           /\ reply'[q] = reply[q]
  PROVE  Sessions' = [Sessions EXCEPT ![p] = s]
<1>1. \A q \in Procs \ {p} : SessionOf(q)' = SessionOf(q)
  BY DEF SessionOf
<1>2. \A q \in Procs : Sessions'[q] = [Sessions EXCEPT ![p] = s][q]
  BY <1>1 DEF Sessions
<1> QED BY <1>2 DEF Sessions

LEMMA InitRefines == Init => Atomic!Init
<1> SUFFICES ASSUME Init PROVE Atomic!Init
  OBVIOUS
<1>1. \A p \in Procs : SessionOf(p) = [state |-> "idle"]
  BY DEF Init, SessionOf
<1> QED BY <1>1 DEF Init, Atomic!Init, Atomic!IdleSession

LEMMA BeginRefines ==
  ASSUME Inv, NEW p \in Procs, NEW o \in Operation, Begin(p, o)
  PROVE  Atomic!Call(p, o)
<1>1. Sessions[p] = [state |-> "idle"]
  BY DEF Begin, Sessions, SessionOf
<1>2. SessionOf(p)' = [state |-> "called", op |-> o]
  BY DEF Begin, SessionOf, Inv, TypeOK
<1>3. Sessions' = [Sessions EXCEPT ![p] = [state |-> "called", op |-> o]]
  BY <1>2, OneSession DEF Begin, Inv, TypeOK
<1> QED
  BY <1>1, <1>3 DEF Begin, Sessions, Atomic!Call, Atomic!Set, Atomic!Called,
     Atomic!IdleSession, Atomic!Revision, Atomic!Writes, Revision, Writes

\* Leaving the store: the lock file cannot be opened, the call returns, or
\* the worker dies.
LEMMA LeaveRefines ==
  ASSUME Inv, NEW p \in Procs, LockFails(p) \/ Release(p) \/ Crash(p)
  PROVE  Atomic!Leave(p)
<1>1. SessionOf(p)' = [state |-> "idle"]
  BY DEF LockFails, Release, Crash, Return, SessionOf, Inv, TypeOK
<1>2. Sessions' = [Sessions EXCEPT ![p] = [state |-> "idle"]]
  BY <1>1, OneSession DEF LockFails, Release, Crash, Return, Inv, TypeOK
<1> QED
  BY <1>2 DEF LockFails, Release, Crash, Sessions, Atomic!Leave, Atomic!Set,
     Atomic!IdleSession

\* Taking the lock and preparing a write are invisible.
LEMMA StutterRefines ==
  ASSUME Inv, NEW p \in Procs, Acquire(p) \/ PrepareWrite(p) \/ WriteTemp(p)
  PROVE  UNCHANGED <<file, disk, Sessions, damage>>
<1>1. SessionOf(p)' = SessionOf(p)
  BY DEF Acquire, PrepareWrite, WriteTemp, SessionOf, Inv, TypeOK
<1>2. Sessions' = [Sessions EXCEPT ![p] = SessionOf(p)]
  BY <1>1, OneSession DEF Acquire, PrepareWrite, WriteTemp, Inv, TypeOK
<1> QED
  BY <1>2 DEF Acquire, PrepareWrite, WriteTemp, Sessions

\* A process that finishes with the result r returns r.
LEMMA FinishSession ==
  ASSUME Inv, NEW p \in Procs, NEW r, Finish(p, r), UNCHANGED op,
         \A q \in Procs \ {p} : draft'[q] = draft[q]
  PROVE  Sessions' = [Sessions EXCEPT ![p] = [state |-> "returning", reply |-> r]]
<1>1. SessionOf(p)' = [state |-> "returning", reply |-> r]
  BY DEF Finish, SessionOf, Inv, TypeOK
<1> QED BY <1>1, OneSession DEF Finish, Inv, TypeOK

\* A process that has not yet replaced the file waits for its operation.
LEMMA CalledSession ==
  ASSUME NEW p \in Procs, pc[p] \in {"lock", "read", "write", "replace"}
  PROVE  Sessions[p] = [state |-> "called", op |-> op[p]]
BY DEF Sessions, SessionOf

LEMMA ObserveRefines ==
  ASSUME Inv, NEW p \in Procs, LoadMissing(p) \/ LoadContext(p)
  PROVE  Atomic!Observe(p, op[p])
<1> DEFINE r == IF file = Absent THEN NotFound ELSE Ok(file)
<1>1. Finish(p, r)
  BY ContentAssumption DEF LoadMissing, LoadContext
<1>2. Sessions' = [Sessions EXCEPT ![p] = [state |-> "returning", reply |-> r]]
  BY <1>1, FinishSession DEF LoadMissing, LoadContext
<1>3. Sessions[p] = [state |-> "called", op |-> op[p]]
  BY CalledSession DEF LoadMissing, LoadContext
<1>4. file # Garbage
  BY ContentAssumption DEF LoadMissing, LoadContext
<1> QED
  BY <1>2, <1>3, <1>4
  DEF LoadMissing, LoadContext, Sessions, Ok, NotFound, Atomic!Observe, Atomic!Set,
      Atomic!Called, Atomic!Returning, Atomic!Writes, Atomic!Ok, Atomic!NotFound

LEMMA RefuseRefines ==
  ASSUME Inv, NEW p \in Procs, RejectConflict(p)
  PROVE  Atomic!Refuse(p, op[p])
<1>1. Sessions' = [Sessions EXCEPT
                     ![p] = [state |-> "returning", reply |-> Error("conflict")]]
  BY FinishSession DEF RejectConflict
<1>2. Sessions[p] = [state |-> "called", op |-> op[p]]
  BY CalledSession DEF RejectConflict
<1> QED
  BY <1>1, <1>2
  DEF RejectConflict, Sessions, Error, Conflicts, Revision, Atomic!Refuse,
      Atomic!Set, Atomic!Called, Atomic!Returning, Atomic!Error,
      Atomic!Conflicts, Atomic!Revision

LEMMA GarbageRefines ==
  ASSUME Inv, NEW p \in Procs, ReadGarbage(p)
  PROVE  Atomic!Discard(p, op[p]) \/ Atomic!GiveUp(p)
<1>1. Sessions[p] = [state |-> "called", op |-> op[p]]
  BY CalledSession DEF ReadGarbage
<1>2. CASE /\ Finish(p, Error("corrupt"))
           /\ file' = Absent
           /\ disk' = disk \cup {Absent}
  <2>1. Sessions' = [Sessions EXCEPT
                       ![p] = [state |-> "returning", reply |-> Error("corrupt")]]
    BY <1>2, FinishSession DEF ReadGarbage
  <2> QED
    BY <1>1, <1>2, <2>1
    DEF ReadGarbage, Sessions, Error, Atomic!Discard, Atomic!Set, Atomic!Called,
        Atomic!Returning, Atomic!Error
<1>3. ASSUME NEW k \in {"permission", "write", "corrupt"}, Finish(p, Error(k)),
             UNCHANGED <<file, disk>>
      PROVE  Atomic!GiveUp(p)
  <2>1. Sessions' = [Sessions EXCEPT
                       ![p] = [state |-> "returning", reply |-> Error(k)]]
    BY <1>3, FinishSession DEF ReadGarbage
  <2>2. Sessions[p].state \in {"called", "committed"}
    BY <1>1
  <2> QED
    BY <1>3, <2>1, <2>2
    DEF ReadGarbage, Sessions, Error, Atomic!GiveUp, Atomic!Set,
        Atomic!Returning, Atomic!Error, Atomic!ErrorKind
<1> QED BY <1>2, <1>3 DEF ReadGarbage

\* os.replace is the instant at which a write takes effect.
LEMMA ReplaceRefines ==
  ASSUME Inv, NEW p \in Procs, Replace(p)
  PROVE  Atomic!Commit(p, op[p])
<1>1. Sessions[p] = [state |-> "called", op |-> op[p]]
  BY CalledSession DEF Replace
<1>2. SessionOf(p)' = [state |-> "committed", context |-> draft[p]]
  BY DEF Replace, SessionOf, Inv, TypeOK
<1>3. Sessions' = [Sessions EXCEPT
                     ![p] = [state |-> "committed", context |-> draft[p]]]
  BY <1>2, OneSession DEF Replace, Inv, TypeOK
<1>4. /\ file # Garbage
      /\ ~Conflicts(op[p], file)
      /\ draft[p] = Effect(op[p], file)
      /\ Writes(op[p])
  BY DEF Replace, Inv, DraftFromCurrent, OperationRuns
<1>5. Effect(op[p], file) = Atomic!Effect(op[p], file)
  BY DEF Effect, Prepare, WithTurn, WithRef, AppendNew, LastN, Range,
     EmptyContext, Revision, Atomic!Effect, Atomic!Prepare, Atomic!WithTurn,
     Atomic!WithRef, Atomic!AppendNew, Atomic!LastN, Atomic!Range,
     Atomic!EmptyContext, Atomic!Revision
<1> QED
  BY <1>1, <1>3, <1>4, <1>5
  DEF Replace, Sessions, Writes, Conflicts, Revision, Atomic!Commit, Atomic!Set,
      Atomic!Called, Atomic!Committed, Atomic!Writes, Atomic!Conflicts,
      Atomic!Revision

LEMMA SettleRefines ==
  ASSUME Inv, NEW p \in Procs, SyncDir(p)
  PROVE  Atomic!Settle(p)
<1>1. Sessions[p] = [state |-> "committed", context |-> draft[p]]
  BY DEF SyncDir, Sessions, SessionOf
<1>2. file = draft[p]
  BY DEF SyncDir, Inv, DraftFromCurrent
<1>3. Sessions' = [Sessions EXCEPT
                     ![p] = [state |-> "returning", reply |-> Ok(draft[p])]]
  BY FinishSession DEF SyncDir
<1> QED
  BY <1>1, <1>2, <1>3
  DEF SyncDir, Sessions, Ok, Atomic!Settle, Atomic!Set, Atomic!Committed,
      Atomic!Returning, Atomic!Ok

LEMMA FailRefines ==
  ASSUME Inv, NEW p \in Procs, Fail(p)
  PROVE  Atomic!GiveUp(p)
<1>1. Sessions[p].state \in {"called", "committed"}
  BY DEF Fail, Sessions, SessionOf
<1>2. PICK k \in {"permission", "write", "invalid"} : Finish(p, Error(k))
  BY DEF Fail
<1>3. Sessions' = [Sessions EXCEPT
                     ![p] = [state |-> "returning", reply |-> Error(k)]]
  BY <1>2, FinishSession DEF Fail
<1> QED
  BY <1>1, <1>2, <1>3
  DEF Fail, Sessions, Error, Atomic!GiveUp, Atomic!Set, Atomic!Returning,
      Atomic!Error, Atomic!ErrorKind

LEMMA PowerLossRefines ==
  ASSUME PowerLoss PROVE Atomic!PowerLoss
<1>1. \A p \in Procs : SessionOf(p)' = [state |-> "idle"]
  BY DEF PowerLoss, SessionOf
<1>2. [p \in Procs |-> SessionOf(p)]' = [p \in Procs |-> [state |-> "idle"]]
  BY <1>1
<1> QED BY <1>2 DEF PowerLoss, Atomic!PowerLoss, Atomic!IdleSession

LEMMA DamageRefines ==
  ASSUME Damage PROVE Atomic!Damage
<1>1. Sessions' = Sessions
  BY DEF Damage, Sessions, SessionOf
<1> QED BY <1>1 DEF Damage, Sessions, Atomic!Damage

\* Every step of the store is a step of the atomic store or a stutter.
LEMMA NextRefines == Inv /\ [Next]_vars => [Atomic!Next]_(Atomic!vars)
<1> SUFFICES ASSUME Inv, [Next]_vars
             PROVE  Atomic!Next \/ UNCHANGED Atomic!vars
  OBVIOUS
<1> USE DEF Atomic!Next
<1>1. Operation = Atomic!Operation
  BY DEF Operation, LoadOp, SaveOp, AppendOp, RefOp, DeviceField,
     Atomic!Operation, Atomic!LoadOp, Atomic!SaveOp, Atomic!AppendOp,
     Atomic!RefOp, Atomic!DeviceField
<1>2. ASSUME NEW p \in Procs, NEW o \in Operation, Begin(p, o)
      PROVE  Atomic!Next
  BY <1>1, <1>2, BeginRefines
<1>3. ASSUME NEW p \in Procs, LockFails(p) \/ Release(p) \/ Crash(p)
      PROVE  Atomic!Next
  BY <1>3, LeaveRefines
<1>4. ASSUME NEW p \in Procs, Acquire(p) \/ PrepareWrite(p) \/ WriteTemp(p)
      PROVE  UNCHANGED Atomic!vars
  BY <1>4, StutterRefines DEF Atomic!vars, Sessions
<1>5. ASSUME NEW p \in Procs, Step(p), ~Release(p), ~PrepareWrite(p), ~WriteTemp(p)
      PROVE  Atomic!Next
  <2>1. op[p] \in Atomic!Operation
    BY <1>1, <1>5 DEF Inv, OperationRuns, Step, LoadMissing, LoadContext,
       ReadGarbage, RejectConflict, Replace, SyncDir, Fail
  <2> QED
    BY <1>5, <2>1, ObserveRefines, GarbageRefines, RefuseRefines, ReplaceRefines,
       SettleRefines, FailRefines DEF Step
<1>6. CASE PowerLoss \/ Damage
  BY <1>6, PowerLossRefines, DamageRefines
<1>7. CASE UNCHANGED vars
  BY <1>7 DEF vars, Atomic!vars, SessionOf
<1> QED
  BY <1>2, <1>3, <1>4, <1>5, <1>6, <1>7 DEF Next, Step

\* The locks, temporary files and failures of the store are invisible to its
\* callers: each operation happens once, at one instant, or not at all.
THEOREM Refinement == Spec => ImplementsAtomicContext
BY InitRefines, NextRefines, Invariance, PTL
DEF Spec, ImplementsAtomicContext, Atomic!Spec

-----------------------------------------------------------------------------
(* The holder of the lock goes on *)

\* What p has still to do in its operation.
WayLeft(p) ==
  CASE pc[p] = "lock" -> 6 [] pc[p] = "read" -> 5 [] pc[p] = "write" -> 4
    [] pc[p] = "replace" -> 3 [] pc[p] = "sync" -> 2 [] pc[p] = "unlock" -> 1
    [] pc[p] = "idle" -> 0

\* The operation of p goes on or ends, and nobody else takes the lock from it.
Onward(p) ==
  /\ Step(p) => WayLeft(p)' < WayLeft(p)
  /\ pc[p] # "idle" => WayLeft(p)' <= WayLeft(p)
  /\ lock = p => \/ lock' = p
                 \/ lock' = NoProc /\ pc'[p] = "idle"

\* The steps of an operation, as they move its process and the lock.
LEMMA StepMoves ==
  ASSUME Inv, NEW p \in Procs, Step(p)
  PROVE  /\ WayLeft(p)' < WayLeft(p) /\ WayLeft(p)' <= WayLeft(p)
         /\ \/ lock' = lock
            \/ lock' = NoProc /\ pc'[p] = "idle"
<1> USE DEF WayLeft
<1>1. pc \in [Procs -> Steps]
  BY DEF Inv, TypeOK
<1>2. CASE LoadMissing(p) \/ LoadContext(p) \/ ReadGarbage(p) \/ RejectConflict(p)
  <2>1. pc[p] = "read" /\ pc'[p] = "unlock" /\ lock' = lock
    BY <1>1, <1>2 DEF LoadMissing, LoadContext, ReadGarbage, RejectConflict, Finish
  <2> QED BY <2>1
<1>3. CASE PrepareWrite(p)
  <2>1. pc[p] = "read" /\ pc'[p] = "write" /\ lock' = lock
    BY <1>1, <1>3 DEF PrepareWrite
  <2> QED BY <2>1
<1>4. CASE WriteTemp(p)
  <2>1. pc[p] = "write" /\ pc'[p] = "replace" /\ lock' = lock
    BY <1>1, <1>4 DEF WriteTemp
  <2> QED BY <2>1
<1>5. CASE Replace(p)
  <2>1. pc[p] = "replace" /\ pc'[p] = "sync" /\ lock' = lock
    BY <1>1, <1>5 DEF Replace
  <2> QED BY <2>1
<1>6. CASE SyncDir(p) \/ Fail(p)
  <2>1. /\ pc[p] \in {"read", "write", "replace", "sync"} /\ pc'[p] = "unlock"
        /\ lock' = lock
    BY <1>1, <1>6 DEF SyncDir, Fail, Finish
  <2> QED BY <2>1
<1>7. CASE Release(p)
  <2>1. pc[p] = "unlock" /\ pc'[p] = "idle" /\ lock' = NoProc
    BY <1>1, <1>7 DEF Release, Return
  <2> QED BY <2>1
<1> QED BY <1>2, <1>3, <1>4, <1>5, <1>6, <1>7 DEF Step

\* What happens elsewhere: p stays where it is.
LEMMA StepOfAnother ==
  ASSUME Inv, NEW p \in Procs, NEW q \in Procs \ {p},
         \/ (\E o \in Operation : Begin(q, o)) \/ LockFails(q) \/ Acquire(q)
         \/ Step(q) \/ Crash(q)
  PROVE  pc'[p] = pc[p] /\ (lock = p => lock' = p)
<1>1. pc \in [Procs -> Steps]
  BY DEF Inv, TypeOK
<1>2. \E at : pc' = [pc EXCEPT ![q] = at]
  BY DEF Begin, LockFails, Acquire, Step, Crash, LoadMissing, LoadContext, ReadGarbage,
     RejectConflict, PrepareWrite, WriteTemp, Replace, SyncDir, Fail, Release, Finish, Return
<1>3. pc'[p] = pc[p]
  BY <1>1, <1>2
<1>4. lock = p => p # NoProc
  BY ProcAssumption
<1>5. lock = p => pc[q] \notin {"read", "write", "replace", "sync", "unlock"}
  BY DEF Inv, LockHeldInside
<1>6. lock = p => lock' = p
  BY <1>4, <1>5
  DEF Begin, LockFails, Acquire, Step, Crash, LoadMissing, LoadContext, ReadGarbage,
      RejectConflict, PrepareWrite, WriteTemp, Replace, SyncDir, Fail, Release
<1> QED BY <1>3, <1>6

\* Every step in the critical section brings its process nearer to the release,
\* failures too; other processes, kills, power losses and damages neither set it
\* back nor take the lock (context_store.py, _locked and the operations).
THEOREM HolderComesNearer ==
  Spec => /\ [](\A p \in Procs : WayLeft(p) \in Nat /\ (lock = p => WayLeft(p) \in 1..5))
          /\ [][\A p \in Procs : Onward(p)]_vars
<1>1. Inv => \A p \in Procs : WayLeft(p) \in Nat /\ (lock = p => WayLeft(p) \in 1..5)
  <2> SUFFICES ASSUME Inv, NEW p \in Procs
               PROVE  WayLeft(p) \in Nat /\ (lock = p => WayLeft(p) \in 1..5)
    OBVIOUS
  <2>1. pc[p] \in Steps
    BY DEF Inv, TypeOK
  <2>2. lock = p => pc[p] \in {"read", "write", "replace", "sync", "unlock"}
    BY DEF Inv, LockHeldInside
  <2> QED BY <2>1, <2>2 DEF Steps, WayLeft
<1>2. Inv /\ Next => \A p \in Procs : Onward(p)
  <2> SUFFICES ASSUME Inv, Next, NEW p \in Procs PROVE Onward(p)
    OBVIOUS
  <2>1. pc \in [Procs -> Steps] /\ pc[p] \in Steps
    BY DEF Inv, TypeOK
  <2>2. Step(p) => WayLeft(p)' < WayLeft(p)
    BY StepMoves
  <2>3. CASE Step(p)
    BY <2>3, StepMoves DEF Onward
  <2>4. ASSUME NEW o \in Operation, Begin(p, o) PROVE Onward(p)
    <3>1. pc[p] = "idle" /\ lock' = lock
      BY <2>4 DEF Begin
    <3> QED BY <2>2, <3>1 DEF Onward
  <2>5. CASE LockFails(p) \/ Crash(p)
    <3>1. pc'[p] = "idle" /\ (lock' = lock \/ lock' = NoProc)
      BY <2>1, <2>5 DEF LockFails, Crash, Return
    <3> QED BY <2>1, <2>2, <3>1 DEF Onward, WayLeft, Steps
  <2>6. CASE Acquire(p)
    <3>1. pc[p] = "lock" /\ pc'[p] = "read" /\ lock' = p
      BY <2>1, <2>6 DEF Acquire
    <3> QED BY <2>2, <3>1 DEF Onward, WayLeft
  <2>7. ASSUME NEW q \in Procs \ {p},
               \/ (\E o \in Operation : Begin(q, o)) \/ LockFails(q) \/ Acquire(q)
               \/ Step(q) \/ Crash(q)
        PROVE  Onward(p)
    <3>1. pc'[p] = pc[p] /\ (lock = p => lock' = p)
      BY <2>7, StepOfAnother
    <3> QED BY <2>1, <2>2, <3>1 DEF Onward, WayLeft, Steps
  <2>8. CASE PowerLoss
    <3>1. pc'[p] = "idle" /\ lock' = NoProc
      BY <2>8 DEF PowerLoss
    <3> QED BY <2>1, <2>2, <3>1 DEF Onward, WayLeft, Steps
  <2>9. CASE Damage
    <3>1. pc' = pc /\ lock' = lock
      BY <2>9 DEF Damage
    <3> QED BY <2>1, <2>2, <3>1 DEF Onward, WayLeft, Steps
  <2> QED BY <2>3, <2>4, <2>5, <2>6, <2>7, <2>8, <2>9 DEF Next
<1> QED BY <1>1, <1>2, Invariance, PTL DEF Spec

=============================================================================
