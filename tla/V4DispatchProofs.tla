-------------------------- MODULE V4DispatchProofs --------------------------
(***************************************************************************)
(* What V4 promises of a question, for every set of requests,              *)
(* conversations and texts, for any number of server processes: type       *)
(* correctness, the agreement of reply, context, audit and history, and    *)
(* the visible quarantine.                                                 *)
(***************************************************************************)
EXTENDS V4Dispatch, SequenceTheorems, FiniteSetTheorems, WellFoundedInduction, TLAPS

-----------------------------------------------------------------------------
(* Contexts *)

\* The empty context is one.
LEMMA EmptyContextProperties ==
  EmptyContext \in Context /\ WellFormed(EmptyContext)
BY LimitsAssumption DEF EmptyContext, Context, WellFormed, IsInjective, DeviceField

\* The parts of a context.
LEMMA ContextParts ==
  ASSUME NEW c \in Context
  PROVE  /\ c.rev \in Nat
         /\ c.turns \in Seq(Turns)
         /\ c.refs \in Seq(Refs)
         /\ c.device \in DeviceField
BY DEF Context

\* Content that is neither missing nor garbage is a context.
LEMMA ContentCases ==
  ASSUME NEW c \in Content
  PROVE  /\ c \in Context \/ c = Absent \/ c = Garbage
         /\ c \in Context => c # Absent /\ c # Garbage
         /\ Absent # Garbage
         /\ Revision(c) \in Nat
         /\ c \in Context => Revision(c) = c.rev
BY ContentAssumption, ContextParts DEF Content, Revision

-----------------------------------------------------------------------------
(* Lists *)

\* A set of naturals that is not empty has a least member.
LEMMA LeastMember ==
  ASSUME NEW T \in SUBSET Nat, T # {}
  PROVE  \E x \in T : \A y \in T : x <= y
<1>1. PICK x \in T : \A y \in T : ~(<<y, x>> \in OpToRel(<, Nat))
  BY WFMin, NatLessThanWellFounded, Zenon
<1>2. \A y \in T : ~(y < x)
  BY <1>1 DEF OpToRel
<1> QED BY <1>2

\* Counting the members of a set of positions from the left meets every number
\* up to the size of the set, at a member.
LEMMA CountReaches ==
  ASSUME NEW L \in Nat, NEW S \in SUBSET (1..L), NEW n \in 1..Cardinality(S)
  PROVE  \E i \in S : Cardinality({j \in S : j <= i}) = n
<1> DEFINE upTo(i) == {j \in S : j <= i}
<1>1. \A j \in S : j \in Nat /\ 1 <= j /\ j <= L
  OBVIOUS
<1>2. \A i : IsFiniteSet(upTo(i)) /\ Cardinality(upTo(i)) \in Nat
  <2>1. IsFiniteSet(1..L)
    BY FS_Interval
  <2>2. \A i : upTo(i) \in SUBSET (1..L)
    OBVIOUS
  <2> QED BY <2>1, <2>2, FS_Subset, FS_CardinalityType
<1>3. upTo(L) = S /\ upTo(0) = {}
  <2>1. \A j \in S : ~(j <= 0)
    BY <1>1
  <2> QED BY <1>1, <2>1, Zenon
<1>4. /\ n \in Nat /\ 1 <= n
      /\ Cardinality(upTo(L)) >= n
      /\ Cardinality(upTo(0)) = 0
  BY <1>2, <1>3, FS_EmptySet
<1>5. \A i \in Nat \ {0} : \A j \in S : j <= i <=> (j <= i - 1 \/ j = i)
  BY <1>1
<1>6. \A i \in Nat \ {0} :
        /\ ~(i <= i - 1)
        /\ i \notin S => upTo(i) = upTo(i - 1)
        /\ i \in S => upTo(i) = upTo(i - 1) \cup {i}
  <2> SUFFICES ASSUME NEW i \in Nat \ {0}
               PROVE  /\ ~(i <= i - 1)
                      /\ i \notin S => upTo(i) = upTo(i - 1)
                      /\ i \in S => upTo(i) = upTo(i - 1) \cup {i}
    OBVIOUS
  <2>1. ~(i <= i - 1)
    OBVIOUS
  <2>2. \A j \in S : j <= i <=> (j <= i - 1 \/ j = i)
    BY <1>5
  <2> QED BY <2>1, <2>2, Zenon
<1>7. \A i \in Nat \ {0} : i \notin upTo(i - 1)
  BY <1>6
<1> HIDE DEF upTo
<1> DEFINE T == {i \in Nat : Cardinality(upTo(i)) >= n}
<1>8. PICK i \in T : \A k \in T : i <= k
  <2>1. T \in SUBSET Nat /\ T # {}
    BY <1>4
  <2> HIDE DEF T
  <2> QED BY <2>1, LeastMember
<1>9. i \in Nat \ {0} /\ Cardinality(upTo(i)) >= n
  BY <1>4, <1>8
<1>10. i - 1 \in Nat /\ ~(i <= i - 1)
  BY <1>9
<1>11. ~(Cardinality(upTo(i - 1)) >= n)
  BY <1>8, <1>10
<1>12. upTo(i) # upTo(i - 1)
  BY <1>9, <1>11
<1>13. i \in S /\ upTo(i) = upTo(i - 1) \cup {i} /\ i \notin upTo(i - 1)
  BY <1>6, <1>7, <1>9, <1>12
<1>14. Cardinality(upTo(i)) = Cardinality(upTo(i - 1)) + 1
  BY <1>2, <1>13, FS_AddElement
<1>15. Cardinality(upTo(i)) = n
  BY <1>2, <1>4, <1>9, <1>11, <1>14
<1> QED BY <1>13, <1>15 DEF upTo

\* The turns a migration brings are a list of turns.
LEMMA MigratedType ==
  ASSUME NEW c \in Convs, NEW f \in Found(c), history[c] \in EntryList \cup {NoConv, Garbage}
  PROVE  Migrated(c, f) \in Context
<1> DEFINE own == IF f.history THEN [i \in DOMAIN history[c] |-> history[c][i].text]
                  ELSE <<>>
           bridge == IF f.bridge THEN BridgeTexts[c] ELSE <<>>
           texts == own \o bridge
           first == {i \in DOMAIN texts : \A j \in 1..(i - 1) : texts[j] # texts[i]}
           nth(n) == CHOOSE i \in first : Cardinality({j \in first : j <= i}) = n
           turns == [n \in 1..Cardinality(first) |->
                       [text |-> texts[nth(n)], source |-> "legacy"]]
<1>0. bridge \in Seq(Texts)
  BY EmptySeq, TurnAssumption
<1>1. own \in Seq(Texts)
  <2>1. CASE ~f.history
    BY <2>1, EmptySeq
  <2>2. CASE f.history
    <3>0. Readable(c)
      BY <2>2 DEF Found
    <3>1. history[c] \in Seq([text : Texts, by : Requests \cup {Older}])
      BY <3>0 DEF Readable, EntryList
    <3>2. DOMAIN history[c] = 1..Len(history[c]) /\ Len(history[c]) \in Nat
      BY <3>1, LenProperties
    <3>3. \A i \in 1..Len(history[c]) :
            history[c][i] \in [text : Texts, by : Requests \cup {Older}]
      BY <3>1, ElementOfSeq, Zenon
    <3> QED BY <2>2, <3>2, <3>3, IsASeq
  <2> QED BY <2>1, <2>2
<1>2. texts \in Seq(Texts)
  BY <1>0, <1>1, ConcatProperties
<1> HIDE DEF texts
<1>3. first \in SUBSET (1..Len(texts)) /\ Len(texts) \in Nat
  BY <1>2, LenProperties
<1> HIDE DEF first
<1>4. \A n \in 1..Cardinality(first) : nth(n) \in first
  BY <1>3, CountReaches
<1>5. \A i \in first : texts[i] \in Texts
  BY <1>2, <1>3, ElementOfSeq
<1>6. Cardinality(first) \in Nat
  <2>1. IsFiniteSet(1..Len(texts))
    BY <1>3, FS_Interval
  <2> QED BY <1>3, <2>1, FS_Subset, FS_CardinalityType
<1> HIDE DEF nth
<1>7. turns \in Seq(Turns)
  <2>1. \A n \in 1..Cardinality(first) :
          [text |-> texts[nth(n)], source |-> "legacy"] \in Turns
    BY <1>4, <1>5, TurnAssumption
  <2> QED BY <1>6, <2>1, IsASeq
<1>8. Migrated(c, f) = [EmptyContext EXCEPT !.turns = turns]
  BY DEF Migrated, texts, first, nth
<1> QED BY <1>7, <1>8, EmptyContextProperties DEF Context

\* A bounded list holds an element, or newer ones have pushed it out.
Holds(s, e, n) == Len(s) = n \/ e \in Range(s)

LEMMA LastNHolds ==
  ASSUME NEW S, NEW s \in Seq(S), NEW n \in Nat \ {0}
  PROVE  /\ LastN(s, n) \in Seq(S)
         /\ Len(s) >= n => Len(LastN(s, n)) = n
         /\ Range(LastN(s, n)) \subseteq Range(s)
         /\ \A e : Holds(s, e, n) => Holds(LastN(s, n), e, n)
         /\ \A e \in Range(s) : Holds(LastN(s, n), e, n)
<1>1. CASE Len(s) <= n
  BY <1>1 DEF LastN, Holds
<1>2. CASE Len(s) > n
  <2> DEFINE m == Len(s) - n + 1
             u == SubSeq(s, m, Len(s))
  <2>1. Len(s) \in Nat /\ DOMAIN s = 1..Len(s) /\ \A i \in 1..Len(s) : s[i] \in S
    BY LenProperties, ElementOfSeq
  <2>2. m \in 1..Len(s) + 1 /\ \A i \in 1..n : m + i - 1 \in 1..Len(s)
    BY <1>2, <2>1
  <2>3. /\ u \in Seq(S)
        /\ Len(u) = n
        /\ \A i \in 1..n : u[i] = s[m + i - 1]
    BY <1>2, <2>1, <2>2, SubSeqProperties, Z3
  <2>4. LastN(s, n) = u
    BY <1>2, <2>1 DEF LastN
  <2>5. \A i \in 1..n : u[i] \in Range(s)
    BY <2>1, <2>2, <2>3 DEF Range
  <2> HIDE DEF u
  <2>6. DOMAIN u = 1..n
    BY <2>3, LenProperties
  <2> QED BY <2>3, <2>4, <2>5, <2>6 DEF Range, Holds
<1> QED BY <1>1, <1>2, LenProperties

LEMMA AppendHolds ==
  ASSUME NEW S, NEW s \in Seq(S), NEW e \in S, NEW n \in Nat \ {0}
  PROVE  LET u == LastN(Append(s, e), n)
         IN  /\ u \in Seq(S)
             /\ Range(u) \subseteq Range(s) \cup {e}
             /\ \A x : Holds(s, x, n) => Holds(u, x, n)
             /\ Holds(u, e, n)
<1> DEFINE a == Append(s, e)
<1>1. /\ a \in Seq(S)
      /\ Len(a) = Len(s) + 1
      /\ \A i \in 1..Len(s) : a[i] = s[i]
      /\ a[Len(s) + 1] = e
      /\ Len(s) \in Nat /\ DOMAIN s = 1..Len(s) /\ DOMAIN a = 1..Len(s) + 1
  BY AppendProperties, LenProperties
<1> HIDE DEF a
<1>2. Range(a) = Range(s) \cup {e}
  <2>1. 1..Len(s) + 1 = 1..Len(s) \cup {Len(s) + 1}
    BY <1>1
  <2> QED BY <1>1, <2>1 DEF Range
<1>3. CASE Len(s) = n
  <2>1. Len(a) >= n
    BY <1>1, <1>3
  <2>2. Len(LastN(a, n)) = n
    BY <1>1, <2>1, LastNHolds
  <2> QED BY <1>1, <1>2, <2>2, LastNHolds DEF a, Holds
<1>4. CASE Len(s) # n
  <2>1. \A x : Holds(s, x, n) => x \in Range(a)
    BY <1>2, <1>4 DEF Holds
  <2> QED BY <1>1, <1>2, <2>1, LastNHolds DEF a
<1> QED BY <1>3, <1>4

LEMMA AppendNewHolds ==
  ASSUME NEW S, NEW s \in Seq(S), NEW e \in S, NEW n \in Nat \ {0}
  PROVE  LET u == AppendNew(s, e, n)
         IN  /\ u \in Seq(S)
             /\ Range(u) \subseteq Range(s) \cup {e}
             /\ \A x : Holds(s, x, n) => Holds(u, x, n)
             /\ Holds(u, e, n)
<1>1. CASE e \in Range(s)
  BY <1>1, LastNHolds DEF AppendNew
<1>2. CASE e \notin Range(s)
  BY <1>2, AppendHolds DEF AppendNew
<1> QED BY <1>1, <1>2

-----------------------------------------------------------------------------
(* Contexts *)

\* y holds what x held.
Keeps(x, y) ==
  /\ \A t \in Turns : Holds(x.turns, t, MaxTurns) => Holds(y.turns, t, MaxTurns)
  /\ \A r \in Refs : Holds(x.refs, r, MaxRefs) => Holds(y.refs, r, MaxRefs)

\* The references in content x.
RefsOf(x) == IF x \in Context THEN Range(x.refs) ELSE {}

LEMMA BaseContext ==
  ASSUME NEW x \in Context \cup {Absent}
  PROVE  LET base == IF x = Absent THEN EmptyContext ELSE x
         IN  /\ base \in Context
             /\ x \in Context => base = x
             /\ RefsOf(x) = Range(base.refs)
             /\ Revision(x) + 1 \in Nat \ {0}
<1>1. Absent \notin Context /\ EmptyContext \in Context
  BY ContentAssumption, EmptyContextProperties
<1>2. Range(EmptyContext.refs) = {}
  BY DEF EmptyContext, Range
<1>3. Revision(x) + 1 \in Nat \ {0}
  <2>1. Revision(x) \in Nat
    BY ContentCases DEF Content
  <2> QED BY <2>1
<1>4. CASE x = Absent
  BY <1>1, <1>2, <1>3, <1>4 DEF RefsOf
<1>5. CASE x # Absent
  BY <1>1, <1>3, <1>5 DEF RefsOf
<1> QED BY <1>4, <1>5

\* What a write stores of the context m its mutator has made.
LEMMA PreparedContext ==
  ASSUME NEW m \in Context, NEW n \in Nat \ {0}
  PROVE  LET y == [Prepare(m) EXCEPT !.rev = n]
         IN  /\ y \in Context /\ y.rev # 0
             /\ Keeps(m, y)
             /\ RefsOf(y) \subseteq Range(m.refs)
<1> DEFINE ts == LastN(m.turns, MaxTurns)
           rs == LastN(m.refs, MaxRefs)
           y == [Prepare(m) EXCEPT !.rev = n]
<1>1. /\ m.turns \in Seq(Turns) /\ m.refs \in Seq(Refs) /\ m.device \in DeviceField
      /\ MaxTurns \in Nat \ {0} /\ MaxRefs \in Nat \ {0}
  BY LimitsAssumption, ContextParts
<1>2. y = [rev |-> n, turns |-> ts, refs |-> rs, device |-> m.device]
  <2> SUFFICES ASSUME NEW e, e = [Prepare(m) EXCEPT !.rev = n]
               PROVE  e = [rev |-> n, turns |-> ts, refs |-> rs, device |-> m.device]
    OBVIOUS
  <2> QED BY DEF Prepare, Context
<1>3. /\ ts \in Seq(Turns)
      /\ \A e : Holds(m.turns, e, MaxTurns) => Holds(ts, e, MaxTurns)
  BY <1>1, LastNHolds
<1>4. /\ rs \in Seq(Refs) /\ Range(rs) \subseteq Range(m.refs)
      /\ \A e : Holds(m.refs, e, MaxRefs) => Holds(rs, e, MaxRefs)
  BY <1>1, LastNHolds
<1> HIDE DEF ts, rs, y
<1>5. y.turns = ts /\ y.refs = rs /\ y.rev = n /\ y \in Context
  BY <1>1, <1>2, <1>3, <1>4 DEF Context
<1>6. Keeps(m, y) /\ RefsOf(y) \subseteq Range(m.refs)
  BY <1>3, <1>4, <1>5 DEF Keeps, RefsOf
<1> QED BY <1>5, <1>6 DEF y

\* What append_turn stores.
LEMMA AppendEffect ==
  ASSUME NEW x \in Context \cup {Absent}, NEW t \in Turns, NEW d \in DeviceField
  PROVE  LET y == Effect([kind |-> "append", turn |-> t, device |-> d], x)
         IN  /\ y \in Context /\ y.rev # 0
             /\ x \in Context => Keeps(x, y)
             /\ Holds(y.turns, t, MaxTurns)
             /\ RefsOf(y) \subseteq RefsOf(x)
<1> DEFINE o == [kind |-> "append", turn |-> t, device |-> d]
           base == IF x = Absent THEN EmptyContext ELSE x
           m == WithTurn(base, t, d)
           y == [Prepare(m) EXCEPT !.rev = Revision(x) + 1]
<1>1. Effect(o, x) = y
  BY DEF Effect
<1>2. /\ base \in Context
      /\ x \in Context => base = x
      /\ RefsOf(x) = Range(base.refs)
      /\ Revision(x) + 1 \in Nat \ {0}
  BY BaseContext
<1> HIDE DEF base
<1>3. base.turns \in Seq(Turns) /\ MaxTurns \in Nat \ {0}
  BY <1>2, LimitsAssumption, ContextParts
<1>4. /\ AppendNew(base.turns, t, MaxTurns) \in Seq(Turns)
      /\ \A e : Holds(base.turns, e, MaxTurns)
                  => Holds(AppendNew(base.turns, t, MaxTurns), e, MaxTurns)
      /\ Holds(AppendNew(base.turns, t, MaxTurns), t, MaxTurns)
  BY <1>3, AppendNewHolds
<1>5. /\ m \in Context
      /\ m.turns = AppendNew(base.turns, t, MaxTurns) /\ m.refs = base.refs
  BY <1>2, <1>4 DEF WithTurn, Context
<1> HIDE DEF m
<1>6. /\ y \in Context /\ y.rev # 0
      /\ Keeps(m, y)
      /\ RefsOf(y) \subseteq Range(m.refs)
  BY <1>2, <1>5, PreparedContext
<1> HIDE DEF y
<1>7. Keeps(base, y) /\ Holds(y.turns, t, MaxTurns)
  BY <1>4, <1>5, <1>6 DEF Keeps
<1> QED BY <1>1, <1>2, <1>5, <1>6, <1>7

\* What add_audit_ref stores.
LEMMA RefEffect ==
  ASSUME NEW x \in Context \cup {Absent}, NEW r \in Refs
  PROVE  LET y == Effect([kind |-> "ref", ref |-> r], x)
         IN  /\ y \in Context /\ y.rev # 0
             /\ x \in Context => Keeps(x, y)
             /\ Holds(y.refs, r, MaxRefs)
             /\ RefsOf(y) \subseteq RefsOf(x) \cup {r}
<1> DEFINE o == [kind |-> "ref", ref |-> r]
           base == IF x = Absent THEN EmptyContext ELSE x
           m == WithRef(base, r)
           y == [Prepare(m) EXCEPT !.rev = Revision(x) + 1]
<1>1. Effect(o, x) = y
  BY DEF Effect
<1>2. /\ base \in Context
      /\ x \in Context => base = x
      /\ RefsOf(x) = Range(base.refs)
      /\ Revision(x) + 1 \in Nat \ {0}
  BY BaseContext
<1> HIDE DEF base
<1>3. base.refs \in Seq(Refs) /\ MaxRefs \in Nat \ {0}
  BY <1>2, LimitsAssumption, ContextParts
<1>4. /\ AppendNew(base.refs, r, MaxRefs) \in Seq(Refs)
      /\ Range(AppendNew(base.refs, r, MaxRefs)) \subseteq Range(base.refs) \cup {r}
      /\ \A e : Holds(base.refs, e, MaxRefs)
                  => Holds(AppendNew(base.refs, r, MaxRefs), e, MaxRefs)
      /\ Holds(AppendNew(base.refs, r, MaxRefs), r, MaxRefs)
  BY <1>3, AppendNewHolds
<1>5. /\ m \in Context
      /\ m.refs = AppendNew(base.refs, r, MaxRefs) /\ m.turns = base.turns
  BY <1>2, <1>4 DEF WithRef, Context
<1> HIDE DEF m
<1>6. /\ y \in Context /\ y.rev # 0
      /\ Keeps(m, y)
      /\ RefsOf(y) \subseteq Range(m.refs)
  BY <1>2, <1>5, PreparedContext
<1> HIDE DEF y
<1>7. Keeps(base, y) /\ Holds(y.refs, r, MaxRefs)
  BY <1>4, <1>5, <1>6 DEF Keeps
<1> QED BY <1>1, <1>2, <1>4, <1>5, <1>6, <1>7

\* What the save of a migration stores.
LEMMA SaveEffect ==
  ASSUME NEW x \in Context \cup {Absent}, NEW turns \in Seq(Turns)
  PROVE  LET y == Effect([kind |-> "save", turns |-> turns, expected |-> 0], x)
         IN  y \in Context /\ y.rev # 0 /\ RefsOf(y) = {}
<1> DEFINE o == [kind |-> "save", turns |-> turns, expected |-> 0]
           m == [EmptyContext EXCEPT !.turns = turns]
           y == [Prepare(m) EXCEPT !.rev = Revision(x) + 1]
<1>1. Effect(o, x) = y
  BY DEF Effect
<1>2. Revision(x) + 1 \in Nat \ {0}
  BY BaseContext
<1>3. m \in Context /\ m.refs = <<>>
  BY EmptyContextProperties DEF EmptyContext, Context
<1>4. Range(<<>>) = {}
  BY DEF Range
<1> HIDE DEF m
<1> QED BY <1>1, <1>2, <1>3, <1>4, PreparedContext

-----------------------------------------------------------------------------
(* The invariant *)

Early == {"new", "snapshot", "decide", "fallback", "ensure", "older"}

Working == {"load", "migrate", "reload", "handle", "append", "audit"}

Behind == {"ref", "reply", "error"}

Fine(r) == req[r].reply \in {"ok", "need_clarification"}

Replied(r) == Fine(r) \/ req[r].reply = "error"

\* What a request has got by the label it is at.
Staged(r) ==
  /\ req[r].pc \notin {"history", "save", "older", "done"} => req[r].reply = "none"
  /\ req[r].pc \in {"history", "save"} => Replied(r) \/ req[r].reply = "legacy"
  /\ At(r, "older") => req[r].reply = "legacy"
  /\ req[r].pc \in Working \cup Behind \/ Replied(r) =>
       req[r].conv \in Convs /\ creator[req[r].conv] # NoConv
  /\ At(r, "save") => req[r].place \in Convs /\ creator[req[r].place] # NoConv
  /\ req[r].pc \in {"migrate", "handle"} => req[r].loaded \in Context

\* What the audits say by then.
AuditFits(r) ==
  /\ req[r].pc \in Early \cup Working \/ req[r].reply = "legacy" => audit[r] = "none"
  /\ req[r].pc \in {"ref", "reply"} \/ Fine(r) => audit[r] = "ok"
  /\ /\ At(r, "error") \/ req[r].reply \in {"error", "history_error"}
     /\ audit[r] = "ok"
     => r \in auditFailed
  /\ req[r].shown = "answer" => audit[r] # "none"
  /\ req[r].shown = "error" => r \in errorAudit

\* r has created nothing and recorded nothing.
NoTrace(r) ==
  \A c \in Convs :
    /\ creator[c] # r
    /\ Readable(c) => \A e \in Range(history[c]) : e.by # r
    /\ \A x \in drafts[c] : \A e \in Range(x.text) : e.by # r

Traceless(r) == req[r].pc \in Early \/ req[r].reply = "legacy" => NoTrace(r)

TurnIn(c, t) ==
  \/ c \in damaged
  \/ /\ context[c] \in Context
     /\ Holds(context[c].turns, t, MaxTurns)

RefIn(c, r) ==
  \/ c \in damaged
  \/ /\ context[c] \in Context
     /\ Holds(context[c].refs, r, MaxRefs)

\* Whoever writes conversation c next, e is in it.
DraftIn(c, e) == c \in overlapped \/ \A x \in drafts[c] : Holds(x.text, e, MaxHistory)

BookIn(c, e) ==
  /\ c \in overlapped \/ ~Readable(c) \/ Holds(history[c], e, MaxHistory)
  /\ DraftIn(c, e)

\* How far the answer of r has got into the stores.
Written(r) ==
  /\ req[r].pc \in {"audit", "ref", "reply"} \/ Fine(r) =>
       TurnIn(req[r].conv, Turn(req[r].text))
  /\ At(r, "reply") \/ Fine(r) => RefIn(req[r].conv, r)
  /\ At(r, "save") /\ Fine(r) => DraftIn(req[r].place, Entry(req[r].text, r))
  /\ At(r, "done") /\ Fine(r) => BookIn(req[r].conv, Entry(req[r].text, r))

Own(r) == Staged(r) /\ AuditFits(r) /\ Traceless(r) /\ Written(r)

Stored(c) ==
  context[c] \in Context =>
    context[c].rev # 0 /\ \A r \in RefsOf(context[c]) : audit[r] # "none"

Begun(c) == history[c] # NoConv \/ drafts[c] # {} => creator[c] # NoConv

\* A conversation without an overlap has one writer at a time, and is not torn.
Sole(c) ==
  \/ c \in overlapped
  \/ /\ history[c] # Garbage
     /\ \A p, q \in Writing(c) : p = q
     /\ \A x \in drafts[c] : x.of \in Writing(c)

Inv ==
  /\ TypeOK
  /\ \A r \in Requests : Own(r)
  /\ \A c \in Convs : Stored(c) /\ Begun(c) /\ Sole(c)

-----------------------------------------------------------------------------
(* What a step may do to the stores *)

ContextStep(c) ==
  \/ context'[c] = context[c]
  \/ context[c] = Garbage /\ context'[c] = Absent
  \/ context'[c] = Garbage /\ c \in damaged'
  \/ /\ context'[c] \in Context /\ context'[c].rev # 0
     /\ context[c] \in Context => Keeps(context[c], context'[c])
     /\ \A r \in RefsOf(context'[c]) : r \in RefsOf(context[c]) \/ audit[r] # "none"

HistoryStep(c, who) ==
  /\ c \in overlapped => c \in overlapped'
  /\ \/ creator'[c] = creator[c]
     \/ Fresh(c) /\ creator'[c] = who
  /\ \/ history'[c] \in {history[c], NoConv} \cup {x.text : x \in drafts[c]}
     \/ history'[c] = Garbage /\ c \in overlapped /\ drafts[c] # {}
     \/ history'[c] = <<>> /\ Fresh(c) /\ creator'[c] = who
  /\ \A x \in drafts'[c] \ drafts[c] :
       /\ Writing(c) = {} \/ c \in overlapped'
       /\ \E t \in Texts :
            \/ Readable(c) /\ x.text = LastN(Append(history[c], Entry(t, who)), MaxHistory)
            \/ Fresh(c) /\ creator'[c] = who /\ x.text = <<Entry(t, who)>>

Onward ==
  /\ errorAudit \subseteq errorAudit'
  /\ auditFailed \subseteq auditFailed'
  /\ damaged \subseteq damaged'
  /\ \A r \in Requests : audit[r] # "none" => audit'[r] # "none"

LEMMA TurnStays ==
  ASSUME NEW c, NEW t \in Turns, ContextStep(c), Onward, TurnIn(c, t)
  PROVE  TurnIn(c, t)'
<1>1. CASE c \in damaged
  BY <1>1 DEF Onward, TurnIn
<1>2. CASE c \notin damaged
  <2>1. context[c] \in Context /\ Holds(context[c].turns, t, MaxTurns) /\ context[c] # Garbage
    BY <1>2, ContentAssumption DEF TurnIn
  <2>2. CASE Keeps(context[c], context'[c]) /\ context'[c] \in Context
    BY <2>1, <2>2 DEF Keeps, TurnIn
  <2> QED BY <2>1, <2>2 DEF ContextStep, TurnIn
<1> QED BY <1>1, <1>2

LEMMA RefStays ==
  ASSUME NEW c, NEW r \in Requests, ContextStep(c), Onward, RefIn(c, r)
  PROVE  RefIn(c, r)'
<1>1. CASE c \in damaged
  BY <1>1 DEF Onward, RefIn
<1>2. CASE c \notin damaged
  <2>1. context[c] \in Context /\ Holds(context[c].refs, r, MaxRefs) /\ context[c] # Garbage
    BY <1>2, ContentAssumption DEF RefIn
  <2>2. CASE Keeps(context[c], context'[c]) /\ context'[c] \in Context
    BY <2>1, <2>2, TurnAssumption DEF Keeps, RefIn
  <2> QED BY <2>1, <2>2 DEF ContextStep, RefIn
<1> QED BY <1>1, <1>2

LEMMA StoredStays ==
  ASSUME NEW c, ContextStep(c), Onward, Stored(c), context[c] \in Content
  PROVE  Stored(c)'
<1> SUFFICES ASSUME context'[c] \in Context
             PROVE  context'[c].rev # 0 /\ \A r \in RefsOf(context'[c]) : audit'[r] # "none"
  BY DEF Stored
<1>1. RefsOf(context'[c]) \subseteq Requests
  <2>1. context'[c].refs \in Seq(Requests)
    BY ContextParts, TurnAssumption
  <2> QED BY <2>1, RangeOfSeq DEF RefsOf, Range
<1>2. context'[c] # Absent /\ context'[c] # Garbage
  BY ContentAssumption
<1>3. \A r \in RefsOf(context[c]) : context[c] \in Context
  BY DEF RefsOf
<1> QED BY <1>1, <1>2, <1>3 DEF ContextStep, Onward, Stored

EntryType == [text : Texts, by : Requests \cup {Older}]

LEMMA EntryFits ==
  ASSUME NEW t \in Texts, NEW who \in Requests \cup {Older}
  PROVE  Entry(t, who) \in EntryType /\ Entry(t, who).by = who
BY DEF Entry, EntryType

\* A conversation that can be read is a list of entries.
LEMMA ReadableType ==
  ASSUME NEW c \in Convs, history[c] \in EntryList \cup {NoConv, Garbage}, Readable(c)
  PROVE  history[c] \in Seq(EntryType) /\ history[c] # NoConv
BY DEF Readable, EntryList, EntryType

\* What is added to a conversation keeps what was in it.
LEMMA AddedHolds ==
  ASSUME NEW h \in Seq(EntryType), NEW t \in Texts, NEW who \in Requests \cup {Older},
         NEW u, u = LastN(Append(h, Entry(t, who)), MaxHistory)
  PROVE  /\ u \in Seq(EntryType)
         /\ \A e : Holds(h, e, MaxHistory) => Holds(u, e, MaxHistory)
         /\ Holds(u, Entry(t, who), MaxHistory)
         /\ Range(u) \subseteq Range(h) \cup {Entry(t, who)}
BY EntryFits, HistoryAssumption, AppendHolds

LEMMA BookStays ==
  ASSUME NEW c \in Convs, NEW e, NEW who \in Requests \cup {Older},
         HistoryStep(c, who), BookIn(c, e), creator[c] # NoConv,
         history[c] \in EntryList \cup {NoConv, Garbage}
  PROVE  BookIn(c, e)' /\ creator'[c] # NoConv
<1>1. ~Fresh(c) /\ creator'[c] = creator[c]
  BY DEF Fresh, HistoryStep
<1>2. CASE c \in overlapped'
  BY <1>1, <1>2 DEF BookIn, DraftIn
<1>3. CASE c \notin overlapped'
  <2>1. c \notin overlapped
    BY <1>3 DEF HistoryStep
  <2>2. \A x \in drafts[c] : Holds(x.text, e, MaxHistory)
    BY <2>1 DEF BookIn, DraftIn
  <2>3. Readable(c) => Holds(history[c], e, MaxHistory)
    BY <2>1 DEF BookIn
  <2>4. \A x \in drafts'[c] : Holds(x.text, e, MaxHistory)
    <3> SUFFICES ASSUME NEW x \in drafts'[c] PROVE Holds(x.text, e, MaxHistory)
      OBVIOUS
    <3>1. CASE x \in drafts[c]
      BY <2>2, <3>1
    <3>2. CASE x \notin drafts[c]
      <4>1. PICK t \in Texts :
              Readable(c) /\ x.text = LastN(Append(history[c], Entry(t, who)), MaxHistory)
        BY <1>1, <3>2 DEF HistoryStep
      <4> QED BY <2>3, <4>1, ReadableType, AddedHolds
    <3> QED BY <3>1, <3>2
  <2>5. \/ history'[c] \in {history[c], NoConv}
        \/ \E x \in drafts[c] : history'[c] = x.text
    BY <1>1, <2>1 DEF HistoryStep
  <2>6. Readable(c)' => history'[c] # NoConv /\ (history'[c] = history[c] => Readable(c))
    BY DEF Readable
  <2> QED BY <1>1, <2>2, <2>3, <2>4, <2>5, <2>6 DEF BookIn, DraftIn
<1> QED BY <1>2, <1>3

\* What r goes on to write stays as it is, for another writer overlaps with it.
LEMMA DraftStays ==
  ASSUME NEW c, NEW e, NEW who, HistoryStep(c, who), DraftIn(c, e), Writing(c) # {}
  PROVE  DraftIn(c, e)'
BY DEF HistoryStep, DraftIn

LEMMA NoTraceStays ==
  ASSUME NEW r \in Requests, NEW who \in (Requests \cup {Older}) \ {r},
         \A c \in Convs : HistoryStep(c, who), NoTrace(r),
         history \in [Convs -> EntryList \cup {NoConv, Garbage}]
  PROVE  NoTrace(r)'
<1> SUFFICES ASSUME NEW c \in Convs
             PROVE  /\ creator'[c] # r
                    /\ Readable(c)' => \A e \in Range(history'[c]) : e.by # r
                    /\ \A x \in drafts'[c] : \A e \in Range(x.text) : e.by # r
  BY DEF NoTrace
<1>1. /\ creator[c] # r
      /\ Readable(c) => \A e \in Range(history[c]) : e.by # r
      /\ \A x \in drafts[c] : \A e \in Range(x.text) : e.by # r
      /\ history[c] \in EntryList \cup {NoConv, Garbage}
  BY DEF NoTrace
<1>2. creator'[c] # r
  BY <1>1 DEF HistoryStep
<1>3. ASSUME Readable(c)'
      PROVE  \A e \in Range(history'[c]) : e.by # r
  <2>1. \/ history'[c] = history[c] /\ Readable(c)
        \/ \E x \in drafts[c] : history'[c] = x.text
        \/ history'[c] = <<>>
    BY <1>3 DEF HistoryStep, Readable
  <2>2. Range(<<>>) = {}
    BY DEF Range
  <2> QED BY <1>1, <2>1, <2>2
<1>4. ASSUME NEW x \in drafts'[c], x \notin drafts[c]
      PROVE  \A e \in Range(x.text) : e.by # r
  <2>1. PICK t \in Texts :
          \/ Readable(c) /\ x.text = LastN(Append(history[c], Entry(t, who)), MaxHistory)
          \/ x.text = <<Entry(t, who)>>
    BY <1>4 DEF HistoryStep
  <2>2. CASE Readable(c) /\ x.text = LastN(Append(history[c], Entry(t, who)), MaxHistory)
    <3>1. Range(x.text) \subseteq Range(history[c]) \cup {Entry(t, who)}
      BY <1>1, <2>2, ReadableType, AddedHolds
    <3> QED BY <1>1, <2>2, <3>1, EntryFits
  <2>3. CASE x.text = <<Entry(t, who)>>
    <3>1. Range(<<Entry(t, who)>>) = {Entry(t, who)}
      BY DEF Range
    <3> QED BY <2>3, <3>1, EntryFits
  <2> QED BY <2>1, <2>2, <2>3
<1> QED BY <1>1, <1>2, <1>3, <1>4

LEMMA BegunStays ==
  ASSUME NEW c \in Convs, NEW who \in Requests \cup {Older}, HistoryStep(c, who), Begun(c)
  PROVE  Begun(c)'
<1>1. CASE history'[c] # NoConv
  BY <1>1, RequestAssumption DEF HistoryStep, Begun, Fresh
<1>2. CASE drafts'[c] # {}
  BY <1>2, RequestAssumption DEF HistoryStep, Begun, Fresh, Readable
<1> QED BY <1>1, <1>2 DEF Begun

-----------------------------------------------------------------------------
(* What a step leaves to the other requests *)

Untouched(r) == req'[r] = req[r] /\ audit'[r] = audit[r]

LEMMA OthersKeep ==
  ASSUME Inv, NEW who \in Requests \cup {Older}, Onward,
         \A c \in Convs : ContextStep(c) /\ HistoryStep(c, who),
         NEW r \in Requests, r # who, Untouched(r)
  PROVE  Own(r)'
<1>1. /\ Own(r)
      /\ req[r] \in RequestType
      /\ history \in [Convs -> EntryList \cup {NoConv, Garbage}]
  BY DEF Inv, TypeOK
<1>2. ASSUME req[r].conv \in Convs, creator[req[r].conv] # NoConv
      PROVE  creator'[req[r].conv] # NoConv
  BY <1>2, RequestAssumption DEF HistoryStep, Fresh
<1>3. Staged(r)'
  <2>1. ASSUME At(r, "save")
        PROVE  req[r].place \in Convs /\ creator'[req[r].place] # NoConv
    BY <1>1, <2>1, RequestAssumption DEF Own, Staged, HistoryStep, Fresh
  <2> QED BY <1>1, <1>2, <2>1 DEF Own, Staged, Untouched, At, Fine, Replied
<1>4. AuditFits(r)'
  BY <1>1 DEF Own, AuditFits, Untouched, At, Fine, Onward
<1>5. Traceless(r)'
  BY <1>1, NoTraceStays DEF Own, Traceless, Untouched
<1>6. Written(r)'
  <2>1. Turn(req[r].text) \in Turns
    BY <1>1, TurnAssumption DEF RequestType, Turn
  <2>2. ASSUME req[r].pc \in {"audit", "ref", "reply"} \/ Fine(r)
        PROVE  /\ req[r].conv \in Convs
               /\ TurnIn(req[r].conv, Turn(req[r].text))'
    BY <1>1, <2>1, <2>2, TurnStays DEF Own, Staged, Written, Working, Behind, Untouched, At,
       Replied
  <2>3. ASSUME At(r, "reply") \/ Fine(r)
        PROVE  RefIn(req[r].conv, r)'
    BY <1>1, <2>2, <2>3, RefStays DEF Own, Written, Untouched, At
  <2>4. ASSUME At(r, "done"), Fine(r)
        PROVE  BookIn(req[r].conv, Entry(req[r].text, r))'
    <3>1. req[r].conv \in Convs /\ creator[req[r].conv] # NoConv
      BY <1>1, <2>4 DEF Own, Staged, Replied
    <3>2. BookIn(req[r].conv, Entry(req[r].text, r))
      BY <1>1, <2>4 DEF Own, Written
    <3> QED BY <1>1, <3>1, <3>2, BookStays DEF Untouched, Entry
  <2>5. ASSUME At(r, "save"), Fine(r)
        PROVE  DraftIn(req[r].place, Entry(req[r].text, r))'
    <3>1. req[r].place \in Convs /\ DraftIn(req[r].place, Entry(req[r].text, r))
      BY <1>1, <2>5 DEF Own, Staged, Written
    <3>2. Writing(req[r].place) # {}
      BY <2>5 DEF Writing
    <3> QED BY <3>1, <3>2, DraftStays DEF Untouched, Entry
  <2> QED BY <2>2, <2>3, <2>4, <2>5 DEF Written, Untouched, At, Fine
<1> QED BY <1>3, <1>4, <1>5, <1>6 DEF Own

LEMMA FilesKeep ==
  ASSUME Inv, NEW who \in Requests \cup {Older}, Onward,
         \A c \in Convs : ContextStep(c) /\ HistoryStep(c, who)
  PROVE  \A c \in Convs : Stored(c)' /\ Begun(c)'
BY StoredStays, BegunStays DEF Inv, TypeOK

\* What a step of r does to all but its own request.
Framed(r, who) ==
  /\ TypeOK'
  /\ Onward
  /\ \A c \in Convs : ContextStep(c) /\ HistoryStep(c, who) /\ Sole(c)'
  /\ \A p \in Requests \ {r} : Untouched(p)

LEMMA FrameInv ==
  ASSUME Inv, NEW r \in Requests, NEW who \in {r, Older}, Framed(r, who), Own(r)'
  PROVE  Inv'
<1>1. who \in Requests \cup {Older} /\ \A p \in Requests \ {r} : p # who
  BY RequestAssumption
<1>2. \A p \in Requests \ {r} : Own(p)'
  BY <1>1, OthersKeep DEF Framed
<1>3. \A c \in Convs : Stored(c)' /\ Begun(c)'
  BY <1>1, FilesKeep DEF Framed
<1> QED BY <1>2, <1>3 DEF Inv, Framed

\* Only the request r changes.
Moved(r) ==
  /\ req' \in [Requests -> RequestType]
  /\ \A p \in Requests \ {r} : req'[p] = req[p]

\* It does not write the history.
Aside(r) == ~At(r, "save") /\ req'[r].pc # "save"

LEMMA SoleStays ==
  ASSUME Inv, NEW r \in Requests, Moved(r), Aside(r), NEW c \in Convs,
         history'[c] \in {history[c], NoConv, <<>>}, drafts'[c] = drafts[c],
         overlapped' = overlapped
  PROVE  Sole(c)'
<1>1. Writing(c)' = Writing(c)
  BY DEF Moved, Aside, Writing, At
<1>2. history'[c] = Garbage => history[c] = Garbage
  BY HistoryAssumption, EmptySeq DEF EntryList
<1> QED BY <1>1, <1>2 DEF Inv, Sole

\* r leaves the stores alone.
LEMMA StoresStay ==
  ASSUME UNCHANGED <<stores, damaged>>
  PROVE  /\ \A c \in Convs : ContextStep(c) /\ HistoryStep(c, Older)
         /\ \A r \in Requests : NoTrace(r)' <=> NoTrace(r)
         /\ \A c, t : TurnIn(c, t)' <=> TurnIn(c, t)
         /\ \A c, r : RefIn(c, r)' <=> RefIn(c, r)
         /\ \A c, e : BookIn(c, e)' <=> BookIn(c, e)
         /\ damaged' = damaged /\ creator' = creator /\ history' = history
         /\ drafts' = drafts /\ overlapped' = overlapped
BY DEF stores, books, ContextStep, HistoryStep, NoTrace, Readable, TurnIn, RefIn, BookIn,
   DraftIn

LEMMA QuietFrame ==
  ASSUME Inv, NEW r \in Requests, Moved(r), Aside(r), UNCHANGED <<stores, audits, damaged>>
  PROVE  Framed(r, Older)
<1>1. TypeOK'
  BY DEF Inv, TypeOK, Moved, stores, books, audits
<1>2. Onward
  BY DEF Onward, audits
<1>3. \A p \in Requests \ {r} : Untouched(p)
  BY DEF Moved, Untouched, audits
<1> QED BY <1>1, <1>2, <1>3, StoresStay, SoleStays DEF Framed

\* A request that goes on by itself to a label before the dispatcher, or into
\* an internal error.
LEMMA QuietEarly ==
  ASSUME Inv, NEW r \in Requests, Moved(r), UNCHANGED <<stores, audits, damaged>>,
         req[r].pc \in Early \ {"older"}
           \/ (req[r].pc \in Working /\ req'[r].pc = "internal"),
         req'[r].pc \in {"snapshot", "decide", "fallback", "ensure", "older", "internal"},
         req'[r].reply = IF req'[r].pc = "older" THEN "legacy" ELSE "none",
         req'[r].shown \in {req[r].shown, "none"}
  PROVE  Inv'
<1>1. Own(r) /\ audit' = audit /\ errorAudit' = errorAudit
  BY DEF Inv, audits
<1>2. Staged(r)'
  BY DEF Staged, At, Fine, Replied, Working, Behind
<1>3. AuditFits(r)'
  BY <1>1 DEF Own, AuditFits, Early, Working, At, Fine
<1>4. Traceless(r)'
  BY <1>1, StoresStay DEF Own, Traceless, Early
<1>5. Written(r)'
  BY DEF Written, At, Fine
<1>6. Aside(r)
  BY DEF Aside, At, Early, Working
<1> QED BY <1>2, <1>3, <1>4, <1>5, <1>6, QuietFrame, FrameInv DEF Own

\* A request that has come to a label of the dispatcher without an audit.
LEMMA OnwardOwn ==
  ASSUME Inv, NEW r \in Requests, UNCHANGED <<creator, audits>>,
         req'[r].pc \in {"load", "migrate", "reload", "handle", "append", "error"},
         req'[r].reply = "none", req'[r].shown = req[r].shown,
         audit[r] = "none",
         req'[r].conv \in Convs, creator[req'[r].conv] # NoConv,
         req'[r].pc \in {"migrate", "handle"} => req'[r].loaded \in Context
  PROVE  Own(r)'
<1>1. Own(r) /\ audit' = audit /\ errorAudit' = errorAudit
  BY DEF Inv, audits
<1>2. Staged(r)'
  BY DEF Staged, At, Fine, Replied, Working, Behind
<1>3. AuditFits(r)'
  BY <1>1 DEF Own, AuditFits, Early, Working, At, Fine
<1>4. Traceless(r)'
  BY DEF Traceless, Early
<1>5. Written(r)'
  BY DEF Written, At, Fine
<1> QED BY <1>2, <1>3, <1>4, <1>5 DEF Own

LEMMA QuietOnward ==
  ASSUME Inv, NEW r \in Requests, Moved(r), ~At(r, "save"), UNCHANGED <<stores, audits, damaged>>,
         req'[r].pc \in {"load", "append", "error"},
         req'[r].reply = "none", req'[r].shown = req[r].shown,
         audit[r] = "none",
         req'[r].conv \in Convs, creator[req'[r].conv] # NoConv
  PROVE  Inv'
BY OnwardOwn, QuietFrame, FrameInv DEF stores, books, Aside

LEMMA OwnType ==
  ASSUME Inv, NEW r \in Requests
  PROVE  /\ Own(r)
         /\ req \in [Requests -> RequestType]
         /\ req[r] \in RequestType
BY DEF Inv, TypeOK

LEMMA NewRequestType ==
  /\ NewRequest \in RequestType
  /\ Absent \in Content /\ Garbage \in Content /\ EmptyContext \in Content
BY TurnAssumption, EmptyContextProperties
DEF NewRequest, RequestType, Content, Labels, NoAction, DeviceField

LEMMA OverType ==
  ASSUME NEW old \in RequestType,
         NEW reply \in {"ok", "need_clarification", "error", "internal_error",
                        "history_error", "legacy"},
         NEW q, q = Over(old, reply)
  PROVE  /\ q \in RequestType /\ q.pc = "done" /\ q.reply = reply
         /\ q.shown = old.shown /\ q.conv = old.conv /\ q.text = old.text
BY DEF Over, RequestType, Labels, NoAction

LEMMA Rewritten ==
  ASSUME Inv, NEW r \in Requests, NEW q \in RequestType, req' = [req EXCEPT ![r] = q]
  PROVE  Moved(r) /\ req'[r] = q
BY DEF Inv, TypeOK, Moved

-----------------------------------------------------------------------------
(* Steps that change no store and no audit *)

LEMMA ArriveStep ==
  ASSUME Inv, NEW r \in Requests, NEW c \in Convs \cup {NoConv}, NEW blank \in BOOLEAN,
         Arrive(r, c, blank)
  PROVE  Inv'
<1>1. Own(r) /\ req \in [Requests -> RequestType]
  BY OwnType
<1>2. Moved(r) /\ req'[r].pc = "snapshot" /\ req'[r].reply = "none"
      /\ req'[r].shown = req[r].shown
  <2>0. PICK old \in RequestType : old = req[r]
    BY <1>1, OwnType
  <2>1. PICK q : q = [old EXCEPT !.pc = "snapshot", !.conv = c, !.blank = blank]
    OBVIOUS
  <2>2. req' = [req EXCEPT ![r] = q]
    BY <1>1, <2>0, <2>1 DEF Arrive
  <2>3. q \in RequestType /\ q.pc = "snapshot" /\ q.reply = old.reply /\ q.shown = old.shown
    BY <2>1 DEF RequestType, Labels
  <2> QED BY <1>1, <2>0, <2>2, <2>3, Rewritten DEF Own, Staged, At, Arrive
<1> QED BY <1>2, QuietEarly DEF Arrive, Early, At

LEMMA SnapshotStep ==
  ASSUME Inv, NEW r \in Requests, Snapshot(r)
  PROVE  Inv'
<1>1. Own(r) /\ req \in [Requests -> RequestType] /\ context \in [Convs -> Content]
      /\ history \in [Convs -> EntryList \cup {NoConv, Garbage}]
  BY OwnType DEF Inv, TypeOK
<1>2. PICK seen : seen \in Content
                  /\ req' = [req EXCEPT ![r].pc = "decide", ![r].seen = seen]
  <2> DEFINE c == req[r].conv
             stored == IF c = NoConv THEN Absent ELSE context[c]
             legacy == IF c = NoConv THEN {Absent}
                       ELSE {IF HasLegacy(f) THEN Migrated(c, f) ELSE Absent : f \in Found(c)}
  <2>1. c \in Convs \cup {NoConv}
    BY <1>1 DEF RequestType
  <2>2. stored \in Content
    BY <1>1, <2>1, NewRequestType
  <2>3. legacy \subseteq Content
    BY <1>1, <2>1, NewRequestType, MigratedType DEF Content
  <2>4. PICK seen \in {Garbage} \cup (IF stored = Absent THEN legacy ELSE {stored}) :
          req' = [req EXCEPT ![r].pc = "decide", ![r].seen = seen]
    BY DEF Snapshot
  <2> QED BY <2>2, <2>3, <2>4, NewRequestType
<1>3. Moved(r) /\ req'[r].pc = "decide" /\ req'[r].reply = "none"
      /\ req'[r].shown = req[r].shown
  <2>0. PICK old \in RequestType : old = req[r]
    BY <1>1, OwnType
  <2>1. PICK q : q = [old EXCEPT !.pc = "decide", !.seen = seen]
    OBVIOUS
  <2>2. req' = [req EXCEPT ![r] = q]
    BY <1>1, <1>2, <2>0, <2>1
  <2>3. q \in RequestType /\ q.pc = "decide" /\ q.reply = old.reply /\ q.shown = old.shown
    BY <1>2, <2>1 DEF RequestType, Labels
  <2> QED BY <1>1, <2>0, <2>2, <2>3, Rewritten DEF Own, Staged, At, Snapshot
<1> QED BY <1>3, QuietEarly DEF Snapshot, Early, At

LEMMA DecideStep ==
  ASSUME Inv, NEW r \in Requests, NEW a \in Actions, NEW sure \in BOOLEAN,
         NEW needsDevice \in BOOLEAN, Decide(r, a, sure, needsDevice)
  PROVE  Inv'
<1>1. Own(r) /\ req \in [Requests -> RequestType] /\ Absent \in Content
  BY OwnType, NewRequestType
<1>2. Gate(r, a, sure, needsDevice) \in Actions
  BY ActionAssumption DEF Gate
<1>3. PICK l \in {"ensure", "fallback"}, reason \in {"none", "unsupported"} :
        req' = [req EXCEPT ![r].pc = l, ![r].action = Gate(r, a, sure, needsDevice),
                           ![r].reason = reason, ![r].seen = Absent]
  BY DEF Decide
<1>4. Moved(r) /\ req'[r].pc = l /\ req'[r].reply = "none"
      /\ req'[r].shown = req[r].shown
  <2>0. PICK old \in RequestType : old = req[r]
    BY <1>1, OwnType
  <2>1. PICK q : q = [old EXCEPT !.pc = l, !.action = Gate(r, a, sure, needsDevice),
                                    !.reason = reason, !.seen = Absent]
    OBVIOUS
  <2>2. req' = [req EXCEPT ![r] = q]
    BY <1>1, <1>3, <2>0, <2>1
  <2>3. q \in RequestType /\ q.pc = l /\ q.reply = old.reply /\ q.shown = old.shown
    BY <1>1, <1>2, <2>1 DEF RequestType, Labels
  <2> QED BY <1>1, <2>0, <2>2, <2>3, Rewritten DEF Own, Staged, At, Decide
<1> QED BY <1>4, QuietEarly DEF Decide, Early, At

LEMMA NoArbiterStep ==
  ASSUME Inv, NEW r \in Requests, NoArbiter(r)
  PROVE  Inv'
<1>1. Own(r) /\ req \in [Requests -> RequestType] /\ Absent \in Content
  BY OwnType, NewRequestType
<1>2. Moved(r) /\ req'[r].pc = "fallback" /\ req'[r].reply = "none"
      /\ req'[r].shown = req[r].shown
  <2>0. PICK old \in RequestType : old = req[r]
    BY <1>1, OwnType
  <2>1. PICK q : q = [old EXCEPT !.pc = "fallback", !.reason = "technical", !.seen = Absent]
    OBVIOUS
  <2>2. req' = [req EXCEPT ![r] = q]
    BY <1>1, <2>0, <2>1 DEF NoArbiter
  <2>3. q \in RequestType /\ q.pc = "fallback" /\ q.reply = old.reply /\ q.shown = old.shown
    BY <1>1, <2>1 DEF RequestType, Labels
  <2> QED BY <1>1, <2>0, <2>2, <2>3, Rewritten DEF Own, Staged, At, NoArbiter
<1> QED BY <1>2, QuietEarly DEF NoArbiter, Early, At

\* A step to another label and nothing else.
LEMMA GoToMoves ==
  ASSUME Inv, NEW r \in Requests, NEW l \in Labels, GoTo(r, l)
  PROVE  /\ Moved(r) /\ req'[r].pc = l
         /\ req'[r].reply = req[r].reply /\ req'[r].shown = req[r].shown
         /\ req'[r].conv = req[r].conv /\ req'[r].text = req[r].text
         /\ req'[r].loaded = req[r].loaded
<1>1. req \in [Requests -> RequestType]
  BY OwnType
<1> QED BY <1>1 DEF GoTo, Moved, RequestType

LEMMA RaiseStep ==
  ASSUME Inv, NEW r \in Requests, Raise(r)
  PROVE  Inv'
<1>1. Own(r) /\ "internal" \in Labels
  BY OwnType DEF Labels
<1>2. Moved(r) /\ req'[r].pc = "internal" /\ req'[r].reply = "none"
      /\ req'[r].shown = req[r].shown
  BY <1>1, GoToMoves DEF Raise, Own, Staged
<1> QED BY <1>2, QuietEarly DEF Raise, Early, Working

LEMMA RefuseBlankStep ==
  ASSUME Inv, NEW r \in Requests, RefuseBlank(r)
  PROVE  Inv'
<1>1. Own(r) /\ "internal" \in Labels
  BY OwnType DEF Labels
<1>2. Moved(r) /\ req'[r].pc = "internal" /\ req'[r].reply = "none"
      /\ req'[r].shown = req[r].shown
  BY <1>1, GoToMoves DEF RefuseBlank, Own, Staged, At
<1> QED BY <1>2, QuietEarly DEF RefuseBlank, At, Working

LEMMA KeepConversationStep ==
  ASSUME Inv, NEW r \in Requests, KeepConversation(r)
  PROVE  Inv'
<1>1. Own(r) /\ "load" \in Labels
  BY OwnType DEF Labels
<1>2. Moved(r) /\ req'[r].pc = "load" /\ req'[r].reply = "none"
      /\ req'[r].shown = req[r].shown /\ req'[r].conv = req[r].conv
  BY <1>1, GoToMoves DEF KeepConversation, Own, Staged, At
<1>3. req[r].conv \in Convs /\ creator[req[r].conv] # NoConv
  BY DEF KeepConversation, Readable, Inv, Begun
<1>4. audit[r] = "none"
  BY <1>1 DEF KeepConversation, Own, AuditFits, Early, At
<1> QED BY <1>2, <1>3, <1>4, QuietOnward DEF KeepConversation, At

\* What FallBack makes of the request.
LEMMA FallBackMoves ==
  ASSUME Inv, NEW r \in Requests,
         NEW reason \in {"none", "unsupported", "technical", "conversation_id_factory_failed"},
         FallBack(r, reason)
  PROVE  /\ Moved(r) /\ req'[r].pc = "older" /\ req'[r].reply = "legacy"
         /\ req'[r].shown = req[r].shown
<1>1. req \in [Requests -> RequestType]
  BY OwnType
<1>2. PICK q : q = [Over(req[r], "legacy") EXCEPT !.pc = "older", !.reason = reason]
  OBVIOUS
<1>3. req' = [req EXCEPT ![r] = q]
  BY <1>2 DEF FallBack
<1>4. q \in RequestType /\ q.pc = "older" /\ q.reply = "legacy" /\ q.shown = req[r].shown
  <2>1. PICK old \in RequestType : old = req[r]
    BY <1>1
  <2>2. PICK o \in RequestType :
          o = Over(old, "legacy") /\ o.reply = "legacy" /\ o.shown = old.shown
    BY OverType
  <2>3. PICK k : k = [o EXCEPT !.pc = "older", !.reason = reason]
    OBVIOUS
  <2>4. k \in RequestType /\ k.pc = "older" /\ k.reply = o.reply /\ k.shown = o.shown
    <3>1. "older" \in Labels
      BY DEF Labels
    <3> QED BY <2>3, <3>1 DEF RequestType
  <2>5. q = k
    BY <1>2, <2>1, <2>2, <2>3
  <2> QED BY <2>1, <2>2, <2>4, <2>5
<1> QED BY <1>3, <1>4, Rewritten

LEMMA NoConversationStep ==
  ASSUME Inv, NEW r \in Requests, NoConversation(r)
  PROVE  Inv'
<1>1. Moved(r) /\ req'[r].pc = "older" /\ req'[r].reply = "legacy"
      /\ req'[r].shown = req[r].shown
  BY FallBackMoves DEF NoConversation
<1> QED BY <1>1, QuietEarly DEF NoConversation, Early, At

LEMMA OutcomeType ==
  ASSUME NEW a, NEW o \in Outcomes(a)
  PROVE  o.text \in Texts /\ o.device \in DeviceField
BY TurnAssumption
DEF Outcomes, Clarifies, Generates, Resolves, Success, Failure, Said, DeviceField

LEMMA HandleStep ==
  ASSUME Inv, NEW r \in Requests, NEW o \in Outcomes(req[r].action),
         Handle(r, o) \/ HandlerFails(r, o)
  PROVE  Inv'
<1>1. Own(r) /\ req \in [Requests -> RequestType] /\ Absent \in Content
      /\ At(r, "handle") /\ o.text \in Texts /\ o.device \in DeviceField
  BY OwnType, NewRequestType, OutcomeType DEF Handle, HandlerFails
<1>2. /\ req[r].loaded.device \in DeviceField /\ req[r].reply = "none"
      /\ req[r].conv \in Convs /\ creator[req[r].conv] # NoConv
      /\ audit[r] = "none"
  BY <1>1, ContextParts DEF Own, Staged, AuditFits, Working, At
<1>3. /\ Moved(r) /\ req'[r].pc \in {"append", "error"} /\ req'[r].reply = "none"
      /\ req'[r].shown = req[r].shown /\ req'[r].conv = req[r].conv
  <2>1. CASE Handle(r, o)
    <3> DEFINE d == IF o.device = NoDevice THEN req[r].loaded.device ELSE o.device
    <3>1. d \in DeviceField
      BY <1>1, <1>2
    <3>2. req' = [req EXCEPT ![r].pc = "append", ![r].text = o.text, ![r].device = d,
                             ![r].loaded = Absent, ![r].blank = FALSE]
      BY <2>1 DEF Handle
    <3> HIDE DEF d
    <3>0. PICK old \in RequestType : old = req[r]
      BY <1>1, OwnType
    <3>3. PICK q : q = [old EXCEPT !.pc = "append", !.text = o.text, !.device = d,
                                      !.loaded = Absent, !.blank = FALSE]
      OBVIOUS
    <3>4. req' = [req EXCEPT ![r] = q]
      BY <1>1, <3>0, <3>2, <3>3
    <3>5. q \in RequestType /\ q.pc = "append" /\ q.reply = old.reply
          /\ q.shown = old.shown /\ q.conv = old.conv
      BY <1>1, <3>1, <3>3 DEF RequestType, Labels
    <3> QED BY <1>2, <3>0, <3>4, <3>5, Rewritten
  <2>2. CASE HandlerFails(r, o)
    <3>0. PICK old \in RequestType : old = req[r]
      BY <1>1, OwnType
    <3>1. PICK q : q = [old EXCEPT !.pc = "error", !.loaded = Absent]
      OBVIOUS
    <3>2. req' = [req EXCEPT ![r] = q]
      BY <1>1, <2>2, <3>0, <3>1 DEF HandlerFails
    <3>3. q \in RequestType /\ q.pc = "error" /\ q.reply = old.reply
          /\ q.shown = old.shown /\ q.conv = old.conv
      BY <1>1, <3>1 DEF RequestType, Labels
    <3> QED BY <1>2, <3>0, <3>2, <3>3, Rewritten
  <2> QED BY <2>1, <2>2
<1> QED BY <1>1, <1>2, <1>3, QuietOnward DEF Handle, HandlerFails, At

-----------------------------------------------------------------------------
(* Steps that write an audit and no store *)

\* What a step may do to the audits of r.
AuditStep(r) ==
  /\ audit' \in [Requests -> {"none", "ok", "error"}]
  /\ \A p \in Requests \ {r} : audit'[p] = audit[p]
  /\ audit[r] # "none" => audit'[r] # "none"
  /\ errorAudit' \in {errorAudit, errorAudit \cup {r}}
  /\ auditFailed' \in {auditFailed, auditFailed \cup {r}}

LEMMA AuditTypes ==
  ASSUME Inv
  PROVE  /\ audit \in [Requests -> {"none", "ok", "error"}]
         /\ errorAudit \subseteq Requests /\ auditFailed \subseteq Requests
BY DEF Inv, TypeOK

LEMMA AuditFrame ==
  ASSUME Inv, NEW r \in Requests, Moved(r), Aside(r), UNCHANGED <<stores, damaged>>,
         AuditStep(r)
  PROVE  Framed(r, Older)
<1>1. TypeOK'
  BY AuditTypes DEF Inv, TypeOK, Moved, stores, books, AuditStep
<1>2. Onward
  BY StoresStay DEF Onward, AuditStep
<1>3. \A p \in Requests \ {r} : Untouched(p)
  BY DEF Moved, Untouched, AuditStep
<1> QED BY <1>1, <1>2, <1>3, StoresStay, SoleStays DEF Framed

\* The audits beside the one of the answer.
LEMMA ErrorAuditStep ==
  ASSUME Inv, NEW r \in Requests, NEW id \in {"none", "error"}, ErrorAudit(r, id)
  PROVE  /\ AuditStep(r) /\ audit' = audit /\ auditFailed' = auditFailed
         /\ errorAudit \subseteq errorAudit'
         /\ id = "error" => r \in errorAudit'
BY AuditTypes DEF ErrorAudit, AuditStep

LEMMA AuditWriteStep ==
  ASSUME Inv, NEW r \in Requests, NEW status \in {"ok", "error"}, NEW ok \in BOOLEAN,
         AuditWrite(r, status, ok), errorAudit' = errorAudit
  PROVE  /\ AuditStep(r)
         /\ audit'[r] \in {audit[r], status}
         /\ IF ok THEN audit'[r] = status ELSE r \in auditFailed'
         /\ r \in auditFailed => r \in auditFailed'
BY AuditTypes DEF AuditWrite, Audited, AuditStep

\* An amended audit shows the error, or a write has failed.
LEMMA AmendStep ==
  ASSUME Inv, NEW r \in Requests, AmendAudit(r), errorAudit' = errorAudit
  PROVE  /\ AuditStep(r)
         /\ audit'[r] = "ok" => r \in auditFailed'
<1>1. PICK ok \in BOOLEAN : AuditWrite(r, "error", ok)
  BY DEF AmendAudit
<1> QED BY <1>1, AuditWriteStep

LEMMA StageFallbackStep ==
  ASSUME Inv, NEW r \in Requests, StageFallback(r)
  PROVE  Inv'
<1>1. req[r] \in RequestType
  BY OwnType
<1>2. Moved(r) /\ req'[r].pc = "older" /\ req'[r].reply = "legacy"
      /\ req'[r].shown = req[r].shown
  BY <1>1, FallBackMoves DEF StageFallback, RequestType
<1> QED BY <1>2, QuietEarly DEF StageFallback, Early, At

LEMMA InternalErrorStep ==
  ASSUME Inv, NEW r \in Requests, InternalError(r)
  PROVE  Inv'
<1>1. Own(r) /\ At(r, "internal")
  BY OwnType DEF InternalError
<1>2. PICK id \in {"none", "error"} :
        /\ ErrorAudit(r, id)
        /\ req' = [req EXCEPT ![r] = [Over(req[r], "internal_error") EXCEPT !.shown = id]]
  BY DEF InternalError
<1>3. AuditStep(r) /\ audit' = audit /\ (id = "error" => r \in errorAudit')
  BY <1>2, ErrorAuditStep
<1>4. Moved(r) /\ req'[r].pc = "done" /\ req'[r].reply = "internal_error"
      /\ req'[r].shown = id
  <2>1. PICK old \in RequestType : old = req[r]
    BY OwnType
  <2>2. PICK o \in RequestType :
          o = Over(old, "internal_error") /\ o.pc = "done" /\ o.reply = "internal_error"
    BY OverType
  <2>3. PICK q : q = [o EXCEPT !.shown = id]
    OBVIOUS
  <2>4. q \in RequestType /\ q.pc = o.pc /\ q.reply = o.reply /\ q.shown = id
    BY <2>3 DEF RequestType
  <2>5. req' = [req EXCEPT ![r] = q]
    BY <1>2, <2>1, <2>2, <2>3
  <2> QED BY <2>2, <2>4, <2>5, Rewritten
<1>5. Staged(r)'
  BY <1>4 DEF Staged, At, Fine, Replied, Working, Behind
<1>6. AuditFits(r)'
  BY <1>1, <1>3, <1>4 DEF AuditFits, Early, Working, At, Fine
<1>7. Traceless(r)' /\ Written(r)'
  BY <1>4 DEF Traceless, Early, Written, At, Fine
<1> QED BY <1>3, <1>4, <1>5, <1>6, <1>7, AuditFrame, FrameInv DEF Aside, At, InternalError, Own

LEMMA WriteAuditStep ==
  ASSUME Inv, NEW r \in Requests, WriteAudit(r)
  PROVE  Inv'
<1>1. Own(r) /\ At(r, "audit")
  BY OwnType DEF WriteAudit
<1>2. PICK ok \in BOOLEAN :
        AuditWrite(r, "ok", ok) /\ GoTo(r, IF ok THEN "ref" ELSE "error")
  BY DEF WriteAudit
<1>3. AuditStep(r) /\ (IF ok THEN audit'[r] = "ok" ELSE r \in auditFailed')
      /\ errorAudit' = errorAudit
  BY <1>2, AuditWriteStep DEF WriteAudit
<1>4. /\ Moved(r) /\ req'[r].pc = (IF ok THEN "ref" ELSE "error")
      /\ req'[r].reply = "none" /\ req'[r].shown = req[r].shown
      /\ req'[r].conv = req[r].conv /\ req'[r].text = req[r].text
  BY <1>1, <1>2, GoToMoves DEF Labels, Own, Staged, At
<1>5. Staged(r)'
  BY <1>1, <1>4, StoresStay DEF WriteAudit, Own, Staged, At, Fine, Replied, Working, Behind
<1>6. AuditFits(r)'
  BY <1>1, <1>3, <1>4 DEF Own, AuditFits, AuditStep, Early, Working, At, Fine
<1>7. Traceless(r)'
  BY <1>4 DEF Traceless, Early
<1>8. Written(r)'
  BY <1>1, <1>4, StoresStay DEF WriteAudit, Own, Written, At, Fine, Turn
<1> QED BY <1>3, <1>4, <1>5, <1>6, <1>7, <1>8, AuditFrame, FrameInv DEF Aside, At, WriteAudit, Own

\* The status shown for an answer.
LEMMA StatusType == \A a : Status(a) \in {"ok", "need_clarification"}
BY DEF Status

LEMMA BuildResponseStep ==
  ASSUME Inv, NEW r \in Requests, BuildResponse(r)
  PROVE  Inv'
<1>1. Own(r) /\ At(r, "reply")
  BY OwnType DEF BuildResponse
<1>2. req[r].reply = "none"
  BY <1>1 DEF Own, Staged, At
<1>3. CASE GoTo(r, "error") /\ AmendAudit(r) /\ UNCHANGED errorAudit
  <2>1. AuditStep(r) /\ (audit'[r] = "ok" => r \in auditFailed') /\ errorAudit' = errorAudit
    BY <1>3, AmendStep
  <2>2. /\ Moved(r) /\ req'[r].pc = "error"
        /\ req'[r].reply = "none" /\ req'[r].shown = req[r].shown
        /\ req'[r].conv = req[r].conv
    BY <1>2, <1>3, GoToMoves DEF Labels
  <2>3. Staged(r)'
    BY <1>1, <2>2, StoresStay DEF BuildResponse, Own, Staged, At, Fine, Replied, Working, Behind
  <2>4. AuditFits(r)'
    BY <1>1, <2>1, <2>2 DEF Own, AuditFits, AuditStep, Early, Working, At, Fine
  <2>5. Traceless(r)' /\ Written(r)'
    BY <2>2 DEF Traceless, Early, Written, At, Fine
  <2> QED BY <2>1, <2>2, <2>3, <2>4, <2>5, AuditFrame, FrameInv DEF Aside, At, BuildResponse, Own
<1>4. CASE /\ req' = [req EXCEPT ![r].pc = "history", ![r].shown = "answer",
                                 ![r].reply = Status(req[r].action)]
           /\ UNCHANGED audits
  <2>1. AuditStep(r) /\ audit' = audit /\ auditFailed' = auditFailed
        /\ errorAudit' = errorAudit
    BY <1>4, AuditTypes DEF audits, AuditStep
  <2>2. /\ Moved(r) /\ req'[r].pc = "history" /\ req'[r].reply \in {"ok", "need_clarification"}
        /\ req'[r].shown = "answer"
        /\ req'[r].conv = req[r].conv /\ req'[r].text = req[r].text
    <3>1. PICK old \in RequestType : old = req[r]
      BY OwnType
    <3>2. PICK status \in {"ok", "need_clarification"} : status = Status(req[r].action)
      BY StatusType
    <3>3. PICK q : q = [old EXCEPT !.pc = "history", !.shown = "answer", !.reply = status]
      OBVIOUS
    <3>4. req' = [req EXCEPT ![r] = q]
      BY <1>4, <3>1, <3>2, <3>3, OwnType
    <3>5. q \in RequestType /\ q.pc = "history" /\ q.reply = status /\ q.shown = "answer"
          /\ q.conv = old.conv /\ q.text = old.text
      BY <3>3 DEF RequestType, Labels
    <3> QED BY <3>1, <3>4, <3>5, Rewritten
  <2>3. Staged(r)'
    BY <1>1, <2>2, StoresStay DEF BuildResponse, Own, Staged, At, Fine, Replied, Working, Behind
  <2>4. AuditFits(r)'
    BY <1>1, <2>1, <2>2 DEF Own, AuditFits, AuditStep, Early, Working, At, Fine
  <2>5. Traceless(r)'
    BY <2>2 DEF Traceless, Early
  <2>6. Written(r)'
    BY <1>1, <2>2, StoresStay DEF BuildResponse, Own, Written, At, Fine, Turn
  <2> QED BY <2>1, <2>2, <2>3, <2>4, <2>5, <2>6, AuditFrame, FrameInv DEF Aside, At, BuildResponse, Own
<1> QED BY <1>3, <1>4 DEF BuildResponse

LEMMA ErrorEntryStep ==
  ASSUME Inv, NEW r \in Requests, ErrorEntry(r)
  PROVE  Inv'
<1>1. Own(r) /\ At(r, "error")
  BY OwnType DEF ErrorEntry
<1>2. PICK id \in {"none", "error"} :
        ErrorAudit(r, id) /\ req' = [req EXCEPT ![r] = ErrorResponse(req[r], id)]
  BY DEF ErrorEntry
<1>3. AuditStep(r) /\ audit' = audit /\ auditFailed' = auditFailed
      /\ (id = "error" => r \in errorAudit')
  BY <1>2, ErrorAuditStep
<1>4. /\ Moved(r) /\ req'[r].pc = "history" /\ req'[r].reply = "error"
      /\ req'[r].shown = id /\ req'[r].conv = req[r].conv
  <2>1. PICK old \in RequestType : old = req[r]
    BY OwnType
  <2>2. PICK q : q = ErrorResponse(old, id)
    OBVIOUS
  <2>3. q \in RequestType /\ q.pc = "history" /\ q.reply = "error" /\ q.shown = id
        /\ q.conv = old.conv
    BY <2>2, TurnAssumption DEF ErrorResponse, RequestType, Labels
  <2> QED BY <1>2, <2>1, <2>2, <2>3, Rewritten
<1>5. Staged(r)'
  BY <1>1, <1>4, StoresStay DEF ErrorEntry, Own, Staged, At, Fine, Replied, Working, Behind
<1>6. AuditFits(r)'
  BY <1>1, <1>3, <1>4 DEF Own, AuditFits, Early, Working, At, Fine
<1>7. Traceless(r)' /\ Written(r)'
  BY <1>4 DEF Traceless, Early, Written, At, Fine
<1> QED BY <1>3, <1>4, <1>5, <1>6, <1>7, AuditFrame, FrameInv DEF Aside, At, ErrorEntry, Own

\* What Answer makes of the request.
LEMMA AnswerMoves ==
  ASSUME Inv, NEW r \in Requests,
         NEW reply \in {"ok", "need_clarification", "error", "history_error", "legacy"},
         Answer(r, reply)
  PROVE  /\ Moved(r) /\ req'[r].pc = "done" /\ req'[r].reply = reply
         /\ req'[r].shown = req[r].shown
         /\ req'[r].conv = req[r].conv /\ req'[r].text = req[r].text
<1>1. PICK old \in RequestType : old = req[r]
  BY OwnType
<1>2. PICK q \in RequestType :
        /\ q = Over(old, reply) /\ q.pc = "done" /\ q.reply = reply
        /\ q.shown = old.shown /\ q.conv = old.conv /\ q.text = old.text
  BY OverType
<1>3. req' = [req EXCEPT ![r] = q]
  BY <1>1, <1>2 DEF Answer
<1> QED BY <1>1, <1>2, <1>3, Rewritten

\* No audit is written.
LEMMA AuditsStay ==
  ASSUME Inv, NEW r \in Requests, UNCHANGED audits
  PROVE  AuditStep(r) /\ audit' = audit /\ errorAudit' = errorAudit
         /\ auditFailed' = auditFailed
BY AuditTypes DEF audits, AuditStep

\* The audit of an answer that could not be recorded.
LEMMA MarkAuditStep ==
  ASSUME Inv, NEW r \in Requests, MarkAudit(r)
  PROVE  AuditStep(r) /\ (audit'[r] = "ok" => r \in auditFailed')
         /\ errorAudit \subseteq errorAudit'
<1>1. Own(r)
  BY OwnType
<1>2. CASE req[r].reply = "error"
  <2>1. AuditStep(r) /\ audit' = audit /\ auditFailed' = auditFailed
        /\ errorAudit \subseteq errorAudit'
    BY <1>2, ErrorAuditStep DEF MarkAudit
  <2> QED BY <1>1, <1>2, <2>1 DEF Own, AuditFits, AuditStep
<1>3. CASE req[r].reply # "error"
  BY <1>3, AmendStep DEF MarkAudit
<1> QED BY <1>2, <1>3

\* A request whose answer is not in the history.
LEMMA UnrecordedOwn ==
  ASSUME Inv, NEW r \in Requests, Unrecorded(r), NoTrace(r) => NoTrace(r)'
  PROVE  Moved(r) /\ AuditStep(r) /\ Own(r)' /\ req'[r].pc = "done"
<1>1. Own(r)
  BY OwnType
<1>2. CASE req[r].reply = "legacy"
  <2>1. AuditStep(r) /\ audit' = audit /\ errorAudit' = errorAudit
        /\ auditFailed' = auditFailed
    BY <1>2, AuditsStay DEF Unrecorded
  <2>2. Moved(r) /\ req'[r].pc = "done" /\ req'[r].reply = "legacy"
        /\ req'[r].shown = req[r].shown
    BY <1>2, AnswerMoves DEF Unrecorded
  <2>3. Staged(r)' /\ Written(r)'
    BY <2>2 DEF Staged, Written, Replied, At, Fine, Working, Behind
  <2>4. Traceless(r)'
    BY <1>1, <1>2 DEF Own, Traceless
  <2>5. AuditFits(r)'
    BY <1>1, <1>2, <2>1, <2>2 DEF Own, AuditFits, AuditStep, Early, Working, At, Fine
  <2> QED BY <2>1, <2>2, <2>3, <2>4, <2>5 DEF Own
<1>3. CASE req[r].reply # "legacy"
  <2>1. AuditStep(r) /\ (audit'[r] = "ok" => r \in auditFailed')
        /\ errorAudit \subseteq errorAudit'
    BY <1>3, MarkAuditStep DEF Unrecorded
  <2>2. Moved(r) /\ req'[r].pc = "done" /\ req'[r].reply = "history_error"
        /\ req'[r].shown = req[r].shown
    BY <1>3, AnswerMoves DEF Unrecorded
  <2>3. Staged(r)' /\ Traceless(r)' /\ Written(r)'
    BY <2>2 DEF Staged, Traceless, Early, Written, Replied, At, Fine, Working, Behind
  <2>4. AuditFits(r)'
    BY <1>1, <2>1, <2>2 DEF Own, AuditFits, AuditStep, Early, Working, At, Fine
  <2> QED BY <2>1, <2>2, <2>3, <2>4 DEF Own
<1> QED BY <1>2, <1>3

LEMMA RecordFailsStep ==
  ASSUME Inv, NEW r \in Requests, RecordFails(r)
  PROVE  Inv'
<1>1. Moved(r) /\ AuditStep(r) /\ Own(r)' /\ req'[r].pc = "done"
  BY StoresStay, UnrecordedOwn DEF RecordFails
<1> QED BY <1>1, AuditFrame, FrameInv DEF Aside, At, RecordFails

-----------------------------------------------------------------------------
(* Steps that write the history *)

BookTypes ==
  /\ history \in [Convs -> EntryList \cup {NoConv, Garbage}]
  /\ drafts \in [Convs -> SUBSET [of : Requests, text : EntryList]]
  /\ creator \in [Convs -> Requests \cup {Older, NoConv}]
  /\ overlapped \subseteq Convs

LEMMA BooksHave == Inv => BookTypes
BY DEF Inv, TypeOK, BookTypes

\* Of the stores, a step of who changes the histories.
LEMMA HistoryFrame ==
  ASSUME Inv, NEW r \in Requests, NEW who \in {r, Older},
         Moved(r), AuditStep(r), UNCHANGED <<context, damaged>>, BookTypes',
         \A c \in Convs : HistoryStep(c, who) /\ Sole(c)'
  PROVE  Framed(r, who)
<1>1. TypeOK'
  BY AuditTypes DEF Inv, TypeOK, Moved, AuditStep, BookTypes
<1>2. Onward
  BY DEF Onward, AuditStep
<1>3. \A d \in Convs : ContextStep(d)
  BY DEF ContextStep
<1>4. \A p \in Requests \ {r} : Untouched(p)
  BY DEF Moved, Untouched, AuditStep
<1> QED BY <1>1, <1>2, <1>3, <1>4 DEF Framed

LEMMA EntryLists ==
  ASSUME NEW t \in Texts, NEW who \in Requests \cup {Older}
  PROVE  /\ <<>> \in EntryList
         /\ LET u == <<Entry(t, who)>>
            IN  u \in EntryList /\ Holds(u, Entry(t, who), MaxHistory)
         /\ \A h \in EntryList :
              LET u == LastN(Append(h, Entry(t, who)), MaxHistory)
              IN  u \in EntryList /\ Holds(u, Entry(t, who), MaxHistory)
<1>1. EntryList = Seq(EntryType) /\ Entry(t, who) \in EntryType
  BY EntryFits DEF EntryList, EntryType
<1>2. Entry(t, who) \in Range(<<Entry(t, who)>>)
  BY DEF Range
<1>3. <<Entry(t, who)>> \in EntryList
  BY <1>1
<1> QED BY <1>1, <1>2, <1>3, EmptySeq, AppendHolds, HistoryAssumption DEF Holds

LEMMA NewConversationStep ==
  ASSUME Inv, NEW r \in Requests, NEW c \in Convs, NewConversation(r, c)
  PROVE  Inv'
<1>1. Own(r) /\ At(r, "ensure") /\ BookTypes /\ Fresh(c)
  BY OwnType, BooksHave DEF NewConversation
<1>2. req[r].reply = "none" /\ audit[r] = "none"
  BY <1>1 DEF Own, Staged, AuditFits, Early, At
<1>3. AuditStep(r) /\ audit' = audit /\ errorAudit' = errorAudit
      /\ auditFailed' = auditFailed
  BY AuditsStay DEF NewConversation
<1>4. Moved(r) /\ req'[r].pc = "load" /\ req'[r].reply = "none"
      /\ req'[r].shown = req[r].shown /\ req'[r].conv = c
  <2>1. PICK old \in RequestType : old = req[r]
    BY OwnType
  <2>2. PICK q : q = [old EXCEPT !.pc = "load", !.conv = c]
    OBVIOUS
  <2>3. req' = [req EXCEPT ![r] = q]
    BY <2>1, <2>2, OwnType DEF NewConversation
  <2>4. q \in RequestType /\ q.pc = "load" /\ q.reply = old.reply /\ q.shown = old.shown
        /\ q.conv = c
    BY <2>2 DEF RequestType, Labels
  <2> QED BY <1>2, <2>1, <2>3, <2>4, Rewritten
<1>5. /\ drafts' = drafts /\ overlapped' = overlapped
      /\ history' = [history EXCEPT ![c] = <<>>]
      /\ creator' = [creator EXCEPT ![c] = r]
  BY DEF NewConversation
<1>6. \A d \in Convs : HistoryStep(d, r)
  BY <1>1, <1>5 DEF BookTypes, HistoryStep
<1>7. \A d \in Convs : Sole(d)'
  <2>1. \A d \in Convs : history'[d] \in {history[d], <<>>}
    BY <1>1, <1>5 DEF BookTypes
  <2>2. Aside(r)
    BY <1>1, <1>4 DEF Aside, At
  <2> QED BY <1>4, <1>5, <2>1, <2>2, SoleStays
<1>8. BookTypes'
  <2>1. <<>> \in EntryList
    BY TurnAssumption, EntryLists
  <2> QED BY <1>1, <1>5, <2>1 DEF BookTypes
<1>9. Framed(r, r)
  BY <1>3, <1>4, <1>6, <1>7, <1>8, HistoryFrame DEF NewConversation
<1>10. creator'[c] # NoConv
  BY <1>1, <1>5, RequestAssumption DEF BookTypes
<1>11. Staged(r)'
  BY <1>4, <1>10 DEF Staged, At, Fine, Replied, Working, Behind
<1>12. AuditFits(r)'
  BY <1>1, <1>2, <1>3, <1>4 DEF Own, AuditFits, Early, Working, At, Fine
<1>13. Traceless(r)' /\ Written(r)'
  BY <1>4 DEF Traceless, Early, Written, At, Fine
<1> QED BY <1>9, <1>11, <1>12, <1>13, FrameInv DEF Own

LEMMA OlderAnswerStep ==
  ASSUME Inv, NEW r \in Requests, NEW t \in Texts, OlderAnswer(r, t)
  PROVE  Inv'
<1>1. Own(r) /\ At(r, "older") /\ req[r].reply = "legacy" /\ audit' = audit
      /\ errorAudit' = errorAudit /\ auditFailed' = auditFailed
  BY OwnType, AuditsStay DEF OlderAnswer, Own, Staged
<1>2. Moved(r) /\ req'[r].pc = "history" /\ req'[r].reply = "legacy"
      /\ req'[r].shown = req[r].shown
  <2>1. PICK old \in RequestType : old = req[r]
    BY OwnType
  <2>2. PICK q : q = [old EXCEPT !.pc = "history", !.text = t]
    OBVIOUS
  <2>3. req' = [req EXCEPT ![r] = q]
    BY <2>1, <2>2, OwnType DEF OlderAnswer
  <2>4. q \in RequestType /\ q.pc = "history" /\ q.reply = old.reply /\ q.shown = old.shown
    BY <2>2 DEF RequestType, Labels
  <2> QED BY <1>1, <2>1, <2>3, <2>4, Rewritten
<1>3. Staged(r)' /\ Written(r)'
  BY <1>2 DEF Staged, Written, Replied, At, Fine, Working, Behind
<1>4. AuditFits(r)'
  BY <1>1, <1>2 DEF Own, AuditFits, Early, Working, At, Fine
<1>5. Traceless(r)'
  BY <1>1, StoresStay DEF OlderAnswer, Own, Traceless
<1>6. Aside(r)
  BY <1>1, <1>2 DEF Aside, At
<1> QED BY <1>2, <1>3, <1>4, <1>5, <1>6, QuietFrame, FrameInv DEF OlderAnswer, Own

\* append_turn has read conversation c, or created it.
Opened(r, c, text) ==
  \/ /\ Readable(c)
     /\ text = LastN(Append(history[c], TurnOf(r)), MaxHistory)
     /\ UNCHANGED <<history, creator>>
  \/ /\ Fresh(c)
     /\ text = <<TurnOf(r)>>
     /\ history' = [history EXCEPT ![c] = <<>>]
     /\ creator' = [creator EXCEPT ![c] = Author(r)]

LEMMA DraftedStep ==
  ASSUME Inv, NEW r \in Requests, NEW c \in Convs, NEW text, At(r, "history"),
         Opened(r, c, text), Drafted(r, c, text), UNCHANGED <<context, audits, damaged>>
  PROVE  Inv'
<1> DEFINE who == Author(r)
           e == TurnOf(r)
<1>1. Own(r) /\ req[r] \in RequestType /\ BookTypes /\ Sole(c) /\ Begun(c)
      /\ (Replied(r) \/ req[r].reply = "legacy")
  BY OwnType, BooksHave DEF Inv, Own, Staged, At
<1>2. /\ who \in {r, Older} /\ who \in Requests \cup {Older} /\ who # NoConv
      /\ e = Entry(req[r].text, who) /\ req[r].text \in Texts
      /\ req[r].reply = "legacy" => who # r
      /\ Fine(r) => who = r
  BY <1>1, RequestAssumption DEF Author, TurnOf, Fine, RequestType
<1>3. AuditStep(r) /\ audit' = audit /\ errorAudit' = errorAudit
      /\ auditFailed' = auditFailed
  BY AuditsStay
<1>4. text \in EntryList /\ Holds(text, e, MaxHistory)
  <2>1. Readable(c) => history[c] \in EntryList
    BY <1>1 DEF Readable, BookTypes
  <2> QED BY <1>2, <2>1, EntryLists DEF Opened
<1>5. /\ Moved(r) /\ req'[r].pc = "save" /\ req'[r].place = c /\ req'[r].reply = req[r].reply
      /\ req'[r].shown = req[r].shown /\ req'[r].conv = req[r].conv
      /\ req'[r].text = req[r].text
  <2>1. PICK old \in RequestType : old = req[r]
    BY <1>1
  <2>2. PICK q : q = [old EXCEPT !.pc = "save", !.place = c]
    OBVIOUS
  <2>3. req' = [req EXCEPT ![r] = q]
    BY <2>1, <2>2, OwnType DEF Drafted
  <2>4. q \in RequestType /\ q.pc = "save" /\ q.place = c /\ q.reply = old.reply
        /\ q.shown = old.shown /\ q.conv = old.conv /\ q.text = old.text
    BY <2>2 DEF RequestType, Labels
  <2> QED BY <2>1, <2>3, <2>4, Rewritten
<1>6. /\ \A d \in Convs \ {c} : drafts'[d] = drafts[d] /\ history'[d] = history[d]
                                /\ creator'[d] = creator[d]
      /\ drafts'[c] = drafts[c] \cup {[of |-> r, text |-> text]}
      /\ overlapped' = IF Writing(c) = {} THEN overlapped ELSE overlapped \cup {c}
      /\ IF Fresh(c) THEN history'[c] = <<>> /\ creator'[c] = who
         ELSE history'[c] = history[c] /\ creator'[c] = creator[c]
  <2>1. Readable(c) => ~Fresh(c)
    BY DEF Readable, Fresh
  <2> QED BY <1>1, <2>1 DEF BookTypes, Opened, Drafted
<1>7. BookTypes'
  <2>1. [of |-> r, text |-> text] \in [of : Requests, text : EntryList]
    BY <1>4
  <2>2. <<>> \in EntryList
    BY <1>2, EntryLists
  <2> QED BY <1>1, <1>2, <2>1, <2>2 DEF BookTypes, Opened, Drafted
<1> HIDE DEF who, e
<1>8. \A d \in Convs : HistoryStep(d, who)
  <2>1. ASSUME NEW d \in Convs \ {c} PROVE HistoryStep(d, who)
    <3>1. d \in overlapped => d \in overlapped'
      BY <1>6
    <3> QED BY <1>6, <3>1 DEF HistoryStep
  <2>2. HistoryStep(c, who)
    <3>1. c \in overlapped => c \in overlapped'
      BY <1>6
    <3>2. \A x \in drafts'[c] \ drafts[c] : x.text = text
      BY <1>6
    <3>3. Writing(c) = {} \/ c \in overlapped'
      BY <1>6
    <3>4. \/ Readable(c) /\ text = LastN(Append(history[c], Entry(req[r].text, who)), MaxHistory)
          \/ Fresh(c) /\ creator'[c] = who /\ text = <<Entry(req[r].text, who)>>
      BY <1>2, <1>6 DEF Opened, e
    <3> QED BY <1>2, <1>6, <3>1, <3>2, <3>3, <3>4 DEF HistoryStep
  <2> QED BY <2>1, <2>2
<1>9. \A d \in Convs \ {c} : Writing(d)' = Writing(d)
  BY <1>5 DEF Moved, Writing, At
<1>10. Writing(c)' = Writing(c) \cup {r}
  BY <1>5 DEF Moved, Writing, At
<1>11. c \notin overlapped' => /\ c \notin overlapped /\ Writing(c) = {} /\ drafts[c] = {}
                               /\ history[c] # Garbage
  <2>1. c \notin overlapped' => c \notin overlapped /\ Writing(c) = {}
    BY <1>6
  <2> QED BY <1>1, <2>1 DEF Sole
<1>12. \A d \in Convs : Sole(d)'
  <2>1. ASSUME NEW d \in Convs \ {c} PROVE Sole(d)'
    <3>1. Sole(d) /\ history'[d] = history[d] /\ drafts'[d] = drafts[d]
          /\ (d \in overlapped' <=> d \in overlapped) /\ Writing(d)' = Writing(d)
      BY <1>6, <1>9 DEF Inv
    <3> QED BY <3>1 DEF Sole
  <2>2. Sole(c)'
    <3>1. history'[c] = Garbage => history[c] = Garbage
      BY <1>6, HistoryAssumption, EmptySeq DEF EntryList
    <3> QED BY <1>6, <1>10, <1>11, <3>1 DEF Sole
  <2> QED BY <2>1, <2>2
<1>13. Framed(r, who)
  BY <1>2, <1>3, <1>5, <1>7, <1>8, <1>12, HistoryFrame
<1>14. Staged(r)'
  <2>1. creator'[c] # NoConv
    BY <1>1, <1>2, <1>6 DEF Begun, Readable, Opened
  <2>2. Replied(r) => req[r].conv \in Convs /\ creator'[req[r].conv] # NoConv
    BY <1>1, <1>2, <1>6 DEF Own, Staged
  <2> QED BY <1>1, <1>5, <2>1, <2>2 DEF Staged, Replied, At, Fine, Working, Behind
<1>15. AuditFits(r)'
  BY <1>1, <1>3, <1>5 DEF Own, AuditFits, Early, Working, At, Fine
<1>16. Traceless(r)'
  <2>1. ASSUME req[r].reply = "legacy" PROVE NoTrace(r)'
    BY <1>1, <1>2, <1>8, <2>1, NoTraceStays DEF Own, Traceless, BookTypes
  <2> QED BY <1>5, <2>1 DEF Traceless, Early
<1>17. Written(r)'
  <2>1. Fine(r) => DraftIn(c, Entry(req[r].text, r))'
    <3>1. c \notin overlapped' => drafts'[c] = {[of |-> r, text |-> text]}
      BY <1>6, <1>11
    <3>2. Fine(r) => Holds(text, Entry(req[r].text, r), MaxHistory)
      BY <1>2, <1>4
    <3>3. Fine(r) => c \in overlapped' \/ \A x \in drafts'[c] : Holds(x.text, Entry(req[r].text, r), MaxHistory)
      BY <3>1, <3>2
    <3> QED BY <1>5, <3>3 DEF DraftIn, Entry
  <2>2. Fine(r) => TurnIn(req[r].conv, Turn(req[r].text)) /\ RefIn(req[r].conv, r)
    BY <1>1 DEF Own, Written
  <2>3. Fine(r) => TurnIn(req[r].conv, Turn(req[r].text))' /\ RefIn(req[r].conv, r)'
    BY <1>5, <2>2 DEF TurnIn, RefIn, Turn
  <2> QED BY <1>5, <2>1, <2>3 DEF Written, At, Fine, Entry
<1> QED BY <1>2, <1>13, <1>14, <1>15, <1>16, <1>17, FrameInv DEF Own

LEMMA ReadHistoryStep ==
  ASSUME Inv, NEW r \in Requests, ReadHistory(r)
  PROVE  Inv'
<1>1. req[r].conv \in Convs
  BY DEF ReadHistory, Readable
<1> QED BY <1>1, DraftedStep DEF ReadHistory, Opened

LEMMA CreateHistoryStep ==
  ASSUME Inv, NEW r \in Requests, NEW c \in Convs, CreateHistory(r, c)
  PROVE  Inv'
BY DraftedStep DEF CreateHistory, Opened

\* What is in play of a conversation without an overlap is a writer's text.
LEMMA InPlayIs ==
  ASSUME Inv, NEW c \in Convs, NEW h \in InPlay(c)
  PROVE  \/ \E x \in drafts[c] : h = x.text /\ h \in EntryList
         \/ h = Garbage /\ c \in overlapped /\ drafts[c] # {}
<1>1. Sole(c) /\ BookTypes
  BY BooksHave DEF Inv
<1>2. Shared(c) => c \in overlapped /\ drafts[c] # {}
  BY <1>1 DEF Sole, Shared
<1> QED BY <1>1, <1>2 DEF InPlay, BookTypes

\* r stops writing, with or without a replace.
LEMMA LeaveStep ==
  ASSUME Inv, NEW r \in Requests, NEW c \in Convs, At(r, "save"), req[r].place = c,
         NEW h \in InPlay(c) \cup {history[c]}, history' = [history EXCEPT ![c] = h],
         Left(r, c), UNCHANGED <<creator, overlapped>>
  PROVE  /\ \A d \in Convs : HistoryStep(d, Older)
         /\ BookTypes' /\ drafts'[c] \subseteq drafts[c]
         /\ NoTrace(r) => NoTrace(r)'
         /\ Moved(r) /\ req'[r].pc # "save" => \A d \in Convs : Sole(d)'
<1>1. BookTypes /\ Sole(c) /\ r \in Writing(c)
  BY BooksHave DEF Inv, Writing
<1>2. /\ \A d \in Convs \ {c} : drafts'[d] = drafts[d] /\ history'[d] = history[d]
      /\ drafts'[c] \in {drafts[c], {}} /\ history'[c] = h
      /\ drafts' \in [Convs -> SUBSET [of : Requests, text : EntryList]]
  BY <1>1 DEF BookTypes, Left
<1>3. \/ h = history[c]
      \/ \E x \in drafts[c] : h = x.text /\ h \in EntryList
      \/ h = Garbage /\ c \in overlapped /\ drafts[c] # {}
  BY InPlayIs
<1>4. BookTypes'
  BY <1>1, <1>2, <1>3 DEF BookTypes
<1>5. \A d \in Convs : HistoryStep(d, Older)
  BY <1>2, <1>3 DEF HistoryStep
<1>6. NoTrace(r) => NoTrace(r)'
  BY <1>1, <1>5, NoTraceStays, RequestAssumption DEF BookTypes
<1>7. ASSUME Moved(r), req'[r].pc # "save", NEW d \in Convs
      PROVE  Sole(d)'
  <2>1. CASE d # c
    <3>1. Writing(d)' = Writing(d)
      BY <1>7, <2>1 DEF Moved, Writing, At
    <3> QED BY <1>2, <2>1, <3>1 DEF Inv, Sole
  <2>2. CASE d = c
    <3>1. Writing(c)' \subseteq Writing(c)
      BY <1>7 DEF Moved, Writing, At
    <3>2. CASE c \in overlapped
      BY <2>2, <3>2 DEF Sole
    <3>3. CASE c \notin overlapped
      <4>1. Writing(c) = {r}
        BY <1>1, <3>3 DEF Sole
      <4>2. drafts'[c] = {}
        BY <1>1, <4>1 DEF Left, BookTypes
      <4>3. history'[c] # Garbage
        BY <1>1, <1>2, <1>3, <3>3, HistoryAssumption DEF Sole
      <4> QED BY <1>1, <2>2, <3>1, <3>3, <4>1, <4>2, <4>3 DEF Sole
    <3> QED BY <3>2, <3>3
  <2> QED BY <2>1, <2>2
<1> QED BY <1>2, <1>4, <1>5, <1>6, <1>7

LEMMA SaveHistoryStep ==
  ASSUME Inv, NEW r \in Requests, SaveHistory(r)
  PROVE  Inv'
<1> DEFINE c == req[r].place
           e == Entry(req[r].text, r)
<1>1. Own(r) /\ At(r, "save") /\ c \in Convs /\ BookTypes
      /\ (Replied(r) \/ req[r].reply = "legacy")
  BY OwnType, BooksHave DEF SaveHistory, Own, Staged, At
<1>2. PICK h \in InPlay(c) : history' = [history EXCEPT ![c] = h]
  BY DEF SaveHistory
<1>3. /\ \A d \in Convs : HistoryStep(d, Older)
      /\ BookTypes' /\ drafts'[c] \subseteq drafts[c]
      /\ NoTrace(r) => NoTrace(r)'
      /\ Moved(r) /\ req'[r].pc # "save" => \A d \in Convs : Sole(d)'
  BY <1>1, <1>2, LeaveStep DEF SaveHistory
<1>4. ASSUME Moved(r), AuditStep(r), Own(r)', req'[r].pc = "done"
      PROVE  Inv'
  BY <1>3, <1>4, HistoryFrame, FrameInv DEF SaveHistory
<1>5. CASE c # req[r].conv
  BY <1>3, <1>4, <1>5, UnrecordedOwn DEF SaveHistory
<1>6. CASE c = req[r].conv
  <2>1. Answer(r, req[r].reply) /\ UNCHANGED audits
    BY <1>6 DEF SaveHistory
  <2>2. req[r].reply \in {"ok", "need_clarification", "error", "legacy"}
    BY <1>1 DEF Replied, Fine
  <2>3. /\ Moved(r) /\ req'[r].pc = "done" /\ req'[r].reply = req[r].reply
        /\ req'[r].shown = req[r].shown
        /\ req'[r].conv = req[r].conv /\ req'[r].text = req[r].text
    BY <2>1, <2>2, AnswerMoves
  <2>4. AuditStep(r) /\ audit' = audit /\ errorAudit' = errorAudit
        /\ auditFailed' = auditFailed
    BY <2>1, AuditsStay
  <2>5. creator' = creator
    BY DEF SaveHistory
  <2>6. Staged(r)'
    BY <1>1, <2>3, <2>5 DEF Own, Staged, At, Fine, Replied, Working, Behind
  <2>7. AuditFits(r)'
    BY <1>1, <2>3, <2>4 DEF Own, AuditFits, Early, Working, At, Fine
  <2>8. Traceless(r)'
    BY <1>1, <1>3, <2>3 DEF Own, Traceless, Early
  <2>9. ASSUME Fine(r), c \notin overlapped'
        PROVE  /\ \A x \in drafts'[c] : Holds(x.text, e, MaxHistory)
               /\ Holds(history'[c], e, MaxHistory)
    <3>1. c \notin overlapped /\ \A x \in drafts[c] : Holds(x.text, e, MaxHistory)
      BY <1>1, <2>9 DEF SaveHistory, Own, Written, DraftIn
    <3>2. history'[c] = h /\ \E x \in drafts[c] : h = x.text
      BY <1>1, <1>2, <3>1, InPlayIs DEF BookTypes
    <3> QED BY <1>3, <3>1, <3>2
  <2>10. Written(r)'
    <3>1. Fine(r) => TurnIn(req[r].conv, Turn(req[r].text)) /\ RefIn(req[r].conv, r)
      BY <1>1 DEF Own, Written
    <3>2. Fine(r) => TurnIn(req[r].conv, Turn(req[r].text))' /\ RefIn(req[r].conv, r)'
      BY <2>3, <3>1 DEF SaveHistory, TurnIn, RefIn, Turn
    <3>3. Fine(r) => BookIn(req[r].conv, Entry(req[r].text, r))'
      <4>1. req'[r].conv = c /\ Entry(req'[r].text, r) = e
        BY <1>6, <2>3
      <4> QED BY <2>9, <4>1 DEF BookIn, DraftIn
    <3> QED BY <2>3, <3>2, <3>3 DEF Written, At, Fine
  <2> QED BY <1>4, <2>3, <2>4, <2>6, <2>7, <2>8, <2>10 DEF Own
<1> QED BY <1>5, <1>6

\* A write that ends unfinished.
LEMMA UnfinishedStep ==
  ASSUME Inv, NEW r \in Requests, At(r, "save"), Unfinished(r), UNCHANGED <<context, damaged>>
  PROVE  /\ NoTrace(r) => NoTrace(r)'
         /\ Moved(r) /\ AuditStep(r) /\ req'[r].pc # "save" => Framed(r, Older)
<1> DEFINE c == req[r].place
<1>1. c \in Convs /\ history \in [Convs -> EntryList \cup {NoConv, Garbage}]
  BY OwnType, BooksHave DEF Own, Staged, BookTypes
<1>2. PICK h \in InPlay(c) \cup {history[c]} : history' = [history EXCEPT ![c] = h]
  BY <1>1 DEF Unfinished
<1>3. /\ \A d \in Convs : HistoryStep(d, Older)
      /\ BookTypes'
      /\ NoTrace(r) => NoTrace(r)'
      /\ Moved(r) /\ req'[r].pc # "save" => \A d \in Convs : Sole(d)'
  BY <1>1, <1>2, LeaveStep DEF Unfinished
<1> QED BY <1>3, HistoryFrame

LEMMA SaveFailsStep ==
  ASSUME Inv, NEW r \in Requests, SaveFails(r)
  PROVE  Inv'
<1>1. /\ NoTrace(r) => NoTrace(r)'
      /\ Moved(r) /\ AuditStep(r) /\ req'[r].pc # "save" => Framed(r, Older)
  BY UnfinishedStep DEF SaveFails
<1>2. Moved(r) /\ AuditStep(r) /\ Own(r)' /\ req'[r].pc = "done"
  BY <1>1, UnrecordedOwn DEF SaveFails
<1> QED BY <1>1, <1>2, FrameInv

LEMMA CrashStep ==
  ASSUME Inv, NEW r \in Requests, Crash(r)
  PROVE  Inv'
<1>1. Moved(r) /\ req'[r].pc = "dead" /\ req'[r].reply = "none"
      /\ req'[r].shown = "none"
  <2>1. PICK q : q = [NewRequest EXCEPT !.pc = "dead"]
    OBVIOUS
  <2>2. q \in RequestType /\ q.pc = "dead" /\ q.reply = "none" /\ q.shown = "none"
    BY <2>1, NewRequestType DEF NewRequest, RequestType, Labels
  <2> QED BY <2>1, <2>2, Rewritten DEF Crash
<1>2. Own(r)'
  BY <1>1 DEF Own, Staged, AuditFits, Traceless, Written, Replied, Early, Working, Behind,
     At, Fine
<1>3. AuditStep(r)
  BY AuditsStay DEF Crash
<1>4. CASE At(r, "save")
  BY <1>1, <1>2, <1>3, <1>4, UnfinishedStep, FrameInv DEF Crash
<1>5. CASE ~At(r, "save")
  <2>1. r \notin Writing(req[r].place)
    BY <1>5 DEF Writing
  <2>2. UNCHANGED stores
    BY <1>5, <2>1 DEF Crash, Unfinished, Left, stores, books
  <2>3. Aside(r)
    BY <1>1, <1>5 DEF Aside
  <2> QED BY <1>1, <1>2, <2>2, <2>3, QuietFrame, FrameInv DEF Crash
<1> QED BY <1>4, <1>5

-----------------------------------------------------------------------------
(* Steps that write a context *)

\* What may be stored over the context of c.
Legal(c, x) ==
  /\ x \in Context /\ x.rev # 0
  /\ context[c] \in Context => Keeps(context[c], x)
  /\ \A r \in RefsOf(x) : r \in RefsOf(context[c]) \/ audit[r] # "none"

\* One context changes, lawfully.
LEMMA ContextFrame ==
  ASSUME Inv, NEW r \in Requests, NEW c \in Convs, Moved(r), Aside(r), AuditStep(r),
         UNCHANGED <<books, damaged>>,
         NEW x \in Content, context' = [context EXCEPT ![c] = x],
         Legal(c, x) \/ (context[c] = Garbage /\ x = Absent)
  PROVE  Framed(r, Older)
<1>1. context \in [Convs -> Content]
  BY DEF Inv, TypeOK
<1>2. TypeOK'
  BY <1>1, AuditTypes DEF Inv, TypeOK, Moved, AuditStep, books
<1>3. Onward
  BY DEF Onward, AuditStep
<1>4. ContextStep(c)
  BY <1>1 DEF ContextStep, Legal
<1>5. \A d \in Convs : ContextStep(d) /\ HistoryStep(d, Older) /\ Sole(d)'
  BY <1>1, <1>4, SoleStays DEF ContextStep, HistoryStep, books
<1>6. \A p \in Requests \ {r} : Untouched(p)
  BY DEF Moved, Untouched, AuditStep
<1> QED BY <1>2, <1>3, <1>5, <1>6 DEF Framed

\* A store operation fails, or has had its effect all the same.
LEMMA FailFrame ==
  ASSUME Inv, NEW r \in Requests, req[r].conv \in Convs, Moved(r), Aside(r), AuditStep(r),
         UNCHANGED <<books, damaged>>, NEW o, StoreFails(r, o),
         context[req[r].conv] # Garbage /\ ~Conflicts(o, context[req[r].conv])
           => Legal(req[r].conv, Effect(o, context[req[r].conv]))
  PROVE  Framed(r, Older)
<1> DEFINE c == req[r].conv
<1>1. CASE UNCHANGED context
  BY <1>1, AuditFrame DEF stores
<1>2. CASE context[c] = Garbage /\ context' = [context EXCEPT ![c] = Absent]
  BY <1>2, ContextFrame, NewRequestType
<1>3. CASE /\ context[c] # Garbage /\ ~Conflicts(o, context[c])
           /\ context' = [context EXCEPT ![c] = Effect(o, context[c])]
  <2>1. Legal(c, Effect(o, context[c])) /\ Effect(o, context[c]) \in Content
    BY <1>3 DEF Legal, Content
  <2> QED BY <1>3, <2>1, ContextFrame
<1> QED BY <1>1, <1>2, <1>3 DEF StoreFails

LEMMA ContextOf ==
  ASSUME Inv, NEW c \in Convs
  PROVE  /\ context[c] \in Content
         /\ context[c] # Garbage => context[c] \in Context \cup {Absent}
         /\ Stored(c)
BY DEF Inv, TypeOK, Content

LEMMA AppendLegal ==
  ASSUME Inv, NEW c \in Convs, context[c] # Garbage, NEW t \in Turns, NEW d \in DeviceField,
         NEW x, x = Effect([kind |-> "append", turn |-> t, device |-> d], context[c])
  PROVE  Legal(c, x) /\ Holds(x.turns, t, MaxTurns)
BY ContextOf, AppendEffect DEF Legal

LEMMA RefLegal ==
  ASSUME Inv, NEW c \in Convs, context[c] # Garbage, NEW r \in Requests, audit[r] # "none",
         NEW x, x = Effect([kind |-> "ref", ref |-> r], context[c])
  PROVE  Legal(c, x) /\ Holds(x.refs, r, MaxRefs)
<1>1. r \in Refs
  BY TurnAssumption
<1>2. context[c] \in Context \cup {Absent}
  BY ContextOf
<1>3. /\ x \in Context /\ x.rev # 0
      /\ context[c] \in Context => Keeps(context[c], x)
      /\ Holds(x.refs, r, MaxRefs)
      /\ RefsOf(x) \subseteq RefsOf(context[c]) \cup {r}
  BY <1>1, <1>2, RefEffect
<1> QED BY <1>3 DEF Legal

\* A migration saves only where there is no context yet.
LEMMA SaveLegal ==
  ASSUME Inv, NEW c \in Convs, context[c] # Garbage, NEW turns \in Seq(Turns),
         NEW o, o = [kind |-> "save", turns |-> turns, expected |-> 0],
         ~Conflicts(o, context[c])
  PROVE  Legal(c, Effect(o, context[c]))
<1>1. Revision(context[c]) = 0
  BY DEF Conflicts
<1>2. context[c] \notin Context
  BY <1>1, ContextOf, ContentCases DEF Stored
<1>3. context[c] \in Context \cup {Absent}
  BY ContextOf
<1>4. /\ Effect(o, context[c]) \in Context /\ Effect(o, context[c]).rev # 0
      /\ RefsOf(Effect(o, context[c])) = {}
  BY <1>3, SaveEffect
<1> QED BY <1>2, <1>4 DEF Legal

\* What a request at a label of the dispatcher has.
LEMMA WorkingFacts ==
  ASSUME Inv, NEW r \in Requests, req[r].pc \in Working
  PROVE  /\ req[r].reply = "none" /\ audit[r] = "none"
         /\ req[r].conv \in Convs /\ creator[req[r].conv] # NoConv
         /\ req[r].pc \in {"migrate", "handle"} => req[r].loaded \in Context
         /\ context[req[r].conv] \in Content
<1>1. Own(r)
  BY OwnType
<1>2. req[r].conv \in Convs
  BY <1>1 DEF Own, Staged
<1> QED BY <1>1, <1>2, ContextOf DEF Own, Staged, AuditFits, Working

\* An operation before the audit fails.
LEMMA EarlyError ==
  ASSUME Inv, NEW r \in Requests, req[r].pc \in Working, GoTo(r, "error"),
         UNCHANGED <<books, audits, damaged>>, NEW o, StoreFails(r, o),
         context[req[r].conv] # Garbage /\ ~Conflicts(o, context[req[r].conv])
           => Legal(req[r].conv, Effect(o, context[req[r].conv]))
  PROVE  Inv'
<1>1. /\ Moved(r) /\ req'[r].pc = "error" /\ req'[r].reply = req[r].reply
      /\ req'[r].shown = req[r].shown /\ req'[r].conv = req[r].conv
  BY GoToMoves DEF Labels
<1>2. AuditStep(r) /\ Aside(r)
  BY <1>1, AuditsStay DEF Aside, At, Working
<1>3. Own(r)'
  BY <1>1, WorkingFacts, OnwardOwn DEF books
<1> QED BY <1>1, <1>2, <1>3, WorkingFacts, FailFrame, FrameInv

\* A context that does not validate goes into quarantine.
LEMMA QuarantineError ==
  ASSUME Inv, NEW r \in Requests, req[r].pc \in Working, GoTo(r, "error"),
         UNCHANGED <<books, audits, damaged>>,
         context[req[r].conv] = Garbage,
         context' = [context EXCEPT ![req[r].conv] = Absent]
  PROVE  Inv'
<1>1. StoreFails(r, [kind |-> "load"])
  BY DEF StoreFails
<1> QED BY <1>1, EarlyError

LEMMA ReadError ==
  ASSUME Inv, NEW r \in Requests, req[r].pc \in Working, GoTo(r, "error"),
         UNCHANGED <<context, books, audits, damaged>>
  PROVE  Inv'
<1>1. /\ Moved(r) /\ req'[r].pc = "error" /\ req'[r].reply = req[r].reply
      /\ req'[r].shown = req[r].shown /\ req'[r].conv = req[r].conv
  BY GoToMoves DEF Labels
<1>2. ~At(r, "save")
  BY DEF At, Working
<1> QED BY <1>1, <1>2, WorkingFacts, QuietOnward DEF stores, books

\* A request takes up the context it works with.
LEMMA TakesUp ==
  ASSUME Inv, NEW r \in Requests, req[r].pc \in Working, NEW l \in {"migrate", "handle"},
         NEW x \in Context, req' = [req EXCEPT ![r].pc = l, ![r].loaded = x],
         UNCHANGED <<creator, audits>>
  PROVE  Moved(r) /\ Aside(r) /\ Own(r)'
<1>1. /\ Moved(r) /\ req'[r].pc = l /\ req'[r].reply = req[r].reply
      /\ req'[r].shown = req[r].shown /\ req'[r].conv = req[r].conv
      /\ req'[r].loaded = x
  <2>1. PICK old \in RequestType : old = req[r]
    BY OwnType
  <2>2. PICK q : q = [old EXCEPT !.pc = l, !.loaded = x]
    OBVIOUS
  <2>3. req' = [req EXCEPT ![r] = q]
    BY <2>1, <2>2, OwnType
  <2>4. q \in RequestType /\ q.pc = l /\ q.reply = old.reply /\ q.shown = old.shown
        /\ q.conv = old.conv /\ q.loaded = x
    BY <2>2 DEF RequestType, Labels, Content
  <2> QED BY <2>1, <2>3, <2>4, Rewritten
<1>2. Aside(r)
  BY <1>1 DEF Aside, At, Working
<1> QED BY <1>1, <1>2, WorkingFacts, OnwardOwn

LEMMA LoadStep ==
  ASSUME Inv, NEW r \in Requests, Load(r)
  PROVE  Inv'
<1> DEFINE c == req[r].conv
<1>1. req[r].pc \in Working /\ UNCHANGED <<books, audits, damaged>>
  BY DEF Load, Working, At
<1>2. c \in Convs /\ history \in [Convs -> EntryList \cup {NoConv, Garbage}]
  BY <1>1, WorkingFacts DEF Inv, TypeOK
<1>3. ASSUME NEW x \in Context, NEW l \in {"migrate", "handle"}, UNCHANGED context,
             req' = [req EXCEPT ![r].pc = l, ![r].loaded = x]
      PROVE  Inv'
  BY <1>1, <1>3, TakesUp, QuietFrame, FrameInv DEF stores, books
<1>4. CASE /\ context[c] \in Context
           /\ req' = [req EXCEPT ![r].pc = "handle", ![r].loaded = context[c]]
           /\ UNCHANGED context
  BY <1>3, <1>4
<1>5. ASSUME NEW f \in Found(c), req' = [req EXCEPT ![r] = Prepared(r, f)], UNCHANGED context
      PROVE  Inv'
  <2>1. EmptyContext \in Context /\ Migrated(c, f) \in Context
    BY <1>2, EmptyContextProperties, MigratedType
  <2>2. CASE HasLegacy(f)
    <3>1. req' = [req EXCEPT ![r].pc = "migrate", ![r].loaded = Migrated(c, f)]
      BY <1>5, <2>2, OwnType DEF Prepared
    <3> QED BY <1>3, <1>5, <2>1, <3>1
  <2>3. CASE ~HasLegacy(f)
    <3>1. req' = [req EXCEPT ![r].pc = "handle", ![r].loaded = EmptyContext]
      BY <1>5, <2>3, OwnType DEF Prepared
    <3> QED BY <1>3, <1>5, <2>1, <3>1
  <2> QED BY <2>2, <2>3
<1>6. CASE context[c] = Garbage /\ context' = [context EXCEPT ![c] = Absent] /\ GoTo(r, "error")
  BY <1>1, <1>6, QuarantineError
<1>7. CASE GoTo(r, "error") /\ UNCHANGED context
  BY <1>1, <1>7, ReadError
<1> QED BY <1>4, <1>5, <1>6, <1>7 DEF Load

LEMMA ReloadStep ==
  ASSUME Inv, NEW r \in Requests, Reload(r)
  PROVE  Inv'
<1> DEFINE c == req[r].conv
<1>1. req[r].pc \in Working /\ UNCHANGED <<books, audits, damaged>>
  BY DEF Reload, Working, At
<1>2. CASE /\ context[c] \in Context
           /\ req' = [req EXCEPT ![r].pc = "handle", ![r].loaded = context[c]]
           /\ UNCHANGED context
  BY <1>1, <1>2, TakesUp, QuietFrame, FrameInv DEF stores, books
<1>3. CASE context[c] = Garbage /\ context' = [context EXCEPT ![c] = Absent] /\ GoTo(r, "error")
  BY <1>1, <1>3, QuarantineError
<1>4. CASE GoTo(r, "error") /\ UNCHANGED context
  BY <1>1, <1>4, ReadError
<1> QED BY <1>2, <1>3, <1>4 DEF Reload

LEMMA MigrateStep ==
  ASSUME Inv, NEW r \in Requests, Migrate(r)
  PROVE  Inv'
<1> DEFINE c == req[r].conv
           o == SaveMigrated(r)
<1>1. req[r].pc \in Working /\ UNCHANGED <<books, audits, damaged>>
      /\ At(r, "migrate")
  BY DEF Migrate, Working, At
<1>2. c \in Convs /\ req[r].loaded \in Context /\ context \in [Convs -> Content]
  BY <1>1, WorkingFacts DEF At, Inv, TypeOK
<1>3. context[c] # Garbage /\ ~Conflicts(o, context[c]) => Legal(c, Effect(o, context[c]))
  <2>1. req[r].loaded.turns \in Seq(Turns)
    BY <1>2, ContextParts
  <2> QED BY <1>2, <2>1, SaveLegal DEF SaveMigrated
<1> HIDE DEF o
<1>4. CASE /\ context[c] # Garbage /\ ~Conflicts(o, context[c])
           /\ context' = [context EXCEPT ![c] = Effect(o, context[c])]
           /\ req' = [req EXCEPT ![r].pc = "handle", ![r].loaded = context'[c]]
  <2>1. context'[c] = Effect(o, context[c]) /\ Legal(c, context'[c])
    BY <1>2, <1>3, <1>4
  <2>2. PICK x \in Context : x = context'[c]
    BY <2>1 DEF Legal
  <2>3. Moved(r) /\ Aside(r) /\ Own(r)'
    BY <1>1, <1>4, <2>2, TakesUp DEF books
  <2>4. AuditStep(r)
    BY <1>1, AuditsStay
  <2>5. Framed(r, Older)
    BY <1>1, <1>2, <1>4, <2>1, <2>2, <2>3, <2>4, ContextFrame DEF Content
  <2> QED BY <2>3, <2>5, FrameInv
<1>5. CASE GoTo(r, "reload") /\ UNCHANGED context
  <2>1. /\ Moved(r) /\ req'[r].pc = "reload" /\ req'[r].reply = req[r].reply
        /\ req'[r].shown = req[r].shown /\ req'[r].conv = req[r].conv
    BY <1>5, GoToMoves DEF Labels
  <2>2. Own(r)'
    BY <1>1, <2>1, WorkingFacts, OnwardOwn DEF books
  <2>3. Aside(r)
    BY <1>1, <2>1 DEF Aside, At
  <2> QED BY <1>1, <1>5, <2>1, <2>2, <2>3, QuietFrame, FrameInv DEF stores
<1>6. CASE GoTo(r, "error") /\ StoreFails(r, o)
  BY <1>1, <1>3, <1>6, EarlyError
<1> QED BY <1>4, <1>5, <1>6 DEF Migrate, o

LEMMA AppendTurnStep ==
  ASSUME Inv, NEW r \in Requests, AppendTurn(r)
  PROVE  Inv'
<1> DEFINE c == req[r].conv
           t == Turn(req[r].text)
           o == [kind |-> "append", turn |-> t, device |-> req[r].device]
<1>1. req[r].pc \in Working /\ UNCHANGED <<books, audits, damaged>>
      /\ Store(r, o, "audit")
  BY DEF AppendTurn, Store, Working, At
<1>2. /\ c \in Convs /\ creator[c] # NoConv /\ context \in [Convs -> Content]
      /\ req[r].reply = "none" /\ audit[r] = "none"
  BY <1>1, WorkingFacts DEF Inv, TypeOK
<1>3. t \in Turns /\ req[r].device \in DeviceField
  BY OwnType, TurnAssumption DEF Turn, RequestType
<1>4. context[c] # Garbage =>
        Legal(c, Effect(o, context[c])) /\ Holds(Effect(o, context[c]).turns, t, MaxTurns)
  BY <1>2, <1>3, AppendLegal
<1> HIDE DEF o
<1>5. CASE /\ context[c] # Garbage
           /\ context' = [context EXCEPT ![c] = Effect(o, context[c])]
           /\ GoTo(r, "audit")
  <2>1. /\ Moved(r) /\ req'[r].pc = "audit" /\ req'[r].reply = "none"
        /\ req'[r].shown = req[r].shown /\ req'[r].conv = c /\ req'[r].text = req[r].text
    BY <1>2, <1>5, GoToMoves DEF Labels
  <2>2. AuditStep(r) /\ audit' = audit /\ errorAudit' = errorAudit
    BY <1>1, AuditsStay
  <2>3. PICK x \in Content :
          /\ x = Effect(o, context[c]) /\ Legal(c, x) /\ Holds(x.turns, t, MaxTurns)
          /\ context' = [context EXCEPT ![c] = x] /\ context'[c] = x
    BY <1>2, <1>4, <1>5 DEF Legal, Content
  <2>4. Framed(r, Older)
    <3>1. Aside(r)
      BY <1>1, <2>1 DEF Aside, At, Working
    <3> QED BY <1>1, <1>2, <2>1, <2>2, <2>3, <3>1, ContextFrame
  <2>5. Staged(r)'
    BY <1>1, <1>2, <2>1 DEF books, Staged, At, Fine, Replied, Working, Behind
  <2>6. AuditFits(r)' /\ Traceless(r)'
    BY <1>2, <2>1, <2>2, OwnType
       DEF Own, AuditFits, Traceless, Early, Working, At, Fine
  <2>7. Written(r)'
    <3>1. TurnIn(req[r].conv, Turn(req[r].text))'
      BY <2>1, <2>3 DEF TurnIn, Legal, Turn
    <3> QED BY <2>1, <3>1 DEF Written, At, Fine
  <2> QED BY <2>4, <2>5, <2>6, <2>7, FrameInv DEF Own
<1>6. CASE GoTo(r, "error") /\ StoreFails(r, o)
  BY <1>1, <1>4, <1>6, EarlyError
<1> QED BY <1>1, <1>5, <1>6 DEF Store

LEMMA AttachReferenceStep ==
  ASSUME Inv, NEW r \in Requests, AttachReference(r)
  PROVE  Inv'
<1> DEFINE c == req[r].conv
           o == [kind |-> "ref", ref |-> r]
<1>1. /\ At(r, "ref") /\ UNCHANGED <<books, damaged, errorAudit>>
      /\ Store(r, o, "reply")
  BY DEF AttachReference, Store
<1>2. /\ Own(r) /\ context \in [Convs -> Content]
  BY OwnType DEF Inv, TypeOK
<1>3. /\ c \in Convs /\ creator[c] # NoConv /\ req[r].reply = "none" /\ audit[r] = "ok"
  BY <1>1, <1>2 DEF Own, Staged, AuditFits, Behind, At
<1>4. context[c] # Garbage =>
        Legal(c, Effect(o, context[c])) /\ Holds(Effect(o, context[c]).refs, r, MaxRefs)
  BY <1>3, RefLegal
<1> HIDE DEF o
<1>5. CASE /\ context[c] # Garbage
           /\ context' = [context EXCEPT ![c] = Effect(o, context[c])]
           /\ GoTo(r, "reply")
  <2>1. /\ Moved(r) /\ req'[r].pc = "reply" /\ req'[r].reply = "none"
        /\ req'[r].shown = req[r].shown /\ req'[r].conv = c /\ req'[r].text = req[r].text
    BY <1>3, <1>5, GoToMoves DEF Labels
  <2>2. AuditStep(r) /\ audit' = audit /\ errorAudit' = errorAudit
        /\ auditFailed' = auditFailed
    BY <1>1, <2>1, AuditsStay DEF AttachReference, audits
  <2>3. PICK x \in Content :
          /\ x = Effect(o, context[c]) /\ Legal(c, x) /\ Holds(x.refs, r, MaxRefs)
          /\ context' = [context EXCEPT ![c] = x] /\ context'[c] = x
    BY <1>2, <1>3, <1>4, <1>5 DEF Legal, Content
  <2>4. Framed(r, Older)
    <3>1. Aside(r)
      BY <1>1, <2>1 DEF Aside, At
    <3> QED BY <1>1, <1>3, <2>1, <2>2, <2>3, <3>1, ContextFrame
  <2>5. Staged(r)'
    BY <1>1, <1>3, <2>1 DEF books, Staged, At, Fine, Replied, Working, Behind
  <2>6. AuditFits(r)' /\ Traceless(r)'
    BY <1>2, <1>3, <2>1, <2>2 DEF Own, AuditFits, Traceless, Early, Working, At, Fine
  <2>7. Written(r)'
    <3>1. RefIn(req[r].conv, r)'
      BY <2>1, <2>3 DEF RefIn, Legal
    <3>2. TurnIn(req[r].conv, Turn(req[r].text))
      BY <1>1, <1>2 DEF Own, Written, At
    <3>3. Turn(req[r].text) \in Turns /\ ContextStep(req[r].conv) /\ Onward
      BY <1>3, <2>4, OwnType, TurnAssumption DEF Framed, Turn, RequestType
    <3>4. TurnIn(req[r].conv, Turn(req[r].text))'
      BY <2>1, <3>2, <3>3, TurnStays DEF Turn
    <3> QED BY <2>1, <3>1, <3>4 DEF Written, At, Fine
  <2> QED BY <2>4, <2>5, <2>6, <2>7, FrameInv DEF Own
<1>6. CASE GoTo(r, "error") /\ StoreFails(r, o)
  <2>1. /\ Moved(r) /\ req'[r].pc = "error" /\ req'[r].reply = "none"
        /\ req'[r].shown = req[r].shown /\ req'[r].conv = c
    BY <1>3, <1>6, GoToMoves DEF Labels
  <2>2. AuditStep(r) /\ (audit'[r] = "ok" => r \in auditFailed') /\ errorAudit' = errorAudit
    BY <1>1, <2>1, AmendStep DEF AttachReference
  <2>3. Framed(r, Older)
    <3>1. Aside(r)
      BY <1>1, <2>1 DEF Aside, At
    <3> QED BY <1>1, <1>3, <1>4, <1>6, <2>1, <2>2, <3>1, FailFrame
  <2>4. Staged(r)'
    BY <1>1, <1>3, <2>1 DEF books, Staged, At, Fine, Replied, Working, Behind
  <2>5. AuditFits(r)'
    BY <1>2, <2>1, <2>2 DEF Own, AuditFits, AuditStep, Early, Working, At, Fine
  <2>6. Traceless(r)' /\ Written(r)'
    BY <2>1 DEF Traceless, Early, Written, At, Fine
  <2> QED BY <2>3, <2>4, <2>5, <2>6, FrameInv DEF Own
<1> QED BY <1>1, <1>5, <1>6 DEF Store

-----------------------------------------------------------------------------
(* The environment *)

\* What happens beside the requests.
LEMMA OutsideInv ==
  ASSUME Inv, UNCHANGED <<audits, req, drafts, overlapped>>, TypeOK', Onward,
         \A c \in Convs : ContextStep(c) /\ HistoryStep(c, Older)
                         /\ history'[c] \in {history[c], NoConv}
  PROVE  Inv'
<1>1. \A r \in Requests : r # Older /\ Untouched(r)
  BY RequestAssumption DEF audits, Untouched
<1>2. \A r \in Requests : Own(r)'
  BY <1>1, OthersKeep
<1>3. \A c \in Convs : Stored(c)' /\ Begun(c)'
  BY FilesKeep
<1>4. \A c \in Convs : Sole(c)'
  <2>1. \A c : Writing(c)' = Writing(c)
    BY DEF Writing, At
  <2> QED BY <2>1, HistoryAssumption DEF Inv, Sole
<1> QED BY <1>2, <1>3, <1>4 DEF Inv

LEMMA DeleteStep ==
  ASSUME Inv, NEW c \in Convs, Delete(c)
  PROVE  Inv'
<1>1. history \in [Convs -> EntryList \cup {NoConv, Garbage}]
  BY DEF Inv, TypeOK
<1>2. TypeOK'
  BY <1>1 DEF Delete, Inv, TypeOK, audits
<1>3. Onward
  BY DEF Delete, Onward, audits
<1>4. \A d \in Convs : ContextStep(d) /\ HistoryStep(d, Older)
                      /\ history'[d] \in {history[d], NoConv}
  BY <1>1 DEF Delete, ContextStep, HistoryStep
<1> QED BY <1>2, <1>3, <1>4, OutsideInv DEF Delete

LEMMA DamageStep ==
  ASSUME Inv, NEW c \in Convs, Damage(c)
  PROVE  Inv'
<1>1. context \in [Convs -> Content]
  BY DEF Inv, TypeOK
<1>2. TypeOK'
  BY <1>1, NewRequestType DEF Damage, Inv, TypeOK, audits, books
<1>3. Onward
  BY DEF Damage, Onward, audits
<1>4. \A d \in Convs : ContextStep(d) /\ HistoryStep(d, Older) /\ history'[d] = history[d]
  BY <1>1 DEF Damage, ContextStep, HistoryStep, books
<1> QED BY <1>2, <1>3, <1>4, OutsideInv DEF Damage, books

-----------------------------------------------------------------------------
(* The theorems *)

LEMMA StutterStep ==
  ASSUME Inv, UNCHANGED vars
  PROVE  Inv'
<1>1. UNCHANGED <<stores, audits, req, damaged>>
  BY DEF vars, stores, books, audits
<1>2. TypeOK' /\ Onward
  BY <1>1 DEF Inv, TypeOK, Onward, stores, books, audits
<1> QED BY <1>1, <1>2, StoresStay, OutsideInv

LEMMA StepInv ==
  ASSUME Inv, [Next]_vars
  PROVE  Inv'
<1>1. ASSUME NEW r \in Requests, Step(r)
      PROVE  Inv'
  BY <1>1, SnapshotStep, DecideStep, NoArbiterStep, RaiseStep, StageFallbackStep,
     InternalErrorStep, KeepConversationStep, NewConversationStep, NoConversationStep,
     RefuseBlankStep, LoadStep, MigrateStep, ReloadStep, HandleStep, AppendTurnStep,
     WriteAuditStep, AttachReferenceStep, BuildResponseStep, ErrorEntryStep,
     OlderAnswerStep, ReadHistoryStep, CreateHistoryStep, SaveHistoryStep, RecordFailsStep,
     SaveFailsStep
     DEF Step, Said
<1> QED BY <1>1, ArriveStep, CrashStep, DeleteStep, DamageStep, StutterStep DEF Next

LEMMA InitInv == Init => Inv
<1> SUFFICES ASSUME Init PROVE Inv
  OBVIOUS
<1>1. \A c \in Convs : context[c] = Absent /\ creator[c] \in {Older, NoConv}
  BY DEF Init
<1>2. \A c \in DOMAIN SavedTexts :
        LET h == [i \in DOMAIN SavedTexts[c] |-> Entry(SavedTexts[c][i], Older)]
        IN  h \in EntryList /\ \A e \in Range(h) : e.by = Older
  <2> SUFFICES ASSUME NEW c \in DOMAIN SavedTexts
               PROVE  LET h == [i \in DOMAIN SavedTexts[c] |-> Entry(SavedTexts[c][i], Older)]
                      IN  h \in EntryList /\ \A e \in Range(h) : e.by = Older
    OBVIOUS
  <2>1. SavedTexts[c] \in Seq(Texts)
    BY TurnAssumption
  <2>2. DOMAIN SavedTexts[c] = 1..Len(SavedTexts[c]) /\ Len(SavedTexts[c]) \in Nat
    BY <2>1, LenProperties
  <2>3. \A i \in 1..Len(SavedTexts[c]) :
          /\ Entry(SavedTexts[c][i], Older) \in EntryType
          /\ Entry(SavedTexts[c][i], Older).by = Older
    BY <2>1, ElementOfSeq, EntryFits
  <2> QED BY <2>2, <2>3, IsASeq DEF EntryList, EntryType, Range
<1>3. \A c \in Convs :
        IF c \in DOMAIN SavedTexts
        THEN /\ creator[c] = Older
             /\ history[c] \in EntryList /\ \A e \in Range(history[c]) : e.by = Older
        ELSE creator[c] = NoConv /\ history[c] = NoConv
  BY <1>2 DEF Init
<1>0. /\ drafts = [c \in Convs |-> {}] /\ overlapped = {}
      /\ \A c : Writing(c) = {}
  BY DEF Init, Writing, At, NewRequest
<1>4. TypeOK
  <2>1. history \in [Convs -> EntryList \cup {NoConv, Garbage}]
    BY <1>3 DEF Init
  <2> QED BY <2>1, NewRequestType DEF Init, TypeOK
<1>5. \A r \in Requests : Own(r)
  <2> SUFFICES ASSUME NEW r \in Requests PROVE Own(r)
    OBVIOUS
  <2>1. /\ req[r].pc = "new" /\ req[r].reply = "none" /\ req[r].shown = "none"
        /\ audit[r] = "none" /\ r # Older /\ r # NoConv
    BY RequestAssumption DEF Init, NewRequest
  <2>2. NoTrace(r)
    BY <1>0, <1>3, <2>1 DEF NoTrace, Readable
  <2> QED BY <2>1, <2>2
          DEF Own, Staged, AuditFits, Traceless, Written, At, Fine, Replied, Early, Working,
              Behind
<1>6. \A c \in Convs : Stored(c) /\ Begun(c) /\ Sole(c)
  <2>1. \A c \in Convs : history[c] # Garbage
    BY <1>3, HistoryAssumption
  <2> QED BY <1>0, <1>1, <1>3, <2>1, ContentAssumption, RequestAssumption
          DEF Stored, Begun, Sole
<1> QED BY <1>4, <1>5, <1>6 DEF Inv

LEMMA Invariance == Spec => []Inv
<1>1. Init => Inv
  BY InitInv
<1>2. Inv /\ [Next]_vars => Inv'
  BY StepInv
<1> QED BY <1>1, <1>2, PTL DEF Spec

LEMMA InvImplies ==
  ASSUME Inv
  PROVE  OkReplyRecorded /\ RefsResolve /\ ErrorNotAuditedOk /\ FallbackLeavesNoTrace
<1>1. \A r \in Requests : Own(r)
  BY DEF Inv
<1>2. \A c \in Convs : Stored(c)
  BY DEF Inv
<1>3. OkReplyRecorded
  <2> SUFFICES ASSUME NEW r \in Requests, Fine(r)
               PROVE  /\ audit[r] = "ok"
                      /\ At(r, "done") => req[r].conv \in overlapped \/ InHistory(r)
                      /\ req[r].conv \in damaged \/ InContext(r)
    BY DEF OkReplyRecorded, Fine
  <2>1. AuditFits(r) /\ Written(r) /\ Staged(r)
    BY <1>1 DEF Own
  <2>2. audit[r] = "ok"
    BY <2>1 DEF AuditFits
  <2>3. At(r, "done") => req[r].conv \in overlapped \/ InHistory(r)
    <3>1. req[r].conv \in Convs
      BY <2>1 DEF Staged, Replied
    <3>2. Sole(req[r].conv)
      BY <3>1 DEF Inv
    <3> QED BY <2>1, <3>1, <3>2 DEF Written, BookIn, Readable, Sole, Holds, InHistory
  <2>4. req[r].conv \in damaged \/ InContext(r)
    BY <2>1 DEF Written, TurnIn, RefIn, Holds, InContext
  <2> QED BY <2>2, <2>3, <2>4
<1>4. RefsResolve
  <2>1. \A c \in Convs :
          context[c] \in Context => \A r \in Range(context[c].refs) : audit[r] # "none"
    BY <1>2 DEF Stored, RefsOf
  <2>2. \A r \in Requests :
          /\ req[r].shown = "answer" => audit[r] # "none"
          /\ req[r].shown = "error" => r \in errorAudit
    BY <1>1 DEF Own, AuditFits
  <2> QED BY <2>1, <2>2 DEF RefsResolve
<1>5. ErrorNotAuditedOk
  BY <1>1 DEF Own, AuditFits, ErrorNotAuditedOk
<1>6. FallbackLeavesNoTrace
  <2> SUFFICES ASSUME NEW r \in Requests, req[r].reply = "legacy"
               PROVE  /\ audit[r] = "none"
                      /\ \A c \in Convs :
                           /\ creator[c] # r
                           /\ Readable(c) =>
                                \A i \in DOMAIN history[c] : history[c][i].by # r
                           /\ context[c] \in Context => r \notin Range(context[c].refs)
    BY DEF FallbackLeavesNoTrace
  <2>1. audit[r] = "none" /\ NoTrace(r)
    BY <1>1 DEF Own, AuditFits, Traceless
  <2>2. \A c \in Convs : context[c] \in Context => r \notin Range(context[c].refs)
    BY <1>2, <2>1 DEF Stored, RefsOf
  <2>3. \A c \in Convs :
          Readable(c) => \A i \in DOMAIN history[c] : history[c][i] \in Range(history[c])
    BY DEF Range
  <2> QED BY <2>1, <2>2, <2>3 DEF NoTrace
<1> QED BY <1>3, <1>4, <1>5, <1>6

\* Contexts, conversations, audits and requests keep their types; a migrated
\* list of turns is a list of turns.
THEOREM DispatchTypeCorrect == Spec => []TypeOK
<1>1. Inv => TypeOK
  BY DEF Inv
<1> QED BY <1>1, Invariance, PTL

\* An answer that reports no error is in the context with its reference, in the
\* audit and in the legacy conversation (dispatch, try_handle_v4_pre_route), for
\* any number of requests at a time; the conversation may have lost it only
\* when append_turn has run twice at once on it, was deleted or is full.
THEOREM AnswersAreRecorded == Spec => []OkReplyRecorded
<1>1. Inv => OkReplyRecorded
  BY InvImplies
<1> QED BY <1>1, Invariance, PTL

\* No audit reference, in a context or in an answer, is dangling
\* (attach_audit_reference, build_v4_response, build_v4_error_response).
THEOREM ReferencesResolve == Spec => []RefsResolve
<1>1. Inv => RefsResolve
  BY InvImplies
<1> QED BY <1>1, Invariance, PTL

\* An error that was shown is not "ok" in the audit unless an audit write
\* failed.
THEOREM ErrorsNeverAuditedOk == Spec => []ErrorNotAuditedOk
<1>1. Inv => ErrorNotAuditedOk
  BY InvImplies
<1> QED BY <1>1, Invariance, PTL

\* A request that falls back has created and recorded nothing
\* (test_fallback_does_not_create_or_append_history).
THEOREM FallbacksLeaveNoTrace == Spec => []FallbackLeavesNoTrace
<1>1. Inv => FallbackLeavesNoTrace
  BY InvImplies
<1> QED BY <1>1, Invariance, PTL

\* A step of r leaves the contexts alone, or changes that of its conversation;
\* garbage it only puts into quarantine, with an error.
Shows(r) ==
  \A c \in Convs :
    context[c] = Garbage /\ context'[c] # Garbage =>
      /\ context'[c] = Absent
      /\ req[r].conv = c /\ ~At(r, "error") /\ req'[r].pc = "error"

LEMMA ErrorShows ==
  ASSUME Inv, NEW r \in Requests, req[r].conv \in Convs, ~At(r, "error"), GoTo(r, "error"),
         \/ UNCHANGED context
         \/ context' = [context EXCEPT ![req[r].conv] = Absent]
         \/ /\ context[req[r].conv] # Garbage
            /\ \E x : context' = [context EXCEPT ![req[r].conv] = x]
  PROVE  Shows(r)
<1>1. req'[r].pc = "error" /\ context \in [Convs -> Content]
  BY GoToMoves DEF Labels, Inv, TypeOK
<1> QED BY <1>1 DEF Shows

LEMMA OverContextShows ==
  ASSUME Inv, NEW r \in Requests, NEW c \in Convs, context[c] # Garbage, NEW x,
         context' = [context EXCEPT ![c] = x]
  PROVE  Shows(r)
BY DEF Shows, Inv, TypeOK

LEMMA StepShows ==
  ASSUME Inv, NEW r \in Requests, Step(r)
  PROVE  Shows(r)
<1> DEFINE c == req[r].conv
<1>1. CASE UNCHANGED context
  BY <1>1 DEF Shows
<1>2. ASSUME req[r].pc \in Working \cup {"ref"}
      PROVE  c \in Convs /\ ~At(r, "error")
  BY <1>2, OwnType DEF Own, Staged, Working, Behind, At
<1>3. ASSUME NEW o, req[r].pc \in Working \cup {"ref"}, GoTo(r, "error"), StoreFails(r, o)
      PROVE  Shows(r)
  BY <1>2, <1>3, ErrorShows DEF StoreFails
<1>4. ASSUME NEW o, NEW l, req[r].pc \in Working \cup {"ref"}, Store(r, o, l)
      PROVE  Shows(r)
  BY <1>2, <1>3, <1>4, OverContextShows DEF Store
<1>5. CASE Load(r)
  <2>1. req[r].pc \in Working \cup {"ref"}
    BY <1>5 DEF Load, At, Working
  <2> QED BY <1>1, <1>2, <1>5, <2>1, ErrorShows DEF Load
<1>6. CASE Reload(r)
  <2>1. req[r].pc \in Working \cup {"ref"}
    BY <1>6 DEF Reload, At, Working
  <2> QED BY <1>1, <1>2, <1>6, <2>1, ErrorShows DEF Reload
<1>7. CASE Migrate(r)
  <2>1. req[r].pc \in Working \cup {"ref"}
    BY <1>7 DEF Migrate, At, Working
  <2> QED BY <1>1, <1>2, <1>3, <1>7, <2>1, OverContextShows DEF Migrate
<1>8. CASE AppendTurn(r)
  BY <1>4, <1>8 DEF AppendTurn, At, Working
<1>9. CASE AttachReference(r)
  BY <1>4, <1>9 DEF AttachReference, At
<1>10. CASE \/ Snapshot(r)
            \/ \E a \in Actions, sure, needsDevice \in BOOLEAN : Decide(r, a, sure, needsDevice)
            \/ NoArbiter(r) \/ Raise(r) \/ StageFallback(r) \/ InternalError(r)
            \/ KeepConversation(r) \/ (\E d \in Convs : NewConversation(r, d))
            \/ NoConversation(r) \/ RefuseBlank(r)
            \/ \E o \in Outcomes(req[r].action) : Handle(r, o) \/ HandlerFails(r, o)
  <2>1. UNCHANGED context
    BY <1>10 DEF Snapshot, Decide, NoArbiter, Raise, StageFallback, InternalError,
       KeepConversation, NewConversation, NoConversation, RefuseBlank, Handle,
       HandlerFails, stores
  <2> QED BY <1>1, <2>1
<1>11. CASE \/ WriteAudit(r) \/ BuildResponse(r) \/ ErrorEntry(r) \/ ReadHistory(r)
            \/ (\E d \in Convs : CreateHistory(r, d)) \/ SaveHistory(r) \/ RecordFails(r)
            \/ SaveFails(r) \/ \E t \in Said : OlderAnswer(r, t)
  <2>1. UNCHANGED context
    BY <1>11 DEF WriteAudit, BuildResponse, ErrorEntry, ReadHistory, CreateHistory,
       SaveHistory, RecordFails, SaveFails, OlderAnswer, stores
  <2> QED BY <1>1, <2>1
<1> QED BY <1>5, <1>6, <1>7, <1>8, <1>9, <1>10, <1>11 DEF Step

\* A context that cannot be read goes into quarantine by a request that reports
\* an error, and no other way (context_store.load, quarantine_invalid).
THEOREM QuarantineAlwaysShown == Spec => QuarantineShown
<1> DEFINE A == \A c \in Convs :
       context[c] = Garbage /\ context'[c] # Garbage =>
         /\ context'[c] = Absent
         /\ \E r \in Requests : req[r].conv = c /\ ~At(r, "error") /\ req'[r].pc = "error"
<1>1. Inv /\ [Next]_vars => [A]_vars
  <2> SUFFICES ASSUME Inv, Next PROVE A
    OBVIOUS
  <2>1. ASSUME NEW r \in Requests, Step(r) PROVE A
    BY <2>1, StepShows DEF Shows
  <2>2. ASSUME NEW d \in Convs, Damage(d) PROVE A
    BY <2>2, ContentAssumption DEF Damage, Inv, TypeOK
  <2>3. CASE UNCHANGED context
    BY <2>3
  <2>4. \/ \E r \in Requests : Step(r)
        \/ \E d \in Convs : Damage(d)
        \/ UNCHANGED context
    BY DEF Next, Arrive, Crash, Delete, stores
  <2> QED BY <2>1, <2>2, <2>3, <2>4
<1> QED BY <1>1, Invariance, PTL DEF Spec, QuarantineShown

-----------------------------------------------------------------------------
(* Each step of a question goes on.                                         *)

\* The labels that may come after each, at most.
LabelsAfter ==
  [new |-> 0, done |-> 0, dead |-> 0, save |-> 1, internal |-> 1, history |-> 2,
   older |-> 3, error |-> 3, fallback |-> 4, reply |-> 4, ref |-> 5, audit |-> 6,
   append |-> 7, handle |-> 8, reload |-> 9, migrate |-> 10, load |-> 11, ensure |-> 12,
   decide |-> 13, snapshot |-> 14]

LabelsLeft(r) == LabelsAfter[req[r].pc]

LEMMA LabelsAre ==
  /\ LabelsAfter["new"] = 0 /\ LabelsAfter["done"] = 0 /\ LabelsAfter["dead"] = 0
  /\ LabelsAfter["save"] = 1 /\ LabelsAfter["internal"] = 1 /\ LabelsAfter["history"] = 2
  /\ LabelsAfter["older"] = 3 /\ LabelsAfter["error"] = 3
  /\ LabelsAfter["fallback"] = 4 /\ LabelsAfter["reply"] = 4
  /\ LabelsAfter["ref"] = 5 /\ LabelsAfter["audit"] = 6 /\ LabelsAfter["append"] = 7
  /\ LabelsAfter["handle"] = 8 /\ LabelsAfter["reload"] = 9 /\ LabelsAfter["migrate"] = 10
  /\ LabelsAfter["load"] = 11 /\ LabelsAfter["ensure"] = 12 /\ LabelsAfter["decide"] = 13
  /\ LabelsAfter["snapshot"] = 14
BY DEF LabelsAfter

LEMMA StepLeads ==
  ASSUME Inv, NEW r \in Requests, Step(r)
  PROVE  LabelsLeft(r)' < LabelsLeft(r)
<1> DEFINE new == req'[r].pc
<1>r. req \in [Requests -> RequestType] /\ LabelsLeft(r)' = LabelsAfter[new]
  BY OwnType DEF LabelsLeft
<1>g. ASSUME NEW l, GoTo(r, l) PROVE new = l
  BY <1>r, <1>g DEF GoTo, RequestType
<1>o. ASSUME NEW reason, FallBack(r, reason) PROVE new = "older"
  BY <1>r, <1>o DEF FallBack, Over, RequestType
<1>a. ASSUME NEW reply, Answer(r, reply) PROVE new = "done"
  BY <1>r, <1>a DEF Answer, Over, RequestType
<1>1. CASE Snapshot(r)
  <2>1. At(r, "snapshot") /\ new = "decide"
    BY <1>1, <1>r DEF Snapshot, RequestType
  <2> QED BY <1>r, <2>1, LabelsAre DEF At, LabelsLeft
<1>2. CASE NoArbiter(r) \/ Raise(r)
           \/ \E a \in Actions, sure, needsDevice \in BOOLEAN : Decide(r, a, sure, needsDevice)
  <2>1. ASSUME NEW a, NEW sure, NEW needsDevice, Decide(r, a, sure, needsDevice)
        PROVE  At(r, "decide") /\ new \in {"ensure", "fallback"}
    BY <1>r, <2>1 DEF Decide, RequestType
  <2>2. NoArbiter(r) => At(r, "decide") /\ new = "fallback"
    BY <1>r DEF NoArbiter, RequestType
  <2>3. Raise(r) => (At(r, "decide") \/ At(r, "handle")) /\ new = "internal"
    BY <1>g DEF Raise, At
  <2>4. \/ At(r, "decide") /\ new \in {"ensure", "fallback", "internal"}
        \/ At(r, "handle") /\ new = "internal"
    BY <1>2, <2>1, <2>2, <2>3
  <2> QED BY <1>r, <2>4, LabelsAre DEF At, LabelsLeft
<1>3. CASE StageFallback(r)
  <2>1. At(r, "fallback") /\ new = "older"
    BY <1>3, <1>o DEF StageFallback
  <2> QED BY <1>r, <2>1, LabelsAre DEF At, LabelsLeft
<1>4. CASE InternalError(r)
  <2>1. At(r, "internal") /\ new = "done"
    BY <1>4, <1>r DEF InternalError, Over, RequestType
  <2> QED BY <1>r, <2>1, LabelsAre DEF At, LabelsLeft
<1>5. CASE KeepConversation(r) \/ NoConversation(r) \/ \E c \in Convs : NewConversation(r, c)
  <2>1. At(r, "ensure") /\ new \in {"load", "older"}
    BY <1>5, <1>r, <1>g, <1>o DEF KeepConversation, NoConversation, NewConversation, RequestType
  <2> QED BY <1>r, <2>1, LabelsAre DEF At, LabelsLeft
<1>6. CASE RefuseBlank(r) \/ Load(r)
  <2>1. At(r, "load")
    BY <1>6 DEF RefuseBlank, Load
  <2>2. \A f : Prepared(r, f).pc \in {"migrate", "handle"}
    BY <1>r DEF Prepared, RequestType
  <2>3. new \in {"internal", "handle", "migrate", "error"}
    BY <1>6, <1>r, <1>g, <2>2 DEF RefuseBlank, Load, RequestType
  <2> QED BY <1>r, <2>1, <2>3, LabelsAre DEF At, LabelsLeft
<1>7. CASE Migrate(r)
  <2>1. At(r, "migrate") /\ new \in {"handle", "reload", "error"}
    BY <1>7, <1>r, <1>g DEF Migrate, RequestType
  <2> QED BY <1>r, <2>1, LabelsAre DEF At, LabelsLeft
<1>8. CASE Reload(r)
  <2>1. At(r, "reload") /\ new \in {"handle", "error"}
    BY <1>8, <1>r, <1>g DEF Reload, RequestType
  <2> QED BY <1>r, <2>1, LabelsAre DEF At, LabelsLeft
<1>9. CASE \E o \in Outcomes(req[r].action) : Handle(r, o) \/ HandlerFails(r, o)
  <2>1. At(r, "handle") /\ new \in {"append", "error"}
    BY <1>9, <1>r DEF Handle, HandlerFails, RequestType
  <2> QED BY <1>r, <2>1, LabelsAre DEF At, LabelsLeft
<1>10. ASSUME NEW o, NEW l, Store(r, o, l) PROVE new \in {l, "error"}
  BY <1>10, <1>g DEF Store
<1>11. CASE AppendTurn(r)
  <2>1. At(r, "append") /\ new \in {"audit", "error"}
    BY <1>10, <1>11 DEF AppendTurn
  <2> QED BY <1>r, <2>1, LabelsAre DEF At, LabelsLeft
<1>12. CASE WriteAudit(r)
  <2>1. At(r, "audit") /\ new \in {"ref", "error"}
    BY <1>12, <1>g DEF WriteAudit
  <2> QED BY <1>r, <2>1, LabelsAre DEF At, LabelsLeft
<1>13. CASE AttachReference(r)
  <2>1. At(r, "ref") /\ new \in {"reply", "error"}
    BY <1>10, <1>13 DEF AttachReference
  <2> QED BY <1>r, <2>1, LabelsAre DEF At, LabelsLeft
<1>14. CASE BuildResponse(r)
  <2>1. At(r, "reply") /\ new \in {"history", "error"}
    BY <1>14, <1>r, <1>g DEF BuildResponse, RequestType
  <2> QED BY <1>r, <2>1, LabelsAre DEF At, LabelsLeft
<1>15. CASE ErrorEntry(r)
  <2>1. At(r, "error") /\ new = "history"
    BY <1>15, <1>r DEF ErrorEntry, ErrorResponse, RequestType
  <2> QED BY <1>r, <2>1, LabelsAre DEF At, LabelsLeft
<1>16. Unrecorded(r) => new = "done"
  BY <1>a DEF Unrecorded
<1>17. CASE RecordFails(r) \/ ReadHistory(r) \/ \E c \in Convs : CreateHistory(r, c)
  <2>1. At(r, "history") /\ new \in {"done", "save"}
    BY <1>16, <1>17, <1>r DEF RecordFails, ReadHistory, CreateHistory, Drafted, RequestType
  <2> QED BY <1>r, <2>1, LabelsAre DEF At, LabelsLeft
<1>18. CASE SaveHistory(r) \/ SaveFails(r)
  <2>1. At(r, "save") /\ new = "done"
    BY <1>16, <1>18, <1>a DEF SaveHistory, SaveFails
  <2> QED BY <1>r, <2>1, LabelsAre DEF At, LabelsLeft
<1>19. CASE \E t \in Said : OlderAnswer(r, t)
  <2>1. At(r, "older") /\ new = "history"
    BY <1>19, <1>r DEF OlderAnswer, RequestType
  <2> QED BY <1>r, <2>1, LabelsAre DEF At, LabelsLeft
<1> QED BY <1>1, <1>2, <1>3, <1>4, <1>5, <1>6, <1>7, <1>8, <1>9, <1>11, <1>12, <1>13,
           <1>14, <1>15, <1>17, <1>18, <1>19 DEF Step

\* A step of one question is not one of another.
LEMMA StepAlone ==
  ASSUME Inv, NEW r \in Requests, NEW p \in Requests \ {r}, Step(p)
  PROVE  req'[r] = req[r]
<1>r. req \in [Requests -> RequestType]
  BY OwnType
<1>g. ASSUME NEW l, GoTo(p, l) PROVE req'[r] = req[r]
  BY <1>r, <1>g DEF GoTo
<1>o. ASSUME NEW reason, FallBack(p, reason) PROVE req'[r] = req[r]
  BY <1>r, <1>o DEF FallBack
<1>a. ASSUME NEW reply, Answer(p, reply) PROVE req'[r] = req[r]
  BY <1>r, <1>a DEF Answer
<1>s. ASSUME NEW o, NEW l, Store(p, o, l) PROVE req'[r] = req[r]
  BY <1>g, <1>s DEF Store
<1>d. ASSUME NEW a, NEW sure, NEW needsDevice, Decide(p, a, sure, needsDevice)
      PROVE  req'[r] = req[r]
  BY <1>r, <1>d DEF Decide
<1>1. CASE \/ Snapshot(p) \/ NoArbiter(p) \/ Raise(p) \/ InternalError(p)
           \/ \E a \in Actions, sure, needsDevice \in BOOLEAN : Decide(p, a, sure, needsDevice)
  BY <1>1, <1>d, <1>r, <1>g DEF Snapshot, NoArbiter, Raise, InternalError
<1>2. CASE \/ StageFallback(p) \/ KeepConversation(p) \/ NoConversation(p)
           \/ \E c \in Convs : NewConversation(p, c)
  BY <1>2, <1>r, <1>g, <1>o DEF StageFallback, KeepConversation, NoConversation, NewConversation
<1>3. CASE RefuseBlank(p) \/ Load(p) \/ Migrate(p) \/ Reload(p)
  BY <1>3, <1>r, <1>g DEF RefuseBlank, Load, Migrate, Reload
<1>4. CASE \E o \in Outcomes(req[p].action) : Handle(p, o) \/ HandlerFails(p, o)
  BY <1>4, <1>r DEF Handle, HandlerFails
<1>5. CASE AppendTurn(p) \/ WriteAudit(p) \/ AttachReference(p)
  BY <1>5, <1>g, <1>s DEF AppendTurn, WriteAudit, AttachReference
<1>6. CASE BuildResponse(p) \/ ErrorEntry(p)
  BY <1>6, <1>r, <1>g DEF BuildResponse, ErrorEntry
<1>7. CASE \/ ReadHistory(p) \/ SaveHistory(p) \/ RecordFails(p) \/ SaveFails(p)
           \/ (\E c \in Convs : CreateHistory(p, c)) \/ \E t \in Said : OlderAnswer(p, t)
  <2>1. Unrecorded(p) => req'[r] = req[r]
    BY <1>a DEF Unrecorded
  <2> QED BY <1>7, <1>r, <1>a, <2>1 DEF ReadHistory, CreateHistory, Drafted, SaveHistory,
          RecordFails, SaveFails, OlderAnswer
<1> QED BY <1>1, <1>2, <1>3, <1>4, <1>5, <1>6, <1>7 DEF Step

\* No question of V4 comes back to where it was: a context that another process
\* has migrated first is read once more, an error is recorded once, a fall-back
\* does not return, whatever fails; and no step of another question, no deletion
\* and no damage leads it back (entry_router, action_dispatcher, app_bridge).
THEOREM QuestionComesNearer ==
  Spec => /\ [](\A r \in Requests : LabelsLeft(r) \in Nat)
          /\ [][\A r \in Requests :
                  /\ Step(r) => LabelsLeft(r)' < LabelsLeft(r)
                  /\ r \in Active => LabelsLeft(r)' <= LabelsLeft(r)]_vars
<1>1. Inv => \A r \in Requests : LabelsLeft(r) \in Nat
  <2> SUFFICES ASSUME Inv, NEW r \in Requests PROVE LabelsLeft(r) \in Nat
    OBVIOUS
  <2>1. req[r].pc \in Labels
    BY OwnType DEF RequestType
  <2> QED BY <2>1, LabelsAre DEF LabelsLeft, Labels
<1>2. Inv /\ [Next]_vars =>
        [\A r \in Requests :
           /\ Step(r) => LabelsLeft(r)' < LabelsLeft(r)
           /\ r \in Active => LabelsLeft(r)' <= LabelsLeft(r)]_vars
  <2> SUFFICES ASSUME Inv, Next, NEW r \in Requests
               PROVE  /\ Step(r) => LabelsLeft(r)' < LabelsLeft(r)
                      /\ r \in Active => LabelsLeft(r)' <= LabelsLeft(r)
    OBVIOUS
  <2>1. LabelsLeft(r) \in Nat
    BY <1>1
  <2>2. CASE req'[r] = req[r]
    <3>1. LabelsLeft(r)' = LabelsLeft(r)
      BY <2>2 DEF LabelsLeft
    <3> QED BY <2>1, <3>1, StepLeads
  <2>3. CASE Step(r)
    <3>1. LabelsLeft(r)' < LabelsLeft(r)
      BY <2>3, StepLeads
    <3>2. LabelsLeft(r)' \in Nat
      <4>1. Inv'
        BY StepInv
      <4>2. req'[r].pc \in Labels
        BY <4>1 DEF Inv, TypeOK, RequestType
      <4> QED BY <4>2, LabelsAre DEF LabelsLeft, Labels
    <3> QED BY <2>1, <3>1, <3>2
  <2>4. CASE Crash(r)
    <3>1. req'[r].pc = "dead"
      BY <2>4, OwnType DEF Crash, NewRequest
    <3>2. LabelsLeft(r)' = 0
      BY <3>1, LabelsAre DEF LabelsLeft
    <3> QED BY <2>1, <3>2, StepLeads
  <2>5. CASE \E c \in Convs \cup {NoConv}, blank \in BOOLEAN : Arrive(r, c, blank)
    <3>1. r \notin Active /\ ~Step(r)
      BY <2>5 DEF Arrive, Active, At, Step, Snapshot, Decide, NoArbiter, Raise, StageFallback,
         InternalError, KeepConversation, NewConversation, NoConversation, RefuseBlank, Load,
         Migrate, Reload, Handle, HandlerFails, AppendTurn, WriteAudit, AttachReference,
         BuildResponse, ErrorEntry, OlderAnswer, ReadHistory, CreateHistory, SaveHistory,
         RecordFails, SaveFails
    <3> QED BY <3>1
  <2>6. ASSUME NEW p \in Requests \ {r},
               \/ Step(p) \/ Crash(p)
               \/ \E c \in Convs \cup {NoConv}, blank \in BOOLEAN : Arrive(p, c, blank)
        PROVE  req'[r] = req[r]
    BY <2>6, StepAlone, OwnType DEF Crash, Arrive
  <2>7. (\E c \in Convs : Delete(c) \/ Damage(c)) => req'[r] = req[r]
    BY DEF Delete, Damage
  <2> QED BY <2>2, <2>3, <2>4, <2>5, <2>6, <2>7 DEF Next
<1> QED BY <1>1, <1>2, Invariance, PTL DEF Spec
=============================================================================
