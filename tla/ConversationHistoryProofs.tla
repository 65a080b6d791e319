--------------------- MODULE ConversationHistoryProofs ---------------------
(***************************************************************************)
(* What a conversation shows, whose turns, and where an answer is, for     *)
(* every set of requests, conversations and limits.                        *)
(***************************************************************************)
EXTENDS ConversationHistory, SequenceTheorems, TLAPS

\* Where a request writes, and what its synchronisation is about.
Located ==
  \A q \in Questions :
    /\ req[q].pc \in {"open", "write", "replace"} => req[q].conv \in Convs
    /\ req[q].phase # "append" => req[q].reply \in Convs \cup {NoConv}

TypeInv == TypeOK /\ Located

\* A conversation whose writers never overlapped has at most one, which has
\* read what the file still shows and holds the temporary file.
Serial(c) ==
  /\ file[c] = promised[c]
  /\ \A p, q \in Writing(c) : p = q
  /\ \A q \in Writing(c) :
       /\ IsHistory(promised[c])
       /\ req[q].draft = Cut(Append(promised[c], q))
       /\ At(q, "write") => req[q].open = "tmp" /\ tmp[c] = Empty
       /\ At(q, "replace") => tmp[c] = req[q].draft

Inv == TypeInv /\ \A c \in Convs \ overlapped : Serial(c)

\* The values a request's fields are given, so that no step about records has
\* to list the sets they lie in.
LEMMA Known ==
  /\ {"new", "search", "read", "create", "open", "write", "replace", "done", "lost"} \subseteq Labels
  /\ {"append", "sync", "retry"} \subseteq Phases
  /\ {"none", "tmp", "file", "nothing"} \subseteq Places
  /\ Convs \cup {NoConv, "none", "failed"} \subseteq Replies
  /\ "other" \in LoopRoutes \cup PoolRoutes
BY DEF Labels, Phases, Places, Replies, Ended, PoolRoutes

LEMMA HistoryCases ==
  ASSUME NEW h \in Contents
  PROVE  /\ IsHistory(h) <=> h \in Histories
         /\ Absent # Empty /\ Absent # Garbage /\ Empty # Garbage
BY FileAssumption DEF Contents, IsHistory

LEMMA CutType ==
  ASSUME NEW h \in Histories
  PROVE  Cut(h) \in Histories /\ Len(Cut(h)) <= MaxTurns
<1>1. CASE Len(h) <= MaxTurns
  BY <1>1, LenProperties, HistoryAssumption DEF Cut, Histories
<1>2. CASE Len(h) > MaxTurns
  <2> DEFINE m == Len(h) - MaxTurns + 1
             u == SubSeq(h, m, Len(h))
  <2>1. Len(h) \in Nat /\ \A i \in 1..Len(h) : h[i] \in Turns
    BY LenProperties, ElementOfSeq DEF Histories
  <2>2. m \in 1..Len(h) + 1 /\ Len(h) - m + 1 = MaxTurns
    BY <1>2, <2>1, HistoryAssumption
  <2>3. u \in Seq(Turns) /\ Len(u) = MaxTurns
    BY <1>2, <2>1, <2>2, SubSeqProperties, HistoryAssumption, Z3 DEF Histories
  <2>4. Cut(h) = u
    BY <1>2, <2>1 DEF Cut
  <2> QED BY <2>3, <2>4, HistoryAssumption DEF Histories
<1> QED BY <1>1, <1>2, LenProperties, HistoryAssumption DEF Histories

LEMMA FirstTurn ==
  ASSUME NEW q \in Questions
  PROVE  /\ <<q>> \in Histories
         /\ Cut(Append(<<>>, q)) = <<q>>
         /\ Len(<<q>>) <= MaxTurns
BY HistoryAssumption DEF Histories, Turns, Cut

LEMMA InitInv == Init => Inv
<1> SUFFICES ASSUME Init PROVE Inv
  OBVIOUS
<1>1. \A c \in DOMAIN Saved : c \in Convs /\ Saved[c] \in Histories
  BY SavedAssumption DEF Histories, Turns
<1>2. TypeOK
  <2>1. NewRequest \in Request /\ NewRequest.draft = <<>>
    BY Known DEF NewRequest, Request, Histories, PoolRoutes
  <2>2. \A q \in Questions : Len(req[q].draft) <= MaxTurns
    BY <2>1, HistoryAssumption DEF Init
  <2> QED BY <1>1, <2>1, <2>2 DEF Init, TypeOK, Contents
<1>3. Located /\ \A c \in Convs : Writing(c) = {}
  BY DEF Init, Located, NewRequest, Writing
<1> QED BY <1>2, <1>3 DEF Init, Inv, TypeInv, Serial

-----------------------------------------------------------------------------
(* Types                                                                    *)

LEMMA FailedType ==
  ASSUME NEW r \in Request,
         r.phase # "append" => r.reply \in Convs \cup {NoConv}
  PROVE  /\ Failed(r) \in Request
         /\ Failed(r).pc \in {"read", "done"}
         /\ Failed(r).phase # "append" => Failed(r).reply \in Convs \cup {NoConv}
         /\ Failed(r).draft = r.draft
<1>1. CASE r.phase = "append" /\ r.route \in LoopRoutes
  BY Known, <1>1 DEF Failed, Request, PoolRoutes
<1>2. CASE r.phase = "sync"
  BY Known, <1>2 DEF Failed, Request
<1>3. CASE r.phase = "retry"
  BY Known, <1>3 DEF Failed, Request
<1>4. CASE r.phase = "append" /\ r.route \notin LoopRoutes
  BY Known, <1>4 DEF Failed, Request
<1>5. r.phase \in Phases
  BY DEF Request
<1> QED BY <1>1, <1>2, <1>3, <1>4, <1>5 DEF Phases

LEMMA RecordedType ==
  ASSUME NEW r \in Request, NEW q \in Questions, r.conv \in Convs,
         r.phase # "append" => r.reply \in Convs \cup {NoConv}
  PROVE  /\ Recorded(q, r) \in Request
         /\ Recorded(q, r).pc \in {"read", "done"}
         /\ Recorded(q, r).phase # "append" => Recorded(q, r).reply \in Convs \cup {NoConv}
         /\ Recorded(q, r).draft = r.draft
<1>1. CASE r.route = "analyse" /\ r.phase = "append"
  BY Known, <1>1 DEF Recorded, Request
<1>2. CASE ~(r.route = "analyse" /\ r.phase = "append") /\ r.phase = "append"
  BY Known, <1>2 DEF Recorded, Request
<1>3. CASE r.phase # "append"
  BY Known, <1>3 DEF Recorded, Request
<1> QED BY <1>1, <1>2, <1>3

LEMMA UnlinkedType ==
  ASSUME TypeInv, NEW gone
  PROVE  /\ Unlinked(gone) \in [Questions -> Request]
         /\ \A q \in Questions :
              /\ Unlinked(gone)[q].pc = req[q].pc
              /\ Unlinked(gone)[q].conv = req[q].conv
              /\ Unlinked(gone)[q].draft = req[q].draft
              /\ Unlinked(gone)[q].phase = req[q].phase
              /\ Unlinked(gone)[q].reply = req[q].reply
              /\ req[q].conv \notin gone => Unlinked(gone)[q] = req[q]
BY Known DEF TypeInv, TypeOK, Unlinked, Request

LEMMA OverlayType ==
  ASSUME TypeInv, NEW q \in Questions, At(q, "write")
  PROVE  /\ Target(q) \in Contents
         /\ Overlay(Target(q), req[q].draft) \subseteq Contents
BY Known DEF TypeInv, TypeOK, Located, At, Target, Overlay, Contents, Request

LEMMA FillType ==
  ASSUME TypeInv, NEW q \in Questions, NEW text \in Contents, Fill(q, text)
  PROVE  file' \in [Convs -> Contents] /\ tmp' \in [Convs -> Contents]
BY DEF TypeInv, TypeOK, Fill

\* Creating or removing files changes no type.
LEMMA CreateFileType ==
  ASSUME TypeInv, NEW c \in Convs, CreateFile(c)
  PROVE  /\ file' \in [Convs -> Contents]
         /\ aged' \in SUBSET Convs
         /\ promised' \in [Convs -> {Absent} \cup Histories]
         /\ overlapped' \in SUBSET Convs
         /\ removed' \in SUBSET Convs
BY DEF TypeInv, TypeOK, CreateFile, Remove, Expired, Contents, Histories

LEMMA UnlinkType ==
  ASSUME TypeInv, NEW gone \in SUBSET Convs, Unlink(gone)
  PROVE  TypeInv'
<1>1. file' \in [Convs -> Contents] /\ promised' \in [Convs -> {Absent} \cup Histories]
  BY DEF TypeInv, TypeOK, Unlink, Contents
<1>2. req' = Unlinked(gone)
  BY DEF Unlink
<1>3. TypeOK'
  BY <1>1, <1>2, UnlinkedType DEF TypeInv, TypeOK, Unlink, Remove
<1>4. Located'
  BY <1>2, UnlinkedType DEF TypeInv, Located
<1> QED BY <1>3, <1>4 DEF TypeInv

LEMMA StepType == ASSUME TypeInv, NEW q \in Questions, Step(q) PROVE TypeInv'
<1>0. /\ req \in [Questions -> Request]
      /\ req[q] \in Request
      /\ \A c \in Convs : file[c] \in Contents /\ tmp[c] \in Contents
      /\ \A p \in Questions : Len(req[p].draft) <= MaxTurns
  BY DEF TypeInv, TypeOK
<1>1. ASSUME NEW route \in LoopRoutes \cup PoolRoutes, NEW c \in Convs \cup {NoConv},
             Ask(q, route, c)
      PROVE  TypeInv'
  <2> DEFINE pc == CASE route = "export" -> "search"
                     [] route = "confirm" /\ c = NoConv -> "done"
                     [] OTHER -> "read"
             phase == IF route = "confirm" THEN "sync" ELSE "append"
             reply == IF route = "confirm" THEN c ELSE "none"
  <2>1. req' = [req EXCEPT ![q] = [@ EXCEPT !.route = route, !.given = c, !.conv = c,
                                            !.pc = pc, !.phase = phase, !.reply = reply]]
    BY <1>1 DEF Ask
  <2>2. /\ pc \in {"search", "done", "read"}
        /\ phase \in {"append", "sync"}
        /\ reply \in Convs \cup {NoConv, "none"}
        /\ phase # "append" => reply \in Convs \cup {NoConv}
    OBVIOUS
  <2> HIDE DEF pc, phase, reply
  <2>3. /\ req'[q] \in Request
        /\ req'[q].pc = pc /\ req'[q].phase = phase /\ req'[q].reply = reply
        /\ req'[q].draft = req[q].draft
        /\ \A p \in Questions \ {q} : req'[p] = req[p]
    BY Known, <1>0, <2>1, <2>2 DEF Request
  <2>4. req' \in [Questions -> Request]
    BY <1>0, <2>1, <2>3
  <2>5. TypeOK'
    BY <1>0, <1>1, <2>3, <2>4 DEF TypeInv, TypeOK, Ask
  <2>6. Located'
    BY <1>0, <2>2, <2>3 DEF TypeInv, Located
  <2> QED BY <2>5, <2>6 DEF TypeInv
<1>2. ASSUME Search(q) PROVE TypeInv'
  <2>1. ASSUME NEW h \in Histories PROVE LatestQuery(h) \in Turns \cup {NoTurn}
    BY DEF LatestQuery, IsQuery, Turns
  <2> DEFINE h == IF req[q].conv = NoConv THEN Absent ELSE file[req[q].conv]
             t == IF IsHistory(h) THEN LatestQuery(h) ELSE NoTurn
  <2>a. t \in Turns \cup {NoTurn}
    <3>1. h \in Contents
      BY Known, <1>0 DEF Request, Contents
    <3> QED BY <2>1, <3>1, HistoryCases
  <2>b. req' = [req EXCEPT ![q].pc = "read", ![q].source = t]
    BY <1>2 DEF Search
  <2> HIDE DEF t
  <2>2. req'[q] \in Request /\ req' = [req EXCEPT ![q] = req'[q]]
    BY Known, <1>0, <2>a, <2>b DEF Request
  <2>3. req'[q].pc = "read" /\ req'[q].draft = req[q].draft /\ req'[q].phase = req[q].phase
        /\ req'[q].reply = req[q].reply
    BY Known, <1>0, <1>2 DEF Search, Request
  <2> QED BY <1>0, <1>2, <2>2, <2>3 DEF TypeInv, TypeOK, Located, Search
<1>3. ASSUME Read(q) PROVE TypeInv'
  <2> DEFINE c == req[q].conv
  <2>1. CASE c # NoConv /\ IsHistory(file[c])
    <3>1. c \in Convs
      BY Known, <1>0, <2>1 DEF Request
    <3>2. file[c] \in Histories
      BY <1>0, <2>1, <3>1, HistoryCases
    <3>3. Append(file[c], q) \in Histories
      BY <3>2, AppendProperties DEF Histories, Turns
    <3>4. Cut(Append(file[c], q)) \in Histories /\ Len(Cut(Append(file[c], q))) <= MaxTurns
      BY <3>3, CutType
    <3>5. /\ req' = [req EXCEPT ![q].pc = "open", ![q].draft = Cut(Append(file[c], q))]
          /\ overlapped' \in SUBSET Convs
      BY <1>3, <2>1, <3>1 DEF Read, TypeInv, TypeOK
    <3> QED BY Known, <1>0, <1>3, <3>1, <3>4, <3>5 DEF TypeInv, TypeOK, Located, Read, Request
  <2>2. CASE ~(c # NoConv /\ IsHistory(file[c]))
    <3>1. req' = [req EXCEPT ![q].pc = "create"] /\ overlapped' = overlapped
      BY <1>3, <2>2 DEF Read
    <3> QED BY Known, <1>0, <1>3, <3>1 DEF TypeInv, TypeOK, Located, Read, Request
  <2> QED BY <2>1, <2>2
<1>4. ASSUME NEW c \in Convs, Create(q, c) PROVE TypeInv'
  <2> DEFINE f == Unlinked(Expired)
             r == [f[q] EXCEPT !.pc = "open", !.conv = c, !.draft = <<q>>]
  <2>1. req' = [f EXCEPT ![q] = r]
    BY <1>4 DEF Create
  <2>2. /\ f \in [Questions -> Request]
        /\ \A p \in Questions :
             /\ f[p].draft = req[p].draft
             /\ f[p].phase = req[p].phase
             /\ f[p].reply = req[p].reply
             /\ f[p].pc = req[p].pc
             /\ f[p].conv = req[p].conv
    BY UnlinkedType
  <2> HIDE DEF f
  <2>3. /\ req' \in [Questions -> Request]
        /\ req'[q].conv = c
        /\ req'[q].draft = <<q>>
        /\ req'[q].phase = f[q].phase
        /\ req'[q].reply = f[q].reply
        /\ \A p \in Questions \ {q} : req'[p] = f[p]
    <3>0. f[q] \in Request /\ <<q>> \in Histories
      BY <2>2, FirstTurn
    <3>1. /\ r \in Request
          /\ r.conv = c
          /\ r.draft = <<q>>
          /\ r.phase = f[q].phase
          /\ r.reply = f[q].reply
      BY Known, <3>0 DEF Request
    <3> HIDE DEF r
    <3> QED BY <2>1, <2>2, <3>1
  <2>4. \A p \in Questions : req'[p].phase = req[p].phase /\ req'[p].reply = req[p].reply
    BY <2>2, <2>3
  <2>5. \A p \in Questions \ {q} :
          req'[p].pc = req[p].pc /\ req'[p].conv = req[p].conv /\ req'[p].draft = req[p].draft
    BY <2>2, <2>3
  <2>6. \A p \in Questions : Len(req'[p].draft) <= MaxTurns
    BY <1>0, <2>3, <2>5, FirstTurn
  <2>7. TypeOK'
    BY <1>4, <2>3, <2>6, CreateFileType DEF TypeInv, TypeOK, Create
  <2>8. Located'
    BY <2>3, <2>4, <2>5 DEF TypeInv, Located
  <2> QED BY <2>7, <2>8 DEF TypeInv
<1>5. ASSUME Open(q) PROVE TypeInv'
  <2>1. req[q].conv \in Convs
    BY <1>5 DEF TypeInv, Located, Open, At
  <2>2. tmp' \in [Convs -> Contents]
    BY <1>5, <2>1 DEF TypeInv, TypeOK, Open, Contents
  <2>3. req' = [req EXCEPT ![q].pc = "write", ![q].open = "tmp"]
    BY <1>5 DEF Open
  <2>4. req' \in [Questions -> Request]
    BY Known, <1>0, <2>3 DEF Request
  <2>5. \A p \in Questions :
          /\ req'[p].conv = req[p].conv
          /\ req'[p].phase = req[p].phase
          /\ req'[p].reply = req[p].reply
          /\ req'[p].draft = req[p].draft
          /\ p # q => req'[p].pc = req[p].pc
    BY Known, <1>0, <2>3 DEF Request
  <2>6. TypeOK'
    BY <1>5, <2>2, <2>4, <2>5 DEF TypeInv, TypeOK, Open
  <2>7. Located'
    BY <2>1, <2>5 DEF TypeInv, Located
  <2> QED BY <2>6, <2>7 DEF TypeInv
<1>6. ASSUME Write(q) PROVE TypeInv'
  <2>1. PICK text \in Overlay(Target(q), req[q].draft) : Fill(q, text)
    BY <1>6 DEF Write
  <2>2. At(q, "write")
    BY <1>6 DEF Write
  <2>3. file' \in [Convs -> Contents] /\ tmp' \in [Convs -> Contents]
    BY <2>1, <2>2, OverlayType, FillType
  <2>4. /\ req' = [req EXCEPT ![q].pc = "replace", ![q].open = "none"]
        /\ UNCHANGED <<aged, madeFor, promised, overlapped, removed>>
    BY <1>6 DEF Write
  <2>5. req' \in [Questions -> Request]
    BY Known, <1>0, <2>4 DEF TypeInv, TypeOK, Request
  <2>6. \A p \in Questions :
          /\ req'[p].conv = req[p].conv
          /\ req'[p].phase = req[p].phase
          /\ req'[p].reply = req[p].reply
          /\ req'[p].draft = req[p].draft
          /\ p # q => req'[p].pc = req[p].pc
    BY Known, <1>0, <2>4 DEF TypeInv, TypeOK, Request
  <2>7. TypeOK'
    BY <2>3, <2>4, <2>5, <2>6 DEF TypeInv, TypeOK
  <2>8. Located'
    BY <2>2, <2>6 DEF TypeInv, Located, At
  <2> QED BY <2>7, <2>8 DEF TypeInv
<1>7. ASSUME Replace(q) PROVE TypeInv'
  <2> DEFINE c == req[q].conv
             old == IF IsHistory(promised[c]) THEN promised[c] ELSE <<>>
  <2>1. c \in Convs
    BY <1>7 DEF TypeInv, Located, Replace, At
  <2>2. old \in Histories
    BY <2>1, HistoryCases DEF TypeInv, TypeOK, Contents, Histories
  <2>3. Cut(Append(old, q)) \in Histories
    BY <2>2, CutType, AppendProperties DEF Histories, Turns
  <2>4. promised' \in [Convs -> {Absent} \cup Histories]
    BY <1>7, <2>1, <2>3 DEF TypeInv, TypeOK, Replace
  <2>5. Recorded(q, req[q]) \in Request /\ Recorded(q, req[q]).draft = req[q].draft
        /\ Recorded(q, req[q]).pc \in {"read", "done"}
        /\ (Recorded(q, req[q]).phase # "append"
             => Recorded(q, req[q]).reply \in Convs \cup {NoConv})
    BY <1>0, <2>1, RecordedType DEF TypeInv, Located
  <2>6. ASSUME NEW p \in Questions \ {q}
        PROVE  /\ req'[p] \in Request
               /\ req'[p].pc = req[p].pc
               /\ req'[p].conv = req[p].conv
               /\ req'[p].draft = req[p].draft
               /\ req'[p].phase = req[p].phase
               /\ req'[p].reply = req[p].reply
    BY Known, <1>0, <1>7 DEF Replace, Request, Renamed
  <2>7. req' \in [Questions -> Request] /\ req'[q] = Recorded(q, req[q])
    BY <1>7, <2>5, <2>6 DEF Replace
  <2> HIDE DEF c
  <2>a. /\ file' = [file EXCEPT ![c] = tmp[c]]
        /\ tmp' = [tmp EXCEPT ![c] = Absent]
        /\ aged' = aged \ {c}
        /\ UNCHANGED <<madeFor, overlapped, removed>>
    BY <1>7 DEF Replace, c
  <2>b. file' \in [Convs -> Contents] /\ tmp' \in [Convs -> Contents]
    BY <2>1, <2>a DEF TypeInv, TypeOK, Contents
  <2>c. \A p \in Questions : Len(req'[p].draft) <= MaxTurns
    BY <1>0, <2>5, <2>6, <2>7
  <2>8. TypeOK'
    BY <2>a, <2>b, <2>c, <2>4, <2>7 DEF TypeInv, TypeOK
  <2>9. Located'
    BY <2>5, <2>6, <2>7 DEF TypeInv, Located
  <2> QED BY <2>8, <2>9 DEF TypeInv
<1>8. ASSUME Fail(q) PROVE TypeInv'
  <2>1. /\ Failed(req[q]) \in Request
        /\ Failed(req[q]).pc \in {"read", "done"}
        /\ Failed(req[q]).phase # "append" => Failed(req[q]).reply \in Convs \cup {NoConv}
        /\ Failed(req[q]).draft = req[q].draft
    BY <1>0, FailedType DEF TypeInv, Located
  <2>2. file' \in [Convs -> Contents] /\ tmp' \in [Convs -> Contents]
    <3>1. CASE At(q, "write")
      <4>1. PICK text \in {Target(q), Garbage} : Fill(q, text)
        BY <1>8, <3>1 DEF Fail
      <4>2. text \in Contents
        BY <3>1, OverlayType DEF Contents
      <4> QED BY <4>1, <4>2, FillType
    <3>2. CASE ~At(q, "write")
      BY <1>8, <3>2 DEF Fail, TypeInv, TypeOK
    <3> QED BY <3>1, <3>2
  <2>3. /\ req' = [req EXCEPT ![q] = Failed(req[q])]
        /\ UNCHANGED <<aged, madeFor, promised, overlapped, removed>>
    BY <1>8 DEF Fail
  <2>4. TypeOK'
    BY <1>0, <2>1, <2>2, <2>3 DEF TypeInv, TypeOK
  <2>5. Located'
    BY <1>0, <2>1, <2>3 DEF TypeInv, Located
  <2> QED BY <2>4, <2>5 DEF TypeInv
<1> QED
  BY <1>1, <1>2, <1>3, <1>4, <1>5, <1>6, <1>7, <1>8 DEF Step

LEMMA NextType == TypeInv /\ [Next]_vars => TypeInv'
<1> SUFFICES ASSUME TypeInv, [Next]_vars PROVE TypeInv'
  OBVIOUS
<1>1. ASSUME Crash PROVE TypeInv'
  <2>1. ASSUME NEW q \in Questions
        PROVE  /\ req'[q] \in Request
               /\ req'[q].draft = req[q].draft
               /\ req'[q].phase = req[q].phase
               /\ req'[q].reply = req[q].reply
               /\ req'[q].conv = req[q].conv
               /\ req'[q].pc \in {req[q].pc, "lost"}
    <3>1. req[q] \in Request
      BY DEF TypeInv, TypeOK
    <3>2. req'[q] = IF q \in Active THEN [req[q] EXCEPT !.pc = "lost", !.open = "none"]
                    ELSE req[q]
      BY <1>1 DEF Crash
    <3> QED BY Known, <3>1, <3>2 DEF Request
  <2>2. req' \in [Questions -> Request]
    BY <1>1, <2>1 DEF Crash
  <2>3. TypeOK'
    BY <1>1, <2>1, <2>2 DEF TypeInv, TypeOK, Crash
  <2>4. Located'
    BY <2>1 DEF TypeInv, Located
  <2> QED BY <2>3, <2>4 DEF TypeInv
<1>2. ASSUME NEW c \in Convs, CreateByApi(c) PROVE TypeInv'
  <2>1. TypeOK'
    BY <1>2, CreateFileType, UnlinkedType DEF TypeInv, TypeOK, CreateByApi
  <2>2. Located'
    BY <1>2, UnlinkedType DEF TypeInv, Located, CreateByApi
  <2> QED BY <2>1, <2>2 DEF TypeInv
<1>3. ASSUME NEW c \in Convs, Delete(c) PROVE TypeInv'
  BY <1>3, UnlinkType DEF Delete
<1>4. ASSUME List PROVE TypeInv'
  BY <1>4, UnlinkType DEF List, Expired, TypeInv, TypeOK
<1>5. CASE UNCHANGED vars
  BY <1>5 DEF vars, TypeInv, TypeOK, Located
<1> QED BY <1>1, <1>2, <1>3, <1>4, <1>5, StepType DEF Next

-----------------------------------------------------------------------------
(* One writer after the other                                               *)

LEMMA Untouched ==
  ASSUME NEW c \in Convs, Serial(c),
         file'[c] = file[c], promised'[c] = promised[c], tmp'[c] = tmp[c],
         \A p \in Writing(c)' :
           /\ p \in Writing(c)
           /\ req'[p].pc = req[p].pc
           /\ req'[p].open = req[p].open
           /\ req'[p].draft = req[p].draft
  PROVE  Serial(c)'
BY DEF Serial, At

LEMMA NoWriter ==
  ASSUME NEW c \in Convs, file'[c] = promised'[c], Writing(c)' = {}
  PROVE  Serial(c)'
BY DEF Serial

\* A removed conversation had no writer, unless its writers now overlap.
LEMMA RemovedSerial ==
  ASSUME Inv, NEW gone \in SUBSET Convs, Remove(gone), NEW c \in gone \ overlapped',
         file'[c] = promised'[c],
         \A p \in Writing(c)' : p \in Writing(c)
  PROVE  Serial(c)'
BY NoWriter DEF Remove

LEMMA StepSerial ==
  ASSUME Inv, NEW q \in Questions, Step(q), NEW c \in Convs \ overlapped'
  PROVE  Serial(c)'
<1>0. /\ req[q] \in Request /\ req \in [Questions -> Request]
      /\ \A d \in Convs : file[d] \in Contents /\ tmp[d] \in Contents
      /\ promised \in [Convs -> {Absent} \cup Histories]
      /\ file \in [Convs -> Contents] /\ tmp \in [Convs -> Contents]
  BY DEF Inv, TypeInv, TypeOK
<1>a. ASSUME c \notin overlapped PROVE Serial(c)
  BY <1>a DEF Inv
<1>1. ASSUME NEW route \in LoopRoutes \cup PoolRoutes, NEW d \in Convs \cup {NoConv},
             Ask(q, route, d)
      PROVE  Serial(c)'
  <2>1. req'[q].pc \in {"search", "done", "read"} /\ \A p \in Questions \ {q} : req'[p] = req[p]
    BY Known, <1>0, <1>1 DEF Ask, Request
  <2>2. \A p \in Writing(c)' : p # q /\ p \in Writing(c) /\ req'[p] = req[p]
    BY <2>1 DEF Writing
  <2> QED BY <1>1, <1>a, <2>2, Untouched DEF Ask
<1>2. ASSUME Search(q) PROVE Serial(c)'
  <2>1. req'[q].pc = "read" /\ \A p \in Questions \ {q} : req'[p] = req[p]
    BY Known, <1>0, <1>2 DEF Search, Request
  <2>2. \A p \in Writing(c)' : p # q /\ p \in Writing(c) /\ req'[p] = req[p]
    BY <2>1 DEF Writing
  <2> QED BY <1>2, <1>a, <2>2, Untouched DEF Search
<1>3. ASSUME Read(q) PROVE Serial(c)'
  <2> DEFINE d == req[q].conv
  <2>1. CASE ~(d # NoConv /\ IsHistory(file[d]))
    <3>1. req'[q].pc = "create" /\ \A p \in Questions \ {q} : req'[p] = req[p]
      BY Known, <1>0, <1>3, <2>1 DEF Read, Request
    <3>2. overlapped' = overlapped
      BY <1>3, <2>1 DEF Read
    <3>3. \A p \in Writing(c)' : p # q /\ p \in Writing(c) /\ req'[p] = req[p]
      BY <3>1 DEF Writing
    <3> QED BY <1>3, <1>a, <3>2, <3>3, Untouched DEF Read
  <2>2. CASE d # NoConv /\ IsHistory(file[d])
    <3>1. /\ req'[q].pc = "open"
          /\ req'[q].conv = d
          /\ req'[q].draft = Cut(Append(file[d], q))
          /\ \A p \in Questions \ {q} : req'[p] = req[p]
          /\ overlapped' = IF Writing(d) # {} THEN overlapped \cup {d} ELSE overlapped
      BY Known, <1>0, <1>3, <2>2 DEF Read, Request
    <3>2. CASE c # d
      <4>1. \A p \in Writing(c)' : p # q /\ p \in Writing(c) /\ req'[p] = req[p]
        BY <3>1, <3>2 DEF Writing
      <4>2. c \notin overlapped
        BY <3>1
      <4> QED BY <1>3, <1>a, <4>1, <4>2, Untouched DEF Read
    <3>3. CASE c = d
      <4>1. Writing(c) = {} /\ c \notin overlapped
        BY <3>1, <3>3
      <4>2. Writing(c)' = {q}
        BY <3>1, <3>3, <4>1 DEF Writing
      <4>3. file'[c] = file[c] /\ promised'[c] = promised[c] /\ file[c] = promised[c]
        BY <1>3, <1>a, <4>1 DEF Read, Serial
      <4> QED BY <2>2, <3>1, <3>3, <4>2, <4>3 DEF Serial, At
    <3> QED BY <3>2, <3>3
  <2> QED BY <2>1, <2>2
<1>4. ASSUME NEW d \in Convs, Create(q, d) PROVE Serial(c)'
  <2> DEFINE f == Unlinked(Expired)
             r == [f[q] EXCEPT !.pc = "open", !.conv = d, !.draft = <<q>>]
  <2>1. req' = [f EXCEPT ![q] = r] /\ CreateFile(d)
    BY <1>4 DEF Create
  <2>2. f \in [Questions -> Request]
    BY UnlinkedType DEF Inv
  <2>3. r.pc = "open" /\ r.conv = d /\ r.draft = <<q>>
    <3>1. f[q] \in Request
      BY <2>2
    <3> QED BY Known, <3>1 DEF Request
  <2> HIDE DEF r
  <2>4. \A p \in Questions \ {q} : req'[p] = f[p]
    BY <2>1, <2>2
  <2>5. req'[q].pc = "open" /\ req'[q].conv = d /\ req'[q].draft = <<q>>
    BY <2>1, <2>2, <2>3
  <2>6. \A p \in Questions : f[p].pc = req[p].pc /\ f[p].conv = req[p].conv
    BY UnlinkedType DEF Inv
  <2>7. c \notin overlapped
    BY <2>1 DEF CreateFile, Remove
  <2>8. CASE c = d
    <3>1. Writing(c) = {}
      BY <1>a, <2>1, <2>7, <2>8 DEF Serial, IsHistory, CreateFile
    <3>2. Writing(c)' = {q}
      BY <2>4, <2>5, <2>6, <2>8, <3>1 DEF Writing
    <3>3. file'[c] = <<>> /\ promised'[c] = <<>>
      BY <2>1, <2>8 DEF CreateFile
    <3>4. IsHistory(<<>>) /\ Cut(Append(<<>>, q)) = <<q>>
      <4>1. <<>> \in Histories
        BY DEF Histories
      <4> QED BY <4>1, HistoryCases, FirstTurn DEF Contents
    <3> QED BY <2>5, <3>2, <3>3, <3>4 DEF Serial, At
  <2>9. CASE c # d /\ c \in Expired
    <3>1. \A p \in Writing(c)' : p \in Writing(c)
      BY <2>4, <2>5, <2>6, <2>9 DEF Writing
    <3>2. file'[c] = promised'[c]
      BY <2>1, <2>9 DEF CreateFile
    <3>3. Expired \in SUBSET Convs /\ Remove(Expired)
      BY <2>1 DEF CreateFile, Expired, Inv, TypeInv, TypeOK
    <3> HIDE DEF f
    <3> QED BY <2>9, <3>1, <3>2, <3>3, RemovedSerial
  <2>10. CASE c # d /\ c \notin Expired
    <3>1. \A p \in Questions : req[p].conv = c => f[p] = req[p]
      BY <2>10, UnlinkedType DEF Inv
    <3>2. \A p \in Writing(c)' : p \in Writing(c) /\ req'[p] = req[p]
      BY <2>4, <2>5, <2>6, <2>10, <3>1 DEF Writing
    <3>3. file'[c] = file[c] /\ promised'[c] = promised[c] /\ tmp' = tmp
      BY <1>4, <2>1, <2>10 DEF CreateFile, Create
    <3> HIDE DEF f
    <3> QED BY <1>a, <2>7, <3>2, <3>3, Untouched
  <2> QED BY <2>8, <2>9, <2>10
<1>b. ASSUME req[q].pc \in {"open", "write", "replace"}, req[q].conv = c, c \notin overlapped
      PROVE  /\ Serial(c)
             /\ q \in Writing(c)
             /\ \A p \in Writing(c) : p = q
  BY <1>a, <1>b DEF Serial, Writing
<1>5. ASSUME Open(q) PROVE Serial(c)'
  <2>1. /\ req'[q].pc = "write" /\ req'[q].open = "tmp"
        /\ req'[q].conv = req[q].conv /\ req'[q].draft = req[q].draft
        /\ \A p \in Questions \ {q} : req'[p] = req[p]
        /\ req[q].pc = "open" /\ req[q].conv \in Convs
        /\ tmp' = [tmp EXCEPT ![req[q].conv] = Empty]
        /\ UNCHANGED <<file, promised, overlapped>>
    BY Known, <1>0, <1>5 DEF Open, At, Request, Inv, TypeInv, Located
  <2>2. CASE req[q].conv = c
    <3>1. Writing(c)' = {q}
      BY <1>b, <2>1, <2>2 DEF Writing
    <3> QED BY <1>0, <1>b, <2>1, <2>2, <3>1 DEF Serial, At
  <2>3. CASE req[q].conv # c
    <3>1. \A p \in Writing(c)' : p \in Writing(c) /\ req'[p] = req[p]
      BY <2>1, <2>3 DEF Writing
    <3> QED BY <1>0, <1>a, <2>1, <2>3, <3>1, Untouched
  <2> QED BY <2>2, <2>3
<1>6. ASSUME Write(q) PROVE Serial(c)'
  <2>1. /\ req'[q].pc = "replace"
        /\ req'[q].conv = req[q].conv /\ req'[q].draft = req[q].draft
        /\ \A p \in Questions \ {q} : req'[p] = req[p]
        /\ req[q].pc = "write" /\ req[q].conv \in Convs
        /\ UNCHANGED <<promised, overlapped>>
    BY Known, <1>0, <1>6 DEF Write, At, Request, Inv, TypeInv, Located
  <2>2. PICK text \in Overlay(Target(q), req[q].draft) : Fill(q, text)
    BY <1>6 DEF Write
  <2>3. CASE req[q].conv = c
    <3>1. Writing(c)' = {q}
      BY <1>b, <2>1, <2>3 DEF Writing
    <3>2. req[q].open = "tmp" /\ tmp[c] = Empty /\ Serial(c)
      BY <1>b, <2>1, <2>3 DEF Serial, At
    <3>3. text = req[q].draft
      BY <2>2, <2>3, <3>2 DEF Overlay, Target
    <3>4. tmp'[c] = req[q].draft /\ file' = file
      BY <1>0, <2>2, <2>3, <3>2, <3>3 DEF Fill
    <3> QED BY <1>b, <2>1, <2>3, <3>1, <3>4 DEF Serial, At
  <2>4. CASE req[q].conv # c
    <3>1. \A p \in Writing(c)' : p \in Writing(c) /\ req'[p] = req[p]
      BY <2>1, <2>4 DEF Writing
    <3>2. tmp'[c] = tmp[c] /\ file'[c] = file[c]
      BY <1>0, <2>2, <2>4 DEF Fill
    <3> QED BY <1>a, <2>1, <3>1, <3>2, Untouched
  <2> QED BY <2>3, <2>4
<1>7. ASSUME Replace(q) PROVE Serial(c)'
  <2> DEFINE d == req[q].conv
  <2>1. /\ req[q].pc = "replace" /\ d \in Convs
        /\ file' = [file EXCEPT ![d] = tmp[d]]
        /\ tmp' = [tmp EXCEPT ![d] = Absent]
        /\ promised' = [promised EXCEPT ![d] =
             Cut(Append(IF IsHistory(promised[d]) THEN promised[d] ELSE <<>>, q))]
        /\ overlapped' = overlapped
    BY <1>7 DEF Replace, At, Inv, TypeInv, Located
  <2>2. req'[q].pc \in {"read", "done"}
    <3>1. req'[q] = Recorded(q, req[q])
      BY <1>7 DEF Replace
    <3> QED BY <1>0, <2>1, <3>1, RecordedType DEF Inv, TypeInv, Located
  <2>3. \A p \in Questions \ {q} :
          /\ req'[p].pc = req[p].pc /\ req'[p].conv = req[p].conv
          /\ req[p].conv # d => req'[p] = req[p]
    BY Known, <1>0, <1>7 DEF Replace, Request
  <2>4. CASE d = c
    <3>1. Writing(c)' = {}
      BY <1>b, <2>1, <2>2, <2>3, <2>4 DEF Writing
    <3>2. tmp[c] = Cut(Append(promised[c], q)) /\ IsHistory(promised[c])
      BY <1>b, <2>1, <2>4 DEF Serial, At
    <3>3. file'[c] = promised'[c]
      BY <1>0, <2>1, <2>4, <3>2
    <3> QED BY <3>1, <3>3, NoWriter
  <2>5. CASE d # c
    <3>1. \A p \in Writing(c)' : p \in Writing(c) /\ req'[p] = req[p]
      BY <2>2, <2>3, <2>5 DEF Writing
    <3>2. tmp'[c] = tmp[c] /\ file'[c] = file[c] /\ promised'[c] = promised[c]
      BY <1>0, <2>1, <2>5
    <3> QED BY <1>a, <2>1, <3>1, <3>2, Untouched
  <2> QED BY <2>4, <2>5
<1>8. ASSUME Fail(q) PROVE Serial(c)'
  <2>1. /\ req'[q].pc \in {"read", "done"}
        /\ \A p \in Questions \ {q} : req'[p] = req[p]
        /\ UNCHANGED <<promised, overlapped>>
    BY <1>0, <1>8, FailedType DEF Fail, Inv, TypeInv, Located
  <2>2. \A p \in Writing(c)' : p # q /\ p \in Writing(c) /\ req'[p] = req[p]
    BY <2>1 DEF Writing
  <2>3. CASE At(q, "write") /\ req[q].conv = c
    <3>1. Writing(c)' = {}
      BY <1>b, <2>1, <2>2, <2>3 DEF At
    <3>2. req[q].open = "tmp" /\ file[c] = promised[c]
      BY <1>b, <2>1, <2>3 DEF Serial, At
    <3>3. file' = file
      BY <1>8, <2>3, <3>2 DEF Fail, Fill
    <3> QED BY <2>1, <3>1, <3>2, <3>3, NoWriter
  <2>4. CASE ~(At(q, "write") /\ req[q].conv = c)
    <3>1. tmp'[c] = tmp[c] /\ file'[c] = file[c]
      BY <1>0, <1>8, <2>4 DEF Fail, Fill
    <3> QED BY <1>a, <2>1, <2>2, <3>1, Untouched
  <2> QED BY <2>3, <2>4
<1> QED
  BY <1>1, <1>2, <1>3, <1>4, <1>5, <1>6, <1>7, <1>8 DEF Step

LEMMA UnlinkSerial ==
  ASSUME Inv, NEW gone \in SUBSET Convs, Unlink(gone), NEW c \in Convs \ overlapped'
  PROVE  Serial(c)'
<1>1. ASSUME NEW p \in Questions
      PROVE  /\ req'[p].pc = req[p].pc
             /\ req'[p].conv = req[p].conv
             /\ req[p].conv \notin gone => req'[p] = req[p]
  BY UnlinkedType DEF Inv, Unlink
<1>2. \A p \in Writing(c)' : p \in Writing(c)
  BY <1>1 DEF Writing
<1>3. CASE c \in gone
  BY <1>2, <1>3, RemovedSerial DEF Unlink
<1>4. CASE c \notin gone
  <2>1. \A p \in Writing(c)' : req'[p] = req[p]
    BY <1>1, <1>2, <1>4 DEF Writing
  <2>2. c \notin overlapped /\ Serial(c)
    BY DEF Unlink, Remove, Inv
  <2> QED BY <1>2, <1>4, <2>1, <2>2, Untouched DEF Unlink
<1> QED BY <1>3, <1>4

LEMMA NextInv == Inv /\ [Next]_vars => Inv'
<1> SUFFICES ASSUME Inv, [Next]_vars PROVE Inv'
  OBVIOUS
<1>1. TypeInv'
  BY NextType DEF Inv
<1> SUFFICES ASSUME NEW c \in Convs \ overlapped' PROVE Serial(c)'
  BY <1>1 DEF Inv
<1>2. ASSUME NEW q \in Questions, Step(q) PROVE Serial(c)'
  BY <1>2, StepSerial
<1>3. ASSUME Crash PROVE Serial(c)'
  <2>1. \A q \in Questions : req'[q].pc \notin {"open", "write", "replace"}
    <3> SUFFICES ASSUME NEW q \in Questions
                 PROVE  req'[q].pc \notin {"open", "write", "replace"}
      OBVIOUS
    <3>1. req[q] \in Request
      BY DEF Inv, TypeInv, TypeOK
    <3>2. req'[q] = IF q \in Active THEN [req[q] EXCEPT !.pc = "lost", !.open = "none"]
                    ELSE req[q]
      BY <1>3 DEF Crash
    <3>3. CASE q \in Active
      BY <3>1, <3>2, <3>3 DEF Request
    <3>4. CASE q \notin Active
      BY <3>2, <3>4 DEF Active, Ended
    <3> QED BY <3>3, <3>4
  <2>2. Writing(c)' = {}
    BY <2>1 DEF Writing
  <2> QED BY <1>3, <2>2, NoWriter DEF Crash, Inv, Serial
<1>4. ASSUME NEW d \in Convs, CreateByApi(d) PROVE Serial(c)'
  <2>1. ASSUME NEW p \in Questions
        PROVE  /\ req'[p].pc = req[p].pc
               /\ req'[p].conv = req[p].conv
               /\ req[p].conv \notin Expired => req'[p] = req[p]
    BY <1>4, UnlinkedType DEF Inv, CreateByApi
  <2>2. \A p \in Writing(c)' : p \in Writing(c)
    BY <2>1 DEF Writing
  <2>3. c \notin overlapped /\ Serial(c)
    BY <1>4 DEF CreateByApi, CreateFile, Remove, Inv
  <2>4. CASE c = d
    <3>1. Writing(c) = {}
      BY <1>4, <2>3, <2>4 DEF Serial, IsHistory, CreateByApi, CreateFile
    <3>2. file'[c] = promised'[c]
      BY <1>4, <2>4 DEF CreateByApi, CreateFile
    <3> QED BY <2>2, <3>1, <3>2, NoWriter
  <2>5. CASE c # d /\ c \in Expired
    <3>1. Expired \in SUBSET Convs /\ Remove(Expired)
      BY <1>4 DEF CreateByApi, CreateFile, Expired, Inv, TypeInv, TypeOK
    <3>2. file'[c] = promised'[c]
      BY <1>4, <2>5 DEF CreateByApi, CreateFile
    <3> QED BY <2>2, <2>5, <3>1, <3>2, RemovedSerial
  <2>6. CASE c # d /\ c \notin Expired
    <3>1. \A p \in Writing(c)' : req'[p] = req[p]
      BY <2>1, <2>2, <2>6 DEF Writing
    <3>2. file'[c] = file[c] /\ promised'[c] = promised[c] /\ tmp' = tmp
      BY <1>4, <2>6 DEF CreateByApi, CreateFile
    <3> QED BY <2>2, <2>3, <3>1, <3>2, Untouched
  <2> QED BY <2>4, <2>5, <2>6
<1>5. ASSUME NEW d \in Convs, Delete(d) PROVE Serial(c)'
  BY <1>5, UnlinkSerial DEF Delete
<1>6. ASSUME List PROVE Serial(c)'
  BY <1>6, UnlinkSerial DEF List, Expired, Inv, TypeInv, TypeOK
<1>7. CASE UNCHANGED vars
  BY <1>7 DEF vars, Inv, Serial, Writing, At
<1> QED BY <1>2, <1>3, <1>4, <1>5, <1>6, <1>7 DEF Next

-----------------------------------------------------------------------------

\* Every variable of the conversation history keeps its type, and no stored
\* conversation outgrows conversation_max_turns (conversation_store.py).
THEOREM HistoryTypeCorrect == Spec => []TypeOK
<1>1. Inv => TypeOK
  BY DEF Inv, TypeInv
<1> QED BY <1>1, InitInv, NextInv, PTL DEF Spec

\* A conversation whose writers never overlapped shows exactly the turns that
\* were appended to it, for any number of requests and conversations, through
\* every failure and crash (append_turn, conversation_store.py).
THEOREM HistorySerial == Spec => []SerialHistory
<1>1. Inv => SerialHistory
  BY DEF Inv, Serial, SerialHistory
<1> QED BY <1>1, InitInv, NextInv, PTL DEF Spec

-----------------------------------------------------------------------------
(* Whose turns are shown, and where an answer is recorded                   *)

Shows(h, p) == \E i \in DOMAIN h : h[i] = p

\* A history shows only turns that may be shown in conversation c.
Fit(h, c) == h \in Histories => \A p \in Questions : Shows(h, p) => Belongs(p, c)

FilesFit ==
  \A c \in Convs :
    /\ Fit(file[c], c) /\ Fit(tmp[c], c)
    /\ madeFor[c] # NoConv => promised[c] # Absent \/ c \in removed

\* A request writes to a conversation it was asked in or that was made for it.
Placed(q) ==
  /\ At(q, "new") =>
       /\ req[q].given = NoConv /\ req[q].conv = NoConv
       /\ req[q].reply = "none" /\ req[q].phase = "append"
       /\ req[q].source = NoTurn
       /\ \A c \in Convs : madeFor[c] # q
  /\ req[q].conv \in Convs => Belongs(q, req[q].conv)
  /\ req[q].reply \in Convs => Belongs(q, req[q].reply)
  /\ req[q].pc \in {"open", "write", "replace"} => Fit(req[q].draft, req[q].conv)
  /\ At(q, "search") => req[q].conv = req[q].given
  /\ req[q].source # NoTurn =>
       /\ req[q].given \in Convs
       /\ IsQuery(req[q].source)
       /\ req[q].source \in Questions => Belongs(req[q].source, req[q].given)

Sound(c) == c \in Convs \ (overlapped \cup removed)

\* A request stays with the conversation it was asked in, and its answer, once
\* recorded, leaves only at the limit.
Kept(q) ==
  /\ ~At(q, "new") /\ Sound(req[q].given) =>
       /\ promised[req[q].given] # Absent
       /\ req[q].pc \in {"search", "read", "open", "write", "replace"} =>
            req[q].conv = req[q].given
       /\ ~At(q, "create")
       /\ req[q].phase # "append" => req[q].reply = req[q].given
       /\ req[q].reply \in Convs => req[q].reply = req[q].given
  /\ req[q].phase = "append" /\ req[q].pc \notin Ended => req[q].reply \notin Convs
  /\ Sound(req[q].reply) /\ req[q].route # "confirm" =>
       /\ promised[req[q].reply] # Absent
       /\ \/ Shows(promised[req[q].reply], q)
          \/ Len(promised[req[q].reply]) = MaxTurns

Traced == FilesFit /\ \A q \in Questions : Placed(q) /\ Kept(q)

LEMMA AppendShows ==
  ASSUME NEW h \in Histories, NEW q \in Questions
  PROVE  /\ Append(h, q) \in Histories
         /\ \A p : Shows(Append(h, q), p) <=> p = q \/ Shows(h, p)
<1> DEFINE a == Append(h, q)
<1>1. /\ a \in Histories
      /\ Len(a) = Len(h) + 1 /\ Len(h) \in Nat
      /\ \A i \in 1..Len(h) : a[i] = h[i]
      /\ a[Len(h) + 1] = q
  BY AppendProperties, LenProperties DEF Histories, Turns
<1>2. DOMAIN a = 1..Len(a) /\ DOMAIN h = 1..Len(h)
  BY <1>1, LenProperties DEF Histories
<1> HIDE DEF a
<1>3. ASSUME NEW p, Shows(a, p) PROVE p = q \/ Shows(h, p)
  <2>1. PICK i \in 1..Len(a) : a[i] = p
    BY <1>2, <1>3 DEF Shows
  <2>2. CASE i = Len(h) + 1
    BY <1>1, <2>1, <2>2
  <2>3. CASE i # Len(h) + 1
    <3>1. i \in 1..Len(h)
      BY <1>1, <2>1, <2>3
    <3> QED BY <1>1, <1>2, <2>1, <3>1 DEF Shows
  <2> QED BY <2>2, <2>3
<1>4. Shows(a, q)
  <2>1. Len(h) + 1 \in 1..Len(a)
    BY <1>1
  <2> QED BY <1>1, <1>2, <2>1 DEF Shows
<1>5. ASSUME NEW p, Shows(h, p) PROVE Shows(a, p)
  <2>1. PICK i \in 1..Len(h) : h[i] = p
    BY <1>2, <1>5 DEF Shows
  <2>2. i \in 1..Len(a) /\ a[i] = p
    BY <1>1, <2>1
  <2> QED BY <1>2, <2>2 DEF Shows
<1> QED BY <1>1, <1>3, <1>4, <1>5 DEF a

LEMMA CutShows ==
  ASSUME NEW h \in Histories
  PROVE  /\ \A p : Shows(Cut(h), p) => Shows(h, p)
         /\ Cut(h) = h \/ Len(Cut(h)) = MaxTurns
         /\ Len(h) > MaxTurns => Len(Cut(h)) = MaxTurns
<1>1. CASE Len(h) <= MaxTurns
  BY <1>1, LenProperties, HistoryAssumption DEF Cut, Histories
<1>2. CASE Len(h) > MaxTurns
  <2> DEFINE m == Len(h) - MaxTurns + 1
             u == SubSeq(h, m, Len(h))
  <2>1. Len(h) \in Nat /\ \A i \in 1..Len(h) : h[i] \in Turns
    BY LenProperties, ElementOfSeq DEF Histories
  <2>2. m \in 1..Len(h) /\ Len(h) - m + 1 = MaxTurns
    BY <1>2, <2>1, HistoryAssumption
  <2>3. Len(u) = MaxTurns /\ \A i \in 1..MaxTurns : u[i] = h[m + i - 1]
    BY <1>2, <2>1, <2>2, SubSeqProperties, HistoryAssumption, Z3 DEF Histories
  <2>4. Cut(h) = u
    BY <1>2, <2>1 DEF Cut
  <2>5. DOMAIN u = 1..MaxTurns /\ DOMAIN h = 1..Len(h)
    <3>1. u \in Histories
      BY <2>4, CutType
    <3> QED BY <2>3, <3>1, LenProperties DEF Histories
  <2>6. \A i \in 1..MaxTurns : m + i - 1 \in 1..Len(h)
    BY <1>2, <2>1, HistoryAssumption
  <2>7. \A p : Shows(u, p) => Shows(h, p)
    BY <2>3, <2>5, <2>6 DEF Shows
  <2> QED BY <2>3, <2>4, <2>7
<1> QED BY <1>1, <1>2, LenProperties, HistoryAssumption DEF Histories

\* What an append leaves of a list of turns.
LEMMA AppendKeeps ==
  ASSUME NEW h \in Histories, NEW q \in Questions
  PROVE  /\ Cut(Append(h, q)) \in Histories
         /\ \A p : Shows(Cut(Append(h, q)), p) => p = q \/ Shows(h, p)
         /\ \A p : p = q \/ Shows(h, p) =>
              Shows(Cut(Append(h, q)), p) \/ Len(Cut(Append(h, q))) = MaxTurns
         /\ Len(h) = MaxTurns => Len(Cut(Append(h, q))) = MaxTurns
<1> DEFINE a == Append(h, q)
<1>1. a \in Histories /\ \A p : Shows(a, p) <=> p = q \/ Shows(h, p)
  BY AppendShows
<1>2. Len(a) = Len(h) + 1 /\ Len(h) \in Nat
  BY AppendProperties, LenProperties DEF Histories, Turns
<1> HIDE DEF a
<1>3. Cut(a) \in Histories
  BY <1>1, CutType
<1>4. /\ \A p : Shows(Cut(a), p) => Shows(a, p)
      /\ Cut(a) = a \/ Len(Cut(a)) = MaxTurns
      /\ Len(h) = MaxTurns => Len(Cut(a)) = MaxTurns
  BY <1>1, <1>2, CutShows, HistoryAssumption
<1> QED BY <1>1, <1>3, <1>4 DEF a

-----------------------------------------------------------------------------

LEMMA InitTraced == Init => Traced
<1> SUFFICES ASSUME Init PROVE Traced
  OBVIOUS
<1>1. ASSUME NEW c \in Convs, NEW p \in Questions PROVE ~Shows(file[c], p) \/ file[c] \notin Histories
  <2>1. CASE c \in DOMAIN Saved
    <3>1. file[c] \in Seq(SavedTurns)
      BY <2>1, SavedAssumption DEF Init
    <3>2. \A i \in DOMAIN file[c] : file[c][i] \in SavedTurns
      BY <3>1, LenProperties, ElementOfSeq
    <3> QED BY <3>2, HistoryAssumption DEF Shows
  <2>2. CASE c \notin DOMAIN Saved
    BY <2>2, FileAssumption DEF Init
  <2> QED BY <2>1, <2>2
<1>2. FilesFit
  BY <1>1, FileAssumption DEF Init, FilesFit, Fit
<1>3. \A q \in Questions : Placed(q)
  BY HistoryAssumption DEF Init, NewRequest, Placed, At
<1>4. \A q \in Questions : Kept(q)
  BY HistoryAssumption DEF Init, NewRequest, Kept, At, Sound, Ended
<1> QED BY <1>2, <1>3, <1>4 DEF Traced

\* A step changes no place of a request in work, and creates conversations
\* for requests in work only.
Settled ==
  /\ \A p \in Questions : ~At(p, "new") =>
       /\ ~At(p, "new")'
       /\ req'[p].given = req[p].given
       /\ req[p].route = "query" => req'[p].route = "query"
  /\ \A c \in Convs : madeFor'[c] # madeFor[c] =>
       /\ madeFor[c] = NoConv
       /\ \A q \in Questions : madeFor'[c] = q => ~At(q, "new")'

\* Conversations that stay sound lose a turn only at the limit.
Grows ==
  /\ overlapped \subseteq overlapped' /\ removed \subseteq removed'
  /\ \A c \in Convs \ (overlapped' \cup removed') : promised[c] # Absent =>
       /\ promised'[c] # Absent
       /\ \A p \in Questions : Shows(promised[c], p) =>
            Shows(promised'[c], p) \/ Len(promised'[c]) = MaxTurns
       /\ Len(promised[c]) = MaxTurns => Len(promised'[c]) = MaxTurns

\* A step leaves request q where it is, or kills it.
Still(q) ==
  /\ req'[q].given = req[q].given /\ req'[q].conv = req[q].conv
  /\ req'[q].reply = req[q].reply /\ req'[q].phase = req[q].phase
  /\ req'[q].route = req[q].route /\ req'[q].source = req[q].source
  /\ req'[q].draft = req[q].draft
  /\ req'[q].pc = req[q].pc \/ (req'[q].pc = "lost" /\ ~At(q, "new"))

LEMMA BelongsStays ==
  ASSUME TypeOK, Traced, Settled, NEW p \in Questions, NEW c \in Convs, Belongs(p, c)
  PROVE  Belongs(p, c)' /\ ~At(p, "new")
<1>1. ~At(p, "new")
  BY HistoryAssumption DEF Traced, Placed, Belongs
<1>2. CASE req[p].given = c
  BY <1>1, <1>2 DEF Settled, Belongs
<1>3. CASE madeFor[c] = p
  BY <1>1, <1>3, HistoryAssumption DEF Settled, Belongs
<1> QED BY <1>1, <1>2, <1>3 DEF Belongs

LEMMA QueryStays ==
  ASSUME TypeOK, Traced, Settled, NEW t, NEW c \in Convs,
         IsQuery(t), t \in Questions => Belongs(t, c)
  PROVE  IsQuery(t)'
<1>1. CASE t \in SavedTurns
  BY <1>1 DEF IsQuery
<1>2. CASE t \in Questions
  BY <1>2, BelongsStays DEF IsQuery, Settled
<1> QED BY <1>1, <1>2 DEF IsQuery

LEMMA PlacedFrame ==
  ASSUME TypeOK, Traced, Settled, Located, NEW q \in Questions, Still(q)
  PROVE  Placed(q)'
<1>1. Placed(q)
  BY DEF Traced
<1>2. /\ At(q, "new")' => At(q, "new")
      /\ req'[q].pc \in {"open", "write", "replace"} =>
           req[q].pc \in {"open", "write", "replace"} /\ req[q].conv \in Convs
      /\ At(q, "search")' => At(q, "search")
  BY DEF Still, At, Located
<1>3. ASSUME At(q, "new")'
      PROVE  /\ req'[q].given = NoConv /\ req'[q].conv = NoConv
             /\ req'[q].reply = "none" /\ req'[q].phase = "append"
             /\ req'[q].source = NoTurn
             /\ \A c \in Convs : madeFor'[c] # q
  BY <1>1, <1>2, <1>3 DEF Still, Placed, Settled
<1>4. req'[q].conv \in Convs => Belongs(q, req[q].conv)'
  BY <1>1, BelongsStays DEF Placed, Still
<1>5. req'[q].reply \in Convs => Belongs(q, req[q].reply)'
  BY <1>1, BelongsStays DEF Placed, Still
<1>6. req'[q].pc \in {"open", "write", "replace"} => Fit(req[q].draft, req[q].conv)'
  BY <1>1, <1>2, BelongsStays DEF Placed, Still, Fit
<1>7. At(q, "search")' => req'[q].conv = req'[q].given
  BY <1>1, <1>2 DEF Placed, Still
<1>8. ASSUME req'[q].source # NoTurn
      PROVE  /\ req'[q].given \in Convs
             /\ IsQuery(req[q].source)'
             /\ req'[q].source \in Questions => Belongs(req[q].source, req[q].given)'
  <2>1. /\ req[q].source # NoTurn /\ req[q].given \in Convs
        /\ IsQuery(req[q].source)
        /\ req[q].source \in Questions => Belongs(req[q].source, req[q].given)
    BY <1>1, <1>8 DEF Placed, Still
  <2>2. req[q].source \in Questions => Belongs(req[q].source, req[q].given)'
    BY <2>1, BelongsStays DEF Still, Belongs
  <2>3. IsQuery(req[q].source)'
    BY <2>1, QueryStays DEF Still, IsQuery
  <2> QED BY <2>1, <2>2, <2>3 DEF Still
<1> QED BY <1>3, <1>4, <1>5, <1>6, <1>7, <1>8 DEF Placed

LEMMA KeptFrame ==
  ASSUME Traced, Grows, NEW q \in Questions, Still(q)
  PROVE  Kept(q)'
<1>1. Kept(q)
  BY DEF Traced
<1>2. \A c : Sound(c)' => Sound(c)
  BY DEF Grows, Sound
<1>3. At(q, "new") => At(q, "new")'
  BY DEF Still, At
<1>4. ~At(q, "new")' /\ Sound(req[q].given)' =>
        /\ promised'[req'[q].given] # Absent
        /\ req'[q].pc \in {"search", "read", "open", "write", "replace"} =>
             req'[q].conv = req'[q].given
        /\ ~At(q, "create")'
        /\ req'[q].phase # "append" => req'[q].reply = req'[q].given
        /\ req'[q].reply \in Convs => req'[q].reply = req'[q].given
  <2> SUFFICES ASSUME ~At(q, "new")', Sound(req[q].given)'
               PROVE  /\ promised'[req'[q].given] # Absent
                      /\ req'[q].pc \in {"search", "read", "open", "write", "replace"} =>
                           req'[q].conv = req'[q].given
                      /\ ~At(q, "create")'
                      /\ req'[q].phase # "append" => req'[q].reply = req'[q].given
                      /\ req'[q].reply \in Convs => req'[q].reply = req'[q].given
    OBVIOUS
  <2>1. Sound(req[q].given) /\ req[q].given \in Convs \ (overlapped' \cup removed')
    BY <1>2 DEF Still, Sound, Grows
  <2>2. ~At(q, "new")
    BY <1>3
  <2> QED BY <1>1, <2>1, <2>2 DEF Kept, Still, Grows, At
<1>5. req'[q].phase = "append" /\ req'[q].pc \notin Ended => req'[q].reply \notin Convs
  BY <1>1 DEF Kept, Still, Ended
<1>6. Sound(req[q].reply)' /\ req'[q].route # "confirm" =>
        /\ promised'[req'[q].reply] # Absent
        /\ \/ Shows(promised[req[q].reply], q)'
           \/ Len(promised'[req'[q].reply]) = MaxTurns
  <2> SUFFICES ASSUME Sound(req[q].reply)', req'[q].route # "confirm"
               PROVE  /\ promised'[req'[q].reply] # Absent
                      /\ \/ Shows(promised[req[q].reply], q)'
                         \/ Len(promised'[req'[q].reply]) = MaxTurns
    OBVIOUS
  <2> DEFINE c == req[q].reply
  <2>1. /\ Sound(c) /\ c \in Convs \ (overlapped' \cup removed')
        /\ req'[q].reply = c /\ req[q].route # "confirm"
    BY DEF Still, Sound, Grows
  <2>2. promised[c] # Absent /\ (Shows(promised[c], q) \/ Len(promised[c]) = MaxTurns)
    BY <1>1, <2>1 DEF Kept
  <2>3. /\ promised'[c] # Absent
        /\ Shows(promised[c], q) => Shows(promised'[c], q) \/ Len(promised'[c]) = MaxTurns
        /\ Len(promised[c]) = MaxTurns => Len(promised'[c]) = MaxTurns
    BY <2>1, <2>2 DEF Grows
  <2>4. Shows(promised'[c], q) \/ Len(promised'[c]) = MaxTurns
    BY <2>2, <2>3
  <2> HIDE DEF c
  <2> QED BY <2>1, <2>3, <2>4
<1> QED BY <1>4, <1>5, <1>6 DEF Kept

\* A step that is about one request at most.
LEMMA TracedFrame ==
  ASSUME Inv, Traced, Settled, Grows, FilesFit',
         \A q \in Questions : Still(q) \/ (Placed(q)' /\ Kept(q)')
  PROVE  Traced'
BY PlacedFrame, KeptFrame DEF Inv, TypeInv, Traced

LEMMA FilesFrame ==
  ASSUME Inv, Traced, Settled, UNCHANGED <<file, tmp, madeFor, promised, removed>>
  PROVE  FilesFit'
<1>1. FilesFit /\ TypeOK
  BY DEF Traced, Inv, TypeInv
<1> QED BY <1>1, BelongsStays DEF FilesFit, Fit

LEMMA SameGrows ==
  ASSUME UNCHANGED <<promised, removed>>, overlapped \subseteq overlapped'
  PROVE  Grows
BY DEF Grows

\* A request goes on within its conversation.
LEMMA KeptMove ==
  ASSUME Traced, Grows, NEW q \in Questions, ~At(q, "new"), req[q].pc \notin Ended,
         req'[q].given = req[q].given, req'[q].conv = req[q].conv,
         req'[q].reply = req[q].reply, req'[q].phase = req[q].phase,
         req'[q].route = req[q].route,
         req'[q].pc \in {"read", "open", "write", "replace"} =>
           req[q].pc \in {"search", "read", "open", "write", "replace"},
         req'[q].pc \in {"read", "create", "open", "write", "replace"},
         req'[q].pc = "create" => ~Sound(req[q].given)'
  PROVE  Kept(q)'
<1>1. Kept(q) /\ \A c : Sound(c)' => Sound(c)
  BY DEF Traced, Grows, Sound
<1>2. ASSUME Sound(req[q].given)'
      PROVE  /\ promised'[req'[q].given] # Absent
             /\ req'[q].pc \in {"search", "read", "open", "write", "replace"} =>
                  req'[q].conv = req'[q].given
             /\ ~At(q, "create")'
             /\ req'[q].phase # "append" => req'[q].reply = req'[q].given
             /\ req'[q].reply \in Convs => req'[q].reply = req'[q].given
  <2>1. Sound(req[q].given) /\ req[q].given \in Convs \ (overlapped' \cup removed')
    BY <1>1, <1>2 DEF Sound
  <2> QED BY <1>1, <1>2, <2>1 DEF Kept, Grows, At
<1>3. req'[q].phase = "append" /\ req'[q].pc \notin Ended => req'[q].reply \notin Convs
  BY <1>1 DEF Kept
<1>4. ASSUME Sound(req[q].reply)', req[q].route # "confirm"
      PROVE  /\ promised'[req[q].reply] # Absent
             /\ Shows(promised'[req[q].reply], q) \/ Len(promised'[req[q].reply]) = MaxTurns
  <2> DEFINE c == req[q].reply
  <2>1. Sound(c) /\ c \in Convs \ (overlapped' \cup removed')
    BY <1>1, <1>4 DEF Sound
  <2>2. promised[c] # Absent /\ (Shows(promised[c], q) \/ Len(promised[c]) = MaxTurns)
    BY <1>1, <1>4, <2>1 DEF Kept
  <2> HIDE DEF c
  <2>3. promised'[c] # Absent /\ (Shows(promised'[c], q) \/ Len(promised'[c]) = MaxTurns)
    BY <2>1, <2>2 DEF Grows
  <2> QED BY <2>3 DEF c
<1> QED BY <1>2, <1>3, <1>4 DEF Kept, Sound

LEMMA SerialFile ==
  ASSUME Inv, NEW c \in Convs \ overlapped, promised[c] # Absent
  PROVE  file[c] = promised[c] /\ file[c] \in Histories /\ IsHistory(file[c])
BY HistoryCases DEF Inv, Serial, TypeInv, TypeOK, Contents

LEMMA AskTraced ==
  ASSUME Inv, Traced, NEW q \in Questions, NEW route \in LoopRoutes \cup PoolRoutes,
         NEW c \in Convs \cup {NoConv}, Ask(q, route, c)
  PROVE  Traced'
<1>1. /\ At(q, "new") /\ Placed(q) /\ TypeOK /\ req[q] \in Request
      /\ c # NoConv => file[c] # Absent
      /\ UNCHANGED <<file, tmp, aged, madeFor, promised, overlapped, removed>>
  BY DEF Ask, Traced, Inv, TypeInv, TypeOK
<1>2. /\ req'[q].given = c /\ req'[q].conv = c /\ req'[q].route = route
      /\ req'[q].pc \in {"search", "done", "read"}
      /\ req'[q].pc = "search" => route = "export"
      /\ req'[q].phase = IF route = "confirm" THEN "sync" ELSE "append"
      /\ req'[q].reply = IF route = "confirm" THEN c ELSE "none"
      /\ req'[q].source = req[q].source
      /\ \A p \in Questions \ {q} : req'[p] = req[p]
  BY <1>1 DEF Ask, Request, TypeOK
<1>3. \A p \in Questions \ {q} : Still(p) /\ req'[p] = req[p]
  BY <1>2 DEF Still
<1>4. Settled
  BY <1>1, <1>2 DEF Settled, At
<1>5. Grows /\ FilesFit'
  BY <1>1, <1>4, SameGrows, FilesFrame
<1>6. Placed(q)'
  <2>1. req'[q].source = NoTurn /\ "none" \notin Convs
    BY <1>1, <1>2, HistoryAssumption DEF Placed
  <2>2. c \in Convs => Belongs(q, c)'
    BY <1>2 DEF Belongs
  <2>3. req'[q].reply \in Convs => req'[q].reply = c
    BY <1>2, <2>1
  <2>4. req'[q].conv \in Convs => Belongs(q, req[q].conv)'
    BY <1>2, <2>2 DEF Belongs
  <2>5. req'[q].reply \in Convs => Belongs(q, req[q].reply)'
    BY <1>2, <2>2, <2>3 DEF Belongs
  <2> QED BY <1>2, <2>1, <2>4, <2>5 DEF Placed, At
<1>7. Kept(q)'
  <2>1. c \in Convs \ (overlapped \cup removed) => promised[c] # Absent
    BY <1>1, HistoryAssumption DEF Inv, Serial
  <2>2. "none" \notin Convs
    BY HistoryAssumption
  <2> QED BY <1>1, <1>2, <2>1, <2>2 DEF Kept, At, Sound, Ended
<1> QED BY <1>3, <1>4, <1>5, <1>6, <1>7, TracedFrame

LEMMA SearchTraced ==
  ASSUME Inv, Traced, NEW q \in Questions, Search(q)
  PROVE  Traced'
<1> DEFINE h == IF req[q].conv = NoConv THEN Absent ELSE file[req[q].conv]
           latest == IF IsHistory(h) THEN LatestQuery(h) ELSE NoTurn
<1>0. PICK t : t = latest
  OBVIOUS
<1>1. /\ At(q, "search") /\ Placed(q) /\ TypeOK /\ req[q] \in Request
      /\ UNCHANGED <<file, tmp, aged, madeFor, promised, overlapped, removed>>
  BY DEF Search, Traced, Inv, TypeInv, TypeOK
<1>2. req' = [req EXCEPT ![q].pc = "read", ![q].source = t]
  BY <1>0 DEF Search
<1>3. t # NoTurn => /\ req[q].conv \in Convs
                    /\ IsQuery(t)
                    /\ t \in Questions => Belongs(t, req[q].conv)
  <2> SUFFICES ASSUME t # NoTurn
               PROVE  /\ req[q].conv \in Convs
                      /\ IsQuery(t)
                      /\ t \in Questions => Belongs(t, req[q].conv)
    OBVIOUS
  <2>1. IsHistory(h) /\ t = LatestQuery(h)
    BY <1>0
  <2>2. h \in Histories /\ req[q].conv \in Convs /\ h = file[req[q].conv]
    <3>1. req[q].conv \in Convs \cup {NoConv}
      BY <1>1 DEF Request
    <3>2. req[q].conv # NoConv
      BY <2>1 DEF IsHistory
    <3> QED BY <1>1, <2>1, <3>1, <3>2, HistoryCases DEF TypeOK
  <2>3. \E i \in DOMAIN h : t = h[i] /\ IsQuery(h[i])
    BY <2>1 DEF LatestQuery
  <2> QED BY <2>2, <2>3 DEF Traced, FilesFit, Fit, Shows
<1> HIDE DEF latest
<1>4. /\ req'[q].given = req[q].given /\ req'[q].conv = req[q].conv
      /\ req'[q].reply = req[q].reply /\ req'[q].phase = req[q].phase
      /\ req'[q].route = req[q].route /\ req'[q].pc = "read" /\ req'[q].source = t
      /\ \A p \in Questions \ {q} : req'[p] = req[p]
  BY <1>1, <1>2 DEF Request, TypeOK
<1>5. \A p \in Questions \ {q} : Still(p)
  BY <1>4 DEF Still
<1>6. Settled
  BY <1>1, <1>4 DEF Settled, At
<1>7. Grows /\ FilesFit'
  BY <1>1, <1>6, SameGrows, FilesFrame
<1>8. Placed(q)'
  <2>1. req'[q].conv \in Convs => Belongs(q, req[q].conv)'
    BY <1>1, <1>4, <1>6, BelongsStays DEF Placed
  <2>2. req'[q].reply \in Convs => Belongs(q, req[q].reply)'
    BY <1>1, <1>4, <1>6, BelongsStays DEF Placed
  <2>3. t # NoTurn => /\ req'[q].given \in Convs
                      /\ IsQuery(t)'
                      /\ t \in Questions => Belongs(t, req[q].given)'
    <3>1. req[q].conv = req[q].given
      BY <1>1 DEF Placed
    <3> QED BY <1>1, <1>3, <1>4, <1>6, <3>1, BelongsStays, QueryStays
  <2> QED BY <1>1, <1>4, <2>1, <2>2, <2>3 DEF Placed, At, IsQuery, Belongs
<1>9. Kept(q)'
  BY <1>1, <1>4, <1>7, KeptMove DEF At, Ended
<1> QED BY <1>5, <1>6, <1>7, <1>8, <1>9, TracedFrame

LEMMA ReadTraced ==
  ASSUME Inv, Traced, NEW q \in Questions, Read(q)
  PROVE  Traced'
<1> DEFINE d == req[q].conv
           found == d # NoConv /\ IsHistory(file[d])
           draft == IF found THEN Cut(Append(file[d], q)) ELSE req[q].draft
<1>1. /\ At(q, "read") /\ Placed(q) /\ Kept(q) /\ TypeOK /\ req[q] \in Request
      /\ UNCHANGED <<file, tmp, aged, madeFor, promised, removed>>
      /\ overlapped \subseteq overlapped'
  BY DEF Read, Traced, Inv, TypeInv, TypeOK
<1>2. /\ req'[q].given = req[q].given /\ req'[q].conv = req[q].conv
      /\ req'[q].reply = req[q].reply /\ req'[q].phase = req[q].phase
      /\ req'[q].route = req[q].route /\ req'[q].source = req[q].source
      /\ req'[q].pc = IF found THEN "open" ELSE "create"
      /\ req'[q].draft = draft
      /\ \A p \in Questions \ {q} : req'[p] = req[p]
  BY <1>1 DEF Read, Request, TypeOK
<1>3. \A p \in Questions \ {q} : Still(p)
  BY <1>2 DEF Still
<1>4. Settled
  BY <1>1, <1>2 DEF Settled, At
<1>5. Grows /\ FilesFit'
  BY <1>1, <1>4, SameGrows, FilesFrame
<1>6. Placed(q)'
  <2>1. req'[q].conv \in Convs => Belongs(q, req[q].conv)'
    BY <1>1, <1>2, <1>4, BelongsStays DEF Placed
  <2>2. req'[q].reply \in Convs => Belongs(q, req[q].reply)'
    BY <1>1, <1>2, <1>4, BelongsStays DEF Placed
  <2>3. req'[q].source # NoTurn =>
          /\ req'[q].given \in Convs
          /\ IsQuery(req[q].source)'
          /\ req'[q].source \in Questions => Belongs(req[q].source, req[q].given)'
    BY <1>1, <1>2, <1>4, BelongsStays, QueryStays DEF Placed
  <2>4. found => Fit(req[q].draft, req[q].conv)'
    <3> SUFFICES ASSUME found PROVE Fit(req[q].draft, req[q].conv)'
      OBVIOUS
    <3>1. d \in Convs /\ file[d] \in Histories
      BY <1>1, HistoryCases DEF Request, TypeOK
    <3>2. \A p : Shows(draft, p) => p = q \/ Shows(file[d], p)
      BY <3>1, AppendKeeps
    <3>3. \A p \in Questions : Shows(draft, p) => Belongs(p, d)
      BY <1>1, <3>1, <3>2 DEF Traced, FilesFit, Fit, Placed
    <3>4. \A p \in Questions : Shows(draft, p) => Belongs(p, d)'
      BY <1>1, <1>2, <1>4, <3>1, <3>3, BelongsStays
    <3>5. req'[q].draft = draft
      BY <1>2
    <3> HIDE DEF draft
    <3> QED BY <1>2, <3>4, <3>5 DEF Fit
  <2> QED BY <1>1, <1>2, <2>1, <2>2, <2>3, <2>4 DEF Placed, At, IsQuery, Belongs
<1>7. Kept(q)'
  <2>1. ASSUME ~found PROVE ~Sound(req[q].given)'
    <3> SUFFICES ASSUME Sound(req[q].given)' PROVE FALSE
      OBVIOUS
    <3>1. Sound(req[q].given)
      BY <1>1, <1>2 DEF Sound
    <3>2. d = req[q].given /\ promised[d] # Absent /\ d \in Convs \ overlapped
      BY <1>1, <3>1 DEF Kept, Sound, At
    <3> QED BY <2>1, <3>2, SerialFile, HistoryAssumption
  <2> QED BY <1>1, <1>2, <1>5, <2>1, KeptMove DEF At, Ended
<1> QED BY <1>3, <1>4, <1>5, <1>6, <1>7, TracedFrame

LEMMA PlacedMove ==
  ASSUME TypeOK, Traced, Settled, NEW q \in Questions, ~At(q, "new"),
         req'[q].given = req[q].given, req'[q].source = req[q].source,
         req'[q].pc \notin {"new", "search"},
         req'[q].conv \in Convs => Belongs(q, req[q].conv)',
         req'[q].reply \in Convs => Belongs(q, req[q].reply)',
         req'[q].pc \in {"open", "write", "replace"} => Fit(req[q].draft, req[q].conv)'
  PROVE  Placed(q)'
<1>1. Placed(q)
  BY DEF Traced
<1>2. req'[q].source # NoTurn =>
        /\ req'[q].given \in Convs
        /\ IsQuery(req[q].source)'
        /\ req'[q].source \in Questions => Belongs(req[q].source, req[q].given)'
  <2>1. req[q].source # NoTurn =>
          /\ req[q].given \in Convs
          /\ IsQuery(req[q].source)
          /\ req[q].source \in Questions => Belongs(req[q].source, req[q].given)
    BY <1>1 DEF Placed
  <2>2. req[q].source # NoTurn /\ req[q].source \in Questions =>
          Belongs(req[q].source, req[q].given)'
    BY <2>1, BelongsStays DEF Belongs
  <2>3. req[q].source # NoTurn => IsQuery(req[q].source)'
    BY <2>1, QueryStays DEF IsQuery
  <2> QED BY <2>1, <2>2, <2>3
<1> QED BY <1>2 DEF Placed, At

LEMMA OpenTraced ==
  ASSUME Inv, Traced, NEW q \in Questions, Open(q)
  PROVE  Traced'
<1> DEFINE c == req[q].conv
<1>1. /\ At(q, "open") /\ Placed(q) /\ TypeOK /\ req[q] \in Request /\ c \in Convs
      /\ tmp' = [tmp EXCEPT ![c] = Empty]
      /\ UNCHANGED <<file, aged, madeFor, promised, overlapped, removed>>
  BY DEF Open, Traced, Inv, TypeInv, TypeOK, Located, At
<1>2. /\ req'[q].given = req[q].given /\ req'[q].conv = req[q].conv
      /\ req'[q].reply = req[q].reply /\ req'[q].phase = req[q].phase
      /\ req'[q].route = req[q].route /\ req'[q].source = req[q].source
      /\ req'[q].pc = "write" /\ req'[q].draft = req[q].draft
      /\ \A p \in Questions \ {q} : req'[p] = req[p]
  BY <1>1 DEF Open, Request, TypeOK
<1>3. \A p \in Questions \ {q} : Still(p)
  BY <1>2 DEF Still
<1>4. Settled /\ Grows
  BY <1>1, <1>2, SameGrows DEF Settled, At
<1>5. FilesFit'
  <2>1. \A x \in Convs : tmp'[x] = tmp[x] \/ tmp'[x] \notin Histories
    BY <1>1, FileAssumption DEF TypeOK
  <2> QED BY <1>1, <1>4, <2>1, BelongsStays DEF Traced, FilesFit, Fit
<1>6. Belongs(q, req[q].conv)' /\ (req'[q].reply \in Convs => Belongs(q, req[q].reply)')
  BY <1>1, <1>2, <1>4, BelongsStays DEF Placed
<1>7. Fit(req[q].draft, req[q].conv)'
  BY <1>1, <1>2, <1>4, BelongsStays DEF Placed, Fit, At
<1>8. Placed(q)'
  BY <1>1, <1>2, <1>4, <1>6, <1>7, PlacedMove DEF At
<1>9. Kept(q)'
  BY <1>1, <1>2, <1>4, KeptMove DEF At, Ended
<1> QED BY <1>3, <1>4, <1>5, <1>8, <1>9, TracedFrame

LEMMA FillFits ==
  ASSUME Inv, Traced, Settled, NEW q \in Questions, At(q, "write"),
         NEW text \in Contents, Fill(q, text),
         text \in Histories => \A p \in Questions : Shows(text, p) => Belongs(p, req[q].conv),
         UNCHANGED <<madeFor, promised, removed>>
  PROVE  FilesFit'
<1> DEFINE c == req[q].conv
<1>1. c \in Convs /\ TypeOK
  BY DEF Inv, TypeInv, Located, At
<1>2. \A x \in Convs : /\ file'[x] = file[x] \/ (x = c /\ file'[x] = text)
                       /\ tmp'[x] = tmp[x] \/ (x = c /\ tmp'[x] = text)
  BY <1>1 DEF Fill, TypeOK
<1>3. \A x \in Convs : Fit(file'[x], x) /\ Fit(tmp'[x], x)
  BY <1>2 DEF Traced, FilesFit, Fit
<1> QED BY <1>1, <1>3, BelongsStays DEF Traced, FilesFit, Fit

LEMMA WriteTraced ==
  ASSUME Inv, Traced, NEW q \in Questions, Write(q)
  PROVE  Traced'
<1>1. /\ At(q, "write") /\ Placed(q) /\ TypeOK /\ req[q] \in Request /\ req[q].conv \in Convs
      /\ UNCHANGED <<aged, madeFor, promised, overlapped, removed>>
  BY DEF Write, Traced, Inv, TypeInv, TypeOK, Located, At
<1>2. /\ req'[q].given = req[q].given /\ req'[q].conv = req[q].conv
      /\ req'[q].reply = req[q].reply /\ req'[q].phase = req[q].phase
      /\ req'[q].route = req[q].route /\ req'[q].source = req[q].source
      /\ req'[q].pc = "replace" /\ req'[q].draft = req[q].draft
      /\ \A p \in Questions \ {q} : req'[p] = req[p]
  BY <1>1 DEF Write, Request, TypeOK
<1>3. \A p \in Questions \ {q} : Still(p)
  BY <1>2 DEF Still
<1>4. Settled /\ Grows
  BY <1>1, <1>2, SameGrows DEF Settled, At
<1>5. FilesFit'
  <2>1. PICK text \in Overlay(Target(q), req[q].draft) : Fill(q, text)
    BY DEF Write
  <2>2. text \in {req[q].draft, Garbage}
    BY <2>1 DEF Overlay
  <2>3. text \in Histories => \A p \in Questions : Shows(text, p) => Belongs(p, req[q].conv)
    BY <1>1, <2>2, FileAssumption DEF Placed, Fit, At
  <2>4. text \in Contents
    BY <1>1, <2>2 DEF Request, Contents
  <2> QED BY <1>1, <1>4, <2>1, <2>3, <2>4, FillFits
<1>6. Belongs(q, req[q].conv)' /\ (req'[q].reply \in Convs => Belongs(q, req[q].reply)')
  BY <1>1, <1>2, <1>4, BelongsStays DEF Placed
<1>7. Fit(req[q].draft, req[q].conv)'
  BY <1>1, <1>2, <1>4, BelongsStays DEF Placed, Fit, At
<1>8. Placed(q)'
  BY <1>1, <1>2, <1>4, <1>6, <1>7, PlacedMove DEF At
<1>9. Kept(q)'
  BY <1>1, <1>2, <1>4, KeptMove DEF At, Ended
<1> QED BY <1>3, <1>4, <1>5, <1>8, <1>9, TracedFrame

LEMMA ReplaceTraced ==
  ASSUME Inv, Traced, NEW q \in Questions, Replace(q)
  PROVE  Traced'
<1> DEFINE c == req[q].conv
           old == IF IsHistory(promised[c]) THEN promised[c] ELSE <<>>
           r == Recorded(q, req[q])
<1>1. /\ At(q, "replace") /\ Placed(q) /\ Kept(q) /\ TypeOK /\ req[q] \in Request
      /\ c \in Convs
      /\ file' = [file EXCEPT ![c] = tmp[c]] /\ tmp' = [tmp EXCEPT ![c] = Absent]
      /\ promised' = [promised EXCEPT ![c] = Cut(Append(old, q))]
      /\ UNCHANGED <<madeFor, overlapped, removed>>
  BY DEF Replace, Traced, Inv, TypeInv, TypeOK, Located, At
<1>2. /\ req'[q] = r
      /\ \A p \in Questions \ {q} : Still(p) /\ req'[p].pc = req[p].pc
  BY <1>1 DEF Replace, Still, Request, TypeOK
<1>3. \/ /\ req[q].route = "analyse" /\ req[q].phase = "append"
         /\ r.pc = "read" /\ r.phase = "sync" /\ r.reply = c
      \/ r.pc = "done" /\ r.phase = "append" /\ req[q].phase = "append" /\ r.reply = c
      \/ /\ r.pc = "done" /\ r.phase = req[q].phase /\ req[q].phase # "append"
         /\ r.reply = req[q].reply
  BY <1>1 DEF Recorded, Request
<1>4. /\ r.given = req[q].given /\ r.conv = c /\ r.route = req[q].route
      /\ r.source = req[q].source
  BY <1>1 DEF Recorded, Request
<1> HIDE DEF r
<1>5. Settled
  BY <1>1, <1>2, <1>3, <1>4 DEF Settled, At, Still
<1>6. /\ old \in Histories
      /\ promised[c] # Absent => promised[c] = old
  BY <1>1, HistoryCases DEF TypeOK, Contents, Histories
<1> HIDE DEF old
<1>7. /\ promised'[c] \in Histories
      /\ Shows(promised'[c], q) \/ Len(promised'[c]) = MaxTurns
      /\ \A p : Shows(old, p) => Shows(promised'[c], p) \/ Len(promised'[c]) = MaxTurns
      /\ Len(old) = MaxTurns => Len(promised'[c]) = MaxTurns
      /\ \A x \in Convs \ {c} : promised'[x] = promised[x]
  BY <1>1, <1>6, AppendKeeps DEF TypeOK
<1>8. promised'[c] # Absent
  BY <1>7, FileAssumption
<1>9. Grows
  BY <1>1, <1>6, <1>7, <1>8 DEF Grows
<1>10. FilesFit'
  <2>1. \A x \in Convs : /\ file'[x] = file[x] \/ (x = c /\ file'[x] = tmp[x])
                         /\ tmp'[x] = tmp[x] \/ tmp'[x] \notin Histories
    BY <1>1, FileAssumption DEF TypeOK
  <2>2. \A x \in Convs : Fit(file'[x], x) /\ Fit(tmp'[x], x)
    BY <2>1 DEF Traced, FilesFit, Fit
  <2>3. \A x \in Convs : madeFor'[x] # NoConv => promised'[x] # Absent \/ x \in removed'
    BY <1>1, <1>7, <1>8 DEF Traced, FilesFit
  <2> QED BY <1>1, <1>5, <2>2, <2>3, BelongsStays DEF FilesFit, Fit
<1>11. Placed(q)'
  <2>1. Belongs(q, req[q].conv)'
    BY <1>1, <1>2, <1>4, <1>5, BelongsStays DEF Placed, Belongs
  <2>2. req'[q].reply \in Convs => Belongs(q, req[q].reply)'
    <3>1. CASE r.reply = c
      BY <1>2, <1>4, <2>1, <3>1 DEF Belongs
    <3>2. CASE r.reply = req[q].reply
      BY <1>1, <1>2, <1>5, <3>2, BelongsStays DEF Placed, Belongs
    <3> QED BY <1>3, <3>1, <3>2
  <2> QED BY <1>1, <1>2, <1>3, <1>4, <1>5, <2>1, <2>2, PlacedMove DEF At
<1>12. Kept(q)'
  <2>1. ASSUME Sound(req[q].given)
        PROVE  /\ promised'[r.given] # Absent
               /\ r.conv = r.given
               /\ r.phase # "append" => r.reply = r.given
               /\ r.reply \in Convs => r.reply = r.given
    BY <1>1, <1>3, <1>4, <1>8, <2>1 DEF Kept, At, Sound
  <2>2. r.phase = "append" /\ r.pc \notin Ended => r.reply \notin Convs
    BY <1>3 DEF Ended
  <2>3. ASSUME Sound(r.reply), r.route # "confirm"
        PROVE  /\ promised'[r.reply] # Absent
               /\ Shows(promised'[r.reply], q) \/ Len(promised'[r.reply]) = MaxTurns
    <3>1. CASE r.reply = c
      BY <1>7, <1>8, <3>1
    <3>2. CASE r.reply = req[q].reply
      <4> DEFINE x == req[q].reply
      <4>1. Sound(x) /\ x \in Convs \ (overlapped' \cup removed')
        BY <1>1, <2>3, <3>2 DEF Sound
      <4>2. promised[x] # Absent /\ (Shows(promised[x], q) \/ Len(promised[x]) = MaxTurns)
        BY <1>1, <1>4, <2>3, <4>1 DEF Kept
      <4> HIDE DEF x
      <4>3. promised'[x] # Absent /\ (Shows(promised'[x], q) \/ Len(promised'[x]) = MaxTurns)
        BY <1>9, <4>1, <4>2 DEF Grows
      <4> QED BY <3>2, <4>3 DEF x
    <3> QED BY <1>3, <3>1, <3>2
  <2>4. \A x : Sound(x)' <=> Sound(x)
    BY <1>1 DEF Sound
  <2>5. /\ Sound(req[q].given)' <=> Sound(req[q].given)
        /\ Sound(req[q].reply)' <=> Sound(r.reply)
        /\ req'[q].given = r.given /\ req'[q].conv = r.conv /\ req'[q].reply = r.reply
        /\ req'[q].phase = r.phase /\ req'[q].pc = r.pc /\ req'[q].route = r.route
        /\ r.pc # "create"
    BY <1>1, <1>2, <1>3, <1>4 DEF Sound
  <2>6. (Shows(promised[req[q].reply], q))' <=> Shows(promised'[r.reply], q)
    BY <2>5
  <2> QED BY <2>1, <2>2, <2>3, <2>5, <2>6 DEF Kept, At
<1> QED BY <1>2, <1>5, <1>9, <1>10, <1>11, <1>12, TracedFrame

LEMMA FailTraced ==
  ASSUME Inv, Traced, NEW q \in Questions, Fail(q)
  PROVE  Traced'
<1> DEFINE r == Failed(req[q])
<1>1. /\ req[q].pc \in {"create", "open", "write", "replace"}
      /\ Placed(q) /\ Kept(q) /\ TypeOK /\ req[q] \in Request
      /\ UNCHANGED <<aged, madeFor, promised, overlapped, removed>>
  BY DEF Fail, Traced, Inv, TypeInv, TypeOK
<1>2. req'[q] = r /\ \A p \in Questions \ {q} : Still(p) /\ req'[p].pc = req[p].pc
  BY <1>1 DEF Fail, Still, TypeOK
<1>3. /\ r.given = req[q].given /\ r.source = req[q].source
      /\ \/ /\ req[q].phase = "append" /\ r.phase = "append"
            /\ r.pc = "read" /\ r.conv = req[q].given /\ r.reply = req[q].reply
            /\ req[q].route \in LoopRoutes /\ r.route = "other"
         \/ /\ req[q].phase = "sync" /\ r.phase = "retry"
            /\ r.pc = "read" /\ r.conv = req[q].reply /\ r.reply = req[q].reply
            /\ r.route = req[q].route
         \/ /\ req[q].phase = "retry" /\ r.phase = "retry"
            /\ r.pc = "done" /\ r.conv = req[q].conv /\ r.reply = req[q].reply
            /\ r.route = req[q].route
         \/ /\ req[q].phase = "append" /\ r.phase = "append"
            /\ r.pc = "done" /\ r.conv = req[q].conv /\ r.reply = "failed"
            /\ r.route = req[q].route
  <2>1. req[q].phase \in {"append", "sync", "retry"}
    BY <1>1 DEF Request, Phases
  <2>2. CASE req[q].phase = "append" /\ req[q].route \in LoopRoutes
    BY <1>1, <2>2 DEF Failed, Request
  <2>3. CASE req[q].phase = "append" /\ req[q].route \notin LoopRoutes
    BY <1>1, <2>3 DEF Failed, Request
  <2>4. CASE req[q].phase = "sync"
    BY <1>1, <2>4 DEF Failed, Request
  <2>5. CASE req[q].phase = "retry"
    BY <1>1, <2>5 DEF Failed, Request
  <2> QED BY <2>1, <2>2, <2>3, <2>4, <2>5
<1> HIDE DEF r
<1>4. Settled /\ Grows
  <2>1. r.pc \in {"read", "done"} /\ (req[q].route = "query" => r.route = "query")
    BY <1>3 DEF LoopRoutes
  <2> QED BY <1>1, <1>2, <1>3, <2>1, SameGrows DEF Settled, At, Still
<1>5. FilesFit'
  <2>1. CASE At(q, "write")
    <3>1. PICK text \in {Target(q), Garbage} : Fill(q, text)
      BY <2>1 DEF Fail
    <3>2. req[q].conv \in Convs
      BY <2>1 DEF Inv, TypeInv, Located, At
    <3>3. text \in {tmp[req[q].conv], file[req[q].conv], Empty, Garbage}
      BY <3>1 DEF Target
    <3>4. text \in Contents
      BY <1>1, <3>2, <3>3 DEF TypeOK, Contents
    <3>5. text \in Histories => \A p \in Questions : Shows(text, p) => Belongs(p, req[q].conv)
      BY <3>2, <3>3, FileAssumption DEF Traced, FilesFit, Fit
    <3> QED BY <1>1, <1>4, <2>1, <3>1, <3>4, <3>5, FillFits
  <2>2. CASE ~At(q, "write")
    <3>1. UNCHANGED <<file, tmp>>
      BY <2>2 DEF Fail
    <3> QED BY <1>1, <1>4, <3>1, FilesFrame
  <2> QED BY <2>1, <2>2
<1>6. ~At(q, "new") /\ req[q].pc \notin Ended /\ "failed" \notin Convs
  BY <1>1, HistoryAssumption DEF At, Ended
<1>7. Placed(q)'
  <2>1. req[q].given \in Convs => Belongs(q, req[q].given)'
    BY <1>2, <1>3 DEF Belongs
  <2>2. req[q].conv \in Convs => Belongs(q, req[q].conv)
    BY <1>1 DEF Placed
  <2>3. req[q].reply \in Convs => Belongs(q, req[q].reply)
    BY <1>1 DEF Placed
  <2>4. r.conv \in {req[q].given, req[q].conv, req[q].reply}
    BY <1>3
  <2>5. r.conv \in Convs => Belongs(q, r.conv) \/ r.conv = req[q].given
    BY <2>2, <2>3, <2>4
  <2>6. r.conv \in Convs => Belongs(q, r.conv) /\ (req'[q].given = r.conv \/ madeFor'[r.conv] = q)
    BY <1>1, <1>2, <1>3, <2>5 DEF Belongs
  <2>7. req'[q].conv \in Convs => Belongs(q, req[q].conv)'
    BY <1>2, <2>6 DEF Belongs
  <2>8. r.reply \in Convs => r.reply = req[q].reply
    BY <1>3, <1>6
  <2>9. req'[q].reply \in Convs => Belongs(q, req[q].reply)'
    BY <1>1, <1>2, <1>3, <2>3, <2>8 DEF Belongs
  <2>10. req'[q].pc \in {"read", "done"}
    BY <1>2, <1>3
  <2> QED BY <1>1, <1>2, <1>3, <1>4, <1>6, <2>7, <2>9, <2>10, PlacedMove
<1>8. Kept(q)'
  <2>1. ASSUME Sound(req[q].given)
        PROVE  /\ promised[r.given] # Absent
               /\ r.pc = "read" => r.conv = r.given
               /\ r.phase # "append" => r.reply = r.given
               /\ r.reply \in Convs => r.reply = r.given
    BY <1>1, <1>3, <1>6, <2>1 DEF Kept
  <2>2. r.phase = "append" => r.reply \notin Convs
    BY <1>1, <1>3, <1>6 DEF Kept
  <2>3. ASSUME Sound(r.reply), r.route # "confirm"
        PROVE  /\ promised[r.reply] # Absent
               /\ Shows(promised[r.reply], q) \/ Len(promised[r.reply]) = MaxTurns
    <3>1. r.reply = req[q].reply /\ r.route = req[q].route
      BY <1>3, <2>2, <2>3 DEF Sound
    <3> QED BY <1>1, <2>3, <3>1 DEF Kept
  <2>4. /\ Sound(req[q].given)' <=> Sound(req[q].given)
        /\ Sound(req[q].reply)' <=> Sound(r.reply)
        /\ req'[q].given = r.given /\ req'[q].conv = r.conv /\ req'[q].reply = r.reply
        /\ req'[q].phase = r.phase /\ req'[q].pc = r.pc /\ req'[q].route = r.route
        /\ r.pc \in {"read", "done"} /\ promised' = promised
    BY <1>1, <1>2, <1>3 DEF Sound
  <2> QED BY <2>1, <2>2, <2>3, <2>4 DEF Kept, At
<1> QED BY <1>2, <1>4, <1>5, <1>7, <1>8, TracedFrame

LEMMA CrashTraced ==
  ASSUME Inv, Traced, Crash
  PROVE  Traced'
<1>1. ASSUME NEW q \in Questions PROVE Still(q) /\ (~At(q, "new") => ~At(q, "new")')
  <2>1. req[q] \in Request
    BY DEF Inv, TypeInv, TypeOK
  <2>2. req'[q] = IF q \in Active THEN [req[q] EXCEPT !.pc = "lost", !.open = "none"]
                  ELSE req[q]
    BY DEF Crash
  <2>3. q \in Active => ~At(q, "new")
    BY DEF Active, At
  <2> QED BY <2>1, <2>2, <2>3 DEF Still, At, Request
<1>2. UNCHANGED <<file, tmp, aged, madeFor, promised, overlapped, removed>>
  BY DEF Crash
<1>3. Settled /\ Grows
  BY <1>1, <1>2, SameGrows DEF Settled, Still
<1> QED BY <1>1, <1>2, <1>3, FilesFrame, TracedFrame

LEMMA UnlinkedStill ==
  ASSUME TypeInv, NEW gone, NEW q \in Questions
  PROVE  LET u == Unlinked(gone)[q]
         IN  /\ u.given = req[q].given /\ u.conv = req[q].conv /\ u.reply = req[q].reply
             /\ u.phase = req[q].phase /\ u.route = req[q].route
             /\ u.source = req[q].source /\ u.draft = req[q].draft /\ u.pc = req[q].pc
             /\ u \in Request
BY UnlinkedType DEF Unlinked, TypeInv, TypeOK, Request

LEMMA UnlinkTraced ==
  ASSUME Inv, Traced, NEW gone \in SUBSET Convs, Unlink(gone)
  PROVE  Traced'
<1>1. \A q \in Questions : Still(q) /\ req'[q].pc = req[q].pc
  BY UnlinkedStill DEF Unlink, Still, Inv
<1>2. Settled
  BY <1>1 DEF Settled, Still, At, Unlink
<1>3. Grows
  BY DEF Unlink, Remove, Grows
<1>4. FilesFit'
  <2>1. \A x \in Convs : file'[x] = file[x] \/ file'[x] \notin Histories
    BY FileAssumption DEF Unlink
  <2>2. \A x \in Convs : madeFor'[x] # NoConv => promised'[x] # Absent \/ x \in removed'
    BY DEF Unlink, Remove, Traced, FilesFit
  <2>3. tmp' = tmp /\ madeFor' = madeFor
    BY DEF Unlink
  <2> QED BY <1>2, <2>1, <2>2, <2>3, BelongsStays DEF Traced, FilesFit, Fit, Inv, TypeInv
<1> QED BY <1>1, <1>2, <1>3, <1>4, TracedFrame

LEMMA EmptyShows == <<>> \in Histories /\ \A p : ~Shows(<<>>, p)
BY EmptySeq, LenProperties DEF Histories, Shows

\* What the creation of a conversation does to files, for whomever it is made.
LEMMA CreateFileFit ==
  ASSUME Inv, Traced, Settled, NEW c \in Convs, CreateFile(c), tmp' = tmp,
         \A x \in Convs \ {c} : madeFor'[x] = madeFor[x]
  PROVE  FilesFit' /\ Grows
<1>1. /\ \A x \in Convs : file'[x] \in {file[x], Absent, <<>>}
      /\ \A x \in Convs \ Expired : x # c => promised'[x] = promised[x]
      /\ promised'[c] = <<>> /\ promised[c] = Absent /\ c \notin removed
      /\ removed' = removed \cup Expired /\ overlapped \subseteq overlapped'
  BY DEF CreateFile, Remove
<1>2. <<>> # Absent
  BY EmptyShows, FileAssumption
<1>3. Grows
  BY <1>1, <1>2 DEF Grows
<1>4. \A x \in Convs : Fit(file'[x], x)
  BY <1>1, EmptyShows, FileAssumption DEF Traced, FilesFit, Fit
<1>5. \A x \in Convs : madeFor'[x] # NoConv => promised'[x] # Absent \/ x \in removed'
  BY <1>1, <1>2 DEF Traced, FilesFit
<1> QED BY <1>3, <1>4, <1>5, BelongsStays DEF Traced, FilesFit, Fit, Inv, TypeInv

LEMMA CreateByApiTraced ==
  ASSUME Inv, Traced, NEW c \in Convs, CreateByApi(c)
  PROVE  Traced'
<1>1. \A q \in Questions : Still(q) /\ req'[q].pc = req[q].pc
  BY UnlinkedStill DEF CreateByApi, Still, Inv
<1>2. Settled
  BY <1>1 DEF Settled, Still, At, CreateByApi
<1>3. FilesFit' /\ Grows
  BY <1>2, CreateFileFit DEF CreateByApi
<1> QED BY <1>1, <1>2, <1>3, TracedFrame

LEMMA CreateTraced ==
  ASSUME Inv, Traced, NEW q \in Questions, NEW c \in Convs, Create(q, c)
  PROVE  Traced'
<1> DEFINE f == Unlinked(Expired)
<1>1. /\ At(q, "create") /\ Placed(q) /\ Kept(q) /\ TypeOK /\ CreateFile(c) /\ tmp' = tmp
      /\ madeFor' = [madeFor EXCEPT ![c] = q]
      /\ req' = [f EXCEPT ![q] = [@ EXCEPT !.pc = "open", !.conv = c, !.draft = <<q>>]]
  BY DEF Create, Traced, Inv, TypeInv
<1>2. /\ f \in [Questions -> Request]
      /\ \A p \in Questions :
           /\ f[p].given = req[p].given /\ f[p].conv = req[p].conv
           /\ f[p].reply = req[p].reply /\ f[p].phase = req[p].phase
           /\ f[p].route = req[p].route /\ f[p].source = req[p].source
           /\ f[p].draft = req[p].draft /\ f[p].pc = req[p].pc
  BY UnlinkedStill, UnlinkedType DEF Inv
<1> HIDE DEF f
<1>3. \A p \in Questions \ {q} : Still(p) /\ req'[p].pc = req[p].pc
  BY <1>1, <1>2 DEF Still
<1>4. /\ req'[q].given = req[q].given /\ req'[q].reply = req[q].reply
      /\ req'[q].phase = req[q].phase /\ req'[q].route = req[q].route
      /\ req'[q].source = req[q].source
      /\ req'[q].pc = "open" /\ req'[q].conv = c /\ req'[q].draft = <<q>>
  BY <1>1, <1>2 DEF Request
<1>5. madeFor[c] = NoConv /\ madeFor'[c] = q /\ \A x \in Convs \ {c} : madeFor'[x] = madeFor[x]
  BY <1>1 DEF Traced, FilesFit, CreateFile, TypeOK
<1>6. Settled
  BY <1>3, <1>4, <1>5 DEF Settled, Still, At
<1>7. FilesFit' /\ Grows
  BY <1>1, <1>5, <1>6, CreateFileFit
<1>8. Placed(q)'
  <2>1. Belongs(q, req[q].conv)'
    BY <1>4, <1>5 DEF Belongs
  <2>2. req'[q].reply \in Convs => Belongs(q, req[q].reply)'
    BY <1>1, <1>4, <1>6, BelongsStays DEF Placed, Belongs
  <2>3. \A p : Shows(<<q>>, p) => p = q
    <3>1. Append(<<>>, q) = <<q>>
      OBVIOUS
    <3> QED BY <3>1, EmptyShows, AppendShows
  <2>4. Fit(req[q].draft, req[q].conv)'
    BY <1>4, <2>1, <2>3 DEF Fit
  <2> QED BY <1>1, <1>4, <1>6, <2>1, <2>2, <2>4, PlacedMove DEF At
<1>9. Kept(q)'
  <2>1. ~Sound(req[q].given)'
    BY <1>1, <1>4, <1>7 DEF Kept, At, Sound, Grows
  <2>2. req'[q].phase = "append" => req'[q].reply \notin Convs
    BY <1>1, <1>4 DEF Kept, At, Ended
  <2>3. ASSUME Sound(req[q].reply)', req'[q].route # "confirm"
        PROVE  /\ promised'[req'[q].reply] # Absent
               /\ Shows(promised[req[q].reply], q)' \/ Len(promised'[req'[q].reply]) = MaxTurns
    <3> DEFINE x == req[q].reply
    <3>1. Sound(x) /\ x \in Convs \ (overlapped' \cup removed') /\ req'[q].reply = x
      BY <1>4, <1>7, <2>3 DEF Sound, Grows
    <3>2. promised[x] # Absent /\ (Shows(promised[x], q) \/ Len(promised[x]) = MaxTurns)
      BY <1>1, <1>4, <2>3, <3>1 DEF Kept
    <3>3. promised'[x] # Absent /\ (Shows(promised'[x], q) \/ Len(promised'[x]) = MaxTurns)
      BY <1>7, <3>1, <3>2 DEF Grows
    <3> HIDE DEF x
    <3> QED BY <3>1, <3>3
  <2> QED BY <2>1, <2>2, <2>3 DEF Kept
<1> QED BY <1>3, <1>6, <1>7, <1>8, <1>9, TracedFrame

LEMMA NextTraced == Inv /\ Traced /\ [Next]_vars => Traced'
<1> SUFFICES ASSUME Inv, Traced, [Next]_vars PROVE Traced'
  OBVIOUS
<1>1. ASSUME NEW q \in Questions, Step(q) PROVE Traced'
  BY <1>1, AskTraced, SearchTraced, ReadTraced, CreateTraced, OpenTraced, WriteTraced,
     ReplaceTraced, FailTraced DEF Step
<1>2. ASSUME NEW c \in Convs, Delete(c) PROVE Traced'
  BY <1>2, UnlinkTraced DEF Delete
<1>3. ASSUME List PROVE Traced'
  BY <1>3, UnlinkTraced DEF List, Expired, Inv, TypeInv, TypeOK
<1>4. ASSUME UNCHANGED vars PROVE Traced'
  <2>1. \A q \in Questions : Still(q)
    BY <1>4 DEF vars, Still
  <2>2. Settled /\ Grows
    BY <1>4 DEF vars, Settled, Grows, At
  <2> QED BY <1>4, <2>1, <2>2, FilesFrame, TracedFrame DEF vars
<1> QED BY <1>1, <1>2, <1>3, <1>4, CrashTraced, CreateByApiTraced DEF Next

LEMMA AlwaysTraced == Spec => [](Inv /\ Traced)
BY InitInv, NextInv, InitTraced, NextTraced, PTL DEF Spec

\* However writers overlap, tear and lose files, a conversation shows no turn
\* of a request for another one, and an export repeats a query of its own
\* (conversation_store.py, append_turn; conversation_actions.py).
THEOREM NeverForeign == Spec => []NoForeignTurn
<1>1. ASSUME Inv, Traced PROVE NoForeignTurn
  <2>1. \A c \in Convs, q \in Questions :
          IsHistory(file[c]) /\ (\E i \in DOMAIN file[c] : file[c][i] = q) => Belongs(q, c)
    BY <1>1, HistoryCases DEF Traced, FilesFit, Fit, Shows, Inv, TypeInv, TypeOK
  <2>2. \A q \in Questions : req[q].source # NoTurn =>
          /\ IsQuery(req[q].source)
          /\ req[q].source \in Questions => Belongs(req[q].source, req[q].given)
    BY <1>1 DEF Traced, Placed
  <2> QED BY <2>1, <2>2 DEF NoForeignTurn
<1> QED BY <1>1, AlwaysTraced, PTL

\* An answer names the conversation it was asked in and can be read there,
\* until newer turns push it out, for every number of requests and every
\* failure (conversation_store.py; app.py, _batch66_sync_history_before_return).
THEOREM AnswersStay == Spec => []AnswerRecorded
<1>1. ASSUME Inv, Traced PROVE AnswerRecorded
  <2>1. ASSUME NEW q \in Questions, req[q].reply \in Convs,
               req[q].given \in Convs \ (overlapped \cup removed)
        PROVE  req[q].reply = req[q].given
    <3>1. ~At(q, "new")
      BY <1>1, <2>1, HistoryAssumption DEF Traced, Placed
    <3> QED BY <1>1, <2>1, <3>1 DEF Traced, Kept, Sound
  <2>2. ASSUME NEW q \in Questions, req[q].reply \in Convs \ (overlapped \cup removed),
               req[q].route # "confirm"
        PROVE  \/ \E i \in DOMAIN file[req[q].reply] : file[req[q].reply][i] = q
               \/ Len(file[req[q].reply]) = MaxTurns
    <3> DEFINE c == req[q].reply
    <3>1. promised[c] # Absent /\ (Shows(promised[c], q) \/ Len(promised[c]) = MaxTurns)
      BY <1>1, <2>2 DEF Traced, Kept, Sound
    <3>2. file[c] = promised[c]
      BY <1>1, <2>2, <3>1, SerialFile
    <3> QED BY <3>1, <3>2 DEF Shows
  <2> QED BY <2>1, <2>2 DEF AnswerRecorded, SameConversation
<1> QED BY <1>1, AlwaysTraced, PTL
=============================================================================
