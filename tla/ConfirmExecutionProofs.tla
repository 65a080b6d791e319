----------------------- MODULE ConfirmExecutionProofs -----------------------
(***************************************************************************)
(* The safety of the confirm-and-execute pipeline for every set of         *)
(* conversations, users, user files, commands and lists, every batch size  *)
(* and every number of requests.                                           *)
(***************************************************************************)
EXTENDS ConfirmExecution, FiniteSetTheorems, TLAPS

Writers == {"chat", "compare"}

Paths == Convs \cup UserFiles

Job == {Nothing} \cup [entry : Entry, files : Seq(Paths)]

Call == [index : Nat, item : Item, conv : Convs, user : Users,
         status : {"executed", "failed", "rejected"}, chunk : Nat,
         pass : {1, 2}]

\* The parts of TypeOK, and the types of the variables it leaves out.
Typed0 ==
  /\ files \in [Paths -> Entry \cup {NoEntry, Torn}]
  /\ writing \in [Writers -> Job]
  /\ phase \in Phases
  /\ pending \in Entry \cup {NoEntry, Torn}
  /\ done \in Nat
  /\ pass \in {1, 2}
  /\ calls \in Seq(Call)
  /\ audited \subseteq DOMAIN calls
  /\ phase = "audit" => calls # <<>>
  /\ phase = "direct" => calls = <<>> /\ queue = {}
  /\ asked \in 0..MaxRequests

\* The fields each kind of request has, and the kinds each phase serves.
Requested ==
  /\ req.kind \in {"none", "list", "suggest", "confirm", "direct", "inline"}
  /\ req.kind # "none" => req.conv \in Convs /\ req.user \in Users
  /\ req.kind = "suggest" => req.items \in Seq(Item)
  /\ req.kind = "inline" => req.commands \in Seq(Commands)
  /\ req.kind = "confirm" => /\ req.number \in Nat
                             /\ req.yes \in BOOLEAN
                             /\ req.plan \in Plans \ {"followup"} \/ phase = "idle"
  /\ req.kind = "direct" => req.command \in Commands /\ req.yes \in BOOLEAN
  /\ phase = "store" => req.kind \in {"suggest", "inline"}
  /\ phase = "persist" => req.kind = "inline"
  /\ phase = "direct" => req.kind = "direct"
  /\ phase = "load" => req.kind \in {"confirm", "inline"}
  /\ phase \in {"run", "audit"} => req.kind \in {"confirm", "direct", "inline"}

\* Only passed commands of the loaded list are queued.
Queued == queue \subseteq IF pending \in Entry THEN Passed(pending.items) ELSE {}

\* An entry lies, or will be written, only where its conversation and its
\* user say.
Belongs(e, f) == f = e.conv \/ f = UserFile[e.user]

Owned ==
  /\ \A f \in Paths : files[f] \in Entry => Belongs(files[f], f)
  /\ \A w \in Writers : \A i \in DOMAIN writing[w].files :
       Belongs(writing[w].entry, writing[w].files[i])
  /\ phase = "persist" => /\ writing["chat"].entry \in Entry
                          /\ writing["chat"].entry.conv = req.conv
                          /\ writing["chat"].entry.user = req.user

TypeInv == Typed0 /\ Requested /\ Queued /\ Owned

LEMMA ItemSeqs == Lists \subseteq Seq(Item)
BY InputAssumption

LEMMA ChunkType ==
  ASSUME NEW cmds \in Seq(Commands), NEW n \in Nat
  PROVE  ChunkAfter(cmds, n) \in Seq(Item)
<1>1. Min(MaxBatch, Len(cmds) - n) \in Int
  BY BoundAssumption DEF Min
<1>2. CASE Min(MaxBatch, Len(cmds) - n) <= 0
  <2>1. 1..Min(MaxBatch, Len(cmds) - n) = 1..0
    BY <1>1, <1>2
  <2>2. ChunkAfter(cmds, n) \in [1..0 -> Item]
    BY <2>1 DEF ChunkAfter
  <2> QED BY <2>2
<1>3. CASE Min(MaxBatch, Len(cmds) - n) > 0
  <2>1. \A i \in 1..Min(MaxBatch, Len(cmds) - n) : n + i \in DOMAIN cmds
    BY <1>3, BoundAssumption DEF Min
  <2>2. ChunkAfter(cmds, n) \in [1..Min(MaxBatch, Len(cmds) - n) -> Item]
    BY <2>1 DEF ChunkAfter, Item, Verdict
  <2> QED BY <1>1, <1>3, <2>2
<1> QED BY <1>1, <1>2, <1>3

LEMMA JobType ==
  ASSUME NEW c \in Convs, NEW u \in Users, NEW l \in Seq(Item)
  PROVE  /\ StoreJob(c, u, l) \in Job
         /\ StoreJob(c, u, l).entry \in Entry
         /\ StoreJob(c, u, l).entry.conv = c
         /\ StoreJob(c, u, l).entry.user = u
         /\ \A i \in DOMAIN StoreJob(c, u, l).files :
              Belongs(StoreJob(c, u, l).entry, StoreJob(c, u, l).files[i])
<1>1. UserFile[u] \in UserFiles
  BY FileAssumption
<1>2. PendingPaths(c, u) \in Seq(Paths)
  BY <1>1 DEF PendingPaths, Paths
<1>3. StoreJob(c, u, l) \in Job
  BY <1>2 DEF StoreJob, Job, Entry
<1>4. \A i \in DOMAIN StoreJob(c, u, l).files :
        Belongs(StoreJob(c, u, l).entry, StoreJob(c, u, l).files[i])
  BY DEF StoreJob, PendingPaths, Belongs
<1>5. StoreJob(c, u, l).entry \in Entry
  BY DEF StoreJob, Entry
<1> QED BY <1>3, <1>4, <1>5 DEF StoreJob

LEMMA JobFiles ==
  ASSUME NEW j \in Job, j.files # <<>>
  PROVE  /\ j.entry \in Entry
         /\ j.files \in Seq(Paths)
         /\ Head(j.files) \in Paths
         /\ Tail(j.files) \in Seq(Paths)
BY DEF Job, Nothing

LEMMA LoadType ==
  ASSUME Typed0, NEW c \in Convs, NEW u \in Users
  PROVE  LoadPending(c, u) \in Entry \cup {NoEntry, Torn}
BY FileAssumption DEF LoadPending, Typed0, Paths

LEMMA InitType == Init => TypeInv
<1> SUFFICES ASSUME Init PROVE TypeInv
  OBVIOUS
<1>1. Typed0
  BY BoundAssumption DEF Init, Typed0, Job, Writers, Paths, Phases, NoList
<1>2. Requested /\ Queued
  BY DEF Init, Requested, NoRequest, Queued
<1>3. Owned
  BY NoEntryAssumption DEF Init, Owned, Paths, Writers, Nothing
<1> QED BY <1>1, <1>2, <1>3 DEF TypeInv

-----------------------------------------------------------------------------
(* The type invariant, one step per action.                                 *)

LEMMA ArrivalType == TypeInv /\ Arrival => TypeInv'
<1> SUFFICES ASSUME TypeInv, NEW c \in Convs, NEW u \in Users,
                    \/ \E l \in Lists : Suggest(c, u, l) \/ SuggestV4(c, u, l)
                    \/ \E l \in Lists : u \in CompareUsers /\ Compare(c, u, l)
                    \/ \E n \in Numbers, digits, yes \in BOOLEAN, plan \in Plans :
                         Confirm(c, u, n, digits, yes, plan)
                    \/ \E cmd \in Commands, yes \in BOOLEAN : Direct(c, u, cmd, yes)
                    \/ \E cmds \in Typed : Inline(c, u, cmds)
             PROVE  TypeInv'
  BY DEF Arrival
<1> USE DEF TypeInv, Typed0, Phases, Writers
<1>1. ASSUME NEW l \in Lists, Suggest(c, u, l) PROVE TypeInv'
  <2>1. l \in Seq(Item)
    BY ItemSeqs
  <2>2. Typed0'
    BY <1>1, <2>1, JobType, BoundAssumption DEF Suggest, Begin
  <2>3. Requested' /\ Queued'
    BY <1>1, <2>1, NoEntryAssumption DEF Suggest, Begin, Requested, Queued
  <2>4. Owned'
    BY <1>1, <2>1, JobType DEF Suggest, Begin, Owned
  <2> QED BY <2>2, <2>3, <2>4
<1>2. ASSUME NEW l \in Lists, SuggestV4(c, u, l) PROVE TypeInv'
  <2>1. l \in Seq(Item)
    BY ItemSeqs
  <2>2. Typed0'
    BY <1>2, <2>1, BoundAssumption DEF SuggestV4, Begin
  <2>3. Requested' /\ Queued' /\ Owned'
    BY <1>2, NoEntryAssumption DEF SuggestV4, Begin, Requested, Queued, Owned
  <2> QED BY <2>2, <2>3
<1>3. ASSUME NEW l \in Lists, Compare(c, u, l) PROVE TypeInv'
  <2>1. l \in Seq(Item)
    BY ItemSeqs
  <2>2. Typed0'
    BY <1>3, <2>1, JobType, BoundAssumption DEF Compare, exec
  <2>3. Requested' /\ Queued'
    BY <1>3 DEF Compare, exec, Requested, Queued
  <2>4. Owned'
    BY <1>3, <2>1, JobType DEF Compare, Owned
  <2> QED BY <2>2, <2>3, <2>4
<1>4. ASSUME NEW n \in Numbers, NEW digits \in BOOLEAN, NEW yes \in BOOLEAN,
             NEW plan \in Plans, Confirm(c, u, n, digits, yes, plan)
      PROVE  TypeInv'
  <2>1. Typed0'
    BY <1>4, BoundAssumption DEF Confirm, Begin
  <2>2. Requested'
    BY <1>4, InputAssumption DEF Confirm, Begin, Requested, Plans
  <2>3. Queued' /\ Owned'
    BY <1>4, NoEntryAssumption DEF Confirm, Begin, Queued, Owned
  <2> QED BY <2>1, <2>2, <2>3
<1>5. ASSUME NEW cmds \in Typed, Inline(c, u, cmds) PROVE TypeInv'
  <2>1. cmds \in Seq(Commands) /\ ChunkAfter(cmds, 0) \in Seq(Item)
    BY InputAssumption, ChunkType
  <2>2. Typed0'
    BY <1>5, <2>1, JobType, BoundAssumption DEF Inline, Begin
  <2>3. Requested' /\ Queued'
    BY <1>5, <2>1, NoEntryAssumption DEF Inline, Begin, Requested, Queued
  <2>4. Owned'
    BY <1>5, <2>1, JobType DEF Inline, Begin, Owned
  <2> QED BY <2>2, <2>3, <2>4
<1>6. ASSUME NEW cmd \in Commands, NEW yes \in BOOLEAN, Direct(c, u, cmd, yes)
      PROVE  TypeInv'
  <2>1. Typed0'
    BY <1>6, BoundAssumption DEF Direct, Begin
  <2>2. Requested'
    BY <1>6 DEF Direct, Begin, Requested
  <2>3. Queued' /\ Owned'
    BY <1>6, NoEntryAssumption DEF Direct, Begin, Queued, Owned
  <2> QED BY <2>1, <2>2, <2>3
<1> QED BY <1>1, <1>2, <1>3, <1>4, <1>5, <1>6

LEMMA FileType ==
  ASSUME TypeInv, NEW w \in Writers, WriteFile(w) \/ WriteFails(w)
  PROVE  TypeInv'
<1> USE DEF TypeInv, Typed0
<1>1. writing[w] \in Job /\ writing[w].files # <<>>
  BY DEF WriteFile, WriteFails
<1>2. /\ writing[w].entry \in Entry
      /\ writing[w].files \in Seq(Paths)
      /\ Head(writing[w].files) \in Paths
      /\ Tail(writing[w].files) \in Seq(Paths)
  BY <1>1, JobFiles
<1>3. writing[w] \in [entry : Entry, files : Seq(Paths)]
  BY <1>1 DEF Job, Nothing
<1>4. \A fs \in Seq(Paths) : Left(w, fs) \in Job
  BY <1>2 DEF Job, Left
<1>5. Belongs(writing[w].entry, Head(writing[w].files))
  BY <1>1, <1>2 DEF Owned
<1>6. CASE WriteFile(w)
  <2>1. writing' \in [Writers -> Job]
    BY <1>2, <1>4, <1>6 DEF WriteFile
  <2>2. files' \in [Paths -> Entry \cup {NoEntry, Torn}]
    BY <1>2, <1>6 DEF WriteFile
  <2>3. \A f \in Paths : files'[f] \in Entry => Belongs(files'[f], f)
    BY <1>2, <1>5, <1>6, NoEntryAssumption DEF WriteFile, Owned
  <2>4. \A v \in Writers : \A i \in DOMAIN writing'[v].files :
          Belongs(writing'[v].entry, writing'[v].files[i])
    <3>1. \A i \in DOMAIN Tail(writing[w].files) :
            /\ Tail(writing[w].files)[i] = writing[w].files[i + 1]
            /\ i + 1 \in DOMAIN writing[w].files
      BY <1>1, <1>2
    <3>2. writing'[w].files = Tail(writing[w].files)
          /\ writing'[w].entry = writing[w].entry
      BY <1>6 DEF WriteFile, Left
    <3>3. \A v \in Writers \ {w} : writing'[v] = writing[v]
      BY <1>6 DEF WriteFile
    <3>4. \A i \in DOMAIN writing'[w].files :
            Belongs(writing'[w].entry, writing'[w].files[i])
      BY <3>1, <3>2 DEF Owned
    <3> QED BY <3>3, <3>4 DEF Owned
  <2>5. writing'["chat"].entry = writing["chat"].entry
    BY <1>6 DEF WriteFile, Left, Writers
  <2>6. Owned'
    BY <1>6, <2>3, <2>4, <2>5 DEF WriteFile, Owned
  <2> QED BY <1>6, <2>1, <2>2, <2>6 DEF WriteFile, exec, Requested, Queued
<1>7. CASE WriteFails(w)
  <2>1. writing' \in [Writers -> Job] /\ phase' \in Phases
    <3>1. <<>> \in Seq(Paths) /\ Nothing \in Job
      BY DEF Job
    <3> QED BY <1>4, <1>7, <3>1 DEF WriteFails, Phases
  <2>2. \A v \in Writers : writing'[v] = writing[v] \/ writing'[v].files = <<>>
    BY <1>7 DEF WriteFails, Left, Nothing, Writers
  <2>3. phase' = "persist" => phase = "persist" /\ writing'["chat"] = writing["chat"]
    BY <1>7 DEF WriteFails, Writers
  <2>4. Owned'
    BY <1>7, <2>2, <2>3 DEF WriteFails, Owned
  <2> QED BY <1>7, <2>1, <2>4 DEF WriteFails, exec, Requested, Queued
<1> QED BY <1>6, <1>7

\* The remaining steps leave the files, and what is written, or write anew.
LEMMA ReplyType ==
  ASSUME TypeInv, CompareReturns \/ SuggestReturns \/ Persisted \/ Stored
  PROVE  TypeInv'
<1> USE DEF TypeInv, Typed0, Phases, Writers
<1>1. CASE CompareReturns
  <2>1. writing["compare"] \in [entry : Entry, files : Seq(Paths)]
    BY <1>1 DEF CompareReturns, Job
  <2>2. Nothing \in Job /\ DOMAIN Nothing.files = {}
    BY DEF Job, Nothing
  <2>3. Typed0'
    BY <1>1, <2>1, <2>2 DEF CompareReturns, exec, Entry
  <2> QED BY <1>1, <2>2, <2>3 DEF CompareReturns, exec, Requested, Queued, Owned
<1>2. CASE SuggestReturns
  <2>1. Nothing \in Job /\ DOMAIN Nothing.files = {}
    BY DEF Job, Nothing
  <2>2. Typed0'
    BY <1>2, <2>1 DEF SuggestReturns, exec, Requested
  <2> QED BY <1>2, <2>1, <2>2 DEF SuggestReturns, exec, Requested, Queued, Owned
<1>3. CASE Stored
  <2>1. Nothing \in Job /\ DOMAIN Nothing.files = {}
    BY DEF Job, Nothing
  <2>2. Typed0'
    BY <1>3, <2>1 DEF Stored, exec
  <2> QED BY <1>3, <2>1, <2>2 DEF Stored, exec, Requested, Queued, Owned
<1>4. CASE Persisted
  <2>1. req.conv \in Convs /\ req.user \in Users
    BY <1>4 DEF Persisted, Requested
  <2>2. PendingPaths(req.conv, req.user) \in Seq(Paths)
    BY <2>1, FileAssumption DEF PendingPaths, Paths
  <2>3. Left("chat", PendingPaths(req.conv, req.user)) \in Job
    BY <1>4, <2>2 DEF Persisted, Left, Job, Owned
  <2>4. Typed0'
    BY <1>4, <2>3 DEF Persisted, exec
  <2>5. Owned'
    BY <1>4 DEF Persisted, Left, Owned, PendingPaths, Belongs
  <2> QED BY <1>4, <2>4, <2>5 DEF Persisted, exec, Requested, Queued
<1> QED BY <1>1, <1>2, <1>3, <1>4

LEMMA QueueType ==
  ASSUME TypeInv, pending \in Entry
  PROVE  /\ pending.items \in Seq(Item)
         /\ \A i \in queue : /\ i \in DOMAIN pending.items
                            /\ i \in Nat
                            /\ pending.items[i] \in Item
                            /\ pending.items[i].guard = "passed"
         /\ pending.conv \in Convs
         /\ pending.user \in Users
BY DEF TypeInv, Queued, Passed, Entry

\* Selected takes only passed items.
LEMMA SelectedPassed ==
  ASSUME NEW items, NEW q, q.yes \in BOOLEAN
  PROVE  Selected(items, q) \subseteq Passed(items)
BY DEF Selected

LEMMA MeantType ==
  ASSUME Requested, req.kind \in {"confirm", "inline"}
  PROVE  Meant(req).yes \in BOOLEAN /\ Meant(req).number \in Nat
<1>1. CASE req.kind = "inline"
  BY <1>1 DEF Meant
<1>2. CASE req.kind = "confirm" /\ (req.plan = "execute" \/ (req.plan = "down" /\ req.yes))
  BY <1>2 DEF Meant, Requested
<1>3. CASE req.kind = "confirm" /\ ~(req.plan = "execute" \/ (req.plan = "down" /\ req.yes))
  BY <1>3 DEF Meant, Requested
<1> QED BY <1>1, <1>2, <1>3

LEMMA LoadStepType == TypeInv /\ Load => TypeInv'
<1> SUFFICES ASSUME TypeInv, Load PROVE TypeInv'
  OBVIOUS
<1> USE DEF TypeInv
<1>1. req.kind \in {"confirm", "inline"} /\ req.conv \in Convs /\ req.user \in Users
  BY DEF Load, Requested
<1>2. pending' \in Entry \cup {NoEntry, Torn}
  BY <1>1, LoadType DEF Load
<1>3. Typed0'
  BY <1>2 DEF Load, Typed0, Phases
<1>4. Queued'
  <2>1. Meant(req).yes \in BOOLEAN
    BY <1>1, MeantType
  <2>2. Selected(pending'.items, Meant(req)) \subseteq Passed(pending'.items)
    BY <2>1, SelectedPassed
  <2>3. queue' = IF pending' \in {NoEntry, Torn} THEN {}
                 ELSE Selected(pending'.items, Meant(req))
    BY DEF Load
  <2> QED BY <1>2, <2>2, <2>3, NoEntryAssumption DEF Queued
<1> QED BY <1>1, <1>3, <1>4 DEF Load, Requested, Owned

LEMMA ExecuteType == TypeInv /\ Execute => TypeInv'
<1> SUFFICES ASSUME TypeInv, Execute PROVE TypeInv'
  OBVIOUS
<1> USE DEF TypeInv
<1>1. pending \in Entry
  BY DEF Execute, Queued
<1>2. PICK i \in queue :
        \E status \in {"executed", "failed", "rejected"} :
          calls' = Append(calls,
              [index |-> i, item |-> pending.items[i], conv |-> pending.conv,
               user |-> pending.user, status |-> status, chunk |-> done,
               pass |-> pass])
  BY DEF Execute, Outcomes
<1>3. calls' \in Seq(Call)
  BY <1>1, <1>2, QueueType DEF Call, Typed0
<1>6. calls' # <<>> /\ DOMAIN calls \subseteq DOMAIN calls'
  BY <1>1, <1>2, QueueType DEF Typed0
<1>4. Typed0'
  BY <1>3, <1>6 DEF Execute, Typed0, Phases
<1>5. Queued'
  BY <1>1 DEF Execute, Queued
<1> QED BY <1>4, <1>5 DEF Execute, Requested, Owned

\* What the executor is called with by the endpoint, and what it appends.
LEMMA DirectCall ==
  ASSUME TypeInv, ExecuteDirect
  PROVE  \E k \in Call :
           /\ calls' = <<k>>
           /\ k.item.guard = Guard[k.item.command]
           /\ k.status # "rejected" => k.item.guard = "passed" /\ req.yes
           /\ k.chunk = done
           /\ k.pass = pass
<1>1. /\ req.command \in Commands
      /\ req.conv \in Convs
      /\ req.user \in Users
      /\ req.kind = "direct"
  BY DEF TypeInv, Requested, ExecuteDirect
<1>2. calls = <<>> /\ done \in Nat /\ pass \in {1, 2}
  BY DEF TypeInv, Typed0, ExecuteDirect
<1>3. Guard[req.command] \in Verdict
  BY <1>1, GuardAssumption
<1> DEFINE k(status) ==
      [index |-> 0, item |-> [command |-> req.command, guard |-> Guard[req.command]],
       conv |-> req.conv, user |-> req.user, status |-> status, chunk |-> done,
       pass |-> pass]
<1>4. PICK status \in Outcomes(req.command, req.yes) : calls' = Append(calls, k(status))
  BY DEF ExecuteDirect
<1>5. k(status) \in Call
  BY <1>1, <1>2, <1>3 DEF Call, Item, Outcomes
<1>6. calls' = <<k(status)>>
  BY <1>2, <1>4
<1> QED BY <1>5, <1>6 DEF Outcomes

LEMMA DirectType == TypeInv /\ ExecuteDirect => TypeInv'
<1> SUFFICES ASSUME TypeInv, ExecuteDirect PROVE TypeInv'
  OBVIOUS
<1> USE DEF TypeInv
<1>1. PICK k \in Call : calls' = <<k>>
  BY DirectCall
<1>2. calls' \in Seq(Call) /\ calls' # <<>> /\ DOMAIN calls = {}
  BY <1>1 DEF ExecuteDirect, Typed0
<1>3. Typed0'
  BY <1>2 DEF ExecuteDirect, Typed0, Phases
<1> QED BY <1>3 DEF ExecuteDirect, Requested, Queued, Owned

LEMMA AuditType == TypeInv /\ Audit => TypeInv'
<1> SUFFICES ASSUME TypeInv, Audit PROVE TypeInv'
  OBVIOUS
<1> USE DEF TypeInv
<1>1. Len(calls) \in DOMAIN calls
  BY DEF Audit, Typed0
<1>2. Typed0'
  BY <1>1 DEF Audit, Typed0, Phases
<1> QED BY <1>2 DEF Audit, Requested, Queued, Owned

LEMMA InlineType ==
  ASSUME TypeInv,
         \/ ConfirmReturns \/ TryAgain \/ InlineFails \/ NextChunk \/ InlineReturns
         \/ Crash
  PROVE  TypeInv'
<1> USE DEF TypeInv, Typed0, Phases
<1>1. CASE ConfirmReturns \/ TryAgain \/ InlineFails
  BY <1>1 DEF ConfirmReturns, TryAgain, InlineFails, exec, Requested, Queued, Owned
<1>2. CASE NextChunk
  <2>1. req.commands \in Seq(Commands) /\ req.conv \in Convs /\ req.user \in Users
    BY <1>2 DEF NextChunk, Requested
  <2>2. done + MaxBatch \in Nat
    BY BoundAssumption
  <2>3. ChunkAfter(req.commands, done + MaxBatch) \in Seq(Item)
    BY <2>1, <2>2, ChunkType
  <2>4. StoreJob(req.conv, req.user, ChunkAfter(req.commands, done + MaxBatch)) \in Job
    BY <2>1, <2>3, JobType
  <2>6. writing' \in [Writers -> Job]
    BY <1>2, <2>4 DEF NextChunk, Writers
  <2>7. Typed0'
    BY <1>2, <2>2, <2>6 DEF NextChunk
  <2>5. Owned'
    BY <1>2, <2>1, <2>3, JobType DEF NextChunk, Owned, Writers
  <2> QED BY <1>2, <2>5, <2>7 DEF NextChunk, Requested, Queued
<1>3. CASE InlineReturns
  BY <1>3 DEF InlineReturns, exec, Requested, Queued, Owned
<1>4. CASE Crash
  <2>1. Nothing \in Job /\ DOMAIN Nothing.files = {}
    BY DEF Job, Nothing
  <2>2. writing' \in [Writers -> Job] /\ \A w \in Writers : writing'[w] = Nothing
    BY <1>4, <2>1 DEF Crash, Writers
  <2> QED BY <1>4, <2>1, <2>2 DEF Crash, exec, Requested, Queued, Owned
<1> QED BY <1>1, <1>2, <1>3, <1>4

LEMMA TypeStep == TypeInv /\ [Next]_vars => TypeInv'
<1> SUFFICES ASSUME TypeInv, [Next]_vars PROVE TypeInv'
  OBVIOUS
<1>1. CASE Arrival
  BY <1>1, ArrivalType
<1>2. CASE ChatStep
  BY <1>2, FileType, ReplyType, LoadStepType, ExecuteType, DirectType, AuditType,
     InlineType DEF ChatStep, Writers
<1>3. CASE CompareStep
  BY <1>3, FileType, ReplyType DEF CompareStep, Writers
<1>4. CASE Crash
  BY <1>4, InlineType
<1>5. CASE UNCHANGED vars
  BY <1>5 DEF vars, TypeInv, Typed0, Requested, Queued, Owned
<1> QED BY <1>1, <1>2, <1>3, <1>4, <1>5 DEF Next

LEMMA TypeInvImpliesTypeOK == TypeInv => TypeOK
<1> SUFFICES ASSUME TypeInv PROVE TypeOK
  OBVIOUS
<1>1. \A i \in DOMAIN calls : calls[i] \in Call
  BY DEF TypeInv, Typed0
<1>2. queue \subseteq IF pending \in Entry THEN DOMAIN pending.items ELSE {}
  BY DEF TypeInv, Queued, Passed
<1> QED BY <1>1, <1>2 DEF TypeOK, TypeInv, Typed0, Paths, Call

\* Every variable of the pipeline keeps its type.
THEOREM PipelineTypeCorrect == Spec => []TypeOK
<1>1. Spec => []TypeInv
  BY InitType, TypeStep, PTL DEF Spec
<1> QED BY <1>1, TypeInvImpliesTypeOK, PTL

-----------------------------------------------------------------------------
(* The safety properties.  Few actions touch the executor calls: the others *)
(* are the same to every property.                                          *)

\* A request arrives.
Fresh ==
  /\ calls' = <<>>
  /\ queue' = {}
  /\ done' = 0
  /\ pass' = 1
  /\ phase' \in {"idle", "persist", "store", "load", "direct"}

\* A step that leaves what is executed and only moves on to it.
Quiet ==
  /\ UNCHANGED <<req, pending, queue, done, pass, calls>>
  /\ \/ phase' \in {phase, "idle"}
     \/ phase \in {"persist", "store"} /\ phase' \in {"store", "load"}
     \/ phase = "audit" /\ phase' = "run"

LEMMA StepCases ==
  [Next]_vars =>
    Fresh \/ Load \/ Execute \/ ExecuteDirect \/ TryAgain \/ NextChunk \/ Quiet
<1> SUFFICES ASSUME [Next]_vars
             PROVE  Fresh \/ Load \/ Execute \/ ExecuteDirect \/ TryAgain
                      \/ NextChunk \/ Quiet
  OBVIOUS
<1>1. CASE Arrival
  BY <1>1 DEF Arrival, Suggest, SuggestV4, Compare, Confirm, Direct, Inline, Begin, Fresh,
              Quiet, exec
<1>2. CASE ChatStep
  BY <1>2 DEF ChatStep, WriteFile, WriteFails, SuggestReturns, Persisted, Stored,
              Audit, ConfirmReturns, InlineFails, InlineReturns, Quiet, exec
<1>3. CASE CompareStep
  BY <1>3 DEF CompareStep, WriteFile, WriteFails, CompareReturns, Quiet, exec
<1>4. CASE Crash \/ UNCHANGED vars
  BY <1>4 DEF Crash, Quiet, exec, vars
<1> QED BY <1>1, <1>2, <1>3, <1>4 DEF Next

\* What Execute appends.
LEMMA ExecuteCall ==
  ASSUME TypeInv, Execute
  PROVE  /\ calls' \in Seq(Call)
         /\ Len(calls') = Len(calls) + 1
         /\ \A j \in DOMAIN calls : calls'[j] = calls[j]
         /\ LET k == calls'[Len(calls')]
            IN  /\ k.index \in queue
                /\ \A j \in queue : k.index <= j
                /\ queue' = queue \ {k.index}
                /\ k.item.guard = "passed"
                /\ k.status # "rejected" => Guard[k.item.command] = "passed"
                /\ k.chunk = done
                /\ k.pass = pass
<1>1. pending \in Entry
  BY DEF TypeInv, Execute, Queued
<1>2. PICK i \in queue :
        /\ \A j \in queue : i <= j
        /\ queue' = queue \ {i}
        /\ \E status \in IF Guard[pending.items[i].command] = "passed"
                         THEN {"executed", "failed"} ELSE {"rejected"} :
             calls' = Append(calls,
              [index |-> i, item |-> pending.items[i], conv |-> pending.conv,
               user |-> pending.user, status |-> status, chunk |-> done,
               pass |-> pass])
  BY DEF Execute, Outcomes
<1>3. PICK status \in IF Guard[pending.items[i].command] = "passed"
                      THEN {"executed", "failed"} ELSE {"rejected"} :
        calls' = Append(calls,
              [index |-> i, item |-> pending.items[i], conv |-> pending.conv,
               user |-> pending.user, status |-> status, chunk |-> done,
               pass |-> pass])
  BY <1>2
<1>4. [index |-> i, item |-> pending.items[i], conv |-> pending.conv,
       user |-> pending.user, status |-> status, chunk |-> done,
       pass |-> pass] \in Call
  BY <1>1, QueueType DEF Call, TypeInv, Typed0
<1>5. calls \in Seq(Call)
  BY DEF TypeInv, Typed0
<1>6. pending.items[i].guard = "passed"
  BY <1>1, QueueType
<1> QED BY <1>2, <1>3, <1>4, <1>5, <1>6

LEMMA GuardedStep ==
  TypeInv /\ OnlyGuardedCommandsSent /\ [Next]_vars => OnlyGuardedCommandsSent'
<1> SUFFICES ASSUME TypeInv, OnlyGuardedCommandsSent, [Next]_vars
             PROVE  OnlyGuardedCommandsSent'
  OBVIOUS
<1> USE DEF OnlyGuardedCommandsSent, Sent
<1>1. CASE Fresh
  BY <1>1 DEF Fresh
<1>2. CASE Load \/ TryAgain \/ NextChunk \/ Quiet
  BY <1>2 DEF Load, TryAgain, NextChunk, Quiet
<1>3. CASE Execute
  <2>1. \A i \in DOMAIN calls' : i \in DOMAIN calls \/ i = Len(calls')
    BY <1>3, ExecuteCall DEF TypeInv, Typed0
  <2> QED BY <1>3, <2>1, ExecuteCall
<1>4. CASE ExecuteDirect
  BY <1>4, DirectCall
<1> QED BY <1>1, <1>2, <1>3, <1>4, StepCases

\* A command reaches a device only if it was stored as passed and passes the
\* guard again.
THEOREM GuardAlwaysAsked == Spec => []OnlyGuardedCommandsSent
<1>1. Init => OnlyGuardedCommandsSent
  BY DEF Init, OnlyGuardedCommandsSent
<1> QED BY <1>1, InitType, TypeStep, GuardedStep, PTL DEF Spec

\* Already what is queued is there only because of a YES.
YesQueued ==
  /\ req.kind = "confirm" /\ req.plan # "execute" /\ (calls # <<>> \/ queue # {}) =>
       req.yes
  /\ req.kind = "direct" => /\ queue = {}
                            /\ \A i \in DOMAIN calls : Sent(i) => req.yes

LEMMA YesStep == TypeInv /\ YesQueued /\ [Next]_vars => YesQueued'
<1> SUFFICES ASSUME TypeInv, YesQueued, [Next]_vars PROVE YesQueued'
  OBVIOUS
<1>1. CASE Fresh
  BY <1>1 DEF Fresh, YesQueued
<1>2. CASE Load
  <2>1. Requested /\ req.kind \in {"confirm", "inline"}
    BY <1>2 DEF TypeInv, Requested, Load
  <2>2. ASSUME req.kind = "confirm", req.plan # "execute", ~req.yes
        PROVE  queue' = {}
    <3>1. Meant(req).yes = FALSE
      BY <2>1, <2>2 DEF Meant, Requested
    <3> QED BY <1>2, <3>1 DEF Load, Selected
  <2> QED BY <1>2, <2>1, <2>2 DEF Load, YesQueued
<1>3. CASE Execute
  BY <1>3 DEF Execute, YesQueued
<1>4. CASE TryAgain \/ NextChunk \/ Quiet
  BY <1>4 DEF TryAgain, NextChunk, Quiet, YesQueued, Sent
<1>5. CASE ExecuteDirect
  <2>1. req.kind = "direct" /\ UNCHANGED <<req, queue>>
    BY <1>5 DEF TypeInv, Requested, ExecuteDirect
  <2> QED BY <1>5, <2>1, DirectCall DEF YesQueued, Sent
<1> QED BY <1>1, <1>2, <1>3, <1>4, <1>5, StepCases

\* Unless the planner says "execute", a confirmation without YES calls no
\* device.
THEOREM YesAlwaysNeeded == Spec => []YesWithoutPlanner
<1>1. Init => YesQueued
  BY DEF Init, YesQueued, NoRequest
<1>2. YesQueued => YesWithoutPlanner
  BY DEF YesQueued, YesWithoutPlanner
<1> QED BY <1>1, <1>2, InitType, TypeStep, YesStep, PTL DEF Spec

LEMMA IsolationStep ==
  TypeInv /\ [Next]_vars =>
    [phase = "load" /\ phase' = "run" /\ pending' \in Entry =>
       \/ pending'.conv = req.conv
       \/ /\ files[req.conv] \notin Entry
          /\ UserFile[pending'.user] = UserFile[req.user]]_vars
<1> SUFFICES ASSUME TypeInv, [Next]_vars, phase = "load", phase' = "run",
                    pending' \in Entry, pending'.conv # req.conv
             PROVE  /\ files[req.conv] \notin Entry
                    /\ UserFile[pending'.user] = UserFile[req.user]
  OBVIOUS
<1>1. Load
  BY StepCases DEF Fresh, Execute, ExecuteDirect, TryAgain, NextChunk, Quiet
<1>2. pending' = LoadPending(req.conv, req.user)
  BY <1>1 DEF Load
<1>3. req.conv \in Convs /\ req.user \in Users
  BY <1>1 DEF Load, TypeInv, Requested
<1>4. req.conv \in Paths /\ UserFile[req.user] \in Paths \ Convs
  BY <1>3, FileAssumption DEF Paths
<1>5. files[req.conv] \in Entry => files[req.conv].conv = req.conv
  <2> SUFFICES ASSUME files[req.conv] \in Entry
               PROVE  files[req.conv].conv = req.conv
    OBVIOUS
  <2>1. Belongs(files[req.conv], req.conv) /\ files[req.conv].user \in Users
    BY <1>4 DEF TypeInv, Owned, Entry
  <2> QED BY <1>3, <2>1, FileAssumption DEF Belongs
<1>6. files[req.conv] \in {NoEntry, Torn} \/ pending' = files[req.conv]
  BY <1>2 DEF LoadPending
<1>7. files[req.conv] \in {NoEntry, Torn}
  BY <1>5, <1>6
<1>8. pending' = files[UserFile[req.user]]
  BY <1>2, <1>7 DEF LoadPending
<1>9. Belongs(pending', UserFile[req.user]) /\ pending'.conv \in Convs
  BY <1>4, <1>8 DEF TypeInv, Owned, Entry
<1>10. UserFile[pending'.user] = UserFile[req.user]
  BY <1>4, <1>9 DEF Belongs
<1> QED BY <1>7, <1>10, NoEntryAssumption

\* A confirmation works on the list of its conversation, or on one of the
\* same user file if its own cannot be read.
THEOREM ListsIsolated == Spec => ListIsolation
<1>1. Spec => []TypeInv
  BY InitType, TypeStep, PTL DEF Spec
<1>2. TypeInv /\ [Next]_vars =>
    [phase = "load" /\ phase' = "run" /\ pending' \in Entry =>
       \/ pending'.conv = req.conv
       \/ /\ files[req.conv] \notin Entry
          /\ UserFile[pending'.user] = UserFile[req.user]]_vars
  BY IsolationStep
<1> QED BY <1>1, <1>2, PTL DEF Spec, ListIsolation

-----------------------------------------------------------------------------
(* Calls of one confirmation: their order and their number.                 *)

\* The calls made by pass p of chunk k.
CallsOf(k, p) == {i \in DOMAIN calls : calls[i].chunk = k /\ calls[i].pass = p}

\* Calls belong to the current confirmation or to earlier ones; a second pass
\* follows a first one without success; the queue goes up.
Ordered ==
  /\ \A i \in DOMAIN calls :
       /\ calls[i].chunk <= done
       /\ calls[i].chunk = done => calls[i].pass <= pass
  /\ pass = 2 => \A i \in CallsOf(done, 1) : calls[i].status # "executed"
  /\ phase \in {"persist", "store", "load"} => CallsOf(done, pass) = {}
  /\ phase \in {"run", "audit"} =>
       \A i \in CallsOf(done, pass), q \in queue : calls[i].index < q

OnceInv == Ordered /\ NoSuccessRepeated

LEMMA QueueIndexes == TypeInv => queue \subseteq Nat
BY QueueType DEF TypeInv, Queued

LEMMA OnceStep == TypeInv /\ OnceInv /\ [Next]_vars => OnceInv'
<1> SUFFICES ASSUME TypeInv, OnceInv, [Next]_vars PROVE OnceInv'
  OBVIOUS
<1> USE DEF OnceInv
<1>0. /\ done \in Nat
      /\ pass \in {1, 2}
      /\ \A i \in DOMAIN calls : calls[i] \in Call
  BY DEF TypeInv, Typed0
<1>1. CASE Fresh
  BY <1>1 DEF Fresh, Ordered, NoSuccessRepeated, CallsOf
<1>2. CASE Load
  BY <1>2 DEF Load, Ordered, NoSuccessRepeated, CallsOf
<1>3. CASE Quiet
  BY <1>3 DEF Quiet, Ordered, NoSuccessRepeated, CallsOf
<1>4. CASE TryAgain
  <2>1. pass = 1 /\ pass' = 2 /\ phase' = "load" /\ UNCHANGED <<done, calls>>
    BY <1>4 DEF TryAgain
  <2>2. \A i \in CallsOf(done, 1) : calls[i].status # "executed"
    BY <1>4, <2>1 DEF TryAgain, RealExecution, CallsOf
  <2>3. \A i \in DOMAIN calls : /\ calls[i].chunk <= done
                                /\ calls[i].chunk = done => calls[i].pass = 1
    BY <1>0, <2>1 DEF Ordered, Call
  <2>4. CallsOf(done, 2) = {}
    BY <2>3 DEF CallsOf
  <2>5. CallsOf(done, 1)' = CallsOf(done, 1) /\ CallsOf(done, pass)' = CallsOf(done, 2)
    BY <2>1 DEF CallsOf
  <2>6. Ordered'
    BY <2>1, <2>2, <2>3, <2>4, <2>5 DEF Ordered
  <2> QED BY <2>1, <2>6 DEF NoSuccessRepeated
<1>5. CASE NextChunk
  <2>1. done' \in Nat /\ done' > done /\ UNCHANGED calls /\ phase' = "persist"
        /\ pass' = 1
    BY <1>0, <1>5, BoundAssumption DEF NextChunk
  <2>2. \A i \in DOMAIN calls : calls[i].chunk <= done /\ calls[i].chunk \in Nat
    BY <1>0 DEF Ordered, Call
  <2>3. \A i \in DOMAIN calls : calls[i].chunk < done'
    BY <1>0, <2>1, <2>2
  <2>4. Ordered'
    BY <2>1, <2>2, <2>3 DEF Ordered, CallsOf
  <2> QED BY <2>1, <2>4 DEF NoSuccessRepeated
<1>6. CASE Execute
  <2> DEFINE n == Len(calls')
             k == calls'[n]
  <2>1. /\ DOMAIN calls' = DOMAIN calls \cup {n}
        /\ n \notin DOMAIN calls
        /\ n \in Nat
        /\ \A i \in DOMAIN calls : i \in Nat /\ i < n /\ calls'[i] = calls[i]
    <3>1. calls \in Seq(Call) /\ calls' \in Seq(Call) /\ Len(calls') = Len(calls) + 1
      BY <1>6, ExecuteCall DEF TypeInv, Typed0
    <3>2. DOMAIN calls = 1..Len(calls) /\ DOMAIN calls' = 1..n /\ n = Len(calls) + 1
      BY <3>1
    <3>3. \A i \in DOMAIN calls : calls'[i] = calls[i]
      BY <1>6, ExecuteCall
    <3> HIDE DEF n
    <3>4. Len(calls) \in Nat
      BY <3>1
    <3> QED BY <3>2, <3>3, <3>4
  <2>2. /\ k.index \in queue
        /\ \A j \in queue : k.index <= j
        /\ queue' = queue \ {k.index}
        /\ k.chunk = done
        /\ k.pass = pass
    BY <1>6, ExecuteCall
  <2>3. phase = "run" /\ phase' = "audit" /\ UNCHANGED <<done, pass>>
    BY <1>6 DEF Execute
  <2>4. queue \subseteq Nat
    BY QueueIndexes
  <2> HIDE DEF n, k
  <2>5. \A i \in DOMAIN calls' :
          /\ calls'[i].chunk <= done
          /\ calls'[i].chunk = done => calls'[i].pass <= pass
    <3>1. \A i \in DOMAIN calls :
            /\ calls'[i].chunk <= done
            /\ calls'[i].chunk = done => calls'[i].pass <= pass
      BY <2>1 DEF Ordered
    <3>2. calls'[n].chunk <= done /\ calls'[n].pass <= pass
      BY <1>0, <2>2 DEF k
    <3> QED BY <2>1, <3>1, <3>2
  <2>6. pass = 2 => \A i \in CallsOf(done, 1)' : calls'[i].status # "executed"
    BY <2>1, <2>2, <2>3 DEF Ordered, CallsOf, k
  <2>7. \A i \in CallsOf(done, pass)', q \in queue' : calls'[i].index < q
    <3>1. \A i \in CallsOf(done, pass), q \in queue' : calls'[i].index < q
      BY <2>1, <2>2, <2>3 DEF Ordered, CallsOf
    <3>2. \A q \in queue' : k.index < q
      <4>1. \A q \in queue' : q \in queue /\ q # k.index
        BY <2>2
      <4>2. \A q \in queue : q \in Nat /\ k.index \in Nat /\ k.index <= q
        BY <2>2, <2>4
      <4> QED BY <4>1, <4>2
    <3>3. CallsOf(done, pass)' \subseteq CallsOf(done, pass) \cup {n}
      BY <2>1, <2>3 DEF CallsOf
    <3> QED BY <3>1, <3>2, <3>3 DEF k
  <2>8. Ordered'
    BY <2>3, <2>5, <2>6, <2>7 DEF Ordered
  <2>9. NoSuccessRepeated'
    <3> SUFFICES ASSUME NEW i \in DOMAIN calls', NEW j \in DOMAIN calls', i < j,
                        calls'[i].chunk = calls'[j].chunk,
                        calls'[i].status = "executed"
                 PROVE  /\ calls'[i].pass = calls'[j].pass
                        /\ calls'[i].index # calls'[j].index
      BY DEF NoSuccessRepeated
    <3>1. CASE j \in DOMAIN calls
      BY <2>1, <3>1 DEF NoSuccessRepeated
    <3>2. CASE j = n
      <4>1. i \in DOMAIN calls /\ calls'[i] = calls[i] /\ calls[i] \in Call
        BY <1>0, <2>1, <3>2
      <4>2. calls[i].chunk = done /\ calls[i].pass \in {1, 2}
        BY <2>2, <3>2, <4>1 DEF k, Call
      <4>3. calls[i].pass = pass
        BY <1>0, <4>1, <4>2 DEF Ordered, CallsOf
      <4>4. calls[i].index < calls'[n].index
        BY <2>2, <2>3, <4>1, <4>2, <4>3 DEF Ordered, CallsOf, k
      <4>5. calls[i].index \in Nat /\ calls'[n].index \in Nat
        BY <2>2, <2>4, <4>1 DEF Call, k
      <4> QED BY <2>2, <3>2, <4>1, <4>3, <4>4, <4>5 DEF k
    <3> QED BY <2>1, <3>1, <3>2
  <2> QED BY <2>8, <2>9
<1>7. CASE ExecuteDirect
  <2>1. PICK k \in Call : calls' = <<k>> /\ k.chunk = done /\ k.pass = pass
    BY <1>7, DirectCall
  <2>2. phase' = "audit" /\ queue' = {} /\ calls = <<>> /\ UNCHANGED <<done, pass>>
    BY <1>7 DEF ExecuteDirect, TypeInv, Typed0
  <2>3. DOMAIN calls' = {1} /\ calls'[1] = k
    BY <2>1
  <2>4. Ordered'
    BY <1>0, <2>1, <2>2, <2>3 DEF Ordered, CallsOf
  <2> QED BY <2>3, <2>4 DEF NoSuccessRepeated
<1> QED BY <1>1, <1>2, <1>3, <1>4, <1>5, <1>6, <1>7, StepCases

\* What a device has executed is not executed again for the same chunk and index
\* of a request (inline_command_execute.py, the second confirmation of a chunk).
THEOREM SuccessNeverRepeated == Spec => []NoSuccessRepeated
<1>1. Init => OnceInv
  BY DEF Init, OnceInv, Ordered, NoSuccessRepeated, CallsOf
<1>2. OnceInv => NoSuccessRepeated
  BY DEF OnceInv
<1> QED BY <1>1, <1>2, InitType, TypeStep, OnceStep, PTL DEF Spec

\* The calls made and the commands queued stay within one batch.
Counted ==
  /\ phase \in {"run", "audit"} =>
       Cardinality(CallsOf(done, pass)) + Cardinality(queue) <= MaxBatch
  /\ \A i \in DOMAIN calls :
       Cardinality(CallsOf(calls[i].chunk, calls[i].pass)) <= MaxBatch

LEMMA DomainFinite ==
  ASSUME NEW s \in Seq(Call) \cup Seq(Item)
  PROVE  IsFiniteSet(DOMAIN s)
<1>1. Len(s) \in Nat /\ DOMAIN s = 1..Len(s)
  OBVIOUS
<1> QED BY <1>1, FS_Interval

LEMMA SelectedLimited ==
  ASSUME NEW items \in Seq(Item), NEW q, q.yes \in BOOLEAN
  PROVE  /\ IsFiniteSet(Selected(items, q))
         /\ Cardinality(Selected(items, q)) <= MaxBatch
<1>1. IsFiniteSet(Passed(items))
  BY DomainFinite, FS_Subset DEF Passed
<1>2. Selected(items, q) \subseteq Passed(items)
  BY SelectedPassed
<1>3. IsFiniteSet(Selected(items, q))
  BY <1>1, <1>2, FS_Subset
<1>4. \/ Selected(items, q) = {}
      \/ Selected(items, q) = Passed(items) \cap {q.number}
      \/ Selected(items, q) = Passed(items) /\ Cardinality(Passed(items)) <= MaxBatch
  BY DEF Selected
<1>5. CASE Selected(items, q) = {}
  BY <1>3, <1>5, FS_EmptySet, BoundAssumption
<1>6. CASE Selected(items, q) = Passed(items) \cap {q.number}
  <2>1. Selected(items, q) \in SUBSET {q.number}
    BY <1>6
  <2>2. IsFiniteSet({q.number}) /\ Cardinality({q.number}) = 1
    BY FS_Singleton
  <2>3. Cardinality(Selected(items, q)) <= 1
    BY <2>1, <2>2, FS_Subset
  <2>4. Cardinality(Selected(items, q)) \in Nat
    BY <1>3, FS_CardinalityType
  <2> QED BY <1>3, <2>3, <2>4, BoundAssumption
<1> QED BY <1>3, <1>4, <1>5, <1>6

LEMMA CallsFinite ==
  ASSUME TypeInv, NEW k, NEW p
  PROVE  IsFiniteSet(CallsOf(k, p))
BY DomainFinite, FS_Subset DEF TypeInv, Typed0, CallsOf

LEMMA CountStep == TypeInv /\ Ordered /\ Counted /\ [Next]_vars => Counted'
<1> SUFFICES ASSUME TypeInv, Ordered, Counted, [Next]_vars PROVE Counted'
  OBVIOUS
<1>1. CASE Fresh
  BY <1>1 DEF Fresh, Counted
<1>2. CASE TryAgain \/ NextChunk \/ Quiet
  BY <1>2 DEF TryAgain, NextChunk, Quiet, Counted, CallsOf
<1>3. CASE Load
  <2>1. req.kind \in {"confirm", "inline"} /\ phase = "load"
    BY <1>3 DEF Load, TypeInv, Requested
  <2>2. CallsOf(done, pass) = {} /\ Cardinality(CallsOf(done, pass)) = 0
    BY <2>1, FS_EmptySet DEF Ordered
  <2>3. Meant(req).yes \in BOOLEAN
    BY <2>1, MeantType DEF TypeInv
  <2>4. pending' \in Entry \cup {NoEntry, Torn}
    BY <1>3, LoadStepType DEF TypeInv, Typed0
  <2>5. Cardinality(queue') \in Nat /\ Cardinality(queue') <= MaxBatch
    <3>1. CASE pending' \in {NoEntry, Torn}
      BY <1>3, <3>1, FS_EmptySet, BoundAssumption DEF Load
    <3>2. CASE pending' \notin {NoEntry, Torn}
      <4>1. pending'.items \in Seq(Item)
        BY <2>4, <3>2 DEF Entry
      <4>2. queue' = Selected(pending'.items, Meant(req))
        BY <1>3, <3>2 DEF Load
      <4> QED BY <2>3, <4>1, <4>2, SelectedLimited, FS_CardinalityType
    <3> QED BY <3>1, <3>2
  <2>6. CallsOf(done, pass)' = CallsOf(done, pass) /\ UNCHANGED calls
    BY <1>3 DEF Load, CallsOf
  <2>7. Cardinality(CallsOf(done, pass)') + Cardinality(queue') <= MaxBatch
    BY <2>2, <2>5, <2>6
  <2> QED BY <2>6, <2>7 DEF Counted, CallsOf
<1>4. CASE Execute
  <2> DEFINE n == Len(calls')
             k == calls'[n]
  <2>1. /\ DOMAIN calls' = DOMAIN calls \cup {n}
        /\ n \notin DOMAIN calls
        /\ \A i \in DOMAIN calls : calls'[i] = calls[i]
    <3>1. calls \in Seq(Call) /\ calls' \in Seq(Call) /\ Len(calls') = Len(calls) + 1
      BY <1>4, ExecuteCall DEF TypeInv, Typed0
    <3>2. DOMAIN calls = 1..Len(calls) /\ DOMAIN calls' = 1..n /\ n = Len(calls) + 1
      BY <3>1
    <3>3. \A i \in DOMAIN calls : calls'[i] = calls[i]
      BY <1>4, ExecuteCall
    <3> HIDE DEF n
    <3>4. Len(calls) \in Nat
      BY <3>1
    <3> QED BY <3>2, <3>3, <3>4
  <2>2. /\ k.index \in queue
        /\ queue' = queue \ {k.index}
        /\ k.chunk = done
        /\ k.pass = pass
    BY <1>4, ExecuteCall
  <2>3. phase = "run" /\ phase' = "audit" /\ UNCHANGED <<done, pass>>
    BY <1>4 DEF Execute
  <2> HIDE DEF n, k
  <2>4. CallsOf(done, pass)' = CallsOf(done, pass) \cup {n}
    BY <2>1, <2>2, <2>3 DEF CallsOf, k
  <2>5. n \notin CallsOf(done, pass)
    BY <2>1 DEF CallsOf
  <2>6. IsFiniteSet(CallsOf(done, pass)) /\ IsFiniteSet(CallsOf(done, pass)')
    BY CallsFinite, <2>4, FS_AddElement
  <2>7. Cardinality(CallsOf(done, pass)') = Cardinality(CallsOf(done, pass)) + 1
    BY <2>4, <2>5, <2>6, FS_AddElement
  <2>8. IsFiniteSet(queue) /\ IsFiniteSet(queue')
    <3>1. pending \in Entry
      BY <1>4 DEF Execute, TypeInv, Queued
    <3>2. queue \subseteq DOMAIN pending.items /\ pending.items \in Seq(Item)
      BY <3>1, QueueType
    <3>3. IsFiniteSet(queue)
      BY <3>2, DomainFinite, FS_Subset
    <3> QED BY <2>2, <3>3, FS_RemoveElement
  <2>9. Cardinality(queue') = Cardinality(queue) - 1
    BY <2>2, <2>8, FS_RemoveElement
  <2>10. /\ Cardinality(CallsOf(done, pass)) \in Nat
         /\ Cardinality(queue) \in Nat
         /\ Cardinality(queue') \in Nat
    BY <2>6, <2>8, FS_CardinalityType
  <2>11. Cardinality(CallsOf(done, pass)) + Cardinality(queue) <= MaxBatch
    BY <2>3 DEF Counted
  <2>12. Cardinality(CallsOf(done, pass)') + Cardinality(queue') <= MaxBatch
    BY <2>7, <2>9, <2>10, <2>11, BoundAssumption
  <2>13. Cardinality(CallsOf(done, pass)') <= MaxBatch
    BY <2>7, <2>9, <2>10, <2>11, BoundAssumption
  <2>14. ASSUME NEW i \in DOMAIN calls'
         PROVE  Cardinality(CallsOf(calls[i].chunk, calls[i].pass)') <= MaxBatch
    <3>1. CASE calls'[i].chunk = done /\ calls'[i].pass = pass
      <4>1. CallsOf(calls[i].chunk, calls[i].pass)' = CallsOf(done, pass)'
        BY <2>3, <3>1 DEF CallsOf
      <4> QED BY <2>13, <4>1
    <3>2. CASE ~(calls'[i].chunk = done /\ calls'[i].pass = pass)
      <4>1. i \in DOMAIN calls /\ calls'[i] = calls[i]
        BY <2>1, <2>2, <3>2 DEF k
      <4>2. CallsOf(calls[i].chunk, calls[i].pass)'
              = CallsOf(calls[i].chunk, calls[i].pass)
        BY <2>1, <2>2, <3>2, <4>1 DEF CallsOf, k
      <4> QED BY <4>1, <4>2 DEF Counted
    <3> QED BY <3>1, <3>2
  <2> QED BY <2>3, <2>12, <2>14 DEF Counted
<1>5. CASE ExecuteDirect
  <2>1. PICK k \in Call : calls' = <<k>>
    BY <1>5, DirectCall
  <2>2. DOMAIN calls' = {1} /\ queue' = {}
    BY <1>5, <2>1 DEF ExecuteDirect, TypeInv, Typed0
  <2>3. ASSUME NEW c, NEW p PROVE Cardinality(CallsOf(c, p)') <= 1
    <3>1. CallsOf(c, p)' \in SUBSET {1}
      BY <2>2 DEF CallsOf
    <3>2. IsFiniteSet({1}) /\ Cardinality({1}) = 1
      BY FS_Singleton
    <3>3. Cardinality(CallsOf(c, p)') <= Cardinality({1})
      BY <3>1, <3>2, FS_Subset
    <3> QED BY <3>2, <3>3
  <2>4. ASSUME NEW c, NEW p PROVE Cardinality(CallsOf(c, p)') \in Nat
    <3>1. CallsOf(c, p)' \in SUBSET {1} /\ IsFiniteSet({1})
      BY <2>2, FS_Singleton DEF CallsOf
    <3>2. IsFiniteSet(CallsOf(c, p)')
      BY <3>1, FS_Subset
    <3> QED BY <3>2, FS_CardinalityType
  <2>5. Cardinality(queue') = 0
    BY <2>2, FS_EmptySet
  <2>6. Cardinality(CallsOf(done, pass)') + Cardinality(queue') <= MaxBatch
    BY <2>3, <2>4, <2>5, BoundAssumption
  <2>7. \A i \in DOMAIN calls' :
          Cardinality(CallsOf(calls[i].chunk, calls[i].pass)') <= MaxBatch
    BY <2>3, <2>4, BoundAssumption
  <2> QED BY <2>6, <2>7 DEF Counted
<1> QED BY <1>1, <1>2, <1>3, <1>4, <1>5, StepCases

\* One confirmation sends at most MaxBatch commands.
THEOREM BatchNeverExceeded == Spec => []BatchLimit
<1>1. Init => OnceInv /\ Counted
  BY DEF Init, OnceInv, Ordered, NoSuccessRepeated, Counted, CallsOf
<1>2. OnceInv => Ordered
  BY DEF OnceInv
<1>3. Counted => BatchLimit
  BY DEF Counted, BatchLimit, CallsOf
<1> QED BY <1>1, <1>2, <1>3, InitType, TypeStep, OnceStep, CountStep, PTL DEF Spec

-----------------------------------------------------------------------------
(* Each step of a chat request goes on.                                     *)

\* Typed commands whose chunk is not finished, and calls of the confirmation
\* still possible for a chunk.
ChunksLeft ==
  IF phase # "idle" /\ req.kind = "inline" THEN Len(req.commands) - done ELSE 0

PassesLeft == 2 - pass

\* The phases a confirmation, or the storing of a list, still has before it.
PhasesLeft ==
  CASE phase = "persist" -> 5
    [] phase = "store" -> 4
    [] phase = "load" -> 3
    [] phase = "direct" -> 2
    [] phase \in {"run", "audit"} -> 1
    [] OTHER -> 0

\* Files still to be written, calls and audits still to be made.
WorkLeft ==
  CASE phase \in {"persist", "store"} -> Len(writing["chat"].files)
    [] phase = "run" -> 2 * Cardinality(queue)
    [] phase = "audit" -> 2 * Cardinality(queue) + 1
    [] OTHER -> 0

ToDo == <<ChunksLeft, PassesLeft, PhasesLeft, WorkLeft>>

\* The lexicographic order of the four.
Onward ==
  \/ ChunksLeft' < ChunksLeft
  \/ ChunksLeft' = ChunksLeft /\ PassesLeft' < PassesLeft
  \/ /\ ChunksLeft' = ChunksLeft /\ PassesLeft' = PassesLeft
     /\ PhasesLeft' < PhasesLeft
  \/ /\ ChunksLeft' = ChunksLeft /\ PassesLeft' = PassesLeft
     /\ PhasesLeft' = PhasesLeft /\ WorkLeft' < WorkLeft

\* The chat has files to write only while it stores a list, and no chunk begins
\* behind the last command.
ToDoFits ==
  /\ writing["chat"].files # <<>> => phase \in {"persist", "store"}
  /\ phase # "idle" /\ req.kind = "inline" => done <= Len(req.commands)

LEMMA PhasesAre ==
  /\ phase = "persist" => PhasesLeft = 5
  /\ phase = "store" => PhasesLeft = 4
  /\ phase = "load" => PhasesLeft = 3
  /\ phase = "direct" => PhasesLeft = 2
  /\ phase \in {"run", "audit"} => PhasesLeft = 1
  /\ phase = "idle" => PhasesLeft = 0
BY DEF PhasesLeft

LEMMA NextPhasesAre ==
  /\ phase' = "store" => PhasesLeft' = 4
  /\ phase' = "persist" => PhasesLeft' = 5
  /\ phase' = "load" => PhasesLeft' = 3
  /\ phase' \in {"run", "audit"} => PhasesLeft' = 1
  /\ phase' = "idle" => PhasesLeft' = 0
BY DEF PhasesLeft

LEMMA QueueFinite ==
  ASSUME TypeInv
  PROVE  IsFiniteSet(queue) /\ Cardinality(queue) \in Nat
<1>1. CASE pending \in Entry
  <2>1. pending.items \in Seq(Item)
    BY <1>1 DEF Entry
  <2>2. IsFiniteSet(DOMAIN pending.items)
    BY <2>1, DomainFinite
  <2>3. queue \subseteq DOMAIN pending.items
    BY <1>1 DEF TypeInv, Queued, Passed
  <2>4. IsFiniteSet(queue)
    BY <2>2, <2>3, FS_Subset
  <2> QED BY <2>4, FS_CardinalityType
<1>2. CASE pending \notin Entry
  <2>1. queue = {}
    BY <1>2 DEF TypeInv, Queued
  <2> QED BY <2>1, FS_EmptySet
<1> QED BY <1>1, <1>2

\* Each of the four is a number.
LEMMA ToDoNumbers ==
  ASSUME TypeInv, ToDoFits
  PROVE  /\ ChunksLeft \in Nat /\ PassesLeft \in Nat
         /\ PhasesLeft \in Nat /\ WorkLeft \in Nat
<1>1. ChunksLeft \in Nat
  <2>1. CASE phase # "idle" /\ req.kind = "inline"
    <3>1. Len(req.commands) \in Nat /\ done \in Nat /\ done <= Len(req.commands)
      BY <2>1 DEF TypeInv, Typed0, Requested, ToDoFits
    <3> QED BY <2>1, <3>1 DEF ChunksLeft
  <2>2. CASE ~(phase # "idle" /\ req.kind = "inline")
    BY <2>2 DEF ChunksLeft
  <2> QED BY <2>1, <2>2
<1>2. PassesLeft \in Nat
  BY DEF TypeInv, Typed0, PassesLeft
<1>3. PhasesLeft \in Nat
  <2>1. PhasesLeft \in {0, 1, 2, 3, 4, 5}
    BY PhasesAre DEF TypeInv, Typed0, Phases
  <2> QED BY <2>1
<1>4. WorkLeft \in Nat
  <2>1. Cardinality(queue) \in Nat
    BY QueueFinite
  <2>2. Len(writing["chat"].files) \in Nat
    BY DEF TypeInv, Typed0, Job, Writers, Nothing
  <2> QED BY <2>1, <2>2 DEF WorkLeft
<1> QED BY <1>1, <1>2, <1>3, <1>4

\* A request that is answered has nothing left.
LEMMA Ends ==
  ASSUME TypeInv, ToDoFits, phase # "idle", phase' = "idle", pass' = pass
  PROVE  Onward
<1>1. PhasesLeft \in {1, 2, 3, 4, 5}
  BY PhasesAre DEF TypeInv, Typed0, Phases
<1>2. PhasesLeft' = 0
  BY NextPhasesAre
<1>3. ChunksLeft' = 0 /\ ChunksLeft \in Nat
  BY ToDoNumbers DEF ChunksLeft
<1>4. PassesLeft' = PassesLeft
  BY DEF PassesLeft
<1> QED BY <1>1, <1>2, <1>3, <1>4 DEF Onward

\* A step within a confirmation.
LEMMA Within ==
  ASSUME phase # "idle", phase' # "idle", UNCHANGED <<req, done, pass>>
  PROVE  ChunksLeft' = ChunksLeft /\ PassesLeft' = PassesLeft
BY DEF ChunksLeft, PassesLeft

LEMMA StoringGoesOn ==
  ASSUME TypeInv, ToDoFits,
         WriteFile("chat") \/ WriteFails("chat") \/ SuggestReturns \/ Persisted \/ Stored
  PROVE  Onward
<1>1. CASE SuggestReturns
  BY <1>1, Ends DEF SuggestReturns, exec
<1>2. CASE Persisted
  <2>1. PhasesLeft = 5 /\ PhasesLeft' = 4
    BY <1>2, PhasesAre, NextPhasesAre DEF Persisted
  <2> QED BY <1>2, <2>1, Within DEF Persisted, exec, Onward
<1>3. CASE Stored
  <2>1. PhasesLeft = 4 /\ PhasesLeft' = 3
    BY <1>3, PhasesAre, NextPhasesAre DEF Stored
  <2> QED BY <1>3, <2>1, Within DEF Stored, exec, Onward
<1>4. ASSUME WriteFile("chat") \/ WriteFails("chat")
      PROVE  /\ phase \in {"persist", "store"}
             /\ writing["chat"].files \in Seq(Paths) /\ writing["chat"].files # <<>>
             /\ writing \in [Writers -> Job]
  BY <1>4, JobFiles DEF WriteFile, WriteFails, ToDoFits, TypeInv, Typed0, Writers
<1>5. ASSUME phase' = phase, phase \in {"persist", "store"}, UNCHANGED <<req, exec>>,
             writing["chat"].files \in Seq(Paths), writing["chat"].files # <<>>,
             writing'["chat"].files \in {<<>>, Tail(writing["chat"].files)}
      PROVE  Onward
  <2>1. Len(writing'["chat"].files) < Len(writing["chat"].files)
    BY <1>5
  <2>2. WorkLeft = Len(writing["chat"].files)
    BY <1>5 DEF WorkLeft
  <2>3. WorkLeft' = Len(writing'["chat"].files)
    BY <1>5 DEF WorkLeft
  <2>4. PhasesLeft' = PhasesLeft
    BY <1>5, PhasesAre, NextPhasesAre
  <2>5. ChunksLeft' = ChunksLeft /\ PassesLeft' = PassesLeft
    BY <1>5, Within DEF exec
  <2>6. WorkLeft' < WorkLeft
    BY <2>1, <2>2, <2>3
  <2> QED BY <2>4, <2>5, <2>6 DEF Onward
<1>6. CASE WriteFile("chat")
  <2>1. writing'["chat"].files = Tail(writing["chat"].files)
    BY <1>4, <1>6 DEF WriteFile, Left, Writers
  <2> QED BY <1>4, <1>5, <1>6, <2>1 DEF WriteFile
<1>7. CASE WriteFails("chat")
  <2>1. CASE phase = "persist"
    BY <1>7, <2>1, Ends DEF WriteFails, exec
  <2>2. CASE phase # "persist"
    <3>1. writing'["chat"].files = <<>> /\ phase' = phase
      BY <1>4, <1>7, <2>2 DEF WriteFails, Left, Writers
    <3> QED BY <1>4, <1>5, <1>7, <3>1 DEF WriteFails
  <2> QED BY <2>1, <2>2
<1> QED BY <1>1, <1>2, <1>3, <1>6, <1>7

LEMMA ConfirmingGoesOn ==
  ASSUME TypeInv, ToDoFits, Load \/ Execute \/ ExecuteDirect \/ Audit
  PROVE  Onward
<1>1. CASE Load
  <2>1. PhasesLeft = 3 /\ PhasesLeft' = 1
    BY <1>1, PhasesAre, NextPhasesAre DEF Load
  <2> QED BY <1>1, <2>1, Within DEF Load, Onward
<1>2. CASE ExecuteDirect
  <2>1. PhasesLeft = 2 /\ PhasesLeft' = 1
    BY <1>2, PhasesAre, NextPhasesAre DEF ExecuteDirect
  <2> QED BY <1>2, <2>1, Within DEF ExecuteDirect, Onward
<1>3. CASE Execute
  <2>1. PICK i \in queue : queue' = queue \ {i}
    BY <1>3 DEF Execute
  <2> DEFINE before == Cardinality(queue)
             after == Cardinality(queue')
  <2>2. before \in Nat /\ after = before - 1
    BY <2>1, QueueFinite, FS_RemoveElement
  <2>3. WorkLeft = 2 * before
    BY <1>3 DEF Execute, WorkLeft
  <2>4. WorkLeft' = 2 * after + 1
    BY <1>3 DEF Execute, WorkLeft
  <2> HIDE DEF before, after
  <2>5. WorkLeft' < WorkLeft
    BY <2>2, <2>3, <2>4
  <2>6. PhasesLeft = 1 /\ PhasesLeft' = 1
    BY <1>3, PhasesAre, NextPhasesAre DEF Execute
  <2> QED BY <1>3, <2>5, <2>6, Within DEF Execute, Onward
<1>4. CASE Audit
  <2> DEFINE left == Cardinality(queue)
  <2>1. left \in Nat
    BY QueueFinite
  <2>2. WorkLeft = 2 * left + 1
    BY <1>4 DEF Audit, WorkLeft
  <2>3. WorkLeft' = 2 * left
    BY <1>4 DEF Audit, WorkLeft
  <2> HIDE DEF left
  <2>4. WorkLeft' < WorkLeft
    BY <2>1, <2>2, <2>3
  <2>5. PhasesLeft = 1 /\ PhasesLeft' = 1
    BY <1>4, PhasesAre, NextPhasesAre DEF Audit
  <2> QED BY <1>4, <2>4, <2>5, Within DEF Audit, Onward
<1> QED BY <1>1, <1>2, <1>3, <1>4

LEMMA ChunksGoOn ==
  ASSUME TypeInv, ToDoFits, TryAgain \/ NextChunk
  PROVE  Onward
<1>1. CASE TryAgain
  <2>1. PassesLeft = 1 /\ PassesLeft' = 0
    BY <1>1 DEF TryAgain, PassesLeft
  <2>2. ChunksLeft' = ChunksLeft
    BY <1>1 DEF TryAgain, ChunksLeft
  <2> QED BY <2>1, <2>2 DEF Onward
<1>2. CASE NextChunk
  <2> DEFINE all == Len(req.commands)
  <2>1. all \in Nat /\ done \in Nat
    BY <1>2 DEF NextChunk, TypeInv, Typed0, Requested
  <2>2. ChunksLeft = all - done
    BY <1>2 DEF NextChunk, ChunksLeft
  <2>3. ChunksLeft' = all - (done + MaxBatch)
    BY <1>2 DEF NextChunk, ChunksLeft
  <2> HIDE DEF all
  <2>4. ChunksLeft' < ChunksLeft
    BY <2>1, <2>2, <2>3, BoundAssumption
  <2> QED BY <2>4 DEF Onward
<1> QED BY <1>1, <1>2

LEMMA ChatStepOnward ==
  ASSUME TypeInv, ToDoFits, ChatStep
  PROVE  Onward
<1>1. CASE ConfirmReturns \/ InlineFails \/ InlineReturns
  BY <1>1, Ends DEF ConfirmReturns, InlineFails, InlineReturns, exec
<1> QED BY <1>1, StoringGoesOn, ConfirmingGoesOn, ChunksGoOn DEF ChatStep

\* The compare endpoint and its request leave what the chat has to do.
LEMMA CompareKeepsToDo ==
  ASSUME TypeInv, CompareStep \/ \E c \in Convs, u \in Users, l \in Lists : Compare(c, u, l)
  PROVE  /\ UNCHANGED ToDo
         /\ UNCHANGED <<req, phase, done>> /\ writing'["chat"] = writing["chat"]
<1>1. UNCHANGED <<req, phase, queue, done, pass>>
  BY DEF CompareStep, Compare, WriteFile, WriteFails, CompareReturns, exec
<1>2. writing'["chat"] = writing["chat"]
  BY DEF CompareStep, Compare, WriteFile, WriteFails, CompareReturns, TypeInv, Typed0, Writers
<1>3. ChunksLeft' = ChunksLeft /\ PassesLeft' = PassesLeft
  BY <1>1 DEF ChunksLeft, PassesLeft
<1>4. PhasesLeft' = PhasesLeft
  BY <1>1 DEF PhasesLeft
<1>5. WorkLeft' = WorkLeft
  BY <1>1, <1>2 DEF WorkLeft
<1> QED BY <1>1, <1>2, <1>3, <1>4, <1>5 DEF ToDo

LEMMA ToDoKept == TypeInv /\ ToDoFits /\ [Next]_vars => ToDoFits'
<1> SUFFICES ASSUME TypeInv, ToDoFits, [Next]_vars PROVE ToDoFits'
  OBVIOUS
<1>1. CASE UNCHANGED vars
  BY <1>1 DEF vars, ToDoFits
<1>2. CASE Crash
  BY <1>2 DEF Crash, ToDoFits, Nothing
<1>3. CASE CompareStep \/ \E c \in Convs, u \in Users, l \in Lists : Compare(c, u, l)
  BY <1>3, CompareKeepsToDo DEF ToDoFits
<1>4. ASSUME NEW c \in Convs, NEW u \in Users
      PROVE  /\ \A l \in Lists : Suggest(c, u, l) \/ SuggestV4(c, u, l) => ToDoFits'
             /\ \A n \in Numbers, digits, yes \in BOOLEAN, plan \in Plans :
                  Confirm(c, u, n, digits, yes, plan) => ToDoFits'
             /\ \A cmd \in Commands, yes \in BOOLEAN : Direct(c, u, cmd, yes) => ToDoFits'
             /\ \A cmds \in Typed : Inline(c, u, cmds) => ToDoFits'
  <2>1. ASSUME NEW cmds \in Typed, Inline(c, u, cmds) PROVE ToDoFits'
    <3>1. Len(cmds) \in Nat
      BY InputAssumption
    <3>2. phase' = "persist" /\ done' = 0 /\ req'.commands = cmds
      BY <2>1 DEF Inline, Begin
    <3> QED BY <3>1, <3>2 DEF ToDoFits
  <2> QED BY <2>1 DEF Suggest, SuggestV4, Confirm, Direct, Begin, ToDoFits
<1>5. CASE Arrival
  BY <1>3, <1>4, <1>5 DEF Arrival
<1>6. CASE WriteFile("chat") \/ WriteFails("chat")
  <2>1. phase \in {"persist", "store"} /\ writing \in [Writers -> Job]
    BY <1>6 DEF WriteFile, WriteFails, ToDoFits, TypeInv, Typed0
  <2>2. phase' = phase \/ writing'["chat"].files = <<>>
    BY <1>6, <2>1 DEF WriteFile, WriteFails, Nothing, Writers
  <2> QED BY <1>6, <2>1, <2>2 DEF WriteFile, WriteFails, exec, ToDoFits
<1>7. CASE SuggestReturns \/ Stored \/ Persisted
  <2>1. writing \in [Writers -> Job]
    BY DEF TypeInv, Typed0
  <2>2. phase' = "store" \/ writing'["chat"].files = <<>>
    BY <1>7, <2>1 DEF SuggestReturns, Stored, Persisted, Nothing, Writers
  <2> QED BY <1>7, <2>2 DEF SuggestReturns, Stored, Persisted, exec, ToDoFits
<1>8. CASE \/ Load \/ Execute \/ ExecuteDirect \/ Audit \/ ConfirmReturns \/ TryAgain
           \/ InlineFails \/ InlineReturns
  BY <1>8 DEF Load, Execute, ExecuteDirect, Audit, ConfirmReturns, TryAgain, InlineFails,
              InlineReturns, exec, ToDoFits
<1>9. CASE NextChunk
  <2>1. Len(req.commands) \in Nat /\ done + MaxBatch < Len(req.commands)
    BY <1>9 DEF NextChunk, TypeInv, Requested
  <2>2. /\ phase' = "persist" /\ done' = done + MaxBatch /\ req' = req
        /\ done + MaxBatch \in Nat
    BY <1>9, BoundAssumption DEF NextChunk, TypeInv, Typed0
  <2> QED BY <2>1, <2>2 DEF ToDoFits
<1> QED BY <1>1, <1>2, <1>3, <1>5, <1>6, <1>7, <1>8, <1>9 DEF Next, ChatStep

\* Every step of a chat request, the failures among them, brings it nearer to
\* its reply: chunks, second confirmations, phases, and files or calls, in this
\* order; what the compare endpoint does meanwhile, which may replace the list
\* of a chunk, gives it nothing more to do (app.py 1280-1646,
\* inline_command_execute.py, confirmation.py).
THEOREM RequestComesNearer ==
  Spec => /\ []({ChunksLeft, PassesLeft, PhasesLeft, WorkLeft} \subseteq Nat)
          /\ [][/\ ChatStep => Onward
                /\ phase # "idle" /\ ~ChatStep /\ ~Crash => UNCHANGED ToDo]_vars
<1>1. Init => ToDoFits
  BY DEF Init, ToDoFits, Nothing
<1>2. TypeInv /\ ToDoFits => {ChunksLeft, PassesLeft, PhasesLeft, WorkLeft} \subseteq Nat
  BY ToDoNumbers
<1>3. TypeInv /\ ToDoFits /\ [Next]_vars =>
        [/\ ChatStep => Onward
         /\ phase # "idle" /\ ~ChatStep /\ ~Crash => UNCHANGED ToDo]_vars
  <2> SUFFICES ASSUME TypeInv, ToDoFits, Next
               PROVE  /\ ChatStep => Onward
                      /\ phase # "idle" /\ ~ChatStep /\ ~Crash => UNCHANGED ToDo
    OBVIOUS
  <2>1. ASSUME phase # "idle", Arrival
        PROVE  \E c \in Convs, u \in Users, l \in Lists : Compare(c, u, l)
    BY <2>1 DEF Arrival, Suggest, SuggestV4, Confirm, Direct, Inline, Begin
  <2> QED BY <2>1, ChatStepOnward, CompareKeepsToDo DEF Next
<1> QED BY <1>1, <1>2, <1>3, InitType, TypeStep, ToDoKept, PTL DEF Spec
=============================================================================
