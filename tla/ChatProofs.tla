----------------------------- MODULE ChatProofs -----------------------------
(***************************************************************************)
(* What the routes of the chat and the queries of the CMDB promise, for    *)
(* every set of questions, plans, contexts, pending lists and tables.      *)
(***************************************************************************)
EXTENDS ChatRoutes, CmdbQuery, SequenceTheorems, FiniteSetTheorems, WellFoundedInduction,
        TLAPS

-----------------------------------------------------------------------------
(* Recursion over the positions of a list *)

\* A set of naturals that is not empty has a least member.
LEMMA LeastMember ==
  ASSUME NEW T \in SUBSET Nat, T # {}
  PROVE  \E x \in T : \A y \in T : x <= y
<1>1. PICK x \in T : \A y \in T : ~(<<y, x>> \in OpToRel(<, Nat))
  BY WFMin, NatLessThanWellFounded, Zenon
<1>2. \A y \in T : ~(y < x)
  BY <1>1 DEF OpToRel
<1> QED BY <1>2

\* What holds of 0, and of each number after one of which it holds, holds of
\* all numbers up to N.
LEMMA UpTo ==
  ASSUME NEW N \in Nat, NEW S, 0 \in S, \A n \in 1..N : n - 1 \in S => n \in S
  PROVE  0..N \subseteq S
<1> SUFFICES ASSUME (0..N) \ S # {} PROVE FALSE
  OBVIOUS
<1>1. PICK x \in (0..N) \ S : \A y \in (0..N) \ S : x <= y
  <2>1. (0..N) \ S \in SUBSET Nat
    OBVIOUS
  <2> QED BY <2>1, LeastMember
<1>2. x # 0 /\ x \in 1..N /\ x - 1 \in 0..N
  BY <1>1
<1>3. x - 1 \in S
  BY <1>1, <1>2
<1> QED BY <1>1, <1>2, <1>3

\* g makes the value at a position of the one before it, f starts with a and
\* goes on by g.
Steps(N, V) == [(1..N) \X V -> V]
Runs(f, N, a, g) == f[0] = a /\ \A n \in 1..N : f[n] = g[<<n, f[n - 1]>>]

LEMMA Recursion ==
  ASSUME NEW N \in Nat, NEW V, NEW a \in V, NEW g \in Steps(N, V)
  PROVE  \E f \in [0..N -> V] : Runs(f, N, a, g)
<1> USE DEF Steps, Runs
<1> DEFINE Fits(f, m) == f[0] = a /\ \A n \in 1..m : f[n] = g[<<n, f[n - 1]>>]
           S == {m \in 0..N : \E f \in [0..m -> V] : Fits(f, m)}
<1>1. 0 \in S
  <2> DEFINE f == [i \in 0..0 |-> a]
  <2>1. f \in [0..0 -> V] /\ Fits(f, 0)
    OBVIOUS
  <2> HIDE DEF f
  <2> QED BY <2>1
<1>2. ASSUME NEW n \in 1..N, n - 1 \in S PROVE n \in S
  <2>1. PICK f \in [0..(n - 1) -> V] : Fits(f, n - 1)
    BY <1>2
  <2> DEFINE e == [i \in 0..n |-> IF i = n THEN g[<<n, f[n - 1]>>] ELSE f[i]]
  <2>2. e \in [0..n -> V]
    OBVIOUS
  <2>3. \A i \in 0..(n - 1) : e[i] = f[i]
    OBVIOUS
  <2>4. e[n] = g[<<n, f[n - 1]>>]
    OBVIOUS
  <2> HIDE DEF e
  <2>5. \A k \in 1..n : e[k] = g[<<k, e[k - 1]>>]
    <3> TAKE k \in 1..n
    <3>1. k - 1 \in 0..(n - 1) /\ e[k - 1] = f[k - 1]
      BY <2>3
    <3>2. CASE k = n
      BY <2>4, <3>1, <3>2
    <3>3. CASE k # n
      <4>1. k \in 1..(n - 1) /\ k \in 0..(n - 1)
        BY <3>3
      <4> QED BY <2>1, <2>3, <3>1, <4>1
    <3> QED BY <3>2, <3>3
  <2>6. e[0] = a
    BY <2>1, <2>3
  <2> QED BY <2>2, <2>5, <2>6
<1> HIDE DEF S
<1>3. 0..N \subseteq S
  BY <1>1, <1>2, UpTo
<1>4. N \in S
  BY <1>3
<1> QED BY <1>4 DEF S

-----------------------------------------------------------------------------
(* The evidence *)

\* The sums over the output of the items before each position.
LEMMA BeforeSteps ==
  ASSUME NEW items, Len(items) \in Nat, \A j \in 1..Len(items) : Output(items[j]) \in Nat
  PROVE  /\ Before(items, 1) = 0
         /\ \A i \in 1..(Len(items) + 1) : Before(items, i) \in Nat
         /\ \A i \in 1..Len(items) : Before(items, i + 1) = Before(items, i) + Output(items[i])
<1> DEFINE N == Len(items)
           out == [j \in 1..N |-> Output(items[j])]
           Fits(sum) == sum = [n \in 0..N |-> IF n = 0 THEN 0 ELSE sum[n - 1] + out[n]]
           total == CHOOSE sum : Fits(sum)
<1>1. out \in [1..N -> Nat]
  OBVIOUS
<1>2. \A i : Before(items, i) = total[i - 1]
  <2>1. \A sum : Fits(sum) <=>
          sum = [n \in 0..Len(items) |-> IF n = 0 THEN 0 ELSE sum[n - 1] + Output(items[n])]
    <3> TAKE sum
    <3>1. \A n \in 0..N : n # 0 => out[n] = Output(items[n])
      OBVIOUS
    <3> HIDE DEF out
    <3> QED BY <3>1
  <2> HIDE DEF Fits
  <2> QED BY <2>1 DEF Before
<1>n. N \in Nat /\ N = Len(items)
  OBVIOUS
<1>o. \A j \in 1..N : out[j] = Output(items[j])
  OBVIOUS
<1> HIDE DEF out, N
<1>3. Fits(total) /\ total \in [0..N -> Nat]
  <2> DEFINE g == [p \in (1..N) \X Nat |-> p[2] + out[p[1]]]
  <2>1. g \in [(1..N) \X Nat -> Nat]
    BY <1>1
  <2>2. \A n \in 1..N, v \in Nat : g[<<n, v>>] = v + out[n]
    OBVIOUS
  <2>3. 0 \in Nat /\ g \in Steps(N, Nat)
    BY <2>1 DEF Steps
  <2> HIDE DEF g
  <2>4. PICK f \in [0..N -> Nat] : Runs(f, N, 0, g)
    BY <1>n, <2>3, Recursion, Zenon
  <2>f. Fits(f)
    <3>1. \A n \in 0..N : f[n] = IF n = 0 THEN 0 ELSE f[n - 1] + out[n]
      <4> TAKE n \in 0..N
      <4>1. n # 0 => n \in 1..N /\ n - 1 \in 0..N
        BY <1>n
      <4> QED BY <2>2, <2>4, <4>1 DEF Runs
    <3> QED BY <2>4, <3>1, Zenon
  <2>5. Fits(total)
    BY <2>f
  <2>6. \A n \in 0..N : total[n] = IF n = 0 THEN 0 ELSE total[n - 1] + out[n]
    BY <2>5
  <2> HIDE DEF total
  <2>7. 0..N \subseteq {n \in 0..N : total[n] \in Nat}
    <3>1. 0 \in {n \in 0..N : total[n] \in Nat}
      BY <1>n, <2>6
    <3>2. \A n \in 1..N : n - 1 \in {m \in 0..N : total[m] \in Nat}
                            => n \in {m \in 0..N : total[m] \in Nat}
      BY <1>n, <1>1, <2>6
    <3> QED BY <1>n, <3>1, <3>2, UpTo
  <2> QED BY <2>5, <2>7
<1> HIDE DEF total
<1>4. \A n \in 0..N : total[n] = IF n = 0 THEN 0 ELSE total[n - 1] + out[n]
  BY <1>3
<1>5. total[0] = 0
  BY <1>n, <1>4
<1>6. \A i \in 1..N : total[i] = total[i - 1] + Output(items[i])
  BY <1>4, <1>n, <1>o
<1>7. \A i \in 1..(N + 1) : i - 1 \in 0..N
  BY <1>n
<1>8. 1 - 1 = 0 /\ \A i \in 1..N : (i + 1) - 1 = i
  BY <1>n
<1>9. \A i \in 1..N : total[(i + 1) - 1] = total[i - 1] + Output(items[i])
  BY <1>6, <1>8
<1>10. \A i \in 1..(N + 1) : total[i - 1] \in Nat
  BY <1>3, <1>7
<1>11. Before(items, 1) = 0
  BY <1>2, <1>5, <1>8
<1> QED BY <1>n, <1>2, <1>11, <1>9, <1>10

-----------------------------------------------------------------------------
(* The invariant *)

\* A list of items whose texts have lengths.
IsItems(items) ==
  /\ Len(items) \in Nat
  /\ DOMAIN items = 1..Len(items)
  /\ \A i \in DOMAIN items : items[i].text \in Nat /\ items[i].preview \in Nat

\* Of a confirmation only what this request sent has output.
OwnOutput(route, status, items) ==
  route = "confirm" =>
    \A i \in DOMAIN items : Output(items[i]) > 0 => status = "executed" /\ items[i].ran

\* The work in hand: the total is what was taken so far, up to the limit.
WorkFits ==
  /\ work = [route |-> work.route, status |-> work.status, items |-> work.items,
             used |-> work.used, total |-> work.total]
  /\ IsItems(work.items)
  /\ work.used \in Seq(Nat)
  /\ Len(work.used) <= Len(work.items)
  /\ work.total = Smaller(Before(work.items, Len(work.used) + 1), Total)
  /\ OwnOutput(work.route, work.status, work.items)

\* The plan has the device it names, else the one of the text, else perhaps the
\* one of the context.
PlanFits(p, q, ctx) ==
  LET heard == {p.raw.device, p.raw.address} \ {None}
  IN /\ p.address = p.raw.address
     /\ heard # {} => p.device = p.raw.device
     /\ heard = {} /\ q.device # None => p.device = q.device
     /\ heard = {} /\ q.device = None => p.device \in {None, DeviceOf(ctx)}

\* What is settled at each stage of a question.
StageFits ==
  /\ pc # "idle" => reply = NoReply
  /\ pc = "chat" => PlanFits(plan, question, seen)
  /\ pc \in {"collect", "analyse"} => work.route \in {"confirm", "followup"}
  /\ pc = "analyse" => Evidence

Replies == AnalysisGrounded /\ NamedDeviceWins /\ GeneratedListPasses

Inv == TypeOK /\ WorkFits /\ StageFits /\ EvidenceIsBeginning /\ Replies

\* What is said of the last reply, about any reply.
Grounded(r) ==
  r.route \in {"confirm", "followup"} =>
    /\ r.answer = "analysis" =>
         /\ configured
         /\ \E i \in DOMAIN r.evidence : r.evidence[i] > 0
         /\ r.route = "confirm" =>
              \A i \in DOMAIN r.evidence :
                r.evidence[i] > 0 => r.status = "executed" /\ r.items[i].ran
    /\ r.answer = "own" => r.items = <<>>

Named(r) ==
  r.route = "chat" /\ r.items # <<>> =>
    LET heard == {plan.raw.device, plan.raw.address} \ {None}
    IN CASE heard # {} -> r.device \in heard
         [] heard = {} /\ question.device # None -> r.device = question.device
         [] OTHER -> r.device \in {question.address, DeviceOf(seen)}

Passes(r) == r.route = "v4" /\ r.status = "unsafe" => Type[r.device] = "fortios"

Sendable(r) == Grounded(r) /\ Named(r) /\ Passes(r)

\* A reply in the handler's own words says nothing of output or devices.
LEMMA OwnSendable ==
  ASSUME NEW route, route # "v4", NEW status
  PROVE  Sendable(Own(route, status))
BY DEF Sendable, Grounded, Named, Passes, Own, Reply

LEMMA IdleFits ==
  /\ Idle = [route |-> "none", status |-> "none", items |-> <<>>, used |-> <<>>, total |-> 0]
  /\ IsItems(Idle.items)
  /\ Before(Idle.items, 1) = 0
  /\ Smaller(0, Total) = 0
  /\ Idle.used \in Seq(Nat) /\ Len(Idle.used) = 0 /\ Len(Idle.items) = 0
  /\ DOMAIN Idle.used = {} /\ DOMAIN Idle.items = {}
<1>1. IsItems(Idle.items) /\ Len(Idle.items) = 0 /\ DOMAIN Idle.items = {}
  BY DEF IsItems, Idle
<1>2. Before(Idle.items, 1) = 0
  <2>1. \A j \in 1..Len(Idle.items) : Output(Idle.items[j]) \in Nat
    BY <1>1
  <2> QED BY <1>1, <2>1, BeforeSteps
<1> QED BY <1>1, <1>2, LengthsAssumption DEF Idle, Smaller

\* Every answer that may be sent keeps the invariant.
LEMMA AnswerKeeps ==
  ASSUME Inv, pc # "idle", NEW r, Sendable(r), Answer(r)
  PROVE  Inv'
<1>1. TypeOK'
  <2>1. work'.total = 0 /\ pc' = "idle"
    BY DEF Answer, Idle
  <2>2. work'.total \in 0..Total
    BY <2>1, LengthsAssumption
  <2> QED BY <2>1, <2>2 DEF Inv, TypeOK, Answer
<1>2. WorkFits'
  BY IdleFits DEF Answer, WorkFits, OwnOutput
<1>3. StageFits'
  BY DEF Answer, StageFits
<1>4. EvidenceIsBeginning'
  BY IdleFits DEF Answer, EvidenceIsBeginning
<1>5. AnalysisGrounded'
  BY DEF Answer, AnalysisGrounded, Sendable, Grounded
<1>6. NamedDeviceWins'
  BY DEF Answer, NamedDeviceWins, Sendable, Named
<1>7. GeneratedListPasses'
  BY DEF Answer, GeneratedListPasses, Sendable, Passes
<1> QED BY <1>1, <1>2, <1>3, <1>4, <1>5, <1>6, <1>7 DEF Inv, Replies

\* NoReply promises nothing, whatever question it is about.
LEMMA SilentReplies ==
  ASSUME reply' = NoReply
  PROVE  Replies'
BY DEF Replies, AnalysisGrounded, NamedDeviceWins, GeneratedListPasses, NoReply, Own, Reply

\* A step that goes on with the question and leaves the work alone.
LEMMA StepKeeps ==
  ASSUME Inv, TypeOK', reply' = reply, work' = work, pc # "idle", pc' # "idle",
         pc' = "chat" => PlanFits(plan', question', seen'),
         pc' \in {"collect", "analyse"} => work.route \in {"confirm", "followup"},
         pc' = "analyse" => Evidence
  PROVE  Inv'
<1>1. reply' = NoReply
  BY DEF Inv, StageFits
<1>2. WorkFits'
  BY DEF Inv, WorkFits, OwnOutput
<1>3. StageFits'
  BY <1>1 DEF Inv, StageFits, Evidence
<1>4. EvidenceIsBeginning'
  BY DEF Inv, EvidenceIsBeginning
<1> QED BY <1>1, <1>2, <1>3, <1>4, SilentReplies DEF Inv

\* Items under analysis: nothing is taken of them yet.
LEMMA CollectKeeps ==
  ASSUME Inv, pc # "idle", NEW route \in {"confirm", "followup"}, NEW status, NEW items,
         IsItems(items), OwnOutput(route, status, items), Collect(route, status, items)
  PROVE  Inv'
<1>1. work' = [route |-> route, status |-> status, items |-> items, used |-> <<>>,
               total |-> 0] /\ pc' = "collect"
  BY DEF Collect, Idle
<1>2. reply' = NoReply
  BY DEF Inv, StageFits, Collect
<1>3. TypeOK'
  <2>1. work'.total \in 0..Total
    BY <1>1, LengthsAssumption
  <2> QED BY <1>1, <2>1 DEF Inv, TypeOK, Collect
<1>4. WorkFits'
  <2>1. \A j \in 1..Len(items) : Output(items[j]) \in Nat
    BY LengthsAssumption DEF IsItems, Output, Smaller
  <2>2. Before(items, 1) = 0
    BY <2>1, BeforeSteps DEF IsItems
  <2>3. /\ IsItems(work'.items) /\ work'.used = <<>> /\ Len(<<>>) = 0 /\ work'.total = 0
        /\ OwnOutput(work'.route, work'.status, work'.items)
    BY <1>1
  <2>4. Before(work'.items, Len(work'.used) + 1) = 0
    BY <1>1, <2>2
  <2>5. Smaller(0, Total) = 0
    BY LengthsAssumption DEF Smaller
  <2>6. Len(work'.used) <= Len(work'.items) /\ work'.used \in Seq(Nat)
    BY <2>3 DEF IsItems
  <2> QED BY <1>1, <2>3, <2>4, <2>5, <2>6 DEF WorkFits, OwnOutput
<1>5. StageFits'
  BY <1>1, <1>2 DEF StageFits
<1>6. EvidenceIsBeginning'
  BY <1>1 DEF EvidenceIsBeginning
<1> QED BY <1>2, <1>3, <1>4, <1>5, <1>6, SilentReplies DEF Inv

-----------------------------------------------------------------------------
(* The steps of a question *)

LEMMA DispatchFits ==
  ASSUME NEW p, NEW q, NEW ctx
  PROVE  PlanFits(Dispatch(p, q, ctx), q, ctx)
BY DEF PlanFits, Dispatch, Mentioned, DeviceOf

LEMMA AskKeeps ==
  ASSUME Inv, NEW q \in Questions, Ask(q)
  PROVE  Inv'
<1>1. TypeOK'
  BY LengthsAssumption DEF Inv, TypeOK, Ask
<1>2. WorkFits'
  BY DEF Inv, WorkFits, OwnOutput, Ask
<1>3. StageFits'
  BY DEF StageFits, Ask
<1>4. EvidenceIsBeginning'
  BY DEF Inv, EvidenceIsBeginning, Ask
<1> QED BY <1>1, <1>2, <1>3, <1>4, SilentReplies DEF Inv, Ask

LEMMA PlannedKeeps ==
  ASSUME Inv, NEW p, Planned(p)
  PROVE  Inv'
<1>1. TypeOK'
  BY DEF Inv, TypeOK, Planned, AfterPlan
<1>2. PlanFits(plan', question', seen')
  BY DispatchFits DEF Planned
<1>3. pc # "idle" /\ pc' \in {"route", "chat"}
  BY DEF Planned, AfterPlan
<1> QED BY <1>1, <1>2, <1>3, StepKeeps DEF Planned

LEMMA GoToKeeps ==
  ASSUME Inv, pc # "idle", NEW stage \in {"confirm", "local"}, GoTo(stage)
  PROVE  Inv'
<1>1. TypeOK'
  BY DEF Inv, TypeOK, GoTo
<1> QED BY <1>1, StepKeeps DEF GoTo

\* The executions of a context are items.
LEMMA ExecutionsFit ==
  ASSUME NEW ctx \in Contexts
  PROVE  IsItems(ctx.executions)
<1>1. ctx.executions \in Seq([device : Devices, command : Seq(STRING), ran : BOOLEAN,
                              text : Nat, preview : Nat])
  BY StoresAssumption
<1>2. \A i \in 1..Len(ctx.executions) :
        ctx.executions[i] \in [device : Devices, command : Seq(STRING), ran : BOOLEAN,
                               text : Nat, preview : Nat]
  BY <1>1, ElementOfSeq
<1> QED BY <1>1, <1>2, LenProperties DEF IsItems

LEMMA FollowupKeeps ==
  ASSUME Inv, pc # "idle", context # None, Collect("followup", "ok", context.executions)
  PROVE  Inv'
<1>1. context \in Contexts
  BY DEF Inv, TypeOK
<1>2. OwnOutput("followup", "ok", context.executions)
  BY DEF OwnOutput
<1> QED BY <1>1, <1>2, ExecutionsFit, CollectKeeps

LEMMA RouteKeeps ==
  ASSUME Inv, Route
  PROVE  Inv'
<1>1. pc # "idle"
  BY DEF Route
<1>2. CASE GoTo("confirm") \/ GoTo("local")
  BY <1>1, <1>2, GoToKeeps
<1>3. CASE Answer(Own("followup", "need_clarification"))
  <2>1. Sendable(Own("followup", "need_clarification"))
    BY OwnSendable
  <2> QED BY <1>1, <1>3, <2>1, AnswerKeeps
<1>4. CASE context # None /\ Collect("followup", "ok", context.executions)
  BY <1>1, <1>4, FollowupKeeps
<1> QED BY <1>2, <1>3, <1>4 DEF Route

LEMMA LocalKeeps ==
  ASSUME Inv, Local
  PROVE  Inv'
<1>1. pc # "idle"
  BY DEF Local
<1>2. CASE GoTo("confirm")
  BY <1>1, <1>2, GoToKeeps
<1>3. CASE Answer(Own("followup", "need_more_evidence"))
  <2>1. Sendable(Own("followup", "need_more_evidence"))
    BY OwnSendable
  <2> QED BY <1>1, <1>3, <2>1, AnswerKeeps
<1>4. CASE context # None /\ Collect("followup", "ok", context.executions)
  BY <1>1, <1>4, FollowupKeeps
<1>5. CASE /\ pc' = "plan again"
           /\ seen' = context
           /\ UNCHANGED <<configured, context, pending, question, plan, work, reply,
                          stored, asked>>
  <2>1. TypeOK'
    BY <1>5 DEF Inv, TypeOK
  <2> QED BY <1>1, <1>5, <2>1, StepKeeps
<1> QED BY <1>2, <1>3, <1>4, <1>5 DEF Local

-----------------------------------------------------------------------------
(* The confirmation *)

\* There is a position for each member of a finite set.
LEMMA AscendingFits ==
  ASSUME NEW S, IsFiniteSet(S)
  PROVE  Cardinality(S) \in Nat /\ DOMAIN Ascending(S) = 1..Cardinality(S)
BY FS_CardinalityType DEF Ascending

\* The items of a selection are positions of the list.
LEMMA SelectionFits ==
  ASSUME NEW list \in PendingLists, NEW choice
  PROVE  IsFiniteSet(Selection(list, choice).items)
<1>1. DOMAIN list.items = 1..Len(list.items) /\ Len(list.items) \in Nat
  BY StoresAssumption, LenProperties
<1>2. IsFiniteSet(DOMAIN list.items)
  BY <1>1, FS_Interval
<1>3. IsFiniteSet(Passed(list))
  BY <1>2, FS_Subset DEF Passed
<1>4. \A n : IsFiniteSet({n}) /\ IsFiniteSet({})
  BY FS_Singleton, FS_EmptySet
<1> QED BY <1>2, <1>3, <1>4 DEF Selection, Every, One

\* Items that were not sent have no output.
LEMMA UnsentFits ==
  ASSUME NEW n \in Nat, NEW items, DOMAIN items = 1..n, items = [k \in 1..n |-> items[k]],
         NEW status, \A k \in 1..n : items[k].text = 0 /\ items[k].preview = 0
  PROVE  IsItems(items) /\ OwnOutput("confirm", status, items)
<1>1. Len(items) = n
  OBVIOUS
<1>2. \A k \in 1..n : Output(items[k]) = 0
  BY LengthsAssumption DEF Output, Smaller
<1>3. IsItems(items)
  BY <1>1 DEF IsItems
<1> QED BY <1>2, <1>3 DEF OwnOutput

LEMMA ConfirmKeeps ==
  ASSUME Inv, Confirm
  PROVE  Inv'
<1>1. pc # "idle"
  BY DEF Confirm
<1>2. \A status : Sendable(Own("confirm", status))
  BY OwnSendable
<1>3. CASE pending = None
  BY <1>1, <1>2, <1>3, AnswerKeeps DEF Confirm
<1>4. CASE pending # None
  <2> DEFINE selection == Selection(pending, Asked)
             order == Ascending(selection.items)
             n == Cardinality(selection.items)
  <2>1. pending \in PendingLists
    BY <1>4 DEF Inv, TypeOK
  <2>2. n \in Nat /\ DOMAIN order = 1..n
    BY <2>1, SelectionFits, AscendingFits
  <2>3. CASE Answer(Own("confirm", selection.status))
    BY <1>1, <1>2, <2>3, AnswerKeeps
  <2>4. ASSUME NEW sent \in [DOMAIN order -> UNION {Sent(pending, i) : i \in selection.items}],
               \A k \in DOMAIN order : sent[k] \in Sent(pending, order[k]),
               Collect("confirm", "executed", sent)
        PROVE  Inv'
    <3>1. \A i : \A item \in Sent(pending, i) :
            item.ran /\ item.text \in Nat /\ item.preview \in Nat
      BY StoresAssumption DEF Sent
    <3>2. DOMAIN sent = 1..n /\ Len(sent) = n
      BY <2>2, <2>4
    <3>3. \A k \in 1..n : sent[k].ran /\ sent[k].text \in Nat /\ sent[k].preview \in Nat
      BY <2>2, <2>4, <3>1
    <3>4. IsItems(sent) /\ OwnOutput("confirm", "executed", sent)
      BY <2>2, <3>2, <3>3 DEF IsItems, OwnOutput
    <3> QED BY <1>1, <2>4, <3>4, CollectKeeps
  <2>5. ASSUME NEW status,
               Collect("confirm", status,
                       [k \in DOMAIN order |->
                          Unsent(pending.device, pending.items[order[k]].command)])
        PROVE  Inv'
    <3> DEFINE items == [k \in DOMAIN order |->
                           Unsent(pending.device, pending.items[order[k]].command)]
    <3>1. DOMAIN items = 1..n /\ items = [k \in 1..n |-> items[k]]
      BY <2>2
    <3>2. \A k \in 1..n : items[k].text = 0 /\ items[k].preview = 0
      BY <2>2 DEF Unsent
    <3> HIDE DEF items
    <3>3. IsItems(items) /\ OwnOutput("confirm", status, items)
      BY <2>2, <3>1, <3>2, UnsentFits
    <3>4. Collect("confirm", status, items)
      BY <2>5 DEF items
    <3> QED BY <1>1, <3>3, <3>4, CollectKeeps
  <2> QED BY <1>4, <2>3, <2>4, <2>5 DEF Confirm
<1> QED BY <1>3, <1>4

-----------------------------------------------------------------------------
(* The evidence and its analysis *)

\* What is taken of the next item is what is left of the total, and the total
\* counts it.
LEMMA TakeEvidenceKeeps ==
  ASSUME Inv, TakeEvidence
  PROVE  Inv'
<1> DEFINE n == Len(work.used) + 1
           output == Output(work.items[n])
           fits == work.total + output <= Total
           taken == IF fits THEN output ELSE Total - work.total
<1>1. /\ work'.route = work.route /\ work'.status = work.status /\ work'.items = work.items
      /\ work'.used = Append(work.used, taken)
      /\ work'.total = (IF fits THEN work.total + output ELSE Total)
      /\ work' = [route |-> work'.route, status |-> work'.status, items |-> work'.items,
                  used |-> work'.used, total |-> work'.total]
  BY DEF Inv, WorkFits, TakeEvidence
<1>2. n \in 1..Len(work.items) /\ work.used \in Seq(Nat) /\ Len(work.used) \in Nat
  BY LenProperties DEF Inv, WorkFits, IsItems, TakeEvidence
<1>3. \A j \in 1..Len(work.items) : Output(work.items[j]) \in Nat
  BY LengthsAssumption DEF Inv, WorkFits, IsItems, Output, Smaller
<1>4. Before(work.items, n) \in Nat /\ Before(work.items, n + 1) = Before(work.items, n) + output
  BY <1>2, <1>3, BeforeSteps DEF Inv, WorkFits, IsItems
<1>5. work.total = Smaller(Before(work.items, n), Total) /\ output \in Nat /\ Total \in Nat
  BY <1>2, <1>3, LengthsAssumption DEF Inv, WorkFits
<1> DEFINE before == Before(work.items, n)
<1> HIDE DEF output, before
<1>6. /\ taken = (IF before >= Total THEN 0 ELSE Smaller(output, Total - before))
      /\ taken \in Nat
      /\ work'.total = Smaller(before + output, Total)
      /\ work'.total \in 0..Total
  BY <1>1, <1>4, <1>5 DEF Smaller, before
<1> HIDE DEF taken, fits
<1>7. /\ work'.used \in Seq(Nat) /\ Len(work'.used) = n /\ DOMAIN work'.used = 1..n
      /\ work'.used[n] = taken /\ \A i \in 1..(n - 1) : work'.used[i] = work.used[i]
  <2>1. Append(work.used, taken) \in Seq(Nat)
    BY <1>2, <1>6, AppendProperties
  <2> QED BY <1>1, <1>2, <1>6, <2>1, AppendProperties, LenProperties
<1>8. TypeOK'
  BY <1>6 DEF Inv, TypeOK, TakeEvidence
<1>9. WorkFits'
  <2>1. Len(work'.used) <= Len(work'.items) /\ IsItems(work'.items)
    BY <1>1, <1>2, <1>7 DEF Inv, WorkFits, IsItems
  <2>2. work'.total = Smaller(Before(work'.items, Len(work'.used) + 1), Total)
    BY <1>1, <1>4, <1>6, <1>7 DEF before
  <2>3. OwnOutput(work'.route, work'.status, work'.items)
    BY <1>1 DEF Inv, WorkFits
  <2> QED BY <1>1, <1>7, <2>1, <2>2, <2>3 DEF WorkFits, OwnOutput
<1>10. reply' = NoReply /\ StageFits'
  BY <1>1 DEF Inv, StageFits, TakeEvidence
<1>11. EvidenceIsBeginning'
  <2> SUFFICES ASSUME NEW i \in 1..n
               PROVE  work'.used[i] = IF Before(work.items, i) >= Total THEN 0
                        ELSE Smaller(Output(work.items[i]), Total - Before(work.items, i))
    BY <1>1, <1>7 DEF EvidenceIsBeginning
  <2>1. CASE i = n
    BY <1>6, <1>7, <2>1 DEF before, output
  <2>2. CASE i # n
    <3>1. i \in 1..(n - 1) /\ i \in DOMAIN work.used
      BY <1>2, <2>2, LenProperties
    <3> QED BY <1>7, <3>1 DEF Inv, EvidenceIsBeginning
  <2> QED BY <2>1, <2>2
<1> QED BY <1>8, <1>9, <1>10, <1>11, SilentReplies DEF Inv

\* A reply that shows the failure of the analysis is no analysis.
LEMMA FailureSendable ==
  ASSUME Inv, pc \in {"collect", "analyse"}
  PROVE  Sendable(Analysed("failure"))
BY DEF Inv, StageFits, Sendable, Grounded, Named, Passes, Analysed, Reply

LEMMA EvidenceTakenKeeps ==
  ASSUME Inv, EvidenceTaken
  PROVE  Inv'
<1>1. pc = "collect"
  BY DEF EvidenceTaken
<1>2. CASE Evidence /\ GoTo("analyse")
  <2>1. TypeOK'
    BY <1>2 DEF Inv, TypeOK, GoTo
  <2>2. work.route \in {"confirm", "followup"}
    BY <1>1 DEF Inv, StageFits
  <2> QED BY <1>1, <1>2, <2>1, <2>2, StepKeeps DEF GoTo
<1>3. CASE Answer(Analysed("failure"))
  BY <1>1, <1>3, FailureSendable, AnswerKeeps
<1> QED BY <1>2, <1>3 DEF EvidenceTaken

\* What was taken of an item is some of its output.
LEMMA AnalysisSendable ==
  ASSUME Inv, pc = "analyse", configured
  PROVE  Sendable(Analysed("analysis"))
<1>1. work.route \in {"confirm", "followup"} /\ \E i \in DOMAIN work.used : work.used[i] > 0
  BY DEF Inv, StageFits, Evidence
<1>2. ASSUME NEW i \in DOMAIN work.used, work.used[i] > 0
      PROVE  i \in DOMAIN work.items /\ Output(work.items[i]) > 0
  <2>1. i \in 1..Len(work.items) /\ DOMAIN work.items = 1..Len(work.items)
    BY LenProperties DEF Inv, WorkFits, IsItems
  <2>2. \A j \in 1..Len(work.items) : Output(work.items[j]) \in Nat
    BY LengthsAssumption DEF Inv, WorkFits, IsItems, Output, Smaller
  <2>3. Before(work.items, i) \in Nat
    BY <2>1, <2>2, BeforeSteps DEF Inv, WorkFits, IsItems
  <2>4. work.used[i] = IF Before(work.items, i) >= Total THEN 0
                       ELSE Smaller(Output(work.items[i]), Total - Before(work.items, i))
    BY DEF Inv, EvidenceIsBeginning
  <2>5. Output(work.items[i]) \in Nat
    BY <2>1, <2>2
  <2> QED BY <1>2, <2>1, <2>3, <2>4, <2>5, LengthsAssumption DEF Smaller
<1>3. work.route = "confirm" =>
        \A i \in DOMAIN work.used :
          work.used[i] > 0 => work.status = "executed" /\ work.items[i].ran
  BY <1>2 DEF Inv, WorkFits, OwnOutput
<1> QED BY <1>1, <1>3 DEF Sendable, Grounded, Named, Passes, Analysed, Reply

LEMMA AnalysesKeep ==
  ASSUME Inv, LlmAnalyses \/ AnalysisFails
  PROVE  Inv'
<1>1. CASE LlmAnalyses
  BY <1>1, AnalysisSendable, AnswerKeeps DEF LlmAnalyses
<1>2. CASE AnalysisFails
  BY <1>2, FailureSendable, AnswerKeeps DEF AnalysisFails
<1> QED BY <1>1, <1>2

\* The advice route and the legacy chat answer in words of their own.
LEMMA OwnAnswersKeep ==
  ASSUME Inv, LlmAdvises \/ AdviceFails \/ Raises
  PROVE  Inv'
<1>1. \A status : Sendable(Own("advice", status)) /\ Sendable(Own("legacy", status))
  BY OwnSendable
<1>2. CASE LlmAdvises
  BY <1>1, <1>2, AnswerKeeps DEF LlmAdvises
<1>3. CASE AdviceFails
  BY <1>1, <1>3, AnswerKeeps DEF AdviceFails
<1>4. CASE Raises
  BY <1>1, <1>4, AnswerKeeps DEF Raises
<1> QED BY <1>2, <1>3, <1>4

-----------------------------------------------------------------------------
(* The device of a suggestion *)

\* The first of the four that is a device, else the one of the context.
LEMMA RouterDeviceIs ==
  RouterDevice = IF plan.device # None THEN plan.device
                 ELSE IF plan.address # None THEN plan.address
                 ELSE IF question.address # None THEN question.address
                 ELSE IF question.device # None THEN question.device
                 ELSE DeviceOf(seen)
<1> DEFINE heard == <<plan.device, plan.address, question.address, question.device>>
           named == {i \in DOMAIN heard : heard[i] # None}
<1>1. DOMAIN heard = {1, 2, 3, 4}
  OBVIOUS
<1>2. RouterDevice = IF named # {} THEN heard[Min(named)] ELSE DeviceOf(seen)
  BY DEF RouterDevice
<1>3. ASSUME named # {}
      PROVE  Min(named) \in named /\ \A i \in named : Min(named) <= i
  <2>1. \E x \in named : \A y \in named : x <= y
    BY <1>1, <1>3, LeastMember
  <2> QED BY <2>1 DEF Min
<1>4. /\ heard[1] = plan.device /\ heard[2] = plan.address
      /\ heard[3] = question.address /\ heard[4] = question.device
  OBVIOUS
<1>5. \A i : i \in named <=> i \in {1, 2, 3, 4} /\ heard[i] # None
  BY <1>1
<1> HIDE DEF named, heard
<1>6. CASE named = {}
  BY <1>2, <1>4, <1>5, <1>6
<1>7. CASE named # {}
  BY <1>2, <1>3, <1>4, <1>5, <1>7
<1> QED BY <1>6, <1>7

LEMMA ChatKeeps ==
  ASSUME Inv, Chat
  PROVE  Inv'
<1>1. pc = "chat" /\ PlanFits(plan, question, seen)
  BY DEF Inv, StageFits, Chat
<1>2. \A status : Sendable(Own("legacy", status)) /\ Sendable(Own("chat", status))
  BY OwnSendable
<1>3. CASE Answer(Own("legacy", "none")) \/ Answer(Own("chat", "need_clarification"))
  BY <1>1, <1>2, <1>3, AnswerKeeps
<1>4. ASSUME RouterDevice # None, NEW items,
             Answer(Reply("chat", "ok", "own", RouterDevice, items, <<>>))
      PROVE  Inv'
  <2> DEFINE heard == {plan.raw.device, plan.raw.address} \ {None}
  <2>1. heard # {} => RouterDevice \in heard
    BY <1>1, RouterDeviceIs DEF PlanFits
  <2>2. heard = {} /\ question.device # None => RouterDevice = question.device
    BY <1>1, RouterDeviceIs DEF PlanFits
  <2>3. heard = {} /\ question.device = None
          => RouterDevice \in {question.address, DeviceOf(seen)}
    BY <1>1, <1>4, RouterDeviceIs DEF PlanFits
  <2>4. Sendable(Reply("chat", "ok", "own", RouterDevice, items, <<>>))
    BY <2>1, <2>2, <2>3 DEF Sendable, Grounded, Named, Passes, Reply
  <2> QED BY <1>1, <1>4, <2>4, AnswerKeeps
<1> QED BY <1>3, <1>4 DEF Chat

-----------------------------------------------------------------------------
(* The catalogue of V4: what the rules say of a command without words of     *)
(* meaning after its first                                                   *)

LEMMA PrefixIs ==
  ASSUME NEW p, Len(p) \in Nat, NEW c, Len(c) \in Nat
  PROVE  IsPrefix(p, c) <=> Len(p) <= Len(c) /\ \A i \in 1..Len(p) : c[i] = p[i]
<1>1. ASSUME Len(p) <= Len(c)
      PROVE  \A i \in 1..Len(p) : SubSeq(p, 1, Len(p))[i] = p[i] /\ SubSeq(c, 1, Len(p))[i] = c[i]
  BY <1>1
<1>2. SubSeq(p, 1, Len(p)) = [i \in 1..Len(p) |-> SubSeq(p, 1, Len(p))[i]]
  OBVIOUS
<1>3. SubSeq(c, 1, Len(p)) = [i \in 1..Len(p) |-> SubSeq(c, 1, Len(p))[i]]
  OBVIOUS
<1> QED BY <1>1, <1>2, <1>3 DEF IsPrefix

\* A prefix whose first or second word is another one.
Clashes(p, c) ==
  /\ Len(p) \in Nat
  /\ (Len(p) >= 1 /\ p[1] # c[1]) \/ (Len(p) >= 2 /\ p[2] # c[2])

LEMMA NotBegun ==
  ASSUME NEW c, Len(c) \in Nat, NEW S, \A p \in S : Clashes(p, c)
  PROVE  ~Begins(c, S)
<1> SUFFICES ASSUME NEW p \in S, IsPrefix(p, c) PROVE FALSE
  BY DEF Begins
<1> QED BY PrefixIs DEF Clashes

LEMMA Begun ==
  ASSUME NEW c, Len(c) \in Nat, NEW S, NEW p \in S, Len(p) \in Nat, Len(p) <= Len(c),
         \A i \in 1..Len(p) : c[i] = p[i]
  PROVE  Begins(c, S)
BY PrefixIs DEF Begins

\* Words that make a command with these heads special or a change.
Avoided ==
  {"running-config", "startup-config", "tech", "tech-support", "full-configuration",
   "configuration", "current-configuration", "saved-configuration",
   "diagnostic-information", "debug"}

Silent(word) == word \notin Meaningful

\* A command of the catalogue: a head, a word that is not avoided, and nothing
\* that a rule looks for.
Simple(line) ==
  /\ Len(line) \in Nat /\ Len(line) >= 2 /\ DOMAIN line = 1..Len(line)
  /\ line[1] \in {"show", "display", "get", "diagnose"}
  /\ line[2] \notin Avoided
  /\ \A i \in 2..Len(line) : Silent(line[i])

SimpleTmsh(line) ==
  /\ Len(line) = 3 /\ DOMAIN line = 1..3
  /\ line[1] = "tmsh" /\ line[2] = "show" /\ Silent(line[3])

LEMMA HeadsMean ==
  /\ \A p \in CommandStarts : Len(p) \in {1, 2} /\ p[1] \in Meaningful
  /\ \A h \in {"show", "display", "get", "diagnose"} : <<h>> \in CommandStarts
  /\ <<"tmsh", "show">> \in CommandStarts
<1>1. \A p \in CommandStarts : Len(p) \in {1, 2} /\ Head(p) = p[1]
  BY DEF CommandStarts
<1>2. \A p \in CommandStarts : Head(p) \in Meaningful
  BY DEF Meaningful
<1>3. /\ \A h \in {"show", "display", "get", "diagnose"} : <<h>> \in CommandStarts
      /\ <<"tmsh", "show">> \in CommandStarts
  BY DEF CommandStarts
<1> QED BY <1>1, <1>2, <1>3

\* The suffix of a line from a position starts with the word there.
LEMMA FromIs ==
  ASSUME NEW line, Len(line) \in Nat, NEW i \in 1..Len(line)
  PROVE  /\ Len(From(line, i)) = Len(line) - i + 1
         /\ \A k \in 1..(Len(line) - i + 1) : From(line, i)[k] = line[i + k - 1]
<1>1. From(line, i) = [k \in 1..(Len(line) - i + 1) |-> line[i + k - 1]]
  BY DEF From
<1>2. Len(line) - i + 1 \in Nat
  OBVIOUS
<1> QED BY <1>1, <1>2

\* Where a command begins stands a word with meaning.
LEMMA StartsMean ==
  ASSUME NEW line, Len(line) \in Nat, DOMAIN line = 1..Len(line), NEW i \in Starts(line)
  PROVE  i \in 1..Len(line) /\ line[i] \in Meaningful
<1>1. i \in 1..Len(line)
  BY DEF Starts
<1>2. PICK p \in CommandStarts : IsPrefix(p, From(line, i))
  BY DEF Starts, Begins
<1>3. Len(From(line, i)) = Len(line) - i + 1 /\ From(line, i)[1] = line[i]
  <2>1. 1 \in 1..(Len(line) - i + 1) /\ i + 1 - 1 = i
    BY <1>1
  <2>2. /\ Len(From(line, i)) = Len(line) - i + 1
        /\ \A k \in 1..(Len(line) - i + 1) : From(line, i)[k] = line[i + k - 1]
    BY <1>1, FromIs
  <2> QED BY <2>1, <2>2
<1>4. Len(p) \in {1, 2} /\ p[1] \in Meaningful
  BY HeadsMean
<1>5. From(line, i)[1] = p[1]
  <2>1. Len(p) \in Nat /\ Len(From(line, i)) \in Nat /\ 1 \in 1..Len(p)
    BY <1>1, <1>3, <1>4
  <2> QED BY <1>2, <2>1, PrefixIs
<1> QED BY <1>1, <1>3, <1>4, <1>5

LEMMA OneStart ==
  ASSUME NEW line, Simple(line) \/ SimpleTmsh(line)
  PROVE  Starts(line) = {1}
<1>1. Len(line) \in Nat /\ Len(line) >= 2 /\ DOMAIN line = 1..Len(line)
  BY DEF Simple, SimpleTmsh
<1>2. Len(From(line, 1)) = Len(line) /\ \A k \in 1..Len(line) : From(line, 1)[k] = line[k]
  <2>1. 1 \in 1..Len(line) /\ Len(line) - 1 + 1 = Len(line)
        /\ \A k \in 1..Len(line) : 1 + k - 1 = k
    BY <1>1
  <2> QED BY <1>1, <2>1, FromIs
<1>3. Begins(From(line, 1), CommandStarts)
  <2>1. CASE Simple(line)
    <3> DEFINE p == <<line[1]>>
    <3>1. p \in CommandStarts
      BY <2>1, HeadsMean DEF Simple
    <3>2. Len(p) = 1 /\ p[1] = line[1]
      OBVIOUS
    <3> HIDE DEF p
    <3>3. Len(p) \in Nat /\ Len(p) <= Len(From(line, 1))
          /\ \A i \in 1..Len(p) : From(line, 1)[i] = p[i]
      BY <1>1, <1>2, <3>2
    <3> QED BY <1>1, <1>2, <3>1, <3>3, Begun
  <2>2. CASE SimpleTmsh(line)
    <3> DEFINE p == <<"tmsh", "show">>
    <3>1. p \in CommandStarts
      BY HeadsMean
    <3>2. Len(p) = 2 /\ p[1] = line[1] /\ p[2] = line[2]
      BY <2>2 DEF SimpleTmsh
    <3> HIDE DEF p
    <3>3. Len(p) \in Nat /\ Len(p) <= Len(From(line, 1))
          /\ \A i \in 1..Len(p) : From(line, 1)[i] = p[i]
      BY <1>1, <1>2, <3>2
    <3> QED BY <1>1, <1>2, <3>1, <3>3, Begun
  <2> QED BY <2>1, <2>2
<1>4. 1 \in Starts(line)
  BY <1>1, <1>3 DEF Starts
<1>5. \A i \in Starts(line) : i = 1
  <2> SUFFICES ASSUME NEW i \in Starts(line), i # 1 PROVE FALSE
    OBVIOUS
  <2>1. i \in 2..Len(line) /\ line[i] \in Meaningful
    BY <1>1, StartsMean
  <2>2. SimpleTmsh(line) /\ i = 2
    BY <1>1, <2>1 DEF Simple, SimpleTmsh, Silent
  <2> DEFINE p == <<"tmsh", "show">>
  <2>3. p \in CommandStarts
    BY HeadsMean
  <2>4. Len(p) = 2 /\ p[1] = line[1] /\ p[2] = line[2]
    BY <2>2 DEF SimpleTmsh
  <2> HIDE DEF p
  <2>5. IsPrefix(p, From(line, 1))
    BY <1>1, <1>2, <2>4, PrefixIs
  <2>6. i - 1 = 1
    BY <2>2
  <2> QED BY <2>2, <2>3, <2>4, <2>5, <2>6 DEF Starts
<1> QED BY <1>4, <1>5

\* A line with one start is left whole by the splitter.
LEMMA SplitWhole ==
  ASSUME NEW line, Simple(line) \/ SimpleTmsh(line), line = SubSeq(line, 1, Len(line))
  PROVE  SplitLine(line) = <<line>>
<1>1. Starts(line) = {1}
  BY OneStart
<1>2. Cardinality({1}) = 1 /\ Cardinality({j \in {1} : j <= 1}) = 1
  <2>1. {j \in {1} : j <= 1} = {1}
    OBVIOUS
  <2> QED BY <2>1, FS_Singleton
<1>3. Ascending({1}) = <<1>>
  <2>1. (CHOOSE i \in {1} : Cardinality({j \in {1} : j <= i}) = 1) = 1
    BY <1>2
  <2>2. Ascending({1}) = [k \in 1..1 |-> CHOOSE i \in {1} : Cardinality({j \in {1} : j <= i}) = k]
    BY <1>2 DEF Ascending
  <2> DEFINE first(k) == CHOOSE i \in {1} : Cardinality({j \in {1} : j <= i}) = k
  <2>3. first(1) = 1
    BY <2>1
  <2>4. Ascending({1}) = [k \in 1..1 |-> first(k)]
    BY <2>2
  <2> HIDE DEF first
  <2> QED BY <2>3, <2>4
<1>4. SplitLine(line) = [k \in 1..1 |-> SubSeq(line, 1, Len(line))]
  <2> DEFINE at == Ascending(Starts(line))
  <2>1. DOMAIN at = 1..1 /\ Len(at) = 1 /\ at # <<>> /\ at[1] = 1
    BY <1>1, <1>3
  <2> HIDE DEF at
  <2>2. SplitLine(line) =
          IF at = <<>> THEN <<line>>
          ELSE [k \in DOMAIN at |->
                  SubSeq(line, at[k], IF k = Len(at) THEN Len(line) ELSE at[k + 1] - 1)]
    BY DEF SplitLine, at
  <2> QED BY <2>1, <2>2
<1>5. SplitLine(line) = [k \in 1..1 |-> line]
  BY <1>4
<1> QED BY <1>5

\* The guard and the check of V3 pass it where the platform allows its head.
LEMMA SimpleChecked ==
  ASSUME NEW line, Simple(line) \/ SimpleTmsh(line)
  PROVE  CheckSingleCommand(line) /\ ~Malformed(line) /\ ~Special(line) /\ ~Changes(line)
<1>1. Len(line) \in Nat /\ Len(line) >= 2 /\ DOMAIN line = 1..Len(line)
  BY DEF Simple, SimpleTmsh
<1>2. line # <<>>
  BY <1>1
<1>3. \A i \in DOMAIN line :
        line[i] \notin {"newline", "too long", "|"} \cup Redirects \cup Programs \cup ChangeWords
  <2>1. \A i \in 2..Len(line) : line[i] \in {"show"} \/ line[i] \notin Meaningful
    BY DEF Simple, SimpleTmsh, Silent
  <2>2. {"newline", "too long", "|"} \cup Redirects \cup Programs \cup ChangeWords
          \subseteq Meaningful
    BY DEF Meaningful
  <2>3. {"show", "display", "get", "diagnose", "tmsh"}
          \cap ({"newline", "too long", "|"} \cup Redirects \cup Programs \cup ChangeWords) = {}
    BY DEF Redirects, Programs, ChangeWords
  <2>4. line[1] \in {"show", "display", "get", "diagnose", "tmsh"}
    BY DEF Simple, SimpleTmsh
  <2>5. \A i \in DOMAIN line : i = 1 \/ i \in 2..Len(line)
    BY <1>1
  <2> QED BY <2>1, <2>2, <2>3, <2>4, <2>5
<1>4. \/ line[1] \in {"show", "display", "get", "diagnose"} /\ line[2] \notin Avoided
      \/ line[1] = "tmsh" /\ line[2] = "show"
  BY DEF Simple, SimpleTmsh
<1>5. ~Malformed(line)
  BY <1>2, <1>3 DEF Malformed, HasWord
<1>6. ~Special(line)
  <2>1. \A p \in ReviewPrefixes : Clashes(p, line)
    <3>1. \A p \in ReviewPrefixes :
            /\ Len(p) \in Nat /\ Len(p) >= 1
            /\ \/ p[1] \notin {"show", "display", "get", "diagnose", "tmsh"}
               \/ Len(p) >= 2 /\ p[1] = "tmsh" /\ p[2] # "show"
               \/ Len(p) >= 2 /\ p[1] # "tmsh" /\ p[2] \in Avoided
      BY DEF ReviewPrefixes, Avoided
    <3> QED BY <1>4, <3>1 DEF Clashes
  <2> QED BY <1>1, <2>1, NotBegun DEF Special
<1>7. ~Changes(line)
  <2>1. \A p \in GenericDangerousPrefixes : Clashes(p, line)
    <3>1. \A p \in GenericDangerousPrefixes :
            /\ Len(p) \in Nat /\ Len(p) >= 1
            /\ \/ p[1] \notin {"show", "display", "get", "diagnose", "tmsh"}
               \/ Len(p) >= 2 /\ p[1] = "tmsh" /\ p[2] # "show"
      BY DEF GenericDangerousPrefixes
    <3> QED BY <1>4, <3>1 DEF Clashes
  <2> QED BY <1>1, <1>3, <2>1, NotBegun DEF Changes, HasWord
<1>8. ~Dangerous(line)
  <2>1. \A p \in DangerousPatterns : Clashes(p, line)
    <3>1. \A p \in DangerousPatterns :
            /\ Len(p) \in Nat /\ Len(p) >= 1
            /\ \/ p[1] \notin {"show", "display", "get", "diagnose", "tmsh"}
               \/ Len(p) >= 2 /\ p[1] = "diagnose" /\ p[2] \in Avoided
      BY DEF DangerousPatterns, Avoided
    <3> QED BY <1>4, <3>1 DEF Clashes
  <2> QED BY <1>1, <2>1, NotBegun DEF Dangerous
<1>9. ReadOnly(line)
  <2>1. CASE line[1] \in {"show", "display", "get"}
    <3>1. <<line[1]>> \in ReadOnlyPatterns
      BY <2>1 DEF ReadOnlyPatterns
    <3> DEFINE p == <<line[1]>>
    <3>2. Len(p) = 1 /\ p[1] = line[1] /\ Len(p) \in Nat
      OBVIOUS
    <3>3. p \in ReadOnlyPatterns
      BY <3>1
    <3> HIDE DEF p
    <3>4. Len(p) <= Len(line) /\ \A i \in 1..Len(p) : line[i] = p[i]
      BY <1>1, <3>2
    <3>5. Begins(line, ReadOnlyPatterns)
      BY <1>1, <3>2, <3>3, <3>4, Begun
    <3> QED BY <3>5 DEF ReadOnly
  <2>2. CASE line[1] = "diagnose"
    <3> DEFINE p == <<"diagnose">>
    <3>1. Len(p) = 1 /\ p[1] = line[1] /\ Len(p) \in Nat /\ p \in {p}
      BY <2>2
    <3> HIDE DEF p
    <3>2. Len(p) <= Len(line) /\ \A i \in 1..Len(p) : line[i] = p[i]
      BY <1>1, <3>1
    <3>3. Begins(line, {p})
      BY <1>1, <3>1, <3>2, Begun
    <3> QED BY <1>1, <3>3 DEF ReadOnly, p
  <2>3. CASE line[1] = "tmsh" /\ line[2] = "show"
    <3> DEFINE p == <<"tmsh", "show">>
    <3>1. p \in ReadOnlyPatterns
      BY DEF ReadOnlyPatterns
    <3>2. Len(p) = 2 /\ p[1] = line[1] /\ p[2] = line[2] /\ Len(p) \in Nat
      BY <2>3
    <3> HIDE DEF p
    <3>3. Len(p) <= Len(line) /\ \A i \in 1..Len(p) : line[i] = p[i]
      BY <1>1, <3>2
    <3>4. Begins(line, ReadOnlyPatterns)
      BY <1>1, <3>1, <3>2, <3>3, Begun
    <3> QED BY <3>4 DEF ReadOnly
  <2> QED BY <1>4, <2>1, <2>2, <2>3
<1>10. ~HasWord(line, {"newline", "too long"} \cup Programs)
       /\ ~HasWord(line, {"|"} \cup Redirects)
  BY <1>3 DEF HasWord
<1> QED BY <1>2, <1>5, <1>6, <1>7, <1>8, <1>9, <1>10 DEF CheckSingleCommand

\* What a list of commands promises whose lines are all such commands.
Lines(lines) ==
  /\ Len(lines) \in Nat /\ Len(lines) >= 1 /\ DOMAIN lines = 1..Len(lines)
  /\ lines = [i \in 1..Len(lines) |-> lines[i]]
  /\ \A i \in 1..Len(lines) :
       /\ Simple(lines[i]) \/ SimpleTmsh(lines[i])
       /\ lines[i] = SubSeq(lines[i], 1, Len(lines[i]))

\* The lines of such a list, joined, are the list.
LEMMA JoinedLines ==
  ASSUME NEW lines, Lines(lines)
  PROVE  FlattenSeq([i \in DOMAIN lines |-> SplitLine(lines[i])]) = lines
<1> DEFINE N == Len(lines)
           seqs == [i \in DOMAIN lines |-> SplitLine(lines[i])]
           Fits(f) == f = [i \in 1..N |-> IF i = 1 THEN seqs[i] ELSE f[i - 1] \o seqs[i]]
           flat == CHOOSE f : Fits(f)
           first == [i \in 1..N |-> [k \in 1..i |-> lines[k]]]
<1>1. N \in Nat /\ N >= 1 /\ DOMAIN lines = 1..N
  BY DEF Lines
<1>2. \A i \in 1..N : seqs[i] = <<lines[i]>>
  BY <1>1, SplitWhole DEF Lines
<1>3. Len(seqs) = N
  BY <1>1
<1>4. FlattenSeq(seqs) = flat[N]
  <2>1. \A f : Fits(f) <=>
          f = [i \in 1..Len(seqs) |-> IF i = 1 THEN seqs[i] ELSE f[i - 1] \o seqs[i]]
    BY <1>3
  <2> HIDE DEF Fits, seqs, N
  <2>2. Len(seqs) # 0
    BY <1>1, <1>3
  <2>3. FlattenSeq(seqs) = (CHOOSE f : Fits(f))[Len(seqs)]
    BY <2>1, <2>2 DEF FlattenSeq
  <2> QED BY <1>3, <2>3
<1> HIDE DEF seqs, N
<1>5. Fits(first)
  <2>1. \A i \in 1..N : i # 1 => first[i - 1] \o <<lines[i]>> = first[i]
    <3> SUFFICES ASSUME NEW i \in 1..N, i # 1 PROVE first[i - 1] \o <<lines[i]>> = first[i]
      OBVIOUS
    <3>1. i - 1 \in 1..N /\ first[i - 1] = [k \in 1..(i - 1) |-> lines[k]]
      BY <1>1
    <3> DEFINE s == [k \in 1..(i - 1) |-> lines[k]]
    <3>2. Len(s) = i - 1 /\ \A k \in 1..(i - 1) : s[k] = lines[k]
      BY <1>1
    <3> HIDE DEF s
    <3>3. s \in Seq({lines[k] : k \in 1..N}) /\ <<lines[i]>> \in Seq({lines[k] : k \in 1..N})
      BY <1>1 DEF s
    <3>4. /\ s \o <<lines[i]>> \in Seq({lines[k] : k \in 1..N})
          /\ Len(s \o <<lines[i]>>) = i
          /\ \A k \in 1..i : (s \o <<lines[i]>>)[k] = lines[k]
      BY <1>1, <3>2, <3>3, ConcatProperties
    <3>5. s \o <<lines[i]>> = [k \in 1..i |-> lines[k]]
      BY <3>4
    <3> QED BY <3>1, <3>5 DEF s
  <2>2. first[1] = <<lines[1]>>
    BY <1>1
  <2>3. \A i \in 1..N : first[i] = IF i = 1 THEN seqs[i] ELSE first[i - 1] \o seqs[i]
    BY <1>2, <2>1, <2>2
  <2>4. DOMAIN first = 1..N /\ first = [i \in 1..N |-> first[i]]
    OBVIOUS
  <2> HIDE DEF first
  <2> QED BY <2>3, <2>4
<1>6. Fits(flat)
  BY <1>5
<1>7. \A i \in 1..N : flat[i] = IF i = 1 THEN seqs[i] ELSE flat[i - 1] \o seqs[i]
  BY <1>6
<1>8. \A i \in 1..N : first[i] = IF i = 1 THEN seqs[i] ELSE first[i - 1] \o seqs[i]
  BY <1>5
<1> HIDE DEF flat, first
<1>9. \A i \in 1..N : flat[i] = first[i]
  <2> DEFINE S == {m \in 0..N : m # 0 => flat[m] = first[m]}
  <2>1. 0 \in S
    BY <1>1
  <2>2. \A n \in 1..N : n - 1 \in S => n \in S
    <3> SUFFICES ASSUME NEW n \in 1..N, n - 1 \in S PROVE flat[n] = first[n]
      BY <1>1
    <3>1. CASE n = 1
      BY <1>7, <1>8, <3>1
    <3>2. CASE n # 1
      <4>1. flat[n - 1] = first[n - 1]
        BY <3>2
      <4> QED BY <1>7, <1>8, <3>2, <4>1
    <3> QED BY <3>1, <3>2
  <2> HIDE DEF S
  <2>3. 0..N \subseteq S
    BY <1>1, <2>1, <2>2, UpTo
  <2> QED BY <1>1, <2>3 DEF S
<1>10. first[N] = lines
  <2>1. first[N] = [k \in 1..N |-> lines[k]]
    BY <1>1 DEF first
  <2> QED BY <2>1 DEF Lines, N
<1> QED BY <1>1, <1>4, <1>9, <1>10 DEF seqs

\* What is kept of a list are commands of it, and at least one.
LEMMA DistinctKeeps ==
  ASSUME NEW commands, Len(commands) \in Nat, Len(commands) >= 1
  PROVE  LET C == {commands[i] : i \in 1..Len(commands)}
         IN Distinct(commands) \in Seq(C) /\ Len(Distinct(commands)) >= 1
<1> DEFINE N == Len(commands)
           C == {commands[i] : i \in 1..N}
           Fits(kept) == kept = [n \in 0..N |->
                                   IF n = 0 THEN <<>>
                                   ELSE IF Contains(kept[n - 1], commands[n]) THEN kept[n - 1]
                                   ELSE Append(kept[n - 1], commands[n])]
           all == CHOOSE kept : Fits(kept)
           g == [p \in (1..N) \X Seq(C) |->
                   IF Contains(p[2], commands[p[1]]) THEN p[2]
                   ELSE Append(p[2], commands[p[1]])]
<1>1. Distinct(commands) = all[N]
  BY DEF Distinct
<1>2. \A n \in 1..N : commands[n] \in C
  OBVIOUS
<1>n. N \in Nat /\ N >= 1
  OBVIOUS
<1> HIDE DEF N, C
<1>3. g \in [(1..N) \X Seq(C) -> Seq(C)]
  BY <1>2, AppendProperties
<1>4. \A n \in 1..N, v \in Seq(C) :
        g[<<n, v>>] = IF Contains(v, commands[n]) THEN v ELSE Append(v, commands[n])
  OBVIOUS
<1>5. <<>> \in Seq(C) /\ g \in Steps(N, Seq(C))
  BY <1>3 DEF Steps
<1> HIDE DEF g
<1>6. PICK f \in [0..N -> Seq(C)] : Runs(f, N, <<>>, g)
  BY <1>n, <1>5, Recursion, Zenon
<1>7. Fits(f)
  <2>1. \A n \in 0..N : f[n] = IF n = 0 THEN <<>>
                               ELSE IF Contains(f[n - 1], commands[n]) THEN f[n - 1]
                               ELSE Append(f[n - 1], commands[n])
    <3> TAKE n \in 0..N
    <3>1. n # 0 => n \in 1..N /\ n - 1 \in 0..N
      BY <1>n
    <3> QED BY <1>4, <1>6, <3>1 DEF Runs
  <2> QED BY <1>6, <2>1, Zenon
<1>8. Fits(all)
  BY <1>7
<1>9. \A n \in 0..N : all[n] = IF n = 0 THEN <<>>
                               ELSE IF Contains(all[n - 1], commands[n]) THEN all[n - 1]
                               ELSE Append(all[n - 1], commands[n])
  BY <1>8
<1> HIDE DEF all
<1>a. all[0] = <<>>
  <2>1. 0 \in 0..N
    BY <1>n
  <2>2. all[0] = IF 0 = 0 THEN <<>>
                 ELSE IF Contains(all[0 - 1], commands[0]) THEN all[0 - 1]
                 ELSE Append(all[0 - 1], commands[0])
    BY <1>9, <2>1, Zenon
  <2> QED BY <2>2, Zenon
<1>b. \A n \in 1..N : all[n] = IF Contains(all[n - 1], commands[n]) THEN all[n - 1]
                               ELSE Append(all[n - 1], commands[n])
  <2> TAKE n \in 1..N
  <2>1. n \in 0..N /\ n # 0
    BY <1>n
  <2> QED BY <1>9, <2>1
<1>10. \A n \in 0..N : all[n] \in Seq(C)
  <2> DEFINE S == {n \in 0..N : all[n] \in Seq(C)}
  <2>1. 0 \in S
    <3>1. 0 \in 0..N
      BY <1>n
    <3>2. all[0] \in Seq(C)
      BY <1>5, <1>a, Zenon
    <3> QED BY <3>1, <3>2
  <2>2. ASSUME NEW n \in 1..N, n - 1 \in S PROVE n \in S
    <3>1. all[n - 1] \in Seq(C) /\ commands[n] \in C /\ n \in 0..N
      BY <1>n, <1>2, <2>2
    <3>2. Append(all[n - 1], commands[n]) \in Seq(C)
      BY <3>1, AppendProperties
    <3>3. all[n] \in Seq(C)
      BY <1>b, <3>1, <3>2, Zenon
    <3> QED BY <3>1, <3>3
  <2> HIDE DEF S
  <2>3. 0..N \subseteq S
    BY <1>n, <2>1, <2>2, UpTo
  <2> QED BY <2>3 DEF S
<1>11. all[N] \in Seq(C) /\ all[N - 1] \in Seq(C)
  BY <1>n, <1>10
<1>12. Len(all[N]) >= 1
  <2>1. CASE Contains(all[N - 1], commands[N])
    <3>1. Len(all[N - 1]) >= 1 /\ all[N] = all[N - 1]
      BY <1>n, <1>b, <1>11, <2>1, LenProperties DEF Contains
    <3> QED BY <3>1
  <2>2. CASE ~Contains(all[N - 1], commands[N])
    <3>1. N \in 1..N
      BY <1>n
    <3>2. all[N] = Append(all[N - 1], commands[N])
      BY <1>b, <2>2, <3>1, Zenon
    <3>3. Len(all[N]) = Len(all[N - 1]) + 1 /\ Len(all[N - 1]) \in Nat
      BY <1>2, <1>11, <3>1, <3>2, AppendProperties, LenProperties
    <3> QED BY <3>3
  <2> QED BY <2>1, <2>2
<1> QED BY <1>1, <1>11, <1>12 DEF C, N

\* The list that is shown has commands of the catalogue only, at least one and
\* no more than asked for.
LEMMA SplitListKeeps ==
  ASSUME NEW lines, Lines(lines), NEW max \in Nat \ {0}
  PROVE  LET shown == SplitCommandList(lines, max)
         IN /\ Len(shown) \in 1..max /\ DOMAIN shown = 1..Len(shown)
            /\ \A i \in DOMAIN shown : \E j \in 1..Len(lines) : shown[i] = lines[j]
<1> DEFINE C == {lines[i] : i \in 1..Len(lines)}
           all == Distinct(lines)
           n == IF Len(all) < max THEN Len(all) ELSE max
<1>1. SplitCommandList(lines, max) = SubSeq(all, 1, n)
  BY JoinedLines DEF SplitCommandList
<1>2. all \in Seq(C) /\ Len(all) >= 1
  BY DistinctKeeps DEF Lines
<1>3. Len(all) \in Nat /\ \A i \in 1..Len(all) : all[i] \in C
  BY <1>2, LenProperties, ElementOfSeq
<1>4. n \in 1..max /\ n <= Len(all)
  BY <1>2, <1>3
<1> HIDE DEF all, n
<1>5. SubSeq(all, 1, n) = [i \in 1..n |-> all[i]]
  BY <1>2, <1>3, <1>4
<1>6. \A i \in 1..n : all[i] \in C
  BY <1>3, <1>4
<1> DEFINE shown == SplitCommandList(lines, max)
<1>7. shown = [i \in 1..n |-> all[i]]
  BY <1>1, <1>5
<1> HIDE DEF shown
<1>8. Len(shown) = n /\ DOMAIN shown = 1..n /\ \A i \in 1..n : shown[i] = all[i]
  BY <1>4, <1>7
<1>9. \A i \in 1..n : \E j \in 1..Len(lines) : shown[i] = lines[j]
  BY <1>6, <1>8
<1>10. Len(shown) \in 1..max /\ DOMAIN shown = 1..Len(shown)
       /\ \A i \in DOMAIN shown : \E j \in 1..Len(lines) : shown[i] = lines[j]
  BY <1>4, <1>8, <1>9
<1> QED BY <1>10 DEF shown

\* The families of the types in the table: each has the platform the guard knows.
LEMMA KnownFamilies ==
  /\ DOMAIN KnownNames =
       {"cisco_xe", "cisco_ios", "cisco_nxos", "cisco_asa", "cisco", "nxos", "ios", "iosxe",
        "huawei", "huawei_vrp", "hp_comware", "h3c", "fortinet", "fortigate", "fortios",
        "f5", "f5_tmsh", "hillstone", "generic"}
  /\ \A t \in {"cisco_xe", "cisco_ios", "cisco_nxos", "cisco_asa", "cisco", "nxos", "ios",
               "iosxe"} : PlatformFamily(t) = "cisco"
  /\ \A t \in {"huawei", "huawei_vrp"} : PlatformFamily(t) = "huawei"
  /\ \A t \in {"hp_comware", "h3c"} : PlatformFamily(t) = "h3c"
  /\ \A t \in {"fortinet", "fortigate"} : PlatformFamily(t) = "fortigate"
  /\ \A t \in {"f5", "f5_tmsh"} : PlatformFamily(t) = "f5"
  /\ PlatformFamily("hillstone") = "hillstone"
  /\ PlatformFamily("generic") = "generic"
<1>1. DOMAIN KnownNames =
        {"cisco_xe", "cisco_ios", "cisco_nxos", "cisco_asa", "cisco", "nxos", "ios", "iosxe",
         "huawei", "huawei_vrp", "hp_comware", "h3c", "fortinet", "fortigate", "fortios",
         "f5", "f5_tmsh", "hillstone", "generic"}
  BY DEF KnownNames
<1>2. /\ NamesIn("cisco_xe") = {"cisco"} /\ NamesIn("cisco_ios") = {"cisco", "ios"}
      /\ NamesIn("cisco_nxos") = {"cisco", "nxos"} /\ NamesIn("cisco_asa") = {"cisco", "asa"}
      /\ NamesIn("cisco") = {"cisco"} /\ NamesIn("nxos") = {"nxos"}
      /\ NamesIn("ios") = {"ios"} /\ NamesIn("iosxe") = {"ios"}
  BY DEF NamesIn, KnownNames
<1>3. /\ NamesIn("huawei") = {"huawei"} /\ NamesIn("huawei_vrp") = {"huawei", "vrp"}
      /\ NamesIn("hp_comware") = {"comware"} /\ NamesIn("h3c") = {"h3c"}
      /\ NamesIn("fortinet") = {"forti"} /\ NamesIn("fortigate") = {"forti"}
      /\ NamesIn("f5") = {"f5"} /\ NamesIn("f5_tmsh") = {"f5", "tmsh"}
      /\ NamesIn("hillstone") = {"hillstone"} /\ NamesIn("generic") = {}
  BY DEF NamesIn, KnownNames
<1>4. \A t \in {"cisco_xe", "cisco_ios", "cisco_nxos", "cisco_asa", "cisco", "nxos", "ios",
               "iosxe"} : PlatformFamily(t) = "cisco"
  BY <1>2 DEF PlatformFamily
<1>5. /\ \A t \in {"huawei", "huawei_vrp"} : PlatformFamily(t) = "huawei"
      /\ \A t \in {"hp_comware", "h3c"} : PlatformFamily(t) = "h3c"
      /\ \A t \in {"fortinet", "fortigate"} : PlatformFamily(t) = "fortigate"
      /\ \A t \in {"f5", "f5_tmsh"} : PlatformFamily(t) = "f5"
      /\ PlatformFamily("hillstone") = "hillstone"
      /\ PlatformFamily("generic") = "generic"
  BY <1>3 DEF PlatformFamily
<1> QED BY <1>1, <1>4, <1>5

\* The families there are.
LEMMA Families ==
  ASSUME NEW type
  PROVE  PlatformFamily(type) \in
           {"cisco", "huawei", "h3c", "fortigate", "f5", "hillstone", "generic"}
BY DEF PlatformFamily

\* The heads each platform allows, and those the catalogue uses for it.
LEMMA HeadsAllowed ==
  ASSUME NEW type, type # "fortios"
  PROVE  LET allowed == Allowed(Platform(type))
             family == PlatformFamily(type)
         IN /\ family \in {"huawei", "h3c"} => <<"display">> \in allowed
            /\ family = "fortigate" => <<"get">> \in allowed /\ <<"diagnose">> \in allowed
            /\ family = "f5" => <<"tmsh", "show">> \in allowed
            /\ family \notin {"huawei", "h3c", "fortigate", "f5"} =>
                 <<"show">> \in allowed /\ Platform(type) # "fortigate"
<1>1. DOMAIN PlatformAliases =
        {"cisco_xe", "cisco_ios", "cisco_nxos", "cisco_asa", "nxos", "ios", "iosxe",
         "huawei", "huawei_vrp", "hp_comware", "h3c", "fortinet", "fortigate", "fortios",
         "f5", "f5_tmsh", "hillstone"}
  BY DEF PlatformAliases
<1>2. /\ \A t \in {"cisco_xe", "cisco_ios", "cisco_nxos", "cisco_asa", "nxos", "ios", "iosxe"} :
           PlatformAliases[t] = "cisco"
      /\ \A t \in {"huawei", "huawei_vrp"} : PlatformAliases[t] = "huawei"
      /\ \A t \in {"hp_comware", "h3c"} : PlatformAliases[t] = "h3c"
      /\ \A t \in {"fortinet", "fortigate", "fortios"} : PlatformAliases[t] = "fortigate"
      /\ \A t \in {"f5", "f5_tmsh"} : PlatformAliases[t] = "f5"
      /\ PlatformAliases["hillstone"] = "hillstone"
  BY DEF PlatformAliases
<1>3. DOMAIN AllowedPrefixes =
        {"generic", "cisco", "huawei", "h3c", "fortigate", "f5", "hillstone"}
  BY DEF AllowedPrefixes
<1>4. /\ \A p \in {"generic", "cisco", "hillstone"} : <<"show">> \in AllowedPrefixes[p]
      /\ \A p \in {"generic", "huawei", "h3c"} : <<"display">> \in AllowedPrefixes[p]
      /\ \A p \in {"generic", "f5"} : <<"tmsh", "show">> \in AllowedPrefixes[p]
      /\ \A p \in {"generic", "fortigate"} :
           <<"get">> \in AllowedPrefixes[p] /\ <<"diagnose">> \in AllowedPrefixes[p]
  BY DEF AllowedPrefixes
<1>5. \A p : Allowed(p) = IF p \in DOMAIN AllowedPrefixes THEN AllowedPrefixes[p]
                         ELSE AllowedPrefixes["generic"]
  BY DEF Allowed
<1>6. CASE type \in DOMAIN KnownNames
  <2>1. /\ PlatformFamily(type) = "cisco" => Platform(type) = "cisco"
        /\ PlatformFamily(type) = "huawei" => Platform(type) = "huawei"
        /\ PlatformFamily(type) = "h3c" => Platform(type) = "h3c"
        /\ PlatformFamily(type) = "fortigate" => Platform(type) = "fortigate"
        /\ PlatformFamily(type) = "f5" => Platform(type) = "f5"
        /\ PlatformFamily(type) = "hillstone" => Platform(type) = "hillstone"
        /\ PlatformFamily(type) = "generic" => Platform(type) = "generic"
    <3>1. \/ type \in {"cisco_xe", "cisco_ios", "cisco_nxos", "cisco_asa", "cisco", "nxos",
                      "ios", "iosxe"}
          \/ type \in {"huawei", "huawei_vrp"} \/ type \in {"hp_comware", "h3c"}
          \/ type \in {"fortinet", "fortigate"} \/ type \in {"f5", "f5_tmsh"}
          \/ type = "hillstone" \/ type = "generic"
      BY <1>6, KnownFamilies
    <3>2. \A t : Platform(t) = IF t = "" THEN "generic"
                ELSE IF t \in DOMAIN PlatformAliases THEN PlatformAliases[t] ELSE t
      BY DEF Platform
    <3>3. CASE type \in {"cisco_xe", "cisco_ios", "cisco_nxos", "cisco_asa", "cisco", "nxos",
                        "ios", "iosxe"}
      <4>1. Platform(type) = "cisco"
        BY <1>1, <1>2, <3>2, <3>3
      <4> QED BY <3>3, <4>1, KnownFamilies
    <3>4. CASE type \in {"huawei", "huawei_vrp"}
      BY <1>1, <1>2, <3>2, <3>4, KnownFamilies
    <3>5. CASE type \in {"hp_comware", "h3c"}
      BY <1>1, <1>2, <3>2, <3>5, KnownFamilies
    <3>6. CASE type \in {"fortinet", "fortigate"}
      BY <1>1, <1>2, <3>2, <3>6, KnownFamilies
    <3>7. CASE type \in {"f5", "f5_tmsh"}
      BY <1>1, <1>2, <3>2, <3>7, KnownFamilies
    <3>8. CASE type = "hillstone" \/ type = "generic"
      BY <1>1, <1>2, <3>2, <3>8, KnownFamilies
    <3> QED BY <3>1, <3>3, <3>4, <3>5, <3>6, <3>7, <3>8
  <2> QED BY <1>3, <1>4, <1>5, <2>1, Families
<1>7. CASE type \notin DOMAIN KnownNames
  <2>1. Platform(type) = "generic" \/ Platform(type) \notin DOMAIN AllowedPrefixes
    BY <1>1, <1>3, <1>7, KnownFamilies DEF Platform
  <2>2. Allowed(Platform(type)) = AllowedPrefixes["generic"] /\ Platform(type) # "fortigate"
    BY <1>3, <1>5, <2>1
  <2> QED BY <1>4, <2>2
<1> QED BY <1>6, <1>7

\* A command of the catalogue that begins with one of these heads.
Good(line, heads) ==
  /\ Simple(line) \/ SimpleTmsh(line)
  /\ line = SubSeq(line, 1, Len(line))
  /\ line[1] \in heads

GoodList(lines, heads) ==
  /\ Len(lines) \in Nat /\ Len(lines) >= 1 /\ DOMAIN lines = 1..Len(lines)
  /\ lines = [i \in 1..Len(lines) |-> lines[i]]
  /\ \A i \in 1..Len(lines) : Good(lines[i], heads)

\* The words the catalogue is made of.
CatalogueWords ==
  {"interface", "transceiver", "verbose", "logging last 100", "all", "counters errors",
   "transceiver details", "logbuffer", "cpu-usage", "process cpu", "memory-usage",
   "process memory", "ip routing-table", "ipv6 routing-table", "bgp peer",
   "bgp routing-table", "bfd session all", "clock", "version", "interface brief",
   "system performance status", "system interface physical", "system status",
   "sys top-summary", "router info routing-table all", "router info bgp summary",
   "hardware deviceinfo nic", "net route", "net interface", "sys performance system",
   "sys log", "sys version", "ltm virtual", "system resources", "processes cpu",
   "processes memory", "ip route summary", "ipv6 route summary",
   "bgp ipv4 unicast summary", "bgp ipv6 unicast summary", "bfd neighbors",
   "bfd neighbors details", "interface status", "interface counters errors"}

LEMMA CatalogueSilent ==
  \A word \in CatalogueWords : Silent(word) /\ word \notin Avoided
<1>1. \A word \in CatalogueWords : word \notin Avoided
  BY DEF CatalogueWords, Avoided
<1>2. \A word \in CatalogueWords :
        word \notin {"|", "newline", "too long"} \cup Redirects \cup ChangeWords \cup Programs
  <2>1. \A word \in CatalogueWords : word \notin {"|", "newline", "too long"} \cup Redirects
    BY DEF CatalogueWords, Redirects
  <2>2. \A word \in CatalogueWords : word \notin ChangeWords
    BY DEF CatalogueWords, ChangeWords
  <2>3. CatalogueWords \cap Programs = {}
    BY DEF CatalogueWords, Programs
  <2> QED BY <2>1, <2>2, <2>3
<1>3. \A p \in CommandStarts :
        Head(p) \in {"show", "display", "ping", "traceroute", "tracert", "terminal",
                     "screen-length", "get", "diagnose", "execute", "tmsh", "list"}
  BY DEF CommandStarts
<1>4. \A word \in CatalogueWords :
        word \notin {"show", "display", "ping", "traceroute", "tracert", "terminal",
                     "screen-length", "get", "diagnose", "execute", "tmsh", "list"}
  <2>1. CatalogueWords \cap {"show", "display", "ping", "traceroute"} = {}
    BY DEF CatalogueWords
  <2>2. CatalogueWords \cap {"tracert", "terminal", "screen-length", "get"} = {}
    BY DEF CatalogueWords
  <2>3. CatalogueWords \cap {"diagnose", "execute", "tmsh", "list"} = {}
    BY DEF CatalogueWords
  <2> QED BY <2>1, <2>2, <2>3
<1> QED BY <1>1, <1>2, <1>3, <1>4 DEF Silent, Meaningful

\* Commands of two, three and four words.
LEMMA TwoGood ==
  ASSUME NEW head \in {"show", "display", "get", "diagnose"}, NEW first \in CatalogueWords
  PROVE  Good(<<head, first>>, {head})
<1>1. Simple(<<head, first>>)
  BY CatalogueSilent DEF Simple
<1>2. <<head, first>> = SubSeq(<<head, first>>, 1, Len(<<head, first>>))
  OBVIOUS
<1> QED BY <1>1, <1>2 DEF Good

LEMMA ThreeGood ==
  ASSUME NEW head \in {"show", "display", "get", "diagnose"}, NEW first \in CatalogueWords,
         NEW x, Silent(x)
  PROVE  Good(<<head, first, x>>, {head})
<1>1. Simple(<<head, first, x>>)
  BY CatalogueSilent DEF Simple
<1>2. <<head, first, x>> = SubSeq(<<head, first, x>>, 1, Len(<<head, first, x>>))
  OBVIOUS
<1> QED BY <1>1, <1>2 DEF Good

LEMMA FourGood ==
  ASSUME NEW head \in {"show", "display", "get", "diagnose"}, NEW first \in CatalogueWords,
         NEW x, Silent(x), NEW last \in CatalogueWords
  PROVE  Good(<<head, first, x, last>>, {head})
<1>1. Simple(<<head, first, x, last>>)
  BY CatalogueSilent DEF Simple
<1>2. <<head, first, x, last>> = SubSeq(<<head, first, x, last>>, 1, Len(<<head, first, x, last>>))
  OBVIOUS
<1> QED BY <1>1, <1>2 DEF Good

LEMMA TmshGood ==
  ASSUME NEW object \in CatalogueWords
  PROVE  Good(Tmsh(object), {"tmsh"})
<1>1. SimpleTmsh(<<"tmsh", "show", object>>)
  BY CatalogueSilent DEF SimpleTmsh
<1>2. <<"tmsh", "show", object>> =
        SubSeq(<<"tmsh", "show", object>>, 1, Len(<<"tmsh", "show", object>>))
  OBVIOUS
<1> QED BY <1>1, <1>2 DEF Good, Tmsh

LEMMA ListsGood ==
  ASSUME NEW heads, NEW a, NEW b, NEW c, NEW d, NEW e,
         Good(a, heads), Good(b, heads), Good(c, heads), Good(d, heads), Good(e, heads)
  PROVE  /\ GoodList(<<a>>, heads) /\ GoodList(<<a, b>>, heads)
         /\ GoodList(<<a, b, c>>, heads) /\ GoodList(<<a, b, c, d>>, heads)
         /\ GoodList(<<a, b, c, d, e>>, heads)
<1>1. GoodList(<<a>>, heads) /\ GoodList(<<a, b>>, heads)
  BY DEF GoodList
<1>2. GoodList(<<a, b, c>>, heads)
  BY DEF GoodList
<1>3. GoodList(<<a, b, c, d>>, heads)
  BY DEF GoodList
<1>4. GoodList(<<a, b, c, d, e>>, heads)
  BY DEF GoodList
<1> QED BY <1>1, <1>2, <1>3, <1>4

\* Lists of two and three commands, joined of lists of one.
LEMMA Joins ==
  ASSUME NEW a, NEW b, NEW c
  PROVE  /\ <<a>> \o <<>> = <<a>>
         /\ <<a>> \o <<b>> = <<a, b>>
         /\ <<a>> \o <<b>> \o <<c>> = <<a, b, c>>
<1> DEFINE S == {a, b, c}
<1>1. <<a>> \in Seq(S) /\ <<b>> \in Seq(S) /\ <<c>> \in Seq(S) /\ <<a, b>> \in Seq(S)
  OBVIOUS
<1>2. <<a>> \o <<>> = <<a>>
  BY <1>1, ConcatEmptySeq
<1>3. \A s \in Seq(S) : Len(s) = 2 => s = <<s[1], s[2]>>
  OBVIOUS
<1>4. \A s \in Seq(S) : Len(s) = 3 => s = <<s[1], s[2], s[3]>>
  OBVIOUS
<1> HIDE DEF S
<1>5. <<a>> \o <<b>> = <<a, b>>
  <2>1. /\ <<a>> \o <<b>> \in Seq(S) /\ Len(<<a>> \o <<b>>) = 2
        /\ (<<a>> \o <<b>>)[1] = a /\ (<<a>> \o <<b>>)[2] = b
    BY <1>1, ConcatProperties
  <2> QED BY <1>3, <2>1
<1>6. <<a, b>> \o <<c>> = <<a, b, c>>
  <2>1. /\ <<a, b>> \o <<c>> \in Seq(S) /\ Len(<<a, b>> \o <<c>>) = 3
        /\ (<<a, b>> \o <<c>>)[1] = a /\ (<<a, b>> \o <<c>>)[2] = b
        /\ (<<a, b>> \o <<c>>)[3] = c
    BY <1>1, ConcatProperties
  <2> QED BY <1>4, <2>1
<1> QED BY <1>2, <1>5, <1>6

\* The lists of each family, for every category and interface.
LEMMA VrpGood ==
  ASSUME NEW category, NEW interface, Silent(interface)
  PROVE  GoodList(VrpCommands(category, interface), {"display"})
<1> DEFINE H == {"display"}
           words == {"logbuffer", "cpu-usage", "process cpu", "memory-usage",
                     "process memory", "ip routing-table", "ipv6 routing-table",
                     "bgp peer", "bgp routing-table", "bfd session all", "clock",
                     "version", "interface brief"}
<1>1. \A word \in words : Good(Display(word), H)
  BY TwoGood DEF CatalogueWords, Display
<1>2. /\ Good(<<"display", "interface", interface>>, H)
      /\ Good(<<"display", "transceiver", interface, "verbose">>, H)
  <2>1. /\ "interface" \in CatalogueWords /\ "transceiver" \in CatalogueWords
        /\ "verbose" \in CatalogueWords
    BY DEF CatalogueWords
  <2>2. Good(<<"display", "interface", interface>>, H)
    BY <2>1, ThreeGood
  <2>3. Good(<<"display", "transceiver", interface, "verbose">>, H)
    BY <2>1, FourGood
  <2> QED BY <2>2, <2>3
<1> HIDE DEF H
<1> SUFFICES GoodList(VrpCommands(category, interface), H)
  BY DEF H
<1>3. /\ GoodList(<<Display("cpu-usage"), Display("process cpu"), Display("logbuffer")>>, H)
      /\ GoodList(<<Display("memory-usage"), Display("process memory"), Display("logbuffer")>>, H)
      /\ GoodList(<<Display("ip routing-table"), Display("ipv6 routing-table")>>, H)
      /\ GoodList(<<Display("bgp peer"), Display("bgp routing-table")>>, H)
      /\ GoodList(<<Display("bfd session all"), Display("logbuffer")>>, H)
      /\ GoodList(<<Display("logbuffer")>>, H)
      /\ GoodList(<<Display("clock"), Display("version"), Display("cpu-usage"),
                    Display("memory-usage"), Display("logbuffer")>>, H)
      /\ GoodList(<<Display("interface brief"), Display("logbuffer")>>, H)
  BY <1>1, ListsGood
<1>4. /\ GoodList(<<<<"display", "interface", interface>>, Display("logbuffer")>>, H)
      /\ GoodList(<<<<"display", "interface", interface>>,
                    <<"display", "transceiver", interface, "verbose">>,
                    Display("logbuffer")>>, H)
  BY <1>1, <1>2, ListsGood
<1>5. \A a, b, c : <<a>> \o <<>> \o <<c>> = <<a, c>> /\ <<a>> \o <<b>> \o <<c>> = <<a, b, c>>
  BY Joins
<1>6. CASE category \notin InterfaceCategories
  <2> DEFINE lists ==
        [cpu |-> <<Display("cpu-usage"), Display("process cpu"), Display("logbuffer")>>,
         memory |-> <<Display("memory-usage"), Display("process memory"), Display("logbuffer")>>,
         route_table |-> <<Display("ip routing-table"), Display("ipv6 routing-table")>>,
         bgp |-> <<Display("bgp peer"), Display("bgp routing-table")>>,
         bfd |-> <<Display("bfd session all"), Display("logbuffer")>>,
         log |-> <<Display("logbuffer")>>]
  <2>1. VrpCommands(category, interface) =
          Entry(lists, category, <<Display("clock"), Display("version"), Display("cpu-usage"),
                                   Display("memory-usage"), Display("logbuffer")>>)
    BY <1>6 DEF VrpCommands
  <2>2. \A c \in DOMAIN lists : GoodList(lists[c], H)
    <3>1. DOMAIN lists = {"cpu", "memory", "route_table", "bgp", "bfd", "log"}
      OBVIOUS
    <3>2. /\ GoodList(lists["cpu"], H) /\ GoodList(lists["memory"], H)
          /\ GoodList(lists["route_table"], H) /\ GoodList(lists["bgp"], H)
          /\ GoodList(lists["bfd"], H) /\ GoodList(lists["log"], H)
      BY <1>3
    <3> HIDE DEF lists
    <3> QED BY <3>1, <3>2
  <2> HIDE DEF lists
  <2> QED BY <1>3, <2>1, <2>2 DEF Entry
<1>7. CASE category \in InterfaceCategories /\ interface = ""
  <2>1. VrpCommands(category, interface) = <<Display("interface brief"), Display("logbuffer")>>
    BY <1>7 DEF VrpCommands
  <2> QED BY <1>3, <2>1
<1>8. CASE category \in InterfaceCategories /\ interface # ""
  <2> DEFINE i == <<"display", "interface", interface>>
             t == <<"display", "transceiver", interface, "verbose">>
             l == Display("logbuffer")
  <2>1. VrpCommands(category, interface) =
          <<i>> \o (IF category = "optical_power" THEN <<t>> ELSE <<>>) \o <<l>>
    BY <1>8 DEF VrpCommands
  <2>2. GoodList(<<i, l>>, H) /\ GoodList(<<i, t, l>>, H)
    BY <1>4
  <2> HIDE DEF i, t, l
  <2>3. <<i>> \o <<>> \o <<l>> = <<i, l>> /\ <<i>> \o <<t>> \o <<l>> = <<i, t, l>>
    BY <1>5
  <2>4. VrpCommands(category, interface) \in {<<i, l>>, <<i, t, l>>}
    BY <2>1, <2>3
  <2> QED BY <2>2, <2>4
<1> QED BY <1>6, <1>7, <1>8

LEMMA FortiGood ==
  ASSUME NEW category, NEW interface, Silent(interface)
  PROVE  GoodList(FortiCommands(category, interface), {"get", "diagnose"})
<1> DEFINE H == {"get", "diagnose"}
           performance == <<"get", "system performance status">>
           physical == <<"get", "system interface physical">>
           status == <<"get", "system status">>
           top == <<"diagnose", "sys top-summary">>
           route == <<"get", "router info routing-table all">>
           bgp == <<"get", "router info bgp summary">>
           nic == <<"diagnose", "hardware deviceinfo nic", interface>>
<1>1. \A line : Good(line, {"get"}) \/ Good(line, {"diagnose"}) => Good(line, H)
  BY DEF Good
<1>2. /\ Good(performance, {"get"}) /\ Good(physical, {"get"}) /\ Good(status, {"get"})
      /\ Good(top, {"diagnose"}) /\ Good(route, {"get"}) /\ Good(bgp, {"get"})
  BY TwoGood DEF CatalogueWords
<1>3. Good(nic, {"diagnose"})
  <2>1. "hardware deviceinfo nic" \in CatalogueWords
    BY DEF CatalogueWords
  <2> QED BY <2>1, ThreeGood
<1> DEFINE lists == [cpu |-> <<performance, top, status>>,
                     memory |-> <<performance, top>>,
                     route_table |-> <<route>>,
                     bgp |-> <<bgp>>]
<1>4. FortiCommands(category, interface) =
        IF category \notin InterfaceCategories
          THEN Entry(lists, category, <<status, performance, physical>>)
        ELSE IF interface = "" THEN <<physical>>
        ELSE <<nic, physical>>
  BY DEF FortiCommands
<1> SUFFICES GoodList(FortiCommands(category, interface), H)
  OBVIOUS
<1> HIDE DEF H, performance, physical, status, top, route, bgp, nic
<1>5. /\ GoodList(<<performance, top, status>>, H) /\ GoodList(<<performance, top>>, H)
      /\ GoodList(<<route>>, H) /\ GoodList(<<bgp>>, H)
      /\ GoodList(<<status, performance, physical>>, H)
      /\ GoodList(<<physical>>, H) /\ GoodList(<<nic, physical>>, H)
  BY <1>1, <1>2, <1>3, ListsGood
<1>6. \A c \in DOMAIN lists : GoodList(lists[c], H)
  <2>1. DOMAIN lists = {"cpu", "memory", "route_table", "bgp"}
    OBVIOUS
  <2>2. /\ GoodList(lists["cpu"], H) /\ GoodList(lists["memory"], H)
        /\ GoodList(lists["route_table"], H) /\ GoodList(lists["bgp"], H)
    BY <1>5
  <2> HIDE DEF lists
  <2> QED BY <2>1, <2>2
<1> HIDE DEF lists
<1> QED BY <1>4, <1>5, <1>6 DEF Entry

LEMMA F5Good ==
  ASSUME NEW category
  PROVE  GoodList(F5Commands(category), {"tmsh"})
<1> DEFINE H == {"tmsh"}
<1>1. /\ Good(Tmsh("net route"), H) /\ Good(Tmsh("net interface"), H)
      /\ Good(Tmsh("sys performance system"), H) /\ Good(Tmsh("sys log"), H)
      /\ Good(Tmsh("sys version"), H) /\ Good(Tmsh("ltm virtual"), H)
  BY TmshGood DEF CatalogueWords
<1> SUFFICES GoodList(F5Commands(category), H)
  OBVIOUS
<1> HIDE DEF H
<1>2. /\ GoodList(<<Tmsh("net route")>>, H)
      /\ GoodList(<<Tmsh("net interface"), Tmsh("sys performance system")>>, H)
      /\ GoodList(<<Tmsh("sys log")>>, H)
      /\ GoodList(<<Tmsh("sys version"), Tmsh("sys performance system"),
                    Tmsh("net interface"), Tmsh("ltm virtual")>>, H)
  BY <1>1, ListsGood
<1> QED BY <1>2 DEF F5Commands

LEMMA ShowGood ==
  ASSUME NEW category, NEW interface, Silent(interface)
  PROVE  GoodList(ShowCommands(category, interface), {"show"})
<1> DEFINE H == {"show"}
           words == {"logging last 100", "clock", "version", "system resources",
                     "processes cpu", "processes memory", "ip route summary",
                     "ipv6 route summary", "bgp ipv4 unicast summary",
                     "bgp ipv6 unicast summary", "bfd neighbors", "bfd neighbors details",
                     "interface status", "interface counters errors"}
           all == ShowInterface(interface, "all")
           errors == ShowInterface(interface, "counters errors")
           details == ShowInterface(interface, "transceiver details")
<1>1. \A word \in words : Good(Show(word), H)
  BY TwoGood DEF CatalogueWords, Show
<1>2. Good(all, H) /\ Good(errors, H) /\ Good(details, H)
  <2>1. {"interface", "all", "counters errors", "transceiver details"} \subseteq CatalogueWords
    BY DEF CatalogueWords
  <2>2. \A last \in CatalogueWords : Good(<<"show", "interface", interface, last>>, H)
    BY <2>1, FourGood
  <2> QED BY <2>1, <2>2 DEF ShowInterface
<1>3. Good(Log, H)
  BY <1>1 DEF Log
<1> DEFINE lists ==
        [cpu |-> <<Show("system resources"), Show("processes cpu"), Log>>,
         memory |-> <<Show("system resources"), Show("processes memory"), Log>>,
         route_table |-> <<Show("ip route summary"), Show("ipv6 route summary")>>,
         bgp |-> <<Show("bgp ipv4 unicast summary"), Show("bgp ipv6 unicast summary"), Log>>,
         bfd |-> <<Show("bfd neighbors"), Show("bfd neighbors details")>>,
         log |-> <<Log>>]
           extra == [interface_error |-> <<errors>>, optical_power |-> <<details>>]
<1>4. ShowCommands(category, interface) =
        IF category \notin InterfaceCategories
          THEN Entry(lists, category,
                     <<Show("clock"), Show("version"), Show("system resources"), Log>>)
        ELSE IF interface = ""
          THEN <<Show("interface status"), Show("interface counters errors"), Log>>
        ELSE <<all>> \o Entry(extra, category, <<>>) \o <<Log>>
  BY DEF ShowCommands
<1> SUFFICES GoodList(ShowCommands(category, interface), H)
  OBVIOUS
<1>5. \A c \in DOMAIN lists : GoodList(lists[c], H)
  <2>1. DOMAIN lists = {"cpu", "memory", "route_table", "bgp", "bfd", "log"}
    OBVIOUS
  <2> HIDE DEF H
  <2>2. /\ GoodList(<<Show("system resources"), Show("processes cpu"), Log>>, H)
        /\ GoodList(<<Show("system resources"), Show("processes memory"), Log>>, H)
        /\ GoodList(<<Show("ip route summary"), Show("ipv6 route summary")>>, H)
        /\ GoodList(<<Show("bgp ipv4 unicast summary"), Show("bgp ipv6 unicast summary"), Log>>, H)
        /\ GoodList(<<Show("bfd neighbors"), Show("bfd neighbors details")>>, H)
        /\ GoodList(<<Log>>, H)
    BY <1>1, <1>3, ListsGood
  <2>3. /\ GoodList(lists["cpu"], H) /\ GoodList(lists["memory"], H)
        /\ GoodList(lists["route_table"], H) /\ GoodList(lists["bgp"], H)
        /\ GoodList(lists["bfd"], H) /\ GoodList(lists["log"], H)
    BY <2>2
  <2> HIDE DEF lists
  <2> QED BY <2>1, <2>3
<1>6. Entry(extra, category, <<>>) \in {<<>>, <<errors>>, <<details>>}
  <2>1. /\ DOMAIN extra = {"interface_error", "optical_power"}
        /\ extra["interface_error"] = <<errors>> /\ extra["optical_power"] = <<details>>
    OBVIOUS
  <2> HIDE DEF extra, errors, details
  <2> QED BY <2>1 DEF Entry
<1> HIDE DEF H, lists, extra, all, errors, details
<1>7. /\ GoodList(<<Show("clock"), Show("version"), Show("system resources"), Log>>, H)
      /\ GoodList(<<Show("interface status"), Show("interface counters errors"), Log>>, H)
      /\ GoodList(<<all, Log>>, H) /\ GoodList(<<all, errors, Log>>, H)
      /\ GoodList(<<all, details, Log>>, H)
  BY <1>1, <1>2, <1>3, ListsGood
<1>8. /\ <<all>> \o <<>> \o <<Log>> = <<all, Log>>
      /\ <<all>> \o <<errors>> \o <<Log>> = <<all, errors, Log>>
      /\ <<all>> \o <<details>> \o <<Log>> = <<all, details, Log>>
  BY Joins
<1>9. GoodList(<<all>> \o Entry(extra, category, <<>>) \o <<Log>>, H)
  BY <1>6, <1>7, <1>8
<1> QED BY <1>4, <1>5, <1>7, <1>9 DEF Entry

\* Where the platform allows the head, the guard passes the command.
LEMMA HeadPasses ==
  ASSUME NEW type, NEW line, Simple(line) \/ SimpleTmsh(line),
         \/ line[1] = "tmsh" /\ <<"tmsh", "show">> \in Allowed(Platform(type))
         \/ line[1] # "tmsh" /\ <<line[1]>> \in Allowed(Platform(type)),
         Platform(type) = "fortigate" => line[1] # "show"
  PROVE  Verdict(line, type) = "passed"
<1>1. Len(line) \in Nat /\ Len(line) >= 2
  BY DEF Simple, SimpleTmsh
<1>2. Begins(line, Allowed(Platform(type)))
  <2>1. CASE line[1] = "tmsh" /\ <<"tmsh", "show">> \in Allowed(Platform(type))
    <3> DEFINE p == <<"tmsh", "show">>
    <3>1. p \in Allowed(Platform(type)) /\ Len(p) = 2 /\ p[1] = "tmsh" /\ p[2] = "show"
      BY <2>1
    <3> HIDE DEF p
    <3>2. line[2] = "show"
      BY <2>1 DEF Simple, SimpleTmsh
    <3>3. Len(p) \in Nat /\ Len(p) <= Len(line) /\ \A i \in 1..Len(p) : line[i] = p[i]
      BY <1>1, <2>1, <3>1, <3>2
    <3> QED BY <1>1, <3>1, <3>3, Begun
  <2>2. CASE line[1] # "tmsh" /\ <<line[1]>> \in Allowed(Platform(type))
    <3> DEFINE p == <<line[1]>>
    <3>1. p \in Allowed(Platform(type)) /\ Len(p) = 1 /\ p[1] = line[1]
      BY <2>2
    <3> HIDE DEF p
    <3>2. Len(p) \in Nat /\ Len(p) <= Len(line) /\ \A i \in 1..Len(p) : line[i] = p[i]
      BY <1>1, <3>1
    <3> QED BY <1>1, <3>1, <3>2, Begun
  <2> QED BY <2>1, <2>2
<1>3. ~Malformed(line) /\ ~Special(line) /\ ~Changes(line)
  BY SimpleChecked
<1> QED BY <1>2, <1>3 DEF Verdict

\* The catalogue has, for every type but one, category and interface, a list of
\* commands that its checks pass.
LEMMA CataloguePasses ==
  ASSUME NEW category, NEW type, type # "fortios", NEW interface, Silent(interface)
  PROVE  LET lines == BuildCommandSpecs(category, type, interface)
         IN Lines(lines) /\ \A i \in 1..Len(lines) : Verdict(lines[i], type) = "passed"
<1> DEFINE lines == BuildCommandSpecs(category, type, interface)
           family == PlatformFamily(type)
           allowed == Allowed(Platform(type))
           heads == IF family \in {"huawei", "h3c"} THEN {"display"}
                    ELSE IF family = "fortigate" THEN {"get", "diagnose"}
                    ELSE IF family = "f5" THEN {"tmsh"} ELSE {"show"}
<1>1. GoodList(lines, heads)
  <2>1. /\ GoodList(VrpCommands(category, interface), {"display"})
        /\ GoodList(FortiCommands(category, interface), {"get", "diagnose"})
        /\ GoodList(F5Commands(category), {"tmsh"})
        /\ GoodList(ShowCommands(category, interface), {"show"})
    BY VrpGood, FortiGood, F5Good, ShowGood
  <2> QED BY <2>1 DEF BuildCommandSpecs
<1>2. \A h \in heads :
        /\ h = "tmsh" => <<"tmsh", "show">> \in allowed
        /\ h # "tmsh" => <<h>> \in allowed
        /\ Platform(type) = "fortigate" => h # "show"
  BY HeadsAllowed
<1> HIDE DEF lines, heads, allowed
<1>3. Lines(lines)
  BY <1>1 DEF GoodList, Good, Lines
<1>4. ASSUME NEW i \in 1..Len(lines) PROVE Verdict(lines[i], type) = "passed"
  <2> DEFINE line == lines[i]
  <2>1. (Simple(line) \/ SimpleTmsh(line)) /\ line[1] \in heads
    BY <1>1 DEF GoodList, Good
  <2>2. /\ \/ line[1] = "tmsh" /\ <<"tmsh", "show">> \in allowed
           \/ line[1] # "tmsh" /\ <<line[1]>> \in allowed
        /\ Platform(type) = "fortigate" => line[1] # "show"
    BY <1>2, <2>1
  <2> HIDE DEF line
  <2>3. Verdict(line, type) = "passed"
    BY <2>1, <2>2, HeadPasses DEF allowed
  <2> QED BY <2>3 DEF line
<1>5. \A i \in 1..Len(lines) : Verdict(lines[i], type) = "passed"
  BY <1>4
<1> QED BY <1>3, <1>5 DEF lines

\* The V4 handler refuses a list of its own for the type fortios only.
LEMMA GeneratedPasses ==
  ASSUME NEW order \in [device : Devices, category : Categories, interface : Interfaces,
                      max : 1..8]
  PROVE  Sendable(Generated[order])
<1> DEFINE type == Type[order.device]
           lines == BuildCommandSpecs(order.category, type, order.interface)
           shown == SplitCommandList(lines, order.max)
<1>1. Silent(order.interface) /\ order.max \in Nat \ {0}
  BY QuestionsAssumption DEF Interfaces, Silent
<1>3. Generated[order] =
        IF Checked(shown, type, order.max)
          THEN Reply("v4", "confirmation_required", "own", order.device,
                     [i \in DOMAIN shown |-> Unsent(order.device, shown[i])], <<>>)
          ELSE Reply("v4", "unsafe", "own", order.device, <<>>, <<>>)
  BY DEF Generated
<1>2. CASE type = "fortios"
  BY <1>2, <1>3 DEF Sendable, Grounded, Named, Passes, Reply
<1>4. CASE type # "fortios"
  <2>1. Lines(lines) /\ \A i \in 1..Len(lines) : Verdict(lines[i], type) = "passed"
    BY <1>1, <1>4, CataloguePasses
  <2> HIDE DEF lines
  <2>2. /\ Len(shown) \in 1..order.max /\ DOMAIN shown = 1..Len(shown)
        /\ \A i \in DOMAIN shown : \E j \in 1..Len(lines) : shown[i] = lines[j]
    BY <1>1, <2>1, SplitListKeeps
  <2> HIDE DEF shown
  <2>3. \A i \in DOMAIN shown :
          CheckSingleCommand(shown[i]) /\ Verdict(shown[i], type) = "passed"
    BY <2>1, <2>2, SimpleChecked DEF Lines
  <2>4. Checked(shown, type, order.max)
    BY <2>2, <2>3 DEF Checked, CheckCommands
  <2> QED BY <1>3, <2>4 DEF Sendable, Grounded, Named, Passes, Reply
<1> QED BY <1>2, <1>4

LEMMA GenerateKeeps ==
  ASSUME Inv, NEW d \in Devices \cup {None}, NEW category \in Categories,
         NEW interface \in Interfaces, NEW max \in 1..8,
         Generate(d, category, interface, max)
  PROVE  Inv'
<1>1. Sendable(reply')
  <2>1. /\ Sendable(Own("v4", "no_device")) /\ Sendable(Own("v4", "not_found"))
        /\ Sendable(Own("v4", "resolver_failed"))
    BY DEF Sendable, Grounded, Named, Passes, Own, Reply
  <2> DEFINE order == [device |-> d, category |-> category, interface |-> interface,
                     max |-> max]
  <2>2. d # None => Sendable(Generated[order])
    <3>1. d # None =>
            order \in [device : Devices, category : Categories, interface : Interfaces,
                     max : 1..8]
      OBVIOUS
    <3> HIDE DEF order
    <3> QED BY <3>1, GeneratedPasses
  <2> QED BY <2>1, <2>2 DEF Generate
<1>2. TypeOK'
  BY LengthsAssumption DEF Inv, TypeOK, Generate
<1>3. WorkFits'
  BY DEF Inv, WorkFits, OwnOutput, Generate
<1>4. StageFits'
  BY DEF StageFits, Generate
<1>5. EvidenceIsBeginning'
  BY DEF Inv, EvidenceIsBeginning, Generate
<1>6. Replies'
  BY <1>1 DEF Replies, AnalysisGrounded, NamedDeviceWins, GeneratedListPasses, Sendable,
              Grounded, Named, Passes, Generate
<1> QED BY <1>2, <1>3, <1>4, <1>5, <1>6 DEF Inv

-----------------------------------------------------------------------------
(* The specification *)

LEMMA StoreKeeps ==
  ASSUME Inv, Store
  PROVE  Inv'
<1>1. TypeOK'
  <2>1. stored' \in 0..MaxStored
    <3>1. MaxStored \in Nat
      BY LengthsAssumption
    <3>2. stored \in 0..MaxStored /\ stored < MaxStored /\ stored' = stored + 1
      BY DEF Inv, TypeOK, Store
    <3> QED BY <3>1, <3>2
  <2>2. context' \in Contexts \cup {None} /\ pending' \in PendingLists \cup {None}
    BY DEF Inv, TypeOK, Store
  <2>3. /\ configured' = configured /\ seen' = seen /\ pc' = pc /\ question' = question
        /\ work' = work /\ asked' = asked
    BY DEF Store
  <2> QED BY <2>1, <2>2, <2>3 DEF Inv, TypeOK
<1>2. WorkFits'
  BY DEF Inv, WorkFits, OwnOutput, Store
<1>3. StageFits'
  BY DEF Inv, StageFits, Evidence, Store
<1>4. EvidenceIsBeginning'
  BY DEF Inv, EvidenceIsBeginning, Store
<1>5. Replies'
  BY DEF Inv, Replies, AnalysisGrounded, NamedDeviceWins, GeneratedListPasses, Store
<1> QED BY <1>1, <1>2, <1>3, <1>4, <1>5 DEF Inv

LEMMA InitInv == Init => Inv
<1> SUFFICES ASSUME Init PROVE Inv
  OBVIOUS
<1>1. question \in Questions
  BY QuestionsAssumption DEF Init
<1>2. TypeOK
  BY <1>1, LengthsAssumption DEF Init, TypeOK, Idle
<1>3. WorkFits
  BY IdleFits DEF Init, WorkFits, OwnOutput
<1>4. StageFits
  BY DEF Init, StageFits
<1>5. EvidenceIsBeginning
  BY IdleFits DEF Init, EvidenceIsBeginning
<1>6. Replies
  BY DEF Init, Replies, AnalysisGrounded, NamedDeviceWins, GeneratedListPasses, NoReply, Own,
         Reply
<1> QED BY <1>2, <1>3, <1>4, <1>5, <1>6 DEF Inv

LEMMA NextInv == Inv /\ [Next]_vars => Inv'
<1> SUFFICES ASSUME Inv, [Next]_vars PROVE Inv'
  OBVIOUS
<1>1. CASE Store
  BY <1>1, StoreKeeps
<1>2. CASE Arrival
  BY <1>2, AskKeeps, GenerateKeeps DEF Arrival
<1>3. CASE LlmAnswers
  BY <1>3, PlannedKeeps, OwnAnswersKeep, AnalysesKeep DEF LlmAnswers, LlmPlans
<1>4. CASE Work
  BY <1>4, OwnAnswersKeep, PlannedKeeps, RouteKeeps, LocalKeeps, ConfirmKeeps,
     TakeEvidenceKeeps, EvidenceTakenKeeps, AnalysesKeep, ChatKeeps DEF Work, LlmFails
<1>5. CASE Raises
  BY <1>5, OwnAnswersKeep
<1>6. CASE UNCHANGED vars
  <2>1. TypeOK'
    BY <1>6 DEF Inv, TypeOK, vars
  <2>2. WorkFits'
    BY <1>6 DEF Inv, WorkFits, OwnOutput, vars
  <2>3. StageFits'
    BY <1>6 DEF Inv, StageFits, Evidence, vars
  <2>4. EvidenceIsBeginning'
    BY <1>6 DEF Inv, EvidenceIsBeginning, vars
  <2>5. Replies'
    BY <1>6 DEF Inv, Replies, AnalysisGrounded, NamedDeviceWins, GeneratedListPasses, vars
  <2> QED BY <2>1, <2>2, <2>3, <2>4, <2>5 DEF Inv
<1> QED BY <1>1, <1>2, <1>3, <1>4, <1>5, <1>6 DEF Next

LEMMA Invariant == Spec => []Inv
BY InitInv, NextInv, PTL DEF Spec

\* The context and the list are stored ones, and the stages and totals of a
\* question stay in their ranges (app.py, execution_response_enricher.py).
THEOREM RoutesTypeCorrect == Spec => []TypeOK
BY Invariant, PTL DEF Inv

\* What the LLM is given is the beginning of all output, whatever the number of
\* items and their lengths (execution_response_enricher.py, collect_evidence_from_items).
THEOREM EvidenceStaysBeginning == Spec => []EvidenceIsBeginning
BY Invariant, PTL DEF Inv

\* An analysis quotes output, and after a confirmation output of what this
\* request sent (execution_response_enricher.py, followup.py).
THEOREM AnalysisStaysGrounded == Spec => []AnalysisGrounded
BY Invariant, PTL DEF Inv, Replies

\* The device named by the plan or the text goes before the one of the context
\* (plan_dispatcher.py, router.py).
THEOREM NamedDeviceAlwaysWins == Spec => []NamedDeviceWins
BY Invariant, PTL DEF Inv, Replies

\* No list of the catalogue is refused, for every device type but fortios, every
\* category and interface (chat_v4/handlers/generate_commands.py).
THEOREM GeneratedListsPass == Spec => []GeneratedListPasses
BY Invariant, PTL DEF Inv, Replies

-----------------------------------------------------------------------------
(* Each step of a question goes on in the routes *)

\* The stages a question still has before it, and the items whose evidence is
\* still to be taken.
StagesLeft ==
  CASE pc = "plan" -> 8
    [] pc = "route" -> 7
    [] pc = "local" -> 6
    [] pc \in {"confirm", "plan again"} -> 5
    [] pc = "chat" -> 4
    [] pc = "collect" -> 3
    [] pc \in {"advise", "analyse"} -> 2
    [] OTHER -> 0

ItemsLeft == IF pc = "collect" THEN Len(work.items) - Len(work.used) ELSE 0

\* The lexicographic order of the two.
GoesOn ==
  \/ StagesLeft' < StagesLeft
  \/ StagesLeft' = StagesLeft /\ ItemsLeft' < ItemsLeft

LEMMA StagesAre ==
  /\ pc = "plan" => StagesLeft = 8
  /\ pc = "route" => StagesLeft = 7
  /\ pc = "local" => StagesLeft = 6
  /\ pc \in {"confirm", "plan again"} => StagesLeft = 5
  /\ pc = "chat" => StagesLeft = 4
  /\ pc = "collect" => StagesLeft = 3
  /\ pc \in {"advise", "analyse"} => StagesLeft = 2
  /\ pc = "idle" => StagesLeft = 0
BY DEF StagesLeft

LEMMA NextStagesAre ==
  /\ pc' = "route" => StagesLeft' = 7
  /\ pc' = "local" => StagesLeft' = 6
  /\ pc' \in {"confirm", "plan again"} => StagesLeft' = 5
  /\ pc' = "chat" => StagesLeft' = 4
  /\ pc' = "collect" => StagesLeft' = 3
  /\ pc' = "analyse" => StagesLeft' = 2
  /\ pc' = "idle" => StagesLeft' = 0
BY DEF StagesLeft

\* Every step of the server, of the LLM or of a failure.
LEMMA WorkGoesOn ==
  ASSUME Inv, Work \/ LlmAnswers \/ Raises
  PROVE  GoesOn
<1>1. ASSUME NEW r, pc # "idle", Answer(r) PROVE GoesOn
  <2>1. pc' = "idle"
    BY <1>1 DEF Answer
  <2>2. StagesLeft \in {8, 7, 6, 5, 4, 3, 2}
    BY <1>1, StagesAre DEF Inv, TypeOK
  <2>3. StagesLeft' = 0
    BY <2>1, NextStagesAre
  <2> QED BY <2>2, <2>3 DEF GoesOn
<1>2. ASSUME NEW p, Planned(p) PROVE GoesOn
  <2>1. CASE pc = "plan"
    <3>1. pc' = "route"
      BY <1>2, <2>1 DEF Planned, AfterPlan
    <3>2. StagesLeft = 8 /\ StagesLeft' = 7
      BY <2>1, <3>1, StagesAre, NextStagesAre
    <3> QED BY <3>2 DEF GoesOn
  <2>2. CASE pc = "plan again"
    <3>1. pc' = "chat"
      BY <1>2, <2>2 DEF Planned, AfterPlan
    <3>2. StagesLeft = 5 /\ StagesLeft' = 4
      BY <2>2, <3>1, StagesAre, NextStagesAre
    <3> QED BY <3>2 DEF GoesOn
  <2> QED BY <1>2, <2>1, <2>2 DEF Planned
<1>3. CASE AdviceFails \/ LlmAdvises \/ LlmAnalyses \/ AnalysisFails \/ Raises \/ Chat
  BY <1>1, <1>3 DEF AdviceFails, LlmAdvises, LlmAnalyses, AnalysisFails, Raises, Chat
<1>4. CASE LlmFails \/ \E p \in Plans : LlmPlans(p)
  BY <1>2, <1>4 DEF LlmFails, LlmPlans
<1>5. CASE Route
  <2>1. pc = "route" /\ pc' \in {"confirm", "collect", "local", "idle"}
    BY <1>5 DEF Route, GoTo, Answer, Collect
  <2>2. StagesLeft = 7
    BY <2>1, StagesAre
  <2>3. StagesLeft' \in {5, 3, 6, 0}
    BY <2>1, NextStagesAre
  <2> QED BY <2>2, <2>3 DEF GoesOn
<1>6. CASE Local
  <2>1. pc = "local" /\ pc' \in {"confirm", "collect", "plan again", "idle"}
    BY <1>6 DEF Local, GoTo, Answer, Collect
  <2>2. StagesLeft = 6
    BY <2>1, StagesAre
  <2>3. StagesLeft' \in {5, 3, 0}
    BY <2>1, NextStagesAre
  <2> QED BY <2>2, <2>3 DEF GoesOn
<1>7. CASE Confirm
  <2>1. pc = "confirm" /\ pc' \in {"collect", "idle"}
    BY <1>7 DEF Confirm, Answer, Collect
  <2>2. StagesLeft = 5
    BY <2>1, StagesAre
  <2>3. StagesLeft' \in {3, 0}
    BY <2>1, NextStagesAre
  <2> QED BY <2>2, <2>3 DEF GoesOn
<1>8. CASE TakeEvidence
  <2>1. pc = "collect" /\ pc' = "collect"
    BY <1>8 DEF TakeEvidence
  <2>2. work'.items = work.items /\ Len(work'.used) = Len(work.used) + 1
    <3>1. work.used \in Seq(Nat)
      BY DEF Inv, WorkFits
    <3> DEFINE output == Output(work.items[Len(work.used) + 1])
               fits == work.total + output <= Total
               more == IF fits THEN output ELSE Total - work.total
    <3>2. work' = [work EXCEPT !.used = Append(@, more),
                               !.total = IF fits THEN @ + output ELSE Total]
      BY <1>8 DEF TakeEvidence
    <3> HIDE DEF more, fits, output
    <3>3. work'.items = work.items /\ work'.used = Append(work.used, more)
      BY <3>2 DEF Inv, WorkFits
    <3> QED BY <3>1, <3>3
  <2>3. Len(work.items) \in Nat /\ Len(work.used) \in Nat
    BY LenProperties DEF Inv, WorkFits, IsItems
  <2>4. ItemsLeft = Len(work.items) - Len(work.used)
    BY <2>1 DEF ItemsLeft
  <2>5. ItemsLeft' = Len(work'.items) - Len(work'.used)
    BY <2>1 DEF ItemsLeft
  <2>6. ItemsLeft' < ItemsLeft
    <3> DEFINE all == Len(work.items)
               taken == Len(work.used)
    <3>1. ItemsLeft' = all - (taken + 1)
      BY <2>2, <2>5
    <3>2. all \in Nat /\ taken \in Nat /\ ItemsLeft = all - taken
      BY <2>3, <2>4
    <3> HIDE DEF all, taken
    <3> QED BY <3>1, <3>2
  <2>7. StagesLeft = 3 /\ StagesLeft' = 3
    BY <2>1, StagesAre, NextStagesAre
  <2> QED BY <2>6, <2>7 DEF GoesOn
<1>9. CASE EvidenceTaken
  <2>1. pc = "collect" /\ pc' \in {"analyse", "idle"}
    BY <1>9 DEF EvidenceTaken, GoTo, Answer
  <2>2. StagesLeft = 3
    BY <2>1, StagesAre
  <2>3. StagesLeft' \in {2, 0}
    BY <2>1, NextStagesAre
  <2> QED BY <2>2, <2>3 DEF GoesOn
<1> QED BY <1>3, <1>4, <1>5, <1>6, <1>7, <1>8, <1>9 DEF Work, LlmAnswers

\* What is still to be done is a number of each kind.
LEMMA LeftIs ==
  ASSUME Inv
  PROVE  StagesLeft \in Nat /\ ItemsLeft \in Nat
<1>1. Len(work.items) \in Nat /\ Len(work.used) \in Nat /\ Len(work.used) <= Len(work.items)
  BY LenProperties DEF Inv, WorkFits, IsItems
<1>2. StagesLeft \in 0..8
  <2>1. StagesLeft \in {8, 7, 6, 5, 4, 3, 2, 0}
    BY StagesAre DEF Inv, TypeOK
  <2> QED BY <2>1
<1>3. ItemsLeft \in Nat
  BY <1>1 DEF ItemsLeft
<1> QED BY <1>2, <1>3

\* No question is led back: the plan, the routes, the second plan and the
\* evidence of each item come one after the other, whatever the LLM answers or
\* raises, and what other requests store sends no question back
\* (v2_chat_router_middleware, app.py 1474-1644).
THEOREM RoutesComeNearer ==
  Spec => /\ [](StagesLeft \in Nat /\ ItemsLeft \in Nat)
          /\ [][/\ Work \/ LlmAnswers \/ Raises => GoesOn
                /\ Store => UNCHANGED <<StagesLeft, ItemsLeft>>
                /\ Arrival => pc = "idle"]_vars
<1>1. Inv => StagesLeft \in Nat /\ ItemsLeft \in Nat
  BY LeftIs
<1>2. Store => UNCHANGED <<StagesLeft, ItemsLeft>>
  BY DEF Store, StagesLeft, ItemsLeft
<1>3. Arrival => pc = "idle"
  BY DEF Arrival, Ask, Generate
<1>4. Inv /\ [Next]_vars =>
        [/\ Work \/ LlmAnswers \/ Raises => GoesOn
         /\ Store => UNCHANGED <<StagesLeft, ItemsLeft>>
         /\ Arrival => pc = "idle"]_vars
  BY <1>2, <1>3, WorkGoesOn
<1> QED BY <1>1, <1>4, Invariant, PTL DEF Spec

-----------------------------------------------------------------------------
(* CmdbQuery: the rows a query keeps *)

\* What one more element does to the range of a list.
LEMMA Appended ==
  ASSUME NEW T, NEW s \in Seq(T), NEW e \in T
  PROVE  /\ Range(Append(s, e)) = Range(s) \cup {e}
         /\ IsInjective(s) /\ e \notin Range(s) => IsInjective(Append(s, e))
<1> DEFINE n == Len(s)
           t == Append(s, e)
<1>1. /\ n \in Nat /\ DOMAIN s = 1..n /\ t \in Seq(T) /\ DOMAIN t = 1..(n + 1)
      /\ \A i \in 1..n : t[i] = s[i]
      /\ t[n + 1] = e
  BY AppendProperties, LenProperties
<1>2. \A i \in 1..(n + 1) : i \in 1..n \/ i = n + 1
  BY <1>1
<1>3. n + 1 \in 1..(n + 1) /\ 1..n \subseteq 1..(n + 1)
  BY <1>1
<1> HIDE DEF n, t
<1>4. Range(t) = Range(s) \cup {e}
  <2>1. \A v : v \in Range(t) <=> \E i \in 1..(n + 1) : t[i] = v
    BY <1>1 DEF Range
  <2>2. \A v : v \in Range(s) <=> \E i \in 1..n : s[i] = v
    BY <1>1 DEF Range
  <2> QED BY <1>1, <1>2, <1>3, <2>1, <2>2
<1>5. IsInjective(s) /\ e \notin Range(s) => IsInjective(t)
  <2> SUFFICES ASSUME IsInjective(s), e \notin Range(s),
                      NEW i \in 1..(n + 1), NEW j \in 1..(n + 1), t[i] = t[j]
               PROVE  i = j
    BY <1>1 DEF IsInjective
  <2>1. \A k \in 1..n : s[k] # e
    BY <1>1 DEF Range
  <2> QED BY <1>1, <1>2, <2>1 DEF IsInjective
<1> QED BY <1>4, <1>5 DEF t

\* The rows that are kept are those in D, each of them once if it was there once.
LEMMA KeptRows ==
  ASSUME NEW T, NEW rows \in Seq(T), NEW D
  PROVE  /\ Kept(rows, D) \in Seq(T)
         /\ ToSet(Kept(rows, D)) = ToSet(rows) \cap D
         /\ IsInjective(rows) => IsInjective(Kept(rows, D))
<1> DEFINE N == Len(rows)
           Fits(kept) == kept = [n \in 0..N |->
                                   IF n = 0 THEN <<>>
                                   ELSE IF rows[n] \in D THEN Append(kept[n - 1], rows[n])
                                   ELSE kept[n - 1]]
           all == CHOOSE kept : Fits(kept)
           g == [p \in (1..N) \X Seq(T) |->
                   IF rows[p[1]] \in D THEN Append(p[2], rows[p[1]]) ELSE p[2]]
<1>1. Kept(rows, D) = all[N]
  BY DEF Kept
<1>n. N \in Nat /\ DOMAIN rows = 1..N /\ \A n \in 1..N : rows[n] \in T
  BY LenProperties, ElementOfSeq
<1>t. ToSet(rows) = {rows[n] : n \in 1..N}
  BY <1>n DEF ToSet
<1> HIDE DEF N
<1>3. g \in [(1..N) \X Seq(T) -> Seq(T)]
  BY <1>n, AppendProperties
<1>4. \A n \in 1..N, v \in Seq(T) :
        g[<<n, v>>] = IF rows[n] \in D THEN Append(v, rows[n]) ELSE v
  OBVIOUS
<1>5. <<>> \in Seq(T) /\ g \in Steps(N, Seq(T))
  BY <1>3 DEF Steps
<1> HIDE DEF g
<1>6. PICK f \in [0..N -> Seq(T)] : Runs(f, N, <<>>, g)
  BY <1>n, <1>5, Recursion, Zenon
<1>7. Fits(f)
  <2>1. \A n \in 0..N : f[n] = IF n = 0 THEN <<>>
                               ELSE IF rows[n] \in D THEN Append(f[n - 1], rows[n])
                               ELSE f[n - 1]
    <3> TAKE n \in 0..N
    <3>1. n # 0 => n \in 1..N /\ n - 1 \in 0..N
      BY <1>n
    <3> QED BY <1>4, <1>6, <3>1 DEF Runs
  <2> QED BY <1>6, <2>1, Zenon
<1>8. Fits(all)
  BY <1>7
<1>9. \A n \in 0..N : all[n] = IF n = 0 THEN <<>>
                               ELSE IF rows[n] \in D THEN Append(all[n - 1], rows[n])
                               ELSE all[n - 1]
  BY <1>8
<1> HIDE DEF all
<1>a. all[0] = <<>>
  <2>1. 0 \in 0..N
    BY <1>n
  <2> QED BY <1>9, <2>1
<1>b. \A n \in 1..N : all[n] = IF rows[n] \in D THEN Append(all[n - 1], rows[n])
                               ELSE all[n - 1]
  <2> TAKE n \in 1..N
  <2>1. n \in 0..N /\ n # 0
    BY <1>n
  <2> QED BY <1>9, <2>1
<1> DEFINE Some(n) == {rows[i] : i \in 1..n} \cap D
           Right(n) == /\ all[n] \in Seq(T)
                       /\ Range(all[n]) = Some(n)
                       /\ IsInjective(rows) => IsInjective(all[n])
           S == {n \in 0..N : Right(n)}
<1>10. 0 \in S
  <2>1. Right(0)
    BY <1>5, <1>a DEF Range, IsInjective
  <2>2. 0 \in 0..N
    BY <1>n
  <2> HIDE DEF Right
  <2> QED BY <2>1, <2>2
<1>11. ASSUME NEW n \in 1..N, n - 1 \in S PROVE n \in S
  <2>1. /\ all[n - 1] \in Seq(T) /\ Range(all[n - 1]) = Some(n - 1)
        /\ IsInjective(rows) => IsInjective(all[n - 1])
        /\ n \in 0..N
    <3>1. Right(n - 1)
      <4> HIDE DEF Right
      <4> QED BY <1>11
    <3> QED BY <1>n, <3>1
  <2>2. Some(n) = IF rows[n] \in D THEN Some(n - 1) \cup {rows[n]} ELSE Some(n - 1)
    <3>1. 1..n = (1..(n - 1)) \cup {n}
      OBVIOUS
    <3>2. {rows[i] : i \in 1..n} = {rows[i] : i \in 1..(n - 1)} \cup {rows[n]}
      BY <3>1
    <3> QED BY <3>2
  <2>3. CASE rows[n] \notin D
    <3>1. all[n] = all[n - 1] /\ Some(n) = Some(n - 1)
      BY <1>b, <2>2, <2>3
    <3> HIDE DEF Some
    <3> QED BY <2>1, <3>1
  <2>4. CASE rows[n] \in D
    <3>1. all[n] = Append(all[n - 1], rows[n]) /\ Some(n) = Some(n - 1) \cup {rows[n]}
      BY <1>b, <2>2, <2>4
    <3>2. all[n - 1] \in Seq(T) /\ rows[n] \in T
      BY <1>n, <2>1
    <3>3. /\ all[n] \in Seq(T)
          /\ Range(all[n]) = Range(all[n - 1]) \cup {rows[n]}
      BY <3>1, <3>2, AppendProperties, Appended
    <3>4. Range(all[n]) = Some(n)
      BY <2>1, <3>1, <3>3
    <3>5. IsInjective(rows) => IsInjective(all[n])
      <4> SUFFICES ASSUME IsInjective(rows) PROVE IsInjective(all[n])
        OBVIOUS
      <4>1. \A i \in 1..(n - 1) : rows[i] # rows[n]
        <5> TAKE i \in 1..(n - 1)
        <5>1. i \in 1..N /\ i # n
          BY <1>n
        <5> QED BY <1>n, <5>1 DEF IsInjective
      <4>s. rows[n] \notin Some(n - 1)
        BY <4>1
      <4>2. rows[n] \notin Range(all[n - 1]) /\ IsInjective(all[n - 1])
        BY <2>1, <4>s
      <4> HIDE DEF Some
      <4> QED BY <3>1, <3>2, <4>2, Appended
    <3> HIDE DEF Some
    <3> QED BY <2>1, <3>3, <3>4, <3>5
  <2> QED BY <2>3, <2>4
<1> HIDE DEF S
<1>12. 0..N \subseteq S
  BY <1>n, <1>10, <1>11, UpTo
<1>13. Right(N)
  <2>1. N \in 0..N
    BY <1>n
  <2> HIDE DEF Right
  <2> QED BY <1>12, <2>1 DEF S
<1>14. ToSet(all[N]) = Range(all[N])
  BY DEF ToSet, Range
<1> QED BY <1>1, <1>t, <1>13, <1>14

\* A list that holds nothing twice is as long as its range is large.
LEMMA LengthCounts ==
  ASSUME NEW T, NEW rows \in Seq(T), IsInjective(rows)
  PROVE  Cardinality(ToSet(rows)) = Len(rows)
<1>1. Len(rows) \in Nat /\ DOMAIN rows = 1..Len(rows) /\ rows \in [1..Len(rows) -> ToSet(rows)]
  BY LenProperties DEF ToSet
<1>2. rows \in Bijection(1..Len(rows), ToSet(rows))
  BY <1>1 DEF Bijection, Injection, Surjection, ToSet
<1> QED BY <1>1, <1>2, FS_CountingElements DEF ExistsBijection

\* The least of two numbers, as pages are cut.
Least(a, b) == IF a < b THEN a ELSE b

LEMMA LeastLast == \A a, b \in Nat : b <= a => Least(a, b) = b
BY DEF Least

\* A page is a part of its list, and the whole of a short one.
LEMMA PageFacts ==
  ASSUME NEW T, NEW rows \in Seq(T), NEW page \in Nat \ {0}, NEW size \in Nat \ {0}
  PROVE  /\ PageOf(rows, page, size) \in Seq(T)
         /\ ToSet(PageOf(rows, page, size)) \subseteq ToSet(rows)
         /\ page = 1 /\ Len(rows) <= size => PageOf(rows, page, size) = rows
<1> DEFINE from == (page - 1) * size + 1
           to == Least(page * size, Len(rows))
<1>1. Len(rows) \in Nat /\ DOMAIN rows = 1..Len(rows) /\ \A i \in 1..Len(rows) : rows[i] \in T
  BY LenProperties, ElementOfSeq
<1>2. (page - 1) * size \in Nat /\ page * size \in Nat
  OBVIOUS
<1>3. PageOf(rows, page, size) = SubSeq(rows, from, to)
  BY DEF PageOf, Least
<1>4. from \in Nat /\ to \in Nat /\ 1 <= from /\ to <= Len(rows)
  BY <1>1, <1>2 DEF Least
<1>5. page = 1 /\ Len(rows) <= size => from = 1 /\ to = Len(rows)
  <2> SUFFICES ASSUME page = 1, Len(rows) <= size PROVE from = 1 /\ to = Len(rows)
    OBVIOUS
  <2>1. page * size = size /\ (page - 1) * size = 0
    OBVIOUS
  <2>2. from = 1
    BY <2>1
  <2>3. to = Least(size, Len(rows))
    BY <2>1, Zenon
  <2>4. size \in Nat /\ Len(rows) \in Nat
    BY <1>1
  <2> QED BY <2>2, <2>3, <2>4, LeastLast
<1> HIDE DEF from, to
<1>6. \A i \in from..to : i \in 1..Len(rows)
  BY <1>1, <1>4
<1> DEFINE part == SubSeq(rows, from, to)
<1>7. /\ part \in Seq(T)
      /\ Len(part) = IF from <= to THEN to - from + 1 ELSE 0
      /\ \A i \in 1..(to - from + 1) : part[i] = rows[from + i - 1]
  BY <1>1, <1>4, <1>6, SubSeqProperties
<1>8. ToSet(part) \subseteq ToSet(rows)
  <2>1. DOMAIN part = 1..Len(part)
    BY <1>7, LenProperties
  <2> HIDE DEF part
  <2>2. \A i \in 1..Len(part) : part[i] = rows[from + i - 1] /\ from + i - 1 \in 1..Len(rows)
    BY <1>1, <1>4, <1>7
  <2> QED BY <1>1, <2>1, <2>2 DEF ToSet
<1>9. page = 1 /\ Len(rows) <= size => part = rows
  BY <1>5, SubSeqFull
<1> QED BY <1>3, <1>7, <1>8, <1>9

\* The first pages of a list and the next one are its beginning.
LEMMA PagesJoin ==
  ASSUME NEW T, NEW rows \in Seq(T), NEW page \in Nat \ {0}, NEW size \in Nat \ {0},
         (page - 1) * size <= Len(rows)
  PROVE  /\ SubSeq(rows, 1, (page - 1) * size) \o PageOf(rows, page, size)
              = SubSeq(rows, 1, Least(page * size, Len(rows)))
         /\ Len(PageOf(rows, page, size)) = Least(page * size, Len(rows)) - (page - 1) * size
         /\ Len(SubSeq(rows, 1, Least(page * size, Len(rows)))) = Least(page * size, Len(rows))
<1> DEFINE k == (page - 1) * size
           to == Least(page * size, Len(rows))
           batch == PageOf(rows, page, size)
<1>1. Len(rows) \in Nat /\ DOMAIN rows = 1..Len(rows) /\ \A i \in 1..Len(rows) : rows[i] \in T
  BY LenProperties, ElementOfSeq
<1>2. k \in Nat /\ page * size \in Nat /\ page * size = k + size
  OBVIOUS
<1>3. batch = SubSeq(rows, k + 1, to)
  BY DEF PageOf, Least
<1>p. k <= Len(rows)
  OBVIOUS
<1> HIDE DEF batch, k
<1>4. to \in Nat /\ k <= to /\ to <= Len(rows)
  BY <1>1, <1>2, <1>p DEF Least
<1> HIDE DEF to
<1>5. 1 \in 1..Len(rows) + 1 /\ k \in (1 - 1)..Len(rows) /\ to \in k..Len(rows)
  BY <1>1, <1>2, <1>4, <1>p
<1>6. SubSeq(rows, 1, k) \o batch = SubSeq(rows, 1, to)
  BY <1>3, <1>5, ConcatAdjacentSubSeq
<1>7. Len(batch) = to - k
  <2>1. \A i \in (k + 1)..to : rows[i] \in T
    BY <1>1, <1>2, <1>4
  <2>2. Len(SubSeq(rows, k + 1, to)) = IF k + 1 <= to THEN to - (k + 1) + 1 ELSE 0
    BY <1>2, <1>4, <2>1, SubSeqProperties
  <2> QED BY <1>2, <1>3, <1>4, <2>2
<1>8. Len(SubSeq(rows, 1, to)) = to
  <2>1. \A i \in 1..to : rows[i] \in T
    BY <1>1, <1>4
  <2>2. Len(SubSeq(rows, 1, to)) = IF 1 <= to THEN to - 1 + 1 ELSE 0
    BY <1>4, <2>1, SubSeqProperties
  <2> QED BY <1>4, <2>2
<1> QED BY <1>6, <1>7, <1>8 DEF k, to, batch

\* The pages a scan may ask for hold as many rows as it may read.
LEMMA PagesCover == MaxPages \in Nat /\ MaxPages * ScanPage >= MaxRows
<1>1. ScanPage \in Nat \ {0} /\ MaxRows \in Nat \ {0}
  BY SizesAssumption
<1> DEFINE a == MaxRows + ScanPage - 1
<1>2. a \in Nat
  BY <1>1
<1>3. /\ a \div ScanPage \in Nat
      /\ a = (ScanPage * (a \div ScanPage)) + (a % ScanPage)
      /\ (a % ScanPage) \in 0..(ScanPage - 1)
  BY <1>1, <1>2
<1>4. ScanPage * (a \div ScanPage) >= MaxRows
  BY <1>1, <1>3
<1> QED BY <1>1, <1>3, <1>4 DEF MaxPages

-----------------------------------------------------------------------------
(* What is settled between the steps of a query *)

\* A request; that of the resolver is about one keyword.
Request(r) ==
  /\ r = [kind |-> r.kind, mode |-> r.mode, rule |-> r.rule, cfg |-> r.cfg,
          filters |-> r.filters, page |-> r.page, size |-> r.size,
          keyword |-> r.keyword, named |-> r.named, asked |-> r.asked]
  /\ r.filters \subseteq Filters /\ r.rule.filters \subseteq Filters
  /\ r.page \in Nat \ {0} /\ r.size \in Nat \ {0}
  /\ r.kind = "resolver" =>
       /\ r.keyword \in Keywords /\ r.filters = {r.keyword}
       /\ r.page = 1 /\ r.size = DetailSize

RequestFits ==
  /\ Request(req)
  /\ phase = "ask" => req.kind \in {"chat", "compare"}
  /\ phase = "match" => req.kind = "resolver"

TableFits == IsInjective(table) /\ server \in Servers

\* While the table holds still, a scan has read the first pages of what the CMDB
\* serves, each of them full.
ScanFits ==
  /\ scan = [filtered |-> scan.filtered, page |-> scan.page, rows |-> scan.rows,
             tries |-> scan.tries, steady |-> scan.steady]
  /\ phase = "get" /\ req.filters # {} /\ scan.steady =>
       /\ (scan.page - 1) * ScanPage <= Len(Candidates)
       /\ scan.rows = SubSeq(Candidates, 1, (scan.page - 1) * ScanPage)

\* An answer, which counts what it is about where the CMDB allows it to.
WholeAnswer(a) ==
  /\ a = [status |-> a.status, kind |-> a.kind, items |-> a.items, count |-> a.count,
          code |-> a.code, cause |-> a.cause, exact |-> a.exact, truth |-> a.truth,
          entry |-> a.entry]
  /\ a.items \in Seq(Machines) /\ a.count \in Nat
  /\ a.status = "ok" /\ a.exact /\ a.kind # "resolver" =>
       a.count = Cardinality(a.truth) /\ ToSet(a.items) \subseteq a.truth

\* The rows of an answer to r satisfy its conditions.
Matching(a, r) ==
  a.kind # "resolver" /\ a.status = "ok" =>
    \A d \in ToSet(a.items), f \in r.filters : d \in Matches[f]

\* The row a keyword names is among those the resolver chooses from.
Findable(a, keyword) ==
  a.exact /\ Owner[keyword] \in a.truth /\ Cardinality(a.truth) <= DetailSize =>
    Owner[keyword] \in ToSet(a.items)

AnswerFits ==
  /\ WholeAnswer(answer)
  /\ phase = "match" => answer.kind = "resolver" /\ Findable(answer, req.keyword)

CmdbInv ==
  /\ CmdbTypeOK /\ TableFits /\ RequestFits /\ ScanFits /\ AnswerFits
  /\ AnswerMatches /\ ResolvedIsNamed

\* The devices that satisfy every condition of the request, and those the CMDB
\* serves for it.
Wanted == {d \in Machines : \A f \in req.filters : d \in Matches[f]}

Served ==
  {d \in Machines : \A f \in SentFilters : server.support[f] = "applied" => d \in Matches[f]}

LEMMA ServedRows ==
  ASSUME CmdbInv
  PROVE  /\ Candidates \in Seq(Machines) /\ IsInjective(Candidates)
         /\ ToSet(Candidates) = ToSet(table) \cap Served
         /\ Wanted \subseteq Served
         /\ TrueRows = ToSet(table) \cap Wanted
<1>1. table \in Seq(Machines) /\ IsInjective(table)
  BY DEF CmdbInv, CmdbTypeOK, TableFits
<1>2. Candidates = Kept(table, Served)
  BY DEF Candidates, Served
<1>3. /\ Candidates \in Seq(Machines) /\ IsInjective(Candidates)
      /\ ToSet(Candidates) = ToSet(table) \cap Served
  BY <1>1, <1>2, KeptRows
<1>4. ToSet(table) \subseteq Machines
  BY <1>1, ElementOfSeq, LenProperties DEF ToSet
<1>5. Wanted \subseteq Served
  BY DEF Wanted, Served, SentFilters
<1>6. TrueRows = ToSet(table) \cap Wanted
  BY <1>4 DEF TrueRows, Wanted
<1> QED BY <1>3, <1>5, <1>6

\* What the local filter leaves satisfies the conditions of the request.
LEMMA FilteredRows ==
  ASSUME NEW rows \in Seq(Machines)
  PROVE  /\ LocalFilterRows(rows) \in Seq(Machines)
         /\ ToSet(LocalFilterRows(rows)) = ToSet(rows) \cap Wanted
         /\ IsInjective(rows) => IsInjective(LocalFilterRows(rows))
<1>1. LocalFilterRows(rows) = Kept(rows, Wanted)
  BY DEF LocalFilterRows, Wanted
<1> QED BY <1>1, KeptRows

\* A scan over a table that holds still ends with all rows the CMDB serves, if
\* they are no more than may be read.
LEMMA ScanReadsAll ==
  ASSUME CmdbInv, phase = "get", req.filters # {}, scan.steady, server.total,
         Len(Candidates) <= MaxRows,
         NEW batch, batch = PageOf(Candidates, scan.page, ScanPage),
         LastPage(batch, scan.rows \o batch)
  PROVE  scan.rows \o batch = Candidates
<1> DEFINE p == scan.page
           n == Len(Candidates)
           k == (p - 1) * ScanPage
           to == Least(p * ScanPage, n)
           rows == scan.rows \o batch
<1>1. /\ p \in Nat \ {0} /\ ScanPage \in Nat \ {0} /\ MaxRows \in Nat \ {0}
      /\ Candidates \in Seq(Machines) /\ n \in Nat
  BY SizesAssumption, ServedRows, LenProperties DEF CmdbInv, CmdbTypeOK
<1>2. k <= n /\ n <= MaxRows /\ scan.rows = SubSeq(Candidates, 1, k)
  BY DEF CmdbInv, ScanFits
<1>3. /\ rows = SubSeq(Candidates, 1, to) /\ Len(batch) = to - k /\ Len(rows) = to
  <2>1. /\ SubSeq(Candidates, 1, k) \o PageOf(Candidates, p, ScanPage) = SubSeq(Candidates, 1, to)
        /\ Len(PageOf(Candidates, p, ScanPage)) = to - k
        /\ Len(SubSeq(Candidates, 1, to)) = to
    BY <1>1, <1>2, PagesJoin, Zenon
  <2> QED BY <1>2, <2>1, Zenon
<1>4. k \in Nat /\ p * ScanPage = k + ScanPage /\ p * ScanPage \in Nat
  <2> HIDE DEF p, n
  <2> QED BY <1>1
<1>5. p = MaxPages => p * ScanPage >= MaxRows
  BY PagesCover
<1>6.   \/ batch = <<>> \/ Len(rows) >= MaxRows
        \/ n > 0 /\ Len(rows) >= n
        \/ Len(batch) < ScanPage \/ p = MaxPages
  <2>1. LastPage(batch, rows)
    OBVIOUS
  <2> HIDE DEF rows
  <2> QED BY <2>1 DEF LastPage, ReportedCount
<1>7. batch = <<>> => Len(batch) = 0
  OBVIOUS
<1> DEFINE end == p * ScanPage
<1>8. k \in Nat /\ end \in Nat /\ end = k + ScanPage /\ (p = MaxPages => end >= MaxRows)
      /\ to = Least(end, n)
  BY <1>4, <1>5
<1> HIDE DEF n, k, to, rows, p, end
<1>9. to = n
  BY <1>1, <1>2, <1>3, <1>6, <1>7, <1>8 DEF Least
<1>10. SubSeq(Candidates, 1, n) = Candidates
  BY <1>1, SubSeqFull DEF n
<1> QED BY <1>3, <1>9, <1>10 DEF rows

\* A page that does not end the scan is full.
LEMMA ScanGoesOn ==
  ASSUME CmdbInv, phase = "get", req.filters # {}, scan.steady,
         NEW batch, batch = PageOf(Candidates, scan.page, ScanPage),
         ~LastPage(batch, scan.rows \o batch)
  PROVE  /\ scan.page * ScanPage <= Len(Candidates)
         /\ scan.rows \o batch = SubSeq(Candidates, 1, scan.page * ScanPage)
<1> DEFINE p == scan.page
           n == Len(Candidates)
           k == (p - 1) * ScanPage
           end == p * ScanPage
           to == Least(end, n)
           rows == scan.rows \o batch
<1>1. /\ p \in Nat \ {0} /\ ScanPage \in Nat \ {0}
      /\ Candidates \in Seq(Machines) /\ n \in Nat
  BY SizesAssumption, ServedRows, LenProperties DEF CmdbInv, CmdbTypeOK
<1>2. k <= n /\ scan.rows = SubSeq(Candidates, 1, k)
  BY DEF CmdbInv, ScanFits
<1>3. rows = SubSeq(Candidates, 1, to) /\ Len(batch) = to - k
  <2>1. /\ SubSeq(Candidates, 1, k) \o PageOf(Candidates, p, ScanPage) = SubSeq(Candidates, 1, to)
        /\ Len(PageOf(Candidates, p, ScanPage)) = to - k
    <3> DEFINE wanted == Candidates
    <3>1. /\ wanted \in Seq(Machines) /\ p \in Nat \ {0} /\ ScanPage \in Nat \ {0}
          /\ (p - 1) * ScanPage <= Len(wanted)
      BY <1>1, <1>2
    <3> HIDE DEF p, wanted
    <3>2. /\ SubSeq(wanted, 1, (p - 1) * ScanPage) \o PageOf(wanted, p, ScanPage)
               = SubSeq(wanted, 1, Least(p * ScanPage, Len(wanted)))
          /\ Len(PageOf(wanted, p, ScanPage))
               = Least(p * ScanPage, Len(wanted)) - (p - 1) * ScanPage
      BY <3>1, PagesJoin
    <3> QED BY <3>2 DEF p, wanted
  <2> QED BY <1>2, <2>1, Zenon
<1>4. k \in Nat /\ end = k + ScanPage /\ end \in Nat
  BY <1>1
<1>5. ~(Len(batch) < ScanPage)
  BY DEF LastPage
<1>6. to = Least(end, n)
  OBVIOUS
<1> HIDE DEF n, k, to, rows, p, end
<1>7. to = end /\ end <= n
  BY <1>1, <1>2, <1>3, <1>4, <1>5, <1>6 DEF Least
<1> QED BY <1>3, <1>7 DEF rows, end, n, p

\* Before its first page a scan has read nothing.
LEMMA ScanBegins ==
  ASSUME NEW filtered, NEW page,
         scan' = [NewScan(filtered) EXCEPT !.page = page],
         phase' = "get" /\ req'.filters # {} => page = 1,
         table' \in Seq(Machines)
  PROVE  ScanFits'
<1>1. scan' = [filtered |-> filtered, page |-> page, rows |-> <<>>, tries |-> 0, steady |-> TRUE]
  BY DEF NewScan
<1>2. Candidates' \in Seq(Machines)
  <2>1. Candidates' = Kept(table', Served')
    BY DEF Candidates, Served
  <2> QED BY <2>1, KeptRows
<1>3. Len(Candidates') \in Nat /\ SubSeq(Candidates', 1, 0) = <<>>
  BY <1>2, LenProperties, SubSeqEmpty
<1>4. (1 - 1) * ScanPage = 0
  BY SizesAssumption
<1>5. ASSUME phase' = "get", req'.filters # {}
      PROVE  /\ (scan'.page - 1) * ScanPage <= Len(Candidates')
             /\ scan'.rows = SubSeq(Candidates', 1, (scan'.page - 1) * ScanPage)
  <2>1. (scan'.page - 1) * ScanPage = 0 /\ scan'.rows = <<>>
    BY <1>1, <1>4, <1>5
  <2>2. 0 <= Len(Candidates')
    BY <1>3
  <2> QED BY <1>3, <2>1, <2>2
<1>6. scan' = [filtered |-> scan'.filtered, page |-> scan'.page, rows |-> scan'.rows,
               tries |-> scan'.tries, steady |-> scan'.steady]
  BY <1>1
<1> QED BY <1>5, <1>6 DEF ScanFits

-----------------------------------------------------------------------------
(* The adapter *)

\* An answer of the adapter is passed on.
LEMMA ConcludeKeeps ==
  ASSUME CmdbInv, phase = "get", NEW a, WholeAnswer(a), a.kind = req.kind, Matching(a, req),
         req.kind = "resolver" => Findable(a, req.keyword),
         Conclude(a), scan' = scan, UNCHANGED <<table, server, req>>
  PROVE  CmdbInv'
<1>1. answer' = a /\ phase' = IF req.kind = "resolver" THEN "match" ELSE "idle"
  BY DEF Conclude
<1>2. device' \in Machines \cup {Nothing}
  <2>1. a.items \in Seq(Machines)
    BY DEF WholeAnswer
  <2>2. Len(a.items) = 1 => a.items[1] \in Machines
    BY <2>1, ElementOfSeq
  <2> QED BY <2>2 DEF Conclude, RememberedDevice, CmdbInv, CmdbTypeOK
<1>3. CmdbTypeOK'
  BY <1>1, <1>2 DEF CmdbInv, CmdbTypeOK, WholeAnswer
<1>4. TableFits' /\ RequestFits'
  BY <1>1 DEF CmdbInv, TableFits, RequestFits, Request
<1>5. ScanFits'
  BY <1>1 DEF CmdbInv, ScanFits
<1>6. AnswerFits'
  BY <1>1 DEF AnswerFits, WholeAnswer, Findable
<1>7. AnswerMatches' /\ ResolvedIsNamed'
  BY <1>1 DEF AnswerMatches, ResolvedIsNamed, Matching
<1> QED BY <1>3, <1>4, <1>5, <1>6, <1>7 DEF CmdbInv

\* The answer of a scan that has read read.
LEMMA ScanAnswers ==
  ASSUME CmdbInv, phase = "get", req.filters # {}, NEW read \in Seq(Machines), NEW exact,
         exact => read = Candidates, NEW left, left = LocalFilterRows(read)
  PROVE  /\ WholeAnswer(Found(PageOf(left, req.page, req.size), Len(left), exact))
         /\ Found(PageOf(left, req.page, req.size), Len(left), exact).kind = req.kind
         /\ Matching(Found(PageOf(left, req.page, req.size), Len(left), exact), req)
         /\ req.kind = "resolver" =>
              Findable(Found(PageOf(left, req.page, req.size), Len(left), exact), req.keyword)
<1> DEFINE items == PageOf(left, req.page, req.size)
           a == Found(items, Len(left), exact)
<1>1. /\ left \in Seq(Machines) /\ ToSet(left) = ToSet(read) \cap Wanted
      /\ IsInjective(read) => IsInjective(left)
  BY FilteredRows
<1>2. req.page \in Nat \ {0} /\ req.size \in Nat \ {0}
  BY DEF CmdbInv, RequestFits, Request
<1>3. /\ items \in Seq(Machines) /\ ToSet(items) \subseteq ToSet(left)
      /\ req.page = 1 /\ Len(left) <= req.size => items = left
  BY <1>1, <1>2, PageFacts
<1>4. Len(left) \in Nat
  BY <1>1, LenProperties
<1>5. exact => ToSet(left) = TrueRows /\ Len(left) = Cardinality(TrueRows)
  <2> SUFFICES ASSUME exact PROVE ToSet(left) = TrueRows /\ Len(left) = Cardinality(TrueRows)
    OBVIOUS
  <2>1. ToSet(left) = TrueRows /\ IsInjective(left)
    BY <1>1, ServedRows
  <2> QED BY <1>1, <2>1, LengthCounts
<1> HIDE DEF items
<1>6. a = [status |-> "ok", kind |-> req.kind, items |-> items, count |-> Len(left),
           code |-> "", cause |-> "", exact |-> exact, truth |-> TrueRows,
           entry |-> Nothing]
  BY DEF Found
<1> HIDE DEF a
<1>7. WholeAnswer(a)
  BY <1>3, <1>4, <1>5, <1>6 DEF WholeAnswer
<1>8. Matching(a, req)
  BY <1>1, <1>3, <1>6 DEF Matching, Wanted
<1>9. req.kind = "resolver" => Findable(a, req.keyword)
  BY <1>3, <1>5, <1>6 DEF Findable, CmdbInv, RequestFits, Request
<1>10. a.kind = req.kind
  BY <1>6
<1> QED BY <1>7, <1>8, <1>9, <1>10 DEF a, items

LEMMA GetPageKeeps ==
  ASSUME CmdbInv, GetPage
  PROVE  CmdbInv'
<1> DEFINE batch == PageOf(Candidates, scan.page, ScanPage)
           rows == scan.rows \o batch
           read == FirstRows(rows)
           left == LocalFilterRows(read)
           exact == scan.steady /\ server.total /\ Len(Candidates) <= MaxRows
           a == Found(PageOf(left, req.page, req.size), Len(left), exact)
<1>1. /\ phase = "get" /\ req.filters # {}
      /\ IF LastPage(batch, rows)
           THEN Conclude(a) /\ scan' = scan
           ELSE /\ scan' = [scan EXCEPT !.page = @ + 1, !.rows = rows, !.tries = 0]
                /\ UNCHANGED <<phase, answer, device>>
      /\ UNCHANGED <<table, server, req>>
  BY DEF GetPage
<1>2. /\ scan.page \in Nat \ {0} /\ ScanPage \in Nat \ {0} /\ MaxRows \in Nat \ {0}
      /\ Candidates \in Seq(Machines)
  BY SizesAssumption, ServedRows DEF CmdbInv, CmdbTypeOK
<1>3. batch \in Seq(Machines)
  BY <1>2, PageFacts
<1>4. rows \in Seq(Machines)
  BY <1>3, ConcatProperties DEF CmdbInv, CmdbTypeOK
<1>5. CASE LastPage(batch, rows)
  <2>1. exact => rows = Candidates
    BY <1>1, <1>5, ScanReadsAll
  <2> HIDE DEF rows
  <2>2. Len(rows) \in Nat
    BY <1>4, LenProperties
  <2>3. read \in Seq(Machines)
    <3> DEFINE n == IF Len(rows) < MaxRows THEN Len(rows) ELSE MaxRows
    <3>1. n \in Nat /\ n <= Len(rows) /\ read = SubSeq(rows, 1, n)
      BY <1>2, <2>2 DEF FirstRows
    <3>2. \A i \in 1..n : rows[i] \in Machines
      BY <1>4, <2>2, <3>1, ElementOfSeq
    <3> HIDE DEF n, read
    <3> QED BY <3>1, <3>2, SubSeqProperties
  <2>4. exact => read = Candidates
    <3> SUFFICES ASSUME exact PROVE read = Candidates
      OBVIOUS
    <3>1. rows = Candidates /\ Len(rows) <= MaxRows
      BY <2>1
    <3>2. read = SubSeq(rows, 1, Len(rows))
      BY <1>2, <2>2, <3>1 DEF FirstRows
    <3> QED BY <1>4, <3>1, <3>2, SubSeqFull
  <2> HIDE DEF read, exact
  <2>5. /\ WholeAnswer(a) /\ a.kind = req.kind /\ Matching(a, req)
        /\ req.kind = "resolver" => Findable(a, req.keyword)
    BY <1>1, <2>3, <2>4, ScanAnswers
  <2> HIDE DEF a
  <2> QED BY <1>1, <1>5, <2>5, ConcludeKeeps
<1>6. CASE ~LastPage(batch, rows)
  <2>1. scan.steady => /\ scan.page * ScanPage <= Len(Candidates)
                       /\ rows = SubSeq(Candidates, 1, scan.page * ScanPage)
    BY <1>1, <1>6, ScanGoesOn
  <2> HIDE DEF rows
  <2>2. scan' = [filtered |-> scan.filtered, page |-> scan.page + 1, rows |-> rows,
                 tries |-> 0, steady |-> scan.steady]
    BY <1>1, <1>6 DEF CmdbInv, ScanFits
  <2>3. UNCHANGED <<table, server, req, phase, answer, device>>
    BY <1>1, <1>6
  <2>4. Candidates' = Candidates
    BY <2>2, <2>3 DEF Candidates, SentFilters
  <2>5. CmdbTypeOK'
    <3>1. 0 \in 0..Retries
      BY SizesAssumption
    <3> QED BY <1>2, <1>4, <2>2, <2>3, <3>1 DEF CmdbInv, CmdbTypeOK
  <2>6. ScanFits'
    <3>1. scan'.page - 1 = scan.page /\ scan'.rows = rows /\ scan'.steady = scan.steady
      BY <1>2, <2>2
    <3>2. scan' = [filtered |-> scan'.filtered, page |-> scan'.page, rows |-> scan'.rows,
                   tries |-> scan'.tries, steady |-> scan'.steady]
      BY <2>2
    <3> QED BY <2>1, <2>4, <3>1, <3>2 DEF ScanFits, CmdbInv
  <2>7. TableFits' /\ RequestFits' /\ AnswerFits'
    BY <2>3 DEF CmdbInv, TableFits, RequestFits, Request, AnswerFits, WholeAnswer, Findable
  <2>8. AnswerMatches' /\ ResolvedIsNamed'
    BY <1>1, <2>3 DEF AnswerMatches, ResolvedIsNamed
  <2> QED BY <2>5, <2>6, <2>7, <2>8 DEF CmdbInv
<1> QED BY <1>5, <1>6

LEMMA GetUnfilteredKeeps ==
  ASSUME CmdbInv, GetUnfiltered
  PROVE  CmdbInv'
<1> DEFINE batch == PageOf(table, scan.page, req.size)
           a == Found(batch, ReportedCount(batch), server.total)
<1>1. /\ phase = "get" /\ req.filters = {} /\ Conclude(a) /\ scan' = scan
      /\ UNCHANGED <<table, server, req>>
  BY DEF GetUnfiltered
<1>2. /\ table \in Seq(Machines) /\ scan.page \in Nat \ {0} /\ req.size \in Nat \ {0}
      /\ req.kind # "resolver"
  BY <1>1 DEF CmdbInv, CmdbTypeOK, RequestFits, Request
<1>3. batch \in Seq(Machines) /\ ToSet(batch) \subseteq ToSet(table)
  BY <1>2, PageFacts
<1>4. TrueRows = ToSet(table)
  BY <1>1 DEF TrueRows
<1>5. /\ Candidates \in Seq(Machines) /\ IsInjective(Candidates)
      /\ ToSet(Candidates) = ToSet(table)
  <2>1. SentFilters = {}
    BY <1>1 DEF SentFilters
  <2>2. ToSet(table) \subseteq Served
    BY <1>2, <2>1, ElementOfSeq, LenProperties DEF ToSet, Served
  <2> QED BY <2>2, ServedRows
<1>6. Len(Candidates) \in Nat /\ Len(batch) \in Nat
  BY <1>3, <1>5, LenProperties
<1>7. /\ ReportedCount(batch) \in Nat
      /\ server.total => ReportedCount(batch) = Cardinality(TrueRows)
  BY <1>4, <1>5, <1>6, LengthCounts DEF ReportedCount
<1> HIDE DEF batch
<1>8. a = [status |-> "ok", kind |-> req.kind, items |-> batch, count |-> ReportedCount(batch),
           code |-> "", cause |-> "", exact |-> server.total, truth |-> TrueRows,
           entry |-> Nothing]
  BY DEF Found
<1> HIDE DEF a
<1>9. WholeAnswer(a)
  BY <1>3, <1>4, <1>7, <1>8 DEF WholeAnswer
<1>10. Matching(a, req)
  BY <1>1 DEF Matching
<1> QED BY <1>1, <1>2, <1>8, <1>9, <1>10, ConcludeKeeps

LEMMA GetFailsKeeps ==
  ASSUME CmdbInv, NEW cause, GetFails(cause)
  PROVE  CmdbInv'
<1> DEFINE a == NotFetched(cause)
<1>1. phase = "get" /\ UNCHANGED <<table, server, req>>
  BY DEF GetFails
<1>2. CASE Final(cause) /\ ~FallsBack
  <2>1. Conclude(a) /\ scan' = scan
    BY <1>2 DEF GetFails
  <2>2. /\ WholeAnswer(a) /\ a.kind = req.kind /\ Matching(a, req)
        /\ Findable(a, req.keyword)
    BY DEF NotFetched, WholeAnswer, Matching, Findable
  <2> QED BY <1>1, <2>1, <2>2, ConcludeKeeps
<1>3. CASE ~Final(cause)
  <2>1. /\ scan' = [filtered |-> scan.filtered, page |-> scan.page, rows |-> scan.rows,
                    tries |-> scan.tries + 1, steady |-> scan.steady]
        /\ UNCHANGED <<phase, answer, device>>
    BY <1>3 DEF GetFails, CmdbInv, ScanFits
  <2>2. scan.tries + 1 \in 0..Retries
    BY <1>3, SizesAssumption DEF Final, CmdbInv, CmdbTypeOK
  <2>3. Candidates' = Candidates
    BY <1>1, <2>1 DEF Candidates, SentFilters
  <2>4. CmdbTypeOK'
    BY <1>1, <2>1, <2>2 DEF CmdbInv, CmdbTypeOK
  <2>5. ScanFits'
    BY <1>1, <2>1, <2>3 DEF CmdbInv, ScanFits
  <2>6. TableFits' /\ RequestFits' /\ AnswerFits'
    BY <1>1, <2>1 DEF CmdbInv, TableFits, RequestFits, Request, AnswerFits, WholeAnswer,
                      Findable
  <2>7. AnswerMatches' /\ ResolvedIsNamed'
    BY <1>1, <2>1 DEF AnswerMatches, ResolvedIsNamed
  <2> QED BY <2>4, <2>5, <2>6, <2>7 DEF CmdbInv
<1>4. CASE Final(cause) /\ FallsBack
  <2>1. scan' = NewScan(FALSE) /\ UNCHANGED <<phase, answer, device>>
    BY <1>4 DEF GetFails
  <2>2. CmdbTypeOK'
    <3>1. 0 \in 0..Retries /\ <<>> \in Seq(Machines)
      BY SizesAssumption
    <3> QED BY <1>1, <2>1, <3>1 DEF CmdbInv, CmdbTypeOK, NewScan
  <2>3. TableFits' /\ RequestFits' /\ AnswerFits'
    BY <1>1, <2>1 DEF CmdbInv, TableFits, RequestFits, Request, AnswerFits, WholeAnswer,
                      Findable
  <2>4. ScanFits'
    <3>1. scan' = [NewScan(FALSE) EXCEPT !.page = 1]
      BY <2>1 DEF NewScan
    <3> QED BY <2>2, <3>1, ScanBegins DEF CmdbTypeOK
  <2>5. AnswerMatches' /\ ResolvedIsNamed'
    BY <1>1, <2>1 DEF AnswerMatches, ResolvedIsNamed
  <2> QED BY <2>2, <2>3, <2>4, <2>5 DEF CmdbInv
<1> QED BY <1>2, <1>3, <1>4
-----------------------------------------------------------------------------
(* Requests *)

\* A query of the adapter begins.
LEMMA StartKeeps ==
  ASSUME CmdbInv, NEW r, Request(r), Start(r), UNCHANGED <<table, server, answer, device>>
  PROVE  CmdbInv'
<1> DEFINE filtered == r.filters # {}
           page == IF r.filters # {} THEN 1 ELSE r.page
<1>1. req' = r /\ phase' = "get" /\ scan' = [NewScan(filtered) EXCEPT !.page = page]
  BY DEF Start
<1>2. page \in Nat \ {0} /\ (r.filters # {} => page = 1)
  BY DEF Request
<1> HIDE DEF filtered, page
<1>3. scan'.page = page /\ scan'.rows = <<>> /\ scan'.tries = 0
  BY <1>1 DEF NewScan
<1>4. 0 \in 0..Retries /\ <<>> \in Seq(Machines)
  BY SizesAssumption
<1>5. CmdbTypeOK'
  BY <1>1, <1>2, <1>3, <1>4 DEF CmdbInv, CmdbTypeOK, Request
<1>6. ScanFits'
  BY <1>1, <1>2, <1>5, ScanBegins DEF CmdbTypeOK
<1>7. TableFits' /\ AnswerFits'
  BY <1>1 DEF CmdbInv, TableFits, AnswerFits, WholeAnswer
<1>8. RequestFits'
  BY <1>1 DEF RequestFits, Request
<1>9. AnswerMatches' /\ ResolvedIsNamed'
  BY <1>1 DEF AnswerMatches, ResolvedIsNamed
<1> QED BY <1>5, <1>6, <1>7, <1>8, <1>9 DEF CmdbInv

\* An answer without a query.
LEMMA RefusalFacts ==
  ASSUME NEW kind, NEW status, status # "ok", NEW a,
         a = [NoAnswer EXCEPT !.kind = kind, !.status = status]
  PROVE  WholeAnswer(a) /\ a.kind = kind /\ a.status # "ok"
<1>1. /\ a.kind = kind /\ a.status = status
      /\ a.items = <<>> /\ a.count = 0
      /\ a = [status |-> a.status, kind |-> a.kind, items |-> a.items, count |-> a.count,
              code |-> a.code, cause |-> a.cause, exact |-> a.exact, truth |-> a.truth,
              entry |-> a.entry]
  BY DEF NoAnswer
<1>2. a.items \in Seq(Machines) /\ a.count \in Nat /\ a.status # "ok"
  <2>1. <<>> \in Seq(Machines) /\ 0 \in Nat
    OBVIOUS
  <2> QED BY <1>1, <2>1, Zenon
<1>3. WholeAnswer(a)
  BY <1>1, <1>2, Zenon DEF WholeAnswer
<1> QED BY <1>1, <1>3

LEMMA RefusalKeeps ==
  ASSUME CmdbInv, NEW a, WholeAnswer(a), a.kind # "resolver", a.status # "ok", answer' = a,
         phase' = "idle", Request(req'), UNCHANGED <<table, server, scan, device>>
  PROVE  CmdbInv'
<1>1. a.items \in Seq(Machines) /\ a.count \in Nat /\ req'.filters \subseteq Filters
  BY DEF WholeAnswer, Request
<1>2. CmdbTypeOK'
  BY <1>1 DEF CmdbInv, CmdbTypeOK
<1>3. TableFits' /\ RequestFits' /\ ScanFits'
  BY DEF CmdbInv, TableFits, RequestFits, Request, ScanFits
<1>4. AnswerFits'
  BY DEF AnswerFits, WholeAnswer
<1>5. AnswerMatches' /\ ResolvedIsNamed'
  BY DEF AnswerMatches, ResolvedIsNamed
<1> QED BY <1>2, <1>3, <1>4, <1>5 DEF CmdbInv

LEMMA UseKeeps ==
  ASSUME CmdbInv, NEW r, Request(r), r.kind \in {"chat", "compare"},
         NEW parsed, parsed.filters \subseteq Filters, Use(r, parsed),
         UNCHANGED <<table, server, device>>
  PROVE  CmdbInv'
<1>1. CASE parsed.intent = "clarify" \/ r.kind = "compare"
  <2> DEFINE status == IF parsed.intent = "clarify" THEN "need_clarification" ELSE "parsed"
  <2>1. /\ req' = [r EXCEPT !.filters = parsed.filters]
        /\ answer' = [NoAnswer EXCEPT !.kind = r.kind, !.status = status]
        /\ phase' = "idle" /\ scan' = scan
    BY <1>1 DEF Use
  <2>2. Request(req')
    BY <2>1 DEF Request
  <2>3. status # "ok"
    OBVIOUS
  <2>4. WholeAnswer(answer') /\ answer'.kind # "resolver" /\ answer'.status # "ok"
    <3> HIDE DEF status
    <3> QED BY <2>1, <2>3, RefusalFacts
  <2> QED BY <2>1, <2>2, <2>4, RefusalKeeps
<1>2. CASE ~(parsed.intent = "clarify" \/ r.kind = "compare")
  <2> DEFINE q == [r EXCEPT !.filters = parsed.filters,
                            !.size = IF parsed.intent = "detail" THEN DetailSize ELSE PageSize]
  <2>1. Start(q) /\ answer' = answer
    BY <1>2 DEF Use
  <2> DEFINE size == IF parsed.intent = "detail" THEN DetailSize ELSE PageSize
  <2>e. q = [r EXCEPT !.filters = parsed.filters, !.size = size]
    OBVIOUS
  <2>s. size \in Nat \ {0}
    BY SizesAssumption
  <2> HIDE DEF q, size
  <2>q. q = [kind |-> r.kind, mode |-> r.mode, rule |-> r.rule, cfg |-> r.cfg,
             filters |-> parsed.filters, page |-> r.page, size |-> size,
             keyword |-> r.keyword, named |-> r.named, asked |-> r.asked]
    BY <2>e DEF Request
  <2>2. Request(q)
    BY <1>2, <2>s, <2>q DEF Request
  <2> QED BY <2>1, <2>2, StartKeeps
<1> QED BY <1>1, <1>2

\* What the rules make of a question.
LEMMA RuleFacts ==
  ASSUME NEW inquiry \in Inquiries
  PROVE  Rule(inquiry).filters \subseteq Filters
<1>1. inquiry.ip \in Keywords \cup {Nothing} /\ inquiry.filters \subseteq Filters
  BY InputsAssumption
<1>2. Keywords \subseteq Filters /\ WholeText \in Filters
  BY ConditionsAssumption
<1>3. \/ Rule(inquiry).filters = {inquiry.ip} /\ inquiry.ip # Nothing
      \/ Rule(inquiry).filters = inquiry.filters
      \/ Rule(inquiry).filters = {WholeText}
      \/ Rule(inquiry).filters = {}
  BY DEF Rule
<1> QED BY <1>1, <1>2, <1>3

\* A request without more than its kind.
LEMMA NoRequestFacts ==
  /\ NoRequest = [kind |-> "none", mode |-> "auto", rule |-> NoRequest.rule, cfg |-> Nothing,
                  filters |-> {}, page |-> 1, size |-> PageSize, keyword |-> Nothing,
                  named |-> TRUE, asked |-> {}]
  /\ NoRequest.rule.filters = {}
  /\ PageSize \in Nat \ {0}
BY SizesAssumption DEF NoRequest, Rule

LEMMA ParseKeeps ==
  ASSUME CmdbInv, NEW kind \in {"chat", "compare"}, NEW inquiry \in Inquiries, NEW mode,
         NEW cfg, Parse(kind, inquiry, mode, cfg)
  PROVE  CmdbInv'
<1> DEFINE rule == Rule(inquiry)
           r == [NoRequest EXCEPT !.kind = kind, !.mode = mode, !.rule = rule,
                                  !.cfg = cfg, !.asked = rule.filters]
<1>1. rule.filters \subseteq Filters
  BY RuleFacts
<1>2. /\ UNCHANGED <<table, server, device>>
      /\ \/ phase' = "ask" /\ req' = r /\ UNCHANGED <<scan, answer>>
         \/ Use(r, rule)
  BY DEF Parse
<1>e. r = [NoRequest EXCEPT !.kind = kind, !.mode = mode, !.rule = rule,
                          !.cfg = cfg, !.asked = rule.filters]
  OBVIOUS
<1> HIDE DEF rule, r
<1>3. r = [kind |-> kind, mode |-> mode, rule |-> rule, cfg |-> cfg, filters |-> {},
           page |-> 1, size |-> PageSize, keyword |-> Nothing, named |-> TRUE,
           asked |-> rule.filters]
  BY <1>e DEF NoRequest
<1>4. Request(r) /\ r.kind \in {"chat", "compare"}
  BY <1>1, <1>3, NoRequestFacts DEF Request
<1>5. CASE Use(r, rule)
  BY <1>1, <1>2, <1>4, <1>5, UseKeeps
<1>6. CASE phase' = "ask" /\ req' = r /\ UNCHANGED <<scan, answer>>
  <2>1. UNCHANGED <<table, server, device, scan, answer>> /\ phase' = "ask" /\ req' = r
    BY <1>2, <1>6
  <2>2. CmdbTypeOK'
    BY <1>4, <2>1 DEF CmdbInv, CmdbTypeOK, Request
  <2>3. TableFits' /\ ScanFits' /\ AnswerFits'
    BY <2>1 DEF CmdbInv, TableFits, ScanFits, AnswerFits, WholeAnswer
  <2>4. RequestFits'
    BY <1>4, <2>1 DEF RequestFits, Request
  <2>5. AnswerMatches' /\ ResolvedIsNamed'
    BY <2>1 DEF AnswerMatches, ResolvedIsNamed
  <2> QED BY <2>2, <2>3, <2>4, <2>5 DEF CmdbInv
<1> QED BY <1>2, <1>5, <1>6

\* A step that leaves the query, its answer and the CMDB alone.
LEMMA CmdbAskKeeps ==
  ASSUME CmdbInv, UNCHANGED <<table, server, phase, req, scan, answer, device>>
  PROVE  CmdbInv'
<1>1. CmdbTypeOK' /\ TableFits' /\ RequestFits'
  BY DEF CmdbInv, CmdbTypeOK, TableFits, RequestFits, Request
<1>2. Candidates' = Candidates
  BY DEF Candidates, SentFilters
<1>3. ScanFits'
  BY <1>2 DEF CmdbInv, ScanFits
<1>4. AnswerFits'
  BY DEF CmdbInv, AnswerFits, WholeAnswer, Findable
<1>5. AnswerMatches' /\ ResolvedIsNamed'
  BY DEF CmdbInv, AnswerMatches, ResolvedIsNamed
<1> QED BY <1>1, <1>3, <1>4, <1>5 DEF CmdbInv

LEMMA LlmWithoutPlanKeeps ==
  ASSUME CmdbInv, LlmWithoutPlan
  PROVE  CmdbInv'
<1>1. /\ Request(req) /\ req.kind \in {"chat", "compare"} /\ Use(req, req.rule)
      /\ UNCHANGED <<table, server, device>>
  BY DEF LlmWithoutPlan, CmdbInv, RequestFits
<1>2. req.rule.filters \subseteq Filters
  BY <1>1 DEF Request
<1> QED BY <1>1, <1>2, UseKeeps

LEMMA LlmPlanKeeps ==
  ASSUME CmdbInv, NEW toolPlan \in ToolPlans, LlmPlan(toolPlan)
  PROVE  CmdbInv'
<1> DEFINE llm == SanitizePlan(toolPlan)
           chosen == IF AcceptLlm(req.rule, llm, toolPlan, req.mode, req.cfg) THEN llm ELSE req.rule
<1>1. /\ Request(req) /\ req.kind \in {"chat", "compare"} /\ Use(req, chosen)
      /\ UNCHANGED <<table, server, device>>
  BY DEF LlmPlan, CmdbInv, RequestFits
<1>2. toolPlan.keyword \in Keywords \cup {Nothing} /\ Keywords \subseteq Filters
  BY InputsAssumption, ConditionsAssumption
<1>3. \/ llm.filters = toolPlan.filters \cap Filters
      \/ llm.filters = {toolPlan.keyword} /\ toolPlan.keyword # Nothing
      \/ llm.filters = {}
  BY DEF SanitizePlan, SanitizeFilters
<1>4. llm.filters \subseteq Filters /\ req.rule.filters \subseteq Filters
  BY <1>1, <1>2, <1>3 DEF Request
<1> HIDE DEF llm
<1>5. chosen.filters \subseteq Filters
  BY <1>4
<1> HIDE DEF chosen
<1> QED BY <1>1, <1>5, UseKeeps

\* The keyword, list or filters the handler asks for are conditions the CMDB
\* adapter knows.
LEMMA HandlerFacts ==
  ASSUME CmdbInv, NEW spec \in Specs, ~Invalid(spec)
  PROVE  HandlerFilters(spec) \subseteq Filters
<1>1. /\ spec.keyword \in Keywords \cup {Nothing} /\ spec.hint \in Keywords \cup {Nothing}
      /\ spec.filters \subseteq Filters \cup {Unknown} /\ spec.ips \in Lists \cup {Nothing}
  BY InputsAssumption
<1>2. Keywords \subseteq Filters /\ Lists \subseteq Filters
  BY ConditionsAssumption
<1>3. HandlerKeyword(spec) \in Keywords \cup {Nothing}
  <2>1. CASE spec.keyword = Nothing /\ spec.hint = Nothing /\ device # Nothing
    <3>1. device \in Machines
      BY <2>1 DEF CmdbInv, CmdbTypeOK
    <3>2. \E k \in Keywords \ Addresses : Owner[k] = device
      BY <3>1, ConditionsAssumption
    <3>3. HandlerKeyword(spec) = CHOOSE k \in Keywords \ Addresses : Owner[k] = device
      BY <2>1 DEF HandlerKeyword
    <3> QED BY <3>2, <3>3
  <2>2. CASE ~(spec.keyword = Nothing /\ spec.hint = Nothing /\ device # Nothing)
    BY <1>1, <2>2 DEF HandlerKeyword
  <2> QED BY <2>1, <2>2
<1>4. /\ Unknown \notin spec.filters
      /\ HandlerOperation(spec) = "detail" => HandlerKeyword(spec) # Nothing
      /\ HandlerOperation(spec) = "by_ips" => spec.ips # Nothing
  BY DEF Invalid
<1>5. \/ HandlerOperation(spec) = "detail" /\ HandlerFilters(spec) = {HandlerKeyword(spec)}
      \/ HandlerOperation(spec) = "by_ips" /\ HandlerFilters(spec) = {spec.ips}
      \/ HandlerFilters(spec) = spec.filters
  BY DEF HandlerFilters
<1> QED BY <1>1, <1>2, <1>3, <1>4, <1>5

LEMMA HandleKeeps ==
  ASSUME CmdbInv, NEW spec \in Specs, Handle(spec)
  PROVE  CmdbInv'
<1>1. UNCHANGED <<table, server, device>>
  BY DEF Handle
<1>2. CASE Invalid(spec)
  <2>1. /\ answer' = [NoAnswer EXCEPT !.status = "error", !.kind = "handler",
                                      !.cause = "invalid"]
        /\ phase = "idle" /\ UNCHANGED <<phase, req, scan>>
    BY <1>2 DEF Handle, Arrives
  <2>2. Request(req')
    BY <2>1 DEF CmdbInv, RequestFits
  <2>3. WholeAnswer(answer') /\ answer'.kind = "handler" /\ answer'.status # "ok"
    <3>1. /\ answer'.kind = "handler" /\ answer'.status = "error"
          /\ answer'.items = <<>> /\ answer'.count = 0
          /\ answer' = [status |-> answer'.status, kind |-> answer'.kind,
                        items |-> answer'.items, count |-> answer'.count,
                        code |-> answer'.code, cause |-> answer'.cause,
                        exact |-> answer'.exact, truth |-> answer'.truth,
                        entry |-> answer'.entry]
      BY <2>1 DEF NoAnswer
    <3>2. /\ answer'.items \in Seq(Machines) /\ answer'.count \in Nat
          /\ answer'.kind = "handler" /\ answer'.status # "ok"
      BY <3>1
    <3> QED BY <3>1, <3>2, Zenon DEF WholeAnswer
  <2> QED BY <1>1, <2>1, <2>2, <2>3, RefusalKeeps
<1>3. CASE ~Invalid(spec)
  <2> DEFINE page == IF HandlerOperation(spec) = "devices" THEN spec.page ELSE 1
             size == IF HandlerOperation(spec) = "detail" THEN DetailSize ELSE spec.size
             r == [NoRequest EXCEPT !.kind = "handler", !.named = spec.named,
                     !.asked = spec.filters, !.filters = HandlerFilters(spec),
                     !.page = page, !.size = size]
  <2>1. Start(r) /\ answer' = answer
    BY <1>3 DEF Handle
  <2>2. page \in Nat \ {0} /\ size \in Nat \ {0}
    BY InputsAssumption, SizesAssumption
  <2> HIDE DEF page, size
  <2>3. HandlerFilters(spec) \subseteq Filters
    BY <1>3, HandlerFacts
  <2>e. r = [NoRequest EXCEPT !.kind = "handler", !.named = spec.named,
               !.asked = spec.filters, !.filters = HandlerFilters(spec),
               !.page = page, !.size = size]
    OBVIOUS
  <2> HIDE DEF r
  <2>r. r = [kind |-> "handler", mode |-> "auto", rule |-> NoRequest.rule, cfg |-> Nothing,
             filters |-> HandlerFilters(spec), page |-> page, size |-> size,
             keyword |-> Nothing, named |-> spec.named, asked |-> spec.filters]
    BY <2>e DEF NoRequest
  <2>4. Request(r)
    BY <2>2, <2>3, <2>r, NoRequestFacts DEF Request
  <2> QED BY <1>1, <2>1, <2>4, StartKeeps
<1> QED BY <1>2, <1>3

LEMMA ResolveKeeps ==
  ASSUME CmdbInv, NEW keyword \in Keywords, Resolve(keyword)
  PROVE  CmdbInv'
<1> DEFINE r == [NoRequest EXCEPT !.kind = "resolver", !.filters = {keyword},
                                  !.keyword = keyword, !.size = DetailSize]
<1>1. Start(r) /\ UNCHANGED <<table, server, answer, device>>
  BY DEF Resolve
<1>2. keyword \in Filters /\ DetailSize \in Nat \ {0}
  BY ConditionsAssumption, SizesAssumption
<1>e. r = [NoRequest EXCEPT !.kind = "resolver", !.filters = {keyword},
                          !.keyword = keyword, !.size = DetailSize]
  OBVIOUS
<1> HIDE DEF r
<1>r. r = [kind |-> "resolver", mode |-> "auto", rule |-> NoRequest.rule, cfg |-> Nothing,
           filters |-> {keyword}, page |-> 1, size |-> DetailSize, keyword |-> keyword,
           named |-> TRUE, asked |-> {}]
  BY <1>e DEF NoRequest
<1>3. Request(r)
  BY <1>2, <1>r, NoRequestFacts DEF Request
<1> QED BY <1>1, <1>3, StartKeeps

LEMMA QueryKeeps ==
  ASSUME CmdbInv, NEW kind \in {"tool", "direct"}, NEW call, call.filters \subseteq Filters,
         call.page \in Nat \ {0}, call.size \in Nat \ {0}, Query(kind, call)
  PROVE  CmdbInv'
<1> DEFINE r == [NoRequest EXCEPT !.kind = kind, !.filters = call.filters,
                                  !.page = call.page, !.size = call.size]
<1>1. Start(r) /\ UNCHANGED <<table, server, answer, device>>
  BY DEF Query
<1>e. r = [NoRequest EXCEPT !.kind = kind, !.filters = call.filters,
                          !.page = call.page, !.size = call.size]
  OBVIOUS
<1> HIDE DEF r
<1>r. r = [kind |-> kind, mode |-> "auto", rule |-> NoRequest.rule, cfg |-> Nothing,
           filters |-> call.filters, page |-> call.page, size |-> call.size,
           keyword |-> Nothing, named |-> TRUE, asked |-> {}]
  BY <1>e DEF NoRequest
<1>2. Request(r)
  BY <1>r, NoRequestFacts DEF Request
<1> QED BY <1>1, <1>2, StartKeeps

LEMMA EndpointsKeep ==
  ASSUME CmdbInv, NEW call \in Calls,
         QueryTool(call) \/ QueryDirect(call) \/ Export(call.filters)
  PROVE  CmdbInv'
<1>1. /\ call.filters \subseteq Filters /\ call.page \in Nat \ {0} /\ call.size \in Nat \ {0}
      /\ ExportSize \in Nat \ {0}
  BY InputsAssumption, SizesAssumption
<1>2. CASE QueryTool(call)
  BY <1>1, <1>2, QueryKeeps DEF QueryTool
<1>3. CASE QueryDirect(call)
  BY <1>1, <1>3, QueryKeeps DEF QueryDirect
<1>4. CASE Export(call.filters)
  <2> DEFINE first == [filters |-> call.filters, page |-> 1, size |-> ExportSize]
  <2>1. Query("direct", first)
    BY <1>4 DEF Export, QueryDirect
  <2>2. first.filters = call.filters /\ first.page = 1 /\ first.size = ExportSize
    OBVIOUS
  <2> HIDE DEF first
  <2> QED BY <1>1, <2>1, <2>2, QueryKeeps
<1> QED BY <1>2, <1>3, <1>4

\* The row and the entry the resolver chooses.
LEMMA MatchNetmikoKeeps ==
  ASSUME CmdbInv, NEW listed \in BOOLEAN, MatchNetmiko(listed)
  PROVE  CmdbInv'
<1> DEFINE k == req.keyword
           item == SelectItem(k, answer.items)
           entries == IF listed THEN NetmikoMatches(k, item) ELSE {}
<1>1. /\ phase = "match" /\ phase' = "idle"
      /\ UNCHANGED <<table, server, req, scan, device>>
  BY DEF MatchNetmiko
<1>2. PICK entry \in IF entries = {} THEN {Nothing} ELSE entries :
        answer' = [answer EXCEPT
            !.status = IF item = Nothing /\ entry = Nothing THEN "not_found"
                       ELSE IF answer.status = "ok" /\ entry # Nothing THEN "ok" ELSE "partial",
            !.items = IF item = Nothing THEN <<>> ELSE <<item>>, !.entry = entry]
  BY DEF MatchNetmiko
<1>3. /\ req.kind = "resolver" /\ answer.kind = "resolver" /\ Findable(answer, k)
      /\ k \in Keywords /\ WholeAnswer(answer) /\ answer.items \in Seq(Machines)
  BY <1>1 DEF CmdbInv, RequestFits, Request, AnswerFits, WholeAnswer
<1>4. Nothing \notin Machines /\ Owner[k] \in Machines
  BY <1>3, ConditionsAssumption
<1>5. item \in Machines \cup {Nothing}
  <2>1. answer.items # <<>> => answer.items[1] \in Machines
    <3> SUFFICES ASSUME answer.items # <<>> PROVE answer.items[1] \in Machines
      OBVIOUS
    <3>1. Len(answer.items) \in Nat /\ Len(answer.items) # 0
      BY <1>3, EmptySeq, LenProperties
    <3>2. 1 \in 1..Len(answer.items)
      BY <3>1
    <3> QED BY <1>3, <3>2, ElementOfSeq
  <2> QED BY <1>4, <2>1 DEF SelectItem
<1>6. Owner[k] \in ToSet(answer.items) => item = Owner[k]
  BY DEF SelectItem, ToSet
<1>7. item = Owner[k] /\ entry # Nothing => Owner[k] \in {entry.name, entry.address}
  <2> SUFFICES ASSUME item = Owner[k], entry # Nothing
               PROVE  Owner[k] \in {entry.name, entry.address}
    OBVIOUS
  <2>1. entry \in NetmikoMatches(k, item)
    BY <1>2
  <2>2. NetmikoMatches(k, item) \subseteq
          {e \in inventory : e.name = Owner[k]} \cup {e \in inventory : e.address = Owner[k]}
    BY DEF NetmikoMatches
  <2> QED BY <2>1, <2>2
<1> HIDE DEF k, item, entries
<1> DEFINE items == IF item = Nothing THEN <<>> ELSE <<item>>
<1>8. items \in Seq(Machines)
  BY <1>5
<1>9. /\ answer'.kind = "resolver" /\ answer'.items = items /\ answer'.entry = entry
      /\ answer'.count = answer.count /\ answer'.exact = answer.exact
      /\ answer'.truth = answer.truth
      /\ answer' = [status |-> answer'.status, kind |-> answer'.kind, items |-> answer'.items,
                    count |-> answer'.count, code |-> answer'.code, cause |-> answer'.cause,
                    exact |-> answer'.exact, truth |-> answer'.truth, entry |-> answer'.entry]
  BY <1>2, <1>3 DEF WholeAnswer
<1>10. WholeAnswer(answer')
  BY <1>3, <1>8, <1>9 DEF WholeAnswer
<1>11. CmdbTypeOK'
  BY <1>1, <1>8, <1>9, <1>10 DEF CmdbInv, CmdbTypeOK, WholeAnswer
<1>12. TableFits' /\ RequestFits' /\ ScanFits'
  BY <1>1 DEF CmdbInv, TableFits, RequestFits, Request, ScanFits
<1>13. AnswerFits' /\ AnswerMatches'
  BY <1>1, <1>9, <1>10 DEF AnswerFits, AnswerMatches, WholeAnswer
<1>14. ResolvedIsNamed'
  <2> SUFFICES ASSUME answer.exact, Owner[k] \in answer.truth,
                      Cardinality(answer.truth) <= DetailSize
               PROVE  /\ items = <<Owner[k]>>
                      /\ entry # Nothing => Owner[k] \in {entry.name, entry.address}
    BY <1>1, <1>9 DEF ResolvedIsNamed, k
  <2>1. item = Owner[k]
    BY <1>3, <1>6 DEF Findable
  <2> QED BY <1>4, <1>7, <2>1
<1> QED BY <1>11, <1>12, <1>13, <1>14 DEF CmdbInv
-----------------------------------------------------------------------------
(* All steps *)

\* Without one of its rows, a table still holds each row once.
LEMMA RowRemoved ==
  ASSUME NEW T, NEW rows \in Seq(T), IsInjective(rows), NEW i \in DOMAIN rows
  PROVE  RemoveAt(rows, i) \in Seq(T) /\ IsInjective(RemoveAt(rows, i))
<1> DEFINE n == Len(rows)
           left == SubSeq(rows, 1, i - 1)
           right == SubSeq(rows, i + 1, n)
           new == left \o right
<1>1. n \in Nat /\ DOMAIN rows = 1..n /\ i \in 1..n /\ \A j \in 1..n : rows[j] \in T
  BY LenProperties, ElementOfSeq
<1>2. RemoveAt(rows, i) = new
  BY DEF RemoveAt
<1> HIDE DEF n
<1>3. /\ left \in Seq(T) /\ Len(left) = i - 1
      /\ \A j \in 1..(i - 1) : left[j] = rows[j]
  <2>1. \A j \in 1..(i - 1) : rows[j] \in T
    BY <1>1
  <2> QED BY <1>1, <2>1, SubSeqProperties
<1>4. /\ right \in Seq(T) /\ Len(right) = n - i
      /\ \A j \in 1..(n - i) : right[j] = rows[i + j]
  <2>1. \A j \in (i + 1)..n : rows[j] \in T
    BY <1>1
  <2> QED BY <1>1, <2>1, SubSeqProperties
<1> HIDE DEF left, right
<1>5. /\ new \in Seq(T) /\ Len(new) = n - 1 /\ DOMAIN new = 1..(n - 1)
      /\ \A j \in 1..(n - 1) : new[j] = IF j < i THEN rows[j] ELSE rows[j + 1]
  <2>1. /\ new \in Seq(T) /\ Len(new) = Len(left) + Len(right)
        /\ \A j \in 1..(Len(left) + Len(right)) :
             new[j] = IF j <= Len(left) THEN left[j] ELSE right[j - Len(left)]
    BY <1>3, <1>4, ConcatProperties
  <2> HIDE DEF new
  <2>2. Len(new) = n - 1 /\ DOMAIN new = 1..(n - 1)
    BY <1>1, <1>3, <1>4, <2>1, LenProperties
  <2>3. ASSUME NEW j \in 1..(n - 1)
        PROVE  new[j] = IF j < i THEN rows[j] ELSE rows[j + 1]
    <3>1. new[j] = IF j <= i - 1 THEN left[j] ELSE right[j - (i - 1)]
      BY <1>1, <1>3, <1>4, <2>1
    <3>2. j < i => left[j] = rows[j]
      BY <1>1, <1>3
    <3>3. ~(j < i) => right[j - (i - 1)] = rows[j + 1]
      <4>1. ~(j < i) => j - (i - 1) \in 1..(n - i) /\ i + (j - (i - 1)) = j + 1
        BY <1>1
      <4> QED BY <1>4, <4>1
    <3> QED BY <1>1, <3>1, <3>2, <3>3
  <2> QED BY <2>1, <2>2, <2>3
<1> HIDE DEF new
<1> DEFINE old(j) == IF j < i THEN j ELSE j + 1
<1>6. \A j \in 1..(n - 1) : old(j) \in 1..n /\ new[j] = rows[old(j)]
  BY <1>1, <1>5
<1>7. ASSUME NEW j \in 1..(n - 1), NEW k \in 1..(n - 1), new[j] = new[k] PROVE j = k
  <2>1. old(j) \in 1..n /\ old(k) \in 1..n /\ rows[old(j)] = rows[old(k)]
    BY <1>6, <1>7
  <2>2. old(j) = old(k)
    <3> HIDE DEF old
    <3> QED BY <1>1, <2>1 DEF IsInjective
  <2> QED BY <1>1, <2>2
<1> QED BY <1>2, <1>5, <1>7 DEF IsInjective

\* With a row it did not hold, a table still holds each row once.
LEMMA RowInserted ==
  ASSUME NEW T, NEW rows \in Seq(T), IsInjective(rows), NEW i \in 1..(Len(rows) + 1),
         NEW d \in T \ ToSet(rows)
  PROVE  InsertAt(rows, i, d) \in Seq(T) /\ IsInjective(InsertAt(rows, i, d))
<1> DEFINE n == Len(rows)
           left == SubSeq(rows, 1, i - 1)
           first == left \o <<d>>
           right == SubSeq(rows, i, n)
           new == first \o right
<1>1. n \in Nat /\ DOMAIN rows = 1..n /\ i \in 1..(n + 1) /\ \A j \in 1..n : rows[j] \in T
  BY LenProperties, ElementOfSeq
<1>2. InsertAt(rows, i, d) = new
  BY DEF InsertAt
<1> HIDE DEF n
<1>3. /\ left \in Seq(T) /\ Len(left) = i - 1
      /\ \A j \in 1..(i - 1) : left[j] = rows[j]
  <2>1. \A j \in 1..(i - 1) : rows[j] \in T
    BY <1>1
  <2> QED BY <1>1, <2>1, SubSeqProperties
<1>4. /\ right \in Seq(T) /\ Len(right) = n - i + 1
      /\ \A j \in 1..(n - i + 1) : right[j] = rows[i + j - 1]
  <2>1. \A j \in i..n : rows[j] \in T
    BY <1>1
  <2> QED BY <1>1, <2>1, SubSeqProperties
<1> HIDE DEF left, right
<1>5. /\ first \in Seq(T) /\ Len(first) = i
      /\ \A j \in 1..i : first[j] = IF j < i THEN rows[j] ELSE d
  <2>1. <<d>> \in Seq(T) /\ Len(<<d>>) = 1 /\ <<d>>[1] = d
    OBVIOUS
  <2>2. /\ first \in Seq(T) /\ Len(first) = Len(left) + 1
        /\ \A j \in 1..(Len(left) + 1) :
             first[j] = IF j <= Len(left) THEN left[j] ELSE <<d>>[j - Len(left)]
    BY <1>3, <2>1, ConcatProperties
  <2> HIDE DEF first
  <2>3. ASSUME NEW j \in 1..i PROVE first[j] = IF j < i THEN rows[j] ELSE d
    <3>1. first[j] = IF j <= i - 1 THEN left[j] ELSE <<d>>[j - (i - 1)]
      BY <1>1, <1>3, <2>2
    <3>2. j < i => left[j] = rows[j]
      BY <1>1, <1>3
    <3>3. ~(j < i) => j - (i - 1) = 1
      BY <1>1
    <3> QED BY <1>1, <2>1, <3>1, <3>2, <3>3
  <2> QED BY <1>1, <1>3, <2>2, <2>3
<1> HIDE DEF first
<1>6. /\ new \in Seq(T) /\ Len(new) = n + 1 /\ DOMAIN new = 1..(n + 1)
      /\ \A j \in 1..(n + 1) : new[j] = IF j < i THEN rows[j]
                                        ELSE IF j = i THEN d ELSE rows[j - 1]
  <2>1. /\ new \in Seq(T) /\ Len(new) = Len(first) + Len(right)
        /\ \A j \in 1..(Len(first) + Len(right)) :
             new[j] = IF j <= Len(first) THEN first[j] ELSE right[j - Len(first)]
    BY <1>4, <1>5, ConcatProperties
  <2> HIDE DEF new
  <2>2. Len(new) = n + 1 /\ DOMAIN new = 1..(n + 1)
    BY <1>1, <1>4, <1>5, <2>1, LenProperties
  <2>3. ASSUME NEW j \in 1..(n + 1)
        PROVE  new[j] = IF j < i THEN rows[j] ELSE IF j = i THEN d ELSE rows[j - 1]
    <3>1. new[j] = IF j <= i THEN first[j] ELSE right[j - i]
      BY <1>1, <1>4, <1>5, <2>1
    <3>2. j <= i => first[j] = IF j < i THEN rows[j] ELSE d
      BY <1>1, <1>5
    <3>3. ~(j <= i) => right[j - i] = rows[j - 1]
      BY <1>1, <1>4
    <3> QED BY <1>1, <3>1, <3>2, <3>3
  <2> QED BY <2>1, <2>2, <2>3
<1> HIDE DEF new
<1>7. \A j \in 1..n : rows[j] # d
  BY <1>1 DEF ToSet
<1> DEFINE old(j) == IF j < i THEN j ELSE j - 1
<1>8. /\ new[i] = d
      /\ \A j \in 1..(n + 1) : j # i => old(j) \in 1..n /\ new[j] = rows[old(j)]
  BY <1>1, <1>6
<1>9. ASSUME NEW j \in 1..(n + 1), NEW k \in 1..(n + 1), new[j] = new[k] PROVE j = k
  <2>1. j # i => new[j] # d
    <3> HIDE DEF old
    <3> QED BY <1>7, <1>8
  <2>2. k # i => new[k] # d
    <3> HIDE DEF old
    <3> QED BY <1>7, <1>8
  <2>3. CASE j # i /\ k # i
    <3>1. old(j) \in 1..n /\ old(k) \in 1..n /\ rows[old(j)] = rows[old(k)]
      BY <1>8, <1>9, <2>3
    <3>2. old(j) = old(k)
      <4> HIDE DEF old
      <4> QED BY <1>1, <3>1 DEF IsInjective
    <3> QED BY <1>1, <2>3, <3>2
  <2> QED BY <1>8, <1>9, <2>1, <2>2, <2>3
<1> QED BY <1>2, <1>6, <1>9 DEF IsInjective

\* The CMDB gets or loses a row: each row stays there once, and no scan holds
\* still.
LEMMA ChangeKeeps ==
  ASSUME CmdbInv, Change
  PROVE  CmdbInv'
<1>1. table \in Seq(Machines) /\ IsInjective(table)
  BY DEF CmdbInv, CmdbTypeOK, TableFits
<1>2. table' \in Seq(Machines) /\ IsInjective(table')
  <2>1. CASE \E i \in DOMAIN table : table' = RemoveAt(table, i)
    BY <1>1, <2>1, RowRemoved
  <2>2. CASE \E i \in 1..Len(table) + 1, d \in Machines \ ToSet(table) :
               table' = InsertAt(table, i, d)
    <3>1. PICK i \in 1..Len(table) + 1, d \in Machines \ ToSet(table) :
            table' = InsertAt(table, i, d)
      BY <2>2
    <3>2. i \in 1..(Len(table) + 1)
      OBVIOUS
    <3> QED BY <1>1, <3>1, <3>2, RowInserted
  <2> QED BY <2>1, <2>2 DEF Change
<1>3. /\ scan' = [filtered |-> scan.filtered, page |-> scan.page, rows |-> scan.rows,
                  tries |-> scan.tries, steady |-> FALSE]
      /\ UNCHANGED <<server, phase, req, answer, device>>
  BY DEF Change, CmdbInv, ScanFits
<1>4. CmdbTypeOK'
  BY <1>2, <1>3 DEF CmdbInv, CmdbTypeOK
<1>5. TableFits' /\ RequestFits' /\ ScanFits'
  BY <1>2, <1>3 DEF CmdbInv, TableFits, RequestFits, Request, ScanFits
<1>6. AnswerFits'
  BY <1>3 DEF CmdbInv, AnswerFits, WholeAnswer, Findable
<1>7. AnswerMatches' /\ ResolvedIsNamed'
  BY <1>3 DEF CmdbInv, AnswerMatches, ResolvedIsNamed
<1> QED BY <1>4, <1>5, <1>6, <1>7 DEF CmdbInv

LEMMA CmdbInitInv == CmdbInit => CmdbInv
<1> SUFFICES ASSUME CmdbInit PROVE CmdbInv
  OBVIOUS
<1>1. /\ table \in Seq(Machines) /\ IsInjective(table) /\ server \in Servers
      /\ device \in Machines \cup {Nothing} /\ phase = "idle"
      /\ req = NoRequest /\ scan = NewScan(FALSE) /\ answer = NoAnswer
  BY InputsAssumption DEF CmdbInit
<1>2. Request(req)
  BY <1>1, NoRequestFacts DEF Request
<1>3. /\ 0 \in 0..Retries /\ <<>> \in Seq(Machines)
      /\ scan.page = 1 /\ scan.rows = <<>> /\ scan.tries = 0
  BY <1>1, SizesAssumption DEF NewScan
<1>4. WholeAnswer(answer) /\ answer.status = "none" /\ answer.kind = "none"
  <2>1. /\ answer.items = <<>> /\ answer.count = 0
        /\ answer.status = "none" /\ answer.kind = "none"
        /\ answer = [status |-> answer.status, kind |-> answer.kind, items |-> answer.items,
                     count |-> answer.count, code |-> answer.code, cause |-> answer.cause,
                     exact |-> answer.exact, truth |-> answer.truth, entry |-> answer.entry]
    BY <1>1 DEF NoAnswer
  <2>2. answer.items \in Seq(Machines) /\ answer.count \in Nat /\ answer.status # "ok"
    BY <2>1
  <2> QED BY <2>1, <2>2, Zenon DEF WholeAnswer
<1>5. CmdbTypeOK
  <2>1. req.filters \subseteq Filters /\ answer.items \in Seq(Machines) /\ answer.count \in Nat
    BY <1>2, <1>4 DEF Request, WholeAnswer
  <2>2. phase \in {"idle", "ask", "get", "match"}
    BY <1>1
  <2>3. scan.page \in Nat \ {0}
    BY <1>3
  <2> QED BY <1>1, <1>3, <2>1, <2>2, <2>3 DEF CmdbTypeOK
<1>6. ScanFits
  BY <1>1 DEF ScanFits, NewScan
<1> QED BY <1>1, <1>2, <1>4, <1>5, <1>6
        DEF CmdbInv, TableFits, RequestFits, AnswerFits, AnswerMatches, ResolvedIsNamed

LEMMA CmdbNextInv == CmdbInv /\ [CmdbNext]_cmdbVars => CmdbInv'
<1> SUFFICES ASSUME CmdbInv, [CmdbNext]_cmdbVars PROVE CmdbInv'
  OBVIOUS
<1>1. ASSUME NEW inquiry \in Inquiries, NEW mode \in {"auto", "rule", "llm"},
             NEW cfg \in Settings, ChatQuestion(inquiry, mode, cfg)
      PROVE  CmdbInv'
  BY <1>1, ParseKeeps DEF ChatQuestion
<1>2. ASSUME NEW inquiry \in Inquiries, NEW mode \in {"auto", "rule", "llm"},
             NEW cfg \in Settings, Compare(inquiry, mode, cfg)
      PROVE  CmdbInv'
  BY <1>2, ParseKeeps DEF Compare
<1>3. ASSUME NEW spec \in Specs, Handle(spec) PROVE CmdbInv'
  BY <1>3, HandleKeeps
<1>4. ASSUME NEW keyword \in Keywords, Resolve(keyword) PROVE CmdbInv'
  BY <1>4, ResolveKeeps
<1>5. ASSUME NEW call \in Calls, QueryTool(call) \/ QueryDirect(call) \/ Export(call.filters)
      PROVE  CmdbInv'
  BY <1>5, EndpointsKeep
<1>6. CASE LlmAgain \/ LlmNextBase
  BY <1>6, CmdbAskKeeps DEF LlmAgain, LlmNextBase
<1>7. CASE LlmWithoutPlan
  BY <1>7, LlmWithoutPlanKeeps
<1>8. ASSUME NEW toolPlan \in ToolPlans, LlmPlan(toolPlan) PROVE CmdbInv'
  BY <1>8, LlmPlanKeeps
<1>9. CASE GetPage
  BY <1>9, GetPageKeeps
<1>10. CASE GetUnfiltered
  BY <1>10, GetUnfilteredKeeps
<1>11. ASSUME NEW cause \in Causes, GetFails(cause) PROVE CmdbInv'
  BY <1>11, GetFailsKeeps
<1>12. ASSUME NEW listed \in BOOLEAN, MatchNetmiko(listed) PROVE CmdbInv'
  BY <1>12, MatchNetmikoKeeps
<1>13. CASE Change
  BY <1>13, ChangeKeeps
<1>14. CASE UNCHANGED cmdbVars
  BY <1>14, CmdbAskKeeps DEF cmdbVars
<1>15. CASE Progress
  BY <1>6, <1>7, <1>8, <1>9, <1>10, <1>11, <1>12, <1>15 DEF Progress
<1>16. CASE CmdbNext
  BY <1>1, <1>2, <1>3, <1>4, <1>5, <1>13, <1>15, <1>16 DEF CmdbNext
<1> QED BY <1>14, <1>16

\* The inductive invariant of the queries.
LEMMA CmdbInvariant == CmdbSpec => []CmdbInv
<1>1. CmdbInit => CmdbInv
  BY CmdbInitInv
<1>2. CmdbInv /\ [CmdbNext]_cmdbVars => CmdbInv'
  BY CmdbNextInv
<1> QED BY <1>1, <1>2, PTL DEF CmdbSpec

\* The types of the queries, their requests and answers are kept (app.py,
\* cmdb/adapter.py, device_identity/resolver.py).
THEOREM CmdbTypeCorrect == CmdbSpec => []CmdbTypeOK
<1>1. CmdbInv => CmdbTypeOK
  BY DEF CmdbInv
<1> QED BY <1>1, CmdbInvariant, PTL

\* Every row of an answer satisfies every condition of its query, for every
\* CMDB: one that applies a condition, ignores it or rejects it, one that
\* changes between two pages, one that fails and is scanned again without
\* conditions (adapter.py 352-383).
THEOREM RowsMatch == CmdbSpec => []AnswerMatches
<1>1. CmdbInv => AnswerMatches
  BY DEF CmdbInv
<1> QED BY <1>1, CmdbInvariant, PTL

\* An answer over a CMDB that held still, reports its totals and has no more
\* candidates than the limit counts the devices that match, whatever the sizes
\* of the pages: a scan does not end before it has read all of them
\* (adapter.py, _scan_rows and query_devices).
THEOREM StableAnswersComplete == CmdbSpec => []StableAnswerComplete
<1>1. CmdbInv => StableAnswerComplete
  BY DEF CmdbInv, AnswerFits, WholeAnswer, StableAnswerComplete
<1> QED BY <1>1, CmdbInvariant, PTL

\* A keyword that is a device's own name or address resolves to this device and
\* its entry in Netmiko, however many devices have names it is a part of, if they
\* fit in one page (resolver.py, select_cmdb_item and find_netmiko_match).
THEOREM NamedResolves == CmdbSpec => []ResolvedIsNamed
<1>1. CmdbInv => ResolvedIsNamed
  BY DEF CmdbInv
<1> QED BY <1>1, CmdbInvariant, PTL

-----------------------------------------------------------------------------
(* Each wait brings a request nearer to its answer *)

\* How far a request is from its answer: what it waits for, how often it may go
\* on from there to another URL or page, and how often it may try again.
Stage ==
  CASE phase = "ask" -> 4
    [] phase = "get" /\ scan.filtered -> 3
    [] phase = "get" /\ ~scan.filtered -> 2
    [] phase = "match" -> 1
    [] OTHER -> 0

GoesLeft ==
  IF phase = "ask" THEN Bases - ask.base
  ELSE IF phase = "get" /\ req.filters # {} THEN MaxPages - scan.page ELSE 0

TriesLeft == IF phase = "ask" THEN LlmRetries - ask.tries ELSE Retries - scan.tries

Bounded == Stage \in 0..4 /\ GoesLeft \in Nat /\ TriesLeft \in Nat

\* The lexicographic order of the three.
Nearer ==
  \/ Stage' < Stage
  \/ Stage' = Stage /\ GoesLeft' < GoesLeft
  \/ Stage' = Stage /\ GoesLeft' = GoesLeft /\ TriesLeft' < TriesLeft

LimitsFit ==
  /\ ask = [base |-> ask.base, tries |-> ask.tries]
  /\ ask.base \in 1..Bases /\ ask.tries \in 0..LlmRetries
  /\ phase = "get" /\ req.filters # {} => scan.page <= MaxPages

LEMMA StageFacts ==
  /\ phase = "ask" => Stage = 4
  /\ phase = "get" => Stage = IF scan.filtered THEN 3 ELSE 2
  /\ phase = "match" => Stage = 1
  /\ phase = "idle" => Stage = 0
BY DEF Stage

LEMMA NextStageFacts ==
  /\ phase' = "ask" => Stage' = 4
  /\ phase' = "get" => Stage' = IF scan'.filtered THEN 3 ELSE 2
  /\ phase' = "match" => Stage' = 1
  /\ phase' = "idle" => Stage' = 0
BY DEF Stage

\* There is at least one page.
LEMMA PagesExist == MaxPages \in Nat \ {0}
<1>1. MaxPages \in Nat /\ MaxPages * ScanPage >= MaxRows
  BY PagesCover
<1>2. ScanPage \in Nat /\ MaxRows \in Nat \ {0}
  BY SizesAssumption
<1>3. MaxPages = 0 => MaxPages * ScanPage = 0
  BY <1>2
<1> QED BY <1>1, <1>2, <1>3

\* What is left to do is a number of each kind.
LEMMA LimitsBound ==
  ASSUME CmdbInv, LimitsFit
  PROVE  Bounded
<1>1. Stage \in 0..4
  BY DEF Stage
<1>2. scan.page \in Nat /\ scan.tries \in 0..Retries
  BY DEF CmdbInv, CmdbTypeOK
<1>3. Bases \in Nat /\ LlmRetries \in Nat /\ Retries \in Nat /\ MaxPages \in Nat
  BY SizesAssumption, PagesExist
<1>4. ask.base \in 1..Bases /\ ask.tries \in 0..LlmRetries
  BY DEF LimitsFit
<1>5. GoesLeft \in Nat
  BY <1>2, <1>3, <1>4 DEF GoesLeft, LimitsFit
<1>6. TriesLeft \in Nat
  BY <1>2, <1>3, <1>4 DEF TriesLeft
<1> QED BY <1>1, <1>5, <1>6 DEF Bounded

\* A query begins with its first page.
LEMMA StartLimits ==
  ASSUME NEW r, Start(r)
  PROVE  /\ phase' = "get"
         /\ req'.filters # {} => scan'.page <= MaxPages
<1>1. req' = r /\ phase' = "get"
      /\ scan' = [NewScan(r.filters # {}) EXCEPT !.page = IF r.filters # {} THEN 1 ELSE r.page]
  BY DEF Start
<1>2. scan'.page = IF r.filters # {} THEN 1 ELSE r.page
  BY <1>1 DEF NewScan
<1> QED BY <1>1, <1>2, PagesExist

LEMMA UseLimits ==
  ASSUME NEW r, NEW parsed, Use(r, parsed)
  PROVE  /\ phase' \in {"idle", "get"}
         /\ phase' = "get" /\ req'.filters # {} => scan'.page <= MaxPages
<1>1. CASE parsed.intent = "clarify" \/ r.kind = "compare"
  BY <1>1 DEF Use
<1>2. CASE ~(parsed.intent = "clarify" \/ r.kind = "compare")
  <2> DEFINE q == [r EXCEPT !.filters = parsed.filters,
                            !.size = IF parsed.intent = "detail" THEN DetailSize ELSE PageSize]
  <2>1. Start(q)
    BY <1>2 DEF Use
  <2> HIDE DEF q
  <2> QED BY <2>1, StartLimits
<1> QED BY <1>1, <1>2

LEMMA ConcludeStage ==
  ASSUME NEW a, Conclude(a)
  PROVE  phase' \in {"match", "idle"} /\ Stage' <= 1
<1>1. phase' \in {"match", "idle"}
  BY DEF Conclude
<1> QED BY <1>1, NextStageFacts

\* Each step of a request's own work.
LEMMA ProgressNearer ==
  ASSUME CmdbInv, LimitsFit, Progress
  PROVE  Nearer /\ LimitsFit'
<1>1. /\ scan.page \in Nat \ {0} /\ scan.tries \in 0..Retries
      /\ ask.base \in 1..Bases /\ ask.tries \in 0..LlmRetries
      /\ Bases \in Nat \ {0} /\ LlmRetries \in Nat /\ Retries \in Nat /\ MaxPages \in Nat \ {0}
  BY SizesAssumption, PagesExist DEF CmdbInv, CmdbTypeOK, LimitsFit
<1>2. CASE LlmAgain
  <2>1. /\ phase = "ask" /\ phase' = "ask" /\ ask.tries < LlmRetries
        /\ ask' = [base |-> ask.base, tries |-> ask.tries + 1]
    BY <1>2 DEF LlmAgain, LimitsFit
  <2>2. ask'.base = ask.base /\ ask'.tries = ask.tries + 1 /\ Stage' = Stage
    BY <2>1, StageFacts, NextStageFacts
  <2>3. GoesLeft' = GoesLeft /\ TriesLeft' < TriesLeft
    BY <1>1, <2>1, <2>2 DEF GoesLeft, TriesLeft
  <2> QED BY <1>1, <2>1, <2>2, <2>3 DEF Nearer, LimitsFit
<1>3. CASE LlmNextBase
  <2>1. /\ phase = "ask" /\ phase' = "ask" /\ ask.base < Bases
        /\ ask' = [base |-> ask.base + 1, tries |-> 0]
    BY <1>3 DEF LlmNextBase
  <2>2. ask'.base = ask.base + 1 /\ ask'.tries = 0 /\ Stage' = Stage
    BY <2>1, StageFacts, NextStageFacts
  <2>3. GoesLeft' < GoesLeft
    BY <1>1, <2>1, <2>2 DEF GoesLeft
  <2> QED BY <1>1, <2>1, <2>2, <2>3 DEF Nearer, LimitsFit
<1>4. ASSUME NEW parsed, phase = "ask", Use(req, parsed), ask' = ask
      PROVE  Nearer /\ LimitsFit'
  <2>1. /\ phase' \in {"idle", "get"}
        /\ phase' = "get" /\ req'.filters # {} => scan'.page <= MaxPages
    BY <1>4, UseLimits
  <2>2. Stage = 4 /\ Stage' < 4
    BY <1>4, <2>1, StageFacts, NextStageFacts
  <2> QED BY <1>4, <2>1, <2>2 DEF Nearer, LimitsFit
<1>5. CASE LlmWithoutPlan
  BY <1>4, <1>5 DEF LlmWithoutPlan
<1>6. CASE \E toolPlan \in ToolPlans : LlmPlan(toolPlan)
  BY <1>4, <1>6 DEF LlmPlan
<1>7. ASSUME NEW a, phase = "get", Conclude(a), ask' = ask
      PROVE  Nearer /\ LimitsFit'
  <2>1. phase' # "get" /\ Stage' <= 1
    BY <1>7, ConcludeStage
  <2>2. Stage \in {2, 3}
    BY <1>7, StageFacts
  <2>3. Stage' \in 0..4
    BY DEF Stage
  <2> QED BY <1>7, <2>1, <2>2, <2>3 DEF Nearer, LimitsFit
<1>8. CASE GetPage
  <2> DEFINE batch == PageOf(Candidates, scan.page, ScanPage)
             rows == scan.rows \o batch
  <2>1. phase = "get" /\ req.filters # {} /\ UNCHANGED <<req, ask>>
    BY <1>8 DEF GetPage
  <2>2. CASE LastPage(batch, rows)
    <3>1. \E a : Conclude(a)
      BY <1>8, <2>2 DEF GetPage
    <3> QED BY <1>7, <2>1, <3>1
  <2>3. CASE ~LastPage(batch, rows)
    <3>1. /\ scan' = [scan EXCEPT !.page = @ + 1, !.rows = rows, !.tries = 0]
          /\ phase' = "get"
      BY <1>8, <2>1, <2>3 DEF GetPage
    <3>2. scan.page # MaxPages /\ scan.page <= MaxPages
      BY <2>1, <2>3 DEF LastPage, LimitsFit
    <3> HIDE DEF rows
    <3>3. scan'.page = scan.page + 1 /\ scan'.filtered = scan.filtered
      BY <3>1 DEF CmdbInv, ScanFits
    <3>4. Stage' = Stage
      BY <2>1, <3>1, <3>3, StageFacts, NextStageFacts
    <3>5. GoesLeft' < GoesLeft
      BY <1>1, <2>1, <3>1, <3>2, <3>3 DEF GoesLeft
    <3>6. scan'.page <= MaxPages
      BY <1>1, <3>2, <3>3
    <3> QED BY <2>1, <3>4, <3>5, <3>6 DEF Nearer, LimitsFit
  <2> QED BY <2>2, <2>3
<1>9. CASE GetUnfiltered
  <2>1. phase = "get" /\ ask' = ask /\ \E a : Conclude(a)
    BY <1>9 DEF GetUnfiltered
  <2> QED BY <1>7, <2>1
<1>10. ASSUME NEW cause \in Causes, GetFails(cause)
       PROVE  Nearer /\ LimitsFit'
  <2>1. phase = "get" /\ UNCHANGED <<req, ask>>
    BY <1>10 DEF GetFails
  <2>2. CASE ~Final(cause)
    <3>1. scan' = [scan EXCEPT !.tries = @ + 1] /\ phase' = "get"
      BY <1>10, <2>1, <2>2 DEF GetFails
    <3>2. /\ scan'.page = scan.page /\ scan'.filtered = scan.filtered
          /\ scan'.tries = scan.tries + 1
      BY <3>1 DEF CmdbInv, ScanFits
    <3>3. Stage' = Stage /\ GoesLeft' = GoesLeft
      BY <2>1, <3>1, <3>2, StageFacts, NextStageFacts DEF GoesLeft
    <3>4. TriesLeft' < TriesLeft
      BY <1>1, <2>1, <3>1, <3>2 DEF TriesLeft
    <3> QED BY <2>1, <3>2, <3>3, <3>4 DEF Nearer, LimitsFit
  <2>3. CASE Final(cause) /\ FallsBack
    <3>1. scan' = NewScan(FALSE) /\ phase' = "get"
      BY <1>10, <2>1, <2>3 DEF GetFails
    <3>2. scan'.page = 1 /\ ~scan'.filtered
      BY <3>1 DEF NewScan
    <3>3. Stage = 3 /\ Stage' = 2
      BY <2>1, <2>3, <3>1, <3>2, StageFacts, NextStageFacts DEF FallsBack
    <3> QED BY <1>1, <2>1, <3>2, <3>3 DEF Nearer, LimitsFit
  <2>4. CASE Final(cause) /\ ~FallsBack
    <3>1. Conclude(NotFetched(cause))
      BY <1>10, <2>4 DEF GetFails
    <3> QED BY <1>7, <2>1, <3>1
  <2> QED BY <2>2, <2>3, <2>4
<1>11. ASSUME NEW listed \in BOOLEAN, MatchNetmiko(listed)
       PROVE  Nearer /\ LimitsFit'
  <2>1. phase = "match" /\ phase' = "idle" /\ ask' = ask
    BY <1>11 DEF MatchNetmiko
  <2>2. Stage = 1 /\ Stage' = 0
    BY <2>1, StageFacts, NextStageFacts
  <2> QED BY <2>1, <2>2 DEF Nearer, LimitsFit
<1> QED BY <1>2, <1>3, <1>5, <1>6, <1>8, <1>9, <1>10, <1>11 DEF Progress

\* The limits hold from the start, and other steps are no step back.
LEMMA LimitsKept ==
  /\ CmdbInit => LimitsFit
  /\ CmdbInv /\ LimitsFit /\ [CmdbNext]_cmdbVars => LimitsFit'
  /\ CmdbInv /\ LimitsFit /\ [CmdbNext]_cmdbVars /\ phase # "idle" /\ ~Progress =>
       UNCHANGED <<Stage, GoesLeft, TriesLeft>>
<1>1. NoAsk = [base |-> 1, tries |-> 0] /\ Bases \in Nat \ {0} /\ LlmRetries \in Nat
  BY SizesAssumption DEF NoAsk
<1>2. CmdbInit => LimitsFit
  BY <1>1 DEF CmdbInit, LimitsFit
<1>3. ASSUME CmdbInv, LimitsFit, UNCHANGED <<phase, req, ask>>, scan'.page = scan.page,
             scan'.tries = scan.tries, scan'.filtered = scan.filtered
      PROVE  LimitsFit' /\ UNCHANGED <<Stage, GoesLeft, TriesLeft>>
  <2>1. LimitsFit'
    BY <1>3 DEF LimitsFit
  <2>2. UNCHANGED <<GoesLeft, TriesLeft>>
    BY <1>3 DEF GoesLeft, TriesLeft
  <2>3. Stage' = Stage
    BY <1>3 DEF Stage
  <2> QED BY <2>1, <2>2, <2>3
<1>4. ASSUME CmdbInv, LimitsFit, Change
      PROVE  LimitsFit' /\ UNCHANGED <<Stage, GoesLeft, TriesLeft>>
  <2>1. UNCHANGED <<phase, req, ask>> /\ scan' = [scan EXCEPT !.steady = FALSE]
    BY <1>4 DEF Change
  <2>2. /\ scan'.page = scan.page /\ scan'.tries = scan.tries
        /\ scan'.filtered = scan.filtered
    BY <1>4, <2>1 DEF CmdbInv, ScanFits
  <2> QED BY <1>3, <1>4, <2>1, <2>2
<1>5. ASSUME LimitsFit, NEW r, Start(r), ask' = ask PROVE LimitsFit'
  BY <1>5, StartLimits DEF LimitsFit
<1>6. ASSUME LimitsFit, NEW kind, NEW inquiry, NEW mode, NEW cfg,
             Parse(kind, inquiry, mode, cfg)
      PROVE  LimitsFit'
  <2>1. CASE phase' = "ask" /\ ask' = NoAsk
    BY <1>1, <2>1 DEF LimitsFit
  <2>2. ASSUME NEW r, Use(r, Rule(inquiry)), ask' = ask PROVE LimitsFit'
    BY <1>6, <2>2, UseLimits DEF LimitsFit
  <2> QED BY <1>6, <2>1, <2>2 DEF Parse
<1>7. ASSUME LimitsFit, NEW spec, Handle(spec) PROVE LimitsFit'
  <2>1. CASE Invalid(spec)
    BY <1>7, <2>1 DEF Handle, LimitsFit
  <2>2. CASE ~Invalid(spec)
    <3>1. ask' = ask /\ \E r : Start(r)
      BY <1>7, <2>2 DEF Handle
    <3> QED BY <1>5, <1>7, <3>1
  <2> QED BY <2>1, <2>2
<1>8. ASSUME LimitsFit, NEW keyword, Resolve(keyword) PROVE LimitsFit'
  BY <1>5, <1>8 DEF Resolve
<1>9. ASSUME LimitsFit, NEW kind, NEW call, Query(kind, call) PROVE LimitsFit'
  BY <1>5, <1>9 DEF Query
<1>10. ASSUME CmdbInv, LimitsFit, [CmdbNext]_cmdbVars
       PROVE  /\ LimitsFit'
              /\ phase # "idle" /\ ~Progress => UNCHANGED <<Stage, GoesLeft, TriesLeft>>
  <2>1. CASE UNCHANGED cmdbVars
    BY <1>3, <1>10, <2>1 DEF cmdbVars
  <2>2. CASE Progress
    BY <1>10, <2>2, ProgressNearer
  <2>3. CASE Change
    BY <1>4, <1>10, <2>3
  <2>4. ASSUME NEW inquiry, NEW mode, NEW cfg,
               ChatQuestion(inquiry, mode, cfg) \/ Compare(inquiry, mode, cfg)
        PROVE  LimitsFit' /\ phase = "idle"
    BY <1>6, <1>10, <2>4 DEF ChatQuestion, Compare, Parse, Arrives
  <2>5. ASSUME NEW spec, Handle(spec) PROVE LimitsFit' /\ phase = "idle"
    BY <1>7, <1>10, <2>5 DEF Handle, Arrives
  <2>6. ASSUME NEW keyword, Resolve(keyword) PROVE LimitsFit' /\ phase = "idle"
    BY <1>8, <1>10, <2>6 DEF Resolve, Arrives
  <2>7. ASSUME NEW call, QueryTool(call) \/ QueryDirect(call) \/ Export(call.filters)
        PROVE  LimitsFit' /\ phase = "idle"
    BY <1>9, <1>10, <2>7 DEF QueryTool, QueryDirect, Export, Query, Arrives
  <2> QED BY <1>10, <2>1, <2>2, <2>3, <2>4, <2>5, <2>6, <2>7 DEF CmdbNext
<1> QED BY <1>2, <1>10

\* Every step of a request's own work is a step down in a well-founded order,
\* and no other step leads up while the request waits: retries of the LLM and of
\* the CMDB, base URLs, pages and the second scan are used up (llm/client.py
\* 216-397, adapter.py 119-164 and 274-361).
THEOREM AnswerComesNearer ==
  CmdbSpec => /\ []Bounded
              /\ [][/\ Progress => Nearer
                    /\ phase # "idle" /\ ~Progress =>
                         UNCHANGED <<Stage, GoesLeft, TriesLeft>>]_cmdbVars
<1>1. CmdbInit => LimitsFit
  BY LimitsKept
<1>2. CmdbInv /\ LimitsFit /\ [CmdbNext]_cmdbVars => LimitsFit'
  BY LimitsKept
<1>3. CmdbInv /\ LimitsFit => Bounded
  BY LimitsBound
<1>4. CmdbInv /\ LimitsFit /\ [CmdbNext]_cmdbVars =>
        [/\ Progress => Nearer
         /\ phase # "idle" /\ ~Progress => UNCHANGED <<Stage, GoesLeft, TriesLeft>>]_cmdbVars
  BY ProgressNearer, LimitsKept
<1> QED BY <1>1, <1>2, <1>3, <1>4, CmdbInvariant, PTL DEF CmdbSpec
=============================================================================
