--------------------------- MODULE McpClientProofs --------------------------
(***************************************************************************)
(* What the sessions of the MCP client guarantee, for every number of      *)
(* query templates, hints, sessions and messages that answer nothing: the  *)
(* server sees a call only after a good initialize, the verdict of a probe *)
(* is about all its templates, and the client implements ToolCall.         *)
(***************************************************************************)
EXTENDS McpClient, SequenceTheorems, TLAPS

Messages == [id : 0..2, body : Bodies]

\* A session is in work.
Active == pc \in {"endpoint", "initialize", "greeting", "call", "answer"}

\* The sessions of a job are numbered one after the other and fit its need.
Numbered ==
  pc # "idle" =>
    /\ job.first \in Nat \ {0}
    /\ job.step \in 1..Needs(job.kind)
    /\ job.first + Needs(job.kind) <= MaxSessions + 1
    /\ pc = "open" => cur + 2 = job.first + job.step
    /\ Active => cur + 1 = job.first + job.step

\* The id of the next request.
Counted ==
  /\ pc \in {"endpoint", "initialize"} => rpc = 1
  /\ pc \in {"greeting", "call"} => rpc = 2
  /\ pc = "answer" => rpc = 3

\* Nothing has happened in the sessions to come.
Untouched ==
  \A s \in Sessions : s > cur => got[s] = {} /\ ran[s] = 0 /\ told[s] = "none"

\* The session in work has told nothing, and has no call before its time.
Current ==
  Active =>
    /\ told[cur] = "none"
    /\ pc # "answer" => 2 \notin got[cur] /\ ran[cur] = 0
    /\ pc \in {"call", "answer"} => cur \in greeted

\* A call that waits at the server has not been run.
Once == \A s \in Sessions : 2 \in got[s] => ran[s] = 0

\* A good answer is an answer to what the server has done in session c, of
\* the sessions it has greeted and of the calls it has run.
Good(m, c, hailed, runs) ==
  /\ m.id = 1 /\ m.body # "error" => c \in hailed
  /\ m.id = 2 /\ m.body # "error" => c \in Sessions /\ runs[c] = 1

AllGood(q, c, hailed, runs) == \A i \in 1..Len(q) : Good(q[i], c, hailed, runs)

HonestServer ==
  AllGood(queue, cur, greeted, ran) /\ AllGood(stream, cur, greeted, ran)

\* The templates a probe has asked so far had no data.
Probing ==
  pc # "idle" /\ job.kind = "probe" =>
    \A s \in Sessions :
      job.first <= s /\ s < job.first + Templates => told[s] # "data"

Inv ==
  /\ TypeOK
  /\ Numbered /\ Counted /\ Untouched /\ Current /\ Once
  /\ CallAfterInitialize
  /\ HonestServer
  /\ Probing /\ ProbeVerdict

-----------------------------------------------------------------------------
(* Messages *)

LEMMA EmptyGood ==
  ASSUME NEW c, NEW hailed, NEW runs
  PROVE  <<>> \in Seq(Messages) /\ AllGood(<<>>, c, hailed, runs)
BY EmptySeq DEF AllGood

LEMMA AppendGood ==
  ASSUME NEW c, NEW hailed, NEW runs, NEW q \in Seq(Messages), NEW m \in Messages,
         AllGood(q, c, hailed, runs), Good(m, c, hailed, runs)
  PROVE  Append(q, m) \in Seq(Messages) /\ AllGood(Append(q, m), c, hailed, runs)
<1> DEFINE a == Append(q, m)
<1>1. /\ a \in Seq(Messages)
      /\ Len(a) = Len(q) + 1
      /\ \A i \in 1..Len(q) : a[i] = q[i]
      /\ a[Len(q) + 1] = m
      /\ Len(q) \in Nat
  BY AppendProperties, LenProperties
<1> HIDE DEF a
<1>2. ASSUME NEW i \in 1..Len(a) PROVE Good(a[i], c, hailed, runs)
  <2>1. i \in 1..Len(q) \/ i = Len(q) + 1
    BY <1>1
  <2>2. CASE i \in 1..Len(q)
    <3>1. a[i] = q[i]
      BY <1>1, <2>2
    <3>2. Good(q[i], c, hailed, runs)
      BY <2>2 DEF AllGood
    <3> QED BY <3>1, <3>2
  <2>3. CASE i = Len(q) + 1
    BY <1>1, <2>3
  <2> QED BY <2>1, <2>2, <2>3
<1>3. AllGood(a, c, hailed, runs)
  BY <1>2 DEF AllGood
<1> QED BY <1>1, <1>3 DEF a

LEMMA TailGood ==
  ASSUME NEW c, NEW hailed, NEW runs, NEW q \in Seq(Messages), q # <<>>,
         AllGood(q, c, hailed, runs)
  PROVE  /\ Head(q) \in Messages /\ Good(Head(q), c, hailed, runs)
         /\ Tail(q) \in Seq(Messages) /\ AllGood(Tail(q), c, hailed, runs)
<1> DEFINE t == Tail(q)
<1>1. /\ Head(q) \in Messages /\ Head(q) = q[1]
      /\ t \in Seq(Messages) /\ Len(t) = Len(q) - 1
      /\ \A i \in 1..Len(t) : t[i] = q[i + 1]
      /\ Len(q) \in Nat /\ Len(q) # 0
  BY HeadTailProperties, LenProperties, EmptySeq
<1> HIDE DEF t
<1>2. ASSUME NEW i \in 1..Len(t) PROVE Good(t[i], c, hailed, runs)
  <2>1. i + 1 \in 1..Len(q) /\ t[i] = q[i + 1]
    BY <1>1
  <2>2. Good(q[i + 1], c, hailed, runs)
    BY <2>1 DEF AllGood
  <2> QED BY <2>1, <2>2
<1>3. Good(q[1], c, hailed, runs)
  <2>1. 1 \in 1..Len(q)
    BY <1>1
  <2> QED BY <2>1 DEF AllGood
<1>4. AllGood(t, c, hailed, runs)
  BY <1>2 DEF AllGood
<1> QED BY <1>1, <1>3, <1>4 DEF t

\* What the server does later leaves a good answer good.
LEMMA GoodGrows ==
  ASSUME NEW c, NEW hailed, NEW runs, NEW hailed2, NEW runs2, NEW q,
         AllGood(q, c, hailed, runs), hailed \subseteq hailed2,
         c \in Sessions /\ runs[c] = 1 => runs2[c] = 1
  PROVE  AllGood(q, c, hailed2, runs2)
BY DEF AllGood, Good

-----------------------------------------------------------------------------
(* What a state of the invariant says *)

LEMMA SessionInWork ==
  ASSUME Inv, Active
  PROVE  /\ cur \in Sessions /\ told[cur] = "none"
         /\ cur + 1 = job.first + job.step
<1>1. /\ job.first \in Nat \ {0} /\ job.step \in 1..Needs(job.kind)
      /\ job.first + Needs(job.kind) <= MaxSessions + 1
      /\ cur + 1 = job.first + job.step
  BY DEF Inv, Numbered, Active
<1>2. Needs(job.kind) \in Nat /\ MaxSessions \in Nat /\ cur \in 0..MaxSessions
  BY TemplatesAssumption, HintsAssumption, MaxSessionsAssumption DEF Needs, Inv, TypeOK
<1>3. cur \in Sessions
  BY <1>1, <1>2 DEF Sessions
<1>4. told[cur] = "none"
  BY DEF Inv, Current
<1> QED BY <1>1, <1>3, <1>4

\* Steps of the reader and the stream alone.
LEMMA CallerKeeps ==
  ASSUME Inv, UNCHANGED caller, UNCHANGED <<got, ran, greeted>>, TypeOK', HonestServer'
  PROVE  Inv'
<1>1. Numbered' /\ Counted' /\ Untouched' /\ Once' /\ CallAfterInitialize'
  BY DEF Inv, caller, Numbered, Counted, Untouched, Once, CallAfterInitialize, Active
<1>2. Current'
  BY DEF Inv, caller, Current, Active
<1>3. Probing' /\ ProbeVerdict'
  BY DEF Inv, caller, Probing, ProbeVerdict
<1> QED BY <1>1, <1>2, <1>3 DEF Inv

\* The session in work goes on, with nothing new at the server.
LEMMA CallerGoesOn ==
  ASSUME Inv, Active, Active', UNCHANGED <<job, said, cur, told, got, ran, greeted>>,
         TypeOK', HonestServer', Counted', pc' = "answer" => pc = "answer",
         pc = "answer" => pc' = "answer",
         pc' \in {"call", "answer"} => cur \in greeted
  PROVE  Inv'
<1>1. Numbered'
  BY DEF Inv, Numbered, Active
<1>2. Untouched' /\ Once' /\ CallAfterInitialize'
  BY DEF Inv, Untouched, Once, CallAfterInitialize
<1>3. Current'
  BY DEF Inv, Current
<1>4. Probing' /\ ProbeVerdict'
  <2>1. pc # "idle" /\ pc' # "idle"
    BY DEF Active
  <2> QED BY <2>1 DEF Inv, Probing, ProbeVerdict
<1> QED BY <1>1, <1>2, <1>3, <1>4 DEF Inv

-----------------------------------------------------------------------------
(* The caller *)

LEMMA StartStep ==
  ASSUME Inv, NEW kind \in Kinds, Start(kind)
  PROVE  Inv'
<1>1. /\ pc = "idle" /\ pc' = "open" /\ cur + Needs(kind) <= MaxSessions
      /\ job' = [kind |-> kind, step |-> 1, first |-> cur + 1] /\ said' = "none"
      /\ UNCHANGED <<cur, rpc, told, reader, stop, endpoint, queue, stream, got, ran,
                     greeted, noise>>
  BY DEF Start, threads, server
<1>2. cur \in Nat /\ MaxSessions \in Nat /\ Needs(kind) \in Nat \ {0}
  BY TemplatesAssumption, HintsAssumption, MaxSessionsAssumption DEF Inv, TypeOK, Needs
<1>3. TypeOK'
  BY <1>1, <1>2 DEF Inv, TypeOK
<1>4. Numbered'
  BY <1>1, <1>2 DEF Numbered, Active
<1>5. Counted' /\ Current'
  BY <1>1 DEF Counted, Current, Active
<1>6. Untouched' /\ Once' /\ CallAfterInitialize' /\ HonestServer'
  BY <1>1 DEF Inv, Untouched, Once, CallAfterInitialize, HonestServer
<1>7. Probing'
  <2> SUFFICES ASSUME NEW s \in Sessions, cur + 1 <= s
               PROVE  told'[s] # "data"
    BY <1>1 DEF Probing
  <2>1. s > cur
    BY <1>2 DEF Sessions
  <2> QED BY <1>1, <2>1 DEF Inv, Untouched
<1>8. ProbeVerdict'
  BY <1>1 DEF ProbeVerdict
<1> QED BY <1>3, <1>4, <1>5, <1>6, <1>7, <1>8 DEF Inv

LEMMA OpenStep ==
  ASSUME Inv, Open
  PROVE  Inv'
<1>1. /\ pc = "open" /\ pc' = "endpoint" /\ cur' = cur + 1 /\ rpc' = 1
      /\ reader' = [reader EXCEPT ![cur + 1] = "on"]
      /\ endpoint' = FALSE /\ queue' = <<>> /\ stream' = <<>>
      /\ UNCHANGED <<job, said, told, stop, got, ran, greeted, noise>>
  BY DEF Open
<1>2. /\ cur \in Nat /\ MaxSessions \in Nat /\ Needs(job.kind) \in Nat
      /\ job.first \in Nat \ {0} /\ job.step \in 1..Needs(job.kind)
      /\ job.first + Needs(job.kind) <= MaxSessions + 1
      /\ cur + 2 = job.first + job.step
  BY <1>1, TemplatesAssumption, HintsAssumption, MaxSessionsAssumption
     DEF Inv, TypeOK, Needs, Numbered
<1>3. cur' \in Sessions
  BY <1>1, <1>2 DEF Sessions
<1>4. queue' \in Seq(Messages) /\ stream' \in Seq(Messages)
  BY <1>1, EmptyGood
<1>5. TypeOK'
  <2>1. cur' \in 0..MaxSessions
    BY <1>3, MaxSessionsAssumption DEF Sessions
  <2>2. reader' \in [Sessions -> {"off", "on", "ended"}]
    BY <1>1 DEF Inv, TypeOK
  <2>3. queue' \in Seq([id : 0..2, body : Bodies]) /\ stream' \in Seq([id : 0..2, body : Bodies])
    BY <1>4 DEF Messages
  <2>4. endpoint' \in BOOLEAN
    BY <1>1, Zenon
  <2>6. rpc' \in 1..3 /\ pc' = "endpoint"
    BY <1>1
  <2>5. UNCHANGED <<job, said, told, stop, got, ran, greeted, noise>>
    BY <1>1
  <2> QED BY <2>1, <2>2, <2>3, <2>4, <2>5, <2>6 DEF Inv, TypeOK
<1>6. Numbered' /\ Counted'
  BY <1>1, <1>2 DEF Numbered, Counted, Active
<1>7. /\ got[cur'] = {} /\ ran[cur'] = 0 /\ told[cur'] = "none"
  <2>1. cur' > cur
    BY <1>1, <1>2
  <2> QED BY <1>3, <2>1 DEF Inv, Untouched
<1>8. Current'
  BY <1>1, <1>7 DEF Current
<1>9. Untouched'
  <2> SUFFICES ASSUME NEW s \in Sessions, s > cur'
               PROVE  got[s] = {} /\ ran[s] = 0 /\ told[s] = "none"
    BY <1>1 DEF Untouched
  <2>1. s > cur
    BY <1>1, <1>2 DEF Sessions
  <2> QED BY <2>1 DEF Inv, Untouched
<1>10. Once' /\ CallAfterInitialize'
  BY <1>1 DEF Inv, Once, CallAfterInitialize
<1>11. HonestServer'
  BY <1>1, EmptyGood DEF HonestServer
<1>12. Probing' /\ ProbeVerdict'
  BY <1>1 DEF Inv, Probing, ProbeVerdict
<1> QED BY <1>5, <1>6, <1>8, <1>9, <1>10, <1>11, <1>12 DEF Inv

LEMMA GetEndpointStep ==
  ASSUME Inv, GetEndpoint
  PROVE  Inv'
<1>1. /\ pc = "endpoint" /\ pc' = "initialize"
      /\ UNCHANGED <<job, said, cur, rpc, told, reader, stop, queue, stream, got, ran,
                     greeted, noise>>
  BY DEF GetEndpoint, server
<1>2. endpoint' \in BOOLEAN
  BY Zenon DEF GetEndpoint
<1>3. TypeOK'
  BY <1>1, <1>2 DEF Inv, TypeOK
<1>4. HonestServer' /\ Counted' /\ Active /\ Active'
  BY <1>1 DEF Inv, HonestServer, Counted, Active
<1> QED BY <1>1, <1>3, <1>4, CallerGoesOn

\* A post: the request may reach the server.
LEMMA PostType ==
  ASSUME Inv, Active, NEW id \in {1, 2}, rpc = id, Post(id)
  PROVE  /\ rpc' = id + 1
         /\ got' \in [Sessions -> SUBSET {1, 2}]
         /\ \A s \in Sessions \ {cur} : got'[s] = got[s]
         /\ got'[cur] \subseteq got[cur] \cup {id}
         /\ UNCHANGED <<stream, ran, greeted, noise>>
BY SessionInWork DEF Post, Inv, TypeOK

LEMMA InitializeStep ==
  ASSUME Inv, Initialize
  PROVE  Inv'
<1>1. /\ pc = "initialize" /\ pc' = "greeting" /\ rpc = 1 /\ Active /\ Active'
      /\ UNCHANGED <<job, said, cur, told, reader, stop, endpoint, queue>>
      /\ Post(1)
  BY DEF Initialize, threads, Active, Inv, Counted
<1>2. /\ rpc' = 2
      /\ got' \in [Sessions -> SUBSET {1, 2}]
      /\ \A s \in Sessions \ {cur} : got'[s] = got[s]
      /\ got'[cur] \subseteq got[cur] \cup {1}
      /\ UNCHANGED <<stream, ran, greeted, noise>>
  BY <1>1, PostType
<1>3. cur \in Sessions /\ told[cur] = "none"
  BY <1>1, SessionInWork
<1>4. \A s \in Sessions : 2 \in got'[s] => 2 \in got[s]
  BY <1>2
<1>5. TypeOK'
  BY <1>1, <1>2 DEF Inv, TypeOK
<1>6. Numbered' /\ Counted'
  BY <1>1, <1>2 DEF Inv, Numbered, Counted, Active
<1>7. Untouched'
  <2> SUFFICES ASSUME NEW s \in Sessions, s > cur
               PROVE  got'[s] = {} /\ ran[s] = 0 /\ told[s] = "none"
    BY <1>1, <1>2 DEF Untouched
  <2>1. s # cur
    BY MaxSessionsAssumption DEF Inv, TypeOK, Sessions
  <2> QED BY <2>1, <1>2 DEF Inv, Untouched
<1>8. Once' /\ CallAfterInitialize'
  BY <1>2, <1>4 DEF Inv, Once, CallAfterInitialize
<1>9. Current'
  BY <1>1, <1>2, <1>3, <1>4 DEF Inv, Current
<1>10. HonestServer'
  BY <1>1, <1>2 DEF Inv, HonestServer
<1>11. Probing' /\ ProbeVerdict'
  BY <1>1 DEF Inv, Probing, ProbeVerdict
<1> QED BY <1>5, <1>6, <1>7, <1>8, <1>9, <1>10, <1>11 DEF Inv

LEMMA CallStep ==
  ASSUME Inv, Call
  PROVE  Inv'
<1>1. /\ pc = "call" /\ pc' = "answer" /\ rpc = 2 /\ Active /\ Active'
      /\ UNCHANGED <<job, said, cur, told, reader, stop, endpoint, queue>>
      /\ Post(2)
  BY DEF Call, threads, Active, Inv, Counted
<1>2. /\ rpc' = 3
      /\ got' \in [Sessions -> SUBSET {1, 2}]
      /\ \A s \in Sessions \ {cur} : got'[s] = got[s]
      /\ got'[cur] \subseteq got[cur] \cup {2}
      /\ UNCHANGED <<stream, ran, greeted, noise>>
  BY <1>1, PostType
<1>3. /\ cur \in Sessions /\ told[cur] = "none" /\ cur \in greeted /\ ran[cur] = 0
  BY <1>1, SessionInWork DEF Inv, Current
<1>5. TypeOK'
  BY <1>1, <1>2 DEF Inv, TypeOK
<1>6. Numbered' /\ Counted'
  BY <1>1, <1>2 DEF Inv, Numbered, Counted, Active
<1>7. Untouched'
  <2> SUFFICES ASSUME NEW s \in Sessions, s > cur
               PROVE  got'[s] = {} /\ ran[s] = 0 /\ told[s] = "none"
    BY <1>1, <1>2 DEF Untouched
  <2>1. s # cur
    BY MaxSessionsAssumption DEF Inv, TypeOK, Sessions
  <2> QED BY <2>1, <1>2 DEF Inv, Untouched
<1>8. Once' /\ CallAfterInitialize'
  <2> SUFFICES ASSUME NEW s \in Sessions
               PROVE  /\ 2 \in got'[s] => ran[s] = 0
                      /\ 2 \in got'[s] \/ ran[s] > 0 => s \in greeted
    BY <1>2 DEF Once, CallAfterInitialize
  <2>1. CASE s = cur
    BY <1>3, <2>1
  <2>2. CASE s # cur
    BY <1>2, <2>2 DEF Inv, Once, CallAfterInitialize
  <2> QED BY <2>1, <2>2
<1>9. Current'
  BY <1>1, <1>2, <1>3 DEF Current
<1>10. HonestServer'
  BY <1>1, <1>2 DEF Inv, HonestServer
<1>11. Probing' /\ ProbeVerdict'
  BY <1>1 DEF Inv, Probing, ProbeVerdict
<1> QED BY <1>5, <1>6, <1>7, <1>8, <1>9, <1>10, <1>11 DEF Inv

\* What the caller takes from the queue.
LEMMA Taken ==
  ASSUME Inv, Waiting, Take
  PROVE  /\ Head(queue) \in Messages
         /\ Good(Head(queue), cur, greeted, ran)
         /\ queue' \in Seq(Messages)
         /\ AllGood(queue', cur, greeted, ran)
<1>1. queue \in Seq(Messages) /\ queue # <<>> /\ AllGood(queue, cur, greeted, ran)
  BY DEF Inv, TypeOK, Messages, Waiting, HonestServer
<1> QED BY <1>1, TailGood DEF Take

LEMMA DropStep ==
  ASSUME Inv, Drop
  PROVE  Inv'
<1>1. UNCHANGED <<job, said, pc, cur, rpc, told, reader, stop, endpoint, stream, got, ran,
                  greeted, noise>>
  BY DEF Drop, caller, server
<1>2. queue' \in Seq(Messages) /\ AllGood(queue', cur, greeted, ran)
  BY Taken DEF Drop
<1>3. TypeOK'
  BY <1>1, <1>2 DEF Inv, TypeOK, Messages
<1>4. HonestServer'
  BY <1>1, <1>2 DEF Inv, HonestServer
<1> QED BY <1>1, <1>3, <1>4, CallerKeeps DEF caller

LEMMA GreetedStep ==
  ASSUME Inv, Greeted
  PROVE  Inv'
<1>1. /\ pc = "greeting" /\ pc' = "call" /\ Waiting /\ Take
      /\ Awaited(Head(queue)) /\ HasResult(Head(queue))
      /\ UNCHANGED <<job, said, cur, rpc, told, reader, stop, endpoint, stream, got, ran,
                     greeted, noise>>
  BY DEF Greeted, server
<1>2. /\ Head(queue) \in Messages /\ Good(Head(queue), cur, greeted, ran)
      /\ queue' \in Seq(Messages) /\ AllGood(queue', cur, greeted, ran)
  BY <1>1, Taken
<1>3. rpc = 2
  BY <1>1 DEF Inv, Counted
<1>4. cur \in greeted
  BY <1>1, <1>2, <1>3 DEF Awaited, HasResult, Good
<1>5. TypeOK'
  BY <1>1, <1>2 DEF Inv, TypeOK, Messages
<1>6. HonestServer' /\ Counted' /\ Active /\ Active'
  BY <1>1, <1>2, <1>3 DEF Inv, HonestServer, Counted, Active
<1> QED BY <1>1, <1>4, <1>5, <1>6, CallerGoesOn

-----------------------------------------------------------------------------
(* The end of a session *)

\* What the caller makes of a session that told this: its answer, or the next
\* session of a probe.
LEMMA Concluded ==
  ASSUME Inv, Active, NEW outcome \in {"raised", "failed", "empty", "data"},
         Conclude(outcome), NEW tells \in {"failed", "empty", "data"},
         tells = "data" <=> outcome = "data",
         told' = [told EXCEPT ![cur] = tells],
         UNCHANGED <<cur, rpc, stream, got, ran, greeted, noise>>
  PROVE  /\ job' \in [kind : Kinds, step : Nat, first : Nat]
         /\ said' \in {"none", "executed", "listed", "ok", "no_data", "failed", "raised"}
         /\ pc' \in {"idle", "open"}
         /\ told' \in [Sessions -> {"none", "failed", "empty", "data"}]
         /\ Numbered' /\ Counted' /\ Untouched' /\ Current' /\ Once'
         /\ CallAfterInitialize' /\ Probing' /\ ProbeVerdict'
<1>1. /\ cur \in Sessions /\ told[cur] = "none" /\ cur + 1 = job.first + job.step
  BY SessionInWork
<1>2. /\ job \in [kind : Kinds, step : Nat, first : Nat]
      /\ job.first \in Nat \ {0} /\ job.step \in 1..Needs(job.kind)
      /\ job.first + Needs(job.kind) <= MaxSessions + 1
      /\ MaxSessions \in Nat /\ cur \in Nat
      /\ told \in [Sessions -> {"none", "failed", "empty", "data"}]
  BY MaxSessionsAssumption DEF Inv, TypeOK, Numbered, Active
<1>3. /\ told' \in [Sessions -> {"none", "failed", "empty", "data"}]
      /\ told'[cur] = tells
      /\ \A s \in Sessions \ {cur} : told'[s] = told[s]
  BY <1>1, <1>2
<1>4. Templates \in Nat \ {0} /\ Hints \in Nat
  BY TemplatesAssumption, HintsAssumption
<1>5. \/ pc' = "idle" /\ UNCHANGED job
      \/ /\ job.kind = "probe" /\ pc' = "open" /\ UNCHANGED said
         /\ job.step < Templates + Hints
         /\ job' = [job EXCEPT !.step = @ + 1]
         /\ outcome = "data" => job.step > Templates
  BY DEF Conclude, Answers, GoesOn, Asking, Hinting
<1>6. /\ job' \in [kind : Kinds, step : Nat, first : Nat]
      /\ pc' \in {"idle", "open"}
      /\ job'.kind = job.kind /\ job'.first = job.first
  BY <1>2, <1>5
<1>7. said' \in {"none", "executed", "listed", "ok", "no_data", "failed", "raised"}
  <2>1. said \in {"none", "executed", "listed", "ok", "no_data", "failed", "raised"}
    BY DEF Inv, TypeOK
  <2> QED BY <2>1 DEF Conclude, Answers, GoesOn
<1>8. Numbered'
  <2> SUFFICES ASSUME pc' = "open"
               PROVE  /\ job'.first \in Nat \ {0}
                      /\ job'.step \in 1..Needs(job'.kind)
                      /\ job'.first + Needs(job'.kind) <= MaxSessions + 1
                      /\ cur + 2 = job'.first + job'.step
    BY <1>6 DEF Numbered, Active
  <2>1. job.kind = "probe" /\ job.step < Templates + Hints /\ job'.step = job.step + 1
    BY <1>2, <1>5
  <2> QED BY <1>1, <1>2, <1>4, <1>6, <2>1 DEF Needs
<1>9. Counted' /\ Current'
  BY <1>6 DEF Counted, Current, Active
<1>10. Untouched'
  <2> SUFFICES ASSUME NEW s \in Sessions, s > cur
               PROVE  got[s] = {} /\ ran[s] = 0 /\ told'[s] = "none"
    BY DEF Untouched
  <2>1. s # cur
    BY <1>2 DEF Sessions
  <2> QED BY <1>3, <2>1 DEF Inv, Untouched
<1>11. Once' /\ CallAfterInitialize'
  BY DEF Inv, Once, CallAfterInitialize
<1>12. ASSUME job.kind = "probe", NEW s \in Sessions,
              job.first <= s, s < job.first + Templates, s # cur
       PROVE  told'[s] # "data"
  <2>1. pc # "idle"
    BY DEF Active
  <2> QED BY <1>3, <1>12, <2>1 DEF Inv, Probing
<1>13. cur < job.first + Templates <=> job.step <= Templates
  BY <1>1, <1>2, <1>4
<1>14. Probing'
  <2> SUFFICES ASSUME pc' = "open", job.kind = "probe", NEW s \in Sessions,
                      job.first <= s, s < job.first + Templates
               PROVE  told'[s] # "data"
    BY <1>6 DEF Probing
  <2>1. CASE s # cur
    BY <2>1, <1>12
  <2>2. CASE s = cur
    <3>1. job.step <= Templates
      BY <2>2, <1>13
    <3>2. outcome # "data"
      BY <1>5, <3>1, <1>2, <1>4
    <3> QED BY <2>2, <3>2, <1>3
  <2> QED BY <2>1, <2>2
<1>15. ProbeVerdict'
  <2> SUFFICES ASSUME pc' = "idle", job.kind = "probe"
               PROVE  /\ said' = "ok" =>
                           /\ told'[cur] = "data"
                           /\ \A s \in job.first..(cur - 1) : told'[s] # "data"
                      /\ said' = "no_data" =>
                           \A s \in job.first..(job.first + Templates - 1) : told'[s] # "data"
    BY <1>5, <1>6 DEF ProbeVerdict
  <2>1. /\ said' = "ok" => outcome = "data" /\ job.step <= Templates
        /\ said' = "no_data" => job.step > Templates \/ outcome # "data"
    BY DEF Conclude, Answers, GoesOn, Asking, Hinting
  <2>2. ASSUME said' = "ok" PROVE told'[cur] = "data"
    BY <2>1, <2>2, <1>3
  <2>3. ASSUME said' = "ok", NEW s \in job.first..(cur - 1) PROVE told'[s] # "data"
    <3>1. s \in Sessions /\ s # cur /\ s < job.first + Templates /\ job.first <= s
      BY <2>1, <2>3, <1>1, <1>2, <1>4, <1>13 DEF Sessions
    <3> QED BY <3>1, <1>12
  <2>4. ASSUME said' = "no_data", NEW s \in job.first..(job.first + Templates - 1)
        PROVE  told'[s] # "data"
    <3>1. s \in Sessions /\ s < job.first + Templates /\ job.first <= s
      BY <1>2, <1>4 DEF Sessions, Needs
    <3>2. CASE s # cur
      BY <3>1, <3>2, <1>12
    <3>3. CASE s = cur
      <4>1. job.step <= Templates
        BY <3>1, <3>3, <1>13
      <4>2. outcome # "data"
        BY <2>1, <2>4, <4>1, <1>2, <1>4
      <4> QED BY <3>3, <4>2, <1>3
    <3> QED BY <3>2, <3>3
  <2> QED BY <2>2, <2>3, <2>4
<1> QED BY <1>3, <1>6, <1>7, <1>8, <1>9, <1>10, <1>11, <1>14, <1>15

\* A session ends without anything new at the server.
LEMMA EndsSession ==
  ASSUME Inv, Active, NEW outcome \in {"raised", "failed", "empty", "data"},
         Conclude(outcome), NEW tells \in {"failed", "empty", "data"},
         tells = "data" <=> outcome = "data",
         told' = [told EXCEPT ![cur] = tells],
         UNCHANGED <<cur, rpc, reader, endpoint, stream, got, ran, greeted, noise>>,
         stop' \in [Sessions -> BOOLEAN],
         queue' \in Seq(Messages), AllGood(queue', cur, greeted, ran)
  PROVE  Inv'
<1>1. /\ job' \in [kind : Kinds, step : Nat, first : Nat]
      /\ said' \in {"none", "executed", "listed", "ok", "no_data", "failed", "raised"}
      /\ pc' \in {"idle", "open"}
      /\ told' \in [Sessions -> {"none", "failed", "empty", "data"}]
      /\ Numbered' /\ Counted' /\ Untouched' /\ Current' /\ Once'
      /\ CallAfterInitialize' /\ Probing' /\ ProbeVerdict'
  BY Concluded
<1>2. TypeOK'
  BY <1>1 DEF Inv, TypeOK, Messages
<1>3. HonestServer'
  BY DEF Inv, HonestServer
<1> QED BY <1>1, <1>2, <1>3 DEF Inv

LEMMA QueueType ==
  ASSUME Inv
  PROVE  queue \in Seq(Messages) /\ AllGood(queue, cur, greeted, ran)
BY DEF Inv, TypeOK, Messages, HonestServer

LEMMA StopType ==
  ASSUME Inv, Active
  PROVE  [stop EXCEPT ![cur] = TRUE] \in [Sessions -> BOOLEAN]
<1>1. cur \in Sessions /\ stop \in [Sessions -> BOOLEAN]
  BY SessionInWork DEF Inv, TypeOK
<1> QED BY <1>1, Zenon

LEMMA EndpointTimesOutStep ==
  ASSUME Inv, EndpointTimesOut
  PROVE  Inv'
<1>1. /\ Active /\ Conclude("raised") /\ told' = [told EXCEPT ![cur] = "failed"]
      /\ UNCHANGED <<cur, rpc, stop, reader, endpoint, queue, stream, got, ran, greeted,
                     noise>>
  BY DEF EndpointTimesOut, ConnectFails, server, Active
<1>2. stop' \in [Sessions -> BOOLEAN]
  BY <1>1 DEF Inv, TypeOK
<1> QED BY <1>1, <1>2, QueueType, EndsSession

LEMMA GreetingRefusedStep ==
  ASSUME Inv, GreetingRefused
  PROVE  Inv'
<1>1. /\ Active /\ Waiting /\ Take
      /\ Conclude("raised") /\ told' = [told EXCEPT ![cur] = "failed"]
      /\ UNCHANGED <<cur, rpc, stop, reader, endpoint, stream, got, ran, greeted, noise>>
  BY DEF GreetingRefused, ConnectFails, server, Active
<1>2. stop' \in [Sessions -> BOOLEAN]
  BY <1>1 DEF Inv, TypeOK
<1> QED BY <1>1, <1>2, Taken, EndsSession

LEMMA GreetingTimesOutStep ==
  ASSUME Inv, GreetingTimesOut
  PROVE  Inv'
<1>1. /\ Active /\ Conclude("raised") /\ told' = [told EXCEPT ![cur] = "failed"]
      /\ UNCHANGED <<cur, rpc, stop, reader, endpoint, queue, stream, got, ran, greeted,
                     noise>>
  BY DEF GreetingTimesOut, ConnectFails, server, Active
<1>2. stop' \in [Sessions -> BOOLEAN]
  BY <1>1 DEF Inv, TypeOK
<1> QED BY <1>1, <1>2, QueueType, EndsSession

\* The outcome of an answered call, and what it says of the server.
LEMMA AnswerSays ==
  ASSUME Inv, Answer
  PROVE  /\ Active
         /\ Outcome(Head(queue)) \in {"failed", "empty", "data"}
         /\ Outcome(Head(queue)) \in {"empty", "data"} => ran[cur] = 1
<1>1. pc = "answer" /\ Waiting /\ Take /\ Awaited(Head(queue)) /\ rpc = 3
  BY DEF Answer, Inv, Counted
<1>2. Good(Head(queue), cur, greeted, ran)
  BY <1>1, Taken
<1> QED BY <1>1, <1>2 DEF Active, Outcome, Awaited, Good

LEMMA AnswerStep ==
  ASSUME Inv, Answer
  PROVE  Inv'
<1> DEFINE outcome == Outcome(Head(queue))
<1>1. /\ Active /\ Waiting /\ Take
      /\ Conclude(outcome) /\ told' = [told EXCEPT ![cur] = outcome]
      /\ stop' = [stop EXCEPT ![cur] = TRUE]
      /\ UNCHANGED <<cur, rpc, reader, endpoint, stream, got, ran, greeted, noise>>
  BY AnswerSays DEF Answer, ClosesThen, server
<1>2. outcome \in {"failed", "empty", "data"}
  BY AnswerSays
<1>3. stop' \in [Sessions -> BOOLEAN]
  BY <1>1, StopType
<1> HIDE DEF outcome
<1> QED BY <1>1, <1>2, <1>3, Taken, EndsSession

LEMMA AnswerTimesOutStep ==
  ASSUME Inv, AnswerTimesOut
  PROVE  Inv'
<1>1. /\ Active /\ Conclude("failed") /\ told' = [told EXCEPT ![cur] = "failed"]
      /\ stop' = [stop EXCEPT ![cur] = TRUE]
      /\ UNCHANGED <<cur, rpc, reader, endpoint, queue, stream, got, ran, greeted, noise>>
  BY DEF AnswerTimesOut, ClosesThen, server, Active
<1>2. stop' \in [Sessions -> BOOLEAN]
  BY <1>1, StopType
<1> QED BY <1>1, <1>2, QueueType, EndsSession

-----------------------------------------------------------------------------
(* The reader and the server *)

LEMMA ReadStep ==
  ASSUME Inv, Read
  PROVE  Inv'
<1>1. /\ stream # <<>> /\ stream' = Tail(stream)
      /\ UNCHANGED <<job, said, pc, cur, rpc, told, reader, stop, got, ran, greeted, noise>>
  BY DEF Read, caller
<1>2. /\ stream \in Seq(Messages) /\ AllGood(stream, cur, greeted, ran)
      /\ queue \in Seq(Messages) /\ AllGood(queue, cur, greeted, ran)
      /\ endpoint \in BOOLEAN
  BY DEF Inv, TypeOK, Messages, HonestServer
<1>3. /\ Head(stream) \in Messages /\ Good(Head(stream), cur, greeted, ran)
      /\ stream' \in Seq(Messages) /\ AllGood(stream', cur, greeted, ran)
  BY <1>1, <1>2, TailGood
<1>4. queue' \in Seq(Messages) /\ AllGood(queue', cur, greeted, ran)
  <2>1. CASE UNCHANGED queue
    BY <2>1, <1>2
  <2>2. CASE queue' = Append(queue, Head(stream))
    BY <2>2, <1>2, <1>3, AppendGood
  <2> QED BY <2>1, <2>2 DEF Read
<1>5. endpoint' \in BOOLEAN
  BY <1>2, Zenon DEF Read
<1>6. TypeOK'
  BY <1>1, <1>3, <1>4, <1>5 DEF Inv, TypeOK, Messages
<1>7. HonestServer'
  BY <1>1, <1>3, <1>4 DEF HonestServer
<1> QED BY <1>1, <1>6, <1>7, CallerKeeps DEF caller

LEMMA ReaderStep ==
  ASSUME Inv, NEW s \in Sessions, ReaderBreaks(s) \/ ReaderStops(s)
  PROVE  Inv'
<1>1. UNCHANGED <<job, said, pc, cur, rpc, told, stop, endpoint, stream, got, ran, greeted,
                  noise>>
  BY DEF ReaderBreaks, ReaderStops, caller, server
<1>2. reader' \in [Sessions -> {"off", "on", "ended"}]
  BY DEF ReaderBreaks, ReaderStops, Inv, TypeOK
<1>3. queue' \in Seq(Messages) /\ AllGood(queue', cur, greeted, ran)
  <2>1. Junk \in Messages /\ Good(Junk, cur, greeted, ran)
    BY DEF Junk, Message, Messages, Bodies, Good
  <2>2. Append(queue, Junk) \in Seq(Messages)
        /\ AllGood(Append(queue, Junk), cur, greeted, ran)
    BY <2>1, QueueType, AppendGood
  <2>3. UNCHANGED queue \/ queue' = Append(queue, Junk)
    BY DEF ReaderBreaks, ReaderStops
  <2>4. CASE UNCHANGED queue
    BY <2>4, QueueType
  <2>5. CASE queue' = Append(queue, Junk)
    BY <2>5, <2>2
  <2> QED BY <2>3, <2>4, <2>5
<1>4. TypeOK'
  BY <1>1, <1>2, <1>3 DEF Inv, TypeOK, Messages
<1>5. HonestServer'
  BY <1>1, <1>3 DEF Inv, HonestServer
<1> QED BY <1>1, <1>4, <1>5, CallerKeeps DEF caller

\* What the server has done grows, and it sends nothing but the truth.
LEMMA ServerSends ==
  ASSUME Inv, NEW s, NEW m \in Messages, Sends(s, m) \/ UNCHANGED stream,
         UNCHANGED <<cur, queue>>, greeted \subseteq greeted',
         cur \in Sessions /\ ran[cur] = 1 => ran'[cur] = 1,
         s = cur => Good(m, cur, greeted', ran')
  PROVE  stream' \in Seq(Messages) /\ HonestServer'
<1>1. /\ stream \in Seq(Messages) /\ AllGood(stream, cur, greeted, ran)
      /\ AllGood(queue, cur, greeted, ran)
  BY DEF Inv, TypeOK, Messages, HonestServer
<1>2. AllGood(stream, cur, greeted', ran') /\ AllGood(queue, cur, greeted', ran')
  BY <1>1, GoodGrows
<1>3. CASE UNCHANGED stream
  BY <1>1, <1>2, <1>3 DEF HonestServer
<1>4. CASE s = cur /\ stream' = Append(stream, m)
  <2>1. stream' \in Seq(Messages) /\ AllGood(stream', cur, greeted', ran')
    BY <1>1, <1>2, <1>4, AppendGood
  <2> QED BY <1>2, <2>1 DEF HonestServer
<1> QED BY <1>3, <1>4 DEF Sends

LEMMA OfferStep ==
  ASSUME Inv, Offer
  PROVE  Inv'
<1>1. /\ Sends(cur, Message(0, "endpoint"))
      /\ UNCHANGED <<job, said, pc, cur, rpc, told, reader, stop, endpoint, queue, got, ran,
                     greeted, noise>>
  BY DEF Offer, caller, threads
<1>2. Message(0, "endpoint") \in Messages
      /\ Good(Message(0, "endpoint"), cur, greeted, ran)
  BY DEF Message, Messages, Bodies, Good
<1>3. stream' \in Seq(Messages) /\ HonestServer'
  BY <1>1, <1>2, ServerSends
<1>4. TypeOK'
  BY <1>1, <1>3 DEF Inv, TypeOK, Messages
<1> QED BY <1>1, <1>3, <1>4, CallerKeeps DEF caller

LEMMA NoiseStep ==
  ASSUME Inv, Noise
  PROVE  Inv'
<1>1. /\ noise < MaxNoise /\ noise' = noise + 1
      /\ UNCHANGED <<job, said, pc, cur, rpc, told, reader, stop, endpoint, queue, got, ran,
                     greeted>>
  BY DEF Noise, caller, threads
<1>2. PICK m \in {Junk, Message(1, "init")} :
        Sends(cur, m) /\ (m = Junk \/ cur \in greeted)
  BY DEF Noise
<1>3. m \in Messages /\ Good(m, cur, greeted, ran)
  BY <1>2 DEF Junk, Message, Messages, Bodies, GreetingBodies, Good
<1>4. stream' \in Seq(Messages) /\ HonestServer'
  BY <1>1, <1>2, <1>3, ServerSends
<1>5. noise' \in 0..MaxNoise
  BY <1>1, MaxNoiseAssumption DEF Inv, TypeOK
<1>6. TypeOK'
  BY <1>1, <1>4, <1>5 DEF Inv, TypeOK, Messages
<1> QED BY <1>1, <1>4, <1>6, CallerKeeps DEF caller

LEMMA ServeInitializeStep ==
  ASSUME Inv, NEW body \in GreetingBodies, ServeInitialize(body)
  PROVE  Inv'
<1>1. /\ cur \in Sessions
      /\ got' = [got EXCEPT ![cur] = @ \ {1}]
      /\ greeted' = IF body = "init" THEN greeted \cup {cur} ELSE greeted
      /\ Sends(cur, Message(1, body))
      /\ UNCHANGED <<job, said, pc, cur, rpc, told, reader, stop, endpoint, queue, ran, noise>>
  BY DEF ServeInitialize, caller, threads
<1>2. greeted \subseteq greeted' /\ greeted' \in SUBSET Sessions
  BY <1>1 DEF Inv, TypeOK
<1>3. /\ got' \in [Sessions -> SUBSET {1, 2}]
      /\ \A s \in Sessions : got'[s] \subseteq got[s]
  BY <1>1 DEF Inv, TypeOK
<1>4. Message(1, body) \in Messages /\ Good(Message(1, body), cur, greeted', ran')
  BY <1>1 DEF Message, Messages, Bodies, GreetingBodies, Good
<1>5. stream' \in Seq(Messages) /\ HonestServer'
  BY <1>1, <1>2, <1>4, ServerSends
<1>6. TypeOK'
  BY <1>1, <1>2, <1>3, <1>5 DEF Inv, TypeOK, Messages
<1>7. Numbered' /\ Counted' /\ Probing' /\ ProbeVerdict'
  BY <1>1 DEF Inv, Numbered, Counted, Probing, ProbeVerdict, Active
<1>8. Untouched' /\ Once'
  BY <1>1, <1>3 DEF Inv, Untouched, Once
<1>9. CallAfterInitialize'
  BY <1>1, <1>2, <1>3 DEF Inv, CallAfterInitialize
<1>10. Current'
  BY <1>1, <1>2, <1>3 DEF Inv, Current, Active
<1> QED BY <1>5, <1>6, <1>7, <1>8, <1>9, <1>10 DEF Inv

\* A call that is run is run for the first time.
LEMMA CallRun ==
  ASSUME Inv, NEW s \in Sessions, NEW body \in ToolBodies, ServeCall(s, body)
  PROVE  /\ 2 \in got[s] /\ ran[s] = 0
         /\ IF body = "error" THEN UNCHANGED ran ELSE ran' = [ran EXCEPT ![s] = 1]
<1>1. 2 \in got[s] /\ ran[s] = 0
  BY DEF ServeCall, Inv, Once
<1>2. ran' = IF body = "error" THEN ran ELSE [ran EXCEPT ![s] = @ + 1]
  BY DEF ServeCall
<1>3. CASE body = "error"
  BY <1>1, <1>2, <1>3
<1>4. CASE body # "error"
  <2>1. ran' = [ran EXCEPT ![s] = ran[s] + 1]
    BY <1>2, <1>4
  <2> QED BY <1>1, <1>4, <2>1
<1> QED BY <1>3, <1>4

LEMMA ServeCallStep ==
  ASSUME Inv, NEW s \in Sessions, NEW body \in ToolBodies, ServeCall(s, body)
  PROVE  Inv'
<1>1. /\ 2 \in got[s]
      /\ got' = [got EXCEPT ![s] = @ \ {2}]
      /\ Sends(s, Message(2, body)) \/ UNCHANGED stream
      /\ UNCHANGED <<job, said, pc, cur, rpc, told, reader, stop, endpoint, queue, greeted,
                     noise>>
  BY DEF ServeCall, caller, threads
<1>2. /\ ran[s] = 0
      /\ IF body = "error" THEN UNCHANGED ran ELSE ran' = [ran EXCEPT ![s] = 1]
  BY CallRun
<1>3. /\ got' \in [Sessions -> SUBSET {1, 2}]
      /\ 2 \notin got'[s]
      /\ \A x \in Sessions : got'[x] \subseteq got[x]
  BY <1>1 DEF Inv, TypeOK
<1>4. /\ ran' \in [Sessions -> 0..1]
      /\ \A x \in Sessions \ {s} : ran'[x] = ran[x]
      /\ body # "error" => ran'[s] = 1
  BY <1>2 DEF Inv, TypeOK
<1>5. Message(2, body) \in Messages
      /\ (s = cur => Good(Message(2, body), cur, greeted', ran'))
  BY <1>4 DEF Message, Messages, Bodies, ToolBodies, Good
<1>6. cur \in Sessions /\ ran[cur] = 1 => ran'[cur] = 1
  BY <1>2, <1>4
<1>7. stream' \in Seq(Messages) /\ HonestServer'
  BY <1>1, <1>5, <1>6, ServerSends
<1>8. TypeOK'
  BY <1>1, <1>3, <1>4, <1>7 DEF Inv, TypeOK, Messages
<1>9. Numbered' /\ Counted' /\ Probing' /\ ProbeVerdict'
  BY <1>1 DEF Inv, Numbered, Counted, Probing, ProbeVerdict, Active
<1>10. Untouched'
  <2> SUFFICES ASSUME NEW x \in Sessions, x > cur
               PROVE  got'[x] = {} /\ ran'[x] = 0 /\ told[x] = "none"
    BY <1>1 DEF Untouched
  <2>1. got[x] = {} /\ ran[x] = 0 /\ told[x] = "none"
    BY DEF Inv, Untouched
  <2>2. x # s
    BY <1>1, <2>1
  <2> QED BY <1>3, <1>4, <2>1, <2>2
<1>11. Once'
  BY <1>3, <1>4 DEF Inv, Once
<1>12. CallAfterInitialize'
  <2> SUFFICES ASSUME NEW x \in Sessions, 2 \in got'[x] \/ ran'[x] > 0
               PROVE  x \in greeted
    BY <1>1 DEF CallAfterInitialize
  <2>1. CASE x = s
    BY <1>1, <2>1 DEF Inv, CallAfterInitialize
  <2>2. CASE x # s
    BY <1>3, <1>4, <2>2 DEF Inv, CallAfterInitialize
  <2> QED BY <2>1, <2>2
<1>13. Current'
  <2> SUFFICES ASSUME Active
               PROVE  /\ told[cur] = "none"
                      /\ pc # "answer" => 2 \notin got'[cur] /\ ran'[cur] = 0
                      /\ pc \in {"call", "answer"} => cur \in greeted
    BY <1>1 DEF Current, Active
  <2>1. /\ told[cur] = "none"
        /\ pc # "answer" => 2 \notin got[cur] /\ ran[cur] = 0
        /\ pc \in {"call", "answer"} => cur \in greeted
    BY DEF Inv, Current
  <2>2. cur \in Sessions
    BY SessionInWork
  <2>3. pc # "answer" => cur # s
    BY <1>1, <2>1
  <2> QED BY <1>3, <1>4, <2>1, <2>2, <2>3
<1> QED BY <1>7, <1>8, <1>9, <1>10, <1>11, <1>12, <1>13 DEF Inv

-----------------------------------------------------------------------------
(* Theorems *)

LEMMA InitInv == Init => Inv
<1> SUFFICES ASSUME Init PROVE Inv
  OBVIOUS
<1>1. queue \in Seq(Messages) /\ stream \in Seq(Messages) /\ HonestServer
  BY EmptyGood DEF Init, HonestServer
<1>2. TypeOK
  <2>1. queue \in Seq([id : 0..2, body : Bodies]) /\ stream \in Seq([id : 0..2, body : Bodies])
    BY <1>1 DEF Messages
  <2>2. endpoint \in BOOLEAN /\ stop \in [Sessions -> BOOLEAN]
    BY Zenon DEF Init
  <2>3. job \in [kind : Kinds, step : Nat, first : Nat]
    BY DEF Init, Kinds
  <2>4. cur \in 0..MaxSessions /\ noise \in 0..MaxNoise /\ rpc \in 1..3
    BY MaxSessionsAssumption, MaxNoiseAssumption DEF Init
  <2>5. /\ reader \in [Sessions -> {"off", "on", "ended"}]
        /\ got \in [Sessions -> SUBSET {1, 2}]
        /\ ran \in [Sessions -> 0..1]
        /\ greeted \in SUBSET Sessions
        /\ told \in [Sessions -> {"none", "failed", "empty", "data"}]
    BY DEF Init
  <2>6. said = "none" /\ pc = "idle"
    BY DEF Init
  <2> QED BY <2>1, <2>2, <2>3, <2>4, <2>5, <2>6 DEF TypeOK
<1>3. Numbered /\ Counted /\ Untouched /\ Current /\ Once
  BY DEF Init, Numbered, Counted, Untouched, Current, Once, Active
<1>4. CallAfterInitialize /\ Probing /\ ProbeVerdict
  BY DEF Init, CallAfterInitialize, Probing, ProbeVerdict
<1> QED BY <1>1, <1>2, <1>3, <1>4 DEF Inv

LEMMA StepInv == Inv /\ [Next]_vars => Inv'
<1> SUFFICES ASSUME Inv, [Next]_vars PROVE Inv'
  OBVIOUS
<1>1. CASE \E k \in Kinds : Start(k)
  BY <1>1, StartStep
<1>2. CASE Caller
  BY <1>2, OpenStep, GetEndpointStep, EndpointTimesOutStep, InitializeStep, GreetedStep,
     GreetingRefusedStep, GreetingTimesOutStep, CallStep, AnswerStep, AnswerTimesOutStep,
     DropStep DEF Caller
<1>3. CASE Read
  BY <1>3, ReadStep
<1>4. CASE \E s \in Sessions : ReaderBreaks(s) \/ ReaderStops(s)
  BY <1>4, ReaderStep
<1>5. CASE Server
  BY <1>5, OfferStep, NoiseStep, ServeInitializeStep, ServeCallStep DEF Server
<1>6. CASE UNCHANGED vars
  <2>1. UNCHANGED <<job, said, pc, cur, rpc, told, reader, stop, endpoint, queue, stream, got,
                    ran, greeted, noise>>
    BY <1>6 DEF vars, caller, threads, server
  <2>2. TypeOK' /\ HonestServer'
    BY <2>1 DEF Inv, TypeOK, HonestServer
  <2> QED BY <2>1, <2>2, CallerKeeps DEF caller
<1> QED BY <1>1, <1>2, <1>3, <1>4, <1>5, <1>6 DEF Next

LEMMA Invariance == Spec => []Inv
BY InitInv, StepInv, PTL DEF Spec

\* The caller's and the reader's state keep their types; a call is run at most
\* once.
THEOREM ClientTypeCorrect == Spec => []TypeOK
<1>1. Inv => TypeOK
  BY DEF Inv
<1> QED BY <1>1, Invariance, PTL

\* The server sees a call only in a session whose initialize it has answered
\* well (McpClient.connect, call_tool).
THEOREM InitializeFirst == Spec => []CallAfterInitialize
<1>1. Inv => CallAfterInitialize
  BY DEF Inv
<1> QED BY <1>1, Invariance, PTL

\* The verdict of a CPU probe is about every template it asked
\* (observability/device_metrics.py), for every number of templates and hints.
THEOREM ProbeVerdictTrue == Spec => []ProbeVerdict
<1>1. Inv => ProbeVerdict
  BY DEF Inv
<1> QED BY <1>1, Invariance, PTL

-----------------------------------------------------------------------------
(* The client implements ToolCall. *)

\* What a caller of ToolCall is told in a session.
Told == [s \in Sessions |-> IF told[s] \in {"empty", "data"} THEN "ok" ELSE told[s]]

LEMMA InitRefines == Init => Promise!Init
<1> SUFFICES ASSUME Init PROVE Promise!Init
  OBVIOUS
<1>1. ran = [s \in Sessions |-> 0]
  BY DEF Init
<1>2. Told = [s \in Sessions |-> "none"]
  BY DEF Init, Told
<1> QED BY <1>1, <1>2 DEF Promise!Init, Told

\* A session that ends tells its caller ok only of a call that was run.
LEMMA TellRefines ==
  ASSUME Inv, Active, NEW tells \in {"failed", "empty", "data"},
         told' = [told EXCEPT ![cur] = tells], UNCHANGED ran,
         tells \in {"empty", "data"} => ran[cur] = 1
  PROVE  Promise!Next
<1>1. cur \in Sessions /\ told[cur] = "none"
  BY SessionInWork
<1>2. told \in [Sessions -> {"none", "failed", "empty", "data"}]
  BY DEF Inv, TypeOK
<1>3. Told[cur] = "none"
  BY <1>1 DEF Told
<1>4. CASE tells = "failed"
  <2>1. Told' = [Told EXCEPT ![cur] = "failed"]
    BY <1>1, <1>2, <1>4 DEF Told
  <2> QED BY <1>1, <1>3, <2>1 DEF Promise!Next, Promise!TellFailed, Told
<1>5. CASE tells \in {"empty", "data"}
  <2>1. Told' = [Told EXCEPT ![cur] = "ok"]
    BY <1>1, <1>2, <1>5 DEF Told
  <2> QED BY <1>1, <1>3, <1>5, <2>1 DEF Promise!Next, Promise!TellOk, Told
<1> QED BY <1>4, <1>5

LEMMA NextRefines == Inv /\ [Next]_vars => [Promise!Next]_(Promise!vars)
<1> SUFFICES ASSUME Inv, [Next]_vars
             PROVE  Promise!Next \/ UNCHANGED <<ran, Told>>
  BY DEF Promise!vars, Told
<1>1. CASE UNCHANGED <<ran, told>>
  BY <1>1 DEF Told
<1>2. CASE ConnectFails /\ UNCHANGED ran /\ Active
  <2>1. told' = [told EXCEPT ![cur] = "failed"]
    BY <1>2 DEF ConnectFails
  <2> QED BY <1>2, <2>1, TellRefines
<1>3. CASE Answer
  <2> DEFINE outcome == Outcome(Head(queue))
  <2>1. told' = [told EXCEPT ![cur] = outcome] /\ UNCHANGED ran
    BY <1>3 DEF Answer, ClosesThen, server
  <2>2. /\ Active /\ outcome \in {"failed", "empty", "data"}
        /\ outcome \in {"empty", "data"} => ran[cur] = 1
    BY <1>3, AnswerSays
  <2> HIDE DEF outcome
  <2> QED BY <2>1, <2>2, TellRefines
<1>4. CASE AnswerTimesOut
  <2>1. told' = [told EXCEPT ![cur] = "failed"] /\ UNCHANGED ran /\ Active
    BY <1>4 DEF AnswerTimesOut, ClosesThen, server, Active
  <2> QED BY <2>1, TellRefines
<1>5. ASSUME NEW s \in Sessions, NEW body \in ToolBodies, ServeCall(s, body)
      PROVE  Promise!Next \/ UNCHANGED <<ran, Told>>
  <2>1. UNCHANGED told /\ ran[s] = 0
    BY <1>5, CallRun DEF ServeCall, caller
  <2>2. UNCHANGED ran \/ ran' = [ran EXCEPT ![s] = 1]
    BY <1>5, CallRun
  <2>3. UNCHANGED Told
    BY <2>1 DEF Told
  <2>4. CASE ran' = [ran EXCEPT ![s] = 1]
    <3>1. Promise!Run(s)
      BY <2>1, <2>3, <2>4 DEF Promise!Run, Told
    <3> QED BY <3>1 DEF Promise!Next
  <2> QED BY <2>2, <2>3, <2>4
<1>6. CASE \E k \in Kinds : Start(k)
  BY <1>1, <1>6 DEF Start, server
<1>7. CASE Caller
  <2>1. CASE EndpointTimesOut
    BY <1>2, <2>1 DEF EndpointTimesOut, server, Active
  <2>2. CASE GreetingRefused
    BY <1>2, <2>2 DEF GreetingRefused, server, Active
  <2>3. CASE GreetingTimesOut
    BY <1>2, <2>3 DEF GreetingTimesOut, server, Active
  <2>4. CASE Open \/ GetEndpoint \/ Initialize \/ Greeted \/ Call \/ Drop
    BY <1>1, <2>4 DEF Open, GetEndpoint, Initialize, Greeted, Call, Drop, Post, caller, server
  <2> QED BY <1>3, <1>4, <1>7, <2>1, <2>2, <2>3, <2>4 DEF Caller
<1>8. CASE Read \/ \E s \in Sessions : ReaderBreaks(s) \/ ReaderStops(s)
  BY <1>1, <1>8 DEF Read, ReaderBreaks, ReaderStops, caller, server
<1>9. CASE Server
  <2>1. CASE Offer \/ Noise \/ \E b \in GreetingBodies : ServeInitialize(b)
    BY <1>1, <2>1 DEF Offer, Noise, ServeInitialize, caller
  <2> QED BY <1>5, <1>9, <2>1 DEF Server
<1>10. CASE UNCHANGED vars
  BY <1>1, <1>10 DEF vars, caller, server
<1> QED BY <1>6, <1>7, <1>8, <1>9, <1>10 DEF Next

\* A command, a device list or a query is run at most once, and its caller is
\* told ok only if it was, however late, often or out of order the answers come.
THEOREM Refinement == Spec => ImplementsToolCall
BY InitRefines, NextRefines, Invariance, PTL DEF Spec, ImplementsToolCall, Promise!Spec

-----------------------------------------------------------------------------
(* Each step of the caller goes on *)

\* The calls the job may still make, what the session in work has still to do,
\* and the messages that may still come to it before the one it waits for.
CallsLeft == IF pc = "idle" THEN 0 ELSE Needs(job.kind) - job.step + 1

StagesLeft ==
  CASE pc = "open" -> 6 [] pc = "endpoint" -> 5 [] pc = "initialize" -> 4
    [] pc = "greeting" -> 3 [] pc = "call" -> 2 [] pc = "answer" -> 1
    [] pc = "idle" -> 0

One(yes) == IF yes THEN 1 ELSE 0

Listening == pc \in {"greeting", "call", "answer"}

Pending == Len(queue) + Len(stream) + (MaxNoise - noise)
Waits == One(1 \in got[cur]) + One(2 \in got[cur])
Reads == One(reader[cur] = "on")

MessagesLeft == IF Listening THEN Pending + Waits + Reads ELSE 0

Nearer ==
  \/ CallsLeft' < CallsLeft
  \/ CallsLeft' = CallsLeft /\ StagesLeft' < StagesLeft
  \/ UNCHANGED <<CallsLeft, StagesLeft>> /\ MessagesLeft' < MessagesLeft

NoFarther == UNCHANGED <<CallsLeft, StagesLeft>> /\ MessagesLeft' <= MessagesLeft

LEMMA MeasuresNat ==
  ASSUME Inv
  PROVE  {CallsLeft, StagesLeft, MessagesLeft} \subseteq Nat
<1>1. CallsLeft \in Nat
  <2>1. CASE pc # "idle"
    <3>1. job.step \in 1..Needs(job.kind)
      BY <2>1 DEF Inv, Numbered
    <3>2. Needs(job.kind) \in Nat
      BY TemplatesAssumption, HintsAssumption DEF Needs
    <3> QED BY <2>1, <3>1, <3>2 DEF CallsLeft
  <2> QED BY <2>1 DEF CallsLeft
<1>2. StagesLeft \in Nat
  BY DEF Inv, TypeOK, StagesLeft
<1>3. MessagesLeft \in Nat
  <2>1. /\ Len(queue) \in Nat /\ Len(stream) \in Nat
        /\ noise \in 0..MaxNoise /\ MaxNoise \in Nat
    BY LenProperties, MaxNoiseAssumption DEF Inv, TypeOK
  <2> QED BY <2>1 DEF MessagesLeft, One, Pending, Waits, Reads
<1> QED BY <1>1, <1>2, <1>3

\* A session that ends leaves one call less.
LEMMA ConcludeLeaves ==
  ASSUME Inv, Active, NEW outcome, Conclude(outcome)
  PROVE  CallsLeft' < CallsLeft
<1>1. /\ job.step \in 1..Needs(job.kind) /\ pc # "idle"
      /\ job \in [kind : Kinds, step : Nat, first : Nat]
  BY DEF Inv, TypeOK, Numbered, Active
<1>2. Needs(job.kind) \in Nat
  BY TemplatesAssumption, HintsAssumption DEF Needs
<1>3. \/ pc' = "idle"
      \/ pc' = "open" /\ job' = [job EXCEPT !.step = @ + 1]
  BY DEF Conclude, Answers, GoesOn
<1>4. CASE pc' = "idle"
  BY <1>1, <1>2, <1>4 DEF CallsLeft
<1>5. CASE pc' = "open" /\ job' = [job EXCEPT !.step = @ + 1]
  <2>1. job'.kind = job.kind /\ job'.step = job.step + 1
    BY <1>1, <1>5
  <2>2. Needs(job'.kind) = Needs(job.kind)
    BY <2>1 DEF Needs
  <2> QED BY <1>1, <1>2, <1>5, <2>1, <2>2 DEF CallsLeft
<1> QED BY <1>3, <1>4, <1>5

LEMMA CallerNearer ==
  ASSUME Inv, Caller
  PROVE  Nearer
<1>1. CASE EndpointTimesOut \/ GreetingRefused \/ GreetingTimesOut
  <2>1. Active /\ Conclude("raised")
    BY <1>1 DEF EndpointTimesOut, GreetingRefused, GreetingTimesOut, ConnectFails, Active
  <2> QED BY <2>1, ConcludeLeaves DEF Nearer
<1>2. CASE Answer \/ AnswerTimesOut
  <2>1. Active /\ \E outcome : Conclude(outcome)
    BY <1>2 DEF Answer, AnswerTimesOut, ClosesThen, Active
  <2> QED BY <2>1, ConcludeLeaves DEF Nearer
<1>3. CASE Open \/ GetEndpoint \/ Initialize \/ Greeted \/ Call
  <2>1. /\ job' = job /\ pc # "idle" /\ pc' # "idle"
        /\ StagesLeft' < StagesLeft
    BY <1>3 DEF Open, GetEndpoint, Initialize, Greeted, Call, StagesLeft
  <2> QED BY <2>1 DEF CallsLeft, Nearer
<1>4. CASE Drop
  <2>1. /\ UNCHANGED <<job, pc, cur, reader, got, noise, stream>>
        /\ Listening /\ queue # <<>> /\ queue' = Tail(queue)
    BY <1>4 DEF Drop, caller, server, Waiting, Take, Listening
  <2>2. queue \in Seq(Messages) /\ Len(queue) \in Nat /\ Len(queue') = Len(queue) - 1
    BY <2>1, QueueType, HeadTailProperties, LenProperties
  <2>3. Len(stream) \in Nat /\ noise \in 0..MaxNoise /\ MaxNoise \in Nat
    BY LenProperties, MaxNoiseAssumption DEF Inv, TypeOK
  <2>4. UNCHANGED <<CallsLeft, StagesLeft>>
    BY <2>1 DEF CallsLeft, StagesLeft
  <2>5. MessagesLeft' < MessagesLeft
    BY <2>1, <2>2, <2>3 DEF MessagesLeft, Listening, One, Pending, Waits, Reads
  <2> QED BY <2>4, <2>5 DEF Nearer
<1> QED BY <1>1, <1>2, <1>3, <1>4 DEF Caller

\* A message that comes uses up the request it answers or ends its reader.
LEMMA Balance ==
  ASSUME NEW p \in Nat, NEW w \in Nat, NEW r \in Nat,
         NEW q \in Int, NEW v \in Int, NEW t \in Int,
         \/ q <= p /\ v = w /\ t = r
         \/ q <= p + 1 /\ v = w - 1 /\ t = r
         \/ q <= p + 1 /\ v = w /\ r = 1 /\ t = 0
  PROVE  q + v + t <= p + w + r
OBVIOUS

\* What the reader reads and what the server sends was to come.
LEMMA OthersNoFarther ==
  ASSUME Inv, Next, ~Caller, pc # "idle"
  PROVE  NoFarther
<1>1. UNCHANGED caller
  BY DEF Next, Start, Read, ReaderBreaks, ReaderStops, Server, Offer, Noise,
     ServeInitialize, ServeCall
<1>2. UNCHANGED <<CallsLeft, StagesLeft>> /\ UNCHANGED <<pc, cur>> /\ Listening' = Listening
  BY <1>1 DEF caller, CallsLeft, StagesLeft, Listening
<1> SUFFICES ASSUME Listening PROVE MessagesLeft' <= MessagesLeft
  BY <1>2 DEF NoFarther, MessagesLeft
<1>3. /\ queue \in Seq(Messages) /\ stream \in Seq(Messages)
      /\ Len(queue) \in Nat /\ Len(stream) \in Nat
      /\ noise \in 0..MaxNoise /\ MaxNoise \in Nat
      /\ reader \in [Sessions -> {"off", "on", "ended"}]
      /\ got \in [Sessions -> SUBSET {1, 2}]
  BY LenProperties, MaxNoiseAssumption DEF Inv, TypeOK, Messages
<1>4. cur \in Sessions
  BY SessionInWork DEF Listening, Active
<1>5. MessagesLeft = Pending + Waits + Reads /\ MessagesLeft' = Pending' + Waits' + Reads'
  BY <1>2 DEF MessagesLeft
<1>6. Pending \in Nat /\ Waits \in Nat /\ Reads \in Nat
  BY <1>3 DEF One, Pending, Waits, Reads
<1> DEFINE Paid == \/ Pending' <= Pending /\ Waits' = Waits /\ Reads' = Reads
                   \/ Pending' <= Pending + 1 /\ Waits' = Waits - 1 /\ Reads' = Reads
                   \/ Pending' <= Pending + 1 /\ Waits' = Waits /\ Reads = 1 /\ Reads' = 0
<1>s. ASSUME Pending' \in Int, Paid PROVE MessagesLeft' <= MessagesLeft
  <2>1. Waits' \in Int /\ Reads' \in Int
    BY <1>6, <1>s
  <2>2. Pending' + Waits' + Reads' <= Pending + Waits + Reads
    BY <1>6, <1>s, <2>1, Balance
  <2> QED BY <1>5, <2>2
<1>7. CASE Read
  <2>1. /\ stream # <<>> /\ stream' = Tail(stream)
        /\ queue' = queue \/ queue' = Append(queue, Head(stream))
        /\ UNCHANGED <<reader, got, noise>>
    BY <1>7 DEF Read
  <2>2. Len(stream') = Len(stream) - 1 /\ Head(stream) \in Messages
    BY <1>3, <2>1, HeadTailProperties
  <2>3. Len(queue') = Len(queue) \/ Len(queue') = Len(queue) + 1
    BY <1>3, <2>1, <2>2, AppendProperties
  <2>4. Pending' <= Pending /\ Pending' \in Int
    BY <1>3, <2>1, <2>2, <2>3 DEF Pending
  <2>5. Waits' = Waits /\ Reads' = Reads
    BY <1>2, <2>1 DEF One, Waits, Reads
  <2> QED BY <1>s, <2>4, <2>5
<1>8. ASSUME NEW s \in Sessions, ReaderBreaks(s) \/ ReaderStops(s)
      PROVE  MessagesLeft' <= MessagesLeft
  <2>1. /\ reader[s] = "on" /\ reader' = [reader EXCEPT ![s] = "ended"]
        /\ queue' = queue \/ (s = cur /\ queue' = Append(queue, Junk))
        /\ UNCHANGED <<stream, got, noise>>
    BY <1>8 DEF ReaderBreaks, ReaderStops, Reading, server
  <2>2. Waits' = Waits
    BY <1>2, <2>1 DEF One, Waits
  <2>3. CASE s = cur
    <3>1. Reads = 1 /\ Reads' = 0
      BY <1>2, <1>3, <1>4, <2>1, <2>3 DEF One, Reads
    <3>2. Len(queue') = Len(queue) \/ Len(queue') = Len(queue) + 1
      BY <1>3, <2>1, AppendProperties DEF Junk, Message, Messages, Bodies
    <3>3. Pending' <= Pending + 1 /\ Pending' \in Int
      BY <1>3, <2>1, <3>2 DEF Pending
    <3> QED BY <1>s, <2>2, <3>1, <3>3
  <2>4. CASE s # cur
    <3>1. reader'[cur] = reader[cur]
      BY <1>3, <1>4, <2>1, <2>4
    <3>2. Reads' = Reads /\ Pending' <= Pending /\ Pending' \in Int
      BY <1>2, <1>3, <2>1, <2>4, <3>1 DEF One, Pending, Reads
    <3> QED BY <1>s, <2>2, <3>2
  <2> QED BY <2>3, <2>4
<1>9. ASSUME NEW s, NEW m \in Messages, Sends(s, m) \/ UNCHANGED stream
      PROVE  Len(stream') = Len(stream) \/ (s = cur /\ Len(stream') = Len(stream) + 1)
  <2>1. stream' = stream \/ (s = cur /\ stream' = Append(stream, m))
    BY <1>9 DEF Sends
  <2> QED BY <1>3, <2>1, AppendProperties
<1>10. CASE Offer
  BY <1>10 DEF Offer, Listening
<1>11. CASE Noise
  <2>1. /\ noise < MaxNoise /\ noise' = noise + 1
        /\ Sends(cur, Junk) \/ Sends(cur, Message(1, "init"))
        /\ UNCHANGED <<queue, reader, got>>
    BY <1>11 DEF Noise, threads
  <2>2. Junk \in Messages /\ Message(1, "init") \in Messages
    BY DEF Junk, Message, Messages, Bodies, GreetingBodies
  <2>3. Len(stream') = Len(stream) \/ Len(stream') = Len(stream) + 1
    BY <1>9, <2>1, <2>2
  <2>4. Pending' <= Pending /\ Pending' \in Int
    BY <1>3, <2>1, <2>3 DEF Pending
  <2>5. Waits' = Waits /\ Reads' = Reads
    BY <1>2, <2>1 DEF One, Waits, Reads
  <2> QED BY <1>s, <2>4, <2>5
<1>12. ASSUME NEW body \in GreetingBodies, ServeInitialize(body)
       PROVE  MessagesLeft' <= MessagesLeft
  <2>1. /\ 1 \in got[cur] /\ got' = [got EXCEPT ![cur] = @ \ {1}]
        /\ Sends(cur, Message(1, body))
        /\ UNCHANGED <<queue, reader, noise>>
    BY <1>12 DEF ServeInitialize, threads
  <2>2. Message(1, body) \in Messages
    BY DEF Message, Messages, Bodies
  <2>3. Len(stream') = Len(stream) \/ Len(stream') = Len(stream) + 1
    BY <1>9, <2>1, <2>2
  <2>4. Pending' <= Pending + 1 /\ Pending' \in Int
    BY <1>3, <2>1, <2>3 DEF Pending
  <2>5. got'[cur] = got[cur] \ {1}
    BY <1>3, <1>4, <2>1
  <2>6. Waits' = Waits - 1 /\ Reads' = Reads
    BY <1>2, <2>1, <2>5 DEF One, Waits, Reads
  <2> QED BY <1>s, <2>4, <2>6
<1>13. ASSUME NEW s \in Sessions, NEW body \in ToolBodies, ServeCall(s, body)
       PROVE  MessagesLeft' <= MessagesLeft
  <2>1. /\ 2 \in got[s] /\ got' = [got EXCEPT ![s] = @ \ {2}]
        /\ Sends(s, Message(2, body)) \/ UNCHANGED stream
        /\ UNCHANGED <<queue, reader, noise>>
    BY <1>13 DEF ServeCall, threads
  <2>2. Message(2, body) \in Messages
    BY DEF Message, Messages, Bodies
  <2>3. Len(stream') = Len(stream) \/ (s = cur /\ Len(stream') = Len(stream) + 1)
    BY <1>9, <2>1, <2>2
  <2>4. Reads' = Reads
    BY <1>2, <2>1 DEF One, Reads
  <2>5. CASE s = cur
    <3>1. Pending' <= Pending + 1 /\ Pending' \in Int
      BY <1>3, <2>1, <2>3 DEF Pending
    <3>2. got'[cur] = got[cur] \ {2}
      BY <1>3, <1>4, <2>1, <2>5
    <3>3. Waits' = Waits - 1
      BY <1>2, <2>1, <2>5, <3>2 DEF One, Waits
    <3> QED BY <1>s, <2>4, <3>1, <3>3
  <2>6. CASE s # cur
    <3>1. got'[cur] = got[cur]
      BY <1>3, <1>4, <2>1, <2>6
    <3>2. Waits' = Waits /\ Pending' <= Pending /\ Pending' \in Int
      BY <1>2, <1>3, <2>1, <2>3, <2>6, <3>1 DEF One, Pending, Waits
    <3> QED BY <1>s, <2>4, <3>2
  <2> QED BY <2>5, <2>6
<1>14. ~(\E k \in Kinds : Start(k))
  BY DEF Start
<1> QED BY <1>7, <1>8, <1>10, <1>11, <1>12, <1>13, <1>14 DEF Next, Server

\* Every step of a caller, its timeouts among them, brings it nearer to its
\* answer: calls left, stages of the session, messages that may come before the
\* one it waits for, in this order; neither the reader thread nor the server,
\* with late answers, noise and broken streams, takes it back (mcp/client.py).
THEOREM CallerComesNearer ==
  Spec => /\ []({CallsLeft, StagesLeft, MessagesLeft} \subseteq Nat)
          /\ [][/\ Caller => Nearer
                /\ pc # "idle" /\ ~Caller => NoFarther]_vars
<1>1. Inv /\ Next => /\ Caller => Nearer
                     /\ pc # "idle" /\ ~Caller => NoFarther
  BY CallerNearer, OthersNoFarther
<1>2. Inv => {CallsLeft, StagesLeft, MessagesLeft} \subseteq Nat
  BY MeasuresNat
<1> QED BY <1>1, <1>2, Invariance, PTL DEF Spec

=============================================================================
