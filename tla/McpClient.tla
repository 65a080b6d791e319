----------------------------- MODULE McpClient ------------------------------
(***************************************************************************)
(* The MCP client (mcp/client.py) and its two users: NetmikoMcpClient,     *)
(* which sends a command or lists the devices, and the CPU probe, which    *)
(* asks Prometheus one query template after the other.                     *)
(*                                                                         *)
(* Every call opens a session of its own: a reader thread on the event     *)
(* stream, an endpoint, initialize (id 1), the call (id 2).  Requests are  *)
(* posted; the answers come back on the stream, in any order the server    *)
(* likes, and the reader puts them into a queue.  The caller takes from    *)
(* the queue until it finds the id it waits for or its time is over.       *)
(*                                                                         *)
(* The server is external.  A post may fail and still have been received;  *)
(* a request may be run late, after nobody waits any more; the stream may  *)
(* break or stay silent for the 30 seconds the reader waits for a line.    *)
(***************************************************************************)
EXTENDS Naturals, Sequences

CONSTANTS
  Templates,    \* number of CPU_QUERY_TEMPLATES
  Hints,        \* number of patterns asked for after them
  MaxSessions,  \* bound on the sessions of a behaviour
  MaxNoise      \* bound on messages that answer nothing

ASSUME TemplatesAssumption == Templates \in Nat \ {0}
ASSUME HintsAssumption == Hints \in Nat
ASSUME MaxSessionsAssumption == MaxSessions \in Nat
ASSUME MaxNoiseAssumption == MaxNoise \in Nat

VARIABLES
  job,       \* what the caller is doing
  said,      \* what it has answered, "none" while it works
  pc,        \* where it stands in its current session
  cur,       \* number of the current session
  rpc,       \* rpc_id, the id of the next request
  reader,    \* reader thread of a session: "off", "on", "ended"
  stop,      \* _stop_event of a session
  endpoint,  \* _endpoint_queue of the current session holds the endpoint
  queue,     \* its _message_queue
  stream,    \* what the server has sent on it and the reader has not read
  got,       \* ids of the requests the server has and has not run yet
  ran,       \* how often the server has run the call of a session
  greeted,   \* sessions whose initialize the server has answered well
  told,      \* how the call of a session ended for its caller
  noise      \* messages that answered nothing, so far

caller == <<job, said, pc, cur, rpc, told>>
threads == <<reader, stop, endpoint, queue>>
server == <<stream, got, ran, greeted, noise>>
vars == <<caller, threads, server>>

Sessions == 1..MaxSessions
Kinds == {"command", "devices", "probe"}
Needs(kind) == IF kind = "probe" THEN Templates + Hints ELSE 1

GreetingBodies == {"init", "error"}
ToolBodies == {"data", "empty", "toolerror", "error"}
Bodies == GreetingBodies \cup ToolBodies \cup {"endpoint", "junk"}

(* Id 0 is no id: notifications, unreadable events, the reader's own error. *)
Message(id, body) == [id |-> id, body |-> body]
Junk == Message(0, "junk")

TypeOK ==
  /\ job \in [kind : Kinds, step : Nat, first : Nat]
  /\ said \in {"none", "executed", "listed", "ok", "no_data", "failed", "raised"}
  /\ pc \in {"idle", "open", "endpoint", "initialize", "greeting", "call", "answer"}
  /\ cur \in 0..MaxSessions
  /\ rpc \in 1..3
  /\ reader \in [Sessions -> {"off", "on", "ended"}]
  /\ stop \in [Sessions -> BOOLEAN]
  /\ endpoint \in BOOLEAN
  /\ queue \in Seq([id : 0..2, body : Bodies])
  /\ stream \in Seq([id : 0..2, body : Bodies])
  /\ got \in [Sessions -> SUBSET {1, 2}]
  /\ ran \in [Sessions -> 0..1]
  /\ greeted \in SUBSET Sessions
  /\ told \in [Sessions -> {"none", "failed", "empty", "data"}]
  /\ noise \in 0..MaxNoise

Init ==
  /\ job = [kind |-> "command", step |-> 0, first |-> 0]
  /\ said = "none"
  /\ pc = "idle"
  /\ cur = 0
  /\ rpc = 1
  /\ reader = [s \in Sessions |-> "off"]
  /\ stop = [s \in Sessions |-> FALSE]
  /\ endpoint = FALSE
  /\ queue = <<>>
  /\ stream = <<>>
  /\ got = [s \in Sessions |-> {}]
  /\ ran = [s \in Sessions |-> 0]
  /\ greeted = {}
  /\ told = [s \in Sessions |-> "none"]
  /\ noise = 0

-----------------------------------------------------------------------------
(* The caller *)

Start(kind) ==
  /\ pc = "idle"
  /\ cur + Needs(kind) <= MaxSessions
  /\ job' = [kind |-> kind, step |-> 1, first |-> cur + 1]
  /\ said' = "none"
  /\ pc' = "open"
  /\ UNCHANGED <<cur, rpc, told, threads, server>>

(* A new McpClient, with queues of its own, starts its reader thread. *)
Open ==
  /\ pc = "open"
  /\ cur' = cur + 1
  /\ rpc' = 1
  /\ reader' = [reader EXCEPT ![cur + 1] = "on"]
  /\ endpoint' = FALSE /\ queue' = <<>> /\ stream' = <<>>
  /\ pc' = "endpoint"
  /\ UNCHANGED <<job, said, told, stop, got, ran, greeted, noise>>

(* What the caller makes of a session that ended with this outcome: a      *)
(* command is executed or failed, a probe goes on until a template has     *)
(* data, and swallows the errors of the hints only.                        *)
Answers(text) == said' = text /\ pc' = "idle" /\ UNCHANGED job
GoesOn == job' = [job EXCEPT !.step = @ + 1] /\ pc' = "open" /\ UNCHANGED said

Asking == job.kind = "probe" /\ job.step <= Templates
\* Mutant: the last template counts as a hint.
HintingEarly == job.kind = "probe" /\ job.step >= Templates
Hinting == job.kind = "probe" /\ job.step > Templates

Conclude(outcome) ==
  \/ /\ job.kind = "command"
     /\ Answers(IF outcome \in {"empty", "data"} THEN "executed" ELSE "failed")
  \/ /\ job.kind = "devices"
     /\ Answers(IF outcome = "data" THEN "listed" ELSE "raised")
  \/ Asking /\ outcome = "raised" /\ Answers("raised")
  \/ Asking /\ outcome = "data" /\ Answers("ok")
  \/ Asking /\ outcome \in {"failed", "empty"} /\ job.step < Templates + Hints /\ GoesOn
  \/ Hinting /\ job.step < Templates + Hints /\ GoesOn
  \/ /\ job.kind = "probe"
     /\ Hinting \/ outcome \in {"failed", "empty"}
     /\ job.step = Templates + Hints \/ (Hinting /\ outcome = "data")
     /\ Answers("no_data")

(* connect() raises inside __enter__: __exit__ is not called, so nothing   *)
(* tells the reader thread to stop.                                        *)
ConnectFails ==
  /\ told' = [told EXCEPT ![cur] = "failed"]
  /\ Conclude("raised")
  /\ UNCHANGED <<cur, rpc, stop>>

(* __exit__ -> close(), whatever call_tool returned. *)
ClosesThen(outcome) ==
  /\ stop' = [stop EXCEPT ![cur] = TRUE]
  /\ told' = [told EXCEPT ![cur] = outcome]
  /\ Conclude(outcome)
  /\ UNCHANGED <<cur, rpc>>

GetEndpoint ==
  /\ pc = "endpoint"
  /\ endpoint
  /\ endpoint' = FALSE
  /\ pc' = "initialize"
  /\ UNCHANGED <<job, said, cur, rpc, told, reader, stop, queue, server>>

EndpointTimesOut ==
  /\ pc = "endpoint"
  /\ ConnectFails
  /\ UNCHANGED <<reader, endpoint, queue, server>>

(* A post that fails may have been received; request() waits in any case. *)
Post(id) ==
  /\ rpc' = rpc + 1
  /\ \/ got' = [got EXCEPT ![cur] = @ \cup {id}]
     \/ UNCHANGED got
  /\ UNCHANGED <<stream, ran, greeted, noise>>

Initialize ==
  /\ pc = "initialize"
  /\ Post(rpc)
  /\ pc' = "greeting"
  /\ UNCHANGED <<job, said, cur, told, threads>>

Call ==
  /\ pc = "call"
  /\ Post(rpc)
  /\ pc' = "answer"
  /\ UNCHANGED <<job, said, cur, told, threads>>

(* _wait_response: the next message, if it is the one waited for. *)
Waiting == pc \in {"greeting", "answer"} /\ queue # <<>>
\* Mutant: any response is taken.
AwaitedAny(m) == m.id # 0
Awaited(m) == m.id = rpc - 1
Take == queue' = Tail(queue)

Drop ==
  /\ Waiting
  /\ ~Awaited(Head(queue))
  /\ Take
  /\ UNCHANGED <<caller, reader, stop, endpoint, server>>

(* connect() goes on with the notification, whose post nobody checks. *)
\* Mutant: connect() goes on after an error.
HasAnything(m) == m.id = 1
HasResult(m) == m.body # "error"

Greeted ==
  /\ pc = "greeting" /\ Waiting
  /\ Awaited(Head(queue))
  /\ HasResult(Head(queue))
  /\ Take
  /\ pc' = "call"
  /\ UNCHANGED <<job, said, cur, rpc, told, reader, stop, endpoint, server>>

GreetingRefused ==
  /\ pc = "greeting" /\ Waiting
  /\ Awaited(Head(queue))
  /\ ~HasResult(Head(queue))
  /\ Take
  /\ ConnectFails
  /\ UNCHANGED <<reader, endpoint, server>>

GreetingTimesOut ==
  /\ pc = "greeting"
  /\ ConnectFails
  /\ UNCHANGED <<reader, endpoint, queue, server>>

(* _parse_tool_response: JSON-RPC errors and isError make a call fail. *)
Outcome(m) ==
  IF m.body \in {"error", "toolerror"} THEN "failed"
  ELSE IF m.body = "data" THEN "data" ELSE "empty"

Answer ==
  /\ pc = "answer" /\ Waiting
  /\ Awaited(Head(queue))
  /\ Take
  /\ ClosesThen(Outcome(Head(queue)))
  /\ UNCHANGED <<reader, endpoint, server>>

(* No response in time, with or without other messages in the queue. *)
AnswerTimesOut ==
  /\ pc = "answer"
  /\ ClosesThen("failed")
  /\ UNCHANGED <<reader, endpoint, queue, server>>

Caller ==
  \/ Open \/ GetEndpoint \/ EndpointTimesOut
  \/ Initialize \/ Greeted \/ GreetingRefused \/ GreetingTimesOut
  \/ Call \/ Answer \/ AnswerTimesOut \/ Drop

-----------------------------------------------------------------------------
(* The reader thread *)

Reading(s) == reader[s] = "on" /\ ~stop[s]

Read ==
  /\ cur \in Sessions /\ Reading(cur)
  /\ stream # <<>>
  /\ stream' = Tail(stream)
  /\ \/ /\ Head(stream).body = "endpoint"
        /\ endpoint' = TRUE
        /\ UNCHANGED queue
     \/ /\ Head(stream).body # "endpoint"
        /\ queue' = Append(queue, Head(stream))
        /\ UNCHANGED endpoint
  /\ UNCHANGED <<caller, reader, stop, got, ran, greeted, noise>>

(* The connection fails, breaks or is silent for too long: the reader      *)
(* leaves its error in the message queue.  A stream that ends leaves none. *)
ReaderBreaks(s) ==
  /\ Reading(s)
  /\ reader' = [reader EXCEPT ![s] = "ended"]
  /\ \/ s = cur /\ queue' = Append(queue, Junk)
     \/ UNCHANGED queue
  /\ UNCHANGED <<caller, stop, endpoint, server>>

(* Mutant: without the timeout of urlopen only a line wakes the reader. *)
ReaderStopsAtLine(s) ==
  /\ reader[s] = "on"
  /\ stop[s]
  /\ s = cur /\ stream # <<>>
  /\ reader' = [reader EXCEPT ![s] = "ended"]
  /\ UNCHANGED <<caller, stop, endpoint, queue, server>>

(* readline returns at the next line or after 30 seconds. *)
ReaderStops(s) ==
  /\ reader[s] = "on"
  /\ stop[s]
  /\ reader' = [reader EXCEPT ![s] = "ended"]
  /\ UNCHANGED <<caller, stop, endpoint, queue, server>>

-----------------------------------------------------------------------------
(* The server, external *)

(* Nobody hears what it sends to a session that is over. *)
Sends(s, m) == stream' = IF s = cur /\ pc \notin {"idle", "open"} THEN Append(stream, m) ELSE stream

(* The first event of a stream names the endpoint.  It comes once. *)
Offer ==
  /\ pc = "endpoint"
  /\ stream = <<>> /\ ~endpoint
  /\ Sends(cur, Message(0, "endpoint"))
  /\ UNCHANGED <<caller, threads, got, ran, greeted, noise>>

ServeInitialize(body) ==
  /\ cur \in Sessions /\ 1 \in got[cur]
  /\ got' = [got EXCEPT ![cur] = @ \ {1}]
  /\ greeted' = IF body = "init" THEN greeted \cup {cur} ELSE greeted
  /\ Sends(cur, Message(1, body))
  /\ UNCHANGED <<caller, threads, ran, noise>>

(* A call is run, perhaps long after its session, and answered unless the  *)
(* answer is lost.  With a JSON-RPC error it is refused and not run.       *)
ServeCall(s, body) ==
  /\ 2 \in got[s]
  /\ got' = [got EXCEPT ![s] = @ \ {2}]
  /\ ran' = IF body = "error" THEN ran ELSE [ran EXCEPT ![s] = @ + 1]
  /\ Sends(s, Message(2, body)) \/ UNCHANGED stream
  /\ UNCHANGED <<caller, threads, greeted, noise>>

(* Notifications, unreadable events, an answer sent again. *)
Noise ==
  /\ pc \in {"greeting", "call", "answer"}
  /\ noise < MaxNoise
  /\ noise' = noise + 1
  /\ \/ Sends(cur, Junk)
     \/ cur \in greeted /\ Sends(cur, Message(1, "init"))
  /\ UNCHANGED <<caller, threads, got, ran, greeted>>

Server ==
  \/ Offer \/ Noise
  \/ \E b \in GreetingBodies : ServeInitialize(b)
  \/ \E s \in Sessions, b \in ToolBodies : ServeCall(s, b)

Next ==
  \/ \E k \in Kinds : Start(k)
  \/ Caller
  \/ Read
  \/ \E s \in Sessions : ReaderBreaks(s) \/ ReaderStops(s)
  \/ Server

Spec == Init /\ [][Next]_vars

(* Every wait of the caller ends by its timeout, and a readline returns. *)
FairSpec ==
  Spec /\ WF_vars(Caller) /\ \A s \in Sessions : WF_vars(ReaderStops(s))

-----------------------------------------------------------------------------
(* Properties *)

(* The server sees a call only in a session whose initialize it has        *)
(* answered well, however late or often it sends that answer.              *)
CallAfterInitialize ==
  \A s \in Sessions : 2 \in got[s] \/ ran[s] > 0 => s \in greeted

(* A probe that answers "ok" has data from its last template and had none  *)
(* from an earlier one; one that answers "no_data" had none from any.      *)
ProbeVerdict ==
  pc = "idle" /\ job.kind = "probe" =>
    /\ said = "ok" => /\ told[cur] = "data"
                      /\ \A s \in job.first..(cur - 1) : told[s] # "data"
    /\ said = "no_data" =>
         \A s \in job.first..(job.first + Templates - 1) : told[s] # "data"

(* What is told "executed" was run, once; a call is never run twice, and   *)
(* one told "failed" may have been: the promise other modules rely on.     *)
Promise == INSTANCE ToolCall WITH
  Calls <- Sessions,
  told <- [s \in Sessions |->
             IF told[s] \in {"empty", "data"} THEN "ok" ELSE told[s]]

ImplementsToolCall == Promise!Spec

(* Every caller is answered, whatever server and stream do, and the reader *)
(* thread of a session that was closed ends.                               *)
CallersAndReadersEnd ==
  /\ pc # "idle" ~> pc = "idle"
  /\ \A s \in Sessions : stop[s] ~> reader[s] = "ended"

-----------------------------------------------------------------------------
(* A statement the code does not keep: a session whose connect() raised    *)
(* leaves its reader to the server's stream.                               *)
EveryReaderEnds == \A s \in Sessions : told[s] # "none" ~> reader[s] = "ended"
=============================================================================
