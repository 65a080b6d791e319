----------------------------- MODULE CmdbQuery -----------------------------
(* Questions about the CMDB, one after the other: the legacy chat with its   *)
(* rule parser and LLM planner (app.py, agent/rule_parser.py, llm), the V4   *)
(* handler (chat_v4/handlers/cmdb_query.py), the resolver of devices         *)
(* (device_identity/resolver.py) and the endpoints, over one adapter         *)
(* (cmdb/adapter.py): pages of a table that changes while it is read,        *)
(* retries, a second scan without filters, a filter of its own.              *)
EXTENDS Integers, Sequences, FiniteSets, SequencesExt

CONSTANTS
  Machines,       \* the rows the CMDB may hold
  Filters,        \* the conditions of a query; a keyword is one of them
  Matches,        \* the devices each condition admits
  Keywords,       \* conditions made of one keyword
  Addresses,      \* keywords that are an address
  Lists,          \* conditions made of a list of addresses
  Owner,          \* the device whose own name or address a keyword is
  WholeText,      \* the condition "search" with the text of a question
  Unknown,        \* a key no query may use
  Nothing,        \* no keyword, no device
  Tables,         \* the tables of the CMDB at the start
  Servers,        \* what the CMDB makes of each condition; totals; access
  Remembered,     \* devices the V4 context may remember at the start
  Inventories,    \* the device lists of Netmiko
  Inquiries,      \* what the rule parser finds in a question
  ToolPlans,      \* what the LLM answers
  Settings,       \* settings of the planner
  Specs,          \* the arguments the V4 arbiter chose
  Calls,          \* the calls of the endpoints
  ScanPage,       \* local_filter_scan_page_size
  MaxRows,        \* local_filter_max_scan_rows
  PageSize,       \* rows of an answer of the chat
  DetailSize,     \* rows of a detail query
  ExportSize,     \* rows of an export
  Retries,        \* request_retries of the CMDB
  Bases,          \* base URLs of the LLM
  LlmRetries,     \* request_retries of the LLM
  MaxChanges,     \* bound: changes of the CMDB
  MaxRequests     \* bound: requests

ASSUME SizesAssumption ==
  /\ {ScanPage, MaxRows, PageSize, DetailSize, ExportSize, Bases} \subseteq Nat \ {0}
  /\ {Retries, LlmRetries} \subseteq Nat

\* A keyword is the name or the address of one device; names may be parts of
\* other names, an address is of one device only.
ASSUME ConditionsAssumption ==
  /\ Addresses \subseteq Keywords
  /\ Keywords \cup Lists \cup {WholeText} \subseteq Filters
  /\ Matches \in [Filters -> SUBSET Machines]
  /\ Owner \in [Keywords -> Machines]
  /\ \A k \in Keywords : Owner[k] \in Matches[k]
  /\ \A k \in Addresses : Matches[k] = {Owner[k]}
  /\ \A d \in Machines : \E k \in Keywords \ Addresses : Owner[k] = d
  /\ Servers \subseteq [support : [Filters -> {"applied", "ignored", "rejected"}],
                        total : BOOLEAN, configured : BOOLEAN]
  /\ Unknown \notin Filters
  /\ Nothing \notin Filters \cup Machines

\* A table holds each row once; pages and their sizes are at least one.
ASSUME InputsAssumption ==
  /\ \A rows \in Tables : rows \in Seq(Machines) /\ IsInjective(rows)
  /\ Remembered \subseteq Machines \cup {Nothing}
  /\ Inquiries \subseteq [ip : Keywords \cup {Nothing}, filters : SUBSET Filters,
                          long : BOOLEAN, assist : BOOLEAN]
  /\ ToolPlans \subseteq [tool : STRING, sure : BOOLEAN,
                          filters : SUBSET (Filters \cup {Unknown}),
                          keyword : Keywords \cup {Nothing}, asManyFields : BOOLEAN]
  /\ Specs \subseteq [operation : {"auto", "detail", "by_ips", "devices"},
                      keyword : Keywords \cup {Nothing}, hint : Keywords \cup {Nothing},
                      filters : SUBSET (Filters \cup {Unknown}), ips : Lists \cup {Nothing},
                      page : Nat \ {0}, size : Nat \ {0}, named : BOOLEAN]
  /\ Calls \subseteq [filters : SUBSET Filters, page : Nat \ {0}, size : Nat \ {0}]

VARIABLES
  table,      \* the rows of the CMDB, in its order
  server,     \* what the CMDB does with conditions, counts and this client
  inventory,  \* the device list of Netmiko: name and login address of each entry
  phase,      \* idle, ask (the LLM), get (the CMDB), match (Netmiko)
  req,        \* the request
  ask,        \* the call of the LLM: base URL, attempt
  scan,       \* the scan: page, rows so far, attempt
  answer,     \* what the last request was answered
  device,     \* the device the V4 context remembers
  changes,    \* changes of the CMDB so far
  requests    \* requests so far

cmdbVars == <<table, server, inventory, phase, req, ask, scan, answer, device,
          changes, requests>>

----------------------------------------------------------------------------
(* The questions of the legacy chat: rules, plan of the LLM, choice. *)

\* What follows from what the rules found in the text: an address, or the
\* conditions on IDC, room, rack, vendor, type, status and model.
Rule(question) ==
  CASE question.ip # Nothing ->
         [intent |-> "detail", filters |-> {question.ip}, reason |-> "detected_ip"]
    [] question.ip = Nothing /\ question.filters # {} ->
         [intent |-> "devices", filters |-> question.filters,
          reason |-> "detected_filters"]
    [] OTHER ->
         IF question.long
           THEN [intent |-> "devices", filters |-> {WholeText}, reason |-> "fallback_search"]
           ELSE [intent |-> "clarify", filters |-> {}, reason |-> ""]

Weak(rule) == rule.intent = "clarify" \/ rule.reason = "fallback_search"

ShouldTryLlm(question, rule, mode, cfg) ==
  /\ cfg.enabled
  /\ mode # "rule"
  /\ \/ mode = "llm"
     \/ cfg.always
     \/ Weak(rule)
     \/ /\ ~(cfg.keepIp /\ rule.reason = "detected_ip")
        /\ cfg.policy = "assistive"
        /\ question.assist

\* The plan with the keys that are allowed; a query without a condition
\* becomes a request for one.
SanitizeFilters(plan) == plan.filters \cap Filters

SanitizePlan(plan) ==
  LET tool == CASE plan.tool = "devices" /\ SanitizeFilters(plan) # {} -> "devices"
                [] plan.tool = "detail" /\ plan.keyword # Nothing -> "detail"
                [] OTHER -> "clarify"
  IN [intent |-> tool, reason |-> "llm_tool_plan",
      filters |-> CASE tool = "devices" -> SanitizeFilters(plan)
                    [] tool = "detail" -> {plan.keyword}
                    [] OTHER -> {}]

\* A detail query carries its keyword outside its filters.
FilterCount(parsed) ==
  IF parsed.intent = "devices" THEN Cardinality(parsed.filters) ELSE 0

AcceptLlm(rule, llm, plan, mode, cfg) ==
  \/ mode = "llm"
  \/ /\ plan.sure
     /\ ~(llm.intent = "clarify" /\ rule.intent # "clarify")
     /\ \/ Weak(rule)
        \/ /\ rule.reason # "detected_ip"
           /\ IF cfg.acceptEqual
                THEN FilterCount(llm) >= FilterCount(rule) /\ plan.asManyFields
                ELSE FilterCount(llm) > FilterCount(rule)

----------------------------------------------------------------------------
(* The adapter: which rows a request sees, when a scan ends, what is left. *)

SentFilters == IF scan.filtered THEN req.filters ELSE {}

Rejected == \E f \in SentFilters : server.support[f] = "rejected"

\* The rows that are in D, in their order: kept[n] is what the first n leave.
Kept(rows, D) ==
  LET kept[n \in 0..Len(rows)] ==
        IF n = 0 THEN <<>>
        ELSE IF rows[n] \in D THEN Append(kept[n - 1], rows[n]) ELSE kept[n - 1]
  IN kept[Len(rows)]

\* The rows the CMDB serves: conditions it does not know are ignored.
Candidates ==
  Kept(table, {d \in Machines : \A f \in SentFilters :
                 server.support[f] = "applied" => d \in Matches[f]})

\* A page of the CMDB, or of the adapter's own rows.  The CMDB serves pages of
\* the size it is asked for, so a shorter one is the last (adapter.py 306).
PageOf(rows, page, size) ==
  SubSeq(rows, (page - 1) * size + 1,
         IF page * size < Len(rows) THEN page * size ELSE Len(rows))

\* Without a total the size of the page is taken for it.
ReportedCount(batch) == IF server.total THEN Len(Candidates) ELSE Len(batch)

MaxPages == (MaxRows + ScanPage - 1) \div ScanPage

\* Mutant: a full page is taken for the last one.
LastPageFull(batch, rows) == Len(batch) <= ScanPage

LastPage(batch, rows) ==
  \/ batch = <<>>
  \/ Len(rows) >= MaxRows
  \/ ReportedCount(batch) > 0 /\ Len(rows) >= ReportedCount(batch)
  \/ Len(batch) < ScanPage
  \/ scan.page = MaxPages

FirstRows(rows) == SubSeq(rows, 1, IF Len(rows) < MaxRows THEN Len(rows) ELSE MaxRows)

\* Mutant: rows the CMDB was asked for with filters are taken as they are.
TrustFilteredRows(rows) ==
  IF scan.filtered THEN rows
  ELSE Kept(rows, {d \in Machines : \A f \in req.filters : d \in Matches[f]})

\* With local_filter_enabled, the default; a server with this switch off
\* returns the rows as they came.
LocalFilterRows(rows) ==
  Kept(rows, {d \in Machines : \A f \in req.filters : d \in Matches[f]})

NewScan(filtered) ==
  [filtered |-> filtered, page |-> 1, rows |-> <<>>, tries |-> 0, steady |-> TRUE]

\* Model knowledge: the rows of the table an answer should be about.
TrueRows == {d \in ToSet(table) : \A f \in req.filters : d \in Matches[f]}

Found(items, count, exact) ==
  [status |-> "ok", kind |-> req.kind, items |-> items, count |-> count,
   code |-> "", cause |-> "", exact |-> exact, truth |-> TrueRows,
   entry |-> Nothing]

AdapterCode(cause) ==
  CASE cause = "unconfigured" -> "CMDB_EMPTY_TOKEN"
    [] cause = "refused" -> "CMDB_AUTH_REQUIRED"
    [] cause = "server" -> "CMDB_SERVER_ERROR"
    [] OTHER -> "CMDB_TIMEOUT"

\* normalize_tool_result: the tools replace the adapter's code by one of these.
ToolCode(cause) ==
  CASE cause = "unconfigured" -> "CMDB_EMPTY_TOKEN"
    [] cause \in {"refused", "server"} -> "CMDB_HTTP_ERROR"
    [] OTHER -> "TOOL_EXCEPTION"

NotFetched(cause) ==
  [status |-> "error", kind |-> req.kind, items |-> <<>>, count |-> 0,
   code |-> IF req.kind = "direct" THEN AdapterCode(cause) ELSE ToolCode(cause),
   cause |-> cause, exact |-> FALSE, truth |-> {}, entry |-> Nothing]

NoAnswer ==
  [status |-> "none", kind |-> "none", items |-> <<>>, count |-> 0,
   code |-> "", cause |-> "", exact |-> FALSE, truth |-> {},
   entry |-> Nothing]

----------------------------------------------------------------------------
(* The V4 handler and the resolver. *)

\* The keyword of the handler: of the plan, of the decision, of the context.
HandlerKeyword(spec) ==
  CASE spec.keyword # Nothing -> spec.keyword
    [] spec.keyword = Nothing /\ spec.hint # Nothing -> spec.hint
    [] OTHER -> IF device = Nothing THEN Nothing
                ELSE CHOOSE k \in Keywords \ Addresses : Owner[k] = device

HandlerOperation(spec) ==
  CASE spec.operation # "auto" -> spec.operation
    [] spec.operation = "auto" /\ spec.ips # Nothing -> "by_ips"
    [] OTHER -> IF HandlerKeyword(spec) # Nothing THEN "detail" ELSE "devices"

HandlerFilters(spec) ==
  CASE HandlerOperation(spec) = "detail" -> {HandlerKeyword(spec)}
    [] HandlerOperation(spec) = "by_ips" -> {spec.ips}
    [] OTHER -> spec.filters

\* What the handler refuses before any call.
Invalid(spec) ==
  \/ Unknown \in spec.filters
  \/ HandlerOperation(spec) = "detail" /\ HandlerKeyword(spec) = Nothing
  \/ HandlerOperation(spec) = "by_ips" /\ spec.ips = Nothing

\* A single item is remembered, by its name or address if the fields of the
\* plan have one of them; otherwise the device of before stays.
RememberedDevice(items) ==
  IF Len(items) # 1 THEN device ELSE IF req.named THEN items[1] ELSE Nothing

\* Mutant: the first row.
SelectFirst(keyword, items) == IF items = <<>> THEN Nothing ELSE items[1]

\* The row a keyword means: its own device, else the first one.
SelectItem(keyword, items) ==
  IF items = <<>> THEN Nothing
  ELSE IF Owner[keyword] \in ToSet(items) THEN Owner[keyword] ELSE items[1]

\* The entry of Netmiko: by the row's name, its address, then the keyword.
NetmikoMatches(keyword, item) ==
  LET named(d) == {e \in inventory : e.name = d}
      addressed(d) == {e \in inventory : e.address = d}
      own == Owner[keyword]
  IN CASE item # Nothing /\ named(item) # {} -> named(item)
       [] item # Nothing /\ named(item) = {} /\ addressed(item) # {} -> addressed(item)
       [] OTHER -> IF keyword \in Addresses THEN addressed(own) ELSE named(own)

----------------------------------------------------------------------------
NoRequest ==
  [kind |-> "none", mode |-> "auto", rule |-> Rule([ip |-> Nothing, filters |-> {},
   long |-> FALSE, assist |-> FALSE]), cfg |-> Nothing, filters |-> {},
   page |-> 1, size |-> PageSize, keyword |-> Nothing, named |-> TRUE, asked |-> {}]

NoAsk == [base |-> 1, tries |-> 0]

CmdbInit ==
  /\ table \in Tables
  /\ server \in Servers
  /\ inventory \in Inventories
  /\ phase = "idle"
  /\ req = NoRequest
  /\ ask = NoAsk
  /\ scan = NewScan(FALSE)
  /\ answer = NoAnswer
  /\ device \in Remembered
  /\ changes = 0
  /\ requests = 0

\* Starts a query of the adapter; without a condition it is one page.
Start(r) ==
  /\ req' = r
  /\ scan' = [NewScan(r.filters # {}) EXCEPT !.page = IF r.filters # {} THEN 1 ELSE r.page]
  /\ phase' = "get"

Arrives == phase = "idle" /\ requests < MaxRequests /\ requests' = requests + 1

\* The query of a parsed question, or the request for more.
Use(r, parsed) ==
  IF parsed.intent = "clarify" \/ r.kind = "compare"
    THEN /\ req' = [r EXCEPT !.filters = parsed.filters]
         /\ answer' = [NoAnswer EXCEPT !.kind = r.kind,
              !.status = IF parsed.intent = "clarify" THEN "need_clarification" ELSE "parsed"]
         /\ phase' = "idle"
         /\ scan' = scan
    ELSE /\ Start([r EXCEPT !.filters = parsed.filters,
                            !.size = IF parsed.intent = "detail" THEN DetailSize ELSE PageSize])
         /\ answer' = answer

\* The choice between the rules and the LLM begins.
Parse(kind, question, mode, cfg) ==
  LET rule == Rule(question)
      r == [NoRequest EXCEPT !.kind = kind, !.mode = mode, !.rule = rule,
                             !.cfg = cfg, !.asked = rule.filters]
  IN /\ Arrives
     /\ IF ShouldTryLlm(question, rule, mode, cfg)
          THEN /\ phase' = "ask"
               /\ req' = r
               /\ ask' = NoAsk
               /\ UNCHANGED <<scan, answer>>
          ELSE Use(r, rule) /\ ask' = ask
     /\ UNCHANGED <<table, server, inventory, device, changes>>

\* A question of the legacy chat.
ChatQuestion(question, mode, cfg) == Parse("chat", question, mode, cfg)

\* The endpoint that shows the choice and queries nothing.
Compare(question, mode, cfg) == Parse("compare", question, mode, cfg)

\* A time-out, a failed request or a status that is tried again.
LlmAgain ==
  /\ phase = "ask"
  /\ ask.tries < LlmRetries
  /\ ask' = [ask EXCEPT !.tries = @ + 1]
  /\ UNCHANGED <<table, server, inventory, phase, req, scan, answer, device, changes, requests>>

\* Another status, an answer without content, or the last attempt: next URL.
LlmNextBase ==
  /\ phase = "ask"
  /\ ask.base < Bases
  /\ ask' = [base |-> ask.base + 1, tries |-> 0]
  /\ UNCHANGED <<table, server, inventory, phase, req, scan, answer, device, changes, requests>>

\* No plan, or text that is none: the rules decide.
LlmWithoutPlan ==
  /\ phase = "ask"
  /\ Use(req, req.rule)
  /\ UNCHANGED <<table, server, inventory, ask, device, changes, requests>>

LlmPlan(plan) ==
  LET llm == SanitizePlan(plan)
  IN /\ phase = "ask"
     /\ Use(req, IF AcceptLlm(req.rule, llm, plan, req.mode, req.cfg) THEN llm ELSE req.rule)
     /\ UNCHANGED <<table, server, inventory, ask, device, changes, requests>>

----------------------------------------------------------------------------
\* A question of the V4 path, with the arguments of its arbiter.
Handle(spec) ==
  LET r == [NoRequest EXCEPT !.kind = "handler", !.named = spec.named, !.asked = spec.filters,
              !.filters = HandlerFilters(spec),
              !.page = IF HandlerOperation(spec) = "devices" THEN spec.page ELSE 1,
              !.size = IF HandlerOperation(spec) = "detail" THEN DetailSize ELSE spec.size]
  IN /\ Arrives
     /\ IF Invalid(spec)
          THEN /\ answer' = [NoAnswer EXCEPT !.status = "error", !.kind = "handler",
                                            !.cause = "invalid"]
               /\ UNCHANGED <<phase, req, scan>>
          ELSE Start(r) /\ answer' = answer
     /\ UNCHANGED <<table, server, inventory, ask, device, changes>>

\* The router or the V4 command handler wants to know a device.
Resolve(keyword) ==
  /\ Arrives
  /\ Start([NoRequest EXCEPT !.kind = "resolver", !.filters = {keyword},
                             !.keyword = keyword, !.size = DetailSize])
  /\ UNCHANGED <<table, server, inventory, ask, answer, device, changes>>

\* The endpoints: by the tools, or by the adapter itself.
Query(kind, call) ==
  /\ Arrives
  /\ Start([NoRequest EXCEPT !.kind = kind, !.filters = call.filters,
                             !.page = call.page, !.size = call.size])
  /\ UNCHANGED <<table, server, inventory, ask, answer, device, changes>>

QueryTool(call) == Query("tool", call)

QueryDirect(call) == Query("direct", call)

\* The export queries again, the first rows up to its own limit.
Export(filters) == QueryDirect([filters |-> filters, page |-> 1, size |-> ExportSize])

\* What becomes of an answer of the adapter.
Conclude(result) ==
  IF req.kind = "resolver"
    THEN /\ phase' = "match"
         /\ answer' = result
         /\ UNCHANGED device
    ELSE /\ phase' = "idle"
         /\ answer' = result
         /\ device' = IF req.kind = "handler" /\ result.status = "ok"
                        THEN RememberedDevice(result.items) ELSE device

\* A page arrives.
GetPage ==
  \E batch \in {PageOf(Candidates, scan.page, ScanPage)} :
  LET rows == scan.rows \o batch
      read == FirstRows(rows)
      left == LocalFilterRows(read)
      exact == scan.steady /\ server.total /\ Len(Candidates) <= MaxRows
  IN /\ phase = "get" /\ req.filters # {}
     /\ server.configured /\ ~Rejected
     /\ IF LastPage(batch, rows)
          THEN Conclude(Found(PageOf(left, req.page, req.size), Len(left), exact)) /\ scan' = scan
          ELSE /\ scan' = [scan EXCEPT !.page = @ + 1, !.rows = rows, !.tries = 0]
               /\ UNCHANGED <<phase, answer, device>>
     /\ UNCHANGED <<table, server, inventory, req, ask, changes, requests>>

\* Without conditions the page of the CMDB is the answer.
GetUnfiltered ==
  LET batch == PageOf(table, scan.page, req.size)
  IN /\ phase = "get" /\ req.filters = {}
     /\ server.configured
     /\ Conclude(Found(batch, ReportedCount(batch), server.total))
     /\ UNCHANGED <<table, server, inventory, req, ask, scan, changes, requests>>

\* What a request of the CMDB may come to: a status that is not tried again,
\* another status or no JSON, no answer at all.
Causes ==
  IF ~server.configured THEN {"unconfigured"}
  ELSE IF Rejected THEN {"server", "silent"} ELSE {"refused", "server", "silent"}

Final(cause) == cause \in {"unconfigured", "refused"} \/ scan.tries >= Retries

\* Mutant: every scan that fails is begun again without conditions.
FallsBackAlways == req.filters # {}

\* Only the scan with conditions falls back to the one without.
FallsBack == scan.filtered

\* A failed request: once more, a scan without conditions, or an error.
GetFails(cause) ==
  /\ phase = "get" /\ cause \in Causes
  /\ CASE ~Final(cause) ->
            /\ scan' = [scan EXCEPT !.tries = @ + 1]
            /\ UNCHANGED <<phase, answer, device>>
       [] Final(cause) /\ FallsBack ->
            /\ scan' = NewScan(FALSE)
            /\ UNCHANGED <<phase, answer, device>>
       [] OTHER -> Conclude(NotFetched(cause)) /\ scan' = scan
  /\ UNCHANGED <<table, server, inventory, req, ask, changes, requests>>

\* The resolver looks the device up in Netmiko, whose list may not come.
MatchNetmiko(listed) ==
  LET item == SelectItem(req.keyword, answer.items)
      entries == IF listed THEN NetmikoMatches(req.keyword, item) ELSE {}
      named == answer.status = "ok"
  IN /\ phase = "match"
     /\ phase' = "idle"
     /\ \E entry \in IF entries = {} THEN {Nothing} ELSE entries :
          answer' = [answer EXCEPT
            !.status = IF item = Nothing /\ entry = Nothing THEN "not_found"
                       ELSE IF named /\ entry # Nothing THEN "ok" ELSE "partial",
            !.items = IF item = Nothing THEN <<>> ELSE <<item>>, !.entry = entry]
     /\ UNCHANGED <<table, server, inventory, req, ask, scan, device, changes, requests>>

\* The CMDB gets or loses a row.
Change ==
  /\ changes < MaxChanges
  /\ changes' = changes + 1
  /\ \/ \E i \in DOMAIN table : table' = RemoveAt(table, i)
     \/ \E i \in 1..Len(table) + 1, d \in Machines \ ToSet(table) : table' = InsertAt(table, i, d)
  /\ scan' = [scan EXCEPT !.steady = FALSE]
  /\ UNCHANGED <<server, inventory, phase, req, ask, answer, device, requests>>

Progress ==
  \/ LlmAgain \/ LlmNextBase \/ LlmWithoutPlan \/ (\E plan \in ToolPlans : LlmPlan(plan))
  \/ GetPage \/ GetUnfiltered \/ (\E cause \in Causes : GetFails(cause))
  \/ (\E listed \in BOOLEAN : MatchNetmiko(listed))

CmdbNext ==
  \/ \E question \in Inquiries, mode \in {"auto", "rule", "llm"}, cfg \in Settings :
       ChatQuestion(question, mode, cfg) \/ Compare(question, mode, cfg)
  \/ \E spec \in Specs : Handle(spec)
  \/ \E keyword \in Keywords : Resolve(keyword)
  \/ \E call \in Calls : QueryTool(call) \/ QueryDirect(call) \/ Export(call.filters)
  \/ Progress
  \/ Change

CmdbSpec == CmdbInit /\ [][CmdbNext]_cmdbVars

\* Each wait for the LLM, the CMDB and Netmiko ends by its timeout.
CmdbLiveSpec == CmdbSpec /\ WF_cmdbVars(Progress)

----------------------------------------------------------------------------
(* Properties *)

CmdbTypeOK ==
  /\ table \in Seq(Machines)
  /\ phase \in {"idle", "ask", "get", "match"}
  /\ req.filters \subseteq Filters
  /\ scan.page \in Nat \ {0} /\ scan.rows \in Seq(Machines) /\ scan.tries \in 0..Retries
  /\ answer.items \in Seq(Machines) /\ answer.count \in Nat
  /\ device \in Machines \cup {Nothing}

\* Every row of an answer satisfies every condition of its query, whatever the
\* CMDB makes of the conditions and whichever of the two scans it came from
\* (adapter.py 352-383).
AnswerMatches ==
  phase = "idle" /\ answer.kind # "resolver" /\ answer.status = "ok" =>
    \A d \in ToSet(answer.items), f \in req.filters : d \in Matches[f]

\* An answer over a CMDB that held still, reported its totals, served pages of
\* the size asked for and had no more candidates than the limit counts every
\* device that matches, and only those, the adapter's own filter being on
\* (_scan_rows, query_devices).
StableAnswerComplete ==
  phase = "idle" /\ answer.status = "ok" /\ answer.exact /\ answer.kind # "resolver" =>
    /\ answer.count = Cardinality(answer.truth)
    /\ ToSet(answer.items) \subseteq answer.truth

\* A keyword that is a device's own name or address resolves to this device and
\* to its entry in Netmiko, though names are parts of other names: if the CMDB
\* held still and the matches fit in one page (select_cmdb_item,
\* find_netmiko_match).
ResolvedIsNamed ==
  phase = "idle" /\ answer.kind = "resolver" /\ answer.exact
    /\ Owner[req.keyword] \in answer.truth /\ Cardinality(answer.truth) <= DetailSize =>
    /\ answer.items = <<Owner[req.keyword]>>
    /\ answer.entry # Nothing =>
         Owner[req.keyword] \in {answer.entry.name, answer.entry.address}

\* Every request is answered: retries of the LLM and of the CMDB, base URLs,
\* pages and the second scan end.
CmdbAnswered == phase # "idle" ~> phase = "idle"

----------------------------------------------------------------------------
(* Promises the code does not keep *)

\* "CMDB handler only reads the structured operation, keyword, filters, fields,
\* ips and paging" (docs/v4_3_1_cmdb_and_command_generation.md:40): the rows of
\* its answer satisfy the filters of the plan. Fails: without an operation, the
\* device the context remembers becomes the keyword, and the filters are dropped
\* (cmdb_query.py 194-205).
PlanFiltersAnswered ==
  phase = "idle" /\ answer.kind = "handler" /\ answer.status = "ok" =>
    \A d \in ToSet(answer.items), f \in req.asked : d \in Matches[f]

\* A time-out of the CMDB is reported as one (tests/test_v4_3_1_handlers.py 207,
\* tools/errors.py 8). Fails: normalize_tool_result replaces the adapter's code.
TimeoutNamed == answer.cause = "silent" => answer.code = "CMDB_TIMEOUT"

\* The device remembered for the next question is the only match of the last
\* one. Fails: it is the only row of a page.
RememberedIsOnly ==
  phase = "idle" /\ answer.kind = "handler" /\ answer.status = "ok"
    /\ Len(answer.items) = 1 => answer.count = 1

\* A query that kept still finds every match. Fails without totals (the first
\* page ends the scan) and above the limit of rows.
EveryMatchFound ==
  phase = "idle" /\ answer.status = "ok" /\ answer.kind # "resolver" /\ changes = 0 =>
    answer.count = Cardinality(answer.truth)

\* The device a keyword names is resolved. Fails when more devices contain the
\* name than the page of the query holds: the first of them is taken.
NamedAlwaysResolved ==
  phase = "idle" /\ answer.kind = "resolver" /\ answer.exact
    /\ Owner[req.keyword] \in answer.truth => answer.items = <<Owner[req.keyword]>>
=============================================================================
