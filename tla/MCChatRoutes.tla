---------------------------- MODULE MCChatRoutes ----------------------------
(* A small instance of ChatRoutes for TLC.                                   *)
EXTENDS ChatRoutes, TLC

CONSTANTS d1, d2, d3, d4, d5, d6, d7, d8, d9

\* One type of each family, one of two families, and two the guard knows no
\* alias of.
MCType ==
  d1 :> "cisco_nxos" @@ d2 :> "huawei" @@ d3 :> "fortinet" @@ d4 :> "f5_tmsh"
    @@ d5 :> "hp_comware" @@ d6 :> "huawei_vrpv8" @@ d7 :> "hillstone" @@ d8 :> "linux"
    @@ d9 :> "fortios"

MCOtherNames == "huawei_vrpv8" :> {"huawei", "vrp"} @@ "linux" :> {}

Question(words, number, device, address, interface) ==
  [words |-> words, number |-> number, device |-> device, address |-> address,
   interface |-> interface]

\* Confirmations, requests in words of their own, follow-ups, topics with and
\* without a device, requests for advice, and what none of the rules knows.
MCQuestions ==
  {Question(<<"confirm", "run", "nth", "commands", "YES">>, 2, None, None, ""),
   Question(<<"run", "nth_cn">>, 1, None, None, ""),
   Question(<<"run", "all", "commands">>, 0, None, None, ""),
   Question(<<"take", "above", "commands", "run", "analyse", "result">>, 0, None, None, ""),
   Question(<<"these", "result", "analyse", "reason">>, 0, None, None, ""),
   Question(<<"analyse", "above", "commands">>, 0, None, None, ""),
   Question(<<"this", "cpu", "check">>, 0, None, None, ""),
   Question(<<"errors", "commands">>, 0, d2, None, "eth1/1"),
   Question(<<"route", "check">>, 0, None, d1, ""),
   Question(<<"next", "device">>, 0, None, None, ""),
   Question(<<"run", "all", "commands", "YES", "risk">>, 0, None, None, ""),
   Question(<<"check", "commands", "assess">>, 0, d1, None, ""),
   Question(<<"hello">>, 0, None, None, "")}

\* One plan of each route; suggestions with a device, an address or neither.
MCPlans ==
  {Plan("execute_all", "unknown", None, None, ""),
   Plan("summary", "unknown", None, None, ""),
   Plan("asset", "asset", None, None, ""),
   Plan("suggest", "unknown", d1, None, ""),
   Plan("chat", "crc", None, None, ""),
   Plan("suggest", "mem", None, None, ""),
   Plan("suggest", "cpu_check", d2, None, ""),
   Plan("prometheus_query", "bgp", None, d2, "")}

Execution(text, preview) ==
  [device |-> d1, command |-> Log, ran |-> TRUE, text |-> text, preview |-> preview]

MCContexts ==
  {[device |-> d1, intent |-> "cpu_check", executions |-> <<>>, analysis |-> FALSE],
   [device |-> None, intent |-> "none", executions |-> <<>>, analysis |-> TRUE],
   [device |-> d1, intent |-> "bgp_check",
    executions |-> <<Execution(2, 0), Execution(3, 2), Execution(0, 1)>>, analysis |-> FALSE]}

Item(command, guard) == [command |-> command, guard |-> guard]

MCPendingLists ==
  {[device |-> d1, items |-> <<Item(Log, "passed"), Item(<<"ping", "host">>, "passed"),
                               Item(Show("version"), "passed")>>],
   [device |-> d2, items |-> <<Item(Show("version"), "passed"),
                               Item(<<"show", "running-config">>, "review")>>],
   [device |-> d2, items |-> <<Item(<<"debug", "all">>, "review")>>]}

MCResults ==
  {[text |-> 2, preview |-> 2], [text |-> 3, preview |-> 1], [text |-> 1, preview |-> 0],
   [text |-> 0, preview |-> 1], [text |-> 0, preview |-> 0]}
=============================================================================
