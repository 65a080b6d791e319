------------------------------ MODULE CliGuard ------------------------------
(* What may be sent to a device: the verdict of the read-only guard         *)
(* (netmiko/cli_guard.py), the check of a command list                      *)
(* (chat_v3/safety_guard.py) and the splitter that cuts text into commands  *)
(* (chat_v3/command_splitter.py).  A command is a sequence of words; a word *)
(* may stand for several that no rule tells apart.                          *)
EXTENDS Integers, Sequences, FiniteSets, SequencesExt

Begins(command, prefixes) == \E p \in prefixes : IsPrefix(p, command)

HasWord(command, words) == \E i \in DOMAIN command : command[i] \in words

\* The members of a set of positions, the smallest first.
Ascending(S) ==
  [k \in 1..Cardinality(S) |-> CHOOSE i \in S : Cardinality({j \in S : j <= i}) = k]

----------------------------------------------------------------------------
(* The guard of the executor *)

PlatformAliases ==
  [cisco_xe |-> "cisco", cisco_ios |-> "cisco", cisco_nxos |-> "cisco",
   cisco_asa |-> "cisco", nxos |-> "cisco", ios |-> "cisco", iosxe |-> "cisco",
   huawei |-> "huawei", huawei_vrp |-> "huawei", hp_comware |-> "h3c",
   h3c |-> "h3c", fortinet |-> "fortigate", fortigate |-> "fortigate",
   fortios |-> "fortigate", f5 |-> "f5", f5_tmsh |-> "f5",
   hillstone |-> "hillstone"]

\* normalize_platform: a type without an alias is its own platform.
Platform(type) ==
  IF type = "" THEN "generic"
  ELSE IF type \in DOMAIN PlatformAliases THEN PlatformAliases[type] ELSE type

AllowedPrefixes ==
  [generic   |-> {<<"show">>, <<"display">>, <<"get">>, <<"diagnose">>, <<"diag">>,
                  <<"tmsh", "show">>, <<"tmsh", "list">>, <<"list">>},
   cisco     |-> {<<"show">>},
   huawei    |-> {<<"display">>},
   h3c       |-> {<<"display">>},
   fortigate |-> {<<"get">>, <<"diagnose">>, <<"diag">>, <<"show">>},
   f5        |-> {<<"show">>, <<"list">>, <<"tmsh", "show">>, <<"tmsh", "list">>},
   hillstone |-> {<<"show">>, <<"get">>}]

\* A platform without a list of its own has the generic one.
Allowed(platform) ==
  IF platform \in DOMAIN AllowedPrefixes
    THEN AllowedPrefixes[platform] ELSE AllowedPrefixes.generic

PipeFilters ==
  {"include", "exclude", "begin", "section", "count", "grep", "match", "find",
   "display", "no-more", "json", "i", "e"}

Redirects == {";", "&&", "||", "backquote", "subshell", ">", "<"}

\* Nothing, two lines, a pipe into something that is no filter, a shell's signs.
Malformed(command) ==
  \/ command = <<>>
  \/ HasWord(command, {"newline"} \cup Redirects)
  \/ \E i \in DOMAIN command :
       /\ command[i] = "|"
       /\ i = 1 \/ i = Len(command) \/ command[i + 1] \notin PipeFilters

\* Debugging, whole configurations, active probes.
ReviewPrefixes ==
  {<<"debug">>, <<"undebug">>, <<"diagnose", "debug">>, <<"diag", "debug">>,
   <<"terminal", "monitor">>, <<"monitor", "capture">>,
   <<"show", "running-config">>, <<"show", "startup-config">>, <<"show", "tech">>,
   <<"show", "tech-support">>, <<"display", "current-configuration">>,
   <<"display", "saved-configuration">>, <<"display", "diagnostic-information">>,
   <<"show", "full-configuration">>, <<"show", "configuration">>,
   <<"tmsh", "list", "auth">>, <<"list", "auth">>,
   <<"ping">>, <<"traceroute">>, <<"tracert">>, <<"telnet">>, <<"ssh">>}

\* Read-only, but only a person may send them.
Special(command) == Begins(command, ReviewPrefixes)

\* Words of change wherever they stand.
ChangeWords ==
  {"commit", "reload", "reboot", "shutdown", "save", "delete", "factory-reset",
   "format", "erase", "password"}

GenericDangerousPrefixes ==
  {<<"configure">>, <<"conf">>, <<"config">>, <<"system-view">>, <<"edit">>,
   <<"set">>, <<"unset">>, <<"delete">>, <<"remove">>, <<"rename">>,
   <<"commit">>, <<"save">>, <<"write">>, <<"copy">>, <<"reload">>,
   <<"reboot">>, <<"restart">>, <<"shutdown">>, <<"no", "shutdown">>,
   <<"clear">>, <<"reset">>, <<"format">>, <<"erase">>, <<"install">>,
   <<"upgrade">>, <<"request", "system">>, <<"request", "chassis">>,
   <<"run", "util">>, <<"tmsh", "modify">>, <<"tmsh", "create">>,
   <<"tmsh", "delete">>, <<"tmsh", "save">>, <<"tmsh", "load">>,
   <<"tmsh", "run", "util">>, <<"execute">>}

\* A configuration word at the start, or a word of change anywhere.
Changes(command) ==
  Begins(command, GenericDangerousPrefixes) \/ HasWord(command, ChangeWords)

\* validate: the rules in their order.
Verdict(command, type) ==
  IF Malformed(command) THEN "blocked"
  ELSE IF Special(command) THEN "review"
  ELSE IF Changes(command) THEN "blocked"
  ELSE IF /\ Begins(command, Allowed(Platform(type)))
          /\ ~(Platform(type) = "fortigate" /\ command[1] = "show")
    THEN "passed"
  ELSE "review"

----------------------------------------------------------------------------
(* The check of V3 and V4 *)

Programs ==
  {"sudo", "su", "bash", "sh", "python", "perl", "ruby", "nc", "ncat", "telnet",
   "ssh", "scp", "sftp", "curl", "wget"}

\* show or display with a pipe into one of five filters.
ReadOnlyPipe(command) ==
  /\ command[1] \in {"show", "display"}
  /\ \E i \in DOMAIN command \ {1, Len(command)} :
       /\ command[i] = "|"
       /\ command[i + 1] \in {"include", "exclude", "begin", "count", "section"}

DangerousPatterns ==
  {<<"reload">>, <<"reboot">>, <<"shutdown">>, <<"halt">>, <<"poweroff">>,
   <<"configure", "terminal">>, <<"conf", "t">>, <<"config">>, <<"delete">>,
   <<"erase">>, <<"format">>, <<"write">>, <<"copy">>, <<"move">>, <<"rename">>,
   <<"clear">>, <<"reset">>, <<"commit">>, <<"save">>, <<"set">>, <<"unset">>,
   <<"no">>, <<"install">>, <<"upgrade">>, <<"request", "system", "reboot">>,
   <<"request", "system", "power-off">>, <<"execute", "reboot">>,
   <<"execute", "shutdown">>, <<"execute", "factoryreset">>,
   <<"diagnose", "debug", "enable">>, <<"diagnose", "debug", "reset">>}

Dangerous(command) == Begins(command, DangerousPatterns)

ReadOnlyPatterns ==
  {<<"show">>, <<"display">>, <<"ping">>, <<"traceroute">>, <<"tracert">>,
   <<"terminal", "length">>, <<"terminal", "pager">>, <<"screen-length">>,
   <<"get">>, <<"execute", "ping">>, <<"execute", "traceroute">>,
   <<"tmsh", "show">>, <<"tmsh", "list">>, <<"list">>}

ReadOnly(command) ==
  \/ Begins(command, ReadOnlyPatterns)
  \/ Begins(command, {<<"diagnose">>}) /\ Len(command) > 1

CheckSingleCommand(command) ==
  /\ command # <<>>
  /\ ~HasWord(command, {"newline", "too long"} \cup Programs)
  /\ HasWord(command, {"|"} \cup Redirects) => ReadOnlyPipe(command)
  /\ ~Dangerous(command)
  /\ ReadOnly(command)

\* check_commands: all of them, and not too many.
CheckCommands(commands, max) ==
  /\ commands # <<>>
  /\ Len(commands) <= max
  /\ \A i \in DOMAIN commands : CheckSingleCommand(commands[i])

----------------------------------------------------------------------------
(* The splitter *)

\* COMMAND_START_RE: the prefixes that begin a command.
CommandStarts ==
  {<<"show">>, <<"display">>, <<"ping">>, <<"traceroute">>, <<"tracert">>,
   <<"terminal", "length">>, <<"terminal", "pager">>, <<"screen-length">>,
   <<"get">>, <<"diagnose">>, <<"execute", "ping">>, <<"execute", "traceroute">>,
   <<"tmsh", "show">>, <<"tmsh", "list">>, <<"list">>}

From(line, i) == SubSeq(line, i, Len(line))

\* The words to which the rules give a meaning wherever they stand.
Meaningful ==
  {"|", "newline", "too long"} \cup Redirects \cup ChangeWords \cup Programs
    \cup {Head(p) : p \in CommandStarts}

\* The places where a command begins; the second word of such a prefix is
\* none of them.
Starts(line) ==
  {i \in DOMAIN line :
     /\ Begins(From(line, i), CommandStarts)
     /\ ~\E p \in CommandStarts : Len(p) = 2 /\ i > 1 /\ IsPrefix(p, From(line, i - 1))}

\* split_inline_commands: what stands before the first command is dropped, a
\* line without one is kept whole.
SplitLine(line) ==
  LET at == Ascending(Starts(line))
  IN IF at = <<>> THEN <<line>>
     ELSE [k \in DOMAIN at |->
             SubSeq(line, at[k], IF k = Len(at) THEN Len(line) ELSE at[k + 1] - 1)]

\* deduplicate_keep_order: kept[n] is what is left of the first n.
Distinct(commands) ==
  LET kept[n \in 0..Len(commands)] ==
        IF n = 0 THEN <<>>
        ELSE IF Contains(kept[n - 1], commands[n]) THEN kept[n - 1]
        ELSE Append(kept[n - 1], commands[n])
  IN kept[Len(commands)]

\* split_command_list: the lines are split, each command is kept once, and no
\* more than max of them.
SplitCommandList(lines, max) ==
  LET commands == Distinct(FlattenSeq([i \in DOMAIN lines |-> SplitLine(lines[i])]))
  IN SubSeq(commands, 1, IF Len(commands) < max THEN Len(commands) ELSE max)
=============================================================================
