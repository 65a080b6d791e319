--------------------------- MODULE CommandCatalog ---------------------------
(* The two tables of diagnostic commands: the templates of the V2 router     *)
(* (chat_v2/command_templates.py), written for NX-OS, and the catalog of the *)
(* V4 handler (chat_v4/handlers/generate_commands.py), by platform family.   *)
(* An interface is a word, "" when there is none.                            *)
EXTENDS CliGuard

CONSTANT OtherNames  \* the words a type not listed in KnownNames contains

Show(object) == <<"show", object>>
ShowInterface(interface, detail) == <<"show", "interface", interface, detail>>
Display(object) == <<"display", object>>
Tmsh(object) == <<"tmsh", "show", object>>
Log == Show("logging last 100")

----------------------------------------------------------------------------
(* V2 *)

\* The commands on one interface, or on all of them.
InterfaceTemplates(kind, interface) ==
  IF interface = ""
  THEN CASE kind = "interface_error" ->
              <<Show("interface counters errors"), Show("interface status"), Log>>
         [] kind = "interface_status" ->
              <<Show("interface status"), Show("interface brief"), Log>>
         [] kind = "optical_power" -> <<Show("interface transceiver details"), Log>>
  ELSE CASE kind = "interface_error" ->
              <<ShowInterface(interface, "all"),
                ShowInterface(interface, "counters errors"),
                ShowInterface(interface, "counters detailed"),
                ShowInterface(interface, "transceiver details"), Log>>
         [] kind = "interface_status" ->
              <<ShowInterface(interface, "all"), ShowInterface(interface, "status"),
                ShowInterface(interface, "transceiver details"), Log>>
         [] kind = "optical_power" ->
              <<ShowInterface(interface, "all"),
                ShowInterface(interface, "transceiver details"), Log>>

Templates ==
  [cpu |-> <<Show("system resources"), Show("processes cpu"),
             Show("processes cpu sort"), Log>>,
   route_table |-> <<Show("ip route summary"), Show("ipv6 route summary"),
                     <<"show", "ip route", "|", "count">>>>,
   bgp |-> <<Show("bgp ipv4 unicast summary"), Show("bgp ipv6 unicast summary"),
             Show("ip bgp summary"), Log>>,
   bfd |-> <<Show("bfd neighbors"), Show("bfd neighbors details"), Log>>,
   memory |-> <<Show("system resources"), Show("processes memory"), Log>>,
   log |-> <<Log, Show("logging last 300")>>,
   device_health |-> <<Show("clock"), Show("version"), Show("system resources"), Log>>]

InterfaceKinds == {"interface_error", "interface_status", "optical_power"}

\* Which table a category or, failing that, an intent asks for: the first of
\* this order that either of them names.
TemplateOrder ==
  << <<"cpu", {"cpu"}, "cpu_check">>,
     <<"route_table", {"route_table"}, "route_table">>,
     <<"interface_error", {"interface_error"}, "interface_error_check">>,
     <<"interface_status", {"interface_down", "interface_status"}, "interface_check">>,
     <<"optical_power", {"optical_power", "transceiver"}, "optical_power_check">>,
     <<"bgp", {"bgp"}, "bgp_check">>,
     <<"bfd", {"bfd"}, "bfd_check">>,
     <<"memory", {"memory"}, "memory_check">>,
     <<"log", {"log"}, "log_check">>,
     <<"device_health", {"device_health"}, "device_health_check">> >>

SelectCommands(category, intent, interface) ==
  LET Asked(k) == category \in TemplateOrder[k][2] \/ intent = TemplateOrder[k][3]
      first == {k \in DOMAIN TemplateOrder : Asked(k) /\ \A j \in 1..(k - 1) : ~Asked(j)}
  IN IF first = {} THEN <<Show("version")>>
     ELSE LET kind == TemplateOrder[CHOOSE k \in first : TRUE][1]
          IN IF kind \in InterfaceKinds THEN InterfaceTemplates(kind, interface)
             ELSE Templates[kind]

----------------------------------------------------------------------------
(* V4 *)

\* Mutant: the family of a type is forgotten.
FamilyUnknown(type) == "generic"

\* Of the words _platform_family looks for, those a device type contains.
KnownNames ==
  [cisco_xe |-> {"cisco"}, cisco_ios |-> {"cisco", "ios"}, cisco_nxos |-> {"cisco", "nxos"},
   cisco_asa |-> {"cisco", "asa"}, cisco |-> {"cisco"}, nxos |-> {"nxos"},
   ios |-> {"ios"}, iosxe |-> {"ios"}, huawei |-> {"huawei"},
   huawei_vrp |-> {"huawei", "vrp"}, hp_comware |-> {"comware"}, h3c |-> {"h3c"},
   fortinet |-> {"forti"}, fortigate |-> {"forti"}, fortios |-> {"forti", "ios"},
   f5 |-> {"f5"}, f5_tmsh |-> {"f5", "tmsh"}, hillstone |-> {"hillstone"},
   generic |-> {}]

NamesIn(type) == IF type \in DOMAIN KnownNames THEN KnownNames[type] ELSE OtherNames[type]

\* _platform_family: the words are looked for in this order.
PlatformFamily(type) ==
  LET Has(words) == NamesIn(type) \cap words # {}
  IN IF Has({"nxos", "ios", "cisco", "asa"}) THEN "cisco"
     ELSE IF Has({"huawei", "vrp"}) THEN "huawei"
     ELSE IF Has({"h3c", "comware"}) THEN "h3c"
     ELSE IF Has({"forti"}) THEN "fortigate"
     ELSE IF Has({"f5", "tmsh", "bigip"}) THEN "f5"
     ELSE IF Has({"hillstone"}) THEN "hillstone"
     ELSE "generic"

InterfaceCategories == {"interface_status", "interface_error", "optical_power"}

Entry(table, category, other) ==
  IF category \in DOMAIN table THEN table[category] ELSE other

VrpCommands(category, interface) ==
  LET log == Display("logbuffer")
      table ==
        [cpu |-> <<Display("cpu-usage"), Display("process cpu"), log>>,
         memory |-> <<Display("memory-usage"), Display("process memory"), log>>,
         route_table |-> <<Display("ip routing-table"), Display("ipv6 routing-table")>>,
         bgp |-> <<Display("bgp peer"), Display("bgp routing-table")>>,
         bfd |-> <<Display("bfd session all"), log>>,
         log |-> <<log>>]
  IN IF category \notin InterfaceCategories
       THEN Entry(table, category,
                  <<Display("clock"), Display("version"), Display("cpu-usage"),
                    Display("memory-usage"), log>>)
     ELSE IF interface = "" THEN <<Display("interface brief"), log>>
     ELSE <<<<"display", "interface", interface>>>>
            \o (IF category = "optical_power"
                  THEN <<<<"display", "transceiver", interface, "verbose">>>> ELSE <<>>)
            \o <<log>>

FortiCommands(category, interface) ==
  LET performance == <<"get", "system performance status">>
      physical == <<"get", "system interface physical">>
      status == <<"get", "system status">>
      top == <<"diagnose", "sys top-summary">>
      table == [cpu |-> <<performance, top, status>>,
                memory |-> <<performance, top>>,
                route_table |-> <<<<"get", "router info routing-table all">>>>,
                bgp |-> <<<<"get", "router info bgp summary">>>>]
  IN IF category \notin InterfaceCategories
       THEN Entry(table, category, <<status, performance, physical>>)
     ELSE IF interface = "" THEN <<physical>>
     ELSE <<<<"diagnose", "hardware deviceinfo nic", interface>>, physical>>

F5Commands(category) ==
  CASE category = "route_table" -> <<Tmsh("net route")>>
    [] category \in InterfaceCategories ->
         <<Tmsh("net interface"), Tmsh("sys performance system")>>
    [] category = "log" -> <<Tmsh("sys log")>>
    [] OTHER -> <<Tmsh("sys version"), Tmsh("sys performance system"),
                  Tmsh("net interface"), Tmsh("ltm virtual")>>

\* Cisco, Hillstone and everything else.
ShowCommands(category, interface) ==
  LET table ==
        [cpu |-> <<Show("system resources"), Show("processes cpu"), Log>>,
         memory |-> <<Show("system resources"), Show("processes memory"), Log>>,
         route_table |-> <<Show("ip route summary"), Show("ipv6 route summary")>>,
         bgp |-> <<Show("bgp ipv4 unicast summary"), Show("bgp ipv6 unicast summary"), Log>>,
         bfd |-> <<Show("bfd neighbors"), Show("bfd neighbors details")>>,
         log |-> <<Log>>]
      extra == [interface_error |-> <<ShowInterface(interface, "counters errors")>>,
                optical_power |-> <<ShowInterface(interface, "transceiver details")>>]
  IN IF category \notin InterfaceCategories
       THEN Entry(table, category,
                  <<Show("clock"), Show("version"), Show("system resources"), Log>>)
     ELSE IF interface = ""
       THEN <<Show("interface status"), Show("interface counters errors"), Log>>
     ELSE <<ShowInterface(interface, "all")>> \o Entry(extra, category, <<>>) \o <<Log>>

BuildCommandSpecs(category, type, interface) ==
  LET family == PlatformFamily(type)
  IN CASE family \in {"huawei", "h3c"} -> VrpCommands(category, interface)
       [] family = "fortigate" -> FortiCommands(category, interface)
       [] family = "f5" -> F5Commands(category)
       [] OTHER -> ShowCommands(category, interface)
=============================================================================
