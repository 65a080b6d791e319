---------------------------- MODULE MCCmdbQuery ----------------------------
(* A small instance of CmdbQuery for TLC: the name of d1 is a part of the    *)
(* names of d2 and d3, which share a site.                                   *)
EXTENDS CmdbQuery, TLC

CONSTANTS d1, d2, d3, addr1, name1, name2, name3, site, list, text

MCMatches ==
  addr1 :> {d1} @@ name1 :> {d1, d2, d3} @@ name2 :> {d2} @@ name3 :> {d3}
    @@ site :> {d2, d3} @@ list :> {d1, d3} @@ text :> {}

MCOwner == addr1 :> d1 @@ name1 :> d1 @@ name2 :> d2 @@ name3 :> d3

MCTables == {<<d2, d3, d1>>, <<d2, d1>>}

\* The CMDB applies every condition, with or without totals, ignores some, or
\* rejects some; or there is no token for it.
Applied == [f \in Filters |-> "applied"]

MCServers ==
  {[support |-> Applied, total |-> total, configured |-> TRUE] : total \in BOOLEAN}
    \cup {[support |-> Applied, total |-> TRUE, configured |-> FALSE],
          [support |-> [f \in Filters |-> IF f \in {site, name1} THEN "ignored" ELSE "applied"],
           total |-> TRUE, configured |-> TRUE],
          [support |-> [f \in Filters |-> IF f \in {site, list} THEN "rejected" ELSE "applied"],
           total |-> TRUE, configured |-> TRUE]}

\* Netmiko knows d1 and d2; the second entry's name is out of date.
MCInventories ==
  {{[name |-> d1, address |-> d1], [name |-> Nothing, address |-> d2]}}

MCQuestions ==
  [ip : {Nothing, addr1}, filters : {{}}, long : BOOLEAN, assist : BOOLEAN]
    \cup [ip : {Nothing}, filters : {{site}}, long : {TRUE}, assist : BOOLEAN]

MCPlans ==
  {[tool |-> tool, sure |-> sure, filters |-> filters, keyword |-> keyword,
    asManyFields |-> TRUE] :
     tool \in {"devices", "detail", "other"}, sure \in BOOLEAN,
     filters \in {{Unknown}, {site, Unknown}}, keyword \in {Nothing, name1}}

MCSettings ==
  {[enabled |-> TRUE, always |-> always, keepIp |-> ~always, policy |-> "assistive",
    acceptEqual |-> always] : always \in BOOLEAN}

MCSpecs ==
  {[operation |-> operation, keyword |-> keyword, hint |-> Nothing, filters |-> filters,
    ips |-> ips, page |-> 1, size |-> size, named |-> TRUE] :
     operation \in {"auto", "devices"}, keyword \in {Nothing, name3},
     filters \in {{}, {site}, {Unknown}}, ips \in {Nothing, list}, size \in {1, 3}}
    \cup {[operation |-> "detail", keyword |-> Nothing, hint |-> hint, filters |-> {},
          ips |-> Nothing, page |-> 1, size |-> 3, named |-> named] :
            hint \in {Nothing, name2}, named \in BOOLEAN}

MCCalls ==
  {[filters |-> filters, page |-> page, size |-> 1] :
     filters \in {{}, {site}}, page \in 1..2}
=============================================================================
