SPECIFICATION CmdbLiveSpec
CONSTANTS
  d1 = d1
  d2 = d2
  d3 = d3
  addr1 = addr1
  name1 = name1
  name2 = name2
  name3 = name3
  site = site
  list = list
  text = text
  Machines = {d1, d2, d3}
  Filters = {addr1, name1, name2, name3, site, list, text}
  Matches <- MCMatches
  Keywords = {addr1, name1, name2, name3}
  Addresses = {addr1}
  Lists = {list}
  Owner <- MCOwner
  WholeText = text
  Unknown = Unknown
  Nothing = Nothing
  Tables <- MCTables
  Servers <- MCServers
  Remembered = {Nothing, d1}
  Inventories <- MCInventories
  Inquiries <- MCQuestions
  ToolPlans <- MCPlans
  Settings <- MCSettings
  Specs <- MCSpecs
  Calls <- MCCalls
  ScanPage = 2
  MaxRows = 3
  PageSize = 2
  DetailSize = 2
  ExportSize = 2
  Retries = 1
  Bases = 2
  LlmRetries = 1
  MaxChanges = 1
  MaxRequests = 1
INVARIANTS AnswerMatches StableAnswerComplete ResolvedIsNamed
PROPERTIES CmdbAnswered
CHECK_DEADLOCK FALSE
