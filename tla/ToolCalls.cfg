\* A call that changes the hooks, and a subagent's call of an ordinary tool.
SPECIFICATION FairSpec
CONSTANTS
  change = change
  work = work
  guard = guard
  check = check
  report = report
  inside = inside
  outside = outside
  secret = secret
  rm = rm
  Tools = {"HookManage", "Bash", "Write", "Read", "Message", "Nope"}
  Paths = {inside, outside, secret}
  Commands = {rm}
  Sensitive = {secret}
  Rooted = {inside, secret}
  HighRisk = {rm}
  Unparsable = {}
  NoArg = NoArg
  Calls = {change, work}
  Parents = {change}
  Hooks = {guard, check, report}
  EventOf <- MCEventOf
  Matched <- MCMatched
  Bodied = {check}
  Blocking = {guard, check}
  None = None
  Known = {"HookManage", "Bash", "Write", "Read", "Message"}
  Requests <- MCRequests
  Profiles <- MCProfiles
  Loaded <- MCLoaded
  Prompted = TRUE
INVARIANTS
  RunningHookIsRegistered
  GuardsHold
  RunsOnlyAsPromised
PROPERTIES
  CallsGoOn
\* The calls of a reply and of a subagent run out.
CHECK_DEADLOCK FALSE
