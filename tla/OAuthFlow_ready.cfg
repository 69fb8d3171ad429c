\* One consent, one expired access token.
SPECIFICATION SafetySpec
CONSTANTS
  None = None
  Handlers = {h1}
  Callers = {worker}
  Worker = worker
  States = {s1}
  MaxClients = 4
  MaxConsents = 1
  MaxFaults = 0
  MaxCrashes = 0
INVARIANT ReadyMeansUsable
