\* Two consents through two handlers, beside the scan worker; one failing call, one crash.
SPECIFICATION Spec
CONSTANTS
  None = None
  Handlers = {h1, h2}
  Callers = {worker}
  Worker = worker
  States = {s1, s2}
  MaxClients = 5
  MaxConsents = 2
  MaxFaults = 1
  MaxCrashes = 1
INVARIANTS TypeOK StateUsedOnce DurableClient NewestConsentWins
PROPERTIES AuthLeadsToScan RestoredKeepsWorking
