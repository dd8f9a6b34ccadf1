\* One API process, fair handlers and an app that retries complete.
SPECIFICATION FairSpec
CONSTANTS
  Replicas = {p1}
  Requests = {r1, r2}
  Amounts = {a1}
  Sessions = {s1, s2}
  Tickets = {t1, t2}
  None = None
  FaultKinds <- AllFaults
  MaxFaults = 1
PROPERTIES
  SoldIsRecorded
  HandlerEnds
