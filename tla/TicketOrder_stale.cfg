\* Two API processes and no fault at all: one of them works from a stale copy.
SPECIFICATION Spec
CONSTANTS
  Replicas = {p1, p2}
  Requests = {r1}
  Amounts = {a1}
  Sessions = {s1, s2}
  Tickets = {t1}
  None = None
  FaultKinds = {}
  MaxFaults = 0
PROPERTIES
  ReleaseOnlyDraft
