\* Two API processes on one database: an order, every fault but a lost guard
\* connection; and a search, an intent and pages, with one mishap.
SPECIFICATION MCSpec
CONSTANTS
  Replicas = {p1, p2}
  Requests = {r1, r2}
  Amounts = {a1}
  Sessions = {s1, s2}
  Tickets = {t1}
  None = None
  FaultKinds <- AllButGuard
  MaxFaults = 1
  Hosts = {p1, p2}
  Travellers = {u1}
  Journeys = {j1}
  Searches = {x1}
  Connections = {c1, c2}
  Numbers = {n1}
  Slots = {r1, r2}
  Fit <- MCFit
  Tolerance = 10
  Absent = Absent
  MaxMishaps = 1
SYMMETRY MCSymmetry
INVARIANTS
  OneMutationAtATime
  ShownIsKept
