\* Two API processes, a ticket and a replacement for it, every fault.
SPECIFICATION FairSpec
CONSTANTS
  Replicas = {p1, p2}
  Seller = p1
  Requests = {r1}
  Tickets = {t1, t2}
  Sold = {t1}
  Refunds = {i1}
  None = None
  MaxEvents = 2
  MaxFaults = 1
INVARIANTS
  CursorCovers
  SettledAtCd
  LastDecisionStands
PROPERTIES
  ReturnsReachRows
