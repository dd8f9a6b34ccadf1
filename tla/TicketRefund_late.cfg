\* One API process, one refund and no fault: CD decides before the refund has its row.
SPECIFICATION FairSpec
CONSTANTS
  Replicas = {p1}
  Seller = p1
  Requests = {r1}
  Tickets = {t1}
  Sold = {t1}
  Refunds = {i1}
  None = None
  MaxEvents = 1
  MaxFaults = 0
PROPERTIES
  DecisionReachesRefund
