\* One API process and one failing statement: an issued order stays "paid" in the list.
SPECIFICATION FairSpec
CONSTANTS
  Replicas = {p1}
  Requests = {r1, r2}
  Amounts = {a1}
  Sessions = {s1, s2}
  Tickets = {t1}
  None = None
  FaultKinds = {"database"}
  MaxFaults = 1
PROPERTIES
  IssuedIsListed
