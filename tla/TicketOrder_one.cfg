\* One API process, two concurrent requests, every fault.
SPECIFICATION Spec
CONSTANTS
  Replicas = {p1}
  Requests = {r1, r2}
  Amounts = {a1, a2}
  Sessions = {s1, s2, s3, s4}
  Tickets = {t1, t2}
  None = None
  FaultKinds <- AllFaults
  MaxFaults = 3
SYMMETRY Symmetry
INVARIANTS
  SoldWasPaid
  SoldAtMostOnce
  PaymentKept
  IssuedIsComplete
PROPERTIES
  ImplementsSale
