\* An operation that hashes its body only: one process and no fault.
SPECIFICATION Spec
CONSTANTS
  Replicas = {p1}
  Requests = {r1, r2}
  Targets = {t1, t2}
  Bodies = {b1}
  HashesTarget = FALSE
  Runs = {x1, x2}
  None = None
  MaxFaults = 0
INVARIANTS
  AnswerIsMine
