\* Two API processes, every fault, an app that asks again.
SPECIFICATION FairSpec
CONSTANTS
  Replicas = {p1, p2}
  Requests = {r1, r2}
  Targets = {t1, t2}
  Bodies = {b1}
  HashesTarget = TRUE
  Runs = {x1, x2}
  None = None
  MaxFaults = 2
INVARIANTS
  OneRunAtATime
  AnswersAgree
  AnswerIsMine
PROPERTIES
  KeyIsFreed
