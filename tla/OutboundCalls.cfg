CONSTANTS
  c1 = c1
  c2 = c2
  c3 = c3
  svc = svc
  NoService = NoService
  Callers = {c1, c2, c3}
  Services = {svc}
  Mixes <- MCMixes
  Threshold = 2
  Window = 1
  Recovery = 2
SPECIFICATION FairSpec
PROPERTIES DeadTargetSpared CallsGoThrough
CHECK_DEADLOCK FALSE
