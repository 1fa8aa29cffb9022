SPECIFICATION Spec
CONSTANTS
  r1 = r1
  r2 = r2
  N = 2
  Requests = {r1, r2}
  Prepared = prepared
  Timed = {r1}
  Subs = {r1}
  Ones = {r2}
  Anys = {r2}
  Broadcasts = {r1}
  MaxFaults = 1
INVARIANTS
  AnswersAlwaysMatch
CHECK_DEADLOCK FALSE
