\* Two approvers click at the same time.
SPECIFICATION Spec
CONSTANTS
  Tokens = {tok}
  Requesters = {r1}
  Approvers = {a1, a2}
  Executors = {x1}
  Admins = {}
  Listers = {}
  NoKey = NoKey
  Never = Never
  TTL = 1
  MaxTime = 0
INVARIANTS SingleUse
\* Every token may be used up, and nobody calls any more.
CHECK_DEADLOCK FALSE
