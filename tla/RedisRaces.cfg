\* One token; every kind of call at once, with two approvers and two executors.
SPECIFICATION Spec
CONSTANTS
  Tokens = {tok}
  Requesters = {r1}
  Approvers = {a1, a2}
  Executors = {x1, x2}
  Admins = {d1}
  Listers = {l1}
  NoKey = NoKey
  Never = Never
  TTL = 2
  MaxTime = 2
INVARIANTS TypeOK ApprovalBackedUse OverlapBoundsUse PendingIndexed
PROPERTIES DeadStaysDead
\* Every token may be used up, and nobody calls any more.
CHECK_DEADLOCK FALSE
