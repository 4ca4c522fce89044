CONSTANTS
  k1 = k1
  k2 = k2
  r1 = r1
  r2 = r2
  r3 = r3
  r4 = r4
  Requests <- MCRequests
  QuotaKeys <- MCKeys
  Limit = 2
  NoKey = NoKey
SPECIFICATION Spec
INVARIANTS
  BindingLimit
CHECK_DEADLOCK FALSE
