SPECIFICATION Spec
CONSTANTS
  r1 = r1
  r2 = r2
  r3 = r3
  d1 = d1
  d2 = d2
  u1 = u1
  k1 = k1
  k2 = k2
  s1 = s1
  s2 = s2
  NoOne = NoOne
  Requests = {r1}
  Drafts = {d1, d2}
  Users = {u1}
  Keys = {k1, k2}
  Servers = {s1}
  Owner <- OneUserOwns
  Inputs <- OneProcessInputs
  StartBalances = {300}
  TopUpAmount = 100
  RedisConfigured = TRUE
  Faults = {}
  MaxAttempts = 3
  MaxCrashes = 0
  MaxTopUps = 0
  MaxStalls = 1
CHECK_DEADLOCK FALSE
INVARIANTS FailedJobRefunded
