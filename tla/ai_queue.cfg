SPECIFICATION Spec
CONSTANTS
  r1 = r1
  r2 = r2
  r3 = r3
  d1 = d1
  d2 = d2
  u1 = u1
  k1 = k1
  k2 = k2
  s1 = s1
  s2 = s2
  NoOne = NoOne
  Requests = {r1, r2}
  Drafts = {d1, d2}
  Users = {u1}
  Keys = {k1, k2}
  Servers = {s1, s2}
  Owner <- OneUserOwns
  Inputs <- TwoProcessInputs
  StartBalances = {300}
  TopUpAmount = 100
  RedisConfigured = TRUE
  Faults = {"db", "idem-expiry"}
  MaxAttempts = 1
  MaxCrashes = 1
  MaxTopUps = 0
  MaxStalls = 1
CHECK_DEADLOCK FALSE
SYMMETRY ProcessSymmetry
INVARIANTS LockExclusive CompletedHasImages
PROPERTIES AccountSpec
