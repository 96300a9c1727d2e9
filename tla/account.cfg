\* The sessions, one-time codes and addresses of one user, the rate limits, and the
\* catalog of templates and designers with its search.
SPECIFICATION Spec
CONSTANTS
  Devices = {d1, d2}
  NoDevice = NoDevice
  AuthSlots = {a1, a2}
  MaxTokens = 3
  MaxFailures = 2
  FailureBound = 3
  Phones = {ph1, ph2}
  NoPhone = NoPhone
  CodeSlots = {c1, c2}
  MaxCodes = 2
  AddressSlots = {r1, r2}
  MaxUserAddresses = 2
  MaxCreated = 5
  i1 = i1
  i2 = i2
  o1 = o1
  o2 = o2
  Clients = {i1, i2}
  Objects = {o1, o2}
  NoOne = NoOne
  LowerCase <- MCLowerCase
  LimitSlots = {q1}
  Requests <- MCRequests
  Window = 2
  Points <- MCPoints
  Templates = {t1}
  Categories = {k1, k2}
  Slugs = {g1, g2}
  NoSlug = NoSlug
  Deleted = Deleted
  NoId = NoId
  CatalogSlots = {e1, e2}
  DesignerIds = {m1, m2, m3, m4}
  JobCounts = {0, 6}
  MaxRows = 3
  Limits = {1, 2}
  MaxPage = 4
  MaxChanges = 2
  CreatedAt <- MCCreatedAt
SYMMETRY Symmetry
INVARIANTS
  AccountTypeOK
  SessionsSound
  GuessesBounded
  CodesSound
  OneDefaultAddress
  LinksAsAsked
  ListsComplete
CHECK_DEADLOCK FALSE
