\* The first payment of a user for the own pending order, as the code validates it.
SPECIFICATION Spec
CONSTANTS
  Parts = {"payments"}
  Orders = {o1}
  Payments = {p1, p2}
  PaySlots = {s1, s2}
  NoPayment = NoPayment
  TotalCents <- MCTotalCents
  MaxRefunds = 2
  InitiationArgs = "blank"
  PayProviders = {"mock"}
  Users = {u1, u2}
  WalletSlots = {s1, s2}
  NoUser = NoUser
  PurchaseOrders = {m1}
  NoOrder = NoOrder
  Packages = {300, 500}
  SignUpBonus = 500
  FirstReadBonus = 500
  GrantAmounts = {50}
  MaxGifts = 500
  Connections = 2
INVARIANT RefusedForCause
CHECK_DEADLOCK FALSE
