\* Payments of one order, and the credits of two users, on one instance each.
SPECIFICATION Spec
CONSTANTS
  Parts = {"payments", "wallet"}
  Orders = {o1}
  Payments = {p1, p2}
  PaySlots = {s1, s2}
  NoPayment = NoPayment
  TotalCents <- MCTotalCents
  MaxRefunds = 2
  InitiationArgs = "order"
  PayProviders = {"mock", "iyzico"}
  Users = {u1, u2}
  WalletSlots = {s1, s2}
  NoUser = NoUser
  PurchaseOrders = {m1}
  NoOrder = NoOrder
  Packages = {300, 500}
  SignUpBonus = 500
  FirstReadBonus = 500
  GrantAmounts = {50}
  MaxGifts = 500
  Connections = 2
INVARIANTS
  ShopTypeOK
  OrderMatchesPayments
  RefundedOnce
  CreditsEarned
PROPERTIES
  PaymentSettlesOnce
  ConnectionsComeBack
CHECK_DEADLOCK FALSE
