CONSTANTS
  w1 = w1
  o1 = o1
  o2 = o2
  t1 = t1
  t2 = t2
  e1 = e1
  e2 = e2
  e3 = e3
  e4 = e4
  e5 = e5
  e6 = e6
  a1 = a1
  a2 = a2
  root = root
  k1 = k1
  NoTxn = NoTxn
  NoOrder = NoOrder
  Wallets <- MCWallets
  Orders <- MCOrders
  LedgerIds <- MCLedgerIds
  EventIds <- MCEventIds
  Txns = {t1, t2}
  Credits = {2}
  LegacyOrders = {o2}
  LegacyQuote <- MCLegacyQuote
  WalletOf <- MCWalletOf
  Callbacks <- MCCallbacks
  Accounts = {a1, a2}
  Admins = {}
  ChargeKeys = {k1}
  AdjustKeys = {k1}
  Prices = {1}
  Adjustments <- MCAdjustments
SPECIFICATION Spec

INVARIANT TypeOK
INVARIANT LedgerSound
INVARIANT CreditedOnce
INVARIANT ReversalsExact
INVARIANT ChargesPaid
PROPERTY ImplementsAccountBook
CHECK_DEADLOCK FALSE
