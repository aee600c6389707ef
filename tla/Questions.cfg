SPECIFICATION MCSpec
CONSTANTS
  m1 = m1
  m2 = m2
  Managers = {m1, m2}
  NoManager = NoManager
  shop = shop
  cafe = cafe
  Merchants = {shop, cafe}
  NoMerchant = NoMerchant
  s1 = s1
  s2 = s2
  c1 = c1
  Bookings = {s1, s2, c1}
  MerchantOf <- MCMerchantOf
  HardCap = 2
  MaxCache = 1
  MaxBookingRules = 1
  MaxMonth = 1
  MaxPasses = 2
  MaxMoves = 3
SYMMETRY MCSymmetry
INVARIANTS
  TypeOK
  BudgetKept
  CachedIsLearned
PROPERTIES
  UserRuleStays
  SentOncePerSession
CHECK_DEADLOCK FALSE
