SPECIFICATION TransfersSpec
CONSTANTS
  Accounts <- MCAccounts
  PayPalAccounts <- MCPayPal
  Bookable <- MCBookable
  AmountTolerance = 50
  TimeWindow = 3
  RefundWindow = 14
  AutoConfidence = 6
  Shrunk <- MCShrunk
  Swollen = {}
  MaxBook = 6
  MaxShared = 1
  MaxVerdicts = 1
INVARIANTS ChainsAreCascades RefundsAreDisjoint CountedIsEffective
CHECK_DEADLOCK FALSE
