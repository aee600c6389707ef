SPECIFICATION MCSpec
CONSTANTS
  b1 = b1
  b2 = b2
  a1 = a1
  a2 = a2
  a3 = a3
  Banks = {b1, b2}
  Accounts = {a1, a2, a3}
  BankOf <- MCBankOf
  ConsentUntil <- MCConsentUntil
  Limit = 2
  ScheduledShare = 1
  Debounce = 1
  AttendedBackoff = 1
  BackgroundBackoff = 2
  RetryAfters <- MCRetryAfters
  Position <- MCPosition
  NoBank = NoBank
  NoAccount = NoAccount
  MaxTime = 1
  MaxDay = 1
  MaxRounds = 3
  MaxFaults = 1
INVARIANTS
  TypeOK
  CallsAccountedFor
  BackgroundCap
  OneAttemptAtRisk
  OkMeansComplete
PROPERTIES
  NoCallWhileBlocked
  ScheduledShareKept
  KeepsQuota
