SPECIFICATION MCSpec
CONSTANTS
  old = old
  twin1 = twin1
  twin2 = twin2
  rent = rent
  coffee = coffee
  id = id
  NoTid = NoTid
  Payments = {old, twin1, twin2}
  What <- MCWhat
  Tid <- MCTid
  Rank <- MCRank
  ShortAnswer = 2
  PendingMatch = 1
  FirstDay = 6
  Overlap = 1
  FetchDays = 3
  Ladder = {3, 6, 8}
  Limits = {7}
  Depths = {1, 3, 20}
  Asked = {0, 1}
  Legacy = {old}
  MaxDay = 7
  MaxSession = 2
  MaxMoves = 3
  MaxRounds = 2
  MaxFaults = 1
INVARIANTS
  TypeOK
  UniqueBooked
  RestartRecovers
PROPERTIES
  MirrorsTheBank
  NeverForgets
CHECK_DEADLOCK FALSE
