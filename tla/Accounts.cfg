SPECIFICATION MCSpec
CONSTANTS
  giro = giro
  depot = depot
  card = card
  AccountSeq <- MCAccountSeq
  BankOf <- MCBankOf
  Cards = {card}
  Owners = {"anna"}
  Nobody = "nobody"
  m1 = m1
  m2 = m2
  Managers = {m1, m2}
  NoManager = NoManager
  MaxSession = 3
  MaxObject = 3
SYMMETRY MCSymmetry
INVARIANTS
  OneRecordPerAccount
  OwnersAsAssigned
  FetchesNewestUid
PROPERTIES
  IbanEntityKept
CHECK_DEADLOCK FALSE
