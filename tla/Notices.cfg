SPECIFICATION Spec
CONSTANTS
  Findings = {debit, consent}
  From <- MCFrom
  Until <- MCUntil
  Standing = {consent}
  Series = {rent}
  FirstEnd <- MCFirstEnd
  Renewal = 2
  NoticeWindow = 1
  Retention = 1
  WeekDays = 2
  LastDay = 4
INVARIANTS SaidOnce WishesKept
CHECK_DEADLOCK FALSE
