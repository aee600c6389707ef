SPECIFICATION Spec
CONSTANTS
  m1 = m1
  m2 = m2
  Managers = {m1, m2}
  NoManager = NoManager
SYMMETRY MCSymmetry
INVARIANTS
  TypeOK
  SavedIsReal
  NothingInventedStays
