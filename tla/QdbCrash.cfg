CONSTANTS
  k1 = k1  k2 = k2  v1 = v1  v2 = v2
  Key = {k1, k2}
  Val = {v1, v2}
  MaxPending = 0
  MaxPendingNoSync = 2
  Fresh = FALSE
  MaxChanges = 3
  MaxVersion = 3
  MaxCrash = 1
  None = None  Missing = Missing
SPECIFICATION Spec
SYMMETRY Symmetry
INVARIANT UnsavedIsPending
PROPERTY ImplementsQdbStore
