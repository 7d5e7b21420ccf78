SPECIFICATION MCSpec
CONSTANTS
  Objs = {o1, o2}
  Null = null
  Vids = {v1, v2}
  MaxTok = 2
  MaxRun = 2
  MaxArgs = 2
  UsesWeak = FALSE
  BorrowsThroughOwned = TRUE
SYMMETRY Symmetric
INVARIANTS
  ElisionInvisible
