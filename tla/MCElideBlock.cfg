SPECIFICATION MCSpec
CONSTANTS
  Objs = {o1, o2}
  Null = null
  Vids = {v1, v2, v3}
  MaxTok = 2
  MaxRun = 3
  MaxArgs = 2
  UsesWeak = TRUE
  BorrowsThroughOwned = FALSE
SYMMETRY Symmetric
INVARIANTS
  ElideTypeOK
  ElisionInvisible
  FreshIsUnique
