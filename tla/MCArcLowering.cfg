CONSTANTS
  Objs = {o1, o2, o3}
  Null = Null
  Programs <- MCPrograms
SPECIFICATION LowSpec
SYMMETRY Symmetric
INVARIANTS
  LowTypeOK OwnersCounted NoUseAfterFree NothingLeaks
\* The program ends.
CHECK_DEADLOCK FALSE
