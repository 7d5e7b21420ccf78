CONSTANTS
  Objs = {o1, o2}
  Null = Null
  Programs <- Overwriting
SPECIFICATION LowSpec
SYMMETRY Symmetric
INVARIANTS
  NoUseAfterFree
\* The program ends.
CHECK_DEADLOCK FALSE
