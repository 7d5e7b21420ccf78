CONSTANTS
  Objs = {o1, o2}
  Null = Null
  Programs <- Assigning
SPECIFICATION LowSpec
SYMMETRY Symmetric
INVARIANTS
  CallerKeeps
\* The program ends.
CHECK_DEADLOCK FALSE
