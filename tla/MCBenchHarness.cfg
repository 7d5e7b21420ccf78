CONSTANTS
  CommandLines <- MCCommandLines
  SuiteOf <- MCSuiteOf
  Required = {"json"}
  HasTrap = {"json"}
  HasAot = {"sort"}
  Sums = {"s1", "s2"}
  Qualities <- MCQualities
  Limit = 2
SPECIFICATION Spec
INVARIANTS
  BenchTypeOK RowsAreWhole NothingVanishes LeaksNeverTimed GateStandsForSuite DisagreementNoted
PROPERTY Reports
\* The harness ends.
CHECK_DEADLOCK FALSE
