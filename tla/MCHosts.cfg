CONSTANTS
  Units <- MCUnits
  Hosts <- MCHosts
  FaultsOf <- MCFaultsOf
  Bits <- MCBits
  HeapBlocks <- MCHeapBlocks
  LoopDepth = 10
  Turns = 4
SPECIFICATION HostSpec
INVARIANTS
  CorrectAccepted LeakNeverAccepted FaultFoundAs PredicatesTold TrapsTold
\* main ends.
CHECK_DEADLOCK FALSE
