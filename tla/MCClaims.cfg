CONSTANTS
  Units <- MCUnits
  Hosts <- MCHosts
  FaultsOf <- MCFaultsOf
  Bits <- MCBits
  HeapBlocks <- MCHeapBlocks
  LoopDepth = 10
  Turns = 4
SPECIFICATION ClaimsSpec
INVARIANT
  CommentsHold
\* The claims end.
CHECK_DEADLOCK FALSE
