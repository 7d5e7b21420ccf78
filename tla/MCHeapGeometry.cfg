CONSTANTS
  MinSizeClassBytes = 32
  MaxSizeClassBytes = 1048576
  HeaderSizeBytes = 16
  SizeBits = 26
  Regions = {16, 32, 64, 100, 4096, 65536, 1048576, 2097152, 4194304}
  MaxExponent = 22
INIT Init
NEXT Step
INVARIANTS
  ClassesFillRegion
  ClassIsBest
  AddressNamesClass
CHECK_DEADLOCK FALSE
