CONSTANTS
  HeapBase = 3
  RegionBytes = 4
  HeaderBytes = 1
  HeaderSizeBytes = 1
  SizeBits = 8
  MinSizeClassBytes = 2
  MaxSizeClassBytes = 2
  RawSizes = {}
  ClassBytes <- MCClassBytes
  ClassCount <- MCClassCount
  StaticClass <- MCStaticClass
  RawClass <- MCRawClass
  Words <- MCWords
  StoredWords <- MCWords
  Payloads <- MCPayloads
  CountMod = 16
  FieldCount = 2
  MaxRoots = 2
  MaxWeaks = 1
  MaxObjects = 3
SPECIFICATION ArcSpec
INVARIANTS
  CountsExact
PROPERTIES
  CascadeEnds
  ImplementsHeap
CHECK_DEADLOCK FALSE
