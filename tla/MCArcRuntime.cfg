CONSTANTS
  HeapBase = 3
  RegionBytes = 8
  HeaderBytes = 1
  HeaderSizeBytes = 1
  SizeBits = 8
  MinSizeClassBytes = 2
  MaxSizeClassBytes = 2
  RawSizes = {}
  ClassBytes <- MCClassBytes
  ClassCount <- MCClassCount
  StaticClass <- MCStaticClass
  RawClass <- MCRawClass
  Words <- MCWords
  StoredWords <- MCWords
  Payloads <- MCPayloads
  CountMod = 8
  FieldCount = 1
  MaxRoots = 2
  MaxWeaks = 1
  MaxObjects = 3
INIT ArcInit
NEXT ArcNext
INVARIANTS
  ArcTypeOK
  CountsExact
  NoDangling
  DestroyedOnce
  ZombieHasWeak
  LeakFree
PROPERTIES
  NoResurrection
CHECK_DEADLOCK FALSE
