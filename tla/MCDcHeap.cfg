CONSTANTS
  HeapBase = 3
  RegionBytes = 8
  HeaderBytes = 1
  HeaderSizeBytes = 1
  SizeBits = 8
  MinSizeClassBytes = 2
  MaxSizeClassBytes = 4
  Payloads = {1, 3}
  RawSizes = {3, 5}
  ClassBytes <- MCClassBytes
  ClassCount <- MCClassCount
  StaticClass <- MCStaticClass
  RawClass <- MCRawClass
  Words <- MCWords
  StoredWords = {5}
INIT HeapInit
NEXT HeapNext
INVARIANTS
  
  HeldApart
  FreeListExact
  LiveExact
PROPERTIES
  GrowsOnlyWhenFull
  ImplementsAbstractHeap
CHECK_DEADLOCK FALSE
