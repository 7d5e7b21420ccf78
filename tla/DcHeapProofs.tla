---------------------------- MODULE DcHeapProofs ----------------------------
EXTENDS DcHeap, FiniteSetTheorems, Iteration, TLAPS

\* The regions of two classes do not overlap: the lower one ends before the
\* higher one begins.
LEMMA RegionsApart ==
  ASSUME NEW c \in Classes, NEW d \in Classes, c < d
  PROVE  RegionBase(c) + RegionBytes <= RegionBase(d)
<1>1. c + 1 <= d /\ c \in Nat /\ d \in Nat
  BY HeapAssumption DEF Classes
<1>2. (c + 1) * RegionBytes <= d * RegionBytes
  BY <1>1, HeapAssumption
<1>3. (c + 1) * RegionBytes = c * RegionBytes + RegionBytes
  BY <1>1, HeapAssumption
<1> QED
  BY <1>1, <1>2, <1>3, HeapAssumption DEF RegionBase

\* Every region lies inside the heap.
LEMMA RegionInHeap ==
  ASSUME NEW c \in Classes
  PROVE  /\ RegionBase(c) \in Nat
         /\ HeapBase <= RegionBase(c)
         /\ RegionBase(c) + RegionBytes <= HeapEnd
<1>1. c \in Nat /\ c + 1 <= ClassCount
  BY HeapAssumption DEF Classes
<1>2. (c + 1) * RegionBytes <= ClassCount * RegionBytes
  BY <1>1, HeapAssumption
<1>3. (c + 1) * RegionBytes = c * RegionBytes + RegionBytes
  BY <1>1, HeapAssumption
<1>4. c * RegionBytes \in Nat
  BY <1>1, HeapAssumption
<1> QED
  BY <1>1, <1>2, <1>3, <1>4, HeapAssumption DEF RegionBase, HeapEnd

\* The class a free computes from an address is the one whose region holds it
\* (the subtraction and division of _emitFreeSlotPushback).
LEMMA AddressNamesRegion ==
  ASSUME NEW c \in Classes, NEW a \in Int,
         RegionBase(c) <= a, a < RegionBase(c) + RegionBytes
  PROVE  ClassOf(a) = c
<1>1. c \in Nat /\ RegionBytes \in Nat \ {0} /\ HeapBase \in Nat
  BY HeapAssumption DEF Classes
<1>2. PICK off \in 0 .. (RegionBytes - 1) : a - HeapBase = c * RegionBytes + off
  <2>1. a - HeapBase - c * RegionBytes \in 0 .. (RegionBytes - 1)
    BY <1>1 DEF RegionBase
  <2> QED
    BY <2>1, <1>1
<1>3. (c * RegionBytes + off) \div RegionBytes = c
  BY <1>1
<1> QED
  BY <1>2, <1>3 DEF ClassOf

\* A carved block is pushed back on the list of the class it was carved for.
LEMMA BlockNamesClass ==
  ASSUME HeapInv, NEW c \in Classes, NEW a \in carved[c]
  PROVE  a \in Addr /\ ClassOf(a) = c
<1> USE HeapAssumption DEF HeapInv, HeapTypeOK
<1>1. a \in Addr /\ a \in Int
  BY DEF Addr
<1>2. /\ RegionBase(c) <= a /\ a + ClassBytes[c] <= RegionBase(c) + bump[c]
      /\ bump[c] \in 0 .. RegionBytes /\ ClassBytes[c] \in 1 .. RegionBytes
  BY DEF BlocksInRegion
<1> QED
  BY <1>1, <1>2, AddressNamesRegion, RegionInHeap

\* Blocks carved for two classes share no byte.
LEMMA ClassesApart ==
  ASSUME HeapInv, NEW c \in Classes, NEW d \in Classes,
         NEW a \in carved[c], NEW b \in carved[d], a # b
  PROVE  a + ClassBytes[c] <= b \/ b + ClassBytes[d] <= a
<1> USE HeapAssumption DEF HeapInv, HeapTypeOK
<1>0. /\ a \in Int /\ b \in Int
      /\ ClassBytes[c] \in Nat /\ ClassBytes[d] \in Nat
      /\ bump[c] \in 0 .. RegionBytes /\ bump[d] \in 0 .. RegionBytes
  BY DEF Addr
<1>1. /\ RegionBase(c) <= a /\ a + ClassBytes[c] <= RegionBase(c) + bump[c]
      /\ RegionBase(d) <= b /\ b + ClassBytes[d] <= RegionBase(d) + bump[d]
  BY DEF BlocksInRegion
<1>2. CASE c = d
  BY <1>2 DEF BlocksApart
<1>3. CASE c < d
  BY <1>0, <1>1, <1>3, RegionsApart, RegionInHeap
<1>4. CASE d < c
  BY <1>0, <1>1, <1>4, RegionsApart, RegionInHeap
<1> QED
  BY <1>2, <1>3, <1>4 DEF Classes

\* The inductive invariant gives what a program relies on: its blocks apart.
LEMMA InvImpliesHeldApart == HeapInv => HeldApart
<1> SUFFICES ASSUME HeapInv PROVE HeldApart
  OBVIOUS
<1> USE HeapAssumption DEF HeapInv, HeapTypeOK
<1>1. ASSUME NEW a \in held PROVE a + want[a] <= HeapEnd
  <2>1. PICK c \in Classes : a \in carved[c] /\ want[a] <= ClassBytes[c]
    BY DEF HeldCarved
  <2>2. a + ClassBytes[c] <= RegionBase(c) + bump[c]
    BY <2>1 DEF BlocksInRegion
  <2> QED
    BY SMTT(30), <2>1, <2>2, RegionInHeap DEF Addr, HeapEnd
<1>2. ASSUME NEW a \in held, NEW b \in held, a # b
      PROVE  a + want[a] <= b \/ b + want[b] <= a
  <2>1. PICK c \in Classes : a \in carved[c] /\ want[a] <= ClassBytes[c]
    BY DEF HeldCarved
  <2>2. PICK d \in Classes : b \in carved[d] /\ want[b] <= ClassBytes[d]
    BY DEF HeldCarved
  <2>3. a + ClassBytes[c] <= b \/ b + ClassBytes[d] <= a
    BY <1>2, <2>1, <2>2, ClassesApart
  <2> QED
    BY SMTT(30), <2>1, <2>2, <2>3 DEF Addr
<1> QED
  BY <1>1, <1>2 DEF HeldApart

\* A block comes out of a free list or off the region's end: either way it
\* is held by nobody, and the invariant survives whatever the allocation
\* writes into it.
LEMMA TakeBlock ==
  ASSUME HeapInv, NEW c \in Classes, NEW a \in Addr, NEW bytes \in Nat,
         bytes <= ClassBytes[c],
         Pop(c, a) \/ Carve(c, a),
         HandOut(a, bytes),
         mem' \in [Addr -> Words],
         \A b \in Addr \ {a} : mem'[b] = mem[b]
  PROVE  HeapInv' /\ a \notin held
<1> USE HeapAssumption DEF HeapInv, HeapTypeOK
<1>0. /\ RegionBase(c) \in Nat /\ ClassBytes[c] \in 1 .. RegionBytes
      /\ bump[c] \in 0 .. RegionBytes
      /\ RegionBase(c) + RegionBytes <= HeapEnd /\ HeapBase <= RegionBase(c)
  BY RegionInHeap
<1>1. /\ live' = live + 1 /\ held' = held \cup {a}
      /\ want' = [want EXCEPT ![a] = bytes] /\ trapped' = trapped
  BY DEF HandOut
<1>2. /\ live' \in Nat /\ held' \in SUBSET Addr /\ want' \in [Addr -> Nat]
      /\ trapped' \in BOOLEAN
  <2>1. trapped \in BOOLEAN
    OBVIOUS
  <2>2. trapped' \in BOOLEAN
    BY <1>1, <2>1, Zenon
  <2> QED
    BY <1>1, <2>2
<1>3. CASE Pop(c, a)
  <2>1. /\ freeHead[c] = a /\ freeHead' = [freeHead EXCEPT ![c] = mem[a]]
        /\ bump' = bump /\ carved' = carved
    BY <1>3 DEF Pop
  <2>2. a \in FreeBlocks(c) /\ a # Null
    BY <2>1 DEF HeadFree, Addr, Null
  <2>3. \A d \in Classes \ {c} : a \notin carved[d]
    BY <2>2, BlockNamesClass DEF FreeBlocks
  <2>4. a \notin held
    BY <2>2 DEF FreeBlocks
  <2>5. \A d \in Classes : FreeBlocks(d)' = FreeBlocks(d) \ {a}
    BY <1>1, <2>1 DEF FreeBlocks
  <2>7. BlocksInRegion' /\ BlocksApart'
    BY <2>1 DEF BlocksInRegion, BlocksApart, RegionBase
  <2>8. HeldCarved'
    BY <1>1, <2>1, <2>2 DEF HeldCarved, FreeBlocks
  <2>9. mem[a] = Null \/ (mem[a] \in FreeBlocks(c) /\ mem[a] # a)
    BY <2>1, <2>2 DEF LinksFree
  <2>6. HeapTypeOK'
    <3>1. freeHead' \in [Classes -> Addr \cup {Null}]
      BY <2>1, <2>9 DEF FreeBlocks
    <3> QED
      BY <1>2, <2>1, <3>1
  <2>10. HeadFree'
    BY <2>1, <2>3, <2>5, <2>9 DEF HeadFree, FreeBlocks
  <2>11. \A d \in Classes : \A b \in FreeBlocks(d)' :
           b \in FreeBlocks(d) /\ b # a /\ mem'[b] = mem[b]
    BY <2>5 DEF FreeBlocks
  <2>12. LinksFree'
    <3> SUFFICES ASSUME NEW d \in Classes, NEW b \in FreeBlocks(d)', mem[b] # Null
                 PROVE  mem[b] \in FreeBlocks(d)' /\ mem[b] # freeHead'[d]
      BY <2>11 DEF LinksFree
    <3>1. mem[b] \in FreeBlocks(d) /\ mem[b] # freeHead[d]
      BY <2>11 DEF LinksFree
    <3>2. CASE d = c
      BY <2>1, <2>2, <2>5, <2>11, <3>1, <3>2 DEF LinksApart
    <3>3. CASE d # c
      BY <2>1, <2>3, <2>5, <3>1, <3>3 DEF FreeBlocks
    <3> QED
      BY <3>2, <3>3
  <2>13. LinksApart'
    BY <2>11 DEF LinksApart
  <2>14. IsFiniteSet(held') /\ LiveExact'
    BY <1>1, <2>4, FS_AddElement DEF LiveExact
  <2> QED
    BY <2>4, <2>6, <2>7, <2>8, <2>10, <2>12, <2>13, <2>14
<1>4. CASE Carve(c, a)
  <2>1. /\ freeHead[c] = Null /\ freeHead' = freeHead
        /\ bump[c] + ClassBytes[c] <= RegionBytes
        /\ a = RegionBase(c) + bump[c]
        /\ bump' = [bump EXCEPT ![c] = bump[c] + ClassBytes[c]]
        /\ carved' = [carved EXCEPT ![c] = carved[c] \cup {a}]
    BY <1>4 DEF Carve
  <2>2. \A d \in Classes : a \notin carved[d]
    <3> SUFFICES ASSUME NEW d \in Classes, a \in carved[d] PROVE FALSE
      OBVIOUS
    <3>1. ClassOf(a) = d
      BY BlockNamesClass
    <3>2. ClassOf(a) = c
      BY <1>0, <2>1, AddressNamesRegion
    <3>3. a + ClassBytes[c] <= RegionBase(c) + bump[c]
      BY <3>1, <3>2 DEF BlocksInRegion
    <3> QED
      BY <1>0, <2>1, <3>3
  <2>3. a \notin held
    BY <2>2 DEF HeldCarved
  <2>4. \A d \in Classes : FreeBlocks(d)' = FreeBlocks(d)
    BY <1>1, <2>1, <2>2 DEF FreeBlocks
  <2>5. HeapTypeOK'
    <3>1. bump' \in [Classes -> 0 .. RegionBytes]
      BY <1>0, <2>1
    <3>2. carved' \in [Classes -> SUBSET Addr]
      BY <2>1
    <3> QED
      BY <1>2, <2>1, <3>1, <3>2
  <2>6. BlocksInRegion'
    <3> SUFFICES ASSUME NEW d \in Classes, NEW b \in carved'[d]
                 PROVE  RegionBase(d) <= b
                        /\ b + ClassBytes[d] <= RegionBase(d) + bump'[d]
      BY DEF BlocksInRegion, RegionBase
    <3>1. CASE b \in carved[d]
      <4>1. RegionBase(d) <= b /\ b + ClassBytes[d] <= RegionBase(d) + bump[d]
        BY <3>1 DEF BlocksInRegion
      <4>2. bump[d] \in Int /\ bump'[d] \in Int /\ bump[d] <= bump'[d]
        BY <1>0, <2>1
      <4>3. b \in Int /\ ClassBytes[d] \in Int /\ RegionBase(d) \in Int
        BY <3>1, RegionInHeap DEF Addr
      <4> QED
        BY <4>1, <4>2, <4>3
    <3>2. CASE b \notin carved[d]
      BY <1>0, <2>1, <3>2
    <3> QED
      BY <3>1, <3>2
  <2>7. BlocksApart'
    <3> SUFFICES ASSUME NEW d \in Classes, NEW x \in carved'[d], NEW y \in carved'[d],
                        x # y
                 PROVE  x + ClassBytes[d] <= y \/ y + ClassBytes[d] <= x
      BY DEF BlocksApart
    <3>1. CASE x \in carved[d] /\ y \in carved[d]
      BY <3>1 DEF BlocksApart
    <3>2. CASE x \in carved[d] /\ y \notin carved[d]
      <4>1. d = c /\ y = a
        BY <2>1, <3>2
      <4>2. x + ClassBytes[c] <= RegionBase(c) + bump[c]
        BY <3>2, <4>1 DEF BlocksInRegion
      <4> QED
        BY <2>1, <4>1, <4>2
    <3>3. CASE x \notin carved[d] /\ y \in carved[d]
      <4>1. d = c /\ x = a
        BY <2>1, <3>3
      <4>2. y + ClassBytes[c] <= RegionBase(c) + bump[c]
        BY <3>3, <4>1 DEF BlocksInRegion
      <4> QED
        BY <2>1, <4>1, <4>2
    <3>4. CASE x \notin carved[d] /\ y \notin carved[d]
      BY <2>1, <3>4
    <3> QED
      BY <3>1, <3>2, <3>3, <3>4
  <2>8. HeldCarved'
    BY <1>1, <2>1 DEF HeldCarved
  <2>9. HeadFree'
    BY <2>1, <2>4 DEF HeadFree
  <2>10. \A d \in Classes : \A b \in FreeBlocks(d) : b # a /\ mem'[b] = mem[b]
    BY <2>2 DEF FreeBlocks
  <2>11. LinksFree' /\ LinksApart'
    BY <2>1, <2>4, <2>10 DEF LinksFree, LinksApart
  <2>12. IsFiniteSet(held') /\ LiveExact'
    BY <1>1, <2>3, FS_AddElement DEF LiveExact
  <2> QED
    BY <2>3, <2>5, <2>6, <2>7, <2>8, <2>9, <2>11, <2>12
<1> QED
  BY <1>3, <1>4

\* Freeing a block: its address names the class it was carved for, it is on
\* no free list yet, and it becomes the head of that class's list.
LEMMA ReturnBlock ==
  ASSUME HeapInv, NEW a \in held, PushBack(a)
  PROVE  HeapInv'
<1> USE HeapAssumption DEF HeapInv, HeapTypeOK
<1>1. PICK c \in Classes : a \in carved[c]
  BY DEF HeldCarved
<1>2. a \in Addr /\ ClassOf(a) = c /\ a # Null
  BY <1>1, BlockNamesClass DEF Addr, Null
<1>3. /\ mem' = [mem EXCEPT ![a] = freeHead[c]]
      /\ freeHead' = [freeHead EXCEPT ![c] = a]
      /\ live' = live - 1 /\ held' = held \ {a}
      /\ want' = [want EXCEPT ![a] = 0]
      /\ bump' = bump /\ trapped' = trapped /\ carved' = carved
  BY <1>2 DEF PushBack
<1>4. \A d \in Classes \ {c} : a \notin carved[d]
  BY <1>2, BlockNamesClass
<1>5. /\ FreeBlocks(c)' = FreeBlocks(c) \cup {a}
      /\ \A d \in Classes \ {c} : FreeBlocks(d)' = FreeBlocks(d)
      /\ \A d \in Classes : a \notin FreeBlocks(d)
  BY <1>1, <1>3, <1>4 DEF FreeBlocks
<1>6. IsFiniteSet(held') /\ LiveExact' /\ live' \in Nat
  <2>1. IsFiniteSet(held') /\ Cardinality(held') = Cardinality(held) - 1
    BY <1>3, FS_RemoveElement
  <2>2. Cardinality(held') \in Nat
    BY <2>1, FS_CardinalityType
  <2> QED
    BY <1>3, <2>1, <2>2 DEF LiveExact
<1>7. HeapTypeOK'
  <2>1. freeHead[c] \in Words /\ freeHead[c] \in Addr \cup {Null}
    OBVIOUS
  <2>2. mem' \in [Addr -> Words] /\ freeHead' \in [Classes -> Addr \cup {Null}]
    BY <1>2, <1>3, <2>1
  <2>3. trapped \in BOOLEAN
    OBVIOUS
  <2>4. trapped' \in BOOLEAN
    BY <1>3, <2>3, Zenon
  <2> QED
    BY <1>3, <1>6, <2>2, <2>4
<1>8. BlocksInRegion' /\ BlocksApart'
  BY <1>3 DEF BlocksInRegion, BlocksApart, RegionBase
<1>9. HeldCarved'
  BY <1>3 DEF HeldCarved
<1>10. HeadFree'
  BY <1>3, <1>5 DEF HeadFree
<1>11. \A d \in Classes : \A b \in FreeBlocks(d) : b \in Addr /\ b # a /\ mem'[b] = mem[b]
  BY <1>3, <1>5, BlockNamesClass DEF FreeBlocks
<1>12. mem'[a] = freeHead[c] /\ freeHead'[c] = a
  BY <1>2, <1>3
<1>13. LinksFree'
  <2> SUFFICES ASSUME NEW d \in Classes, NEW b \in FreeBlocks(d)', mem'[b] # Null
               PROVE  mem'[b] \in FreeBlocks(d)' /\ mem'[b] # freeHead'[d]
    BY DEF LinksFree
  <2>1. CASE d = c /\ b = a
    BY <1>5, <1>12, <2>1 DEF HeadFree
  <2>2. CASE d = c /\ b # a
    BY <1>5, <1>11, <1>12, <2>2 DEF LinksFree
  <2>3. CASE d # c
    BY <1>3, <1>5, <1>11, <2>3 DEF LinksFree
  <2> QED
    BY <2>1, <2>2, <2>3
<1>14. LinksApart'
  <2> SUFFICES ASSUME NEW d \in Classes, NEW x \in FreeBlocks(d)', NEW y \in FreeBlocks(d)',
                      mem'[x] = mem'[y], x # y
               PROVE  mem'[x] = Null
    BY DEF LinksApart
  <2>1. CASE x \in FreeBlocks(d) /\ y \in FreeBlocks(d)
    BY <1>11, <2>1 DEF LinksApart
  <2>2. CASE x \in FreeBlocks(d) /\ y \notin FreeBlocks(d)
    BY <1>5, <1>11, <1>12, <2>2 DEF LinksFree
  <2>3. CASE x \notin FreeBlocks(d) /\ y \in FreeBlocks(d)
    BY <1>5, <1>11, <1>12, <2>3 DEF LinksFree
  <2>4. CASE x \notin FreeBlocks(d) /\ y \notin FreeBlocks(d)
    BY <1>5, <2>4
  <2> QED
    BY <2>1, <2>2, <2>3, <2>4
<1> QED
  BY <1>6, <1>7, <1>8, <1>9, <1>10, <1>13, <1>14

\* The program may store any word in a block it holds: no free list runs
\* through that block.
LEMMA StoreIsHarmless ==
  ASSUME HeapInv, NEW a \in held, NEW w \in Words,
         WriteWord(a, w)
  PROVE  HeapInv'
<1> USE HeapAssumption DEF HeapInv, HeapTypeOK, WriteWord
<1>1. \A c \in Classes : /\ FreeBlocks(c)' = FreeBlocks(c)
                         /\ \A b \in FreeBlocks(c) : mem'[b] = mem[b]
  BY BlockNamesClass DEF FreeBlocks
<1>2. HeapTypeOK'
  <2>1. trapped \in BOOLEAN
    OBVIOUS
  <2>2. trapped' \in BOOLEAN
    BY <2>1, Zenon
  <2> QED
    BY <2>2
<1>3. BlocksInRegion' /\ BlocksApart' /\ HeldCarved' /\ IsFiniteSet(held') /\ LiveExact'
  BY DEF BlocksInRegion, BlocksApart, HeldCarved, LiveExact, RegionBase
<1>4. HeadFree' /\ LinksFree' /\ LinksApart'
  BY <1>1 DEF HeadFree, LinksFree, LinksApart
<1> QED
  BY <1>2, <1>3, <1>4

\* An allocation that traps leaves the heap as it was.
LEMMA TrapKeepsHeap ==
  ASSUME HeapInv, Trap
  PROVE  HeapInv'
<1>1. trapped' \in BOOLEAN
  BY DEF Trap
<1> QED
  BY <1>1 DEF Trap, HeapInv, HeapTypeOK, BlocksInRegion, BlocksApart, HeldCarved,
     HeadFree, LinksFree, LinksApart, LiveExact, FreeBlocks, RegionBase

\* The zero-initialized globals satisfy the inductive invariant.
LEMMA HeapInitInv == HeapInit => HeapInv
<1> SUFFICES ASSUME HeapInit PROVE HeapInv
  OBVIOUS
<1> USE HeapAssumption DEF HeapInit
<1>1. HeapTypeOK
  <2>1. trapped \in BOOLEAN
    OBVIOUS
  <2>2. 0 \in Words
    BY DEF Null
  <2>3. bump \in [Classes -> 0 .. RegionBytes] /\ mem \in [Addr -> Words]
    BY <2>2
  <2>4. carved \in [Classes -> SUBSET Addr] /\ want \in [Addr -> Nat]
    OBVIOUS
  <2> QED
    BY <2>1, <2>3, <2>4 DEF HeapTypeOK
<1>2. BlocksInRegion /\ BlocksApart /\ HeldCarved
  BY DEF BlocksInRegion, BlocksApart, HeldCarved
<1>3. HeadFree /\ LinksFree /\ LinksApart
  BY DEF HeadFree, LinksFree, LinksApart, FreeBlocks
<1>4. IsFiniteSet(held) /\ LiveExact
  BY FS_EmptySet DEF LiveExact
<1> QED
  BY <1>1, <1>2, <1>3, <1>4 DEF HeapInv

\* Every allocation, free and store of the program keeps it.
LEMMA HeapNextInv == HeapInv /\ [HeapNext]_heapVars => HeapInv'
<1> SUFFICES ASSUME HeapInv, [HeapNext]_heapVars PROVE HeapInv'
  OBVIOUS
<1>1. ASSUME NEW p \in DOMAIN StaticClass, NEW a \in Addr, Alloc(p, a)
      PROVE  HeapInv'
  <2>1. /\ StaticClass[p] \in Classes /\ p + HeaderBytes \in Nat
        /\ p + HeaderBytes <= ClassBytes[StaticClass[p]]
    BY HeapAssumption, ClassAssumption
  <2>2. mem' \in [Addr -> Words] /\ \A b \in Addr \ {a} : mem'[b] = mem[b]
    BY <1>1, HeapAssumption DEF Alloc, HeapInv, HeapTypeOK
  <2> QED
    BY <1>1, <2>1, <2>2, TakeBlock DEF Alloc
<1>2. ASSUME NEW n \in RawSizes, NEW a \in Addr, AllocRaw(n, a)
      PROVE  HeapInv'
  <2>1. RawClass[n] \in Classes /\ n \in Nat /\ n <= ClassBytes[RawClass[n]]
    BY <1>2, ClassAssumption DEF AllocRaw
  <2>2. mem' \in [Addr -> Words] /\ \A b \in Addr \ {a} : mem'[b] = mem[b]
    BY <1>2 DEF AllocRaw, HeapInv, HeapTypeOK
  <2> QED
    BY <1>2, <2>1, <2>2, TakeBlock DEF AllocRaw
<1>3. ASSUME NEW p \in DOMAIN StaticClass, AllocTrap(p)
      PROVE  HeapInv'
  BY <1>3, TrapKeepsHeap DEF AllocTrap
<1>4. ASSUME NEW n \in RawSizes, AllocRawTrap(n)
      PROVE  HeapInv'
  BY <1>4, TrapKeepsHeap DEF AllocRawTrap
<1>5. ASSUME NEW a \in held, Free(a)
      PROVE  HeapInv'
  BY <1>5, ReturnBlock DEF Free
<1>6. ASSUME NEW a \in held, NEW w \in StoredWords, Store(a, w)
      PROVE  HeapInv'
  BY <1>6, StoreIsHarmless, HeapAssumption DEF Store
<1>7. CASE UNCHANGED heapVars
  BY <1>7 DEF heapVars, HeapInv, HeapTypeOK, BlocksInRegion, BlocksApart, HeldCarved,
     HeadFree, LinksFree, LinksApart, LiveExact, FreeBlocks, RegionBase
<1> QED
  BY <1>1, <1>2, <1>3, <1>4, <1>5, <1>6, <1>7 DEF HeapNext

\* The heap's variables keep their types.
THEOREM HeapTypeCorrect == HeapSpec => []HeapTypeOK
<1>1. HeapInv => HeapTypeOK
  BY DEF HeapInv
<1> QED
  BY <1>1, HeapInitInv, HeapNextInv, PTL DEF HeapSpec

\* No two requests that are both still held ever share a byte, whatever the
\* classes, the region size and the order of allocations and frees.
THEOREM HeapKeepsBlocksApart == HeapSpec => []HeldApart
<1> QED
  BY HeapInitInv, HeapNextInv, InvImpliesHeldApart, PTL DEF HeapSpec

\* dc_heap_live always counts the blocks the program holds, so a leak test
\* that reads 0 there has shown what it claims.
THEOREM HeapCountsBlocks == HeapSpec => []LiveExact
<1>1. HeapInv => LiveExact
  BY DEF HeapInv
<1> QED
  BY <1>1, HeapInitInv, HeapNextInv, PTL DEF HeapSpec

-----------------------------------------------------------------------------
(***************************************************************************)
(* The free lists: every chain of links has an end, and holds every block  *)
(* the program does not.                                                   *)
(***************************************************************************)

\* Pushing a block on a list.
LEMMA PushListed ==
  ASSUME NEW F, IsFiniteSet(F), NEW h, NEW m, NEW k, NEW a,
         Listed(F, h, m), a \notin F, Null \notin F,
         k[a] = h, \A b \in F : k[b] = m[b]
  PROVE  Listed(F \cup {a}, a, k)
<1> DEFINE n == Cardinality(F)
<1>1. n \in Nat /\ Cardinality(F \cup {a}) = n + 1
  BY FS_CardinalityType, FS_AddElement
<1>2. PICK q \in [1 .. n -> F] : PopOrder(F, h, m, q)
  BY DEF Listed
<1> HIDE DEF n
<1> DEFINE r == [i \in 1 .. n + 1 |-> IF i = 1 THEN a ELSE q[i - 1]]
<1>3. r \in [1 .. n + 1 -> F \cup {a}]
  BY <1>1
<1>4. /\ \A b \in F : \E i \in 1 .. n : q[i] = b
      /\ \A i, j \in 1 .. n : q[i] = q[j] => i = j
      /\ h = IF n = 0 THEN Null ELSE q[1]
      /\ \A i \in 1 .. n : m[q[i]] = IF i = n THEN Null ELSE q[i + 1]
  BY <1>2 DEF PopOrder, n
<1>5. r[1] = a /\ \A i \in 1 .. n : r[i + 1] = q[i] /\ q[i] \in F
  BY <1>1
<1> HIDE DEF r
<1>6. ASSUME NEW b \in F \cup {a} PROVE \E i \in 1 .. n + 1 : r[i] = b
  <2>1. CASE b = a
    BY <1>1, <1>5, <2>1
  <2>2. CASE b \in F
    <3>1. PICK i \in 1 .. n : q[i] = b
      BY <1>4, <2>2
    <3> QED
      BY <1>1, <1>5, <3>1
  <2> QED
    BY <2>1, <2>2
<1>7. ASSUME NEW i \in 1 .. n + 1 
      PROVE  i = 1 \/ (i - 1 \in 1 .. n /\ r[i] = q[i - 1] /\ q[i - 1] \in F)
  <2>1. i = 1 \/ (i - 1 \in 1 .. n /\ (i - 1) + 1 = i)
    BY <1>1
  <2> QED
    BY <1>5, <2>1
<1>8. ASSUME NEW i \in 1 .. n + 1, NEW j \in 1 .. n + 1, r[i] = r[j] PROVE i = j
  <2>1. CASE i = 1
    BY <1>5, <1>7, <1>8, <2>1
  <2>2. CASE j = 1
    BY <1>5, <1>7, <1>8, <2>2
  <2>3. CASE i # 1 /\ j # 1
    <3>1. i - 1 \in 1 .. n /\ j - 1 \in 1 .. n /\ q[i - 1] = q[j - 1]
      BY <1>7, <1>8, <2>3
    <3>2. i - 1 = j - 1
      BY <1>4, <3>1
    <3> QED
      BY <1>1, <3>2
  <2> QED
    BY <2>1, <2>2, <2>3
<1>9. ASSUME NEW i \in 1 .. n + 1
      PROVE  k[r[i]] = IF i = n + 1 THEN Null ELSE r[i + 1]
  <2>1. CASE i = 1
    BY <1>1, <1>4, <1>5, <2>1
  <2>2. CASE i # 1
    <3>1. k[r[i]] = m[q[i - 1]] /\ i - 1 \in 1 .. n
      BY <1>7, <2>2
    <3>2. CASE i = n + 1
      BY <1>1, <1>4, <3>1, <3>2
    <3>3. CASE i # n + 1
      <4>1. i \in 1 .. n /\ (i - 1) + 1 = i /\ i - 1 # n
        BY <1>1, <3>3
      <4> QED
        BY <1>4, <1>5, <3>1, <3>3, <4>1
    <3> QED
      BY <3>2, <3>3
  <2> QED
    BY <2>1, <2>2
<1>10. a = IF n + 1 = 0 THEN Null ELSE r[1]
  BY <1>1, <1>5
<1>11. PopOrder(F \cup {a}, a, k, r)
  BY <1>1, <1>6, <1>8, <1>9, <1>10 DEF PopOrder
<1> QED
  BY <1>1, <1>3, <1>11 DEF Listed

\* Popping the head of a list that is not empty.
LEMMA PopListed ==
  ASSUME NEW F, IsFiniteSet(F), NEW h, NEW m,
         Listed(F, h, m), h # Null
  PROVE  h \in F /\ Listed(F \ {h}, m[h], m)
<1> DEFINE n == Cardinality(F)
<1>1. n \in Nat
  BY FS_CardinalityType
<1>2. PICK q \in [1 .. n -> F] : PopOrder(F, h, m, q)
  BY DEF Listed
<1> HIDE DEF n
<1>3. /\ \A b \in F : \E i \in 1 .. n : q[i] = b
      /\ \A i, j \in 1 .. n : q[i] = q[j] => i = j
      /\ h = IF n = 0 THEN Null ELSE q[1]
      /\ \A i \in 1 .. n : m[q[i]] = IF i = n THEN Null ELSE q[i + 1]
  BY <1>2 DEF PopOrder, n
<1>4. n # 0 /\ n - 1 \in Nat /\ 1 \in 1 .. n /\ h = q[1] /\ h \in F
  BY <1>1, <1>3
<1>5. Cardinality(F \ {h}) = n - 1
  BY <1>4, FS_RemoveElement DEF n
<1> DEFINE r == [i \in 1 .. n - 1 |-> q[i + 1]]
<1>6. \A i \in 1 .. n - 1 : i + 1 \in 1 .. n /\ i + 1 # 1 /\ r[i] = q[i + 1] /\ q[i + 1] \in F
  BY <1>1
<1>7. r \in [1 .. n - 1 -> F \ {h}]
  BY <1>3, <1>4, <1>6
<1> HIDE DEF r
<1>8. ASSUME NEW b \in F \ {h} PROVE \E i \in 1 .. n - 1 : r[i] = b
  <2>1. PICK i \in 1 .. n : q[i] = b
    BY <1>3
  <2>2. i # 1
    BY <1>4, <2>1
  <2>3. i - 1 \in 1 .. n - 1 /\ (i - 1) + 1 = i
    BY <1>1, <2>2
  <2> QED
    BY <1>6, <2>1, <2>3
<1>9. ASSUME NEW i \in 1 .. n - 1, NEW j \in 1 .. n - 1, r[i] = r[j] PROVE i = j
  BY <1>1, <1>3, <1>6, <1>9
<1>10. m[h] = IF n - 1 = 0 THEN Null ELSE r[1]
  BY <1>1, <1>3, <1>4, <1>6
<1>11. ASSUME NEW i \in 1 .. n - 1
       PROVE  m[r[i]] = IF i = n - 1 THEN Null ELSE r[i + 1]
  BY <1>1, <1>3, <1>6
<1>12. PopOrder(F \ {h}, m[h], m, r)
  BY <1>5, <1>8, <1>9, <1>10, <1>11 DEF PopOrder
<1> QED
  BY <1>4, <1>5, <1>7, <1>12 DEF Listed

\* A list does not depend on the words of blocks that are not on it.
LEMMA SameListed ==
  ASSUME NEW F, NEW h, NEW m, NEW k, Listed(F, h, m), \A b \in F : k[b] = m[b]
  PROVE  Listed(F, h, k)
<1>1. PICK q \in [1 .. Cardinality(F) -> F] : PopOrder(F, h, m, q)
  BY DEF Listed
<1>2. PopOrder(F, h, k, q)
  BY <1>1 DEF PopOrder
<1> QED
  BY <1>2 DEF Listed

\* The list of no blocks is the null link, and only that list is.
LEMMA EmptyListed ==
  ASSUME NEW F, IsFiniteSet(F), Null \notin F, NEW h, NEW m
  PROVE  /\ Listed({}, Null, m)
         /\ Listed(F, h, m) /\ h = Null => F = {}
<1>1. Cardinality({}) = 0
  BY FS_EmptySet
<1>2. Listed({}, Null, m)
  <2>1. [i \in 1 .. 0 |-> Null] \in [1 .. 0 -> {}]
    OBVIOUS
  <2>2. PopOrder({}, Null, m, [i \in 1 .. 0 |-> Null])
    BY <1>1 DEF PopOrder
  <2> QED
    BY <1>1, <2>1, <2>2 DEF Listed
<1>3. ASSUME Listed(F, h, m), h = Null PROVE F = {}
  <2>1. PICK q \in [1 .. Cardinality(F) -> F] : PopOrder(F, h, m, q)
    BY <1>3 DEF Listed
  <2>2. Cardinality(F) \in Nat
    BY FS_CardinalityType
  <2>3. Cardinality(F) = 0
    BY <1>3, <2>1, <2>2 DEF PopOrder
  <2> QED
    BY <2>3, FS_EmptySet
<1> QED
  BY <1>2, <1>3

\* The free blocks are a finite set of addresses, none of them null.
LEMMA FreeBlocksFinite ==
  ASSUME HeapInv, NEW c \in Classes
  PROVE  /\ FreeBlocks(c) \subseteq Addr /\ IsFiniteSet(FreeBlocks(c))
         /\ Null \notin FreeBlocks(c)
<1> USE HeapAssumption
<1>1. FreeBlocks(c) \subseteq Addr
  BY DEF FreeBlocks, HeapInv, HeapTypeOK
<1>2. IsFiniteSet(Addr)
  <2>1. HeapBase \in Int /\ HeapEnd - 1 \in Int
    <3>1. ClassCount * RegionBytes \in Int
      OBVIOUS
    <3> QED
      BY <3>1 DEF HeapEnd
  <2> QED
    BY <2>1, FS_Interval DEF Addr
<1>3. Null \notin Addr
  BY DEF Addr, Null
<1> QED
  BY <1>1, <1>2, <1>3, FS_Subset

\* Taking a block keeps every list in order: a popped block was the head of
\* its list, a carved one was on none, and no other list runs through it.
LEMMA TakeListed ==
  ASSUME FreeListInv, NEW c \in Classes, NEW a \in Addr, NEW bytes \in Nat,
         Pop(c, a) \/ Carve(c, a),
         HandOut(a, bytes),
         \A b \in Addr \ {a} : mem'[b] = mem[b],
         a \notin held, HeapInv'
  PROVE  FreeListed'
<1> USE HeapAssumption DEF FreeListInv
<1> SUFFICES ASSUME NEW d \in Classes
             PROVE  Listed(FreeBlocks(d)', freeHead'[d], mem')
  BY DEF FreeListed
<1>1. held' = held \cup {a} /\ Listed(FreeBlocks(d), freeHead[d], mem)
  BY DEF HandOut, FreeListed
<1>2. /\ FreeBlocks(d) \subseteq Addr /\ IsFiniteSet(FreeBlocks(d))
      /\ Null \notin FreeBlocks(d)
  BY FreeBlocksFinite
<1>3. CASE Pop(c, a)
  <2>1. /\ freeHead[c] # Null /\ a = freeHead[c]
        /\ freeHead' = [freeHead EXCEPT ![c] = mem[a]] /\ carved' = carved
    BY <1>3 DEF Pop
  <2>2. FreeBlocks(d)' = FreeBlocks(d) \ {a}
    BY <1>1, <2>1 DEF FreeBlocks
  <2>3. \A b \in FreeBlocks(d) \ {a} : mem'[b] = mem[b]
    BY <1>2
  <2>4. CASE d = c
    <3>1. Listed(FreeBlocks(c) \ {a}, mem[a], mem)
      BY <1>1, <1>2, <2>1, <2>4, PopListed
    <3>2. freeHead'[c] = mem[a]
      BY <2>1 DEF HeapInv, HeapTypeOK
    <3> QED
      BY <2>2, <2>3, <2>4, <3>1, <3>2, SameListed
  <2>5. CASE d # c
    <3>1. a \in carved[c]
      BY <1>1, <2>1, FreeBlocksFinite, PopListed DEF FreeListed, FreeBlocks
    <3>2. a \notin FreeBlocks(d)
      BY <2>5, <3>1, BlockNamesClass DEF FreeBlocks
    <3>3. freeHead'[d] = freeHead[d] /\ FreeBlocks(d)' = FreeBlocks(d)
      BY <2>1, <2>2, <2>5, <3>2 DEF HeapInv, HeapTypeOK
    <3> QED
      BY <1>1, <2>3, <3>2, <3>3, SameListed
  <2> QED
    BY <2>4, <2>5
<1>4. CASE Carve(c, a)
  <2>1. /\ freeHead' = freeHead /\ carved' = [carved EXCEPT ![c] = carved[c] \cup {a}]
    BY <1>4 DEF Carve
  <2>2. a \notin FreeBlocks(d)
    <3> SUFFICES ASSUME a \in FreeBlocks(d) PROVE FALSE
      OBVIOUS
    <3>1. a \in carved[d] /\ a = RegionBase(c) + bump[c] /\ bump[c] + ClassBytes[c] <= RegionBytes
      BY <1>4 DEF Carve, FreeBlocks
    <3>2. /\ RegionBase(c) \in Nat /\ ClassBytes[c] \in 1 .. RegionBytes
          /\ bump[c] \in 0 .. RegionBytes /\ a \in Int
      BY RegionInHeap DEF HeapInv, HeapTypeOK, Addr
    <3>3. ClassOf(a) = c
      BY <3>1, <3>2, AddressNamesRegion
    <3>4. d = c
      BY <3>1, <3>3, BlockNamesClass
    <3>5. a + ClassBytes[c] <= RegionBase(c) + bump[c]
      BY <3>1, <3>4 DEF HeapInv, BlocksInRegion
    <3> QED
      BY <3>1, <3>2, <3>5
  <2>3. FreeBlocks(d)' = FreeBlocks(d)
    BY <1>1, <2>1, <2>2 DEF FreeBlocks, HeapInv, HeapTypeOK
  <2>4. \A b \in FreeBlocks(d) : mem'[b] = mem[b]
    BY <1>2, <2>2
  <2> QED
    BY <1>1, <2>1, <2>3, <2>4, SameListed
<1> QED
  BY <1>3, <1>4

\* A freed block is pushed on its own class's list; the other lists do not
\* see its word.
LEMMA ReturnListed ==
  ASSUME FreeListInv, NEW a \in held, PushBack(a)
  PROVE  FreeListed'
<1> USE HeapAssumption DEF FreeListInv
<1> SUFFICES ASSUME NEW d \in Classes
             PROVE  Listed(FreeBlocks(d)', freeHead'[d], mem')
  BY DEF FreeListed
<1>1. PICK c \in Classes : a \in carved[c]
  BY DEF HeapInv, HeldCarved
<1>2. a \in Addr /\ ClassOf(a) = c
  BY <1>1, BlockNamesClass
<1>3. /\ mem' = [mem EXCEPT ![a] = freeHead[c]]
      /\ freeHead' = [freeHead EXCEPT ![c] = a]
      /\ held' = held \ {a} /\ carved' = carved
  BY <1>2 DEF PushBack
<1>4. /\ FreeBlocks(d) \subseteq Addr /\ IsFiniteSet(FreeBlocks(d))
      /\ Null \notin FreeBlocks(d) /\ a \notin FreeBlocks(d)
  BY FreeBlocksFinite DEF FreeBlocks
<1>5. Listed(FreeBlocks(d), freeHead[d], mem)
  BY DEF FreeListed
<1>6. /\ mem'[a] = freeHead[c] /\ freeHead'[c] = a
      /\ d # c => freeHead'[d] = freeHead[d]
      /\ \A b \in FreeBlocks(d) : mem'[b] = mem[b]
  BY <1>2, <1>3, <1>4 DEF HeapInv, HeapTypeOK
<1>7. CASE d = c
  <2>1. FreeBlocks(d)' = FreeBlocks(d) \cup {a}
    BY <1>1, <1>3, <1>7 DEF FreeBlocks
  <2>2. Listed(FreeBlocks(d) \cup {a}, a, mem')
    BY <1>4, <1>5, <1>6, <1>7, PushListed
  <2> QED
    BY <1>6, <1>7, <2>1, <2>2
<1>8. CASE d # c
  <2>1. a \notin carved[d]
    BY <1>2, <1>8, BlockNamesClass
  <2>2. FreeBlocks(d)' = FreeBlocks(d)
    BY <1>3, <2>1 DEF FreeBlocks
  <2> QED
    BY <1>5, <1>6, <1>8, <2>2, SameListed
<1> QED
  BY <1>7, <1>8

\* A store, and a trap, leave every list as it was.
LEMMA KeepListed ==
  ASSUME FreeListInv, UNCHANGED <<freeHead, carved, held>>,
         \A b \in Addr \ held : mem'[b] = mem[b]
  PROVE  FreeListed'
<1> SUFFICES ASSUME NEW d \in Classes
             PROVE  Listed(FreeBlocks(d)', freeHead'[d], mem')
  BY DEF FreeListed
<1>1. Listed(FreeBlocks(d), freeHead[d], mem) /\ FreeBlocks(d)' = FreeBlocks(d)
  BY DEF FreeListInv, FreeListed, FreeBlocks
<1>2. \A b \in FreeBlocks(d) : mem'[b] = mem[b]
  BY FreeBlocksFinite DEF FreeListInv, FreeBlocks
<1> QED
  BY <1>1, <1>2, SameListed

\* The empty heap has empty lists.
LEMMA FreeListInit == HeapInit => FreeListInv
<1> SUFFICES ASSUME HeapInit PROVE FreeListed
  BY HeapInitInv DEF FreeListInv
<1> SUFFICES ASSUME NEW c \in Classes PROVE Listed(FreeBlocks(c), freeHead[c], mem)
  BY DEF FreeListed
<1>1. FreeBlocks(c) = {} /\ freeHead[c] = Null
  BY DEF HeapInit, FreeBlocks
<1>2. Listed({}, Null, mem)
  BY FS_EmptySet, EmptyListed
<1> QED
  BY <1>1, <1>2

\* Every step of the heap keeps its lists in order.
LEMMA FreeListNext == FreeListInv /\ [HeapNext]_heapVars => FreeListInv'
<1> SUFFICES ASSUME FreeListInv, [HeapNext]_heapVars PROVE FreeListed'
  BY HeapNextInv DEF FreeListInv
<1>0. HeapInv /\ HeapInv' /\ mem \in [Addr -> Words] /\ held \subseteq Addr
  BY HeapNextInv DEF FreeListInv, HeapInv, HeapTypeOK
<1>1. ASSUME NEW p \in DOMAIN StaticClass, NEW a \in Addr, Alloc(p, a)
      PROVE  FreeListed'
  <2>1. /\ StaticClass[p] \in Classes /\ p + HeaderBytes \in Nat
        /\ p + HeaderBytes <= ClassBytes[StaticClass[p]]
    BY HeapAssumption, ClassAssumption
  <2>2. mem' \in [Addr -> Words] /\ \A b \in Addr \ {a} : mem'[b] = mem[b]
    BY <1>0, <1>1, HeapAssumption DEF Alloc
  <2>3. a \notin held
    BY <1>0, <1>1, <2>1, <2>2, TakeBlock DEF Alloc
  <2> QED
    BY <1>0, <1>1, <2>1, <2>2, <2>3, TakeListed DEF Alloc
<1>2. ASSUME NEW n \in RawSizes, NEW a \in Addr, AllocRaw(n, a)
      PROVE  FreeListed'
  <2>1. RawClass[n] \in Classes /\ n \in Nat /\ n <= ClassBytes[RawClass[n]]
    BY <1>2, ClassAssumption DEF AllocRaw
  <2>2. mem' \in [Addr -> Words] /\ \A b \in Addr \ {a} : mem'[b] = mem[b]
    BY <1>0, <1>2 DEF AllocRaw
  <2>3. a \notin held
    BY <1>0, <1>2, <2>1, <2>2, TakeBlock DEF AllocRaw
  <2> QED
    BY <1>0, <1>2, <2>1, <2>2, <2>3, TakeListed DEF AllocRaw
<1>3. ASSUME NEW a \in held, Free(a) PROVE FreeListed'
  BY <1>3, ReturnListed DEF Free
<1>4. ASSUME NEW a \in held, NEW w \in StoredWords, Store(a, w) PROVE FreeListed'
  BY <1>0, <1>4, KeepListed DEF Store, WriteWord
<1>5. ASSUME Trap PROVE FreeListed'
  BY <1>5, KeepListed DEF Trap
<1>6. CASE UNCHANGED heapVars
  BY <1>6, KeepListed DEF heapVars
<1> QED
  BY <1>1, <1>2, <1>3, <1>4, <1>5, <1>6 DEF HeapNext, AllocTrap, AllocRawTrap

\* Walking the links from the head visits the blocks in the order they will
\* be popped, and then null.
LEMMA ChainVisits ==
  ASSUME FreeListInv, NEW c \in Classes,
         NEW q \in [1 .. Cardinality(FreeBlocks(c)) -> FreeBlocks(c)],
         PopOrder(FreeBlocks(c), freeHead[c], mem, q)
  PROVE  LET n == Cardinality(FreeBlocks(c))
         IN  /\ n \in 0 .. Cardinality(carved[c])
             /\ \A k \in 0 .. n : Chain(c)[k] = IF k = n THEN Null ELSE q[k + 1]
<1> USE HeapAssumption
<1> DEFINE n == Cardinality(FreeBlocks(c))
           N == Cardinality(carved[c])
           walk == CHOOSE f : f = [k \in Nat |->
                     IF k = 0 THEN freeHead[c]
                     ELSE IF f[k - 1] \in Addr THEN mem[f[k - 1]] ELSE Null]
<1>1. /\ freeHead[c] \in Words /\ mem \in [Addr -> Words] /\ carved[c] \subseteq Addr
      /\ Null \in Words /\ Addr \subseteq Words
  BY DEF FreeListInv, HeapInv, HeapTypeOK
<1>2. n \in Nat /\ N \in Nat /\ n <= N
  <2>1. IsFiniteSet(Addr)
    <3>1. HeapBase \in Int /\ HeapEnd - 1 \in Int
      <4>1. ClassCount * RegionBytes \in Int
        OBVIOUS
      <4> QED
        BY <4>1 DEF HeapEnd
    <3> QED
      BY <3>1, FS_Interval DEF Addr
  <2>2. IsFiniteSet(carved[c])
    BY <1>1, <2>1, FS_Subset
  <2> QED
    BY <2>2, FS_Subset, FS_CardinalityType DEF FreeBlocks
<1>3. \E f : f = [k \in Nat |->
                     IF k = 0 THEN freeHead[c]
                     ELSE IF f[k - 1] \in Addr THEN mem[f[k - 1]] ELSE Null]
  <2>1. PICK g \in [Words -> Words] :
              \A w \in Words : g[w] = IF w \in Addr THEN mem[w] ELSE Null
    <3>1. [w \in Words |-> IF w \in Addr THEN mem[w] ELSE Null] \in [Words -> Words]
      BY <1>1
    <3> QED
      BY <3>1
  <2>2. PICK f \in [Nat -> Words] :
              f[0] = freeHead[c] /\ \A k \in Nat \ {0} : f[k] = g[f[k - 1]]
    <3>1. PICK x \in Words : x = freeHead[c]
      BY <1>1
    <3>2. \E f \in [Nat -> Words] : f[0] = x /\ \A k \in Nat \ {0} : f[k] = g[f[k - 1]]
      BY ONLY g \in [Words -> Words], x \in Words, IterationExists
    <3> QED
      BY <3>1, <3>2
  <2>3. ASSUME NEW k \in Nat \ {0}
        PROVE  f[k] = IF f[k - 1] \in Addr THEN mem[f[k - 1]] ELSE Null
    <3>1. k - 1 \in Nat
      OBVIOUS
    <3> QED
      BY <2>1, <2>2, <3>1
  <2>4. f = [k \in Nat |-> f[k]]
    BY <2>2
  <2>5. f = [k \in Nat |->
                     IF k = 0 THEN freeHead[c]
                     ELSE IF f[k - 1] \in Addr THEN mem[f[k - 1]] ELSE Null]
    BY <2>2, <2>3, <2>4
  <2> QED
    BY <2>5
<1>4. walk = [k \in Nat |->
                     IF k = 0 THEN freeHead[c]
                     ELSE IF walk[k - 1] \in Addr THEN mem[walk[k - 1]] ELSE Null]
  BY <1>3
<1>5. Chain(c) = [k \in 0 .. N |-> walk[k]]
  BY DEF Chain
<1> HIDE DEF walk, n, N
<1>6. /\ freeHead[c] = IF n = 0 THEN Null ELSE q[1]
      /\ \A i \in 1 .. n : mem[q[i]] = IF i = n THEN Null ELSE q[i + 1]
      /\ \A i \in 1 .. n : q[i] \in Addr
  BY FreeBlocksFinite DEF PopOrder, n, FreeListInv
<1>7. \A k \in Nat : k \in 0 .. n => walk[k] = IF k = n THEN Null ELSE q[k + 1]
  <2> DEFINE Good == {k \in Nat : k \in 0 .. n => walk[k] = IF k = n THEN Null ELSE q[k + 1]}
  <2>1. 0 \in Good
    BY <1>2, <1>4, <1>6
  <2>2. ASSUME NEW k \in Nat, k \in Good PROVE k + 1 \in Good
    <3> SUFFICES ASSUME k + 1 \in 0 .. n
                 PROVE  walk[k + 1] = IF k + 1 = n THEN Null ELSE q[(k + 1) + 1]
      OBVIOUS
    <3>1. k \in 0 .. n /\ k # n /\ k + 1 \in 1 .. n /\ (k + 1) - 1 = k /\ k + 1 \in Nat
      BY <1>2
    <3>2. walk[k] = q[k + 1]
      BY <2>2, <3>1
    <3>3. walk[k + 1] = mem[q[k + 1]]
      BY <1>4, <1>6, <3>1, <3>2
    <3> QED
      BY <1>6, <3>1, <3>3
  <2>3. \A k \in Nat : k \in Good
    <3> HIDE DEF Good
    <3> QED
      BY <2>1, <2>2, NatInduct
  <2> QED
    BY <2>3
<1>8. n \in 0 .. N /\ \A k \in 0 .. n : Chain(c)[k] = IF k = n THEN Null ELSE q[k + 1]
  BY <1>2, <1>5, <1>7
<1> QED
  BY <1>8 DEF n, N

\* Lists in order are exactly the blocks carved and not held.
LEMMA ListedImpliesExact == FreeListInv => FreeListExact
<1> SUFFICES ASSUME FreeListInv, NEW c \in Classes
             PROVE  LET free == carved[c] \ held
                    IN  /\ {Chain(c)[k] : k \in 0 .. (Cardinality(free) - 1)} = free
                        /\ Chain(c)[Cardinality(free)] = Null
  BY DEF FreeListExact
<1> DEFINE free == FreeBlocks(c)
           n == Cardinality(free)
<1>1. PICK q \in [1 .. n -> free] : PopOrder(free, freeHead[c], mem, q)
  BY DEF FreeListInv, FreeListed, Listed
<1>2. n \in Nat /\ \A k \in 0 .. n : Chain(c)[k] = IF k = n THEN Null ELSE q[k + 1]
  BY <1>1, ChainVisits
<1>3. \A b \in free : \E i \in 1 .. n : q[i] = b
  BY <1>1 DEF PopOrder
<1> HIDE DEF n
<1>4. \A b \in free : \E k \in 0 .. (n - 1) : Chain(c)[k] = b
  <2> SUFFICES ASSUME NEW b \in free PROVE \E k \in 0 .. (n - 1) : Chain(c)[k] = b
    OBVIOUS
  <2>1. PICK i \in 1 .. n : q[i] = b
    BY <1>3
  <2>2. i - 1 \in 0 .. (n - 1) /\ i - 1 \in 0 .. n /\ i - 1 # n /\ (i - 1) + 1 = i
    BY <1>2
  <2> QED
    BY <1>2, <2>1, <2>2
<1>5. \A k \in 0 .. (n - 1) : Chain(c)[k] \in free
  BY <1>1, <1>2
<1>6. {Chain(c)[k] : k \in 0 .. (n - 1)} = free /\ Chain(c)[n] = Null
  BY <1>2, <1>4, <1>5
<1> QED
  BY <1>6 DEF n, FreeBlocks

\* A region grows only when its class's list is empty, and an empty list
\* means that the program holds every block.
LEMMA GrowStep ==
  ASSUME FreeListInv, [HeapNext]_heapVars, NEW c \in Classes, bump'[c] # bump[c]
  PROVE  carved[c] \subseteq held
<1>1. ASSUME NEW d \in Classes, NEW a, Pop(d, a) \/ Carve(d, a)
      PROVE  freeHead[c] = Null
  <2>1. CASE Pop(d, a)
    BY <2>1 DEF Pop
  <2>2. CASE Carve(d, a)
    BY <2>2 DEF Carve, FreeListInv, HeapInv, HeapTypeOK
  <2> QED
    BY <1>1, <2>1, <2>2
<1>2. freeHead[c] = Null
  <2>1. ASSUME NEW p \in DOMAIN StaticClass, NEW a \in Addr, Alloc(p, a)
        PROVE  freeHead[c] = Null
    BY <1>1, <2>1, ClassAssumption DEF Alloc
  <2>2. ASSUME NEW n \in RawSizes, NEW a \in Addr, AllocRaw(n, a)
        PROVE  freeHead[c] = Null
    BY <1>1, <2>2, ClassAssumption DEF AllocRaw
  <2> QED
    BY <2>1, <2>2 DEF HeapNext, heapVars, AllocTrap, AllocRawTrap, Trap, Free, PushBack,
       Store, WriteWord
<1>3. FreeBlocks(c) = {}
  BY <1>2, FreeBlocksFinite, EmptyListed DEF FreeListInv, FreeListed
<1> QED
  BY <1>3 DEF FreeBlocks

\* Every free list is a simple chain of exactly its class's free blocks: no
\* sequence of allocations and frees loses a block or lists one twice.
THEOREM FreeListsExact == HeapSpec => []FreeListExact
<1> QED
  BY FreeListInit, FreeListNext, ListedImpliesExact, PTL DEF HeapSpec

\* The cursor of a region moves only when every block cut from it is held.
THEOREM HeapGrowsOnlyWhenFull == HeapSpec => GrowsOnlyWhenFull
<1>1. FreeListInv /\ [HeapNext]_heapVars
        => [\A c \in Classes : bump'[c] # bump[c] => carved[c] \subseteq held]_heapVars
  BY GrowStep
<1> QED
  BY <1>1, FreeListInit, FreeListNext, PTL DEF HeapSpec, GrowsOnlyWhenFull

-----------------------------------------------------------------------------
(***************************************************************************)
(* The heap implements AbstractHeap.                                       *)
(***************************************************************************)

\* A block just handed out is an extent apart from every extent held before.
LEMMA TakeRefines ==
  ASSUME HeapInv, HeapInv', NEW a \in Addr, a \notin held, NEW bytes \in Nat,
         ~trapped, HandOut(a, bytes),
         mem' \in [Addr -> Words],
         \A b \in Addr \ {a} : mem'[b] = mem[b]
  PROVE  AH!Next
<1> USE HeapAssumption
<1>1. held' = held \cup {a} /\ want' = [want EXCEPT ![a] = bytes] /\ trapped' = trapped
  BY DEF HandOut
<1>2. HeldApart' /\ want \in [Addr -> Nat] /\ held \subseteq Addr
  <2>1. HeldApart'
    BY InvImpliesHeldApart, PTL
  <2> QED
    BY <2>1 DEF HeapInv, HeapTypeOK
<1>3. a \in HeapBase .. (HeapEnd - 1) /\ a + bytes <= HeapEnd
  BY <1>1, <1>2 DEF HeldApart, Addr
<1>4. bytes \in 0 .. (HeapEnd - HeapBase)
  BY <1>3 DEF HeapEnd
<1>5. \A t \in held : AH!Disjoint(a, bytes, t, want[t])
  BY <1>1, <1>2 DEF HeldApart, AH!Disjoint
<1> DEFINE blk == [t \in held |-> want[t]]
           cel == [t \in held |-> mem[t]]
<1>6. blk' = [t \in DOMAIN blk \cup {a} |-> IF t = a THEN bytes ELSE blk[t]]
  BY <1>1, <1>2
<1>7. mem'[a] \in Words
        /\ cel' = [t \in DOMAIN cel \cup {a} |-> IF t = a THEN mem'[a] ELSE cel[t]]
  BY <1>1, <1>2
<1>8. AH!Allocate(a, bytes)
  <2>1. DOMAIN blk = held
    OBVIOUS
  <2>2. a \notin DOMAIN blk /\ HeapBase <= a
    BY <1>3, <2>1
  <2>3. \A t \in DOMAIN blk : AH!Disjoint(a, bytes, t, blk[t])
    BY <1>5
  <2>4. \E w \in Words :
          cel' = [t \in DOMAIN cel \cup {a} |-> IF t = a THEN w ELSE cel[t]]
    BY <1>7
  <2> QED
    BY <1>1, <1>3, <1>6, <2>2, <2>3, <2>4 DEF AH!Allocate
<1> QED
  BY <1>3, <1>4, <1>8 DEF AH!Next

\* One step of the heap is one step of the abstract heap, or none.
LEMMA StepRefines ==
  ASSUME HeapInv, HeapInv', [HeapNext]_heapVars
  PROVE  [AH!Next]_(AH!vars)
<1> USE HeapAssumption
<1> DEFINE blk == [t \in held |-> want[t]]
           cel == [t \in held |-> mem[t]]
<1>0. /\ DOMAIN blk = held /\ DOMAIN cel = held /\ held \subseteq Addr
      /\ want \in [Addr -> Nat] /\ mem \in [Addr -> Words]
  BY DEF HeapInv, HeapTypeOK
<1>1. ASSUME NEW p \in DOMAIN StaticClass, NEW a \in Addr, Alloc(p, a)
      PROVE  AH!Next
  <2>1. /\ StaticClass[p] \in Classes /\ p + HeaderBytes \in Nat
        /\ p + HeaderBytes <= ClassBytes[StaticClass[p]]
    BY ClassAssumption
  <2>2. mem' \in [Addr -> Words] /\ \A b \in Addr \ {a} : mem'[b] = mem[b]
    BY <1>1, <1>0 DEF Alloc
  <2>3. a \notin held
    BY <1>1, <2>1, <2>2, TakeBlock DEF Alloc
  <2> QED
    BY <1>1, <2>1, <2>2, <2>3, TakeRefines DEF Alloc
<1>2. ASSUME NEW n \in RawSizes, NEW a \in Addr, AllocRaw(n, a)
      PROVE  AH!Next
  <2>1. RawClass[n] \in Classes /\ n \in Nat /\ n <= ClassBytes[RawClass[n]]
    BY <1>2, ClassAssumption DEF AllocRaw
  <2>2. mem' \in [Addr -> Words] /\ \A b \in Addr \ {a} : mem'[b] = mem[b]
    BY <1>2, <1>0 DEF AllocRaw
  <2>3. a \notin held
    BY <1>2, <2>1, <2>2, TakeBlock DEF AllocRaw
  <2> QED
    BY <1>2, <2>1, <2>2, <2>3, TakeRefines DEF AllocRaw
<1>3. ASSUME ~trapped, Trap
      PROVE  AH!Next
  <2>1. blk' = blk /\ cel' = cel /\ trapped' = TRUE
    BY <1>3 DEF Trap
  <2>2. AH!Fail
    BY <1>3, <2>1 DEF AH!Fail
  <2> QED
    BY <2>2 DEF AH!Next
<1>4. ASSUME NEW a \in held, Free(a)
      PROVE  AH!Next
  <2>1. /\ ~trapped /\ trapped' = trapped /\ held' = held \ {a}
        /\ want' = [want EXCEPT ![a] = 0]
        /\ mem' = [mem EXCEPT ![a] = freeHead[ClassOf(a)]]
    BY <1>4 DEF Free, PushBack
  <2>2. blk' = [t \in DOMAIN blk \ {a} |-> blk[t]]
    BY <1>0, <2>1
  <2>3. cel' = [t \in DOMAIN cel \ {a} |-> cel[t]]
    BY <1>0, <2>1
  <2>4. AH!Free(a)
    BY <1>0, <2>1, <2>2, <2>3 DEF AH!Free
  <2> QED
    BY <1>0, <2>4 DEF AH!Next
<1>5. ASSUME NEW a \in held, NEW w \in StoredWords, Store(a, w)
      PROVE  AH!Next
  <2>1. /\ ~trapped /\ trapped' = trapped /\ held' = held /\ want' = want
        /\ mem' = [mem EXCEPT ![a] = w]
    BY <1>5 DEF Store, WriteWord
  <2>2. blk' = blk /\ cel' = [cel EXCEPT ![a] = w]
    BY <1>0, <2>1
  <2>3. AH!Store(a, w)
    BY <1>0, <2>1, <2>2 DEF AH!Store
  <2> QED
    BY <1>0, <2>3 DEF AH!Next
<1>6. CASE UNCHANGED heapVars
  BY <1>6 DEF heapVars, AH!vars
<1>7. ASSUME NEW p \in DOMAIN StaticClass, AllocTrap(p)
      PROVE  AH!Next
  BY <1>3, <1>7 DEF AllocTrap
<1>8. ASSUME NEW n \in RawSizes, AllocRawTrap(n)
      PROVE  AH!Next
  BY <1>3, <1>8 DEF AllocRawTrap
<1> QED
  BY <1>1, <1>2, <1>4, <1>5, <1>6, <1>7, <1>8 DEF HeapNext

\* The free lists, the cursors and the class table implement the abstract
\* heap: an allocation is always an extent apart from the others or a trap,
\* and the word a program stored in its block stays until it stores again.
THEOREM HeapRefines == HeapSpec => ImplementsAbstractHeap
<1>1. HeapInit => AH!Init
  BY DEF HeapInit, AH!Init
<1>2. HeapInv /\ HeapInv' /\ [HeapNext]_heapVars => [AH!Next]_(AH!vars)
  BY StepRefines
<1> QED
  BY <1>1, <1>2, HeapInitInv, HeapNextInv, PTL DEF HeapSpec, ImplementsAbstractHeap, AH!Spec
=============================================================================
