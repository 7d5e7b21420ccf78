------------------------------- MODULE DcHeap -------------------------------
(***************************************************************************)
(* The segregated free-list heap the backend emits into every object that  *)
(* allocates: core/backend/lib/llvm_emit.dart, ADR-0058.                   *)
(*                                                                         *)
(* One region of RegionBytes bytes per size class.  A request takes the    *)
(* head of its class's free list, or else bumps the class's cursor, or     *)
(* else traps.  A freed block is pushed on the list of the class its       *)
(* ADDRESS names.  The list is intrusive: the link is the first word of    *)
(* the free block, over the words that were its header or its payload.     *)
(*                                                                         *)
(* Memory is untyped: a word holds a link, a header or whatever the        *)
(* program stored, and nothing in the word says which.                     *)
(***************************************************************************)
EXTENDS Integers, FiniteSets

CONSTANTS
  HeapBase,      \* the address of @dc_heap
  RegionBytes,
  ClassCount,
  ClassBytes,    \* @dc_heap_sizes: the block size of each class
  HeaderBytes,
  StaticClass,   \* payload of each Alloc in the program |-> its class
  RawClass,      \* size an AllocRaw accepts |-> the class it computes
  RawSizes,      \* the sizes the program asks AllocRaw for
  Words,         \* what a machine word can hold
  StoredWords    \* what the program stores in the first word of a block

Null    == 0
Classes == 0 .. (ClassCount - 1)

\* strong = 1 in the low half, weak = 0 in the high half of the first word.
FreshHeader == 1

HeapEnd == HeapBase + ClassCount * RegionBytes
Addr    == HeapBase .. (HeapEnd - 1)

ASSUME HeapAssumption ==
  /\ HeapBase \in Nat \ {0}
  /\ RegionBytes \in Nat \ {0}
  /\ ClassCount \in Nat \ {0}
  /\ HeaderBytes \in Nat
  /\ ClassBytes \in [Classes -> 1 .. RegionBytes]
  /\ Words \subseteq Nat
  /\ StoredWords \subseteq Words
  /\ Addr \cup {Null, FreshHeader} \subseteq Words

\* Both computations of a class find one whose blocks are large enough:
\* HeapGeometry has them, and GeometryServesHeap proves that they do.
ASSUME ClassAssumption ==
  /\ RawSizes \subseteq Nat
  /\ \A p \in DOMAIN StaticClass :
       /\ p \in Nat
       /\ StaticClass[p] \in Classes
       /\ p + HeaderBytes <= ClassBytes[StaticClass[p]]
  /\ \A n \in DOMAIN RawClass :
       /\ RawClass[n] \in Classes
       /\ n <= ClassBytes[RawClass[n]]

VARIABLES
  bump,       \* @dc_heap_bump: bytes handed out of each region so far
  freeHead,   \* @dc_heap_free: head of each class's free list
  live,       \* @dc_heap_live
  mem,        \* the word at each heap address
  trapped,    \* llvm.trap was called: the program has stopped
  carved,     \* history: the blocks each region was cut into so far
  held,       \* history: the blocks the program holds
  want        \* history: the bytes each held block was requested for

heapVars == <<bump, freeHead, live, mem, trapped, carved, held, want>>

RegionBase(c) == HeapBase + c * RegionBytes

\* The class index _emitFreeSlotPushback derives from a block's address.
ClassOf(a) == (a - HeapBase) \div RegionBytes

-----------------------------------------------------------------------------
HeapInit ==
  /\ bump     = [c \in Classes |-> 0]
  /\ freeHead = [c \in Classes |-> Null]
  /\ live     = 0
  /\ mem      = [a \in Addr |-> 0]
  /\ trapped  = FALSE
  /\ carved   = [c \in Classes |-> {}]
  /\ held     = {}
  /\ want     = [a \in Addr |-> 0]

\* Faulty variant: the popped block stays at the head of its list.
Pop_NoUnlink(c, a) ==
  /\ freeHead[c] # Null
  /\ a = freeHead[c]
  /\ UNCHANGED <<freeHead, bump, carved>>

\* Pop the free list if there is one, otherwise bump the region.
Pop(c, a) ==
  /\ freeHead[c] # Null
  /\ a = freeHead[c]
  /\ freeHead' = [freeHead EXCEPT ![c] = mem[a]]
  /\ UNCHANGED <<bump, carved>>

\* Faulty variant: the region's end is not checked.
Carve_NoLimit(c, a) ==
  /\ freeHead[c] = Null
  /\ a = RegionBase(c) + bump[c]
  /\ bump' = [bump EXCEPT ![c] = @ + ClassBytes[c]]
  /\ carved' = [carved EXCEPT ![c] = @ \cup {a}]
  /\ UNCHANGED freeHead

\* Faulty variant: the cursor moves by the smallest class's size.
Carve_FixedStride(c, a) ==
  /\ freeHead[c] = Null
  /\ bump[c] + ClassBytes[c] <= RegionBytes
  /\ a = RegionBase(c) + bump[c]
  /\ bump' = [bump EXCEPT ![c] = @ + ClassBytes[0]]
  /\ carved' = [carved EXCEPT ![c] = @ \cup {a}]
  /\ UNCHANGED freeHead

Carve(c, a) ==
  /\ freeHead[c] = Null
  /\ bump[c] + ClassBytes[c] <= RegionBytes
  /\ a = RegionBase(c) + bump[c]
  /\ bump' = [bump EXCEPT ![c] = @ + ClassBytes[c]]
  /\ carved' = [carved EXCEPT ![c] = @ \cup {a}]
  /\ UNCHANGED freeHead

HandOut(a, bytes) ==
  /\ live' = live + 1
  /\ held' = held \cup {a}
  /\ want' = [want EXCEPT ![a] = bytes]
  /\ UNCHANGED trapped

Exhausted(c) ==
  freeHead[c] = Null /\ bump[c] + ClassBytes[c] > RegionBytes

Trap ==
  /\ trapped' = TRUE
  /\ UNCHANGED <<bump, freeHead, live, mem, carved, held, want>>

Alloc(p, a) ==
  /\ ~trapped
  /\ Pop(StaticClass[p], a) \/ Carve(StaticClass[p], a)
  /\ mem' = [mem EXCEPT ![a] = FreshHeader]
  /\ HandOut(a, p + HeaderBytes)

AllocTrap(p) == ~trapped /\ Exhausted(StaticClass[p]) /\ Trap

\* A raw block has no header: its first word is left as it was.
AllocRaw(n, a) ==
  /\ ~trapped
  /\ n \in DOMAIN RawClass
  /\ Pop(RawClass[n], a) \/ Carve(RawClass[n], a)
  /\ HandOut(a, n)
  /\ UNCHANGED mem

AllocRawTrap(n) ==
  /\ ~trapped
  /\ n \in DOMAIN RawClass => Exhausted(RawClass[n])
  /\ Trap

\* Faulty variant: the head is updated before the link is read from it.
PushBack_HeadFirst(a) ==
  /\ mem' = [mem EXCEPT ![a] = a]
  /\ freeHead' = [freeHead EXCEPT ![ClassOf(a)] = a]
  /\ live' = live - 1
  /\ held' = held \ {a}
  /\ want' = [want EXCEPT ![a] = 0]
  /\ UNCHANGED <<bump, trapped, carved>>

\* Faulty variant: the list behind the freed block is dropped.
PushBack_NoLink(a) ==
  /\ mem' = [mem EXCEPT ![a] = Null]
  /\ freeHead' = [freeHead EXCEPT ![ClassOf(a)] = a]
  /\ live' = live - 1
  /\ held' = held \ {a}
  /\ want' = [want EXCEPT ![a] = 0]
  /\ UNCHANGED <<bump, trapped, carved>>

\* _emitFreeSlotPushback, shared by Release, DropWeak and FreeRaw.
PushBack(a) ==
  /\ mem' = [mem EXCEPT ![a] = freeHead[ClassOf(a)]]
  /\ freeHead' = [freeHead EXCEPT ![ClassOf(a)] = a]
  /\ live' = live - 1
  /\ held' = held \ {a}
  /\ want' = [want EXCEPT ![a] = 0]
  /\ UNCHANGED <<bump, trapped, carved>>

Free(a) == ~trapped /\ a \in held /\ PushBack(a)

WriteWord(a, w) ==
  /\ mem' = [mem EXCEPT ![a] = w]
  /\ UNCHANGED <<bump, freeHead, live, trapped, carved, held, want>>

\* The program stores over the first word of a block it holds: a header
\* update, or the payload of a raw block.
Store(a, w) == ~trapped /\ a \in held /\ WriteWord(a, w)

HeapNext ==
  \/ \E p \in DOMAIN StaticClass, a \in Addr : Alloc(p, a)
  \/ \E p \in DOMAIN StaticClass : AllocTrap(p)
  \/ \E n \in RawSizes, a \in Addr : AllocRaw(n, a)
  \/ \E n \in RawSizes : AllocRawTrap(n)
  \/ \E a \in held : Free(a)
  \/ \E a \in held, w \in StoredWords : Store(a, w)

HeapSpec == HeapInit /\ [][HeapNext]_heapVars

-----------------------------------------------------------------------------
(***************************************************************************)
(* Properties.                                                             *)
(***************************************************************************)

\* The program's own blocks, the free lists and the cursors stay in the heap.
HeapTypeOK ==
  /\ bump \in [Classes -> 0 .. RegionBytes]
  /\ freeHead \in [Classes -> Addr \cup {Null}]
  /\ live \in Nat
  /\ mem \in [Addr -> Words]
  /\ trapped \in BOOLEAN
  /\ carved \in [Classes -> SUBSET Addr]
  /\ held \in SUBSET Addr
  /\ want \in [Addr -> Nat]

\* What every request asked for is in bounds, and no two requests that are
\* both still held share a byte: no wrong class, no block of another class's
\* list, no cursor off its stride or past its region's end.
HeldApart ==
  /\ \A a \in held : a + want[a] <= HeapEnd
  /\ \A a, b \in held : a # b => a + want[a] <= b \/ b + want[b] <= a

\* The blocks reached in k links from the head of class c, Null included.
Chain(c) ==
  LET walk[k \in Nat] ==
        IF k = 0 THEN freeHead[c]
        ELSE IF walk[k - 1] \in Addr THEN mem[walk[k - 1]] ELSE Null
  IN  [k \in 0 .. Cardinality(carved[c]) |-> walk[k]]

\* The free list of a class is a simple chain that holds exactly the blocks
\* carved from that class's region and not held: no block is lost, listed
\* twice, listed under another class, or listed while the program holds it.
FreeListExact ==
  \A c \in Classes :
    LET free  == carved[c] \ held
        chain == Chain(c)
    IN  /\ {chain[k] : k \in 0 .. (Cardinality(free) - 1)} = free
        /\ chain[Cardinality(free)] = Null

(***************************************************************************)
(* The inductive invariant behind HeldApart.  FreeListExact needs the      *)
(* length of a chain; what makes a step safe is only that no link leads    *)
(* out of the free blocks, or to a block another link or the head leads to.*)
(***************************************************************************)
FreeBlocks(c) == carved[c] \ held

BlocksInRegion ==
  \A c \in Classes : \A a \in carved[c] :
    RegionBase(c) <= a /\ a + ClassBytes[c] <= RegionBase(c) + bump[c]

BlocksApart ==
  \A c \in Classes : \A a, b \in carved[c] :
    a # b => a + ClassBytes[c] <= b \/ b + ClassBytes[c] <= a

HeldCarved ==
  \A a \in held : \E c \in Classes : a \in carved[c] /\ want[a] <= ClassBytes[c]

HeadFree == \A c \in Classes : freeHead[c] \in FreeBlocks(c) \cup {Null}

LinksFree ==
  \A c \in Classes : \A a \in FreeBlocks(c) :
    mem[a] = Null \/ (mem[a] \in FreeBlocks(c) /\ mem[a] # freeHead[c])

LinksApart ==
  \A c \in Classes : \A a, b \in FreeBlocks(c) :
    mem[a] = mem[b] => a = b \/ mem[a] = Null

\* dc_heap_live, which every leak test reads, counts the held blocks.
LiveExact == live = Cardinality(held)

HeapInv ==
  /\ HeapTypeOK
  /\ BlocksInRegion
  /\ BlocksApart
  /\ HeldCarved
  /\ HeadFree
  /\ LinksFree
  /\ LinksApart
  /\ IsFiniteSet(held) /\ LiveExact

\* q is the order in which the blocks F, linked through the words m from
\* head h, will be popped: each of them once, the head first, each linked to
\* the next and the last to nothing.
PopOrder(F, h, m, q) ==
  LET n == Cardinality(F)
  IN  /\ \A b \in F : \E i \in 1 .. n : q[i] = b
      /\ \A i, j \in 1 .. n : q[i] = q[j] => i = j
      /\ h = IF n = 0 THEN Null ELSE q[1]
      /\ \A i \in 1 .. n : m[q[i]] = IF i = n THEN Null ELSE q[i + 1]

Listed(F, h, m) == \E q \in [1 .. Cardinality(F) -> F] : PopOrder(F, h, m, q)

\* The strengthening behind FreeListExact and GrowsOnlyWhenFull, which need
\* to know where a chain ends.
FreeListed == \A c \in Classes : Listed(FreeBlocks(c), freeHead[c], mem)

FreeListInv == HeapInv /\ FreeListed

\* A region's cursor moves only when the program holds every block carved
\* from it: a region's high-water mark is the peak demand for its class.
GrowsOnlyWhenFull ==
  [][\A c \in Classes : bump'[c] # bump[c] => carved[c] \subseteq held]_heapVars

\* A word of a held block changes only under the program's own Store.
\* This, and HeldApart, are what AbstractHeap promises.
AH == INSTANCE AbstractHeap WITH
        Lo <- HeapBase, Hi <- HeapEnd,
        block  <- [a \in held |-> want[a]],
        cell   <- [a \in held |-> mem[a]],
        failed <- trapped

ImplementsAbstractHeap == AH!Spec
=============================================================================
