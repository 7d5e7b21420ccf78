-------------------------- MODULE CountedHeapProofs --------------------------
(***************************************************************************)
(* What each reference-counting instruction does to the ledger of owners.  *)
(***************************************************************************)
EXTENDS CountedHeap, FiniteSetTheorems, Iteration, TLAPS

\* Nothing comes back to life from h to k, and what stays alive keeps its field.
Tame(h, k) ==
  \A p \in Objs : k[p].strong > 0 => h[p].strong > 0 /\ k[p].next = h[p].next

FieldsTo(h, o) == {p \in Objs : h[p].next = o}

AliveIn(h) == {p \in Objs : h[p].strong > 0}

\* What died on the way from h to k died in an order along the fields, as the
\* destructors run: not on a cycle.
Ordered(h, k) ==
  \A C \in SUBSET (AliveIn(h) \ AliveIn(k)) :
    C # {} => \E o \in C : \A p \in C : h[p].next # o

Shed(h, k) == Tame(h, k) /\ Ordered(h, k)

\* Ledgers of owners, and a ledger with one owner more of x; Null has none.
Ledgers == [Objs -> Nat]

Plus(S, x) == [o \in Objs |-> S[o] + (IF o = x THEN 1 ELSE 0)]

\* Heaps whose counts may be off, for recursions that do not ask.
LooseHeaps == [Objs -> [held : BOOLEAN, strong : Int, weak : Int, next : Ref]]

-----------------------------------------------------------------------------
\* Sets of objects are finite, and counted by a natural number.
LEMMA ObjsFinite ==
  ASSUME NEW T \in SUBSET Objs
  PROVE  IsFiniteSet(T) /\ Cardinality(T) \in Nat /\ Cardinality(T) <= Cardinality(Objs)
         /\ (Cardinality(T) = 0 <=> T = {})
BY CountedHeapAssumption, FS_Subset, FS_CardinalityType, FS_EmptySet

\* What is pointed to by a field, or owned, is alive.
LEMMA CountedAlive ==
  ASSUME NEW h, NEW S \in Ledgers, NEW W \in Ledgers, Counted(h, S, W),
         NEW o \in Objs
  PROVE  /\ \A p \in Objs : h[p].next = o => h[o].strong > 0
         /\ S[o] > 0 => h[o].strong > 0
         /\ W[o] > 0 => h[o].weak > 0
         /\ S[o] <= h[o].strong
         /\ h[o].strong > 0 => h[o].held
         /\ h[o].weak > 0 => h[o].held
<1>1. /\ FieldsTo(h, o) \subseteq Objs /\ Cardinality(FieldsTo(h, o)) \in Nat
      /\ Cardinality(FieldsTo(h, o)) = 0 <=> FieldsTo(h, o) = {}
  BY ObjsFinite DEF FieldsTo
<1>2. h[o].strong = S[o] + Cardinality(FieldsTo(h, o)) /\ h[o].weak = W[o]
  BY DEF Counted, FieldsTo
<1>3. \A p \in Objs : h[p].next = o => p \in FieldsTo(h, o)
  BY DEF FieldsTo
<1>4. (h[o].strong > 0 => h[o].held) /\ (h[o].weak > 0 => h[o].held)
  BY DEF Counted
<1>5. S[o] \in Nat /\ W[o] \in Nat
  BY DEF Ledgers
<1> QED
  BY <1>1, <1>2, <1>3, <1>4, <1>5

\* The fields that lead to o, after the field of x has changed from a to b.
LEMMA FieldMoved ==
  ASSUME NEW h, NEW k, NEW x \in Objs, NEW o \in Objs,
         \A p \in Objs \ {x} : k[p].next = h[p].next
  PROVE  Cardinality(FieldsTo(k, o)) + (IF h[x].next = o THEN 1 ELSE 0)
           = Cardinality(FieldsTo(h, o)) + (IF k[x].next = o THEN 1 ELSE 0)
<1> DEFINE B == FieldsTo(h, o) \ {x}
<1>1. FieldsTo(k, o) \ {x} = B
  BY DEF FieldsTo
<1>2. IsFiniteSet(B) /\ Cardinality(B) \in Nat /\ x \notin B
  BY ObjsFinite DEF FieldsTo
<1>3. FieldsTo(h, o) = IF h[x].next = o THEN B \cup {x} ELSE B
  BY DEF FieldsTo
<1>4. FieldsTo(k, o) = IF k[x].next = o THEN B \cup {x} ELSE B
  BY <1>1 DEF FieldsTo
<1>5. Cardinality(B \cup {x}) = Cardinality(B) + 1
  BY <1>2, FS_AddElement
<1> HIDE DEF B
<1> QED
  BY <1>2, <1>3, <1>4, <1>5

-----------------------------------------------------------------------------
\* Adding to ledgers.
LEMMA PlusLedger ==
  ASSUME NEW S \in Ledgers
  PROVE  /\ Plus(S, Null) = S
         /\ \A x \in Ref : Plus(S, x) \in Ledgers
         /\ \A x \in Ref : \A y \in Ref : Plus(Plus(S, x), y) = Plus(Plus(S, y), x)
         /\ \A x \in Objs : Plus(S, x)[x] > 0
BY CountedHeapAssumption DEF Ledgers, Plus

\* Changes of a heap one after the other.
LEMMA TameAgain ==
  ASSUME NEW h, NEW k, NEW l, Tame(h, k), Tame(k, l)
  PROVE  Tame(h, l)
BY DEF Tame

\* Nothing has died in no time.
LEMMA ShedNone ==
  ASSUME NEW h
  PROVE  Shed(h, h)
BY DEF Shed, Tame, Ordered

\* Deaths in order, and then others.
LEMMA ShedAgain ==
  ASSUME NEW h, NEW k, NEW l, Shed(h, k), Shed(k, l),
         NEW S \in Ledgers, NEW W \in Ledgers, Counted(k, S, W)
  PROVE  Shed(h, l)
<1>1. Tame(h, l)
  BY TameAgain DEF Shed
<1>2. ASSUME NEW C \in SUBSET (AliveIn(h) \ AliveIn(l)), C # {}
      PROVE  \E o \in C : \A p \in C : h[p].next # o
  <2>1. PICK early : early = C \ AliveIn(k)
    OBVIOUS
  <2>2. CASE early = {}
    <3>1. C \in SUBSET (AliveIn(k) \ AliveIn(l))
      BY <1>2, <2>1, <2>2 DEF AliveIn
    <3>2. PICK o \in C : \A p \in C : k[p].next # o
      BY <1>2, <3>1 DEF Shed, Ordered
    <3>3. \A p \in C : k[p].next = h[p].next
      BY <3>1 DEF Shed, Tame, AliveIn
    <3> QED
      BY <3>2, <3>3
  <2>3. CASE early # {}
    <3>1. early \in SUBSET (AliveIn(h) \ AliveIn(k))
      BY <1>2, <2>1
    <3>2. PICK o \in early : \A p \in early : h[p].next # o
      BY <2>3, <3>1 DEF Shed, Ordered
    <3>3. o \in Objs /\ ~ (k[o].strong > 0)
      BY <3>1, <3>2 DEF AliveIn
    <3>4. ASSUME NEW p \in C PROVE h[p].next # o
      <4>1. CASE p \in early
        BY <3>2, <4>1
      <4>2. CASE p \notin early
        <5>1. p \in Objs /\ k[p].next = h[p].next
          BY <1>2, <2>1, <4>2 DEF AliveIn, Shed, Tame
        <5>2. k[p].next # o
          BY <3>3, <5>1, CountedAlive
        <5> QED
          BY <5>1, <5>2
      <4> QED
        BY <4>1, <4>2
    <3> QED
      BY <2>1, <3>2, <3>4
  <2> QED
    BY <2>2, <2>3
<1> QED
  BY <1>1, <1>2 DEF Shed, Ordered

\* Deaths of objects no field leads to.
LEMMA ShedLoose ==
  ASSUME NEW h, NEW k, Tame(h, k),
         \A p \in AliveIn(h) \ AliveIn(k) : FieldsTo(h, p) = {}
  PROVE  Shed(h, k)
<1>1. ASSUME NEW C \in SUBSET (AliveIn(h) \ AliveIn(k)), C # {}
      PROVE  \E o \in C : \A p \in C : h[p].next # o
  <2>1. PICK o \in C : FieldsTo(h, o) = {}
    BY <1>1
  <2>2. \A p \in C : p \in Objs
    BY <1>1 DEF AliveIn
  <2> QED
    BY <2>1, <2>2 DEF FieldsTo
<1> QED
  BY <1>1 DEF Shed, Ordered

\* Retain: one owner more of an object that is alive.
LEMMA RetainCounted ==
  ASSUME NEW h, NEW S \in Ledgers, NEW W \in Ledgers, Counted(h, S, W),
         NEW x \in Ref, x # Null => h[x].strong > 0
  PROVE  Counted(Retain(h, x), Plus(S, x), W) /\ Tame(h, Retain(h, x))
         /\ \A p \in Objs : Retain(h, x)[p].next = h[p].next
                            /\ (Retain(h, x)[p].strong > 0 <=> h[p].strong > 0)
<1>1. CASE x = Null
  <2>1. Retain(h, x) = h /\ Plus(S, x) = S
    BY <1>1, PlusLedger DEF Retain
  <2> QED
    BY <2>1 DEF Tame
<1>2. CASE x # Null
  <2> DEFINE k == Retain(h, x)
             T == Plus(S, x)
  <2>1. x \in Objs /\ k = [h EXCEPT ![x].strong = h[x].strong + 1] /\ h \in CountedHeaps
    BY <1>2 DEF Retain, Ref, Counted
  <2>2. /\ k \in CountedHeaps
        /\ \A p \in Objs : k[p].next = h[p].next /\ k[p].weak = h[p].weak
        /\ \A p \in Objs : k[p].held = h[p].held
        /\ \A p \in Objs : k[p].strong = h[p].strong + (IF p = x THEN 1 ELSE 0)
    BY <2>1 DEF CountedHeaps
  <2>3. \A o \in Objs : FieldsTo(k, o) = FieldsTo(h, o)
    BY <2>2 DEF FieldsTo
  <2>4. \A o \in Objs : T[o] = S[o] + (IF o = x THEN 1 ELSE 0)
    BY DEF Plus
  <2> HIDE DEF k, T
  <2>5. ASSUME NEW o \in Objs
        PROVE  /\ k[o].strong = T[o] + Cardinality({p \in Objs : k[p].next = o})
               /\ k[o].weak = W[o]
               /\ k[o].strong = 0 => k[o].next = Null
               /\ k[o].held <=> k[o].strong > 0 \/ k[o].weak > 0
               /\ k[o].strong > 0 <=> h[o].strong > 0
    <3>1. /\ h[o].strong = S[o] + Cardinality(FieldsTo(h, o))
          /\ h[o].weak = W[o]
          /\ h[o].strong = 0 => h[o].next = Null
          /\ h[o].held <=> h[o].strong > 0 \/ h[o].weak > 0
      BY DEF Counted, FieldsTo
    <3>2. h[o].strong \in Nat /\ S[o] \in Nat /\ Cardinality(FieldsTo(h, o)) \in Nat
      BY <2>1, ObjsFinite DEF CountedHeaps, FieldsTo, Ledgers
    <3>3. k[o].strong = T[o] + Cardinality(FieldsTo(k, o))
      BY <2>2, <2>3, <2>4, <3>1, <3>2
    <3>4. k[o].strong > 0 <=> h[o].strong > 0
      BY <1>2, <2>2, <3>2
    <3>5. k[o].held <=> k[o].strong > 0 \/ k[o].weak > 0
      BY <2>2, <3>1, <3>4
    <3> QED
      BY <2>2, <3>1, <3>2, <3>3, <3>4, <3>5 DEF FieldsTo
  <2>6. Counted(k, T, W)
    BY <2>2, <2>5 DEF Counted
  <2>7. Tame(h, k)
    BY <2>2, <2>5 DEF Tame
  <2> QED
    BY <2>2, <2>5, <2>6, <2>7 DEF k, T
<1> QED
  BY <1>1, <1>2

-----------------------------------------------------------------------------
\* From h to k nothing but the block of x changes, and that is given back if it
\* is no longer counted.
KeepsBlocks(h, k, x) ==
  /\ k \in CountedHeaps
  /\ \A p \in Objs : /\ k[p].strong = h[p].strong /\ k[p].weak = h[p].weak
                     /\ k[p].next = h[p].next
                     /\ p # x => k[p].held = h[p].held
  /\ h[x].strong = 0 /\ h[x].weak = 0 => k[x].held = FALSE
  /\ h[x].strong > 0 \/ h[x].weak > 0 => k[x].held = h[x].held

\* A block no longer counted is given back; nothing else changes.
LEMMA FreeIfUnusedKeeps ==
  ASSUME NEW h \in CountedHeaps, NEW x \in Objs, h[x].strong = 0 => h[x].next = Null
  PROVE  KeepsBlocks(h, FreeIfUnused(h, x), x)
<1> DEFINE k == FreeIfUnused(h, x)
<1>1. /\ h[x] \in [held : BOOLEAN, strong : Nat, weak : Nat, next : Ref]
      /\ FreeBlock \in [held : BOOLEAN, strong : Nat, weak : Nat, next : Ref]
  BY DEF CountedHeaps, FreeBlock, Ref
<1>2. CASE h[x].strong = 0 /\ h[x].weak = 0
  <2>1. k = [h EXCEPT ![x] = FreeBlock]
    BY <1>2 DEF FreeIfUnused
  <2>2. k \in CountedHeaps /\ k[x] = FreeBlock /\ \A p \in Objs \ {x} : k[p] = h[p]
    BY <1>1, <2>1 DEF CountedHeaps
  <2>3. /\ FreeBlock.strong = 0 /\ FreeBlock.weak = 0 /\ FreeBlock.next = Null
        /\ FreeBlock.held = FALSE
    BY DEF FreeBlock
  <2> QED
    BY <1>2, <2>2, <2>3 DEF KeepsBlocks
<1>3. CASE ~ (h[x].strong = 0 /\ h[x].weak = 0)
  <2>1. k = h
    BY <1>3 DEF FreeIfUnused
  <2> QED
    BY <1>1, <1>3, <2>1 DEF KeepsBlocks
<1> QED
  BY <1>2, <1>3

\* One decrement: an owner less, and if the object dies the field's owner
\* passes to the reference the destructor releases next.
LEMMA DecrementCounted ==
  ASSUME NEW h, NEW S \in Ledgers, NEW W \in Ledgers, NEW x \in Objs,
         Counted(h, Plus(S, x), W)
  PROVE  /\ Decrement(h, x)[2] \in Ref
         /\ Counted(Decrement(h, x)[1], Plus(S, Decrement(h, x)[2]), W)
         /\ Tame(h, Decrement(h, x)[1])
         /\ Decrement(h, x)[2] # Null => h[x].strong > 0 /\ Decrement(h, x)[1][x].strong = 0
         /\ Shed(h, Decrement(h, x)[1])
<1> DEFINE k == Decrement(h, x)[1]
           y == Decrement(h, x)[2]
           less == [h EXCEPT ![x].strong = @ - 1, ![x].next = IF h[x].strong = 1 THEN Null ELSE @]
           P == Plus(S, x)
           T == Plus(S, y)
<1>1. h \in CountedHeaps /\ h[x].strong > 0 /\ h[x].strong \in Nat /\ h[x].next \in Ref
      /\ h[x].held
  <2>1. h \in CountedHeaps
    BY DEF Counted
  <2>2. P \in Ledgers /\ P[x] > 0
    BY PlusLedger DEF Ref
  <2> QED
    BY <2>1, <2>2, CountedAlive DEF CountedHeaps
<1>2. k = FreeIfUnused(less, x) /\ y = IF h[x].strong = 1 THEN h[x].next ELSE Null
  BY DEF Decrement
<1>3. y \in Ref
  BY <1>1, <1>2 DEF Ref
<1>4. /\ less \in CountedHeaps
      /\ less[x].strong = h[x].strong - 1
      /\ less[x].next = IF h[x].strong = 1 THEN Null ELSE h[x].next
      /\ less[x].weak = h[x].weak /\ less[x].held = h[x].held
      /\ \A p \in Objs \ {x} : less[p] = h[p]
  <2>1. /\ h[x] \in [held : BOOLEAN, strong : Nat, weak : Nat, next : Ref]
        /\ h[x].strong - 1 \in Nat /\ Null \in Ref
    BY <1>1 DEF CountedHeaps, Ref
  <2> DEFINE b == [h[x] EXCEPT !.strong = h[x].strong - 1,
                               !.next = IF h[x].strong = 1 THEN Null ELSE h[x].next]
  <2>2. /\ b \in [held : BOOLEAN, strong : Nat, weak : Nat, next : Ref]
        /\ b.strong = h[x].strong - 1 /\ b.weak = h[x].weak /\ b.held = h[x].held
        /\ b.next = IF h[x].strong = 1 THEN Null ELSE h[x].next
    BY <2>1
  <2>3. less = [h EXCEPT ![x] = b]
    BY <1>1 DEF CountedHeaps
  <2> HIDE DEF b, less
  <2>4. less \in CountedHeaps /\ less[x] = b /\ \A p \in Objs \ {x} : less[p] = h[p]
    BY <1>1, <2>2, <2>3 DEF CountedHeaps
  <2> QED
    BY <2>2, <2>4
<1>5. less[x].strong = 0 => less[x].next = Null
  BY <1>1, <1>4
<1>15. \A o \in Objs : /\ P[o] = S[o] + (IF o = x THEN 1 ELSE 0)
                       /\ T[o] = S[o] + (IF o = y THEN 1 ELSE 0)
                       /\ P[o] \in Nat /\ T[o] \in Nat /\ S[o] \in Nat
  BY DEF Plus, Ledgers
<1>16. Counted(h, P, W)
  OBVIOUS
<1> HIDE DEF less, k, y, P, T
<1>6. /\ k \in CountedHeaps
      /\ \A p \in Objs : /\ k[p].strong = less[p].strong /\ k[p].weak = less[p].weak
                         /\ k[p].next = less[p].next
                         /\ p # x => k[p].held = less[p].held
      /\ less[x].strong = 0 /\ less[x].weak = 0 => k[x].held = FALSE
      /\ less[x].strong > 0 \/ less[x].weak > 0 => k[x].held = less[x].held
  <2>1. KeepsBlocks(less, k, x)
    BY <1>2, <1>4, <1>5, FreeIfUnusedKeeps
  <2> QED
    BY <2>1 DEF KeepsBlocks
<1>7. \A p \in Objs \ {x} : k[p].strong = h[p].strong /\ k[p].weak = h[p].weak
                            /\ k[p].next = h[p].next /\ k[p].held = h[p].held
  BY <1>4, <1>6
<1>8. /\ k[x].strong = h[x].strong - 1 /\ k[x].weak = h[x].weak
      /\ k[x].next = IF h[x].strong = 1 THEN Null ELSE h[x].next
  BY <1>4, <1>6
<1>9. h[x].held /\ h[x].weak \in Nat
  BY <1>1 DEF CountedHeaps
<1>10. k[x].held <=> k[x].strong > 0 \/ k[x].weak > 0
  <2>1. CASE less[x].strong = 0 /\ less[x].weak = 0
    BY <1>6, <2>1
  <2>2. CASE ~ (less[x].strong = 0 /\ less[x].weak = 0)
    <3>1. less[x].strong > 0 \/ less[x].weak > 0
      BY <1>1, <1>4, <1>9, <2>2
    <3> QED
      BY <1>4, <1>6, <1>9, <3>1
  <2> QED
    BY <2>1, <2>2
<1>11. ASSUME NEW o \in Objs
       PROVE  k[o].strong = T[o] + Cardinality(FieldsTo(k, o))
  <2>1. Cardinality(FieldsTo(k, o)) + (IF h[x].next = o THEN 1 ELSE 0)
           = Cardinality(FieldsTo(h, o)) + (IF k[x].next = o THEN 1 ELSE 0)
    BY <1>7, FieldMoved
  <2>2. /\ Cardinality(FieldsTo(k, o)) \in Nat /\ Cardinality(FieldsTo(h, o)) \in Nat
        /\ P[o] \in Nat /\ T[o] \in Nat
    BY <1>15, ObjsFinite DEF FieldsTo
  <2>3. h[o].strong = P[o] + Cardinality(FieldsTo(h, o))
    BY <1>16 DEF Counted, FieldsTo
  <2>4. T[o] = P[o] - (IF o = x THEN 1 ELSE 0) + (IF o = y THEN 1 ELSE 0)
    BY <1>15
  <2>5. k[o].strong = h[o].strong - (IF o = x THEN 1 ELSE 0)
    BY <1>1, <1>7, <1>8, <2>2, <2>3
  <2>6. o # Null
    BY CountedHeapAssumption
  <2>7. CASE h[x].strong = 1
    <3>1. k[x].next = Null /\ y = h[x].next
      BY <1>2, <1>8, <2>7
    <3>2. Cardinality(FieldsTo(k, o)) + (IF o = y THEN 1 ELSE 0) = Cardinality(FieldsTo(h, o))
      BY <2>1, <2>2, <2>6, <3>1
    <3> QED
      BY <2>2, <2>3, <2>4, <2>5, <3>2
  <2>8. CASE h[x].strong # 1
    <3>1. k[x].next = h[x].next /\ y = Null
      BY <1>2, <1>8, <2>8
    <3>2. Cardinality(FieldsTo(k, o)) = Cardinality(FieldsTo(h, o))
      BY <2>1, <2>2, <3>1
    <3> QED
      BY <2>2, <2>3, <2>4, <2>5, <2>6, <3>1, <3>2
  <2> QED
    BY <2>7, <2>8
<1>12. Counted(k, T, W)
  <2>1. ASSUME NEW o \in Objs
        PROVE  /\ k[o].weak = W[o]
               /\ k[o].strong = 0 => k[o].next = Null
               /\ k[o].held <=> k[o].strong > 0 \/ k[o].weak > 0
    <3>1. CASE o = x
      <4>1. h[x].weak = W[x]
        BY <1>16 DEF Counted
      <4> QED
        BY <1>1, <1>8, <1>10, <3>1, <4>1
    <3>2. CASE o # x
      BY <1>7, <1>16, <3>2 DEF Counted
    <3> QED
      BY <3>1, <3>2
  <2> QED
    BY <1>6, <1>11, <2>1 DEF Counted, FieldsTo
<1>13. Tame(h, k)
  BY <1>1, <1>7, <1>8 DEF Tame
<1>14. y # Null => h[x].strong > 0 /\ k[x].strong = 0
  BY <1>1, <1>2, <1>8
<1>17. Shed(h, k)
  <2>1. ASSUME NEW p \in AliveIn(h) \ AliveIn(k) PROVE FieldsTo(h, p) = {}
    <3>1. p = x
      BY <1>7, <2>1 DEF AliveIn
    <3>2. ~ (h[x].strong - 1 > 0)
      BY <1>8, <2>1, <3>1 DEF AliveIn
    <3>3. h[x].strong = P[x] + Cardinality(FieldsTo(h, x))
      BY <1>16 DEF Counted, FieldsTo
    <3>4. P[x] \in Nat /\ P[x] > 0
      BY <1>15
    <3>5. Cardinality(FieldsTo(h, x)) \in Nat
          /\ (Cardinality(FieldsTo(h, x)) = 0 <=> FieldsTo(h, x) = {})
      BY ObjsFinite DEF FieldsTo
    <3> QED
      BY <1>1, <3>1, <3>2, <3>3, <3>4, <3>5
  <2> QED
    BY <1>13, <2>1, ShedLoose
<1> QED
  BY <1>3, <1>12, <1>13, <1>14, <1>17 DEF k, y, T

\* A step of a Release keeps to heaps, whatever the counts.
LEMMA DecrementLoose ==
  ASSUME NEW h \in LooseHeaps, NEW x \in Objs
  PROVE  Decrement(h, x) \in LooseHeaps \X Ref
<1> DEFINE less == [h EXCEPT ![x].strong = @ - 1, ![x].next = IF h[x].strong = 1 THEN Null ELSE @]
<1>1. less \in LooseHeaps /\ FreeBlock \in [held : BOOLEAN, strong : Int, weak : Int, next : Ref]
  <2>1. /\ h[x] \in [held : BOOLEAN, strong : Int, weak : Int, next : Ref]
        /\ h[x].strong - 1 \in Int /\ Null \in Ref
    BY DEF LooseHeaps, Ref
  <2> DEFINE b == [h[x] EXCEPT !.strong = h[x].strong - 1,
                               !.next = IF h[x].strong = 1 THEN Null ELSE h[x].next]
  <2>2. b \in [held : BOOLEAN, strong : Int, weak : Int, next : Ref]
    BY <2>1
  <2>3. less = [h EXCEPT ![x] = b]
    BY DEF LooseHeaps
  <2> HIDE DEF b, less
  <2>4. less \in LooseHeaps
    BY <2>2, <2>3 DEF LooseHeaps
  <2>5. FreeBlock \in [held : BOOLEAN, strong : Int, weak : Int, next : Ref]
    BY <2>1 DEF FreeBlock
  <2> QED
    BY <2>4, <2>5
<1> HIDE DEF less
<1>2. FreeIfUnused(less, x) \in LooseHeaps
  BY <1>1 DEF FreeIfUnused, LooseHeaps
<1>3. h[x].next \in Ref /\ Null \in Ref
  BY DEF LooseHeaps, Ref
<1>4. Decrement(h, x) = <<FreeIfUnused(less, x), IF h[x].strong = 1 THEN h[x].next ELSE Null>>
  BY DEF Decrement, less
<1> QED
  BY <1>2, <1>3, <1>4

\* The steps of a Release, one decrement each until there is nothing left to
\* release.
LEMMA ReleaseSteps ==
  ASSUME NEW h \in LooseHeaps, NEW x \in Ref
  PROVE  \E f : /\ f[0] = <<h, x>>
                /\ \A n \in 1 .. Cardinality(Objs) :
                     f[n] = IF f[n - 1][2] = Null THEN f[n - 1]
                            ELSE Decrement(f[n - 1][1], f[n - 1][2])
                /\ Release(h, x) = f[Cardinality(Objs)][1]
                /\ Release(h, x) \in LooseHeaps
<1> DEFINE N == Cardinality(Objs)
           S == LooseHeaps \X Ref
           g == [s \in S |-> IF s[2] = Null THEN s ELSE Decrement(s[1], s[2])]
           down == CHOOSE f : f = [n \in 0 .. N |->
                     IF n = 0 THEN <<h, x>>
                     ELSE IF f[n - 1][2] = Null THEN f[n - 1]
                          ELSE Decrement(f[n - 1][1], f[n - 1][2])]
<1>1. N \in Nat
  BY CountedHeapAssumption, FS_CardinalityType
<1>2. Release(h, x) = down[N][1]
  BY DEF Release
<1>3. g \in [S -> S] /\ <<h, x>> \in S
  <2>1. ASSUME NEW s \in S PROVE (IF s[2] = Null THEN s ELSE Decrement(s[1], s[2])) \in S
    BY DecrementLoose DEF Ref
  <2> QED
    BY <2>1
<1>4. \A s \in S : g[s] = IF s[2] = Null THEN s ELSE Decrement(s[1], s[2])
  OBVIOUS
<1> HIDE DEF N, S, g
<1>5. PICK f \in [0 .. N -> S] : f[0] = <<h, x>> /\ \A n \in 1 .. N : f[n] = g[f[n - 1]]
  <2>1. PICK s \in S : s = <<h, x>>
    BY <1>3
  <2>2. Iterates(N, S, s, g) # {}
    BY <1>1, <1>3, IteratesExist
  <2> QED
    BY <2>1, <2>2 DEF Iterates
<1>6. ASSUME NEW n \in 1 .. N
      PROVE  f[n] = IF f[n - 1][2] = Null THEN f[n - 1]
                    ELSE Decrement(f[n - 1][1], f[n - 1][2])
  <2>1. n - 1 \in 0 .. N
    BY <1>1
  <2>2. f[n - 1] \in S /\ f[n] = g[f[n - 1]]
    BY <1>5, <2>1
  <2> QED
    BY <1>4, <2>2
<1>7. f = [n \in 0 .. N |->
                     IF n = 0 THEN <<h, x>>
                     ELSE IF f[n - 1][2] = Null THEN f[n - 1]
                          ELSE Decrement(f[n - 1][1], f[n - 1][2])]
  <2>1. f = [n \in 0 .. N |-> f[n]]
    BY <1>5
  <2>2. ASSUME NEW n \in 0 .. N
        PROVE  f[n] = IF n = 0 THEN <<h, x>>
                      ELSE IF f[n - 1][2] = Null THEN f[n - 1]
                           ELSE Decrement(f[n - 1][1], f[n - 1][2])
    <3>1. n = 0 \/ n \in 1 .. N
      BY <1>1
    <3> QED
      BY <1>5, <1>6, <3>1
  <2> QED
    BY <2>1, <2>2
<1>8. down = [n \in 0 .. N |->
                     IF n = 0 THEN <<h, x>>
                     ELSE IF down[n - 1][2] = Null THEN down[n - 1]
                          ELSE Decrement(down[n - 1][1], down[n - 1][2])]
  BY <1>7
<1> HIDE DEF down
<1>9. down[0] = <<h, x>>
  BY <1>1, <1>8
<1>10. \A n \in 1 .. N : down[n] = IF down[n - 1][2] = Null THEN down[n - 1]
                                   ELSE Decrement(down[n - 1][1], down[n - 1][2])
  <2> SUFFICES ASSUME NEW n \in 1 .. N
               PROVE  down[n] = IF down[n - 1][2] = Null THEN down[n - 1]
                                ELSE Decrement(down[n - 1][1], down[n - 1][2])
    OBVIOUS
  <2>1. n \in 0 .. N /\ n # 0
    BY <1>1
  <2> QED
    BY <1>8, <2>1
<1>11. down[N] \in S
  <2> DEFINE Good == {n \in Nat : n <= N => down[n] \in S}
  <2>1. 0 \in Good
    BY <1>3, <1>9
  <2>2. ASSUME NEW n \in Nat, n \in Good PROVE n + 1 \in Good
    <3> SUFFICES ASSUME n + 1 <= N PROVE down[n + 1] \in S
      OBVIOUS
    <3>1. n + 1 \in 1 .. N /\ (n + 1) - 1 = n /\ down[n] \in S
      BY <1>1, <2>2
    <3>2. down[n + 1] = g[down[n]]
      BY <1>4, <1>10, <3>1
    <3> QED
      BY <1>3, <3>1, <3>2
  <2>3. \A n \in Nat : n \in Good
    <3> HIDE DEF Good
    <3> QED
      BY <2>1, <2>2, NatInduct
  <2> QED
    BY <1>1, <2>3
<1> QED
  BY <1>2, <1>9, <1>10, <1>11 DEF N, S

\* A Release by one of the owners: the counts are right for the others.
LEMMA ReleaseCounted ==
  ASSUME NEW h, NEW S \in Ledgers, NEW W \in Ledgers, NEW x \in Ref,
         Counted(h, Plus(S, x), W)
  PROVE  Counted(Release(h, x), S, W) /\ Tame(h, Release(h, x)) /\ Shed(h, Release(h, x))
<1> DEFINE N == Cardinality(Objs)
<1>1. N \in Nat
  BY CountedHeapAssumption, FS_CardinalityType
<1>2. h \in LooseHeaps
  BY DEF Counted, CountedHeaps, LooseHeaps
<1>3. PICK f : /\ f[0] = <<h, x>>
               /\ \A n \in 1 .. N :
                     f[n] = IF f[n - 1][2] = Null THEN f[n - 1]
                            ELSE Decrement(f[n - 1][1], f[n - 1][2])
               /\ Release(h, x) = f[N][1]
  BY <1>2, ReleaseSteps
<1> DEFINE Right(n) == /\ f[n][2] \in Ref
                       /\ Counted(f[n][1], Plus(S, f[n][2]), W)
                       /\ Shed(h, f[n][1])
                       /\ f[n][2] = Null \/ Cardinality(AliveIn(f[n][1])) + n <= N
           Good == {n \in Nat : n <= N => Right(n)}
<1> HIDE DEF N
<1>4. 0 \in Good
  <2>1. Cardinality(AliveIn(h)) + 0 <= N
    BY ObjsFinite DEF AliveIn, N
  <2> QED
    BY <1>3, <2>1, ShedNone
<1>5. ASSUME NEW n \in Nat, n \in Good PROVE n + 1 \in Good
  <2> SUFFICES ASSUME n + 1 <= N PROVE Right(n + 1)
    OBVIOUS
  <2>1. Right(n) /\ n + 1 \in 1 .. N /\ (n + 1) - 1 = n
    BY <1>1, <1>5
  <2>2. CASE f[n][2] = Null
    <3>1. f[n + 1] = f[n]
      BY <1>3, <2>1, <2>2
    <3> QED
      BY <2>1, <2>2, <3>1
  <2>3. CASE f[n][2] # Null
    <3>1. f[n + 1] = Decrement(f[n][1], f[n][2])
      BY <1>3, <2>1, <2>3
    <3>2. PICK k, z : k = f[n][1] /\ z = f[n][2]
      OBVIOUS
    <3>3. z \in Objs /\ Counted(k, Plus(S, z), W) /\ Shed(h, k)
      BY <2>1, <2>3, <3>2 DEF Ref
    <3>4. /\ Decrement(k, z)[2] \in Ref
          /\ Counted(Decrement(k, z)[1], Plus(S, Decrement(k, z)[2]), W)
          /\ Shed(k, Decrement(k, z)[1])
          /\ Decrement(k, z)[2] # Null => k[z].strong > 0 /\ Decrement(k, z)[1][z].strong = 0
      BY <3>3, DecrementCounted
    <3>5. PICK l, y : l = f[n + 1][1] /\ y = f[n + 1][2]
      OBVIOUS
    <3>6. /\ y \in Ref /\ Counted(l, Plus(S, y), W) /\ Shed(k, l)
          /\ y # Null => k[z].strong > 0 /\ l[z].strong = 0
      BY <3>1, <3>2, <3>4, <3>5
    <3>7. Shed(h, l)
      <4>1. PICK P : P = Plus(S, z)
        OBVIOUS
      <4>2. P \in Ledgers /\ Counted(k, P, W)
        BY <3>3, <4>1, PlusLedger DEF Ref
      <4> QED
        BY <3>3, <3>6, <4>2, ShedAgain
    <3>8. y = Null \/ Cardinality(AliveIn(l)) + (n + 1) <= N
      <4> SUFFICES ASSUME y # Null PROVE Cardinality(AliveIn(l)) + (n + 1) <= N
        OBVIOUS
      <4>1. z \in AliveIn(k) /\ AliveIn(l) \subseteq AliveIn(k) \ {z}
        BY <3>3, <3>6 DEF AliveIn, Tame, Shed
      <4>2. IsFiniteSet(AliveIn(k)) /\ Cardinality(AliveIn(k)) \in Nat
            /\ Cardinality(AliveIn(l)) \in Nat
        BY ObjsFinite DEF AliveIn
      <4>3. Cardinality(AliveIn(k) \ {z}) = Cardinality(AliveIn(k)) - 1
            /\ IsFiniteSet(AliveIn(k) \ {z})
        BY <4>1, <4>2, FS_RemoveElement
      <4>4. Cardinality(AliveIn(l)) <= Cardinality(AliveIn(k) \ {z})
        BY <4>1, <4>3, FS_Subset
      <4>5. Cardinality(AliveIn(k)) + n <= N
        BY <2>1, <2>3, <3>2
      <4> QED
        BY <1>1, <4>2, <4>3, <4>4, <4>5
    <3> QED
      BY <3>5, <3>6, <3>7, <3>8
  <2> QED
    BY <2>2, <2>3
<1>6. \A n \in Nat : n \in Good
  <2> HIDE DEF Good
  <2> QED
    BY <1>4, <1>5, NatInduct
<1>7. Right(N)
  BY <1>1, <1>6
<1>8. f[N][2] = Null
  <2> SUFFICES ASSUME f[N][2] # Null PROVE FALSE
    OBVIOUS
  <2>1. PICK k, z : k = f[N][1] /\ z = f[N][2]
    OBVIOUS
  <2>2. z \in Objs /\ Counted(k, Plus(S, z), W) /\ Cardinality(AliveIn(k)) + N <= N
    BY <1>7, <2>1 DEF Ref
  <2>3. AliveIn(k) = {}
    <3>1. AliveIn(k) \in SUBSET Objs
      BY DEF AliveIn
    <3>2. Cardinality(AliveIn(k)) \in Nat /\ (Cardinality(AliveIn(k)) = 0 => AliveIn(k) = {})
      BY <3>1, ObjsFinite
    <3> QED
      BY <1>1, <2>2, <3>2
  <2>4. Plus(S, z) \in Ledgers /\ Plus(S, z)[z] > 0
    BY <2>2, PlusLedger DEF Ref
  <2> DEFINE P == Plus(S, z)
  <2> HIDE DEF P
  <2>5. P \in Ledgers /\ P[z] > 0 /\ Counted(k, P, W)
    BY <2>2, <2>4 DEF P
  <2>6. k[z].strong > 0
    BY <2>2, <2>5, CountedAlive
  <2> QED
    BY <2>2, <2>3, <2>6 DEF AliveIn
<1> QED
  BY <1>3, <1>7, <1>8, PlusLedger DEF Shed

-----------------------------------------------------------------------------
\* MakeWeak: one weak reference more to an object that is alive.
LEMMA MakeWeakCounted ==
  ASSUME NEW h, NEW S \in Ledgers, NEW W \in Ledgers, Counted(h, S, W),
         NEW x \in Objs, h[x].strong > 0
  PROVE  Counted(MakeWeak(h, x), S, Plus(W, x)) /\ Tame(h, MakeWeak(h, x))
         /\ \A p \in Objs : MakeWeak(h, x)[p].next = h[p].next
                            /\ MakeWeak(h, x)[p].strong = h[p].strong
<1> DEFINE k == MakeWeak(h, x)
           V == Plus(W, x)
<1>1. h \in CountedHeaps
  BY DEF Counted
<1>2. /\ k \in CountedHeaps
      /\ \A p \in Objs : k[p].next = h[p].next /\ k[p].strong = h[p].strong /\ k[p].held = h[p].held
      /\ \A p \in Objs : k[p].weak = h[p].weak + (IF p = x THEN 1 ELSE 0)
  BY <1>1 DEF CountedHeaps, MakeWeak
<1>3. \A o \in Objs : FieldsTo(k, o) = FieldsTo(h, o)
  BY <1>2 DEF FieldsTo
<1>4. \A o \in Objs : V[o] = W[o] + (IF o = x THEN 1 ELSE 0)
  BY DEF Plus
<1> HIDE DEF k, V
<1>5. ASSUME NEW o \in Objs
      PROVE  /\ k[o].strong = S[o] + Cardinality({p \in Objs : k[p].next = o})
             /\ k[o].weak = V[o]
             /\ k[o].strong = 0 => k[o].next = Null
             /\ k[o].held <=> k[o].strong > 0 \/ k[o].weak > 0
  <2>1. /\ h[o].strong = S[o] + Cardinality(FieldsTo(h, o))
        /\ h[o].weak = W[o]
        /\ h[o].strong = 0 => h[o].next = Null
        /\ h[o].held <=> h[o].strong > 0 \/ h[o].weak > 0
    BY DEF Counted, FieldsTo
  <2>2. k[o].held <=> k[o].strong > 0 \/ k[o].weak > 0
    <3>1. CASE o = x
      BY <1>2, <2>1, <3>1
    <3>2. CASE o # x
      <4>1. k[o].weak = h[o].weak
        BY <1>1, <1>2, <3>2 DEF CountedHeaps
      <4> QED
        BY <1>2, <2>1, <4>1
    <3> QED
      BY <3>1, <3>2
  <2> QED
    BY ZenonT(40), <1>2, <1>3, <1>4, <2>1, <2>2 DEF FieldsTo
<1>6. Counted(k, S, V) /\ Tame(h, k)
  BY <1>2, <1>5 DEF Counted, Tame
<1> QED
  BY <1>2, <1>6 DEF k, V

\* DropWeak by the owner of a weak reference.
LEMMA DropWeakCounted ==
  ASSUME NEW h, NEW S \in Ledgers, NEW W \in Ledgers, NEW x \in Objs,
         Counted(h, S, Plus(W, x))
  PROVE  Counted(DropWeak(h, x), S, W) /\ Tame(h, DropWeak(h, x))
<1> DEFINE k == DropWeak(h, x)
           V == Plus(W, x)
           less == [h EXCEPT ![x].weak = @ - 1]
<1>1. h \in CountedHeaps
  BY DEF Counted
<1>2. \A o \in Objs : V[o] = W[o] + (IF o = x THEN 1 ELSE 0) /\ W[o] \in Nat
  BY DEF Plus, Ledgers
<1>3. ASSUME NEW o \in Objs
      PROVE  /\ h[o].strong = S[o] + Cardinality(FieldsTo(h, o))
             /\ h[o].weak = V[o]
             /\ h[o].strong = 0 => h[o].next = Null
             /\ h[o].held <=> h[o].strong > 0 \/ h[o].weak > 0
  BY DEF Counted, FieldsTo
<1>4. k = FreeIfUnused(less, x)
  BY DEF DropWeak
<1>5. /\ less \in CountedHeaps
      /\ \A p \in Objs : /\ less[p].next = h[p].next /\ less[p].strong = h[p].strong
                         /\ less[p].held = h[p].held
      /\ \A p \in Objs : less[p].weak = W[p]
  <2>1. h[x].weak - 1 = W[x] /\ h[x].weak - 1 \in Nat
    BY <1>2, <1>3
  <2> HIDE DEF V
  <2> QED
    BY <1>1, <1>2, <1>3, <2>1 DEF CountedHeaps
<1> HIDE DEF k, V, less
<1>6. KeepsBlocks(less, k, x)
  BY <1>3, <1>4, <1>5, FreeIfUnusedKeeps
<1>7. /\ k \in CountedHeaps
      /\ \A p \in Objs : k[p].next = h[p].next /\ k[p].strong = h[p].strong /\ k[p].weak = W[p]
  BY <1>5, <1>6 DEF KeepsBlocks
<1>8. \A o \in Objs : FieldsTo(k, o) = FieldsTo(h, o)
  BY <1>7 DEF FieldsTo
<1>9. ASSUME NEW o \in Objs
      PROVE  k[o].held <=> k[o].strong > 0 \/ k[o].weak > 0
  <2>1. k[o].strong \in Nat /\ k[o].weak \in Nat
    BY <1>7 DEF CountedHeaps
  <2>2. CASE o # x
    <3>1. k[o].held = h[o].held /\ h[o].weak = k[o].weak
      <4>1. V[o] = W[o]
        BY <1>2, <2>2
      <4> QED
        BY <1>3, <1>5, <1>6, <1>7, <2>2, <4>1 DEF KeepsBlocks
    <3> QED
      BY <1>3, <1>7, <3>1
  <2>3. CASE o = x /\ k[o].strong = 0 /\ k[o].weak = 0
    <3>1. less[x].strong = 0 /\ less[x].weak = 0
      BY <1>5, <1>7, <2>3
    <3>2. k[o].held = FALSE
      BY <1>6, <2>3, <3>1 DEF KeepsBlocks
    <3> QED
      BY <2>3, <3>2
  <2>4. CASE o = x /\ (k[o].strong > 0 \/ k[o].weak > 0)
    <3>1. less[x].strong > 0 \/ less[x].weak > 0
      BY <1>5, <1>7, <2>4
    <3>2. k[o].held = h[x].held
      BY <1>5, <1>6, <2>4, <3>1 DEF KeepsBlocks
    <3>3. h[x].weak > 0
      BY <1>2, <1>3
    <3> QED
      BY <1>3, <2>4, <3>2, <3>3
  <2> QED
    BY <2>1, <2>2, <2>3, <2>4
<1>10. Counted(k, S, W) /\ Tame(h, k)
  BY ZenonT(40), <1>3, <1>7, <1>8, <1>9 DEF Counted, Tame, FieldsTo
<1> QED
  BY <1>10 DEF k

\* Alloc: the owner of the value stored is the field now, and the new object
\* has one.
LEMMA AllocCounted ==
  ASSUME NEW h, NEW S \in Ledgers, NEW W \in Ledgers, NEW c \in Ref,
         Counted(h, Plus(S, c), W), NEW o \in Objs, ~h[o].held
  PROVE  Counted(Alloc(h, o, c), Plus(S, o), W)
         /\ \A p \in Objs \ {o} : Alloc(h, o, c)[p] = h[p]
<1> DEFINE k == Alloc(h, o, c)
           P == Plus(S, c)
           T == Plus(S, o)
<1>1. h \in CountedHeaps /\ Null \notin Objs
  BY CountedHeapAssumption DEF Counted
<1>2. ASSUME NEW p \in Objs
      PROVE  /\ P[p] = S[p] + (IF p = c THEN 1 ELSE 0)
             /\ T[p] = S[p] + (IF p = o THEN 1 ELSE 0)
             /\ S[p] \in Nat
  BY DEF Plus, Ledgers
<1>3. ASSUME NEW p \in Objs
      PROVE  /\ h[p].strong = P[p] + Cardinality(FieldsTo(h, p))
             /\ h[p].weak = W[p]
             /\ h[p].strong = 0 => h[p].next = Null
             /\ h[p].held <=> h[p].strong > 0 \/ h[p].weak > 0
             /\ h[p].strong \in Nat /\ h[p].weak \in Nat
             /\ Cardinality(FieldsTo(h, p)) \in Nat
  BY <1>1, ObjsFinite DEF Counted, FieldsTo, CountedHeaps
<1>4. /\ k \in CountedHeaps
      /\ k[o].held /\ k[o].strong = 1 /\ k[o].weak = 0 /\ k[o].next = c
      /\ \A p \in Objs \ {o} : k[p] = h[p]
  BY <1>1 DEF Alloc, CountedHeaps
<1> HIDE DEF k, P, T
<1>5. h[o].strong = 0 /\ h[o].weak = 0 /\ h[o].next = Null /\ P[o] = 0
      /\ Cardinality(FieldsTo(h, o)) = 0
  <2>1. h[o].strong = 0 /\ h[o].weak = 0
    BY <1>3
  <2>2. P[o] \in Nat
    BY <1>2
  <2> QED
    BY <1>3, <2>1, <2>2
<1>6. ASSUME NEW p \in Objs
      PROVE  k[p].strong = T[p] + Cardinality(FieldsTo(k, p))
  <2>1. Cardinality(FieldsTo(k, p)) + (IF h[o].next = p THEN 1 ELSE 0)
           = Cardinality(FieldsTo(h, p)) + (IF k[o].next = p THEN 1 ELSE 0)
    <3>1. \A q \in Objs \ {o} : k[q].next = h[q].next
      BY <1>4
    <3> QED
      BY <3>1, FieldMoved
  <2>2. Cardinality(FieldsTo(k, p)) \in Nat
    BY ObjsFinite DEF FieldsTo
  <2>3. Cardinality(FieldsTo(k, p)) = Cardinality(FieldsTo(h, p)) + (IF c = p THEN 1 ELSE 0)
    <3>1. h[o].next # p /\ k[o].next = c /\ Cardinality(FieldsTo(h, p)) \in Nat
      BY <1>1, <1>3, <1>4, <1>5
    <3> QED
      BY <2>1, <2>2, <3>1
  <2>4. CASE p = o
    BY <1>2, <1>3, <1>4, <1>5, <2>3, <2>4
  <2>5. CASE p # o
    <3>1. P[p] = S[p] + (IF c = p THEN 1 ELSE 0) /\ T[p] = S[p]
      BY <1>2, <2>5
    <3>2. h[p].strong = P[p] + Cardinality(FieldsTo(h, p)) /\ k[p].strong = h[p].strong
      BY <1>3, <1>4, <2>5
    <3>3. S[p] \in Nat /\ Cardinality(FieldsTo(h, p)) \in Nat
      BY <1>2, <1>3
    <3> QED
      BY <2>3, <3>1, <3>2, <3>3
  <2> QED
    BY <2>4, <2>5
<1>7. ASSUME NEW p \in Objs
      PROVE  /\ k[p].weak = W[p]
             /\ k[p].strong = 0 => k[p].next = Null
             /\ k[p].held <=> k[p].strong > 0 \/ k[p].weak > 0
  <2>1. CASE p = o
    BY <1>3, <1>4, <1>5, <2>1
  <2>2. CASE p # o
    BY <1>3, <1>4, <2>2
  <2> QED
    BY <2>1, <2>2
<1>8. Counted(k, T, W)
  BY <1>4, <1>6, <1>7 DEF Counted, FieldsTo
<1> QED
  BY <1>4, <1>8 DEF k, T

\* o.next = c
Store(h, o, c) == [h EXCEPT ![o].next = c]

\* A store to a field: the owner of the new value is the field now, and the
\* old value has the owner the field was.
LEMMA StoreCounted ==
  ASSUME NEW h, NEW S \in Ledgers, NEW W \in Ledgers, NEW c \in Ref,
         Counted(h, Plus(S, c), W), NEW o \in Objs, h[o].strong > 0,
         NEW k, k = Store(h, o, c)
  PROVE  /\ h[o].next \in Ref
         /\ Counted(k, Plus(S, h[o].next), W)
         /\ \A p \in Objs : k[p].strong = h[p].strong
         /\ \A p \in Objs \ {o} : k[p].next = h[p].next
<1> DEFINE a == h[o].next
           P == Plus(S, c)
           T == Plus(S, a)
<1>1. h \in CountedHeaps /\ Null \notin Objs
  BY CountedHeapAssumption DEF Counted
<1>2. a \in Ref
  BY <1>1 DEF CountedHeaps
<1>3. ASSUME NEW p \in Objs
      PROVE  /\ P[p] = S[p] + (IF p = c THEN 1 ELSE 0)
             /\ T[p] = S[p] + (IF p = a THEN 1 ELSE 0)
             /\ S[p] \in Nat
  BY DEF Plus, Ledgers
<1>4. ASSUME NEW p \in Objs
      PROVE  /\ h[p].strong = P[p] + Cardinality(FieldsTo(h, p))
             /\ h[p].weak = W[p]
             /\ h[p].strong = 0 => h[p].next = Null
             /\ h[p].held <=> h[p].strong > 0 \/ h[p].weak > 0
             /\ Cardinality(FieldsTo(h, p)) \in Nat
  BY ObjsFinite DEF Counted, FieldsTo
<1>5. /\ k \in CountedHeaps /\ k[o].next = c
      /\ \A p \in Objs : /\ k[p].strong = h[p].strong /\ k[p].weak = h[p].weak
                         /\ k[p].held = h[p].held
      /\ \A p \in Objs \ {o} : k[p].next = h[p].next
  BY <1>1 DEF CountedHeaps, Store
<1> HIDE DEF P, T
<1>6. ASSUME NEW p \in Objs
      PROVE  k[p].strong = T[p] + Cardinality(FieldsTo(k, p))
  <2>1. Cardinality(FieldsTo(k, p)) + (IF h[o].next = p THEN 1 ELSE 0)
           = Cardinality(FieldsTo(h, p)) + (IF k[o].next = p THEN 1 ELSE 0)
    <3>1. \A q \in Objs \ {o} : k[q].next = h[q].next
      BY <1>5
    <3>2. PICK l : l = k
      OBVIOUS
    <3>3. \A q \in Objs \ {o} : l[q].next = h[q].next
      BY <3>1, <3>2
    <3>4. Cardinality(FieldsTo(l, p)) + (IF h[o].next = p THEN 1 ELSE 0)
            = Cardinality(FieldsTo(h, p)) + (IF l[o].next = p THEN 1 ELSE 0)
      BY <3>3, FieldMoved
    <3> QED
      BY <3>2, <3>4
  <2>2. Cardinality(FieldsTo(k, p)) \in Nat
    BY ObjsFinite DEF FieldsTo
  <2>3. h[o].next = a /\ k[o].next = c
    BY <1>5 DEF a
  <2>4. P[p] = S[p] + (IF c = p THEN 1 ELSE 0) /\ T[p] = S[p] + (IF a = p THEN 1 ELSE 0)
    BY <1>3
  <2>5. h[p].strong = P[p] + Cardinality(FieldsTo(h, p)) /\ k[p].strong = h[p].strong
        /\ Cardinality(FieldsTo(h, p)) \in Nat /\ S[p] \in Nat
    BY <1>3, <1>4, <1>5
  <2> QED
    BY <2>1, <2>2, <2>3, <2>4, <2>5
<1>7. ASSUME NEW p \in Objs
      PROVE  /\ k[p].weak = W[p]
             /\ k[p].strong = 0 => k[p].next = Null
             /\ k[p].held <=> k[p].strong > 0 \/ k[p].weak > 0
  <2>1. CASE p = o
    BY <1>4, <1>5, <2>1
  <2>2. CASE p # o
    BY <1>4, <1>5, <2>2
  <2> QED
    BY <2>1, <2>2
<1>8. Counted(k, T, W)
  BY <1>5, <1>6, <1>7 DEF Counted, FieldsTo
<1> QED
  BY <1>2, <1>5, <1>8 DEF T

-----------------------------------------------------------------------------
\* What hangs on an object: the object, and where the fields lead from there.
LEMMA BehindSteps ==
  ASSUME NEW h, NEW v \in Ref
  PROVE  /\ Behind(h, v) \subseteq Objs
         /\ v # Null => v \in Behind(h, v)
         /\ \A q \in Behind(h, v) : h[q].next \in Ref => h[q].next \in Behind(h, v) \cup {Null}
<1>1. Behind(h, v) \subseteq Objs /\ (v # Null => v \in Behind(h, v))
  BY DEF Behind, Ref
<1>2. ASSUME NEW q \in Behind(h, v), h[q].next \in Objs PROVE h[q].next \in Behind(h, v)
  <2>1. ASSUME NEW C \in SUBSET Objs, v \in C, \A p \in C : h[p].next \in C \cup {Null}
        PROVE  h[q].next \in C
    <3>1. q \in C
      BY <2>1 DEF Behind
    <3> QED
      BY <1>2, <2>1, <3>1, CountedHeapAssumption
  <2>2. v # Null
    BY DEF Behind
  <2> QED
    BY <1>2, <2>1, <2>2 DEF Behind
<1> QED
  BY <1>1, <1>2 DEF Ref

\* Everything that hangs on an object that is alive is alive.
LEMMA BehindAlive ==
  ASSUME NEW h, NEW S \in Ledgers, NEW W \in Ledgers, Counted(h, S, W),
         NEW v \in Ref, v # Null => h[v].strong > 0
  PROVE  \A p \in Behind(h, v) : p \in Objs /\ h[p].strong > 0
<1>1. \A q \in AliveIn(h) : h[q].next \in AliveIn(h) \cup {Null}
  <2> SUFFICES ASSUME NEW q \in AliveIn(h), h[q].next # Null PROVE h[q].next \in AliveIn(h)
    OBVIOUS
  <2>1. q \in Objs /\ h[q].next \in Objs
    BY DEF AliveIn, Counted, CountedHeaps, Ref
  <2> QED
    BY <2>1, CountedAlive DEF AliveIn
<1>2. AliveIn(h) \in SUBSET Objs /\ (v # Null => v \in AliveIn(h))
  BY DEF AliveIn, Ref
<1> QED
  BY <1>1, <1>2 DEF Behind, AliveIn

\* What hung on v still does, when the fields of what stays alive are the same,
\* or led into D, a set that follows the fields and has no part in it.
LEMMA BehindSteady ==
  ASSUME NEW h, NEW S \in Ledgers, NEW W \in Ledgers, Counted(h, S, W),
         NEW k, NEW T \in Ledgers, NEW V \in Ledgers, Counted(k, T, V),
         NEW v \in Ref, v # Null => h[v].strong > 0 /\ k[v].strong > 0,
         NEW D \in SUBSET Objs, \A q \in D : h[q].next \in D \cup {Null},
         \A q \in Objs : h[q].strong > 0 /\ k[q].strong > 0 =>
           k[q].next = h[q].next \/ h[q].next \in D \cup {Null}
  PROVE  \A p \in Behind(h, v) : p \notin D => p \in Behind(k, v)
<1> SUFFICES ASSUME NEW p \in Behind(h, v), p \notin D PROVE p \in Behind(k, v)
  OBVIOUS
<1>1. v # Null /\ p \in Objs /\ v \in Objs
  BY DEF Behind, Ref
<1>2. ASSUME NEW C \in SUBSET Objs, v \in C, \A q \in C : k[q].next \in C \cup {Null}
      PROVE  p \in C
  <2> DEFINE B == {q \in C : h[q].strong > 0 /\ k[q].strong > 0} \cup D
  <2>1. B \in SUBSET Objs /\ v \in B
    BY <1>1, <1>2
  <2>2. ASSUME NEW q \in B PROVE h[q].next \in B \cup {Null}
    <3>1. CASE q \in D
      BY <3>1
    <3>2. CASE q \notin D
      <4>1. q \in C /\ h[q].strong > 0 /\ k[q].strong > 0 /\ q \in Objs
        BY <3>2
      <4>2. CASE h[q].next \in D \cup {Null}
        BY <4>2
      <4>3. CASE h[q].next \notin D \cup {Null}
        <5>1. k[q].next = h[q].next
          BY <4>1, <4>3
        <5>2. h[q].next \in C /\ h[q].next \in Objs
          BY <1>2, <4>1, <4>3, <5>1
        <5>3. h[h[q].next].strong > 0 /\ k[h[q].next].strong > 0
          <6>1. PICK r \in Objs : r = h[q].next /\ r = k[q].next
            BY <5>1, <5>2
          <6>2. h[r].strong > 0
            BY <4>1, <6>1, CountedAlive
          <6>3. k[r].strong > 0
            BY <4>1, <6>1, CountedAlive
          <6> QED
            BY <6>1, <6>2, <6>3
        <5> QED
          BY <5>2, <5>3
      <4> QED
        BY <4>2, <4>3
    <3> QED
      BY <3>1, <3>2
  <2> HIDE DEF B
  <2>3. p \in B
    BY <2>1, <2>2 DEF Behind
  <2> QED
    BY <2>3 DEF B
<1> QED
  BY <1>1, <1>2 DEF Behind
=============================================================================
