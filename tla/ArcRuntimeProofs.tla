-------------------------- MODULE ArcRuntimeProofs --------------------------
(***************************************************************************)
(* Counts are exact, proved for every heap, every program and every depth  *)
(* of a cascade; and with them, that nothing is used after it was freed,   *)
(* destroyed twice, brought back or, without cycles, kept.                 *)
(***************************************************************************)
EXTENDS ArcRuntime, DcHeapProofs, SequenceTheorems

\* The strong references to a.
Refs(a) == roots[a] + Cardinality(SlotsTo(a))

MaxRefs == MaxRoots + MaxObjects * FieldCount

BeingDestroyed(a) == \E i \in DOMAIN dying : dying[i] = a

\* Only what is held is referred to.
RefsHeld ==
  /\ \A a \in Addr : a \notin held => roots[a] = 0 /\ weakRoots[a] = 0
  /\ \A o \in held : \A f \in owns[o] : fld[o][f] \in held \cup {Null}

\* The header is the two numbers of references, and neither can wrap.
HeadersExact ==
  \A a \in held :
    /\ mem[a] = Refs(a) + CountMod * weakRoots[a]
    /\ Refs(a) <= MaxRefs /\ weakRoots[a] <= MaxWeaks

\* What no one refers to is being destroyed, or is kept for a weak reference
\* and owns nothing any more.
DeadKept ==
  \A a \in held : Refs(a) = 0 => BeingDestroyed(a) \/ (owns[a] = {} /\ weakRoots[a] > 0)

DyingOK ==
  /\ \A i \in DOMAIN dying : dying[i] \in held /\ Refs(dying[i]) = 0
  /\ \A i, j \in DOMAIN dying : dying[i] = dying[j] => i = j
  /\ trapped => dying = <<>>

ArcInv ==
  /\ HeapInv /\ ArcTypeOK
  /\ Cardinality(held) <= MaxObjects
  /\ RefsHeld
  /\ HeadersExact
  /\ \A a \in held : ~cls[a] => owns[a] = {}
  /\ DeadKept
  /\ DyingOK

-----------------------------------------------------------------------------
(***************************************************************************)
(* Numbers and sequences.                                                  *)
(***************************************************************************)

\* The bounds on references, objects and fields keep both counts below the
\* modulus.
LEMMA BoundsFit ==
  /\ CountMod \in Nat /\ FieldCount \in Nat /\ MaxRoots \in Nat /\ MaxWeaks \in Nat
  /\ MaxObjects * FieldCount \in Nat /\ MaxRefs \in Nat
  /\ MaxRefs + 1 < CountMod /\ MaxWeaks + 1 < CountMod /\ 1 <= MaxRefs
<1>1. MaxObjects * FieldCount \in Nat
  BY ArcAssumption
<1> QED
  BY <1>1, ArcAssumption DEF MaxRefs

\* Two counts below the modulus are read back from the header they make.
LEMMA HeaderReads ==
  ASSUME NEW s \in Nat, NEW w \in Nat, s < CountMod, w < CountMod
  PROVE  /\ Header(s, w) = s + CountMod * w
         /\ Header(s, w) \in StoredWords
         /\ (s + CountMod * w) % CountMod = s
         /\ (s + CountMod * w) \div CountMod = w
<1>1. CountMod \in Nat \ {0}
  BY BoundsFit
<1>2. s % CountMod = s /\ w % CountMod = w
  BY <1>1
<1>3. CountMod * w \in Nat /\ CountMod * w <= CountMod * (CountMod - 1)
  BY <1>1
<1>4. CountMod * (CountMod - 1) = CountMod * CountMod - CountMod
  BY <1>1
<1>5. Header(s, w) = s + CountMod * w
  BY <1>2 DEF Header
<1>6. s + CountMod * w \in 0 .. (CountMod * CountMod - 1)
  BY <1>1, <1>3, <1>4
<1>7. (s + CountMod * w) % CountMod = s /\ (s + CountMod * w) \div CountMod = w
  BY <1>1
<1> QED
  BY <1>5, <1>6, <1>7, ArcAssumption DEF Headers

\* No set of fields of held objects is larger than the bound allows.
LEMMA SlotSetsSmall ==
  ASSUME NEW H, IsFiniteSet(H), Cardinality(H) <= MaxObjects,
         NEW S \in SUBSET (H \X Fields)
  PROVE  /\ IsFiniteSet(S) /\ Cardinality(S) \in Nat
         /\ Cardinality(S) <= MaxObjects * FieldCount
<1>1. FieldCount \in Nat /\ MaxObjects \in Nat
  BY ArcAssumption
<1>2. IsFiniteSet(Fields) /\ Cardinality(Fields) = FieldCount
  BY <1>1, FS_Interval DEF Fields
<1>3. IsFiniteSet(H \X Fields) /\ Cardinality(H \X Fields) = Cardinality(H) * FieldCount
  BY <1>2, FS_Product
<1>4. IsFiniteSet(S) /\ Cardinality(S) <= Cardinality(H \X Fields)
  BY <1>3, FS_Subset
<1>5. Cardinality(H) \in Nat /\ Cardinality(S) \in Nat
  BY <1>4, FS_CardinalityType
<1>6. Cardinality(H) * FieldCount <= MaxObjects * FieldCount
  BY <1>1, <1>5
<1>7. Cardinality(H) * FieldCount \in Nat /\ MaxObjects * FieldCount \in Nat
  BY <1>1, <1>5
<1> QED
  BY <1>3, <1>4, <1>5, <1>6, <1>7

\* Starting one more destruction, and ending the innermost.
LEMMA PushDying ==
  ASSUME NEW d \in Seq(Addr), NEW a \in Addr
  PROVE  LET e == <<a>> \o d IN
         /\ e \in Seq(Addr) /\ e # <<>>
         /\ \A i \in DOMAIN e : (i = 1 /\ e[i] = a)
                               \/ (i # 1 /\ i - 1 \in DOMAIN d /\ e[i] = d[i - 1])
         /\ \A i \in DOMAIN d : i + 1 \in DOMAIN e /\ e[i + 1] = d[i]
         /\ 1 \in DOMAIN e /\ e[1] = a
<1> DEFINE e == <<a>> \o d
<1>1. <<a>> \in Seq(Addr) /\ Len(<<a>>) = 1 /\ <<a>>[1] = a
  OBVIOUS
<1>2. /\ e \in Seq(Addr) /\ Len(e) = 1 + Len(d)
      /\ \A i \in 1 .. 1 + Len(d) : e[i] = IF i <= 1 THEN <<a>>[i] ELSE d[i - 1]
  BY <1>1, ConcatProperties
<1>3. /\ Len(d) \in Nat /\ DOMAIN d = 1 .. Len(d)
      /\ DOMAIN e = 1 .. Len(e)
  BY <1>2, LenProperties
<1>4. e # <<>>
  BY <1>2, <1>3, EmptySeq
<1> HIDE DEF e
<1>5. \A i \in DOMAIN e : (i = 1 /\ e[i] = a)
                          \/ (i # 1 /\ i - 1 \in DOMAIN d /\ e[i] = d[i - 1])
  BY <1>1, <1>2, <1>3
<1>6. \A i \in DOMAIN d : i + 1 \in DOMAIN e /\ e[i + 1] = d[i]
  BY <1>1, <1>2, <1>3
<1>7. 1 \in DOMAIN e /\ e[1] = a
  BY <1>1, <1>2, <1>3
<1> QED
  BY <1>2, <1>4, <1>5, <1>6, <1>7 DEF e

\* The innermost destruction ends, and the others are left as they were.
LEMMA PopDying ==
  ASSUME NEW d \in Seq(Addr), d # <<>>
  PROVE  /\ Head(d) \in Addr /\ 1 \in DOMAIN d /\ Head(d) = d[1]
         /\ Tail(d) \in Seq(Addr)
         /\ \A i \in DOMAIN Tail(d) : i + 1 \in DOMAIN d /\ Tail(d)[i] = d[i + 1] /\ i + 1 # 1
         /\ \A i \in DOMAIN d : i # 1 => i - 1 \in DOMAIN Tail(d) /\ Tail(d)[i - 1] = d[i]
<1>1. /\ Len(d) \in Nat \ {0} /\ DOMAIN d = 1 .. Len(d)
  BY EmptySeq, LenProperties
<1>2. /\ Head(d) \in Addr /\ Tail(d) \in Seq(Addr) /\ Head(d) = d[1]
      /\ Len(Tail(d)) = Len(d) - 1
      /\ \A i \in 1 .. Len(Tail(d)) : Tail(d)[i] = d[i + 1]
  BY <1>1, HeadTailProperties
<1>3. DOMAIN Tail(d) = 1 .. (Len(d) - 1)
  BY <1>2, LenProperties
<1> QED
  BY <1>1, <1>2, <1>3

-----------------------------------------------------------------------------
(***************************************************************************)
(* What the invariant says of a count when an instruction reads it.        *)
(***************************************************************************)

\* The references to a block can be counted, and lead to a held one.
LEMMA RefsCount ==
  ASSUME ArcInv, NEW a \in Addr
  PROVE  /\ IsFiniteSet(SlotsTo(a)) /\ Cardinality(SlotsTo(a)) \in Nat
         /\ Cardinality(SlotsTo(a)) <= MaxObjects * FieldCount
         /\ roots[a] \in Nat /\ weakRoots[a] \in Nat /\ Refs(a) \in Nat
         /\ roots[a] > 0 \/ weakRoots[a] > 0 => a \in held
<1>1. IsFiniteSet(held) /\ Cardinality(held) <= MaxObjects
  BY DEF ArcInv, HeapInv
<1>2. SlotsTo(a) \in SUBSET (held \X Fields)
  BY DEF SlotsTo
<1>3. /\ IsFiniteSet(SlotsTo(a)) /\ Cardinality(SlotsTo(a)) \in Nat
      /\ Cardinality(SlotsTo(a)) <= MaxObjects * FieldCount
  BY <1>1, <1>2, SlotSetsSmall
<1>4. roots[a] \in Nat /\ weakRoots[a] \in Nat /\ Refs(a) \in Nat
  BY <1>3 DEF ArcInv, ArcTypeOK, Refs
<1>5. roots[a] > 0 \/ weakRoots[a] > 0 => a \in held
  BY <1>4 DEF ArcInv, RefsHeld
<1> QED
  BY <1>3, <1>4, <1>5

\* Held blocks have addresses, and no address is null.
LEMMA HeldAddresses ==
  ASSUME ArcInv
  PROVE  held \subseteq Addr /\ Null \notin Addr
  BY HeapAssumption DEF ArcInv, HeapInv, HeapTypeOK, Null, Addr

\* A field that owns a reference leads to a held object that it counts for.
LEMMA FieldCounts ==
  ASSUME ArcInv, NEW o \in held, NEW f \in owns[o]
  PROVE  /\ o \in Addr /\ f \in Fields
         /\ fld[o][f] # Null => /\ fld[o][f] \in held /\ fld[o][f] \in Addr
                               /\ <<o, f>> \in SlotsTo(fld[o][f])
                               /\ Refs(fld[o][f]) > 0
<1>1. o \in Addr /\ f \in Fields /\ fld[o][f] \in held \cup {Null}
  BY HeldAddresses DEF ArcInv, ArcTypeOK, RefsHeld
<1>2. ASSUME fld[o][f] # Null
      PROVE  /\ fld[o][f] \in held /\ fld[o][f] \in Addr
             /\ <<o, f>> \in SlotsTo(fld[o][f])
             /\ Refs(fld[o][f]) > 0
  <2>1. fld[o][f] \in held /\ fld[o][f] \in Addr
    BY <1>1, <1>2, HeldAddresses
  <2>2. <<o, f>> \in SlotsTo(fld[o][f])
    BY <1>1, <2>1 DEF SlotsTo
  <2> DEFINE v == fld[o][f]
  <2>3. IsFiniteSet(SlotsTo(v)) /\ Cardinality(SlotsTo(v)) \in Nat /\ roots[v] \in Nat
    BY <2>1, RefsCount
  <2>4. Cardinality(SlotsTo(v)) # 0
    BY <2>2, <2>3, FS_EmptySet
  <2> QED
    BY <2>1, <2>2, <2>3, <2>4 DEF Refs
<1> QED
  BY <1>1, <1>2

\* A count read from a held block is the number of references.
LEMMA CountsRead ==
  ASSUME ArcInv, NEW a \in held
  PROVE  /\ Strong(a) = Refs(a) /\ Weak(a) = weakRoots[a]
         /\ Refs(a) \in Nat /\ Refs(a) <= MaxRefs
         /\ weakRoots[a] \in Nat /\ weakRoots[a] <= MaxWeaks
<1>1. a \in Addr /\ Refs(a) \in Nat /\ weakRoots[a] \in Nat
  BY HeldAddresses, RefsCount
<1>2. /\ mem[a] = Refs(a) + CountMod * weakRoots[a]
      /\ Refs(a) <= MaxRefs /\ weakRoots[a] <= MaxWeaks
  BY DEF ArcInv, HeadersExact
<1>3. Refs(a) < CountMod /\ weakRoots[a] < CountMod
  BY <1>1, <1>2, BoundsFit
<1>4. /\ (Refs(a) + CountMod * weakRoots[a]) % CountMod = Refs(a)
      /\ (Refs(a) + CountMod * weakRoots[a]) \div CountMod = weakRoots[a]
  BY <1>1, <1>3, HeaderReads
<1> QED
  BY <1>1, <1>2, <1>4 DEF Strong, Weak

\* An instruction that changes the counts of one object, and with them the
\* program's references to it, by the same amount: everything but the fate of
\* the dead is kept.
LEMMA CountStep ==
  ASSUME ArcInv, ~trapped, NEW a \in held, NEW r \in Nat, NEW w \in Nat,
         r + Cardinality(SlotsTo(a)) <= MaxRefs, w <= MaxWeaks,
         WriteWord(a, Header(r + Cardinality(SlotsTo(a)), w)),
         roots' = [roots EXCEPT ![a] = r],
         weakRoots' = [weakRoots EXCEPT ![a] = w],
         UNCHANGED <<cls, fld, owns>>,
         dying' \in Seq(Addr)
  PROVE  /\ HeapNext
         /\ HeapInv' /\ ArcTypeOK' /\ Cardinality(held') <= MaxObjects
         /\ RefsHeld' /\ HeadersExact'
         /\ (\A b \in held : ~cls[b] => owns[b] = {})'
         /\ held' = held /\ trapped' = trapped
         /\ \A b \in Addr : Refs(b)' = IF b = a THEN r + Cardinality(SlotsTo(a)) ELSE Refs(b)
<1> DEFINE s == r + Cardinality(SlotsTo(a))
<1>1. /\ a \in Addr /\ held \subseteq Addr /\ Cardinality(SlotsTo(a)) \in Nat
      /\ roots \in [Addr -> Nat] /\ weakRoots \in [Addr -> Nat]
  BY HeldAddresses, RefsCount DEF ArcInv, ArcTypeOK
<1>2. s \in Nat /\ s <= MaxRefs /\ s < CountMod /\ w < CountMod
  BY <1>1, BoundsFit
<1>3. Header(s, w) \in StoredWords /\ Header(s, w) = s + CountMod * w
  BY <1>2, HeaderReads
<1>4. HeapNext
  <2>1. Store(a, Header(s, w))
    BY DEF Store
  <2> QED
    BY <1>3, <2>1 DEF HeapNext
<1>5. HeapInv'
  BY <1>4, HeapNextInv DEF ArcInv
<1>6. held' = held /\ trapped' = trapped /\ mem' = [mem EXCEPT ![a] = Header(s, w)]
  BY DEF WriteWord
<1>7. roots' \in [Addr -> Nat] /\ weakRoots' \in [Addr -> Nat]
  BY <1>1
<1>8. ArcTypeOK'
  BY <1>5, <1>7 DEF ArcInv, ArcTypeOK, HeapInv
<1>9. \A b \in Addr : SlotsTo(b)' = SlotsTo(b)
  BY <1>6 DEF SlotsTo
<1>10. \A b \in Addr : Refs(b)' = IF b = a THEN s ELSE Refs(b)
  BY <1>1, <1>9 DEF Refs
<1>11. RefsHeld'
  BY <1>1, <1>6 DEF ArcInv, RefsHeld
<1>12. HeadersExact'
  <2> SUFFICES ASSUME NEW b \in held
               PROVE  /\ mem'[b] = Refs(b)' + CountMod * weakRoots'[b]
                      /\ Refs(b)' <= MaxRefs /\ weakRoots'[b] <= MaxWeaks
    BY <1>6 DEF HeadersExact
  <2>1. b \in Addr /\ mem \in [Addr -> Words]
    BY <1>1 DEF ArcInv, ArcTypeOK, HeapTypeOK
  <2>2. CASE b = a
    BY <1>1, <1>2, <1>3, <1>6, <1>10, <2>1, <2>2
  <2>3. CASE b # a
    BY <1>1, <1>6, <1>10, <2>1, <2>3 DEF ArcInv, HeadersExact
  <2> QED
    BY <2>2, <2>3
<1>13. Cardinality(held') <= MaxObjects /\ (\A b \in held : ~cls[b] => owns[b] = {})'
  BY <1>6 DEF ArcInv
<1> QED
  BY <1>4, <1>5, <1>6, <1>8, <1>10, <1>11, <1>12, <1>13

\* What every instruction keeps: the invariant, the heap's own steps, and the
\* death of an object as long as its block is not given to another.
ArcStep ==
  /\ ArcInv' /\ [HeapNext]_heapVars
  /\ \A a \in held : a \in held' /\ Refs(a) = 0 => Refs(a)' = 0

\* One reference to v is gone, whoever held it: if it was the last one, v is
\* now being destroyed, for the first time.
LEMMA LastReferenceDestroys ==
  ASSUME ArcInv, ~trapped, NEW v \in held, Refs(v) > 0,
         held' = held, trapped' = trapped, weakRoots' = weakRoots,
         dying' = IF Strong(v) = 1 THEN <<v>> \o dying ELSE dying,
         \A b \in Addr : Refs(b)' = IF b = v THEN Refs(v) - 1 ELSE Refs(b),
         \A b \in held : owns'[b] \subseteq owns[b]
  PROVE  DyingOK' /\ DeadKept'
<1>1. /\ v \in Addr /\ held \subseteq Addr /\ dying \in Seq(Addr)
      /\ Refs(v) \in Nat /\ Strong(v) = Refs(v)
  BY HeldAddresses, CountsRead DEF ArcInv, ArcTypeOK
<1>2. /\ \A i \in DOMAIN dying : dying[i] \in held /\ Refs(dying[i]) = 0
      /\ \A i, j \in DOMAIN dying : dying[i] = dying[j] => i = j
  BY DEF ArcInv, DyingOK
<1>3. \A b \in held : BeingDestroyed(b) => b # v /\ Refs(b)' = 0
  BY <1>1, <1>2 DEF BeingDestroyed
<1>4. CASE Refs(v) = 1
  <2>1. dying' = <<v>> \o dying
    BY <1>1, <1>4
  <2>2. /\ \A i \in DOMAIN dying' : (i = 1 /\ dying'[i] = v)
                             \/ (i # 1 /\ i - 1 \in DOMAIN dying /\ dying'[i] = dying[i - 1])
        /\ \A i \in DOMAIN dying : i + 1 \in DOMAIN dying' /\ dying'[i + 1] = dying[i]
        /\ 1 \in DOMAIN dying' /\ dying'[1] = v
        /\ DOMAIN dying' \subseteq Nat
    <3>1. dying' \in Seq(Addr)
      BY <1>1, <2>1, PushDying
    <3> QED
      BY <1>1, <2>1, <3>1, PushDying, LenProperties
  <2>3. Refs(v)' = 0
    BY <1>1, <1>4
  <2>4. (\A i \in DOMAIN dying : dying[i] \in held /\ Refs(dying[i]) = 0)'
    <3> SUFFICES ASSUME NEW i \in DOMAIN dying', NEW b, b = dying'[i]
                 PROVE  b \in held /\ Refs(b)' = 0
      OBVIOUS
    <3>1. CASE b = v
      BY <2>3, <3>1
    <3>2. CASE b # v
      BY <1>2, <1>3, <2>2, <3>2 DEF BeingDestroyed
    <3> QED
      BY <3>1, <3>2
  <2>5. \A i, j \in DOMAIN dying' : dying'[i] = dying'[j] => i = j
    BY <1>2, <1>3, <2>2 DEF BeingDestroyed
  <2>6. DyingOK'
    <3>1. ~trapped'
      BY Zenon
    <3> QED
      BY <2>4, <2>5, <3>1 DEF DyingOK
  <2>7. DeadKept'
    <3> SUFFICES ASSUME NEW b \in held, Refs(b)' = 0
                 PROVE  BeingDestroyed(b)' \/ (owns'[b] = {} /\ weakRoots'[b] > 0)
      BY DEF DeadKept
    <3>1. CASE b = v
      BY <2>2, <3>1 DEF BeingDestroyed
    <3>2. CASE b # v /\ BeingDestroyed(b)
      <4>1. PICK i \in DOMAIN dying : dying[i] = b
        BY <3>2 DEF BeingDestroyed
      <4>2. i + 1 \in DOMAIN dying' /\ dying'[i + 1] = b
        BY <2>2, <4>1
      <4> QED
        BY <4>2 DEF BeingDestroyed
    <3>3. CASE b # v /\ ~BeingDestroyed(b)
      BY <1>1, <3>3 DEF ArcInv, DeadKept
    <3> QED
      BY <3>1, <3>2, <3>3
  <2> QED
    BY <2>6, <2>7
<1>5. CASE Refs(v) # 1
  <2>1. dying' = dying /\ Refs(v)' # 0
    BY <1>1, <1>5
  <2>2. DyingOK'
    <3>1. ~trapped'
      BY Zenon
    <3>2. (\A i \in DOMAIN dying : dying[i] \in held /\ Refs(dying[i]) = 0)'
      <4> SUFFICES ASSUME NEW i \in DOMAIN dying', NEW b, b = dying'[i]
                   PROVE  b \in held /\ Refs(b)' = 0
        OBVIOUS
      <4> QED
        BY <1>2, <1>3, <2>1 DEF BeingDestroyed
    <3>3. \A i, j \in DOMAIN dying' : dying'[i] = dying'[j] => i = j
      BY <1>2, <2>1
    <3> QED
      BY <3>1, <3>2, <3>3 DEF DyingOK
  <2>3. DeadKept'
    BY <1>1, <2>1 DEF ArcInv, DeadKept, BeingDestroyed
  <2> QED
    BY <2>2, <2>3
<1> QED
  BY <1>4, <1>5

\* A dead object that owns nothing any more and has no weak reference left is
\* freed: no reference led to it, and none does to its block.
LEMMA FreeStep ==
  ASSUME ArcInv, ~trapped, NEW a \in held, Refs(a) = 0, owns[a] = {},
         PushBack(a),
         weakRoots' = [weakRoots EXCEPT ![a] = 0],
         UNCHANGED <<cls, fld, owns, roots>>,
         dying' \in Seq(Addr)
  PROVE  /\ HeapNext
         /\ HeapInv' /\ ArcTypeOK' /\ Cardinality(held') <= MaxObjects
         /\ RefsHeld' /\ HeadersExact'
         /\ (\A b \in held : ~cls[b] => owns[b] = {})'
         /\ held' = held \ {a} /\ trapped' = trapped
         /\ \A b \in Addr : Refs(b)' = Refs(b)
<1>1. a \in Addr /\ held \subseteq Addr /\ mem \in [Addr -> Words]
  BY HeldAddresses DEF ArcInv, HeapInv, HeapTypeOK
<1>2. HeapNext
  <2>1. Free(a)
    BY DEF Free
  <2> QED
    BY <2>1 DEF HeapNext
<1>3. HeapInv'
  BY <1>2, HeapNextInv DEF ArcInv
<1>4. /\ held' = held \ {a} /\ trapped' = trapped
      /\ mem' = [mem EXCEPT ![a] = freeHead[ClassOf(a)]]
  BY DEF PushBack
<1>5. weakRoots' \in [Addr -> Nat]
  BY <1>1 DEF ArcInv, ArcTypeOK
<1>6. ArcTypeOK'
  BY <1>3, <1>5 DEF ArcInv, ArcTypeOK, HeapInv
<1>7. \A b \in Addr : SlotsTo(b)' = SlotsTo(b)
  BY <1>4 DEF SlotsTo
<1>8. \A b \in Addr : Refs(b)' = Refs(b)
  BY <1>7 DEF Refs
<1>9. Cardinality(held') <= MaxObjects
  <2>1. IsFiniteSet(held) /\ Cardinality(held) <= MaxObjects
    BY DEF ArcInv, HeapInv
  <2>2. Cardinality(held \ {a}) = Cardinality(held) - 1 /\ Cardinality(held) \in Nat
    BY <2>1, FS_RemoveElement, FS_CardinalityType
  <2> QED
    BY <1>4, <2>1, <2>2, ArcAssumption
<1>10. RefsHeld'
  <2>1. \A b \in Addr : b \notin held' => roots'[b] = 0 /\ weakRoots'[b] = 0
    <3> SUFFICES ASSUME NEW b \in Addr, b \notin held'
                 PROVE  roots'[b] = 0 /\ weakRoots'[b] = 0
      OBVIOUS
    <3>1. CASE b = a
      <4>1. Cardinality(SlotsTo(a)) \in Nat /\ roots[a] \in Nat
        BY <1>1, RefsCount
      <4>2. roots[a] = 0
        BY <4>1 DEF Refs
      <4> QED
        BY <1>1, <3>1, <4>2 DEF ArcInv, ArcTypeOK
    <3>2. CASE b # a
      BY <1>4, <3>2 DEF ArcInv, ArcTypeOK, RefsHeld
    <3> QED
      BY <3>1, <3>2
  <2>2. ASSUME NEW o \in held', NEW f \in owns'[o]
        PROVE  fld'[o][f] \in held' \cup {Null}
    <3>1. o \in held /\ f \in owns[o] /\ fld'[o][f] = fld[o][f]
      BY <1>4, <2>2
    <3>2. fld[o][f] # Null => fld[o][f] \in held /\ Refs(fld[o][f]) > 0
      BY <3>1, FieldCounts
    <3>3. fld[o][f] # Null => fld[o][f] # a
      BY <3>2
    <3> QED
      BY <1>4, <3>1, <3>2, <3>3
  <2> QED
    BY <2>1, <2>2 DEF RefsHeld
<1>11. HeadersExact'
  <2> SUFFICES ASSUME NEW b \in held, b # a
               PROVE  /\ mem'[b] = Refs(b)' + CountMod * weakRoots'[b]
                      /\ Refs(b)' <= MaxRefs /\ weakRoots'[b] <= MaxWeaks
    BY <1>4 DEF HeadersExact
  <2>1. b \in Addr /\ mem'[b] = mem[b] /\ weakRoots'[b] = weakRoots[b] /\ Refs(b)' = Refs(b)
    BY <1>1, <1>4, <1>8 DEF ArcInv, ArcTypeOK
  <2> QED
    BY <2>1 DEF ArcInv, HeadersExact
<1>12. (\A b \in held : ~cls[b] => owns[b] = {})'
  BY <1>4 DEF ArcInv
<1> QED
  BY <1>2, <1>3, <1>4, <1>6, <1>8, <1>9, <1>10, <1>11, <1>12

-----------------------------------------------------------------------------
(***************************************************************************)
(* The instructions, one by one.                                           *)
(***************************************************************************)

\* Between cascades nothing is being destroyed.
LEMMA Idle ==
  ASSUME ArcInv, Running, dying' = dying
  PROVE  /\ ~trapped /\ DyingOK' /\ dying' \in Seq(Addr)
         /\ \A b \in Addr : ~BeingDestroyed(b) /\ ~BeingDestroyed(b)'
<1>1. dying = <<>> /\ dying' = <<>> /\ ~trapped
  BY DEF Running
<1>2. DOMAIN dying = {} /\ DOMAIN dying' = {}
  BY <1>1
<1> QED
  BY <1>1, <1>2 DEF DyingOK, BeingDestroyed

\* A step that changes nothing.
LEMMA Stutter ==
  ASSUME ArcInv, UNCHANGED arcVars
  PROVE  ArcStep
<1>1. UNCHANGED heapVars /\ UNCHANGED arcOnly
  BY DEF arcVars
<1>2. HeapInv'
  BY <1>1, HeapNextInv DEF ArcInv
<1>3. /\ held' = held /\ mem' = mem /\ trapped' = trapped /\ cls' = cls /\ fld' = fld /\ owns' = owns
      /\ roots' = roots /\ weakRoots' = weakRoots /\ dying' = dying
  BY <1>1 DEF heapVars, arcOnly
<1>4. \A b : SlotsTo(b)' = SlotsTo(b) /\ Refs(b)' = Refs(b)
  BY <1>3 DEF SlotsTo, Refs
<1>5. ArcTypeOK'
  BY <1>2, <1>3 DEF ArcInv, ArcTypeOK, HeapInv
<1>6. RefsHeld' /\ HeadersExact' /\ DeadKept' /\ DyingOK'
  BY <1>3 DEF ArcInv, RefsHeld, HeadersExact, DeadKept, DyingOK, BeingDestroyed, Refs, SlotsTo
<1>7. Cardinality(held') <= MaxObjects /\ (\A a \in held : ~cls[a] => owns[a] = {})'
  BY <1>3 DEF ArcInv
<1> QED
  BY <1>1, <1>2, <1>4, <1>5, <1>6, <1>7 DEF ArcInv, ArcStep

\* One more strong reference to an object something refers to already.
LEMMA OneMoreReference ==
  ASSUME ArcInv, Running, NEW a \in held, Refs(a) > 0, roots[a] < MaxRoots,
         WriteWord(a, Header(Strong(a) + 1, Weak(a))),
         roots' = [roots EXCEPT ![a] = @ + 1],
         UNCHANGED <<cls, fld, owns, weakRoots, dying>>
  PROVE  ArcStep
<1> DEFINE r == roots[a] + 1
           s == r + Cardinality(SlotsTo(a))
<1>1. /\ a \in Addr /\ held \subseteq Addr /\ roots[a] \in Nat /\ weakRoots[a] \in Nat
      /\ Cardinality(SlotsTo(a)) \in Nat
      /\ Cardinality(SlotsTo(a)) <= MaxObjects * FieldCount
  BY HeldAddresses, RefsCount
<1>2. /\ Strong(a) + 1 = s /\ Weak(a) = weakRoots[a] /\ weakRoots[a] <= MaxWeaks
  BY <1>1, CountsRead DEF Refs
<1>3. r \in Nat /\ s <= MaxRefs
  BY <1>1, BoundsFit DEF MaxRefs
<1>4. ~trapped /\ DyingOK' /\ dying' \in Seq(Addr) /\ \A b \in Addr : ~BeingDestroyed(b)
  BY Idle
<1>5. weakRoots' = [weakRoots EXCEPT ![a] = weakRoots[a]] /\ roots' = [roots EXCEPT ![a] = r]
  BY DEF ArcInv, ArcTypeOK
<1>6. WriteWord(a, Header(s, weakRoots[a]))
  BY <1>2
<1> HIDE DEF r
<1>7. /\ HeapNext
      /\ HeapInv' /\ ArcTypeOK' /\ Cardinality(held') <= MaxObjects
      /\ RefsHeld' /\ HeadersExact'
      /\ (\A b \in held : ~cls[b] => owns[b] = {})'
      /\ held' = held /\ trapped' = trapped
      /\ \A b \in Addr : Refs(b)' = IF b = a THEN s ELSE Refs(b)
  BY <1>1, <1>2, <1>3, <1>4, <1>5, <1>6, CountStep
<1>8. \A b \in held : Refs(b)' = 0 <=> Refs(b) = 0
  BY <1>1, <1>7, <1>3 DEF r
<1>9. DeadKept'
  BY <1>1, <1>4, <1>7, <1>8 DEF ArcInv, DeadKept
<1> QED
  BY <1>4, <1>7, <1>8, <1>9 DEF ArcInv, ArcStep

\* Retain, of an object the program reaches.
LEMMA RetainStep ==
  ASSUME ArcInv, NEW a \in Addr, Retain(a)
  PROVE  ArcStep
<1>1. a \in held /\ Refs(a) > 0
  <2>1. Cardinality(SlotsTo(a)) \in Nat /\ roots[a] \in Nat
    BY RefsCount
  <2>2. CASE roots[a] > 0
    BY <2>1, <2>2, RefsCount DEF Refs
  <2>3. CASE \E o \in Addr : roots[o] > 0 /\ \E f \in owns[o] : fld[o][f] = a
    <3>1. PICK o \in Addr : roots[o] > 0 /\ \E f \in owns[o] : fld[o][f] = a
      BY <2>3
    <3>2. PICK f \in owns[o] : fld[o][f] = a
      BY <3>1
    <3> QED
      BY <3>1, <3>2, RefsCount, FieldCounts, HeldAddresses
  <2> QED
    BY <2>2, <2>3 DEF Retain, Reaches
<1> QED
  BY <1>1, OneMoreReference DEF Retain

\* A weak load: a live target gets a reference; a dead one is left alone.
LEMMA WeakLoadStep ==
  ASSUME ArcInv, NEW a \in Addr, WeakLoad(a)
  PROVE  ArcStep
<1>1. a \in held /\ Refs(a) \in Nat
  BY RefsCount DEF WeakLoad
<1>2. Strong(a) = Refs(a)
  BY <1>1, CountsRead
<1>3. CASE Strong(a) = 0
  BY <1>3, Stutter DEF WeakLoad, arcVars, arcOnly
<1>4. CASE Strong(a) # 0
  BY <1>1, <1>2, <1>4, OneMoreReference DEF WeakLoad
<1> QED
  BY <1>3, <1>4

\* Release by the program: the last reference starts a cascade.
LEMMA ReleaseStep ==
  ASSUME ArcInv, NEW a \in Addr, Release(a)
  PROVE  ArcStep
<1> DEFINE r == roots[a] - 1
           s == r + Cardinality(SlotsTo(a))
<1>1. /\ a \in held /\ held \subseteq Addr /\ roots[a] \in Nat /\ weakRoots[a] \in Nat
      /\ Cardinality(SlotsTo(a)) \in Nat /\ roots[a] > 0
  <2>1. roots[a] > 0
    BY DEF Release
  <2> QED
    BY <2>1, HeldAddresses, RefsCount
<1>2. /\ Strong(a) - 1 = s /\ Weak(a) = weakRoots[a] /\ weakRoots[a] <= MaxWeaks
      /\ Refs(a) \in Nat /\ Refs(a) > 0 /\ Refs(a) - 1 = s /\ Refs(a) <= MaxRefs
  BY <1>1, CountsRead DEF Refs
<1>3. r \in Nat /\ s <= MaxRefs
  BY <1>1, <1>2, BoundsFit
<1>4. ~trapped /\ dying \in Seq(Addr)
  <2>1. ~trapped
    BY Zenon DEF Release, Running
  <2> QED
    BY <2>1 DEF ArcInv, ArcTypeOK
<1>5. dying' \in Seq(Addr)
  BY <1>4, PushDying DEF Release, Decrement
<1>6. weakRoots' = [weakRoots EXCEPT ![a] = weakRoots[a]] /\ roots' = [roots EXCEPT ![a] = r]
  BY DEF ArcInv, ArcTypeOK, Release
<1>7. WriteWord(a, Header(s, weakRoots[a])) /\ UNCHANGED <<cls, fld, owns>>
  BY <1>2 DEF Release, Decrement
<1> HIDE DEF r
<1>8. /\ HeapNext
      /\ HeapInv' /\ ArcTypeOK' /\ Cardinality(held') <= MaxObjects
      /\ RefsHeld' /\ HeadersExact'
      /\ (\A b \in held : ~cls[b] => owns[b] = {})'
      /\ held' = held /\ trapped' = trapped
      /\ \A b \in Addr : Refs(b)' = IF b = a THEN s ELSE Refs(b)
  BY <1>1, <1>2, <1>3, <1>4, <1>5, <1>6, <1>7, CountStep
<1>9. DyingOK' /\ DeadKept'
  <2>1. dying' = IF Strong(a) = 1 THEN <<a>> \o dying ELSE dying
    BY DEF Release, Decrement
  <2>2. weakRoots' = weakRoots /\ \A b \in held : owns'[b] \subseteq owns[b]
    BY DEF Release
  <2>3. \A b \in Addr : Refs(b)' = IF b = a THEN Refs(a) - 1 ELSE Refs(b)
    BY <1>2, <1>8
  <2> QED
    BY <1>1, <1>2, <1>4, <1>8, <2>1, <2>2, <2>3, LastReferenceDestroys
<1>10. \A b \in held : Refs(b) = 0 => Refs(b)' = 0
  BY <1>1, <1>2, <1>8
<1> QED
  BY <1>8, <1>9, <1>10 DEF ArcInv, ArcStep

\* MakeWeak, of an object the program holds.
LEMMA MakeWeakStep ==
  ASSUME ArcInv, NEW a \in Addr, MakeWeak(a)
  PROVE  ArcStep
<1> DEFINE w == weakRoots[a] + 1
           s == roots[a] + Cardinality(SlotsTo(a))
<1>1. /\ a \in held /\ held \subseteq Addr /\ roots[a] \in Nat /\ weakRoots[a] \in Nat
      /\ Cardinality(SlotsTo(a)) \in Nat /\ weakRoots[a] < MaxWeaks
  <2>1. roots[a] > 0 /\ weakRoots[a] < MaxWeaks
    BY DEF MakeWeak
  <2> QED
    BY <2>1, HeldAddresses, RefsCount
<1>2. Strong(a) = s /\ Refs(a) = s /\ Weak(a) + 1 = w /\ s <= MaxRefs
  BY <1>1, CountsRead DEF Refs
<1>3. w \in Nat /\ w <= MaxWeaks
  BY <1>1, BoundsFit
<1>4. ~trapped /\ DyingOK' /\ dying' \in Seq(Addr) /\ \A b \in Addr : ~BeingDestroyed(b)
  BY Idle DEF MakeWeak
<1>5. roots' = [roots EXCEPT ![a] = roots[a]] /\ weakRoots' = [weakRoots EXCEPT ![a] = w]
  BY DEF ArcInv, ArcTypeOK, MakeWeak
<1>6. WriteWord(a, Header(s, w)) /\ UNCHANGED <<cls, fld, owns>>
  BY <1>2 DEF MakeWeak
<1> HIDE DEF w
<1>7. /\ HeapNext
      /\ HeapInv' /\ ArcTypeOK' /\ Cardinality(held') <= MaxObjects
      /\ RefsHeld' /\ HeadersExact'
      /\ (\A b \in held : ~cls[b] => owns[b] = {})'
      /\ held' = held /\ trapped' = trapped
      /\ \A b \in Addr : Refs(b)' = IF b = a THEN s ELSE Refs(b)
  BY <1>1, <1>2, <1>3, <1>4, <1>5, <1>6, CountStep
<1>8. \A b \in held : Refs(b)' = Refs(b) /\ (weakRoots[b] > 0 => weakRoots'[b] > 0)
  BY <1>1, <1>2, <1>5, <1>7 DEF w
<1>9. DeadKept'
  BY <1>1, <1>4, <1>6, <1>7, <1>8 DEF ArcInv, DeadKept
<1> QED
  BY <1>4, <1>7, <1>8, <1>9 DEF ArcInv, ArcStep

\* DropWeak: the last weak reference to a dead object frees its block, which
\* owns nothing any more.
LEMMA DropWeakStep ==
  ASSUME ArcInv, NEW a \in Addr, DropWeak(a)
  PROVE  ArcStep
<1> DEFINE w == weakRoots[a] - 1
           s == roots[a] + Cardinality(SlotsTo(a))
<1>1. /\ a \in held /\ held \subseteq Addr /\ roots[a] \in Nat /\ weakRoots[a] \in Nat
      /\ Cardinality(SlotsTo(a)) \in Nat /\ weakRoots[a] > 0
  <2>1. weakRoots[a] > 0
    BY DEF DropWeak
  <2> QED
    BY <2>1, HeldAddresses, RefsCount
<1>2. /\ Strong(a) = s /\ Refs(a) = s /\ Weak(a) = weakRoots[a] /\ Weak(a) - 1 = w
      /\ s <= MaxRefs /\ weakRoots[a] <= MaxWeaks
  BY <1>1, CountsRead DEF Refs
<1>3. w \in Nat /\ w <= MaxWeaks
  BY <1>1, <1>2, BoundsFit
<1>4. ~trapped /\ DyingOK' /\ dying' \in Seq(Addr) /\ \A b \in Addr : ~BeingDestroyed(b)
  BY Idle DEF DropWeak
<1>5. /\ roots' = [roots EXCEPT ![a] = roots[a]] /\ roots' = roots
      /\ weakRoots' = [weakRoots EXCEPT ![a] = w]
      /\ UNCHANGED <<cls, fld, owns, roots>>
  BY DEF ArcInv, ArcTypeOK, DropWeak
<1>6. \A b \in held : b # a => weakRoots'[b] = weakRoots[b]
  BY <1>1, <1>5 DEF ArcInv, ArcTypeOK
<1>7. CASE Weak(a) = 1 /\ Strong(a) = 0
  <2>1. w = 0 /\ Refs(a) = 0 /\ PushBack(a)
    BY <1>1, <1>2, <1>7 DEF DropWeak
  <2>2. owns[a] = {}
    BY <1>1, <1>4, <2>1 DEF ArcInv, DeadKept
  <2>3. weakRoots' = [weakRoots EXCEPT ![a] = 0]
    BY <1>5, <2>1
  <2>4. /\ HeapNext
        /\ HeapInv' /\ ArcTypeOK' /\ Cardinality(held') <= MaxObjects
        /\ RefsHeld' /\ HeadersExact'
        /\ (\A b \in held : ~cls[b] => owns[b] = {})'
        /\ held' = held \ {a} /\ trapped' = trapped
        /\ \A b \in Addr : Refs(b)' = Refs(b)
    BY <1>1, <1>4, <1>5, <2>1, <2>2, <2>3, FreeStep
  <2>5. DeadKept'
    BY <1>1, <1>4, <1>5, <1>6, <2>4 DEF ArcInv, DeadKept
  <2> QED
    BY <1>1, <1>4, <2>4, <2>5 DEF ArcInv, ArcStep
<1>8. CASE ~(Weak(a) = 1 /\ Strong(a) = 0)
  <2>1. WriteWord(a, Header(s, w))
    BY <1>2, <1>8 DEF DropWeak
  <2> HIDE DEF w
  <2>2. /\ HeapNext
        /\ HeapInv' /\ ArcTypeOK' /\ Cardinality(held') <= MaxObjects
        /\ RefsHeld' /\ HeadersExact'
        /\ (\A b \in held : ~cls[b] => owns[b] = {})'
        /\ held' = held /\ trapped' = trapped
        /\ \A b \in Addr : Refs(b)' = IF b = a THEN s ELSE Refs(b)
    BY <1>1, <1>2, <1>3, <1>4, <1>5, <2>1, CountStep
  <2>3. \A b \in held : Refs(b)' = Refs(b)
    BY <1>1, <1>2, <2>2
  <2>4. Refs(a) = 0 => weakRoots'[a] > 0
    BY <1>1, <1>2, <1>5, <1>8 DEF w, ArcInv, ArcTypeOK
  <2>5. DeadKept'
    BY <1>1, <1>4, <1>5, <1>6, <2>2, <2>3, <2>4 DEF ArcInv, DeadKept
  <2> QED
    BY <1>4, <2>2, <2>3, <2>5 DEF ArcInv, ArcStep
<1> QED
  BY <1>7, <1>8

\* The end of one Release: the block is freed, or stays for a weak reference.
LEMMA FinishReleaseStep ==
  ASSUME ArcInv, FinishRelease
  PROVE  ArcStep
<1> DEFINE o == Head(dying)
<1>1. dying # <<>> /\ dying \in Seq(Addr) /\ dying' = Tail(dying)
  BY DEF FinishRelease, ArcInv, ArcTypeOK
<1>2. /\ 1 \in DOMAIN dying /\ o = dying[1] /\ dying' \in Seq(Addr)
      /\ \A i \in DOMAIN dying' : i + 1 \in DOMAIN dying /\ dying'[i] = dying[i + 1] /\ i + 1 # 1
      /\ \A i \in DOMAIN dying : i # 1 => i - 1 \in DOMAIN dying' /\ dying'[i - 1] = dying[i]
  BY <1>1, PopDying
<1>3. o \in held /\ Refs(o) = 0 /\ held \subseteq Addr
  BY <1>2, HeldAddresses DEF ArcInv, DyingOK
<1>4. owns[o] = {}
  BY <1>3 DEF FinishRelease, ArcInv
<1>5. ~trapped
  BY <1>1, Zenon DEF ArcInv, DyingOK
<1>6. Weak(o) = weakRoots[o] /\ weakRoots[o] \in Nat
  BY <1>3, CountsRead
<1>7. UNCHANGED <<cls, fld, owns, roots, weakRoots>>
  BY DEF FinishRelease
<1>8. DOMAIN dying \subseteq Nat /\ DOMAIN dying' \subseteq Nat
  BY <1>1, <1>2, LenProperties
<1>9. \A i \in DOMAIN dying' : dying'[i] \in held /\ dying'[i] # o /\ BeingDestroyed(dying'[i])
  BY <1>2, <1>8 DEF ArcInv, DyingOK, BeingDestroyed
<1>10. \A i, j \in DOMAIN dying' : dying'[i] = dying'[j] => i = j
  <2> SUFFICES ASSUME NEW i \in DOMAIN dying', NEW j \in DOMAIN dying', dying'[i] = dying'[j]
               PROVE  i = j
    OBVIOUS
  <2>1. i + 1 = j + 1
    BY <1>2 DEF ArcInv, DyingOK
  <2> QED
    BY <1>8, <2>1
<1>11. \A b \in held : b # o /\ BeingDestroyed(b) => BeingDestroyed(b)'
  <2> SUFFICES ASSUME NEW b \in held, b # o, BeingDestroyed(b)
               PROVE  BeingDestroyed(b)'
    OBVIOUS
  <2>1. PICK i \in DOMAIN dying : dying[i] = b
    BY DEF BeingDestroyed
  <2>2. i - 1 \in DOMAIN dying' /\ dying'[i - 1] = b
    BY <1>2, <2>1
  <2> QED
    BY <2>2 DEF BeingDestroyed
<1>12. \A b \in held : BeingDestroyed(b) => Refs(b) = 0
  BY DEF ArcInv, DyingOK, BeingDestroyed
<1>13. CASE Weak(o) = 0
  <2>1. PushBack(o)
    BY <1>13 DEF FinishRelease
  <2>2. weakRoots' = [weakRoots EXCEPT ![o] = 0]
    BY <1>3, <1>6, <1>7, <1>13 DEF ArcInv, ArcTypeOK
  <2> HIDE DEF o
  <2>3. /\ HeapNext
        /\ HeapInv' /\ ArcTypeOK' /\ Cardinality(held') <= MaxObjects
        /\ RefsHeld' /\ HeadersExact'
        /\ (\A b \in held : ~cls[b] => owns[b] = {})'
        /\ held' = held \ {o} /\ trapped' = trapped
        /\ \A b \in Addr : Refs(b)' = Refs(b)
    BY <1>2, <1>3, <1>4, <1>5, <1>7, <2>1, <2>2, FreeStep
  <2>4. DeadKept'
    BY <1>3, <1>7, <1>11, <2>3 DEF ArcInv, DeadKept
  <2>5. DyingOK'
    <3>1. ~trapped'
      BY <1>5, <2>3, Zenon
    <3>2. (\A i \in DOMAIN dying : dying[i] \in held /\ Refs(dying[i]) = 0)'
      <4> SUFFICES ASSUME NEW i \in DOMAIN dying', NEW b, b = dying'[i]
                   PROVE  b \in held' /\ Refs(b)' = 0
        OBVIOUS
      <4> QED
        BY <1>3, <1>9, <1>12, <2>3
    <3> QED
      BY <1>10, <3>1, <3>2 DEF DyingOK
  <2> QED
    BY <1>3, <2>3, <2>4, <2>5 DEF ArcInv, ArcStep
<1>14. CASE Weak(o) # 0
  <2>1. UNCHANGED heapVars
    BY <1>14 DEF FinishRelease
  <2>2. HeapInv'
    BY <2>1, HeapNextInv DEF ArcInv
  <2>3. held' = held /\ mem' = mem /\ trapped' = trapped
    BY <2>1 DEF heapVars
  <2>4. \A b : SlotsTo(b)' = SlotsTo(b) /\ Refs(b)' = Refs(b)
    BY <1>7, <2>3 DEF SlotsTo, Refs
  <2>5. ArcTypeOK'
    BY <1>2, <1>7, <2>2 DEF ArcInv, ArcTypeOK, HeapInv
  <2>6. /\ RefsHeld' /\ HeadersExact' /\ Cardinality(held') <= MaxObjects
        /\ (\A b \in held : ~cls[b] => owns[b] = {})'
    BY <1>7, <2>3, <2>4 DEF ArcInv, RefsHeld, HeadersExact
  <2>7. DeadKept'
    BY <1>4, <1>6, <1>7, <1>11, <1>14, <2>3, <2>4 DEF ArcInv, DeadKept
  <2>8. DyingOK'
    <3>1. ~trapped'
      BY <1>5, <2>3, Zenon
    <3>2. (\A i \in DOMAIN dying : dying[i] \in held /\ Refs(dying[i]) = 0)'
      <4> SUFFICES ASSUME NEW i \in DOMAIN dying', NEW b, b = dying'[i]
                   PROVE  b \in held' /\ Refs(b)' = 0
        OBVIOUS
      <4> QED
        BY <1>9, <1>12, <2>3, <2>4
    <3> QED
      BY <1>10, <3>1, <3>2 DEF DyingOK
  <2> QED
    BY <2>1, <2>2, <2>4, <2>5, <2>6, <2>7, <2>8 DEF ArcInv, ArcStep
<1> QED
  BY <1>13, <1>14

\* A new object: nothing referred to its block before.
LEMMA NewStep ==
  ASSUME ArcInv, NEW kind \in Kinds, NEW a \in Addr, New(kind, a)
  PROVE  ArcStep
<1> DEFINE p == Payloads[kind]
<1>1. p \in DOMAIN StaticClass /\ Alloc(p, a)
  BY ArcAssumption DEF New
<1>2. HeapNext
  BY <1>1 DEF HeapNext
<1>3. HeapInv'
  BY <1>2, HeapNextInv DEF ArcInv
<1>4. a \notin held
  <2>1. /\ StaticClass[p] \in Classes /\ p + HeaderBytes \in Nat
        /\ p + HeaderBytes <= ClassBytes[StaticClass[p]]
    BY <1>1, HeapAssumption, ClassAssumption
  <2>2. mem' \in [Addr -> Words] /\ \A b \in Addr \ {a} : mem'[b] = mem[b]
    BY <1>1, HeapAssumption DEF Alloc, ArcInv, HeapInv, HeapTypeOK
  <2> HIDE DEF p
  <2> QED
    BY <1>1, <2>1, <2>2, TakeBlock DEF Alloc, ArcInv
<1>5. /\ held' = held \cup {a} /\ mem' = [mem EXCEPT ![a] = 1]
      /\ trapped' = trapped
  BY <1>1 DEF Alloc, HandOut, FreshHeader
<1>6. ~trapped /\ DyingOK' /\ dying' \in Seq(Addr) /\ \A b \in Addr : ~BeingDestroyed(b)
  BY Idle DEF New
<1>7. /\ cls \in [Addr -> BOOLEAN] /\ fld \in [Addr -> [Fields -> Addr \cup {Null}]]
      /\ owns \in [Addr -> SUBSET Fields] /\ roots \in [Addr -> Nat]
      /\ weakRoots \in [Addr -> Nat] /\ mem \in [Addr -> Words]
  BY DEF ArcInv, ArcTypeOK, HeapTypeOK
<1>8. /\ roots[a] = 0 /\ weakRoots[a] = 0
      /\ \A o \in held : \A f \in owns[o] : fld[o][f] # a
  BY <1>4, HeldAddresses DEF ArcInv, RefsHeld, SlotsTo
<1>9. /\ roots' = [roots EXCEPT ![a] = 1] /\ weakRoots' = weakRoots
      /\ \A f \in Fields : fld'[a][f] = Null
      /\ \A b \in Addr : b # a => cls'[b] = cls[b] /\ fld'[b] = fld[b] /\ owns'[b] = owns[b]
  BY <1>7, <1>8 DEF New
<1>10. /\ fld' \in [Addr -> [Fields -> Addr \cup {Null}]]
       /\ owns' \in [Addr -> SUBSET Fields]
       /\ roots' \in [Addr -> Nat]
  BY <1>7, <1>9 DEF New
<1>11. cls' \in [Addr -> BOOLEAN] /\ (~cls'[a] => owns'[a] = {})
  <2>1. cls' = [cls EXCEPT ![a] = (kind = "node")] /\ (kind = "node") \in BOOLEAN
    BY DEF New
  <2>2. cls' \in [Addr -> BOOLEAN] /\ cls'[a] = (kind = "node")
    BY <1>7, <2>1, Zenon
  <2>3. kind # "node" => owns'[a] = {}
    BY <1>7 DEF New
  <2> QED
    BY <2>2, <2>3, Zenon
<1>12. ArcTypeOK'
  BY <1>3, <1>6, <1>7, <1>9, <1>10, <1>11, Zenon DEF ArcTypeOK, HeapInv
<1>13. \A b \in Addr : SlotsTo(b)' = SlotsTo(b)
  <2> SUFFICES ASSUME NEW b \in Addr
               PROVE  SlotsTo(b)' = SlotsTo(b)
    OBVIOUS
  <2>1. \A f \in Fields : fld'[a][f] # b
    BY <1>9, HeldAddresses
  <2>2. \A o \in held : o # a /\ fld'[o] = fld[o] /\ owns'[o] = owns[o]
    BY <1>4, <1>9, HeldAddresses
  <2>3. \A t \in held' \X Fields : t[2] \in owns'[t[1]] /\ fld'[t[1]][t[2]] = b => t \in SlotsTo(b)
    BY <1>5, <2>1, <2>2 DEF SlotsTo
  <2>4. \A t \in SlotsTo(b) : t \in held' \X Fields /\ t[2] \in owns'[t[1]] /\ fld'[t[1]][t[2]] = b
    BY <1>5, <2>2 DEF SlotsTo
  <2> QED
    BY <2>3, <2>4 DEF SlotsTo
<1>14. SlotsTo(a) = {} /\ Cardinality(SlotsTo(a)) = 0
  <2>1. SlotsTo(a) = {}
    BY <1>8 DEF SlotsTo
  <2> QED
    BY <2>1, FS_EmptySet
<1>15. \A b \in Addr : Refs(b)' = IF b = a THEN 1 ELSE Refs(b)
  <2> SUFFICES ASSUME NEW b \in Addr
               PROVE  Refs(b)' = IF b = a THEN 1 ELSE Refs(b)
    OBVIOUS
  <2>1. Refs(b)' = roots'[b] + Cardinality(SlotsTo(b))
    BY <1>13 DEF Refs
  <2>2. CASE b = a
    <3>1. roots'[a] = 1
      BY <1>7, <1>9
    <3>2. roots'[b] = 1 /\ Cardinality(SlotsTo(b)) = 0
      BY <1>14, <2>2, <3>1
    <3> QED
      BY <2>1, <2>2, <3>2
  <2>3. CASE b # a
    BY <1>7, <1>9, <2>1, <2>3 DEF Refs
  <2> QED
    BY <2>2, <2>3
<1>16. Cardinality(held') <= MaxObjects
  <2>1. IsFiniteSet(held) /\ Cardinality(held) < MaxObjects
    BY DEF ArcInv, HeapInv, New
  <2>2. Cardinality(held') = Cardinality(held) + 1 /\ Cardinality(held) \in Nat
    BY <1>4, <1>5, <2>1, FS_AddElement, FS_CardinalityType
  <2> QED
    BY <2>1, <2>2, ArcAssumption
<1>17. RefsHeld'
  <2>1. \A b \in Addr : b \notin held' => roots'[b] = 0 /\ weakRoots'[b] = 0
    BY <1>5, <1>7, <1>9 DEF ArcInv, RefsHeld
  <2>2. \A o \in held' : \A f \in owns'[o] : fld'[o][f] \in held' \cup {Null}
    BY <1>5, <1>9, <1>10, HeldAddresses DEF ArcInv, RefsHeld
  <2> QED
    BY <2>1, <2>2 DEF RefsHeld
<1>18. HeadersExact'
  <2> SUFFICES ASSUME NEW b \in held'
               PROVE  /\ mem'[b] = Refs(b)' + CountMod * weakRoots'[b]
                      /\ Refs(b)' <= MaxRefs /\ weakRoots'[b] <= MaxWeaks
    BY DEF HeadersExact
  <2>1. CASE b = a
    BY <1>5, <1>7, <1>8, <1>9, <1>15, <2>1, BoundsFit
  <2>2. CASE b # a
    <3>1. b \in held /\ mem'[b] = mem[b] /\ Refs(b)' = Refs(b) /\ weakRoots'[b] = weakRoots[b]
      BY <1>5, <1>7, <1>9, <1>15, <2>2, HeldAddresses
    <3> QED
      BY <3>1 DEF ArcInv, HeadersExact
  <2> QED
    BY <2>1, <2>2
<1>19. (\A b \in held : ~cls[b] => owns[b] = {})'
  <2> SUFFICES ASSUME NEW b \in held', ~cls'[b]
               PROVE  owns'[b] = {}
    OBVIOUS
  <2>1. CASE b = a
    BY <1>11, <2>1
  <2>2. CASE b # a
    BY <1>5, <1>9, <2>2, HeldAddresses DEF ArcInv
  <2> QED
    BY <2>1, <2>2
<1>20. DeadKept'
  BY <1>5, <1>6, <1>9, <1>15, HeldAddresses DEF ArcInv, DeadKept
<1>21. \A b \in held : Refs(b) = 0 => Refs(b)' = 0
  BY <1>4, <1>15, HeldAddresses
<1> QED
  BY <1>2, <1>3, <1>6, <1>12, <1>16, <1>17, <1>18, <1>19, <1>20, <1>21 DEF ArcInv, ArcStep

\* An allocation that traps.
LEMMA NewTrapStep ==
  ASSUME ArcInv, NEW kind \in Kinds, NewTrap(kind)
  PROVE  ArcStep
<1>1. Payloads[kind] \in DOMAIN StaticClass /\ AllocTrap(Payloads[kind])
  BY ArcAssumption DEF NewTrap
<1>2. HeapNext
  BY <1>1 DEF HeapNext
<1>3. HeapInv'
  BY <1>2, HeapNextInv DEF ArcInv
<1>4. /\ held' = held /\ mem' = mem /\ cls' = cls /\ fld' = fld /\ owns' = owns
      /\ roots' = roots /\ weakRoots' = weakRoots /\ dying' = dying
  BY <1>1 DEF AllocTrap, Trap, NewTrap, arcOnly
<1>5. \A b : SlotsTo(b)' = SlotsTo(b) /\ Refs(b)' = Refs(b)
  BY <1>4 DEF SlotsTo, Refs
<1>6. ArcTypeOK'
  BY <1>3, <1>4 DEF ArcInv, ArcTypeOK, HeapInv
<1>7. DyingOK'
  BY <1>4, Idle DEF NewTrap
<1>8. RefsHeld' /\ HeadersExact' /\ DeadKept'
  BY <1>4, <1>5 DEF ArcInv, RefsHeld, HeadersExact, DeadKept, BeingDestroyed
<1>9. Cardinality(held') <= MaxObjects /\ (\A a \in held : ~cls[a] => owns[a] = {})'
  BY <1>4 DEF ArcInv
<1> QED
  BY <1>2, <1>3, <1>5, <1>6, <1>7, <1>8, <1>9 DEF ArcInv, ArcStep

\* A field store moves a reference into the field and the field's own out to
\* the program: the references to every object are as many as before.
LEMMA SwapFieldStep ==
  ASSUME ArcInv, NEW o \in Addr, NEW f \in Fields, NEW v \in Addr \cup {Null},
         SwapField(o, f, v)
  PROVE  ArcStep
<1> DEFINE old == fld[o][f]
<1>1. UNCHANGED heapVars /\ UNCHANGED <<cls, owns, weakRoots, dying>>
  BY DEF SwapField
<1>2. HeapInv'
  BY <1>1, HeapNextInv DEF ArcInv
<1>3. held' = held /\ mem' = mem /\ trapped' = trapped
  BY <1>1 DEF heapVars
<1>4. /\ fld \in [Addr -> [Fields -> Addr \cup {Null}]]
      /\ owns \in [Addr -> SUBSET Fields] /\ roots \in [Addr -> Nat]
      /\ held \subseteq Addr /\ Null \notin Addr
  BY HeldAddresses DEF ArcInv, ArcTypeOK
<1>5. o \in held /\ f \in owns[o] /\ roots[o] > 0 /\ (v # Null => v \in held /\ roots[v] > 0)
  <2>1. roots[o] > 0 /\ f \in owns[o] /\ (v # Null => roots[v] > 0)
    BY DEF SwapField
  <2> QED
    BY <2>1, RefsCount
<1>6. old # Null => old \in held /\ <<o, f>> \in SlotsTo(old)
  BY <1>5, FieldCounts
<1>7. old \in Addr \cup {Null}
  BY <1>4
<1>8. fld' = [fld EXCEPT ![o][f] = v] /\ fld' \in [Addr -> [Fields -> Addr \cup {Null}]]
  BY <1>4 DEF SwapField
<1>9. /\ roots' \in [Addr -> Nat]
      /\ \A b \in Addr : roots'[b] = IF b = v /\ b # old THEN roots[b] - 1
                                     ELSE IF b = old /\ b # v THEN roots[b] + 1
                                     ELSE roots[b]
  <2> DEFINE given == IF v = Null THEN roots ELSE [roots EXCEPT ![v] = @ - 1]
  <2>1. given \in [Addr -> Nat] /\ \A b \in Addr : given[b] = IF b = v THEN roots[b] - 1 ELSE roots[b]
    BY <1>4, <1>5
  <2>2. roots' = IF old = Null THEN given ELSE [given EXCEPT ![old] = @ + 1]
    BY DEF SwapField
  <2> HIDE DEF given
  <2> QED
    BY <1>4, <1>5, <1>7, <2>1, <2>2
<1>10. ArcTypeOK'
  BY <1>1, <1>2, <1>8, <1>9 DEF ArcInv, ArcTypeOK, HeapInv
<1>11. \A q \in Addr, g \in Fields : fld'[q][g] = IF q = o /\ g = f THEN v ELSE fld[q][g]
  BY <1>4, <1>8
<1>12. ASSUME NEW b \in Addr
       PROVE  Refs(b)' = Refs(b)
  <2>1. /\ IsFiniteSet(SlotsTo(b)) /\ Cardinality(SlotsTo(b)) \in Nat /\ roots[b] \in Nat
    BY RefsCount
  <2>2. <<o, f>> \in SlotsTo(b) <=> b = old
    BY <1>5 DEF SlotsTo
  <2>3. SlotsTo(b)' = IF b = v THEN SlotsTo(b) \cup {<<o, f>>} ELSE SlotsTo(b) \ {<<o, f>>}
    <3>1. \A t \in held \X Fields : /\ t = <<t[1], t[2]>> /\ t[1] \in Addr /\ t[2] \in Fields
                                     /\ fld'[t[1]][t[2]] = IF t = <<o, f>> THEN v ELSE fld[t[1]][t[2]]
      BY <1>4, <1>11
    <3>2. <<o, f>> \in held \X Fields /\ <<o, f>>[1] = o /\ <<o, f>>[2] = f
      BY <1>5
    <3>3. SlotsTo(b)' = {t \in held \X Fields : t[2] \in owns[t[1]] /\ fld'[t[1]][t[2]] = b}
      BY <1>1, <1>3 DEF SlotsTo
    <3>4. SlotsTo(b) = {t \in held \X Fields : t[2] \in owns[t[1]] /\ fld[t[1]][t[2]] = b}
      BY DEF SlotsTo
    <3>5. <<o, f>> \in SlotsTo(b)' <=> b = v
      BY <1>5, <3>1, <3>2, <3>3
    <3>6. \A t \in held \X Fields : t # <<o, f>> => (t \in SlotsTo(b)' <=> t \in SlotsTo(b))
      BY <3>1, <3>3, <3>4
    <3>7. \A t : t \in SlotsTo(b) \/ t \in SlotsTo(b)' => t \in held \X Fields
      BY <3>3, <3>4
    <3> HIDE <3>3, <3>4
    <3>8. CASE b = v
      <4>1. \A t : t \in SlotsTo(b)' <=> t \in SlotsTo(b) \cup {<<o, f>>}
        BY <3>5, <3>6, <3>7, <3>8
      <4> QED
        BY <3>8, <4>1
    <3>9. CASE b # v
      <4>1. \A t : t \in SlotsTo(b)' <=> t \in SlotsTo(b) \ {<<o, f>>}
        BY <3>5, <3>6, <3>7, <3>9
      <4> QED
        BY <3>9, <4>1
    <3> QED
      BY <3>8, <3>9
  <2>4. CASE b = v /\ b # old
    <3>1. Cardinality(SlotsTo(b)') = Cardinality(SlotsTo(b)) + 1
      BY <2>1, <2>2, <2>3, <2>4, FS_AddElement
    <3>2. roots'[b] = roots[b] - 1
      BY <1>9, <2>4
    <3> QED
      BY <2>1, <3>1, <3>2 DEF Refs
  <2>5. CASE b = old /\ b # v
    <3>1. Cardinality(SlotsTo(b)') = Cardinality(SlotsTo(b)) - 1
      <4>1. SlotsTo(b)' = SlotsTo(b) \ {<<o, f>>} /\ <<o, f>> \in SlotsTo(b)
        BY <2>2, <2>3, <2>5
      <4>2. Cardinality(SlotsTo(b) \ {<<o, f>>}) = Cardinality(SlotsTo(b)) - 1
        BY <2>1, <4>1, FS_RemoveElement
      <4> QED
        BY <4>1, <4>2
    <3>2. roots'[b] = roots[b] + 1
      BY <1>9, <2>5
    <3> QED
      BY <2>1, <3>1, <3>2 DEF Refs
  <2>6. CASE (b = v /\ b = old) \/ (b # v /\ b # old)
    <3>1. SlotsTo(b)' = SlotsTo(b)
      BY <2>2, <2>3, <2>6
    <3>2. roots'[b] = roots[b]
      BY <1>9, <2>6
    <3> QED
      BY <3>1, <3>2 DEF Refs
  <2> QED
    BY <2>4, <2>5, <2>6
<1>13. RefsHeld'
  <2>1. \A b \in Addr : b \notin held' => roots'[b] = 0 /\ weakRoots'[b] = 0
    BY <1>1, <1>3, <1>5, <1>6, <1>9, <1>4 DEF ArcInv, RefsHeld
  <2>2. \A q \in held' : \A g \in owns'[q] : fld'[q][g] \in held' \cup {Null}
    BY <1>1, <1>3, <1>4, <1>5, <1>11 DEF ArcInv, RefsHeld
  <2> QED
    BY <2>1, <2>2 DEF RefsHeld
<1>14. HeadersExact'
  BY <1>1, <1>3, <1>4, <1>12 DEF ArcInv, HeadersExact
<1>15. DyingOK'
  BY Idle, <1>1 DEF SwapField
<1>16. DeadKept'
  BY <1>1, <1>3, <1>4, <1>12 DEF ArcInv, DeadKept, BeingDestroyed
<1>17. Cardinality(held') <= MaxObjects /\ (\A a \in held : ~cls[a] => owns[a] = {})'
  BY <1>1, <1>3 DEF ArcInv
<1>18. \A b \in held : Refs(b) = 0 => Refs(b)' = 0
  BY <1>4, <1>12
<1> QED
  BY <1>1, <1>2, <1>10, <1>13, <1>14, <1>15, <1>16, <1>17, <1>18 DEF ArcInv, ArcStep

\* One step of a destructor: the field owns nothing any more, and the object
\* it led to has one reference less.
LEMMA DestroyFieldStep ==
  ASSUME ArcInv, DestroyField
  PROVE  ArcStep
<1> DEFINE o == Head(dying)
<1>1. dying # <<>> /\ dying \in Seq(Addr)
  BY DEF DestroyField, ArcInv, ArcTypeOK
<1>2. 1 \in DOMAIN dying /\ o = dying[1]
  BY <1>1, PopDying
<1>3. o \in held /\ Refs(o) = 0 /\ o \in Addr /\ held \subseteq Addr /\ Null \notin Addr
  BY <1>2, HeldAddresses DEF ArcInv, DyingOK
<1>4. ~trapped
  BY <1>1, Zenon DEF ArcInv, DyingOK
<1>5. PICK f \in owns[o] : /\ owns' = [owns EXCEPT ![o] = @ \ {f}]
                          /\ IF fld[o][f] = Null THEN UNCHANGED <<heapVars, dying>>
                             ELSE Decrement(fld[o][f], dying)
  BY DEF DestroyField
<1> DEFINE v == fld[o][f]
<1>6. UNCHANGED <<cls, fld, roots, weakRoots>>
  BY DEF DestroyField
<1> HIDE DEF o
<1>7. f \in Fields /\ (v # Null => v \in held /\ v \in Addr /\ <<o, f>> \in SlotsTo(v) /\ Refs(v) > 0)
  BY <1>3, FieldCounts
<1>8. owns \in [Addr -> SUBSET Fields] /\ owns' \in [Addr -> SUBSET Fields]
  BY <1>3, <1>5 DEF ArcInv, ArcTypeOK
<1>9. \A b \in Addr : owns'[b] = IF b = o THEN owns[b] \ {f} ELSE owns[b]
  BY <1>3, <1>5, <1>8
<1> HIDE DEF v
<1>10. /\ HeapNext \/ UNCHANGED heapVars
       /\ held' = held /\ trapped' = trapped
       /\ dying' \in Seq(Addr)
       /\ v = Null => mem' = mem /\ dying' = dying
       /\ v # Null => /\ mem' = [mem EXCEPT ![v] = Refs(v) - 1 + CountMod * weakRoots[v]]
                     /\ dying' = IF Strong(v) = 1 THEN <<v>> \o dying ELSE dying
  <2>1. CASE v = Null
    BY <1>1, <1>5, <2>1 DEF heapVars, v
  <2>2. CASE v # Null
    <3>1. /\ WriteWord(v, Header(Strong(v) - 1, Weak(v)))
          /\ dying' = IF Strong(v) = 1 THEN <<v>> \o dying ELSE dying
      BY <1>5, <2>2 DEF Decrement, v
    <3>2. /\ Strong(v) = Refs(v) /\ Weak(v) = weakRoots[v] /\ Refs(v) \in Nat /\ weakRoots[v] \in Nat
          /\ Refs(v) <= MaxRefs /\ weakRoots[v] <= MaxWeaks /\ Refs(v) > 0
      BY <1>7, <2>2, CountsRead
    <3>3. /\ Refs(v) - 1 \in Nat /\ Refs(v) - 1 < CountMod /\ weakRoots[v] < CountMod
      BY <3>2, BoundsFit
    <3>4. /\ Header(Refs(v) - 1, weakRoots[v]) = Refs(v) - 1 + CountMod * weakRoots[v]
          /\ Header(Refs(v) - 1, weakRoots[v]) \in StoredWords
      BY <3>2, <3>3, HeaderReads
    <3>5. WriteWord(v, Header(Refs(v) - 1, weakRoots[v]))
      BY <3>1, <3>2
    <3>6. Store(v, Header(Refs(v) - 1, weakRoots[v]))
      BY <1>4, <1>7, <2>2, <3>5 DEF Store
    <3>7. HeapNext
      BY <1>7, <2>2, <3>4, <3>6 DEF HeapNext
    <3>8. dying' \in Seq(Addr)
      BY <1>1, <1>7, <2>2, <3>1, PushDying
    <3> QED
      BY <2>2, <3>1, <3>4, <3>5, <3>7, <3>8 DEF WriteWord
  <2> QED
    BY <2>1, <2>2
<1>11. HeapInv'
  BY <1>10, HeapNextInv DEF ArcInv
<1>12. ArcTypeOK'
  BY <1>6, <1>8, <1>10, <1>11 DEF ArcInv, ArcTypeOK, HeapInv
<1>13. ASSUME NEW b \in Addr
       PROVE  SlotsTo(b)' = SlotsTo(b) \ {<<o, f>>}
  <2>1. SlotsTo(b)' = {t \in held \X Fields : t[2] \in owns'[t[1]] /\ fld[t[1]][t[2]] = b}
    BY <1>6, <1>10 DEF SlotsTo
  <2>2. SlotsTo(b) = {t \in held \X Fields : t[2] \in owns[t[1]] /\ fld[t[1]][t[2]] = b}
    BY DEF SlotsTo
  <2>3. \A t \in held \X Fields : t[2] \in owns'[t[1]] <=> t[2] \in owns[t[1]] /\ t # <<o, f>>
    <3>1. \A q \in held, g \in Fields : g \in owns'[q] <=> g \in owns[q] /\ <<q, g>> # <<o, f>>
      BY <1>3, <1>9
    <3> QED
      BY <3>1
  <2>4. \A t : t \in SlotsTo(b)' <=> t \in SlotsTo(b) \ {<<o, f>>}
    BY <2>1, <2>2, <2>3
  <2> HIDE <2>1, <2>2
  <2> QED
    BY <2>4
<1>14. \A b \in Addr : Refs(b)' = IF b = v THEN Refs(v) - 1 ELSE Refs(b)
  <2> SUFFICES ASSUME NEW b \in Addr
               PROVE  Refs(b)' = IF b = v THEN Refs(v) - 1 ELSE Refs(b)
    OBVIOUS
  <2>1. IsFiniteSet(SlotsTo(b)) /\ Cardinality(SlotsTo(b)) \in Nat /\ roots[b] \in Nat
    BY RefsCount
  <2>2. Refs(b)' = roots[b] + Cardinality(SlotsTo(b) \ {<<o, f>>})
    BY <1>6, <1>13 DEF Refs
  <2>3. CASE b = v
    <3>1. <<o, f>> \in SlotsTo(b)
      BY <1>3, <1>7, <2>3
    <3>2. Cardinality(SlotsTo(b) \ {<<o, f>>}) = Cardinality(SlotsTo(b)) - 1
      BY <2>1, <3>1, FS_RemoveElement
    <3>3. Refs(b)' = Refs(b) - 1
      BY <2>1, <2>2, <3>2 DEF Refs
    <3> QED
      BY <2>3, <3>3
  <2>4. CASE b # v
    <3>1. <<o, f>> \notin SlotsTo(b)
      BY <2>4 DEF SlotsTo, v
    <3>2. SlotsTo(b) \ {<<o, f>>} = SlotsTo(b)
      BY <3>1
    <3> QED
      BY <2>2, <2>4, <3>2 DEF Refs
  <2> QED
    BY <2>3, <2>4
<1>15. \A b \in held : owns'[b] \subseteq owns[b]
  BY <1>3, <1>9
<1>16. RefsHeld'
  BY <1>6, <1>10, <1>15 DEF ArcInv, RefsHeld
<1>17. HeadersExact'
  <2> SUFFICES ASSUME NEW b \in held
               PROVE  /\ mem'[b] = Refs(b)' + CountMod * weakRoots'[b]
                      /\ Refs(b)' <= MaxRefs /\ weakRoots'[b] <= MaxWeaks
    BY <1>10 DEF HeadersExact
  <2>1. b \in Addr /\ mem \in [Addr -> Words] /\ Refs(b) \in Nat /\ weakRoots' = weakRoots
    BY <1>3, <1>6, CountsRead DEF ArcInv, HeapInv, HeapTypeOK
  <2>2. mem[b] = Refs(b) + CountMod * weakRoots[b] /\ Refs(b) <= MaxRefs /\ weakRoots[b] <= MaxWeaks
    BY DEF ArcInv, HeadersExact
  <2>3. CASE b = v
    <3>1. mem'[b] = Refs(b) - 1 + CountMod * weakRoots[b] /\ Refs(b)' = Refs(b) - 1
      BY <1>3, <1>10, <1>14, <2>1, <2>3
    <3> QED
      BY <2>1, <2>2, <3>1, BoundsFit
  <2>4. CASE b # v
    <3>1. mem'[b] = mem[b] /\ Refs(b)' = Refs(b)
      BY <1>10, <1>14, <2>1, <2>4
    <3> QED
      BY <2>1, <2>2, <3>1
  <2> QED
    BY <2>3, <2>4
<1>18. Cardinality(held') <= MaxObjects /\ (\A b \in held : ~cls[b] => owns[b] = {})'
  BY <1>6, <1>10, <1>15 DEF ArcInv
<1>19. DyingOK' /\ DeadKept'
  <2>1. CASE v # Null
    BY <1>4, <1>6, <1>7, <1>10, <1>14, <1>15, <2>1, LastReferenceDestroys
  <2>2. CASE v = Null
    <3>1. dying' = dying /\ \A b \in held : Refs(b)' = Refs(b)
      BY <1>3, <1>10, <1>14, <2>2
    <3>2. ~trapped'
      BY <1>4, <1>10, Zenon
    <3>3. (\A i \in DOMAIN dying : dying[i] \in held /\ Refs(dying[i]) = 0)'
      <4> SUFFICES ASSUME NEW i \in DOMAIN dying', NEW b, b = dying'[i]
                   PROVE  b \in held' /\ Refs(b)' = 0
        OBVIOUS
      <4> QED
        BY <1>10, <3>1 DEF ArcInv, DyingOK
    <3>4. \A i, j \in DOMAIN dying' : dying'[i] = dying'[j] => i = j
      BY <3>1 DEF ArcInv, DyingOK
    <3>5. DyingOK'
      BY <3>2, <3>3, <3>4 DEF DyingOK
    <3>6. DeadKept'
      BY <1>6, <1>10, <1>15, <3>1 DEF ArcInv, DeadKept, BeingDestroyed
    <3> QED
      BY <3>5, <3>6
  <2> QED
    BY <2>1, <2>2
<1>20. \A b \in held : Refs(b) = 0 => Refs(b)' = 0
  BY <1>3, <1>7, <1>14
<1> QED
  BY <1>10, <1>11, <1>12, <1>16, <1>17, <1>18, <1>19, <1>20 DEF ArcInv, ArcStep

-----------------------------------------------------------------------------
(***************************************************************************)
(* The invariant, and what follows from it.                                *)
(***************************************************************************)

\* Nothing is held and nothing refers to anything at the start.
LEMMA ArcInitInv == ArcInit => ArcInv
<1> SUFFICES ASSUME ArcInit PROVE ArcInv
  OBVIOUS
<1>1. HeapInv
  BY HeapInitInv DEF ArcInit
<1>2. held = {} /\ dying = <<>> /\ dying \in Seq(Addr)
  BY EmptySeq DEF ArcInit, HeapInit
<1>3. /\ cls = [a \in Addr |-> FALSE] /\ fld = [a \in Addr |-> [f \in Fields |-> Null]]
      /\ owns = [a \in Addr |-> {}] /\ roots = [a \in Addr |-> 0]
      /\ weakRoots = [a \in Addr |-> 0]
  BY DEF ArcInit
<1>4. cls \in [Addr -> BOOLEAN]
  BY <1>3, Zenon
<1>5. /\ fld \in [Addr -> [Fields -> Addr \cup {Null}]] /\ owns \in [Addr -> SUBSET Fields]
      /\ roots \in [Addr -> Nat] /\ weakRoots \in [Addr -> Nat]
  BY <1>3
<1>6. ArcTypeOK
  BY <1>1, <1>2, <1>4, <1>5 DEF ArcTypeOK, HeapInv
<1>7. Cardinality(held) <= MaxObjects
  BY <1>2, FS_EmptySet, ArcAssumption
<1>8. RefsHeld /\ HeadersExact /\ DeadKept /\ (\A a \in held : ~cls[a] => owns[a] = {})
  BY <1>2, <1>3 DEF RefsHeld, HeadersExact, DeadKept
<1>9. DyingOK
  <2>1. DOMAIN dying = {}
    BY <1>2
  <2> QED
    BY <1>2, <2>1 DEF DyingOK
<1> QED
  BY <1>1, <1>6, <1>7, <1>8, <1>9 DEF ArcInv

\* Every instruction keeps the invariant and is a step of the heap.
LEMMA ArcNextStep ==
  ASSUME ArcInv, [ArcNext]_arcVars
  PROVE  ArcStep
<1>1. ASSUME NEW kind \in Kinds, NEW a \in Addr, New(kind, a)
      PROVE  ArcStep
  BY <1>1, NewStep
<1>2. ASSUME NEW kind \in Kinds, NewTrap(kind)
      PROVE  ArcStep
  BY <1>2, NewTrapStep
<1>3. ASSUME NEW o \in Addr, NEW f \in Fields, NEW v \in Addr \cup {Null}, SwapField(o, f, v)
      PROVE  ArcStep
  BY <1>3, SwapFieldStep
<1>4. ASSUME NEW a \in Addr,
             Retain(a) \/ Release(a) \/ MakeWeak(a) \/ WeakLoad(a) \/ DropWeak(a)
      PROVE  ArcStep
  BY <1>4, RetainStep, ReleaseStep, MakeWeakStep, WeakLoadStep, DropWeakStep
<1>5. CASE DestroyField \/ FinishRelease
  BY <1>5, DestroyFieldStep, FinishReleaseStep
<1>6. CASE UNCHANGED arcVars
  BY <1>6, Stutter
<1> QED
  BY <1>1, <1>2, <1>3, <1>4, <1>5, <1>6 DEF ArcNext

\* The invariant holds in every run of every program that respects ownership.
LEMMA ArcInvariant == ArcSpec => []ArcInv
<1>1. ArcInv /\ [ArcNext]_arcVars => ArcInv'
  BY ArcNextStep DEF ArcStep
<1> QED
  BY <1>1, ArcInitInv, PTL DEF ArcSpec

\* The header reads as the two numbers of references.
LEMMA InvImpliesCountsExact == ArcInv => CountsExact
<1> SUFFICES ASSUME ArcInv, NEW a \in held
             PROVE  /\ Strong(a) = roots[a] + Cardinality(SlotsTo(a))
                    /\ Weak(a) = weakRoots[a]
  BY DEF CountsExact
<1> QED
  BY CountsRead DEF Refs

\* The runtime's state keeps its types.
THEOREM ArcTypeCorrect == ArcSpec => []ArcTypeOK
<1>1. ArcInv => ArcTypeOK
  BY DEF ArcInv
<1> QED
  BY <1>1, ArcInvariant, PTL

\* The two counts in a header are, at every instruction and every step of a
\* cascade, the numbers of strong and weak references there are.
THEOREM ArcCountsExact == ArcSpec => []CountsExact
<1> QED
  BY ArcInvariant, InvImpliesCountsExact, PTL

\* No reference the program or a live field holds leads to a freed block.
THEOREM ArcNoDangling == ArcSpec => []NoDangling
<1>1. ArcInv => NoDangling
  <2> SUFFICES ASSUME ArcInv PROVE NoDangling
    OBVIOUS
  <2>1. \A a \in Addr : roots[a] > 0 \/ weakRoots[a] > 0 => a \in held
    BY RefsCount
  <2>2. ASSUME NEW o \in held, NEW f \in owns[o], fld[o][f] # Null
        PROVE  fld[o][f] \in held /\ Strong(fld[o][f]) > 0
    <3>1. fld[o][f] \in held /\ Refs(fld[o][f]) > 0
      BY <2>2, FieldCounts
    <3> QED
      BY <3>1, CountsRead
  <2> QED
    BY <2>1, <2>2 DEF NoDangling
<1> QED
  BY <1>1, ArcInvariant, PTL

\* A cascade, however deep, never reaches an object it is destroying already.
THEOREM ArcDestroysOnce == ArcSpec => []DestroyedOnce
<1>1. ArcInv => DestroyedOnce
  <2> SUFFICES ASSUME ArcInv PROVE DestroyedOnce
    OBVIOUS
  <2>1. ASSUME NEW i \in DOMAIN dying
        PROVE  dying[i] \in held /\ Strong(dying[i]) = 0
    <3>1. dying[i] \in held /\ Refs(dying[i]) = 0
      BY <2>1 DEF ArcInv, DyingOK
    <3> QED
      BY <3>1, CountsRead
  <2> QED
    BY <2>1 DEF DestroyedOnce, ArcInv, DyingOK
<1> QED
  BY <1>1, ArcInvariant, PTL

\* Between cascades a dead block is kept only for a weak reference to it.
THEOREM ArcZombiesWatched == ArcSpec => []ZombieHasWeak
<1>1. ArcInv => ZombieHasWeak
  <2> SUFFICES ASSUME ArcInv, dying = <<>>, NEW a \in held, Strong(a) = 0
               PROVE  weakRoots[a] > 0
    BY DEF ZombieHasWeak
  <2>1. Refs(a) = 0
    BY CountsRead
  <2>2. DOMAIN dying = {}
    OBVIOUS
  <2> QED
    BY <2>1, <2>2 DEF ArcInv, DeadKept, BeingDestroyed
<1> QED
  BY <1>1, ArcInvariant, PTL

\* With no reference left and no cycle, dc_heap_live is zero.
THEOREM ArcLeakFree == ArcSpec => []LeakFree
<1>1. ArcInv => LeakFree
  <2> SUFFICES ASSUME ArcInv, dying = <<>>, Acyclic,
                      \A a \in Addr : roots[a] = 0 /\ weakRoots[a] = 0
               PROVE  live = 0
    BY DEF LeakFree
  <2>1. held = {}
    <3> SUFFICES ASSUME held # {} PROVE FALSE
      OBVIOUS
    <3>1. PICK a \in held : ~ \E o \in held, f \in Fields : f \in owns[o] /\ fld[o][f] = a
      BY DEF Acyclic
    <3>2. a \in Addr
      BY HeldAddresses
    <3>3. SlotsTo(a) = {}
      BY <3>1 DEF SlotsTo
    <3>4. Cardinality(SlotsTo(a)) = 0
      BY <3>3, FS_EmptySet
    <3>5. Refs(a) = 0 /\ weakRoots[a] = 0
      BY <3>2, <3>4 DEF Refs
    <3>6. DOMAIN dying = {}
      OBVIOUS
    <3> QED
      BY <3>5, <3>6 DEF ArcInv, DeadKept, BeingDestroyed
  <2> QED
    BY <2>1, FS_EmptySet DEF ArcInv, HeapInv, LiveExact
<1> QED
  BY <1>1, ArcInvariant, PTL

\* No weak load and no later release brings a dead object back.
THEOREM ArcNoResurrection == ArcSpec => NoResurrection
<1>1. ASSUME ArcInv, ArcInv', [ArcNext]_arcVars
      PROVE  \A a \in held : Strong(a) = 0 /\ a \in held' => Strong(a)' = 0
  <2> SUFFICES ASSUME NEW a \in held, Strong(a) = 0, a \in held'
               PROVE  Strong(a)' = 0
    OBVIOUS
  <2>1. Refs(a) = 0
    BY <1>1, CountsRead
  <2>2. Refs(a)' = 0
    BY <1>1, <2>1, ArcNextStep DEF ArcStep
  <2>3. CountsExact'
    BY <1>1, InvImpliesCountsExact, PTL
  <2> QED
    BY <2>2, <2>3 DEF CountsExact, Refs
<1> QED
  BY <1>1, ArcInvariant, PTL DEF ArcSpec, NoResurrection

\* Every instruction of the runtime is a step of the heap, or leaves it alone:
\* what DcHeap promises of blocks holds of objects.
THEOREM ArcImplementsHeap == ArcSpec => ImplementsHeap
<1>1. ArcInit => HeapInit
  BY DEF ArcInit
<1>2. ArcInv /\ [ArcNext]_arcVars => [HeapNext]_heapVars
  BY ArcNextStep DEF ArcStep
<1> QED
  BY <1>1, <1>2, ArcInvariant, PTL DEF ArcSpec, ImplementsHeap, HeapSpec

\* Objects never overlap, whatever is released, revived and allocated again.
THEOREM ArcObjectsApart == ArcSpec => []HeldApart
<1>1. HeapSpec => []HeldApart
  BY HeapKeepsBlocksApart
<1> QED
  BY <1>1, ArcImplementsHeap, PTL DEF ImplementsHeap
=============================================================================
