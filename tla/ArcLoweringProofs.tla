-------------------------- MODULE ArcLoweringProofs --------------------------
(***************************************************************************)
(* The counts are right after every step of every program.  Two things     *)
(* have to go together: that they are the ledger of what the calls own,    *)
(* and that whatever a call uses without owning it is owned by somebody.   *)
(***************************************************************************)
EXTENDS ArcLowering, CountedHeapProofs, FunctionTheorems, SequenceTheorems

-----------------------------------------------------------------------------
(* The ledger of what the calls in progress own: how it changes with a      *)
(* value, a variable or a call more, and what dropping a sequence of         *)
(* references does to it.                                                    *)

\* What r counts for among the strong, or among the weak references.
Side(r, weak) == IF r.weak = weak THEN r.val ELSE Null

\* The same if r is a value of an expression, which may not own it.
Owned(r, weak) == IF r.own \in Owning THEN Side(r, weak) ELSE Null

\* A ledger and the references of a sequence at the positions I.
PlusRefs(S, refs, I, weak) == [o \in Objs |-> S[o] + RefsAt(refs, I, o, weak)]

\* A sequence of references, at the positions I.
References(refs, I) ==
  \A j \in I : refs[j].val \in Ref /\ refs[j].weak \in BOOLEAN
               /\ (refs[j].weak => refs[j].val # Null)

-----------------------------------------------------------------------------
\* How often a sequence refers to an object is a number.
LEMMA RefsAtType ==
  ASSUME NEW refs, NEW I, IsFiniteSet(I), NEW o, NEW weak
  PROVE  RefsAt(refs, I, o, weak) \in Nat
<1>1. IsFiniteSet({j \in I : refs[j].val = o /\ refs[j].weak = weak})
  BY FS_Subset
<1> QED
  BY <1>1, FS_CardinalityType DEF RefsAt

\* No position, no reference.
LEMMA RefsAtNone ==
  ASSUME NEW refs, NEW o, NEW weak
  PROVE  RefsAt(refs, {}, o, weak) = 0
<1>1. {j \in {} : refs[j].val = o /\ refs[j].weak = weak} = {}
  OBVIOUS
<1> QED
  BY <1>1, FS_EmptySet DEF RefsAt

\* One position more.
LEMMA RefsAtAdd ==
  ASSUME NEW refs, NEW I, IsFiniteSet(I), NEW j, j \notin I, NEW o \in Objs, NEW weak
  PROVE  RefsAt(refs, I \cup {j}, o, weak)
           = RefsAt(refs, I, o, weak) + (IF o = Side(refs[j], weak) THEN 1 ELSE 0)
<1> DEFINE T(K) == {i \in K : refs[i].val = o /\ refs[i].weak = weak}
<1>1. IsFiniteSet(T(I)) /\ j \notin T(I)
  BY FS_Subset
<1>2. Cardinality(T(I) \cup {j}) = Cardinality(T(I)) + 1 /\ Cardinality(T(I)) \in Nat
  BY <1>1, FS_AddElement, FS_CardinalityType
<1>3. T(I \cup {j}) = IF refs[j].val = o /\ refs[j].weak = weak THEN T(I) \cup {j} ELSE T(I)
  OBVIOUS
<1>4. o = Side(refs[j], weak) <=> refs[j].val = o /\ refs[j].weak = weak
  BY CountedHeapAssumption DEF Side
<1>5. RefsAt(refs, I \cup {j}, o, weak) = Cardinality(T(I \cup {j}))
      /\ RefsAt(refs, I, o, weak) = Cardinality(T(I))
  BY DEF RefsAt
<1> HIDE DEF T
<1> QED
  BY <1>2, <1>3, <1>4, <1>5

\* Two sequences that refer to the same at positions matched one to one.
LEMMA RefsAtMatch ==
  ASSUME NEW refs, NEW I, IsFiniteSet(I), NEW others, NEW J, NEW b \in Bijection(I, J),
         \A i \in I : Same(others[b[i]], refs[i]),
         NEW o, NEW weak
  PROVE  RefsAt(others, J, o, weak) = RefsAt(refs, I, o, weak)
<1> DEFINE T == {i \in I : refs[i].val = o /\ refs[i].weak = weak}
           U == {i \in J : others[i].val = o /\ others[i].weak = weak}
           c == [i \in T |-> b[i]]
<1>1. /\ b \in [I -> J] /\ \A i, l \in I : b[i] = b[l] => i = l
      /\ \A t \in J : \E i \in I : b[i] = t
  BY DEF Bijection, Injection, Surjection, IsInjective
<1>2. IsFiniteSet(T)
  BY FS_Subset
<1>3. c \in Bijection(T, U)
  <2>1. c \in [T -> U]
    BY <1>1 DEF Same
  <2>2. \A i, l \in T : c[i] = c[l] => i = l
    BY <1>1
  <2>3. \A t \in U : \E i \in T : c[i] = t
    BY <1>1 DEF Same
  <2> HIDE DEF T, U, c
  <2> QED
    BY <2>1, <2>2, <2>3 DEF Bijection, Injection, Surjection, IsInjective
<1>4. Cardinality(U) = Cardinality(T)
  <2> HIDE DEF T, U, c
  <2> QED
    BY <1>2, <1>3, FS_Bijection DEF ExistsBijection
<1> QED
  BY <1>4 DEF RefsAt

\* Two sequences that refer to the same at the same positions.
LEMMA RefsAtSame ==
  ASSUME NEW refs, NEW I, IsFiniteSet(I), NEW others,
         \A i \in I : Same(others[i], refs[i]),
         NEW o, NEW weak
  PROVE  RefsAt(others, I, o, weak) = RefsAt(refs, I, o, weak)
<1>1. {i \in I : refs[i].val = o /\ refs[i].weak = weak}
        = {i \in I : others[i].val = o /\ others[i].weak = weak}
  BY DEF Same
<1> QED
  BY <1>1 DEF RefsAt

\* Positions taken in two parts.
LEMMA RefsAtParts ==
  ASSUME NEW refs, NEW I, NEW J, IsFiniteSet(I), IsFiniteSet(J), I \cap J = {},
         NEW o, NEW weak
  PROVE  RefsAt(refs, I \cup J, o, weak) = RefsAt(refs, I, o, weak) + RefsAt(refs, J, o, weak)
<1> DEFINE T(K) == {i \in K : refs[i].val = o /\ refs[i].weak = weak}
<1>1. IsFiniteSet(T(I)) /\ IsFiniteSet(T(J)) /\ T(I) \cap T(J) = {}
  BY FS_Subset
<1>2. T(I \cup J) = T(I) \cup T(J)
  OBVIOUS
<1>3. Cardinality(T(I) \cup T(J)) = Cardinality(T(I)) + Cardinality(T(J))
  <2>1. PICK A, B : A = T(I) /\ B = T(J)
    OBVIOUS
  <2> HIDE DEF T
  <2>2. IsFiniteSet(A) /\ IsFiniteSet(B) /\ Cardinality(A) \in Nat /\ Cardinality(B) \in Nat
    BY <1>1, <2>1, FS_CardinalityType
  <2>3. Cardinality(A \cap B) = 0
    BY <1>1, <2>1, FS_EmptySet
  <2>4. Cardinality(A \cup B) = Cardinality(A) + Cardinality(B) - Cardinality(A \cap B)
    BY <2>2, FS_Union
  <2> QED
    BY <2>1, <2>2, <2>3, <2>4
<1>4. RefsAt(refs, I \cup J, o, weak) = Cardinality(T(I \cup J))
      /\ RefsAt(refs, I, o, weak) = Cardinality(T(I))
      /\ RefsAt(refs, J, o, weak) = Cardinality(T(J))
  BY DEF RefsAt
<1> HIDE DEF T
<1> QED
  BY <1>2, <1>3, <1>4

\* The same, of the ledgers.
LEMMA PlusRefsLedger ==
  ASSUME NEW S \in Ledgers, NEW refs, NEW I, IsFiniteSet(I), NEW weak
  PROVE  /\ PlusRefs(S, refs, I, weak) \in Ledgers
         /\ PlusRefs(S, refs, {}, weak) = S
         /\ \A j : j \notin I =>
              PlusRefs(S, refs, I \cup {j}, weak)
                = Plus(PlusRefs(S, refs, I, weak), Side(refs[j], weak))
<1>1. PlusRefs(S, refs, I, weak) \in Ledgers
  BY RefsAtType DEF PlusRefs, Ledgers
<1>2. PlusRefs(S, refs, {}, weak) = S
  BY RefsAtNone DEF PlusRefs, Ledgers
<1>3. ASSUME NEW j, j \notin I
      PROVE  PlusRefs(S, refs, I \cup {j}, weak)
               = Plus(PlusRefs(S, refs, I, weak), Side(refs[j], weak))
  <2>1. ASSUME NEW o \in Objs
        PROVE  S[o] + RefsAt(refs, I \cup {j}, o, weak)
                 = PlusRefs(S, refs, I, weak)[o] + (IF o = Side(refs[j], weak) THEN 1 ELSE 0)
    <3>1. RefsAt(refs, I \cup {j}, o, weak)
           = RefsAt(refs, I, o, weak) + (IF o = Side(refs[j], weak) THEN 1 ELSE 0)
      BY <1>3, RefsAtAdd
    <3>2. RefsAt(refs, I, o, weak) \in Nat /\ S[o] \in Nat
      BY RefsAtType DEF Ledgers
    <3>3. PlusRefs(S, refs, I, weak)[o] = S[o] + RefsAt(refs, I, o, weak)
      BY DEF PlusRefs
    <3> QED
      BY <3>1, <3>2, <3>3
  <2> QED
    BY <2>1 DEF PlusRefs, Plus
<1> QED
  BY <1>1, <1>2, <1>3

\* Positions that do not count on a side.
LEMMA PlusRefsOther ==
  ASSUME NEW S \in Ledgers, NEW refs, NEW J, NEW weak, \A j \in J : refs[j].weak # weak
  PROVE  PlusRefs(S, refs, J, weak) = S
<1>1. ASSUME NEW o \in Objs PROVE RefsAt(refs, J, o, weak) = 0
  <2>1. {j \in J : refs[j].val = o /\ refs[j].weak = weak} = {}
    OBVIOUS
  <2> QED
    BY <2>1, FS_EmptySet DEF RefsAt
<1>2. \A o \in Objs : S[o] \in Nat
  BY DEF Ledgers
<1> QED
  BY <1>1, <1>2 DEF PlusRefs, Ledgers

\* Positions that count are all that matters.
LEMMA PlusRefsPart ==
  ASSUME NEW S, NEW refs, NEW I, NEW J, NEW weak,
         J \subseteq I, \A j \in I \ J : refs[j].weak # weak
  PROVE  PlusRefs(S, refs, J, weak) = PlusRefs(S, refs, I, weak)
<1>1. ASSUME NEW o \in Objs PROVE RefsAt(refs, J, o, weak) = RefsAt(refs, I, o, weak)
  <2>1. {j \in J : refs[j].val = o /\ refs[j].weak = weak}
          = {j \in I : refs[j].val = o /\ refs[j].weak = weak}
    OBVIOUS
  <2> QED
    BY <2>1 DEF RefsAt
<1> QED
  BY <1>1 DEF PlusRefs

-----------------------------------------------------------------------------
\* A reference dropped by its owner.
LEMMA DropCounted ==
  ASSUME NEW h, NEW S \in Ledgers, NEW W \in Ledgers, NEW r,
         r.val \in Ref, r.weak \in BOOLEAN, r.weak => r.val # Null,
         Counted(h, Plus(S, Side(r, FALSE)), Plus(W, Side(r, TRUE)))
  PROVE  Counted(Drop(h, r), S, W) /\ Tame(h, Drop(h, r))
<1>1. PICK x : x = r.val
  OBVIOUS
<1>2. CASE r.weak = TRUE
  <2>1. x \in Objs /\ Side(r, FALSE) = Null /\ Side(r, TRUE) = x
    BY <1>1, <1>2 DEF Side, Ref
  <2>2. Counted(h, S, Plus(W, x))
    BY <2>1, PlusLedger
  <2>3. Drop(h, r) = DropWeak(h, x)
    BY <1>1, <1>2 DEF Drop
  <2> QED
    BY <2>1, <2>2, <2>3, DropWeakCounted
<1>3. CASE r.weak = FALSE
  <2>1. x \in Ref /\ Side(r, FALSE) = x /\ Side(r, TRUE) = Null
    BY <1>1, <1>3 DEF Side
  <2>2. Counted(h, Plus(S, x), W)
    BY <2>1, PlusLedger
  <2>3. Drop(h, r) = Release(h, x)
    BY <1>1, <1>3 DEF Drop
  <2> QED
    BY <2>1, <2>2, <2>3, ReleaseCounted
<1> QED
  BY <1>2, <1>3

\* A reference dropped leaves a heap, whatever the counts.
LEMMA DropLoose ==
  ASSUME NEW h \in LooseHeaps, NEW r,
         r.val \in Ref, r.weak \in BOOLEAN, r.weak => r.val # Null
  PROVE  Drop(h, r) \in LooseHeaps
<1>1. PICK x : x = r.val
  OBVIOUS
<1>2. CASE r.weak = TRUE
  <2>1. x \in Objs
    BY <1>1, <1>2 DEF Ref
  <2> DEFINE less == [h EXCEPT ![x].weak = @ - 1]
  <2>2. less \in LooseHeaps
    BY <2>1 DEF LooseHeaps
  <2>3. FreeBlock \in [held : BOOLEAN, strong : Int, weak : Int, next : Ref]
    BY DEF FreeBlock, Ref
  <2> HIDE DEF less
  <2>4. FreeIfUnused(less, x) \in LooseHeaps
    BY <2>1, <2>2, <2>3 DEF FreeIfUnused, LooseHeaps
  <2> QED
    BY <1>1, <1>2, <2>4 DEF Drop, DropWeak, less
<1>3. CASE r.weak = FALSE
  <2>1. x \in Ref /\ Drop(h, r) = Release(h, x)
    BY <1>1, <1>3 DEF Drop
  <2> QED
    BY <2>1, ReleaseSteps
<1> QED
  BY <1>2, <1>3

\* The steps of DropAt, position by position.
LEMMA DropAtSteps ==
  ASSUME NEW h \in LooseHeaps, NEW refs, Len(refs) \in Nat, NEW I, References(refs, I)
  PROVE  \E f : /\ f[0] = h
                /\ \A n \in 1 .. Len(refs) :
                     f[n] = IF n \in I THEN Drop(f[n - 1], refs[n]) ELSE f[n - 1]
                /\ DropAt(h, refs, I) = f[Len(refs)]
<1> DEFINE N == Len(refs)
           g == [p \in (1 .. N) \X LooseHeaps |->
                   IF p[1] \in I THEN Drop(p[2], refs[p[1]]) ELSE p[2]]
           after == CHOOSE f : f = [n \in 0 .. N |->
                      IF n = 0 THEN h
                      ELSE IF n \in I THEN Drop(f[n - 1], refs[n]) ELSE f[n - 1]]
<1>1. N \in Nat
  OBVIOUS
<1>2. DropAt(h, refs, I) = after[N]
  BY DEF DropAt
<1>3. g \in [(1 .. N) \X LooseHeaps -> LooseHeaps]
  <2>1. ASSUME NEW n \in 1 .. N, NEW k \in LooseHeaps
        PROVE  (IF n \in I THEN Drop(k, refs[n]) ELSE k) \in LooseHeaps
    BY DropLoose DEF References
  <2> QED
    BY <2>1
<1>4. \A n \in 1 .. N : \A k \in LooseHeaps :
        g[<<n, k>>] = IF n \in I THEN Drop(k, refs[n]) ELSE k
  OBVIOUS
<1> HIDE DEF N, g
<1>5. PICK f : f \in FoldSteps(N, LooseHeaps, h, g)
  <2>1. FoldSteps(N, LooseHeaps, h, g) # {}
    BY <1>1, <1>3, FoldStepsExist
  <2> QED
    BY <2>1
<1>6. f \in [0 .. N -> LooseHeaps] /\ f[0] = h
  BY <1>5 DEF FoldSteps
<1>7. ASSUME NEW n \in 1 .. N
      PROVE  f[n] = IF n \in I THEN Drop(f[n - 1], refs[n]) ELSE f[n - 1]
  <2>1. n - 1 \in 0 .. N
    BY <1>1
  <2>2. f[n - 1] \in LooseHeaps /\ f[n] = g[<<n, f[n - 1]>>]
    BY <1>5, <1>6, <2>1 DEF FoldSteps
  <2> QED
    BY <1>4, <2>2
<1>8. f = [n \in 0 .. N |->
             IF n = 0 THEN h
             ELSE IF n \in I THEN Drop(f[n - 1], refs[n]) ELSE f[n - 1]]
  <2>1. f = [n \in 0 .. N |-> f[n]]
    BY <1>6
  <2>2. ASSUME NEW n \in 0 .. N
        PROVE  f[n] = IF n = 0 THEN h
                      ELSE IF n \in I THEN Drop(f[n - 1], refs[n]) ELSE f[n - 1]
    <3>1. n = 0 \/ n \in 1 .. N
      BY <1>1
    <3> QED
      BY <1>6, <1>7, <3>1
  <2> QED
    BY <2>1, <2>2
<1>9. after = [n \in 0 .. N |->
             IF n = 0 THEN h
             ELSE IF n \in I THEN Drop(after[n - 1], refs[n]) ELSE after[n - 1]]
  BY <1>8
<1> HIDE DEF after
<1>10. after[0] = h
  BY <1>1, <1>9
<1>11. \A n \in 1 .. N :
         after[n] = IF n \in I THEN Drop(after[n - 1], refs[n]) ELSE after[n - 1]
  <2> SUFFICES ASSUME NEW n \in 1 .. N
               PROVE  after[n] = IF n \in I THEN Drop(after[n - 1], refs[n]) ELSE after[n - 1]
    OBVIOUS
  <2>1. n \in 0 .. N /\ n # 0
    BY <1>1
  <2> QED
    BY <1>9, <2>1
<1> QED
  BY <1>2, <1>10, <1>11 DEF N

\* A sequence of references dropped by their owner.
LEMMA DropAtCounted ==
  ASSUME NEW h, NEW S \in Ledgers, NEW W \in Ledgers,
         NEW refs, Len(refs) \in Nat, NEW I,
         \A j \in I : j \in 1 .. Len(refs), References(refs, I),
         Counted(h, PlusRefs(S, refs, I, FALSE), PlusRefs(W, refs, I, TRUE))
  PROVE  Counted(DropAt(h, refs, I), S, W) /\ Tame(h, DropAt(h, refs, I))
<1> DEFINE N == Len(refs)
           Left(n) == {j \in I : j > n}
<1>1. h \in LooseHeaps
  BY DEF Counted, CountedHeaps, LooseHeaps
<1>2. PICK f : /\ f[0] = h
               /\ \A n \in 1 .. N :
                    f[n] = IF n \in I THEN Drop(f[n - 1], refs[n]) ELSE f[n - 1]
               /\ DropAt(h, refs, I) = f[N]
  BY <1>1, DropAtSteps
<1>3. \A n : IsFiniteSet(Left(n)) /\ Left(n) \subseteq 1 .. N
  <2>1. IsFiniteSet(1 .. N)
    BY FS_Interval
  <2>2. \A n : Left(n) \subseteq 1 .. N
    OBVIOUS
  <2> HIDE DEF Left
  <2> QED
    BY <2>1, <2>2, FS_Subset
<1>10. N \in Nat /\ (\A j \in I : j \in 1 .. N) /\ \A n \in 1 .. N : n \in Int /\ 1 <= n /\ n <= N
  OBVIOUS
<1>11. Left(0) = I /\ Left(N) = {}
  BY <1>10
<1>12. ASSUME NEW n \in Nat
       PROVE  /\ n + 1 \notin I => Left(n + 1) = Left(n)
              /\ n + 1 \in I => Left(n) = Left(n + 1) \cup {n + 1}
              /\ n + 1 \notin Left(n + 1)
  BY <1>10
<1> HIDE DEF N, Left
<1> DEFINE Right(n) == /\ Counted(f[n], PlusRefs(S, refs, Left(n), FALSE),
                                  PlusRefs(W, refs, Left(n), TRUE))
                       /\ Tame(h, f[n])
           Good == {n \in Nat : n <= N => Right(n)}
<1>13. \A n : Right(n) <=> /\ Counted(f[n], PlusRefs(S, refs, Left(n), FALSE),
                                       PlusRefs(W, refs, Left(n), TRUE))
                           /\ Tame(h, f[n])
  OBVIOUS
<1> HIDE DEF Right
<1>4. 0 \in Good
  <2>1. PlusRefs(S, refs, Left(0), FALSE) = PlusRefs(S, refs, I, FALSE)
        /\ PlusRefs(W, refs, Left(0), TRUE) = PlusRefs(W, refs, I, TRUE)
    BY <1>11
  <2> QED
    BY <1>2, <1>13, <2>1 DEF Tame
<1>5. ASSUME NEW n \in Nat, n \in Good PROVE n + 1 \in Good
  <2> SUFFICES ASSUME n + 1 <= N PROVE Right(n + 1)
    OBVIOUS
  <2>1. Right(n) /\ n + 1 \in 1 .. N /\ (n + 1) - 1 = n
    BY <1>5, <1>10
  <2>2. CASE n + 1 \notin I
    <3>1. Left(n + 1) = Left(n)
      BY <1>12, <2>2
    <3>2. f[n + 1] = f[n]
      BY <1>2, <2>1, <2>2
    <3> QED
      BY <1>13, <2>1, <3>1, <3>2
  <2>3. CASE n + 1 \in I
    <3>1. Left(n) = Left(n + 1) \cup {n + 1} /\ n + 1 \notin Left(n + 1)
      BY <1>12, <2>3
    <3>2. f[n + 1] = Drop(f[n], refs[n + 1])
      BY <1>2, <2>1, <2>3
    <3>3. PICK k, r, L : k = f[n] /\ r = refs[n + 1] /\ L = Left(n + 1)
      OBVIOUS
    <3>4. PICK A, B : A = PlusRefs(S, refs, L, FALSE) /\ B = PlusRefs(W, refs, L, TRUE)
      OBVIOUS
    <3>5. IsFiniteSet(L) /\ n + 1 \notin L
      BY <1>3, <3>1, <3>3
    <3>6. A \in Ledgers /\ PlusRefs(S, refs, Left(n), FALSE) = Plus(A, Side(r, FALSE))
      <4>1. PICK weak : weak = FALSE
        OBVIOUS
      <4>2. /\ PlusRefs(S, refs, L, weak) \in Ledgers
            /\ \A j : j \notin L => PlusRefs(S, refs, L \cup {j}, weak)
                                    = Plus(PlusRefs(S, refs, L, weak), Side(refs[j], weak))
        BY <3>5, PlusRefsLedger
      <4>3. PlusRefs(S, refs, L \cup {n + 1}, weak)
              = Plus(PlusRefs(S, refs, L, weak), Side(refs[n + 1], weak))
        BY <3>5, <4>2
      <4> QED
        BY <3>1, <3>3, <3>4, <4>1, <4>2, <4>3
    <3>7. B \in Ledgers /\ PlusRefs(W, refs, Left(n), TRUE) = Plus(B, Side(r, TRUE))
      <4>1. PICK weak : weak = TRUE
        OBVIOUS
      <4>2. /\ PlusRefs(W, refs, L, weak) \in Ledgers
            /\ \A j : j \notin L => PlusRefs(W, refs, L \cup {j}, weak)
                                    = Plus(PlusRefs(W, refs, L, weak), Side(refs[j], weak))
        BY <3>5, PlusRefsLedger
      <4>3. PlusRefs(W, refs, L \cup {n + 1}, weak)
              = Plus(PlusRefs(W, refs, L, weak), Side(refs[n + 1], weak))
        BY <3>5, <4>2
      <4> QED
        BY <3>1, <3>3, <3>4, <4>1, <4>2, <4>3
    <3>8. Counted(k, Plus(A, Side(r, FALSE)), Plus(B, Side(r, TRUE))) /\ Tame(h, k)
      BY <1>13, <2>1, <3>3, <3>6, <3>7
    <3>9. r.val \in Ref /\ r.weak \in BOOLEAN /\ (r.weak => r.val # Null)
      BY <2>3, <3>3 DEF References
    <3>10. Counted(Drop(k, r), A, B) /\ Tame(k, Drop(k, r))
      BY <3>6, <3>7, <3>8, <3>9, DropCounted
    <3>11. Tame(h, Drop(k, r))
      BY <3>8, <3>10, TameAgain
    <3> QED
      BY <1>13, <3>2, <3>3, <3>4, <3>10, <3>11
  <2> QED
    BY <2>2, <2>3
<1>6. \A n \in Nat : n \in Good
  <2> HIDE DEF Good
  <2> QED
    BY <1>4, <1>5, NatInduct
<1>7. Right(N)
  BY <1>6, <1>10
<1>8. Left(N) = {}
  BY <1>11
<1>9. PlusRefs(S, refs, {}, FALSE) = S /\ PlusRefs(W, refs, {}, TRUE) = W
  BY FS_EmptySet, PlusRefsLedger
<1> QED
  BY <1>2, <1>7, <1>8, <1>9, <1>13 DEF N

\* The same, strong references first.
LEMMA DropVarsCounted ==
  ASSUME NEW h, NEW S \in Ledgers, NEW W \in Ledgers,
         NEW refs, Len(refs) \in Nat, NEW I,
         \A j \in I : j \in 1 .. Len(refs), References(refs, I),
         Counted(h, PlusRefs(S, refs, I, FALSE), PlusRefs(W, refs, I, TRUE))
  PROVE  Counted(DropVars(h, refs, I), S, W) /\ Tame(h, DropVars(h, refs, I))
<1>1. PICK J, K : J = {i \in I : ~refs[i].weak} /\ K = {i \in I : refs[i].weak}
  OBVIOUS
<1>11. PICK yes, no : yes = TRUE /\ no = FALSE
  OBVIOUS
<1>2. /\ J \subseteq I /\ \A i \in I \ J : refs[i].weak # no
      /\ K \subseteq I /\ \A i \in I \ K : refs[i].weak # yes
      /\ \A i \in J : refs[i].weak # yes
      /\ \A i \in K : refs[i].weak # no
  BY <1>1, <1>11 DEF References
<1>3. /\ (\A j \in J : j \in 1 .. Len(refs)) /\ References(refs, J)
      /\ (\A j \in K : j \in 1 .. Len(refs)) /\ References(refs, K)
  BY <1>1 DEF References
<1>4. PICK B : B = PlusRefs(W, refs, K, TRUE)
  OBVIOUS
<1>5. B \in Ledgers
  <2>1. IsFiniteSet(K)
    <3>1. IsFiniteSet(1 .. Len(refs)) /\ K \subseteq 1 .. Len(refs)
      BY <1>3, FS_Interval
    <3> QED
      BY <3>1, FS_Subset
  <2> QED
    BY <1>4, <2>1, PlusRefsLedger
<1>6. /\ PlusRefs(S, refs, J, FALSE) = PlusRefs(S, refs, I, FALSE)
      /\ PlusRefs(S, refs, K, FALSE) = S
      /\ PlusRefs(B, refs, J, TRUE) = B
      /\ B = PlusRefs(W, refs, I, TRUE)
  <2>1. PlusRefs(S, refs, J, no) = PlusRefs(S, refs, I, no)
    BY <1>2, PlusRefsPart
  <2>2. PlusRefs(S, refs, K, no) = S
    BY <1>2, PlusRefsOther
  <2>3. PlusRefs(B, refs, J, yes) = B
    BY <1>2, <1>5, PlusRefsOther
  <2>4. PlusRefs(W, refs, K, yes) = PlusRefs(W, refs, I, yes)
    BY <1>2, PlusRefsPart
  <2> QED
    BY <1>4, <1>11, <2>1, <2>2, <2>3, <2>4, Zenon
<1>7. PICK k : k = DropAt(h, refs, J)
  OBVIOUS
<1>8. Counted(k, S, B) /\ Tame(h, k)
  <2>1. Counted(h, PlusRefs(S, refs, J, FALSE), PlusRefs(B, refs, J, TRUE))
    BY <1>6
  <2> QED
    BY <1>3, <1>5, <1>7, <2>1, DropAtCounted
<1>9. Counted(DropAt(k, refs, K), S, W) /\ Tame(k, DropAt(k, refs, K))
  <2>1. Counted(k, PlusRefs(S, refs, K, FALSE), PlusRefs(W, refs, K, TRUE))
    BY <1>4, <1>6, <1>8
  <2> QED
    BY <1>3, <2>1, DropAtCounted
<1>10. DropVars(h, refs, I) = DropAt(k, refs, K)
  BY <1>1, <1>7 DEF DropVars
<1> QED
  BY <1>8, <1>9, <1>10, TameAgain

-----------------------------------------------------------------------------
\* A call's variables and values.
LEMMA FrameShape ==
  ASSUME NEW f \in Frame
  PROVE  /\ f.vars \in Seq(Variable) /\ Len(f.vars) \in Nat /\ DOMAIN f.vars = 1 .. Len(f.vars)
         /\ f.eval \in Seq(Value) /\ Len(f.eval) \in Nat /\ DOMAIN f.eval = 1 .. Len(f.eval)
         /\ f.bodies \in Seq(Nat) /\ Len(f.bodies) \in Nat
         /\ DOMAIN f.bodies = 1 .. Len(f.bodies)
         /\ f.args \in Nat
         /\ \A j \in 1 .. Len(f.vars) : f.vars[j] \in Variable
         /\ \A j \in 1 .. Len(f.eval) : f.eval[j] \in Value
         /\ \A j \in 1 .. Len(f.bodies) : f.bodies[j] \in Nat
         /\ IsFiniteSet(OwnedVars(f)) /\ OwnedVars(f) \subseteq 1 .. Len(f.vars)
         /\ IsFiniteSet(OwnedEval(f)) /\ OwnedEval(f) \subseteq 1 .. Len(f.eval)
<1>1. f.vars \in Seq(Variable) /\ f.eval \in Seq(Value) /\ f.bodies \in Seq(Nat) /\ f.args \in Nat
  BY DEF Frame
<1>2. /\ Len(f.vars) \in Nat /\ DOMAIN f.vars = 1 .. Len(f.vars)
      /\ Len(f.eval) \in Nat /\ DOMAIN f.eval = 1 .. Len(f.eval)
      /\ Len(f.bodies) \in Nat /\ DOMAIN f.bodies = 1 .. Len(f.bodies)
  BY <1>1, LenProperties
<1>3. /\ \A j \in 1 .. Len(f.vars) : f.vars[j] \in Variable
      /\ \A j \in 1 .. Len(f.eval) : f.eval[j] \in Value
      /\ \A j \in 1 .. Len(f.bodies) : f.bodies[j] \in Nat
  BY <1>1, ElementOfSeq
<1>4. OwnedVars(f) \subseteq 1 .. Len(f.vars) /\ OwnedEval(f) \subseteq 1 .. Len(f.eval)
  BY <1>2 DEF OwnedVars, OwnedEval
<1>8. \A n \in Nat : IsFiniteSet(1 .. n)
  BY FS_Interval
<1>5. IsFiniteSet(1 .. Len(f.vars)) /\ IsFiniteSet(1 .. Len(f.eval))
  BY <1>2, <1>8
<1>6. IsFiniteSet(OwnedVars(f))
  BY <1>4, <1>5, FS_Subset
<1>7. IsFiniteSet(OwnedEval(f))
  BY <1>4, <1>5, FS_Subset
<1> QED
  BY <1>1, <1>2, <1>3, <1>4, <1>6, <1>7

\* What a call owns is a number.
LEMMA OwnersInType ==
  ASSUME NEW f \in Frame, NEW o, NEW weak
  PROVE  OwnersIn(f, o, weak) \in Nat
<1>1. RefsAt(f.vars, OwnedVars(f), o, weak) \in Nat
  BY FrameShape, RefsAtType
<1>2. RefsAt(f.eval, OwnedEval(f), o, weak) \in Nat
  BY FrameShape, RefsAtType
<1> QED
  BY <1>1, <1>2 DEF OwnersIn

\* f: the partial sums of OwnersOf.
PartialSums(f, s, o, weak) ==
  /\ f[0] = 0
  /\ \A n \in 1 .. Len(s) : f[n] = f[n - 1] + OwnersIn(s[n], o, weak)
  /\ OwnersOf(s, o, weak) = f[Len(s)]

\* There are such sums.
LEMMA OwnersSum ==
  ASSUME NEW s \in Seq(Frame), NEW o, NEW weak
  PROVE  \E f : PartialSums(f, s, o, weak)
<1> DEFINE N == Len(s)
           g == [p \in (1 .. N) \X Nat |-> p[2] + OwnersIn(s[p[1]], o, weak)]
           sum == CHOOSE f : f = [n \in 0 .. N |->
                     IF n = 0 THEN 0 ELSE f[n - 1] + OwnersIn(s[n], o, weak)]
<1>1. N \in Nat /\ \A n \in 1 .. N : s[n] \in Frame
  BY LenProperties, ElementOfSeq
<1>2. OwnersOf(s, o, weak) = sum[N]
  BY DEF OwnersOf
<1>3. g \in [(1 .. N) \X Nat -> Nat]
  BY <1>1, OwnersInType
<1>4. \A n \in 1 .. N : \A k \in Nat : g[<<n, k>>] = k + OwnersIn(s[n], o, weak)
  OBVIOUS
<1> HIDE DEF N, g
<1>5. PICK f : f \in FoldSteps(N, Nat, 0, g)
  <2>1. PICK x \in Nat : x = 0
    OBVIOUS
  <2>2. FoldSteps(N, Nat, x, g) # {}
    BY <1>1, <1>3, FoldStepsExist
  <2> QED
    BY <2>1, <2>2
<1>6. f \in [0 .. N -> Nat] /\ f[0] = 0
  BY <1>5 DEF FoldSteps
<1>7. ASSUME NEW n \in 1 .. N PROVE f[n] = f[n - 1] + OwnersIn(s[n], o, weak)
  <2>1. n - 1 \in 0 .. N
    BY <1>1
  <2>2. f[n - 1] \in Nat /\ f[n] = g[<<n, f[n - 1]>>]
    BY <1>5, <1>6, <2>1 DEF FoldSteps
  <2> QED
    BY <1>4, <2>2
<1>8. f = [n \in 0 .. N |-> IF n = 0 THEN 0 ELSE f[n - 1] + OwnersIn(s[n], o, weak)]
  <2>1. f = [n \in 0 .. N |-> f[n]]
    BY <1>6
  <2>2. ASSUME NEW n \in 0 .. N
        PROVE  f[n] = IF n = 0 THEN 0 ELSE f[n - 1] + OwnersIn(s[n], o, weak)
    <3>1. n = 0 \/ n \in 1 .. N
      BY <1>1
    <3> QED
      BY <1>6, <1>7, <3>1
  <2> QED
    BY <2>1, <2>2
<1>9. sum = [n \in 0 .. N |-> IF n = 0 THEN 0 ELSE sum[n - 1] + OwnersIn(s[n], o, weak)]
  BY <1>8
<1> HIDE DEF sum
<1>10. sum[0] = 0
  BY <1>1, <1>9
<1>11. \A n \in 1 .. N : sum[n] = sum[n - 1] + OwnersIn(s[n], o, weak)
  <2> SUFFICES ASSUME NEW n \in 1 .. N PROVE sum[n] = sum[n - 1] + OwnersIn(s[n], o, weak)
    OBVIOUS
  <2>1. n \in 0 .. N /\ n # 0
    BY <1>1
  <2> QED
    BY <1>9, <2>1
<1> QED
  BY <1>2, <1>10, <1>11 DEF N, PartialSums

\* No call owns more than all calls together.
LEMMA OwnersOfFrame ==
  ASSUME NEW s \in Seq(Frame), NEW o, NEW weak
  PROVE  /\ OwnersOf(s, o, weak) \in Nat
         /\ \A i \in 1 .. Len(s) : OwnersIn(s[i], o, weak) <= OwnersOf(s, o, weak)
<1> DEFINE N == Len(s)
<1>1. N \in Nat /\ \A n \in 1 .. N : s[n] \in Frame
  BY LenProperties, ElementOfSeq
<1>2. PICK f : /\ f[0] = 0
               /\ \A n \in 1 .. N : f[n] = f[n - 1] + OwnersIn(s[n], o, weak)
               /\ OwnersOf(s, o, weak) = f[N]
  BY OwnersSum DEF PartialSums
<1>3. \A n \in 1 .. N : OwnersIn(s[n], o, weak) \in Nat
  BY <1>1, OwnersInType
<1> DEFINE Good == {n \in Nat : n <= N =>
                      f[n] \in Nat /\ \A i \in 1 .. n : OwnersIn(s[i], o, weak) <= f[n]}
<1> HIDE DEF N
<1>4. 0 \in Good
  BY <1>2
<1>5. ASSUME NEW n \in Nat, n \in Good PROVE n + 1 \in Good
  <2> SUFFICES ASSUME n + 1 <= N
               PROVE  /\ f[n + 1] \in Nat
                      /\ \A i \in 1 .. n + 1 : OwnersIn(s[i], o, weak) <= f[n + 1]
    OBVIOUS
  <2>1. n + 1 \in 1 .. N /\ (n + 1) - 1 = n /\ n <= N
    BY <1>1
  <2>2. f[n] \in Nat /\ \A i \in 1 .. n : OwnersIn(s[i], o, weak) <= f[n]
    BY <1>5, <2>1
  <2>3. f[n + 1] = f[n] + OwnersIn(s[n + 1], o, weak) /\ OwnersIn(s[n + 1], o, weak) \in Nat
    BY <1>2, <1>3, <2>1
  <2>4. ASSUME NEW i \in 1 .. n + 1 PROVE OwnersIn(s[i], o, weak) <= f[n + 1]
    <3>1. CASE i = n + 1
      BY <2>2, <2>3, <3>1
    <3>2. CASE i # n + 1
      <4>1. i \in 1 .. n /\ i \in 1 .. N
        BY <1>1, <2>1, <3>2
      <4>2. OwnersIn(s[i], o, weak) <= f[n] /\ OwnersIn(s[i], o, weak) \in Nat
        BY <1>3, <2>2, <4>1
      <4> QED
        BY <2>2, <2>3, <4>2
    <3> QED
      BY <3>1, <3>2
  <2> QED
    BY <2>2, <2>3, <2>4
<1>6. \A n \in Nat : n \in Good
  <2> HIDE DEF Good
  <2> QED
    BY <1>4, <1>5, NatInduct
<1> QED
  BY <1>1, <1>2, <1>6 DEF N

\* A call more.
LEMMA OwnersOfAppend ==
  ASSUME NEW c \in Seq(Frame), NEW x \in Frame, NEW o, NEW weak
  PROVE  OwnersOf(Append(c, x), o, weak) = OwnersOf(c, o, weak) + OwnersIn(x, o, weak)
<1> DEFINE N == Len(c)
           d == Append(c, x)
<1>1. /\ N \in Nat /\ d \in Seq(Frame) /\ Len(d) = N + 1 /\ d[N + 1] = x
      /\ \A n \in 1 .. N : d[n] = c[n]
  BY LenProperties, AppendProperties
<1>2. PICK f : /\ f[0] = 0
               /\ \A n \in 1 .. N : f[n] = f[n - 1] + OwnersIn(c[n], o, weak)
               /\ OwnersOf(c, o, weak) = f[N]
  BY OwnersSum DEF PartialSums
<1> HIDE DEF N, d
<1>3. PICK g : /\ g[0] = 0
               /\ \A n \in 1 .. N + 1 : g[n] = g[n - 1] + OwnersIn(d[n], o, weak)
               /\ OwnersOf(d, o, weak) = g[N + 1]
  <2>1. PICK g : PartialSums(g, d, o, weak)
    BY <1>1, OwnersSum
  <2> QED
    BY <1>1, <2>1 DEF PartialSums
<1> DEFINE Good == {n \in Nat : n <= N => g[n] = f[n]}
<1>4. 0 \in Good
  BY <1>2, <1>3
<1>5. ASSUME NEW n \in Nat, n \in Good PROVE n + 1 \in Good
  <2> SUFFICES ASSUME n + 1 <= N PROVE g[n + 1] = f[n + 1]
    OBVIOUS
  <2>1. n + 1 \in 1 .. N /\ n + 1 \in 1 .. N + 1 /\ (n + 1) - 1 = n /\ g[n] = f[n]
    BY <1>1, <1>5
  <2> QED
    BY <1>1, <1>2, <1>3, <2>1
<1>6. \A n \in Nat : n \in Good
  <2> HIDE DEF Good
  <2> QED
    BY <1>4, <1>5, NatInduct
<1>7. g[N] = f[N]
  BY <1>1, <1>6
<1>8. N + 1 \in 1 .. N + 1 /\ (N + 1) - 1 = N
  BY <1>1
<1>9. g[N + 1] = g[N] + OwnersIn(x, o, weak)
  BY <1>1, <1>3, <1>8
<1> QED
  BY <1>2, <1>3, <1>7, <1>9 DEF d

\* No call, no owner.
LEMMA OwnersOfNone ==
  ASSUME NEW o, NEW weak
  PROVE  OwnersOf(<<>>, o, weak) = 0
<1>1. PICK s \in Seq(Frame) : s = <<>>
  BY EmptySeq
<1>2. PICK f : f[0] = 0 /\ OwnersOf(s, o, weak) = f[Len(s)]
  BY OwnersSum DEF PartialSums
<1> QED
  BY <1>1, <1>2

\* Ledgers of calls are ledgers.
LEMMA LedgerType ==
  ASSUME NEW s \in Seq(Frame), NEW weak
  PROVE  Ledger(s, weak) \in Ledgers
BY OwnersOfFrame DEF Ledger, Ledgers

\* A call more adds what it owns.
LEMMA LedgerAppend ==
  ASSUME NEW c \in Seq(Frame), NEW f \in Frame, NEW weak
  PROVE  \A o \in Objs : Ledger(Append(c, f), weak)[o]
            = Ledger(c, weak)[o] + RefsAt(f.vars, OwnedVars(f), o, weak)
                                 + RefsAt(f.eval, OwnedEval(f), o, weak)
<1> SUFFICES ASSUME NEW o \in Objs
             PROVE  Ledger(Append(c, f), weak)[o]
            = Ledger(c, weak)[o] + RefsAt(f.vars, OwnedVars(f), o, weak)
                                 + RefsAt(f.eval, OwnedEval(f), o, weak)
  OBVIOUS
<1>1. OwnersOf(Append(c, f), o, weak) = OwnersOf(c, o, weak) + OwnersIn(f, o, weak)
  BY OwnersOfAppend
<1>2. OwnersIn(f, o, weak) = RefsAt(f.vars, OwnedVars(f), o, weak)
                                + RefsAt(f.eval, OwnedEval(f), o, weak)
  BY DEF OwnersIn
<1>3. RefsAt(f.vars, OwnedVars(f), o, weak) \in Nat /\ RefsAt(f.eval, OwnedEval(f), o, weak) \in Nat
  BY FrameShape, RefsAtType
<1>4. OwnersOf(c, o, weak) \in Nat
  BY OwnersOfFrame
<1>5. Ledger(Append(c, f), weak)[o] = OwnersOf(Append(c, f), o, weak)
      /\ Ledger(c, weak)[o] = OwnersOf(c, o, weak)
  BY DEF Ledger
<1> QED
  BY <1>1, <1>2, <1>3, <1>4, <1>5

\* Calls that agree in what they own.
LEMMA LedgerSame ==
  ASSUME NEW c \in Seq(Frame), NEW f \in Frame, NEW g \in Frame,
         g.vars = f.vars, g.eval = f.eval, NEW weak
  PROVE  Ledger(Append(c, g), weak) = Ledger(Append(c, f), weak)
<1>1. OwnedVars(g) = OwnedVars(f) /\ OwnedEval(g) = OwnedEval(f)
  BY DEF OwnedVars, OwnedEval
<1>2. \A o \in Objs : Ledger(Append(c, g), weak)[o] = Ledger(Append(c, f), weak)[o]
  BY <1>1, LedgerAppend
<1>3. Ledger(Append(c, g), weak) \in Ledgers /\ Ledger(Append(c, f), weak) \in Ledgers
  BY AppendProperties, LedgerType
<1> QED
  BY <1>2, <1>3 DEF Ledgers

\* A value more.
LEMMA LedgerEval ==
  ASSUME NEW c \in Seq(Frame), NEW f \in Frame, NEW g \in Frame, NEW v \in Value,
         g.vars = f.vars, g.eval = Append(f.eval, v), NEW weak
  PROVE  Ledger(Append(c, g), weak) = Plus(Ledger(Append(c, f), weak), Owned(v, weak))
<1> DEFINE A == Ledger(Append(c, f), weak)
           B == Ledger(Append(c, g), weak)
           n == Len(f.eval) + 1
           I == OwnedEval(f)
<1>1. OwnedVars(g) = OwnedVars(f)
  BY DEF OwnedVars
<1>2. /\ Len(f.eval) \in Nat /\ f.eval \in Seq(Value)
      /\ Len(g.eval) = n /\ g.eval[n] = v /\ \A j \in 1 .. Len(f.eval) : g.eval[j] = f.eval[j]
      /\ DOMAIN g.eval = 1 .. n /\ DOMAIN f.eval = 1 .. Len(f.eval)
  BY FrameShape, AppendProperties
<1>3. IsFiniteSet(I) /\ n \notin I /\ \A j \in I : j \in 1 .. Len(f.eval)
  BY <1>2, FrameShape
<1>4. OwnedEval(g) = IF v.own \in Owning THEN I \cup {n} ELSE I
  <2>1. \A j : j \in 1 .. n <=> j \in 1 .. Len(f.eval) \/ j = n
    BY <1>2
  <2> HIDE DEF n
  <2> QED
    BY <1>2, <2>1 DEF OwnedEval
<1> HIDE DEF n, I
<1>5. ASSUME NEW o \in Objs
      PROVE  B[o] = A[o] + (IF o = Owned(v, weak) THEN 1 ELSE 0)
  <2>7. PICK p, q : p = f.eval /\ q = g.eval
    OBVIOUS
  <2>1. RefsAt(g.eval, I, o, weak) = RefsAt(f.eval, I, o, weak)
    <3>1. \A i \in I : Same(q[i], p[i])
      BY <1>2, <1>3, <2>7 DEF Same
    <3>2. IsFiniteSet(I)
      BY <1>3
    <3>3. RefsAt(q, I, o, weak) = RefsAt(p, I, o, weak)
      BY ONLY <3>1, <3>2, RefsAtSame
    <3> QED
      BY <2>7, <3>3
  <2>2. RefsAt(g.eval, I \cup {n}, o, weak)
          = RefsAt(g.eval, I, o, weak) + (IF o = Side(v, weak) THEN 1 ELSE 0)
    <3>1. RefsAt(q, I \cup {n}, o, weak)
            = RefsAt(q, I, o, weak) + (IF o = Side(q[n], weak) THEN 1 ELSE 0)
      BY <1>3, RefsAtAdd
    <3>2. q[n] = v
      BY <1>2, <2>7
    <3> QED
      BY <2>7, <3>1, <3>2
  <2>3. RefsAt(g.eval, OwnedEval(g), o, weak)
          = RefsAt(f.eval, I, o, weak) + (IF o = Owned(v, weak) THEN 1 ELSE 0)
    <3>1. CASE v.own \in Owning
      BY <1>4, <2>1, <2>2, <3>1 DEF Owned
    <3>2. CASE v.own \notin Owning
      <4>1. Owned(v, weak) = Null /\ o # Null
        BY <3>2, CountedHeapAssumption DEF Owned
      <4>2. RefsAt(f.eval, I, o, weak) \in Nat
        BY <1>3, RefsAtType
      <4> QED
        BY <1>4, <2>1, <3>2, <4>1, <4>2
    <3> QED
      BY <3>1, <3>2
  <2>4. A[o] = Ledger(c, weak)[o] + RefsAt(f.vars, OwnedVars(f), o, weak) + RefsAt(f.eval, I, o, weak)
    BY LedgerAppend DEF I
  <2>5. B[o] = Ledger(c, weak)[o] + RefsAt(f.vars, OwnedVars(f), o, weak)
                 + RefsAt(g.eval, OwnedEval(g), o, weak)
    BY ZenonT(40), <1>1, LedgerAppend
  <2>6. /\ Ledger(c, weak)[o] \in Nat /\ RefsAt(f.vars, OwnedVars(f), o, weak) \in Nat
        /\ RefsAt(f.eval, I, o, weak) \in Nat
    BY <1>3, LedgerType, FrameShape, RefsAtType DEF Ledgers
  <2> HIDE DEF A, B
  <2> QED
    BY <2>3, <2>4, <2>5, <2>6
<1>6. A \in Ledgers /\ B \in Ledgers
  BY AppendProperties, LedgerType
<1> HIDE DEF A, B
<1>7. B = Plus(A, Owned(v, weak))
  BY <1>5, <1>6 DEF Plus, Ledgers
<1> QED
  BY <1>7 DEF A, B

\* A tracked variable more.
LEMMA LedgerVar ==
  ASSUME NEW c \in Seq(Frame), NEW f \in Frame, NEW g \in Frame, NEW v \in Variable,
         v.tracked, g.eval = f.eval, g.vars = Append(f.vars, v), NEW weak
  PROVE  Ledger(Append(c, g), weak) = Plus(Ledger(Append(c, f), weak), Side(v, weak))
<1> DEFINE A == Ledger(Append(c, f), weak)
           B == Ledger(Append(c, g), weak)
           n == Len(f.vars) + 1
           I == OwnedVars(f)
<1>1. OwnedEval(g) = OwnedEval(f)
  BY DEF OwnedEval
<1>2. /\ Len(f.vars) \in Nat /\ f.vars \in Seq(Variable)
      /\ Len(g.vars) = n /\ g.vars[n] = v /\ \A j \in 1 .. Len(f.vars) : g.vars[j] = f.vars[j]
      /\ DOMAIN g.vars = 1 .. n /\ DOMAIN f.vars = 1 .. Len(f.vars)
  BY FrameShape, AppendProperties
<1>3. IsFiniteSet(I) /\ n \notin I /\ \A j \in I : j \in 1 .. Len(f.vars)
  BY <1>2, FrameShape
<1>4. OwnedVars(g) = I \cup {n}
  <2>1. \A j : j \in 1 .. n <=> j \in 1 .. Len(f.vars) \/ j = n
    BY <1>2
  <2> HIDE DEF n
  <2> QED
    BY <1>2, <2>1 DEF OwnedVars
<1> HIDE DEF n, I
<1>5. ASSUME NEW o \in Objs
      PROVE  B[o] = A[o] + (IF o = Side(v, weak) THEN 1 ELSE 0)
  <2>7. PICK p, q : p = f.vars /\ q = g.vars
    OBVIOUS
  <2>1. RefsAt(g.vars, I, o, weak) = RefsAt(f.vars, I, o, weak)
    <3>1. \A i \in I : Same(q[i], p[i])
      BY <1>2, <1>3, <2>7 DEF Same
    <3>2. IsFiniteSet(I)
      BY <1>3
    <3>3. RefsAt(q, I, o, weak) = RefsAt(p, I, o, weak)
      BY ONLY <3>1, <3>2, RefsAtSame
    <3> QED
      BY <2>7, <3>3
  <2>2. RefsAt(g.vars, I \cup {n}, o, weak)
          = RefsAt(g.vars, I, o, weak) + (IF o = Side(v, weak) THEN 1 ELSE 0)
    <3>1. RefsAt(q, I \cup {n}, o, weak)
            = RefsAt(q, I, o, weak) + (IF o = Side(q[n], weak) THEN 1 ELSE 0)
      BY <1>3, RefsAtAdd
    <3>2. q[n] = v
      BY <1>2, <2>7
    <3> QED
      BY <2>7, <3>1, <3>2
  <2>4. A[o] = Ledger(c, weak)[o] + RefsAt(f.vars, I, o, weak) + RefsAt(f.eval, OwnedEval(f), o, weak)
    BY LedgerAppend DEF I
  <2>5. B[o] = Ledger(c, weak)[o] + RefsAt(g.vars, I \cup {n}, o, weak)
                 + RefsAt(f.eval, OwnedEval(f), o, weak)
    BY ZenonT(40), <1>1, <1>4, LedgerAppend
  <2>6. /\ Ledger(c, weak)[o] \in Nat /\ RefsAt(f.eval, OwnedEval(f), o, weak) \in Nat
        /\ RefsAt(f.vars, I, o, weak) \in Nat
    BY <1>3, LedgerType, FrameShape, RefsAtType DEF Ledgers
  <2> HIDE DEF A, B
  <2> QED
    BY <2>1, <2>2, <2>4, <2>5, <2>6
<1>6. A \in Ledgers /\ B \in Ledgers
  BY AppendProperties, LedgerType
<1> HIDE DEF A, B
<1>7. B = Plus(A, Side(v, weak))
  BY <1>5, <1>6 DEF Plus, Ledgers
<1> QED
  BY <1>7 DEF A, B

\* What the last call owns, on top of the others.
LEMMA LedgerTop ==
  ASSUME NEW c \in Seq(Frame), NEW f \in Frame, NEW weak
  PROVE  Ledger(Append(c, f), weak)
           = PlusRefs(PlusRefs(Ledger(c, weak), f.vars, OwnedVars(f), weak),
                      f.eval, OwnedEval(f), weak)
<1>1. Ledger(Append(c, f), weak) \in Ledgers
  BY AppendProperties, LedgerType
<1>2. \A o \in Objs : Ledger(Append(c, f), weak)[o]
            = Ledger(c, weak)[o] + RefsAt(f.vars, OwnedVars(f), o, weak)
                                 + RefsAt(f.eval, OwnedEval(f), o, weak)
  BY LedgerAppend
<1> QED
  BY <1>1, <1>2 DEF PlusRefs, Ledgers

\* References and an owner, in either order.
LEMMA PlusRefsPlus ==
  ASSUME NEW S \in Ledgers, NEW refs, NEW I, IsFiniteSet(I), NEW x, NEW weak
  PROVE  PlusRefs(Plus(S, x), refs, I, weak) = Plus(PlusRefs(S, refs, I, weak), x)
<1>1. \A o \in Objs : S[o] \in Nat /\ RefsAt(refs, I, o, weak) \in Nat
  BY RefsAtType DEF Ledgers
<1> QED
  BY <1>1 DEF PlusRefs, Plus

\* References at two sets of positions, one after the other.
LEMMA PlusRefsParts ==
  ASSUME NEW S \in Ledgers, NEW refs, NEW I, NEW J, IsFiniteSet(I), IsFiniteSet(J),
         I \cap J = {}, NEW weak
  PROVE  PlusRefs(S, refs, I \cup J, weak) = PlusRefs(PlusRefs(S, refs, I, weak), refs, J, weak)
<1>1. ASSUME NEW o \in Objs
      PROVE  S[o] + RefsAt(refs, I \cup J, o, weak)
               = (S[o] + RefsAt(refs, I, o, weak)) + RefsAt(refs, J, o, weak)
  <2>1. S[o] \in Nat /\ RefsAt(refs, I, o, weak) \in Nat /\ RefsAt(refs, J, o, weak) \in Nat
    BY RefsAtType DEF Ledgers
  <2>2. RefsAt(refs, I \cup J, o, weak) = RefsAt(refs, I, o, weak) + RefsAt(refs, J, o, weak)
    BY RefsAtParts
  <2> QED
    BY <2>1, <2>2
<1> QED
  BY <1>1 DEF PlusRefs

\* Another sequence with the same references at the same positions.
LEMMA PlusRefsSame ==
  ASSUME NEW S, NEW refs, NEW I, IsFiniteSet(I), NEW others,
         \A i \in I : Same(others[i], refs[i]), NEW weak
  PROVE  PlusRefs(S, others, I, weak) = PlusRefs(S, refs, I, weak)
<1>1. \A o \in Objs : RefsAt(others, I, o, weak) = RefsAt(refs, I, o, weak)
  BY RefsAtSame
<1> QED
  BY <1>1 DEF PlusRefs

\* The references of refs at I are those of others at J, m positions before.
Shifted(refs, I, others, J, m) ==
  /\ \A j \in I : j \in Int /\ j - m \in J
  /\ \A j \in J : j \in Int /\ j + m \in I
  /\ \A j \in J : Same(others[j], refs[j + m])

\* They add up to the same.
LEMMA PlusRefsShift ==
  ASSUME NEW S, NEW refs, NEW I, NEW others, NEW J, NEW m \in Int, IsFiniteSet(I),
         Shifted(refs, I, others, J, m), NEW weak
  PROVE  PlusRefs(S, others, J, weak) = PlusRefs(S, refs, I, weak)
<1>0. /\ \A j \in I : j \in Int /\ j - m \in J
      /\ \A j \in J : j \in Int /\ j + m \in I
      /\ \A j \in J : Same(others[j], refs[j + m])
  BY DEF Shifted
<1> DEFINE b == [i \in I |-> i - m]
<1>1. b \in [I -> J] /\ (\A i, l \in I : b[i] = b[l] => i = l)
  BY <1>0
<1>2. \A t \in J : b[t + m] = t /\ t + m \in I
  BY <1>0
<1>3. \A i \in I : Same(others[b[i]], refs[i])
  <2> SUFFICES ASSUME NEW i \in I PROVE Same(others[b[i]], refs[i])
    OBVIOUS
  <2>1. b[i] \in J /\ b[i] + m = i
    BY <1>0
  <2> HIDE DEF b
  <2>2. Same(others[b[i]], refs[b[i] + m])
    BY <1>0, <2>1
  <2> QED
    BY <2>1, <2>2
<1> HIDE DEF b
<1>4. b \in Bijection(I, J)
  BY <1>1, <1>2 DEF Bijection, Injection, Surjection, IsInjective
<1>5. \A o \in Objs : RefsAt(others, J, o, weak) = RefsAt(refs, I, o, weak)
  BY <1>3, <1>4, RefsAtMatch
<1> QED
  BY <1>5 DEF PlusRefs

\* The references of refs at I are those of others at J, in the opposite
\* order: position j is position m - j.
Mirrored(refs, I, others, J, m) ==
  /\ \A j \in I : j \in Int /\ m - j \in J
  /\ \A j \in J : j \in Int /\ m - j \in I
  /\ \A j \in J : Same(others[j], refs[m - j])

\* They add up to the same.
LEMMA PlusRefsMirror ==
  ASSUME NEW S, NEW refs, NEW I, NEW others, NEW J, NEW m \in Int, IsFiniteSet(I),
         Mirrored(refs, I, others, J, m), NEW weak
  PROVE  PlusRefs(S, others, J, weak) = PlusRefs(S, refs, I, weak)
<1>0. /\ \A j \in I : j \in Int /\ m - j \in J
      /\ \A j \in J : j \in Int /\ m - j \in I
      /\ \A j \in J : Same(others[j], refs[m - j])
  BY DEF Mirrored
<1> DEFINE b == [i \in I |-> m - i]
<1>1. b \in [I -> J] /\ (\A i, l \in I : b[i] = b[l] => i = l)
  BY <1>0
<1>2. \A t \in J : b[m - t] = t /\ m - t \in I
  BY <1>0
<1>3. \A i \in I : Same(others[b[i]], refs[i])
  <2> SUFFICES ASSUME NEW i \in I PROVE Same(others[b[i]], refs[i])
    OBVIOUS
  <2>1. b[i] \in J /\ m - b[i] = i
    BY <1>0
  <2> HIDE DEF b
  <2>2. Same(others[b[i]], refs[m - b[i]])
    BY <1>0, <2>1
  <2> QED
    BY <2>1, <2>2
<1> HIDE DEF b
<1>4. b \in Bijection(I, J)
  BY <1>1, <1>2 DEF Bijection, Injection, Surjection, IsInjective
<1>5. \A o \in Objs : RefsAt(others, J, o, weak) = RefsAt(refs, I, o, weak)
  BY <1>3, <1>4, RefsAtMatch
<1> QED
  BY <1>5 DEF PlusRefs

\* I: the positions of J from m + 1 on.
From(I, J, m) == \A j : j \in I <=> j \in J /\ j > m

\* The values of a call from position m + 1 on.
LEMMA LedgerCutEval ==
  ASSUME NEW c \in Seq(Frame), NEW f \in Frame, NEW g \in Frame, NEW m \in 0 .. Len(f.eval),
         g.vars = f.vars, g.eval = SubSeq(f.eval, 1, m),
         NEW I, From(I, OwnedEval(f), m), NEW weak
  PROVE  Ledger(Append(c, f), weak) = PlusRefs(Ledger(Append(c, g), weak), f.eval, I, weak)
<1>0. \A j : j \in I <=> j \in OwnedEval(f) /\ j > m
  BY DEF From
<1> DEFINE K == OwnedEval(g)
           L == PlusRefs(Ledger(c, weak), f.vars, OwnedVars(f), weak)
<1>1. OwnedVars(g) = OwnedVars(f)
  BY DEF OwnedVars
<1>2. f.eval \in Seq(Value) /\ Len(f.eval) \in Nat /\ m \in Nat /\ m <= Len(f.eval)
      /\ DOMAIN f.eval = 1 .. Len(f.eval) /\ \A j \in 1 .. m : f.eval[j] \in Value
  BY FrameShape
<1>3. Len(g.eval) = m /\ DOMAIN g.eval = 1 .. m /\ \A j \in 1 .. m : g.eval[j] = f.eval[j]
  <2>1. /\ SubSeq(f.eval, 1, m) \in Seq(Value)
        /\ Len(SubSeq(f.eval, 1, m)) = IF 1 <= m THEN m - 1 + 1 ELSE 0
        /\ \A j \in 1 .. m - 1 + 1 : SubSeq(f.eval, 1, m)[j] = f.eval[1 + j - 1]
    BY <1>2, SubSeqProperties
  <2>2. Len(g.eval) = m /\ \A j \in 1 .. m : g.eval[j] = f.eval[j]
    BY <1>2, <2>1
  <2> QED
    BY <2>2, FrameShape
<1>4. OwnedEval(f) = K \cup I /\ K \cap I = {}
  <2>1. \A j : j \in K <=> j \in 1 .. m /\ f.eval[j].own \in Owning
    BY <1>3 DEF OwnedEval
  <2>2. \A j : j \in OwnedEval(f) <=> j \in 1 .. Len(f.eval) /\ f.eval[j].own \in Owning
    BY <1>2 DEF OwnedEval
  <2>3. \A j : /\ j \in 1 .. Len(f.eval) /\ ~(j > m) => j \in 1 .. m
               /\ j \in 1 .. m => j \in 1 .. Len(f.eval) /\ ~(j > m)
    BY <1>2
  <2> HIDE DEF K
  <2> QED
    BY <1>0, <2>1, <2>2, <2>3
<1>5. IsFiniteSet(K) /\ IsFiniteSet(I) /\ \A j \in K : j \in 1 .. m
  <2>1. I \subseteq OwnedEval(f) /\ IsFiniteSet(OwnedEval(f))
    BY <1>0, FrameShape
  <2>2. IsFiniteSet(I)
    BY <2>1, FS_Subset
  <2> QED
    BY <1>3, <2>2, FrameShape
<1>6. L \in Ledgers
  BY LedgerType, FrameShape, PlusRefsLedger
<1>7. Ledger(Append(c, f), weak) = PlusRefs(L, f.eval, K \cup I, weak)
  BY <1>4, LedgerTop
<1>8. Ledger(Append(c, g), weak) = PlusRefs(L, g.eval, K, weak)
  BY <1>1, LedgerTop
<1> HIDE DEF K, L
<1>9. PICK p, q : p = f.eval /\ q = g.eval
  OBVIOUS
<1>10. PlusRefs(L, p, K \cup I, weak) = PlusRefs(PlusRefs(L, p, K, weak), p, I, weak)
  BY <1>4, <1>5, <1>6, PlusRefsParts
<1>11. PlusRefs(L, q, K, weak) = PlusRefs(L, p, K, weak)
  <2>1. \A i \in K : Same(q[i], p[i])
    BY <1>3, <1>5, <1>9 DEF Same
  <2> QED
    BY <1>5, <2>1, PlusRefsSame
<1> QED
  BY <1>7, <1>8, <1>9, <1>10, <1>11

\* The variables of a call from position m + 1 on.
LEMMA LedgerCutVars ==
  ASSUME NEW c \in Seq(Frame), NEW f \in Frame, NEW g \in Frame, NEW m \in 0 .. Len(f.vars),
         g.eval = f.eval, g.vars = SubSeq(f.vars, 1, m),
         NEW I, From(I, OwnedVars(f), m), NEW weak
  PROVE  Ledger(Append(c, f), weak) = PlusRefs(Ledger(Append(c, g), weak), f.vars, I, weak)
<1>0. \A j : j \in I <=> j \in OwnedVars(f) /\ j > m
  BY DEF From
<1> DEFINE K == OwnedVars(g)
           R == Ledger(c, weak)
           E == OwnedEval(f)
<1>1. OwnedEval(g) = E
  BY DEF OwnedEval
<1>2. f.vars \in Seq(Variable) /\ Len(f.vars) \in Nat /\ m \in Nat /\ m <= Len(f.vars)
      /\ DOMAIN f.vars = 1 .. Len(f.vars) /\ \A j \in 1 .. m : f.vars[j] \in Variable
  BY FrameShape
<1>3. Len(g.vars) = m /\ DOMAIN g.vars = 1 .. m /\ \A j \in 1 .. m : g.vars[j] = f.vars[j]
  <2>1. /\ SubSeq(f.vars, 1, m) \in Seq(Variable)
        /\ Len(SubSeq(f.vars, 1, m)) = IF 1 <= m THEN m - 1 + 1 ELSE 0
        /\ \A j \in 1 .. m - 1 + 1 : SubSeq(f.vars, 1, m)[j] = f.vars[1 + j - 1]
    BY <1>2, SubSeqProperties
  <2>2. Len(g.vars) = m /\ \A j \in 1 .. m : g.vars[j] = f.vars[j]
    BY <1>2, <2>1
  <2> QED
    BY <2>2, FrameShape
<1>4. OwnedVars(f) = K \cup I /\ K \cap I = {}
  <2>1. \A j : j \in K <=> j \in 1 .. m /\ f.vars[j].tracked
    BY <1>3 DEF OwnedVars
  <2>2. \A j : j \in OwnedVars(f) <=> j \in 1 .. Len(f.vars) /\ f.vars[j].tracked
    BY <1>2 DEF OwnedVars
  <2>3. \A j : /\ j \in 1 .. Len(f.vars) /\ ~(j > m) => j \in 1 .. m
               /\ j \in 1 .. m => j \in 1 .. Len(f.vars) /\ ~(j > m)
    BY <1>2
  <2> HIDE DEF K
  <2> QED
    BY <1>0, <2>1, <2>2, <2>3
<1>5. IsFiniteSet(K) /\ IsFiniteSet(I) /\ IsFiniteSet(E) /\ \A j \in K : j \in 1 .. m
  <2>1. I \subseteq OwnedVars(f) /\ IsFiniteSet(OwnedVars(f))
    BY <1>0, FrameShape
  <2>2. IsFiniteSet(I)
    BY <2>1, FS_Subset
  <2> QED
    BY <1>3, <2>2, FrameShape
<1>6. R \in Ledgers
  BY LedgerType
<1>7. Ledger(Append(c, f), weak) = PlusRefs(PlusRefs(R, f.vars, K \cup I, weak), f.eval, E, weak)
  BY <1>4, LedgerTop
<1>8. Ledger(Append(c, g), weak) = PlusRefs(PlusRefs(R, g.vars, K, weak), f.eval, E, weak)
  BY <1>1, LedgerTop
<1> HIDE DEF K, R, E
<1>9. PICK p, q, e : p = f.vars /\ q = g.vars /\ e = f.eval
  OBVIOUS
<1>10. PlusRefs(R, p, K \cup I, weak) = PlusRefs(PlusRefs(R, p, K, weak), p, I, weak)
  BY <1>4, <1>5, <1>6, PlusRefsParts
<1>11. PlusRefs(R, q, K, weak) = PlusRefs(R, p, K, weak)
  <2>1. \A i \in K : Same(q[i], p[i])
    BY <1>3, <1>5, <1>9 DEF Same
  <2> QED
    BY <1>5, <2>1, PlusRefsSame
<1>12. PICK L : L = PlusRefs(R, p, K, weak)
  OBVIOUS
<1>13. PlusRefs(PlusRefs(L, p, I, weak), e, E, weak) = PlusRefs(PlusRefs(L, e, E, weak), p, I, weak)
  <2>1. L \in Ledgers
    BY <1>5, <1>6, <1>12, PlusRefsLedger
  <2>2. \A o \in Objs : L[o] \in Nat /\ RefsAt(p, I, o, weak) \in Nat /\ RefsAt(e, E, o, weak) \in Nat
    BY <1>5, <2>1, RefsAtType DEF Ledgers
  <2> QED
    BY <2>2 DEF PlusRefs
<1> QED
  BY <1>7, <1>8, <1>9, <1>10, <1>11, <1>12, <1>13

\* A tracked variable that is given another value.
LEMMA LedgerSetVar ==
  ASSUME NEW c \in Seq(Frame), NEW f \in Frame, NEW g \in Frame, NEW i \in OwnedVars(f),
         g.eval = f.eval, Len(g.vars) = Len(f.vars), g.vars[i].tracked,
         \A j \in 1 .. Len(f.vars) : j # i => g.vars[j] = f.vars[j], NEW weak
  PROVE  \E L \in Ledgers :
           /\ Ledger(Append(c, f), weak) = Plus(L, Side(f.vars[i], weak))
           /\ Ledger(Append(c, g), weak) = Plus(L, Side(g.vars[i], weak))
<1> DEFINE K == OwnedVars(f) \ {i}
           R == Ledger(c, weak)
           E == OwnedEval(f)
<1>1. OwnedEval(g) = E
  BY DEF OwnedEval
<1>2. OwnedVars(f) = K \cup {i} /\ i \notin K /\ OwnedVars(g) = K \cup {i}
  <2>1. DOMAIN f.vars = 1 .. Len(f.vars) /\ DOMAIN g.vars = 1 .. Len(f.vars)
    BY FrameShape
  <2> QED
    BY <2>1 DEF OwnedVars
<1>3. IsFiniteSet(K) /\ IsFiniteSet(E) /\ \A j \in K : j \in 1 .. Len(f.vars) /\ j # i
  <2>1. K \subseteq OwnedVars(f) /\ IsFiniteSet(OwnedVars(f))
    BY FrameShape
  <2>2. IsFiniteSet(K)
    BY <2>1, FS_Subset
  <2> QED
    BY <2>2, FrameShape
<1>4. R \in Ledgers
  BY LedgerType
<1>5. Ledger(Append(c, f), weak) = PlusRefs(PlusRefs(R, f.vars, K \cup {i}, weak), f.eval, E, weak)
  <2>1. Ledger(Append(c, f), weak)
          = PlusRefs(PlusRefs(R, f.vars, OwnedVars(f), weak), f.eval, E, weak)
    BY LedgerTop
  <2>2. OwnedVars(f) = K \cup {i}
    BY <1>2
  <2> QED
    BY <2>1, <2>2, Zenon
<1>6. Ledger(Append(c, g), weak) = PlusRefs(PlusRefs(R, g.vars, K \cup {i}, weak), f.eval, E, weak)
  <2>1. Ledger(Append(c, g), weak)
          = PlusRefs(PlusRefs(R, g.vars, OwnedVars(g), weak), g.eval, OwnedEval(g), weak)
    BY LedgerTop
  <2> QED
    BY <1>1, <1>2, <2>1
<1> HIDE DEF K, R, E
<1>7. PICK p, q, e : p = f.vars /\ q = g.vars /\ e = f.eval
  OBVIOUS
<1>8. PlusRefs(R, p, K \cup {i}, weak) = Plus(PlusRefs(R, p, K, weak), Side(p[i], weak))
  BY <1>2, <1>3, <1>4, PlusRefsLedger
<1>9. PlusRefs(R, q, K \cup {i}, weak) = Plus(PlusRefs(R, q, K, weak), Side(q[i], weak))
  BY <1>2, <1>3, <1>4, PlusRefsLedger
<1>10. PlusRefs(R, q, K, weak) = PlusRefs(R, p, K, weak)
  <2>1. \A j \in K : Same(q[j], p[j])
    BY <1>3, <1>7 DEF Same
  <2> QED
    BY <1>3, <2>1, PlusRefsSame
<1>11. PICK L : L = PlusRefs(R, p, K, weak)
  OBVIOUS
<1>12. L \in Ledgers
  BY <1>3, <1>4, <1>11, PlusRefsLedger
<1>13. PlusRefs(Plus(L, Side(p[i], weak)), e, E, weak)
         = Plus(PlusRefs(L, e, E, weak), Side(p[i], weak))
  BY <1>3, <1>12, PlusRefsPlus
<1>14. PlusRefs(Plus(L, Side(q[i], weak)), e, E, weak)
         = Plus(PlusRefs(L, e, E, weak), Side(q[i], weak))
  BY <1>3, <1>12, PlusRefsPlus
<1>15. PlusRefs(L, e, E, weak) \in Ledgers
  BY <1>3, <1>12, PlusRefsLedger
<1>16. /\ Ledger(Append(c, f), weak) = Plus(PlusRefs(L, e, E, weak), Side(p[i], weak))
       /\ Ledger(Append(c, g), weak) = Plus(PlusRefs(L, e, E, weak), Side(q[i], weak))
  BY <1>5, <1>6, <1>7, <1>8, <1>9, <1>10, <1>11, <1>13, <1>14
<1> QED
  BY <1>7, <1>15, <1>16

-----------------------------------------------------------------------------
(* That the counts are right after every step.                               *)

\* What r refers to is there to be used.
Usable(h, r) ==
  r.val # Null => r.val \in Objs /\ IF r.weak THEN h[r.val].weak > 0 ELSE h[r.val].strong > 0

VarsUsable(h, f) == \A j \in 1 .. Len(f.vars) : Usable(h, f.vars[j])
EvalUsable(h, f) == \A j \in 1 .. Len(f.eval) : Usable(h, f.eval[j])

\* What stays alive from h to k keeps its field, unless that led into D, a set
\* that follows the fields.
Steady(h, k, D) ==
  /\ \A q \in D : q \in Objs /\ h[q].next \in D \cup {Null}
  /\ \A q \in Objs : h[q].strong > 0 /\ k[q].strong > 0 =>
       k[q].next = h[q].next \/ h[q].next \in D \cup {Null}

\* No value borrowed by the call is in D.
Spared(f, D) == \A j \in 1 .. Len(f.eval) : f.eval[j].own = "borrowed" => f.eval[j].val \notin D

\* The ledger of s is that of h.
Balanced(h, s) == Counted(h, Ledger(s, FALSE), Ledger(s, TRUE))

-----------------------------------------------------------------------------
\* What a call owns can be used.
LEMMA OwnedUsable ==
  ASSUME NEW h, NEW s \in Seq(Frame), Balanced(h, s), NEW i \in 1 .. Len(s)
  PROVE  /\ \A j \in OwnedVars(s[i]) : Usable(h, s[i].vars[j])
         /\ \A j \in OwnedEval(s[i]) : Usable(h, s[i].eval[j])
<1>1. s[i] \in Frame
  BY ElementOfSeq
<1>2. ASSUME NEW refs, NEW I, IsFiniteSet(I), NEW j \in I,
             refs[j].val \in Ref, refs[j].weak \in BOOLEAN,
             \A o, weak : RefsAt(refs, I, o, weak) <= OwnersIn(s[i], o, weak)
      PROVE  Usable(h, refs[j])
  <2> SUFFICES ASSUME refs[j].val # Null PROVE Usable(h, refs[j])
    BY DEF Usable
  <2>1. PICK o, weak : o = refs[j].val /\ weak = refs[j].weak
    OBVIOUS
  <2>2. o \in Objs /\ weak \in BOOLEAN
    BY <1>2, <2>1 DEF Ref
  <2>3. RefsAt(refs, I, o, weak) > 0
    <3>1. PICK T : T = {l \in I : refs[l].val = o /\ refs[l].weak = weak}
      OBVIOUS
    <3>2. IsFiniteSet(T) /\ j \in T
      BY <1>2, <2>1, <3>1, FS_Subset
    <3>3. Cardinality(T) \in Nat /\ Cardinality(T) # 0
      BY <3>2, FS_CardinalityType, FS_EmptySet
    <3> QED
      BY <3>1, <3>3 DEF RefsAt
  <2>4. /\ RefsAt(refs, I, o, weak) \in Nat /\ OwnersIn(s[i], o, weak) \in Nat
        /\ OwnersOf(s, o, weak) \in Nat
        /\ RefsAt(refs, I, o, weak) <= OwnersIn(s[i], o, weak)
        /\ OwnersIn(s[i], o, weak) <= OwnersOf(s, o, weak)
    BY <1>1, <1>2, RefsAtType, OwnersInType, OwnersOfFrame
  <2>5. OwnersOf(s, o, weak) > 0
    BY <2>3, <2>4
  <2>6. PICK S, W : S = Ledger(s, FALSE) /\ W = Ledger(s, TRUE)
    OBVIOUS
  <2>7. S \in Ledgers /\ W \in Ledgers /\ Counted(h, S, W)
    BY <2>6, LedgerType DEF Balanced
  <2>8. CASE weak = TRUE
    <3>1. W[o] > 0
      BY <2>2, <2>5, <2>6, <2>8 DEF Ledger
    <3>2. h[o].weak > 0
      BY <2>2, <2>7, <3>1, CountedAlive
    <3> QED
      BY <2>1, <2>2, <2>8, <3>2 DEF Usable
  <2>9. CASE weak = FALSE
    <3>1. S[o] > 0
      BY <2>2, <2>5, <2>6, <2>9 DEF Ledger
    <3>2. h[o].strong > 0
      BY <2>2, <2>7, <3>1, CountedAlive
    <3> QED
      BY <2>1, <2>2, <2>9, <3>2 DEF Usable
  <2> QED
    BY <2>2, <2>8, <2>9
<1>3. \A o, weak : /\ RefsAt(s[i].vars, OwnedVars(s[i]), o, weak) <= OwnersIn(s[i], o, weak)
                   /\ RefsAt(s[i].eval, OwnedEval(s[i]), o, weak) <= OwnersIn(s[i], o, weak)
  <2> SUFFICES ASSUME NEW o, NEW weak
               PROVE  /\ RefsAt(s[i].vars, OwnedVars(s[i]), o, weak) <= OwnersIn(s[i], o, weak)
                      /\ RefsAt(s[i].eval, OwnedEval(s[i]), o, weak) <= OwnersIn(s[i], o, weak)
    OBVIOUS
  <2>1. RefsAt(s[i].vars, OwnedVars(s[i]), o, weak) \in Nat
    BY <1>1, FrameShape, RefsAtType
  <2>2. RefsAt(s[i].eval, OwnedEval(s[i]), o, weak) \in Nat
    BY <1>1, FrameShape, RefsAtType
  <2> QED
    BY <2>1, <2>2 DEF OwnersIn
<1>4. ASSUME NEW j \in OwnedVars(s[i]) PROVE Usable(h, s[i].vars[j])
  <2>1. PICK refs, I : refs = s[i].vars /\ I = OwnedVars(s[i])
    OBVIOUS
  <2>2. IsFiniteSet(I) /\ j \in I /\ refs[j] \in Variable
    BY <1>1, <2>1, FrameShape
  <2>3. refs[j].val \in Ref /\ refs[j].weak \in BOOLEAN
    BY <2>2 DEF Variable
  <2> QED
    BY <1>2, <1>3, <2>1, <2>2, <2>3
<1>5. ASSUME NEW j \in OwnedEval(s[i]) PROVE Usable(h, s[i].eval[j])
  <2>1. PICK refs, I : refs = s[i].eval /\ I = OwnedEval(s[i])
    OBVIOUS
  <2>2. IsFiniteSet(I) /\ j \in I /\ refs[j] \in Value
    BY <1>1, <2>1, FrameShape
  <2>3. refs[j].val \in Ref /\ refs[j].weak \in BOOLEAN
    BY <2>2 DEF Value
  <2> QED
    BY <1>2, <1>3, <2>1, <2>2, <2>3
<1> QED
  BY <1>4, <1>5

\* The variables of a call can be used: tracked ones are owned, others lent by
\* the caller.
LEMMA VarsUsableHere ==
  ASSUME NEW h, NEW s, CallsOK(s), Balanced(h, s), NEW i \in 1 .. Len(s),
         i > 1 => VarsUsable(h, s[i - 1]) /\ EvalUsable(h, s[i - 1])
  PROVE  VarsUsable(h, s[i])
<1>1. s \in Seq(Frame) /\ Len(s) \in Nat /\ DOMAIN s = 1 .. Len(s) /\ s[i] \in Frame
  BY LenProperties, ElementOfSeq DEF CallsOK
<1>2. ASSUME NEW j \in 1 .. Len(s[i].vars) PROVE Usable(h, s[i].vars[j])
  <2>1. j \in DOMAIN s[i].vars
    BY <1>1, FrameShape
  <2>2. CASE s[i].vars[j].tracked
    <3>1. j \in OwnedVars(s[i])
      BY <2>1, <2>2 DEF OwnedVars
    <3> QED
      BY <1>1, <3>1, OwnedUsable
  <2>3. CASE ~s[i].vars[j].tracked
    <3>1. i > 1 /\ Lends(s[i - 1], s[i].vars[j])
      BY <1>1, <2>1, <2>3 DEF CallsOK
    <3>2. i - 1 \in 1 .. Len(s) /\ s[i - 1] \in Frame
      BY <1>1, <3>1, ElementOfSeq
    <3>3. PICK f, v : f = s[i - 1] /\ v = s[i].vars[j]
      OBVIOUS
    <3>4. VarsUsable(h, f) /\ EvalUsable(h, f) /\ f \in Frame
      BY <3>1, <3>2, <3>3
    <3>5. DOMAIN f.vars = 1 .. Len(f.vars) /\ DOMAIN f.eval = 1 .. Len(f.eval)
      BY <3>4, FrameShape
    <3>6. \/ \E l \in 1 .. Len(f.vars) : Same(f.vars[l], v)
          \/ \E l \in 1 .. Len(f.eval) : Same(f.eval[l], v)
      BY <3>1, <3>3, <3>5 DEF Lends, Lent
    <3>7. Usable(h, v)
      BY <3>4, <3>6 DEF VarsUsable, EvalUsable, Usable, Same
    <3> QED
      BY <3>3, <3>7
  <2> QED
    BY <2>2, <2>3
<1> QED
  BY <1>2 DEF VarsUsable

\* And its values, those borrowed because they hang on its variables.
LEMMA EvalUsableHere ==
  ASSUME NEW h, NEW s, CallsOK(s), Balanced(h, s), NEW i \in 1 .. Len(s),
         VarsUsable(h, s[i]), FrameBorrows(h, s[i])
  PROVE  EvalUsable(h, s[i])
<1>1. s \in Seq(Frame) /\ Len(s) \in Nat /\ DOMAIN s = 1 .. Len(s) /\ s[i] \in Frame
  BY LenProperties, ElementOfSeq DEF CallsOK
<1>2. PICK f : f = s[i]
  OBVIOUS
<1>3. /\ f \in Frame /\ VarsUsable(h, f) /\ FrameBorrows(h, f) /\ FrameOK(f)
      /\ DOMAIN f.vars = 1 .. Len(f.vars) /\ DOMAIN f.eval = 1 .. Len(f.eval)
  BY <1>1, <1>2, FrameShape DEF CallsOK
<1>4. ASSUME NEW j \in 1 .. Len(f.eval) PROVE Usable(h, f.eval[j])
  <2>1. f.eval[j] \in Value /\ j \in DOMAIN f.eval
    BY <1>3, FrameShape
  <2>2. CASE f.eval[j].own \in Owning
    <3>1. j \in OwnedEval(s[i])
      BY <1>2, <2>1, <2>2 DEF OwnedEval
    <3> QED
      BY <1>1, <1>2, <3>1, OwnedUsable
  <2>3. CASE f.eval[j].own = "named"
    <3>1. PICK l \in 1 .. Len(f.vars) : Same(f.vars[l], f.eval[j])
      BY <1>3, <2>1, <2>3 DEF FrameOK
    <3> QED
      BY <1>3, <3>1 DEF VarsUsable, Usable, Same
  <2>4. CASE f.eval[j].own = "borrowed" /\ f.eval[j].val # Null
    <3>1. PICK l \in 1 .. Len(f.vars) :
            ~f.vars[l].weak /\ f.eval[j].val \in Behind(h, f.vars[l].val)
      BY <1>3, <2>1, <2>4 DEF FrameBorrows
    <3>2. PICK v, p : v = f.vars[l].val /\ p = f.eval[j].val
      OBVIOUS
    <3>3. v \in Ref /\ (v # Null => h[v].strong > 0)
      <4>1. f.vars[l] \in Variable /\ Usable(h, f.vars[l])
        BY <1>3, <3>1, FrameShape DEF VarsUsable
      <4> QED
        BY <3>1, <3>2, <4>1 DEF Variable, Usable
    <3>4. PICK S \in Ledgers, W \in Ledgers : Counted(h, S, W)
      BY <1>1, LedgerType DEF Balanced
    <3>5. p \in Objs /\ h[p].strong > 0
      BY <3>1, <3>2, <3>3, <3>4, BehindAlive
    <3>6. ~f.eval[j].weak
      BY <1>3, <2>1, <2>4 DEF FrameOK
    <3> QED
      BY <3>2, <3>5, <3>6 DEF Usable
  <2>5. CASE f.eval[j].val = Null
    BY <2>5 DEF Usable
  <2> QED
    BY <2>1, <2>2, <2>3, <2>4, <2>5 DEF Value, Owning
<1> QED
  BY <1>2, <1>4 DEF EvalUsable

\* Whatever a call of a state can name can be used.
LEMMA AllUsable ==
  ASSUME NEW h, NEW s, StateOK(h, s)
  PROVE  \A i \in 1 .. Len(s) : VarsUsable(h, s[i]) /\ EvalUsable(h, s[i])
<1> DEFINE Good == {n \in Nat : n \in 1 .. Len(s) => VarsUsable(h, s[n]) /\ EvalUsable(h, s[n])}
<1>1. s \in Seq(Frame) /\ Len(s) \in Nat /\ DOMAIN s = 1 .. Len(s) /\ CallsOK(s) /\ Balanced(h, s)
  BY LenProperties DEF StateOK, CallsOK, Balanced
<1>2. 0 \in Good
  OBVIOUS
<1>3. ASSUME NEW n \in Nat, n \in Good PROVE n + 1 \in Good
  <2> SUFFICES ASSUME n + 1 \in 1 .. Len(s)
               PROVE  VarsUsable(h, s[n + 1]) /\ EvalUsable(h, s[n + 1])
    OBVIOUS
  <2>1. PICK i \in 1 .. Len(s) : i = n + 1
    OBVIOUS
  <2>2. i > 1 => VarsUsable(h, s[i - 1]) /\ EvalUsable(h, s[i - 1])
    <3>1. i > 1 => n \in 1 .. Len(s) /\ i - 1 = n
      BY <1>1, <2>1
    <3> QED
      BY <1>3, <3>1
  <2>3. VarsUsable(h, s[i])
    BY <1>1, <2>2, VarsUsableHere
  <2>4. FrameBorrows(h, s[i])
    BY <1>1 DEF StateOK
  <2>5. EvalUsable(h, s[i])
    BY <1>1, <2>3, <2>4, EvalUsableHere
  <2> QED
    BY <2>1, <2>3, <2>5
<1>4. \A n \in Nat : n \in Good
  <2> HIDE DEF Good
  <2> QED
    BY <1>2, <1>3, NatInduct
<1> QED
  BY <1>1, <1>4

\* The strong variables of the calls of s can be used.
StrongUsable(h, f) == \A j \in 1 .. Len(f.vars) : ~f.vars[j].weak => Usable(h, f.vars[j])

\* From heap to heap: what the calls borrow from fields still hangs on their
\* variables, when what has changed is no part of it.
LEMMA Transfer ==
  ASSUME NEW h, NEW S \in Ledgers, NEW W \in Ledgers, Counted(h, S, W),
         NEW k, NEW s, CallsOK(s), Balanced(k, s),
         \A i \in 1 .. Len(s) : FrameBorrows(h, s[i]) /\ StrongUsable(h, s[i]),
         NEW D, Steady(h, k, D), \A i \in 1 .. Len(s) : Spared(s[i], D)
  PROVE  StateOK(k, s)
<1> DEFINE Good == {n \in Nat : n \in 1 .. Len(s) =>
                      VarsUsable(k, s[n]) /\ FrameBorrows(k, s[n]) /\ EvalUsable(k, s[n])}
<1>1. s \in Seq(Frame) /\ Len(s) \in Nat /\ DOMAIN s = 1 .. Len(s)
  BY LenProperties DEF CallsOK
<1>2. 0 \in Good
  OBVIOUS
<1>3. PICK T \in Ledgers, V \in Ledgers : Counted(k, T, V)
  BY <1>1, LedgerType DEF Balanced
<1>4. ASSUME NEW n \in Nat, n \in Good PROVE n + 1 \in Good
  <2> SUFFICES ASSUME n + 1 \in 1 .. Len(s)
               PROVE  VarsUsable(k, s[n + 1]) /\ FrameBorrows(k, s[n + 1]) /\ EvalUsable(k, s[n + 1])
    OBVIOUS
  <2>1. PICK i \in 1 .. Len(s) : i = n + 1
    OBVIOUS
  <2>2. i > 1 => VarsUsable(k, s[i - 1]) /\ EvalUsable(k, s[i - 1])
    <3>1. i > 1 => n \in 1 .. Len(s) /\ i - 1 = n
      BY <1>1, <2>1
    <3> QED
      BY <1>4, <3>1
  <2>3. VarsUsable(k, s[i])
    BY <2>2, VarsUsableHere
  <2>4. PICK f : f = s[i]
    OBVIOUS
  <2>5. /\ f \in Frame /\ FrameBorrows(h, f) /\ StrongUsable(h, f) /\ Spared(f, D)
        /\ VarsUsable(k, f)
        /\ DOMAIN f.vars = 1 .. Len(f.vars) /\ DOMAIN f.eval = 1 .. Len(f.eval)
    <3>1. f \in Frame
      BY <1>1, <2>4, ElementOfSeq
    <3> QED
      BY <2>3, <2>4, <3>1, FrameShape
  <2>6. ASSUME NEW j \in DOMAIN f.eval, f.eval[j].own = "borrowed", f.eval[j].val # Null
        PROVE  \E l \in DOMAIN f.vars : ~f.vars[l].weak /\ f.eval[j].val \in Behind(k, f.vars[l].val)
    <3>1. PICK l \in DOMAIN f.vars : ~f.vars[l].weak /\ f.eval[j].val \in Behind(h, f.vars[l].val)
      BY <2>5, <2>6 DEF FrameBorrows
    <3>2. PICK v, p : v = f.vars[l].val /\ p = f.eval[j].val
      OBVIOUS
    <3>3. f.vars[l] \in Variable /\ Usable(h, f.vars[l]) /\ Usable(k, f.vars[l])
      BY <2>5, <3>1, FrameShape DEF StrongUsable, VarsUsable
    <3>4. v \in Ref /\ (v # Null => h[v].strong > 0 /\ k[v].strong > 0)
      BY <3>1, <3>2, <3>3 DEF Variable, Usable
    <3>5. D \in SUBSET Objs /\ (\A q \in D : h[q].next \in D \cup {Null})
          /\ \A q \in Objs : h[q].strong > 0 /\ k[q].strong > 0 =>
               k[q].next = h[q].next \/ h[q].next \in D \cup {Null}
      BY DEF Steady
    <3>6. \A q \in Behind(h, v) : q \notin D => q \in Behind(k, v)
      BY <1>3, <3>4, <3>5, BehindSteady
    <3>7. p \notin D
      BY <2>5, <2>6, <3>2 DEF Spared
    <3> QED
      BY <3>1, <3>2, <3>6, <3>7
  <2>7. FrameBorrows(k, s[i])
    BY <2>4, <2>6 DEF FrameBorrows
  <2>8. EvalUsable(k, s[i])
    BY <2>3, <2>7, EvalUsableHere
  <2> QED
    BY <2>1, <2>3, <2>7, <2>8
<1>5. \A n \in Nat : n \in Good
  <2> HIDE DEF Good
  <2> QED
    BY <1>2, <1>4, NatInduct
<1>6. \A i \in DOMAIN s : FrameBorrows(k, s[i])
  BY <1>1, <1>5
<1> QED
  BY <1>6 DEF StateOK, Balanced

-----------------------------------------------------------------------------
(* The call on top of the stack. *)

\* The calls of c all wait for one another, the last for a call not in c.
Waiting(c) ==
  /\ c \in Seq(Frame)
  /\ \A i \in 1 .. Len(c) :
       /\ FrameOK(c[i]) /\ c[i].args # 0
       /\ \A j \in 1 .. Len(c[i].vars) :
            ~c[i].vars[j].tracked => i > 1 /\ Lends(c[i - 1], c[i].vars[j])

\* What f borrows is lent by the last of c.
LentBy(c, f) ==
  \A j \in 1 .. Len(f.vars) : ~f.vars[j].tracked => Len(c) > 0 /\ Lends(c[Len(c)], f.vars[j])

\* A stack that is not empty has a top.
LEMMA StackTop ==
  ASSUME NEW s \in Seq(Frame), s # <<>>
  PROVE  s = Append(Front(s), s[Len(s)]) /\ Front(s) \in Seq(Frame) /\ s[Len(s)] \in Frame
<1>1. Len(s) \in Nat /\ Len(s) > 0
  BY EmptySeq, LenProperties
<1>2. Front(s) = SubSeq(s, 1, Len(s) - 1)
  BY DEF Front
<1>3. Front(s) \in Seq(Frame)
  BY <1>1, <1>2, SubSeqProperties
<1>4. s[Len(s)] \in Frame
  BY <1>1, ElementOfSeq
<1>5. s = Append(SubSeq(s, 1, Len(s) - 1), s[Len(s)])
  BY <1>1, <1>4
<1> QED
  BY <1>2, <1>3, <1>4, <1>5

\* A stack whose top runs.
LEMMA CallsTop ==
  ASSUME NEW c \in Seq(Frame), NEW f \in Frame
  PROVE  CallsOK(Append(c, f)) <=> Waiting(c) /\ FrameOK(f) /\ f.args = 0 /\ LentBy(c, f)
<1> DEFINE s == Append(c, f)
<1>1. /\ s \in Seq(Frame) /\ Len(c) \in Nat /\ Len(s) = Len(c) + 1 /\ DOMAIN s = 1 .. Len(c) + 1
      /\ \A i \in 1 .. Len(c) : s[i] = c[i] /\ c[i] \in Frame
      /\ s[Len(c) + 1] = f
  BY AppendProperties, LenProperties, ElementOfSeq
<1>2. DOMAIN f.vars = 1 .. Len(f.vars) /\ f.args \in Nat
  BY FrameShape
<1>3. \A i \in 1 .. Len(c) : DOMAIN c[i].vars = 1 .. Len(c[i].vars)
  BY <1>1, FrameShape
<1> HIDE DEF s
<1>4. ASSUME CallsOK(s) PROVE Waiting(c) /\ FrameOK(f) /\ f.args = 0 /\ LentBy(c, f)
  <2>1. ASSUME NEW i \in 1 .. Len(c)
        PROVE  /\ FrameOK(c[i]) /\ c[i].args # 0
               /\ \A j \in 1 .. Len(c[i].vars) :
                    ~c[i].vars[j].tracked => i > 1 /\ Lends(c[i - 1], c[i].vars[j])
    <3>1. i \in DOMAIN s /\ i # Len(s) /\ s[i] = c[i]
      BY <1>1
    <3>2. i > 1 => s[i - 1] = c[i - 1]
      BY <1>1
    <3> QED
      BY <1>3, <1>4, <3>1, <3>2 DEF CallsOK
  <2>2. PICK m : m = Len(c) + 1
    OBVIOUS
  <2>3. m \in DOMAIN s /\ m = Len(s) /\ s[m] = f /\ (m > 1 => Len(c) > 0 /\ s[m - 1] = c[Len(c)])
    BY <1>1, <2>2
  <2>4. FrameOK(f) /\ f.args = 0 /\ LentBy(c, f)
    BY <1>2, <1>4, <2>3 DEF CallsOK, LentBy
  <2> QED
    BY <2>1, <2>4 DEF Waiting
<1>5. ASSUME Waiting(c), FrameOK(f), f.args = 0, LentBy(c, f) PROVE CallsOK(s)
  <2>1. ASSUME NEW i \in DOMAIN s
        PROVE  /\ FrameOK(s[i])
               /\ s[i].args = 0 <=> i = Len(s)
               /\ \A j \in DOMAIN s[i].vars :
                    ~s[i].vars[j].tracked => i > 1 /\ Lends(s[i - 1], s[i].vars[j])
    <3>1. CASE i \in 1 .. Len(c)
      <4>1. s[i] = c[i] /\ i # Len(s) /\ (i > 1 => s[i - 1] = c[i - 1])
        BY <1>1, <3>1
      <4> QED
        BY <1>3, <1>5, <3>1, <4>1 DEF Waiting
    <3>2. CASE i = Len(c) + 1
      <4>1. s[i] = f /\ i = Len(s) /\ (Len(c) > 0 => i > 1 /\ s[i - 1] = c[Len(c)])
        BY <1>1, <3>2
      <4> QED
        BY <1>2, <1>5, <4>1 DEF LentBy
    <3> QED
      BY <1>1, <3>1, <3>2
  <2> QED
    BY <1>1, <2>1 DEF CallsOK
<1> QED
  BY <1>4, <1>5 DEF s

\* Calls that wait, the last of them for one that runs.
LEMMA WaitingTop ==
  ASSUME NEW c \in Seq(Frame), NEW f \in Frame
  PROVE  Waiting(Append(c, f)) <=> Waiting(c) /\ FrameOK(f) /\ f.args # 0 /\ LentBy(c, f)
<1> DEFINE s == Append(c, f)
<1>1. /\ s \in Seq(Frame) /\ Len(c) \in Nat /\ Len(s) = Len(c) + 1
      /\ \A i \in 1 .. Len(c) : s[i] = c[i] /\ i \in 1 .. Len(s)
      /\ s[Len(c) + 1] = f
  BY AppendProperties, LenProperties
<1> HIDE DEF s
<1>4. ASSUME Waiting(s) PROVE Waiting(c) /\ FrameOK(f) /\ f.args # 0 /\ LentBy(c, f)
  <2>1. ASSUME NEW i \in 1 .. Len(c)
        PROVE  /\ FrameOK(c[i]) /\ c[i].args # 0
               /\ \A j \in 1 .. Len(c[i].vars) :
                    ~c[i].vars[j].tracked => i > 1 /\ Lends(c[i - 1], c[i].vars[j])
    <3>1. i \in 1 .. Len(s) /\ s[i] = c[i] /\ (i > 1 => s[i - 1] = c[i - 1])
      BY <1>1
    <3> QED
      BY <1>4, <3>1 DEF Waiting
  <2>2. PICK m : m = Len(c) + 1
    OBVIOUS
  <2>3. m \in 1 .. Len(s) /\ s[m] = f /\ (m > 1 => Len(c) > 0 /\ s[m - 1] = c[Len(c)])
    BY <1>1, <2>2
  <2>4. FrameOK(f) /\ f.args # 0 /\ LentBy(c, f)
    BY <1>4, <2>3 DEF Waiting, LentBy
  <2> QED
    BY <2>1, <2>4 DEF Waiting
<1>5. ASSUME Waiting(c), FrameOK(f), f.args # 0, LentBy(c, f) PROVE Waiting(s)
  <2>1. ASSUME NEW i \in 1 .. Len(s)
        PROVE  /\ FrameOK(s[i]) /\ s[i].args # 0
               /\ \A j \in 1 .. Len(s[i].vars) :
                    ~s[i].vars[j].tracked => i > 1 /\ Lends(s[i - 1], s[i].vars[j])
    <3>1. CASE i \in 1 .. Len(c)
      <4>1. s[i] = c[i] /\ (i > 1 => s[i - 1] = c[i - 1])
        BY <1>1, <3>1
      <4> QED
        BY <1>5, <3>1, <4>1 DEF Waiting
    <3>2. CASE i = Len(c) + 1
      <4>1. s[i] = f /\ (Len(c) > 0 => i > 1 /\ s[i - 1] = c[Len(c)])
        BY <1>1, <3>2
      <4> QED
        BY <1>5, <4>1 DEF LentBy
    <3> QED
      BY <1>1, <3>1, <3>2
  <2> QED
    BY <1>1, <2>1 DEF Waiting
<1> QED
  BY <1>4, <1>5 DEF s

\* Heaps between which the calls' borrowing is not disturbed.
LEMMA TameSteady ==
  ASSUME NEW h, NEW k, Tame(h, k)
  PROVE  Steady(h, k, {})
BY DEF Tame, Steady

\* Calls that wait, in a heap their borrowed references hang together in.
Suspended(h, c) ==
  Waiting(c) /\ \A i \in 1 .. Len(c) : FrameBorrows(h, c[i]) /\ StrongUsable(h, c[i])

\* The calls under the top are suspended.
LEMMA SuspendedUnder ==
  ASSUME NEW h, NEW c \in Seq(Frame), NEW f \in Frame, StateOK(h, Append(c, f))
  PROVE  Suspended(h, c)
<1>1. /\ Len(c) \in Nat /\ Len(Append(c, f)) = Len(c) + 1
      /\ \A i \in 1 .. Len(c) : Append(c, f)[i] = c[i]
      /\ Append(c, f) \in Seq(Frame) /\ DOMAIN Append(c, f) = 1 .. Len(c) + 1
  BY AppendProperties, LenProperties
<1>2. PICK s : s = Append(c, f)
  OBVIOUS
<1>3. \A i \in 1 .. Len(s) : VarsUsable(h, s[i])
  BY <1>2, AllUsable
<1>4. \A i \in 1 .. Len(c) : FrameBorrows(h, c[i]) /\ StrongUsable(h, c[i])
  <2>1. \A i \in 1 .. Len(c) : FrameBorrows(h, s[i]) /\ VarsUsable(h, s[i])
    BY <1>1, <1>2, <1>3 DEF StateOK
  <2>2. \A i \in 1 .. Len(c) : FrameBorrows(h, c[i]) /\ VarsUsable(h, c[i])
    BY <1>1, <1>2, <2>1
  <2> QED
    BY <2>2 DEF VarsUsable, StrongUsable
<1>5. Waiting(c)
  <2>1. CallsOK(s)
    BY <1>2 DEF StateOK
  <2> QED
    BY <1>2, <2>1, CallsTop
<1> QED
  BY <1>4, <1>5 DEF Suspended

\* One suspended call more.
LEMMA SuspendedTop ==
  ASSUME NEW h, NEW c \in Seq(Frame), NEW f \in Frame
  PROVE  Suspended(h, Append(c, f)) <=>
           /\ Suspended(h, c) /\ FrameOK(f) /\ f.args # 0 /\ LentBy(c, f)
           /\ FrameBorrows(h, f) /\ StrongUsable(h, f)
<1>1. PICK t : t = Append(c, f)
  OBVIOUS
<1>2. /\ Len(c) \in Nat /\ Len(t) = Len(c) + 1 /\ t[Len(c) + 1] = f
      /\ \A i \in 1 .. Len(c) : t[i] = c[i]
  BY <1>1, AppendProperties, LenProperties
<1>3. Waiting(t) <=> Waiting(c) /\ FrameOK(f) /\ f.args # 0 /\ LentBy(c, f)
  BY <1>1, WaitingTop
<1>4. (\A i \in 1 .. Len(t) : FrameBorrows(h, t[i]) /\ StrongUsable(h, t[i]))
        <=> /\ \A i \in 1 .. Len(c) : FrameBorrows(h, c[i]) /\ StrongUsable(h, c[i])
            /\ FrameBorrows(h, f) /\ StrongUsable(h, f)
  <2>1. \A i \in 1 .. Len(t) : i \in 1 .. Len(c) \/ i = Len(c) + 1
    BY <1>2
  <2>2. Len(c) + 1 \in 1 .. Len(t) /\ \A i \in 1 .. Len(c) : i \in 1 .. Len(t)
    BY <1>2
  <2> QED
    BY <1>2, <2>1, <2>2
<1> QED
  BY <1>1, <1>3, <1>4 DEF Suspended

\* A call that runs on top of suspended ones, in a heap that has changed.
LEMMA NewStack ==
  ASSUME NEW h, NEW S \in Ledgers, NEW W \in Ledgers, Counted(h, S, W),
         NEW c \in Seq(Frame), Suspended(h, c),
         NEW k, NEW g \in Frame, FrameOK(g), g.args = 0, LentBy(c, g),
         FrameBorrows(h, g), StrongUsable(h, g), Balanced(k, Append(c, g)),
         NEW D, Steady(h, k, D), Spared(g, D), \A i \in 1 .. Len(c) : Spared(c[i], D)
  PROVE  StateOK(k, Append(c, g))
<1>1. PICK t : t = Append(c, g)
  OBVIOUS
<1>2. /\ Len(c) \in Nat /\ Len(t) = Len(c) + 1 /\ t[Len(c) + 1] = g
      /\ \A i \in 1 .. Len(c) : t[i] = c[i]
  BY <1>1, AppendProperties, LenProperties
<1>3. CallsOK(t)
  BY <1>1, CallsTop DEF Suspended
<1>4. \A i \in 1 .. Len(t) : FrameBorrows(h, t[i]) /\ StrongUsable(h, t[i]) /\ Spared(t[i], D)
  <2> SUFFICES ASSUME NEW i \in 1 .. Len(t)
               PROVE  FrameBorrows(h, t[i]) /\ StrongUsable(h, t[i]) /\ Spared(t[i], D)
    OBVIOUS
  <2>1. CASE i \in 1 .. Len(c)
    BY <1>2, <2>1 DEF Suspended
  <2>2. CASE i = Len(c) + 1
    <3>1. t[i] = g
      BY <1>2, <2>2
    <3> QED
      BY <3>1
  <2>3. i \in 1 .. Len(c) \/ i = Len(c) + 1
    BY <1>2
  <2> QED
    BY <2>1, <2>2, <2>3
<1>5. Balanced(k, t)
  BY <1>1
<1>6. StateOK(k, t)
  BY <1>3, <1>4, <1>5, Transfer
<1> QED
  BY <1>1, <1>6

\* A step that changes the heap and the call on top.
LEMMA NewTop ==
  ASSUME NEW h, NEW c \in Seq(Frame), NEW f \in Frame, StateOK(h, Append(c, f)),
         NEW k, NEW g \in Frame, FrameOK(g), g.args = 0, LentBy(c, g),
         FrameBorrows(h, g), StrongUsable(h, g), Balanced(k, Append(c, g)),
         NEW D, Steady(h, k, D), Spared(g, D), \A i \in 1 .. Len(c) : Spared(c[i], D)
  PROVE  StateOK(k, Append(c, g))
<1>1. Append(c, f) \in Seq(Frame)
  BY AppendProperties
<1>2. PICK S \in Ledgers, W \in Ledgers : Counted(h, S, W)
  BY <1>1, LedgerType DEF StateOK
<1>3. Suspended(h, c)
  BY SuspendedUnder
<1> QED
  BY <1>2, <1>3, NewStack

-----------------------------------------------------------------------------
(* The expression of the call on top. *)

\* A value that the call f may hold.
ValueOK(h, f, v) ==
  /\ v.weak => v.val # Null /\ v.own # "borrowed"
  /\ v.own = "named" => \E l \in 1 .. Len(f.vars) : Same(f.vars[l], v)
  /\ v.own = "borrowed" /\ v.val # Null =>
       \E l \in 1 .. Len(f.vars) : ~f.vars[l].weak /\ v.val \in Behind(h, f.vars[l].val)

\* The counts of h are those of S and W and of what the value v owns.
Holding(h, S, W, v) == Counted(h, Plus(S, Owned(v, FALSE)), Plus(W, Owned(v, TRUE)))

\* The ledgers of the calls c and, on top of them, f.
Books(c, f, S, W) ==
  S \in Ledgers /\ W \in Ledgers
  /\ S = Ledger(Append(c, f), FALSE) /\ W = Ledger(Append(c, f), TRUE)

\* Stacks have ledgers.
LEMMA BooksKept ==
  ASSUME NEW c \in Seq(Frame), NEW f \in Frame
  PROVE  \E S, W : Books(c, f, S, W)
<1>1. Append(c, f) \in Seq(Frame)
  BY AppendProperties
<1>2. \A weak : Ledger(Append(c, f), weak) \in Ledgers
  BY <1>1, LedgerType
<1> QED
  BY <1>2, Zenon DEF Books

\* What is known of the top of a state.
LEMMA TopFacts ==
  ASSUME NEW h, NEW c \in Seq(Frame), NEW f \in Frame, StateOK(h, Append(c, f))
  PROVE  /\ Waiting(c) /\ FrameOK(f) /\ f.args = 0 /\ LentBy(c, f)
         /\ VarsUsable(h, f) /\ EvalUsable(h, f)
         /\ \A j \in 1 .. Len(f.eval) : ValueOK(h, f, f.eval[j])
<1>1. PICK s : s = Append(c, f)
  OBVIOUS
<1>2. Len(s) \in 1 .. Len(s) /\ s[Len(s)] = f /\ s \in Seq(Frame) /\ DOMAIN s = 1 .. Len(s)
  BY <1>1, AppendProperties, LenProperties
<1>3. CallsOK(s) /\ FrameBorrows(h, s[Len(s)])
  BY <1>1, <1>2 DEF StateOK
<1>4. VarsUsable(h, s[Len(s)]) /\ EvalUsable(h, s[Len(s)])
  BY <1>1, <1>2, AllUsable
<1>5. Waiting(c) /\ FrameOK(f) /\ f.args = 0 /\ LentBy(c, f)
  BY <1>1, <1>3, CallsTop
<1>6. DOMAIN f.vars = 1 .. Len(f.vars) /\ DOMAIN f.eval = 1 .. Len(f.eval)
  BY FrameShape
<1>7. \A j \in 1 .. Len(f.eval) : ValueOK(h, f, f.eval[j])
  BY <1>2, <1>3, <1>5, <1>6 DEF ValueOK, FrameBorrows, FrameOK
<1> QED
  BY <1>2, <1>4, <1>5, <1>7

\* A step that changes the heap and the values of the expression.
LEMMA NewEval ==
  ASSUME NEW h, NEW c \in Seq(Frame), NEW f \in Frame, StateOK(h, Append(c, f)),
         NEW g \in Frame, g.vars = f.vars, g.bodies = f.bodies, g.args = 0,
         \A j \in 1 .. Len(g.eval) : ValueOK(h, f, g.eval[j]),
         NEW k, Balanced(k, Append(c, g)), Steady(h, k, {})
  PROVE  StateOK(k, Append(c, g))
<1>1. /\ Waiting(c) /\ FrameOK(f) /\ f.args = 0 /\ LentBy(c, f) /\ VarsUsable(h, f)
  BY TopFacts
<1>2. /\ DOMAIN g.vars = 1 .. Len(g.vars) /\ DOMAIN g.eval = 1 .. Len(g.eval)
      /\ Len(g.eval) \in Nat
  BY FrameShape
<1>3. FrameOK(g)
  BY <1>1, <1>2 DEF FrameOK, ValueOK
<1>4. FrameBorrows(h, g) /\ StrongUsable(h, g) /\ LentBy(c, g)
  BY <1>1, <1>2 DEF ValueOK, FrameBorrows, StrongUsable, VarsUsable, LentBy
<1>5. PICK D : D = {}
  OBVIOUS
<1>6. Steady(h, k, D) /\ Spared(g, D) /\ \A i \in 1 .. Len(c) : Spared(c[i], D)
  BY <1>5 DEF Spared
<1> QED
  BY <1>3, <1>4, <1>6, NewTop

\* One value more.
LEMMA PushValue ==
  ASSUME NEW h, NEW c \in Seq(Frame), NEW f \in Frame, StateOK(h, Append(c, f)),
         NEW S, NEW W, Books(c, f, S, W),
         NEW v \in Value, ValueOK(h, f, v),
         NEW k, Holding(k, S, W, v), Steady(h, k, {}),
         NEW g, g = [f EXCEPT !.eval = Append(f.eval, v)]
  PROVE  StateOK(k, Append(c, g))
<1>2. /\ g.vars = f.vars /\ g.bodies = f.bodies /\ g.args = f.args /\ g.eval = Append(f.eval, v)
      /\ g \in Frame
  BY FrameShape, AppendProperties DEF Frame
<1>3. f.args = 0 /\ \A j \in 1 .. Len(f.eval) : ValueOK(h, f, f.eval[j])
  BY TopFacts
<1>4. /\ Len(g.eval) = Len(f.eval) + 1 /\ g.eval[Len(f.eval) + 1] = v
      /\ Len(f.eval) \in Nat
      /\ \A j \in 1 .. Len(f.eval) : g.eval[j] = f.eval[j]
  BY <1>2, FrameShape, AppendProperties
<1>5. \A j \in 1 .. Len(g.eval) : ValueOK(h, f, g.eval[j])
  <2> SUFFICES ASSUME NEW j \in 1 .. Len(g.eval) PROVE ValueOK(h, f, g.eval[j])
    OBVIOUS
  <2>1. j \in 1 .. Len(f.eval) \/ j = Len(f.eval) + 1
    BY <1>4
  <2> QED
    BY <1>3, <1>4, <2>1
<1>6. Balanced(k, Append(c, g))
  <2>1. \A weak : Ledger(Append(c, g), weak) = Plus(Ledger(Append(c, f), weak), Owned(v, weak))
    BY <1>2, LedgerEval
  <2>2. /\ Ledger(Append(c, g), FALSE) = Plus(S, Owned(v, FALSE))
        /\ Ledger(Append(c, g), TRUE) = Plus(W, Owned(v, TRUE))
    BY <2>1, Zenon DEF Books
  <2> QED
    BY <2>2 DEF Balanced, Holding
<1> QED
  BY <1>2, <1>3, <1>5, <1>6, NewEval

\* The call without the value on top of its expression.
LEMMA TopValue ==
  ASSUME NEW h, NEW c \in Seq(Frame), NEW f \in Frame, StateOK(h, Append(c, f)), f.eval # <<>>
  PROVE  \E b \in Frame, v \in Value, S \in Ledgers, W \in Ledgers :
           /\ b = [f EXCEPT !.eval = Front(f.eval)] /\ v = Last(f.eval)
           /\ b.vars = f.vars /\ b.bodies = f.bodies /\ b.args = f.args /\ b.eval = Front(f.eval)
           /\ f.eval = Append(b.eval, v) /\ Len(f.eval) = Len(b.eval) + 1
           /\ Books(c, b, S, W)
           /\ Holding(h, S, W, v)
           /\ ValueOK(h, f, v) /\ Usable(h, v)
           /\ \A j \in 1 .. Len(b.eval) : ValueOK(h, f, b.eval[j])
<1>1. PICK e, v : e = Front(f.eval) /\ v = f.eval[Len(f.eval)]
  OBVIOUS
<1>2. Len(f.eval) \in Nat /\ Len(f.eval) > 0 /\ f.eval \in Seq(Value)
  BY FrameShape, EmptySeq
<1>3. e = SubSeq(f.eval, 1, Len(f.eval) - 1) /\ e \in Seq(Value) /\ v \in Value
  BY <1>1, <1>2, SubSeqProperties, ElementOfSeq DEF Front
<1>4. f.eval = Append(e, v)
  BY <1>1, <1>2, <1>3
<1>5. /\ Len(f.eval) = Len(e) + 1 /\ Len(e) \in Nat
      /\ \A j \in 1 .. Len(e) : e[j] = f.eval[j] /\ j \in 1 .. Len(f.eval)
  BY <1>3, <1>4, AppendProperties, LenProperties
<1>6. PICK b : b = [f EXCEPT !.eval = e]
  OBVIOUS
<1>7. /\ b \in Frame /\ b.vars = f.vars /\ b.bodies = f.bodies /\ b.args = f.args /\ b.eval = e
  BY <1>3, <1>6 DEF Frame
<1>8. PICK S, W : Books(c, b, S, W)
  BY <1>7, BooksKept
<1>9. S \in Ledgers /\ W \in Ledgers
  BY <1>8 DEF Books
<1>10. Holding(h, S, W, v)
  <2>1. \A weak : Ledger(Append(c, f), weak) = Plus(Ledger(Append(c, b), weak), Owned(v, weak))
    <3>1. f.vars = b.vars /\ f.eval = Append(b.eval, v) /\ v \in Value /\ b \in Frame
      BY <1>3, <1>4, <1>7
    <3> QED
      BY <3>1, LedgerEval
  <2>2. /\ Ledger(Append(c, f), FALSE) = Plus(S, Owned(v, FALSE))
        /\ Ledger(Append(c, f), TRUE) = Plus(W, Owned(v, TRUE))
    BY <1>8, <2>1, Zenon DEF Books
  <2> QED
    BY <2>2 DEF StateOK, Holding
<1>11. Len(f.eval) \in 1 .. Len(f.eval)
  BY <1>2
<1>12. EvalUsable(h, f) /\ \A j \in 1 .. Len(f.eval) : ValueOK(h, f, f.eval[j])
  BY TopFacts
<1>13. ValueOK(h, f, v) /\ Usable(h, v)
  BY <1>1, <1>11, <1>12 DEF EvalUsable
<1>14. \A j \in 1 .. Len(e) : ValueOK(h, f, e[j])
  BY <1>5, <1>12
<1>15. Last(f.eval) = v
  BY <1>1 DEF Last
<1> QED
  BY <1>1, <1>3, <1>4, <1>5, <1>6, <1>7, <1>8, <1>9, <1>10, <1>13, <1>14, <1>15

\* The value on top is used up.
LEMMA PopValue ==
  ASSUME NEW h, NEW c \in Seq(Frame), NEW f \in Frame, StateOK(h, Append(c, f)),
         NEW b \in Frame, b.vars = f.vars, b.bodies = f.bodies, b.args = f.args,
         \A j \in 1 .. Len(b.eval) : ValueOK(h, f, b.eval[j]),
         NEW S, NEW W, Books(c, b, S, W),
         NEW k, Counted(k, S, W), Steady(h, k, {})
  PROVE  StateOK(k, Append(c, b))
<1>1. f.args = 0
  BY TopFacts
<1>2. Balanced(k, Append(c, b))
  BY DEF Balanced, Books
<1> QED
  BY <1>1, <1>2, NewEval

\* The value on top is replaced.
LEMMA ReplaceValue ==
  ASSUME NEW h, NEW c \in Seq(Frame), NEW f \in Frame, StateOK(h, Append(c, f)),
         NEW b \in Frame, b.vars = f.vars, b.bodies = f.bodies, b.args = f.args,
         \A j \in 1 .. Len(b.eval) : ValueOK(h, f, b.eval[j]),
         NEW S, NEW W, Books(c, b, S, W),
         NEW v \in Value, ValueOK(h, f, v),
         NEW k, Holding(k, S, W, v), Steady(h, k, {}),
         NEW g, g = [b EXCEPT !.eval = Append(b.eval, v)]
  PROVE  StateOK(k, Append(c, g))
<1>2. /\ g.vars = f.vars /\ g.bodies = f.bodies /\ g.args = f.args /\ g.eval = Append(b.eval, v)
      /\ g.vars = b.vars /\ g \in Frame
  BY FrameShape, AppendProperties DEF Frame
<1>3. f.args = 0
  BY TopFacts
<1>4. /\ Len(g.eval) = Len(b.eval) + 1 /\ g.eval[Len(b.eval) + 1] = v
      /\ Len(b.eval) \in Nat
      /\ \A j \in 1 .. Len(b.eval) : g.eval[j] = b.eval[j]
  BY <1>2, FrameShape, AppendProperties
<1>5. \A j \in 1 .. Len(g.eval) : ValueOK(h, f, g.eval[j])
  <2> SUFFICES ASSUME NEW j \in 1 .. Len(g.eval) PROVE ValueOK(h, f, g.eval[j])
    OBVIOUS
  <2>1. j \in 1 .. Len(b.eval) \/ j = Len(b.eval) + 1
    BY <1>4
  <2> QED
    BY <1>4, <2>1
<1>6. Balanced(k, Append(c, g))
  <2>1. \A weak : Ledger(Append(c, g), weak) = Plus(Ledger(Append(c, b), weak), Owned(v, weak))
    BY <1>2, LedgerEval
  <2>2. /\ Ledger(Append(c, g), FALSE) = Plus(S, Owned(v, FALSE))
        /\ Ledger(Append(c, g), TRUE) = Plus(W, Owned(v, TRUE))
    BY <2>1, Zenon DEF Books
  <2> QED
    BY <2>2 DEF Balanced, Holding
<1> QED
  BY <1>2, <1>3, <1>5, <1>6, NewEval

\* Dropping an operand if the expression owns it.
LEMMA DropIfFreshCounted ==
  ASSUME NEW h, NEW S \in Ledgers, NEW W \in Ledgers, NEW v \in Value,
         v.own # "moved", v.weak => v.val # Null, Holding(h, S, W, v)
  PROVE  Counted(DropIfFresh(h, v), S, W) /\ Tame(h, DropIfFresh(h, v))
<1>1. v.val \in Ref /\ v.weak \in BOOLEAN /\ v.own \in {"named", "borrowed", "fresh", "moved"}
  BY DEF Value
<1>2. CASE v.own = "fresh"
  <2>1. Counted(h, Plus(S, Side(v, FALSE)), Plus(W, Side(v, TRUE)))
    BY <1>2 DEF Holding, Owned, Owning
  <2>2. Counted(Drop(h, v), S, W) /\ Tame(h, Drop(h, v))
    BY <1>1, <2>1, DropCounted
  <2> QED
    BY <1>2, <2>2 DEF DropIfFresh
<1>3. CASE v.own # "fresh"
  <2>1. Owned(v, FALSE) = Null /\ Owned(v, TRUE) = Null
    BY <1>1, <1>3 DEF Owned, Owning
  <2>2. Counted(h, S, W)
    BY <2>1, PlusLedger DEF Holding
  <2> QED
    BY <1>3, <2>2 DEF DropIfFresh, Tame
<1> QED
  BY <1>2, <1>3

\* Keeping an operand: a reference the expression does not own is retained.
LEMMA RetainUnlessFreshCounted ==
  ASSUME NEW h, NEW S \in Ledgers, NEW W \in Ledgers, NEW v \in Value,
         v.own # "moved", v.weak => v.own = "fresh", Usable(h, v), Holding(h, S, W, v)
  PROVE  /\ Counted(RetainUnlessFresh(h, v), Plus(S, Side(v, FALSE)), Plus(W, Side(v, TRUE)))
         /\ Tame(h, RetainUnlessFresh(h, v))
         /\ \A p \in Objs :
              /\ RetainUnlessFresh(h, v)[p].next = h[p].next
              /\ RetainUnlessFresh(h, v)[p].strong > 0 <=> h[p].strong > 0
<1>1. v.val \in Ref /\ v.weak \in BOOLEAN /\ v.own \in {"named", "borrowed", "fresh", "moved"}
  BY DEF Value
<1>2. CASE v.own = "fresh"
  <2>1. Counted(h, Plus(S, Side(v, FALSE)), Plus(W, Side(v, TRUE)))
    BY <1>2 DEF Holding, Owned, Owning
  <2> QED
    BY <1>2, <2>1 DEF RetainUnlessFresh, Tame
<1>3. CASE v.own # "fresh"
  <2>1. Owned(v, FALSE) = Null /\ Owned(v, TRUE) = Null
    BY <1>1, <1>3 DEF Owned, Owning
  <2>2. Counted(h, S, W)
    BY <2>1, PlusLedger DEF Holding
  <2>3. v.val # Null => h[v.val].strong > 0
    BY <1>3 DEF Usable
  <2>4. /\ Counted(Retain(h, v.val), Plus(S, v.val), W) /\ Tame(h, Retain(h, v.val))
        /\ \A p \in Objs : Retain(h, v.val)[p].next = h[p].next
                           /\ (Retain(h, v.val)[p].strong > 0 <=> h[p].strong > 0)
    BY <1>1, <2>2, <2>3, RetainCounted
  <2>5. Side(v, FALSE) = v.val /\ Side(v, TRUE) = Null
    BY <1>1, <1>3 DEF Side
  <2>6. Plus(W, Side(v, TRUE)) = W
    BY <2>5, PlusLedger
  <2> QED
    BY <1>3, <2>4, <2>5, <2>6 DEF RetainUnlessFresh
<1> QED
  BY <1>2, <1>3

\* A value that is not owned counts for nothing.
LEMMA HoldingNone ==
  ASSUME NEW h, NEW S \in Ledgers, NEW W \in Ledgers, NEW v, v.own \notin Owning
  PROVE  Holding(h, S, W, v) <=> Counted(h, S, W)
<1>1. Owned(v, FALSE) = Null /\ Owned(v, TRUE) = Null
  BY DEF Owned
<1> QED
  BY <1>1, PlusLedger DEF Holding

\* A value that is owned, strong or weak.
LEMMA HoldingStrong ==
  ASSUME NEW h, NEW S \in Ledgers, NEW W \in Ledgers, NEW v,
         v.own \in Owning, v.weak = FALSE
  PROVE  Holding(h, S, W, v) <=> Counted(h, Plus(S, v.val), W)
<1>1. Owned(v, FALSE) = v.val /\ Owned(v, TRUE) = Null
  BY DEF Owned, Side
<1> QED
  BY <1>1, PlusLedger DEF Holding

\* And a weak one.
LEMMA HoldingWeak ==
  ASSUME NEW h, NEW S \in Ledgers, NEW W \in Ledgers, NEW v,
         v.own \in Owning, v.weak = TRUE
  PROVE  Holding(h, S, W, v) <=> Counted(h, S, Plus(W, v.val))
<1>1. Owned(v, FALSE) = Null /\ Owned(v, TRUE) = v.val
  BY DEF Owned, Side
<1> QED
  BY <1>1, PlusLedger DEF Holding

\* The calls in progress, and the one on top.
LEMMA SplitStack ==
  ASSUME StateOK(heap, stack), stack # <<>>
  PROVE  \E h, c, f :
           /\ c \in Seq(Frame) /\ f \in Frame
           /\ h = heap /\ c = Callers /\ f = Top /\ stack = Append(c, f)
           /\ StateOK(h, Append(c, f))
<1>1. stack \in Seq(Frame)
  BY DEF StateOK, CallsOK
<1>2. stack = Append(Front(stack), stack[Len(stack)]) /\ Front(stack) \in Seq(Frame)
      /\ stack[Len(stack)] \in Frame
  BY <1>1, StackTop
<1>3. PICK h, c, f : h = heap /\ c = Front(stack) /\ f = stack[Len(stack)]
  OBVIOUS
<1>4. c \in Seq(Frame) /\ f \in Frame /\ stack = Append(c, f)
  BY <1>2, <1>3
<1>5. StateOK(h, Append(c, f))
  BY <1>3, <1>4
<1>6. h = heap /\ c = Callers /\ f = Top
  BY <1>3 DEF Callers, Top
<1> QED
  BY <1>4, <1>5, <1>6

-----------------------------------------------------------------------------
(* The steps of an expression. *)

\* x
LEMMA VariableGetKeeps ==
  ASSUME StateOK(heap, stack), stack # <<>>, NEW i, i \in 1 .. Len(Vars), VariableGet(i)
  PROVE  StateOK(heap, stack)'
<1>1. PICK h, c, f :
        /\ c \in Seq(Frame) /\ f \in Frame
        /\ h = heap /\ c = Callers /\ f = Top /\ stack = Append(c, f)
        /\ StateOK(h, Append(c, f))
  BY SplitStack
<1>2. PICK v : v = [NewValue(f.vars[i].val, "named") EXCEPT !.weak = f.vars[i].weak]
  OBVIOUS
<1>3. PICK g : g = [f EXCEPT !.eval = Append(f.eval, v)] /\ heap' = h /\ stack' = Append(c, g)
  BY <1>1, <1>2 DEF VariableGet, SetEval, SetTop, Vars, Eval
<1>4. i \in 1 .. Len(f.vars) /\ f.vars[i] \in Variable /\ DOMAIN f.vars = 1 .. Len(f.vars)
  BY <1>1, FrameShape DEF Vars
<1>5. v.val = f.vars[i].val /\ v.own = "named" /\ v.weak = f.vars[i].weak /\ v \in Value
  BY <1>2, <1>4 DEF NewValue, Value, Variable
<1>6. FrameOK(f)
  BY <1>1, TopFacts
<1>7. ValueOK(h, f, v)
  BY <1>4, <1>5, <1>6 DEF ValueOK, Same, FrameOK
<1>8. PICK S, W : Books(c, f, S, W)
  BY <1>1, BooksKept
<1>9. Holding(h, S, W, v)
  <2>1. Counted(h, S, W)
    BY <1>1, <1>8 DEF StateOK, Books
  <2>2. S \in Ledgers /\ W \in Ledgers
    BY <1>8 DEF Books
  <2> QED
    BY <1>5, <2>1, <2>2, HoldingNone DEF Owning
<1>10. Steady(h, h, {})
  BY DEF Steady
<1>20. StateOK(h, Append(c, g))
  BY <1>1, <1>3, <1>5, <1>7, <1>8, <1>9, <1>10, PushValue
<1> QED
  BY <1>3, <1>20

\* null
LEMMA NullLiteralKeeps ==
  ASSUME StateOK(heap, stack), stack # <<>>, NullLiteral
  PROVE  StateOK(heap, stack)'
<1>1. PICK h, c, f :
        /\ c \in Seq(Frame) /\ f \in Frame
        /\ h = heap /\ c = Callers /\ f = Top /\ stack = Append(c, f)
        /\ StateOK(h, Append(c, f))
  BY SplitStack
<1>2. PICK v : v = NewValue(Null, "borrowed")
  OBVIOUS
<1>3. PICK g : g = [f EXCEPT !.eval = Append(f.eval, v)] /\ heap' = h /\ stack' = Append(c, g)
  BY <1>1, <1>2 DEF NullLiteral, SetEval, SetTop, Eval
<1>4. v.val = Null /\ v.own = "borrowed" /\ v.weak = FALSE /\ v \in Value
  BY <1>2 DEF NewValue, Value, Ref
<1>5. ValueOK(h, f, v)
  BY <1>4 DEF ValueOK
<1>6. PICK S, W : Books(c, f, S, W)
  BY <1>1, BooksKept
<1>7. Holding(h, S, W, v)
  <2>1. Counted(h, S, W)
    BY <1>1, <1>6 DEF StateOK, Books
  <2>2. S \in Ledgers /\ W \in Ledgers
    BY <1>6 DEF Books
  <2> QED
    BY <1>4, <2>1, <2>2, HoldingNone DEF Owning
<1>8. Steady(h, h, {})
  BY DEF Steady
<1>20. StateOK(h, Append(c, g))
  BY <1>1, <1>3, <1>4, <1>5, <1>6, <1>7, <1>8, PushValue
<1> QED
  BY <1>3, <1>20

\* b is the call on top without the value on top.
Below(b) ==
  /\ [Top EXCEPT !.eval = Front(Eval)] = b
  /\ \A e : [Top EXCEPT !.eval = Append(Front(Eval), e)] = [b EXCEPT !.eval = Append(b.eval, e)]

\* An operand: the call without it, and what is known of it.
LEMMA OperandFacts ==
  ASSUME StateOK(heap, stack), NEW weak \in BOOLEAN, Operand(weak)
  PROVE  \E h, c, f, b, v, S, W :
           /\ c \in Seq(Frame) /\ f \in Frame /\ b \in Frame /\ v \in Value
           /\ S \in Ledgers /\ W \in Ledgers
           /\ h = heap /\ c = Callers /\ f = Top /\ stack = Append(c, f)
           /\ StateOK(h, Append(c, f))
           /\ v = Last(Eval) /\ v.own # "moved" /\ v.weak = weak
           /\ b.vars = f.vars /\ b.bodies = f.bodies /\ b.args = f.args
           /\ Books(c, b, S, W)
           /\ Holding(h, S, W, v)
           /\ ValueOK(h, f, v) /\ Usable(h, v)
           /\ \A j \in 1 .. Len(b.eval) : ValueOK(h, f, b.eval[j])
           /\ Below(b)
<1>1. stack # <<>> /\ Eval # <<>>
  BY DEF Operand, Running
<1>2. PICK h, c, f :
        /\ c \in Seq(Frame) /\ f \in Frame
        /\ h = heap /\ c = Callers /\ f = Top /\ stack = Append(c, f)
        /\ StateOK(h, Append(c, f))
  BY <1>1, SplitStack
<1>3. f.eval # <<>> /\ Eval = f.eval
  BY <1>1, <1>2 DEF Eval
<1>4. PICK b \in Frame, v \in Value, S \in Ledgers, W \in Ledgers :
        /\ b = [f EXCEPT !.eval = Front(f.eval)] /\ v = Last(f.eval)
        /\ b.vars = f.vars /\ b.bodies = f.bodies /\ b.args = f.args /\ b.eval = Front(f.eval)
        /\ Books(c, b, S, W)
        /\ Holding(h, S, W, v)
        /\ ValueOK(h, f, v) /\ Usable(h, v)
        /\ \A j \in 1 .. Len(b.eval) : ValueOK(h, f, b.eval[j])
  BY <1>2, <1>3, TopValue
<1>5. v = Last(Eval) /\ v.own # "moved" /\ v.weak = weak
  BY <1>3, <1>4 DEF Operand
<1>6. \A e : [Top EXCEPT !.eval = Append(Front(Eval), e)] = [b EXCEPT !.eval = Append(b.eval, e)]
  BY <1>2, <1>3, <1>4 DEF Frame
<1>7. Below(b)
  BY <1>2, <1>3, <1>4, <1>6 DEF Below
<1> QED
  BY <1>2, <1>4, <1>5, <1>7

\* The value is compared, or a scalar read through it.
LEMMA ReadScalarKeeps ==
  ASSUME StateOK(heap, stack), ReadScalar
  PROVE  StateOK(heap, stack)'
<1>1. PICK h, c, f, b, v, S, W :
        /\ c \in Seq(Frame) /\ f \in Frame /\ b \in Frame /\ v \in Value
        /\ S \in Ledgers /\ W \in Ledgers
        /\ h = heap /\ c = Callers /\ f = Top /\ stack = Append(c, f)
        /\ StateOK(h, Append(c, f))
        /\ v = Last(Eval) /\ v.own # "moved" /\ v.weak = FALSE
        /\ b.vars = f.vars /\ b.bodies = f.bodies /\ b.args = f.args
        /\ Books(c, b, S, W)
        /\ Holding(h, S, W, v)
        /\ ValueOK(h, f, v) /\ Usable(h, v)
        /\ \A j \in 1 .. Len(b.eval) : ValueOK(h, f, b.eval[j])
        /\ Below(b)
  BY OperandFacts DEF ReadScalar
<1>2. PICK k : k = DropIfFresh(h, v)
  OBVIOUS
<1>3. heap' = k /\ stack' = Append(c, b)
  BY <1>1, <1>2 DEF ReadScalar, SetEval, SetTop, Below
<1>4. Counted(k, S, W) /\ Tame(h, k)
  BY <1>1, <1>2, DropIfFreshCounted DEF ValueOK
<1>5. Steady(h, k, {})
  BY <1>4, TameSteady
<1>6. StateOK(k, Append(c, b))
  BY <1>1, <1>4, <1>5, PopValue
<1> QED
  BY <1>3, <1>6

\* A read of a field.
LEMMA HeapFieldLoadKeeps ==
  ASSUME StateOK(heap, stack), HeapFieldLoad
  PROVE  StateOK(heap, stack)'
<1>1. PICK h, c, f, b, v, S, W :
        /\ c \in Seq(Frame) /\ f \in Frame /\ b \in Frame /\ v \in Value
        /\ S \in Ledgers /\ W \in Ledgers
        /\ h = heap /\ c = Callers /\ f = Top /\ stack = Append(c, f)
        /\ StateOK(h, Append(c, f))
        /\ v = Last(Eval) /\ v.own # "moved" /\ v.weak = FALSE
        /\ b.vars = f.vars /\ b.bodies = f.bodies /\ b.args = f.args
        /\ Books(c, b, S, W)
        /\ Holding(h, S, W, v)
        /\ ValueOK(h, f, v) /\ Usable(h, v)
        /\ \A j \in 1 .. Len(b.eval) : ValueOK(h, f, b.eval[j])
        /\ Below(b)
  BY OperandFacts DEF HeapFieldLoad
<1>2. PICK child, lasts, k, u :
        /\ child = h[v.val].next /\ lasts = (v.own = "fresh")
        /\ u = NewValue(child, IF lasts THEN "fresh" ELSE "borrowed")
        /\ k = IF lasts THEN Release(Retain(h, child), v.val) ELSE h
  OBVIOUS
<1>3. PICK g : g = [b EXCEPT !.eval = Append(b.eval, u)] /\ v.val # Null /\ heap' = k /\ stack' = Append(c, g)
  BY <1>1, <1>2 DEF HeapFieldLoad, SetEval, SetTop, Below
<1>4. v.val \in Objs /\ h[v.val].strong > 0
  BY <1>1, <1>3 DEF Usable
<1>5. child \in Ref
  <2>1. h \in CountedHeaps
    BY <1>1 DEF Holding, Counted
  <2> QED
    BY <1>2, <1>4, <2>1 DEF CountedHeaps
<1>6. u.val = child /\ u.weak = FALSE /\ u.own = (IF lasts THEN "fresh" ELSE "borrowed")
      /\ u \in Value
  BY <1>2, <1>5 DEF NewValue, Value
<1>7. CASE v.own = "fresh"
  <2>1. Counted(h, Plus(S, v.val), W)
    <3>1. v.own \in Owning
      BY <1>7 DEF Owning
    <3> QED
      BY <1>1, <3>1, HoldingStrong
  <2>2. Plus(S, v.val) \in Ledgers
    BY <1>1, <1>4, PlusLedger DEF Ref
  <2>3. child # Null => h[child].strong > 0
    BY <1>1, <1>2, <1>4, <1>5, <2>1, <2>2, CountedAlive DEF Ref
  <2>4. /\ Counted(Retain(h, child), Plus(Plus(S, v.val), child), W)
        /\ Tame(h, Retain(h, child))
    BY <1>1, <1>5, <2>1, <2>2, <2>3, RetainCounted
  <2>5. Plus(Plus(S, v.val), child) = Plus(Plus(S, child), v.val) /\ Plus(S, child) \in Ledgers
    <3>1. v.val \in Ref
      BY <1>4 DEF Ref
    <3> QED
      BY <1>1, <1>5, <3>1, PlusLedger
  <2>6. PICK r : r = Retain(h, child)
    OBVIOUS
  <2>7. k = Release(r, v.val)
    BY <1>2, <1>7, <2>6
  <2>8. Counted(k, Plus(S, child), W) /\ Tame(r, k)
    <3>1. Counted(r, Plus(Plus(S, child), v.val), W) /\ v.val \in Ref
      BY <1>4, <2>4, <2>5, <2>6 DEF Ref
    <3> QED
      BY <1>1, <2>5, <2>7, <3>1, ReleaseCounted
  <2>9. Steady(h, k, {})
    BY <2>4, <2>6, <2>8, TameAgain, TameSteady
  <2>10. u.own = "fresh"
    BY <1>2, <1>6, <1>7
  <2>11. Holding(k, S, W, u)
    <3>1. u.own \in Owning /\ u.weak = FALSE /\ u.val = child
      BY <1>6, <2>10 DEF Owning
    <3> QED
      BY <1>1, <2>8, <3>1, HoldingStrong
  <2>12. ValueOK(h, f, u)
    BY <1>6, <2>10 DEF ValueOK
  <2>13. StateOK(k, Append(c, g))
    BY <1>1, <1>3, <1>6, <2>9, <2>11, <2>12, ReplaceValue
  <2> QED
    BY <1>3, <2>13
<1>8. CASE v.own # "fresh"
  <2>1. k = h /\ u.own = "borrowed"
    BY <1>2, <1>6, <1>8
  <2>2. Counted(h, S, W)
    <3>1. v.own \in {"named", "borrowed"}
      BY <1>1, <1>8 DEF Value
    <3>2. Owned(v, FALSE) = Null /\ Owned(v, TRUE) = Null
      BY <3>1 DEF Owned, Owning
    <3> QED
      BY <1>1, <3>2, PlusLedger DEF Holding
  <2>3. Holding(k, S, W, u)
    BY <1>1, <2>1, <2>2, HoldingNone DEF Owning
  <2>4. ASSUME child # Null
        PROVE  \E l \in 1 .. Len(f.vars) : ~f.vars[l].weak /\ child \in Behind(h, f.vars[l].val)
    <3>1. PICK l \in 1 .. Len(f.vars) : ~f.vars[l].weak /\ v.val \in Behind(h, f.vars[l].val)
      <4>1. CASE v.own = "named"
        <5>1. PICK l \in 1 .. Len(f.vars) : f.vars[l].val = v.val /\ f.vars[l].weak = v.weak
          BY <1>1, <4>1 DEF ValueOK, Same
        <5>2. PICK x \in Ref : x = v.val /\ x # Null
          BY <1>3, <1>4 DEF Ref
        <5>3. x \in Behind(h, x)
          BY <5>2, BehindSteps
        <5> QED
          BY <1>1, <5>1, <5>2, <5>3
      <4>2. CASE v.own = "borrowed"
        BY <1>1, <1>3, <4>2 DEF ValueOK
      <4> QED
        BY <1>1, <1>8, <4>1, <4>2 DEF Value
    <3>2. f.vars[l].val \in Ref
      BY <1>1, <3>1, FrameShape DEF Variable
    <3>3. PICK x : x = f.vars[l].val
      OBVIOUS
    <3>4. child \in Behind(h, x) \cup {Null}
      BY <1>2, <1>5, <3>1, <3>2, <3>3, BehindSteps
    <3> QED
      BY <2>4, <3>1, <3>3, <3>4
  <2>5. ValueOK(h, f, u)
    BY <1>6, <2>1, <2>4 DEF ValueOK
  <2>6. Steady(h, k, {})
    BY <2>1 DEF Steady
  <2>7. StateOK(k, Append(c, g))
    BY <1>1, <1>3, <1>6, <2>3, <2>5, <2>6, ReplaceValue
  <2> QED
    BY <1>3, <2>7
<1> QED
  BY <1>7, <1>8

\* A constructor.
LEMMA HeapConstructionKeeps ==
  ASSUME StateOK(heap, stack), NEW o \in Objs, HeapConstruction(o)
  PROVE  StateOK(heap, stack)'
<1>1. PICK h, c, f, b, v, S, W :
        /\ c \in Seq(Frame) /\ f \in Frame /\ b \in Frame /\ v \in Value
        /\ S \in Ledgers /\ W \in Ledgers
        /\ h = heap /\ c = Callers /\ f = Top /\ stack = Append(c, f)
        /\ StateOK(h, Append(c, f))
        /\ v = Last(Eval) /\ v.own # "moved" /\ v.weak = FALSE
        /\ b.vars = f.vars /\ b.bodies = f.bodies /\ b.args = f.args
        /\ Books(c, b, S, W)
        /\ Holding(h, S, W, v)
        /\ ValueOK(h, f, v) /\ Usable(h, v)
        /\ \A j \in 1 .. Len(b.eval) : ValueOK(h, f, b.eval[j])
        /\ Below(b)
  BY OperandFacts DEF HeapConstruction
<1>2. PICK x, r, a, k, u :
        /\ x = v.val /\ r = Retain(h, x) /\ a = Alloc(r, o, x)
        /\ k = DropIfFresh(a, v) /\ u = NewValue(o, "fresh")
  OBVIOUS
<1>3. PICK g :
        /\ g = [b EXCEPT !.eval = Append(b.eval, u)]
        /\ ~h[o].held /\ heap' = DropIfFresh(Retain(Alloc(h, o, x), x), v)
        /\ stack' = Append(c, g)
  BY <1>1, <1>2 DEF HeapConstruction, SetEval, SetTop, Below
<1>4. x \in Ref /\ (x # Null => h[x].strong > 0) /\ (v.weak => v.val # Null)
  BY <1>1, <1>2 DEF Value, Usable
<1>5. PICK SV \in Ledgers, WV \in Ledgers : SV = Plus(S, Owned(v, FALSE)) /\ WV = Plus(W, Owned(v, TRUE))
  <2>1. Owned(v, FALSE) \in Ref /\ Owned(v, TRUE) \in Ref
    BY <1>1 DEF Owned, Side, Value, Ref
  <2> QED
    BY <1>1, <2>1, PlusLedger
<1>6. Counted(h, SV, WV) /\ h \in CountedHeaps
  BY <1>1, <1>5 DEF Holding, Counted
<1>7. x # o
  <2>1. x # Null => h[x].held
    BY <1>4, <1>6, CountedAlive DEF Ref
  <2> QED
    BY <1>3, <2>1, CountedHeapAssumption
<1>8. Retain(Alloc(h, o, x), x) = a
  <2>1. CASE x = Null
    BY <1>2, <2>1 DEF Retain
  <2>2. CASE x # Null
    <3>1. PICK p, n : p = [held |-> TRUE, strong |-> 1, weak |-> 0, next |-> x]
                      /\ n = [h[x] EXCEPT !.strong = @ + 1]
      OBVIOUS
    <3>2. x \in Objs /\ x # o /\ DOMAIN h = Objs
      BY <1>4, <1>6, <1>7, <2>2 DEF Ref, CountedHeaps
    <3>3. h = [q \in Objs |-> h[q]]
      BY <1>6 DEF CountedHeaps
    <3>4. Alloc(h, o, x) = [h EXCEPT ![o] = p]
      BY <3>1 DEF Alloc
    <3>5. Retain([h EXCEPT ![o] = p], x) = [[h EXCEPT ![o] = p] EXCEPT ![x] = n]
      BY <2>2, <3>1, <3>2, <3>3 DEF Retain
    <3>6. r = [h EXCEPT ![x] = n]
      BY <1>2, <2>2, <3>1, <3>2, <3>3 DEF Retain
    <3>7. a = [[h EXCEPT ![x] = n] EXCEPT ![o] = p]
      BY <1>2, <3>1, <3>6 DEF Alloc
    <3>8. [[h EXCEPT ![o] = p] EXCEPT ![x] = n] = [[h EXCEPT ![x] = n] EXCEPT ![o] = p]
      BY <3>2, <3>3
    <3> QED
      BY <3>4, <3>5, <3>7, <3>8
  <2> QED
    BY <2>1, <2>2
<1>9. /\ Counted(r, Plus(SV, x), WV)
      /\ \A p \in Objs : r[p].next = h[p].next /\ (r[p].strong > 0 <=> h[p].strong > 0)
  BY <1>2, <1>4, <1>6, RetainCounted
<1>10. ~r[o].held
  BY <1>2, <1>3, <1>4, <1>6, <1>7 DEF Retain, Ref, CountedHeaps
<1>11. Counted(a, Plus(SV, o), WV) /\ \A p \in Objs \ {o} : a[p] = r[p]
  BY <1>2, <1>4, <1>9, <1>10, AllocCounted
<1>12. Plus(SV, o) = Plus(Plus(S, o), Owned(v, FALSE)) /\ Plus(S, o) \in Ledgers
  <2>1. PICK y : y = Owned(v, FALSE)
    OBVIOUS
  <2>2. y \in Ref /\ o \in Ref
    BY <1>1, <2>1 DEF Owned, Side, Value, Ref
  <2>3. Plus(Plus(S, y), o) = Plus(Plus(S, o), y) /\ Plus(S, o) \in Ledgers
    BY <1>1, <2>2, PlusLedger
  <2> QED
    BY <1>5, <2>1, <2>3
<1>13. Counted(k, Plus(S, o), W) /\ Tame(a, k)
  <2>1. Holding(a, Plus(S, o), W, v)
    BY <1>5, <1>11, <1>12 DEF Holding
  <2> QED
    BY <1>1, <1>2, <1>4, <1>12, <2>1, DropIfFreshCounted
<1>14. Steady(h, k, {})
  <2>1. \A p \in Objs : h[p].strong > 0 => h[p].held
    BY <1>6, CountedAlive
  <2>2. ASSUME NEW p \in Objs, h[p].strong > 0, k[p].strong > 0 PROVE k[p].next = h[p].next
    <3>1. p # o
      BY <1>3, <2>1, <2>2
    <3> QED
      BY <1>9, <1>11, <1>13, <2>2, <3>1 DEF Tame
  <2> QED
    BY <2>2 DEF Steady
<1>15. u.val = o /\ u.own = "fresh" /\ u.weak = FALSE /\ u \in Value
  BY <1>2 DEF NewValue, Value, Ref
<1>16. Holding(k, S, W, u)
  <2>1. u.own \in Owning
    BY <1>15 DEF Owning
  <2> QED
    BY <1>1, <1>13, <1>15, <2>1, HoldingStrong
<1>17. ValueOK(h, f, u)
  BY <1>15 DEF ValueOK
<1>18. StateOK(k, Append(c, g))
  BY <1>1, <1>3, <1>14, <1>15, <1>16, <1>17, ReplaceValue
<1> QED
  BY <1>2, <1>3, <1>8, <1>18

\* Weak.fromStrong
LEMMA WeakFromStrongKeeps ==
  ASSUME StateOK(heap, stack), WeakFromStrong
  PROVE  StateOK(heap, stack)'
<1>1. PICK h, c, f, b, v, S, W :
        /\ c \in Seq(Frame) /\ f \in Frame /\ b \in Frame /\ v \in Value
        /\ S \in Ledgers /\ W \in Ledgers
        /\ h = heap /\ c = Callers /\ f = Top /\ stack = Append(c, f)
        /\ StateOK(h, Append(c, f))
        /\ v = Last(Eval) /\ v.own # "moved" /\ v.weak = FALSE
        /\ b.vars = f.vars /\ b.bodies = f.bodies /\ b.args = f.args
        /\ Books(c, b, S, W)
        /\ Holding(h, S, W, v)
        /\ ValueOK(h, f, v) /\ Usable(h, v)
        /\ \A j \in 1 .. Len(b.eval) : ValueOK(h, f, b.eval[j])
        /\ Below(b)
  BY OperandFacts DEF WeakFromStrong
<1>2. PICK x, m, k, u :
        /\ x = v.val /\ m = MakeWeak(h, x) /\ k = DropIfFresh(m, v)
        /\ u = [NewValue(x, "fresh") EXCEPT !.weak = TRUE]
  OBVIOUS
<1>3. PICK g :
        /\ g = [b EXCEPT !.eval = Append(b.eval, u)] /\ x # Null /\ heap' = k
        /\ stack' = Append(c, g)
  BY <1>1, <1>2 DEF WeakFromStrong, SetEval, SetTop, Below
<1>4. x \in Objs /\ h[x].strong > 0
  BY <1>1, <1>2, <1>3 DEF Usable
<1>5. PICK y \in Ref : y = Owned(v, FALSE)
  BY <1>1 DEF Owned, Side, Value, Ref
<1>6. Owned(v, TRUE) = Null
  BY <1>1 DEF Owned, Side
<1>7. Plus(S, y) \in Ledgers /\ Plus(W, x) \in Ledgers
  BY <1>1, <1>4, PlusLedger DEF Ref
<1>8. Counted(h, Plus(S, y), W)
  BY <1>1, <1>5, <1>6, PlusLedger DEF Holding
<1>9. Counted(m, Plus(S, y), Plus(W, x)) /\ Tame(h, m)
  BY <1>1, <1>2, <1>4, <1>7, <1>8, MakeWeakCounted
<1>10. Holding(m, S, Plus(W, x), v)
  BY <1>5, <1>6, <1>7, <1>9, PlusLedger DEF Holding
<1>11. Counted(k, S, Plus(W, x)) /\ Tame(m, k)
  BY <1>1, <1>2, <1>7, <1>10, DropIfFreshCounted DEF ValueOK
<1>12. Steady(h, k, {})
  BY <1>9, <1>11, TameAgain, TameSteady
<1>13. u.val = x /\ u.own = "fresh" /\ u.weak = TRUE /\ u \in Value
  BY <1>2, <1>4 DEF NewValue, Value, Ref
<1>14. Holding(k, S, W, u)
  <2>1. u.own \in Owning
    BY <1>13 DEF Owning
  <2> QED
    BY <1>1, <1>11, <1>13, <2>1, HoldingWeak
<1>15. ValueOK(h, f, u)
  BY <1>3, <1>13 DEF ValueOK
<1>16. StateOK(k, Append(c, g))
  BY <1>1, <1>3, <1>12, <1>13, <1>14, <1>15, ReplaceValue
<1> QED
  BY <1>3, <1>16

\* weak.value
LEMMA WeakValueKeeps ==
  ASSUME StateOK(heap, stack), WeakValue
  PROVE  StateOK(heap, stack)'
<1>1. PICK h, c, f, b, v, S, W :
        /\ c \in Seq(Frame) /\ f \in Frame /\ b \in Frame /\ v \in Value
        /\ S \in Ledgers /\ W \in Ledgers
        /\ h = heap /\ c = Callers /\ f = Top /\ stack = Append(c, f)
        /\ StateOK(h, Append(c, f))
        /\ v = Last(Eval) /\ v.own # "moved" /\ v.weak = TRUE
        /\ b.vars = f.vars /\ b.bodies = f.bodies /\ b.args = f.args
        /\ Books(c, b, S, W)
        /\ Holding(h, S, W, v)
        /\ ValueOK(h, f, v) /\ Usable(h, v)
        /\ \A j \in 1 .. Len(b.eval) : ValueOK(h, f, b.eval[j])
        /\ Below(b)
  BY OperandFacts DEF WeakValue
<1>2. PICK found, r, k, u :
        /\ found = (IF h[v.val].strong = 0 THEN Null ELSE v.val)
        /\ r = Retain(h, found) /\ k = DropIfFresh(r, v) /\ u = NewValue(found, "fresh")
  OBVIOUS
<1>3. PICK g : g = [b EXCEPT !.eval = Append(b.eval, u)] /\ heap' = k /\ stack' = Append(c, g)
  BY <1>1, <1>2 DEF WeakValue, SetEval, SetTop, Below
<1>4. v.val \in Objs /\ h \in CountedHeaps
  BY <1>1 DEF ValueOK, Usable, Holding, Counted
<1>5. found \in Ref /\ (found # Null => h[found].strong > 0)
  BY <1>2, <1>4 DEF Ref, CountedHeaps
<1>6. PICK y \in Ref : y = Owned(v, TRUE)
  BY <1>1 DEF Owned, Side, Value, Ref
<1>7. Owned(v, FALSE) = Null
  BY <1>1 DEF Owned, Side
<1>8. Plus(W, y) \in Ledgers /\ Plus(S, found) \in Ledgers
  BY <1>1, <1>5, PlusLedger
<1>9. Counted(h, S, Plus(W, y))
  BY <1>1, <1>6, <1>7, PlusLedger DEF Holding
<1>10. Counted(r, Plus(S, found), Plus(W, y)) /\ Tame(h, r)
  BY <1>1, <1>2, <1>5, <1>8, <1>9, RetainCounted
<1>11. Holding(r, Plus(S, found), W, v)
  BY <1>6, <1>7, <1>8, <1>10, PlusLedger DEF Holding
<1>12. Counted(k, Plus(S, found), W) /\ Tame(r, k)
  BY <1>1, <1>2, <1>8, <1>11, DropIfFreshCounted DEF ValueOK
<1>13. Steady(h, k, {})
  BY <1>10, <1>12, TameAgain, TameSteady
<1>14. u.val = found /\ u.own = "fresh" /\ u.weak = FALSE /\ u \in Value
  BY <1>2, <1>5 DEF NewValue, Value
<1>15. Holding(k, S, W, u)
  <2>1. u.own \in Owning
    BY <1>14 DEF Owning
  <2> QED
    BY <1>1, <1>12, <1>14, <2>1, HoldingStrong
<1>16. ValueOK(h, f, u)
  BY <1>14 DEF ValueOK
<1>17. StateOK(k, Append(c, g))
  BY <1>1, <1>3, <1>13, <1>14, <1>15, <1>16, ReplaceValue
<1> QED
  BY <1>3, <1>17

\* An argument that moves.
LEMMA OwnedArgumentKeeps ==
  ASSUME StateOK(heap, stack), NEW weak \in BOOLEAN, OwnedArgument(weak)
  PROVE  StateOK(heap, stack)'
<1>1. PICK h, c, f, b, v, S, W :
        /\ c \in Seq(Frame) /\ f \in Frame /\ b \in Frame /\ v \in Value
        /\ S \in Ledgers /\ W \in Ledgers
        /\ h = heap /\ c = Callers /\ f = Top /\ stack = Append(c, f)
        /\ StateOK(h, Append(c, f))
        /\ v = Last(Eval) /\ v.own # "moved" /\ v.weak = weak
        /\ b.vars = f.vars /\ b.bodies = f.bodies /\ b.args = f.args
        /\ Books(c, b, S, W)
        /\ Holding(h, S, W, v)
        /\ ValueOK(h, f, v) /\ Usable(h, v)
        /\ \A j \in 1 .. Len(b.eval) : ValueOK(h, f, b.eval[j])
        /\ Below(b)
  BY OperandFacts DEF OwnedArgument
<1>2. PICK k, u : k = RetainUnlessFresh(h, v) /\ u = [v EXCEPT !.own = "moved"]
  OBVIOUS
<1>3. PICK g :
        /\ g = [b EXCEPT !.eval = Append(b.eval, u)] /\ (v.weak => v.own = "fresh")
        /\ heap' = k /\ stack' = Append(c, g)
  BY <1>1, <1>2 DEF OwnedArgument, SetEval, SetTop, Below
<1>4. Counted(k, Plus(S, Side(v, FALSE)), Plus(W, Side(v, TRUE))) /\ Tame(h, k)
  BY <1>1, <1>2, <1>3, RetainUnlessFreshCounted
<1>5. u.val = v.val /\ u.own = "moved" /\ u.weak = v.weak /\ u \in Value
  BY <1>1, <1>2 DEF Value
<1>6. Holding(k, S, W, u)
  <2>1. \A w : Owned(u, w) = Side(v, w)
    BY <1>5 DEF Owned, Side, Owning
  <2>2. Owned(u, FALSE) = Side(v, FALSE) /\ Owned(u, TRUE) = Side(v, TRUE)
    BY <2>1, Zenon
  <2> QED
    BY <1>4, <2>2 DEF Holding
<1>7. ValueOK(h, f, u)
  BY <1>1, <1>5 DEF ValueOK
<1>8. Steady(h, k, {})
  BY <1>4, TameSteady
<1>9. StateOK(k, Append(c, g))
  BY <1>1, <1>3, <1>5, <1>6, <1>7, <1>8, ReplaceValue
<1> QED
  BY <1>3, <1>9

-----------------------------------------------------------------------------
(* Statements. *)

\* A step that changes the heap and the call on top, between expressions.
LEMMA NewStatement ==
  ASSUME NEW h, NEW c \in Seq(Frame), NEW f \in Frame, StateOK(h, Append(c, f)),
         NEW k, NEW g \in Frame, FrameOK(g), g.args = 0, g.eval = <<>>, LentBy(c, g),
         StrongUsable(h, g), Balanced(k, Append(c, g)), Tame(h, k)
  PROVE  StateOK(k, Append(c, g))
<1>1. PICK D : D = {}
  OBVIOUS
<1>2. Steady(h, k, D)
  BY <1>1, TameSteady
<1>3. Spared(g, D) /\ \A i \in 1 .. Len(c) : Spared(c[i], D)
  BY <1>1 DEF Spared
<1>4. FrameBorrows(h, g)
  BY DEF FrameBorrows
<1> QED
  BY <1>2, <1>3, <1>4, NewTop

\* A call put together.
LEMMA FrameMade ==
  ASSUME NEW vars \in Seq(Variable), NEW bodies \in Seq(Nat), NEW eval \in Seq(Value),
         NEW args \in Nat,
         NEW g, g = [vars |-> vars, bodies |-> bodies, eval |-> eval, args |-> args]
  PROVE  g \in Frame /\ g.vars = vars /\ g.bodies = bodies /\ g.eval = eval /\ g.args = args
BY DEF Frame

\* A call with other values and variables.
LEMMA FrameChanged ==
  ASSUME NEW f \in Frame, NEW e, NEW vars, NEW g, g = [f EXCEPT !.eval = e, !.vars = vars]
  PROVE  g = [vars |-> vars, bodies |-> f.bodies, eval |-> e, args |-> f.args]
BY Zenon DEF Frame

\* A complete expression of one value.
LEMMA CompleteOne ==
  ASSUME StateOK(heap, stack), Complete(1)
  PROVE  /\ Eval[1].weak \in BOOLEAN /\ Operand(Eval[1].weak)
         /\ Last(Eval) = Eval[1] /\ Front(Eval) = <<>>
<1>1. stack # <<>> /\ Len(Eval) = 1 /\ Eval[1].own # "moved"
  BY DEF Complete, Running
<1>2. PICK h, c, f :
        /\ c \in Seq(Frame) /\ f \in Frame
        /\ h = heap /\ c = Callers /\ f = Top /\ stack = Append(c, f)
        /\ StateOK(h, Append(c, f))
  BY <1>1, SplitStack
<1>3. Eval \in Seq(Value) /\ Eval[1] \in Value
  BY <1>1, <1>2, FrameShape, ElementOfSeq DEF Eval
<1>4. Last(Eval) = Eval[1]
  BY <1>1 DEF Last
<1>5. Front(Eval) = <<>>
  <2>1. Front(Eval) = SubSeq(Eval, 1, 0)
    BY <1>1 DEF Front
  <2> QED
    BY <1>3, <2>1
<1>6. Eval # <<>>
  BY <1>1
<1> QED
  BY <1>1, <1>3, <1>4, <1>5, <1>6 DEF Operand, Complete, Value

\* T x = e
LEMMA DeclareKeeps ==
  ASSUME StateOK(heap, stack), Declare
  PROVE  StateOK(heap, stack)'
<1>0. Complete(1) /\ Last(Eval) = Eval[1] /\ Front(Eval) = <<>>
  BY CompleteOne DEF Declare
<1>1. PICK h, c, f, b, v, S, W :
        /\ c \in Seq(Frame) /\ f \in Frame /\ b \in Frame /\ v \in Value
        /\ S \in Ledgers /\ W \in Ledgers
        /\ h = heap /\ c = Callers /\ f = Top /\ stack = Append(c, f)
        /\ StateOK(h, Append(c, f))
        /\ v = Last(Eval) /\ v.own # "moved" /\ v.weak = Eval[1].weak
        /\ b.vars = f.vars /\ b.bodies = f.bodies /\ b.args = f.args
        /\ Books(c, b, S, W)
        /\ Holding(h, S, W, v)
        /\ ValueOK(h, f, v) /\ Usable(h, v)
        /\ \A j \in 1 .. Len(b.eval) : ValueOK(h, f, b.eval[j])
        /\ Below(b)
  BY OperandFacts, CompleteOne DEF Declare
<1>2. PICK k, d, g :
        /\ k = RetainUnlessFresh(h, v)
        /\ d = [tracked |-> TRUE, weak |-> v.weak, val |-> v.val]
        /\ g = [f EXCEPT !.eval = <<>>, !.vars = Append(f.vars, d)]
  OBVIOUS
<1>3. (v.weak => v.own = "fresh") /\ heap' = k /\ stack' = Append(c, g)
  BY <1>0, <1>1, <1>2 DEF Declare, SetTop
<1>4. d.tracked = TRUE /\ d.weak = v.weak /\ d.val = v.val /\ d \in Variable
  BY <1>1, <1>2 DEF Value, Variable
<1>5. /\ g \in Frame /\ g.vars = Append(f.vars, d) /\ g.eval = <<>>
      /\ g.bodies = f.bodies /\ g.args = f.args
  <2>1. PICK vars, e : vars = Append(f.vars, d) /\ e = <<>>
    OBVIOUS
  <2>2. vars \in Seq(Variable) /\ e \in Seq(Value)
    BY <1>1, <1>4, <2>1, FrameShape, AppendProperties, EmptySeq
  <2>3. f.bodies \in Seq(Nat) /\ f.args \in Nat
    BY <1>1, FrameShape
  <2>4. g = [vars |-> vars, bodies |-> f.bodies, eval |-> e, args |-> f.args]
    <3>1. g = [f EXCEPT !.eval = e, !.vars = vars]
      BY <1>2, <2>1, Zenon
    <3>2. f \in Frame
      BY <1>1
    <3> QED
      BY <3>1, <3>2, FrameChanged
  <2>5. PICK bodies, args : bodies = f.bodies /\ args = f.args
    OBVIOUS
  <2>6. g \in Frame /\ g.vars = vars /\ g.bodies = bodies /\ g.eval = e /\ g.args = args
    BY <2>2, <2>3, <2>4, <2>5, FrameMade
  <2> QED
    BY <2>1, <2>5, <2>6
<1>6. b.eval = <<>>
  <2>1. b = [f EXCEPT !.eval = <<>>]
    BY <1>0, <1>1 DEF Below
  <2> QED
    BY <1>1, <2>1 DEF Frame
<1>7. /\ f.args = 0 /\ FrameOK(f) /\ LentBy(c, f) /\ VarsUsable(h, f)
  BY <1>1, TopFacts
<1>8. /\ Len(f.vars) \in Nat /\ Len(g.vars) = Len(f.vars) + 1
      /\ g.vars[Len(f.vars) + 1] = d /\ \A j \in 1 .. Len(f.vars) : g.vars[j] = f.vars[j]
      /\ DOMAIN f.vars = 1 .. Len(f.vars) /\ DOMAIN g.vars = 1 .. Len(g.vars)
      /\ DOMAIN f.bodies = 1 .. Len(f.bodies) /\ \A j \in DOMAIN f.bodies : f.bodies[j] \in Nat
  <2>1. Len(f.vars) \in Nat /\ f.vars \in Seq(Variable) /\ DOMAIN f.vars = 1 .. Len(f.vars)
    BY <1>1, FrameShape
  <2>2. DOMAIN f.bodies = 1 .. Len(f.bodies) /\ \A j \in DOMAIN f.bodies : f.bodies[j] \in Nat
    BY <1>1, FrameShape
  <2>3. DOMAIN g.vars = 1 .. Len(g.vars)
    BY <1>5, FrameShape
  <2> QED
    BY <1>4, <1>5, <2>1, <2>2, <2>3, AppendProperties
<1>9. \A j \in 1 .. Len(g.vars) : j \in 1 .. Len(f.vars) \/ g.vars[j] = d
  <2>1. \A j \in 1 .. Len(g.vars) : j \in 1 .. Len(f.vars) \/ j = Len(f.vars) + 1
    BY <1>8
  <2> QED
    BY <1>8, <2>1
<1>10. FrameOK(g)
  <2>1. \A j \in DOMAIN g.vars : g.vars[j].weak => g.vars[j].val # Null
    <3>1. d.weak => d.val # Null
      BY <1>1, <1>4 DEF ValueOK
    <3>2. \A j \in 1 .. Len(f.vars) : f.vars[j].weak => f.vars[j].val # Null
      BY <1>7, <1>8 DEF FrameOK
    <3> QED
      BY <1>8, <1>9, <3>1, <3>2
  <2>2. ASSUME NEW n \in DOMAIN g.bodies
        PROVE  /\ g.bodies[n] <= Len(g.vars)
               /\ \A l \in DOMAIN g.bodies : l <= n => g.bodies[l] <= g.bodies[n]
               /\ \A j \in DOMAIN g.vars : j > g.bodies[n] => g.vars[j].tracked
    <3>1. /\ f.bodies[n] <= Len(f.vars) /\ f.bodies[n] \in Nat
          /\ \A l \in DOMAIN f.bodies : l <= n => f.bodies[l] <= f.bodies[n]
          /\ \A j \in DOMAIN f.vars : j > f.bodies[n] => f.vars[j].tracked
      BY <1>5, <1>7, <1>8, <2>2 DEF FrameOK
    <3>2. f.bodies[n] <= Len(g.vars)
      BY <1>8, <3>1
    <3>3. \A j \in DOMAIN g.vars : j > f.bodies[n] => g.vars[j].tracked
      BY <1>4, <1>8, <1>9, <3>1
    <3> QED
      BY <1>5, <3>1, <3>2, <3>3
  <2>3. DOMAIN g.eval = {} /\ Len(g.eval) = 0 /\ g.args = 0
    BY <1>5, <1>7
  <2> QED
    BY <2>1, <2>2, <2>3 DEF FrameOK
<1>11. LentBy(c, g)
  BY <1>4, <1>7, <1>8, <1>9 DEF LentBy
<1>12. StrongUsable(h, g)
  <2>1. ~d.weak => Usable(h, d)
    BY <1>1, <1>4 DEF Usable
  <2>2. \A j \in 1 .. Len(f.vars) : Usable(h, f.vars[j])
    BY <1>7 DEF VarsUsable
  <2> QED
    BY <1>8, <1>9, <2>1, <2>2 DEF StrongUsable
<1>13. /\ Counted(k, Plus(S, Side(v, FALSE)), Plus(W, Side(v, TRUE))) /\ Tame(h, k)
  BY <1>1, <1>2, <1>3, RetainUnlessFreshCounted
<1>14. Balanced(k, Append(c, g))
  <2>1. \A w : Ledger(Append(c, g), w) = Plus(Ledger(Append(c, b), w), Side(d, w))
    <3>1. d.tracked /\ g.eval = b.eval /\ g.vars = Append(b.vars, d)
      BY <1>1, <1>4, <1>5, <1>6
    <3> QED
      BY <1>1, <1>4, <1>5, <3>1, LedgerVar
  <2>2. \A w : Side(d, w) = Side(v, w)
    BY <1>4 DEF Side
  <2>3. /\ Ledger(Append(c, g), FALSE) = Plus(S, Side(v, FALSE))
        /\ Ledger(Append(c, g), TRUE) = Plus(W, Side(v, TRUE))
    <3>1. Books(c, b, S, W)
      BY <1>1
    <3> QED
      BY <2>1, <2>2, <3>1, Zenon DEF Books
  <2> QED
    BY <1>13, <2>3 DEF Balanced
<1>15. StateOK(k, Append(c, g))
  BY <1>1, <1>5, <1>7, <1>10, <1>11, <1>12, <1>13, <1>14, NewStatement
<1> QED
  BY <1>3, <1>15

\* x = e, x tracked.
LEMMA AssignKeeps ==
  ASSUME StateOK(heap, stack), NEW i, i \in 1 .. Len(Vars), Vars[i].tracked, Assign(i)
  PROVE  StateOK(heap, stack)'
<1>0. Complete(1) /\ Last(Eval) = Eval[1] /\ Front(Eval) = <<>>
  BY CompleteOne DEF Assign
<1>1. PICK h, c, f, b, v, S, W :
        /\ c \in Seq(Frame) /\ f \in Frame /\ b \in Frame /\ v \in Value
        /\ S \in Ledgers /\ W \in Ledgers
        /\ h = heap /\ c = Callers /\ f = Top /\ stack = Append(c, f)
        /\ StateOK(h, Append(c, f))
        /\ v = Last(Eval) /\ v.own # "moved" /\ v.weak = Eval[1].weak
        /\ b.vars = f.vars /\ b.bodies = f.bodies /\ b.args = f.args
        /\ Books(c, b, S, W)
        /\ Holding(h, S, W, v)
        /\ ValueOK(h, f, v) /\ Usable(h, v)
        /\ \A j \in 1 .. Len(b.eval) : ValueOK(h, f, b.eval[j])
        /\ Below(b)
  BY OperandFacts, CompleteOne DEF Assign
<1>2. PICK x, y, r, k, g :
        /\ x = f.vars[i].val /\ y = v.val /\ r = RetainUnlessFresh(h, v) /\ k = Release(r, x)
        /\ g = [f EXCEPT !.eval = <<>>, !.vars[i].val = y]
  OBVIOUS
<1>3. v.weak = FALSE /\ ~f.vars[i].weak /\ heap' = k /\ stack' = Append(c, g)
  BY <1>0, <1>1, <1>2 DEF Assign, SetTop, Vars, Value
<1>4. /\ Len(f.vars) \in Nat /\ f.vars \in Seq(Variable) /\ DOMAIN f.vars = 1 .. Len(f.vars)
      /\ i \in 1 .. Len(f.vars) /\ f.vars[i] \in Variable /\ f.vars[i].tracked
      /\ DOMAIN f.bodies = 1 .. Len(f.bodies) /\ \A j \in DOMAIN f.bodies : f.bodies[j] \in Nat
  BY <1>1, FrameShape DEF Vars
<1>5. PICK d : d = [f.vars[i] EXCEPT !.val = y]
  OBVIOUS
<1>6. /\ d \in Variable /\ d.tracked /\ d.weak = FALSE /\ d.val = y
  BY <1>1, <1>2, <1>3, <1>4, <1>5 DEF Variable, Value
<1>7. /\ g.eval = <<>> /\ g.bodies = f.bodies /\ g.args = f.args /\ g.vars = [f.vars EXCEPT ![i] = d]
  BY <1>1, <1>2, <1>5 DEF Frame
<1>8. /\ g.vars \in Seq(Variable) /\ Len(g.vars) = Len(f.vars) /\ g.vars[i] = d
      /\ \A j \in 1 .. Len(f.vars) : j # i => g.vars[j] = f.vars[j]
      /\ DOMAIN g.vars = 1 .. Len(f.vars)
  BY <1>4, <1>6, <1>7
<1>9. g \in Frame
  <2>1. PICK vars, e : vars = g.vars /\ e = <<>>
    OBVIOUS
  <2>2. vars \in Seq(Variable) /\ e \in Seq(Value)
    BY <1>8, <2>1, EmptySeq
  <2>3. f.bodies \in Seq(Nat) /\ f.args \in Nat
    BY <1>1, FrameShape
  <2>4. g = [vars |-> vars, bodies |-> f.bodies, eval |-> e, args |-> f.args]
    BY <1>1, <1>2, <1>7, <2>1 DEF Frame
  <2> QED
    BY <2>2, <2>3, <2>4, FrameMade
<1>10. b.eval = <<>>
  <2>1. b = [f EXCEPT !.eval = <<>>]
    BY <1>0, <1>1 DEF Below
  <2> QED
    BY <1>1, <2>1 DEF Frame
<1>11. /\ f.args = 0 /\ FrameOK(f) /\ LentBy(c, f) /\ VarsUsable(h, f)
  BY <1>1, TopFacts
<1>12. FrameOK(g)
  <2>1. \A j \in DOMAIN g.vars : g.vars[j].weak => g.vars[j].val # Null
    BY <1>4, <1>6, <1>8, <1>11 DEF FrameOK
  <2>2. \A j \in DOMAIN g.vars : f.vars[j].tracked => g.vars[j].tracked
    BY <1>4, <1>6, <1>8
  <2>3. \A n \in DOMAIN g.bodies :
           /\ g.bodies[n] <= Len(g.vars)
           /\ \A l \in DOMAIN g.bodies : l <= n => g.bodies[l] <= g.bodies[n]
           /\ \A j \in DOMAIN g.vars : j > g.bodies[n] => g.vars[j].tracked
    BY <1>4, <1>7, <1>8, <1>11, <2>2 DEF FrameOK
  <2>4. DOMAIN g.eval = {} /\ Len(g.eval) = 0 /\ g.args = 0
    BY <1>7, <1>11
  <2> QED
    BY <2>1, <2>3, <2>4 DEF FrameOK
<1>13. LentBy(c, g)
  BY <1>6, <1>8, <1>11 DEF LentBy
<1>14. StrongUsable(h, g)
  BY <1>1, <1>2, <1>3, <1>6, <1>8, <1>11 DEF StrongUsable, VarsUsable, Usable
<1>15. PICK SR, WR : SR = Plus(S, y) /\ WR = W /\ Counted(r, SR, WR) /\ Tame(h, r)
  <2>1. Counted(r, Plus(S, Side(v, FALSE)), Plus(W, Side(v, TRUE))) /\ Tame(h, r)
    BY <1>1, <1>2, <1>3, RetainUnlessFreshCounted
  <2>2. Side(v, FALSE) = y /\ Side(v, TRUE) = Null
    BY <1>2, <1>3 DEF Side
  <2>3. Plus(W, Null) = W
    BY <1>1, PlusLedger
  <2> QED
    BY <2>1, <2>2, <2>3
<1>16. \A w : \E L \in Ledgers :
         /\ Ledger(Append(c, b), w) = Plus(L, Side(b.vars[i], w))
         /\ Ledger(Append(c, g), w) = Plus(L, Side(g.vars[i], w))
  <2>1. i \in OwnedVars(b)
    BY <1>1, <1>4 DEF OwnedVars
  <2>2. g.eval = b.eval /\ Len(g.vars) = Len(b.vars) /\ g.vars[i].tracked
        /\ \A j \in 1 .. Len(b.vars) : j # i => g.vars[j] = b.vars[j]
    BY <1>1, <1>6, <1>7, <1>8, <1>10
  <2> QED
    BY <1>1, <1>9, <2>1, <2>2, LedgerSetVar
<1>17. PICK L \in Ledgers :
         S = Plus(L, x) /\ Ledger(Append(c, g), FALSE) = Plus(L, y)
  <2>1. Side(b.vars[i], FALSE) = x /\ Side(g.vars[i], FALSE) = y
    BY <1>1, <1>2, <1>3, <1>4, <1>6, <1>8 DEF Side, Variable
  <2>2. PICK L \in Ledgers :
          /\ Ledger(Append(c, b), FALSE) = Plus(L, Side(b.vars[i], FALSE))
          /\ Ledger(Append(c, g), FALSE) = Plus(L, Side(g.vars[i], FALSE))
    BY <1>16, Zenon
  <2> QED
    BY <1>1, <2>1, <2>2, Zenon DEF Books
<1>18. Ledger(Append(c, g), TRUE) = W
  <2>1. Side(b.vars[i], TRUE) = Null /\ Side(g.vars[i], TRUE) = Null
    BY <1>1, <1>3, <1>4, <1>6, <1>8 DEF Side, Variable
  <2>2. PICK M \in Ledgers :
          /\ Ledger(Append(c, b), TRUE) = Plus(M, Side(b.vars[i], TRUE))
          /\ Ledger(Append(c, g), TRUE) = Plus(M, Side(g.vars[i], TRUE))
    BY <1>16, Zenon
  <2> QED
    BY <1>1, <2>1, <2>2, Zenon DEF Books
<1>19. x \in Ref /\ y \in Ref
  BY <1>1, <1>2, <1>4 DEF Variable, Value
<1>20. Counted(k, Plus(L, y), W) /\ Tame(r, k)
  <2>1. SR = Plus(Plus(L, y), x) /\ Plus(L, y) \in Ledgers
    BY <1>15, <1>17, <1>19, PlusLedger
  <2> QED
    BY <1>1, <1>2, <1>15, <1>19, <2>1, ReleaseCounted
<1>21. Balanced(k, Append(c, g))
  BY <1>17, <1>18, <1>20 DEF Balanced
<1>22. Tame(h, k)
  BY <1>15, <1>20, TameAgain
<1>23. StateOK(k, Append(c, g))
  BY <1>1, <1>7, <1>9, <1>11, <1>12, <1>13, <1>14, <1>21, <1>22, NewStatement
<1> QED
  BY <1>3, <1>23

\* A complete expression of two values.
LEMMA CompleteTwo ==
  ASSUME StateOK(heap, stack), Complete(2)
  PROVE  \E h, c, f, b, g, t, v, S, W, X, Y :
           /\ c \in Seq(Frame) /\ f \in Frame /\ b \in Frame /\ g \in Frame
           /\ t \in Value /\ v \in Value
           /\ h = heap /\ c = Callers /\ f = Top /\ stack = Append(c, f)
           /\ StateOK(h, Append(c, f))
           /\ t = Eval[1] /\ v = Eval[2] /\ t.own # "moved" /\ v.own # "moved"
           /\ Usable(h, t) /\ Usable(h, v) /\ ValueOK(h, f, t) /\ ValueOK(h, f, v)
           /\ g = [Top EXCEPT !.eval = <<>>]
           /\ g.vars = f.vars /\ g.bodies = f.bodies /\ g.args = f.args /\ g.eval = <<>>
           /\ Books(c, g, X, Y) /\ S \in Ledgers /\ W \in Ledgers
           /\ S = Plus(X, Owned(t, FALSE)) /\ W = Plus(Y, Owned(t, TRUE))
           /\ Holding(h, S, W, v)
<1>1. stack # <<>> /\ Len(Eval) = 2 /\ Eval[1].own # "moved" /\ Eval[2].own # "moved"
  BY DEF Complete, Running
<1>2. PICK h, c, f :
        /\ c \in Seq(Frame) /\ f \in Frame
        /\ h = heap /\ c = Callers /\ f = Top /\ stack = Append(c, f)
        /\ StateOK(h, Append(c, f))
  BY <1>1, SplitStack
<1>3. Eval = f.eval /\ f.eval \in Seq(Value) /\ Len(f.eval) = 2 /\ f.eval # <<>>
  BY <1>1, <1>2, FrameShape DEF Eval
<1>4. PICK b \in Frame, v \in Value, S \in Ledgers, W \in Ledgers :
        /\ b = [f EXCEPT !.eval = Front(f.eval)] /\ v = Last(f.eval)
        /\ b.vars = f.vars /\ b.bodies = f.bodies /\ b.args = f.args /\ b.eval = Front(f.eval)
        /\ f.eval = Append(b.eval, v) /\ Len(f.eval) = Len(b.eval) + 1
        /\ Books(c, b, S, W)
        /\ Holding(h, S, W, v)
        /\ ValueOK(h, f, v) /\ Usable(h, v)
        /\ \A j \in 1 .. Len(b.eval) : ValueOK(h, f, b.eval[j])
  BY ZenonT(40), <1>2, <1>3, TopValue
<1>5. PICK t : t = f.eval[1]
  OBVIOUS
<1>6. t \in Value /\ v = f.eval[2]
  BY <1>3, <1>4, <1>5, ElementOfSeq DEF Last
<1>7. PICK e : e = <<>>
  OBVIOUS
<1>8. e \in Seq(Value) /\ b.eval = Append(e, t)
  <2>1. PICK p, q : p = b.eval /\ q = Append(e, t)
    OBVIOUS
  <2>2. e \in Seq(Value) /\ Len(e) = 0
    BY <1>7, EmptySeq
  <2>3. q \in Seq(Value) /\ Len(q) = 1 /\ q[1] = t
    BY <1>6, <2>1, <2>2, AppendProperties
  <2>4. p \in Seq(Value) /\ Len(p) = 1 /\ f.eval = Append(p, v)
    <3>1. b.eval \in Seq(Value)
      BY FrameShape
    <3>2. Len(b.eval) = 1
      <4>1. PICK n, m : n = Len(b.eval) /\ m = Len(f.eval)
        OBVIOUS
      <4>2. n \in Nat
        BY <4>1, FrameShape
      <4>3. m = n + 1
        BY <1>4, <4>1
      <4>4. m = 2
        BY <1>3, <4>1
      <4>5. n = 1
        BY ONLY <4>2, <4>3, <4>4
      <4> QED
        BY <4>1, <4>5
    <3> QED
      BY <1>4, <2>1, <3>1, <3>2
  <2>5. p[1] = t
    BY <1>4, <1>5, <2>4, AppendProperties
  <2>6. p = q
    BY <2>3, <2>4, <2>5, SeqEqual
  <2> QED
    BY <2>1, <2>2, <2>6
<1>9. PICK g : g = [f EXCEPT !.eval = e]
  OBVIOUS
<1>10. /\ g \in Frame /\ g.vars = f.vars /\ g.bodies = f.bodies /\ g.args = f.args
       /\ g.eval = e
  BY <1>2, <1>8, <1>9 DEF Frame
<1>11. PICK X, Y : Books(c, g, X, Y)
  BY <1>2, <1>10, BooksKept
<1>12. S = Plus(X, Owned(t, FALSE)) /\ W = Plus(Y, Owned(t, TRUE))
  <2>1. \A w : Ledger(Append(c, b), w) = Plus(Ledger(Append(c, g), w), Owned(t, w))
    <3>1. b.vars = g.vars /\ b.eval = Append(g.eval, t)
      BY <1>4, <1>8, <1>10
    <3> QED
      BY SMTT(30), <1>2, <1>6, <1>10, <3>1, LedgerEval
  <2>2. Books(c, b, S, W)
    BY <1>4
  <2> QED
    BY <1>11, <2>1, <2>2, Zenon DEF Books
<1>13. EvalUsable(h, f) /\ \A j \in 1 .. Len(f.eval) : ValueOK(h, f, f.eval[j])
  BY <1>2, TopFacts
<1>14. Usable(h, t) /\ ValueOK(h, f, t)
  BY <1>3, <1>5, <1>13 DEF EvalUsable
<1>15. g = [Top EXCEPT !.eval = <<>>]
  BY <1>2, <1>7, <1>9
<1>16. t = Eval[1] /\ v = Eval[2] /\ t.own # "moved" /\ v.own # "moved"
  BY <1>1, <1>3, <1>5, <1>6
<1>17. g.eval = <<>>
  BY <1>7, <1>10
<1> QED
  BY <1>2, <1>4, <1>6, <1>10, <1>11, <1>12, <1>14, <1>15, <1>16, <1>17

\* o.next = e, when no caller borrows what the field led to.
LEMMA HeapFieldStoreKeeps ==
  ASSUME StateOK(heap, stack), ~program.overwrites, HeapFieldStore
  PROVE  StateOK(heap, stack)'
<1>1. PICK h, c, f, b, g, t, v, S, W, X, Y :
        /\ c \in Seq(Frame) /\ f \in Frame /\ b \in Frame /\ g \in Frame
        /\ t \in Value /\ v \in Value
        /\ h = heap /\ c = Callers /\ f = Top /\ stack = Append(c, f)
        /\ StateOK(h, Append(c, f))
        /\ t = Eval[1] /\ v = Eval[2] /\ t.own # "moved" /\ v.own # "moved"
        /\ Usable(h, t) /\ Usable(h, v) /\ ValueOK(h, f, t) /\ ValueOK(h, f, v)
        /\ g = [Top EXCEPT !.eval = <<>>]
        /\ g.vars = f.vars /\ g.bodies = f.bodies /\ g.args = f.args /\ g.eval = <<>>
        /\ Books(c, g, X, Y) /\ S \in Ledgers /\ W \in Ledgers
        /\ S = Plus(X, Owned(t, FALSE)) /\ W = Plus(Y, Owned(t, TRUE))
        /\ Holding(h, S, W, v)
  BY CompleteTwo DEF HeapFieldStore
<1>2. PICK o, y, new, k, x, r, l :
        /\ o = t.val /\ y = v.val /\ new = RetainUnlessFresh(h, v)
        /\ k = [new EXCEPT ![o].next = y] /\ x = new[o].next
        /\ r = Release(k, x) /\ l = DropIfFresh(r, t)
  OBVIOUS
<1>3. /\ t.weak = FALSE /\ v.weak = FALSE /\ o # Null
      /\ heap' = l /\ stack' = Append(c, g)
      /\ \A a \in Range(c) : Behind(h, h[o].next) \cap FieldBorrows(a) = {}
  BY <1>1, <1>2 DEF HeapFieldStore, SetEval, SetTop, Value
<1>4. o \in Objs /\ h[o].strong > 0 /\ y \in Ref
  BY <1>1, <1>2, <1>3 DEF Usable, Value
<1>5. /\ Counted(new, Plus(S, y), W) /\ Tame(h, new)
      /\ \A p \in Objs : new[p].next = h[p].next /\ (new[p].strong > 0 <=> h[p].strong > 0)
  <2>1. Side(v, FALSE) = y /\ Side(v, TRUE) = Null
    BY <1>2, <1>3 DEF Side
  <2>2. Plus(W, Null) = W
    BY <1>1, PlusLedger
  <2>3. /\ Counted(new, Plus(S, Side(v, FALSE)), Plus(W, Side(v, TRUE))) /\ Tame(h, new)
        /\ \A p \in Objs : new[p].next = h[p].next /\ (new[p].strong > 0 <=> h[p].strong > 0)
    <3>1. /\ v.weak => v.own = "fresh"
          /\ v \in Value /\ v.own # "moved" /\ S \in Ledgers /\ W \in Ledgers
          /\ Usable(h, v) /\ Holding(h, S, W, v)
      BY <1>1, <1>3
    <3>2. new = RetainUnlessFresh(h, v)
      BY <1>2
    <3> QED
      BY <3>1, <3>2, RetainUnlessFreshCounted
  <2> QED
    BY <2>1, <2>2, <2>3
<1>6. /\ x \in Ref /\ Counted(k, Plus(S, x), W)
      /\ \A p \in Objs : k[p].strong = new[p].strong
      /\ \A p \in Objs \ {o} : k[p].next = new[p].next
  <2>1. new[o].strong > 0
    BY <1>4, <1>5
  <2>2. /\ new[o].next \in Ref /\ Counted(k, Plus(S, new[o].next), W)
        /\ \A p \in Objs : k[p].strong = new[p].strong
        /\ \A p \in Objs \ {o} : k[p].next = new[p].next
    <3>1. S \in Ledgers /\ W \in Ledgers
      BY <1>1
    <3>2. o \in Objs /\ y \in Ref /\ Counted(new, Plus(S, y), W)
      BY <1>4, <1>5
    <3>3. k = Store(new, o, y)
      BY <1>2 DEF Store
    <3> QED
      BY <2>1, <3>1, <3>2, <3>3, StoreCounted
  <2> QED
    BY <1>2, <2>2
<1>7. Counted(r, S, W) /\ Tame(k, r)
  BY <1>1, <1>2, <1>6, ReleaseCounted
<1>8. X \in Ledgers /\ Y \in Ledgers
  BY <1>1 DEF Books
<1>9. Counted(l, X, Y) /\ Tame(r, l)
  <2>1. Holding(r, X, Y, t) /\ (t.weak => t.val # Null)
    BY <1>1, <1>3, <1>7 DEF Holding
  <2> QED
    BY ZenonT(40), <1>1, <1>2, <1>8, <2>1, DropIfFreshCounted
<1>10. Balanced(l, Append(c, g))
  BY <1>1, <1>9 DEF Books, Balanced
<1>11. PICK D : D = Behind(h, x)
  OBVIOUS
<1>12. x = h[o].next
  BY <1>2, <1>4, <1>5
<1>13. D \in SUBSET Objs /\ (x # Null => x \in D)
       /\ \A q \in D : h[q].next \in Ref => h[q].next \in D \cup {Null}
  BY <1>6, <1>11, BehindSteps
<1>14. h \in CountedHeaps
  BY <1>1 DEF StateOK, Counted
<1>15. Steady(h, l, D)
  <2>1. Tame(k, l)
    BY <1>7, <1>9, TameAgain
  <2>2. ASSUME NEW q \in Objs, h[q].strong > 0, l[q].strong > 0
        PROVE  l[q].next = h[q].next \/ h[q].next \in D \cup {Null}
    <3>1. CASE q = o
      BY <1>12, <1>13, <3>1
    <3>2. CASE q # o
      BY <1>5, <1>6, <2>1, <2>2, <3>2 DEF Tame
    <3> QED
      BY <3>1, <3>2
  <2>3. \A q \in D : q \in Objs /\ h[q].next \in D \cup {Null}
    BY <1>13, <1>14 DEF CountedHeaps
  <2> QED
    BY <2>2, <2>3 DEF Steady
<1>16. \A i \in 1 .. Len(c) : Spared(c[i], D)
  <2> SUFFICES ASSUME NEW i \in 1 .. Len(c), NEW j \in 1 .. Len(c[i].eval),
                      c[i].eval[j].own = "borrowed"
               PROVE  c[i].eval[j].val \notin D
    BY DEF Spared
  <2>1. PICK a : a = c[i]
    OBVIOUS
  <2>2. a \in Range(c) /\ a \in Frame
    BY <1>1, <2>1, ElementOfSeq, LenProperties DEF Range
  <2>3. Behind(h, h[o].next) \cap FieldBorrows(a) = {}
    BY <1>3, <2>2
  <2>4. a.eval[j] \in Range(a.eval)
    BY <2>1, <2>2, FrameShape DEF Range
  <2>5. a.eval[j].val \in FieldBorrows(a)
    BY <2>1, <2>4 DEF FieldBorrows
  <2> QED
    BY <1>11, <1>12, <2>1, <2>3, <2>5
<1>17. Spared(g, D) /\ FrameBorrows(h, g)
  BY <1>1 DEF Spared, FrameBorrows
<1>18. /\ f.args = 0 /\ FrameOK(f) /\ LentBy(c, f) /\ VarsUsable(h, f)
  BY <1>1, TopFacts
<1>19. FrameOK(g)
  <2>1. DOMAIN g.eval = {} /\ Len(g.eval) = 0 /\ g.args = 0
    BY <1>1, <1>18
  <2> QED
    BY <1>1, <1>18, <2>1 DEF FrameOK
<1>20. LentBy(c, g) /\ StrongUsable(h, g)
  BY <1>1, <1>18 DEF LentBy, VarsUsable, StrongUsable
<1>21. StateOK(l, Append(c, g))
  BY <1>1, <1>10, <1>15, <1>16, <1>17, <1>18, <1>19, <1>20, NewTop
<1> QED
  BY <1>3, <1>21

-----------------------------------------------------------------------------
(* Loop bodies. *)

\* An expression not begun.
LEMMA CompleteNone ==
  ASSUME StateOK(heap, stack), Complete(0)
  PROVE  \E h, c, f, S, W :
           /\ c \in Seq(Frame) /\ f \in Frame
           /\ h = heap /\ c = Callers /\ f = Top /\ stack = Append(c, f)
           /\ StateOK(h, Append(c, f))
           /\ f.eval = <<>> /\ Vars = f.vars
           /\ Books(c, f, S, W) /\ Counted(h, S, W)
<1>1. stack # <<>> /\ Len(Eval) = 0
  BY DEF Complete, Running
<1>2. PICK h, c, f :
        /\ c \in Seq(Frame) /\ f \in Frame
        /\ h = heap /\ c = Callers /\ f = Top /\ stack = Append(c, f)
        /\ StateOK(h, Append(c, f))
  BY <1>1, SplitStack
<1>3. f.eval = <<>>
  <2>1. f.eval \in Seq(Value) /\ Len(f.eval) = 0
    BY <1>1, <1>2, FrameShape DEF Eval
  <2> QED
    BY <2>1, EmptySeq
<1>4. PICK S, W : Books(c, f, S, W)
  BY <1>2, BooksKept
<1>5. Counted(h, S, W)
  BY <1>2, <1>4 DEF Books, StateOK
<1>6. Vars = f.vars
  BY <1>2 DEF Vars
<1> QED
  BY <1>2, <1>3, <1>4, <1>5, <1>6

\* The elements of a sequence and one more.
LEMMA AppendAt ==
  ASSUME NEW T, NEW s \in Seq(T), NEW x \in T, NEW r, r = Append(s, x)
  PROVE  \A l \in DOMAIN r : \/ l \in DOMAIN s /\ r[l] = s[l]
                             \/ l = Len(s) + 1 /\ r[l] = x
<1>1. /\ Len(s) \in Nat /\ DOMAIN s = 1 .. Len(s) /\ r \in Seq(T) /\ Len(r) = Len(s) + 1
      /\ \A l \in 1 .. Len(s) : r[l] = s[l]
      /\ r[Len(s) + 1] = x
  BY AppendProperties, LenProperties
<1>2. DOMAIN r = 1 .. Len(s) + 1
  BY <1>1, LenProperties
<1>3. ASSUME NEW l \in 1 .. Len(s) + 1
      PROVE  \/ l \in 1 .. Len(s) /\ r[l] = s[l]
             \/ l = Len(s) + 1 /\ r[l] = x
  <2>1. l \in 1 .. Len(s) \/ l = Len(s) + 1
    BY <1>1
  <2> QED
    BY <1>1, <2>1
<1> QED
  BY <1>1, <1>2, <1>3

\* A body is entered.
LEMMA EnterBodyKeeps ==
  ASSUME StateOK(heap, stack), EnterBody
  PROVE  StateOK(heap, stack)'
<1>1. PICK h, c, f, S, W :
        /\ c \in Seq(Frame) /\ f \in Frame
        /\ h = heap /\ c = Callers /\ f = Top /\ stack = Append(c, f)
        /\ StateOK(h, Append(c, f))
        /\ f.eval = <<>> /\ Vars = f.vars
        /\ Books(c, f, S, W) /\ Counted(h, S, W)
  BY CompleteNone DEF EnterBody
<1>2. PICK n, bodies : n = Len(f.vars) /\ bodies = Append(f.bodies, n)
  OBVIOUS
<1>3. PICK g : g = [f EXCEPT !.bodies = bodies]
  OBVIOUS
<1>4. heap' = h /\ stack' = Append(c, g)
  BY <1>1, <1>2, <1>3 DEF EnterBody, SetTop
<1>5. /\ n \in Nat /\ Len(f.bodies) \in Nat /\ f.bodies \in Seq(Nat)
      /\ DOMAIN f.bodies = 1 .. Len(f.bodies) /\ DOMAIN f.vars = 1 .. n
      /\ \A l \in DOMAIN f.bodies : f.bodies[l] \in Nat
  BY <1>1, <1>2, FrameShape
<1>6. /\ bodies \in Seq(Nat) /\ Len(bodies) = Len(f.bodies) + 1
      /\ bodies[Len(f.bodies) + 1] = n
      /\ \A l \in 1 .. Len(f.bodies) : bodies[l] = f.bodies[l]
      /\ DOMAIN bodies = 1 .. Len(f.bodies) + 1
  BY <1>2, <1>5, AppendProperties, LenProperties
<1>7. /\ g \in Frame /\ g.vars = f.vars /\ g.eval = f.eval /\ g.args = f.args
      /\ g.bodies = bodies
  BY <1>1, <1>3, <1>6 DEF Frame
<1>8. /\ f.args = 0 /\ FrameOK(f) /\ LentBy(c, f) /\ VarsUsable(h, f)
  BY <1>1, TopFacts
<1>9. FrameOK(g)
  <2>1. \A l \in DOMAIN bodies : \/ l \in DOMAIN f.bodies /\ bodies[l] = f.bodies[l]
                                 \/ l = Len(f.bodies) + 1 /\ bodies[l] = n
    BY <1>2, <1>5, AppendAt
  <2>2. \A l \in DOMAIN f.bodies : f.bodies[l] <= n
    BY <1>2, <1>8 DEF FrameOK
  <2>3. \A l \in DOMAIN bodies : bodies[l] <= n
    BY <1>5, <2>1, <2>2
  <2>4. ASSUME NEW m \in DOMAIN bodies, NEW l \in DOMAIN bodies, l <= m
        PROVE  bodies[l] <= bodies[m]
    <3>1. CASE m \in DOMAIN f.bodies
      <4>1. m \in 1 .. Len(f.bodies) /\ l \in 1 .. Len(f.bodies)
        BY <1>5, <1>6, <2>4, <3>1
      <4>2. l \in DOMAIN f.bodies /\ bodies[l] = f.bodies[l] /\ bodies[m] = f.bodies[m]
        BY <1>5, <1>6, <4>1
      <4> QED
        BY <1>8, <2>4, <3>1, <4>2 DEF FrameOK
    <3>2. CASE bodies[m] = n
      BY <2>3, <3>2
    <3> QED
      BY <2>1, <3>1, <3>2
  <2>5. ASSUME NEW m \in DOMAIN bodies, NEW j \in DOMAIN f.vars, j > bodies[m]
        PROVE  f.vars[j].tracked
    <3>1. bodies[m] # n
      BY <1>5, <2>5
    <3>2. m \in DOMAIN f.bodies /\ bodies[m] = f.bodies[m]
      BY <2>1, <3>1
    <3> QED
      BY <1>8, <2>5, <3>2 DEF FrameOK
  <2> QED
    BY <1>2, <1>7, <1>8, <2>3, <2>4, <2>5 DEF FrameOK, Lent
<1>10. LentBy(c, g) /\ StrongUsable(h, g)
  BY <1>7, <1>8 DEF LentBy, VarsUsable, StrongUsable
<1>11. Balanced(h, Append(c, g))
  <2>1. \A w : Ledger(Append(c, g), w) = Ledger(Append(c, f), w)
    BY <1>1, <1>7, LedgerSame
  <2> QED
    BY <1>1, <2>1, Zenon DEF Balanced, StateOK
<1>12. Tame(h, h)
  BY DEF Tame
<1>13. StateOK(h, Append(c, g))
  <2>1. g.eval = <<>> /\ g.args = 0
    BY <1>1, <1>7, <1>8
  <2> QED
    BY <1>1, <1>7, <1>9, <1>10, <1>11, <1>12, <2>1, NewStatement
<1> QED
  BY <1>4, <1>13

\* The last of a sequence, backwards.
LEMMA ReverseAt ==
  ASSUME NEW T, NEW s \in Seq(T), NEW m \in 0 .. Len(s),
         NEW r, r = Reverse(SubSeq(s, m + 1, Len(s)))
  PROVE  /\ Len(r) = Len(s) - m /\ DOMAIN r = 1 .. Len(s) - m
         /\ \A j \in 1 .. Len(s) - m : Len(s) + 1 - j \in 1 .. Len(s) /\ r[j] = s[Len(s) + 1 - j]
<1>1. Len(s) \in Nat /\ m \in Nat
  BY LenProperties
<1>2. PICK q : q = SubSeq(s, m + 1, Len(s))
  OBVIOUS
<1>3. PICK n : n = Len(s) - m
  OBVIOUS
<1>4. Len(q) = n /\ n \in Nat /\ \A j \in 1 .. n : q[j] = s[m + j]
  BY <1>1, <1>2, <1>3
<1>5. r = [j \in 1 .. n |-> q[(n - j) + 1]]
  BY <1>2, <1>4 DEF Reverse
<1>6. Len(r) = n /\ DOMAIN r = 1 .. n
  BY <1>4, <1>5
<1>7. ASSUME NEW j \in 1 .. n
      PROVE  Len(s) + 1 - j \in 1 .. Len(s) /\ r[j] = s[Len(s) + 1 - j]
  <2>1. r[j] = q[(n - j) + 1] /\ (n - j) + 1 \in 1 .. n
    BY <1>4, <1>5
  <2>2. r[j] = s[m + ((n - j) + 1)]
    BY <1>4, <2>1
  <2>3. m + ((n - j) + 1) = Len(s) + 1 - j /\ Len(s) + 1 - j \in 1 .. Len(s)
    BY <1>1, <1>3, <1>4
  <2> QED
    BY <2>2, <2>3
<1> QED
  BY <1>3, <1>6, <1>7

\* A body is left, by any way out of it.
LEMMA LeaveBodyKeeps ==
  ASSUME StateOK(heap, stack), NEW n, n \in 1 .. Len(Top.bodies), LeaveBody(n)
  PROVE  StateOK(heap, stack)'
<1>1. PICK h, c, f, S, W :
        /\ c \in Seq(Frame) /\ f \in Frame
        /\ h = heap /\ c = Callers /\ f = Top /\ stack = Append(c, f)
        /\ StateOK(h, Append(c, f))
        /\ f.eval = <<>> /\ Vars = f.vars
        /\ Books(c, f, S, W) /\ Counted(h, S, W)
  BY CompleteNone DEF LeaveBody
<1>2. PICK m, vars, L, bodies, gone, k :
        /\ m = f.bodies[n] /\ L = Len(f.vars)
        /\ vars = SubSeq(f.vars, 1, m) /\ bodies = SubSeq(f.bodies, 1, n - 1)
        /\ gone = Reverse(SubSeq(f.vars, m + 1, Len(f.vars)))
        /\ k = DropVars(h, gone, DOMAIN gone)
  OBVIOUS
<1>3. PICK g : g = [f EXCEPT !.vars = vars, !.bodies = bodies]
  OBVIOUS
<1>4. heap' = k /\ stack' = Append(c, g)
  BY <1>1, <1>2, <1>3 DEF LeaveBody, SetTop
<1>5. /\ f.args = 0 /\ FrameOK(f) /\ LentBy(c, f) /\ VarsUsable(h, f)
  BY <1>1, TopFacts
<1>6. /\ L \in Nat /\ Len(f.bodies) \in Nat /\ f.bodies \in Seq(Nat) /\ f.vars \in Seq(Variable)
      /\ DOMAIN f.bodies = 1 .. Len(f.bodies) /\ DOMAIN f.vars = 1 .. L
      /\ n \in 1 .. Len(f.bodies) /\ \A l \in 1 .. Len(f.bodies) : f.bodies[l] \in Nat
  BY <1>1, <1>2, FrameShape
<1>7. m \in 0 .. L
  <2>1. f.bodies[n] <= Len(f.vars) /\ f.bodies[n] \in Nat
    BY <1>5, <1>6 DEF FrameOK
  <2> QED
    BY <1>2, <1>6, <2>1
<1>8. /\ vars \in Seq(Variable) /\ Len(vars) = m
      /\ \A j \in 1 .. m : j \in 1 .. L /\ vars[j] = f.vars[j]
  <2>1. \A j \in 1 .. m : j \in 1 .. L /\ f.vars[j] \in Variable
    <3>1. f \in Frame /\ L = Len(f.vars)
      BY <1>1, <1>2
    <3>2. \A j \in 1 .. L : f.vars[j] \in Variable
      BY <3>1, FrameShape
    <3> QED
      BY <1>6, <1>7, <3>2
  <2>2. SubSeq(f.vars, 1, m) \in Seq(Variable)
        /\ Len(SubSeq(f.vars, 1, m)) = (IF 1 <= m THEN m - 1 + 1 ELSE 0)
    BY <1>7, <2>1, SubSeqProperties
  <2>3. \A j \in 1 .. m : SubSeq(f.vars, 1, m)[j] = f.vars[j]
    BY <1>2, <1>6, <1>7
  <2> QED
    BY <1>2, <1>7, <2>1, <2>2, <2>3
<1>9. /\ bodies \in Seq(Nat) /\ Len(bodies) = n - 1
      /\ \A l \in 1 .. n - 1 : l \in 1 .. Len(f.bodies) /\ bodies[l] = f.bodies[l]
  <2>1. \A l \in 1 .. n - 1 : l \in 1 .. Len(f.bodies) /\ f.bodies[l] \in Nat
    BY <1>6
  <2>2. SubSeq(f.bodies, 1, n - 1) \in Seq(Nat)
        /\ Len(SubSeq(f.bodies, 1, n - 1)) = (IF 1 <= n - 1 THEN (n - 1) - 1 + 1 ELSE 0)
    BY <1>6, <2>1, SubSeqProperties
  <2>3. \A l \in 1 .. n - 1 : SubSeq(f.bodies, 1, n - 1)[l] = f.bodies[l]
    BY <1>6
  <2> QED
    BY <1>2, <1>6, <2>1, <2>2, <2>3
<1>10. /\ g \in Frame /\ g.vars = vars /\ g.bodies = bodies /\ g.eval = f.eval /\ g.args = f.args
  BY <1>1, <1>3, <1>8, <1>9 DEF Frame
<1>11. /\ Len(gone) = L - m /\ DOMAIN gone = 1 .. L - m
       /\ \A j \in 1 .. L - m : L + 1 - j \in 1 .. L /\ gone[j] = f.vars[L + 1 - j]
  <2>1. PICK p : p = f.vars
    OBVIOUS
  <2>2. p \in Seq(Variable) /\ m \in 0 .. Len(p) /\ gone = Reverse(SubSeq(p, m + 1, Len(p)))
        /\ Len(p) = L
    BY <1>2, <1>6, <1>7, <2>1
  <2>3. /\ Len(gone) = Len(p) - m /\ DOMAIN gone = 1 .. Len(p) - m
        /\ \A j \in 1 .. Len(p) - m :
             Len(p) + 1 - j \in 1 .. Len(p) /\ gone[j] = p[Len(p) + 1 - j]
    BY ZenonT(40), <2>2, ReverseAt
  <2> QED
    BY <2>1, <2>2, <2>3
<1>12. DOMAIN vars = 1 .. m /\ DOMAIN bodies = 1 .. n - 1
  BY <1>8, <1>9, LenProperties
<1>13. FrameOK(g)
  <2>1. \A j \in DOMAIN vars : vars[j].weak => vars[j].val # Null
    BY <1>5, <1>6, <1>8, <1>12 DEF FrameOK
  <2>2. ASSUME NEW l \in DOMAIN bodies
        PROVE  /\ bodies[l] <= Len(vars)
               /\ \A i \in DOMAIN bodies : i <= l => bodies[i] <= bodies[l]
               /\ \A j \in DOMAIN vars : j > bodies[l] => vars[j].tracked
    <3>1. l \in DOMAIN f.bodies /\ n \in DOMAIN f.bodies /\ l <= n /\ bodies[l] = f.bodies[l]
      <4>1. l \in 1 .. n - 1
        BY <1>12, <2>2, Zenon
      <4>2. l \in 1 .. Len(f.bodies) /\ bodies[l] = f.bodies[l]
        BY <1>9, <4>1, Zenon
      <4>3. n \in DOMAIN f.bodies /\ DOMAIN f.bodies = 1 .. Len(f.bodies)
        BY <1>6
      <4>4. n \in Nat
        BY <1>6
      <4>5. l <= n
        BY <4>1, <4>4
      <4> QED
        BY <4>2, <4>3, <4>5
    <3>2. bodies[l] <= Len(vars)
      BY <1>2, <1>5, <1>8, <3>1 DEF FrameOK
    <3>3. \A i \in DOMAIN bodies : i \in DOMAIN f.bodies /\ bodies[i] = f.bodies[i]
      BY <1>6, <1>9, <1>12
    <3>4. \A i \in DOMAIN bodies : i <= l => bodies[i] <= bodies[l]
      BY <1>5, <3>1, <3>3 DEF FrameOK
    <3>5. \A j \in DOMAIN vars : j \in DOMAIN f.vars /\ vars[j] = f.vars[j]
      BY <1>6, <1>8, <1>12
    <3>6. \A j \in DOMAIN vars : j > bodies[l] => vars[j].tracked
      BY <1>5, <3>1, <3>5 DEF FrameOK
    <3> QED
      BY <3>2, <3>4, <3>6
  <2>3. DOMAIN g.eval = {} /\ Len(g.eval) = 0 /\ g.args = 0
    BY <1>1, <1>5, <1>10
  <2> QED
    BY <1>10, <2>1, <2>2, <2>3 DEF FrameOK
<1>14. LentBy(c, g)
  BY <1>2, <1>5, <1>8, <1>10 DEF LentBy
<1>15. StrongUsable(h, g)
  BY <1>2, <1>5, <1>8, <1>10 DEF VarsUsable, StrongUsable
<1>16. PICK X, Y : Books(c, g, X, Y)
  BY <1>1, <1>10, BooksKept
<1>17. PICK I, J : I = {j \in OwnedVars(f) : j > m} /\ J = DOMAIN gone
  OBVIOUS
<1>18. \A j \in (m + 1) .. L : j \in OwnedVars(f)
  <2>1. \A j \in 1 .. L : j > m => f.vars[j].tracked
    BY <1>2, <1>5, <1>6 DEF FrameOK
  <2> QED
    BY <1>6, <1>7, <2>1 DEF OwnedVars
<1>19. /\ \A j \in I : j \in Int /\ (L + 1) - j \in J
       /\ \A j \in J : j \in Int /\ (L + 1) - j \in I
       /\ IsFiniteSet(I) /\ J \subseteq 1 .. L - m
  <2>1. \A j \in OwnedVars(f) : j \in 1 .. L
    BY <1>6 DEF OwnedVars
  <2>2. I \subseteq OwnedVars(f) /\ IsFiniteSet(OwnedVars(f))
    BY <1>1, <1>17, FrameShape
  <2>3. ASSUME NEW j \in I PROVE j \in Int /\ (L + 1) - j \in J
    <3>1. j \in 1 .. L /\ j > m
      BY <1>17, <2>1
    <3>2. (L + 1) - j \in 1 .. L - m
      BY <1>6, <1>7, <3>1
    <3> QED
      BY <1>11, <1>17, <3>1, <3>2
  <2>4. ASSUME NEW j \in J PROVE j \in Int /\ (L + 1) - j \in I
    <3>1. j \in 1 .. L - m
      BY <1>11, <1>17
    <3>2. (L + 1) - j \in (m + 1) .. L /\ (L + 1) - j > m
      BY <1>6, <1>7, <3>1
    <3> QED
      BY <1>17, <1>18, <3>1, <3>2
  <2> QED
    BY <1>11, <1>17, <2>2, <2>3, <2>4, FS_Subset
<1>20. \A w : Ledger(Append(c, f), w) = PlusRefs(Ledger(Append(c, g), w), gone, J, w)
  <2>1. PICK p, M : p = f.vars /\ M = L + 1
    OBVIOUS
  <2>2. From(I, OwnedVars(f), m)
    BY <1>17 DEF From
  <2>3. \A w : Ledger(Append(c, f), w) = PlusRefs(Ledger(Append(c, g), w), p, I, w)
    <3>1. g.eval = f.eval /\ g.vars = SubSeq(f.vars, 1, m) /\ m \in 0 .. Len(f.vars)
      BY <1>2, <1>7, <1>10
    <3>2. c \in Seq(Frame) /\ f \in Frame /\ g \in Frame
      BY <1>1, <1>10
    <3>3. \A w : Ledger(Append(c, f), w) = PlusRefs(Ledger(Append(c, g), w), f.vars, I, w)
      BY <2>2, <3>1, <3>2, LedgerCutVars
    <3> QED
      BY <2>1, <3>3
  <2>4. M \in Int /\ IsFiniteSet(I)
    BY <1>6, <1>19, <2>1
  <2>5. Mirrored(p, I, gone, J, M)
    <3>1. ASSUME NEW j \in J PROVE Same(gone[j], p[M - j])
      <4>1. j \in 1 .. L - m
        BY <1>11, <1>17
      <4>2. gone[j] = f.vars[L + 1 - j]
        BY <1>11, <4>1
      <4>3. f.vars[L + 1 - j] = p[M - j]
        <5>1. j \in Int /\ L \in Int /\ M \in Int
          BY <1>6, <1>7, <2>1, <4>1
        <5>2. L + 1 - j = M - j
          BY <2>1, <5>1
        <5> QED
          BY <2>1, <5>2
      <4> QED
        BY <4>2, <4>3 DEF Same
    <3> QED
      BY <1>19, <2>1, <3>1 DEF Mirrored
  <2>6. \A Z, w : PlusRefs(Z, gone, J, w) = PlusRefs(Z, p, I, w)
    BY <2>4, <2>5, PlusRefsMirror
  <2> QED
    BY <2>3, <2>6
<1>21. Counted(h, PlusRefs(X, gone, J, FALSE), PlusRefs(Y, gone, J, TRUE))
  <2>1. S = PlusRefs(X, gone, J, FALSE) /\ W = PlusRefs(Y, gone, J, TRUE)
    BY <1>1, <1>16, <1>20, Zenon DEF Books
  <2> QED
    BY <1>1, <2>1
<1>22. References(gone, J)
  <2>1. ASSUME NEW j \in J
        PROVE  gone[j].val \in Ref /\ gone[j].weak \in BOOLEAN
               /\ (gone[j].weak => gone[j].val # Null)
    <3>1. PICK i \in 1 .. L : gone[j] = f.vars[i]
      BY <1>11, <1>19
    <3>2. f.vars[i] \in Variable /\ (f.vars[i].weak => f.vars[i].val # Null)
      BY <1>1, <1>2, <1>5, <1>6, FrameShape DEF FrameOK
    <3> QED
      BY <3>1, <3>2 DEF Variable
  <2> QED
    BY <2>1 DEF References
<1>23. Counted(k, X, Y) /\ Tame(h, k)
  <2>1. X \in Ledgers /\ Y \in Ledgers
    BY <1>16 DEF Books
  <2>2. Len(gone) \in Nat /\ \A j \in J : j \in 1 .. Len(gone)
    BY <1>6, <1>7, <1>11, <1>17
  <2>3. k = DropVars(h, gone, J)
    BY <1>2, <1>17
  <2> QED
    BY <1>21, <1>22, <2>1, <2>2, <2>3, DropVarsCounted
<1>24. Balanced(k, Append(c, g))
  BY <1>16, <1>23 DEF Books, Balanced
<1>25. g.eval = <<>> /\ g.args = 0
  BY <1>1, <1>5, <1>10
<1>26. StateOK(k, Append(c, g))
  BY <1>1, <1>10, <1>13, <1>14, <1>15, <1>23, <1>24, <1>25, NewStatement
<1> QED
  BY <1>4, <1>26

-----------------------------------------------------------------------------
(* The ways out of a call. *)

\* Where the values p has lent begin, after this position, and those of them
\* that it owns.
LentFrom(p)  == Len(p.eval) - (p.args - 1)
LentOwned(p) == {j \in DOMAIN p.eval : j > LentFrom(p) /\ p.eval[j].own = "fresh"}

\* A call that waits, and what it has lent.
LEMMA CallerFacts ==
  ASSUME NEW h, NEW a \in Seq(Frame), NEW p \in Frame, Suspended(h, Append(a, p))
  PROVE  /\ LentFrom(p) \in 0 .. Len(p.eval)
         /\ From(LentOwned(p), OwnedEval(p), LentFrom(p))
         /\ IsFiniteSet(LentOwned(p)) /\ \A j \in LentOwned(p) : j \in 1 .. Len(p.eval)
         /\ References(p.eval, LentOwned(p))
         /\ \A j \in 1 .. Len(p.eval) : ValueOK(h, p, p.eval[j])
<1>1. FrameOK(p) /\ p.args # 0 /\ FrameBorrows(h, p)
  BY SuspendedTop
<1>2. /\ Len(p.eval) \in Nat /\ p.args \in Nat /\ DOMAIN p.eval = 1 .. Len(p.eval)
      /\ DOMAIN p.vars = 1 .. Len(p.vars)
      /\ \A j \in 1 .. Len(p.eval) : p.eval[j] \in Value
      /\ OwnedEval(p) \subseteq 1 .. Len(p.eval) /\ IsFiniteSet(OwnedEval(p))
  BY FrameShape
<1>3. p.args <= Len(p.eval) + 1
  BY <1>1 DEF FrameOK
<1>4. LentFrom(p) \in 0 .. Len(p.eval)
  BY <1>1, <1>2, <1>3 DEF LentFrom
<1>5. \A j \in 1 .. Len(p.eval) : j > LentFrom(p) => p.eval[j].own \in {"borrowed", "fresh"}
  <2>1. p.args > 0
    BY <1>1, <1>2
  <2> QED
    BY <1>1, <1>2, <2>1 DEF FrameOK, Lent, LentFrom
<1>6. \A j : j \in LentOwned(p) <=> j \in OwnedEval(p) /\ j > LentFrom(p)
  BY <1>2, <1>5 DEF LentOwned, OwnedEval, Owning
<1>7. LentOwned(p) \subseteq OwnedEval(p)
  BY <1>6
<1>8. IsFiniteSet(LentOwned(p)) /\ \A j \in LentOwned(p) : j \in 1 .. Len(p.eval)
  BY <1>2, <1>7, FS_Subset
<1>9. \A j \in 1 .. Len(p.eval) : ValueOK(h, p, p.eval[j])
  BY <1>1, <1>2 DEF ValueOK, FrameBorrows, FrameOK
<1>10. References(p.eval, LentOwned(p))
  BY <1>2, <1>8, <1>9 DEF References, ValueOK, Value
<1> QED
  BY <1>4, <1>6, <1>8, <1>9, <1>10 DEF From

\* A caller runs again, with other values in its expression.
LEMMA CallerRuns ==
  ASSUME NEW h, NEW S \in Ledgers, NEW W \in Ledgers, Counted(h, S, W),
         NEW a \in Seq(Frame), NEW p \in Frame, Suspended(h, Append(a, p)),
         NEW g \in Frame, g.vars = p.vars, g.bodies = p.bodies, g.args = 0,
         \A j \in 1 .. Len(g.eval) : ValueOK(h, p, g.eval[j]),
         NEW k, Balanced(k, Append(a, g)), Tame(h, k)
  PROVE  StateOK(k, Append(a, g))
<1>1. /\ Suspended(h, a) /\ FrameOK(p) /\ LentBy(a, p) /\ FrameBorrows(h, p)
      /\ StrongUsable(h, p)
  BY SuspendedTop
<1>2. /\ DOMAIN g.vars = 1 .. Len(g.vars) /\ DOMAIN g.eval = 1 .. Len(g.eval)
      /\ Len(g.eval) \in Nat
  BY FrameShape
<1>3. FrameOK(g)
  <2>1. /\ \A j \in DOMAIN g.vars : g.vars[j].weak => g.vars[j].val # Null
        /\ \A n \in DOMAIN g.bodies :
             /\ g.bodies[n] <= Len(g.vars)
             /\ \A l \in DOMAIN g.bodies : l <= n => g.bodies[l] <= g.bodies[n]
             /\ \A j \in DOMAIN g.vars : j > g.bodies[n] => g.vars[j].tracked
    <3>1. FrameOK(p)
      BY <1>1
    <3> QED
      BY <3>1 DEF FrameOK
  <2>2. \A j \in DOMAIN g.eval :
          /\ g.eval[j].weak => g.eval[j].val # Null /\ g.eval[j].own # "borrowed"
          /\ g.eval[j].own = "named" => \E l \in DOMAIN g.vars : Same(g.vars[l], g.eval[j])
    BY <1>2 DEF ValueOK
  <2>3. g.args <= Len(g.eval) + 1 /\ ~(g.args > 0)
    BY <1>2
  <2> QED
    BY <2>1, <2>2, <2>3 DEF FrameOK
<1>4. FrameBorrows(h, g) /\ StrongUsable(h, g) /\ LentBy(a, g)
  BY <1>1, <1>2 DEF ValueOK, FrameBorrows, StrongUsable, LentBy
<1>5. PICK D : D = {}
  OBVIOUS
<1>6. Steady(h, k, D) /\ Spared(g, D) /\ \A i \in 1 .. Len(a) : Spared(a[i], D)
  BY <1>5, TameSteady DEF Spared
<1> QED
  BY <1>1, <1>3, <1>4, <1>6, NewStack

\* The references a caller still owns of what it lent are dropped.
LEMMA LentDropped ==
  ASSUME NEW h, NEW a \in Seq(Frame), NEW p \in Frame, Suspended(h, Append(a, p)),
         NEW b \in Frame, b.vars = p.vars, b.eval = SubSeq(p.eval, 1, LentFrom(p)),
         NEW S, NEW W, Books(a, p, S, W), NEW X, NEW Y, Books(a, b, X, Y),
         NEW v, NEW k, Holding(k, S, W, v)
  PROVE  /\ Holding(DropAt(k, p.eval, LentOwned(p)), X, Y, v)
         /\ Tame(k, DropAt(k, p.eval, LentOwned(p)))
<1>1. PICK e, I, m : e = p.eval /\ I = LentOwned(p) /\ m = LentFrom(p)
  OBVIOUS
<1>2. /\ m \in 0 .. Len(p.eval) /\ From(I, OwnedEval(p), m) /\ IsFiniteSet(I)
      /\ \A j \in I : j \in 1 .. Len(e)
      /\ References(e, I) /\ Len(e) \in Nat
  BY <1>1, CallerFacts, FrameShape
<1>3. \A w : Ledger(Append(a, p), w) = PlusRefs(Ledger(Append(a, b), w), e, I, w)
  <2>1. \A w : Ledger(Append(a, p), w) = PlusRefs(Ledger(Append(a, b), w), p.eval, I, w)
    <3>1. b.vars = p.vars /\ b.eval = SubSeq(p.eval, 1, m)
      BY <1>1
    <3> QED
      BY <1>2, <3>1, LedgerCutEval
  <2> QED
    BY <1>1, <2>1
<1>4. S = PlusRefs(X, e, I, FALSE) /\ W = PlusRefs(Y, e, I, TRUE)
      /\ X \in Ledgers /\ Y \in Ledgers
  <2>1. S = PlusRefs(X, e, I, FALSE)
    BY <1>3, Zenon DEF Books
  <2>2. W = PlusRefs(Y, e, I, TRUE)
    BY <1>3, Zenon DEF Books
  <2>3. X \in Ledgers /\ Y \in Ledgers
    BY DEF Books
  <2> QED
    BY <2>1, <2>2, <2>3, Zenon
<1>5. PICK x, y, Z, V : x = Owned(v, FALSE) /\ y = Owned(v, TRUE) /\ Z = Plus(X, x) /\ V = Plus(Y, y)
  OBVIOUS
<1>6. Z \in Ledgers /\ V \in Ledgers
  <2>1. X \in Ledgers /\ Y \in Ledgers /\ Z = Plus(X, x) /\ V = Plus(Y, y)
    BY <1>4, <1>5
  <2> QED
    BY <2>1 DEF Plus, Ledgers
<1>7. \A w : PlusRefs(Plus(X, x), e, I, w) = Plus(PlusRefs(X, e, I, w), x)
  BY <1>2, <1>4, PlusRefsPlus
<1>8. \A w : PlusRefs(Plus(Y, y), e, I, w) = Plus(PlusRefs(Y, e, I, w), y)
  BY <1>2, <1>4, PlusRefsPlus
<1>9. Counted(k, PlusRefs(Z, e, I, FALSE), PlusRefs(V, e, I, TRUE))
  <2>1. Counted(k, Plus(S, x), Plus(W, y))
    BY <1>5 DEF Holding
  <2>2. Plus(S, x) = PlusRefs(Z, e, I, FALSE)
    BY <1>4, <1>5, <1>7, Zenon
  <2>3. Plus(W, y) = PlusRefs(V, e, I, TRUE)
    BY <1>4, <1>5, <1>8, Zenon
  <2> QED
    BY <2>1, <2>2, <2>3
<1>10. Counted(DropAt(k, e, I), Z, V) /\ Tame(k, DropAt(k, e, I))
  BY <1>2, <1>6, <1>9, DropAtCounted
<1> QED
  BY <1>1, <1>5, <1>10 DEF Holding

\* A call that runs again, with the values e.
Resumed(p, e) == [p EXCEPT !.eval = e, !.args = 0]

\* Nobody is left to own anything.
LEMMA EmptyStack ==
  ASSUME NEW k, Balanced(k, <<>>)
  PROVE  StateOK(k, <<>>)
<1>1. <<>> \in Seq(Frame) /\ DOMAIN <<>> = {}
  BY EmptySeq
<1>2. CallsOK(<<>>)
  BY <1>1 DEF CallsOK
<1>3. \A i \in DOMAIN <<>> : FrameBorrows(k, <<>>[i])
  BY <1>1
<1> QED
  BY <1>2, <1>3, Zenon DEF Balanced, StateOK

\* The caller the result goes to.
LEMMA ResumeCaller ==
  ASSUME NEW c \in Seq(Frame), c = Callers, c # <<>>, Len(stack) # 1,
         NEW k, NEW r, Resume(k, r)
  PROVE  \E a, p :
           /\ a \in Seq(Frame) /\ p \in Frame /\ c = Append(a, p)
           /\ heap' = DropAt(k, p.eval, LentOwned(p))
           /\ stack' = Append(a, Resumed(p, SubSeq(p.eval, 1, LentFrom(p)) \o r))
<1>1. PICK a, p : a = Front(c) /\ p = c[Len(c)]
  OBVIOUS
<1>2. a \in Seq(Frame) /\ p \in Frame /\ c = Append(a, p)
  BY <1>1, StackTop
<1>3. p = Last(Callers) /\ a = Front(Callers)
  BY <1>1 DEF Last
<1>4. heap' = DropAt(k, p.eval, LentOwned(p))
  BY <1>3, Zenon DEF Resume, LentOwned, LentFrom
<1>5. stack' = Append(a, Resumed(p, SubSeq(p.eval, 1, LentFrom(p)) \o r))
  BY <1>3, Zenon DEF Resume, LentFrom, Resumed
<1> QED
  BY <1>2, <1>4, <1>5

\* It is the same call.
LEMMA ResumedFrame ==
  ASSUME NEW p \in Frame, NEW e \in Seq(Value)
  PROVE  /\ Resumed(p, e) \in Frame
         /\ Resumed(p, e).vars = p.vars /\ Resumed(p, e).bodies = p.bodies
         /\ Resumed(p, e).eval = e /\ Resumed(p, e).args = 0
<1>1. PICK g, z : g = Resumed(p, e) /\ z = 0
  OBVIOUS
<1>2. g = [vars |-> p.vars, bodies |-> p.bodies, eval |-> e, args |-> z]
  BY <1>1, Zenon DEF Frame, Resumed
<1>3. p.vars \in Seq(Variable) /\ p.bodies \in Seq(Nat) /\ z \in Nat
  BY <1>1, FrameShape
<1>4. g \in Frame /\ g.vars = p.vars /\ g.bodies = p.bodies /\ g.eval = e /\ g.args = z
  BY <1>2, <1>3, FrameMade
<1> QED
  BY <1>1, <1>4

\* The values before those that were lent.
LEMMA BeforeLent ==
  ASSUME NEW h, NEW a \in Seq(Frame), NEW p \in Frame, Suspended(h, Append(a, p)),
         NEW e, e = SubSeq(p.eval, 1, LentFrom(p))
  PROVE  e \in Seq(Value) /\ Len(e) \in Nat /\ \A j \in 1 .. Len(e) : ValueOK(h, p, e[j])
<1>1. PICK q, m : q = p.eval /\ m = LentFrom(p)
  OBVIOUS
<1>2. m \in 0 .. Len(q) /\ Len(q) \in Nat
      /\ \A j \in 1 .. Len(q) : q[j] \in Value /\ ValueOK(h, p, q[j])
  BY <1>1, CallerFacts, FrameShape
<1>3. m \in Nat /\ \A j \in 1 .. m : j \in 1 .. Len(q)
  BY <1>2
<1>4. SubSeq(q, 1, m) \in Seq(Value)
      /\ Len(SubSeq(q, 1, m)) = (IF 1 <= m THEN m - 1 + 1 ELSE 0)
  BY <1>2, <1>3, SubSeqProperties
<1>5. Len(e) = m
  BY <1>1, <1>3, <1>4
<1>6. \A j \in 1 .. m : SubSeq(q, 1, m)[j] = q[j]
  BY <1>2, <1>3
<1> QED
  BY <1>1, <1>2, <1>3, <1>4, <1>5, <1>6

\* A call ends without a result.
LEMMA ResumeVoid ==
  ASSUME NEW h, NEW S \in Ledgers, NEW W \in Ledgers, Counted(h, S, W),
         NEW c \in Seq(Frame), c = Callers, Len(stack) = Len(c) + 1, Suspended(h, c),
         NEW k, Tame(h, k), Balanced(k, c), Resume(k, <<>>)
  PROVE  StateOK(heap, stack)'
<1>1. CASE c = <<>>
  <2>1. heap' = k /\ stack' = <<>>
    BY <1>1 DEF Resume
  <2>2. StateOK(k, <<>>)
    BY <1>1, EmptyStack
  <2> QED
    BY <2>1, <2>2
<1>2. CASE c # <<>>
  <2>0. Len(stack) # 1
    BY <1>2, EmptySeq
  <2>1. PICK a, p :
          /\ a \in Seq(Frame) /\ p \in Frame /\ c = Append(a, p)
          /\ heap' = DropAt(k, p.eval, LentOwned(p))
          /\ stack' = Append(a, Resumed(p, SubSeq(p.eval, 1, LentFrom(p)) \o <<>>))
    <3>1. PICK r : r = <<>>
      OBVIOUS
    <3>2. Resume(k, r)
      BY <3>1
    <3>3. \E a, p :
            /\ a \in Seq(Frame) /\ p \in Frame /\ c = Append(a, p)
            /\ heap' = DropAt(k, p.eval, LentOwned(p))
            /\ stack' = Append(a, Resumed(p, SubSeq(p.eval, 1, LentFrom(p)) \o r))
      BY <1>2, <2>0, <3>2, ResumeCaller
    <3> QED
      BY <3>1, <3>3
  <2>2. PICK e : e = SubSeq(p.eval, 1, LentFrom(p))
    OBVIOUS
  <2>3. PICK g : g = Resumed(p, e)
    OBVIOUS
  <2>4. Suspended(h, Append(a, p))
    BY <2>1
  <2>5. e \in Seq(Value) /\ e \o <<>> = e /\ \A j \in 1 .. Len(e) : ValueOK(h, p, e[j])
    BY ZenonT(40), <2>1, <2>2, <2>4, BeforeLent, ConcatEmptySeq
  <2>6. g \in Frame /\ g.vars = p.vars /\ g.bodies = p.bodies /\ g.eval = e /\ g.args = 0
    BY <2>1, <2>3, <2>5, ResumedFrame
  <2>7. stack' = Append(a, g)
    BY <2>1, <2>2, <2>3, <2>5
  <2>8. PICK P, Q : Books(a, p, P, Q)
    BY <2>1, BooksKept
  <2>9. PICK X, Y : Books(a, g, X, Y)
    BY <2>1, <2>6, BooksKept
  <2>10. Counted(k, P, Q)
    BY <2>1, <2>8 DEF Balanced, Books
  <2>11. PICK l : l = DropAt(k, p.eval, LentOwned(p))
    OBVIOUS
  <2>12. PICK v : v = NewValue(Null, "named")
    OBVIOUS
  <2>13. v.own \notin Owning
    BY <2>12 DEF NewValue, Owning
  <2>14. Holding(k, P, Q, v)
    BY <2>8, <2>10, <2>13, HoldingNone DEF Books
  <2>15. Holding(l, X, Y, v) /\ Tame(k, l)
    BY <2>1, <2>2, <2>4, <2>6, <2>8, <2>9, <2>11, <2>14, LentDropped
  <2>16. Balanced(l, Append(a, g))
    <3>1. Counted(l, X, Y)
      BY <2>9, <2>13, <2>15, HoldingNone DEF Books
    <3> QED
      BY <2>9, <3>1 DEF Balanced, Books
  <2>17. Tame(h, l)
    BY <2>15 DEF Tame
  <2>18. StateOK(l, Append(a, g))
    BY <2>1, <2>4, <2>5, <2>6, <2>16, <2>17, CallerRuns
  <2> QED
    BY <2>1, <2>7, <2>11, <2>18
<1> QED
  BY <1>1, <1>2

\* A call ends, and its result is the caller's.
LEMMA ResumeResult ==
  ASSUME NEW h, NEW S \in Ledgers, NEW W \in Ledgers, Counted(h, S, W),
         NEW c \in Seq(Frame), c = Callers, c # <<>>, Len(stack) # 1, Suspended(h, c),
         NEW v \in Value, v.own = "fresh", v.weak => v.val # Null,
         NEW P \in Ledgers, NEW Q \in Ledgers,
         P = Ledger(c, FALSE), Q = Ledger(c, TRUE),
         NEW k, Tame(h, k), Holding(k, P, Q, v), Resume(k, <<v>>)
  PROVE  StateOK(heap, stack)'
<1>1. PICK a, p :
        /\ a \in Seq(Frame) /\ p \in Frame /\ c = Append(a, p)
        /\ heap' = DropAt(k, p.eval, LentOwned(p))
        /\ stack' = Append(a, Resumed(p, SubSeq(p.eval, 1, LentFrom(p)) \o <<v>>))
  BY ResumeCaller
<1>2. PICK d, e : d = SubSeq(p.eval, 1, LentFrom(p)) /\ e = Append(d, v)
  OBVIOUS
<1>3. PICK b, g : b = Resumed(p, d) /\ g = Resumed(p, e)
  OBVIOUS
<1>4. Suspended(h, Append(a, p))
  BY <1>1
<1>5. d \in Seq(Value) /\ Len(d) \in Nat /\ \A j \in 1 .. Len(d) : ValueOK(h, p, d[j])
  BY <1>1, <1>2, <1>4, BeforeLent
<1>6. d \o <<v>> = e
  BY <1>2, <1>5
<1>7. /\ e \in Seq(Value) /\ Len(e) = Len(d) + 1 /\ e[Len(d) + 1] = v
      /\ \A j \in 1 .. Len(d) : e[j] = d[j]
  BY <1>2, <1>5, AppendProperties
<1>8. b \in Frame /\ b.vars = p.vars /\ b.eval = d
  BY <1>1, <1>3, <1>5, ResumedFrame
<1>9. g \in Frame /\ g.vars = p.vars /\ g.bodies = p.bodies /\ g.eval = e /\ g.args = 0
  BY <1>1, <1>3, <1>7, ResumedFrame
<1>10. stack' = Append(a, g)
  BY <1>1, <1>2, <1>3, <1>6
<1>11. Books(a, p, P, Q)
  BY <1>1, Zenon DEF Books
<1>12. PICK X, Y : Books(a, b, X, Y)
  BY <1>1, <1>8, BooksKept
<1>13. PICK l : l = DropAt(k, p.eval, LentOwned(p))
  OBVIOUS
<1>14. Holding(l, X, Y, v) /\ Tame(k, l)
  BY <1>1, <1>2, <1>4, <1>8, <1>11, <1>12, <1>13, LentDropped
<1>15. Balanced(l, Append(a, g))
  <2>1. g.vars = b.vars /\ g.eval = Append(b.eval, v)
    BY <1>2, <1>8, <1>9
  <2>2. \A w : Ledger(Append(a, g), w) = Plus(Ledger(Append(a, b), w), Owned(v, w))
    <3>1. a \in Seq(Frame) /\ b \in Frame /\ g \in Frame
      BY <1>1, <1>8, <1>9
    <3> QED
      BY <2>1, <3>1, LedgerEval
  <2>3. /\ Ledger(Append(a, g), FALSE) = Plus(X, Owned(v, FALSE))
        /\ Ledger(Append(a, g), TRUE) = Plus(Y, Owned(v, TRUE))
    BY <1>12, <2>2, Zenon DEF Books
  <2> QED
    BY <1>14, <2>3 DEF Balanced, Holding
<1>16. \A j \in 1 .. Len(e) : ValueOK(h, p, e[j])
  <2>1. ValueOK(h, p, v)
    BY DEF ValueOK
  <2> SUFFICES ASSUME NEW j \in 1 .. Len(e) PROVE ValueOK(h, p, e[j])
    OBVIOUS
  <2>2. j \in 1 .. Len(d) \/ j = Len(d) + 1
    BY <1>5, <1>7
  <2> QED
    BY <1>5, <1>7, <2>1, <2>2
<1>17. Tame(h, l)
  BY <1>14 DEF Tame
<1>18. StateOK(l, Append(a, g))
  BY <1>1, <1>4, <1>9, <1>15, <1>16, <1>17, CallerRuns
<1> QED
  BY <1>1, <1>10, <1>13, <1>18

\* What a call owns by its variables are references.
LEMMA OwnedVarsFacts ==
  ASSUME NEW f \in Frame, FrameOK(f), NEW I, \A j \in I : j \in OwnedVars(f)
  PROVE  /\ IsFiniteSet(I) /\ References(f.vars, I) /\ Len(f.vars) \in Nat
         /\ \A j \in I : j \in 1 .. Len(f.vars)
<1>1. /\ Len(f.vars) \in Nat /\ DOMAIN f.vars = 1 .. Len(f.vars)
      /\ \A j \in 1 .. Len(f.vars) : f.vars[j] \in Variable
      /\ OwnedVars(f) \subseteq 1 .. Len(f.vars) /\ IsFiniteSet(OwnedVars(f))
  BY FrameShape
<1>2. IsFiniteSet(I)
  <2>1. I \subseteq OwnedVars(f)
    OBVIOUS
  <2> QED
    BY <1>1, <2>1, FS_Subset
<1>3. \A j \in I : j \in 1 .. Len(f.vars)
  BY <1>1
<1>4. References(f.vars, I)
  BY <1>1, <1>3 DEF References, FrameOK, Variable
<1> QED
  BY <1>1, <1>2, <1>3, <1>4

\* They are released, whatever else is owned: x strongly and y weakly.
LEMMA VarsDropped ==
  ASSUME NEW f \in Frame, FrameOK(f), NEW I, \A j \in I : j \in OwnedVars(f),
         NEW P \in Ledgers, NEW Q \in Ledgers, NEW x, NEW y, NEW l,
         Counted(l, Plus(PlusRefs(P, f.vars, I, FALSE), x), Plus(PlusRefs(Q, f.vars, I, TRUE), y))
  PROVE  /\ Counted(DropVars(l, f.vars, I), Plus(P, x), Plus(Q, y))
         /\ Tame(l, DropVars(l, f.vars, I))
<1>1. PICK e, Z, V : e = f.vars /\ Z = Plus(P, x) /\ V = Plus(Q, y)
  OBVIOUS
<1>2. /\ IsFiniteSet(I) /\ References(e, I) /\ Len(e) \in Nat
      /\ \A j \in I : j \in 1 .. Len(e)
  BY <1>1, OwnedVarsFacts
<1>3. Z \in Ledgers /\ V \in Ledgers
  BY <1>1 DEF Plus, Ledgers
<1>4. \A w : PlusRefs(Plus(P, x), e, I, w) = Plus(PlusRefs(P, e, I, w), x)
  BY <1>2, PlusRefsPlus
<1>5. \A w : PlusRefs(Plus(Q, y), e, I, w) = Plus(PlusRefs(Q, e, I, w), y)
  BY <1>2, PlusRefsPlus
<1>6. Counted(l, PlusRefs(Z, e, I, FALSE), PlusRefs(V, e, I, TRUE))
  <2>1. Plus(PlusRefs(P, e, I, FALSE), x) = PlusRefs(Z, e, I, FALSE)
    BY <1>1, <1>4, Zenon
  <2>2. Plus(PlusRefs(Q, e, I, TRUE), y) = PlusRefs(V, e, I, TRUE)
    BY <1>1, <1>5, Zenon
  <2>3. Counted(l, Plus(PlusRefs(P, e, I, FALSE), x), Plus(PlusRefs(Q, e, I, TRUE), y))
    BY <1>1
  <2> QED
    BY <2>1, <2>2, <2>3
<1>7. Counted(DropVars(l, e, I), Z, V) /\ Tame(l, DropVars(l, e, I))
  BY <1>2, <1>3, <1>6, DropVarsCounted
<1> QED
  BY <1>1, <1>7

\* Between statements a call owns its tracked variables.
LEMMA LedgerVars ==
  ASSUME NEW c \in Seq(Frame), NEW f \in Frame, f.eval = <<>>, NEW w
  PROVE  Ledger(Append(c, f), w) = PlusRefs(Ledger(c, w), f.vars, OwnedVars(f), w)
<1>1. PICK e, E, v, V, P : e = f.eval /\ E = OwnedEval(f) /\ v = f.vars /\ V = OwnedVars(f)
                        /\ P = Ledger(c, w)
  OBVIOUS
<1>2. E = {} /\ IsFiniteSet(V) /\ IsFiniteSet(E)
  BY <1>1, FrameShape DEF OwnedEval
<1>3. PICK Z : Z = PlusRefs(P, v, V, w)
  OBVIOUS
<1>4. P \in Ledgers
  BY <1>1, LedgerType
<1>5. Z \in Ledgers
  BY <1>2, <1>3, <1>4, PlusRefsLedger
<1>6. PlusRefs(Z, e, E, w) = Z
  BY <1>2, <1>5, PlusRefsLedger
<1>7. Ledger(Append(c, f), w) = PlusRefs(Z, e, E, w)
  BY <1>1, <1>3, LedgerTop
<1> QED
  BY <1>1, <1>3, <1>6, <1>7

\* The top of the stack, and the calls under it.
LEMMA UnderTop ==
  ASSUME NEW c \in Seq(Frame), NEW f \in Frame, stack = Append(c, f)
  PROVE  /\ Len(stack) = Len(c) + 1
         /\ Len(stack) > 1 => c # <<>> /\ Len(stack) # 1
<1>1. Len(c) \in Nat /\ Len(stack) = Len(c) + 1
  BY AppendProperties, LenProperties
<1> QED
  BY <1>1, EmptySeq

\* A call releases what it owns by its variables, but the result r.
LEMMA ReturnKeeps ==
  ASSUME NEW h, NEW c \in Seq(Frame), NEW f \in Frame, StateOK(h, Append(c, f)),
         c = Callers, c # <<>>, Len(stack) # 1,
         NEW I, \A j \in I : j \in OwnedVars(f),
         NEW r \in Value, r.own = "fresh", r.weak => r.val # Null,
         NEW P \in Ledgers, NEW Q \in Ledgers,
         P = Ledger(c, FALSE), Q = Ledger(c, TRUE),
         NEW l, Tame(h, l),
         Counted(l, Plus(PlusRefs(P, f.vars, I, FALSE), Side(r, FALSE)),
                    Plus(PlusRefs(Q, f.vars, I, TRUE), Side(r, TRUE))),
         Resume(DropVars(l, f.vars, I), <<r>>)
  PROVE  StateOK(heap, stack)'
<1>1. FrameOK(f) /\ Suspended(h, c)
  BY TopFacts, SuspendedUnder
<1>2. PICK S, W : Books(c, f, S, W)
  BY BooksKept
<1>3. Counted(h, S, W) /\ S \in Ledgers /\ W \in Ledgers
  BY <1>2 DEF Books, StateOK
<1>4. PICK x, y, k : x = Side(r, FALSE) /\ y = Side(r, TRUE) /\ k = DropVars(l, f.vars, I)
  OBVIOUS
<1>5. Counted(k, Plus(P, x), Plus(Q, y)) /\ Tame(l, k)
  <2>1. Counted(l, Plus(PlusRefs(P, f.vars, I, FALSE), x), Plus(PlusRefs(Q, f.vars, I, TRUE), y))
    BY <1>4
  <2> QED
    BY <1>1, <1>4, <2>1, VarsDropped
<1>6. Holding(k, P, Q, r)
  <2>1. Owned(r, FALSE) = x /\ Owned(r, TRUE) = y
    BY <1>4 DEF Owned, Owning
  <2> QED
    BY <1>5, <2>1 DEF Holding
<1>7. Tame(h, k)
  BY <1>5 DEF Tame
<1>8. Resume(k, <<r>>)
  BY <1>4
<1> QED
  BY <1>1, <1>3, <1>6, <1>7, <1>8, ResumeResult

\* A call ends without a result: whatever its expression owned is dropped.
LEMMA EndKeeps ==
  ASSUME NEW h, NEW c \in Seq(Frame), NEW f \in Frame, StateOK(h, Append(c, f)),
         c = Callers, Len(stack) = Len(c) + 1,
         NEW I, I = OwnedVars(f),
         NEW P \in Ledgers, NEW Q \in Ledgers,
         P = Ledger(c, FALSE), Q = Ledger(c, TRUE),
         NEW l, Tame(h, l),
         Counted(l, PlusRefs(P, f.vars, I, FALSE), PlusRefs(Q, f.vars, I, TRUE)),
         Resume(DropVars(l, f.vars, I), <<>>)
  PROVE  StateOK(heap, stack)'
<1>1. FrameOK(f) /\ Suspended(h, c)
  BY TopFacts, SuspendedUnder
<1>2. PICK S, W : Books(c, f, S, W)
  BY BooksKept
<1>3. Counted(h, S, W) /\ S \in Ledgers /\ W \in Ledgers
  BY <1>2 DEF Books, StateOK
<1>4. PICK e, k : e = f.vars /\ k = DropVars(l, e, I)
  OBVIOUS
<1>5. /\ References(e, I) /\ Len(e) \in Nat
      /\ \A j \in I : j \in 1 .. Len(e)
  <2>1. \A j \in I : j \in OwnedVars(f)
    OBVIOUS
  <2> QED
    BY <1>1, <1>4, <2>1, OwnedVarsFacts
<1>6. Counted(k, P, Q) /\ Tame(l, k)
  <2>1. Counted(l, PlusRefs(P, e, I, FALSE), PlusRefs(Q, e, I, TRUE))
    BY <1>4
  <2> QED
    BY <1>4, <1>5, <2>1, DropVarsCounted
<1>7. Tame(h, k)
  BY <1>6 DEF Tame
<1>8. Resume(k, <<>>) /\ Balanced(k, c)
  BY <1>4, <1>6 DEF Balanced
<1> QED
  BY <1>1, <1>3, <1>7, <1>8, ResumeVoid

\* The ledgers P and Q of the calls under f, and what f adds to them by its
\* variables.
Under(c, f, P, Q, S, W) ==
  /\ P \in Ledgers /\ Q \in Ledgers
  /\ P = Ledger(c, FALSE) /\ Q = Ledger(c, TRUE)
  /\ S = PlusRefs(P, f.vars, OwnedVars(f), FALSE)
  /\ W = PlusRefs(Q, f.vars, OwnedVars(f), TRUE)

\* Between statements that is all there is.
LEMMA BooksUnder ==
  ASSUME NEW c \in Seq(Frame), NEW f \in Frame, f.eval = <<>>,
         NEW S, NEW W, Books(c, f, S, W)
  PROVE  \E P, Q : Under(c, f, P, Q, S, W)
<1>1. PICK P, Q : P = Ledger(c, FALSE) /\ Q = Ledger(c, TRUE)
  OBVIOUS
<1>2. P \in Ledgers /\ Q \in Ledgers
  <2>1. \A w : Ledger(c, w) \in Ledgers
    BY LedgerType
  <2> QED
    BY <1>1, <2>1, Zenon
<1>3. \A w : Ledger(Append(c, f), w) = PlusRefs(Ledger(c, w), f.vars, OwnedVars(f), w)
  BY LedgerVars
<1>4. S = PlusRefs(P, f.vars, OwnedVars(f), FALSE)
  BY <1>1, <1>3, Zenon DEF Books
<1>5. W = PlusRefs(Q, f.vars, OwnedVars(f), TRUE)
  BY <1>1, <1>3, Zenon DEF Books
<1> QED
  BY <1>1, <1>2, <1>4, <1>5, Zenon DEF Under

\* Every tracked variable.
LEMMA TrackedAll ==
  ASSUME NEW f \in Frame, Vars = f.vars
  PROVE  TrackedBut(0) = OwnedVars(f)
<1>1. DOMAIN f.vars = 1 .. Len(f.vars) /\ Len(f.vars) \in Nat
  BY FrameShape
<1> QED
  BY <1>1 DEF TrackedBut, OwnedVars

\* return
LEMMA ReturnVoidKeeps ==
  ASSUME StateOK(heap, stack), ReturnVoid
  PROVE  StateOK(heap, stack)'
<1>1. PICK h, c, f, S, W :
        /\ c \in Seq(Frame) /\ f \in Frame
        /\ h = heap /\ c = Callers /\ f = Top /\ stack = Append(c, f)
        /\ StateOK(h, Append(c, f))
        /\ f.eval = <<>> /\ Vars = f.vars
        /\ Books(c, f, S, W) /\ Counted(h, S, W)
  BY CompleteNone DEF ReturnVoid
<1>2. PICK I : I = OwnedVars(f)
  OBVIOUS
<1>3. PICK P, Q : Under(c, f, P, Q, S, W)
  BY <1>1, BooksUnder
<1>4. Resume(DropVars(h, f.vars, I), <<>>)
  <2>1. Resume(DropVars(heap, Vars, TrackedBut(0)), <<>>)
    BY DEF ReturnVoid
  <2>2. TrackedBut(0) = I
    BY <1>1, <1>2, TrackedAll
  <2> QED
    BY <1>1, <2>1, <2>2
<1>5. Tame(h, h)
  BY DEF Tame
<1>6. Counted(h, PlusRefs(P, f.vars, I, FALSE), PlusRefs(Q, f.vars, I, TRUE))
  BY <1>1, <1>2, <1>3, Zenon DEF Under
<1>7. Len(stack) = Len(c) + 1
  BY <1>1, UnderTop
<1>8. P \in Ledgers /\ Q \in Ledgers /\ P = Ledger(c, FALSE) /\ Q = Ledger(c, TRUE)
  BY <1>3 DEF Under
<1> QED
  BY <1>1, <1>2, <1>4, <1>5, <1>6, <1>7, <1>8, EndKeeps

\* The values of an unfinished expression, last first, and which are owned.
Pending(f) == Reverse(f.eval)
Owed(f) == {j \in DOMAIN Pending(f) : Pending(f)[j].own \in Owning}

\* They add up to the same as the expression.
LEMMA PendingMirror ==
  ASSUME NEW f \in Frame
  PROVE  /\ Len(Pending(f)) \in Nat /\ \A j \in Owed(f) : j \in 1 .. Len(Pending(f))
         /\ \A Z, w : PlusRefs(Z, Pending(f), Owed(f), w) = PlusRefs(Z, f.eval, OwnedEval(f), w)
         /\ \A j \in Owed(f) : \E i \in 1 .. Len(f.eval) : Pending(f)[j] = f.eval[i]
<1>0. PICK e, r, I, J : /\ e = f.eval /\ r = Pending(f) /\ I = OwnedEval(f) /\ J = Owed(f)
                        /\ r = Reverse(e)
                        /\ J = {j \in DOMAIN r : r[j].own \in Owning}
  BY DEF Pending, Owed
<1>1. /\ e \in Seq(Value) /\ Len(e) \in Nat /\ DOMAIN e = 1 .. Len(e)
      /\ IsFiniteSet(I)
  BY <1>0, FrameShape
<1>2. PICK m : m = 0
  OBVIOUS
<1>3. r = Reverse(SubSeq(e, m + 1, Len(e))) /\ m \in 0 .. Len(e)
  <2>1. SubSeq(e, 1, Len(e)) = e
    BY <1>1, SubSeqFull
  <2>2. m + 1 = 1 /\ m \in 0 .. Len(e)
    BY <1>1, <1>2
  <2> QED
    BY <1>0, <2>1, <2>2
<1>4. /\ Len(r) = Len(e) - m /\ DOMAIN r = 1 .. Len(e) - m
      /\ \A j \in 1 .. Len(e) - m : Len(e) + 1 - j \in 1 .. Len(e) /\ r[j] = e[Len(e) + 1 - j]
  BY ZenonT(40), <1>1, <1>3, ReverseAt
<1>5. Len(e) - m = Len(e)
  BY <1>1, <1>2
<1>6. PICK N : N = Len(e) + 1
  OBVIOUS
<1>7. N \in Int /\ \A j \in 1 .. Len(e) : N - j \in 1 .. Len(e) /\ N - (N - j) = j
  BY <1>1, <1>6
<1>8. ASSUME NEW j \in 1 .. Len(e) PROVE r[j] = e[N - j]
  <2>1. r[j] = e[Len(e) + 1 - j]
    BY <1>4, <1>5
  <2>2. Len(e) + 1 - j = N - j
    BY <1>1, <1>6
  <2> QED
    BY <2>1, <2>2
<1>9. \A j : j \in J <=> j \in 1 .. Len(e) /\ r[j].own \in Owning
  BY <1>0, <1>4, <1>5
<1>10. \A j : j \in I <=> j \in 1 .. Len(e) /\ e[j].own \in Owning
  BY <1>0, <1>1 DEF OwnedEval
<1>11. ASSUME NEW j \in I PROVE j \in Int /\ N - j \in J
  <2>1. j \in 1 .. Len(e) /\ e[j].own \in Owning
    BY <1>10
  <2>2. N - j \in 1 .. Len(e) /\ N - (N - j) = j
    BY <1>7, <2>1
  <2>3. r[N - j] = e[N - (N - j)]
    BY <1>8, <2>2
  <2> QED
    BY <1>9, <2>1, <2>2, <2>3
<1>12. ASSUME NEW j \in J PROVE j \in Int /\ N - j \in I /\ r[j] = e[N - j]
  <2>1. j \in 1 .. Len(e) /\ r[j].own \in Owning
    BY <1>9
  <2>2. N - j \in 1 .. Len(e) /\ r[j] = e[N - j]
    BY <1>7, <1>8, <2>1
  <2> QED
    BY <1>10, <2>1, <2>2
<1>13. Mirrored(e, I, r, J, N)
  BY <1>11, <1>12 DEF Mirrored, Same
<1>14. \A Z, w : PlusRefs(Z, r, J, w) = PlusRefs(Z, e, I, w)
  BY <1>1, <1>7, <1>13, PlusRefsMirror
<1>15. \A j \in J : j \in 1 .. Len(r)
  BY <1>4, <1>5, <1>9
<1>16. \A j \in J : \E i \in 1 .. Len(e) : r[j] = e[i]
  BY <1>10, <1>12
<1>17. Len(r) \in Nat
  BY <1>1, <1>4, <1>5
<1> QED
  BY <1>0, <1>14, <1>15, <1>16, <1>17

\* An error leaves the call from inside an expression.
LEMMA PropagateKeeps ==
  ASSUME StateOK(heap, stack), Propagate
  PROVE  StateOK(heap, stack)'
<1>1. PICK h, c, f :
        /\ c \in Seq(Frame) /\ f \in Frame
        /\ h = heap /\ c = Callers /\ f = Top /\ stack = Append(c, f)
        /\ StateOK(h, Append(c, f))
  <2>1. stack # <<>>
    BY DEF Propagate, Running
  <2> QED
    BY <2>1, SplitStack
<1>2. PICK e, v, I, E : e = f.eval /\ v = f.vars /\ I = OwnedVars(f) /\ E = OwnedEval(f)
  OBVIOUS
<1>3. PICK r, J : r = Pending(f) /\ J = Owed(f)
  OBVIOUS
<1>4. PICK l : l = DropAt(h, r, J)
  OBVIOUS
<1>5. Vars = v /\ Eval = e
  BY <1>1, <1>2 DEF Vars, Eval
<1>6. Resume(DropVars(l, v, I), <<>>)
  <2>1. Resume(DropVars(DropAt(heap, r, J), Vars, TrackedBut(0)), <<>>)
    BY <1>2, <1>3, <1>5 DEF Propagate, Pending, Owed
  <2>2. TrackedBut(0) = I
    BY <1>1, <1>2, <1>5, TrackedAll
  <2> QED
    BY <1>1, <1>4, <1>5, <2>1, <2>2
<1>7. PICK P, Q : P = Ledger(c, FALSE) /\ Q = Ledger(c, TRUE)
  OBVIOUS
<1>8. P \in Ledgers /\ Q \in Ledgers
  <2>1. \A w : Ledger(c, w) \in Ledgers
    BY <1>1, LedgerType
  <2> QED
    BY <1>7, <2>1, Zenon
<1>9. PICK S, W : S = PlusRefs(P, v, I, FALSE) /\ W = PlusRefs(Q, v, I, TRUE)
  OBVIOUS
<1>10. S \in Ledgers /\ W \in Ledgers
  <2>1. IsFiniteSet(I)
    BY <1>1, <1>2, FrameShape
  <2>2. \A w : PlusRefs(P, v, I, w) \in Ledgers
    BY <1>8, <2>1, PlusRefsLedger
  <2>3. \A w : PlusRefs(Q, v, I, w) \in Ledgers
    BY <1>8, <2>1, PlusRefsLedger
  <2> QED
    BY <1>9, <2>2, <2>3, Zenon
<1>11. /\ Len(r) \in Nat /\ \A j \in J : j \in 1 .. Len(r)
       /\ \A Z, w : PlusRefs(Z, r, J, w) = PlusRefs(Z, e, E, w)
       /\ \A j \in J : \E i \in 1 .. Len(e) : r[j] = e[i]
  <2>1. f \in Frame
    BY <1>1
  <2>2. /\ Len(Pending(f)) \in Nat /\ \A j \in Owed(f) : j \in 1 .. Len(Pending(f))
        /\ \A Z, w : PlusRefs(Z, Pending(f), Owed(f), w) = PlusRefs(Z, f.eval, OwnedEval(f), w)
        /\ \A j \in Owed(f) : \E i \in 1 .. Len(f.eval) : Pending(f)[j] = f.eval[i]
    BY <2>1, PendingMirror
  <2> QED
    BY <1>2, <1>3, <2>2
<1>12. FrameOK(f) /\ \A i \in 1 .. Len(e) : e[i] \in Value /\ ValueOK(h, f, e[i])
  BY <1>1, <1>2, TopFacts, FrameShape
<1>13. References(r, J)
  BY <1>11, <1>12 DEF References, ValueOK, Value
<1>14. Counted(h, PlusRefs(S, r, J, FALSE), PlusRefs(W, r, J, TRUE))
  <2>1. \A w : Ledger(Append(c, f), w) = PlusRefs(PlusRefs(Ledger(c, w), v, I, w), e, E, w)
    BY <1>1, <1>2, LedgerTop
  <2>2. Ledger(Append(c, f), FALSE) = PlusRefs(S, r, J, FALSE)
    <3>1. Ledger(Append(c, f), FALSE) = PlusRefs(S, e, E, FALSE)
      BY <1>7, <1>9, <2>1, Zenon
    <3>2. PlusRefs(S, r, J, FALSE) = PlusRefs(S, e, E, FALSE)
      BY <1>11, Zenon
    <3> QED
      BY <3>1, <3>2
  <2>3. Ledger(Append(c, f), TRUE) = PlusRefs(W, r, J, TRUE)
    <3>1. Ledger(Append(c, f), TRUE) = PlusRefs(W, e, E, TRUE)
      BY <1>7, <1>9, <2>1, Zenon
    <3>2. PlusRefs(W, r, J, TRUE) = PlusRefs(W, e, E, TRUE)
      BY <1>11, Zenon
    <3> QED
      BY <3>1, <3>2
  <2>4. Counted(h, Ledger(Append(c, f), FALSE), Ledger(Append(c, f), TRUE))
    BY <1>1 DEF StateOK
  <2> QED
    BY <2>2, <2>3, <2>4
<1>15. Counted(l, S, W) /\ Tame(h, l)
  BY <1>4, <1>10, <1>11, <1>13, <1>14, DropAtCounted
<1>16. Counted(l, PlusRefs(P, f.vars, I, FALSE), PlusRefs(Q, f.vars, I, TRUE))
  BY <1>2, <1>9, <1>15, Zenon
<1>17. Resume(DropVars(l, f.vars, I), <<>>) /\ Len(stack) = Len(c) + 1
  BY <1>1, <1>2, <1>6, UnderTop
<1> QED
  BY <1>1, <1>2, <1>7, <1>8, <1>15, <1>16, <1>17, EndKeeps

\* return e
LEMMA ReturnValueKeeps ==
  ASSUME StateOK(heap, stack), ReturnValue
  PROVE  StateOK(heap, stack)'
<1>0. Complete(1) /\ Last(Eval) = Eval[1] /\ Front(Eval) = <<>>
      /\ Len(stack) > 1 /\ Eval[1].own # "named"
  BY CompleteOne DEF ReturnValue
<1>1. PICK h, c, f, b, v, S, W :
        /\ c \in Seq(Frame) /\ f \in Frame /\ b \in Frame /\ v \in Value
        /\ S \in Ledgers /\ W \in Ledgers
        /\ h = heap /\ c = Callers /\ f = Top /\ stack = Append(c, f)
        /\ StateOK(h, Append(c, f))
        /\ v = Last(Eval) /\ v.own # "moved" /\ v.weak = Eval[1].weak
        /\ b.vars = f.vars /\ b.bodies = f.bodies /\ b.args = f.args
        /\ Books(c, b, S, W)
        /\ Holding(h, S, W, v)
        /\ ValueOK(h, f, v) /\ Usable(h, v)
        /\ \A j \in 1 .. Len(b.eval) : ValueOK(h, f, b.eval[j])
        /\ Below(b)
  BY OperandFacts, CompleteOne DEF ReturnValue
<1>2. PICK I, l, r : I = OwnedVars(f) /\ l = RetainUnlessFresh(h, v)
                     /\ r = [v EXCEPT !.own = "fresh"]
  OBVIOUS
<1>3. Resume(DropVars(l, f.vars, I), <<r>>)
  <2>1. Vars = f.vars
    BY <1>1 DEF Vars
  <2>2. TrackedBut(0) = I
    BY <1>1, <1>2, <2>1, TrackedAll
  <2>3. v = Eval[1] /\ h = heap
    BY <1>0, <1>1
  <2> QED
    BY <1>2, <2>1, <2>2, <2>3, Zenon DEF ReturnValue
<1>4. r \in Value /\ r.own = "fresh" /\ r.val = v.val /\ r.weak = v.weak
  BY <1>1, <1>2 DEF Value
<1>5. (v.weak => v.val # Null) /\ (v.weak => v.own = "fresh")
  <2>1. v.own \in {"borrowed", "fresh"}
    <3>1. v.own # "named" /\ v.own # "moved"
      BY <1>0, <1>1
    <3> QED
      BY <1>1, <3>1 DEF Value
  <2> QED
    BY <1>1, <2>1 DEF ValueOK
<1>6. b.eval = <<>>
  <2>1. b = [f EXCEPT !.eval = <<>>]
    BY <1>0, <1>1 DEF Below
  <2> QED
    BY <1>1, <2>1 DEF Frame
<1>7. PICK P, Q : Under(c, b, P, Q, S, W)
  <2>1. c \in Seq(Frame) /\ b \in Frame /\ Books(c, b, S, W)
    BY <1>1
  <2> QED
    BY <1>6, <2>1, BooksUnder
<1>8. OwnedVars(b) = I
  BY <1>1, <1>2 DEF OwnedVars
<1>9. /\ P \in Ledgers /\ Q \in Ledgers /\ P = Ledger(c, FALSE) /\ Q = Ledger(c, TRUE)
      /\ S = PlusRefs(P, f.vars, I, FALSE) /\ W = PlusRefs(Q, f.vars, I, TRUE)
  <2>1. b.vars = f.vars
    BY <1>1
  <2> QED
    BY <1>7, <1>8, <2>1, Zenon DEF Under
<1>10. Counted(l, Plus(S, Side(v, FALSE)), Plus(W, Side(v, TRUE))) /\ Tame(h, l)
  BY <1>1, <1>2, <1>5, RetainUnlessFreshCounted
<1>11. Counted(l, Plus(PlusRefs(P, f.vars, I, FALSE), Side(r, FALSE)),
                  Plus(PlusRefs(Q, f.vars, I, TRUE), Side(r, TRUE)))
  <2>1. Side(v, FALSE) = Side(r, FALSE) /\ Side(v, TRUE) = Side(r, TRUE)
    BY <1>4 DEF Side
  <2> QED
    BY <1>9, <1>10, <2>1, Zenon
<1>12. c # <<>> /\ Len(stack) # 1
  BY <1>0, <1>1, UnderTop
<1>13. \A j \in I : j \in OwnedVars(f)
  BY <1>2
<1>14. r.weak => r.val # Null
  BY <1>4, <1>5
<1> QED
  BY <1>1, <1>3, <1>4, <1>9, <1>10, <1>11, <1>12, <1>13, <1>14, ReturnKeeps

\* return x
LEMMA ReturnVariableKeeps ==
  ASSUME StateOK(heap, stack), NEW i, i \in 1 .. Len(Vars), ReturnVariable(i)
  PROVE  StateOK(heap, stack)'
<1>1. PICK h, c, f, S, W :
        /\ c \in Seq(Frame) /\ f \in Frame
        /\ h = heap /\ c = Callers /\ f = Top /\ stack = Append(c, f)
        /\ StateOK(h, Append(c, f))
        /\ f.eval = <<>> /\ Vars = f.vars
        /\ Books(c, f, S, W) /\ Counted(h, S, W)
  BY CompleteNone DEF ReturnVariable
<1>2. PICK I, x : I = TrackedBut(i) /\ x = f.vars[i]
  OBVIOUS
<1>3. PICK r : r = [val |-> x.val, own |-> "fresh", weak |-> x.weak]
  OBVIOUS
<1>4. PICK l : l = IF x.tracked THEN h ELSE Retain(h, x.val)
  OBVIOUS
<1>5. Resume(DropVars(l, f.vars, I), <<r>>)
  <2>1. [NewValue(x.val, "fresh") EXCEPT !.weak = x.weak] = r
    BY <1>3 DEF NewValue
  <2> QED
    BY <1>1, <1>2, <1>4, <2>1, Zenon DEF ReturnVariable
<1>6. /\ c # <<>> /\ Len(stack) # 1 /\ (x.weak => x.tracked)
  BY <1>1, <1>2, UnderTop DEF ReturnVariable
<1>7. /\ Len(f.vars) \in Nat /\ DOMAIN f.vars = 1 .. Len(f.vars) /\ i \in 1 .. Len(f.vars)
      /\ x \in Variable /\ IsFiniteSet(OwnedVars(f))
  BY <1>1, <1>2, FrameShape
<1>8. FrameOK(f) /\ VarsUsable(h, f)
  BY <1>1, TopFacts
<1>9. x.weak => x.val # Null
  BY <1>2, <1>7, <1>8 DEF FrameOK
<1>10. r \in Value /\ r.own = "fresh" /\ r.val = x.val /\ r.weak = x.weak
  BY <1>3, <1>7 DEF Value, Variable
<1>11. \A j : j \in I <=> j \in OwnedVars(f) /\ j # i
  BY <1>1, <1>2 DEF TrackedBut, OwnedVars
<1>12. IsFiniteSet(I)
  <2>1. I \subseteq OwnedVars(f)
    BY <1>11
  <2> QED
    BY <1>7, <2>1, FS_Subset
<1>13. PICK P, Q : Under(c, f, P, Q, S, W)
  <2>1. c \in Seq(Frame) /\ f \in Frame /\ f.eval = <<>> /\ Books(c, f, S, W)
    BY <1>1
  <2> QED
    BY <2>1, BooksUnder
<1>14. P \in Ledgers /\ Q \in Ledgers /\ P = Ledger(c, FALSE) /\ Q = Ledger(c, TRUE)
  BY <1>13 DEF Under
<1>15. PICK vars, V : vars = f.vars /\ V = OwnedVars(f)
  OBVIOUS
<1>16. S = PlusRefs(P, vars, V, FALSE) /\ W = PlusRefs(Q, vars, V, TRUE)
  BY <1>13, <1>15, Zenon DEF Under
<1>17. Side(x, FALSE) = Side(r, FALSE) /\ Side(x, TRUE) = Side(r, TRUE)
  BY <1>10 DEF Side
<1>18. /\ Tame(h, l)
       /\ Counted(l, Plus(PlusRefs(P, vars, I, FALSE), Side(r, FALSE)),
                     Plus(PlusRefs(Q, vars, I, TRUE), Side(r, TRUE)))
  <2>1. CASE x.tracked
    <3>1. l = h /\ Tame(h, h)
      BY <1>4, <2>1 DEF Tame
    <3>2. V = I \cup {i} /\ i \notin I
      BY <1>1, <1>2, <1>7, <1>11, <1>15, <2>1 DEF OwnedVars
    <3>0. P \in Ledgers /\ Q \in Ledgers
      BY <1>14
    <3>3. \A w : PlusRefs(P, vars, I \cup {i}, w) = Plus(PlusRefs(P, vars, I, w), Side(vars[i], w))
      BY <1>12, <3>0, <3>2, PlusRefsLedger
    <3>4. \A w : PlusRefs(Q, vars, I \cup {i}, w) = Plus(PlusRefs(Q, vars, I, w), Side(vars[i], w))
      BY <1>12, <3>0, <3>2, PlusRefsLedger
    <3>5. vars[i] = x
      BY <1>2, <1>15
    <3>6. S = Plus(PlusRefs(P, vars, I, FALSE), Side(r, FALSE))
      <4>1. S = PlusRefs(P, vars, I \cup {i}, FALSE)
        BY <1>16, <3>2, Zenon
      <4>2. S = Plus(PlusRefs(P, vars, I, FALSE), Side(vars[i], FALSE))
        BY <3>3, <4>1, Zenon
      <4>3. Side(vars[i], FALSE) = Side(r, FALSE)
        BY <1>17, <3>5
      <4> QED
        BY <4>2, <4>3, Zenon
    <3>7. W = Plus(PlusRefs(Q, vars, I, TRUE), Side(r, TRUE))
      <4>1. W = PlusRefs(Q, vars, I \cup {i}, TRUE)
        BY <1>16, <3>2, Zenon
      <4>2. W = Plus(PlusRefs(Q, vars, I, TRUE), Side(vars[i], TRUE))
        BY <3>4, <4>1, Zenon
      <4>3. Side(vars[i], TRUE) = Side(r, TRUE)
        BY <1>17, <3>5
      <4> QED
        BY <4>2, <4>3, Zenon
    <3> QED
      BY <1>1, <3>1, <3>6, <3>7, Zenon
  <2>2. CASE ~x.tracked
    <3>1. PICK v : v = [val |-> x.val, own |-> "named", weak |-> FALSE]
      OBVIOUS
    <3>2. /\ v.val = x.val /\ v.own = "named" /\ v.weak = FALSE /\ v \in Value
          /\ v.own \notin Owning /\ v.own # "moved" /\ x.weak = FALSE
      BY <1>6, <1>7, <2>2, <3>1 DEF Value, Variable, Owning
    <3>3. l = RetainUnlessFresh(h, v)
      BY <1>4, <2>2, <3>2 DEF RetainUnlessFresh
    <3>4. Usable(h, v)
      <4>1. Usable(h, x)
        BY <1>2, <1>7, <1>8 DEF VarsUsable
      <4> QED
        BY <3>2, <4>1 DEF Usable
    <3>5. S \in Ledgers /\ W \in Ledgers
      BY <1>1 DEF Books
    <3>6. Holding(h, S, W, v)
      <4>1. Counted(h, S, W)
        BY <1>1
      <4> QED
        BY <3>2, <3>5, <4>1, HoldingNone
    <3>7. /\ Counted(l, Plus(S, Side(v, FALSE)), Plus(W, Side(v, TRUE)))
          /\ Tame(h, l)
      BY <3>2, <3>3, <3>4, <3>5, <3>6, RetainUnlessFreshCounted
    <3>8. Side(v, FALSE) = Side(r, FALSE) /\ Side(v, TRUE) = Side(r, TRUE)
      BY <1>10, <3>2 DEF Side
    <3>9. I = V
      BY <1>1, <1>2, <1>11, <1>15, <2>2 DEF OwnedVars
    <3> QED
      BY <1>16, <3>7, <3>8, <3>9, Zenon
  <2> QED
    BY <1>7, <2>1, <2>2 DEF Variable
<1>19. \A j \in I : j \in OwnedVars(f)
  BY <1>11
<1>20. Counted(l, Plus(PlusRefs(P, f.vars, I, FALSE), Side(r, FALSE)),
                  Plus(PlusRefs(Q, f.vars, I, TRUE), Side(r, TRUE)))
  BY <1>15, <1>18, Zenon
<1>21. r.weak => r.val # Null
  BY <1>9, <1>10
<1> QED
  BY <1>1, <1>5, <1>6, <1>10, <1>14, <1>18, <1>19, <1>20, <1>21, ReturnKeeps

-----------------------------------------------------------------------------
(* A call. *)

\* What a caller keeps of an argument it has lent.
Lendable(v) == v.own \in {"borrowed", "fresh"}

\* Kept, one argument after the other.
LEMMA KeptSteps ==
  ASSUME NEW args \in Seq(Value)
  PROVE  \E f : /\ f[0] = <<>>
                /\ \A n \in 1 .. Len(args) :
                     f[n] = IF Lendable(args[n]) THEN Append(f[n - 1], args[n]) ELSE f[n - 1]
                /\ Kept(args) = f[Len(args)]
<1> DEFINE N == Len(args)
           T == Seq(Value)
           g == [p \in (1 .. N) \X T |->
                   IF Lendable(args[p[1]]) THEN Append(p[2], args[p[1]]) ELSE p[2]]
           kept == CHOOSE f : f = [n \in 0 .. N |->
                      IF n = 0 THEN <<>>
                      ELSE IF Lendable(args[n]) THEN Append(f[n - 1], args[n]) ELSE f[n - 1]]
<1>1. N \in Nat /\ <<>> \in T /\ \A n \in 1 .. N : args[n] \in Value
  BY LenProperties, EmptySeq, ElementOfSeq
<1>2. Kept(args) = kept[N]
  BY DEF Kept, Lendable
<1>3. g \in [(1 .. N) \X T -> T]
  <2>1. ASSUME NEW n \in 1 .. N, NEW k \in T
        PROVE  (IF Lendable(args[n]) THEN Append(k, args[n]) ELSE k) \in T
    BY <1>1, AppendProperties
  <2> QED
    BY <2>1
<1>4. \A n \in 1 .. N : \A k \in T :
        g[<<n, k>>] = IF Lendable(args[n]) THEN Append(k, args[n]) ELSE k
  OBVIOUS
<1> HIDE DEF N, g, T
<1>5. PICK f : f \in FoldSteps(N, T, <<>>, g)
  <2>1. FoldSteps(N, T, <<>>, g) # {}
    BY <1>1, <1>3, FoldStepsExist
  <2> QED
    BY <2>1
<1>6. f \in [0 .. N -> T] /\ f[0] = <<>>
  BY <1>5 DEF FoldSteps
<1>7. ASSUME NEW n \in 1 .. N
      PROVE  f[n] = IF Lendable(args[n]) THEN Append(f[n - 1], args[n]) ELSE f[n - 1]
  <2>1. n - 1 \in 0 .. N
    BY <1>1
  <2>2. f[n - 1] \in T /\ f[n] = g[<<n, f[n - 1]>>]
    BY <1>5, <1>6, <2>1 DEF FoldSteps
  <2> QED
    BY <1>4, <2>2
<1>8. f = [n \in 0 .. N |->
             IF n = 0 THEN <<>>
             ELSE IF Lendable(args[n]) THEN Append(f[n - 1], args[n]) ELSE f[n - 1]]
  <2>1. f = [n \in 0 .. N |-> f[n]]
    BY <1>6
  <2>2. ASSUME NEW n \in 0 .. N
        PROVE  f[n] = IF n = 0 THEN <<>>
                      ELSE IF Lendable(args[n]) THEN Append(f[n - 1], args[n]) ELSE f[n - 1]
    <3>1. n = 0 \/ n \in 1 .. N
      BY <1>1
    <3> QED
      BY <1>6, <1>7, <3>1
  <2> QED
    BY <2>1, <2>2
<1>9. kept = [n \in 0 .. N |->
             IF n = 0 THEN <<>>
             ELSE IF Lendable(args[n]) THEN Append(kept[n - 1], args[n]) ELSE kept[n - 1]]
  BY <1>8
<1> HIDE DEF kept
<1>10. kept[0] = <<>>
  BY <1>1, <1>9
<1>11. \A n \in 1 .. N :
         kept[n] = IF Lendable(args[n]) THEN Append(kept[n - 1], args[n]) ELSE kept[n - 1]
  <2> SUFFICES ASSUME NEW n \in 1 .. N
               PROVE  kept[n] = IF Lendable(args[n]) THEN Append(kept[n - 1], args[n]) ELSE kept[n - 1]
    OBVIOUS
  <2>1. n \in 0 .. N /\ n # 0
    BY <1>1
  <2> QED
    BY <1>9, <2>1
<1> QED
  BY <1>2, <1>10, <1>11 DEF N

\* The fresh values among the first m.
FreshAt(refs, m) == {j \in 1 .. m : refs[j].own = "fresh"}

\* They are finitely many.
LEMMA FreshFinite ==
  ASSUME NEW refs, NEW m \in Nat
  PROVE  IsFiniteSet(FreshAt(refs, m))
<1>1. FreshAt(refs, m) \subseteq 1 .. m
  BY DEF FreshAt
<1>2. IsFiniteSet(1 .. m)
  BY FS_Interval
<1> QED
  BY <1>1, <1>2, FS_Subset

\* One value more.
LEMMA FreshMore ==
  ASSUME NEW S \in Ledgers, NEW refs, NEW m \in Nat, NEW w
  PROVE  PlusRefs(S, refs, FreshAt(refs, m + 1), w) =
           IF refs[m + 1].own = "fresh"
           THEN Plus(PlusRefs(S, refs, FreshAt(refs, m), w), Side(refs[m + 1], w))
           ELSE PlusRefs(S, refs, FreshAt(refs, m), w)
<1>1. PICK I : I = FreshAt(refs, m)
  OBVIOUS
<1>2. IsFiniteSet(I)
  BY <1>1, FreshFinite
<1>3. CASE refs[m + 1].own = "fresh"
  <2>1. PICK n : n = m + 1
    OBVIOUS
  <2>2. FreshAt(refs, m + 1) = I \cup {n} /\ n \notin I
    BY <1>1, <1>3, <2>1 DEF FreshAt
  <2>3. PlusRefs(S, refs, I \cup {n}, w) = Plus(PlusRefs(S, refs, I, w), Side(refs[n], w))
    BY <1>2, <2>2, PlusRefsLedger
  <2> QED
    BY <1>1, <1>3, <2>1, <2>2, <2>3
<1>4. CASE refs[m + 1].own # "fresh"
  <2>1. FreshAt(refs, m + 1) = I
    BY <1>1, <1>4 DEF FreshAt
  <2> QED
    BY <1>1, <1>4, <2>1
<1> QED
  BY <1>3, <1>4

\* kept is what a caller keeps of its first m arguments.
KeptOf(kept, args, m) ==
  /\ kept \in Seq(Value)
  /\ \A j \in 1 .. Len(kept) : Lendable(kept[j]) /\ \E i \in 1 .. m : kept[j] = args[i]
  /\ \A i \in 1 .. m : Lendable(args[i]) => \E j \in 1 .. Len(kept) : kept[j] = args[i]
  /\ \A S \in Ledgers : \A w :
       PlusRefs(S, kept, FreshAt(kept, Len(kept)), w) = PlusRefs(S, args, FreshAt(args, m), w)

\* And one more.
LEMMA KeptMore ==
  ASSUME NEW args \in Seq(Value), NEW m \in Nat, m + 1 \in 1 .. Len(args),
         NEW q, KeptOf(q, args, m),
         NEW k, k = IF Lendable(args[m + 1]) THEN Append(q, args[m + 1]) ELSE q
  PROVE  KeptOf(k, args, m + 1)
<1>0. PICK r : r = k
  OBVIOUS
<1>1. PICK n, v, L : n = m + 1 /\ v = args[n] /\ L = Len(q)
  OBVIOUS
<1> SUFFICES KeptOf(r, args, n)
  BY <1>0, <1>1
<1>2. /\ q \in Seq(Value) /\ L \in Nat
      /\ \A j \in 1 .. L : Lendable(q[j]) /\ \E i \in 1 .. m : q[j] = args[i]
      /\ \A i \in 1 .. m : Lendable(args[i]) => \E j \in 1 .. L : q[j] = args[i]
  BY <1>1, LenProperties DEF KeptOf
<1>7. \A S \in Ledgers : \A w :
        PlusRefs(S, q, FreshAt(q, L), w) = PlusRefs(S, args, FreshAt(args, m), w)
  BY <1>1 DEF KeptOf
<1>8. L \in Nat
  BY <1>2
<1>3. \A i : i \in 1 .. n <=> i \in 1 .. m \/ i = n
  BY <1>1
<1>4. v \in Value
  BY <1>1, ElementOfSeq
<1>5. CASE Lendable(v)
  <2>1. r = Append(q, v)
    BY <1>0, <1>1, <1>5
  <2>2. /\ r \in Seq(Value) /\ Len(r) = L + 1 /\ r[L + 1] = v
        /\ \A j \in 1 .. L : r[j] = q[j]
    BY <1>1, <1>2, <1>4, <2>1, AppendProperties
  <2>3. \A j : j \in 1 .. L + 1 <=> j \in 1 .. L \/ j = L + 1
    BY <1>8
  <2>4. \A j \in 1 .. Len(r) : Lendable(r[j]) /\ \E i \in 1 .. n : r[j] = args[i]
    <3> SUFFICES ASSUME NEW j \in 1 .. Len(r)
                 PROVE  Lendable(r[j]) /\ \E i \in 1 .. n : r[j] = args[i]
      OBVIOUS
    <3>1. CASE j \in 1 .. L
      <4>1. r[j] = q[j]
        BY <2>2, <3>1
      <4>2. PICK i \in 1 .. m : q[j] = args[i]
        BY <1>2, <3>1
      <4>3. i \in 1 .. n
        BY <1>3, <4>2
      <4> QED
        BY <1>2, <3>1, <4>1, <4>2, <4>3
    <3>2. CASE j = L + 1
      BY <1>1, <1>3, <1>5, <2>2, <3>2
    <3> QED
      BY <2>2, <2>3, <3>1, <3>2
  <2>5. \A i \in 1 .. n : Lendable(args[i]) => \E j \in 1 .. Len(r) : r[j] = args[i]
    <3> SUFFICES ASSUME NEW i \in 1 .. n, Lendable(args[i])
                 PROVE  \E j \in 1 .. Len(r) : r[j] = args[i]
      OBVIOUS
    <3>1. CASE i \in 1 .. m
      <4>1. PICK j \in 1 .. L : q[j] = args[i]
        BY <1>2, <3>1
      <4> QED
        BY <2>2, <2>3, <4>1
    <3>2. CASE i = n
      BY <1>1, <2>2, <2>3, <3>2
    <3> QED
      BY <1>3, <3>1, <3>2
  <2>6. ASSUME NEW S \in Ledgers, NEW w
        PROVE  PlusRefs(S, r, FreshAt(r, Len(r)), w) = PlusRefs(S, args, FreshAt(args, n), w)
    <3>1. PlusRefs(S, r, FreshAt(r, L), w) = PlusRefs(S, q, FreshAt(q, L), w)
      <4>1. PICK I : I = FreshAt(q, L)
        OBVIOUS
      <4>2. FreshAt(r, L) = I
        BY <2>2, <4>1 DEF FreshAt
      <4>3. IsFiniteSet(I) /\ \A j \in I : Same(r[j], q[j])
        <5>1. \A j \in I : j \in 1 .. L
          BY <4>1 DEF FreshAt
        <5>2. \A j \in I : r[j] = q[j]
          BY <2>2, <5>1
        <5> QED
          BY <1>8, <4>1, <5>2, FreshFinite DEF Same
      <4>4. PlusRefs(S, r, I, w) = PlusRefs(S, q, I, w)
        BY <4>3, PlusRefsSame
      <4> QED
        BY <4>1, <4>2, <4>4
    <3>2. PlusRefs(S, q, FreshAt(q, L), w) = PlusRefs(S, args, FreshAt(args, m), w)
      BY <1>7
    <3>3. PlusRefs(S, r, FreshAt(r, L + 1), w) =
            IF r[L + 1].own = "fresh"
            THEN Plus(PlusRefs(S, r, FreshAt(r, L), w), Side(r[L + 1], w))
            ELSE PlusRefs(S, r, FreshAt(r, L), w)
      BY <1>8, FreshMore
    <3>4. PlusRefs(S, args, FreshAt(args, m + 1), w) =
            IF args[m + 1].own = "fresh"
            THEN Plus(PlusRefs(S, args, FreshAt(args, m), w), Side(args[m + 1], w))
            ELSE PlusRefs(S, args, FreshAt(args, m), w)
      BY FreshMore
    <3>5. r[L + 1] = args[m + 1] /\ Len(r) = L + 1 /\ n = m + 1
      BY <1>1, <2>2
    <3> QED
      BY <3>1, <3>2, <3>3, <3>4, <3>5
  <2>7. r \in Seq(Value)
    BY <2>2
  <2> QED
    BY <2>4, <2>5, <2>6, <2>7, Zenon DEF KeptOf
<1>6. CASE ~Lendable(v)
  <2>1. r = q
    BY <1>0, <1>1, <1>6
  <2>2. \A j \in 1 .. L : \E i \in 1 .. n : q[j] = args[i]
    BY <1>2, <1>3
  <2>3. \A i \in 1 .. n : Lendable(args[i]) => \E j \in 1 .. L : q[j] = args[i]
    BY <1>1, <1>2, <1>3, <1>6
  <2>4. ASSUME NEW S \in Ledgers, NEW w
        PROVE  PlusRefs(S, args, FreshAt(args, n), w) = PlusRefs(S, args, FreshAt(args, m), w)
    <3>1. PlusRefs(S, args, FreshAt(args, m + 1), w) =
            IF args[m + 1].own = "fresh"
            THEN Plus(PlusRefs(S, args, FreshAt(args, m), w), Side(args[m + 1], w))
            ELSE PlusRefs(S, args, FreshAt(args, m), w)
      BY FreshMore
    <3>2. args[m + 1].own # "fresh"
      BY <1>1, <1>6 DEF Lendable
    <3> QED
      BY <1>1, <3>1, <3>2
  <2>5. /\ q \in Seq(Value)
        /\ \A j \in 1 .. Len(q) : Lendable(q[j]) /\ \E i \in 1 .. n : q[j] = args[i]
        /\ \A i \in 1 .. n : Lendable(args[i]) => \E j \in 1 .. Len(q) : q[j] = args[i]
    BY <1>1, <1>2, <2>2, <2>3
  <2>6. ASSUME NEW S \in Ledgers, NEW w
        PROVE  PlusRefs(S, q, FreshAt(q, Len(q)), w) = PlusRefs(S, args, FreshAt(args, n), w)
    BY <1>1, <1>7, <2>4
  <2>7. KeptOf(q, args, n)
    BY <2>5, <2>6, Zenon DEF KeptOf
  <2> QED
    BY <2>1, <2>7
<1> QED
  BY <1>5, <1>6

\* What a caller keeps of its arguments.
LEMMA KeptAll ==
  ASSUME NEW args \in Seq(Value)
  PROVE  KeptOf(Kept(args), args, Len(args))
<1>1. PICK N : N = Len(args)
  OBVIOUS
<1>2. N \in Nat
  BY <1>1, LenProperties
<1>3. PICK f : /\ f[0] = <<>>
               /\ \A n \in 1 .. N :
                    f[n] = IF Lendable(args[n]) THEN Append(f[n - 1], args[n]) ELSE f[n - 1]
               /\ Kept(args) = f[N]
  BY <1>1, KeptSteps
<1> DEFINE Good == {n \in Nat : n <= N => KeptOf(f[n], args, n)}
<1>4. 0 \in Good
  <2>1. PICK q, z : q = f[0] /\ z = 0
    OBVIOUS
  <2>2. q \in Seq(Value) /\ Len(q) = z /\ 1 .. z = {}
    BY <1>3, <2>1, EmptySeq
  <2>3. ASSUME NEW S \in Ledgers, NEW w
        PROVE  PlusRefs(S, q, FreshAt(q, Len(q)), w) = PlusRefs(S, args, FreshAt(args, z), w)
    <3>1. FreshAt(q, Len(q)) = {} /\ FreshAt(args, z) = {}
      BY <2>2 DEF FreshAt
    <3>2. PICK none : none = {}
      OBVIOUS
    <3>3. IsFiniteSet(none)
      BY <3>2, FS_EmptySet
    <3>4. PlusRefs(S, q, {}, w) = S /\ PlusRefs(S, args, {}, w) = S
      BY <3>3, PlusRefsLedger
    <3> QED
      BY <3>1, <3>4
  <2>4. KeptOf(q, args, z)
    BY <2>2, <2>3 DEF KeptOf
  <2> QED
    BY <2>1, <2>4
<1>5. ASSUME NEW n \in Nat, n \in Good PROVE n + 1 \in Good
  <2> SUFFICES ASSUME n + 1 <= N PROVE KeptOf(f[n + 1], args, n + 1)
    OBVIOUS
  <2>1. PICK q, r : q = f[n] /\ r = f[n + 1]
    OBVIOUS
  <2>2. KeptOf(q, args, n)
    BY <1>2, <1>5, <2>1
  <2>3. n + 1 \in 1 .. N /\ (n + 1) - 1 = n
    BY <1>2
  <2>4. r = IF Lendable(args[n + 1]) THEN Append(q, args[n + 1]) ELSE q
    BY <1>3, <2>1, <2>3
  <2>5. KeptOf(r, args, n + 1)
    BY <1>1, <2>2, <2>3, <2>4, KeptMore
  <2> QED
    BY <2>1, <2>5
<1>6. N \in Good
  <2> HIDE DEF Good
  <2> QED
    BY <1>2, <1>4, <1>5, NatInduct
<1> QED
  BY <1>1, <1>2, <1>3, <1>6

\* A call splits its expression e after m values: a are the arguments, q what
\* is left of e and the values k that the call keeps of a.
Splits(e, m, a, k, q) ==
  /\ a \in Seq(Value) /\ Len(a) = Len(e) - m /\ Len(a) \in Nat
  /\ \A i \in 1 .. Len(a) : a[i] = e[i + m] /\ i + m \in 1 .. Len(e)
  /\ q \in Seq(Value) /\ Len(q) = m + Len(k)
  /\ \A j \in 1 .. m : q[j] = e[j]
  /\ \A j \in 1 .. Len(k) : q[j + m] = k[j]
  /\ SubSeq(q, 1, m) = SubSeq(e, 1, m)

\* The values of a call's expression, and what is left of them while it waits.
LEMMA CallValues ==
  ASSUME NEW e \in Seq(Value), NEW m \in 0 .. Len(e), NEW kept \in Seq(Value),
         NEW args, args = SubSeq(e, m + 1, Len(e)),
         NEW q, q = SubSeq(e, 1, m) \o kept
  PROVE  Splits(e, m, args, kept, q)
<1>1. Len(e) \in Nat /\ m \in Nat /\ m <= Len(e) /\ Len(kept) \in Nat
      /\ \A j \in 1 .. Len(e) : e[j] \in Value
  BY LenProperties, ElementOfSeq
<1>2. PICK a, p, r : a = SubSeq(e, m + 1, Len(e)) /\ p = SubSeq(e, 1, m) /\ r = p \o kept
  OBVIOUS
<1>3. /\ a \in Seq(Value) /\ Len(a) = Len(e) - m
      /\ \A i \in 1 .. Len(e) - m : a[i] = e[i + m] /\ i + m \in 1 .. Len(e)
  <2>1. \A j \in (m + 1) .. Len(e) : e[j] \in Value
    BY <1>1
  <2>2. m + 1 \in Int /\ Len(e) \in Int
    BY <1>1
  <2>3. /\ SubSeq(e, m + 1, Len(e)) \in Seq(Value)
        /\ Len(SubSeq(e, m + 1, Len(e)))
             = (IF m + 1 <= Len(e) THEN Len(e) - (m + 1) + 1 ELSE 0)
    BY <2>1, <2>2, SubSeqProperties
  <2>4. (IF m + 1 <= Len(e) THEN Len(e) - (m + 1) + 1 ELSE 0) = Len(e) - m
    BY <1>1
  <2>5. \A i \in 1 .. Len(e) - m : SubSeq(e, m + 1, Len(e))[i] = e[i + m]
    BY <1>1
  <2>6. \A i \in 1 .. Len(e) - m : i + m \in 1 .. Len(e)
    BY <1>1
  <2> QED
    BY <1>2, <2>3, <2>4, <2>5, <2>6
<1>4. p \in Seq(Value) /\ Len(p) = m /\ \A j \in 1 .. m : p[j] = e[j]
  <2>1. \A j \in 1 .. m : e[j] \in Value
    BY <1>1
  <2>2. SubSeq(e, 1, m) \in Seq(Value)
        /\ Len(SubSeq(e, 1, m)) = (IF 1 <= m THEN m - 1 + 1 ELSE 0)
    BY <1>1, <2>1, SubSeqProperties
  <2>3. \A j \in 1 .. m : SubSeq(e, 1, m)[j] = e[j]
    BY <1>1
  <2> QED
    BY <1>1, <1>2, <2>2, <2>3
<1>5. /\ r \in Seq(Value) /\ Len(r) = Len(p) + Len(kept)
      /\ \A j \in 1 .. Len(p) + Len(kept) :
           r[j] = IF j <= Len(p) THEN p[j] ELSE kept[j - Len(p)]
  BY <1>2, <1>4, ConcatProperties
<1>6. /\ Len(r) = m + Len(kept) /\ \A j \in 1 .. m : r[j] = e[j]
      /\ \A j \in 1 .. Len(kept) : r[j + m] = kept[j]
  <2>1. Len(r) = m + Len(kept)
    BY <1>4, <1>5
  <2>2. ASSUME NEW j \in 1 .. m PROVE r[j] = e[j]
    <3>1. j \in 1 .. m + Len(kept) /\ j <= m
      BY <1>1
    <3> QED
      BY <1>4, <1>5, <3>1
  <2>3. ASSUME NEW j \in 1 .. Len(kept) PROVE r[j + m] = kept[j]
    <3>1. j + m \in 1 .. m + Len(kept) /\ ~(j + m <= m) /\ (j + m) - m = j
      BY <1>1
    <3>2. r[j + m] = kept[(j + m) - m]
      BY <1>4, <1>5, <3>1
    <3> QED
      BY <3>1, <3>2
  <2> QED
    BY <2>1, <2>2, <2>3
<1>7. SubSeq(r, 1, m) = p
  <2>1. PICK u : u = SubSeq(r, 1, m)
    OBVIOUS
  <2>2. \A j \in 1 .. m : r[j] \in Value
    BY SMTT(30), <1>1, <1>6
  <2>3. SubSeq(r, 1, m) \in Seq(Value)
        /\ Len(SubSeq(r, 1, m)) = (IF 1 <= m THEN m - 1 + 1 ELSE 0)
    BY <1>1, <2>2, SubSeqProperties
  <2>4. u \in Seq(Value) /\ Len(u) = m
    BY <1>1, <2>1, <2>3
  <2>5. \A j \in 1 .. m : SubSeq(r, 1, m)[j] = r[j]
    <3>1. m <= Len(r)
      BY <1>1, <1>6
    <3> QED
      BY <1>1, <1>5, <3>1
  <2>6. \A j \in 1 .. m : u[j] = p[j]
    BY <1>4, <1>6, <2>1, <2>5
  <2>7. u = p
    BY <1>4, <2>4, <2>6, SeqEqual
  <2> QED
    BY <2>1, <2>7
<1>8. Splits(e, m, a, kept, r)
  <2>1. Len(a) \in Nat
    BY <1>1, <1>3
  <2>2. /\ a \in Seq(Value) /\ Len(a) = Len(e) - m
        /\ \A i \in 1 .. Len(a) : a[i] = e[i + m] /\ i + m \in 1 .. Len(e)
    BY <1>3
  <2>3. SubSeq(r, 1, m) = SubSeq(e, 1, m)
    BY <1>2, <1>7
  <2>4. r \in Seq(Value)
    BY <1>5
  <2> QED
    BY <1>6, <2>1, <2>2, <2>3, <2>4 DEF Splits
<1> QED
  BY <1>2, <1>8

\* The callee's parameters are the arguments, tracked when they were moved.
Params(vars, args) ==
  /\ Len(vars) = Len(args)
  /\ \A i \in 1 .. Len(args) : (vars[i].tracked <=> args[i].own = "moved") /\ Same(vars[i], args[i])

\* b is the call g without its values after the first m, of which G are owned.
Cut(g, m, b, G) ==
  /\ b \in Frame /\ b.vars = g.vars /\ b.eval = SubSeq(g.eval, 1, m)
  /\ m \in 0 .. Len(g.eval) /\ From(G, OwnedEval(g), m)

\* LedgerCutEval, of such a call.
LEMMA CutLedger ==
  ASSUME NEW c \in Seq(Frame), NEW g \in Frame, NEW m, NEW b, NEW G, Cut(g, m, b, G), NEW w
  PROVE  Ledger(Append(c, g), w) = PlusRefs(Ledger(Append(c, b), w), g.eval, G, w)
BY LedgerCutEval DEF Cut

\* g is the call f after it has called: it keeps its first m values and, of the
\* arguments, kept.
Calling(f, m, args, kept, g) ==
  /\ args = SubSeq(f.eval, m + 1, Len(f.eval))
  /\ KeptOf(kept, args, Len(args))
  /\ g.vars = f.vars /\ g.bodies = f.bodies
  /\ g.eval = SubSeq(f.eval, 1, m) \o kept
  /\ g.args = Len(kept) + 1

\* A call changes hands only.
LEMMA CallLedger ==
  ASSUME NEW c \in Seq(Frame), NEW f \in Frame, NEW m \in 0 .. Len(f.eval),
         NEW args, NEW kept, NEW g \in Frame, Calling(f, m, args, kept, g),
         NEW x \in Frame, x.eval = <<>>, Params(x.vars, args),
         NEW w
  PROVE  Ledger(Append(Append(c, g), x), w) = Ledger(Append(c, f), w)
<1>1. PICK e, q, a, v, k : e = f.eval /\ q = g.eval /\ a = args /\ v = x.vars /\ k = kept
  OBVIOUS
<1>2. e \in Seq(Value) /\ Len(e) \in Nat /\ DOMAIN e = 1 .. Len(e) /\ DOMAIN q = 1 .. Len(q)
      /\ DOMAIN v = 1 .. Len(v) /\ IsFiniteSet(OwnedEval(f)) /\ IsFiniteSet(OwnedEval(g))
      /\ m \in Nat /\ \A j \in 1 .. Len(e) : e[j] \in Value
  BY <1>1, FrameShape
<1>3. /\ k \in Seq(Value) /\ KeptOf(k, a, Len(a))
      /\ \A j \in 1 .. Len(k) : Lendable(k[j])
      /\ \A S \in Ledgers : \A u :
           PlusRefs(S, k, FreshAt(k, Len(k)), u) = PlusRefs(S, a, FreshAt(a, Len(a)), u)
  BY <1>1 DEF KeptOf, Calling
<1>4. /\ a \in Seq(Value) /\ Len(a) = Len(e) - m /\ Len(a) \in Nat
      /\ \A i \in 1 .. Len(a) : a[i] = e[i + m] /\ i + m \in 1 .. Len(e)
      /\ q \in Seq(Value) /\ Len(q) = m + Len(k)
      /\ \A j \in 1 .. m : q[j] = e[j]
      /\ \A j \in 1 .. Len(k) : q[j + m] = k[j]
      /\ SubSeq(q, 1, m) = SubSeq(e, 1, m)
  <2>1. a = SubSeq(e, m + 1, Len(e)) /\ q = SubSeq(e, 1, m) \o k /\ m \in 0 .. Len(e)
    BY <1>1 DEF Calling
  <2>2. e \in Seq(Value)
    BY <1>2
  <2>3. k \in Seq(Value)
    BY <1>3
  <2>4. Splits(e, m, a, k, q)
    BY <2>1, <2>2, <2>3, CallValues
  <2> QED
    BY <2>4 DEF Splits
<1>5. Len(k) \in Nat
  BY <1>3, LenProperties
<1>6. PICK d : d = SubSeq(e, 1, m)
  OBVIOUS
<1>7. PICK b : b = [vars |-> f.vars, bodies |-> f.bodies, eval |-> d, args |-> f.args]
  OBVIOUS
<1>8. b \in Frame /\ b.vars = f.vars /\ b.eval = d
  <2>1. \A j \in 1 .. m : e[j] \in Value
    <3>1. m \in 0 .. Len(e)
      BY <1>1
    <3> QED
      BY <1>2, <3>1
  <2>2. d \in Seq(Value)
    <3>1. 1 \in Int /\ m \in Int /\ e \in Seq(Value)
      BY <1>2
    <3>2. \A j \in 1 .. m : e[j] \in Value
      BY <2>1
    <3>3. SubSeq(e, 1, m) \in Seq(Value)
      BY <3>1, <3>2, SubSeqProperties
    <3> QED
      BY <1>6, <3>3
  <2>3. f.vars \in Seq(Variable) /\ f.bodies \in Seq(Nat) /\ f.args \in Nat
    BY FrameShape
  <2> QED
    BY <1>7, <2>2, <2>3 DEF Frame
<1>9. PICK B : B = Ledger(Append(c, b), w)
  OBVIOUS
<1>10. B \in Ledgers
  <2>1. Append(c, b) \in Seq(Frame)
    BY <1>8, AppendProperties
  <2> QED
    BY <1>9, <2>1, LedgerType
<1>11. PICK I, F, M, G, H, J :
         /\ I = {j \in OwnedEval(f) : j > m} /\ G = {j \in OwnedEval(g) : j > m}
         /\ F = {j \in I : e[j].own = "fresh"} /\ M = {j \in I : e[j].own = "moved"}
         /\ H = FreshAt(k, Len(k)) /\ J = FreshAt(a, Len(a))
  OBVIOUS
<1>12. \A j : j \in I <=> j \in 1 .. Len(e) /\ e[j].own \in Owning /\ j > m
  BY <1>1, <1>2, <1>11 DEF OwnedEval
<1>13. \A j : j \in G <=> j \in 1 .. Len(q) /\ q[j].own \in Owning /\ j > m
  BY <1>1, <1>2, <1>11 DEF OwnedEval
<1>14. /\ I = F \cup M /\ F \cap M = {}
       /\ IsFiniteSet(F) /\ IsFiniteSet(M) /\ IsFiniteSet(G)
  <2>1. F \subseteq OwnedEval(f) /\ M \subseteq OwnedEval(f) /\ G \subseteq OwnedEval(g)
    BY <1>11
  <2>2. IsFiniteSet(F) /\ IsFiniteSet(M) /\ IsFiniteSet(G)
    BY <1>2, <2>1, FS_Subset
  <2>3. I = F \cup M /\ F \cap M = {}
    BY <1>11, <1>12 DEF Owning
  <2> QED
    BY <2>2, <2>3
<1>15. Ledger(Append(c, f), w) = PlusRefs(PlusRefs(B, e, F, w), e, M, w)
  <2>1. From(I, OwnedEval(f), m)
    BY <1>11 DEF From
  <2>2. b.vars = f.vars /\ b.eval = SubSeq(f.eval, 1, m)
    BY <1>1, <1>6, <1>8
  <2>3. Ledger(Append(c, f), w) = PlusRefs(Ledger(Append(c, b), w), f.eval, I, w)
    BY <1>8, <2>1, <2>2, LedgerCutEval
  <2>4. PlusRefs(B, e, F \cup M, w) = PlusRefs(PlusRefs(B, e, F, w), e, M, w)
    BY <1>10, <1>14, PlusRefsParts
  <2> QED
    BY <1>1, <1>9, <1>14, <2>3, <2>4
<1>16. Ledger(Append(c, g), w) = PlusRefs(B, q, G, w)
  <2>1. PICK p \in Frame : p = g
    OBVIOUS
  <2>2. From(G, OwnedEval(p), m)
    BY <1>11, <2>1 DEF From
  <2>3. PICK n : n = m
    OBVIOUS
  <2>4. b.vars = p.vars
    BY <1>8, <2>1 DEF Calling
  <2>5. b.eval = SubSeq(p.eval, 1, n)
    BY <1>1, <1>4, <1>6, <1>8, <2>1, <2>3
  <2>6. n \in 0 .. Len(p.eval)
    BY <1>1, <1>2, <1>4, <1>5, <2>1, <2>3
  <2>7. From(G, OwnedEval(p), n)
    BY <2>2, <2>3
  <2>8. b \in Frame
    BY <1>8
  <2>9. Cut(p, n, b, G)
    BY <2>4, <2>5, <2>6, <2>7, <2>8 DEF Cut
  <2>10. Ledger(Append(c, p), w) = PlusRefs(Ledger(Append(c, b), w), p.eval, G, w)
    BY <2>9, CutLedger
  <2> QED
    BY <1>1, <1>9, <2>1, <2>10
<1>17. PlusRefs(B, a, J, w) = PlusRefs(B, e, F, w)
  <2>1. \A j : j \in F <=> j \in 1 .. Len(e) /\ e[j].own = "fresh" /\ j > m
    BY <1>11, <1>12 DEF Owning
  <2>2. \A j : j \in J <=> j \in 1 .. Len(a) /\ a[j].own = "fresh"
    BY <1>11 DEF FreshAt
  <2>3. ASSUME NEW j \in F PROVE j \in Int /\ j - m \in J
    <3>1. j \in 1 .. Len(e) /\ e[j].own = "fresh" /\ j > m
      BY <2>1
    <3>2. j - m \in 1 .. Len(a) /\ (j - m) + m = j
      BY <1>2, <1>4, <3>1
    <3>3. a[j - m] = e[(j - m) + m]
      BY <1>4, <3>2
    <3> QED
      BY <2>2, <3>1, <3>2, <3>3
  <2>4. ASSUME NEW j \in J PROVE j \in Int /\ j + m \in F /\ a[j] = e[j + m]
    <3>1. j \in 1 .. Len(a) /\ a[j].own = "fresh"
      BY <2>2
    <3>2. a[j] = e[j + m] /\ j + m \in 1 .. Len(e) /\ j + m > m
      BY <1>2, <1>4, <3>1
    <3> QED
      BY <2>1, <3>1, <3>2
  <2>5. Shifted(e, F, a, J, m)
    BY <2>3, <2>4 DEF Shifted, Same
  <2>6. m \in Int
    BY <1>2
  <2> QED
    BY <1>14, <2>5, <2>6, PlusRefsShift
<1>18. PlusRefs(B, k, H, w) = PlusRefs(B, q, G, w)
  <2>1. \A j : j \in H <=> j \in 1 .. Len(k) /\ k[j].own = "fresh"
    BY <1>11 DEF FreshAt
  <2>2. ASSUME NEW j \in G PROVE j \in Int /\ j - m \in H
    <3>1. j \in 1 .. Len(q) /\ q[j].own \in Owning /\ j > m
      BY <1>13
    <3>2. j - m \in 1 .. Len(k) /\ (j - m) + m = j
      BY <1>2, <1>4, <1>5, <3>1
    <3>3. q[(j - m) + m] = k[j - m]
      BY <1>4, <3>2
    <3>4. k[j - m].own = "fresh"
      <4>1. Lendable(k[j - m])
        BY <1>3, <3>2
      <4> QED
        BY <3>1, <3>2, <3>3, <4>1 DEF Lendable, Owning
    <3> QED
      BY <2>1, <3>1, <3>2, <3>4
  <2>3. ASSUME NEW j \in H PROVE j \in Int /\ j + m \in G /\ k[j] = q[j + m]
    <3>1. j \in 1 .. Len(k) /\ k[j].own = "fresh"
      BY <2>1
    <3>2. q[j + m] = k[j] /\ j + m \in 1 .. Len(q) /\ j + m > m
      BY <1>2, <1>4, <1>5, <3>1
    <3> QED
      BY <1>13, <3>1, <3>2 DEF Owning
  <2>4. Shifted(q, G, k, H, m)
    BY <2>2, <2>3 DEF Shifted, Same
  <2>5. m \in Int
    BY <1>2
  <2> QED
    BY <1>14, <2>4, <2>5, PlusRefsShift
<1>19. PICK C : C = Ledger(Append(c, g), w)
  OBVIOUS
<1>20. C = PlusRefs(B, e, F, w)
  <2>1. PlusRefs(B, k, H, w) = PlusRefs(B, a, J, w)
    BY <1>3, <1>10, <1>11
  <2> QED
    BY <1>16, <1>17, <1>18, <1>19, <2>1
<1>21. PICK N : N = OwnedVars(x)
  OBVIOUS
<1>22. Ledger(Append(Append(c, g), x), w) = PlusRefs(C, v, N, w)
  <2>1. PICK s : s = Append(c, g)
    OBVIOUS
  <2>2. s \in Seq(Frame)
    BY <2>1, AppendProperties
  <2>3. Ledger(Append(s, x), w) = PlusRefs(Ledger(s, w), x.vars, OwnedVars(x), w)
    BY <2>2, LedgerVars
  <2> QED
    BY <1>1, <1>19, <1>21, <2>1, <2>3
<1>23. PlusRefs(C, v, N, w) = PlusRefs(C, e, M, w)
  <2>0. /\ Len(v) = Len(a)
        /\ \A i \in 1 .. Len(a) : (v[i].tracked <=> a[i].own = "moved") /\ Same(v[i], a[i])
    BY <1>1 DEF Params
  <2>1. \A j : j \in M <=> j \in 1 .. Len(e) /\ e[j].own = "moved" /\ j > m
    BY <1>11, <1>12 DEF Owning
  <2>2. \A j : j \in N <=> j \in 1 .. Len(a) /\ a[j].own = "moved"
    BY <1>1, <1>2, <1>21, <2>0 DEF OwnedVars
  <2>3. ASSUME NEW j \in M PROVE j \in Int /\ j - m \in N
    <3>1. j \in 1 .. Len(e) /\ e[j].own = "moved" /\ j > m
      BY <2>1
    <3>2. j - m \in 1 .. Len(a) /\ (j - m) + m = j
      BY <1>2, <1>4, <3>1
    <3>3. a[j - m] = e[(j - m) + m]
      BY <1>4, <3>2
    <3> QED
      BY <2>2, <3>1, <3>2, <3>3
  <2>4. ASSUME NEW j \in N PROVE j \in Int /\ j + m \in M /\ Same(v[j], e[j + m])
    <3>1. j \in 1 .. Len(a) /\ a[j].own = "moved"
      BY <2>2
    <3>2. a[j] = e[j + m] /\ j + m \in 1 .. Len(e) /\ j + m > m
      BY <1>2, <1>4, <3>1
    <3>3. Same(v[j], a[j])
      BY <2>0, <3>1
    <3> QED
      BY <2>1, <3>1, <3>2, <3>3
  <2>5. Shifted(e, M, v, N, m)
    BY <2>3, <2>4 DEF Shifted
  <2>6. m \in Int
    BY <1>2
  <2> QED
    BY <1>14, <2>5, <2>6, PlusRefsShift
<1> QED
  BY <1>15, <1>20, <1>22, <1>23

\* Where its values come from.
LEMMA CallingValues ==
  ASSUME NEW f \in Frame, NEW m \in 0 .. Len(f.eval), NEW args, NEW kept, NEW g \in Frame,
         Calling(f, m, args, kept, g)
  PROVE  /\ m \in Nat /\ Len(kept) \in Nat /\ Len(g.eval) = m + Len(kept)
         /\ Len(args) \in Nat
         /\ \A i \in 1 .. Len(args) : args[i] = f.eval[i + m] /\ i + m \in 1 .. Len(f.eval)
         /\ \A j \in 1 .. Len(g.eval) : \E i \in 1 .. Len(f.eval) : g.eval[j] = f.eval[i]
         /\ \A j \in 1 .. Len(kept) : g.eval[j + m] = kept[j] /\ Lendable(kept[j])
<1>1. PICK e, q, a, k : e = f.eval /\ q = g.eval /\ a = args /\ k = kept
  OBVIOUS
<1>2. e \in Seq(Value) /\ Len(e) \in Nat
  BY <1>1, FrameShape
<1>3. a = SubSeq(e, m + 1, Len(e)) /\ q = SubSeq(e, 1, m) \o k /\ m \in 0 .. Len(e)
  BY <1>1 DEF Calling
<1>4. KeptOf(k, a, Len(a))
  BY <1>1 DEF Calling
<1>5. k \in Seq(Value)
  BY <1>4 DEF KeptOf
<1>6. Splits(e, m, a, k, q)
  <2>1. e \in Seq(Value)
    BY <1>2
  <2> QED
    BY <1>3, <1>5, <2>1, CallValues
<1>7. /\ Len(a) \in Nat /\ Len(q) = m + Len(k)
      /\ \A i \in 1 .. Len(a) : a[i] = e[i + m] /\ i + m \in 1 .. Len(e)
      /\ \A j \in 1 .. m : q[j] = e[j]
      /\ \A j \in 1 .. Len(k) : q[j + m] = k[j]
  BY <1>6 DEF Splits
<1>8. m \in Nat /\ m <= Len(e) /\ Len(k) \in Nat
  BY <1>2, <1>3, <1>5, LenProperties
<1>9. \A j \in 1 .. Len(k) : Lendable(k[j]) /\ \E i \in 1 .. Len(a) : k[j] = a[i]
  BY <1>4 DEF KeptOf
<1>10. ASSUME NEW j \in 1 .. Len(q) PROVE \E i \in 1 .. Len(e) : q[j] = e[i]
  <2>1. CASE j <= m
    <3>1. j \in 1 .. m /\ j \in 1 .. Len(e)
      BY <1>2, <1>7, <1>8, <2>1
    <3> QED
      BY <1>7, <3>1
  <2>2. CASE ~(j <= m)
    <3>1. j - m \in 1 .. Len(k) /\ (j - m) + m = j
      BY <1>7, <1>8, <2>2
    <3>2. q[(j - m) + m] = k[j - m]
      BY <1>7, <3>1
    <3>3. PICK i \in 1 .. Len(a) : k[j - m] = a[i]
      BY <1>9, <3>1
    <3>4. a[i] = e[i + m] /\ i + m \in 1 .. Len(e)
      BY <1>7
    <3> QED
      BY <3>1, <3>2, <3>3, <3>4
  <2> QED
    BY <2>1, <2>2
<1> QED
  BY <1>1, <1>7, <1>8, <1>9, <1>10

\* The caller waits, and keeps alive what it has lent.
LEMMA CallerWaits ==
  ASSUME NEW h, NEW c \in Seq(Frame), NEW f \in Frame, StateOK(h, Append(c, f)),
         NEW m \in 0 .. Len(f.eval), NEW args, NEW kept, NEW g \in Frame,
         Calling(f, m, args, kept, g)
  PROVE  Suspended(h, Append(c, g))
<1>1. /\ Waiting(c) /\ FrameOK(f) /\ LentBy(c, f) /\ VarsUsable(h, f)
      /\ \A j \in 1 .. Len(f.eval) : ValueOK(h, f, f.eval[j])
  BY TopFacts
<1>2. /\ m \in Nat /\ Len(kept) \in Nat /\ Len(g.eval) = m + Len(kept)
      /\ \A j \in 1 .. Len(g.eval) : \E i \in 1 .. Len(f.eval) : g.eval[j] = f.eval[i]
      /\ \A j \in 1 .. Len(kept) : g.eval[j + m] = kept[j] /\ Lendable(kept[j])
  BY CallingValues
<1>3. g.vars = f.vars /\ g.bodies = f.bodies /\ g.args = Len(kept) + 1
  BY DEF Calling
<1>4. \A j \in 1 .. Len(g.eval) : ValueOK(h, f, g.eval[j])
  BY <1>1, <1>2
<1>5. DOMAIN g.eval = 1 .. Len(g.eval) /\ DOMAIN f.vars = 1 .. Len(f.vars)
  BY FrameShape
<1>6. FrameOK(g)
  <2>1. /\ \A j \in DOMAIN g.vars : g.vars[j].weak => g.vars[j].val # Null
        /\ \A k \in DOMAIN g.bodies :
             /\ g.bodies[k] <= Len(g.vars)
             /\ \A l \in DOMAIN g.bodies : l <= k => g.bodies[l] <= g.bodies[k]
             /\ \A j \in DOMAIN g.vars : j > g.bodies[k] => g.vars[j].tracked
    BY <1>1, <1>3 DEF FrameOK
  <2>2. \A j \in DOMAIN g.eval :
          /\ g.eval[j].weak => g.eval[j].val # Null /\ g.eval[j].own # "borrowed"
          /\ g.eval[j].own = "named" => \E k \in DOMAIN g.vars : Same(g.vars[k], g.eval[j])
    BY <1>3, <1>4, <1>5 DEF ValueOK
  <2>3. g.args <= Len(g.eval) + 1
    BY <1>2, <1>3
  <2>4. \A j \in Lent(g) : g.eval[j].own \in {"borrowed", "fresh"}
    <3> SUFFICES ASSUME NEW j \in Lent(g) PROVE g.eval[j].own \in {"borrowed", "fresh"}
      OBVIOUS
    <3>1. j \in 1 .. Len(g.eval) /\ j > Len(g.eval) - (g.args - 1)
      BY <1>5 DEF Lent
    <3>2. j - m \in 1 .. Len(kept) /\ (j - m) + m = j
      BY <1>2, <1>3, <3>1
    <3>3. g.eval[(j - m) + m] = kept[j - m] /\ Lendable(kept[j - m])
      BY <1>2, <3>2
    <3> QED
      BY <3>2, <3>3 DEF Lendable
  <2> QED
    BY <2>1, <2>2, <2>3, <2>4 DEF FrameOK
<1>7. g.args # 0
  BY <1>2, <1>3
<1>8. LentBy(c, g)
  BY <1>1, <1>3 DEF LentBy
<1>9. FrameBorrows(h, g)
  BY <1>3, <1>4, <1>5 DEF FrameBorrows, ValueOK
<1>10. StrongUsable(h, g)
  BY <1>1, <1>3 DEF VarsUsable, StrongUsable
<1>11. Suspended(h, c)
  BY SuspendedUnder
<1> QED
  BY <1>6, <1>7, <1>8, <1>9, <1>10, <1>11, SuspendedTop

\* The callee runs on what it was given.
LEMMA CalleeRuns ==
  ASSUME NEW h, NEW c \in Seq(Frame), NEW f \in Frame, StateOK(h, Append(c, f)),
         NEW m \in 0 .. Len(f.eval), NEW args, NEW kept, NEW g \in Frame,
         Calling(f, m, args, kept, g),
         NEW x \in Frame, x.eval = <<>>, x.bodies = <<>>, x.args = 0, Params(x.vars, args)
  PROVE  /\ FrameOK(x) /\ LentBy(Append(c, g), x)
         /\ FrameBorrows(h, x) /\ StrongUsable(h, x)
<1>1. /\ FrameOK(f) /\ EvalUsable(h, f)
      /\ \A j \in 1 .. Len(f.eval) : ValueOK(h, f, f.eval[j])
  BY TopFacts
<1>2. /\ m \in Nat /\ Len(kept) \in Nat /\ Len(g.eval) = m + Len(kept)
      /\ \A j \in 1 .. Len(kept) : g.eval[j + m] = kept[j]
  BY CallingValues
<1>3. PICK e, a, v : e = f.eval /\ a = args /\ v = x.vars
  OBVIOUS
<1>4. \A i \in 1 .. Len(a) : a[i] = e[i + m] /\ i + m \in 1 .. Len(e)
  BY <1>3, CallingValues
<1>5. /\ DOMAIN x.vars = 1 .. Len(x.vars) /\ DOMAIN f.vars = 1 .. Len(f.vars)
      /\ DOMAIN g.eval = 1 .. Len(g.eval) /\ \A j \in 1 .. Len(e) : e[j] \in Value
  BY <1>3, FrameShape
<1>6. /\ Len(v) = Len(a)
      /\ \A i \in 1 .. Len(a) : (v[i].tracked <=> a[i].own = "moved") /\ Same(v[i], a[i])
  BY <1>3 DEF Params
<1>7. ASSUME NEW j \in 1 .. Len(v)
      PROVE  ValueOK(h, f, a[j]) /\ Usable(h, a[j]) /\ a[j] \in Value
             /\ Same(v[j], a[j]) /\ (v[j].tracked <=> a[j].own = "moved")
             /\ j \in 1 .. Len(a)
  <2>1. a[j] = e[j + m] /\ j + m \in 1 .. Len(e)
    BY <1>4, <1>6
  <2>2. ValueOK(h, f, e[j + m]) /\ Usable(h, e[j + m]) /\ e[j + m] \in Value
    BY <1>1, <1>3, <1>5, <2>1 DEF EvalUsable
  <2> QED
    BY <1>6, <2>1, <2>2
<1>8. FrameOK(x)
  <2>1. \A j \in DOMAIN x.vars : x.vars[j].weak => x.vars[j].val # Null
    BY SMTT(30), <1>3, <1>5, <1>7 DEF ValueOK, Same
  <2>2. DOMAIN x.eval = {} /\ DOMAIN x.bodies = {} /\ Len(x.eval) = 0
    OBVIOUS
  <2>3. x.args <= Len(x.eval) + 1 /\ ~(x.args > 0)
    BY <2>2
  <2> QED
    BY <2>1, <2>2, <2>3 DEF FrameOK
<1>9. FrameBorrows(h, x)
  <2>1. DOMAIN x.eval = {}
    OBVIOUS
  <2> QED
    BY <2>1 DEF FrameBorrows
<1>10. StrongUsable(h, x)
  BY SMTT(30), <1>3, <1>7 DEF StrongUsable, Usable, Same
<1>11. PICK s : s = Append(c, g)
  OBVIOUS
<1>12. Len(s) > 0 /\ s[Len(s)] = g
  <2>1. Len(c) \in Nat /\ Len(s) = Len(c) + 1 /\ s[Len(c) + 1] = g
    BY <1>11, LenProperties, AppendProperties
  <2> QED
    BY <2>1
<1>13. ASSUME NEW j \in 1 .. Len(v), ~v[j].tracked PROVE Lends(g, v[j])
  <2>1. CASE a[j].own = "named"
    <3>1. PICK l \in 1 .. Len(f.vars) : Same(f.vars[l], a[j])
      BY <1>7, <2>1 DEF ValueOK
    <3>2. g.vars = f.vars
      BY DEF Calling
    <3>3. Same(g.vars[l], v[j]) /\ l \in DOMAIN g.vars
      BY <1>5, <1>7, <3>1, <3>2 DEF Same
    <3> QED
      BY <3>3 DEF Lends
  <2>2. CASE Lendable(a[j])
    <3>1. PICK i \in 1 .. Len(kept) : kept[i] = a[j]
      <4>1. \A l \in 1 .. Len(args) : Lendable(args[l]) => \E i \in 1 .. Len(kept) : kept[i] = args[l]
        BY DEF Calling, KeptOf
      <4> QED
        BY <1>3, <1>7, <2>2, <4>1
    <3>2. g.args = Len(kept) + 1
      BY DEF Calling
    <3>3. i + m \in Lent(g)
      BY <1>2, <1>5, <3>2 DEF Lent
    <3>4. Same(g.eval[i + m], v[j])
      BY <1>2, <1>7, <3>1 DEF Same
    <3> QED
      BY <3>3, <3>4 DEF Lends
  <2> QED
    BY <1>7, <1>13, <2>1, <2>2 DEF Value, Lendable
<1>14. LentBy(s, x)
  BY <1>3, <1>12, <1>13 DEF LentBy
<1> QED
  BY <1>8, <1>9, <1>10, <1>11, <1>14

\* A caller and its callee on top of the calls under them.
LEMMA TwoCalls ==
  ASSUME NEW c \in Seq(Frame), NEW g \in Frame, NEW x \in Frame
  PROVE  c \o <<g, x>> = Append(Append(c, g), x)
<1>1. PICK s, t, u : s = Append(c, g) /\ t = Append(s, x) /\ u = <<g, x>>
  OBVIOUS
<1>2. Len(c) \in Nat /\ s \in Seq(Frame) /\ Len(s) = Len(c) + 1 /\ s[Len(c) + 1] = g
      /\ \A j \in 1 .. Len(c) : s[j] = c[j]
  BY <1>1, LenProperties, AppendProperties
<1>3. t \in Seq(Frame) /\ Len(t) = Len(s) + 1 /\ t[Len(s) + 1] = x
      /\ \A j \in 1 .. Len(s) : t[j] = s[j]
  BY <1>1, <1>2, AppendProperties
<1>4. u \in Seq(Frame) /\ Len(u) = 2 /\ u[1] = g /\ u[2] = x
  BY <1>1
<1>5. PICK v : v = c \o u
  OBVIOUS
<1>6. v \in Seq(Frame) /\ Len(v) = Len(c) + 2
      /\ \A j \in 1 .. Len(c) + 2 : v[j] = IF j <= Len(c) THEN c[j] ELSE u[j - Len(c)]
  <2>1. u \in Seq(Frame)
    BY <1>4
  <2>2. c \o u \in Seq(Frame) /\ Len(c \o u) = Len(c) + Len(u)
        /\ \A j \in 1 .. Len(c) + Len(u) : (c \o u)[j] = IF j <= Len(c) THEN c[j] ELSE u[j - Len(c)]
    BY <2>1, ConcatProperties
  <2>3. Len(u) = 2
    BY <1>4
  <2> QED
    BY <1>5, <2>2, <2>3
<1>7. ASSUME NEW j \in 1 .. Len(v) PROVE v[j] = t[j]
  <2>1. j \in 1 .. Len(c) \/ j = Len(c) + 1 \/ j = Len(c) + 2
    BY <1>2, <1>6
  <2>2. CASE j \in 1 .. Len(c)
    <3>1. j <= Len(c) /\ j \in 1 .. Len(s) /\ j \in 1 .. Len(c) + 2
      BY <1>2, <2>2
    <3> QED
      BY <1>2, <1>3, <1>6, <2>2, <3>1
  <2>3. CASE j = Len(c) + 1
    <3>1. ~(j <= Len(c)) /\ j - Len(c) = 1 /\ j \in 1 .. Len(s)
      BY <1>2, <2>3
    <3>2. v[j] = u[j - Len(c)]
      BY <1>6, <3>1
    <3> QED
      BY <1>2, <1>3, <1>4, <2>3, <3>1, <3>2
  <2>4. CASE j = Len(c) + 2
    <3>1. ~(j <= Len(c)) /\ j - Len(c) = 2 /\ j = Len(s) + 1
      BY <1>2, <2>4
    <3>2. v[j] = u[j - Len(c)]
      BY <1>6, <3>1
    <3> QED
      BY <1>3, <1>4, <3>1, <3>2
  <2> QED
    BY <2>1, <2>2, <2>3, <2>4
<1>8. v = t
  <2>1. Len(v) = Len(t)
    BY <1>2, <1>3, <1>6
  <2> QED
    BY <1>3, <1>6, <1>7, <2>1, SeqEqual
<1> QED
  BY <1>1, <1>5, <1>8

\* A call with other values, waiting.
LEMMA FrameCalling ==
  ASSUME NEW f \in Frame, NEW e, NEW t, NEW g, g = [f EXCEPT !.eval = e, !.args = t]
  PROVE  g = [vars |-> f.vars, bodies |-> f.bodies, eval |-> e, args |-> t]
BY Zenon DEF Frame

\* f(...)
LEMMA CallKeeps ==
  ASSUME StateOK(heap, stack), NEW n \in Nat, Call(n)
  PROVE  StateOK(heap, stack)'
<1>1. PICK h, c, f :
        /\ c \in Seq(Frame) /\ f \in Frame
        /\ h = heap /\ c = Callers /\ f = Top /\ stack = Append(c, f)
        /\ StateOK(h, Append(c, f))
  BY SplitStack DEF Call, Running
<1>2. PICK e, L : e = f.eval /\ L = Len(e)
  OBVIOUS
<1>3. e \in Seq(Value) /\ L \in Nat /\ f.bodies \in Seq(Nat) /\ f.vars \in Seq(Variable)
      /\ f.args \in Nat
  BY <1>1, <1>2, FrameShape
<1>4. n <= L /\ Eval = e
  BY <1>1, <1>2 DEF Call, Eval
<1>5. PICK m : m = L - n
  OBVIOUS
<1>6. m \in 0 .. L /\ L - m = n
  BY <1>3, <1>4, <1>5
<1>7. PICK args, left : args = SubSeq(e, m + 1, L) /\ left = SubSeq(e, 1, m)
  OBVIOUS
<1>8. args \in Seq(Value) /\ Len(args) = n
  <2>1. PICK q : q = left \o <<>>
    OBVIOUS
  <2>2. <<>> \in Seq(Value) /\ m \in 0 .. Len(e) /\ e \in Seq(Value)
    BY <1>2, <1>3, <1>6, EmptySeq
  <2>3. Splits(e, m, args, <<>>, q)
    BY <1>2, <1>7, <2>1, <2>2, CallValues
  <2> QED
    BY <1>2, <1>6, <2>3 DEF Splits
<1>9. PICK kept : kept = Kept(args)
  OBVIOUS
<1>10. KeptOf(kept, args, Len(args))
  BY <1>8, <1>9, KeptAll
<1>11. kept \in Seq(Value) /\ Len(kept) \in Nat
  BY <1>10, LenProperties DEF KeptOf
<1>12. PICK params : params = [i \in 1 .. n |-> [tracked |-> args[i].own = "moved",
                                    weak |-> args[i].weak, val |-> args[i].val]]
  OBVIOUS
<1>13. params \in Seq(Variable) /\ Params(params, args)
  <2>1. \A i \in 1 .. n : args[i] \in Value
    BY <1>8, ElementOfSeq
  <2>2. params \in [1 .. n -> Variable]
    BY <1>12, <2>1 DEF Value, Variable
  <2>3. params \in Seq(Variable) /\ Len(params) = n
    BY <2>2
  <2>4. \A i \in 1 .. n : (params[i].tracked <=> args[i].own = "moved") /\ Same(params[i], args[i])
    BY <1>12 DEF Same
  <2> QED
    BY <1>8, <2>3, <2>4 DEF Params
<1>14. PICK q, t : q = left \o kept /\ t = Len(kept) + 1
  OBVIOUS
<1>15. q \in Seq(Value) /\ t \in Nat
  <2>1. e \in Seq(Value) /\ m \in 0 .. Len(e)
    BY <1>2, <1>3, <1>6
  <2>2. kept \in Seq(Value)
    BY <1>11
  <2>3. Splits(e, m, args, kept, q)
    BY <1>2, <1>7, <1>14, <2>1, <2>2, CallValues
  <2> QED
    BY <1>11, <1>14, <2>3 DEF Splits
<1>16. PICK g, x : /\ g = [vars |-> f.vars, bodies |-> f.bodies, eval |-> q, args |-> t]
                   /\ x = [vars |-> params, bodies |-> <<>>, eval |-> <<>>, args |-> 0]
  OBVIOUS
<1>17. /\ g \in Frame /\ g.vars = f.vars /\ g.bodies = f.bodies /\ g.eval = q /\ g.args = t
  BY <1>3, <1>15, <1>16, FrameMade
<1>18. /\ x \in Frame /\ x.vars = params /\ x.bodies = <<>> /\ x.eval = <<>> /\ x.args = 0
  BY <1>13, <1>16 DEF Frame
<1>19. heap' = h /\ stack' = Append(Append(c, g), x)
  <2>1. [f EXCEPT !.eval = q, !.args = t] = g
    <3>1. PICK b : b = [f EXCEPT !.eval = q, !.args = t]
      OBVIOUS
    <3>2. f \in Frame
      BY <1>1
    <3>3. b = [vars |-> f.vars, bodies |-> f.bodies, eval |-> q, args |-> t]
      BY <3>1, <3>2, FrameCalling
    <3>4. b = g
      BY <1>16, <3>3, Zenon
    <3> QED
      BY <3>1, <3>4
  <2>2. [NoCall EXCEPT !.vars = params] = x
    BY <1>16 DEF NoCall
  <2>3. heap' = h
    BY <1>1 DEF Call
  <2>4. stack' = c \o <<[f EXCEPT !.eval = q, !.args = t], [NoCall EXCEPT !.vars = params]>>
    BY <1>1, <1>2, <1>4, <1>5, <1>7, <1>9, <1>12, <1>14, Zenon DEF Call
  <2>5. stack' = c \o <<g, x>>
    BY <2>1, <2>2, <2>4, Zenon
  <2>6. c \o <<g, x>> = Append(Append(c, g), x)
    BY <1>1, <1>17, <1>18, TwoCalls
  <2> QED
    BY <2>3, <2>5, <2>6, Zenon
<1>20. Calling(f, m, args, kept, g)
  BY <1>2, <1>7, <1>10, <1>14, <1>17 DEF Calling
<1>21. m \in 0 .. Len(f.eval) /\ g \in Frame /\ c \in Seq(Frame) /\ f \in Frame
       /\ StateOK(h, Append(c, f))
  BY <1>1, <1>2, <1>6, <1>17
<1>22. PICK s : s = Append(c, g)
  OBVIOUS
<1>23. s \in Seq(Frame) /\ Suspended(h, s)
  <2>1. Suspended(h, Append(c, g))
    BY <1>20, <1>21, CallerWaits
  <2> QED
    BY <1>21, <1>22, <2>1, AppendProperties
<1>24. x \in Frame /\ x.eval = <<>> /\ x.bodies = <<>> /\ x.args = 0 /\ Params(x.vars, args)
  BY <1>13, <1>18
<1>25. FrameOK(x) /\ LentBy(s, x) /\ FrameBorrows(h, x) /\ StrongUsable(h, x)
  <2>1. FrameOK(x) /\ LentBy(Append(c, g), x) /\ FrameBorrows(h, x) /\ StrongUsable(h, x)
    BY <1>20, <1>21, <1>24, CalleeRuns
  <2> QED
    BY <1>22, <2>1
<1>26. PICK S, W : Books(c, f, S, W)
  BY <1>21, BooksKept
<1>27. S \in Ledgers /\ W \in Ledgers /\ Counted(h, S, W)
  BY <1>21, <1>26 DEF Books, StateOK
<1>28. Balanced(h, Append(s, x))
  <2>1. \A w : Ledger(Append(Append(c, g), x), w) = Ledger(Append(c, f), w)
    <3> SUFFICES ASSUME NEW w
                 PROVE  Ledger(Append(Append(c, g), x), w) = Ledger(Append(c, f), w)
      OBVIOUS
    <3> QED
      BY <1>20, <1>21, <1>24, CallLedger
  <2>2. Balanced(h, Append(c, f))
    BY <1>21 DEF StateOK, Balanced
  <2>3. \A w : Ledger(Append(s, x), w) = Ledger(Append(c, f), w)
    BY <1>22, <2>1
  <2>4. Ledger(Append(s, x), FALSE) = Ledger(Append(c, f), FALSE)
    BY <2>3, Zenon
  <2>5. Ledger(Append(s, x), TRUE) = Ledger(Append(c, f), TRUE)
    BY <2>3, Zenon
  <2> QED
    BY <2>2, <2>4, <2>5, Zenon DEF Balanced
<1>29. Steady(h, h, {})
  <2>1. Tame(h, h)
    BY DEF Tame
  <2> QED
    BY <2>1, TameSteady
<1>30. PICK D : D = {}
  OBVIOUS
<1>31. Steady(h, h, D) /\ Spared(x, D) /\ \A i \in 1 .. Len(s) : Spared(s[i], D)
  BY <1>29, <1>30 DEF Spared
<1>32. StateOK(h, Append(s, x))
  BY <1>23, <1>24, <1>25, <1>27, <1>28, <1>31, NewStack
<1> QED
  BY <1>19, <1>22, <1>32

-----------------------------------------------------------------------------
(* The invariant holds, and with it the properties. *)

\* A program that neither assigns to a borrowed parameter nor overwrites a
\* field behind which an unfinished expression of a caller has borrowed.
Disciplined == ~program.assigns /\ ~program.overwrites

\* In the beginning nothing is owned and no block is taken.
LEMMA InitKeeps ==
  ASSUME LowInit
  PROVE  StateOK(heap, stack)
<1>1. PICK h, g, Z, c : h = [o \in Objs |-> FreeBlock] /\ g = NoCall
                        /\ Z = [o \in Objs |-> 0] /\ c = <<>>
  OBVIOUS
<1>2. /\ g \in Frame /\ g.vars = <<>> /\ g.bodies = <<>> /\ g.eval = <<>> /\ g.args = 0
      /\ c \in Seq(Frame) /\ Len(c) = 0 /\ DOMAIN g.vars = {} /\ DOMAIN g.eval = {}
  BY <1>1 DEF NoCall, Frame
<1>3. heap = h /\ stack = Append(c, g)
  BY <1>1 DEF LowInit
<1>4. Z \in Ledgers
  BY <1>1 DEF Ledgers
<1>5. Counted(h, Z, Z)
  <2>1. \A o \in Objs : {p \in Objs : h[p].next = o} = {}
    BY <1>1, CountedHeapAssumption DEF FreeBlock
  <2>2. Cardinality({}) = 0
    BY FS_EmptySet
  <2>3. h \in CountedHeaps
    BY <1>1 DEF CountedHeaps, FreeBlock, Ref
  <2>4. \A o \in Objs : /\ h[o].strong = 0 /\ h[o].weak = 0 /\ h[o].next = Null
                        /\ h[o].held = FALSE /\ Z[o] = 0
    BY <1>1 DEF FreeBlock
  <2>5. ASSUME NEW o \in Objs
        PROVE  /\ h[o].strong = Z[o] + Cardinality({p \in Objs : h[p].next = o})
               /\ h[o].weak = Z[o]
               /\ h[o].strong = 0 => h[o].next = Null
               /\ h[o].held <=> h[o].strong > 0 \/ h[o].weak > 0
    <3>1. Cardinality({p \in Objs : h[p].next = o}) = 0
      BY <2>1, <2>2
    <3>2. h[o].strong = 0 /\ Z[o] = 0 /\ h[o].weak = 0
      BY <2>4
    <3> QED
      BY <2>4, <3>1, <3>2
  <2> QED
    BY <2>3, <2>5 DEF Counted
<1>6. \A w : Ledger(Append(c, g), w) = Z
  <2> SUFFICES ASSUME NEW w PROVE Ledger(Append(c, g), w) = Z
    OBVIOUS
  <2>1. PICK V, v : V = OwnedVars(g) /\ v = g.vars
    OBVIOUS
  <2>2. V = {}
    BY <1>2, <2>1 DEF OwnedVars
  <2>3. Ledger(c, w) = Z
    <3>1. \A o \in Objs : OwnersOf(c, o, w) = 0
      BY <1>1, OwnersOfNone
    <3> QED
      BY <1>1, <3>1 DEF Ledger
  <2>4. Ledger(Append(c, g), w) = PlusRefs(Ledger(c, w), g.vars, OwnedVars(g), w)
    BY <1>2, LedgerVars
  <2>5. PlusRefs(Z, v, {}, w) = Z
    <3>1. PICK none : none = {}
      OBVIOUS
    <3>2. IsFiniteSet(none)
      BY <3>1, FS_EmptySet
    <3> QED
      BY <1>4, <3>1, <3>2, PlusRefsLedger
  <2> QED
    BY <2>1, <2>2, <2>3, <2>4, <2>5
<1>7. Balanced(h, Append(c, g))
  <2>1. Ledger(Append(c, g), FALSE) = Z
    BY <1>6, Zenon
  <2>2. Ledger(Append(c, g), TRUE) = Z
    BY <1>6, Zenon
  <2> QED
    BY <1>5, <2>1, <2>2, Zenon DEF Balanced
<1>8. FrameOK(g)
  BY <1>2 DEF FrameOK
<1>9. LentBy(c, g) /\ FrameBorrows(h, g) /\ StrongUsable(h, g)
  BY <1>2 DEF LentBy, FrameBorrows, StrongUsable
<1>10. Suspended(h, c)
  BY <1>2 DEF Suspended, Waiting
<1>11. Steady(h, h, {})
  <2>1. Tame(h, h)
    BY DEF Tame
  <2> QED
    BY <2>1, TameSteady
<1>12. PICK D : D = {}
  OBVIOUS
<1>13. Steady(h, h, D) /\ Spared(g, D) /\ \A i \in 1 .. Len(c) : Spared(c[i], D)
  BY <1>11, <1>12 DEF Spared
<1>14. g \in Frame /\ g.args = 0 /\ c \in Seq(Frame)
  BY <1>2
<1>15. StateOK(h, Append(c, g))
  BY <1>4, <1>5, <1>7, <1>8, <1>9, <1>10, <1>13, <1>14, NewStack
<1> QED
  BY <1>3, <1>15

\* Every step keeps the invariant.
LEMMA StepKeeps ==
  ASSUME LowInv, Disciplined, [LowNext]_lowVars
  PROVE  LowInv' /\ Disciplined'
<1>1. program \in Programs /\ StateOK(heap, stack)
  BY DEF LowInv
<1>2. program.vars \in Nat /\ program.eval \in Nat /\ program.bodies \in Nat
  BY <1>1, LoweringAssumption
<1>3. program' = program
  BY DEF LowNext, lowVars
<1>4. StateOK(heap, stack)'
  <2>1. CASE UNCHANGED lowVars
    BY <1>1, <2>1 DEF lowVars
  <2> SUFFICES ASSUME LowNext PROVE StateOK(heap, stack)'
    BY <2>1
  <2>2. stack # <<>> => Top \in Frame
    <3>1. stack \in Seq(Frame)
      BY <1>1 DEF StateOK, CallsOK
    <3> QED
      BY <3>1, StackTop DEF Top
  <2>3. ASSUME NEW i \in 1 .. program.vars, stack # <<>>, i <= Len(Vars),
               VariableGet(i) \/ Assign(i) \/ ReturnVariable(i)
        PROVE  StateOK(heap, stack)'
    <3>1. i \in 1 .. Len(Vars)
      <4>1. Len(Vars) \in Nat
        BY <2>2, <2>3, FrameShape DEF Vars
      <4> QED
        BY <1>2, <2>3, <4>1
    <3>2. CASE VariableGet(i)
      BY <1>1, <2>3, <3>1, <3>2, VariableGetKeeps
    <3>3. CASE Assign(i)
      <4>1. Vars[i].tracked
        BY <3>3 DEF Assign, Disciplined
      <4> QED
        BY <1>1, <3>1, <3>3, <4>1, AssignKeeps
    <3>4. CASE ReturnVariable(i)
      BY <1>1, <3>1, <3>4, ReturnVariableKeeps
    <3> QED
      BY <2>3, <3>2, <3>3, <3>4
  <2>4. CASE NullLiteral
    BY <1>1, <2>4, NullLiteralKeeps DEF NullLiteral, Running
  <2>5. CASE HeapFieldLoad
    BY <1>1, <2>5, HeapFieldLoadKeeps
  <2>6. CASE \E o \in Objs : HeapConstruction(o)
    BY <1>1, <2>6, HeapConstructionKeeps
  <2>7. CASE WeakFromStrong
    BY <1>1, <2>7, WeakFromStrongKeeps
  <2>8. CASE WeakValue
    BY <1>1, <2>8, WeakValueKeeps
  <2>9. CASE ReadScalar
    BY <1>1, <2>9, ReadScalarKeeps
  <2>10. CASE \E weak \in BOOLEAN : OwnedArgument(weak)
    <3>1. PICK weak \in BOOLEAN : OwnedArgument(weak)
      BY <2>10, Zenon
    <3> QED
      BY <1>1, <3>1, OwnedArgumentKeeps, Zenon
  <2>11. CASE \E n \in 0 .. program.eval : Call(n)
    <3>1. PICK n \in 0 .. program.eval : Call(n)
      BY <2>11
    <3>2. n \in Nat
      BY <1>2
    <3> QED
      BY <1>1, <3>1, <3>2, CallKeeps
  <2>12. CASE Declare
    BY <1>1, <2>12, DeclareKeeps
  <2>13. CASE HeapFieldStore
    BY <1>1, <2>13, HeapFieldStoreKeeps DEF Disciplined
  <2>14. CASE EnterBody
    BY <1>1, <2>14, EnterBodyKeeps
  <2>15. ASSUME NEW k \in 1 .. program.bodies, stack # <<>>, k <= Len(Top.bodies), LeaveBody(k)
         PROVE  StateOK(heap, stack)'
    <3>1. k \in 1 .. Len(Top.bodies)
      <4>1. Len(Top.bodies) \in Nat
        BY <2>2, <2>15, FrameShape
      <4> QED
        BY <1>2, <2>15, <4>1
    <3> QED
      BY <1>1, <2>15, <3>1, LeaveBodyKeeps
  <2>16. CASE ReturnValue
    BY <1>1, <2>16, ReturnValueKeeps
  <2>17. CASE ReturnVoid
    BY <1>1, <2>17, ReturnVoidKeeps
  <2>18. CASE Propagate
    BY <1>1, <2>18, PropagateKeeps
  <2> QED
    BY <2>3, <2>4, <2>5, <2>6, <2>7, <2>8, <2>9, <2>10, <2>11, <2>12, <2>13, <2>14,
       <2>15, <2>16, <2>17, <2>18 DEF LowNext
<1> QED
  BY <1>1, <1>3, <1>4 DEF LowInv, Disciplined

\* LowInv holds throughout every run of a disciplined program.
THEOREM LoweringInvariant == LowSpec /\ Disciplined => []LowInv
<1>1. LowInit => LowInv
  BY InitKeeps DEF LowInit, LowInv
<1>2. LowInv /\ Disciplined /\ [LowNext]_lowVars => LowInv' /\ Disciplined'
  BY StepKeeps
<1> QED
  BY <1>1, <1>2, PTL DEF LowSpec

\* S and W are the ledgers of s, and the counts of h are theirs.
Reckoned(h, s, S, W) ==
  /\ StateOK(h, s) /\ Balanced(h, s)
  /\ s \in Seq(Frame) /\ DOMAIN s = 1 .. Len(s) /\ Len(s) \in Nat
  /\ S \in Ledgers /\ W \in Ledgers /\ Counted(h, S, W)
  /\ \A o \in Objs : S[o] = OwnersOf(s, o, FALSE) /\ W[o] = OwnersOf(s, o, TRUE)

\* In LowInv they are.
LEMMA InvFacts ==
  ASSUME LowInv
  PROVE  \E h, s, S, W : h = heap /\ s = stack /\ Reckoned(h, s, S, W)
<1>1. PICK h, s : h = heap /\ s = stack
  OBVIOUS
<1>2. StateOK(h, s) /\ s \in Seq(Frame) /\ Balanced(h, s)
  BY <1>1 DEF LowInv, StateOK, CallsOK, Balanced
<1>3. PICK S, W : S = Ledger(s, FALSE) /\ W = Ledger(s, TRUE)
  OBVIOUS
<1>4. S \in Ledgers /\ W \in Ledgers
  BY <1>2, <1>3, LedgerType
<1>5. Counted(h, S, W)
  BY <1>2, <1>3, Zenon DEF Balanced
<1>6. \A o \in Objs : S[o] = OwnersOf(s, o, FALSE) /\ W[o] = OwnersOf(s, o, TRUE)
  <2>1. \A w : \A o \in Objs : Ledger(s, w)[o] = OwnersOf(s, o, w)
    BY DEF Ledger
  <2>2. \A o \in Objs : Ledger(s, FALSE)[o] = OwnersOf(s, o, FALSE)
    BY <2>1, Zenon
  <2>3. \A o \in Objs : Ledger(s, TRUE)[o] = OwnersOf(s, o, TRUE)
    BY <2>1, Zenon
  <2> QED
    BY <1>3, <2>2, <2>3, Zenon
<1>7. DOMAIN s = 1 .. Len(s) /\ Len(s) \in Nat
  BY <1>2, LenProperties
<1>8. Reckoned(h, s, S, W)
  BY <1>2, <1>4, <1>5, <1>6, <1>7, Zenon DEF Reckoned
<1> QED
  BY <1>1, <1>8

\* The heap and the calls in progress keep their types.
THEOREM LoweringTypeCorrect == LowSpec /\ Disciplined => []LowTypeOK
<1>1. LowInv => LowTypeOK
  BY DEF LowInv, LowTypeOK, StateOK, CallsOK, Counted
<1> QED
  BY <1>1, LoweringInvariant, PTL

\* Every count is the number of owners, at every step of every call: the
\* lowering emits no Retain, Release, MakeWeak or DropWeak too many or too few.
THEOREM LoweringCountsOwners == LowSpec /\ Disciplined => []OwnersCounted
<1>1. ASSUME LowInv PROVE OwnersCounted
  <2>1. PICK h, s, S, W : h = heap /\ s = stack /\ Reckoned(h, s, S, W)
    BY <1>1, InvFacts
  <2> QED
    BY <2>1 DEF OwnersCounted, Owners, Counted, Reckoned
<1> QED
  BY <1>1, LoweringInvariant, PTL

\* Nothing a call in progress can reach, or a field leads to, has been freed.
THEOREM LoweringNoUseAfterFree == LowSpec /\ Disciplined => []NoUseAfterFree
<1>1. ASSUME LowInv PROVE NoUseAfterFree
  <2>1. PICK h, s, S, W : h = heap /\ s = stack /\ Reckoned(h, s, S, W)
    BY <1>1, InvFacts
  <2>2. \A o \in Objs : (h[o].strong > 0 => h[o].held) /\ (h[o].weak > 0 => h[o].held)
    BY <2>1, CountedAlive DEF Reckoned
  <2>3. ASSUME NEW r, Usable(h, r), r.val # Null
        PROVE  h[r.val].held /\ (r.weak \/ h[r.val].strong > 0)
    BY <2>2, <2>3 DEF Usable
  <2>4. ASSUME NEW i \in 1 .. Len(s), NEW r \in Range(s[i].vars) \cup Range(s[i].eval),
               r.val # Null
        PROVE  h[r.val].held /\ (r.weak \/ h[r.val].strong > 0)
    <3>1. VarsUsable(h, s[i]) /\ EvalUsable(h, s[i])
      BY <2>1, AllUsable DEF Reckoned
    <3>2. s[i] \in Frame
      BY <2>1, ElementOfSeq DEF Reckoned
    <3>3. DOMAIN s[i].vars = 1 .. Len(s[i].vars) /\ DOMAIN s[i].eval = 1 .. Len(s[i].eval)
      BY <3>2, FrameShape
    <3>4. Usable(h, r)
      BY <3>1, <3>3 DEF VarsUsable, EvalUsable, Range
    <3> QED
      BY <2>3, <2>4, <3>4
  <2>5. ASSUME NEW o \in Objs, h[o].next # Null PROVE h[h[o].next].strong > 0
    <3>1. h[o].next \in Objs
      BY <2>1, <2>5 DEF Counted, CountedHeaps, Ref, Reckoned
    <3> QED
      BY <2>1, <3>1, CountedAlive DEF Reckoned
  <2> QED
    BY <2>1, <2>4, <2>5 DEF NoUseAfterFree, Reckoned
<1> QED
  BY <1>1, LoweringInvariant, PTL

\* A program that has ended has given back every block that is not on or
\* behind a cycle.
THEOREM LoweringNothingLeaks == LowSpec /\ Disciplined => []NothingLeaks
<1>1. ASSUME LowInv PROVE NothingLeaks
  <2> SUFFICES ASSUME stack = <<>>, NEW o \in Objs, heap[o].held
               PROVE  \E C \in SUBSET Objs :
                        o \in C /\ \A p \in C : \E q \in C : heap[q].next = p
    BY DEF NothingLeaks
  <2>1. PICK h, s, S, W : h = heap /\ s = stack /\ Reckoned(h, s, S, W)
    BY <1>1, InvFacts
  <2>2. \A p \in Objs : S[p] = 0 /\ W[p] = 0
    BY <2>1, OwnersOfNone DEF Reckoned
  <2>3. PICK C : C = {p \in Objs : h[p].held}
    OBVIOUS
  <2>4. ASSUME NEW p \in C PROVE \E q \in C : h[q].next = p
    <3>1. PICK F : F = {q \in Objs : h[q].next = p}
      OBVIOUS
    <3>2. h[p].strong = 0 + Cardinality(F) /\ (h[p].strong > 0 \/ h[p].weak > 0) /\ h[p].weak = 0
      BY <2>1, <2>2, <2>3, <3>1 DEF Counted, Reckoned
    <3>3. F # {}
      <4>1. Cardinality(F) \in Nat /\ (Cardinality(F) = 0 <=> F = {})
        BY <3>1, ObjsFinite
      <4> QED
        BY <3>2, <4>1
    <3>4. PICK q \in Objs : h[q].next = p
      BY <3>1, <3>3
    <3>5. p # Null
      BY <2>3, CountedHeapAssumption
    <3>6. h[q].strong # 0 /\ h[q].strong \in Nat /\ (h[q].strong > 0 => h[q].held)
      BY <2>1, <3>4, <3>5 DEF Counted, CountedHeaps, Reckoned
    <3> QED
      BY <2>3, <3>4, <3>6
  <2>5. C \in SUBSET Objs /\ o \in C
    BY <2>1, <2>3 DEF Reckoned
  <2> QED
    BY <2>1, <2>4, <2>5 DEF Reckoned
<1> QED
  BY <1>1, LoweringInvariant, PTL

\* What a waiting call owns is alive for as long as it waits.
THEOREM LoweringCallerKeeps == LowSpec /\ Disciplined => []CallerKeeps
<1>1. ASSUME LowInv PROVE CallerKeeps
  <2>1. PICK h, s, S, W : h = heap /\ s = stack /\ Reckoned(h, s, S, W)
    BY <1>1, InvFacts
  <2>2. ASSUME NEW i \in 1 .. Len(s) - 1,
               NEW r \in {s[i].vars[j] : j \in OwnedVars(s[i])} \cup
                         {s[i].eval[j] : j \in OwnedEval(s[i])},
               r.val # Null, ~r.weak
        PROVE  h[r.val].strong > 0
    <3>1. i \in 1 .. Len(s)
      BY <2>1 DEF Reckoned
    <3>2. /\ \A j \in OwnedVars(s[i]) : Usable(h, s[i].vars[j])
          /\ \A j \in OwnedEval(s[i]) : Usable(h, s[i].eval[j])
      BY <2>1, <3>1, OwnedUsable DEF Reckoned
    <3>3. Usable(h, r)
      BY <3>2
    <3> QED
      BY <2>2, <3>3 DEF Usable
  <2> QED
    BY <2>1, <2>2 DEF CallerKeeps, Reckoned
<1> QED
  BY <1>1, LoweringInvariant, PTL
=============================================================================
